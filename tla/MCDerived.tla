----------------------------- MODULE MCDerived ------------------------------
(* Small instances, side by side, of components that keep several places in  *)
(* step: the copy in the cloud, the generated pages, the graph, the tables   *)
(* of a store.  They share no state here, so a behaviour is a behaviour of   *)
(* one of them while the others have not begun.                              *)
EXTENDS CloudShipper, DerivedArtifacts, ContextGraph, SchemaUpgrade

VARIABLE service   \* which component moves

DerivedVars == <<service, shipVars, artifactVars, graphVars, upgradeVars>>

DerivedInit ==
  /\ service \in {"cloud", "pages", "graph", "schema"}
  /\ ShipInit /\ ArtifactInit /\ GraphInit /\ UpgradeInit
  /\ service = "pages" \/ artifact = "brief"
  /\ service = "schema" \/ era = "fresh"

OnlyMoves(component) ==
  /\ service = component
  /\ UNCHANGED service
  /\ IF component = "cloud" THEN TRUE ELSE UNCHANGED shipVars
  /\ IF component = "pages" THEN TRUE ELSE UNCHANGED artifactVars
  /\ IF component = "graph" THEN TRUE ELSE UNCHANGED graphVars
  /\ IF component = "schema" THEN TRUE ELSE UNCHANGED upgradeVars

DerivedNext ==
  \/ OnlyMoves("cloud") /\ ShipNext
  \/ OnlyMoves("pages") /\ ArtifactNext
  \/ OnlyMoves("graph") /\ GraphNext
  \/ OnlyMoves("schema") /\ UpgradeNext

\* Each component is treated fairly when it is the one that moves.
DerivedSpec ==
  /\ DerivedInit /\ [][DerivedNext]_DerivedVars
  /\ service = "cloud" => ShipFairness
  /\ service = "pages" => ArtifactFairness
  /\ service = "graph" => GraphFairness

\* PageCatchesUp, where pages are generated at all.
PagesCatchUp == service = "pages" => PageCatchesUp
=============================================================================
