---------------------------- MODULE ContextGraph ----------------------------
(***************************************************************************)
(* The graph of the records of a project (agents/context_graph/), rebuilt  *)
(* at the end of every curation: a pass loads the newest active records,   *)
(* finds candidate pairs by search, lets a model link them, and writes     *)
(* nodes and edges in one transaction, minutes after it has loaded.        *)
(* A node or an edge is in these sets when its status is active.           *)
(***************************************************************************)
EXTENDS Naturals, FiniteSets

CONSTANTS
  Facts,        \* durable records of one project
  Relations,    \* SUPPORTED_RELATION_KINDS
  GraphPasses,  \* threads that curate: the writer lock makes it one, a stolen lock two
  GraphLimit    \* CONTEXT_GRAPH_RECORD_LIMIT

ASSUME GraphAssumption == IsFiniteSet(Facts) /\ GraphLimit \in Nat

VARIABLES
  current,  \* active durable records
  nodes,    \* context_nodes
  edges,    \* context_edges
  stageOf,  \* control state of each pass
  window,   \* the records it has loaded
  pairs     \* its candidate pairs

graphVars == <<current, nodes, edges, stageOf, window, pairs>>

Links == {e \in Facts \X Facts \X Relations : e[1] # e[2]}
Pairs == {{e[1], e[2]} : e \in Links}

GraphTypeOK ==
  /\ current \subseteq Facts
  /\ nodes \subseteq Facts
  /\ edges \subseteq Links
  /\ stageOf \in [GraphPasses -> {"idle", "pair", "model"}]
  /\ window \in [GraphPasses -> SUBSET Facts]
  /\ pairs \in [GraphPasses -> SUBSET Pairs]

GraphInit ==
  /\ current = {} /\ nodes = {} /\ edges = {}
  /\ stageOf = [p \in GraphPasses |-> "idle"]
  /\ window = [p \in GraphPasses |-> {}]
  /\ pairs = [p \in GraphPasses |-> {}]

-----------------------------------------------------------------------------
(* Records *)

\* Created, or brought back by a revision.
FactAppears(f) ==
  /\ current' = current \union {f}
  /\ UNCHANGED <<nodes, edges, stageOf, window, pairs>>

\* Archived or superseded.
FactRetires(f) ==
  /\ current' = current \ {f}
  /\ UNCHANGED <<nodes, edges, stageOf, window, pairs>>

\* _reset_memory deletes edges, nodes and records.
GraphReset ==
  /\ current' = {} /\ nodes' = {} /\ edges' = {}
  /\ UNCHANGED <<stageOf, window, pairs>>

-----------------------------------------------------------------------------
(* A pass *)

Forgets(p) ==
  /\ stageOf' = [stageOf EXCEPT ![p] = "idle"]
  /\ window' = [window EXCEPT ![p] = {}]
  /\ pairs' = [pairs EXCEPT ![p] = {}]

\* load_graph_records: the newest active records; any can be the newest.
GraphLoad(p) ==
  /\ stageOf[p] = "idle"
  /\ \E W \in SUBSET current :
       /\ W = current \/ Cardinality(W) = GraphLimit
       /\ Cardinality(W) <= GraphLimit
       /\ window' = [window EXCEPT ![p] = W]
  /\ stageOf' = [stageOf EXCEPT ![p] = "pair"]
  /\ UNCHANGED <<current, nodes, edges, pairs>>

\* build_semantic_candidates: one record of a pair is a hit of the search for
\* the other, so it still is active.
GraphPair(p) ==
  /\ stageOf[p] = "pair"
  /\ \E found \in SUBSET {q \in Pairs : q \subseteq window[p] /\ q \intersect current # {}} :
       pairs' = [pairs EXCEPT ![p] = found]
  /\ stageOf' = [stageOf EXCEPT ![p] = "model"]
  /\ UNCHANGED <<current, nodes, edges, window>>

\* validate_links_for_records
Allowed(p) == {e \in Links : {e[1], e[2]} \in pairs[p]}

\* _archive_graph_rows_without_active_records
Backed(E) == {e \in E : e[1] \in current /\ e[2] \in current}

\* Mutant of GraphWrite: only the window is refreshed.
GraphWriteWindow(p) ==
  /\ stageOf[p] = "model"
  /\ \E kept \in SUBSET Allowed(p) : edges' = (edges \ Allowed(p)) \union kept
  /\ nodes' = nodes \union window[p]
  /\ Forgets(p)
  /\ UNCHANGED current

\* replace_context_graph, in one transaction: rows without active records are
\* archived, then the edges of reviewed pairs that the model did not keep; the
\* nodes of the window and the kept links become active.
GraphWrite(p) ==
  /\ stageOf[p] = "model"
  /\ \E kept \in SUBSET Allowed(p) : edges' = (Backed(edges) \ Allowed(p)) \union kept
  /\ nodes' = (nodes \intersect current) \union window[p]
  /\ Forgets(p)
  /\ UNCHANGED current

\* The budget of model calls is used up, a link is refused to the end, or the
\* process dies.
GraphFails(p) ==
  /\ stageOf[p] # "idle"
  /\ Forgets(p)
  /\ UNCHANGED <<current, nodes, edges>>

GraphNext ==
  \/ \E f \in Facts : FactAppears(f) \/ FactRetires(f)
  \/ GraphReset
  \/ \E p \in GraphPasses :
       GraphLoad(p) \/ GraphPair(p) \/ GraphWrite(p) \/ GraphFails(p)

\* The daemon curates once a day; not every pass fails.
GraphFairness ==
  \A p \in GraphPasses :
    /\ WF_graphVars(GraphLoad(p))
    /\ SF_graphVars(GraphPair(p))
    /\ SF_graphVars(GraphWrite(p))

GraphSpec == GraphInit /\ [][GraphNext]_graphVars /\ GraphFairness

-----------------------------------------------------------------------------
(* Properties *)

\* An active edge joins two active nodes, although a pass writes what it loaded
\* minutes ago and the records may have been retired or reset since.
EdgesJoinNodes == \A e \in edges : e[1] \in nodes /\ e[2] \in nodes

\* A record that stays retired leaves the graph for good, also when it is older
\* than the window or when a pass that had loaded it before writes it again.
OutOfGraph(f) == f \notin nodes /\ \A e \in edges : f \notin {e[1], e[2]}
RetiredLeavesGraph == \A f \in Facts : <>[](f \notin current) => <>[]OutOfGraph(f)
=============================================================================
