----------------------------- MODULE MCDiscovery -----------------------------
(* Small instances of Discovery for TLC. *)
EXTENDS Discovery

CONSTANTS s1, s2,  \* sessions
          A, B     \* their projects

MCProjectOf == [s \in Sessions |-> IF s = s1 THEN A ELSE B]
MCOneProject == [s \in Sessions |-> A]
=============================================================================
