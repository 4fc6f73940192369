--------------------------- MODULE MCSessionQueue ---------------------------
(* Small instances of SessionQueue for TLC. *)
EXTENDS SessionQueue

CONSTANTS s1, s2, s3,  \* sessions
          A, B,        \* projects
          w1, w2,      \* ingest passes
          boot,        \* a serve process starting up
          q1, q2       \* processes

\* s1 and s2 share a project; s2 is the newer one.
MCProjectOf == [s \in Sessions |-> IF s = s3 THEN B ELSE A]
MCStartTime == [s \in Sessions |-> IF s = s1 THEN 1 ELSE IF s = s2 THEN 2 ELSE 3]

\* Two passes in two processes.
MCProcOf == [a \in Passes \cup Starters |-> IF a = w1 THEN q1 ELSE q2]

\* Two passes (daemon thread, API thread) of one serve process.
MCOneProc == [a \in Passes \cup Starters |-> IF a = boot THEN q2 ELSE q1]
=============================================================================
