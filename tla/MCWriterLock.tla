---------------------------- MODULE MCWriterLock ----------------------------
(* Small instances of WriterLock for TLC. *)
EXTENDS WriterLock

CONSTANTS d, h,      \* daemon and HTTP threads of the serve process
          m, n,      \* commands in processes of their own
          P, Q, R    \* their processes

MCProcOf == [t \in Threads |-> IF t \in {d, h} THEN P ELSE IF t = m THEN Q ELSE R]
=============================================================================
