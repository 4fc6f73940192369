----------------------------- MODULE WriterMutex -----------------------------
(***************************************************************************)
(* What the writer lock promises: at most one operation that writes        *)
(* (ingest, curate, memory reset) is between acquire and release, and the  *)
(* lock of a dead process is free.  SessionQueue's variable holder moves   *)
(* by these steps; WriterLock implements them with a file.                 *)
(***************************************************************************)
CONSTANTS Threads,   \* callers of the lock
          NoThread

VARIABLE holder      \* the thread between acquire and release

Init == holder = NoThread

Acquire(t) == holder = NoThread /\ holder' = t

\* The holder releases the lock or its process dies.
Free(t) == holder = t /\ holder' = NoThread

Next == \E t \in Threads : Acquire(t) \/ Free(t)

Spec == Init /\ [][Next]_holder
=============================================================================
