---------------------------- MODULE JobLifecycle ----------------------------
(***************************************************************************)
(* What the session queue promises about one extract job, with every       *)
(* mechanism removed: no passes, no leases, no lock, no interleaving.      *)
(* A job is submitted, is attempted at most MaxAttempts times, ends as     *)
(* "done" or "dead_letter", and only a new submission, an operator or a    *)
(* memory reset takes it out of those two states.  SessionQueue implements *)
(* this specification when live passes keep their leases and one pass runs *)
(* at a time.                                                              *)
(***************************************************************************)
EXTENDS Naturals

CONSTANTS Sessions,     \* run ids; one extract job per session
          MaxAttempts   \* session_jobs.max_attempts

VARIABLES status,       \* [Sessions -> Statuses]
          attempts      \* [Sessions -> Nat]

lifecycleVars == <<status, attempts>>

Init == /\ status = [s \in Sessions |-> "absent"]
        /\ attempts = [s \in Sessions |-> 0]

\* A session is queued, or queued again because its content changed.
Submit(s) == /\ status' = [status EXCEPT ![s] = "pending"]
             /\ attempts' = [attempts EXCEPT ![s] = 0]

\* An attempt starts: only on a waiting job, and only while tries remain.
Attempt(s) == /\ status[s] \in {"pending", "failed"}
              /\ attempts[s] < MaxAttempts
              /\ status' = [status EXCEPT ![s] = "running"]
              /\ attempts' = [attempts EXCEPT ![s] = attempts[s] + 1]

\* The attempt in progress ends well.
Succeed(s) == /\ status[s] = "running"
              /\ status' = [status EXCEPT ![s] = "done"]
              /\ UNCHANGED attempts

\* The attempt in progress fails: the last one dead-letters the job.
Fail(s) == /\ status[s] = "running"
           /\ status' = [status EXCEPT ![s] =
                           IF attempts[s] < MaxAttempts THEN "failed"
                                                        ELSE "dead_letter"]
           /\ UNCHANGED attempts

\* An operator restarts failed and dead-lettered jobs.
Restart(S) ==
  /\ \A s \in S : status[s] \in {"failed", "dead_letter"}
  /\ status' = [s \in Sessions |-> IF s \in S THEN "pending" ELSE status[s]]
  /\ attempts' = [s \in Sessions |-> IF s \in S THEN 0 ELSE attempts[s]]

\* An operator gives dead-lettered jobs up.
Abandon(S) ==
  /\ \A s \in S : status[s] = "dead_letter"
  /\ status' = [s \in Sessions |-> IF s \in S THEN "done" ELSE status[s]]
  /\ UNCHANGED attempts

\* A memory reset forgets jobs, whatever became of them.
Forget(S) ==
  /\ status' = [s \in Sessions |-> IF s \in S THEN "absent" ELSE status[s]]
  /\ attempts' = [s \in Sessions |-> IF s \in S THEN 0 ELSE attempts[s]]

Next == \/ \E s \in Sessions :
             Submit(s) \/ Attempt(s) \/ Succeed(s) \/ Fail(s)
        \/ \E S \in SUBSET Sessions : Restart(S) \/ Abandon(S) \/ Forget(S)

Spec == Init /\ [][Next]_lifecycleVars
=============================================================================
