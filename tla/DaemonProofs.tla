---------------------------- MODULE DaemonProofs -----------------------------
(* Theorems about what the daemon does with sessions and settings: discovery *)
(* and indexing, its timers, and the edits of its configuration.             *)
EXTENDS Discovery, DaemonLoop, ProjectSettings, Integers, SequenceTheorems, TLAPS

-----------------------------------------------------------------------------
(* Discovery *)

(* What a reset selects is kept where a pass keeps what it has indexed. *)
TypeInv == TypeOK /\ (pc \notin {"index", "enqueue"} => changed = {})

(* An indexed session has a job, or the pass that indexed it will queue it,  *)
(* or died before it did.                                                    *)
QueuedInv ==
  \A s \in Sessions :
    doc[s] # 0 => \/ status[s] # "absent"
                  \/ pc \in {"index", "enqueue"} /\ s \in details
                  \/ s \in dropped

(* An episode stands for its session's durable records, but while they are   *)
(* being written; a finished job has them, but while a reset deletes it.     *)
LearnedInv ==
  /\ \A s \in Sessions : episode[s] # 0 => learned[s] # 0 \/ (pc = "records" /\ job = s)
  /\ \A s \in Sessions : status[s] = "done" => learned[s] # 0 \/ (pc = "reset" /\ s \in details)
  /\ pc = "records" => episode[job] # 0
  /\ pc = "complete" => learned[job] # 0

(* Nothing holds a version that was never on the disk; a transcript is read  *)
(* no earlier than it was listed, and the ledger records the listing: what   *)
(* is indexed, or will be by this pass, is no older than its ledger entry.   *)
FreshInv ==
  /\ \A s \in Sessions : /\ listed[s] <= disk[s] /\ found[s] <= disk[s]
                         /\ ledger[s] <= disk[s] /\ doc[s] <= disk[s]
  /\ pc \notin {"normalize", "index"} => found = None
  /\ pc = "normalize" => \A s \in Sessions : found[s] # 0 => listed[s] <= found[s]
  /\ pc = "index" => \A s \in Sessions : found[s] # 0 => ledger[s] <= found[s]
  /\ \A s \in Sessions :
       doc[s] # 0 => ledger[s] <= doc[s] \/ (pc = "index" /\ found[s] # 0)
  /\ \A s \in Sessions :
       doc[s] # 0 => /\ ProjectOf[s] \in registered
                     /\ pc \notin {"idle", "reset"} => Scoped(s)
  /\ scope \subseteq registered

-----------------------------------------------------------------------------

LEMMA ResetScopesType == \A S \in ResetScopes : S \subseteq Sessions
  <1>1. SUFFICES ASSUME NEW S \in ResetScopes PROVE S \subseteq Sessions
    OBVIOUS
  <1>2. S = Sessions \/ \E r \in registered : S = {s \in Sessions : ProjectOf[s] = r}
    BY DEF ResetScopes
  <1> QED
    BY <1>2

LEMMA JobsType ==
  ASSUME TypeOK,
         \/ \E s \in Sessions : Queue!Submit(s) \/ Queue!Attempt(s) \/ Queue!Succeed(s)
                                \/ Queue!Fail(s)
         \/ \E S \in SUBSET Sessions : Queue!Restart(S) \/ Queue!Forget(S)
  PROVE  /\ status' \in [Sessions -> {"absent", "pending", "running", "done", "failed",
                                      "dead_letter"}]
         /\ attempts' \in [Sessions -> 0..MaxAttempts]
  <1>1. 0 \in 0..MaxAttempts /\ \A n \in 0..MaxAttempts : n < MaxAttempts => n + 1 \in 0..MaxAttempts
    BY DiscoveryAssumption
  <1>2. ASSUME NEW s \in Sessions, Queue!Submit(s) \/ Queue!Succeed(s) \/ Queue!Fail(s)
        PROVE  /\ status' \in [Sessions -> {"absent", "pending", "running", "done", "failed",
                                            "dead_letter"}]
               /\ attempts' \in [Sessions -> 0..MaxAttempts]
    BY <1>1, <1>2 DEF TypeOK, Queue!Submit, Queue!Succeed, Queue!Fail
  <1>3. ASSUME NEW s \in Sessions, Queue!Attempt(s)
        PROVE  /\ status' \in [Sessions -> {"absent", "pending", "running", "done", "failed",
                                            "dead_letter"}]
               /\ attempts' \in [Sessions -> 0..MaxAttempts]
    <2>1. attempts[s] + 1 \in 0..MaxAttempts
      BY <1>1, <1>3 DEF TypeOK, Queue!Attempt
    <2> QED
      BY <1>3, <2>1 DEF TypeOK, Queue!Attempt
  <1>4. ASSUME NEW S \in SUBSET Sessions, Queue!Restart(S) \/ Queue!Forget(S)
        PROVE  /\ status' \in [Sessions -> {"absent", "pending", "running", "done", "failed",
                                            "dead_letter"}]
               /\ attempts' \in [Sessions -> 0..MaxAttempts]
    BY <1>1, <1>4 DEF TypeOK, Queue!Restart, Queue!Forget
  <1> QED
    BY <1>2, <1>3, <1>4

LEMMA DiscoveryTypeNext == TypeInv /\ [Next]_vars => TypeInv'
  <1> SUFFICES ASSUME TypeOK, pc \notin {"index", "enqueue"} => changed = {}, [Next]_vars
               PROVE TypeInv'
    BY DEF TypeInv
  <1> USE DEF passVars, stores, jobs, context
  <1>1. None \in [Sessions -> Versions] /\ 0 \in Versions
    BY DiscoveryAssumption DEF None, Versions
  <1>2. ASSUME NEW k, Disturb(k) PROVE budget' \in 0..Budget
    BY <1>2, DiscoveryAssumption DEF Disturb, TypeOK
  <1>3. Finish => /\ pc' = "idle" /\ scope' \in SUBSET Projects
                  /\ listed' \in [Sessions -> Versions] /\ found' \in [Sessions -> Versions]
                  /\ details' = {} /\ changed' = {} /\ job' = NoSession
    BY <1>1 DEF Finish
  <1>4. CASE Begin
    BY <1>4 DEF TypeInv, Begin, TypeOK
  <1>5. CASE List
    BY <1>1, <1>5 DEF TypeInv, List, TypeOK
  <1>6. CASE SaveLedger
    BY <1>1, <1>6 DEF TypeInv, SaveLedger, TypeOK
  <1>7. CASE IndexDone \/ EnqueueDone
    BY <1>7 DEF TypeInv, IndexDone, EnqueueDone, TypeOK
  <1>8. CASE Extract \/ WriteRecords
    BY <1>8 DEF TypeInv, Extract, WriteRecords, TypeOK
  <1>9. CASE Complete \/ ExtractFails
    <2>1. job \in Sessions
      BY <1>9 DEF TypeInv, Complete, ExtractFails, TypeOK
    <2> QED
      BY <1>9, <2>1, JobsType DEF TypeInv, Complete, ExtractFails, TypeOK
  <1>10. CASE EndPass
    BY <1>3, <1>10 DEF TypeInv, EndPass, TypeOK
  <1>11. CASE ResetSessions
    <2>1. Queue!Forget(details) /\ details \in SUBSET Sessions
      BY <1>11 DEF TypeInv, ResetSessions, TypeOK
    <2> QED
      BY <1>1, <1>3, <1>11, <2>1, JobsType DEF TypeInv, ResetSessions, TypeOK
  <1>12. ASSUME NEW s \in Sessions, Normalize(s) PROVE TypeInv'
    BY <1>12 DEF TypeInv, Normalize, TypeOK
  <1>13. ASSUME NEW s \in Sessions, IndexSession(s) PROVE TypeInv'
    BY <1>1, <1>13 DEF TypeInv, IndexSession, TypeOK
  <1>14. ASSUME NEW s \in Sessions, Enqueue(s) PROVE TypeInv'
    <2>1. /\ status' \in [Sessions -> {"absent", "pending", "running", "done", "failed",
                                       "dead_letter"}]
          /\ attempts' \in [Sessions -> 0..MaxAttempts]
      BY <1>14, JobsType DEF TypeInv, Enqueue, TypeOK
    <2> QED
      BY <1>14, <2>1 DEF TypeInv, Enqueue, TypeOK
  <1>15. ASSUME NEW s \in Sessions, Reap(s) PROVE TypeInv'
    BY <1>15, JobsType DEF TypeInv, Reap, TypeOK
  <1>16. ASSUME NEW s \in Sessions, Claim(s) PROVE TypeInv'
    BY <1>16, JobsType, DiscoveryAssumption DEF TypeInv, Claim, TypeOK
  <1>17. CASE Crash
    BY <1>2, <1>3, <1>17 DEF TypeInv, Crash, TypeOK
  <1>18. CASE WriteFails
    BY <1>2, <1>18 DEF TypeInv, WriteFails, TypeOK
  <1>19. ASSUME NEW s \in Sessions, NormalizeFails(s) \/ IndexError(s) \/ LoseCache(s) PROVE TypeInv'
    BY <1>1, <1>2, <1>19 DEF TypeInv, NormalizeFails, IndexError, LoseCache, TypeOK
  <1>20. ASSUME NEW s \in Sessions, AppendTurns(s) PROVE TypeInv'
    <2>1. disk[s] + 1 \in Versions
      BY <1>20, DiscoveryAssumption DEF TypeInv, AppendTurns, TypeOK, Versions
    <2> QED
      BY <1>20, <2>1 DEF TypeInv, AppendTurns, TypeOK
  <1>21. ASSUME NEW s \in Sessions, Retry(s) PROVE TypeInv'
    BY <1>2, <1>21, JobsType DEF TypeInv, Retry, TypeOK
  <1>22. ASSUME NEW r \in Projects, Register(r) \/ Unregister(r) PROVE TypeInv'
    BY <1>2, <1>22 DEF TypeInv, Register, Unregister, TypeOK
  <1>23. ASSUME NEW S \in ResetScopes, ResetContext(S) PROVE TypeInv'
    <2>1. S \in SUBSET Sessions
      BY ResetScopesType
    <2>2. changed' = changed /\ details' = S /\ changed \subseteq S
      BY <1>23 DEF TypeInv, ResetContext, TypeOK
    <2> QED
      BY <1>1, <1>2, <1>23, <2>1, <2>2 DEF TypeInv, ResetContext, TypeOK
  <1>24. CASE UNCHANGED vars
    BY <1>24 DEF TypeInv, vars, TypeOK
  <1> QED
    BY <1>4, <1>5, <1>6, <1>7, <1>8, <1>9, <1>10, <1>11, <1>12, <1>13, <1>14, <1>15, <1>16,
       <1>17, <1>18, <1>19, <1>20, <1>21, <1>22, <1>23, <1>24 DEF TypeInv, Next, PassStep

LEMMA DiscoveryTypeInit == Init => TypeInv
  <1>1. None \in [Sessions -> Versions]
    BY DiscoveryAssumption DEF None, Versions
  <1>2. 0 \in 0..MaxAttempts /\ Budget \in 0..Budget
    BY DiscoveryAssumption
  <1>3. ASSUME Queue!Init
        PROVE  /\ status \in [Sessions -> {"absent", "pending", "running", "done", "failed",
                                           "dead_letter"}]
               /\ attempts \in [Sessions -> 0..MaxAttempts]
    BY <1>2, <1>3 DEF Queue!Init
  <1> QED
    BY <1>1, <1>2, <1>3 DEF Init, TypeOK, TypeInv

(* Whatever fails on the way, every store and what an operation holds in     *)
(* memory keep their types: no job is attempted more often than MaxAttempts, *)
(* only indexed sessions count as changed, and who extracts has claimed.     *)
THEOREM DiscoveryType == Spec => []TypeOK
  <1>1. TypeInv => TypeOK
    BY DEF TypeInv
  <1> QED
    BY <1>1, DiscoveryTypeInit, DiscoveryTypeNext, PTL DEF Spec

-----------------------------------------------------------------------------
(* Every indexed session has a job *)

LEMMA QueuedNext == TypeOK /\ QueuedInv /\ [Next]_vars => QueuedInv'
  <1> SUFFICES ASSUME TypeOK, QueuedInv, [Next]_vars PROVE QueuedInv'
    OBVIOUS
  <1> USE DEF passVars, stores, jobs, context
  <1>1. CASE Begin \/ List \/ SaveLedger \/ IndexDone
    BY <1>1 DEF Begin, List, SaveLedger, IndexDone, QueuedInv
  <1>2. CASE EnqueueDone
    BY <1>2 DEF EnqueueDone, QueuedInv
  <1>3. CASE Extract \/ WriteRecords \/ WriteFails
    BY <1>3 DEF Extract, WriteRecords, WriteFails, QueuedInv
  <1>4. CASE Complete \/ ExtractFails
    BY <1>4 DEF Complete, ExtractFails, QueuedInv, TypeOK, Queue!Succeed, Queue!Fail
  <1>5. CASE EndPass
    BY <1>5 DEF EndPass, Finish, QueuedInv
  <1>6. CASE ResetSessions
    BY <1>6 DEF ResetSessions, Finish, QueuedInv, Queue!Forget
  <1>7. ASSUME NEW s \in Sessions, Normalize(s) \/ NormalizeFails(s) PROVE QueuedInv'
    BY <1>7 DEF Normalize, NormalizeFails, QueuedInv
  <1>8. ASSUME NEW s \in Sessions, IndexSession(s) \/ IndexError(s) PROVE QueuedInv'
    BY <1>8 DEF IndexSession, IndexError, QueuedInv, TypeOK
  <1>9. ASSUME NEW s \in Sessions, Enqueue(s) PROVE QueuedInv'
    BY <1>9 DEF Enqueue, Wanted, Queue!Submit, QueuedInv, TypeOK
  <1>10. ASSUME NEW s \in Sessions, Reap(s) \/ Claim(s) PROVE QueuedInv'
    BY <1>10 DEF Reap, Claim, Queue!Fail, Queue!Attempt, QueuedInv, TypeOK
  <1>11. CASE Crash
    BY <1>11 DEF Crash, Finish, QueuedInv
  <1>12. ASSUME NEW s \in Sessions, AppendTurns(s) \/ LoseCache(s) PROVE QueuedInv'
    BY <1>12 DEF AppendTurns, LoseCache, QueuedInv
  <1>13. ASSUME NEW s \in Sessions, Retry(s) PROVE QueuedInv'
    BY <1>13 DEF Retry, Queue!Restart, QueuedInv
  <1>14. ASSUME NEW r \in Projects, Register(r) \/ Unregister(r) PROVE QueuedInv'
    BY <1>14 DEF Register, Unregister, QueuedInv
  <1>15. ASSUME NEW S \in ResetScopes, ResetContext(S) PROVE QueuedInv'
    BY <1>15 DEF ResetContext, QueuedInv
  <1>16. CASE UNCHANGED vars
    BY <1>16 DEF vars, QueuedInv
  <1> QED
    BY <1>1, <1>2, <1>3, <1>4, <1>5, <1>6, <1>7, <1>8, <1>9, <1>10, <1>11, <1>12, <1>13, <1>14,
       <1>15, <1>16 DEF Next, PassStep

(* Whatever fails - normalization, the index, the context store, an          *)
(* extraction, a process - and however often: a session that is indexed and  *)
(* has no job was indexed by a pass that died before it queued it.  Indexing *)
(* and queueing are two commits and nothing looks at an unchanged session    *)
(* again, so those are lost; a session that fails to be read or indexed      *)
(* costs no other session its job, and a reset leaves no document without    *)
(* one (index_new_sessions, run_ingest_once and reset_all_session_state).    *)
THEOREM IndexedHasJob == Spec => []OnlyDroppedHaveNoJob
  <1>1. Init => QueuedInv
    BY DEF Init, QueuedInv, None
  <1>2. QueuedInv => OnlyDroppedHaveNoJob
    BY DEF QueuedInv, OnlyDroppedHaveNoJob
  <1>3. TypeInv => TypeOK
    BY DEF TypeInv
  <1> QED
    BY <1>1, <1>2, <1>3, QueuedNext, DiscoveryTypeInit, DiscoveryTypeNext, PTL DEF Spec

-----------------------------------------------------------------------------
(* What is done is learned *)

LEMMA LearnedNext ==
  ASSUME Faults \cap {"crash", "write"} = {}
  PROVE  TypeOK /\ LearnedInv /\ [Next]_vars => LearnedInv'
  <1> SUFFICES ASSUME TypeOK, LearnedInv, [Next]_vars PROVE LearnedInv'
    OBVIOUS
  <1> USE DEF passVars, stores, jobs, context
  <1>1. CASE Begin \/ List \/ SaveLedger \/ IndexDone \/ EnqueueDone
    BY <1>1 DEF Begin, List, SaveLedger, IndexDone, EnqueueDone, LearnedInv
  <1>2. CASE Extract
    <2>1. job \in Sessions
      BY <1>2 DEF Extract, TypeOK
    <2> QED
      BY <1>2, <2>1 DEF Extract, LearnedInv, TypeOK
  <1>3. CASE WriteRecords
    <2>1. job \in Sessions
      BY <1>3 DEF WriteRecords, TypeOK
    <2> QED
      BY <1>3, <2>1 DEF WriteRecords, LearnedInv, TypeOK
  <1>4. CASE Complete \/ ExtractFails
    <2>1. job \in Sessions
      BY <1>4 DEF Complete, ExtractFails, TypeOK
    <2> QED
      BY <1>4, <2>1 DEF Complete, ExtractFails, Queue!Succeed, Queue!Fail, LearnedInv, TypeOK
  <1>5. CASE EndPass
    BY <1>5 DEF EndPass, Finish, LearnedInv
  <1>6. CASE ResetSessions
    BY <1>6 DEF ResetSessions, Finish, Queue!Forget, LearnedInv
  <1>7. ASSUME NEW s \in Sessions, Normalize(s) \/ NormalizeFails(s) PROVE LearnedInv'
    BY <1>7 DEF Normalize, NormalizeFails, LearnedInv
  <1>8. ASSUME NEW s \in Sessions, IndexSession(s) \/ IndexError(s) PROVE LearnedInv'
    BY <1>8 DEF IndexSession, IndexError, LearnedInv
  <1>9. ASSUME NEW s \in Sessions, Enqueue(s) PROVE LearnedInv'
    BY <1>9 DEF Enqueue, Queue!Submit, LearnedInv, TypeOK
  <1>10. ASSUME NEW s \in Sessions, Reap(s) \/ Claim(s) PROVE LearnedInv'
    BY <1>10 DEF Reap, Claim, Queue!Fail, Queue!Attempt, LearnedInv, TypeOK
  <1>11. ~Crash /\ ~WriteFails
    BY DEF Crash, WriteFails, Disturb
  <1>12. ASSUME NEW s \in Sessions, AppendTurns(s) \/ LoseCache(s) PROVE LearnedInv'
    BY <1>12 DEF AppendTurns, LoseCache, LearnedInv
  <1>13. ASSUME NEW s \in Sessions, Retry(s) PROVE LearnedInv'
    BY <1>13 DEF Retry, Queue!Restart, LearnedInv
  <1>14. ASSUME NEW r \in Projects, Register(r) \/ Unregister(r) PROVE LearnedInv'
    BY <1>14 DEF Register, Unregister, LearnedInv
  <1>15. ASSUME NEW S \in ResetScopes, ResetContext(S) PROVE LearnedInv'
    BY <1>15 DEF ResetContext, LearnedInv
  <1>16. CASE UNCHANGED vars
    BY <1>16 DEF vars, LearnedInv
  <1> QED
    BY <1>1, <1>2, <1>3, <1>4, <1>5, <1>6, <1>7, <1>8, <1>9, <1>10, <1>11, <1>12, <1>13, <1>14,
       <1>15, <1>16 DEF Next, PassStep

(* A job that is done has taught the context store its session, and no reset *)
(* leaves it done with nothing learned: the two databases agree between      *)
(* operations as long as no operation dies between its commits and no record *)
(* is rejected.  That an episode stands for its session's records is what    *)
(* lets a second extraction be skipped (persist_synthesized_extraction).     *)
THEOREM DoneHasLearned ==
  ASSUME Faults \cap {"crash", "write"} = {} PROVE Spec => []DoneIsLearned
  <1>1. Init => LearnedInv
    BY DEF Init, LearnedInv, None, Queue!Init
  <1>2. LearnedInv => DoneIsLearned
    BY DEF LearnedInv, DoneIsLearned
  <1>3. TypeInv => TypeOK
    BY DEF TypeInv
  <1> QED
    BY <1>1, <1>2, <1>3, LearnedNext, DiscoveryTypeInit, DiscoveryTypeNext, PTL DEF Spec

-----------------------------------------------------------------------------
(* What a pass skips has not changed *)

LEMMA FreshNext ==
  ASSUME Faults \cap {"crash", "index", "unregister"} = {}
  PROVE  TypeOK /\ FreshInv /\ [Next]_vars => FreshInv'
  <1> SUFFICES ASSUME TypeOK, FreshInv, [Next]_vars PROVE FreshInv'
    OBVIOUS
  <1> USE DEF passVars, stores, jobs, context
  <1>1. /\ \A s \in Sessions : /\ listed[s] \in Nat /\ found[s] \in Nat /\ disk[s] \in Nat
                               /\ ledger[s] \in Nat /\ doc[s] \in Nat
        /\ \A n \in Nat : 0 <= n /\ n <= n
    BY DiscoveryAssumption DEF TypeOK, Versions
  <1>2. CASE Begin
    BY <1>2 DEF Begin, FreshInv, Scoped
  <1>3. CASE List
    BY <1>1, <1>3 DEF List, FreshInv, Scoped, None
  <1>4. CASE SaveLedger
    BY <1>1, <1>4 DEF SaveLedger, FreshInv, Scoped
  <1>5. CASE IndexDone
    BY <1>5 DEF IndexDone, FreshInv, Scoped, None
  <1>6. CASE EnqueueDone \/ Extract \/ WriteRecords \/ WriteFails
    BY <1>6 DEF EnqueueDone, Extract, WriteRecords, WriteFails, FreshInv, Scoped
  <1>7. CASE Complete \/ ExtractFails
    BY <1>7 DEF Complete, ExtractFails, FreshInv, Scoped
  <1>8. CASE EndPass
    BY <1>1, <1>8 DEF EndPass, Finish, FreshInv, Scoped, None
  <1>9. CASE ResetSessions
    BY <1>1, <1>9 DEF ResetSessions, Finish, FreshInv, Scoped, None
  <1>10. ASSUME NEW s \in Sessions, Normalize(s) PROVE FreshInv'
    BY <1>1, <1>10 DEF Normalize, FreshInv, Scoped, TypeOK
  <1>11. ASSUME NEW s \in Sessions, NormalizeFails(s) PROVE FreshInv'
    BY <1>1, <1>11 DEF NormalizeFails, FreshInv, Scoped, TypeOK
  <1>12. ASSUME NEW s \in Sessions, IndexSession(s) PROVE FreshInv'
    BY <1>1, <1>12 DEF IndexSession, FreshInv, Scoped, TypeOK
  <1>13. \A s \in Sessions : ~IndexError(s)
    BY DEF IndexError, Disturb
  <1>14. ASSUME NEW s \in Sessions, Enqueue(s) PROVE FreshInv'
    BY <1>14 DEF Enqueue, FreshInv, Scoped
  <1>15. ASSUME NEW s \in Sessions, Reap(s) \/ Claim(s) PROVE FreshInv'
    BY <1>15 DEF Reap, Claim, FreshInv, Scoped
  <1>16. ~Crash
    BY DEF Crash, Disturb
  <1>17. ASSUME NEW s \in Sessions, AppendTurns(s) PROVE FreshInv'
    <2>1. \A t \in Sessions : disk[t] <= disk'[t]
      BY <1>1, <1>17 DEF AppendTurns, TypeOK
    <2>2. \A t \in Sessions, n \in Nat : n <= disk[t] => n <= disk'[t]
      BY <1>1, <1>17, <2>1 DEF AppendTurns, TypeOK
    <2> QED
      BY <1>1, <1>17, <2>2 DEF AppendTurns, FreshInv, Scoped
  <1>18. ASSUME NEW s \in Sessions, LoseCache(s) \/ Retry(s) PROVE FreshInv'
    BY <1>18 DEF LoseCache, Retry, FreshInv, Scoped
  <1>19. ASSUME NEW r \in Projects, Register(r) PROVE FreshInv'
    BY <1>19 DEF Register, FreshInv, Scoped
  <1>20. \A r \in Projects : ~Unregister(r)
    BY DEF Unregister, Disturb
  <1>21. ASSUME NEW S \in ResetScopes, ResetContext(S) PROVE FreshInv'
    BY <1>21 DEF ResetContext, FreshInv, Scoped
  <1>22. CASE UNCHANGED vars
    BY <1>22 DEF vars, FreshInv, Scoped
  <1> QED
    BY <1>2, <1>3, <1>4, <1>5, <1>6, <1>7, <1>8, <1>9, <1>10, <1>11, <1>12, <1>13, <1>14,
       <1>15, <1>16, <1>17, <1>18, <1>19, <1>20, <1>21, <1>22 DEF Next, PassStep

(* The shortcut of _listings_to_normalize is sound: a transcript that is     *)
(* listed as its ledger entry says, and whose session is indexed, is indexed *)
(* in the version on the disk, however often it grew while a pass was        *)
(* listing, reading and indexing it.  What can break the rule is an indexing *)
(* that dies or fails after the ledger is saved, or a project that was       *)
(* removed while its ledger entries were kept.                               *)
THEOREM SkippedStaysUnchanged ==
  ASSUME Faults \cap {"crash", "index", "unregister"} = {}
  PROVE  Spec => []SkippedIsUnchanged
  <1>1. Init => FreshInv
    BY DEF Init, FreshInv, None
  <1>2. TypeOK /\ FreshInv => SkippedIsUnchanged
    BY DiscoveryAssumption DEF TypeOK, Versions, FreshInv, SkippedIsUnchanged
  <1>3. TypeInv => TypeOK
    BY DEF TypeInv
  <1> QED
    BY <1>1, <1>2, <1>3, FreshNext, DiscoveryTypeInit, DiscoveryTypeNext, PTL DEF Spec

-----------------------------------------------------------------------------
(* DaemonLoop *)

Attempts == [exit : {"ok", "failed", "busy", "raised"}, at : Nat]

(* When an operation is due again: after the short retry if it found the     *)
(* writer lock held, after its interval otherwise.                           *)
NextTry(op) ==
  ended[op].at + IF ended[op].exit = "busy" THEN BusyRetry ELSE Interval[op]

(* The anchor of every timer lies early enough, at every point of a turn.    *)
DaemonInv ==
  /\ DaemonTypeOK
  /\ ended \in [DOMAIN Interval -> Attempts]
  /\ \A op \in DOMAIN Interval : lastRun[op] + Interval[op] <= NextTry(op)
  /\ BusyIsRetriedSoon

LEMMA IntervalType == /\ DOMAIN Interval = {"ingest", "curate", "daily"}
                      /\ \A op \in DOMAIN Interval : Interval[op] \in Nat \ {0}
  BY DaemonAssumption DEF Interval

LEMMA OperationName ==
  ASSUME NEW i \in DOMAIN Operations PROVE i \in 1..3 /\ Operations[i] \in DOMAIN Interval
  BY DEF Operations, Interval

LEMMA EarliestIsLeast ==
  ASSUME NEW a \in Int, NEW b \in Int, NEW c \in Int, NEW S, S = {a, b, c}
  PROVE  Earliest(S) \in Int /\ \A t \in S : Earliest(S) <= t
  <1>1. \E t \in S : \A u \in S : t <= u
    OBVIOUS
  <1> QED
    BY <1>1 DEF Earliest

(* The anchor that an attempt leaves, for every exit and time of its end. *)
LEMMA AnchorType ==
  ASSUME NEW op \in DOMAIN Interval, NEW finished \in Nat, NEW exit
  PROVE  /\ DaemonLastRunAfterAttempt(op, finished, exit) \in Int
         /\ DaemonLastRunAfterAttempt(op, finished, exit) <= finished
         /\ exit = "busy" =>
              DaemonLastRunAfterAttempt(op, finished, exit) + Interval[op] <= finished + BusyRetry
  BY IntervalType, DaemonAssumption DEF DaemonLastRunAfterAttempt, Lower

(* Whatever an attempt ends with, an anchor that is right for it keeps the   *)
(* invariant.                                                                *)
LEMMA AttemptKeepsInv ==
  ASSUME DaemonInv, NEW i \in DOMAIN Operations, Operation(i),
         NEW exit \in {"ok", "failed", "busy", "raised"}, Took(Operations[i], exit),
         NEW anchor \in Int, lastRun' = [lastRun EXCEPT ![Operations[i]] = anchor],
         anchor <= clock',
         exit = "busy" => anchor + Interval[Operations[i]] <= clock' + BusyRetry,
         code' \in {"unset", "ok", "failed", "busy"},
         summaries' \subseteq {"summary", "details"},
         turn' = i + 1, UNCHANGED <<now, wakeAt>>
  PROVE  DaemonInv'
  <1> DEFINE op == Operations[i]
  <1>1. i \in 1..3 /\ op \in DOMAIN Interval
    BY OperationName
  <1>2. clock' \in Nat /\ clock' >= clock
    BY DaemonAssumption DEF Took, DaemonInv, DaemonTypeOK
  <1>3. ended' = [ended EXCEPT ![op] = [exit |-> exit, at |-> clock']]
    BY DEF Took
  <1>4. DaemonTypeOK'
    BY <1>1, <1>2 DEF DaemonInv, DaemonTypeOK
  <1>5. ended' \in [DOMAIN Interval -> Attempts]
    BY <1>1, <1>2, <1>3 DEF DaemonInv, Attempts
  <1>6. ended'[op].at = clock' /\ ended'[op].exit = exit /\ lastRun'[op] = anchor
    BY <1>1, <1>3 DEF DaemonInv, DaemonTypeOK
  <1>7. lastRun'[op] + Interval[op] <= NextTry(op)'
    BY <1>1, <1>2, <1>6, IntervalType, DaemonAssumption DEF NextTry
  <1>8. ASSUME NEW o \in DOMAIN Interval, o # op
        PROVE  lastRun'[o] + Interval[o] <= NextTry(o)'
    BY <1>3, <1>8 DEF DaemonInv, DaemonTypeOK, NextTry
  <1>9. BusyIsRetriedSoon'
    BY <1>1 DEF BusyIsRetriedSoon
  <1> QED
    BY <1>4, <1>5, <1>7, <1>8, <1>9 DEF DaemonInv

LEMMA DaemonInitial == DaemonInit => DaemonInv
  BY IntervalType, DaemonAssumption
     DEF DaemonInit, DaemonInv, DaemonTypeOK, Attempts, NextTry, BusyIsRetriedSoon

(* The loop sleeps no longer than to the first anchor's next time. *)
LEMMA SleepIsShort == ASSUME DaemonInv, ShipToCloudOnce PROVE DaemonInv'
  <1>1. /\ lastRun["ingest"] + Interval["ingest"] \in Int
        /\ lastRun["curate"] + Interval["curate"] \in Int
        /\ lastRun["daily"] + Interval["daily"] \in Int
    BY IntervalType DEF DaemonInv, DaemonTypeOK
  <1>2. NextTimes = {lastRun["ingest"] + Interval["ingest"],
                 lastRun["curate"] + Interval["curate"],
                 lastRun["daily"] + Interval["daily"]}
    BY IntervalType DEF NextTimes
  <1>3. PICK e \in Int : e = Earliest(NextTimes) /\ \A t \in NextTimes : e <= t
    BY <1>1, <1>2, EarliestIsLeast
  <1>4. clock' \in Nat
    BY DaemonAssumption DEF ShipToCloudOnce, DaemonInv, DaemonTypeOK
  <1>5. wakeAt' = Higher(clock' + 1, e)
    BY <1>3 DEF ShipToCloudOnce
  <1>6. wakeAt' \in Nat
    <2>1. \A t \in Nat : Higher(t + 1, e) \in Nat
      BY DEF Higher
    <2> QED
      BY <1>4, <1>5, <2>1
  <1>7. ASSUME NEW op \in DOMAIN Interval
        PROVE  wakeAt' <= Higher(clock' + 1, NextTry(op)')
    <2>1. e <= lastRun[op] + Interval[op]
      BY <1>3 DEF NextTimes
    <2>2. NextTry(op)' = NextTry(op) /\ NextTry(op) \in Int
      BY IntervalType, DaemonAssumption DEF ShipToCloudOnce, NextTry, DaemonInv, Attempts
    <2>3. lastRun[op] + Interval[op] \in Int /\ lastRun[op] + Interval[op] <= NextTry(op)
      BY IntervalType DEF DaemonInv, DaemonTypeOK
    <2> QED
      BY <1>3, <1>4, <1>5, <2>1, <2>2, <2>3 DEF Higher
  <1>8. BusyIsRetriedSoon'
    BY <1>7 DEF BusyIsRetriedSoon, NextTry
  <1>9. DaemonTypeOK'
    BY <1>4, <1>6 DEF ShipToCloudOnce, DaemonInv, DaemonTypeOK
  <1> QED
    BY <1>8, <1>9 DEF ShipToCloudOnce, DaemonInv, NextTry

LEMMA DaemonStep == DaemonInv /\ [DaemonNext]_daemonVars => DaemonInv'
  <1> SUFFICES ASSUME DaemonInv, [DaemonNext]_daemonVars PROVE DaemonInv'
    OBVIOUS
  <1>1. ASSUME NEW i \in DOMAIN Operations, NotDue(i) PROVE DaemonInv'
    BY <1>1, OperationName
       DEF NotDue, Operation, DaemonInv, DaemonTypeOK, NextTry, BusyIsRetriedSoon
  <1>2. ASSUME NEW i \in DOMAIN Operations, NEW exit \in {"ok", "failed", "busy"},
               OperationReturns(i, exit)
        PROVE  DaemonInv'
    <2> DEFINE op == Operations[i]
    <2>1. op \in DOMAIN Interval /\ clock' \in Nat
      BY <1>2, OperationName, DaemonAssumption DEF OperationReturns, Took, DaemonInv, DaemonTypeOK
    <2>2. code' \in {"unset", "ok", "failed", "busy"} /\ summaries' \subseteq {"summary", "details"}
      BY <1>2, <2>1 DEF OperationReturns, Result, DaemonInv, DaemonTypeOK
    <2> QED
      BY <1>2, <2>1, <2>2, AnchorType, AttemptKeepsInv DEF OperationReturns
  <1>3. ASSUME NEW i \in DOMAIN Operations, OperationRaises(i) PROVE DaemonInv'
    <2>1. clock' \in Nat
      BY <1>3, DaemonAssumption DEF OperationRaises, Took, DaemonInv, DaemonTypeOK
    <2>2. code' \in {"unset", "ok", "failed", "busy"} /\ summaries' \subseteq {"summary", "details"}
      BY <1>3 DEF OperationRaises, AfterRaise, Result, DaemonInv, DaemonTypeOK
    <2>3. "raised" \in {"ok", "failed", "busy", "raised"} /\ "raised" # "busy"
      OBVIOUS
    <2>4. /\ Operation(i) /\ Took(Operations[i], "raised") /\ turn' = i + 1
          /\ lastRun' = [lastRun EXCEPT ![Operations[i]] = clock'] /\ UNCHANGED <<now, wakeAt>>
      BY <1>3 DEF OperationRaises
    <2>5. clock' \in Int /\ clock' <= clock'
      BY <2>1
    <2> QED
      BY <2>2, <2>3, <2>4, <2>5, AttemptKeepsInv
  <1>4. ASSUME NEW i \in DOMAIN Operations, RaisesUnseen(i) PROVE DaemonInv'
    <2> DEFINE op == Operations[i]
    <2>1. op \in DOMAIN Interval /\ clock' \in Nat
      BY <1>4, OperationName, DaemonAssumption DEF RaisesUnseen, Took, DaemonInv, DaemonTypeOK
    <2>2. code' \in {"unset", "ok", "failed", "busy"} /\ summaries' \subseteq {"summary", "details"}
      BY <1>4 DEF RaisesUnseen, AfterRaise, Result, DaemonInv, DaemonTypeOK
    <2>3. PICK anchor \in {clock', DaemonLastRunAfterAttempt(op, clock', code)} :
            lastRun' = [lastRun EXCEPT ![op] = anchor]
      BY <1>4 DEF RaisesUnseen
    <2>4. anchor \in Int /\ anchor <= clock'
      BY <2>1, <2>3, AnchorType
    <2> QED
      BY <1>4, <2>2, <2>3, <2>4, AttemptKeepsInv DEF RaisesUnseen
  <1>5. CASE ShipToCloudOnce
    BY <1>5, SleepIsShort
  <1>6. CASE Wake
    BY <1>6 DEF Wake, Higher, DaemonInv, DaemonTypeOK, NextTry, BusyIsRetriedSoon
  <1>7. CASE UNCHANGED daemonVars
    BY <1>7 DEF daemonVars, DaemonInv, DaemonTypeOK, NextTry, BusyIsRetriedSoon
  <1> QED
    BY <1>1, <1>2, <1>3, <1>4, <1>5, <1>6, <1>7 DEF DaemonNext

(* Whatever the operations take and however they end, with exceptions that   *)
(* are swallowed and exit codes that are stale, the loop sleeps no longer    *)
(* than to the retry of what found the lock held, or to the next interval.   *)
THEOREM BusyRetriedSoon == DaemonSpec => [](DaemonTypeOK /\ BusyIsRetriedSoon)
  <1>1. DaemonInv => DaemonTypeOK /\ BusyIsRetriedSoon
    BY DEF DaemonInv
  <1> QED
    BY <1>1, DaemonInitial, DaemonStep, PTL DEF DaemonSpec

-----------------------------------------------------------------------------
(* ProjectSettings *)

(* The key with a hash belongs to one directory. *)
HashedKeys(projects) ==
  \A d \in Dirs : <<BaseOf[d], d>> \in DOMAIN projects => projects[<<BaseOf[d], d>>] = d

(* A key under which a directory can be entered without displacing another. *)
KeyFits(k, d, projects) ==
  /\ k \in DOMAIN projects => projects[k] = d
  /\ \A e \in Dirs : k = <<BaseOf[e], e>> => e = d

LEMMA KeyConcat == ASSUME NEW x, NEW y PROVE <<x>> \o <<y>> = <<x, y>>
  <1> DEFINE S == {x, y}
             s == <<x>>
             t == <<y>>
             u == <<x, y>>
  <1>1. s \in Seq(S) /\ t \in Seq(S) /\ u \in Seq(S) /\ Len(s) = 1 /\ Len(t) = 1 /\ Len(u) = 2
    OBVIOUS
  <1>2. s[1] = x /\ t[1] = y /\ u[1] = x /\ u[2] = y
    OBVIOUS
  <1> HIDE DEF S, s, t, u
  <1>3. /\ s \o t \in Seq(S) /\ Len(s \o t) = Len(s) + Len(t)
        /\ \A i \in 1..Len(s) + Len(t) :
             (s \o t)[i] = IF i <= Len(s) THEN s[i] ELSE t[i - Len(s)]
    BY <1>1, ConcatProperties, Zenon
  <1>4. /\ 1 \in 1..Len(s) + Len(t) /\ 1 <= Len(s)
        /\ 2 \in 1..Len(s) + Len(t) /\ ~(2 <= Len(s)) /\ 2 - Len(s) = 1
        /\ Len(s) + Len(t) = 2
        /\ \A i \in 1..2 : i = 1 \/ i = 2
    BY <1>1
  <1>5. \A i \in 1..Len(u) : (s \o t)[i] = u[i]
    <2>1. (s \o t)[1] = x /\ (s \o t)[2] = y
      BY <1>2, <1>3, <1>4, Zenon
    <2> QED
      BY <1>1, <1>2, <1>4, <2>1, Zenon
  <1>6. s \o t = u
    <2>1. Len(s \o t) = Len(u)
      BY <1>1, <1>3, <1>4
    <2> QED
      BY <1>1, <1>3, <1>5, <2>1, SeqEqual, Zenon
  <1> QED
    BY <1>6 DEF s, t, u

LEMMA NameFits ==
  ASSUME NEW d \in Dirs, NEW projects, HashedKeys(projects)
  PROVE  KeyFits(ProjectConfigName(d, projects), d, projects)
  <1> DEFINE base == <<BaseOf[d]>>
  <1>1. base \o <<d>> = <<BaseOf[d], d>>
    BY KeyConcat
  <1>2. \A e \in Dirs : base # <<BaseOf[e], e>>
    OBVIOUS
  <1>3. \A e \in Dirs : <<BaseOf[d], d>> = <<BaseOf[e], e>> => e = d
    OBVIOUS
  <1>4. CASE base \notin DOMAIN projects \/ projects[base] = d
    <2>1. ProjectConfigName(d, projects) = base
      BY <1>4 DEF ProjectConfigName
    <2> QED
      BY <1>2, <1>4, <2>1 DEF KeyFits
  <1>5. CASE ~(base \notin DOMAIN projects \/ projects[base] = d)
    <2>1. ProjectConfigName(d, projects) = <<BaseOf[d], d>>
      BY <1>1, <1>5 DEF ProjectConfigName
    <2> QED
      BY <1>3, <2>1 DEF KeyFits, HashedKeys
  <1> QED
    BY <1>4, <1>5

LEMMA MergedFits ==
  ASSUME NEW d, NEW k, NEW projects, HashedKeys(projects), KeyFits(k, d, projects)
  PROVE  /\ HashedKeys(Merged(projects, k, d))
         /\ Registered(Merged(projects, k, d)) = Registered(projects) \union {d}
  <1>1. HashedKeys(Merged(projects, k, d))
    BY DEF Merged, HashedKeys, KeyFits
  <1>2. Registered(Merged(projects, k, d)) = Registered(projects) \union {d}
    BY DEF Merged, Registered, KeyFits
  <1> QED
    BY <1>1, <1>2

LEMMA WithoutFits ==
  ASSUME NEW k, NEW projects, HashedKeys(projects)
  PROVE  /\ HashedKeys(Without(projects, k))
         /\ Registered(Without(projects, k)) \subseteq Registered(projects)
         /\ Registered(projects) \ {projects[k]} \subseteq Registered(Without(projects, k))
         /\ Readable(projects) => Readable(Without(projects, k))
  <1>1. HashedKeys(Without(projects, k))
    BY DEF Without, HashedKeys
  <1>2. /\ Registered(Without(projects, k)) \subseteq Registered(projects)
        /\ Registered(projects) \ {projects[k]} \subseteq Registered(Without(projects, k))
    BY DEF Without, Registered
  <1>3. Readable(projects) => Readable(Without(projects, k))
    BY DEF Without, Readable
  <1> QED
    BY <1>1, <1>2, <1>3

-----------------------------------------------------------------------------
(* One edit at a time: what it has in hand goes on fitting the file, which   *)
(* nobody else changes.                                                      *)
Alone ==
  /\ DOMAIN editing = Editors
  /\ \A p, q \in Editors : editing[p] # Idle /\ editing[q] # Idle => p = q

EditFits(p) ==
  /\ Stage(p) = "add" =>
       KeyFits(editing[p][2], editing[p][3], config.projects)
  /\ Stage(p) = "remove" =>
       config.projects[editing[p][2]] = editing[p][3]
  /\ Stage(p) = "write" =>
       /\ HashedKeys(editing[p][2])
       /\ Promise(editing[p][3]) \subseteq Registered(editing[p][2])
       /\ ~Readable(editing[p][2]) => promised \subseteq Registered(editing[p][2])

(* Nothing that was promised is missing from the file. *)
KeptInv ==
  /\ Alone
  /\ \A p \in Editors : EditFits(p)
  /\ HashedKeys(config.projects)
  /\ config.readable => Readable(config.projects)
  /\ promised \subseteq Registered(config.projects)

(* When an edit goes from one stage to the next, it is still the only one. *)
LEMMA AloneGoes ==
  ASSUME Alone, NEW p \in Editors, editing[p] # Idle \/ Quiet, NEW stage, Goto(p, stage)
  PROVE  /\ Alone' /\ editing'[p] = stage
         /\ \A q \in Editors \ {p} : editing[q] = Idle /\ editing'[q] = Idle
  BY DEF Alone, Goto, Quiet

LEMMA IdleFits ==
  ASSUME NEW p, editing'[p] \in {Idle, <<"patch">>, <<"restart">>, <<"up">>} PROVE EditFits(p)'
  BY DEF EditFits, Stage, Idle

LEMMA KeptNext ==
  ASSUME SettingsRaces \subseteq {"unseen", "auto"}
  PROVE  KeptInv /\ [SettingsNext]_settingsVars => KeptInv'
  <1> SUFFICES ASSUME KeptInv, [SettingsNext]_settingsVars PROVE KeptInv'
    OBVIOUS
  <1> USE DEF KeptInv
  <1>1. ASSUME NEW p \in Editors, NEW d \in Dirs, AddProject(p, d) PROVE KeptInv'
    <2> DEFINE k == ProjectConfigName(d, Known(p))
    <2>1. Quiet /\ Known(p) = config.projects /\ Goto(p, <<"add", k, d>>)
      BY <1>1 DEF AddProject, MayBegin, UpToDate
    <2>2. UNCHANGED <<config, promised>>
      BY <1>1 DEF AddProject
    <2>3. KeyFits(k, d, config.projects)
      BY <2>1, NameFits
    <2> HIDE DEF k
    <2>4. /\ Alone' /\ editing'[p] = <<"add", k, d>>
          /\ \A q \in Editors \ {p} : editing'[q] = Idle
      BY <2>1, AloneGoes
    <2>5. EditFits(p)'
      BY <2>2, <2>3, <2>4 DEF EditFits, Stage
    <2> QED
      BY <2>2, <2>4, <2>5, IdleFits
  <1>2. ASSUME NEW p \in Editors, NEW k \in Keys, RemoveProject(p, k) PROVE KeptInv'
    <2>1. Quiet /\ Goto(p, <<"remove", k, config.projects[k]>>)
      BY <1>2 DEF RemoveProject, MayBegin, UpToDate
    <2>2. UNCHANGED <<config, promised>>
      BY <1>2 DEF RemoveProject
    <2>3. /\ Alone' /\ editing'[p] = <<"remove", k, config.projects[k]>>
          /\ \A q \in Editors \ {p} : editing'[q] = Idle
      BY <2>1, AloneGoes
    <2>4. EditFits(p)'
      BY <2>2, <2>3 DEF EditFits, Stage
    <2> QED
      BY <2>2, <2>3, <2>4, IdleFits
  <1>3. ASSUME NEW p \in Editors, ReadConfig(p) PROVE KeptInv'
    <2>1. editing[p] # Idle /\ UNCHANGED <<config, promised>>
      BY <1>3 DEF ReadConfig, Stage, Idle
    <2>2. CASE ~config.readable
      <3>1. Goto(p, Idle)
        BY <1>3, <2>2 DEF ReadConfig
      <3> QED
        BY <2>1, <3>1, AloneGoes, IdleFits
    <2>3. CASE config.readable
      <3> DEFINE new == Edited(p)
      <3>1. Goto(p, <<"write", new, editing[p]>>)
        BY <1>3, <2>3 DEF ReadConfig
      <3>2. /\ Alone' /\ editing'[p] = <<"write", new, editing[p]>>
            /\ \A q \in Editors \ {p} : editing'[q] = Idle
        BY <2>1, <3>1, AloneGoes
      <3>3. /\ HashedKeys(new) /\ Promise(editing[p]) \subseteq Registered(new)
            /\ ~Readable(new) => promised \subseteq Registered(new)
        <4>1. CASE Stage(p) = "add"
          <5>1. new = Merged(config.projects, editing[p][2], editing[p][3])
            BY <4>1 DEF Edited
          <5>2. Promise(editing[p]) = promised \union {editing[p][3]}
            BY <4>1 DEF Promise, Stage
          <5>3. KeyFits(editing[p][2], editing[p][3], config.projects)
            BY <4>1 DEF EditFits
          <5>4. HashedKeys(new) /\ Registered(new) = Registered(config.projects) \union {editing[p][3]}
            BY <5>1, <5>3, MergedFits
          <5> QED
            BY <5>2, <5>4
        <4>2. CASE Stage(p) = "remove"
          <5>1. new = Without(config.projects, editing[p][2])
            BY <4>2 DEF Edited
          <5>2. Promise(editing[p]) = promised \ {config.projects[editing[p][2]]}
            BY <4>2 DEF Promise, Stage, EditFits
          <5>3. /\ HashedKeys(new)
                /\ Registered(config.projects) \ {config.projects[editing[p][2]]} \subseteq Registered(new)
                /\ Readable(new)
            BY <2>3, <5>1, WithoutFits
          <5> QED
            BY <5>2, <5>3
        <4>3. CASE Stage(p) = "patch"
          <5>1. new = config.projects /\ Promise(editing[p]) = promised
            BY <4>3 DEF Edited, Promise, Stage
          <5> QED
            BY <5>1
        <4> QED
          BY <1>3, <4>1, <4>2, <4>3 DEF ReadConfig
      <3> HIDE DEF new
      <3>4. \A e : Promise(e)' = Promise(e)
        BY <2>1 DEF Promise
      <3>5. EditFits(p)'
        BY <2>1, <3>2, <3>3, <3>4 DEF EditFits, Stage
      <3> QED
        BY <2>1, <3>2, <3>5, IdleFits
    <2> QED
      BY <2>2, <2>3
  <1>4. \A p \in Editors : ~TruncateConfig(p) /\ ~EditorDies(p)
    BY DEF TruncateConfig, EditorDies
  <1>5. ASSUME NEW p \in Editors, WriteConfig(p) PROVE KeptInv'
    <2> DEFINE projects == editing[p][2]
               edit == editing[p][3]
    <2>1. /\ Stage(p) = "write" /\ editing[p] # Idle
          /\ config' = [readable |-> Readable(projects), projects |-> projects]
          /\ HashedKeys(projects)
      BY <1>5 DEF WriteConfig, Stage, Idle, EditFits
    <2>2. PICK stage \in {Idle, <<"restart">>} : Goto(p, stage)
      BY <1>5 DEF WriteConfig, AfterWrite
    <2>3. promised' \subseteq Registered(projects)
      BY <1>5, <2>1 DEF WriteConfig, EditFits
    <2>4. /\ config'.projects = projects
          /\ config'.readable = Readable(projects)
      BY <2>1
    <2>5. HashedKeys(config.projects)' /\ (config'.readable => Readable(config.projects)')
      BY <2>1, <2>4 DEF HashedKeys, Readable
    <2>6. promised' \subseteq Registered(config.projects)'
      BY <2>3, <2>4 DEF Registered
    <2>7. Alone' /\ \A q \in Editors : EditFits(q)'
      BY <2>1, <2>2, AloneGoes, IdleFits
    <2> QED
      BY <2>5, <2>6, <2>7
  <1>6. ASSUME NEW p \in Editors,
               \/ PatchOther(p) \/ NoRestart(p) \/ Up(p) \/ DockerFails(p)
               \/ \E x \in Platforms : ConnectPlatform(p, x) \/ RemovePlatform(p, x)
        PROVE KeptInv'
    <2>1. UNCHANGED <<config, promised>> /\ (editing[p] # Idle \/ Quiet)
      BY <1>6 DEF PatchOther, NoRestart, Up, DockerFails, ConnectPlatform, RemovePlatform,
         MayBegin, Stage, Idle
    <2>2. PICK stage \in {Idle, <<"patch">>, <<"restart">>, <<"up">>} : Goto(p, stage)
      BY <1>6 DEF PatchOther, NoRestart, Up, DockerFails, ConnectPlatform, RemovePlatform
    <2> QED
      BY <2>1, <2>2, AloneGoes, IdleFits
  <1>7. ASSUME NEW p \in Editors, GenerateCompose(p) PROVE KeptInv'
    <2>1. UNCHANGED <<config, promised>> /\ editing[p] # Idle
      BY <1>7 DEF GenerateCompose, Stage, Idle
    <2>2. PICK stage : Goto(p, stage) /\ stage[1] \notin {"add", "remove", "write"}
      BY <1>7 DEF GenerateCompose, Idle
    <2>3. /\ Alone' /\ editing'[p] = stage /\ \A q \in Editors \ {p} : editing'[q] = Idle
      BY <2>1, <2>2, AloneGoes
    <2>4. EditFits(p)'
      BY <2>2, <2>3 DEF EditFits, Stage
    <2> QED
      BY <2>1, <2>3, <2>4, IdleFits
  <1>8. ASSUME NEW p \in Editors, DockerUp(p) \/ Down(p) PROVE KeptInv'
    <2>1. UNCHANGED <<config, promised>>
      BY <1>8 DEF DockerUp, Down
    <2>2. /\ DOMAIN editing' = Editors
          /\ \A q \in Editors : editing'[q] = Idle
      <3>1. CASE DockerUp(p)
        <4>1. editing[p] # Idle
          BY <3>1 DEF DockerUp, Stage, Idle
        <4> QED
          BY <3>1, <4>1 DEF DockerUp, Alone
      <3>2. CASE Down(p)
        BY <3>2 DEF Down, MayBegin, Quiet, Alone
      <3> QED
        BY <1>8, <3>1, <3>2
    <2> QED
      BY <2>1, <2>2, IdleFits DEF Alone
  <1>9. ASSUME UNCHANGED <<config, promised, editing>> PROVE KeptInv'
    BY <1>9 DEF Alone, EditFits, Stage, Promise
  <1> QED
    BY <1>1, <1>2, <1>3, <1>4, <1>5, <1>6, <1>7, <1>8, <1>9
       DEF SettingsNext, ConnectAuto, ServerReload, settingsVars

LEMMA KeptInit == SettingsInit => KeptInv
  <1> SUFFICES ASSUME SettingsInit PROVE KeptInv
    OBVIOUS
  <1>1. config.projects = Empty /\ Registered(Empty) = {} /\ HashedKeys(Empty) /\ Readable(Empty)
    BY DEF SettingsInit, Empty, Registered, HashedKeys, Readable
  <1>2. Alone /\ \A p \in Editors : EditFits(p)
    BY DEF SettingsInit, Alone, EditFits, Stage, Idle
  <1> QED
    BY <1>1, <1>2 DEF KeptInv, SettingsInit

(* A directory whose registration succeeded stays registered until it is     *)
(* removed, whatever other directories have its base name, whoever edits and *)
(* whatever docker does, as long as no edit overlaps another, goes by old    *)
(* settings or dies half way: a key never displaces another directory        *)
(* (api_project_add, project_config_name).  It holds for names that are no   *)
(* bare TOML keys as well, and however the container is (not) restarted.     *)
THEOREM RegisteredStays ==
  ASSUME SettingsRaces \subseteq {"unseen", "auto"}
  PROVE  SettingsSpec => []RegistrationsKept
  <1>1. KeptInv => RegistrationsKept
    BY DEF KeptInv, RegistrationsKept
  <1> QED
    BY <1>1, KeptInit, KeptNext, PTL DEF SettingsSpec

-----------------------------------------------------------------------------
(* What is mounted *)

(* What the container lacks, the command at hand will bring: it is about to  *)
(* restart the container, or holds the Compose file of what is there now.    *)
(* The server only ever adds what it sees mounted.                           *)
MountFits(p) ==
  /\ Stage(p) = "start" =>
       editing[p][2] = connected \union Registered(config.projects)
  /\ Stage(p) = "add" =>
       /\ editing[p][3] \in Dirs
       /\ p = Dashboard => editing[p][3] \in container.mounts
  /\ Stage(p) = "write" =>
       /\ Registered(editing[p][2]) \subseteq Dirs
       /\ p = Dashboard \/ editing[p][3][1] = "patch" =>
            Registered(editing[p][2]) \subseteq Registered(config.projects) \union container.mounts

MountInv ==
  /\ Alone
  /\ \A p \in Editors : MountFits(p)
  /\ container \in [running : BOOLEAN, mounts : SUBSET (Platforms \union Dirs)]
  /\ config.readable
  /\ connected \subseteq Platforms /\ Registered(config.projects) \subseteq Dirs
  /\ /\ container.running /\ ~upFailed
     /\ \A p \in Editors : Stage(p) \notin {"restart", "start"}
     => connected \union Registered(config.projects) \subseteq container.mounts

LEMMA IdleMounts ==
  ASSUME NEW p, editing'[p] \in {Idle, <<"patch">>, <<"restart">>, <<"up">>}
  PROVE  MountFits(p)' /\ (editing'[p] # <<"restart">> => Stage(p)' \notin {"restart", "start"})
  BY DEF MountFits, Stage, Idle

LEMMA QuietMounts ==
  ASSUME MountInv, NEW p \in Editors, Quiet \/ Stage(p) \notin {"idle", "restart", "start"},
         container.running, ~upFailed
  PROVE  connected \union Registered(config.projects) \subseteq container.mounts
  <1>1. \A q \in Editors : Stage(q) \notin {"restart", "start"}
    BY DEF MountInv, Alone, Quiet, Stage, Idle
  <1> QED
    BY <1>1 DEF MountInv

LEMMA EditedWithin ==
  /\ \A projects, k, d : Registered(Merged(projects, k, d)) \subseteq Registered(projects) \union {d}
  /\ \A projects, k : Registered(Without(projects, k)) \subseteq Registered(projects)
  BY DEF Registered, Merged, Without

LEMMA MountNext ==
  ASSUME SettingsRaces \subseteq {"stale"}, OddDirs = {}
  PROVE  MountInv /\ [SettingsNext]_settingsVars => MountInv'
  <1> SUFFICES ASSUME MountInv, [SettingsNext]_settingsVars PROVE MountInv'
    OBVIOUS
  <1> USE DEF MountInv
  <1>1. ASSUME NEW p \in Editors, NEW d \in Dirs, AddProject(p, d) PROVE MountInv'
    <2> DEFINE k == ProjectConfigName(d, Known(p))
    <2>1. Quiet /\ Goto(p, <<"add", k, d>>) /\ (p = Dashboard => d \in container.mounts)
      BY <1>1 DEF AddProject, MayBegin
    <2>2. UNCHANGED <<config, connected, container, upFailed>>
      BY <1>1 DEF AddProject
    <2> HIDE DEF k
    <2>3. /\ Alone' /\ editing'[p] = <<"add", k, d>>
          /\ \A q \in Editors \ {p} : editing'[q] = Idle
      BY <2>1, AloneGoes
    <2>4. MountFits(p)'
      BY <2>1, <2>2, <2>3 DEF MountFits, Stage
    <2> QED
      BY <2>1, <2>2, <2>3, <2>4, IdleMounts, QuietMounts
  <1>2. ASSUME NEW p \in Editors, NEW k \in Keys, RemoveProject(p, k) PROVE MountInv'
    <2> DEFINE d == Known(p)[k]
    <2>1. Quiet /\ Goto(p, <<"remove", k, d>>)
      BY <1>2 DEF RemoveProject, MayBegin
    <2>2. UNCHANGED <<config, connected, container, upFailed>>
      BY <1>2 DEF RemoveProject
    <2> HIDE DEF d
    <2>3. /\ Alone' /\ editing'[p] = <<"remove", k, d>>
          /\ \A q \in Editors \ {p} : editing'[q] = Idle
      BY <2>1, AloneGoes
    <2>4. MountFits(p)'
      BY <2>3 DEF MountFits, Stage
    <2> QED
      BY <2>1, <2>2, <2>3, <2>4, IdleMounts, QuietMounts
  <1>3. ASSUME NEW p \in Editors, ReadConfig(p) PROVE MountInv'
    <2> DEFINE new == Edited(p)
    <2>1. /\ editing[p] # Idle /\ Stage(p) \in {"add", "remove", "patch"}
          /\ UNCHANGED <<config, connected, container, upFailed>>
          /\ Goto(p, <<"write", new, editing[p]>>)
      BY <1>3 DEF ReadConfig, Stage, Idle
    <2>2. /\ Alone' /\ editing'[p] = <<"write", new, editing[p]>>
          /\ \A q \in Editors \ {p} : editing'[q] = Idle
      BY <2>1, AloneGoes
    <2>3. /\ Registered(new) \subseteq Dirs
          /\ p = Dashboard \/ editing[p][1] = "patch" =>
               Registered(new) \subseteq Registered(config.projects) \union container.mounts
      <3>1. CASE Stage(p) = "add"
        <4>1. new = Merged(config.projects, editing[p][2], editing[p][3]) /\ editing[p][1] = "add"
          BY <3>1 DEF Edited, Stage
        <4>2. Registered(new) \subseteq Registered(config.projects) \union {editing[p][3]}
          BY <4>1, EditedWithin
        <4> HIDE DEF new
        <4> QED
          BY <3>1, <4>1, <4>2 DEF MountFits
      <3>2. CASE Stage(p) = "remove"
        <4>1. new = Without(config.projects, editing[p][2])
          BY <3>2 DEF Edited
        <4> QED
          BY <4>1, EditedWithin
      <3>3. CASE Stage(p) = "patch"
        BY <3>3 DEF Edited
      <3> QED
        BY <2>1, <3>1, <3>2, <3>3
    <2> HIDE DEF new
    <2>4. MountFits(p)' /\ Stage(p)' \notin {"restart", "start"}
      BY <2>1, <2>2, <2>3 DEF MountFits, Stage, Registered
    <2>5. connected \union Registered(config.projects) \subseteq container.mounts
             \/ ~container.running \/ upFailed
      BY <2>1, QuietMounts
    <2> QED
      BY <2>1, <2>2, <2>4, <2>5, IdleMounts
  <1>4. \A p \in Editors : ~TruncateConfig(p) /\ ~EditorDies(p)
    BY DEF TruncateConfig, EditorDies
  <1>5. ASSUME NEW p \in Editors, WriteConfig(p) PROVE MountInv'
    <2> DEFINE projects == editing[p][2]
               edit == editing[p][3]
    <2>1. /\ Stage(p) = "write" /\ editing[p] # Idle /\ Readable(projects)
          /\ config' = [readable |-> Readable(projects), projects |-> projects]
          /\ Goto(p, AfterWrite(p, edit))
          /\ UNCHANGED <<connected, container, upFailed>>
      BY <1>5 DEF WriteConfig, Stage, Idle, Readable
    <2>2. config'.readable /\ config'.projects = projects
      BY <2>1
    <2>3. /\ Alone' /\ editing'[p] = AfterWrite(p, edit)
          /\ \A q \in Editors \ {p} : editing'[q] = Idle
      BY <2>1, AloneGoes
    <2>4. AfterWrite(p, edit) \in {Idle, <<"restart">>}
      BY DEF AfterWrite
    <2>5. \A q \in Editors : MountFits(q)'
      BY <2>3, <2>4, IdleMounts
    <2>6. Registered(config.projects)' = Registered(projects) /\ Registered(projects) \subseteq Dirs
      BY <2>1, <2>2 DEF Registered, MountFits
    <2>7. ASSUME container.running, ~upFailed, Stage(p)' # "restart"
          PROVE  connected \union Registered(projects) \subseteq container.mounts
      <3>1. p = Dashboard \/ edit[1] = "patch"
        BY <2>3, <2>7 DEF AfterWrite, Stage
      <3>2. Registered(projects) \subseteq Registered(config.projects) \union container.mounts
        BY <2>1, <3>1 DEF MountFits
      <3> QED
        BY <2>1, <2>7, <3>2, QuietMounts
    <2> QED
      BY <2>1, <2>2, <2>3, <2>5, <2>6, <2>7
  <1>6. ASSUME NEW p \in Editors, PatchOther(p) \/ Up(p) PROVE MountInv'
    <2>1. Quiet /\ UNCHANGED <<config, connected, container, upFailed>>
      BY <1>6 DEF PatchOther, Up, MayBegin
    <2>2. PICK stage \in {<<"patch">>, <<"up">>} : Goto(p, stage)
      BY <1>6 DEF PatchOther, Up
    <2>3. /\ Alone' /\ editing'[p] = stage /\ stage # <<"restart">>
          /\ \A q \in Editors \ {p} : editing'[q] = Idle
      BY <2>1, <2>2, AloneGoes
    <2> QED
      BY <2>1, <2>2, <2>3, IdleMounts, QuietMounts
  <1>7. ASSUME NEW p \in Editors, NoRestart(p) \/ DockerFails(p) PROVE MountInv'
    <2>1. /\ editing[p] # Idle /\ Goto(p, Idle) /\ UNCHANGED <<config, connected, container>>
          /\ upFailed' \/ (upFailed' = upFailed /\ ~container.running)
      BY <1>7 DEF NoRestart, DockerFails, Stage, Idle
    <2>2. Alone' /\ \A q \in Editors : editing'[q] = Idle
      BY <2>1, AloneGoes
    <2> QED
      BY <2>1, <2>2, IdleMounts
  <1>8. ASSUME NEW p \in Editors, NEW x \in Platforms, ConnectPlatform(p, x) \/ RemovePlatform(p, x)
        PROVE MountInv'
    <2>1. Quiet /\ UNCHANGED <<config, container, upFailed>> /\ connected' \subseteq Platforms
      BY <1>8 DEF ConnectPlatform, RemovePlatform, MayBegin
    <2>2. PICK stage \in {Idle, <<"restart">>} : Goto(p, stage) /\ (stage = Idle => connected' = connected)
      <3>1. CASE ConnectPlatform(p, x) /\ x \in connected
        <4>1. Goto(p, Idle) /\ connected' = connected
          BY <3>1 DEF ConnectPlatform
        <4> QED
          BY <4>1
      <3>2. CASE (ConnectPlatform(p, x) /\ x \notin connected) \/ RemovePlatform(p, x)
        <4>1. Goto(p, <<"restart">>) /\ <<"restart">> # Idle
          BY <3>2 DEF ConnectPlatform, RemovePlatform, Idle
        <4> QED
          BY <4>1
      <3> QED
        BY <1>8, <3>1, <3>2
    <2>3. /\ Alone' /\ editing'[p] = stage
          /\ \A q \in Editors \ {p} : editing'[q] = Idle
      BY <2>1, <2>2, AloneGoes
    <2>4. \A q \in Editors : MountFits(q)'
      BY <2>2, <2>3, IdleMounts
    <2>5. stage # Idle => Stage(p)' = "restart"
      BY <2>2, <2>3 DEF Stage
    <2> QED
      BY <2>1, <2>2, <2>3, <2>4, <2>5, QuietMounts
  <1>9. ASSUME NEW p \in Editors, NEW chosen \in SUBSET Platforms, ConnectAuto(p, chosen)
        PROVE MountInv'
    <2>1. /\ Quiet /\ UNCHANGED <<config, editing, container, upFailed>>
          /\ connected' = connected \union chosen
          /\ container.running => chosen \subseteq connected
      BY <1>9 DEF ConnectAuto, MayBegin
    <2>2. Alone' /\ \A q \in Editors : editing'[q] = Idle
      BY <2>1 DEF Alone, Quiet
    <2> QED
      BY <2>1, <2>2, IdleMounts, QuietMounts
  <1>10. ASSUME NEW p \in Editors, GenerateCompose(p) PROVE MountInv'
    <2> DEFINE mounts == connected \union Registered(config.projects)
    <2>1. /\ UNCHANGED <<config, connected, container, upFailed>> /\ editing[p] # Idle
          /\ Goto(p, <<"start", mounts>>)
      BY <1>10 DEF GenerateCompose, Stage, Idle
    <2>2. /\ Alone' /\ editing'[p] = <<"start", mounts>>
          /\ \A q \in Editors \ {p} : editing'[q] = Idle
      BY <2>1, AloneGoes
    <2>3. MountFits(p)' /\ Stage(p)' = "start"
      BY <2>1, <2>2 DEF MountFits, Stage
    <2> QED
      BY <2>1, <2>2, <2>3, IdleMounts
  <1>11. ASSUME NEW p \in Editors, DockerUp(p) PROVE MountInv'
    <2>1. /\ editing[p] # Idle /\ UNCHANGED <<config, connected>>
          /\ container' = [running |-> TRUE, mounts |-> connected \union Registered(config.projects)]
      <3>1. Stage(p) = "start" /\ editing[p][1] = "start"
        BY <1>11 DEF DockerUp, Stage
      <3>2. editing[p][2] = connected \union Registered(config.projects)
        BY <3>1 DEF MountFits
      <3>3. editing[p] # Idle
        BY <3>1 DEF Idle
      <3> QED
        BY <1>11, <3>2, <3>3 DEF DockerUp
    <2>2. Alone' /\ \A q \in Editors : editing'[q] = Idle
      BY <1>11, <2>1 DEF DockerUp, Alone
    <2>3. container'.mounts = connected \union Registered(config.projects)
      BY <2>1
    <2> QED
      BY <2>1, <2>2, <2>3, IdleMounts
  <1>12. ASSUME NEW p \in Editors, Down(p) PROVE MountInv'
    <2>1. Quiet /\ UNCHANGED <<config, connected, upFailed>>
      BY <1>12 DEF Down, MayBegin
    <2>2. container' = [container EXCEPT !.running = FALSE]
      BY <1>12 DEF Down
    <2>3. container' \in [running : BOOLEAN, mounts : SUBSET (Platforms \union Dirs)] /\ ~container'.running
      BY <2>2
    <2>4. Alone' /\ \A q \in Editors : editing'[q] = Idle
      BY <1>12, <2>1 DEF Down, Alone, Quiet
    <2> QED
      BY <2>1, <2>3, <2>4, IdleMounts
  <1>13. ASSUME UNCHANGED <<config, connected, editing, container, upFailed>> PROVE MountInv'
    BY <1>13 DEF Alone, MountFits, Stage
  <1> QED
    BY <1>1, <1>2, <1>3, <1>4, <1>5, <1>6, <1>7, <1>8, <1>9, <1>10, <1>11, <1>12, <1>13
       DEF SettingsNext, ServerReload, settingsVars

(* Whatever is registered or connected is mounted in the running container   *)
(* when no command is under way, unless the last docker compose up failed:   *)
(* a command that adds something goes on to restart the container with the   *)
(* Compose file of what is there then, and the server only registers what it *)
(* sees mounted, going by new settings or by old ones.  Names that are no    *)
(* bare TOML keys are excluded: after one, the file does not parse and the   *)
(* command ends before the container.                                        *)
THEOREM MountedIsRegistered ==
  ASSUME SettingsRaces \subseteq {"stale"}, OddDirs = {}
  PROVE  SettingsSpec => []RegisteredIsMounted
  <1>1. SettingsInit => MountInv
    <2> SUFFICES ASSUME SettingsInit PROVE MountInv
      OBVIOUS
    <2>1. Registered(config.projects) = {}
      BY DEF SettingsInit, Empty, Registered
    <2>2. \A p \in Editors : editing[p] = Idle
      BY DEF SettingsInit
    <2> QED
      BY <2>1, <2>2 DEF SettingsInit, MountInv, Alone, MountFits, Stage, Idle
  <1>2. MountInv => RegisteredIsMounted
    BY DEF MountInv, RegisteredIsMounted, Quiet, Stage, Idle
  <1> QED
    BY <1>1, <1>2, MountNext, PTL DEF SettingsSpec

-----------------------------------------------------------------------------
(* Types, with every race *)

IsTable(projects) == DOMAIN projects \subseteq Keys /\ Registered(projects) \subseteq Dirs

(* The command that an edit began with. *)
IsEdit(edit) ==
  /\ edit[1] \in {"add", "remove", "patch"}
  /\ edit[1] = "add" => edit[2] \in Keys
  /\ edit[1] \in {"add", "remove"} => edit[3] \in Dirs

(* What an editor has in hand: its command, the table it is about to write,  *)
(* or the mounts of the Compose file.                                        *)
InHand(p) ==
  /\ Stage(p) \in {"add", "remove", "patch"} => IsEdit(editing[p])
  /\ Stage(p) = "write" => IsTable(editing[p][2]) /\ IsEdit(editing[p][3])
  /\ Stage(p) = "start" => editing[p][2] \subseteq Platforms \union Dirs

SettingsTypeInv == SettingsTypeOK /\ \A p \in Editors : InHand(p)

LEMMA MergedTable ==
  ASSUME NEW projects, IsTable(projects), NEW k \in Keys, NEW d \in Dirs
  PROVE  IsTable(Merged(projects, k, d))
  BY DEF IsTable, Registered, Merged

LEMMA WithoutTable ==
  ASSUME NEW projects, IsTable(projects), NEW k
  PROVE  IsTable(Without(projects, k))
  BY DEF IsTable, Registered, Without

LEMMA NameIsKey ==
  ASSUME NEW d \in Dirs, NEW projects
  PROVE  ProjectConfigName(d, projects) \in Keys
  <1>1. <<BaseOf[d]>> \o <<d>> = <<BaseOf[d], d>>
    BY KeyConcat
  <1>2. <<BaseOf[d]>> \in Keys /\ <<BaseOf[d], d>> \in Keys
    BY DEF Keys
  <1> QED
    BY <1>1, <1>2 DEF ProjectConfigName

(* An editor goes on with something in hand that has its type. *)
LEMMA HandKept ==
  ASSUME SettingsTypeInv, NEW p \in Editors, NEW stage, Goto(p, stage), InHand(p)'
  PROVE  DOMAIN editing' = Editors /\ \A q \in Editors : InHand(q)'
  <1>1. \A q \in Editors \ {p} : editing'[q] = editing[q]
    BY DEF Goto, SettingsTypeInv, SettingsTypeOK
  <1>2. \A q \in Editors \ {p} : InHand(q)'
    BY <1>1 DEF SettingsTypeInv, InHand, Stage, IsTable, IsEdit, Registered
  <1> QED
    BY <1>2 DEF Goto, SettingsTypeInv, SettingsTypeOK

LEMMA PlainHand ==
  ASSUME NEW p, Stage(p)' \notin {"add", "remove", "write", "start", "patch"}
  PROVE  InHand(p)'
  BY DEF InHand, Stage

LEMMA SettingsTypeStart == SettingsInit => SettingsTypeInv
  <1> SUFFICES ASSUME SettingsInit PROVE SettingsTypeInv
    OBVIOUS
  <1>1. IsTable(Empty)
    BY DEF IsTable, Registered, Empty
  <1>2. \A p \in Editors : InHand(p)
    BY DEF SettingsInit, InHand, Stage, Idle
  <1> QED
    BY <1>1, <1>2 DEF SettingsInit, SettingsTypeInv, SettingsTypeOK, IsTable

LEMMA SettingsTypeStep ==
  ASSUME SettingsTypeInv, [SettingsNext]_settingsVars
  PROVE  SettingsTypeInv'
  <1>d. /\ IsTable(config.projects) /\ IsTable(cached) /\ DOMAIN editing = Editors
        /\ \A p \in Editors : InHand(p) /\ IsTable(Known(p))
    BY DEF SettingsTypeInv, SettingsTypeOK, IsTable, Known
  <1>i. \A p \in Editors : editing'[p] = Idle => InHand(p)'
    BY PlainHand DEF Stage, Idle
  <1>t. ASSUME \A p \in Editors : InHand(p)', DOMAIN editing' = Editors,
               config'.readable \in BOOLEAN, IsTable(config.projects)', IsTable(cached)',
               connected' \subseteq Platforms, container'.running \in BOOLEAN,
               upFailed' \in BOOLEAN, container'.mounts \subseteq Platforms \union Dirs,
               promised' \subseteq Dirs
        PROVE  SettingsTypeInv'
    BY <1>t DEF SettingsTypeInv, SettingsTypeOK, IsTable
  <1>f. /\ config.readable \in BOOLEAN /\ connected \subseteq Platforms
        /\ container.running \in BOOLEAN /\ upFailed \in BOOLEAN
        /\ container.mounts \subseteq Platforms \union Dirs /\ promised \subseteq Dirs
    BY DEF SettingsTypeInv, SettingsTypeOK
  <1>s. /\ config' = config => IsTable(config.projects)'
        /\ cached' = cached => IsTable(cached)'
        /\ cached' = config.projects => IsTable(cached)'
    BY <1>d DEF IsTable, Registered
  <1>g. ASSUME NEW p \in Editors, NEW stage, Goto(p, stage)
        PROVE editing'[p] = stage
    BY <1>d, <1>g DEF Goto
  <1>1. ASSUME NEW p \in Editors, NEW d \in Dirs, AddProject(p, d) PROVE SettingsTypeInv'
    <2> DEFINE k == ProjectConfigName(d, Known(p))
    <2>1. k \in Keys /\ Goto(p, <<"add", k, d>>)
      BY <1>1, NameIsKey DEF AddProject
    <2> HIDE DEF k
    <2>2. InHand(p)'
      BY <1>g, <2>1 DEF InHand, Stage, IsEdit
    <2> QED
      BY <1>1, <1>t, <1>f, <1>s, <2>1, <2>2, HandKept DEF AddProject
  <1>2. ASSUME NEW p \in Editors, NEW k \in Keys, RemoveProject(p, k) PROVE SettingsTypeInv'
    <2> DEFINE d == Known(p)[k]
    <2>1. d \in Dirs /\ Goto(p, <<"remove", k, d>>)
      BY <1>2, <1>d DEF RemoveProject, IsTable, Registered
    <2> HIDE DEF d
    <2>2. InHand(p)'
      BY <1>g, <2>1 DEF InHand, Stage, IsEdit
    <2> QED
      BY <1>2, <1>t, <1>f, <1>s, <2>1, <2>2, HandKept DEF RemoveProject
  <1>3. ASSUME NEW p \in Editors, ReadConfig(p) PROVE SettingsTypeInv'
    <2>1. PICK stage : Goto(p, stage) /\ (stage = Idle \/ stage = <<"write", Edited(p), editing[p]>>)
      BY <1>3 DEF ReadConfig
    <2>2. IsEdit(editing[p]) /\ Stage(p) \in {"add", "remove", "patch"}
      BY <1>3, <1>d DEF ReadConfig, InHand
    <2>3. IsTable(Edited(p))
      BY <1>d, <2>2, MergedTable, WithoutTable DEF Edited, IsEdit, Stage
    <2>4. InHand(p)'
      <3>1. CASE stage = Idle
        BY <1>g, <1>i, <2>1, <3>1
      <3>2. CASE stage = <<"write", Edited(p), editing[p]>>
        <4> DEFINE new == Edited(p)
                   edit == editing[p]
        <4>1. editing'[p] = <<"write", new, edit>>
          BY <1>g, <2>1, <3>2
        <4>2. IsTable(new) /\ IsEdit(edit)
          BY <2>2, <2>3
        <4> HIDE DEF new, edit
        <4> QED
          BY <4>1, <4>2 DEF InHand, Stage, IsTable, IsEdit, Registered
      <3> QED
        BY <2>1, <3>1, <3>2
    <2> QED
      BY <1>3, <1>t, <1>f, <1>s, <2>1, <2>4, HandKept DEF ReadConfig
  <1>4. ASSUME NEW p \in Editors, TruncateConfig(p) PROVE SettingsTypeInv'
    <2>1. config'.readable = TRUE /\ config'.projects = Empty
      BY <1>4 DEF TruncateConfig
    <2>2. IsTable(config.projects)'
      BY <2>1 DEF IsTable, Registered, Empty
    <2>3. \A q \in Editors : InHand(q)'
      BY <1>4, <1>d DEF TruncateConfig, InHand, Stage, IsTable, IsEdit, Registered
    <2> QED
      BY <1>4, <1>d, <1>t, <1>f, <1>s, <2>1, <2>2, <2>3 DEF TruncateConfig
  <1>5. ASSUME NEW p \in Editors, WriteConfig(p) PROVE SettingsTypeInv'
    <2> DEFINE projects == editing[p][2]
               edit == editing[p][3]
    <2>1. Stage(p) = "write" /\ IsTable(projects) /\ IsEdit(edit)
      BY <1>5, <1>d DEF WriteConfig, InHand
    <2>2. config' = [readable |-> Readable(projects), projects |-> projects]
      BY <1>5 DEF WriteConfig
    <2>3. PICK stage \in {Idle, <<"restart">>} : Goto(p, stage)
      BY <1>5 DEF WriteConfig, AfterWrite
    <2>4. (cached' = projects \/ cached' = cached) /\ (promised' = Promise(edit) \/ promised' = promised)
          /\ UNCHANGED <<connected, container, upFailed>>
      BY <1>5 DEF WriteConfig
    <2>5. Promise(edit) \subseteq Dirs
      BY <1>f, <2>1 DEF Promise, IsEdit
    <2>6. InHand(p)'
      BY <1>g, <2>3, PlainHand DEF Stage, Idle
    <2>7. DOMAIN editing' = Editors /\ \A q \in Editors : InHand(q)'
      BY <2>3, <2>6, HandKept
    <2> HIDE DEF projects, edit
    <2>8. config'.projects = projects /\ config'.readable = Readable(projects)
      BY <2>2
    <2>9. Readable(projects) \in BOOLEAN
      BY DEF Readable
    <2>10. IsTable(config.projects)' /\ (cached' = projects => IsTable(cached)')
      BY <2>1, <2>8 DEF IsTable, Registered
    <2> QED
      BY <1>t, <1>f, <1>s, <2>4, <2>5, <2>7, <2>8, <2>9, <2>10
  <1>6. ASSUME NEW p \in Editors,
               \/ PatchOther(p) \/ NoRestart(p) \/ Up(p) \/ DockerFails(p) \/ EditorDies(p)
               \/ \E x \in Platforms : ConnectPlatform(p, x) \/ RemovePlatform(p, x)
        PROVE SettingsTypeInv'
    <2>1. /\ UNCHANGED <<config, cached, container, promised>>
          /\ connected' \subseteq Platforms /\ upFailed' \in BOOLEAN
      BY <1>6, <1>f DEF PatchOther, NoRestart, Up, DockerFails, EditorDies, ConnectPlatform,
         RemovePlatform
    <2>2. PICK stage \in {Idle, <<"patch">>, <<"restart">>, <<"up">>} : Goto(p, stage)
      BY <1>6 DEF PatchOther, NoRestart, Up, DockerFails, EditorDies, ConnectPlatform,
         RemovePlatform
    <2>3. InHand(p)'
      BY <1>g, <2>2 DEF InHand, Stage, Idle, IsEdit
    <2> QED
      BY <1>t, <1>f, <1>s, <2>1, <2>2, <2>3, HandKept
  <1>7. ASSUME NEW p \in Editors, NEW chosen \in SUBSET Platforms, ConnectAuto(p, chosen)
        PROVE SettingsTypeInv'
    <2>1. \A q \in Editors : InHand(q)'
      BY <1>7, <1>d DEF ConnectAuto, InHand, Stage, IsTable, IsEdit, Registered
    <2> QED
      BY <1>7, <1>d, <1>t, <1>f, <1>s, <2>1 DEF ConnectAuto
  <1>8. ASSUME NEW p \in Editors, GenerateCompose(p) PROVE SettingsTypeInv'
    <2> DEFINE mounts == connected \union Registered(config.projects)
    <2>1. PICK stage : Goto(p, stage) /\ (stage = Idle \/ stage = <<"start", mounts>>)
      BY <1>8 DEF GenerateCompose
    <2>2. mounts \subseteq Platforms \union Dirs
      BY <1>d, <1>f DEF IsTable
    <2> HIDE DEF mounts
    <2>3. InHand(p)'
      BY <1>g, <2>1, <2>2 DEF InHand, Stage, Idle
    <2> QED
      BY <1>8, <1>t, <1>f, <1>s, <2>1, <2>3, HandKept DEF GenerateCompose
  <1>9. ASSUME NEW p \in Editors, DockerUp(p) \/ Down(p) PROVE SettingsTypeInv'
    <2>1. /\ DOMAIN editing' = Editors
          /\ \A q \in Editors : editing'[q] = editing[q] \/ editing'[q] = Idle
      BY <1>9, <1>d DEF DockerUp, Down
    <2>2. \A q \in Editors : editing'[q] = editing[q] => InHand(q)'
      BY <1>d DEF InHand, Stage, IsTable, IsEdit, Registered
    <2>3. \A q \in Editors : InHand(q)'
      BY <1>i, <2>1, <2>2
    <2>4. CASE DockerUp(p)
      <3>1. /\ container' = [running |-> TRUE, mounts |-> editing[p][2]] /\ upFailed' = FALSE
            /\ cached' = config.projects /\ UNCHANGED <<config, connected, promised>>
            /\ editing[p][2] \subseteq Platforms \union Dirs
        BY <2>4, <1>d DEF DockerUp, InHand
      <3>2. container'.running = TRUE /\ container'.mounts = editing[p][2]
        BY <3>1
      <3> QED
        BY <1>t, <1>f, <1>s, <2>1, <2>3, <3>1, <3>2
    <2>5. CASE Down(p)
      <3>1. /\ UNCHANGED <<config, connected, cached, upFailed, promised>>
            /\ container' = [container EXCEPT !.running = FALSE] /\ container.running
        BY <2>5 DEF Down
      <3>2. container'.running \in BOOLEAN /\ container'.mounts = container.mounts
        BY <1>f, <3>1
      <3> QED
        BY <1>t, <1>f, <1>s, <2>1, <2>3, <3>1, <3>2
    <2> QED
      BY <1>9, <2>4, <2>5
  <1>10. ASSUME ServerReload \/ UNCHANGED settingsVars PROVE SettingsTypeInv'
    <2>1. \A q \in Editors : InHand(q)'
      BY <1>10, <1>d DEF ServerReload, settingsVars, InHand, Stage, IsTable, IsEdit, Registered
    <2> QED
      BY <1>10, <1>d, <1>t, <1>f, <1>s, <2>1 DEF ServerReload, settingsVars
  <1> QED
    BY <1>1, <1>2, <1>3, <1>4, <1>5, <1>6, <1>7, <1>8, <1>9, <1>10 DEF SettingsNext

(* The settings keep their types with every race: whatever overlaps, goes by  *)
(* old settings or dies, the table names registered keys and directories and  *)
(* the container mounts directories and platforms only.                       *)
THEOREM SettingsType == SettingsSpec => []SettingsTypeOK
  <1>1. SettingsTypeInv => SettingsTypeOK
    BY DEF SettingsTypeInv
  <1> QED
    BY <1>1, SettingsTypeStart, SettingsTypeStep, PTL DEF SettingsSpec
=============================================================================
