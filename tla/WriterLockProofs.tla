-------------------------- MODULE WriterLockProofs --------------------------
(* The writer lock excludes, for any number of threads, processes and      *)
(* crashes, as long as its two windows (open to fill, read to unlink) are  *)
(* not interleaved and no holder is suspended past stale_seconds.          *)
EXTENDS WriterLock, TLAPS

\* The environment the theorems are about; WriterLock's other runs show what
\* each of the three does without it.
Calm == ~TornReads /\ ~ReclaimRaces /\ ~Stalls

\* The threads the file belongs to: from its creation to its removal.
Owner(t) == pc[t] \in {"write", "held", "join", "readback", "remove"}

\* What the file and the heartbeat of an owner look like.
Protected(t) ==
  /\ pc[t] = "write" => /\ file = "empty" /\ <<"acquire", t>> \in handles
                        /\ beat[t] = "off"
  /\ pc[t] \in {"held", "join"} =>
       \/ file = "full" /\ pid = ProcOf[t] /\ fresh /\ beat[t] \in {"wait", "open"}
       \/ file = "empty" /\ beat[t] = "fill" /\ <<"beat", t>> \in handles
  /\ pc[t] \in {"readback", "remove"} =>
       file = "full" /\ pid = ProcOf[t] /\ fresh /\ beat[t] = "off"

\* The inductive invariant: one owner, whose file is intact; a thread about to
\* remove somebody's file does so when there is no owner.
OneOwner == \A t, u \in Threads : Owner(t) /\ Owner(u) => t = u
LockInv ==
  /\ TypeOK
  /\ \A t \in Threads : ~Running(t) => pc[t] = "idle" /\ beat[t] = "off"
  /\ OneOwner
  /\ \A t \in Threads : Owner(t) => Protected(t)
  /\ \A t \in Threads : ~Owner(t) => beat[t] = "off"
  /\ \A t, u \in Threads : pc[u] = "unlink" => ~Owner(t)

LEMMA LockInit == Init => LockInv
<1> SUFFICES ASSUME Init PROVE LockInv
  OBVIOUS
<1>1. TypeOK
  <2>1. /\ pc \in [Threads -> ControlStates]
        /\ tries \in [Threads -> 0..2]
        /\ beat \in [Threads -> BeatStates]
    BY DEF Init, ControlStates, BeatStates
  <2>2. crashes \in 0..MaxCrashes
    BY LockAssumption DEF Init
  <2> QED BY <2>1, <2>2 DEF Init, TypeOK
<1>2. \A t \in Threads : Running(t) /\ pc[t] = "idle" /\ beat[t] = "off"
  BY LockAssumption DEF Init, Running
<1> QED BY <1>1, <1>2 DEF LockInv, OneOwner, Owner

\* acquire
LEMMA LockAcquire ==
  ASSUME LockInv, Calm, NEW t \in Threads,
         Acquire(t) \/ Create(t) \/ WriteState(t) \/ Check(t) \/ Reclaim(t) \/ GiveUp(t)
  PROVE  LockInv'
<1> USE DEF LockInv, TypeOK, OneOwner, Owner, Protected, Running, ControlStates,
            BeatStates, Goto, fileVars, Calm
<1>0. ProcOf[t] \in Procs
  BY LockAssumption
<1>1. CASE Acquire(t)
  BY <1>1 DEF Acquire
<1>2. CASE Create(t)
  <2>1. CASE file = "none"
    <3>1. \A u \in Threads : ~Owner(u)
      BY <2>1
    <3>2. \A u \in Threads : pc[u] # "unlink"
      BY <1>2 DEF Create, Ready, Undisturbed
    <3> QED BY <1>2, <2>1, <3>1, <3>2 DEF Create, Ready
  <2>2. CASE file # "none"
    BY <1>2, <2>2 DEF Create, Ready
  <2> QED BY <2>1, <2>2
<1>3. CASE WriteState(t)
  <2>1. file = "empty" /\ <<"acquire", t>> \in handles /\ beat[t] = "off"
    BY <1>3 DEF WriteState, Ready
  <2>2. /\ file' = "full" /\ pid' = ProcOf[t] /\ fresh' = TRUE
        /\ handles' = handles \ {<<"acquire", t>>}
    BY <1>3, <2>1 DEF WriteState, Fill
  <2> QED BY <1>0, <1>3, <2>2 DEF WriteState, Ready
<1>4. CASE Check(t)
  <2>1. CASE Active
    BY <1>4, <2>1 DEF Check, Ready
  <2>2. CASE ~Active
    <3>1. \A u \in Threads : ~Owner(u)
      BY <1>4, <2>2 DEF Check, Ready, Undisturbed, Active
    <3> QED BY <1>4, <2>2, <3>1 DEF Check, Ready
  <2> QED BY <2>1, <2>2
<1>5. CASE Reclaim(t)
  BY <1>5 DEF Reclaim, Ready, Unlink
<1>6. CASE GiveUp(t)
  BY <1>6 DEF GiveUp
<1> QED BY <1>1, <1>2, <1>3, <1>4, <1>5, <1>6

\* The heartbeat thread and release
LEMMA LockRelease ==
  ASSUME LockInv, Calm, NEW t \in Threads,
         \/ BeatStep(t) \/ StartRelease(t) \/ Join(t) \/ ReadBack(t) \/ Remove(t)
  PROVE  LockInv'
<1> USE DEF LockInv, TypeOK, OneOwner, Owner, Protected, Running, ControlStates,
            BeatStates, Goto, fileVars, Calm
<1>0. ProcOf[t] \in Procs
  BY LockAssumption
<1>1. CASE BeatRead(t)
  BY <1>1 DEF BeatRead, BeatReady
<1>2. CASE BeatOpen(t)
  BY <1>2 DEF BeatOpen, BeatReady
<1>3. CASE BeatFill(t)
  BY <1>0, <1>3 DEF BeatFill, BeatReady, Fill
<1>4. CASE StartRelease(t)
  BY <1>4 DEF StartRelease
<1>5. CASE Join(t)
  BY <1>5 DEF Join
<1>6. CASE ReadBack(t)
  BY <1>6 DEF ReadBack, Ready
<1>7. CASE Remove(t)
  BY <1>7 DEF Remove, Ready, Unlink
<1> QED BY <1>1, <1>2, <1>3, <1>4, <1>5, <1>6, <1>7 DEF BeatStep

\* Crashes and time
LEMMA LockEnvironment ==
  ASSUME LockInv, Calm, GoStale \/ \E q \in Procs : Crash(q)
  PROVE  LockInv'
<1> USE DEF LockInv, TypeOK, OneOwner, Owner, Protected, Running, ControlStates,
            BeatStates, fileVars, Calm
<1>1. CASE GoStale
  BY <1>1 DEF GoStale
<1>2. ASSUME NEW q \in Procs, Crash(q)
      PROVE  LockInv'
  <2>1. TypeOK'
    BY <1>2, LockAssumption DEF Crash
  <2>2. \A t \in Threads : IF ProcOf[t] = q
                             THEN pc'[t] = "idle" /\ beat'[t] = "off"
                             ELSE pc'[t] = pc[t] /\ beat'[t] = beat[t]
    BY <1>2 DEF Crash
  <2>3. \A t \in Threads, k \in {"acquire", "beat"} :
          ProcOf[t] # q /\ <<k, t>> \in handles => <<k, t>> \in handles'
    BY <1>2 DEF Crash
  <2> QED BY <1>2, <2>1, <2>2, <2>3 DEF Crash
<1> QED BY <1>1, <1>2

LEMMA LockStep == Calm /\ LockInv /\ [Next]_vars => LockInv'
<1> SUFFICES ASSUME Calm, LockInv, [Next]_vars PROVE LockInv'
  OBVIOUS
<1>1. CASE UNCHANGED vars
  BY <1>1 DEF LockInv, TypeOK, OneOwner, Owner, Protected, Running, vars, fileVars
<1>2. CASE Next
  BY <1>2, LockAcquire, LockRelease, LockEnvironment DEF Next, Step
<1> QED BY <1>1, <1>2

\* Only one ingest, curate or reset is between acquire and release.
THEOREM WriterExclusion == ASSUME Calm PROVE Spec => []MutualExclusion
<1>1. LockInv => MutualExclusion
  BY DEF LockInv, OneOwner, Owner, MutualExclusion, Holders
<1>2. LockInv /\ [Next]_vars => LockInv'
  BY LockStep
<1> QED BY LockInit, <1>1, <1>2, PTL DEF Spec

\* The file of a running operation stays its own and fresh.
THEOREM HolderKeepsFile == ASSUME Calm PROVE Spec => []HolderProtected
<1>1. LockInv => HolderProtected
  BY DEF LockInv, OneOwner, Owner, Protected, HolderProtected, Holders, Running
<1>2. LockInv /\ [Next]_vars => LockInv'
  BY LockStep
<1> QED BY LockInit, <1>1, <1>2, PTL DEF Spec

-----------------------------------------------------------------------------
(* The file protocol implements WriterMutex *)

\* With one owner, TheHolder is the running holder or nobody.
LEMMA HolderIs ==
  ASSUME LockInv
  PROVE  /\ \A t \in Holders : TheHolder = t
         /\ Holders = {} => TheHolder = NoThread
<1>1. \A t, u \in Holders : t = u
  BY DEF LockInv, OneOwner, Owner, Holders
<1> QED BY <1>1 DEF TheHolder

\* The end of acquire and of the operation, and crashes, move the holder.
LEMMA MutexStep ==
  ASSUME Calm, LockInv, LockInv', [Next]_vars
  PROVE  [Mutex!Next]_TheHolder
<1>h. /\ \A t \in Holders' : TheHolder' = t
      /\ Holders' = {} => TheHolder' = NoThread
  <2>1. \A t, u \in Holders' : t = u
    BY DEF LockInv, OneOwner, Owner, Holders
  <2> QED BY <2>1 DEF TheHolder
<1>s. Holders' = Holders => TheHolder' = TheHolder
  BY <1>h, HolderIs
<1>f. ASSUME NEW t \in Holders, Holders' = {}
      PROVE  Mutex!Next
  <2>1. t \in Threads /\ TheHolder = t /\ TheHolder' = NoThread
    BY <1>f, <1>h, HolderIs DEF Holders
  <2> QED BY <2>1 DEF Mutex!Next, Mutex!Free
<1>1. ASSUME NEW t \in Threads, WriteState(t)
      PROVE  Mutex!Next
  <2>1. Owner(t) /\ pc[t] = "write"
    BY <1>1 DEF WriteState, Ready, Owner
  <2>2. Holders = {}
    BY <2>1 DEF LockInv, OneOwner, Owner, Holders
  <2>3. t \in Holders'
    BY <1>1 DEF WriteState, Ready, Goto, Holders, Running, LockInv, TypeOK
  <2>4. TheHolder = NoThread /\ TheHolder' = t
    BY <1>h, <2>2, <2>3, HolderIs
  <2> QED BY <2>4 DEF Mutex!Next, Mutex!Acquire
<1>2. ASSUME NEW t \in Threads, StartRelease(t)
      PROVE  Mutex!Next
  <2>1. t \in Holders
    BY <1>2 DEF StartRelease, Holders
  <2>2. Holders' = {}
    BY <1>2, <2>1 DEF StartRelease, Goto, Holders, Running, LockInv, TypeOK, OneOwner,
                      Owner
  <2> QED BY <1>f, <2>1, <2>2
<1>3. ASSUME NEW q \in Procs, Crash(q)
      PROVE  [Mutex!Next]_TheHolder
  <2>1. Holders' \subseteq Holders
    BY <1>3 DEF Crash, Holders, Running
  <2>2. Holders' = {} \/ Holders' = Holders
    BY <2>1 DEF LockInv, OneOwner, Owner, Holders
  <2> QED BY <1>f, <1>s, <2>2
<1>4. ASSUME NEW t \in Threads,
             \/ Acquire(t) \/ Create(t) \/ Check(t) \/ Reclaim(t) \/ GiveUp(t)
             \/ Join(t) \/ ReadBack(t) \/ Remove(t)
      PROVE  Holders' = Holders
  <2>1. alive' = alive
    BY <1>4 DEF Acquire, Create, Check, Reclaim, GiveUp, Join, ReadBack, Remove
  <2>2. \A u \in Threads : pc'[u] = "held" <=> pc[u] = "held"
    BY <1>4 DEF Acquire, Create, Check, Reclaim, GiveUp, Join, ReadBack, Remove, Ready,
                Goto, LockInv, TypeOK
  <2> QED BY <2>1, <2>2 DEF Holders, Running
<1>5. ASSUME NEW t \in Threads, BeatStep(t)
      PROVE  Holders' = Holders
  BY <1>5 DEF BeatStep, BeatRead, BeatOpen, BeatFill, Holders, Running
<1>6. CASE GoStale \/ UNCHANGED vars
  BY <1>s, <1>6 DEF GoStale, vars, Holders, Running
<1> QED BY <1>s, <1>1, <1>2, <1>3, <1>4, <1>5, <1>6 DEF Next, Step

\* The lock file implements the abstract lock that SessionQueue's passes and
\* the other writer operations are serialised by.
THEOREM LockImplementsMutex == ASSUME Calm PROVE Spec => ImplementsMutex
<1>1. Init => Mutex!Init
  <2>1. Init => Holders = {}
    BY DEF Init, Holders
  <2> QED BY <2>1 DEF Mutex!Init, TheHolder
<1>2. LockInv /\ [Next]_vars => LockInv'
  BY LockStep
<1>3. LockInv /\ LockInv' /\ [Next]_vars => [Mutex!Next]_TheHolder
  BY MutexStep
<1> QED BY LockInit, <1>1, <1>2, <1>3, PTL DEF Spec, ImplementsMutex, Mutex!Spec
=============================================================================
