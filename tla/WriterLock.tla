----------------------------- MODULE WriterLock -----------------------------
(***************************************************************************)
(* ServiceLock (server/daemon.py): the lock file that keeps ingest, curate *)
(* and memory reset apart.  A lock is a JSON file naming a pid and a       *)
(* heartbeat time; it is created with O_EXCL and filled by a second system *)
(* call, refreshed by a daemon thread that truncates and rewrites it, and  *)
(* removed by whoever finds it inactive.  One action is one system call    *)
(* that touches the file, or one read of it.                               *)
(***************************************************************************)
EXTENDS Naturals, FiniteSets

CONSTANTS
  Threads,        \* callers of acquire (daemon loop, API threads, CLI)
  Procs,          \* operating system processes, one per pid
  ProcOf,         \* the process of each thread
  NoThread,
  TornReads,      \* TRUE: a file may be read between its opening and its filling
  ReclaimRaces,   \* TRUE: a file may be replaced between the read that finds
                  \* it inactive (or its own) and the unlink
  Stalls,         \* TRUE: a live process may be suspended past stale_seconds
  MaxCrashes      \* bound: processes that die in a behaviour

ASSUME LockAssumption ==
  /\ ProcOf \in [Threads -> Procs]
  /\ NoThread \notin Threads
  /\ TornReads \in BOOLEAN
  /\ ReclaimRaces \in BOOLEAN
  /\ Stalls \in BOOLEAN
  /\ MaxCrashes \in Nat

VARIABLES
  file,      \* "none", "empty" (opened, not filled) or "full"
  pid,       \* the pid a full file names
  fresh,     \* its heartbeat_at is within stale_seconds
  handles,   \* writers whose open handle is the current file
  alive,     \* processes that run
  pc,        \* control state of each thread
  tries,     \* turns of the loop in acquire
  beat,      \* control state of each thread's heartbeat thread
  crashes    \* processes that died so far

fileVars == <<file, pid, fresh, handles>>
vars     == <<fileVars, alive, pc, tries, beat, crashes>>

\* acquire: create, write | check, unlink; then held; then release.
ControlStates == {"idle", "create", "write", "check", "unlink", "busy",
                  "held", "join", "readback", "remove"}

\* The heartbeat thread: off, waiting its interval, about to open the file,
\* about to fill it.
BeatStates == {"off", "wait", "open", "fill"}

TypeOK ==
  /\ file \in {"none", "empty", "full"}
  /\ pid \in Procs
  /\ fresh \in BOOLEAN
  /\ handles \in SUBSET ({"acquire", "beat"} \X Threads)
  /\ alive \in SUBSET Procs
  /\ pc \in [Threads -> ControlStates]
  /\ tries \in [Threads -> 0..2]
  /\ beat \in [Threads -> BeatStates]
  /\ crashes \in 0..MaxCrashes

Init ==
  /\ file = "none"
  /\ pid \in Procs
  /\ fresh = FALSE
  /\ handles = {}
  /\ alive = Procs
  /\ pc = [t \in Threads |-> "idle"]
  /\ tries = [t \in Threads |-> 0]
  /\ beat = [t \in Threads |-> "off"]
  /\ crashes = 0

-----------------------------------------------------------------------------
(* Helpers *)

Running(t) == ProcOf[t] \in alive

\* Nobody else is inside a window the environment keeps closed.
Undisturbed(t) ==
  \A u \in Threads \ {t} :
    /\ TornReads \/ ~Running(u) \/ (pc[u] # "write" /\ beat[u] # "fill")
    /\ ReclaimRaces \/ ~Running(u) \/ (pc[u] \notin {"unlink", "remove"} /\ beat[u] # "open")

Goto(t, label) == pc' = [pc EXCEPT ![t] = label]

\* The thread's operating system identity, and the file system, allow a step.
Ready(t, label) == Running(t) /\ pc[t] = label /\ Undisturbed(t)

BeatReady(t, label) == Running(t) /\ beat[t] = label /\ Undisturbed(t)

\* Mutant of Active: an unreadable file counts as active.
ActiveUnread == file = "empty" \/ (file = "full" /\ pid \in alive /\ fresh)

\* active_lock_state: the file parses, its pid runs and its heartbeat is recent.
\* An unreadable file counts as inactive.
Active == file = "full" /\ pid \in alive /\ fresh

\* The JSON that thread t writes into the file it has open: lost when the
\* file was unlinked meanwhile.
Fill(kind, t) ==
  IF <<kind, t>> \in handles
    THEN /\ file' = "full"
         /\ pid' = ProcOf[t]
         /\ fresh' = TRUE
         /\ handles' = handles \ {<<kind, t>>}
    ELSE UNCHANGED fileVars

\* unlink(missing_ok=True): open handles keep a file without a name.
Unlink == /\ file' = "none"
          /\ handles' = {}
          /\ UNCHANGED <<pid, fresh>>

-----------------------------------------------------------------------------
(* acquire *)

\* An operation asks for the lock (after its last heartbeat thread ended).
Acquire(t) ==
  /\ Running(t) /\ pc[t] = "idle" /\ beat[t] = "off"
  /\ Goto(t, "create")
  /\ tries' = [tries EXCEPT ![t] = 1]
  /\ UNCHANGED <<fileVars, alive, beat, crashes>>

\* Mutant of Create: the file is opened without O_EXCL.
CreateAnyway(t) ==
  /\ Ready(t, "create")
  /\ file' = "empty"
  /\ handles' = handles \cup {<<"acquire", t>>}
  /\ Goto(t, "write")
  /\ UNCHANGED <<pid, fresh, alive, tries, beat, crashes>>

\* os.open(O_CREAT | O_EXCL | O_WRONLY).
Create(t) ==
  /\ Ready(t, "create")
  /\ IF file = "none"
       THEN /\ file' = "empty"
            /\ handles' = handles \cup {<<"acquire", t>>}
            /\ Goto(t, "write")
       ELSE /\ Goto(t, "check")
            /\ UNCHANGED <<file, handles>>
  /\ UNCHANGED <<pid, fresh, alive, tries, beat, crashes>>

\* The state is written and the heartbeat thread starts.
WriteState(t) ==
  /\ Ready(t, "write")
  /\ Fill("acquire", t)
  /\ Goto(t, "held")
  /\ beat' = [beat EXCEPT ![t] = "wait"]
  /\ UNCHANGED <<alive, tries, crashes>>

\* FileExistsError: an active lock is busy, an inactive one is to be removed.
Check(t) ==
  /\ Ready(t, "check")
  /\ Goto(t, IF Active THEN "busy" ELSE "unlink")
  /\ UNCHANGED <<fileVars, alive, tries, beat, crashes>>

\* The inactive file is removed; the loop tries to create twice.
Reclaim(t) ==
  /\ Ready(t, "unlink")
  /\ Unlink
  /\ IF tries[t] < 2
       THEN /\ Goto(t, "create")
            /\ tries' = [tries EXCEPT ![t] = 2]
       ELSE /\ Goto(t, "busy")
            /\ UNCHANGED tries
  /\ UNCHANGED <<alive, beat, crashes>>

\* LockBusyError: the caller reports lock_busy and returns.
GiveUp(t) ==
  /\ Running(t) /\ pc[t] = "busy"
  /\ Goto(t, "idle")
  /\ UNCHANGED <<fileVars, alive, tries, beat, crashes>>

-----------------------------------------------------------------------------
(* The heartbeat thread *)

\* Unless told to stop, it reads the file, and ends if the file does not name
\* its own process.
BeatRead(t) ==
  /\ BeatReady(t, "wait") /\ pc[t] = "held"
  /\ beat' = [beat EXCEPT ![t] =
                IF file = "full" /\ pid = ProcOf[t] THEN "open" ELSE "off"]
  /\ UNCHANGED <<fileVars, alive, pc, tries, crashes>>

\* write_text opens with O_CREAT | O_TRUNC: whatever is there is emptied, and
\* a removed file comes back.
BeatOpen(t) ==
  /\ BeatReady(t, "open")
  /\ file' = "empty"
  /\ handles' = handles \cup {<<"beat", t>>}
  /\ beat' = [beat EXCEPT ![t] = "fill"]
  /\ UNCHANGED <<pid, fresh, alive, pc, tries, crashes>>

BeatFill(t) ==
  /\ BeatReady(t, "fill")
  /\ Fill("beat", t)
  /\ beat' = [beat EXCEPT ![t] = IF pc[t] \in {"held", "join"} THEN "wait" ELSE "off"]
  /\ UNCHANGED <<alive, pc, tries, crashes>>

-----------------------------------------------------------------------------
(* release *)

\* The operation is over: the heartbeat thread is told to stop.
StartRelease(t) ==
  /\ Running(t) /\ pc[t] = "held"
  /\ Goto(t, "join")
  /\ UNCHANGED <<fileVars, alive, tries, beat, crashes>>

\* A waiting heartbeat thread sees the stop event; a writing one finishes
\* first, unless the join times out after two seconds.
Join(t) ==
  /\ Running(t) /\ pc[t] = "join"
  /\ beat[t] \in {"wait", "off"} \/ Stalls
  /\ Goto(t, "readback")
  /\ beat' = IF beat[t] = "wait" THEN [beat EXCEPT ![t] = "off"] ELSE beat
  /\ UNCHANGED <<fileVars, alive, tries, crashes>>

\* A file that names another process is left alone; its own file, a missing
\* one and an unreadable one are removed.
ReadBack(t) ==
  /\ Ready(t, "readback")
  /\ Goto(t, IF file = "full" /\ pid # ProcOf[t] THEN "idle" ELSE "remove")
  /\ UNCHANGED <<fileVars, alive, tries, beat, crashes>>

Remove(t) ==
  /\ Ready(t, "remove")
  /\ Unlink
  /\ Goto(t, "idle")
  /\ UNCHANGED <<alive, tries, beat, crashes>>

-----------------------------------------------------------------------------
(* The environment *)

\* A process dies; its file stays, as far as it was written.
Crash(q) ==
  /\ q \in alive
  /\ crashes < MaxCrashes
  /\ crashes' = crashes + 1
  /\ alive' = alive \ {q}
  /\ pc' = [t \in Threads |-> IF ProcOf[t] = q THEN "idle" ELSE pc[t]]
  /\ beat' = [t \in Threads |-> IF ProcOf[t] = q THEN "off" ELSE beat[t]]
  /\ handles' = {h \in handles : ProcOf[h[2]] # q}
  /\ UNCHANGED <<file, pid, fresh, tries>>

\* stale_seconds pass without a heartbeat.  The heartbeat comes three times
\* as often, so only a suspended process lets a lock it holds or is releasing
\* go stale.
GoStale ==
  /\ file = "full" /\ fresh
  /\ Stalls \/ \A t \in Threads :
                ProcOf[t] = pid => beat[t] = "off" /\ pc[t] \notin {"readback", "remove"}
  /\ fresh' = FALSE
  /\ UNCHANGED <<file, pid, handles, alive, pc, tries, beat, crashes>>

-----------------------------------------------------------------------------
(* The specification *)

Step(t) ==
  \/ Create(t) \/ WriteState(t) \/ Check(t) \/ Reclaim(t) \/ GiveUp(t)
  \/ StartRelease(t) \/ Join(t) \/ ReadBack(t) \/ Remove(t)

BeatStep(t) == BeatRead(t) \/ BeatOpen(t) \/ BeatFill(t)

Next == \/ \E t \in Threads : Acquire(t) \/ Step(t) \/ BeatStep(t)
        \/ \E q \in Procs : Crash(q)
        \/ GoStale

Spec == Init /\ [][Next]_vars

\* Operations end, threads run, and time passes.  A daemon comes back for the
\* lock after lock_busy, so a thread that lives asks again.
Fairness ==
  /\ \A t \in Threads : WF_vars(Acquire(t)) /\ WF_vars(Step(t))
                        /\ WF_vars(BeatOpen(t) \/ BeatFill(t))
  /\ WF_vars(GoStale)

FairSpec == Spec /\ Fairness

-----------------------------------------------------------------------------
(* Properties *)

\* The threads whose operation believes it has the lock.
Holders == {t \in Threads : Running(t) /\ pc[t] = "held"}

\* Only one writer operation runs at a time.
MutualExclusion == \A t, u \in Holders : t = u

\* While an operation runs, the file protects it: it names the holder's
\* process and is fresh (or is being rewritten by the holder's heartbeat),
\* and nobody is about to remove it.
HolderProtected ==
  \A t \in Holders :
    /\ \/ file = "full" /\ pid = ProcOf[t] /\ fresh
       \/ file = "empty" /\ beat[t] = "fill" /\ <<"beat", t>> \in handles
    /\ beat[t] # "off"
    /\ \A u \in Threads : Running(u) => pc[u] \notin {"unlink", "remove", "write"}

\* The file protocol implements the abstract lock.
TheHolder == IF Holders = {} THEN NoThread ELSE CHOOSE t \in Holders : TRUE
Mutex == INSTANCE WriterMutex WITH holder <- TheHolder
ImplementsMutex == Mutex!Spec

\* A lock left by a dead process, half-written or not, does not stay: the
\* next operation that asks removes it.
DeadLockReclaimed ==
  (file # "none" /\ Holders = {} /\ alive # {}) ~> (file = "none" \/ Holders # {} \/ alive = {})
=============================================================================
