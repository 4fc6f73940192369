------------------------------ MODULE DaemonLoop ------------------------------
(* The loop of "lerim serve" that runs ingestion, curation and the daily     *)
(* pages when they are due, ships to the cloud and sleeps until the next is. *)
(* The writer lock may be held by requests and commands; the models that an  *)
(* operation needs are loaded before it and unloaded after it.               *)
EXTENDS Integers

CONSTANTS
  IngestInterval, CurateInterval, DailyInterval,
  BusyRetry,        \* DAEMON_LOCK_BUSY_RETRY_SECONDS
  Longest,          \* bound: how long an operation takes
  MaxClock          \* bound on time

Operations == <<"ingest", "curate", "daily">>
Interval == [ingest |-> IngestInterval, curate |-> CurateInterval, daily |-> DailyInterval]

ASSUME DaemonAssumption ==
  /\ {IngestInterval, CurateInterval, DailyInterval, BusyRetry} \subseteq Nat \ {0}
  /\ Longest \in Nat /\ MaxClock \in Nat

VARIABLES
  clock,
  now,        \* the time at the head of this turn of the loop
  lastRun,    \* the anchor of each operation's timer
  turn,       \* where the loop is: an operation's number, ship or sleep
  code,       \* the loop's variable: the exit code that was assigned last
  summaries,  \* the result variables that have been assigned
  ended,      \* how the last attempt of each operation ended, and when
  wakeAt,
  autoUnload  \* the setting; it matters when the agents' provider is Ollama

daemonVars == <<clock, now, lastRun, turn, code, summaries, ended, wakeAt, autoUnload>>

Lower(m, n) == IF m < n THEN m ELSE n
Higher(m, n) == IF m < n THEN n ELSE m
Earliest(times) == CHOOSE t \in times : \A u \in times : t <= u

NextTimes == {lastRun[op] + Interval[op] : op \in DOMAIN Interval}
Due(op) == now - lastRun[op] >= Interval[op]

\* Mutant of DaemonLastRunAfterAttempt: a busy lock is an attempt like others.
DaemonLastRun(op, finished, exit) == finished

DaemonLastRunAfterAttempt(op, finished, exit) ==
  IF exit # "busy" THEN finished
  ELSE finished - Interval[op] + Lower(BusyRetry, Interval[op])

\* The context manager returns from its finally clause when it has nothing to
\* unload, and with that swallows what the operation raised.
Swallows == ~autoUnload

-----------------------------------------------------------------------------
Operation(i) == turn = i /\ i \in DOMAIN Operations
Took(op, exit) ==
  \E d \in 0..Longest :
    /\ clock' = clock + d
    /\ ended' = [ended EXCEPT ![op] = [exit |-> exit, at |-> clock + d]]

NotDue(i) ==
  /\ Operation(i)
  /\ ~Due(Operations[i])
  /\ turn' = i + 1
  /\ UNCHANGED <<clock, now, lastRun, code, summaries, ended, wakeAt, autoUnload>>

\* The variable an operation's result is read from: details serves both curate
\* and the daily pages, which may raise after they have set it.
Result(op) == IF op = "ingest" THEN "summary" ELSE "details"

AfterRaise(op) ==
  {summaries} \union (IF op = "daily" THEN {summaries \union {Result(op)}} ELSE {})

\* The daily pages have no exit code.
OperationReturns(i, exit) ==
  LET op == Operations[i] IN
  /\ Operation(i) /\ Due(op)
  /\ op = "daily" => exit = "ok"
  /\ Took(op, exit)
  /\ code' = IF op = "daily" THEN code ELSE exit
  /\ summaries' = summaries \union {Result(op)}
  /\ lastRun' = [lastRun EXCEPT ![op] = DaemonLastRunAfterAttempt(op, clock', exit)]
  /\ turn' = i + 1
  /\ UNCHANGED <<now, wakeAt, autoUnload>>

\* An exception ends in the handler, which starts the interval anew.
OperationRaises(i) ==
  LET op == Operations[i] IN
  /\ Operation(i) /\ Due(op)
  /\ ~Swallows
  /\ Took(op, "raised")
  /\ lastRun' = [lastRun EXCEPT ![op] = clock']
  /\ summaries' \in AfterRaise(op)
  /\ turn' = i + 1
  /\ UNCHANGED <<now, code, wakeAt, autoUnload>>

\* A swallowed one leaves the variables of an earlier attempt, or of another
\* operation, or none: then reading them raises.
RaisesUnseen(i) ==
  LET op == Operations[i] IN
  /\ Operation(i) /\ Due(op)
  /\ Swallows
  /\ Took(op, "raised")
  /\ IF Result(op) \in summaries
     THEN lastRun' = [lastRun EXCEPT ![op] =
            IF op = "daily" THEN clock' ELSE DaemonLastRunAfterAttempt(op, clock', code)]
     ELSE lastRun' = [lastRun EXCEPT ![op] = clock']
  /\ summaries' \in AfterRaise(op)
  /\ turn' = i + 1
  /\ UNCHANGED <<now, code, wakeAt, autoUnload>>

\* Shipping fails without harm; then the loop sleeps, a second at least.
ShipToCloudOnce ==
  /\ turn = 4
  /\ \E d \in 0..Longest : clock' = clock + d
  /\ wakeAt' = Higher(clock' + 1, Earliest(NextTimes))
  /\ turn' = 0
  /\ UNCHANGED <<now, lastRun, code, summaries, ended, autoUnload>>

Wake ==
  /\ turn = 0
  /\ wakeAt <= MaxClock
  /\ clock' = Higher(clock, wakeAt)
  /\ now' = clock'
  /\ turn' = 1
  /\ UNCHANGED <<lastRun, code, summaries, ended, wakeAt, autoUnload>>

\* Every operation is due at once when the loop begins, after a first ship.
DaemonInit ==
  /\ clock = 0 /\ now = 0
  /\ lastRun = [op \in DOMAIN Interval |-> 0 - Interval[op]]
  /\ turn = 1
  /\ code = "unset" /\ summaries = {}
  /\ ended = [op \in DOMAIN Interval |-> [exit |-> "ok", at |-> 0]]
  /\ wakeAt = 0
  /\ autoUnload \in BOOLEAN

DaemonNext ==
  \/ \E i \in DOMAIN Operations :
       \/ NotDue(i) \/ OperationRaises(i) \/ RaisesUnseen(i)
       \/ \E exit \in {"ok", "failed", "busy"} : OperationReturns(i, exit)
  \/ ShipToCloudOnce \/ Wake

DaemonSpec == DaemonInit /\ [][DaemonNext]_daemonVars

-----------------------------------------------------------------------------
\* Every variable of the loop stays in its type.
DaemonTypeOK ==
  /\ clock \in Nat /\ now \in 0..clock /\ wakeAt \in Nat
  /\ lastRun \in [DOMAIN Interval -> Int]
  /\ turn \in 0..4
  /\ code \in {"unset", "ok", "failed", "busy"}
  /\ summaries \subseteq {"summary", "details"}

\* An operation that found the writer lock held is tried again after the
\* short retry, and every other after its interval: whatever the operations
\* in between take, the loop sleeps no longer than to the first of these
\* times, or a second.
BusyIsRetriedSoon ==
  turn = 0 =>
    \A op \in DOMAIN Interval :
      wakeAt <= Higher(clock + 1, ended[op].at +
                  IF ended[op].exit = "busy" THEN BusyRetry ELSE Interval[op])
=============================================================================
