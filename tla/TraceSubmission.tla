--------------------------- MODULE TraceSubmission ---------------------------
(***************************************************************************)
(* Traces submitted by agents or imported by hand (traces/submissions.py,  *)
(* traces/importer.py, mcp_server.py): each has a manifest beside it that  *)
(* says what became of it and how to retry it.  A trace is told apart by   *)
(* its normalized content, which also names its normalized copy; the       *)
(* session row of the context store remembers the copy it was last         *)
(* registered with.                                                        *)
(***************************************************************************)
EXTENDS Naturals

CONSTANTS
  Traces,         \* submitted files
  Contents,       \* normalized contents
  TraceSessions,  \* session ids
  ContentOf,      \* normalized content of each trace
  TraceSessionOf, \* session id of each trace
  Clients,        \* MCP calls and commands
  Rejections,     \* TRUE: an extraction may return without having written
  MaxRetries,     \* bound: number of retries
  NoContent       \* the session is not registered

ASSUME TraceAssumption ==
  /\ ContentOf \in [Traces -> Contents]
  /\ TraceSessionOf \in [Traces -> TraceSessions]
  /\ NoContent \notin Contents
  /\ Traces # {}
  /\ Rejections \in BOOLEAN
  /\ MaxRetries \in Nat

VARIABLES
  manifest,     \* status and force of each trace's manifest
  ref,          \* sessions.source_trace_ref
  learnedFrom,  \* the contents whose records the store holds, by session
  stage,        \* control state of each client
  trace,        \* the trace it imports
  forced,       \* --force
  outcome,      \* what import_trace_file returned or raised
  retries       \* retries left

traceVars == <<manifest, ref, learnedFrom, stage, trace, forced, outcome, retries>>

Outcomes == {"imported", "duplicate_skipped", "failed"}

TraceTypeOK ==
  /\ manifest \in [Traces -> [status : {"none", "submitted"} \union Outcomes, force : BOOLEAN]]
  /\ ref \in [TraceSessions -> Contents \union {NoContent}]
  /\ learnedFrom \in [TraceSessions -> SUBSET Contents]
  /\ stage \in [Clients -> {"idle", "check", "register", "extract", "mark"}]
  /\ trace \in [Clients -> Traces]
  /\ forced \in [Clients -> BOOLEAN]
  /\ outcome \in [Clients -> Outcomes]
  /\ retries \in 0..MaxRetries

TraceInit ==
  /\ manifest = [t \in Traces |-> [status |-> "none", force |-> FALSE]]
  /\ ref = [s \in TraceSessions |-> NoContent]
  /\ learnedFrom = [s \in TraceSessions |-> {}]
  /\ stage = [c \in Clients |-> "idle"]
  /\ trace \in [Clients -> {CHOOSE t \in Traces : TRUE}]
  /\ forced = [c \in Clients |-> FALSE]
  /\ outcome = [c \in Clients |-> "failed"]
  /\ retries = MaxRetries

SessionOfClient(c) == TraceSessionOf[trace[c]]
ContentOfClient(c) == ContentOf[trace[c]]

StartImport(c, t, force) ==
  /\ stage[c] = "idle"
  /\ stage' = [stage EXCEPT ![c] = "check"]
  /\ trace' = [trace EXCEPT ![c] = t]
  /\ forced' = [forced EXCEPT ![c] = force]

\* lerim_trace_submit: the file and its manifest are written before the import.
Submit(c, t) ==
  /\ manifest[t].status = "none"
  /\ \E force \in BOOLEAN :
       /\ manifest' = [manifest EXCEPT ![t] = [status |-> "submitted", force |-> force]]
       /\ StartImport(c, t, force)
  /\ UNCHANGED <<ref, learnedFrom, outcome, retries>>

\* retry_submitted_trace, on any trace that has a manifest.
Retry(c, t) ==
  /\ manifest[t].status # "none" /\ retries > 0
  /\ retries' = retries - 1
  /\ \E force \in BOOLEAN : StartImport(c, t, force \/ manifest[t].force)
  /\ UNCHANGED <<manifest, ref, learnedFrom, outcome>>

Ends(c, result) ==
  /\ stage' = [stage EXCEPT ![c] = "mark"]
  /\ outcome' = [outcome EXCEPT ![c] = result]

\* load_generic_trace, write_compact_trace and _is_duplicate_import: the session
\* already points at a copy with the same content.
IsDuplicateImport(c) == ref[SessionOfClient(c)] = ContentOfClient(c)

\* Mutant of Check: a duplicate counts as imported.
CheckCounting(c) ==
  /\ stage[c] = "check"
  /\ IF ~forced[c] /\ IsDuplicateImport(c)
     THEN Ends(c, "imported")
     ELSE stage' = [stage EXCEPT ![c] = "register"] /\ UNCHANGED outcome
  /\ UNCHANGED <<manifest, ref, learnedFrom, trace, forced, retries>>

Check(c) ==
  /\ stage[c] = "check"
  /\ IF ~forced[c] /\ IsDuplicateImport(c)
     THEN Ends(c, "duplicate_skipped")
     ELSE stage' = [stage EXCEPT ![c] = "register"] /\ UNCHANGED outcome
  /\ UNCHANGED <<manifest, ref, learnedFrom, trace, forced, retries>>

\* _ingest_inner registers the session in a transaction of its own.
Register(c) ==
  /\ stage[c] = "register"
  /\ ref' = [ref EXCEPT ![SessionOfClient(c)] = ContentOfClient(c)]
  /\ stage' = [stage EXCEPT ![c] = "extract"]
  /\ UNCHANGED <<manifest, learnedFrom, trace, forced, outcome, retries>>

\* The extraction returns: a session that has its episode is left alone.
Extract(c) ==
  /\ stage[c] = "extract"
  /\ learnedFrom' = [learnedFrom EXCEPT ![SessionOfClient(c)] =
                       IF @ = {} THEN {ContentOfClient(c)} ELSE @]
  /\ Ends(c, "imported")
  /\ UNCHANGED <<manifest, ref, trace, forced, retries>>

\* The episode was rejected: nothing is written, and the call returns all the same.
ExtractRejected(c) ==
  /\ stage[c] = "extract"
  /\ Rejections \/ learnedFrom[SessionOfClient(c)] # {}
  /\ Ends(c, "imported")
  /\ UNCHANGED <<manifest, ref, learnedFrom, trace, forced, retries>>

\* An unreadable trace, a database error, a model that does not answer.
ImportFails(c) ==
  /\ stage[c] \in {"check", "register", "extract"}
  /\ Ends(c, "failed")
  /\ UNCHANGED <<manifest, ref, learnedFrom, trace, forced, retries>>

\* _update_attempt: the last client to come to its end has the last word.
Mark(c) ==
  /\ stage[c] = "mark"
  /\ manifest' = [manifest EXCEPT ![trace[c]].status = outcome[c]]
  /\ stage' = [stage EXCEPT ![c] = "idle"]
  /\ UNCHANGED <<ref, learnedFrom, trace, forced, outcome, retries>>

\* The process of a client dies.
ClientDies(c) ==
  /\ stage[c] # "idle"
  /\ stage' = [stage EXCEPT ![c] = "idle"]
  /\ UNCHANGED <<manifest, ref, learnedFrom, trace, forced, outcome, retries>>

TraceNext ==
  \E c \in Clients :
    \/ \E t \in Traces : Submit(c, t) \/ Retry(c, t)
    \/ Check(c) \/ Register(c) \/ Extract(c) \/ ExtractRejected(c) \/ ImportFails(c)
    \/ Mark(c) \/ ClientDies(c)

TraceSpec == TraceInit /\ [][TraceNext]_traceVars

-----------------------------------------------------------------------------
(* Properties *)

Learned(t) == learnedFrom[TraceSessionOf[t]] # {}

\* A manifest that says "imported" speaks of a session the store has learned,
\* whatever other clients, retries and crashes did to the manifest meanwhile.
ImportedIsLearned == \A t \in Traces : manifest[t].status = "imported" => Learned(t)

\* A manifest that says "duplicate_skipped" speaks of a session the store has
\* learned: a submission that failed can be retried (docs/cli/mcp.md).
SkippedIsLearned == \A t \in Traces : manifest[t].status = "duplicate_skipped" => Learned(t)
=============================================================================
