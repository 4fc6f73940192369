---------------------------- MODULE ContextAnswer ----------------------------
(* Questions about the stored context: a model plans reads of the store,     *)
(* each read is a transaction of its own, and a model writes the answer and  *)
(* names the records that support it; a query is one read.  Meanwhile        *)
(* records appear, retire and are reset.                                     *)
EXTENDS Naturals

CONSTANTS
  Answerable,      \* records
  ProjectOf,       \* the project of each
  Questions,       \* requests to answer, each with a thread
  MaxActions       \* answer_max_retrieval_actions

ASSUME AnswerAssumption == MaxActions \in Nat \ {0}

VARIABLES
  shelf,      \* the record's state: absent, current, retired, or no longer valid
  asking,     \* what each question is doing
  lived       \* the records that have been current since the question began

answerVars == <<shelf, asking, lived>>

Shelved == {"current", "retired", "expired"}
ProjectIds == {ProjectOf[r] : r \in Answerable}
Quiescent == [stage |-> "idle", projects |-> {}, actions |-> 0, archived |-> FALSE,
              found |-> {}, cited |-> {}]

Ask(q, state) == asking' = [asking EXCEPT ![q] = state]

-----------------------------------------------------------------------------
(* The writers. *)

CurrentNow(now) == {r \in Answerable : now[r] = "current"}
ShelfBecomes(now) ==
  /\ shelf' = now
  /\ lived' = [q \in Questions |-> lived[q] \union CurrentNow(now)]

Learn(r) ==
  /\ shelf[r] = "absent"
  /\ ShelfBecomes([shelf EXCEPT ![r] = "current"])
  /\ UNCHANGED asking

Retire(r) ==
  /\ shelf[r] = "current"
  /\ \E state \in {"retired", "expired"} : ShelfBecomes([shelf EXCEPT ![r] = state])
  /\ UNCHANGED asking

ResetShelf(p) ==
  /\ ShelfBecomes([r \in Answerable |-> IF ProjectOf[r] = p THEN "absent" ELSE shelf[r]])
  /\ UNCHANGED asking

-----------------------------------------------------------------------------
(* Questions. *)

\* The projects are those registered now: all of them, or the one named.
Selections == {ProjectIds} \union {{p} : p \in ProjectIds}

Free(q) == asking[q].stage \in {"idle", "answered", "failed"}

BeginAnswer(q) ==
  /\ Free(q)
  /\ \E projects \in Selections :
       Ask(q, [Quiescent EXCEPT !.stage = "plan", !.projects = projects])
  /\ lived' = [lived EXCEPT ![q] = CurrentNow(shelf)]
  /\ UNCHANGED shelf

\* A plan has at least one action and no more than the limit, or, when the
\* model's attempts are used up, there is none.
PlanRetrieval(q) ==
  /\ asking[q].stage = "plan"
  /\ \/ \E n \in 1..MaxActions : Ask(q, [asking[q] EXCEPT !.stage = "retrieve", !.actions = n])
     \/ Ask(q, [asking[q] EXCEPT !.stage = "failed"])
  /\ UNCHANGED <<shelf, lived>>

\* What a read may return: records of the asked projects, current ones
\* unless it asks for a status, a past time or archived records.
Returned(projects, archived) ==
  {r \in Answerable : ProjectOf[r] \in projects /\
     shelf[r] \in IF archived THEN Shelved ELSE {"current"}}

\* Every record that was not reset has its versions.
ReturnedVersions(projects) == Returned(projects, TRUE)

\* Filters and the limit may leave out any of them; a count returns none.
ExecuteAction(q) ==
  /\ asking[q].stage = "retrieve"
  /\ asking[q].actions > 0
  /\ \E archived \in BOOLEAN : \E hits \in SUBSET Returned(asking[q].projects, archived) :
       Ask(q, [asking[q] EXCEPT !.actions = @ - 1, !.archived = @ \/ archived,
                                !.found = @ \union hits])
  /\ UNCHANGED <<shelf, lived>>

\* An action the plan's check lets through may still fail: a kind or a role
\* that does not exist.
ActionFails(q) ==
  /\ asking[q].stage = "retrieve"
  /\ asking[q].actions > 0
  /\ Ask(q, [asking[q] EXCEPT !.stage = "failed"])
  /\ UNCHANGED <<shelf, lived>>

\* Mutant of ValidSupportingRecordIds: the model is taken at its word.
SupportingRecordIdsAsGiven(q, ids) == ids

ValidSupportingRecordIds(q, ids) == ids \intersect asking[q].found

\* The model may name any record, retrieved or not.
AnswerFromContext(q) ==
  /\ asking[q].stage = "retrieve"
  /\ asking[q].actions = 0
  /\ \/ \E ids \in SUBSET Answerable :
          Ask(q, [asking[q] EXCEPT !.stage = "answered",
                                   !.cited = ValidSupportingRecordIds(q, ids)])
     \/ Ask(q, [asking[q] EXCEPT !.stage = "failed"])
  /\ UNCHANGED <<shelf, lived>>

\* api_query: one read of records or of their versions, which filters and the
\* limit cut down.
QueryContext(q) ==
  /\ Free(q)
  /\ \E projects \in Selections, entity \in {"records", "versions"}, archived \in BOOLEAN :
       /\ entity = "versions" => archived
       /\ \E hits \in SUBSET (IF entity = "records" THEN Returned(projects, archived)
                              ELSE ReturnedVersions(projects)) :
            Ask(q, [Quiescent EXCEPT !.stage = "answered", !.projects = projects,
                                     !.archived = archived, !.cited = hits])
  /\ lived' = [lived EXCEPT ![q] = CurrentNow(shelf)]
  /\ UNCHANGED shelf

\* A query that the store does not understand, or has no database for.
QueryRefused(q) ==
  /\ Free(q)
  /\ Ask(q, [Quiescent EXCEPT !.stage = "failed"])
  /\ UNCHANGED <<shelf, lived>>

AnswerInit ==
  /\ shelf = [r \in Answerable |-> "absent"]
  /\ asking = [q \in Questions |-> Quiescent]
  /\ lived = [q \in Questions |-> {}]

AnswerNext ==
  \/ \E r \in Answerable : Learn(r) \/ Retire(r)
  \/ \E p \in ProjectIds : ResetShelf(p)
  \/ \E q \in Questions :
       BeginAnswer(q) \/ PlanRetrieval(q) \/ ExecuteAction(q) \/ ActionFails(q)
       \/ AnswerFromContext(q) \/ QueryContext(q) \/ QueryRefused(q)

AnswerSpec == AnswerInit /\ [][AnswerNext]_answerVars

-----------------------------------------------------------------------------
\* Every variable of the questions stays in its type.
AnswerTypeOK ==
  /\ shelf \in [Answerable -> Shelved \union {"absent"}]
  /\ \A q \in Questions :
       /\ asking[q].stage \in {"idle", "plan", "retrieve", "answered", "failed"}
       /\ asking[q].found \union asking[q].cited \union lived[q] \subseteq Answerable

\* A record that an answer cites or a query returns belongs to a project that
\* was asked, and was current at some moment since the question was put, unless
\* archived records or versions were asked for: whatever was retired, reset or learned meanwhile and
\* whatever the model names.
CitedWasCurrent ==
  \A q \in Questions : \A r \in asking[q].cited :
    /\ ProjectOf[r] \in asking[q].projects
    /\ asking[q].archived \/ r \in lived[q]
=============================================================================
