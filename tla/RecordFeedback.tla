---------------------------- MODULE RecordFeedback ----------------------------
(* Feedback on stored records, which earns them the confidence that ranks    *)
(* them: each request reads a record's confidence, adds a feedback row and   *)
(* writes the new confidence, in one transaction that takes the write lock   *)
(* before it reads.                                                          *)
EXTENDS Integers, Sequences, SequencesExt

CONSTANTS
  Rated,           \* records
  Voters,          \* requests that give feedback
  MaxVotes,        \* bound: the feedback rows of a record
  MaxConfidence    \* 1.0, in steps of the weakest signal

NoVoter == "none"

ASSUME FeedbackAssumption ==
  MaxVotes \in Nat /\ MaxConfidence \in Nat /\ NoVoter \notin Voters

VARIABLES
  stored,     \* the records that exist
  confidence, \* as the record's row has it
  votes,      \* the feedback rows of a record, in order; a reset keeps them
  voting,     \* what each request is doing
  immediate,  \* who holds the store's write lock
  earlier     \* history: the feedback rows there when the record was last created

feedbackVars == <<stored, confidence, votes, voting, immediate, earlier>>

Deltas == [used |-> 1, confirm |-> 3, wrong |-> -5]
DefaultConfidence == MaxConfidence \div 2
Clamped(n) == IF n < 0 THEN 0 ELSE IF n > MaxConfidence THEN MaxConfidence ELSE n
NextRecordConfidence(current, signal) == Clamped(current + Deltas[signal])

Waiting == [stage |-> "idle", record |-> NoVoter, signal |-> NoVoter, seen |-> 0]
LockFree == immediate = NoVoter
Done(v) ==
  /\ voting' = [voting EXCEPT ![v] = Waiting]
  /\ immediate' = IF immediate = v THEN NoVoter ELSE immediate

-----------------------------------------------------------------------------
\* A new record, or one that a reset deleted and a pull from the cloud creates
\* again under its old identifier: with the default confidence, and with the
\* feedback rows that were given to it before.
CreateRated(r) ==
  /\ LockFree
  /\ r \notin stored
  /\ stored' = stored \union {r}
  /\ confidence' = [confidence EXCEPT ![r] = DefaultConfidence]
  /\ earlier' = [earlier EXCEPT ![r] = Len(votes[r])]
  /\ UNCHANGED <<votes, voting, immediate>>

ForgetRated(r) ==
  /\ LockFree
  /\ stored' = stored \ {r}
  /\ UNCHANGED <<confidence, votes, voting, immediate, earlier>>

\* Mutant of BeginImmediate: a plain BEGIN, which locks at the first write.
BeginDeferred(v) == UNCHANGED immediate

BeginImmediate(v) == LockFree /\ immediate' = v

BeginFeedback(v) ==
  /\ voting[v].stage = "idle"
  /\ BeginImmediate(v)
  /\ \E r \in Rated, signal \in DOMAIN Deltas :
       /\ Len(votes[r]) < MaxVotes
       /\ voting' = [voting EXCEPT ![v] =
                       [stage |-> "read", record |-> r, signal |-> signal, seen |-> 0]]
  /\ UNCHANGED <<stored, confidence, votes, earlier>>

ReadConfidence(v) ==
  /\ voting[v].stage = "read"
  /\ voting[v].record \in stored
  /\ voting' = [voting EXCEPT ![v].stage = "write", ![v].seen = confidence[voting[v].record]]
  /\ UNCHANGED <<stored, confidence, votes, immediate, earlier>>

\* record_not_found, a statement that fails, a process that dies: the
\* transaction is rolled back.
AbortFeedback(v) ==
  /\ voting[v].stage # "idle"
  /\ Done(v)
  /\ UNCHANGED <<stored, confidence, votes, earlier>>

WriteFeedback(v) ==
  LET vote == voting[v] IN
  /\ vote.stage = "write"
  /\ immediate \in {v, NoVoter}
  /\ votes' = [votes EXCEPT ![vote.record] = Append(@, vote.signal)]
  /\ confidence' = [confidence EXCEPT
       ![vote.record] = NextRecordConfidence(vote.seen, vote.signal)]
  /\ Done(v)
  /\ UNCHANGED <<stored, earlier>>

FeedbackInit ==
  /\ stored = {}
  /\ confidence = [r \in Rated |-> DefaultConfidence]
  /\ votes = [r \in Rated |-> <<>>]
  /\ voting = [v \in Voters |-> Waiting]
  /\ immediate = NoVoter
  /\ earlier = [r \in Rated |-> 0]

FeedbackNext ==
  \/ \E r \in Rated : CreateRated(r) \/ ForgetRated(r)
  \/ \E v \in Voters :
       BeginFeedback(v) \/ ReadConfidence(v) \/ WriteFeedback(v) \/ AbortFeedback(v)

FeedbackSpec == FeedbackInit /\ [][FeedbackNext]_feedbackVars

-----------------------------------------------------------------------------
\* Every variable of the feedback stays in its type.
FeedbackTypeOK ==
  /\ stored \subseteq Rated
  /\ confidence \in [Rated -> 0..MaxConfidence]
  /\ \A r \in Rated : votes[r] \in Seq(DOMAIN Deltas)
  /\ immediate \in Voters \union {NoVoter}
  /\ \A v \in Voters : voting[v].stage \in {"idle", "read", "write"}
  /\ \A r \in Rated : earlier[r] \in 0..Len(votes[r])

\* The feedback that a record has had since it was last created.
FeedbackSince(r) == SubSeq(votes[r], earlier[r] + 1, Len(votes[r]))

\* A record has the confidence that its feedback since it was created earned,
\* signal by signal, in the order of the rows: no two requests are decided on
\* one reading, and a reset and a pull in between start it anew.
ConfidenceIsEarned ==
  \A r \in stored :
    confidence[r] = FoldLeft(NextRecordConfidence, DefaultConfidence, FeedbackSince(r))
=============================================================================
