----------------------------- MODULE MCServices -----------------------------
(* Small instances, side by side, of components that are called from threads *)
(* and commands at will: they share no state, so a behaviour is a behaviour  *)
(* of one of them while the others have not begun.                           *)
EXTENDS RecordIndex, TraceSubmission, ContextLearning, ProjectSettings,
        TraceIngestion, ContextAnswer,
        RecordFeedback, DaemonLoop, SkillProposals, TLC

CONSTANTS content, session, dirName

VARIABLE service   \* which component moves

MCContentOf == [t \in Traces |-> content]
MCSessionOf == [t \in Traces |-> session]
MCBaseOf == [d \in Dirs |-> dirName]
MCProjectOf == [r \in Answerable |-> r]

ServicesVars ==
  <<service, indexVars, traceVars, learnVars, settingsVars,
    ingestionVars, answerVars, feedbackVars, daemonVars, skillVars>>

\* A component that may begin in several ways begins in one of them while
\* another moves.
ServicesInit ==
  /\ service \in {"index", "traces", "learning", "settings",
                  "ingestion", "answers", "feedback", "daemon", "skills"}
  /\ IndexInit /\ TraceInit /\ LearnInit /\ SettingsInit
  /\ IngestionInit /\ AnswerInit /\ FeedbackInit /\ DaemonInit /\ SkillInit
  /\ service = "ingestion" \/ (lengths = <<>> /\ signalPack = <<"generic", FALSE>>)
  /\ service = "daemon" \/ autoUnload

OnlyMoves(component) ==
  /\ service = component
  /\ UNCHANGED service
  /\ IF component = "index" THEN TRUE ELSE UNCHANGED indexVars
  /\ IF component = "traces" THEN TRUE ELSE UNCHANGED traceVars
  /\ IF component = "learning" THEN TRUE ELSE UNCHANGED learnVars
  /\ IF component = "settings" THEN TRUE ELSE UNCHANGED settingsVars
  /\ IF component = "ingestion" THEN TRUE ELSE UNCHANGED ingestionVars
  /\ IF component = "answers" THEN TRUE ELSE UNCHANGED answerVars
  /\ IF component = "feedback" THEN TRUE ELSE UNCHANGED feedbackVars
  /\ IF component = "daemon" THEN TRUE ELSE UNCHANGED daemonVars
  /\ IF component = "skills" THEN TRUE ELSE UNCHANGED skillVars

ServicesNext ==
  \/ OnlyMoves("index") /\ IndexNext
  \/ OnlyMoves("traces") /\ TraceNext
  \/ OnlyMoves("learning") /\ LearnNext
  \/ OnlyMoves("settings") /\ SettingsNext
  \/ OnlyMoves("ingestion") /\ IngestionNext
  \/ OnlyMoves("answers") /\ AnswerNext
  \/ OnlyMoves("feedback") /\ FeedbackNext
  \/ OnlyMoves("daemon") /\ DaemonNext
  \/ OnlyMoves("skills") /\ SkillNext

ServicesSpec == ServicesInit /\ [][ServicesNext]_ServicesVars

\* Every variable of the components stays in its type.
ServicesTypeOK ==
  /\ TypeOK /\ TraceTypeOK /\ LearnTypeOK
  /\ SettingsTypeOK /\ IngestionTypeOK /\ AnswerTypeOK /\ FeedbackTypeOK /\ DaemonTypeOK
  /\ SkillTypeOK

\* The components share the names of their objects, r1 and r2, and of their
\* actors, w1 and w2: one permutation serves whichever component moves.
Symmetry == Permutations(Records) \union Permutations(Writers)
=============================================================================
