-------------------------- MODULE MCTraceSubmission --------------------------
(* One submitted trace and the commands that retry it.                      *)
EXTENDS TraceSubmission

CONSTANTS content, session

MCContentOf == [t \in Traces |-> content]
MCSessionOf == [t \in Traces |-> session]
=============================================================================
