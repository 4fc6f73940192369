---------------------------- MODULE AtomicReview ----------------------------
(***************************************************************************)
(* What reviewing a proposed change promises: the change goes into every   *)
(* file of its patch at one instant, once, next to the changes that are in *)
(* those files then; a change that is rejected, or whose application       *)
(* fails, is in no file.  A crash in the middle breaks the files it hits,  *)
(* and nothing is promised of them any more.  SkillProposals implements it *)
(* with a baseline check, writes of one file after another, and backups.   *)
(***************************************************************************)
CONSTANTS
  Files,
  Proposals

VARIABLES
  text,    \* the set of proposals each file contains
  fate,    \* what became of each proposal
  broken   \* the files somebody has to repair by hand

Init ==
  /\ text = [f \in Files |-> {}]
  /\ fate = [p \in Proposals |-> "open"]
  /\ broken = {}

\* A verdict is given once.
Decide(p, verdict) ==
  /\ fate[p] = "open" /\ fate'[p] = verdict
  /\ fate' = [fate EXCEPT ![p] = verdict]

Apply(p) ==
  /\ Decide(p, "applied")
  /\ UNCHANGED broken
  /\ \E fs \in (SUBSET Files) \ {{}} :
       text' = [f \in Files |-> IF f \in fs \ broken THEN text[f] \union {p} ELSE text[f]]

Reject(p) ==
  /\ Decide(p, "rejected")
  /\ UNCHANGED <<text, broken>>

Break ==
  /\ broken' # broken
  /\ UNCHANGED fate
  /\ \E fs \in (SUBSET Files) \ {{}} :
       /\ broken' = broken \union fs
       /\ text' = [f \in Files |-> IF f \in fs THEN {} ELSE text[f]]

Next == Break \/ \E p \in Proposals : Apply(p) \/ Reject(p)

Spec == Init /\ [][Next]_<<text, fate, broken>>
=============================================================================
