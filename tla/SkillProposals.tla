--------------------------- MODULE SkillProposals ---------------------------
(***************************************************************************)
(* Proposed changes of instruction files: compiled by a refresh, reviewed  *)
(* in the dashboard, applied to the files on disk (skill_stewardship/ and  *)
(* server/skill_api.py).  The text of a file is the set of changes it      *)
(* contains, an absent file contains none; a patch keeps the text before   *)
(* it and the text after it.  The statuses "approved" and "superseded" are *)
(* never set by the code.                                                  *)
(***************************************************************************)
EXTENDS FiniteSets, Integers

CONSTANTS
  Files,        \* the files of one registered target
  Proposals,    \* proposal ids
  NoProposal,   \* what an agent works on before its first call
  Agents,       \* HTTP threads and commands
  UserEdits,    \* changes people make to the files by hand
  SkillRaces,   \* the races that may happen, among SkillRaceKinds
  MaxAccidents  \* bound: edits by hand, crashes and failed restores

\* "status": a status changes between the check of it and the update.
\* "rebase": a file changes between the text a patch was written for and the
\* moment the patch is given its baseline.
SkillRaceKinds == {"status", "rebase"}

ASSUME SkillAssumption ==
  /\ SkillRaces \subseteq SkillRaceKinds
  /\ Proposals \cap UserEdits = {}
  /\ NoProposal \notin Proposals
  /\ MaxAccidents \in Nat

VARIABLES
  text,        \* the text of each file
  proposal,    \* instruction_update_proposals
  step,        \* control state of each agent
  open,        \* the proposal each agent works on
  copy,        \* the patch it has in memory
  todo,        \* files it still has to write
  backup,      \* the texts _prepare_patches read
  dbWriter,    \* the agent inside BEGIN IMMEDIATE, as a set
  accidents,   \* how many edits by hand, crashes and failed restores there were
  told,        \* history: the proposals the last committed application left in a file
  torn         \* history: the files an application was cut off in, or two had at once

history == <<told, torn>>
skillVars == <<text, proposal, step, open, copy, todo, backup, dbWriter, accidents, history>>

Changes == Proposals \union UserEdits
Texts   == [Files -> SUBSET Changes]
NoText  == [f \in Files |-> {}]
Patches == [files : SUBSET Files, before : Texts, after : Texts]
NoPatch == [files |-> {}, before |-> NoText, after |-> NoText]

Statuses == {"none", "pending_review", "failed_validation", "applied", "rejected"}
Terminal   == {"applied", "rejected"}
Applicable == {"pending_review"}
Editable   == {"pending_review", "failed_validation"}

SkillTypeOK ==
  /\ text \in Texts
  /\ proposal \in [Proposals -> [status : Statuses, patch : Patches, ok : BOOLEAN]]
  /\ step \in [Agents -> {"idle", "compile", "begin", "write", "restore", "reject", "edit"}]
  /\ open \in [Agents -> Proposals \union {NoProposal}]
  /\ \A a \in Agents : step[a] # "idle" => open[a] \in Proposals
  /\ copy \in [Agents -> Patches]
  /\ todo \in [Agents -> SUBSET Files]
  /\ backup \in [Agents -> Texts]
  /\ dbWriter \in SUBSET Agents
  /\ accidents \in 0..MaxAccidents
  /\ told \in [Files -> SUBSET Proposals]
  /\ torn \in SUBSET Files

SkillInit ==
  /\ text = NoText
  /\ proposal = [p \in Proposals |-> [status |-> "none", patch |-> NoPatch, ok |-> FALSE]]
  /\ step = [a \in Agents |-> "idle"]
  /\ open = [a \in Agents |-> NoProposal]
  /\ copy = [a \in Agents |-> NoPatch]
  /\ todo = [a \in Agents |-> {}]
  /\ backup = [a \in Agents |-> NoText]
  /\ dbWriter = {}
  /\ accidents = 0
  /\ told = [f \in Files |-> {}]
  /\ torn = {}

-----------------------------------------------------------------------------

Accident ==
  /\ accidents < MaxAccidents
  /\ accidents' = accidents + 1

\* An agent returns to its caller; the objects it had loaded are gone.
Returns(a) ==
  /\ step' = [step EXCEPT ![a] = "idle"]
  /\ copy' = [copy EXCEPT ![a] = NoPatch]

Busy(p, steps) == \E a \in Agents : open[a] = p /\ step[a] \in steps

\* hydrate_patch_text: the text of each patched file at this moment.
Hydrated(patch) ==
  [patch EXCEPT !.before = [f \in Files |-> IF f \in patch.files THEN text[f] ELSE {}]]

\* Mutant of BaselineHolds: the files are not compared.
BaselineTrusted(patch) == TRUE

\* _prepare_patches: the files still are what the patch was based on.
BaselineHolds(patch) == \A f \in patch.files : text[f] = patch.before[f]

-----------------------------------------------------------------------------
(* SkillStewardshipPipeline.forward *)

\* scan_instruction_artifact: the model is shown the files as they are now.
RefreshScan(a, p) ==
  /\ step[a] = "idle" /\ proposal[p].status = "none"
  /\ ~Busy(p, {"compile"})
  /\ step' = [step EXCEPT ![a] = "compile"]
  /\ open' = [open EXCEPT ![a] = p]
  /\ copy' = [copy EXCEPT ![a] = [NoPatch EXCEPT !.before = text]]
  /\ UNCHANGED <<text, proposal, todo, backup, dbWriter, accidents, history>>

\* The model abstains, the guard refuses, or a step raises.
RefreshEmpty(a) ==
  /\ step[a] = "compile"
  /\ Returns(a)
  /\ UNCHANGED <<text, proposal, open, todo, backup, dbWriter, accidents, history>>

\* The draft is hydrated, guarded and validated, saved, and applied at once when
\* the target and the guard allow it.
RefreshSave(a) ==
  /\ step[a] = "compile" /\ dbWriter = {}
  /\ \E fs \in (SUBSET Files) \ {{}}, ok, auto \in BOOLEAN :
       LET seen == copy[a].before
           patch == Hydrated([NoPatch EXCEPT
                      !.files = fs,
                      !.after = [f \in Files |-> IF f \in fs THEN seen[f] \union {open[a]} ELSE {}]])
       IN /\ "rebase" \in SkillRaces \/ \A f \in fs : text[f] = seen[f]
          /\ proposal' = [proposal EXCEPT ![open[a]] =
               [status |-> IF ok THEN "pending_review" ELSE "failed_validation",
                patch |-> patch, ok |-> ok]]
          /\ IF ok /\ auto
             THEN /\ step' = [step EXCEPT ![a] = "begin"]
                  /\ copy' = [copy EXCEPT ![a] = patch]
             ELSE Returns(a)
  /\ UNCHANGED <<text, open, todo, backup, dbWriter, accidents, history>>

-----------------------------------------------------------------------------
(* apply_proposal *)

\* get_proposal and _ensure_proposal_is_applicable on what it returned.
ApplyRead(a, p) ==
  /\ step[a] = "idle"
  /\ proposal[p].status \in Applicable /\ proposal[p].ok
  /\ step' = [step EXCEPT ![a] = "begin"]
  /\ open' = [open EXCEPT ![a] = p]
  /\ copy' = [copy EXCEPT ![a] = proposal[p].patch]
  /\ UNCHANGED <<text, proposal, todo, backup, dbWriter, accidents, history>>

\* The agents that have changed a file of theirs, or are about to.
Patching(f) == {a \in Agents : step[a] \in {"write", "restore"} /\ f \in copy[a].files}

StartWriting(a) ==
  /\ step' = [step EXCEPT ![a] = "write"]
  /\ todo' = [todo EXCEPT ![a] = copy[a].files]
  /\ backup' = [backup EXCEPT ![a] = text]
  /\ dbWriter' = {a}
  /\ torn' = torn \union {f \in copy[a].files : Patching(f) # {}}
  /\ UNCHANGED <<copy, accidents, told>>

\* Mutant of ApplyBegin: the status is not read again in the transaction.
ApplyBeginUnchecked(a) ==
  /\ step[a] = "begin" /\ dbWriter = {}
  /\ BaselineHolds(copy[a]) /\ StartWriting(a)
  /\ UNCHANGED <<text, proposal, open>>

\* BEGIN IMMEDIATE, _ensure_current_status_applicable, _prepare_patches.
ApplyBegin(a) ==
  LET p == open[a]
  IN /\ step[a] = "begin" /\ dbWriter = {}
     /\ "status" \in SkillRaces \/ ~Busy(p, {"reject", "edit"})
     /\ IF proposal[p].status \in Applicable /\ BaselineHolds(copy[a])
        THEN StartWriting(a)
        ELSE Returns(a) /\ UNCHANGED <<todo, backup, dbWriter, accidents, history>>
     /\ UNCHANGED <<text, proposal, open>>

ApplyWrite(a) ==
  /\ step[a] = "write"
  /\ \E f \in todo[a] :
       /\ text' = [text EXCEPT ![f] = copy[a].after[f]]
       /\ todo' = [todo EXCEPT ![a] = @ \ {f}]
  /\ UNCHANGED <<proposal, step, open, copy, backup, dbWriter, accidents, history>>

\* The agent is through with its files, or dead.
LeavesFiles(a) ==
  /\ todo' = [todo EXCEPT ![a] = {}]
  /\ backup' = [backup EXCEPT ![a] = NoText]
  /\ Returns(a)

\* _record_applied_versions and COMMIT.
ApplyCommit(a) ==
  /\ step[a] = "write" /\ todo[a] = {}
  /\ proposal' = [proposal EXCEPT ![open[a]].status = "applied"]
  /\ dbWriter' = {}
  /\ told' = [f \in Files |-> IF f \in copy[a].files THEN copy[a].after[f] \ UserEdits ELSE told[f]]
  /\ LeavesFiles(a)
  /\ UNCHANGED <<text, open, accidents, torn>>

\* Mutant of ApplyFails: the files are not put back.
ApplyFailsHalfway(a) ==
  /\ step[a] = "write"
  /\ dbWriter' = {}
  /\ LeavesFiles(a)
  /\ UNCHANGED <<text, proposal, open, accidents, history>>

\* An exception rolls the transaction back; when a file may have been written the
\* files are put back afterwards, without the write lock.
ApplyFails(a) ==
  /\ step[a] = "write"
  /\ dbWriter' = {}
  /\ \/ todo[a] = copy[a].files /\ LeavesFiles(a) /\ UNCHANGED accidents
     \/ /\ Accident
        /\ step' = [step EXCEPT ![a] = "restore"]
        /\ UNCHANGED <<copy, todo, backup>>
  /\ UNCHANGED <<text, proposal, open, history>>

\* _restore_prepared_files, which may itself raise, or die, before its last file.
ApplyRestore(a) ==
  /\ step[a] = "restore"
  /\ \E restored \in SUBSET copy[a].files :
       /\ text' = [f \in Files |-> IF f \in restored THEN backup[a][f] ELSE text[f]]
       /\ torn' = torn \union ((copy[a].files \ todo[a]) \ restored)
  /\ LeavesFiles(a)
  /\ UNCHANGED <<proposal, open, dbWriter, accidents, told>>

\* A process that dies while it applies: SQLite rolls back, the files stay.
ApplyCrash(a) ==
  /\ step[a] = "write" /\ Accident
  /\ torn' = torn \union (copy[a].files \ todo[a])
  /\ dbWriter' = {}
  /\ LeavesFiles(a)
  /\ UNCHANGED <<text, proposal, open, told>>

-----------------------------------------------------------------------------
(* Review *)

\* set_proposal_status: the SELECT and its check run before the UPDATE opens the
\* transaction.
RejectRead(a, p) ==
  /\ step[a] = "idle" /\ proposal[p].status \in {"pending_review", "failed_validation", "rejected"}
  /\ "status" \in SkillRaces \/ (dbWriter = {} /\ ~Busy(p, {"reject", "edit"}))
  /\ step' = [step EXCEPT ![a] = "reject"]
  /\ open' = [open EXCEPT ![a] = p]
  /\ UNCHANGED <<text, proposal, copy, todo, backup, dbWriter, accidents, history>>

RejectWrite(a) ==
  /\ step[a] = "reject" /\ dbWriter = {}
  /\ proposal' = [proposal EXCEPT ![open[a]].status = "rejected"]
  /\ Returns(a)
  /\ UNCHANGED <<text, open, todo, backup, dbWriter, accidents, history>>

\* api_skill_proposal_update: the edited text is given the files of this moment
\* as its baseline, guarded and validated; then update_proposal_patch checks the
\* status, outside the transaction of its UPDATE.
EditRead(a, p) ==
  /\ step[a] = "idle" /\ proposal[p].status \in Editable
  /\ "status" \in SkillRaces \/ (dbWriter = {} /\ ~Busy(p, {"reject", "edit"}))
  /\ \E fs \in (SUBSET proposal[p].patch.files) \ {{}} :
       LET old == proposal[p].patch
       IN /\ "rebase" \in SkillRaces \/ BaselineHolds(old)
          /\ copy' = [copy EXCEPT ![a] = Hydrated(
               [old EXCEPT !.files = fs,
                           !.after = [f \in Files |-> IF f \in fs THEN old.after[f] ELSE {}]])]
  /\ step' = [step EXCEPT ![a] = "edit"]
  /\ open' = [open EXCEPT ![a] = p]
  /\ UNCHANGED <<text, proposal, todo, backup, dbWriter, accidents, history>>

EditWrite(a) ==
  /\ step[a] = "edit" /\ dbWriter = {}
  /\ \E ok \in BOOLEAN :
       proposal' = [proposal EXCEPT ![open[a]] =
                      [status |-> "pending_review", patch |-> copy[a], ok |-> ok]]
  /\ Returns(a)
  /\ UNCHANGED <<text, open, todo, backup, dbWriter, accidents, history>>

\* Somebody edits a file of the target.
UserEdit(f, e) ==
  /\ \A g \in Files : e \notin text[g]
  /\ Accident
  /\ text' = [text EXCEPT ![f] = @ \union {e}]
  /\ UNCHANGED <<proposal, step, open, copy, todo, backup, dbWriter, history>>

SkillNext ==
  \/ \E a \in Agents :
       \/ \E p \in Proposals : RefreshScan(a, p) \/ ApplyRead(a, p)
                                 \/ RejectRead(a, p) \/ EditRead(a, p)
       \/ RefreshEmpty(a) \/ RefreshSave(a)
       \/ ApplyBegin(a) \/ ApplyWrite(a) \/ ApplyCommit(a)
       \/ ApplyFails(a) \/ ApplyRestore(a) \/ ApplyCrash(a)
       \/ RejectWrite(a) \/ EditWrite(a)
  \/ \E f \in Files, e \in UserEdits : UserEdit(f, e)

SkillSpec == SkillInit /\ [][SkillNext]_skillVars

-----------------------------------------------------------------------------
(* Properties *)

\* Apart from what people write, a file contains what the last application that
\* committed left in it: one that failed, after any number of files, left nothing.
\* The exceptions are the files an application was cut off in by a crash or by an
\* error of the restore itself, and those a second application started on before
\* the first had put them back.
AllOrNothing ==
  \A f \in Files \ torn : Patching(f) = {} => text[f] \ UserEdits = told[f]

\* What disappears from a file is either shown as removed by the patch that is
\* being applied to it, or was written into the file after its baseline check: the
\* check leaves no other way to lose a change, through failures and restores too.
NoChangeLost ==
  [][\A f \in Files : \A c \in text[f] \ text'[f] :
       \E a \in Patching(f) :
         c \in backup[a][f] => c \in copy[a].before[f] \ copy[a].after[f]]_skillVars

\* Applied and rejected proposals stay what they are: a reviewer who acts on a
\* screen that is out of date does not bring one back.
TerminalIsFinal ==
  [][\A p \in Proposals : proposal[p].status \in Terminal
       => proposal'[p].status = proposal[p].status]_skillVars

\* What a reader of the finished reviews sees of the proposals: one that is being
\* applied is not in its files yet.
SettledText == [f \in Files |->
  IF f \in torn THEN {}
  ELSE {p \in text[f] \ UserEdits : \A a \in Patching(f) : open[a] # p}]
Fate == [p \in Proposals |->
           IF proposal[p].status \in Terminal THEN proposal[p].status ELSE "open"]

\* While no status is overtaken and no patch rebased: applying a proposal file by
\* file, with failures half way through that are undone, looks like applying it at
\* one instant, and only once, in every file that was not torn.
Review == INSTANCE AtomicReview WITH text <- SettledText, fate <- Fate, broken <- torn
ReviewIsAtomic == Review!Spec
=============================================================================
