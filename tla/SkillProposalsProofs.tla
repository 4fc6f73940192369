------------------------ MODULE SkillProposalsProofs ------------------------
(* Theorems about SkillProposals, for any files, proposals and agents.      *)
EXTENDS SkillProposals, TLAPS

(* The agent that writes files is the one that has the database. *)
OneWriter == \A a \in Agents : step[a] = "write" <=> a \in dbWriter
Alone     == \A a, b \in dbWriter : a = b

(* What an agent does next to the proposal it has open. *)
StatusSeen ==
  \A a \in Agents :
    /\ step[a] = "compile" => proposal[open[a]].status = "none"
    /\ step[a] = "write"   => proposal[open[a]].status \in Applicable
    /\ step[a] = "reject"  => proposal[open[a]].status \in Statuses \ {"none", "applied"}
    /\ step[a] = "edit"    => proposal[open[a]].status \in Editable

(* An agent that is about to write a status is alone with its proposal. *)
Deciding == {"compile", "write", "reject", "edit"}
Exclusive ==
  \A a, b \in Agents :
    step[a] \in Deciding /\ step[b] \in Deciding /\ open[a] = open[b] => a = b

SkillInv == SkillTypeOK /\ OneWriter /\ Alone /\ StatusSeen /\ Exclusive

-----------------------------------------------------------------------------
(* Types *)

LEMMA SkillTypeInit == SkillInit => SkillTypeOK
  <1> SUFFICES ASSUME SkillInit PROVE SkillTypeOK
    OBVIOUS
  <1>1. text \in Texts
    BY DEF SkillInit, NoText, Texts, Changes
  <1>2. NoText \in Texts /\ NoPatch \in Patches
    BY DEF NoText, Texts, NoPatch, Patches
  <1>3. proposal \in [Proposals -> [status : Statuses, patch : Patches, ok : BOOLEAN]]
    BY <1>2 DEF SkillInit, Statuses
  <1> QED
    BY <1>1, <1>2, <1>3, SkillAssumption DEF SkillInit, SkillTypeOK

LEMMA HydratedType == ASSUME SkillTypeOK, NEW q \in Patches PROVE Hydrated(q) \in Patches
  BY DEF Hydrated, Patches, SkillTypeOK, Texts

LEMMA NothingType == NoText \in Texts /\ NoPatch \in Patches
  BY DEF NoText, Texts, NoPatch, Patches

LEMMA SkillTypeNext == SkillTypeOK /\ [SkillNext]_skillVars => SkillTypeOK'
  <1> SUFFICES ASSUME SkillTypeOK, [SkillNext]_skillVars PROVE SkillTypeOK'
    OBVIOUS
  <1> USE NothingType, SkillAssumption DEF SkillTypeOK, Returns
  <1>1. ASSUME NEW a \in Agents, NEW p \in Proposals, RefreshScan(a, p) PROVE SkillTypeOK'
    <2>1. [NoPatch EXCEPT !.before = text] \in Patches
      BY DEF Patches
    <2> QED
      BY <1>1, <2>1 DEF RefreshScan, history
  <1>2. ASSUME NEW a \in Agents, NEW p \in Proposals, ApplyRead(a, p) PROVE SkillTypeOK'
    BY <1>2 DEF ApplyRead, history
  <1>3. ASSUME NEW a \in Agents, NEW p \in Proposals, RejectRead(a, p) PROVE SkillTypeOK'
    BY <1>3 DEF RejectRead, history
  <1>4. ASSUME NEW a \in Agents, NEW p \in Proposals, EditRead(a, p) PROVE SkillTypeOK'
    <2>1. \E q \in Patches : copy' = [copy EXCEPT ![a] = q]
      <3>1. PICK fs \in (SUBSET proposal[p].patch.files) \ {{}} :
              copy' = [copy EXCEPT ![a] = Hydrated(
                [proposal[p].patch EXCEPT !.files = fs,
                   !.after = [f \in Files |-> IF f \in fs THEN proposal[p].patch.after[f] ELSE {}]])]
        BY <1>4 DEF EditRead
      <3>2. [proposal[p].patch EXCEPT !.files = fs,
               !.after = [f \in Files |-> IF f \in fs THEN proposal[p].patch.after[f] ELSE {}]]
              \in Patches
        <4>1. proposal[p].patch \in Patches
          OBVIOUS
        <4>2. [f \in Files |-> IF f \in fs THEN proposal[p].patch.after[f] ELSE {}] \in Texts
          BY <4>1 DEF Patches, Texts
        <4>3. fs \in SUBSET Files
          BY <4>1 DEF Patches
        <4> QED
          BY <4>1, <4>2, <4>3 DEF Patches
      <3> QED
        BY <3>1, <3>2, HydratedType
    <2> QED
      BY <1>4, <2>1 DEF EditRead, history
  <1>5. ASSUME NEW a \in Agents, RefreshEmpty(a) PROVE SkillTypeOK'
    BY <1>5 DEF RefreshEmpty, history
  <1>6. ASSUME NEW a \in Agents, RefreshSave(a) PROVE SkillTypeOK'
    <2> DEFINE Made(fs) ==
          Hydrated([NoPatch EXCEPT
                      !.files = fs,
                      !.after = [f \in Files |->
                                  IF f \in fs THEN copy[a].before[f] \union {open[a]} ELSE {}]])
    <2>0. PICK fs \in (SUBSET Files) \ {{}}, ok \in BOOLEAN, auto \in BOOLEAN :
            /\ proposal' = [proposal EXCEPT ![open[a]] =
                 [status |-> IF ok THEN "pending_review" ELSE "failed_validation",
                  patch |-> Made(fs), ok |-> ok]]
            /\ IF ok /\ auto
               THEN /\ step' = [step EXCEPT ![a] = "begin"]
                    /\ copy' = [copy EXCEPT ![a] = Made(fs)]
               ELSE Returns(a)
      BY <1>6, Zenon DEF RefreshSave
    <2> DEFINE q == Made(fs)
    <2>2. q \in Patches
      <3>1. [NoPatch EXCEPT !.files = fs,
               !.after = [f \in Files |->
                           IF f \in fs THEN copy[a].before[f] \union {open[a]} ELSE {}]] \in Patches
        <4>1. copy[a].before \in Texts /\ open[a] \in Changes
          BY <1>6 DEF RefreshSave, Patches, Changes
        <4>2. [f \in Files |-> IF f \in fs THEN copy[a].before[f] \union {open[a]} ELSE {}] \in Texts
          BY <4>1 DEF Texts
        <4> QED
          BY <4>2 DEF Patches
      <3> QED
        BY <3>1, HydratedType
    <2>3. UNCHANGED <<text, open, todo, backup, dbWriter, accidents, history>> /\ step[a] = "compile"
      BY <1>6 DEF RefreshSave
    <2> HIDE DEF q
    <2>4. /\ proposal' = [proposal EXCEPT ![open[a]] =
               [status |-> IF ok THEN "pending_review" ELSE "failed_validation",
                patch |-> q, ok |-> ok]]
          /\ IF ok /\ auto
             THEN /\ step' = [step EXCEPT ![a] = "begin"]
                  /\ copy' = [copy EXCEPT ![a] = q]
             ELSE Returns(a)
      BY <2>0 DEF q
    <2> QED
      BY <2>2, <2>3, <2>4 DEF Statuses, history
  <1>7. ASSUME NEW a \in Agents, ApplyBegin(a) PROVE SkillTypeOK'
    <2>1. CASE proposal[open[a]].status \in Applicable /\ BaselineHolds(copy[a])
      <3>1. StartWriting(a) /\ step[a] = "begin" /\ UNCHANGED <<text, proposal, open>>
        BY <1>7, <2>1, Zenon DEF ApplyBegin
      <3>2. copy[a].files \in SUBSET Files
        BY DEF Patches
      <3> QED
        BY <3>1, <3>2 DEF StartWriting
    <2>2. CASE ~(proposal[open[a]].status \in Applicable /\ BaselineHolds(copy[a]))
      <3>1. Returns(a) /\ UNCHANGED <<text, proposal, open, todo, backup, dbWriter, accidents, history>>
        BY <1>7, <2>2, Zenon DEF ApplyBegin
      <3> QED
        BY <3>1 DEF history
    <2> QED
      BY <2>1, <2>2
  <1>8. ASSUME NEW a \in Agents, ApplyWrite(a) PROVE SkillTypeOK'
    BY <1>8 DEF ApplyWrite, Patches, Texts, history
  <1>9. ASSUME NEW a \in Agents, ApplyCommit(a) PROVE SkillTypeOK'
    <2>1. told' \in [Files -> SUBSET Proposals]
      <3>1. \A f \in Files : copy[a].after[f] \ UserEdits \subseteq Proposals
        BY DEF Patches, Texts, Changes
      <3> QED
        BY <1>9, <3>1 DEF ApplyCommit
    <2> QED
      BY <1>9, <2>1 DEF ApplyCommit, LeavesFiles, Statuses
  <1>10. ASSUME NEW a \in Agents, ApplyFails(a) PROVE SkillTypeOK'
    BY <1>10 DEF ApplyFails, LeavesFiles, Accident, history
  <1>15. ASSUME NEW a \in Agents, ApplyCrash(a) PROVE SkillTypeOK'
    <2>1. copy[a].files \subseteq Files
      BY DEF Patches
    <2> QED
      BY <1>15, <2>1 DEF ApplyCrash, LeavesFiles, Accident
  <1>16. ASSUME NEW a \in Agents, ApplyRestore(a) PROVE SkillTypeOK'
    <2>1. backup[a] \in Texts /\ copy[a].files \subseteq Files
      BY DEF Patches
    <2>2. text' \in Texts
      BY <1>16, <2>1 DEF ApplyRestore, Texts
    <2>3. torn' \subseteq Files
      BY <1>16, <2>1 DEF ApplyRestore
    <2> QED
      BY <1>16, <2>2, <2>3 DEF ApplyRestore, LeavesFiles
  <1>11. ASSUME NEW a \in Agents, RejectWrite(a) PROVE SkillTypeOK'
    BY <1>11 DEF RejectWrite, Statuses, history
  <1>12. ASSUME NEW a \in Agents, EditWrite(a) PROVE SkillTypeOK'
    BY <1>12 DEF EditWrite, Statuses, history
  <1>13. ASSUME NEW f \in Files, NEW e \in UserEdits, UserEdit(f, e) PROVE SkillTypeOK'
    BY <1>13 DEF UserEdit, Texts, Changes, Accident, history
  <1>14. CASE UNCHANGED skillVars
    BY <1>14 DEF skillVars, history
  <1> QED
    BY <1>1, <1>2, <1>3, <1>4, <1>5, <1>6, <1>7, <1>8, <1>9, <1>10, <1>11, <1>12, <1>13, <1>14,
       <1>15, <1>16 DEF SkillNext

(* Types hold with all the races. *)
THEOREM SkillTypeCorrect == SkillSpec => []SkillTypeOK
  <1>1. SkillInit => SkillTypeOK
    BY SkillTypeInit
  <1>2. SkillTypeOK /\ [SkillNext]_skillVars => SkillTypeOK'
    BY SkillTypeNext
  <1> QED
    BY <1>1, <1>2, PTL DEF SkillSpec

-----------------------------------------------------------------------------
(* Statuses *)

LEMMA SkillInvInit == SkillInit => SkillInv
  <1> SUFFICES ASSUME SkillInit PROVE SkillInv
    OBVIOUS
  <1>1. OneWriter /\ Alone /\ StatusSeen /\ Exclusive
    BY DEF SkillInit, OneWriter, Alone, StatusSeen, Exclusive, Deciding
  <1> QED
    BY <1>1, SkillTypeInit DEF SkillInv

LEMMA SkillInvNext ==
  ASSUME "status" \notin SkillRaces, SkillInv, [SkillNext]_skillVars
  PROVE  /\ SkillInv'
         /\ \A p \in Proposals : proposal[p].status \in Terminal
              => proposal'[p].status = proposal[p].status
  <1> DEFINE Kept == \A p \in Proposals : proposal[p].status \in Terminal
                       => proposal'[p].status = proposal[p].status
             Goal == SkillInv' /\ Kept
  <1> SUFFICES Goal
    OBVIOUS
  <1>0. SkillTypeOK'
    BY SkillTypeNext DEF SkillInv
  <1> USE DEF SkillInv, SkillTypeOK, OneWriter, Alone, StatusSeen, Exclusive, Deciding,
              Terminal, Applicable, Editable, Statuses, Busy, Returns
  <1>1. ASSUME NEW a \in Agents, NEW p \in Proposals, RefreshScan(a, p) PROVE Goal
    BY <1>0, <1>1 DEF RefreshScan
  <1>2. ASSUME NEW a \in Agents, NEW p \in Proposals, ApplyRead(a, p) PROVE Goal
    BY <1>0, <1>2 DEF ApplyRead
  <1>3. ASSUME NEW a \in Agents, NEW p \in Proposals, RejectRead(a, p) PROVE Goal
    BY <1>0, <1>3 DEF RejectRead
  <1>4. ASSUME NEW a \in Agents, NEW p \in Proposals, EditRead(a, p) PROVE Goal
    BY <1>0, <1>4 DEF EditRead
  <1>5. ASSUME NEW a \in Agents, RefreshEmpty(a) PROVE Goal
    BY <1>0, <1>5 DEF RefreshEmpty
  <1>6. ASSUME NEW a \in Agents, RefreshSave(a) PROVE Goal
    BY <1>0, <1>6 DEF RefreshSave
  <1>7. ASSUME NEW a \in Agents, ApplyBegin(a) PROVE Goal
    BY <1>0, <1>7 DEF ApplyBegin, StartWriting
  <1>8. ASSUME NEW a \in Agents, ApplyWrite(a) PROVE Goal
    BY <1>0, <1>8 DEF ApplyWrite
  <1>9. ASSUME NEW a \in Agents, ApplyCommit(a) PROVE Goal
    BY <1>0, <1>9 DEF ApplyCommit, LeavesFiles
  <1>10. ASSUME NEW a \in Agents, ApplyFails(a) PROVE Goal
    BY <1>0, <1>10 DEF ApplyFails, LeavesFiles
  <1>15. ASSUME NEW a \in Agents, ApplyCrash(a) PROVE Goal
    BY <1>0, <1>15 DEF ApplyCrash, LeavesFiles
  <1>16. ASSUME NEW a \in Agents, ApplyRestore(a) PROVE Goal
    BY <1>0, <1>16 DEF ApplyRestore, LeavesFiles
  <1>11. ASSUME NEW a \in Agents, RejectWrite(a) PROVE Goal
    BY <1>0, <1>11 DEF RejectWrite
  <1>12. ASSUME NEW a \in Agents, EditWrite(a) PROVE Goal
    BY <1>0, <1>12 DEF EditWrite
  <1>13. ASSUME NEW f \in Files, NEW e \in UserEdits, UserEdit(f, e) PROVE Goal
    BY <1>0, <1>13 DEF UserEdit
  <1>14. CASE UNCHANGED skillVars
    BY <1>0, <1>14 DEF skillVars
  <1> QED
    BY <1>1, <1>2, <1>3, <1>4, <1>5, <1>6, <1>7, <1>8, <1>9, <1>10, <1>11, <1>12, <1>13, <1>14,
       <1>15, <1>16 DEF SkillNext

(* When no status changes between the check of it and the update, applied and *)
(* rejected proposals stay what they are, whatever happens to the files.      *)
THEOREM TerminalFinal ==
  ASSUME "status" \notin SkillRaces
  PROVE  SkillSpec => TerminalIsFinal
  <1>1. SkillInit => SkillInv
    BY SkillInvInit
  <1>2. SkillInv /\ [SkillNext]_skillVars => SkillInv'
    BY SkillInvNext
  <1>3. SkillInv /\ [SkillNext]_skillVars
          => [\A p \in Proposals : proposal[p].status \in Terminal
                => proposal'[p].status = proposal[p].status]_skillVars
    BY SkillInvNext
  <1> QED
    BY <1>1, <1>2, <1>3, PTL DEF SkillSpec, TerminalIsFinal

-----------------------------------------------------------------------------
(* Files *)

(* Only one agent has an application under way that was not rolled back; its *)
(* patch starts from the texts it keeps, and each of its files has one text  *)
(* or the other, next to what people write meanwhile.                        *)
Recoverable ==
  \A a \in Agents : step[a] \in {"write", "restore"} =>
    /\ todo[a] \subseteq copy[a].files
    /\ \A f \in copy[a].files : backup[a][f] = copy[a].before[f]
    /\ \A f \in copy[a].files \ torn :
         /\ backup[a][f] \ UserEdits = told[f]
         /\ f \in todo[a] => text[f] \ UserEdits = told[f]
         /\ f \notin todo[a] => text[f] \ UserEdits = copy[a].after[f] \ UserEdits

(* Two applications are never at work on a file that is not torn. *)
Apart == \A f \in Files \ torn : \A a, b \in Patching(f) : a = b

FilesInv == SkillTypeOK /\ OneWriter /\ Alone /\ Recoverable /\ Apart /\ AllOrNothing

ChangesKept ==
  \A f \in Files : \A c \in text[f] \ text'[f] :
    \E a \in Patching(f) :
      c \in backup[a][f] => c \in copy[a].before[f] \ copy[a].after[f]

LEMMA FilesInvInit == SkillInit => FilesInv
  <1> SUFFICES ASSUME SkillInit PROVE FilesInv
    OBVIOUS
  <1>1. OneWriter /\ Alone /\ Recoverable /\ Apart
    BY DEF SkillInit, OneWriter, Alone, Recoverable, Apart, Patching
  <1>2. AllOrNothing
    BY DEF SkillInit, AllOrNothing, NoText
  <1> QED
    BY <1>1, <1>2, SkillTypeInit DEF FilesInv

(* Steps of agents that write nothing: no application begins or ends. *)
LEMMA FilesUntouched ==
  ASSUME FilesInv, SkillTypeOK', UNCHANGED <<text, told, torn, todo, backup, dbWriter>>,
         \A a \in Agents :
           /\ step'[a] \in {"write", "restore"} => step'[a] = step[a] /\ copy'[a] = copy[a]
           /\ step[a] \in {"write", "restore"} => step'[a] = step[a]
  PROVE  FilesInv' /\ ChangesKept
  <1>1. \A f \in Files : Patching(f)' = Patching(f)
    BY DEF Patching
  <1>2. OneWriter' /\ Alone' /\ Recoverable'
    BY DEF FilesInv, OneWriter, Alone, Recoverable
  <1>3. Apart' /\ AllOrNothing'
    BY <1>1 DEF FilesInv, Apart, AllOrNothing
  <1>4. ChangesKept
    BY DEF ChangesKept
  <1> QED
    BY <1>2, <1>3, <1>4 DEF FilesInv

(* What ends an application: agent a has no file in its hands any more, the  *)
(* others have what they had, and what a leaves behind is accounted for.     *)
LEMMA FilesLeft ==
  ASSUME NEW a \in Agents, FilesInv, SkillTypeOK', LeavesFiles(a),
         step[a] \in {"write", "restore"},
         dbWriter' = dbWriter \ {a}, torn \subseteq torn',
         \A f \in Files \ copy[a].files : text'[f] = text[f] /\ told'[f] = told[f],
         \A f \in copy[a].files \ torn' : text'[f] \ UserEdits = told'[f]
  PROVE  FilesInv'
  <1> USE DEF SkillTypeOK
  <1>0. SkillTypeOK /\ copy[a].files \subseteq Files
    BY DEF FilesInv, Patches
  <1>1. /\ step'[a] = "idle" /\ copy'[a] = NoPatch
        /\ \A b \in Agents \ {a} : /\ step'[b] = step[b] /\ copy'[b] = copy[b]
                                   /\ todo'[b] = todo[b] /\ backup'[b] = backup[b]
    BY <1>0 DEF LeavesFiles, Returns
  <1>2. \A f \in Files : Patching(f)' = Patching(f) \ {a}
    BY <1>1 DEF Patching
  <1>3. \A f \in copy[a].files \ torn' : Patching(f) = {a}
    <2> SUFFICES ASSUME NEW f \in copy[a].files \ torn' PROVE Patching(f) = {a}
      OBVIOUS
    <2>1. f \in Files \ torn /\ a \in Patching(f)
      BY <1>0 DEF Patching
    <2> QED
      BY <2>1 DEF FilesInv, Apart
  <1>4. OneWriter' /\ Alone'
    BY <1>1 DEF FilesInv, OneWriter, Alone
  <1>5. Apart'
    BY <1>2 DEF FilesInv, Apart
  <1>6. AllOrNothing'
    <2> SUFFICES ASSUME NEW f \in Files \ torn', Patching(f)' = {}
                 PROVE  text'[f] \ UserEdits = told'[f]
      BY DEF AllOrNothing
    <2>1. CASE f \in copy[a].files
      BY <2>1
    <2>2. CASE f \notin copy[a].files
      <3>1. Patching(f) = {}
        BY <1>2, <2>2 DEF Patching
      <3> QED
        BY <2>2, <3>1 DEF FilesInv, AllOrNothing
    <2> QED
      BY <2>1, <2>2
  <1>7. Recoverable'
    <2> SUFFICES ASSUME NEW b \in Agents, step'[b] \in {"write", "restore"}
                 PROVE  /\ todo'[b] \subseteq copy'[b].files
                        /\ \A f \in copy'[b].files : backup'[b][f] = copy'[b].before[f]
                        /\ \A f \in copy'[b].files \ torn' :
                             /\ backup'[b][f] \ UserEdits = told'[f]
                             /\ f \in todo'[b] => text'[f] \ UserEdits = told'[f]
                             /\ f \notin todo'[b]
                                  => text'[f] \ UserEdits = copy'[b].after[f] \ UserEdits
      BY DEF Recoverable
    <2>1. b # a
      BY <1>1
    <2>2. /\ step[b] \in {"write", "restore"} /\ copy'[b] = copy[b]
          /\ todo'[b] = todo[b] /\ backup'[b] = backup[b]
      BY <1>1, <2>1
    <2>3. \A f \in copy[b].files \ torn' : f \in Files \ copy[a].files
      <3> SUFFICES ASSUME NEW f \in copy[b].files \ torn', f \in copy[a].files PROVE FALSE
        BY <1>0 DEF Patches
      <3>1. b \in Patching(f)
        BY <2>2 DEF Patching
      <3> QED
        BY <1>3, <2>1, <3>1
    <2>4. /\ todo[b] \subseteq copy[b].files
          /\ \A f \in copy[b].files : backup[b][f] = copy[b].before[f]
          /\ \A f \in copy[b].files \ torn :
               /\ backup[b][f] \ UserEdits = told[f]
               /\ f \in todo[b] => text[f] \ UserEdits = told[f]
               /\ f \notin todo[b] => text[f] \ UserEdits = copy[b].after[f] \ UserEdits
      BY <2>2 DEF FilesInv, Recoverable
    <2> QED
      BY <2>2, <2>3, <2>4
  <1> QED
    BY <1>4, <1>5, <1>6, <1>7 DEF FilesInv

LEMMA FilesInvNext ==
  ASSUME FilesInv, [SkillNext]_skillVars
  PROVE  FilesInv' /\ ChangesKept
  <1> DEFINE Goal == FilesInv' /\ ChangesKept
  <1> SUFFICES Goal
    OBVIOUS
  <1>t. SkillTypeOK /\ SkillTypeOK'
    BY SkillTypeNext DEF FilesInv
  <1>1. ASSUME NEW a \in Agents, NEW p \in Proposals, RefreshScan(a, p) PROVE Goal
    BY <1>1, <1>t, FilesUntouched DEF RefreshScan, history, SkillTypeOK
  <1>2. ASSUME NEW a \in Agents, NEW p \in Proposals, ApplyRead(a, p) PROVE Goal
    BY <1>2, <1>t, FilesUntouched DEF ApplyRead, history, SkillTypeOK
  <1>3. ASSUME NEW a \in Agents, NEW p \in Proposals, RejectRead(a, p) PROVE Goal
    BY <1>3, <1>t, FilesUntouched DEF RejectRead, history, SkillTypeOK
  <1>4. ASSUME NEW a \in Agents, NEW p \in Proposals, EditRead(a, p) PROVE Goal
    <2>1. PICK q \in {copy'[a]} : copy' = [copy EXCEPT ![a] = q]
      BY <1>4, <1>t DEF EditRead, SkillTypeOK
    <2> QED
      BY <1>4, <2>1, <1>t, FilesUntouched DEF EditRead, history, SkillTypeOK
  <1>5. ASSUME NEW a \in Agents, RefreshEmpty(a) PROVE Goal
    BY <1>5, <1>t, FilesUntouched DEF RefreshEmpty, Returns, history, SkillTypeOK
  <1>6. ASSUME NEW a \in Agents, RefreshSave(a) PROVE Goal
    <2>1. /\ step[a] = "compile"
          /\ UNCHANGED <<text, todo, backup, dbWriter, told, torn>>
      BY <1>6 DEF RefreshSave, history
    <2>2. \E q \in {copy'[a]} : \E next \in {"begin", "idle"} :
            copy' = [copy EXCEPT ![a] = q] /\ step' = [step EXCEPT ![a] = next]
      BY <1>6, <1>t DEF RefreshSave, Returns, SkillTypeOK
    <2> QED
      BY <2>1, <2>2, <1>t, FilesUntouched DEF SkillTypeOK
  <1>7. ASSUME NEW a \in Agents, ApplyBegin(a) PROVE Goal
    <2>1. /\ step[a] = "begin" /\ dbWriter = {} /\ UNCHANGED text
          /\ (StartWriting(a) /\ BaselineHolds(copy[a]))
              \/ (Returns(a) /\ UNCHANGED <<todo, backup, dbWriter, told, torn>>)
      BY <1>7 DEF ApplyBegin, history
    <2>2. CASE Returns(a) /\ UNCHANGED <<todo, backup, dbWriter, told, torn>>
      BY <2>1, <2>2, <1>t, FilesUntouched DEF Returns, SkillTypeOK
    <2>3. CASE StartWriting(a) /\ BaselineHolds(copy[a])
      <3> DEFINE mine == copy[a].files
      <3>1. /\ mine \subseteq Files /\ copy' = copy /\ told' = told
            /\ step'[a] = "write" /\ todo'[a] = mine /\ backup'[a] = text /\ dbWriter' = {a}
            /\ torn' = torn \union {f \in mine : Patching(f) # {}}
            /\ \A b \in Agents \ {a} :
                 step'[b] = step[b] /\ todo'[b] = todo[b] /\ backup'[b] = backup[b]
        BY <1>t, <2>3 DEF StartWriting, SkillTypeOK, Patches
      <3>2. \A f \in Files : Patching(f)' = Patching(f) \union (IF f \in mine THEN {a} ELSE {})
        BY <2>1, <3>1 DEF Patching
      <3>3. \A f \in mine \ torn' : Patching(f) = {} /\ text[f] \ UserEdits = told[f]
        BY <3>1 DEF FilesInv, AllOrNothing
      <3>4. OneWriter' /\ Alone'
        BY <2>1, <3>1 DEF FilesInv, OneWriter, Alone
      <3>5. Apart'
        BY <3>1, <3>2, <3>3 DEF FilesInv, Apart
      <3>6. AllOrNothing'
        BY <2>1, <3>1, <3>2 DEF FilesInv, AllOrNothing
      <3>7. Recoverable'
        <4>1. ASSUME NEW b \in Agents, step'[b] \in {"write", "restore"}
              PROVE  /\ todo'[b] \subseteq copy'[b].files
                     /\ \A f \in copy'[b].files : backup'[b][f] = copy'[b].before[f]
                     /\ \A f \in copy'[b].files \ torn' :
                          /\ backup'[b][f] \ UserEdits = told'[f]
                          /\ f \in todo'[b] => text'[f] \ UserEdits = told'[f]
                          /\ f \notin todo'[b]
                               => text'[f] \ UserEdits = copy'[b].after[f] \ UserEdits
          <5>1. CASE b = a
            BY <2>1, <2>3, <3>1, <3>3, <5>1 DEF BaselineHolds
          <5>2. CASE b # a
            BY <2>1, <3>1, <4>1, <5>2 DEF FilesInv, Recoverable
          <5> QED
            BY <5>1, <5>2
        <4> QED
          BY <4>1 DEF Recoverable
      <3>8. ChangesKept
        BY <2>1 DEF ChangesKept
      <3> QED
        BY <1>t, <3>4, <3>5, <3>6, <3>7, <3>8 DEF FilesInv
    <2> QED
      BY <2>1, <2>2, <2>3
  <1>8. ASSUME NEW a \in Agents, ApplyWrite(a) PROVE Goal
    <2>1. PICK f \in todo[a] : /\ text' = [text EXCEPT ![f] = copy[a].after[f]]
                               /\ todo' = [todo EXCEPT ![a] = @ \ {f}]
      BY <1>8 DEF ApplyWrite
    <2>2. step[a] = "write" /\ UNCHANGED <<step, copy, backup, dbWriter, told, torn>>
      BY <1>8 DEF ApplyWrite, history
    <2>3. /\ f \in Files /\ f \in copy[a].files /\ a \in Patching(f)
          /\ backup[a][f] = copy[a].before[f]
      BY <1>t, <2>2 DEF FilesInv, Recoverable, SkillTypeOK, Patching
    <2>4. /\ \A g \in Files : text'[g] = IF g = f THEN copy[a].after[f] ELSE text[g]
          /\ todo'[a] = todo[a] \ {f} /\ \A b \in Agents \ {a} : todo'[b] = todo[b]
      BY <1>t, <2>1, <2>3 DEF SkillTypeOK, Texts
    <2>5. \A g \in Files : Patching(g)' = Patching(g)
      BY <2>2 DEF Patching
    <2>6. OneWriter' /\ Alone' /\ Apart' /\ AllOrNothing'
      BY <2>2, <2>3, <2>4, <2>5 DEF FilesInv, OneWriter, Alone, Apart, AllOrNothing
    <2>7. Recoverable'
      <3> SUFFICES ASSUME NEW b \in Agents, step[b] \in {"write", "restore"}
                   PROVE  /\ todo'[b] \subseteq copy[b].files
                          /\ \A g \in copy[b].files : backup[b][g] = copy[b].before[g]
                          /\ \A g \in copy[b].files \ torn :
                               /\ backup[b][g] \ UserEdits = told[g]
                               /\ g \in todo'[b] => text'[g] \ UserEdits = told[g]
                               /\ g \notin todo'[b]
                                    => text'[g] \ UserEdits = copy[b].after[g] \ UserEdits
        BY <2>2 DEF Recoverable
      <3>1. /\ todo[b] \subseteq copy[b].files
            /\ \A g \in copy[b].files : backup[b][g] = copy[b].before[g]
            /\ \A g \in copy[b].files \ torn :
                 /\ backup[b][g] \ UserEdits = told[g]
                 /\ g \in todo[b] => text[g] \ UserEdits = told[g]
                 /\ g \notin todo[b] => text[g] \ UserEdits = copy[b].after[g] \ UserEdits
        BY DEF FilesInv, Recoverable
      <3>2. copy[b].files \subseteq Files
        BY <1>t DEF SkillTypeOK, Patches
      <3>3. CASE b = a
        BY <2>4, <3>1, <3>2, <3>3
      <3>4. CASE b # a
        <4>1. \A g \in copy[b].files \ torn : g # f
          BY <2>3, <3>4 DEF FilesInv, Apart, Patching
        <4> QED
          BY <2>4, <3>1, <3>2, <3>4, <4>1
      <3> QED
        BY <3>3, <3>4
    <2>8. ChangesKept
      BY <2>3, <2>4 DEF ChangesKept
    <2> QED
      BY <1>t, <2>6, <2>7, <2>8 DEF FilesInv
  <1>9. ASSUME NEW a \in Agents, ApplyCommit(a) PROVE Goal
    <2>1. /\ step[a] = "write" /\ todo[a] = {} /\ dbWriter' = {} /\ LeavesFiles(a)
          /\ told' = [f \in Files |->
                        IF f \in copy[a].files THEN copy[a].after[f] \ UserEdits ELSE told[f]]
          /\ UNCHANGED <<text, torn>>
      BY <1>9 DEF ApplyCommit
    <2>2. dbWriter' = dbWriter \ {a}
      BY <2>1 DEF FilesInv, OneWriter, Alone
    <2>3. copy[a].files \subseteq Files
      BY <1>t DEF SkillTypeOK, Patches
    <2>4. \A f \in copy[a].files \ torn : text[f] \ UserEdits = copy[a].after[f] \ UserEdits
      BY <2>1 DEF FilesInv, Recoverable
    <2>5. ChangesKept
      BY <2>1 DEF ChangesKept
    <2> QED
      BY <1>t, <2>1, <2>2, <2>3, <2>4, <2>5, FilesLeft
  <1>10. ASSUME NEW a \in Agents, ApplyFails(a) PROVE Goal
    <2>1. /\ step[a] = "write" /\ dbWriter' = {} /\ UNCHANGED <<text, told, torn>>
          /\ (todo[a] = copy[a].files /\ LeavesFiles(a))
              \/ (step' = [step EXCEPT ![a] = "restore"] /\ UNCHANGED <<copy, todo, backup>>)
      BY <1>10 DEF ApplyFails, history
    <2>2. dbWriter' = dbWriter \ {a}
      BY <2>1 DEF FilesInv, OneWriter, Alone
    <2>3. ChangesKept
      BY <2>1 DEF ChangesKept
    <2>4. CASE todo[a] = copy[a].files /\ LeavesFiles(a)
      <3>1. \A f \in copy[a].files \ torn : text[f] \ UserEdits = told[f]
        BY <2>1, <2>4 DEF FilesInv, Recoverable
      <3> QED
        BY <1>t, <2>1, <2>2, <2>3, <2>4, <3>1, FilesLeft
    <2>5. CASE step' = [step EXCEPT ![a] = "restore"] /\ UNCHANGED <<copy, todo, backup>>
      <3>1. /\ step'[a] = "restore" /\ \A b \in Agents \ {a} : step'[b] = step[b]
        BY <1>t, <2>5 DEF SkillTypeOK
      <3>2. \A f \in Files : Patching(f)' = Patching(f)
        BY <2>1, <2>5, <3>1 DEF Patching
      <3>3. OneWriter' /\ Alone' /\ Apart' /\ AllOrNothing'
        BY <2>1, <2>2, <3>1, <3>2 DEF FilesInv, OneWriter, Alone, Apart, AllOrNothing
      <3>4. Recoverable'
        BY <2>1, <2>5, <3>1 DEF FilesInv, Recoverable
      <3> QED
        BY <1>t, <2>3, <3>3, <3>4 DEF FilesInv
    <2> QED
      BY <2>1, <2>4, <2>5
  <1>15. ASSUME NEW a \in Agents, ApplyCrash(a) PROVE Goal
    <2>1. /\ step[a] = "write" /\ dbWriter' = {} /\ LeavesFiles(a)
          /\ torn' = torn \union (copy[a].files \ todo[a])
          /\ UNCHANGED <<text, told>>
      BY <1>15 DEF ApplyCrash
    <2>2. dbWriter' = dbWriter \ {a}
      BY <2>1 DEF FilesInv, OneWriter, Alone
    <2>3. \A f \in copy[a].files \ torn' : text[f] \ UserEdits = told[f]
      BY <2>1 DEF FilesInv, Recoverable
    <2>4. ChangesKept
      BY <2>1 DEF ChangesKept
    <2> QED
      BY <1>t, <2>1, <2>2, <2>3, <2>4, FilesLeft
  <1>16. ASSUME NEW a \in Agents, ApplyRestore(a) PROVE Goal
    <2>1. PICK restored \in SUBSET copy[a].files :
            /\ text' = [f \in Files |-> IF f \in restored THEN backup[a][f] ELSE text[f]]
            /\ torn' = torn \union ((copy[a].files \ todo[a]) \ restored)
      BY <1>16 DEF ApplyRestore
    <2>2. step[a] = "restore" /\ LeavesFiles(a) /\ UNCHANGED <<dbWriter, told>>
      BY <1>16 DEF ApplyRestore
    <2>3. dbWriter' = dbWriter \ {a}
      BY <2>2 DEF FilesInv, OneWriter
    <2>4. copy[a].files \subseteq Files
      BY <1>t DEF SkillTypeOK, Patches
    <2>5. \A f \in copy[a].files \ torn' : text'[f] \ UserEdits = told[f]
      BY <2>1, <2>2, <2>4 DEF FilesInv, Recoverable
    <2>6. ChangesKept
      BY <2>1, <2>2, <2>4 DEF ChangesKept, Patching
    <2> QED
      BY <1>t, <2>1, <2>2, <2>3, <2>4, <2>5, <2>6, FilesLeft
  <1>11. ASSUME NEW a \in Agents, RejectWrite(a) PROVE Goal
    BY <1>11, <1>t, FilesUntouched DEF RejectWrite, Returns, history, SkillTypeOK
  <1>12. ASSUME NEW a \in Agents, EditWrite(a) PROVE Goal
    BY <1>12, <1>t, FilesUntouched DEF EditWrite, Returns, history, SkillTypeOK
  <1>13. ASSUME NEW f \in Files, NEW e \in UserEdits, UserEdit(f, e) PROVE Goal
    <2>1. /\ text' = [text EXCEPT ![f] = @ \union {e}]
          /\ UNCHANGED <<step, copy, todo, backup, dbWriter, told, torn>>
      BY <1>13 DEF UserEdit, history
    <2>2. \A g \in Files : text[g] \subseteq text'[g] /\ text'[g] \ UserEdits = text[g] \ UserEdits
      BY <1>t, <2>1 DEF SkillTypeOK, Texts
    <2>3. \A g \in Files : Patching(g)' = Patching(g)
      BY <2>1 DEF Patching
    <2>4. OneWriter' /\ Alone' /\ Apart' /\ AllOrNothing'
      BY <2>1, <2>2, <2>3 DEF FilesInv, OneWriter, Alone, Apart, AllOrNothing
    <2>5. Recoverable'
      <3>1. \A a \in Agents : copy[a].files \subseteq Files
        BY <1>t DEF SkillTypeOK, Patches
      <3> QED
        BY <2>1, <2>2, <3>1 DEF FilesInv, Recoverable
    <2>6. ChangesKept
      BY <2>2 DEF ChangesKept
    <2> QED
      BY <1>t, <2>4, <2>5, <2>6 DEF FilesInv
  <1>14. CASE UNCHANGED skillVars
    BY <1>14, <1>t, FilesUntouched DEF skillVars, history
  <1> QED
    BY <1>1, <1>2, <1>3, <1>4, <1>5, <1>6, <1>7, <1>8, <1>9, <1>10, <1>11, <1>12, <1>13, <1>14,
       <1>15, <1>16 DEF SkillNext

LEMMA FilesAlways == SkillSpec => [][ChangesKept]_skillVars /\ []FilesInv
  <1>1. SkillInit => FilesInv
    BY FilesInvInit
  <1>2. FilesInv /\ [SkillNext]_skillVars => FilesInv'
    BY FilesInvNext
  <1>3. FilesInv /\ [SkillNext]_skillVars => [ChangesKept]_skillVars
    BY FilesInvNext
  <1> QED
    BY <1>1, <1>2, <1>3, PTL DEF SkillSpec

(* In every race: apart from what people write, a file that was not torn has *)
(* the text that the last committed application gave it (apply_proposal and  *)
(* _restore_prepared_files).                                                 *)
THEOREM AllOrNothingHolds == SkillSpec => []AllOrNothing
  <1>1. FilesInv => AllOrNothing
    BY DEF FilesInv
  <1> QED
    BY <1>1, FilesAlways, PTL

(* In every race: what an application takes out of a file was shown as       *)
(* removed by its patch or was written after the check of _prepare_patches.  *)
THEOREM ChangesNotLost == SkillSpec => NoChangeLost
  <1>1. [ChangesKept]_skillVars
          => [\A f \in Files : \A c \in text[f] \ text'[f] :
                \E a \in Patching(f) :
                  c \in backup[a][f] => c \in copy[a].before[f] \ copy[a].after[f]]_skillVars
    BY DEF ChangesKept
  <1> QED
    BY <1>1, FilesAlways, PTL DEF NoChangeLost
=============================================================================
