----------------------------- MODULE NewestWins -----------------------------
(***************************************************************************)
(* What two copies of the records promise when both are edited: a copy     *)
(* only moves to a newer version, never to one that nobody wrote, so that  *)
(* the newest version of a record survives on one side until it is on      *)
(* both.  CloudShipper implements it with cycles of pulls and batches.     *)
(***************************************************************************)
EXTENDS Naturals

CONSTANT Notes

VARIABLES
  now,       \* the time of the last edit of anything
  local,     \* the time of the version in the store, 0 when there is none
  cloudAt    \* the time of the version in the cloud

Init ==
  /\ now = 0
  /\ local = [n \in Notes |-> 0]
  /\ cloudAt = [n \in Notes |-> 0]

\* Something else is written.
Tick == now' \in Nat /\ now' > now /\ UNCHANGED <<local, cloudAt>>

\* A copy is edited.
EditLocal(n) ==
  /\ now' = now + 1
  /\ local' = [local EXCEPT ![n] = now']
  /\ UNCHANGED cloudAt

EditCloud(n) ==
  /\ now' = now + 1
  /\ cloudAt' = [cloudAt EXCEPT ![n] = now']
  /\ UNCHANGED local

\* A record in the store catches up with the cloud.
Pull(n) ==
  /\ local'[n] \in local[n] .. cloudAt[n]
  /\ local' = [local EXCEPT ![n] = local'[n]]
  /\ UNCHANGED <<now, cloudAt>>

\* A batch of records in the cloud catches up with the store.
Push(sent) ==
  /\ \A n \in sent : cloudAt'[n] \in cloudAt[n] .. local[n]
  /\ cloudAt' = [n \in Notes |-> IF n \in sent THEN cloudAt'[n] ELSE cloudAt[n]]
  /\ UNCHANGED <<now, local>>

Next ==
  \/ Tick
  \/ \E n \in Notes : EditLocal(n) \/ EditCloud(n) \/ Pull(n)
  \/ \E sent \in SUBSET Notes : Push(sent)

Spec == Init /\ [][Next]_<<now, local, cloudAt>>
=============================================================================
