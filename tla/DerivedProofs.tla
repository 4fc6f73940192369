---------------------------- MODULE DerivedProofs ----------------------------
(* Theorems about what is derived from the records: the cloud's copy, the    *)
(* daily pages and the context graph.                                        *)
EXTENDS CloudShipper, DerivedArtifacts, ContextGraph, NaturalSets, FiniteSetTheorems

-----------------------------------------------------------------------------
(* CloudShipper *)

\* The oldest of a set that is not empty are not none.
LEMMA SomeOldest ==
  ASSUME NEW all, NEW older, NEW n \in Nat \ {0}, IsFiniteSet(all), all # {}, IsOldest(older, all, n)
  PROVE  older # {}
  <1>1. Cardinality(all) \in Nat /\ Cardinality(all) # 0
    BY FS_CardinalityType, FS_EmptySet
  <1>2. Cardinality(older) # 0
    BY <1>1 DEF IsOldest
  <1> QED BY <1>2, FS_EmptySet

-----------------------------------------------------------------------------
(* Types *)

\* What a cycle has read is rows while they are posted, records while edits are
\* applied and records sent; a batch that is posted holds a row, and an edit is
\* at hand while one is applied.
BatchInv ==
  /\ cycle \in {"apply", "update", "send"} => batch \subseteq Notes \X Times
  /\ cycle = "post" => batch \subseteq Rows \X Times /\ batch # {}
  /\ cycle = "update" => batch # {}

ShipTypeInv == ShipTypeOK /\ BatchInv

LEMMA EditIs ==
  ASSUME ShipTypeInv, cycle \in {"apply", "update"}, batch # {}
  PROVE  /\ Edit \in batch /\ Edit \in Notes \X Times
         /\ \A f \in batch : Edit[2] <= f[2]
  <1>1. batch \subseteq Notes \X Times /\ Times \subseteq Nat
    BY ShipAssumption DEF ShipTypeInv, BatchInv, Times
  <1> DEFINE T == {t \in Times : \E n \in Notes : <<n, t>> \in batch}
  <1>b. \A f \in batch : f = <<f[1], f[2]>> /\ f[1] \in Notes /\ f[2] \in T
    BY <1>1
  <1>2. T # {} /\ T \subseteq Nat
    BY <1>1, <1>b
  <1>3. PICK t \in T : \A s \in T : t <= s
    BY <1>2, Least
  <1>4. PICK n \in Notes : <<n, t>> \in batch
    OBVIOUS
  <1>5. \A f \in batch : t <= f[2]
    BY <1>b, <1>3
  <1>6. \E e \in batch : \A f \in batch : e[2] <= f[2]
    BY <1>4, <1>5
  <1> QED BY <1>1, <1>6 DEF Edit

\* The last time of a batch of rows is that of one of them.
LEMMA LatestIs ==
  ASSUME NEW items \in SUBSET (Rows \X Times), items # {}
  PROVE  /\ Latest(items) \in Times
         /\ \E b \in items : b[2] = Latest(items)
         /\ \A b \in items : b[2] <= Latest(items)
  <1> DEFINE T == {a[2] : a \in items}
  <1>1. T \in SUBSET Times /\ T # {}
    OBVIOUS
  <1>2. Max(T) \in T /\ \A t \in T : t <= Max(T)
    BY <1>1, MaxIs, ShipAssumption DEF Times
  <1> QED BY <1>1, <1>2 DEF Latest

\* What the cloud has of an item after a call: what it had, or what was sent.
NewestOf(t, sent, k) == Max({t} \union {b[2] : b \in {a \in sent : a[1] = k}})

LEMMA NewestIs ==
  ASSUME NEW S, NEW t \in Times, NEW sent \in SUBSET (S \X Times), NEW k \in S
  PROVE  /\ NewestOf(t, sent, k) \in Times /\ t <= NewestOf(t, sent, k)
         /\ NewestOf(t, sent, k) = t \/ <<k, NewestOf(t, sent, k)>> \in sent
         /\ \A s \in Times : <<k, s>> \in sent => s <= NewestOf(t, sent, k)
  <1> DEFINE m == NewestOf(t, sent, k)
             T == {t} \union {b[2] : b \in {a \in sent : a[1] = k}}
  <1>1. T \in SUBSET Times /\ T # {}
    OBVIOUS
  <1>2. m \in T /\ \A s \in T : s <= m
    BY <1>1, MaxIs, ShipAssumption DEF Times, NewestOf
  <1> HIDE DEF m
  <1>3. \A s \in Times : <<k, s>> \in sent => s \in T
    OBVIOUS
  <1>4. ASSUME m # t PROVE <<k, m>> \in sent
    BY <1>2, <1>4
  <1> QED BY <1>1, <1>2, <1>3, <1>4 DEF m

LEMMA ReceivedIs ==
  ASSUME ShipTypeInv, cycle = "post", NEW r \in Rows
  PROVE  /\ Received \in [Rows -> Times] /\ received[r] <= Received[r]
         /\ Received[r] = received[r] \/ <<r, Received[r]>> \in batch
         /\ \A s \in Times : <<r, s>> \in batch => s <= Received[r]
  <1>1. batch \in SUBSET (Rows \X Times) /\ received \in [Rows -> Times]
    BY DEF ShipTypeInv, ShipTypeOK, BatchInv
  <1>2. \A q \in Rows : Received[q] = NewestOf(received[q], batch, q)
    BY DEF Received, NewestOf
  <1>3. \A q \in Rows :
           /\ Received[q] \in Times /\ received[q] <= Received[q]
           /\ Received[q] = received[q] \/ <<q, Received[q]>> \in batch
           /\ \A s \in Times : <<q, s>> \in batch => s <= Received[q]
    <2> TAKE q \in Rows
    <2>1. received[q] \in Times
      BY <1>1
    <2> QED BY <1>1, <1>2, <2>1, NewestIs
  <1>4. Received \in [Rows -> Times]
    BY <1>3 DEF Received
  <1> QED BY <1>3, <1>4

LEMMA TakenIs ==
  ASSUME ShipTypeInv, NEW sent \in SUBSET (Notes \X Times), NEW n \in Notes
  PROVE  /\ Taken(sent) \in [Notes -> Times] /\ cloudAt[n] <= Taken(sent)[n]
         /\ Taken(sent)[n] = cloudAt[n] \/ <<n, Taken(sent)[n]>> \in sent
  <1>1. cloudAt \in [Notes -> Times]
    BY DEF ShipTypeInv, ShipTypeOK
  <1>2. \A q \in Notes : Taken(sent)[q] = NewestOf(cloudAt[q], sent, q)
    BY DEF Taken, NewestOf
  <1>3. \A q \in Notes :
           /\ Taken(sent)[q] \in Times /\ cloudAt[q] <= Taken(sent)[q]
           /\ Taken(sent)[q] = cloudAt[q] \/ <<q, Taken(sent)[q]>> \in sent
    <2> TAKE q \in Notes
    <2>1. cloudAt[q] \in Times
      BY <1>1
    <2> QED BY SMTT(30), <1>2, <2>1, NewestIs
  <1>4. Taken(sent) \in [Notes -> Times]
    BY <1>3 DEF Taken
  <1> QED BY <1>3, <1>4

\* The rows behind the mark, and the records there are, with their stamps.
NewRows == {<<r, stamp[r]>> : r \in {q \in Rows : stamp[q] > memory.rows}}
AllNotes == {<<n, local[n]>> : n \in {m \in Notes : local[m] > 0}}

LEMMA NewRowsFinite == IsFiniteSet(NewRows)
  <1>1. IsFiniteSet({q \in Rows : stamp[q] > memory.rows})
    BY ShipAssumption, FS_Subset
  <1> DEFINE S == {q \in Rows : stamp[q] > memory.rows}
             f == [r \in S |-> <<r, stamp[r]>>]
  <1>2. f \in Surjection(S, NewRows)
    BY DEF Surjection, NewRows
  <1> QED BY <1>1, <1>2, FS_Surjection

LEMMA QueryRowsIs ==
  ASSUME QueryRows
  PROVE  \/ cycle' = "notes" /\ batch' = {} /\ looked' = 0
         \/ /\ batch' \subseteq NewRows /\ batch' # {} /\ IsOldest(batch', NewRows, RowBatch)
            /\ cycle' = "post" /\ looked' = looked
  <1>1. CASE NewRows = {}
    BY <1>1 DEF QueryRows, NewRows, GoOn
  <1>2. CASE NewRows # {}
    <2>1. /\ IsOldest(batch', NewRows, RowBatch)
          /\ cycle' = "post" /\ looked' = looked
      BY <1>2 DEF QueryRows, NewRows
    <2> QED BY <1>2, <2>1, NewRowsFinite, SomeOldest, ShipAssumption DEF IsOldest
  <1> QED BY <1>1, <1>2

LEMMA ShipTypeStart == ShipInit => ShipTypeInv
  BY ShipAssumption DEF ShipInit, ShipTypeInv, ShipTypeOK, BatchInv, Times, Marks, NoMark, Phases

LEMMA ShipTypeStep ==
  ASSUME ShipTypeInv, [ShipNext]_shipVars
  PROVE  ShipTypeInv'
  <1> USE DEF ShipTypeInv, ShipTypeOK
  <1>t. MaxClock \in Nat /\ MaxFaults \in Nat /\ 0 \in Times
    BY ShipAssumption DEF Times
  <1>f. ASSUME Faulty PROVE faults' \in 0..MaxFaults
    BY <1>f, <1>t DEF Faulty
  <1>1. ASSUME NEW r \in Rows, DrawStamp(r) PROVE ShipTypeInv'
    <2>1. clock' \in Times
      BY <1>1, <1>t DEF DrawStamp, NextStamp, Times
    <2> QED BY <1>1, <2>1 DEF DrawStamp, BatchInv
  <1>2. ASSUME NEW r \in Rows, CommitRow(r) PROVE ShipTypeInv'
    BY <1>2, <1>t DEF CommitRow, BatchInv
  <1>3. ASSUME NEW n \in Notes, LocalEdit(n) PROVE ShipTypeInv'
    <2>1. clock + 1 \in Times
      BY <1>3, <1>t DEF LocalEdit, Times
    <2> QED BY <1>3, <2>1 DEF LocalEdit, BatchInv
  <1>4. ASSUME NEW n \in Notes, CloudEdit(n) PROVE ShipTypeInv'
    <2>1. clock + 1 \in Times
      BY <1>4, <1>t DEF CloudEdit, Times
    <2> QED BY <1>4, <2>1 DEF CloudEdit, BatchInv
  <1>5. CASE Begin
    BY <1>5 DEF Begin, BatchInv, Phases, env
  <1>6. CASE Pull
    <2>1. batch' \subseteq Notes \X Times
      BY <1>6 DEF Pull, EditsBehind
    <2> QED BY <1>6, <2>1 DEF Pull, BatchInv, Phases, env
  <1>7. CASE ApplyLook
    <2>1. looked' \in Times
      BY <1>7, EditIs DEF ApplyLook
    <2> QED BY <1>7, <2>1 DEF ApplyLook, BatchInv, Phases, env
  <1>8. CASE ApplyUpdate
    <2>1. Edit[1] \in Notes /\ Edit[2] \in Times
      BY <1>8, EditIs DEF ApplyUpdate, BatchInv
    <2>2. local' \in [Notes -> Times] /\ memory' \in Marks
      BY <1>8, <2>1 DEF ApplyUpdate, Marks
    <2> QED BY <1>8, <1>t, <2>2 DEF ApplyUpdate, BatchInv, Phases, env
  <1>9. CASE ApplyEnds
    BY <1>9, <1>t DEF ApplyEnds, GoOn, BatchInv, Phases, env
  <1>10. CASE QueryRows
    <2>1. NewRows \subseteq Rows \X Times
      BY DEF NewRows
    <2> QED BY <1>10, <1>t, <2>1, QueryRowsIs DEF QueryRows, BatchInv, Phases, env
  <1>11. CASE PostRows
    <2>1. Latest(batch) \in Times
      BY <1>11, LatestIs DEF PostRows, BatchInv
    <2>2. memory' \in Marks
      BY <1>11, <2>1 DEF PostRows, Marks
    <2>3. received' \in [Rows -> Times]
      <3>1. CASE Rows = {}
        BY <1>11, <3>1 DEF PostRows, BatchInv
      <3>2. CASE Rows # {}
        BY <1>11, <3>2, ReceivedIs DEF PostRows
      <3> QED BY <3>1, <3>2
    <2> QED BY <1>11, <1>t, <2>2, <2>3 DEF PostRows, GoOn, BatchInv, Phases, env
  <1>12. CASE QueryNotes
    <2>1. AllNotes \subseteq Notes \X Times
      BY DEF AllNotes
    <2>2. batch' \subseteq AllNotes
      BY <1>12 DEF QueryNotes, IsOldest, AllNotes
    <2> QED BY <1>12, <2>1, <2>2 DEF QueryNotes, BatchInv, Phases, env
  <1>13. CASE SendNotes
    <2>1. PICK sent \in SUBSET batch : cloudAt' = Taken(sent) /\ batch' = batch \ sent
      BY <1>13 DEF SendNotes
    <2>2. sent \in SUBSET (Notes \X Times) /\ batch \subseteq Notes \X Times /\ Notes # {}
      BY <1>13 DEF SendNotes, BatchInv
    <2>3. cloudAt' \in [Notes -> Times]
      BY <2>1, <2>2, TakenIs
    <2> QED BY <1>13, <2>1, <2>2, <2>3 DEF SendNotes, BatchInv, env
  <1>14. CASE SendEnds
    BY <1>14, <1>t DEF SendEnds, GoOn, BatchInv, Phases, env
  <1>15. CASE Save
    BY <1>15, <1>t DEF Save, GoOn, BatchInv, Phases, env
  <1>16. CASE PullFails
    BY <1>16, <1>t, <1>f DEF PullFails, GoOn, BatchInv, Phases, env
  <1>17. CASE ApplyStops
    <2>1. faults' \in 0..MaxFaults
      BY <1>17, <1>f DEF ApplyStops
    <2> QED BY <1>17, <1>t, <2>1 DEF ApplyStops, GoOn, BatchInv, Phases, env
  <1>18. CASE PostFails
    <2>1. received' \in [Rows -> Times]
      <3>1. CASE received' = received
        BY <3>1
      <3>2. CASE received' = Received
        <4>1. Rows # {}
          BY <1>18 DEF PostFails, BatchInv
        <4> QED BY <1>18, <3>2, <4>1, ReceivedIs DEF PostFails
      <3> QED BY <1>18, <3>1, <3>2 DEF PostFails
    <2> QED BY <1>18, <1>t, <1>f, <2>1 DEF PostFails, GoOn, BatchInv, Phases, env
  <1>19. CASE SendFails
    <2>1. PICK sent \in SUBSET batch : cloudAt' \in {cloudAt, Taken(sent)}
      BY <1>19 DEF SendFails
    <2>2. sent \in SUBSET (Notes \X Times) /\ Notes # {}
      BY <1>19 DEF SendFails, BatchInv
    <2>3. cloudAt' \in [Notes -> Times]
      <3>1. Taken(sent) \in [Notes -> Times]
        BY <2>2, TakenIs
      <3> QED BY <2>1, <3>1
    <2> QED BY <1>19, <1>t, <1>f, <2>3 DEF SendFails, GoOn, BatchInv, Phases, env
  <1>20. CASE CycleDies
    <2>1. disk' \in Marks
      BY <1>20, <1>t DEF CycleDies, Marks, NoMark
    <2> QED BY <1>20, <1>t, <1>f, <2>1 DEF CycleDies, GoOn, BatchInv, Phases, env
  <1>21. CASE UNCHANGED shipVars
    BY <1>21 DEF shipVars, BatchInv
  <1>22. CASE ApplyDrops
    <2>1. Edit[2] \in Times
      BY <1>22, EditIs DEF ApplyDrops
    <2>2. memory' \in Marks
      BY <1>22, <2>1 DEF ApplyDrops, Marks
    <2> QED BY <1>22, <2>2 DEF ApplyDrops, BatchInv, env
  <1> QED BY <1>1, <1>2, <1>3, <1>4, <1>5, <1>6, <1>7, <1>8, <1>9, <1>10, <1>11, <1>12, <1>13,
             <1>14, <1>15, <1>16, <1>17, <1>18, <1>19, <1>20, <1>21, <1>22
          DEF ShipNext, Progress, Trouble

\* Every variable keeps its type, and a cycle posts rows only when it has read
\* some, applies only edits it has pulled and sends only records it has read,
\* in every race and after every fault.
THEOREM ShippingType == ShipSpec => [](ShipTypeOK /\ BatchInv)
  BY ShipTypeStart, ShipTypeStep, PTL DEF ShipSpec, ShipTypeInv

-----------------------------------------------------------------------------
(* Rows are sent from a watermark on *)

\* Stamps are given out one after the other: a stamp under way is above every
\* committed one and above the watermarks, and no two rows share one.
StampInv ==
  /\ \A r \in Rows : drawn[r] <= clock /\ stamp[r] <= clock /\ received[r] <= stamp[r]
  /\ \A q, r \in Rows : drawn[r] # 0 => stamp[q] < drawn[r]
  /\ \A q, r \in Rows : drawn[r] # 0 /\ drawn[q] = drawn[r] => q = r
  /\ \A q, r \in Rows : stamp[r] # 0 /\ stamp[q] = stamp[r] => q = r

WatermarkInv ==
  \A m \in {disk, memory} :
    m.rows <= clock /\ \A r \in Rows : drawn[r] # 0 => m.rows < drawn[r]

\* What is posted was committed, and holds every row from the watermark up to
\* the last one it holds.
PostInv ==
  cycle = "post" =>
    \A b \in batch :
      /\ b[2] <= stamp[b[1]]
      /\ \A r \in Rows : memory.rows < stamp[r] /\ stamp[r] <= b[2] => <<r, stamp[r]>> \in batch

RowInv == StampInv /\ WatermarkInv /\ PostInv /\ NothingSteppedOver

LEMMA RowStart == ShipInit => RowInv
  BY DEF ShipInit, RowInv, StampInv, WatermarkInv, PostInv, NothingSteppedOver, NoMark

\* A step that leaves the rows as they are, and saves or loads the marks.
LEMMA RowsAtRest ==
  ASSUME ShipTypeInv, RowInv,
         UNCHANGED <<clock, drawn, stamp>>, received' = received,
         {disk'.rows, memory'.rows} \subseteq {disk.rows, memory.rows, 0},
         cycle' # "post"
  PROVE  RowInv'
  <1>1. StampInv'
    BY DEF RowInv, StampInv
  <1>2. \A r \in Rows : drawn[r] \in Nat /\ stamp[r] \in Nat /\ received[r] \in Nat
    BY DEF ShipTypeInv, ShipTypeOK, Times
  <1>3. 0 <= clock /\ \A r \in Rows : drawn[r] # 0 => 0 < drawn[r]
    BY <1>2 DEF ShipTypeInv, ShipTypeOK, Times
  <1>4. WatermarkInv'
    <2>1. \A k \in {disk.rows, memory.rows, 0} :
             k <= clock /\ \A r \in Rows : drawn[r] # 0 => k < drawn[r]
      BY <1>3 DEF RowInv, WatermarkInv
    <2>2. \A m \in {disk', memory'} : m.rows \in {disk.rows, memory.rows, 0}
      OBVIOUS
    <2>3. \A m \in {disk', memory'} :
             m.rows <= clock /\ \A r \in Rows : drawn[r] # 0 => m.rows < drawn[r]
      BY <2>1, <2>2
    <2> QED BY <2>3 DEF WatermarkInv
  <1>5. \A r \in Rows : stamp[r] <= 0 => received[r] = stamp[r]
    BY <1>2 DEF RowInv, StampInv
  <1>6. NothingSteppedOver'
    BY <1>5 DEF RowInv, NothingSteppedOver
  <1> QED BY <1>1, <1>4, <1>6 DEF RowInv, PostInv

LEMMA DrawKeepsRows ==
  ASSUME "tie" \notin ShipRaces, ShipTypeInv, RowInv, NEW k \in Rows, DrawStamp(k)
  PROVE  RowInv'
  <1> USE DEF ShipTypeInv, ShipTypeOK, Times, Marks
  <1>1. /\ clock' = clock + 1 /\ drawn' = [drawn EXCEPT ![k] = clock + 1]
        /\ UNCHANGED <<stamp, received, disk, memory, cycle, batch>>
    BY DEF DrawStamp, NextStamp
  <1>2. clock < clock + 1 /\ clock \in Nat
    BY ShipAssumption
  <1>3. \A r \in Rows : drawn'[r] = IF r = k THEN clock + 1 ELSE drawn[r]
    BY <1>1
  <1>4. \A n \in Nat : n <= clock => n < clock + 1 /\ n <= clock + 1
    BY <1>2
  <1>5. \A r \in Rows : /\ drawn[r] \in Nat /\ drawn[r] <= clock
                        /\ stamp[r] \in Nat /\ stamp[r] <= clock
    BY DEF RowInv, StampInv
  <1>6. \A r \in Rows : drawn'[r] <= clock + 1
    BY <1>2, <1>3, <1>4, <1>5
  <1>7. \A q, r \in Rows : drawn'[r] # 0 => stamp[q] < drawn'[r]
    BY <1>3, <1>4, <1>5 DEF RowInv, StampInv
  <1>8. \A q, r \in Rows : drawn'[r] # 0 /\ drawn'[q] = drawn'[r] => q = r
    BY <1>2, <1>3, <1>5 DEF RowInv, StampInv
  <1>9. StampInv'
    BY <1>1, <1>4, <1>5, <1>6, <1>7, <1>8 DEF RowInv, StampInv
  <1>10. \A m \in {disk, memory} : m.rows \in Nat /\ m.rows <= clock
    BY DEF RowInv, WatermarkInv
  <1>11. WatermarkInv'
    BY <1>1, <1>3, <1>4, <1>10 DEF RowInv, WatermarkInv
  <1> QED BY <1>1, <1>9, <1>11 DEF RowInv, PostInv, NothingSteppedOver

LEMMA CommitKeepsRows ==
  ASSUME "late" \notin ShipRaces, ShipTypeInv, RowInv, NEW k \in Rows, CommitRow(k)
  PROVE  RowInv'
  <1> USE DEF ShipTypeInv, ShipTypeOK, Times, Marks
  <1>1. /\ stamp' = [stamp EXCEPT ![k] = drawn[k]] /\ drawn' = [drawn EXCEPT ![k] = 0]
        /\ UNCHANGED <<clock, received, disk, memory, cycle, batch>>
        /\ drawn[k] # 0
    BY DEF CommitRow
  <1>2. \A r \in Rows : /\ stamp'[r] = IF r = k THEN drawn[k] ELSE stamp[r]
                        /\ drawn'[r] = IF r = k THEN 0 ELSE drawn[r]
    BY <1>1
  <1>3. \A r \in Rows : drawn[r] \in Nat /\ stamp[r] \in Nat /\ received[r] \in Nat
    OBVIOUS
  <1>4. \A r \in Rows : r # k /\ drawn[r] # 0 => drawn[k] < drawn[r]
    BY <1>3 DEF CommitRow, RowInv, StampInv
  <1>5. \A r \in Rows : stamp[r] < drawn[k]
    BY <1>1 DEF RowInv, StampInv
  <1>6. \A r \in Rows : drawn'[r] <= clock /\ stamp'[r] <= clock /\ received[r] <= stamp'[r]
    BY <1>2, <1>3, <1>5 DEF RowInv, StampInv
  <1>7. \A q, r \in Rows : drawn'[r] # 0 => stamp'[q] < drawn'[r]
    BY <1>2, <1>4 DEF RowInv, StampInv
  <1>8. \A q, r \in Rows : drawn'[r] # 0 /\ drawn'[q] = drawn'[r] => q = r
    BY <1>2 DEF RowInv, StampInv
  <1>9. \A q, r \in Rows : stamp'[r] # 0 /\ stamp'[q] = stamp'[r] => q = r
    BY <1>2, <1>3, <1>5 DEF RowInv, StampInv
  <1>10. StampInv'
    BY <1>1, <1>6, <1>7, <1>8, <1>9 DEF StampInv
  <1>11. WatermarkInv'
    BY <1>1, <1>2 DEF RowInv, WatermarkInv
  <1>12. NothingSteppedOver'
    <2>1. \A m \in {disk, memory} : m.rows \in Nat /\ m.rows < drawn[k]
      BY <1>1 DEF RowInv, WatermarkInv
    <2> QED BY <1>1, <1>2, <1>3, <2>1 DEF RowInv, NothingSteppedOver
  <1>13. PostInv'
    <2> SUFFICES ASSUME cycle = "post", NEW b \in batch
                 PROVE  /\ b[2] <= stamp'[b[1]]
                        /\ \A r \in Rows : memory.rows < stamp'[r] /\ stamp'[r] <= b[2]
                                             => <<r, stamp'[r]>> \in batch
      BY <1>1 DEF PostInv
    <2>1. b[1] \in Rows /\ b[2] \in Nat /\ b[2] <= stamp[b[1]]
      BY DEF BatchInv, RowInv, PostInv
    <2>2. b[2] < drawn[k]
      BY <1>3, <1>5, <2>1
    <2>3. b[2] <= stamp'[b[1]]
      BY <1>2, <1>3, <2>1, <2>2
    <2>4. ASSUME NEW r \in Rows, memory.rows < stamp'[r], stamp'[r] <= b[2]
          PROVE  <<r, stamp'[r]>> \in batch
      <3>1. r # k /\ stamp'[r] = stamp[r]
        BY <1>2, <1>3, <2>1, <2>2, <2>4
      <3> QED BY <2>4, <3>1 DEF RowInv, PostInv
    <2> QED BY <2>3, <2>4
  <1> QED BY <1>10, <1>11, <1>12, <1>13 DEF RowInv

LEMMA QueryKeepsRows ==
  ASSUME ShipTypeInv, RowInv, QueryRows
  PROVE  RowInv'
  <1>1. UNCHANGED <<clock, drawn, stamp, received, disk, memory>>
    BY DEF QueryRows, env
  <1>2. StampInv' /\ WatermarkInv' /\ NothingSteppedOver'
    BY <1>1 DEF RowInv, StampInv, WatermarkInv, NothingSteppedOver
  <1>3. PostInv'
    <2>1. CASE cycle' = "notes"
      BY <2>1 DEF PostInv
    <2>2. CASE /\ batch' \subseteq NewRows /\ batch' # {}
               /\ IsOldest(batch', NewRows, RowBatch)
      <3> SUFFICES ASSUME NEW b \in batch'
                   PROVE  /\ b[2] <= stamp[b[1]]
                          /\ \A r \in Rows : memory.rows < stamp[r] /\ stamp[r] <= b[2]
                                               => <<r, stamp[r]>> \in batch'
        BY <1>1 DEF PostInv
      <3>1. PICK q \in Rows : b = <<q, stamp[q]>> /\ stamp[q] > memory.rows
        BY <2>2 DEF NewRows
      <3>2. stamp[q] \in Nat /\ memory.rows \in Nat
        BY DEF ShipTypeInv, ShipTypeOK, Times, Marks
      <3>3. ASSUME NEW r \in Rows, memory.rows < stamp[r], stamp[r] <= b[2],
                   <<r, stamp[r]>> \notin batch'
            PROVE  FALSE
        <4>1. <<r, stamp[r]>> \in NewRows \ batch' /\ stamp[r] \in Nat
          BY <3>3 DEF NewRows, ShipTypeInv, ShipTypeOK, Times, Marks
        <4>2. stamp[q] <= stamp[r]
          BY <2>2, <3>1, <4>1 DEF IsOldest
        <4>3. stamp[q] = stamp[r] /\ stamp[q] # 0
          BY <3>1, <3>2, <3>3, <4>1, <4>2
        <4>4. q = r
          BY <4>3 DEF RowInv, StampInv
        <4> QED BY <3>1, <3>3, <4>4
      <3> QED BY <3>1, <3>2, <3>3
    <2> QED BY <2>1, <2>2, QueryRowsIs
  <1> QED BY <1>2, <1>3 DEF RowInv

\* A batch that is taken lifts the newest stamp of its rows to what was sent, and
\* of no other row.
LEMMA PostKeepsStamps ==
  ASSUME ShipTypeInv, RowInv, cycle = "post", UNCHANGED <<clock, drawn, stamp>>,
         received' \in {received, Received}
  PROVE  /\ StampInv'
         /\ \A r \in Rows : received[r] = stamp[r] => received'[r] = stamp[r]
  <1>1. \A r \in Rows : /\ received[r] \in Nat /\ stamp[r] \in Nat /\ received'[r] \in Nat
                        /\ received[r] <= received'[r] /\ received'[r] <= stamp[r]
    <2> TAKE r \in Rows
    <2>1. received[r] \in Nat /\ stamp[r] \in Nat /\ received[r] <= stamp[r]
      BY DEF ShipTypeInv, ShipTypeOK, Times, RowInv, StampInv
    <2>2. CASE received' = received
      BY <2>1, <2>2
    <2>3. CASE received' = Received
      <3>1. /\ Received[r] \in Nat /\ received[r] <= Received[r]
            /\ Received[r] = received[r] \/ <<r, Received[r]>> \in batch
        BY ReceivedIs DEF Times
      <3>2. <<r, Received[r]>> \in batch => Received[r] <= stamp[r]
        BY DEF RowInv, PostInv
      <3> QED BY <2>1, <2>3, <3>1, <3>2
    <2> QED BY <2>2, <2>3
  <1>2. StampInv'
    BY <1>1 DEF RowInv, StampInv
  <1>3. \A r \in Rows : received[r] = stamp[r] => received'[r] = stamp[r]
    BY <1>1
  <1> QED BY <1>2, <1>3

LEMMA PostKeepsRows ==
  ASSUME ShipTypeInv, RowInv, PostRows
  PROVE  RowInv'
  <1> USE DEF ShipTypeInv, ShipTypeOK, Marks
  <1>1. /\ cycle = "post" /\ received' = Received /\ UNCHANGED <<clock, drawn, stamp, disk>>
        /\ memory' = [memory EXCEPT !.rows = Latest(batch)] /\ cycle' # "post"
    BY DEF PostRows, GoOn, env
  <1>2. StampInv' /\ \A r \in Rows : received[r] = stamp[r] => received'[r] = stamp[r]
    BY <1>1, PostKeepsStamps
  <1>3. PICK b \in batch : b[2] = Latest(batch)
    BY <1>1, LatestIs DEF BatchInv
  <1>4. /\ memory'.rows = b[2] /\ b[1] \in Rows /\ b[2] \in Times /\ b = <<b[1], b[2]>>
        /\ b[2] <= stamp[b[1]]
    BY <1>1, <1>3 DEF BatchInv, RowInv, PostInv
  <1>5. WatermarkInv'
    <2>1. \A r \in Rows : drawn[r] # 0 => b[2] < drawn[r]
      <3> SUFFICES ASSUME NEW r \in Rows, drawn[r] # 0 PROVE b[2] < drawn[r]
        OBVIOUS
      <3>1. stamp[b[1]] < drawn[r]
        BY <1>4 DEF RowInv, StampInv
      <3> QED BY <1>4, <3>1 DEF Times
    <2>2. stamp[b[1]] <= clock
      BY <1>4 DEF RowInv, StampInv
    <2>3. b[2] <= clock
      BY <1>4, <2>2 DEF Times
    <2> QED BY <1>1, <1>4, <2>1, <2>3 DEF RowInv, WatermarkInv
  <1>6. \A r \in Rows : stamp[r] <= b[2] => received'[r] = stamp[r]
    <2> SUFFICES ASSUME NEW r \in Rows, stamp[r] <= b[2] PROVE received'[r] = stamp[r]
      OBVIOUS
    <2>1. CASE stamp[r] <= memory.rows
      BY <1>2, <2>1 DEF RowInv, NothingSteppedOver
    <2>2. CASE memory.rows < stamp[r]
      <3>1. <<r, stamp[r]>> \in batch /\ stamp[r] \in Times
        BY <1>1, <2>2 DEF RowInv, PostInv
      <3>2. stamp[r] <= Received[r] /\ Received[r] \in Times
        BY <1>1, <3>1, ReceivedIs
      <3>3. received'[r] <= stamp[r]
        BY <1>1, <1>2 DEF StampInv
      <3> QED BY <1>1, <3>1, <3>2, <3>3 DEF Times
    <2> QED BY <2>1, <2>2 DEF Times
  <1>7. \A r \in Rows : stamp[r] <= disk.rows => received'[r] = stamp[r]
    BY <1>2 DEF RowInv, NothingSteppedOver
  <1>8. NothingSteppedOver'
    BY <1>1, <1>4, <1>6, <1>7 DEF NothingSteppedOver
  <1> QED BY <1>1, <1>2, <1>5, <1>8 DEF RowInv, PostInv

LEMMA FailedPostKeepsRows ==
  ASSUME ShipTypeInv, RowInv, PostFails
  PROVE  RowInv'
  <1>1. /\ cycle = "post" /\ received' \in {received, Received} /\ cycle' = "notes"
        /\ UNCHANGED <<clock, drawn, stamp, disk, memory>>
    BY DEF PostFails, GoOn, env
  <1>2. StampInv' /\ \A r \in Rows : received[r] = stamp[r] => received'[r] = stamp[r]
    BY <1>1, PostKeepsStamps
  <1>3. WatermarkInv' /\ NothingSteppedOver'
    BY <1>1, <1>2 DEF RowInv, WatermarkInv, NothingSteppedOver
  <1> QED BY <1>1, <1>2, <1>3 DEF RowInv, PostInv

LEMMA RowStep ==
  ASSUME {"late", "tie"} \intersect ShipRaces = {}, ShipTypeInv, RowInv, [ShipNext]_shipVars
  PROVE  RowInv'
  <1>1. ASSUME NEW r \in Rows, DrawStamp(r) \/ CommitRow(r) PROVE RowInv'
    BY <1>1, DrawKeepsRows, CommitKeepsRows
  <1>2. ASSUME NEW n \in Notes, LocalEdit(n) \/ CloudEdit(n) PROVE RowInv'
    <2>1. clock \in Nat /\ clock' = clock + 1
      BY <1>2 DEF LocalEdit, CloudEdit, ShipTypeInv, ShipTypeOK, Times
    <2>2. \A k \in Nat : k <= clock => k <= clock + 1
      BY <2>1
    <2>3. UNCHANGED <<drawn, stamp, received, disk, memory, cycle, batch>>
      BY <1>2 DEF LocalEdit, CloudEdit
    <2>4. \A r \in Rows : drawn[r] \in Nat /\ stamp[r] \in Nat
      BY DEF ShipTypeInv, ShipTypeOK, Times
    <2>5. disk.rows \in Nat /\ memory.rows \in Nat
      BY DEF ShipTypeInv, ShipTypeOK, Times, Marks
    <2> QED BY <2>1, <2>2, <2>3, <2>4, <2>5
            DEF RowInv, StampInv, WatermarkInv, PostInv, NothingSteppedOver
  <1>3. CASE QueryRows
    BY <1>3, QueryKeepsRows
  <1>4. CASE PostRows
    BY <1>4, PostKeepsRows
  <1>5. CASE PostFails
    BY <1>5, FailedPostKeepsRows
  <1>6. CASE ApplyUpdate \/ ApplyDrops
    BY <1>6, RowsAtRest DEF ApplyUpdate, ApplyDrops, env, ShipTypeInv, ShipTypeOK, Marks
  <1>7. CASE Begin \/ Pull \/ ApplyLook \/ ApplyEnds \/ QueryNotes
    BY <1>7, RowsAtRest DEF Begin, Pull, ApplyLook, ApplyEnds, QueryNotes, GoOn, env
  <1>8. CASE SendNotes \/ SendEnds \/ Save
    BY <1>8, RowsAtRest DEF SendNotes, SendEnds, Save, GoOn, env
  <1>9. CASE PullFails \/ ApplyStops \/ SendFails
    BY <1>9, RowsAtRest DEF PullFails, ApplyStops, SendFails, GoOn, env
  <1>10. CASE CycleDies
    BY <1>10, RowsAtRest DEF CycleDies, GoOn, env, NoMark
  <1>11. CASE UNCHANGED shipVars
    BY <1>11 DEF shipVars, RowInv, StampInv, WatermarkInv, PostInv, NothingSteppedOver
  <1> QED BY <1>1, <1>2, <1>3, <1>4, <1>5, <1>6, <1>7, <1>8, <1>9, <1>10, <1>11
          DEF ShipNext, Progress, Trouble

\* Where rows are committed in the order of their stamps and no two share one,
\* the cloud has every row at or below the watermark as it now is, through failed
\* calls, crashes, torn state files and rows written while they are posted.
THEOREM NoRowSteppedOver ==
  ASSUME {"late", "tie"} \intersect ShipRaces = {}
  PROVE  ShipSpec => []NothingSteppedOver
  <1>1. ShipInit => ShipTypeInv /\ RowInv
    BY ShipTypeStart, RowStart
  <1>2. (ShipTypeInv /\ RowInv) /\ [ShipNext]_shipVars => (ShipTypeInv /\ RowInv)'
    BY ShipTypeStep, RowStep
  <1>3. ShipTypeInv /\ RowInv => NothingSteppedOver
    BY DEF RowInv
  <1> QED BY <1>1, <1>2, <1>3, PTL DEF ShipSpec

-----------------------------------------------------------------------------
(* Edits are pulled behind a cursor *)

\* The time t is one of record n: on either side, or in what a cycle holds.
IsTimeOf(n, t) ==
  \/ t = local[n] \/ t = cloudAt[n]
  \/ cycle \in {"apply", "update", "send"} /\ <<n, t>> \in batch

\* Times lie behind the clock, and no two records share one.
OwnTimeInv ==
  /\ \A n \in Notes, t \in Times : IsTimeOf(n, t) => t <= clock
  /\ \A m, n \in Notes, t \in Times : t # 0 /\ IsTimeOf(m, t) /\ IsTimeOf(n, t) => m = n
  /\ disk.pull <= clock /\ memory.pull <= clock

\* The edits at hand lie behind the cursor, and hold every later time the cloud
\* has, but for what was edited since the pull; the store has the record that is
\* compared as it was read.
PulledInv ==
  /\ cycle \in {"apply", "update"} =>
       /\ \A e \in batch : memory.pull < e[2]
       /\ \A n \in Notes : memory.pull < cloudAt[n] =>
            <<n, cloudAt[n]>> \in batch \/ \A e \in batch : e[2] < cloudAt[n]
  /\ cycle = "update" => looked = local[Edit[1]]

\* What is sent is not newer than the store.
SentInv == cycle = "send" => \A b \in batch : b[2] <= local[b[1]]

NoteInv == OwnTimeInv /\ PulledInv /\ SentInv /\ NoEditSkipped

\* What EditsMoveForward says of a step.
Forward == \A n \in Notes : local'[n] >= local[n] /\ cloudAt'[n] >= cloudAt[n]

LEMMA NoteStart == ShipInit => NoteInv
  BY ShipAssumption
     DEF ShipInit, NoteInv, OwnTimeInv, IsTimeOf, PulledInv, SentInv, NoEditSkipped, NoMark, Times

\* A step that brings no new time for a record.
LEMMA TimesKept ==
  ASSUME ShipTypeInv, OwnTimeInv, UNCHANGED clock,
         \A n \in Notes, t \in Times : t # 0 /\ IsTimeOf(n, t)' => IsTimeOf(n, t),
         disk'.pull <= clock, memory'.pull <= clock
  PROVE  OwnTimeInv'
  <1>1. clock \in Nat /\ 0 <= clock
    BY DEF ShipTypeInv, ShipTypeOK, Times
  <1>2. \A n \in Notes, t \in Times : IsTimeOf(n, t)' => t <= clock'
    BY <1>1 DEF OwnTimeInv
  <1>3. \A m, n \in Notes, t \in Times : t # 0 /\ IsTimeOf(m, t)' /\ IsTimeOf(n, t)' => m = n
    BY DEF OwnTimeInv
  <1> QED BY <1>2, <1>3 DEF OwnTimeInv

\* A step that writes one record, at the next tick of the clock.
LEMMA TimeDrawn ==
  ASSUME ShipTypeInv, OwnTimeInv, NEW k \in Notes, clock' = clock + 1,
         UNCHANGED <<disk, memory>>,
         \A n \in Notes, t \in Times :
           IsTimeOf(n, t)' => IsTimeOf(n, t) \/ (n = k /\ t = clock + 1)
  PROVE  OwnTimeInv'
  <1>1. clock \in Nat /\ \A t \in Times : t <= clock => t <= clock + 1 /\ t # clock + 1
    BY DEF ShipTypeInv, ShipTypeOK, Times
  <1>2. \A n \in Notes, t \in Times : IsTimeOf(n, t)' => t <= clock'
    BY <1>1 DEF OwnTimeInv
  <1>3. \A m, n \in Notes, t \in Times : t # 0 /\ IsTimeOf(m, t)' /\ IsTimeOf(n, t)' => m = n
    BY <1>1 DEF OwnTimeInv
  <1>4. disk.pull \in Times /\ memory.pull \in Times
    BY DEF ShipTypeInv, ShipTypeOK, Marks
  <1> QED BY <1>1, <1>2, <1>3, <1>4 DEF OwnTimeInv

LEMMA LocalEditKeepsNotes ==
  ASSUME "pull" \notin ShipRaces, ShipTypeInv, NoteInv, NEW k \in Notes, LocalEdit(k)
  PROVE  NoteInv' /\ Forward
  <1> USE DEF ShipTypeInv, ShipTypeOK
  <1>1. /\ clock' = clock + 1 /\ local' = [local EXCEPT ![k] = clock + 1] /\ cycle # "update"
        /\ UNCHANGED <<cloudAt, disk, memory, cycle, batch, looked>>
    BY DEF LocalEdit
  <1>2. \A n \in Notes : local'[n] = IF n = k THEN clock + 1 ELSE local[n]
    BY <1>1
  <1>3. clock \in Nat /\ local \in [Notes -> Nat] /\ cloudAt \in [Notes -> Nat]
    BY DEF Times
  <1>4. \A n \in Notes : local[n] <= clock /\ cloudAt[n] <= clock
    BY DEF NoteInv, OwnTimeInv, IsTimeOf
  <1>5. \A n \in Notes : local[n] <= local'[n] /\ local'[n] \in Nat
    BY <1>2, <1>3, <1>4
  <1>6. OwnTimeInv'
    <2>1. \A n \in Notes, t \in Times :
             IsTimeOf(n, t)' => IsTimeOf(n, t) \/ (n = k /\ t = clock + 1)
      BY <1>1, <1>2 DEF IsTimeOf
    <2> QED BY <1>1, <2>1, TimeDrawn DEF NoteInv
  <1>7. PulledInv'
    BY <1>1 DEF NoteInv, PulledInv
  <1>8. SentInv'
    <2> SUFFICES ASSUME cycle = "send", NEW b \in batch PROVE b[2] <= local'[b[1]]
      BY <1>1 DEF SentInv
    <2>1. b[1] \in Notes /\ b[2] \in Nat /\ b[2] <= local[b[1]]
      BY DEF BatchInv, NoteInv, SentInv, Times
    <2> QED BY <1>3, <1>5, <2>1
  <1>9. NoEditSkipped'
    BY <1>1, <1>3, <1>5 DEF NoteInv, NoEditSkipped
  <1>10. Forward
    BY <1>1, <1>3, <1>5 DEF Forward
  <1> QED BY <1>6, <1>7, <1>8, <1>9, <1>10 DEF NoteInv

LEMMA CloudEditKeepsNotes ==
  ASSUME ShipTypeInv, NoteInv, NEW k \in Notes, CloudEdit(k)
  PROVE  NoteInv' /\ Forward
  <1> USE DEF ShipTypeInv, ShipTypeOK
  <1>1. /\ clock' = clock + 1 /\ cloudAt' = [cloudAt EXCEPT ![k] = clock + 1]
        /\ UNCHANGED <<local, disk, memory, cycle, batch, looked>>
    BY DEF CloudEdit
  <1>2. \A n \in Notes : cloudAt'[n] = IF n = k THEN clock + 1 ELSE cloudAt[n]
    BY <1>1
  <1>3. clock \in Nat /\ local \in [Notes -> Nat] /\ cloudAt \in [Notes -> Nat]
    BY DEF Times
  <1>4. \A n \in Notes : local[n] <= clock /\ cloudAt[n] <= clock
    BY DEF NoteInv, OwnTimeInv, IsTimeOf
  <1>5. \A t \in Nat : t <= clock => t < clock + 1
    BY <1>3
  <1>6. OwnTimeInv'
    <2>1. \A n \in Notes, t \in Times :
             IsTimeOf(n, t)' => IsTimeOf(n, t) \/ (n = k /\ t = clock + 1)
      BY <1>1, <1>2 DEF IsTimeOf
    <2> QED BY <1>1, <2>1, TimeDrawn DEF NoteInv
  <1>7. PulledInv'
    <2>e. Edit' = Edit
      BY <1>1 DEF Edit
    <2> SUFFICES ASSUME cycle \in {"apply", "update"}
                 PROVE  \A n \in Notes : memory.pull < cloudAt'[n] =>
                          <<n, cloudAt'[n]>> \in batch \/ \A e \in batch : e[2] < cloudAt'[n]
      BY <1>1, <2>e DEF NoteInv, PulledInv
    <2>1. \A e \in batch : e[2] < clock + 1
      <3> TAKE e \in batch
      <3>1. e[1] \in Notes /\ e[2] \in Times /\ e = <<e[1], e[2]>>
        BY DEF BatchInv
      <3>2. IsTimeOf(e[1], e[2])
        BY <3>1 DEF IsTimeOf
      <3> QED BY <1>5, <3>1, <3>2 DEF NoteInv, OwnTimeInv, Times
    <2> QED BY <1>2, <2>1 DEF NoteInv, PulledInv
  <1>8. SentInv'
    BY <1>1 DEF NoteInv, SentInv
  <1>9. NoEditSkipped'
    <2>1. \A m \in {disk, memory} : m.pull \in Nat /\ m.pull < clock + 1
      BY <1>5 DEF NoteInv, OwnTimeInv, Marks, Times
    <2> QED BY <1>1, <1>2, <1>3, <2>1 DEF NoteInv, NoEditSkipped
  <1>10. Forward
    BY <1>1, <1>2, <1>3, <1>4 DEF Forward
  <1> QED BY <1>6, <1>7, <1>8, <1>9, <1>10 DEF NoteInv

\* A step that leaves the records as they are, and saves or loads the marks.
LEMMA NotesAtRest ==
  ASSUME ShipTypeInv, NoteInv, UNCHANGED <<clock, local, cloudAt>>,
         {disk'.pull, memory'.pull} \subseteq {disk.pull, memory.pull, 0},
         cycle' \notin {"apply", "update", "send"}
  PROVE  NoteInv' /\ Forward
  <1> USE DEF ShipTypeInv, ShipTypeOK
  <1>1. /\ clock \in Nat /\ 0 <= clock
        /\ \A n \in Notes : local[n] \in Nat /\ cloudAt[n] \in Nat
    BY DEF Times
  <1>2. \A k \in {disk.pull, memory.pull, 0} :
           k <= clock /\ \A n \in Notes \ Dropped : cloudAt[n] <= k => local[n] >= cloudAt[n]
    BY <1>1 DEF NoteInv, OwnTimeInv, NoEditSkipped
  <1>3. \A n \in Notes, t \in Times : IsTimeOf(n, t)' => IsTimeOf(n, t)
    BY DEF IsTimeOf
  <1>4. OwnTimeInv'
    BY <1>2, <1>3, TimesKept DEF NoteInv
  <1>5. NoEditSkipped'
    BY <1>2 DEF NoEditSkipped
  <1>6. Forward
    BY <1>1 DEF Forward
  <1> QED BY <1>4, <1>5, <1>6 DEF NoteInv, PulledInv, SentInv

LEMMA PullKeepsNotes ==
  ASSUME ShipTypeInv, NoteInv, Pull
  PROVE  NoteInv' /\ Forward
  <1> USE DEF ShipTypeInv, ShipTypeOK
  <1>1. /\ UNCHANGED <<clock, local, cloudAt, disk, memory>> /\ cycle' = "apply"
        /\ IsOldest(batch', EditsBehind(memory.pull), PullLimit)
    BY DEF Pull, env
  <1>2. \A n \in Notes : local[n] \in Nat /\ cloudAt[n] \in Nat
    BY DEF Times
  <1>5. memory.pull \in Nat
    BY DEF Marks, Times
  <1>b. \A e \in batch' : e[1] \in Notes /\ e = <<e[1], cloudAt[e[1]]>> /\ memory.pull < e[2]
    BY <1>1, <1>2, <1>5 DEF IsOldest, EditsBehind
  <1>3. \A n \in Notes, t \in Times : IsTimeOf(n, t)' => IsTimeOf(n, t)
    BY <1>1, <1>b DEF IsTimeOf
  <1>4. OwnTimeInv'
    BY <1>1, <1>3, TimesKept DEF NoteInv, OwnTimeInv
  <1>6. ASSUME NEW n \in Notes, memory.pull < cloudAt[n], <<n, cloudAt[n]>> \notin batch',
               NEW e \in batch'
        PROVE  e[2] < cloudAt[n]
    <2>1. <<n, cloudAt[n]>> \in EditsBehind(memory.pull)
      BY <1>2, <1>5, <1>6 DEF EditsBehind
    <2>2. e[2] <= cloudAt[n]
      BY <1>1, <1>6, <2>1 DEF IsOldest
    <2>3. e[1] \in Notes /\ e[2] = cloudAt[e[1]] /\ e[2] \in Times /\ e[2] # 0
      BY <1>5, <1>6, <1>b DEF Times
    <2>4. ASSUME e[2] = cloudAt[n] PROVE FALSE
      <3>1. IsTimeOf(e[1], e[2]) /\ IsTimeOf(n, e[2])
        BY <2>3, <2>4 DEF IsTimeOf
      <3>2. e[1] = n
        BY <2>3, <3>1 DEF NoteInv, OwnTimeInv
      <3> QED BY <1>6, <1>b, <3>2
    <2> QED BY <1>2, <2>2, <2>3, <2>4 DEF Times
  <1>p. PulledInv'
    BY <1>1, <1>6, <1>b DEF PulledInv
  <1>7. NoEditSkipped' /\ Forward
    BY <1>1, <1>2 DEF NoteInv, NoEditSkipped, Forward
  <1> QED BY <1>1, <1>4, <1>7, <1>p DEF NoteInv, SentInv

LEMMA LookKeepsNotes ==
  ASSUME ShipTypeInv, NoteInv, ApplyLook
  PROVE  NoteInv' /\ Forward
  <1>1. /\ UNCHANGED <<clock, local, cloudAt, disk, memory, batch>>
        /\ cycle = "apply" /\ cycle' = "update" /\ looked' = local[Edit[1]]
    BY DEF ApplyLook, env
  <1>2. Edit' = Edit
    BY <1>1 DEF Edit
  <1>3. \A n \in Notes, t \in Times : IsTimeOf(n, t)' => IsTimeOf(n, t)
    BY <1>1 DEF IsTimeOf
  <1>4. OwnTimeInv'
    BY <1>1, <1>3, TimesKept DEF NoteInv, OwnTimeInv
  <1>5. PulledInv'
    BY <1>1, <1>2 DEF NoteInv, PulledInv
  <1>6. \A n \in Notes : local[n] \in Nat /\ cloudAt[n] \in Nat
    BY DEF Times, ShipTypeInv, ShipTypeOK
  <1>7. NoEditSkipped' /\ Forward
    BY <1>1, <1>6 DEF NoteInv, NoEditSkipped, Forward
  <1> QED BY <1>1, <1>4, <1>5, <1>7 DEF NoteInv, SentInv

\* The cursor moves to an edit that is applied or dropped.
LEMMA CursorKeepsNotes ==
  ASSUME ShipTypeInv, NoteInv, cycle \in {"apply", "update"}, cycle' = "apply",
         UNCHANGED <<clock, cloudAt, disk>>, batch # {}, batch' = batch \ {Edit},
         memory' = [memory EXCEPT !.pull = Edit[2]],
         \/ Edit[1] \in Dropped /\ local' = local
         \/ local' = IF Edit[2] <= local[Edit[1]] THEN local
                                                ELSE [local EXCEPT ![Edit[1]] = Edit[2]]
  PROVE  NoteInv' /\ Forward
  <1> USE DEF ShipTypeInv, ShipTypeOK
  <1>1. /\ UNCHANGED <<clock, cloudAt, disk>> /\ cycle \in {"apply", "update"}
        /\ cycle' = "apply" /\ batch # {} /\ batch' = batch \ {Edit}
        /\ memory' = [memory EXCEPT !.pull = Edit[2]]
    OBVIOUS
  <1>2. PICK k \in Notes, u \in Times : Edit = <<k, u>>
    BY <1>1, EditIs
  <1>3. Edit \in batch /\ \A f \in batch : u <= f[2]
    BY <1>1, <1>2, EditIs
  <1>4. /\ memory.pull < u /\ memory'.pull = u
        /\ \A n \in Notes : memory.pull < cloudAt[n] => <<n, cloudAt[n]>> \in batch \/ u < cloudAt[n]
    BY <1>1, <1>2, <1>3 DEF NoteInv, PulledInv, Marks
  <1>5. /\ clock \in Nat /\ u \in Nat /\ memory.pull \in Nat
        /\ \A n \in Notes : local[n] \in Nat /\ cloudAt[n] \in Nat
    BY DEF Times, Marks
  <1>6. \/ k \in Dropped /\ local' = local
        \/ local' = IF u <= local[k] THEN local ELSE [local EXCEPT ![k] = u]
    BY <1>2
  <1>7. /\ \A n \in Notes : local'[n] \in Nat /\ local[n] <= local'[n]
        /\ k \notin Dropped => u <= local'[k]
        /\ \A n \in Notes : local'[n] = local[n] \/ (n = k /\ local'[n] = u)
    BY <1>5, <1>6
  <1>8. IsTimeOf(k, u) /\ u # 0 /\ u <= clock
    <2>1. IsTimeOf(k, u)
      BY <1>1, <1>2, <1>3 DEF IsTimeOf
    <2> QED BY <1>4, <1>5, <2>1 DEF NoteInv, OwnTimeInv
  <1>9. OwnTimeInv'
    <2>1. \A n \in Notes, t \in Times : IsTimeOf(n, t)' => IsTimeOf(n, t)
      BY <1>1, <1>7, <1>8 DEF IsTimeOf
    <2> QED BY <1>1, <1>4, <1>8, <2>1, TimesKept DEF NoteInv, OwnTimeInv
  <1>10. ASSUME NEW e \in batch, e[2] = u PROVE e = Edit
    <2>1. e[1] \in Notes /\ e = <<e[1], u>>
      BY <1>1, <1>10 DEF BatchInv
    <2>2. IsTimeOf(e[1], u)
      BY <1>1, <2>1 DEF IsTimeOf
    <2>3. e[1] = k
      BY <1>8, <2>1, <2>2 DEF NoteInv, OwnTimeInv
    <2> QED BY <1>2, <2>1, <2>3
  <1>11. PulledInv'
    <2>1. ASSUME NEW e \in batch' PROVE u < e[2]
      <3>1. e \in batch /\ e # Edit /\ e[2] \in Nat
        BY <1>1, <2>1 DEF BatchInv, Times
      <3> QED BY <1>3, <1>5, <1>10, <3>1
    <2>2. ASSUME NEW n \in Notes, u < cloudAt[n]
          PROVE  <<n, cloudAt[n]>> \in batch' \/ \A e \in batch' : e[2] < cloudAt[n]
      <3>1. memory.pull < cloudAt[n]
        BY <1>4, <1>5, <2>2
      <3>2. <<n, cloudAt[n]>> \in batch \/ \A e \in batch : e[2] < cloudAt[n]
        BY <1>1, <3>1 DEF NoteInv, PulledInv
      <3>3. <<n, cloudAt[n]>> # Edit
        BY <1>2, <1>5, <2>2
      <3> QED BY <1>1, <3>2, <3>3
    <2> QED BY <1>1, <1>4, <2>1, <2>2 DEF PulledInv
  <1>12. ASSUME NEW n \in Notes \ Dropped, cloudAt[n] <= u PROVE local'[n] >= cloudAt[n]
    <2>1. CASE cloudAt[n] <= memory.pull
      BY <1>5, <1>7, <2>1 DEF NoteInv, NoEditSkipped
    <2>2. CASE memory.pull < cloudAt[n]
      <3>1. <<n, cloudAt[n]>> \in batch
        BY <1>4, <1>5, <1>12, <2>2
      <3>2. cloudAt[n] = u
        BY <1>3, <1>5, <1>12, <3>1
      <3>3. n = k
        BY <1>2, <1>10, <3>1, <3>2
      <3> QED BY <1>5, <1>7, <3>2, <3>3
    <2> QED BY <1>5, <2>1, <2>2
  <1>13. NoEditSkipped'
    <2>1. \A n \in Notes \ Dropped : cloudAt[n] <= disk.pull => local'[n] >= cloudAt[n]
      BY <1>5, <1>7 DEF NoteInv, NoEditSkipped
    <2> QED BY <1>1, <1>4, <1>12, <2>1 DEF NoEditSkipped
  <1>14. Forward
    BY <1>1, <1>5, <1>7 DEF Forward
  <1> QED BY <1>1, <1>9, <1>11, <1>13, <1>14 DEF NoteInv, SentInv

LEMMA UpdateKeepsNotes ==
  ASSUME ShipTypeInv, NoteInv, ApplyUpdate
  PROVE  NoteInv' /\ Forward
  <1>1. looked = local[Edit[1]] /\ batch # {}
    BY DEF ApplyUpdate, ShipTypeInv, BatchInv, NoteInv, PulledInv
  <1> QED BY <1>1, CursorKeepsNotes DEF ApplyUpdate, env

LEMMA DropKeepsNotes ==
  ASSUME ShipTypeInv, NoteInv, ApplyDrops
  PROVE  NoteInv' /\ Forward
  BY CursorKeepsNotes DEF ApplyDrops, env

LEMMA QueryKeepsNotes ==
  ASSUME ShipTypeInv, NoteInv, QueryNotes
  PROVE  NoteInv' /\ Forward
  <1> USE DEF ShipTypeInv, ShipTypeOK
  <1>1. /\ UNCHANGED <<clock, local, cloudAt, disk, memory>> /\ cycle' = "send"
        /\ batch' \subseteq AllNotes
    BY DEF QueryNotes, IsOldest, AllNotes, env
  <1>2. \A n \in Notes : local[n] \in Nat /\ cloudAt[n] \in Nat
    BY DEF Times
  <1>3. \A n \in Notes, t \in Times : <<n, t>> \in batch' => t = local[n]
    BY <1>1 DEF AllNotes
  <1>4. \A n \in Notes, t \in Times : IsTimeOf(n, t)' => IsTimeOf(n, t)
    BY <1>1, <1>3 DEF IsTimeOf
  <1>5. OwnTimeInv'
    BY <1>1, <1>4, TimesKept DEF NoteInv, OwnTimeInv
  <1>6. SentInv'
    BY <1>1, <1>2 DEF SentInv, AllNotes
  <1>7. NoEditSkipped' /\ Forward
    BY <1>1, <1>2 DEF NoteInv, NoEditSkipped, Forward
  <1> QED BY <1>1, <1>5, <1>6, <1>7 DEF NoteInv, PulledInv

\* The cloud takes what was sent, and none of it is newer than the store.
LEMMA SendKeepsNotes ==
  ASSUME ShipTypeInv, NoteInv, cycle = "send", NEW sent \in SUBSET batch,
         cloudAt' \in {cloudAt, Taken(sent)}, batch' \subseteq batch,
         UNCHANGED <<clock, local, disk, memory>>, cycle' \in {"send", "save"}
  PROVE  NoteInv' /\ Forward
  <1> USE DEF ShipTypeInv, ShipTypeOK
  <1>1. sent \in SUBSET (Notes \X Times)
    BY DEF BatchInv
  <1>2. \A n \in Notes : local[n] \in Nat /\ cloudAt[n] \in Nat
    BY DEF Times
  <1>3. \A n \in Notes :
           /\ cloudAt'[n] \in Times /\ cloudAt[n] <= cloudAt'[n]
           /\ cloudAt'[n] = cloudAt[n] \/ <<n, cloudAt'[n]>> \in batch
    <2> TAKE n \in Notes
    <2>1. CASE cloudAt' = cloudAt
      BY <1>2, <2>1
    <2>2. CASE cloudAt' = Taken(sent)
      <3>1. /\ Taken(sent) \in [Notes -> Times] /\ cloudAt[n] <= Taken(sent)[n]
            /\ Taken(sent)[n] = cloudAt[n] \/ <<n, Taken(sent)[n]>> \in sent
        BY <1>1, TakenIs
      <3>2. Taken(sent)[n] \in Times
        BY <3>1
      <3> QED BY <2>2, <3>1, <3>2
    <2> QED BY <2>1, <2>2
  <1>4. \A n \in Notes : cloudAt'[n] = cloudAt[n] \/ cloudAt'[n] <= local[n]
    BY <1>3 DEF NoteInv, SentInv
  <1>5. \A n \in Notes, t \in Times : IsTimeOf(n, t)' => IsTimeOf(n, t)
    BY <1>3 DEF IsTimeOf
  <1>6. OwnTimeInv'
    BY <1>5, TimesKept DEF NoteInv, OwnTimeInv
  <1>7. SentInv'
    BY DEF NoteInv, SentInv
  <1>8. NoEditSkipped'
    <2>1. ASSUME NEW n \in Notes \ Dropped, NEW m \in {disk, memory}, cloudAt'[n] <= m.pull
          PROVE  local[n] >= cloudAt'[n]
      <3>1. CASE cloudAt'[n] = cloudAt[n]
        BY <2>1, <3>1 DEF NoteInv, NoEditSkipped
      <3>2. CASE cloudAt'[n] <= local[n]
        BY <1>2, <1>3, <3>2 DEF Times
      <3> QED BY <1>4, <3>1, <3>2
    <2> QED BY <2>1 DEF NoEditSkipped
  <1>9. Forward
    <2>1. \A n \in Notes : cloudAt'[n] \in Nat /\ cloudAt'[n] >= cloudAt[n]
      <3> TAKE n \in Notes
      <3>1. cloudAt'[n] \in Times /\ cloudAt[n] <= cloudAt'[n]
        BY <1>3
      <3> QED BY <1>2, <3>1 DEF Times
    <2>2. \A n \in Notes : local'[n] >= local[n]
      BY <1>2
    <2> QED BY <2>1, <2>2 DEF Forward
  <1> QED BY <1>6, <1>7, <1>8, <1>9 DEF NoteInv, PulledInv

\* A step that moves neither records nor marks, outside the phases that hold
\* records.
LEMMA NotesUntouched ==
  ASSUME ShipTypeInv, NoteInv, UNCHANGED <<local, cloudAt, disk, memory>>,
         UNCHANGED <<cycle, batch, looked>>, clock' \in Nat, clock <= clock'
  PROVE  NoteInv' /\ Forward
  <1> USE DEF ShipTypeInv, ShipTypeOK
  <1>1. \A t \in Nat : t <= clock => t <= clock'
    BY DEF Times
  <1>2. \A n \in Notes, t \in Times : IsTimeOf(n, t)' <=> IsTimeOf(n, t)
    BY DEF IsTimeOf
  <1>3. disk.pull \in Nat /\ memory.pull \in Nat /\ Times \subseteq Nat
    BY ShipAssumption DEF Marks, Times
  <1>4. OwnTimeInv'
    BY <1>1, <1>2, <1>3 DEF NoteInv, OwnTimeInv
  <1>5. Edit' = Edit
    BY DEF Edit
  <1>6. PulledInv' /\ SentInv' /\ NoEditSkipped'
    BY <1>5 DEF NoteInv, PulledInv, SentInv, NoEditSkipped
  <1>7. Forward
    <2>1. \A n \in Notes : local[n] \in Nat /\ cloudAt[n] \in Nat
      BY DEF Times
    <2> QED BY <2>1 DEF Forward
  <1> QED BY <1>4, <1>6, <1>7 DEF NoteInv

LEMMA NoteStep ==
  ASSUME "pull" \notin ShipRaces, ShipTypeInv, NoteInv, [ShipNext]_shipVars
  PROVE  NoteInv' /\ Forward
  <1>t. clock \in Nat
    BY DEF ShipTypeInv, ShipTypeOK, Times
  <1>1. ASSUME NEW r \in Rows, DrawStamp(r) PROVE NoteInv' /\ Forward
    <2>1. clock' \in Nat /\ clock <= clock'
      BY <1>t, <1>1 DEF DrawStamp, NextStamp
    <2> QED BY <1>1, <2>1, NotesUntouched DEF DrawStamp
  <1>2. ASSUME NEW r \in Rows, CommitRow(r) PROVE NoteInv' /\ Forward
    BY <1>t, <1>2, NotesUntouched DEF CommitRow
  <1>3. ASSUME NEW n \in Notes, LocalEdit(n) \/ CloudEdit(n) PROVE NoteInv' /\ Forward
    BY <1>3, LocalEditKeepsNotes, CloudEditKeepsNotes
  <1>4. CASE Pull
    BY <1>4, PullKeepsNotes
  <1>5. CASE ApplyLook
    BY <1>5, LookKeepsNotes
  <1>6. CASE ApplyUpdate
    BY <1>6, UpdateKeepsNotes
  <1>7. CASE QueryNotes
    BY <1>7, QueryKeepsNotes
  <1>8. CASE SendNotes
    BY <1>8, SendKeepsNotes DEF SendNotes, env
  <1>9. CASE SendFails
    <2>1. ASSUME NEW sent \in SUBSET batch, cloudAt' \in {cloudAt, Taken(sent)}
          PROVE  NoteInv' /\ Forward
      BY <1>9, <2>1, SendKeepsNotes DEF SendFails, GoOn, env
    <2> QED BY <1>9, <2>1 DEF SendFails
  <1>10. CASE Begin
    BY <1>10, NotesAtRest DEF Begin, env
  <1>11. CASE ApplyEnds \/ PullFails \/ ApplyStops
    BY <1>11, NotesAtRest DEF ApplyEnds, PullFails, ApplyStops, GoOn, env
  <1>12. CASE QueryRows
    BY <1>12, NotesAtRest, QueryRowsIs DEF QueryRows, env
  <1>13. CASE PostRows
    <2>1. memory'.pull = memory.pull
      BY <1>13 DEF PostRows, ShipTypeInv, ShipTypeOK, Marks
    <2> QED BY <1>13, <2>1, NotesAtRest DEF PostRows, GoOn, env
  <1>14. CASE PostFails
    BY <1>14, NotesAtRest DEF PostFails, GoOn, env
  <1>15. CASE SendEnds \/ Save
    BY <1>15, NotesAtRest DEF SendEnds, Save, GoOn, env
  <1>16. CASE CycleDies
    BY <1>16, NotesAtRest DEF CycleDies, GoOn, env, NoMark
  <1>17. CASE UNCHANGED shipVars
    BY <1>t, <1>17, NotesUntouched DEF shipVars
  <1>18. CASE ApplyDrops
    BY <1>18, DropKeepsNotes
  <1> QED BY <1>1, <1>2, <1>3, <1>4, <1>5, <1>6, <1>7, <1>8, <1>9, <1>10, <1>11, <1>12, <1>13,
             <1>14, <1>15, <1>16, <1>17, <1>18
          DEF ShipNext, Progress, Trouble

LEMMA NotesHold ==
  ASSUME "pull" \notin ShipRaces
  PROVE  ShipSpec => [](ShipTypeInv /\ NoteInv)
  <1>1. ShipInit => ShipTypeInv /\ NoteInv
    BY ShipTypeStart, NoteStart
  <1>2. (ShipTypeInv /\ NoteInv) /\ [ShipNext]_shipVars => (ShipTypeInv /\ NoteInv)'
    BY ShipTypeStep, NoteStep
  <1> QED BY <1>1, <1>2, PTL DEF ShipSpec

\* Where no record is written between the look of a pull at it and the update, an
\* edit of the dashboard at or before the pull cursor is in the store or has been
\* overtaken there: whatever fails, and whatever records the store refuses.
THEOREM NoPulledEditLost ==
  ASSUME "pull" \notin ShipRaces
  PROVE  ShipSpec => []NoEditSkipped
  <1>1. ShipTypeInv /\ NoteInv => NoEditSkipped
    BY DEF NoteInv
  <1> QED BY <1>1, NotesHold, PTL

\* Under the same condition no step replaces a record by an older one, neither in
\* the store nor in the cloud.
THEOREM RecordsMoveForward ==
  ASSUME "pull" \notin ShipRaces
  PROVE  ShipSpec => EditsMoveForward
  <1>1. ShipTypeInv /\ NoteInv /\ [ShipNext]_shipVars => [Forward]_shipVars
    BY NoteStep
  <1>2. ShipSpec => [][Forward]_shipVars
    BY <1>1, NotesHold, PTL DEF ShipSpec
  <1> QED BY <1>2 DEF EditsMoveForward, Forward

-----------------------------------------------------------------------------
(* The cycles implement NewestWins *)

\* What is pulled is not newer than the cloud.
PulledBehind == cycle \in {"apply", "update"} => \A e \in batch : e[2] <= cloudAt[e[1]]

CopyInv == ShipTypeInv /\ NoteInv /\ PulledBehind

\* Steps that hold on to what was pulled, or hold nothing.
LEMMA PulledStep ==
  ASSUME "pull" \notin ShipRaces, CopyInv, [ShipNext]_shipVars
  PROVE  PulledBehind'
  <1> USE DEF ShipTypeInv, ShipTypeOK, CopyInv
  <1>0. ShipTypeInv' /\ Forward
    BY ShipTypeStep, NoteStep
  <1>1. \A n \in Notes : cloudAt[n] \in Nat /\ cloudAt'[n] \in Nat /\ cloudAt[n] <= cloudAt'[n]
    BY <1>0 DEF Forward, Times
  <1>2. CASE Pull
    <2>1. cloudAt' = cloudAt /\ batch' \subseteq EditsBehind(memory.pull)
      BY <1>2 DEF Pull, IsOldest
    <2> QED BY <1>1, <2>1 DEF PulledBehind, EditsBehind
  <1>3. ASSUME cycle \in {"apply", "update"}, batch' \subseteq batch PROVE PulledBehind'
    <2> SUFFICES ASSUME NEW e \in batch PROVE e[2] <= cloudAt'[e[1]]
      BY <1>3 DEF PulledBehind
    <2>1. e[1] \in Notes /\ e[2] \in Nat /\ e[2] <= cloudAt[e[1]]
      BY <1>3 DEF BatchInv, PulledBehind, Times
    <2> QED BY <1>1, <2>1
  <1>4. ASSUME cycle' \notin {"apply", "update"} PROVE PulledBehind'
    BY <1>4 DEF PulledBehind
  <1>5. CASE ApplyLook \/ ApplyUpdate \/ ApplyDrops
    <2>1. cycle \in {"apply", "update"} /\ batch' \subseteq batch
      BY <1>5 DEF ApplyLook, ApplyUpdate, ApplyDrops
    <2> QED BY <1>3, <2>1
  <1>6. CASE UNCHANGED <<cycle, batch>>
    BY <1>3, <1>4, <1>6
  <1>7. CASE \/ Begin \/ ApplyEnds \/ QueryRows \/ PostRows \/ QueryNotes \/ SendEnds
             \/ Save \/ PullFails \/ ApplyStops \/ PostFails \/ SendFails \/ CycleDies
    <2>1. cycle' \notin {"apply", "update"}
      BY <1>7 DEF Begin, ApplyEnds, QueryRows, PostRows, QueryNotes, SendEnds, Save, PullFails,
                 ApplyStops, PostFails, SendFails, CycleDies, GoOn
    <2> QED BY <1>4, <2>1
  <1>8. CASE SendNotes
    BY <1>4, <1>8 DEF SendNotes
  <1>9. ASSUME NEW r \in Rows, DrawStamp(r) \/ CommitRow(r) PROVE PulledBehind'
    BY <1>6, <1>9 DEF DrawStamp, CommitRow
  <1>10. ASSUME NEW n \in Notes, LocalEdit(n) \/ CloudEdit(n) PROVE PulledBehind'
    BY <1>6, <1>10 DEF LocalEdit, CloudEdit
  <1>11. CASE UNCHANGED shipVars
    BY <1>6, <1>11 DEF shipVars
  <1> QED BY <1>2, <1>5, <1>7, <1>8, <1>9, <1>10, <1>11 DEF ShipNext, Progress, Trouble

\* An edit that is applied brings the store up to what the cloud had.
LEMMA UpdateIsPull ==
  ASSUME CopyInv, ApplyUpdate
  PROVE  [Copies!Next]_<<clock, local, cloudAt>>
  <1> USE DEF CopyInv, ShipTypeInv, ShipTypeOK
  <1>1. /\ UNCHANGED <<clock, cloudAt>> /\ cycle = "update" /\ batch # {}
        /\ local' = IF Edit[2] <= looked THEN local ELSE [local EXCEPT ![Edit[1]] = Edit[2]]
    BY DEF ApplyUpdate, BatchInv, env
  <1>2. PICK k \in Notes, u \in Times : Edit = <<k, u>>
    BY <1>1, EditIs
  <1>3. Edit \in batch
    BY <1>1, <1>2, EditIs
  <1>4. looked = local[k] /\ u <= cloudAt[k]
    BY <1>1, <1>2, <1>3 DEF NoteInv, PulledInv, PulledBehind
  <1>5. u \in Nat /\ local[k] \in Nat /\ cloudAt[k] \in Nat
    BY DEF Times
  <1>6. CASE u <= local[k]
    BY <1>1, <1>2, <1>4, <1>6
  <1>7. CASE ~(u <= local[k])
    <2>1. local' = [local EXCEPT ![k] = u] /\ local'[k] = u
      BY <1>1, <1>2, <1>4, <1>7
    <2>2. local'[k] \in local[k] .. cloudAt[k]
      BY <1>4, <1>5, <1>7, <2>1
    <2>3. local' = [local EXCEPT ![k] = local'[k]]
      BY <2>1
    <2>4. Copies!Pull(k)
      BY <1>1, <2>2, <2>3 DEF Copies!Pull
    <2> QED BY <2>4 DEF Copies!Next
  <1> QED BY <1>6, <1>7

\* A batch that was taken brings the cloud up to what the store had.
LEMMA SendIsPush ==
  ASSUME CopyInv, cycle = "send", NEW sent \in SUBSET batch,
         cloudAt' \in {cloudAt, Taken(sent)}, UNCHANGED <<clock, local>>
  PROVE  [Copies!Next]_<<clock, local, cloudAt>>
  <1> USE DEF CopyInv, ShipTypeInv, ShipTypeOK
  <1>1. sent \in SUBSET (Notes \X Times)
    BY DEF BatchInv
  <1>2. \A n \in Notes : local[n] \in Nat /\ cloudAt[n] \in Nat
    BY DEF Times
  <1>3. CASE cloudAt' = cloudAt
    BY <1>3
  <1>4. CASE cloudAt' = Taken(sent)
    <2> DEFINE moved == {n \in Notes : cloudAt'[n] # cloudAt[n]}
    <2>1. cloudAt' \in [Notes -> Times]
      BY <1>1, <1>4, TakenIs DEF Taken
    <2>2. ASSUME NEW n \in moved PROVE cloudAt'[n] \in cloudAt[n] .. local[n]
      <3>1. n \in Notes /\ cloudAt[n] <= cloudAt'[n] /\ <<n, cloudAt'[n]>> \in batch
        BY <1>1, <1>4, <2>2, TakenIs
      <3>2. cloudAt'[n] <= local[n]
        BY <3>1 DEF NoteInv, SentInv
      <3>3. cloudAt'[n] \in Nat
        BY <2>1, <3>1 DEF Times
      <3> QED BY <1>2, <3>1, <3>2, <3>3
    <2>3. cloudAt' = [n \in Notes |-> IF n \in moved THEN cloudAt'[n] ELSE cloudAt[n]]
      BY <2>1
    <2>4. Copies!Push(moved)
      BY <2>2, <2>3 DEF Copies!Push
    <2> QED BY <2>4 DEF Copies!Next
  <1> QED BY <1>3, <1>4

LEMMA CopyStep ==
  ASSUME "pull" \notin ShipRaces, CopyInv, [ShipNext]_shipVars
  PROVE  [Copies!Next]_<<clock, local, cloudAt>>
  <1>t. clock \in Nat
    BY DEF CopyInv, ShipTypeInv, ShipTypeOK, Times
  <1>1. ASSUME NEW r \in Rows, DrawStamp(r) PROVE [Copies!Next]_<<clock, local, cloudAt>>
    <2>1. (clock' = clock \/ clock' = clock + 1) /\ UNCHANGED <<local, cloudAt>>
      BY <1>1 DEF DrawStamp, NextStamp
    <2>2. CASE clock' = clock + 1
      BY <1>t, <2>1, <2>2 DEF Copies!Next, Copies!Tick
    <2> QED BY <2>1, <2>2
  <1>2. ASSUME NEW n \in Notes, LocalEdit(n) PROVE Copies!Next
    BY <1>2 DEF LocalEdit, Copies!Next, Copies!EditLocal
  <1>3. ASSUME NEW n \in Notes, CloudEdit(n) PROVE Copies!Next
    BY <1>3 DEF CloudEdit, Copies!Next, Copies!EditCloud
  <1>4. CASE ApplyUpdate
    BY <1>4, UpdateIsPull
  <1>5. CASE SendNotes \/ SendFails
    <2>1. PICK sent \in SUBSET batch : cloudAt' \in {cloudAt, Taken(sent)}
      BY <1>5 DEF SendNotes, SendFails
    <2>2. cycle = "send" /\ UNCHANGED <<clock, local>>
      BY <1>5 DEF SendNotes, SendFails, env
    <2> QED BY <2>1, <2>2, SendIsPush
  <1>6. CASE \/ Begin \/ Pull \/ ApplyDrops \/ ApplyLook \/ ApplyEnds \/ QueryRows
             \/ PostRows \/ QueryNotes \/ SendEnds \/ Save
             \/ PullFails \/ ApplyStops \/ PostFails \/ CycleDies
    BY <1>6 DEF Begin, Pull, ApplyDrops, ApplyLook, ApplyEnds, QueryRows, PostRows,
               QueryNotes, SendEnds, Save, PullFails, ApplyStops, PostFails, CycleDies, env
  <1>7. ASSUME NEW r \in Rows, CommitRow(r) PROVE UNCHANGED <<clock, local, cloudAt>>
    BY <1>7 DEF CommitRow
  <1>8. CASE UNCHANGED shipVars
    BY <1>8 DEF shipVars
  <1> QED BY <1>1, <1>2, <1>3, <1>4, <1>5, <1>6, <1>7, <1>8 DEF ShipNext, Progress, Trouble

\* Under the same condition the cycles implement NewestWins: with edits on both
\* sides, lost calls, crashes and torn state files, a copy only ever moves up to
\* the version the other one has, so the newest version is never lost.
THEOREM CopiesImplementNewestWins ==
  ASSUME "pull" \notin ShipRaces
  PROVE  ShipSpec => NewestSurvives
  <1>1. ShipInit => CopyInv
    <2>1. ShipInit => PulledBehind
      BY DEF ShipInit, PulledBehind
    <2> QED BY <2>1, ShipTypeStart, NoteStart DEF CopyInv
  <1>2. CopyInv /\ [ShipNext]_shipVars => CopyInv'
    BY ShipTypeStep, NoteStep, PulledStep DEF CopyInv
  <1>3. CopyInv /\ [ShipNext]_shipVars => [Copies!Next]_<<clock, local, cloudAt>>
    BY CopyStep
  <1>4. ShipInit => Copies!Init
    BY DEF ShipInit, Copies!Init
  <1> QED BY <1>1, <1>2, <1>3, <1>4, PTL DEF ShipSpec, NewestSurvives, Copies!Spec

-----------------------------------------------------------------------------
(* DerivedArtifacts *)

(* What a page shows agrees with the label t when it is what the records are *)
(* now, or some record is newer than t; and no change is under way that      *)
(* could still commit without being newer than t.                            *)
Labelled(shown, t) ==
  /\ (\A i \in Things : ver[i] <= t) => shown = ViewNow
  /\ \A i \in Things : asked[i] # 0 => t < asked[i]

LabelInv ==
  /\ \A i \in Things : ver[i] <= ticks /\ asked[i] <= ticks
  /\ manifestOf.at <= ticks /\ \A d \in Refreshers : at[d] <= ticks
  /\ "page" \in sound /\ manifestOf.there => Labelled(page.shows, manifestOf.at)
  /\ "sheet" \in sound => artifact = "clinic"
  /\ "sheet" \in sound /\ manifestOf.there /\ (\A d \in Refreshers : doing[d] # "report")
       => Labelled(sheet.shows, manifestOf.at)
  /\ \A d \in Refreshers : doing[d] = "report" => artifact = "clinic"

(* What a refresher that nothing has spoilt holds: it is alone, a brief is   *)
(* stamped before anything can change, the other pages before they are       *)
(* loaded.                                                                   *)
HoldsInv ==
  \A d \in clean :
    /\ \A e \in Refreshers : e # d => doing[e] = "idle"
    /\ doing[d] = "report" => manifestOf.there /\ manifestOf.at = at[d]
    /\ doing[d] \in {"page", "manifest", "report"} => Labelled(seen[d], at[d])
    /\ doing[d] = "manifest" => "page" \in sound /\ page.shows = seen[d]
    /\ doing[d] = "load" /\ artifact # "brief" =>
         \A i \in Things : asked[i] # 0 => at[d] < asked[i]
    /\ doing[d] = "stamp" /\ artifact = "brief" => AllCommitted /\ seen[d] = ViewNow
    /\ \/ doing[d] \in {"page", "manifest", "report"}
       \/ doing[d] = "load" /\ artifact # "brief"
       => at[d] <= ticks /\ (manifestOf.there => manifestOf.at <= at[d])

ArtifactInv == ArtifactTypeOK /\ LabelInv /\ HoldsInv

-----------------------------------------------------------------------------

LEMMA TimesBound ==
  /\ \A n \in 0..MaxTicks : n < MaxTicks => n + 1 \in 0..MaxTicks
  /\ \A n \in 0..MaxMishaps : n > 0 => n - 1 \in 0..MaxMishaps
  /\ 0 \in 0..MaxTicks /\ MaxMishaps \in 0..MaxMishaps
  BY ArtifactAssumption

LEMMA DoneType ==
  ASSUME ArtifactTypeOK, NEW d \in Refreshers, Done(d)
  PROVE  /\ doing' \in [Refreshers -> {"idle", "stamp", "load", "page", "manifest", "report"}]
         /\ seen' \in [Refreshers -> Views]
         /\ cites' \in [Refreshers -> SUBSET Things]
         /\ at' \in [Refreshers -> 0..MaxTicks]
         /\ clean' \in SUBSET Refreshers
  <1>1. Blank \in Views
    BY TimesBound DEF Blank, Views
  <1> QED
    BY <1>1, TimesBound DEF ArtifactTypeOK, Done, Goes

LEMMA ArtifactTypeNext == ArtifactTypeOK /\ [ArtifactNext]_artifactVars => ArtifactTypeOK'
  <1> SUFFICES ASSUME ArtifactTypeOK, [ArtifactNext]_artifactVars PROVE ArtifactTypeOK'
    OBVIOUS
  <1> USE DEF refreshers, history, Writes
  <1>0. Blank \in Views /\ ViewNow \in Views
    BY TimesBound DEF Blank, Views, ViewNow, ArtifactTypeOK
  <1>1. ASSUME NEW i \in Things, StampChange(i) PROVE ArtifactTypeOK'
    <2>1. ticks + 1 \in 0..MaxTicks
      BY <1>1, TimesBound DEF StampChange, ArtifactTypeOK
    <2>2. asked' \in Views
      BY <1>1, <2>1 DEF StampChange, ArtifactTypeOK, Views
    <2> QED
      BY <1>1, <2>1, <2>2 DEF StampChange, ArtifactTypeOK
  <1>2. ASSUME NEW i \in Things, CommitChange(i) PROVE ArtifactTypeOK'
    <2>1. asked' \in Views /\ ver' \in Views
      BY <1>2, TimesBound DEF CommitChange, ArtifactTypeOK, Views
    <2> QED
      BY <1>2, <2>1 DEF CommitChange, ArtifactTypeOK
  <1>3. CASE ResetProject
    <2>1. asked' \in Views /\ ver' \in Views
      BY <1>0, <1>3, TimesBound DEF ResetProject, ArtifactTypeOK, Views
    <2> QED
      BY <1>3, <2>1 DEF ResetProject, ArtifactTypeOK
  <1>4. CASE WindowMoves
    BY <1>4 DEF WindowMoves, ArtifactTypeOK
  <1>5. ASSUME NEW d \in Refreshers, Refresh(d) \/ ForceRefresh(d) PROVE ArtifactTypeOK'
    BY <1>5 DEF Refresh, ForceRefresh, Starts, Goes, ArtifactTypeOK
  <1>6. ASSUME NEW d \in Refreshers, StampPage(d) PROVE ArtifactTypeOK'
    BY <1>6 DEF StampPage, Goes, ArtifactTypeOK
  <1>7. ASSUME NEW d \in Refreshers, LoadPage(d) PROVE ArtifactTypeOK'
    <2>1. cites' \in [Refreshers -> SUBSET Things]
      BY <1>7 DEF LoadPage, Citable, ActiveThings, ArtifactTypeOK
    <2> QED
      BY <1>0, <1>7, <2>1 DEF LoadPage, Goes, ArtifactTypeOK
  <1>8. ASSUME NEW d \in Refreshers, CopyPage(d) PROVE ArtifactTypeOK'
    <2>1. page' \in Pages
      BY <1>8 DEF CopyPage, Pages, ArtifactTypeOK
    <2> QED
      BY <1>8, <2>1 DEF CopyPage, Goes, ArtifactTypeOK
  <1>9. ASSUME NEW d \in Refreshers, CopyManifest(d) PROVE ArtifactTypeOK'
    <2>1. manifestOf' \in [there : BOOLEAN, at : 0..MaxTicks, ids : SUBSET Things]
      BY <1>9 DEF CopyManifest, ArtifactTypeOK
    <2>2. CASE artifact = "clinic"
      BY <1>9, <2>1, <2>2 DEF CopyManifest, Goes, ArtifactTypeOK
    <2>3. CASE artifact # "clinic"
      BY <1>9, <2>1, <2>3, DoneType DEF CopyManifest, ArtifactTypeOK
    <2> QED
      BY <2>2, <2>3
  <1>10. ASSUME NEW d \in Refreshers, CopyReport(d) PROVE ArtifactTypeOK'
    <2>1. sheet' \in Pages
      BY <1>10 DEF CopyReport, Pages, ArtifactTypeOK
    <2> QED
      BY <1>10, <2>1, DoneType DEF CopyReport, ArtifactTypeOK
  <1>11. ASSUME NEW d \in Refreshers, RefreshFails(d) PROVE ArtifactTypeOK'
    <2>1. page' \in Pages
      <3>1. [there |-> TRUE, shows |-> Blank] \in Pages
        BY <1>0 DEF Pages
      <3> QED
        BY <1>11, <3>1 DEF RefreshFails, ArtifactTypeOK
    <2> QED
      BY <1>11, <2>1, DoneType, TimesBound DEF RefreshFails, ArtifactTypeOK
  <1>12. CASE UNCHANGED artifactVars
    BY <1>12 DEF artifactVars, ArtifactTypeOK
  <1> QED
    BY <1>1, <1>2, <1>3, <1>4, <1>5, <1>6, <1>7, <1>8, <1>9, <1>10, <1>11, <1>12
       DEF ArtifactNext, RefreshStep

LEMMA ArtifactTypeInit == ArtifactInit => ArtifactTypeOK
  <1>1. Blank \in Views
    BY TimesBound DEF Blank, Views
  <1>2. NoPage \in Pages /\ NoLabel \in [there : BOOLEAN, at : 0..MaxTicks, ids : SUBSET Things]
    BY <1>1, TimesBound DEF NoPage, NoLabel, Pages
  <1> QED
    BY ZenonT(30), <1>1, <1>2, TimesBound DEF ArtifactInit, ArtifactTypeOK

(* Pages, manifests and what each refresher holds keep their types, whatever *)
(* races happen and however many refreshers there are.                       *)
THEOREM ArtifactType == ArtifactSpec => []ArtifactTypeOK
  BY ArtifactTypeInit, ArtifactTypeNext, PTL DEF ArtifactSpec

-----------------------------------------------------------------------------
(* What is offered is current *)

(* A step that changes no record leaves every label as good as it was. *)
LEMMA LabelledSame ==
  ASSUME UNCHANGED <<ver, asked, life>>
  PROVE  /\ ViewNow' = ViewNow /\ AllCommitted' = AllCommitted
         /\ \A shown, t : Labelled(shown, t)' <=> Labelled(shown, t)
  BY DEF ViewNow, ActiveThings, AllCommitted, Labelled

LEMMA StampChangeKeeps ==
  ASSUME ArtifactInv, ArtifactTypeOK', NEW i \in Things, StampChange(i)
  PROVE  LabelInv' /\ HoldsInv'
  <1> USE DEF ArtifactInv
  <1>1. /\ ticks' = ticks + 1 /\ ticks \in Nat /\ ticks < ticks + 1 /\ ticks <= ticks
        /\ \A n \in Nat : n <= ticks => n < ticks + 1 /\ n <= ticks + 1
    BY DEF StampChange, ArtifactTypeOK
  <1>2. /\ asked' = [asked EXCEPT ![i] = ticks + 1]
        /\ clean' \subseteq clean
        /\ UNCHANGED <<artifact, ver, life, page, manifestOf, sheet, old, doing, seen, cites, at, sound>>
    BY DEF StampChange, refreshers
  <1>3. ViewNow' = ViewNow
    BY <1>2 DEF ViewNow, ActiveThings
  <1>4. /\ \A j \in Things : ver[j] \in Nat /\ asked[j] \in Nat
        /\ manifestOf.at \in Nat /\ \A d \in Refreshers : at[d] \in Nat
        /\ clean \subseteq Refreshers
    BY ArtifactAssumption DEF ArtifactTypeOK, Views
  <1>5. \A t \in Nat : t <= ticks /\ (\A j \in Things : asked[j] # 0 => t < asked[j])
                       => \A j \in Things : asked'[j] # 0 => t < asked'[j]
    <2>1. \A j \in Things : asked'[j] = IF j = i THEN ticks + 1 ELSE asked[j]
      BY <1>2 DEF ArtifactTypeOK, Views
    <2> QED
      BY <1>1, <2>1
  <1>6. \A shown : \A t \in Nat : t <= ticks /\ Labelled(shown, t) => Labelled(shown, t)'
    BY <1>2, <1>3, <1>5 DEF Labelled
  <1>7. \A d \in clean' : artifact = "brief" => doing[d] # "stamp"
    BY DEF StampChange
  <1>8. LabelInv'
    <2>1. \A j \in Things : ver'[j] <= ticks' /\ asked'[j] <= ticks'
      <3>1. ticks + 1 <= ticks + 1
        BY <1>1
      <3>2. \A j \in Things : asked'[j] = IF j = i THEN ticks + 1 ELSE asked[j]
        BY <1>2 DEF ArtifactTypeOK, Views
      <3> QED
        BY <1>1, <1>2, <1>4, <3>1, <3>2 DEF LabelInv
    <2> QED
      BY <1>1, <1>2, <1>4, <1>6, <2>1 DEF LabelInv
  <1>9. HoldsInv'
    BY <1>1, <1>2, <1>4, <1>5, <1>6, <1>7 DEF HoldsInv
  <1> QED
    BY <1>8, <1>9

LEMMA CommitChangeKeeps ==
  ASSUME ArtifactInv, ArtifactTypeOK', NEW i \in Things, CommitChange(i)
  PROVE  LabelInv' /\ HoldsInv'
  <1> USE DEF ArtifactInv
  <1>1. /\ asked[i] # 0
        /\ UNCHANGED <<artifact, ticks, page, manifestOf, sheet, old, doing, seen, cites, at,
                       clean, sound>>
        /\ ~AllCommitted
    BY DEF CommitChange, refreshers, history, AllCommitted, Blank
  <1>2. \A j \in Things : /\ asked'[j] = IF j = i THEN 0 ELSE asked[j]
                          /\ ver'[j] = IF j = i THEN asked[i] ELSE ver[j]
    BY DEF CommitChange, ArtifactTypeOK, Views
  <1>3. /\ manifestOf.at \in Nat /\ \A d \in clean : at[d] \in Nat
        /\ asked[i] \in Nat /\ 0 <= ticks
    BY ArtifactAssumption DEF ArtifactTypeOK, Views
  <1>4. \A shown : \A t \in Nat : Labelled(shown, t) => Labelled(shown, t)'
    <2>1. SUFFICES ASSUME NEW shown, NEW t \in Nat, Labelled(shown, t) PROVE Labelled(shown, t)'
      OBVIOUS
    <2>2. t < asked[i] /\ ver'[i] = asked[i]
      BY <1>1, <1>2, <2>1 DEF Labelled
    <2>3. ~(ver'[i] <= t)
      BY <1>3, <2>2
    <2> QED
      BY <1>2, <2>1, <2>3 DEF Labelled
  <1>5. LabelInv'
    BY <1>1, <1>2, <1>3, <1>4 DEF LabelInv
  <1>6. HoldsInv'
    BY <1>1, <1>2, <1>3, <1>4 DEF HoldsInv
  <1> QED
    BY <1>5, <1>6

LEMMA ResetProjectKeeps ==
  ASSUME ArtifactInv, ArtifactTypeOK', ResetProject
  PROVE  LabelInv' /\ HoldsInv'
  <1> USE DEF ArtifactInv
  <1>1. /\ clean' = {} /\ sound' = {}
        /\ UNCHANGED <<artifact, ticks, page, manifestOf, sheet, old, doing, seen, cites, at>>
    BY DEF ResetProject, refreshers
  <1>2. \A i \in Things : ver'[i] = 0 /\ asked'[i] \in {0, asked[i]}
    BY DEF ResetProject, Blank
  <1>3. 0 <= ticks
    BY DEF ArtifactTypeOK
  <1>4. LabelInv'
    BY <1>1, <1>2, <1>3 DEF LabelInv
  <1>5. HoldsInv'
    BY <1>1 DEF HoldsInv
  <1> QED
    BY <1>4, <1>5

(* A refresher that nothing has spoilt is the only one under way. *)
LEMMA RefresherKeeps ==
  ASSUME ArtifactInv, ArtifactTypeOK', NEW d \in Refreshers,
         RefreshStep(d) \/ ForceRefresh(d) \/ RefreshFails(d)
  PROVE  LabelInv' /\ HoldsInv'
  <1> USE DEF ArtifactInv
  <1>2. UNCHANGED <<artifact, ticks, asked, ver, life>>
    BY DEF RefreshStep, ForceRefresh, RefreshFails, Refresh, Starts, StampPage, LoadPage,
           CopyPage, CopyManifest, CopyReport
  <1>3. /\ ViewNow' = ViewNow /\ AllCommitted' = AllCommitted
        /\ \A shown, t : Labelled(shown, t)' <=> Labelled(shown, t)
    BY <1>2, LabelledSame
  <1>4. /\ \A i \in Things : ver[i] \in Nat /\ asked[i] \in Nat
        /\ manifestOf.at \in Nat /\ at[d] \in Nat /\ ticks \in Nat /\ ticks <= ticks /\ 0 <= ticks
        /\ clean \subseteq Refreshers
    BY ArtifactAssumption DEF ArtifactTypeOK, Views
  <1>a. doing[d] # "idle" => clean \subseteq {d}
    BY <1>4 DEF HoldsInv
  <1>5. CASE Refresh(d) \/ ForceRefresh(d)
    <2>1. /\ UNCHANGED <<page, manifestOf, sheet, seen, at, sound>>
          /\ doing[d] = "idle" /\ doing'[d] = IF artifact = "brief" THEN "load" ELSE "stamp"
          /\ \A e \in Refreshers : e # d => doing'[e] = doing[e]
          /\ clean' = IF \A e \in Refreshers : doing[e] = "idle" THEN {d} ELSE {}
      BY <1>5 DEF Refresh, ForceRefresh, Starts, Goes, ArtifactTypeOK
    <2>2. LabelInv'
      BY <1>2, <1>3, <1>4, <2>1 DEF LabelInv
    <2>3. HoldsInv'
      BY <1>2, <1>3, <2>1 DEF HoldsInv
    <2> QED
      BY <2>2, <2>3
  <1>6. CASE StampPage(d)
    <2>1. /\ UNCHANGED <<page, manifestOf, sheet, seen, sound>>
          /\ doing[d] = "stamp" /\ doing'[d] = IF artifact = "brief" THEN "page" ELSE "load"
          /\ \A e \in Refreshers : e # d => doing'[e] = doing[e]
          /\ at'[d] = ticks /\ \A e \in Refreshers : e # d => at'[e] = at[e]
          /\ clean' = IF AllCommitted THEN clean ELSE clean \ {d}
      BY <1>6 DEF StampPage, Goes, ArtifactTypeOK
    <2>2. d \in clean' => \A i \in Things : asked[i] = 0
      BY <2>1 DEF AllCommitted, Blank
    <2>3. d \in clean' /\ artifact = "brief" => Labelled(seen[d], ticks)
      BY <2>1, <2>2 DEF HoldsInv, Labelled
    <2>4. LabelInv'
      BY <1>2, <1>3, <1>4, <2>1 DEF LabelInv
    <2>5. HoldsInv'
      BY <1>2, <1>3, <1>4, <1>a, <2>1, <2>2, <2>3 DEF HoldsInv, LabelInv
    <2> QED
      BY <2>4, <2>5
  <1>7. CASE LoadPage(d)
    <2>1. /\ UNCHANGED <<page, manifestOf, sheet, at, sound>>
          /\ doing[d] = "load" /\ doing'[d] = IF artifact = "brief" THEN "stamp" ELSE "page"
          /\ \A e \in Refreshers : e # d => doing'[e] = doing[e]
          /\ seen'[d] = ViewNow
          /\ clean' = IF artifact = "brief" /\ ~AllCommitted THEN clean \ {d} ELSE clean
      BY <1>7 DEF LoadPage, Goes, ArtifactTypeOK
    <2>2. d \in clean /\ artifact # "brief" => Labelled(ViewNow, at[d])
      BY <2>1 DEF HoldsInv, Labelled
    <2>3. LabelInv'
      BY <1>2, <1>3, <1>4, <2>1 DEF LabelInv
    <2>4. HoldsInv'
      BY <1>2, <1>3, <1>a, <2>1, <2>2 DEF HoldsInv
    <2> QED
      BY <2>3, <2>4
  <1>8. CASE CopyPage(d)
    <2>1. /\ UNCHANGED <<manifestOf, sheet, seen, at, clean>>
          /\ doing[d] = "page" /\ doing'[d] = "manifest"
          /\ \A e \in Refreshers : e # d => doing'[e] = doing[e]
          /\ page'.shows = seen[d]
          /\ sound' = IF d \in clean THEN sound \union {"page"} ELSE sound \ {"page"}
      BY <1>8 DEF CopyPage, Goes, Writes, ArtifactTypeOK
    <2>2. d \in clean => /\ Labelled(seen[d], at[d]) /\ at[d] <= ticks
                         /\ manifestOf.there => manifestOf.at <= at[d]
      BY <2>1 DEF HoldsInv
    <2>3. d \in clean /\ manifestOf.there => Labelled(seen[d], manifestOf.at)
      <3> SUFFICES ASSUME d \in clean, manifestOf.there PROVE Labelled(seen[d], manifestOf.at)
        OBVIOUS
      <3>1. Labelled(seen[d], at[d]) /\ manifestOf.at <= at[d]
        BY <2>2
      <3>2. \A i \in Things : ver[i] <= manifestOf.at => ver[i] <= at[d]
        BY <1>4, <3>1
      <3>3. \A i \in Things : asked[i] # 0 => manifestOf.at < asked[i]
        BY <1>4, <3>1 DEF Labelled
      <3> QED
        BY <3>1, <3>2, <3>3 DEF Labelled
    <2>4. LabelInv'
      BY <1>2, <1>3, <2>1, <2>3 DEF LabelInv
    <2>5. HoldsInv'
      BY <1>2, <1>3, <1>a, <2>1, <2>2 DEF HoldsInv
    <2> QED
      BY <2>4, <2>5
  <1>9. CASE CopyManifest(d)
    <2>1. /\ UNCHANGED <<page, sheet>> /\ doing[d] = "manifest"
          /\ manifestOf'.there /\ manifestOf'.at = at[d]
          /\ \A e \in Refreshers : e # d => doing'[e] = doing[e]
          /\ sound' = IF d \in clean THEN sound ELSE {}
          /\ artifact = "clinic" => doing'[d] = "report" /\ seen'[d] = seen[d] /\ at'[d] = at[d]
                                     /\ clean' = clean
          /\ artifact # "clinic" => doing'[d] = "idle" /\ clean' = clean \ {d}
          /\ \A e \in Refreshers : at'[e] \in {0, at[e]}
      BY <1>9 DEF CopyManifest, Goes, Done, ArtifactTypeOK
    <2>2. d \in clean => /\ Labelled(seen[d], at[d]) /\ at[d] <= ticks
                         /\ page.shows = seen[d]
      BY <2>1 DEF HoldsInv
    <2>3. at[d] <= ticks
      BY DEF LabelInv
    <2>4. LabelInv'
      BY <1>2, <1>3, <1>4, <2>1, <2>2, <2>3 DEF LabelInv
    <2>5. HoldsInv'
      BY <1>2, <1>3, <1>4, <1>a, <2>1, <2>2 DEF HoldsInv
    <2> QED
      BY <2>4, <2>5
  <1>10. CASE CopyReport(d)
    <2>1. /\ UNCHANGED <<page, manifestOf>> /\ doing[d] = "report" /\ doing'[d] = "idle"
          /\ \A e \in Refreshers : e # d => doing'[e] = doing[e]
          /\ sheet'.shows = seen[d] /\ clean' = clean \ {d}
          /\ \A e \in Refreshers : at'[e] \in {0, at[e]}
          /\ sound' = IF d \in clean THEN sound \union {"sheet"} ELSE sound \ {"sheet"}
      BY <1>10 DEF CopyReport, Goes, Done, Writes, ArtifactTypeOK
    <2>2. d \in clean => /\ Labelled(seen[d], at[d])
                         /\ manifestOf.there /\ manifestOf.at = at[d]
      BY <2>1 DEF HoldsInv
    <2>3. LabelInv'
      BY <1>2, <1>3, <1>4, <2>1, <2>2 DEF LabelInv
    <2>4. HoldsInv'
      BY <1>a, <2>1 DEF HoldsInv
    <2> QED
      BY <2>3, <2>4
  <1>11. CASE RefreshFails(d)
    <2>1. /\ UNCHANGED <<manifestOf, sheet>> /\ doing[d] # "idle" /\ doing'[d] = "idle"
          /\ \A e \in Refreshers : e # d => doing'[e] = doing[e]
          /\ clean' = clean \ {d} /\ sound' \subseteq sound
          /\ \A e \in Refreshers : at'[e] \in {0, at[e]}
          /\ "page" \in sound' => page' = page
          /\ doing[d] = "report" => "sheet" \notin sound'
      BY <1>11 DEF RefreshFails, Goes, Done, ArtifactTypeOK
    <2>2. LabelInv'
      BY <1>2, <1>3, <1>4, <2>1 DEF LabelInv
    <2>3. HoldsInv'
      BY <1>a, <2>1 DEF HoldsInv
    <2> QED
      BY <2>2, <2>3
  <1> QED
    BY <1>5, <1>6, <1>7, <1>8, <1>9, <1>10, <1>11 DEF RefreshStep

LEMMA ArtifactInvNext == ArtifactInv /\ [ArtifactNext]_artifactVars => ArtifactInv'
  <1> SUFFICES ASSUME ArtifactInv, [ArtifactNext]_artifactVars PROVE ArtifactInv'
    OBVIOUS
  <1>1. ArtifactTypeOK'
    BY ArtifactTypeNext DEF ArtifactInv
  <1>2. CASE WindowMoves \/ UNCHANGED artifactVars
    <2>1. UNCHANGED <<artifact, ticks, asked, ver, life, page, manifestOf, sheet, doing, seen, cites, at,
                   clean, sound>>
      BY <1>2 DEF WindowMoves, artifactVars, refreshers, history
    <2> QED
      BY <1>1, <2>1, LabelledSame DEF ArtifactInv, LabelInv, HoldsInv
  <1> QED
    BY <1>1, <1>2, StampChangeKeeps, CommitChangeKeeps, ResetProjectKeeps, RefresherKeeps
       DEF ArtifactNext, ArtifactInv

(* A page that is offered as up to date shows the active records as they are *)
(* now, with any number of refreshers, in every race and wherever a refresh  *)
(* broke off, unless the refresh that wrote it, or its manifest, was spoilt: *)
(* generated_at is taken when every change stamped before it is committed,   *)
(* so a manifest that no record is newer than vouches for the page beside    *)
(* it, be it of a later refresh.                                             *)
THEOREM OfferedIsCurrent == ArtifactSpec => []AvailableIsCurrent
  <1>1. ArtifactInit => LabelInv /\ HoldsInv
    <2> SUFFICES ASSUME ArtifactInit PROVE LabelInv /\ HoldsInv
      OBVIOUS
    <2>1. \A i \in Things : ver[i] = 0 /\ asked[i] = 0
      BY DEF ArtifactInit, Blank
    <2>2. manifestOf.at = 0 /\ ticks = 0 /\ sound = {} /\ clean = {}
      BY DEF ArtifactInit, NoLabel
    <2>3. \A d \in Refreshers : doing[d] = "idle" /\ at[d] = 0
      BY DEF ArtifactInit
    <2> QED
      BY <2>1, <2>2, <2>3 DEF LabelInv, HoldsInv
  <1>2. ArtifactInv => AvailableIsCurrent
    <2> SUFFICES ASSUME ArtifactInv, Available, \A d \in Refreshers : doing[d] # "report"
                 PROVE  /\ "page" \in sound => page.shows = ViewNow
                        /\ "sheet" \in sound => sheet.shows = ViewNow
      BY DEF AvailableIsCurrent
    <2>1. manifestOf.there /\ \A i \in Things : ~(ver[i] > manifestOf.at)
      BY DEF Available, Changed
    <2>2. \A i \in Things : ver[i] <= manifestOf.at
      BY <2>1, ArtifactAssumption DEF ArtifactInv, ArtifactTypeOK, Views
    <2> QED
      BY <2>1, <2>2 DEF ArtifactInv, LabelInv, Labelled
  <1> QED
    BY <1>1, <1>2, ArtifactTypeInit, ArtifactInvNext, PTL DEF ArtifactSpec, ArtifactInv

-----------------------------------------------------------------------------
(* ContextGraph *)

(* A pass asks only about pairs of records it has loaded. *)
PairsInWindow ==
  \A p \in GraphPasses :
    /\ stageOf[p] # "model" => pairs[p] = {}
    /\ \A q \in pairs[p] : q \subseteq window[p]

GraphInv == GraphTypeOK /\ EdgesJoinNodes /\ PairsInWindow

-----------------------------------------------------------------------------

LEMMA GraphInitial == GraphInit => GraphInv
  BY DEF GraphInit, GraphInv, GraphTypeOK, EdgesJoinNodes, PairsInWindow

LEMMA GraphTypeNext == GraphTypeOK /\ [GraphNext]_graphVars => GraphTypeOK'
  <1> SUFFICES ASSUME GraphTypeOK, [GraphNext]_graphVars PROVE GraphTypeOK'
    OBVIOUS
  <1> USE DEF GraphTypeOK
  <1>1. ASSUME NEW f \in Facts, FactAppears(f) PROVE GraphTypeOK'
    BY <1>1 DEF FactAppears
  <1>2. ASSUME NEW f \in Facts, FactRetires(f) PROVE GraphTypeOK'
    BY <1>2 DEF FactRetires
  <1>3. CASE GraphReset
    BY <1>3 DEF GraphReset
  <1>4. ASSUME NEW p \in GraphPasses, GraphLoad(p) PROVE GraphTypeOK'
    <2>1. \E W \in SUBSET Facts : window' = [window EXCEPT ![p] = W]
      BY <1>4 DEF GraphLoad
    <2> QED
      BY <1>4, <2>1 DEF GraphLoad
  <1>5. ASSUME NEW p \in GraphPasses, GraphPair(p) PROVE GraphTypeOK'
    <2>1. \E found \in SUBSET Pairs : pairs' = [pairs EXCEPT ![p] = found]
      BY <1>5 DEF GraphPair
    <2> QED
      BY <1>5, <2>1 DEF GraphPair
  <1>6. ASSUME NEW p \in GraphPasses, GraphWrite(p) PROVE GraphTypeOK'
    <2>1. edges' \subseteq Links /\ nodes' \subseteq Facts
      BY <1>6 DEF GraphWrite, Allowed, Backed
    <2> QED
      BY <1>6, <2>1 DEF GraphWrite, Forgets
  <1>7. ASSUME NEW p \in GraphPasses, GraphFails(p) PROVE GraphTypeOK'
    BY <1>7 DEF GraphFails, Forgets
  <1>8. CASE UNCHANGED graphVars
    BY <1>8 DEF graphVars
  <1> QED
    BY <1>1, <1>2, <1>3, <1>4, <1>5, <1>6, <1>7, <1>8 DEF GraphNext

LEMMA GraphInvNext == GraphInv /\ [GraphNext]_graphVars => GraphInv'
  <1> SUFFICES ASSUME GraphInv, [GraphNext]_graphVars PROVE GraphInv'
    OBVIOUS
  <1>0. GraphTypeOK'
    BY GraphTypeNext DEF GraphInv
  <1> USE DEF GraphInv, GraphTypeOK, EdgesJoinNodes, PairsInWindow
  <1>1. ASSUME NEW f \in Facts, FactAppears(f) PROVE GraphInv'
    BY <1>0, <1>1 DEF FactAppears
  <1>2. ASSUME NEW f \in Facts, FactRetires(f) PROVE GraphInv'
    BY <1>0, <1>2 DEF FactRetires
  <1>3. CASE GraphReset
    BY <1>0, <1>3 DEF GraphReset
  <1>4. ASSUME NEW p \in GraphPasses, GraphLoad(p) PROVE GraphInv'
    <2>1. \E W \in SUBSET Facts : window' = [window EXCEPT ![p] = W]
      BY <1>4 DEF GraphLoad
    <2> QED
      BY <1>0, <1>4, <2>1 DEF GraphLoad
  <1>5. ASSUME NEW p \in GraphPasses, GraphPair(p) PROVE GraphInv'
    <2>1. \E found \in SUBSET {q \in Pairs : q \subseteq window[p]} :
             pairs' = [pairs EXCEPT ![p] = found]
      BY <1>5 DEF GraphPair
    <2> QED
      BY <1>0, <1>5, <2>1 DEF GraphPair
  <1>6. ASSUME NEW p \in GraphPasses, GraphWrite(p) PROVE GraphInv'
    <2>1. \A e \in Allowed(p) : e[1] \in window[p] /\ e[2] \in window[p]
      BY DEF Allowed
    <2>2. \A e \in Backed(edges) : e[1] \in nodes \intersect current /\ e[2] \in nodes \intersect current
      BY DEF Backed
    <2>3. EdgesJoinNodes'
      BY <1>6, <2>1, <2>2 DEF GraphWrite
    <2>4. PairsInWindow'
      BY <1>6 DEF GraphWrite, Forgets
    <2> QED
      BY <1>0, <2>3, <2>4
  <1>7. ASSUME NEW p \in GraphPasses, GraphFails(p) PROVE GraphInv'
    BY <1>0, <1>7 DEF GraphFails, Forgets
  <1>8. CASE UNCHANGED graphVars
    BY <1>0, <1>8 DEF graphVars
  <1> QED
    BY <1>1, <1>2, <1>3, <1>4, <1>5, <1>6, <1>7, <1>8 DEF GraphNext

(* Types hold with any number of passes. *)
THEOREM GraphTypeCorrect == GraphSpec => []GraphTypeOK
  <1>1. GraphInit => GraphTypeOK
    BY GraphInitial DEF GraphInv
  <1>2. GraphTypeOK /\ [GraphNext]_graphVars => GraphTypeOK'
    BY GraphTypeNext
  <1> QED
    BY <1>1, <1>2, PTL DEF GraphSpec

(* An active edge joins two active nodes, whatever is retired or reset while *)
(* passes are under way, and however many there are.                         *)
THEOREM EdgesJoined == GraphSpec => []EdgesJoinNodes
  <1>1. GraphInit => GraphInv
    BY GraphInitial
  <1>2. GraphInv /\ [GraphNext]_graphVars => GraphInv'
    BY GraphInvNext
  <1>3. GraphInv => EdgesJoinNodes
    BY DEF GraphInv
  <1> QED
    BY <1>1, <1>2, <1>3, PTL DEF GraphSpec
=============================================================================
