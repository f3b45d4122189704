------------------------ MODULE ReplayRingRefinement ------------------------
(***************************************************************************)
(* The ring implements the bounded first-in first-out store, for every     *)
(* size and every set of records: each step of either thread is a step of  *)
(* RecordStore on Unsettled, or none.                                      *)
(*                                                                         *)
(* A record enters Unsettled with the test for room and leaves it with the *)
(* redis SET or an error; in between it moves from Coming to the ring to   *)
(* Taken, and the sequence as a whole does not change.                     *)
(***************************************************************************)
EXTENDS ReplayRingProofs

Cell == Records \cup {NoData}

\* The slots of the ring, from tail on, are those InRing says.
LEMMA RingSlots ==
  ASSUME head \in Slots, tail \in Slots
  PROVE  /\ RingSize \in 0 .. MAX_SMSG - 1
         /\ \A i \in 1 .. RingSize : SlotAt(i) \in Slots /\ InRing(SlotAt(i))
         /\ tail # head => RingSize >= 1 /\ SlotAt(1) = tail
         /\ NextSlot(head) = tail <=> RingSize = MAX_SMSG - 1
BY RingAssumption DEF Slots, RingSize, SlotAt, InRing, NextSlot

\* What the three parts of the store's queue are made of.
Parts ==
  /\ RingContents \in Seq(Cell) /\ Len(RingContents) = RingSize
  /\ \A i \in 1 .. RingSize : RingContents[i] = key[SlotAt(i)]
  /\ Taken \in Seq(Cell) /\ Len(Taken) \in 0 .. 1
  /\ Coming \in Seq(Cell) /\ Len(Coming) \in 0 .. 1

LEMMA PartsAreSequences == TypeOK => Parts
<1> SUFFICES ASSUME TypeOK PROVE Parts
  OBVIOUS
<1>1. RingSize \in Nat /\ \A i \in 1 .. RingSize : key[SlotAt(i)] \in Cell
  BY RingSlots, RingAssumption DEF TypeOK, Cell
<1>2. RingContents \in [1 .. RingSize -> Cell]
  BY <1>1 DEF RingContents
<1>3. RingContents \in Seq(Cell)
  BY <1>1, <1>2, SeqDef
<1>4. Len(RingContents) = RingSize
  BY <1>1, <1>2, <1>3
<1>5. curKey \in Cell /\ arg \in Cell
  BY DEF TypeOK, Cell
<1>. QED
  BY <1>1, <1>2, <1>3, <1>4, <1>5 DEF Taken, Coming, RingContents, Parts

LEMMA PartsStaySequences == TypeOK' => Parts'
BY PartsAreSequences, PTL

\* Nothing moves in the store while its three parts stay.
LEMMA SameParts ==
  ASSUME Taken' = Taken, RingContents' = RingContents, Coming' = Coming
  PROVE  Unsettled' = Unsettled
BY DEF Unsettled

LEMMA SameRing ==
  ASSUME head' = head, tail' = tail, key' = key
  PROVE  RingContents' = RingContents
BY DEF RingContents, RingSize, SlotAt

\* async_save takes a record in behind the others, if there is room.
LEMMA AsyncSaveIsTakeInOrRefuse ==
  ASSUME RingInv, NEW r \in Records, AsyncSave(r)
  PROVE  /\ saved' = saved
         /\ \/ Len(Unsettled) < MAX_SMSG /\ Unsettled' = Append(Unsettled, r)
            \/ Len(Unsettled) >= MAX_SMSG - 1 /\ Unsettled' = Unsettled
<1>1. /\ TypeOK /\ RingSize \in 0 .. MAX_SMSG - 1
      /\ NextSlot(head) = tail <=> RingSize = MAX_SMSG - 1
  BY RingSlots DEF RingInv, TypeOK
<1>2. /\ RingContents \in Seq(Cell) /\ Len(RingContents) = RingSize
      /\ Taken \in Seq(Cell) /\ Len(Taken) \in 0 .. 1
      /\ Coming = <<>> /\ Coming \in Seq(Cell)
  BY <1>1, PartsAreSequences DEF AsyncSave, Coming, Parts
<1>3. Taken' = Taken /\ RingContents' = RingContents
  BY SameRing DEF AsyncSave, recvVars, Taken
<1>4. /\ Taken \o RingContents \in Seq(Cell)
      /\ Len(Taken \o RingContents) = Len(Taken) + RingSize
      /\ Unsettled = Taken \o RingContents
  BY <1>2, ConcatProperties, ConcatEmptySeq DEF Unsettled
<1> DEFINE full == NextSlot(head) = tail
           taken == Len(Taken)
           len == Len(Unsettled)
<1>5. /\ taken \in 0 .. 1 /\ RingSize \in 0 .. MAX_SMSG - 1 /\ MAX_SMSG \in Nat
      /\ len = taken + RingSize
      /\ full <=> RingSize = MAX_SMSG - 1
  BY <1>1, <1>2, <1>4, RingAssumption
<1> HIDE DEF full, taken, len
<1>6. (full => len >= MAX_SMSG - 1) /\ (~ full => len < MAX_SMSG)
  BY <1>5
<1>7. CASE RingFull /\ sendPc' = "idle"
  <2>1. Coming' = Coming
    BY <1>7, <1>2 DEF AsyncSave, Coming
  <2>2. Len(Unsettled) >= MAX_SMSG - 1
    BY <1>7, <1>6 DEF RingFull, full, len
  <2>. QED
    BY <1>3, <2>1, <2>2, SameParts DEF AsyncSave
<1>8. CASE ~ RingFull /\ sendPc' = "fill"
  <2>1. Coming' = <<r>>
    BY <1>8 DEF AsyncSave, Coming
  <2>2. Len(Unsettled) < MAX_SMSG
    BY <1>8, <1>6 DEF RingFull, full, len
  <2>3. Unsettled' = (Taken \o RingContents) \o <<r>>
    BY <1>3, <2>1 DEF Unsettled
  <2>4. Unsettled' = Append(Unsettled, r)
    BY <1>4, <2>3, AppendIsConcat DEF Cell
  <2>. QED
    BY <2>2, <2>4 DEF AsyncSave
<1>. QED
  BY <1>7, <1>8 DEF AsyncSave

\* The slot being filled is not in the ring yet.
LEMMA FillSlotIsInvisible ==
  ASSUME RingInv, FillSlot
  PROVE  Unsettled' = Unsettled /\ saved' = saved
<1>1. /\ RingSize \in 0 .. MAX_SMSG - 1
      /\ \A i \in 1 .. RingSize : SlotAt(i) \in Slots /\ SlotAt(i) # head
  BY RingSlots, RingGrowsAndShrinksByOne DEF RingInv, TypeOK
<1>2. RingSize' = RingSize /\ \A i \in 1 .. RingSize : SlotAt(i)' = SlotAt(i)
  BY DEF FillSlot, recvVars, RingSize, SlotAt
<1>3. \A i \in 1 .. RingSize : key'[SlotAt(i)] = key[SlotAt(i)]
  BY <1>1 DEF FillSlot, RingInv, TypeOK
<1>4. RingContents' = RingContents
  BY <1>2, <1>3 DEF RingContents
<1>5. Taken' = Taken /\ Coming' = Coming
  BY DEF FillSlot, recvVars, Taken, Coming
<1>. QED
  BY <1>4, <1>5, SameParts DEF FillSlot

\* Publication moves the record from Coming to the end of the ring.
LEMMA PublishHeadIsInvisible ==
  ASSUME RingInv, PublishHead
  PROVE  Unsettled' = Unsettled /\ saved' = saved
<1>1. /\ TypeOK /\ TypeOK'
      /\ head' = NextSlot(head) /\ tail' = tail /\ key' = key /\ arg' = arg
      /\ NextSlot(head) # tail /\ key[head] = arg
      /\ sendPc = "publish" /\ sendPc' = "idle"
  BY TypePreserved DEF Next, Send, PublishHead, recvVars, RingInv, SenderKnows
<1>2. /\ RingSize \in 0 .. MAX_SMSG - 1
      /\ RingSize' = RingSize + 1
      /\ \A i \in 1 .. RingSize : SlotAt(i)' = SlotAt(i)
      /\ (tail + RingSize = head \/ tail + RingSize - MAX_SMSG = head)
      /\ \A i \in 1 .. RingSize + 1 : i = RingSize + 1 => SlotAt(i)' = head
  BY <1>1, RingAssumption DEF TypeOK, Slots, RingSize, SlotAt, NextSlot
<1>3. /\ RingContents \in Seq(Cell) /\ Len(RingContents) = RingSize
      /\ \A i \in 1 .. RingSize : RingContents[i] = key[SlotAt(i)]
      /\ Taken \in Seq(Cell)
  BY <1>1, PartsAreSequences DEF Parts
<1>4. /\ RingContents' \in Seq(Cell) /\ Len(RingContents') = RingSize + 1
      /\ \A i \in 1 .. RingSize + 1 : RingContents'[i] = key[SlotAt(i)']
  <2>1. /\ RingContents' \in Seq(Cell) /\ Len(RingContents)' = RingSize'
        /\ \A i \in 1 .. RingSize' : RingContents'[i] = key'[SlotAt(i)']
    BY <1>1, PartsStaySequences DEF Parts
  <2>. QED
    BY <1>1, <1>2, <2>1
<1>5. arg \in Cell
  BY <1>1 DEF TypeOK, Cell
<1>6. RingContents' = Append(RingContents, arg)
  <2>1. /\ Append(RingContents, arg) \in Seq(Cell)
        /\ Len(Append(RingContents, arg)) = RingSize + 1
        /\ \A i \in 1 .. RingSize : Append(RingContents, arg)[i] = RingContents[i]
        /\ Append(RingContents, arg)[RingSize + 1] = arg
    BY <1>3, <1>5, AppendProperties
  <2>2. \A i \in 1 .. RingSize + 1 :
          RingContents'[i] = Append(RingContents, arg)[i]
    <3>1. TAKE i \in 1 .. RingSize + 1
    <3>2. CASE i = RingSize + 1
      BY <3>2, <1>1, <1>2, <1>4, <2>1
    <3>3. CASE i # RingSize + 1
      <4>1. i \in 1 .. RingSize
        BY <3>3, <1>2
      <4>. QED
        BY <4>1, <1>2, <1>3, <1>4, <2>1
    <3>. QED
      BY <3>2, <3>3
  <2>. QED
    BY <1>2, <1>4, <2>1, <2>2, SeqEqual
<1>7. Coming = <<arg>> /\ Coming' = <<>> /\ Taken' = Taken
  BY <1>1 DEF PublishHead, recvVars, Coming, Taken
<1>8. /\ Taken \o RingContents \in Seq(Cell)
      /\ Taken \o Append(RingContents, arg) \in Seq(Cell)
      /\ Append(RingContents, arg) = RingContents \o <<arg>>
      /\ <<arg>> \in Seq(Cell)
  BY <1>3, <1>5, ConcatProperties, AppendProperties, AppendIsConcat
<1>9. (Taken \o RingContents) \o <<arg>> = Taken \o Append(RingContents, arg)
  BY <1>3, <1>8, ConcatAssociative
<1>10. Unsettled' = Taken \o Append(RingContents, arg)
  BY <1>6, <1>7, <1>8, ConcatEmptySeq DEF Unsettled
<1>. QED
  BY <1>7, <1>9, <1>10 DEF Unsettled, PublishHead

\* msg_handler's other steps on its slot move no record.
LEMMA ReaderLooksOn ==
  ASSUME RingInv, SeeWork \/ TakeSlot \/ Compress
  PROVE  Unsettled' = Unsettled /\ saved' = saved
<1>1. head' = head /\ tail' = tail /\ key' = key /\ saved' = saved
      /\ Coming' = Coming
  BY DEF SeeWork, TakeSlot, Compress, sendVars, Coming
<1>2. Taken' = Taken
  BY DEF SeeWork, TakeSlot, Compress, Taken
<1>. QED
  BY <1>1, <1>2, SameRing, SameParts

LEMMA FirstAndRest ==
  ASSUME NEW S, NEW c \in S, NEW s \in Seq(S)
  PROVE  /\ <<c>> \o s \in Seq(S)
         /\ <<c>> \o s # <<>>
         /\ Head(<<c>> \o s) = c
         /\ Tail(<<c>> \o s) = s
<1>1. /\ <<c>> \in Seq(S) /\ Len(<<c>>) = 1 /\ <<c>>[1] = c
      /\ Len(s) \in Nat
  OBVIOUS
<1>2. /\ <<c>> \o s \in Seq(S) /\ Len(<<c>> \o s) = 1 + Len(s)
      /\ \A i \in 1 .. 1 + Len(s) :
           (<<c>> \o s)[i] = IF i <= 1 THEN <<c>>[i] ELSE s[i - 1]
  BY <1>1, ConcatProperties
<1>3. <<c>> \o s # <<>> /\ (<<c>> \o s)[1] = c
  BY <1>1, <1>2
<1>4. /\ Tail(<<c>> \o s) \in Seq(S) /\ Len(Tail(<<c>> \o s)) = Len(s)
      /\ \A i \in 1 .. Len(s) : Tail(<<c>> \o s)[i] = (<<c>> \o s)[i + 1]
  BY <1>1, <1>2, <1>3, HeadTailProperties
<1>5. \A i \in 1 .. Len(s) : Tail(<<c>> \o s)[i] = s[i]
  BY <1>1, <1>2, <1>4
<1>. QED
  BY <1>2, <1>3, <1>4, <1>5, SeqEqual

\* Giving the slot back moves its record from the ring to Taken.
LEMMA AdvanceTailIsInvisible ==
  ASSUME RingInv, AdvanceTail
  PROVE  Unsettled' = Unsettled /\ saved' = saved
<1>1. /\ TypeOK /\ TypeOK'
      /\ tail' = NextSlot(tail) /\ head' = head /\ key' = key
      /\ tail # head /\ curKey = key[tail] /\ curKey' = curKey
      /\ recvPc = "advance" /\ recvPc' = "compress"
  BY TypePreserved
     DEF Next, Receive, AdvanceTail, sendVars, RingInv, ReceiverKnows
<1>2. /\ RingSize \in 1 .. MAX_SMSG - 1
      /\ RingSize' = RingSize - 1
      /\ SlotAt(1) = tail
      /\ \A i \in 1 .. RingSize - 1 : SlotAt(i)' = SlotAt(i + 1)
  <2>1. /\ MAX_SMSG \in Nat /\ MAX_SMSG >= 2
        /\ head \in 0 .. MAX_SMSG - 1 /\ tail \in 0 .. MAX_SMSG - 1
    BY <1>1, RingAssumption DEF TypeOK, Slots
  <2>2. tail' = IF tail + 1 < MAX_SMSG THEN tail + 1 ELSE 0
    BY <1>1, <2>1 DEF NextSlot
  <2>3. RingSize \in 1 .. MAX_SMSG - 1 /\ SlotAt(1) = tail
    BY <1>1, <2>1 DEF RingSize, SlotAt
  <2>4. RingSize' = RingSize - 1
    BY <1>1, <2>1, <2>2 DEF RingSize
  <2>5. ASSUME NEW i \in 1 .. RingSize - 1 PROVE SlotAt(i)' = SlotAt(i + 1)
    <3>1. i \in 1 .. MAX_SMSG - 2
      BY <2>1, <2>3
    <3>2. SlotAt(i)' = IF tail' + i - 1 < MAX_SMSG THEN tail' + i - 1
                       ELSE tail' + i - 1 - MAX_SMSG
      BY DEF SlotAt
    <3>3. SlotAt(i + 1) = IF tail + i < MAX_SMSG THEN tail + i
                          ELSE tail + i - MAX_SMSG
      BY <2>1, <3>1 DEF SlotAt
    <3>. QED
      BY <2>1, <2>2, <3>1, <3>2, <3>3
  <2>. QED
    BY <2>3, <2>4, <2>5
<1>3. /\ RingContents \in Seq(Cell) /\ Len(RingContents) = RingSize
      /\ \A i \in 1 .. RingSize : RingContents[i] = key[SlotAt(i)]
      /\ Coming \in Seq(Cell)
  BY <1>1, PartsAreSequences DEF Parts
<1>4. /\ RingContents' \in Seq(Cell) /\ Len(RingContents') = RingSize - 1
      /\ \A i \in 1 .. RingSize - 1 : RingContents'[i] = key[SlotAt(i)']
  <2>1. /\ RingContents' \in Seq(Cell) /\ Len(RingContents)' = RingSize'
        /\ \A i \in 1 .. RingSize' : RingContents'[i] = key'[SlotAt(i)']
    BY <1>1, PartsStaySequences DEF Parts
  <2>. QED
    BY <1>1, <1>2, <2>1
<1>5. curKey \in Cell /\ <<curKey>> \in Seq(Cell) /\ Len(<<curKey>>) = 1
  BY <1>1 DEF TypeOK, Cell
<1>6. <<curKey>> \o RingContents' = RingContents
  <2>1. /\ <<curKey>> \o RingContents' \in Seq(Cell)
        /\ Len(<<curKey>> \o RingContents') = RingSize
        /\ \A i \in 1 .. RingSize :
             (<<curKey>> \o RingContents')[i] =
               IF i <= 1 THEN <<curKey>>[i] ELSE RingContents'[i - 1]
    BY <1>2, <1>4, <1>5, ConcatProperties
  <2>2. \A i \in 1 .. RingSize :
          (<<curKey>> \o RingContents')[i] = RingContents[i]
    <3>1. TAKE i \in 1 .. RingSize
    <3>2. CASE i = 1
      <4>1. (<<curKey>> \o RingContents')[1] = curKey
        BY <1>2, <2>1
      <4>2. RingContents[1] = key[tail]
        BY <1>2, <1>3
      <4>. QED
        BY <3>2, <4>1, <4>2, <1>1
    <3>3. CASE i # 1
      <4>1. /\ i - 1 \in 1 .. RingSize - 1
            /\ (<<curKey>> \o RingContents')[i] = RingContents'[i - 1]
        BY <3>3, <1>2, <2>1
      <4>2. RingContents'[i - 1] = key[SlotAt((i - 1) + 1)]
        BY <4>1, <1>2, <1>4
      <4>3. (i - 1) + 1 = i
        BY <1>2
      <4>. QED
        BY <4>1, <4>2, <4>3, <1>3
    <3>. QED
      BY <3>2, <3>3
  <2>. QED
    BY <1>2, <1>3, <2>1, <2>2, SeqEqual
<1>7. Taken = <<>> /\ Taken' = <<curKey>> /\ Coming' = Coming
  BY <1>1 DEF AdvanceTail, sendVars, Taken, Coming
<1>8. Unsettled = RingContents \o Coming
  BY <1>3, <1>7, ConcatEmptySeq DEF Unsettled
<1>9. Unsettled' = (<<curKey>> \o RingContents') \o Coming
  BY <1>7 DEF Unsettled
<1>. QED
  BY <1>6, <1>8, <1>9 DEF AdvanceTail

\* A record leaves the store, the oldest first, when msg_handler has done
\* with it.
LEMMA TheOldestLeaves ==
  ASSUME TypeOK, recvPc \in {"compress", "free", "set"}, recvPc' = "poll",
         head' = head, tail' = tail, key' = key,
         UNCHANGED <<sendPc, arg>>
  PROVE  /\ Unsettled # <<>>
         /\ Head(Unsettled) = curKey
         /\ Unsettled' = Tail(Unsettled)
<1>1. /\ RingContents \in Seq(Cell) /\ Coming \in Seq(Cell)
      /\ RingContents \o Coming \in Seq(Cell)
  BY PartsAreSequences, ConcatProperties DEF Parts
<1>2. curKey \in Cell /\ <<curKey>> \in Seq(Cell)
  BY DEF TypeOK, Cell
<1>3. Taken = <<curKey>> /\ Taken' = <<>> /\ Coming' = Coming
      /\ RingContents' = RingContents
  BY SameRing DEF Taken, Coming
<1>4. Unsettled = <<curKey>> \o (RingContents \o Coming)
  BY <1>1, <1>2, <1>3, ConcatAssociative DEF Unsettled
<1>5. Unsettled' = RingContents \o Coming
  BY <1>1, <1>3, ConcatEmptySeq DEF Unsettled
<1>. QED
  BY <1>1, <1>2, <1>4, <1>5, FirstAndRest

LEMMA FreeSlotSettlesOrNothing ==
  ASSUME RingInv, FreeSlot
  PROVE  /\ saved' = saved
         /\ \/ Unsettled' = Unsettled
            \/ Unsettled # <<>> /\ Unsettled' = Tail(Unsettled)
<1>1. /\ TypeOK /\ recvPc = "free" /\ saved' = saved
      /\ head' = head /\ tail' = tail /\ key' = key /\ curKey' = curKey
      /\ UNCHANGED <<sendPc, arg>>
  BY DEF FreeSlot, sendVars, RingInv
<1>2. CASE recvPc' = "poll"
  BY <1>1, <1>2, TheOldestLeaves
<1>3. CASE recvPc' = "set"
  <2>1. Taken' = Taken /\ Coming' = Coming /\ RingContents' = RingContents
    BY <1>1, <1>3, SameRing DEF Taken, Coming
  <2>. QED
    BY <1>1, <2>1, SameParts
<1>. QED
  BY <1>2, <1>3 DEF FreeSlot

\* The records in redis, in the order they got there.
StoredRecords == [i \in DOMAIN saved |-> saved[i].data]

LEMMA RedisSetSettles ==
  ASSUME RingInv, RedisSet
  PROVE  /\ Unsettled # <<>>
         /\ Unsettled' = Tail(Unsettled)
         /\ \/ StoredRecords' = StoredRecords
            \/ StoredRecords' = Append(StoredRecords, Head(Unsettled))
<1>1. /\ TypeOK /\ recvPc = "set" /\ recvPc' = "poll" /\ dst = curKey
      /\ head' = head /\ tail' = tail /\ key' = key
      /\ UNCHANGED <<sendPc, arg>>
  BY DEF RedisSet, sendVars, RingInv, ReceiverKnows
<1>2. /\ Unsettled # <<>> /\ Head(Unsettled) = curKey
      /\ Unsettled' = Tail(Unsettled)
  BY <1>1, TheOldestLeaves
<1>3. CASE saved' = saved
  BY <1>2, <1>3 DEF StoredRecords
<1>4. CASE saved' = Append(saved, [key |-> curKey, data |-> dst])
  <2> DEFINE Rec == [key : Cell, data : Cell]
             rec == [key |-> curKey, data |-> dst]
  <2>1. saved \in Seq(Rec) /\ rec \in Rec /\ rec.data = curKey
    BY <1>1 DEF TypeOK, Cell
  <2>2. saved' = Append(saved, rec)
    BY <1>4
  <2> HIDE DEF Rec, rec
  <2>3. /\ Len(saved) \in Nat /\ DOMAIN saved = 1 .. Len(saved)
        /\ saved' \in Seq(Rec) /\ Len(saved') = Len(saved) + 1
        /\ DOMAIN saved' = 1 .. Len(saved) + 1
        /\ \A i \in 1 .. Len(saved) : saved'[i] = saved[i]
        /\ saved'[Len(saved) + 1] = rec
    BY <2>1, <2>2, AppendProperties
  <2>4. \A i \in 1 .. Len(saved) : saved[i].data \in Cell
    <3>1. \A i \in 1 .. Len(saved) : saved[i] \in Rec
      BY <2>1, <2>3
    <3>2. \A r \in Rec : r.data \in Cell
      BY DEF Rec
    <3>. QED
      BY <3>1, <3>2
  <2>5. StoredRecords \in [1 .. Len(saved) -> Cell]
    BY <2>3, <2>4 DEF StoredRecords
  <2>6. StoredRecords \in Seq(Cell) /\ Len(StoredRecords) = Len(saved)
    BY <2>3, <2>5, SeqDef
  <2>7. curKey \in Cell
    BY <1>1 DEF TypeOK, Cell
  <2>8. StoredRecords' =
          [i \in 1 .. Len(saved) + 1 |->
             IF i <= Len(saved) THEN StoredRecords[i] ELSE curKey]
    BY <2>1, <2>3 DEF StoredRecords
  <2>9. StoredRecords' \in [1 .. Len(saved) + 1 -> Cell]
    BY <2>3, <2>5, <2>7, <2>8
  <2>10. /\ StoredRecords' \in Seq(Cell)
         /\ Len(StoredRecords') = Len(saved) + 1
    BY <2>3, <2>9, SeqDef
  <2>11. /\ Append(StoredRecords, curKey) \in Seq(Cell)
         /\ Len(Append(StoredRecords, curKey)) = Len(saved) + 1
         /\ \A i \in 1 .. Len(saved) :
              Append(StoredRecords, curKey)[i] = StoredRecords[i]
         /\ Append(StoredRecords, curKey)[Len(saved) + 1] = curKey
    BY <2>3, <2>6, <2>7, AppendProperties
  <2>12. \A i \in 1 .. Len(saved) + 1 :
           StoredRecords'[i] = Append(StoredRecords, curKey)[i]
    BY <2>3, <2>8, <2>11
  <2>13. StoredRecords' = Append(StoredRecords, curKey)
    BY <2>10, <2>11, <2>12, SeqEqual
  <2>. QED
    BY <1>2, <2>13
<1>. QED
  BY <1>2, <1>3, <1>4 DEF RedisSet

\* The ring implements the store (ReplayRing!ImplementsStore without its
\* fairness): a hand's record is taken in or refused when the table calls
\* async_save, and records leave first in, first out, each once.
THEOREM RingIsFirstInFirstOut ==
  Spec => Store!Init /\ [][Store!Next]_(Store!storeVars)
<1>1. Init => Store!Init
  <2> SUFFICES ASSUME Init
               PROVE  Unsettled = <<>> /\ StoredRecords = <<>> /\ called = {}
    BY DEF Store!Init, StoredRecords
  <2>1. Taken = <<>> /\ Coming = <<>> /\ RingSize = 0
    BY DEF Init, Taken, Coming, RingSize
  <2>2. RingContents = <<>>
    BY <2>1 DEF RingContents
  <2>3. StoredRecords = <<>>
    BY DEF Init, StoredRecords
  <2>. QED
    BY <2>1, <2>2, <2>3 DEF Init, Unsettled
<1>2. RingInv /\ [Next]_vars => [Store!Next]_(Store!storeVars)
  <2> SUFFICES ASSUME RingInv, [Next]_vars
               PROVE  \/ Store!Next
                      \/ /\ called' = called /\ Unsettled' = Unsettled
                         /\ StoredRecords' = StoredRecords
    BY DEF Store!storeVars, StoredRecords
  <2>1. ASSUME NEW r \in Records, AsyncSave(r) PROVE Store!Next
    <3>1. r \notin called /\ called' = called \cup {r}
      BY <2>1 DEF AsyncSave
    <3>2. /\ StoredRecords' = StoredRecords
          /\ \/ Len(Unsettled) < MAX_SMSG /\ Unsettled' = Append(Unsettled, r)
             \/ Len(Unsettled) >= MAX_SMSG - 1 /\ Unsettled' = Unsettled
      BY <2>1, AsyncSaveIsTakeInOrRefuse DEF StoredRecords
    <3>. QED
      BY <3>1, <3>2
         DEF Store!Next, Store!TakeIn, Store!Refuse, StoredRecords
  <2>2. CASE FillSlot
    BY <2>2, FillSlotIsInvisible DEF FillSlot, StoredRecords
  <2>3. CASE PublishHead
    BY <2>3, PublishHeadIsInvisible DEF PublishHead, StoredRecords
  <2>4. CASE SeeWork \/ TakeSlot \/ Compress
    BY <2>4, ReaderLooksOn DEF SeeWork, TakeSlot, Compress, StoredRecords
  <2>5. CASE AdvanceTail
    BY <2>5, AdvanceTailIsInvisible DEF AdvanceTail, StoredRecords
  <2>6. CASE FreeSlot
    <3>1. called' = called /\ StoredRecords' = StoredRecords
      BY <2>6, FreeSlotSettlesOrNothing DEF FreeSlot, StoredRecords
    <3>. QED
      BY <2>6, <3>1, FreeSlotSettlesOrNothing
         DEF Store!Next, Store!Settle, StoredRecords
  <2>7. CASE RedisSet
    <3>1. called' = called
      BY <2>7 DEF RedisSet
    <3>. QED
      BY <2>7, <3>1, RedisSetSettles
         DEF Store!Next, Store!Settle, StoredRecords
  <2>8. CASE UNCHANGED vars
    <3>1. /\ head' = head /\ tail' = tail /\ key' = key
          /\ Taken' = Taken /\ Coming' = Coming
          /\ called' = called /\ StoredRecords' = StoredRecords
      BY <2>8 DEF vars, Taken, Coming, StoredRecords
    <3>. QED
      BY <3>1, SameRing, SameParts
  <2>. QED
    BY <2>1, <2>2, <2>3, <2>4, <2>5, <2>6, <2>7, <2>8
       DEF Next, Send, Receive
<1>. QED
  BY <1>1, <1>2, RingInvariant, PTL DEF Spec
=============================================================================
