-------------------------- MODULE ReplayRingProofs --------------------------
(***************************************************************************)
(* Safety of the replay ring for every size and every set of records.      *)
(*                                                                         *)
(* The slot the reader is still using lies just behind tail; one slot of   *)
(* the ring is always kept empty, and that slot is the one behind tail, so *)
(* the writer cannot reach it.  RingInv says this and what each program    *)
(* counter knows of the slot it works on.                                  *)
(***************************************************************************)
EXTENDS ReplayRing, SequenceTheorems, TLAPS

\* A published slot holds a record under its own key.
PublishedSlots ==
  \A i \in Slots : InRing(i) => data[i] # NoData /\ key[i] = data[i]

\* Between the test for room and the publication, one slot stays empty.
SenderKnows ==
  /\ sendPc \in {"fill", "publish"} => NextSlot(head) # tail /\ arg # NoData
  /\ sendPc = "publish" => data[head] = arg /\ key[head] = arg

ReceiverKnows ==
  /\ recvPc \in {"slot", "advance"} => tail # head
  /\ recvPc = "advance" => cur = tail /\ curKey = key[tail]
  /\ recvPc \in {"compress", "free"} => tail = NextSlot(cur) /\ data[cur] = curKey
  /\ recvPc = "free" => dst \in {NoData, curKey}
  /\ recvPc = "set" => dst = curKey

RingInv ==
  /\ TypeOK
  /\ PublishedSlots
  /\ SenderKnows
  /\ ReceiverKnows
  /\ SavedUnderOwnKey

\* The successor stays on the ring and no two slots share it
\* (the arithmetic of replay.cc:243-251 and 297-316).
LEMMA NextSlotIsInjective ==
  /\ \A i \in Slots : NextSlot(i) \in Slots
  /\ \A i, j \in Slots : NextSlot(i) = NextSlot(j) => i = j
  /\ \A i \in Slots : NextSlot(i) # i
BY RingAssumption DEF Slots, NextSlot

\* Publishing the slot at head adds exactly that slot to the ring, and taking
\* the slot at tail removes exactly that one.
LEMMA RingGrowsAndShrinksByOne ==
  ASSUME head \in Slots, tail \in Slots, NEW i \in Slots
  PROVE  /\ ~ InRing(head)
         /\ NextSlot(i) = tail => ~ InRing(i)
         /\ ((NextSlot(head) # tail /\ head' = NextSlot(head) /\ tail' = tail) =>
               (InRing(i)' <=> (InRing(i) \/ i = head)))
         /\ ((tail # head /\ tail' = NextSlot(tail) /\ head' = head) =>
               (InRing(i)' => InRing(i)))
         /\ tail # head => InRing(tail)
BY RingAssumption DEF Slots, NextSlot, InRing

LEMMA InitEstablishes == Init => RingInv
BY RingAssumption
   DEF Init, RingInv, TypeOK, PublishedSlots, SenderKnows, ReceiverKnows,
       SavedUnderOwnKey, InRing, Slots

LEMMA TypePreserved == RingInv /\ [Next]_vars => TypeOK'
<1> SUFFICES ASSUME RingInv, [Next]_vars PROVE TypeOK'
  OBVIOUS
<1> USE NextSlotIsInjective DEF TypeOK, RingInv
<1>1. ASSUME NEW r \in Records, AsyncSave(r) PROVE TypeOK'
  BY <1>1 DEF AsyncSave, recvVars
<1>2. CASE FillSlot
  BY <1>2 DEF FillSlot, recvVars
<1>3. CASE PublishHead
  BY <1>3 DEF PublishHead, recvVars
<1>4. CASE SeeWork
  BY <1>4 DEF SeeWork, sendVars
<1>5. CASE TakeSlot
  BY <1>5 DEF TakeSlot, sendVars
<1>6. CASE AdvanceTail
  BY <1>6 DEF AdvanceTail, sendVars
<1>7. CASE Compress
  BY <1>7 DEF Compress, sendVars
<1>8. CASE FreeSlot
  BY <1>8 DEF FreeSlot, sendVars
<1>9. CASE RedisSet
  <2>1. saved' \in Seq([key : Records \cup {NoData}, data : Records \cup {NoData}])
    <3> DEFINE R == [key : Records \cup {NoData}, data : Records \cup {NoData}]
               rec == [key |-> curKey, data |-> dst]
    <3>1. rec \in R /\ saved \in Seq(R)
      OBVIOUS
    <3>2. saved' = saved \/ saved' = Append(saved, rec)
      BY <1>9 DEF RedisSet
    <3> HIDE DEF rec, R
    <3>3. Append(saved, rec) \in Seq(R)
      BY <3>1, AppendProperties
    <3>4. saved' \in Seq(R)
      BY <3>1, <3>2, <3>3
    <3> QED BY <3>4 DEF R
  <2>2. dropped' \subseteq Records \cup {NoData}
    BY <1>9 DEF RedisSet
  <2> QED BY <1>9, <2>1, <2>2 DEF RedisSet, sendVars
<1>10. CASE UNCHANGED vars
  BY <1>10 DEF vars
<1> QED
  BY <1>1, <1>2, <1>3, <1>4, <1>5, <1>6, <1>7, <1>8, <1>9, <1>10
     DEF Next, Send, Receive

LEMMA PublishedSlotsPreserved == RingInv /\ [Next]_vars => PublishedSlots'
<1> SUFFICES ASSUME RingInv, [Next]_vars, NEW i \in Slots, InRing(i)'
             PROVE  data'[i] # NoData /\ key'[i] = data'[i]
  BY DEF PublishedSlots
<1> USE RingAssumption, NextSlotIsInjective, RingGrowsAndShrinksByOne
    DEF RingInv, TypeOK
<1>1. CASE head' = head /\ tail' = tail /\ key' = key /\ data' = data
  BY <1>1 DEF PublishedSlots, InRing
<1>2. CASE FillSlot
  <2>1. i # head /\ InRing(i)
    BY <1>2 DEF FillSlot, recvVars, InRing
  <2> QED BY <1>2, <2>1 DEF FillSlot, PublishedSlots
<1>3. CASE PublishHead
  <2>1. InRing(i) \/ i = head
    BY <1>3 DEF PublishHead, recvVars, SenderKnows
  <2> QED BY <1>3, <2>1 DEF PublishHead, PublishedSlots, SenderKnows
<1>4. CASE AdvanceTail
  <2>1. InRing(i)
    BY <1>4 DEF AdvanceTail, sendVars, ReceiverKnows
  <2> QED BY <1>4, <2>1 DEF AdvanceTail, PublishedSlots
<1>5. CASE FreeSlot
  <2>1. InRing(i)
    BY <1>5 DEF FreeSlot, sendVars, InRing
  <2>2. i # cur
    BY <1>5, <2>1 DEF FreeSlot, ReceiverKnows
  <2> QED BY <1>5, <2>1, <2>2 DEF FreeSlot, PublishedSlots
<1> QED
  BY <1>1, <1>2, <1>3, <1>4, <1>5
     DEF Next, Send, Receive, AsyncSave, SeeWork, TakeSlot, Compress, RedisSet,
         vars, sendVars, recvVars

LEMMA SenderKnowsPreserved == RingInv /\ [Next]_vars => SenderKnows'
<1> SUFFICES ASSUME RingInv, [Next]_vars PROVE SenderKnows'
  OBVIOUS
<1> USE RingAssumption, NextSlotIsInjective DEF RingInv, TypeOK, SenderKnows
<1>1. ASSUME NEW r \in Records, AsyncSave(r) PROVE SenderKnows'
  BY <1>1 DEF AsyncSave, RingFull, recvVars, NextSlot
<1>2. CASE FillSlot
  BY <1>2 DEF FillSlot, recvVars, NextSlot
<1>3. CASE PublishHead
  BY <1>3 DEF PublishHead
<1>4. CASE AdvanceTail
  <2>1. head' = head /\ tail # head /\ tail' = NextSlot(tail)
    BY <1>4 DEF AdvanceTail, sendVars, ReceiverKnows
  <2>2. NextSlot(head)' = NextSlot(head) /\ NextSlot(head) # tail'
    BY <2>1 DEF NextSlot
  <2> QED BY <1>4, <2>2 DEF AdvanceTail, sendVars
<1>5. CASE FreeSlot
  <2>1. sendPc \in {"fill", "publish"} => cur # head
    BY <1>5 DEF FreeSlot, ReceiverKnows
  <2>2. NextSlot(head)' = NextSlot(head)
    BY <1>5 DEF FreeSlot, sendVars, NextSlot
  <2> QED BY <1>5, <2>1, <2>2 DEF FreeSlot, sendVars
<1>6. CASE /\ UNCHANGED <<head, tail, sendPc, arg, key, data>>
  BY <1>6 DEF NextSlot
<1> QED
  BY <1>1, <1>2, <1>3, <1>4, <1>5, <1>6
     DEF Next, Send, Receive, SeeWork, TakeSlot, Compress, RedisSet, vars,
         sendVars

LEMMA ReceiverKnowsPreserved == RingInv /\ [Next]_vars => ReceiverKnows'
<1> SUFFICES ASSUME RingInv, [Next]_vars PROVE ReceiverKnows'
  OBVIOUS
<1> USE RingAssumption, NextSlotIsInjective DEF RingInv, TypeOK, ReceiverKnows
<1>1. ASSUME NEW r \in Records, AsyncSave(r) PROVE ReceiverKnows'
  BY <1>1 DEF AsyncSave, recvVars, NextSlot
<1>2. CASE FillSlot
  <2>1. recvPc \in {"compress", "free"} => cur # head
    BY <1>2 DEF FillSlot, SenderKnows
  <2>2. recvPc = "advance" => tail # head
    OBVIOUS
  <2>3. NextSlot(cur)' = NextSlot(cur)
    BY <1>2 DEF FillSlot, recvVars, NextSlot
  <2> QED BY <1>2, <2>1, <2>2, <2>3 DEF FillSlot, recvVars
<1>3. CASE PublishHead
  <2>1. head' # tail
    BY <1>3 DEF PublishHead, SenderKnows
  <2>2. NextSlot(cur)' = NextSlot(cur)
    BY <1>3 DEF PublishHead, recvVars, NextSlot
  <2> QED BY <1>3, <2>1, <2>2 DEF PublishHead, recvVars
<1>4. CASE SeeWork
  BY <1>4 DEF SeeWork, sendVars
<1>5. CASE TakeSlot
  BY <1>5 DEF TakeSlot, sendVars
<1>6. CASE AdvanceTail
  <2>1. key[tail] = data[tail]
    BY <1>6, RingGrowsAndShrinksByOne DEF AdvanceTail, PublishedSlots
  <2>2. NextSlot(cur)' = NextSlot(cur)
    BY <1>6 DEF AdvanceTail, NextSlot
  <2> QED BY <1>6, <2>1, <2>2 DEF AdvanceTail, sendVars
<1>7. CASE Compress
  BY <1>7 DEF Compress, sendVars, NextSlot
<1>8. CASE FreeSlot
  BY <1>8 DEF FreeSlot, sendVars
<1>9. CASE RedisSet
  BY <1>9 DEF RedisSet, sendVars
<1>10. CASE UNCHANGED vars
  BY <1>10 DEF vars, NextSlot
<1> QED
  BY <1>1, <1>2, <1>3, <1>4, <1>5, <1>6, <1>7, <1>8, <1>9, <1>10
     DEF Next, Send, Receive

LEMMA SavedPreserved == RingInv /\ [Next]_vars => SavedUnderOwnKey'
<1> SUFFICES ASSUME RingInv, [Next]_vars PROVE SavedUnderOwnKey'
  OBVIOUS
<1> USE DEF RingInv
<1>1. CASE UNCHANGED saved
  BY <1>1 DEF SavedUnderOwnKey
<1>2. CASE RedisSet /\ saved' # saved
  <2> DEFINE rec == [key |-> curKey, data |-> dst]
  <2>1. rec.key = rec.data
    BY <1>2 DEF RedisSet, ReceiverKnows
  <2>2. saved' = Append(saved, rec)
    BY <1>2 DEF RedisSet
  <2>3. rec \in [key : Records \cup {NoData}, data : Records \cup {NoData}]
    BY DEF TypeOK
  <2>4. saved \in Seq([key : Records \cup {NoData}, data : Records \cup {NoData}])
    BY DEF TypeOK
  <2> HIDE DEF rec
  <2>5. ASSUME NEW n \in DOMAIN saved' PROVE saved'[n].key = saved'[n].data
    <3>1. CASE n \in DOMAIN saved
      BY <2>2, <2>3, <2>4, <2>5, <3>1 DEF SavedUnderOwnKey
    <3>2. CASE n \notin DOMAIN saved
      BY <2>1, <2>2, <2>3, <2>4, <2>5, <3>2
    <3> QED BY <3>1, <3>2
  <2> QED BY <2>5 DEF SavedUnderOwnKey
<1> QED
  BY <1>1, <1>2
     DEF Next, Send, Receive, AsyncSave, FillSlot, PublishHead, SeeWork,
         TakeSlot, AdvanceTail, Compress, FreeSlot, RedisSet, vars, recvVars

\* The invariant the whole argument rests on.
THEOREM RingInvariant == Spec => []RingInv
<1>1. RingInv /\ [Next]_vars => RingInv'
  BY TypePreserved, PublishedSlotsPreserved, SenderKnowsPreserved,
     ReceiverKnowsPreserved, SavedPreserved DEF RingInv
<1> QED
  BY InitEstablishes, <1>1, PTL DEF Spec

\* The reader's slot is never refilled under it, whatever the size of the
\* ring: replay.cc:297-303 keeps one slot empty, which is that slot.
THEOREM NoRefill == Spec => []SlotInUseIsNotRefilled
<1>1. RingInv => SlotInUseIsNotRefilled
  BY NextSlotIsInjective
     DEF RingInv, TypeOK, SenderKnows, ReceiverKnows, SlotInUseIsNotRefilled
<1> QED
  BY RingInvariant, <1>1, PTL

\* msg_handler never spins on a published slot without data
\* (replay.cc:233-236).
THEOREM NoSpin == Spec => []PublishedSlotHasData
<1>1. RingInv => PublishedSlotHasData
  BY RingGrowsAndShrinksByOne
     DEF RingInv, TypeOK, PublishedSlots, ReceiverKnows, PublishedSlotHasData
<1> QED
  BY RingInvariant, <1>1, PTL

\* Every record in redis lies under its own key.
THEOREM OwnKey == Spec => []SavedUnderOwnKey
<1>1. RingInv => SavedUnderOwnKey
  BY DEF RingInv
<1> QED
  BY RingInvariant, <1>1, PTL

-----------------------------------------------------------------------------
(* Who owns a buffer.  The writer's, each slot's and the reader's buffers   *)
(* are on the heap and are different ones; every buffer on the heap is one of *)
(* them, unless a full ring refused its record; what was stored or given up   *)
(* is off the heap.                                                           *)

Holders ==
  /\ \A i \in Slots : InRing(i) => data[i] \in heap
  /\ \A i, j \in Slots : InRing(i) /\ InRing(j) /\ data[i] = data[j] => i = j
  /\ sendPc \in {"fill", "publish"} =>
       arg \in heap /\ \A i \in Slots : InRing(i) => data[i] # arg
  /\ recvPc \in {"compress", "free"} =>
       curKey \in heap /\ \A i \in Slots : InRing(i) => data[i] # curKey
  /\ sendPc \in {"fill", "publish"} /\ recvPc \in {"compress", "free"} =>
       arg # curKey
  /\ recvPc = "set" => curKey \in called \ heap

\* Buffers come from a call, and the settled ones are freed.
Freed ==
  /\ heap \subseteq called
  /\ dropped \subseteq called \ heap
  /\ \A i \in DOMAIN saved : saved[i].key \in called \ heap

\* No buffer loses its holder before it is freed, but for those of refused
\* records, which nobody holds (async_save ignores send_msg's result).
NoneIsLost ==
  \A r \in heap \ refused :
    \/ sendPc \in {"fill", "publish"} /\ arg = r
    \/ \E i \in Slots : InRing(i) /\ data[i] = r
    \/ recvPc \in {"compress", "free"} /\ curKey = r

Ownership == Holders /\ Freed /\ NoneIsLost

LEMMA TailLeavesTheRing ==
  ASSUME head \in Slots, tail \in Slots, NEW i \in Slots,
         tail # head, tail' = NextSlot(tail), head' = head, InRing(i)'
  PROVE  InRing(i) /\ i # tail
BY RingAssumption DEF Slots, NextSlot, InRing

LEMMA FreedPreserved ==
  RingInv /\ Ownership /\ [Next]_vars => Freed'
<1> SUFFICES ASSUME RingInv, Ownership, [Next]_vars PROVE Freed'
  OBVIOUS
<1> USE DEF Freed, Ownership
<1>1. ASSUME NEW r \in Records, AsyncSave(r) PROVE Freed'
  BY <1>1 DEF AsyncSave
<1>2. CASE FreeSlot
  <2>1. data[cur] = curKey /\ curKey \in heap
    BY <1>2 DEF FreeSlot, RingInv, ReceiverKnows, Holders
  <2>2. /\ heap' = heap \ {curKey} /\ called' = called /\ saved' = saved
        /\ dropped' \in {dropped, dropped \cup {curKey}}
    BY <1>2, <2>1 DEF FreeSlot
  <2>. QED
    BY <2>1, <2>2
<1>3. CASE RedisSet
  <2> DEFINE R == [key : Records \cup {NoData}, data : Records \cup {NoData}]
             rec == [key |-> curKey, data |-> dst]
  <2>1. /\ curKey \in called \ heap /\ heap' = heap /\ called' = called
        /\ saved' \in {saved, Append(saved, rec)}
        /\ dropped' \in {dropped, dropped \cup {curKey}}
    BY <1>3 DEF RedisSet, Holders
  <2>2. rec \in R /\ saved \in Seq(R) /\ rec.key = curKey
    BY DEF RingInv, TypeOK
  <2> HIDE DEF rec, R
  <2>3. ASSUME NEW i \in DOMAIN saved' PROVE saved'[i].key \in called \ heap
    <3>1. CASE saved' = saved
      BY <3>1, <2>3
    <3>2. CASE saved' = Append(saved, rec)
      <4>1. /\ DOMAIN saved = 1 .. Len(saved) /\ Len(saved) \in Nat
            /\ i \in 1 .. Len(saved) + 1
            /\ i \in 1 .. Len(saved) => saved'[i] = saved[i]
            /\ i = Len(saved) + 1 => saved'[i] = rec
        BY <3>2, <2>2, <2>3, AppendProperties
      <4>. QED
        BY <4>1, <2>1, <2>2
    <3>. QED
      BY <3>1, <3>2, <2>1
  <2>. QED
    BY <2>1, <2>3
<1>4. CASE UNCHANGED <<heap, called, dropped, saved>>
  BY <1>4
<1>. QED
  BY <1>1, <1>2, <1>3, <1>4
     DEF Next, Send, Receive, FillSlot, PublishHead, SeeWork, TakeSlot,
         AdvanceTail, Compress, vars

LEMMA HoldersPreserved ==
  RingInv /\ Ownership /\ [Next]_vars => Holders'
<1> SUFFICES ASSUME RingInv, Ownership, [Next]_vars PROVE Holders'
  OBVIOUS
<1>0. /\ head \in Slots /\ tail \in Slots /\ cur \in Slots
      /\ DOMAIN data = Slots
  BY DEF RingInv, TypeOK
<1> USE DEF Ownership, Holders
<1>1. ASSUME NEW r \in Records, AsyncSave(r) PROVE Holders'
  <2>1. /\ head' = head /\ tail' = tail /\ data' = data /\ recvPc' = recvPc
        /\ curKey' = curKey /\ heap' = heap \cup {r}
        /\ called' = called \cup {r} /\ r \notin called /\ r \notin heap
        /\ sendPc = "idle"
        /\ \/ sendPc' = "fill" /\ arg' = r
           \/ sendPc' = "idle"
    BY <1>1 DEF AsyncSave, recvVars, Freed
  <2>. QED
    BY <2>1 DEF InRing
<1>2. CASE FillSlot
  <2>1. /\ head' = head /\ tail' = tail /\ recvPc' = recvPc /\ arg' = arg
        /\ curKey' = curKey /\ heap' = heap /\ called' = called
        /\ sendPc = "fill" /\ sendPc' = "publish"
        /\ data' = [data EXCEPT ![head] = arg]
    BY <1>2 DEF FillSlot, recvVars
  <2>2. \A i \in Slots : InRing(i) => data'[i] = data[i]
    BY <1>0, <2>1, RingGrowsAndShrinksByOne
  <2>3. \A i \in Slots : InRing(i)' <=> InRing(i)
    BY <2>1 DEF InRing
  <2>. QED
    BY <2>1, <2>2, <2>3
<1>3. CASE PublishHead
  <2>1. /\ head' = NextSlot(head) /\ tail' = tail /\ NextSlot(head) # tail
        /\ data' = data /\ data[head] = arg /\ recvPc' = recvPc
        /\ curKey' = curKey /\ heap' = heap /\ called' = called
        /\ sendPc = "publish" /\ sendPc' = "idle"
    BY <1>3 DEF PublishHead, recvVars, RingInv, SenderKnows
  <2>2. \A i \in Slots : InRing(i)' <=> (InRing(i) \/ i = head)
    BY <1>0, <2>1, RingGrowsAndShrinksByOne
  <2>. QED
    BY <2>1, <2>2
<1>4. CASE AdvanceTail
  <2>1. /\ tail' = NextSlot(tail) /\ head' = head /\ tail # head
        /\ data' = data /\ curKey' = curKey /\ curKey = key[tail]
        /\ heap' = heap /\ called' = called
        /\ sendPc' = sendPc /\ arg' = arg /\ recvPc' = "compress"
    BY <1>4 DEF AdvanceTail, sendVars, RingInv, ReceiverKnows
  <2>2. InRing(tail) /\ data[tail] = curKey
    BY <1>0, <2>1, RingGrowsAndShrinksByOne DEF RingInv, PublishedSlots
  <2>3. \A i \in Slots : InRing(i)' => InRing(i) /\ i # tail
    BY <1>0, <2>1, TailLeavesTheRing
  <2>. QED
    BY <1>0, <2>1, <2>2, <2>3
<1>5. CASE FreeSlot
  <2>1. /\ tail' = tail /\ head' = head /\ curKey' = curKey /\ called' = called
        /\ sendPc' = sendPc /\ arg' = arg /\ recvPc = "free"
        /\ recvPc' \in {"poll", "set"}
        /\ data[cur] = curKey /\ NextSlot(cur) = tail
        /\ heap' = heap \ {curKey}
        /\ data' = [data EXCEPT ![cur] = NoData]
    BY <1>5 DEF FreeSlot, sendVars, RingInv, ReceiverKnows
  <2>2. ~ InRing(cur)
    BY <1>0, <2>1, RingGrowsAndShrinksByOne
  <2>3. \A i \in Slots : (InRing(i)' <=> InRing(i)) /\ (InRing(i) => data'[i] = data[i])
    BY <1>0, <2>1, <2>2 DEF InRing
  <2>4. curKey \in called
    BY <2>1 DEF Freed
  <2>. QED
    BY <2>1, <2>3, <2>4
<1>6. CASE SeeWork \/ TakeSlot \/ Compress \/ RedisSet \/ UNCHANGED vars
  <2>1. /\ tail' = tail /\ head' = head /\ data' = data
        /\ heap' = heap /\ called' = called /\ sendPc' = sendPc /\ arg' = arg
    BY <1>6 DEF SeeWork, TakeSlot, Compress, RedisSet, vars, sendVars
  <2>2. \/ recvPc' \in {"poll", "slot", "advance"}
        \/ recvPc = "compress" /\ recvPc' = "free" /\ curKey' = curKey
        \/ recvPc' = recvPc /\ curKey' = curKey
    BY <1>6 DEF SeeWork, TakeSlot, Compress, RedisSet, vars
  <2>3. \A i \in Slots : InRing(i)' <=> InRing(i)
    BY <2>1 DEF InRing
  <2>. QED
    BY <2>1, <2>2, <2>3
<1>. QED
  BY <1>1, <1>2, <1>3, <1>4, <1>5, <1>6 DEF Next, Send, Receive

LEMMA NoneIsLostPreserved ==
  RingInv /\ Ownership /\ [Next]_vars => NoneIsLost'
<1> SUFFICES ASSUME RingInv, Ownership, [Next]_vars PROVE NoneIsLost'
  OBVIOUS
<1>0. /\ head \in Slots /\ tail \in Slots /\ cur \in Slots
      /\ DOMAIN data = Slots
  BY DEF RingInv, TypeOK
<1> USE DEF NoneIsLost
<1>1. ASSUME NEW r \in Records, AsyncSave(r) PROVE NoneIsLost'
  <2>1. /\ head' = head /\ tail' = tail /\ data' = data /\ recvPc' = recvPc
        /\ curKey' = curKey /\ heap' = heap \cup {r} /\ sendPc = "idle"
        /\ \/ sendPc' = "fill" /\ arg' = r /\ refused' = refused
           \/ sendPc' = "idle" /\ refused' = refused \cup {r}
    BY <1>1 DEF AsyncSave, recvVars
  <2>. QED
    BY <2>1 DEF InRing, Ownership
<1>2. CASE FillSlot
  <2>1. /\ head' = head /\ tail' = tail /\ recvPc' = recvPc /\ arg' = arg
        /\ curKey' = curKey /\ heap' = heap /\ refused' = refused
        /\ sendPc = "fill" /\ sendPc' = "publish"
        /\ data' = [data EXCEPT ![head] = arg]
    BY <1>2 DEF FillSlot, recvVars
  <2>2. \A i \in Slots : InRing(i) => data'[i] = data[i]
    BY <1>0, <2>1, RingGrowsAndShrinksByOne
  <2>3. \A i \in Slots : InRing(i)' <=> InRing(i)
    BY <2>1 DEF InRing
  <2>. QED
    BY <2>1, <2>2, <2>3 DEF Ownership
<1>3. CASE PublishHead
  <2>1. /\ head' = NextSlot(head) /\ tail' = tail /\ NextSlot(head) # tail
        /\ data' = data /\ data[head] = arg /\ recvPc' = recvPc
        /\ curKey' = curKey /\ heap' = heap /\ refused' = refused
    BY <1>3 DEF PublishHead, recvVars, RingInv, SenderKnows
  <2>2. \A i \in Slots : InRing(i)' <=> (InRing(i) \/ i = head)
    BY <1>0, <2>1, RingGrowsAndShrinksByOne
  <2>. QED
    BY <1>0, <2>1, <2>2 DEF Ownership
<1>4. CASE AdvanceTail
  <2>1. /\ tail' = NextSlot(tail) /\ head' = head /\ tail # head
        /\ data' = data /\ curKey' = curKey /\ curKey = key[tail]
        /\ heap' = heap /\ refused' = refused /\ recvPc = "advance"
        /\ sendPc' = sendPc /\ arg' = arg /\ recvPc' = "compress"
    BY <1>4 DEF AdvanceTail, sendVars, RingInv, ReceiverKnows
  <2>2. InRing(tail) /\ data[tail] = curKey
    BY <1>0, <2>1, RingGrowsAndShrinksByOne DEF RingInv, PublishedSlots
  <2>3. \A i \in Slots : InRing(i) /\ i # tail => InRing(i)'
    BY <1>0, <2>1, RingAssumption DEF Slots, NextSlot, InRing
  <2>. QED
    BY <2>1, <2>2, <2>3 DEF Ownership
<1>5. CASE FreeSlot
  <2>1. /\ tail' = tail /\ head' = head /\ sendPc' = sendPc /\ arg' = arg
        /\ refused' = refused /\ data[cur] = curKey /\ NextSlot(cur) = tail
        /\ heap' = heap \ {curKey}
        /\ data' = [data EXCEPT ![cur] = NoData]
    BY <1>5 DEF FreeSlot, sendVars, RingInv, ReceiverKnows
  <2>2. ~ InRing(cur)
    BY <1>0, <2>1, RingGrowsAndShrinksByOne
  <2>3. \A i \in Slots : (InRing(i)' <=> InRing(i)) /\ (InRing(i) => data'[i] = data[i])
    BY <1>0, <2>1, <2>2 DEF InRing
  <2>. QED
    BY <2>1, <2>3 DEF Ownership
<1>6. CASE SeeWork \/ TakeSlot \/ Compress \/ RedisSet \/ UNCHANGED vars
  <2>1. /\ tail' = tail /\ head' = head /\ data' = data /\ refused' = refused
        /\ heap' = heap /\ sendPc' = sendPc /\ arg' = arg
    BY <1>6 DEF SeeWork, TakeSlot, Compress, RedisSet, vars, sendVars
  <2>2. recvPc \in {"compress", "free"} => recvPc' \in {"compress", "free"} /\ curKey' = curKey
    BY <1>6 DEF SeeWork, TakeSlot, Compress, RedisSet, vars
  <2>3. \A i \in Slots : InRing(i)' <=> InRing(i)
    BY <2>1 DEF InRing
  <2>. QED
    BY <2>1, <2>2, <2>3 DEF Ownership
<1>. QED
  BY <1>1, <1>2, <1>3, <1>4, <1>5, <1>6 DEF Next, Send, Receive

\* No buffer is leaked, shared or read after its free (replay.cc:233-266): the
\* writer, each slot and the reader hold different buffers of the heap, one
\* stored or given up is off it, and no buffer on it is without a holder,
\* except those of the records a full ring refused.
THEOREM NoLeak == Spec => [](NoLeakNoDanglingSlot /\ Ownership)
<1>1. Init => Ownership
  BY RingAssumption DEF Init, Ownership, Holders, Freed, NoneIsLost, InRing
<1>2. RingInv /\ Ownership /\ [Next]_vars => Ownership'
  BY FreedPreserved, HoldersPreserved, NoneIsLostPreserved DEF Ownership
<1>3. RingInv /\ Ownership => NoLeakNoDanglingSlot
  BY DEF RingInv, Ownership, Holders, Freed, NoLeakNoDanglingSlot
<1>. QED
  BY <1>1, <1>2, <1>3, RingInvariant, PTL DEF Spec

=============================================================================
