----------------------------- MODULE ReplayRing -----------------------------
(***************************************************************************)
(* The hand-record pipeline of replay.cc.                                  *)
(*                                                                         *)
(* The event-loop thread calls Replay::async_save at the end of a hand; it *)
(* copies the record into a heap buffer and hands the buffer over through  *)
(* the static ring msgs[MAX_SMSG] (send_msg).  One detached thread runs    *)
(* msg_handler: it takes a slot, advances tail, and only THEN compresses   *)
(* the buffer, frees it, nulls the slot and issues the redis SET.          *)
(*                                                                         *)
(* Each action is one access, or one run of accesses to memory the thread  *)
(* owns, between two accesses the other thread can observe.                *)
(***************************************************************************)
EXTENDS Naturals, Sequences

CONSTANTS
  MAX_SMSG,  \* slots of the ring (replay.h)
  Records,   \* the hand records, each named by its key "ts_ttid"
  NoData     \* the NULL pointer

ASSUME RingAssumption ==
  /\ MAX_SMSG \in Nat
  /\ MAX_SMSG >= 2
  /\ NoData \notin Records

VARIABLES
  head, tail,  \* Replay::head, Replay::tail
  key, data,   \* per slot: (ts, ttid) and the data pointer
  sendPc,      \* where the event loop is inside send_msg
  arg,         \* the record send_msg was called with
  recvPc,      \* where msg_handler is inside its loop
  cur,         \* the slot msg_handler's reference `msg' is bound to
  curKey,      \* its local copies of ts and ttid
  dst,         \* the compressed buffer (NoData: compress_data returned -1)
  heap,        \* records whose malloc'ed buffer has not been freed
  called,      \* records async_save was called with (history)
  refused,     \* records send_msg refused because the ring was full (history)
  saved,       \* the redis SETs that succeeded, in order (history)
  dropped      \* records given up after a compress or a redis error (history)

sendVars == <<head, sendPc, arg>>
recvVars == <<tail, recvPc, cur, curKey, dst>>
vars == <<head, tail, key, data, sendPc, arg, recvPc, cur, curKey, dst,
          heap, called, refused, saved, dropped>>

Slots == 0 .. MAX_SMSG - 1

\* (i + 1) % MAX_SMSG, written as the code applies it: add 1, or subtract
\* MAX_SMSG - 1 at the end of the array.
NextSlot(i) == IF i + 1 < MAX_SMSG THEN i + 1 ELSE i - (MAX_SMSG - 1)

Init ==
  /\ head = 0 /\ tail = 0
  /\ key = [i \in Slots |-> NoData]
  /\ data = [i \in Slots |-> NoData]
  /\ sendPc = "idle" /\ arg = NoData
  /\ recvPc = "poll" /\ cur = 0 /\ curKey = NoData /\ dst = NoData
  /\ heap = {} /\ called = {} /\ refused = {} /\ dropped = {}
  /\ saved = <<>>

-----------------------------------------------------------------------------
(* The event-loop thread: async_save and send_msg.                         *)

\* Mutant of RingFull: the test forgets that the ring is circular.
RingFullUnwrapped == head + 1 = tail

RingFull == NextSlot(head) = tail

\* async_save up to send_msg's test for room.  A full ring only logs: the
\* result of send_msg is ignored, the buffer is neither freed nor retried.
AsyncSave(r) ==
  /\ sendPc = "idle"
  /\ r \notin called
  /\ called' = called \cup {r}
  /\ heap' = heap \cup {r}
  /\ \/ /\ RingFull
        /\ refused' = refused \cup {r}
        /\ UNCHANGED <<sendPc, arg>>
     \/ /\ ~RingFull
        /\ sendPc' = "fill"
        /\ arg' = r
        /\ UNCHANGED refused
  /\ UNCHANGED <<head, key, data, recvVars, saved, dropped>>

FillSlot ==
  /\ sendPc = "fill"
  /\ key' = [key EXCEPT ![head] = arg]
  /\ data' = [data EXCEPT ![head] = arg]
  /\ sendPc' = "publish"
  /\ UNCHANGED <<head, arg, recvVars, heap, called, refused, saved, dropped>>

PublishHead ==
  /\ sendPc = "publish"
  /\ head' = NextSlot(head)
  /\ sendPc' = "idle"
  /\ UNCHANGED <<arg, recvVars, key, data, heap, called, refused, saved,
                 dropped>>

-----------------------------------------------------------------------------
(* The detached thread: msg_handler.                                       *)

\* An empty ring only sleeps, which changes nothing.
SeeWork ==
  /\ recvPc = "poll"
  /\ tail # head
  /\ recvPc' = "slot"
  /\ UNCHANGED <<tail, cur, curKey, dst, sendVars, key, data, heap, called,
                 refused, saved, dropped>>

\* A slot without data is polled again, for ever if nothing fills it.
TakeSlot ==
  /\ recvPc = "slot"
  /\ \/ /\ data[tail] = NoData
        /\ recvPc' = "poll"
        /\ UNCHANGED <<cur, curKey>>
     \/ /\ data[tail] # NoData
        /\ cur' = tail
        /\ curKey' = key[tail]
        /\ recvPc' = "advance"
  /\ UNCHANGED <<tail, dst, sendVars, key, data, heap, called, refused, saved,
                 dropped>>

AdvanceTail ==
  /\ recvPc = "advance"
  /\ tail' = NextSlot(tail)
  /\ recvPc' = "compress"
  /\ UNCHANGED <<cur, curKey, dst, sendVars, key, data, heap, called, refused,
                 saved, dropped>>

\* deflate may fail (the output did not fit); the error is looked at after
\* the free.
Compress ==
  /\ recvPc = "compress"
  /\ dst' \in {data[cur], NoData}
  /\ recvPc' = "free"
  /\ UNCHANGED <<tail, cur, curKey, sendVars, key, data, heap, called, refused,
                 saved, dropped>>

\* Mutant of FreeSlot: the reference follows tail, which has moved on.
FreeSlotAtTail ==
  /\ recvPc = "free"
  /\ heap' = heap \ {data[tail]}
  /\ data' = [data EXCEPT ![tail] = NoData]
  /\ recvPc' = IF dst = NoData THEN "poll" ELSE "set"
  /\ dropped' = IF dst = NoData THEN dropped \cup {curKey} ELSE dropped
  /\ UNCHANGED <<tail, cur, curKey, dst, sendVars, key, called, refused, saved>>

FreeSlot ==
  /\ recvPc = "free"
  /\ heap' = heap \ {data[cur]}
  /\ data' = [data EXCEPT ![cur] = NoData]
  /\ \/ /\ dst = NoData
        /\ recvPc' = "poll"
        /\ dropped' = dropped \cup {curKey}
     \/ /\ dst # NoData
        /\ recvPc' = "set"
        /\ UNCHANGED dropped
  /\ UNCHANGED <<tail, cur, curKey, dst, sendVars, key, called, refused, saved>>

RedisSet ==
  /\ recvPc = "set"
  /\ recvPc' = "poll"
  /\ \/ /\ saved' = Append(saved, [key |-> curKey, data |-> dst])
        /\ UNCHANGED dropped
     \/ /\ dropped' = dropped \cup {curKey}
        /\ UNCHANGED saved
  /\ UNCHANGED <<tail, cur, curKey, dst, sendVars, key, data, heap, called,
                 refused>>

-----------------------------------------------------------------------------
Send == FillSlot \/ PublishHead

Receive ==
  \/ SeeWork
  \/ TakeSlot
  \/ AdvanceTail
  \/ Compress
  \/ FreeSlot
  \/ RedisSet

Next ==
  \/ \E r \in Records : AsyncSave(r)
  \/ Send
  \/ Receive

Spec == Init /\ [][Next]_vars

\* send_msg does not block and msg_handler runs an endless loop: each thread,
\* once inside a step, is scheduled again.  Nothing says a hand ever ends.
FairSpec == Spec /\ WF_vars(Send) /\ WF_vars(Receive)

-----------------------------------------------------------------------------
\* The slots between tail and head: published and not yet taken.
InRing(i) ==
  IF tail <= head
  THEN tail <= i /\ i < head
  ELSE tail <= i \/ i < head

TypeOK ==
  /\ head \in Slots /\ tail \in Slots /\ cur \in Slots
  /\ key \in [Slots -> Records \cup {NoData}]
  /\ data \in [Slots -> Records \cup {NoData}]
  /\ sendPc \in {"idle", "fill", "publish"}
  /\ recvPc \in {"poll", "slot", "advance", "compress", "free", "set"}
  /\ arg \in Records \cup {NoData}
  /\ curKey \in Records \cup {NoData}
  /\ dst \in Records \cup {NoData}
  /\ heap \subseteq Records
  /\ called \subseteq Records
  /\ refused \subseteq Records
  /\ dropped \subseteq Records \cup {NoData}
  /\ saved \in Seq([key : Records \cup {NoData}, data : Records \cup {NoData}])

\* The slot msg_handler is still compressing or freeing, whose index it has
\* already given back by advancing tail, is never the slot send_msg writes
\* (replay.cc: tail moves at 243-251, msg.data is used until 266).
SlotInUseIsNotRefilled ==
  recvPc \in {"compress", "free"} /\ sendPc \in {"fill", "publish"}
    => head # cur

\* msg_handler never finds a published slot without data: the `continue' of
\* replay.cc:233-236 would then spin on that slot for ever.
PublishedSlotHasData ==
  recvPc = "slot" => data[tail] # NoData

\* A record is stored under the key of the hand it came from, though the key
\* is copied before tail moves and the data read after it.
SavedUnderOwnKey ==
  \A i \in DOMAIN saved : saved[i].key = saved[i].data

\* Buffers are freed exactly when their record has left the ring: one that
\* was stored or given up is not on the heap any more, one still in the ring
\* has not been freed under the reader.  And every variable keeps its type.
NoLeakNoDanglingSlot ==
  /\ TypeOK
  /\ \A i \in DOMAIN saved : saved[i].key \notin heap
  /\ dropped \cap heap = {}
  /\ \A i \in Slots : InRing(i) => data[i] \in heap

\* Every record send_msg accepted is in the end stored, or given up after a
\* reported error; only a full ring loses a record unreported to redis.
AcceptedIsSettled ==
  \A r \in Records :
    (r \in called \ refused) ~>
      (r \in dropped \/ \E i \in DOMAIN saved : saved[i].key = r)

-----------------------------------------------------------------------------
RingSize == IF tail <= head THEN head - tail ELSE head + MAX_SMSG - tail

\* The i-th slot from tail on.
SlotAt(i) == IF tail + i - 1 < MAX_SMSG THEN tail + i - 1 ELSE tail + i - 1 - MAX_SMSG

RingContents == [i \in 1 .. RingSize |-> key[SlotAt(i)]]

\* What msg_handler has taken, and what send_msg is about to publish.
Taken == IF recvPc \in {"compress", "free", "set"} THEN <<curKey>> ELSE <<>>
Coming == IF sendPc \in {"fill", "publish"} THEN <<arg>> ELSE <<>>

\* The records a RecordStore would hold, oldest first.
Unsettled == Taken \o RingContents \o Coming

Store == INSTANCE RecordStore
           WITH Capacity <- MAX_SMSG,
                offered <- called,
                queue <- Unsettled,
                stored <- [i \in DOMAIN saved |-> saved[i].data]

\* The two threads and the ring implement a first-in first-out store: no
\* record overtakes another, none is stored twice, none vanishes.
ImplementsStore == Store!Spec

=============================================================================
