---------------------------- MODULE RecordStore -----------------------------
(***************************************************************************)
(* What Replay::async_save promises the table that ends a hand: a bounded  *)
(* first-in first-out store.  A record is taken in or, only when the store *)
(* is as good as full, refused; records taken in leave in order, each      *)
(* either stored or, after an error of the compressor or of redis, lost.   *)
(***************************************************************************)
EXTENDS Naturals, Sequences

CONSTANTS Capacity, Records

VARIABLES
  offered,  \* records async_save was called with
  queue,    \* records taken in and not settled
  stored    \* records in redis, in order

storeVars == <<offered, queue, stored>>

Init == offered = {} /\ queue = <<>> /\ stored = <<>>

TakeIn(r) ==
  /\ r \notin offered
  /\ offered' = offered \cup {r}
  /\ Len(queue) < Capacity
  /\ queue' = Append(queue, r)
  /\ UNCHANGED stored

\* One place may still be held by a record that is being settled.
Refuse(r) ==
  /\ r \notin offered
  /\ offered' = offered \cup {r}
  /\ Len(queue) >= Capacity - 1
  /\ UNCHANGED <<queue, stored>>

Settle ==
  /\ queue # <<>>
  /\ queue' = Tail(queue)
  /\ stored' \in {stored, Append(stored, Head(queue))}
  /\ UNCHANGED offered

Next ==
  \/ \E r \in Records : TakeIn(r) \/ Refuse(r)
  \/ Settle

Spec == Init /\ [][Next]_storeVars /\ WF_storeVars(Settle)

=============================================================================
