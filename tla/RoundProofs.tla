---------------------------- MODULE RoundProofs -----------------------------
(***************************************************************************)
(* Proofs about Round, for any number of seats and any set of tiles of at  *)
(* most four copies: every tile is in one place, every hand has its size,  *)
(* an open win is answered first and a hand can always go on.              *)
(***************************************************************************)
EXTENDS Round, SumProofs

-----------------------------------------------------------------------------
(* Bags of tiles.                                                          *)

\* The fold of Functions.tla is the sum of SumProofs.
LEMMA TotalIsSum == \A f : Total(f) = SumOn(f, DOMAIN f)
BY Zenon DEF Total, FoldFunction, FoldFunctionOnSet, MapThenFoldSet, SumOn, AddsUp

LEMMA SeatsAreFinite == IsFiniteSet(Seats)
BY RoundAssumption, FS_Interval DEF Seats

LEMMA TilesAreFinite == IsFiniteSet(Tiles)
BY RoundAssumption

LEMMA BagFacts ==
  ASSUME NEW b \in Bags
  PROVE  /\ Total(b) \in Nat
         /\ \A t \in Tiles : b[t] \in Nat /\ b[t] <= Total(b)
         /\ Total(b) > 0 => \E t \in Tiles : b[t] > 0
<1>1. DOMAIN b = Tiles /\ \A t \in Tiles : b[t] \in Nat
  BY DEF Bags
<1>2. IsFiniteSet(Tiles)
  BY RoundAssumption
<1>3. Total(b) = SumOn(b, Tiles)
  BY <1>1, TotalIsSum
<1>4. SumOn(b, Tiles) \in Nat /\ \A t \in Tiles : b[t] <= SumOn(b, Tiles)
  BY <1>1, <1>2, SumIsNat
<1>5. SumOn(b, Tiles) # 0 => \E t \in Tiles : b[t] # 0
  BY <1>2, SumHasSummand
<1>. QED
  BY <1>1, <1>3, <1>4, <1>5

\* One entry of a bag changes.
LEMMA BagChanges ==
  ASSUME NEW b \in Bags, NEW t \in Tiles, NEW n \in Nat
  PROVE  /\ [b EXCEPT ![t] = n] \in Bags
         /\ Total([b EXCEPT ![t] = n]) = Total(b) - b[t] + n
<1> DEFINE c == [b EXCEPT ![t] = n]
<1>1. c \in Bags
  BY DEF Bags
<1>2. /\ DOMAIN b = Tiles /\ DOMAIN c = Tiles /\ c[t] = n
      /\ \A x \in Tiles : b[x] \in Int /\ c[x] \in Int
      /\ \A x \in Tiles \ {t} : c[x] = b[x]
  BY DEF Bags
<1> HIDE DEF c
<1>3. SumOn(c, Tiles) = SumOn(b, Tiles) - b[t] + c[t]
  BY <1>2, TilesAreFinite, SumChanges
<1>4. Total(b) = SumOn(b, Tiles) /\ Total(c) = SumOn(c, Tiles)
  BY <1>2, TotalIsSum
<1>5. Total(c) = Total(b) - b[t] + n
  BY <1>2, <1>3, <1>4
<1>. QED
  BY <1>1, <1>5 DEF c

LEMMA AddFacts ==
  ASSUME NEW b \in Bags, NEW t \in Tiles, NEW n \in Nat
  PROVE  /\ Add(b, t, n) \in Bags
         /\ Total(Add(b, t, n)) = Total(b) + n
         /\ \A x \in Tiles : Add(b, t, n)[x] = IF x = t THEN b[x] + n ELSE b[x]
<1>1. b[t] \in Nat /\ Total(b) \in Nat
  BY BagFacts
<1> DEFINE m == b[t] + n
<1>2. Add(b, t, n) = [b EXCEPT ![t] = m]
  BY DEF Add
<1>3. m \in Nat
  BY <1>1
<1>4. /\ Add(b, t, n) \in Bags
      /\ Total(Add(b, t, n)) = Total(b) - b[t] + m
  <2> HIDE DEF m
  <2>. QED
    BY <1>2, <1>3, BagChanges
<1>5. \A x \in Tiles : Add(b, t, n)[x] = IF x = t THEN b[x] + n ELSE b[x]
  BY <1>2 DEF Bags
<1>. QED
  BY <1>1, <1>4, <1>5

LEMMA TakeFacts ==
  ASSUME NEW b \in Bags, NEW t \in Tiles, NEW n \in Nat
  PROVE  /\ Take(b, t, n) \in Bags
         /\ b[t] >= n =>
              /\ Total(Take(b, t, n)) = Total(b) - n
              /\ \A x \in Tiles : Take(b, t, n)[x] = IF x = t THEN b[x] - n ELSE b[x]
<1>1. b[t] \in Nat /\ Total(b) \in Nat
  BY BagFacts
<1> DEFINE m == IF b[t] >= n THEN b[t] - n ELSE 0
<1>2. Take(b, t, n) = [b EXCEPT ![t] = m]
  BY DEF Take
<1>3. m \in Nat
  BY <1>1
<1>5. \A x \in Tiles : Take(b, t, n)[x] = IF x = t THEN m ELSE b[x]
  BY <1>2 DEF Bags
<1>6. b[t] >= n => m = b[t] - n
  OBVIOUS
<1> HIDE DEF m
<1>4. /\ Take(b, t, n) \in Bags
      /\ Total(Take(b, t, n)) = Total(b) - b[t] + m
  BY <1>2, <1>3, BagChanges
<1>. QED
  BY <1>1, <1>4, <1>5, <1>6

-----------------------------------------------------------------------------
(* The record of the table, field by field.  Reading a field of an updated *)
(* record takes only the names of the fields; TableType then holds because *)
(* each of them keeps its type.                                            *)

Names == {"phase", "holes", "discards", "deck", "pengs", "gangs", "fresh", "draws",
          "guo_hu", "guo_peng", "last_actions", "handler_flag", "pao_hu_flag",
          "gang_hu_flag", "ting", "bao_ting", "actions", "cur_seat", "chu_seat",
          "last_action", "last_card", "last_gang_card", "gang_flag", "wait_handle_action",
          "wait_handler_seat", "pao_hu_seat", "gang_hu_seat", "pao_hu_count",
          "gang_hu_count", "win_seatid", "is_re_pao", "is_qiang_gang"}

IsTable(r) == DOMAIN r = Names /\ r = [f \in Names |-> r[f]]

Typed(r) ==
  /\ r.phase \in {"betting", "won", "drawn"}
  /\ r.holes \in [Seats -> Bags]
  /\ r.discards \in [Seats -> Bags]
  /\ r.deck \in Bags
  /\ r.pengs \in [Seats -> SUBSET Tiles]
  /\ r.gangs \in [Seats -> SUBSET [tile : Tiles, flag : {0, 1, 3}]]
  /\ r.fresh \in [Seats -> Tiles \cup {NoTile}]
  /\ r.draws \in [Seats -> 0 .. 2]
  /\ r.guo_hu \in [Seats -> SUBSET Tiles]
  /\ r.guo_peng \in [Seats -> SUBSET Tiles]
  /\ r.last_actions \in [Seats -> Actions \X Actions]
  /\ r.handler_flag \in SUBSET Seats
  /\ r.pao_hu_flag \in SUBSET Seats
  /\ r.gang_hu_flag \in SUBSET Seats
  /\ r.ting \in SUBSET Seats
  /\ r.bao_ting \in SUBSET Seats
  /\ r.actions \in SUBSET {"PENG", "GANG", "GUO", "TING", "HU"}
  /\ r.cur_seat \in Seats
  /\ r.chu_seat \in Seats \cup {NoSeat}
  /\ r.last_action \in Actions
  /\ r.last_card \in Tiles \cup {NoTile}
  /\ r.last_gang_card \in Tiles \cup {NoTile}
  /\ r.gang_flag \in {0, 1, 3}
  /\ r.wait_handle_action \in Actions
  /\ r.wait_handler_seat \in Seats \cup {NoSeat}
  /\ r.pao_hu_seat \in Seats \cup {NoSeat}
  /\ r.gang_hu_seat \in Seats \cup {NoSeat}
  /\ r.pao_hu_count \in Nat
  /\ r.gang_hu_count \in Nat
  /\ r.win_seatid \in Seats \cup {NoSeat}
  /\ r.is_re_pao \in BOOLEAN
  /\ r.is_qiang_gang \in BOOLEAN

Table(r) == IsTable(r) /\ Typed(r)

\* q and r differ in the fields F at most.
Same(q, r, F) ==
  /\ "phase" \in F \/ q.phase = r.phase
  /\ "holes" \in F \/ q.holes = r.holes
  /\ "discards" \in F \/ q.discards = r.discards
  /\ "deck" \in F \/ q.deck = r.deck
  /\ "pengs" \in F \/ q.pengs = r.pengs
  /\ "gangs" \in F \/ q.gangs = r.gangs
  /\ "fresh" \in F \/ q.fresh = r.fresh
  /\ "draws" \in F \/ q.draws = r.draws
  /\ "guo_hu" \in F \/ q.guo_hu = r.guo_hu
  /\ "guo_peng" \in F \/ q.guo_peng = r.guo_peng
  /\ "last_actions" \in F \/ q.last_actions = r.last_actions
  /\ "handler_flag" \in F \/ q.handler_flag = r.handler_flag
  /\ "pao_hu_flag" \in F \/ q.pao_hu_flag = r.pao_hu_flag
  /\ "gang_hu_flag" \in F \/ q.gang_hu_flag = r.gang_hu_flag
  /\ "ting" \in F \/ q.ting = r.ting
  /\ "bao_ting" \in F \/ q.bao_ting = r.bao_ting
  /\ "actions" \in F \/ q.actions = r.actions
  /\ "cur_seat" \in F \/ q.cur_seat = r.cur_seat
  /\ "chu_seat" \in F \/ q.chu_seat = r.chu_seat
  /\ "last_action" \in F \/ q.last_action = r.last_action
  /\ "last_card" \in F \/ q.last_card = r.last_card
  /\ "last_gang_card" \in F \/ q.last_gang_card = r.last_gang_card
  /\ "gang_flag" \in F \/ q.gang_flag = r.gang_flag
  /\ "wait_handle_action" \in F \/ q.wait_handle_action = r.wait_handle_action
  /\ "wait_handler_seat" \in F \/ q.wait_handler_seat = r.wait_handler_seat
  /\ "pao_hu_seat" \in F \/ q.pao_hu_seat = r.pao_hu_seat
  /\ "gang_hu_seat" \in F \/ q.gang_hu_seat = r.gang_hu_seat
  /\ "pao_hu_count" \in F \/ q.pao_hu_count = r.pao_hu_count
  /\ "gang_hu_count" \in F \/ q.gang_hu_count = r.gang_hu_count
  /\ "win_seatid" \in F \/ q.win_seatid = r.win_seatid
  /\ "is_re_pao" \in F \/ q.is_re_pao = r.is_re_pao
  /\ "is_qiang_gang" \in F \/ q.is_qiang_gang = r.is_qiang_gang

LEMMA FieldNames ==
  /\ "phase" \in Names /\ "holes" \in Names /\ "discards" \in Names
  /\ "deck" \in Names /\ "pengs" \in Names /\ "gangs" \in Names
  /\ "fresh" \in Names /\ "draws" \in Names /\ "guo_hu" \in Names
  /\ "guo_peng" \in Names /\ "last_actions" \in Names /\ "handler_flag" \in Names
  /\ "pao_hu_flag" \in Names /\ "gang_hu_flag" \in Names /\ "ting" \in Names
  /\ "bao_ting" \in Names /\ "actions" \in Names /\ "cur_seat" \in Names
  /\ "chu_seat" \in Names /\ "last_action" \in Names /\ "last_card" \in Names
  /\ "last_gang_card" \in Names /\ "gang_flag" \in Names /\ "wait_handle_action" \in Names
  /\ "wait_handler_seat" \in Names /\ "pao_hu_seat" \in Names /\ "gang_hu_seat" \in Names
  /\ "pao_hu_count" \in Names /\ "gang_hu_count" \in Names /\ "win_seatid" \in Names
  /\ "is_re_pao" \in Names /\ "is_qiang_gang" \in Names
BY DEF Names

LEMMA TableOfItsType == \A r : Table(r) => r \in TableType
BY DEF TableType, Table, Typed, IsTable, Names

LEMMA ActionNames ==
  {"NONE", "CHU", "PENG", "GANG", "GUO", "TING", "HU", "CANCEL"} \subseteq Actions
BY DEF Actions

-----------------------------------------------------------------------------
(* What the handlers do to the fields.                                     *)

LEMMA RememberFacts ==
  ASSUME NEW r, Table(r), NEW s \in Seats, NEW a \in Actions,
         NEW q, q = Remember(r, s, a)
  PROVE  /\ Table(q)
         /\ Same(q, r, {"last_action", "last_actions"})
         /\ q.last_action = a
         /\ q.last_actions = [r.last_actions EXCEPT ![s] = <<a, r.last_actions[s][1]>>]
<1>1. /\ IsTable(q)
      /\ Same(q, r, {"last_action", "last_actions"})
      /\ q.last_action = a
      /\ q.last_actions = [r.last_actions EXCEPT ![s] = <<a, r.last_actions[s][1]>>]
  BY FieldNames DEF Remember, Table, IsTable, Same
<1>2. r.last_actions[s][1] \in Actions /\ <<a, r.last_actions[s][1]>> \in Actions \X Actions
  BY DEF Table, Typed
<1>3. q.last_actions \in [Seats -> Actions \X Actions]
  BY <1>1, <1>2 DEF Table, Typed
<1>4. Typed(q)
  BY <1>2, <1>3, <1>1 DEF Table, Typed, Same
<1>. QED
  BY <1>1, <1>4 DEF Table

LEMMA AnswerFlagsFacts ==
  ASSUME NEW r, Table(r), NEW s \in Seats,
         NEW q, q = AnswerFlags(r, s)
  PROVE  /\ Table(q)
         /\ Same(q, r, {"pao_hu_flag", "gang_hu_flag", "pao_hu_seat", "gang_hu_seat"})
         /\ q.pao_hu_flag = r.pao_hu_flag \ {s}
         /\ q.gang_hu_flag = r.gang_hu_flag \ {s}
         /\ q.pao_hu_seat = IF s \in r.pao_hu_flag THEN NoSeat ELSE r.pao_hu_seat
         /\ q.gang_hu_seat = IF s \in r.gang_hu_flag THEN NoSeat ELSE r.gang_hu_seat
<1>1. /\ IsTable(q)
      /\ Same(q, r, {"pao_hu_flag", "gang_hu_flag", "pao_hu_seat", "gang_hu_seat"})
      /\ q.pao_hu_flag = r.pao_hu_flag \ {s}
      /\ q.gang_hu_flag = r.gang_hu_flag \ {s}
      /\ q.pao_hu_seat = IF s \in r.pao_hu_flag THEN NoSeat ELSE r.pao_hu_seat
      /\ q.gang_hu_seat = IF s \in r.gang_hu_flag THEN NoSeat ELSE r.gang_hu_seat
  BY FieldNames DEF AnswerFlags, Table, IsTable, Same
<1>2. Typed(q)
  BY <1>1 DEF Table, Typed, Same
<1>. QED
  BY <1>1, <1>2 DEF Table

LEMMA ChuFacts ==
  ASSUME NEW r, Table(r), NEW s \in Seats, NEW t \in Tiles,
         NEW q, q = HandlerChu(r, s, t)
  PROVE  /\ Table(q)
         /\ Same(q, r, {"last_action", "last_actions", "pao_hu_seat", "pao_hu_flag",
                        "gang_hu_seat", "gang_hu_flag", "last_card", "chu_seat", "holes",
                        "discards", "guo_peng", "handler_flag", "wait_handle_action",
                        "wait_handler_seat"})
         /\ q.last_action = "CHU"
         /\ q.last_actions = [r.last_actions EXCEPT ![s] = <<"CHU", r.last_actions[s][1]>>]
         /\ q.last_card = t /\ q.chu_seat = s
         /\ q.holes = [r.holes EXCEPT ![s] = Take(r.holes[s], t, 1)]
         /\ q.discards = [r.discards EXCEPT ![s] = Add(r.discards[s], t, 1)]
         /\ q.handler_flag = {} /\ q.wait_handle_action = "CHU" /\ q.wait_handler_seat = s
         /\ q.pao_hu_flag = r.pao_hu_flag \ {s}
         /\ q.gang_hu_flag = r.gang_hu_flag \ {s}
         /\ q.pao_hu_seat = IF s \in r.pao_hu_flag THEN NoSeat ELSE r.pao_hu_seat
         /\ q.gang_hu_seat = IF s \in r.gang_hu_flag THEN NoSeat ELSE r.gang_hu_seat
<1>1. PICK m : m = Remember(r, s, "CHU")
  OBVIOUS
<1>2. PICK p : p = AnswerFlags(m, s)
  OBVIOUS
<1>3. /\ Table(m)
      /\ Same(m, r, {"last_action", "last_actions"})
      /\ m.last_action = "CHU"
      /\ m.last_actions = [r.last_actions EXCEPT ![s] = <<"CHU", r.last_actions[s][1]>>]
  BY <1>1, RememberFacts, ActionNames
<1>4. /\ Table(p)
      /\ Same(p, m, {"pao_hu_seat", "pao_hu_flag", "gang_hu_seat", "gang_hu_flag"})
      /\ p.pao_hu_flag = m.pao_hu_flag \ {s}
      /\ p.gang_hu_flag = m.gang_hu_flag \ {s}
      /\ p.pao_hu_seat = IF s \in m.pao_hu_flag THEN NoSeat ELSE m.pao_hu_seat
      /\ p.gang_hu_seat = IF s \in m.gang_hu_flag THEN NoSeat ELSE m.gang_hu_seat
  BY <1>2, <1>3, AnswerFlagsFacts
<1>5. /\ IsTable(q)
      /\ Same(q, p, {"last_card", "chu_seat", "holes", "discards", "guo_peng",
                     "handler_flag", "wait_handle_action", "wait_handler_seat"})
      /\ q.last_card = t
      /\ q.chu_seat = s
      /\ q.holes = [p.holes EXCEPT ![s] = Take(p.holes[s], t, 1)]
      /\ q.discards = [p.discards EXCEPT ![s] = Add(p.discards[s], t, 1)]
      /\ q.guo_peng = [p.guo_peng EXCEPT ![s] = {}]
      /\ q.handler_flag = {}
      /\ q.wait_handle_action = "CHU"
      /\ q.wait_handler_seat = s
  BY <1>1, <1>2, <1>4, FieldNames DEF HandlerChu, Table, IsTable, Same
<1>6. Same(q, r, {"last_action", "last_actions", "pao_hu_seat", "pao_hu_flag",
                  "gang_hu_seat", "gang_hu_flag", "last_card", "chu_seat", "holes",
                  "discards", "guo_peng", "handler_flag", "wait_handle_action",
                  "wait_handler_seat"})
  BY <1>3, <1>4, <1>5 DEF Same
<1>7. /\ p.holes = r.holes
      /\ p.discards = r.discards
      /\ p.guo_peng = r.guo_peng
      /\ p.last_action = "CHU"
      /\ p.last_actions = [r.last_actions EXCEPT ![s] = <<"CHU", r.last_actions[s][1]>>]
      /\ p.pao_hu_flag = r.pao_hu_flag \ {s}
      /\ p.gang_hu_flag = r.gang_hu_flag \ {s}
      /\ p.pao_hu_seat = IF s \in r.pao_hu_flag THEN NoSeat ELSE r.pao_hu_seat
      /\ p.gang_hu_seat = IF s \in r.gang_hu_flag THEN NoSeat ELSE r.gang_hu_seat
  BY <1>3, <1>4 DEF Same
<1>8. /\ q.last_action = "CHU"
      /\ q.last_actions = [r.last_actions EXCEPT ![s] = <<"CHU", r.last_actions[s][1]>>]
      /\ q.last_card = t /\ q.chu_seat = s
      /\ q.holes = [r.holes EXCEPT ![s] = Take(r.holes[s], t, 1)]
      /\ q.discards = [r.discards EXCEPT ![s] = Add(r.discards[s], t, 1)]
      /\ q.handler_flag = {} /\ q.wait_handle_action = "CHU" /\ q.wait_handler_seat = s
      /\ q.pao_hu_flag = r.pao_hu_flag \ {s}
      /\ q.gang_hu_flag = r.gang_hu_flag \ {s}
      /\ q.pao_hu_seat = IF s \in r.pao_hu_flag THEN NoSeat ELSE r.pao_hu_seat
      /\ q.gang_hu_seat = IF s \in r.gang_hu_flag THEN NoSeat ELSE r.gang_hu_seat
  BY <1>7, <1>5 DEF Same
<1>9. Take(r.holes[s], t, 1) \in Bags /\ Add(r.discards[s], t, 1) \in Bags
  BY AddFacts, TakeFacts DEF Table, Typed
<1>10. q.holes \in [Seats -> Bags] /\ q.discards \in [Seats -> Bags]
  BY <1>8, <1>9 DEF Table, Typed
<1>11. q.wait_handle_action \in Actions
  BY <1>8, ActionNames
<1>12. Typed(q)
  BY <1>9, <1>10, <1>11, <1>4, <1>5 DEF Table, Typed, Same
<1>. QED
  BY <1>5, <1>6, <1>8, <1>12 DEF Table

LEMMA PengFacts ==
  ASSUME NEW r, Table(r), NEW s \in Seats, r.last_card \in Tiles, r.chu_seat \in Seats,
         NEW q, q = HandlerPeng(r, s)
  PROVE  /\ Table(q)
         /\ Same(q, r, {"last_action", "last_actions", "pao_hu_seat", "pao_hu_flag",
                        "gang_hu_seat", "gang_hu_flag", "holes", "discards", "pengs",
                        "guo_hu", "guo_peng"})
         /\ q.last_action = "PENG"
         /\ q.last_actions = [r.last_actions EXCEPT ![s] = <<"PENG", r.last_actions[s][1]>>]
         /\ q.holes = [r.holes EXCEPT ![s] = Take(r.holes[s], r.last_card, 2)]
         /\ q.discards = [r.discards EXCEPT ![r.chu_seat] = Take(r.discards[r.chu_seat], r.last_card, 1)]
         /\ q.pengs = [r.pengs EXCEPT ![s] = r.pengs[s] \cup {r.last_card}]
         /\ q.pao_hu_flag = r.pao_hu_flag \ {s}
         /\ q.gang_hu_flag = r.gang_hu_flag \ {s}
         /\ q.pao_hu_seat = IF s \in r.pao_hu_flag THEN NoSeat ELSE r.pao_hu_seat
         /\ q.gang_hu_seat = IF s \in r.gang_hu_flag THEN NoSeat ELSE r.gang_hu_seat
<1>1. PICK m : m = Remember(r, s, "PENG")
  OBVIOUS
<1>2. PICK p : p = AnswerFlags(m, s)
  OBVIOUS
<1>3. /\ Table(m)
      /\ Same(m, r, {"last_action", "last_actions"})
      /\ m.last_action = "PENG"
      /\ m.last_actions = [r.last_actions EXCEPT ![s] = <<"PENG", r.last_actions[s][1]>>]
  BY <1>1, RememberFacts, ActionNames
<1>4. /\ Table(p)
      /\ Same(p, m, {"pao_hu_seat", "pao_hu_flag", "gang_hu_seat", "gang_hu_flag"})
      /\ p.pao_hu_flag = m.pao_hu_flag \ {s}
      /\ p.gang_hu_flag = m.gang_hu_flag \ {s}
      /\ p.pao_hu_seat = IF s \in m.pao_hu_flag THEN NoSeat ELSE m.pao_hu_seat
      /\ p.gang_hu_seat = IF s \in m.gang_hu_flag THEN NoSeat ELSE m.gang_hu_seat
  BY <1>2, <1>3, AnswerFlagsFacts
<1>5. /\ IsTable(q)
      /\ Same(q, p, {"holes", "discards", "pengs", "guo_hu", "guo_peng"})
      /\ q.holes = [p.holes EXCEPT ![s] = Take(p.holes[s], r.last_card, 2)]
      /\ q.discards = [p.discards EXCEPT ![r.chu_seat] = Take(p.discards[r.chu_seat], r.last_card, 1)]
      /\ q.pengs = [p.pengs EXCEPT ![s] = p.pengs[s] \cup {r.last_card}]
      /\ q.guo_hu = [p.guo_hu EXCEPT ![s] = {}]
      /\ q.guo_peng = [p.guo_peng EXCEPT ![s] = {}]
  BY <1>1, <1>2, <1>4, FieldNames DEF HandlerPeng, Table, IsTable, Same
<1>6. Same(q, r, {"last_action", "last_actions", "pao_hu_seat", "pao_hu_flag",
                  "gang_hu_seat", "gang_hu_flag", "holes", "discards", "pengs", "guo_hu",
                  "guo_peng"})
  BY <1>3, <1>4, <1>5 DEF Same
<1>7. /\ p.holes = r.holes
      /\ p.discards = r.discards
      /\ p.pengs = r.pengs
      /\ p.guo_hu = r.guo_hu
      /\ p.guo_peng = r.guo_peng
      /\ p.last_action = "PENG"
      /\ p.last_actions = [r.last_actions EXCEPT ![s] = <<"PENG", r.last_actions[s][1]>>]
      /\ p.pao_hu_flag = r.pao_hu_flag \ {s}
      /\ p.gang_hu_flag = r.gang_hu_flag \ {s}
      /\ p.pao_hu_seat = IF s \in r.pao_hu_flag THEN NoSeat ELSE r.pao_hu_seat
      /\ p.gang_hu_seat = IF s \in r.gang_hu_flag THEN NoSeat ELSE r.gang_hu_seat
  BY <1>3, <1>4 DEF Same
<1>8. /\ q.last_action = "PENG"
      /\ q.last_actions = [r.last_actions EXCEPT ![s] = <<"PENG", r.last_actions[s][1]>>]
      /\ q.holes = [r.holes EXCEPT ![s] = Take(r.holes[s], r.last_card, 2)]
      /\ q.discards = [r.discards EXCEPT ![r.chu_seat] = Take(r.discards[r.chu_seat], r.last_card, 1)]
      /\ q.pengs = [r.pengs EXCEPT ![s] = r.pengs[s] \cup {r.last_card}]
      /\ q.pao_hu_flag = r.pao_hu_flag \ {s}
      /\ q.gang_hu_flag = r.gang_hu_flag \ {s}
      /\ q.pao_hu_seat = IF s \in r.pao_hu_flag THEN NoSeat ELSE r.pao_hu_seat
      /\ q.gang_hu_seat = IF s \in r.gang_hu_flag THEN NoSeat ELSE r.gang_hu_seat
  BY <1>7, <1>5 DEF Same
<1>9. /\ Take(r.holes[s], r.last_card, 2) \in Bags
      /\ Take(r.discards[r.chu_seat], r.last_card, 1) \in Bags
  BY TakeFacts DEF Table, Typed
<1>10. q.holes \in [Seats -> Bags] /\ q.discards \in [Seats -> Bags]
  BY <1>8, <1>9 DEF Table, Typed
<1>11. Typed(q)
  BY <1>9, <1>10, <1>4, <1>5 DEF Table, Typed, Same
<1>. QED
  BY <1>5, <1>6, <1>8, <1>11 DEF Table

LEMMA GuoFacts ==
  ASSUME NEW r, Table(r), NEW s \in Seats, HasExtraTile(r, s) \/ r.last_card \in Tiles,
         NEW q, q = HandlerGuo(r, s)
  PROVE  /\ Table(q)
         /\ Same(q, r, {"last_action", "pao_hu_seat", "pao_hu_flag", "gang_hu_seat",
                        "gang_hu_flag", "guo_hu", "guo_peng", "handler_flag"})
         /\ q.last_action = "GUO"
         /\ q.handler_flag = r.handler_flag \cup {s}
         /\ \A x \in Seats \ {s} : q.guo_peng[x] = r.guo_peng[x]
         /\ q.pao_hu_flag = r.pao_hu_flag \ {s}
         /\ q.gang_hu_flag = r.gang_hu_flag \ {s}
         /\ q.pao_hu_seat = IF s \in r.pao_hu_flag THEN NoSeat ELSE r.pao_hu_seat
         /\ q.gang_hu_seat = IF s \in r.gang_hu_flag THEN NoSeat ELSE r.gang_hu_seat
<1>1. PICK m : m = [r EXCEPT !.last_action = "GUO"]
  OBVIOUS
<1>2. PICK p : p = AnswerFlags(m, s)
  OBVIOUS
<1>3. /\ Table(m)
      /\ Same(m, r, {"last_action"})
      /\ m.last_action = "GUO"
  BY <1>1, FieldNames, ActionNames DEF Table, IsTable, Typed, Same
<1>4. /\ Table(p)
      /\ Same(p, m, {"pao_hu_seat", "pao_hu_flag", "gang_hu_seat", "gang_hu_flag"})
      /\ p.pao_hu_flag = m.pao_hu_flag \ {s}
      /\ p.gang_hu_flag = m.gang_hu_flag \ {s}
      /\ p.pao_hu_seat = IF s \in m.pao_hu_flag THEN NoSeat ELSE m.pao_hu_seat
      /\ p.gang_hu_seat = IF s \in m.gang_hu_flag THEN NoSeat ELSE m.gang_hu_seat
  BY <1>2, <1>3, AnswerFlagsFacts
<1>5. /\ IsTable(q)
      /\ Same(q, p, {"guo_hu", "guo_peng", "handler_flag"})
      /\ q.guo_hu = [p.guo_hu EXCEPT ![s] = IF "HU" \in r.actions /\ ~ HasExtraTile(r, s)
                                         THEN p.guo_hu[s] \cup {r.last_card} ELSE p.guo_hu[s]]
      /\ q.guo_peng = [p.guo_peng EXCEPT ![s] = IF "PENG" \in r.actions /\ ~ HasExtraTile(r, s)
                                             THEN p.guo_peng[s] \cup {r.last_card} ELSE p.guo_peng[s]]
      /\ q.handler_flag = p.handler_flag \cup {s}
  BY <1>1, <1>2, <1>4, FieldNames DEF HandlerGuo, Table, IsTable, Same
<1>6. Same(q, r, {"last_action", "pao_hu_seat", "pao_hu_flag", "gang_hu_seat",
                  "gang_hu_flag", "guo_hu", "guo_peng", "handler_flag"})
  BY <1>3, <1>4, <1>5 DEF Same
<1>7. /\ p.guo_hu = r.guo_hu
      /\ p.guo_peng = r.guo_peng
      /\ p.handler_flag = r.handler_flag
      /\ p.last_action = "GUO"
      /\ p.pao_hu_flag = r.pao_hu_flag \ {s}
      /\ p.gang_hu_flag = r.gang_hu_flag \ {s}
      /\ p.pao_hu_seat = IF s \in r.pao_hu_flag THEN NoSeat ELSE r.pao_hu_seat
      /\ p.gang_hu_seat = IF s \in r.gang_hu_flag THEN NoSeat ELSE r.gang_hu_seat
  BY <1>3, <1>4 DEF Same
<1>8. /\ q.last_action = "GUO"
      /\ q.handler_flag = r.handler_flag \cup {s}
      /\ \A x \in Seats \ {s} : q.guo_peng[x] = r.guo_peng[x]
      /\ q.pao_hu_flag = r.pao_hu_flag \ {s}
      /\ q.gang_hu_flag = r.gang_hu_flag \ {s}
      /\ q.pao_hu_seat = IF s \in r.pao_hu_flag THEN NoSeat ELSE r.pao_hu_seat
      /\ q.gang_hu_seat = IF s \in r.gang_hu_flag THEN NoSeat ELSE r.gang_hu_seat
  BY <1>7, <1>5 DEF Same
<1>9. Typed(q)
  BY <1>4, <1>5 DEF Table, Typed, Same
<1>. QED
  BY <1>5, <1>6, <1>8, <1>9 DEF Table

LEMMA TingFacts ==
  ASSUME NEW r, Table(r), NEW s \in Seats, NEW t \in Tiles,
         NEW q, q = HandlerTing(r, s, t)
  PROVE  /\ Table(q)
         /\ Same(q, r, {"last_action", "last_actions", "last_card", "chu_seat", "holes",
                        "discards", "bao_ting", "ting"})
         /\ q.last_action = "TING"
         /\ q.last_actions = [r.last_actions EXCEPT ![s] = <<"TING", r.last_actions[s][1]>>]
         /\ q.last_card = t /\ q.chu_seat = s
         /\ q.holes = [r.holes EXCEPT ![s] = Take(r.holes[s], t, 1)]
         /\ q.discards = [r.discards EXCEPT ![s] = Add(r.discards[s], t, 1)]
         /\ q.ting = r.ting \cup {s}
         /\ q.bao_ting = IF r.last_actions[s][1] = "NONE" THEN r.bao_ting \cup {s} ELSE r.bao_ting
<1>1. PICK m : m = Remember(r, s, "TING")
  OBVIOUS
<1>2. /\ Table(m)
      /\ Same(m, r, {"last_action", "last_actions"})
      /\ m.last_action = "TING"
      /\ m.last_actions = [r.last_actions EXCEPT ![s] = <<"TING", r.last_actions[s][1]>>]
  BY <1>1, RememberFacts, ActionNames
<1>3. /\ IsTable(q)
      /\ Same(q, m, {"last_card", "chu_seat", "holes", "discards", "bao_ting", "ting"})
      /\ q.last_card = t
      /\ q.chu_seat = s
      /\ q.holes = [m.holes EXCEPT ![s] = Take(m.holes[s], t, 1)]
      /\ q.discards = [m.discards EXCEPT ![s] = Add(m.discards[s], t, 1)]
      /\ q.bao_ting = IF r.last_actions[s][1] = "NONE" THEN m.bao_ting \cup {s} ELSE m.bao_ting
      /\ q.ting = m.ting \cup {s}
  BY <1>1, <1>2, FieldNames DEF HandlerTing, Table, IsTable, Same
<1>4. Same(q, r, {"last_action", "last_actions", "last_card", "chu_seat", "holes",
                  "discards", "bao_ting", "ting"})
  BY <1>2, <1>3 DEF Same
<1>5. /\ q.last_action = "TING"
      /\ q.last_actions = [r.last_actions EXCEPT ![s] = <<"TING", r.last_actions[s][1]>>]
      /\ q.last_card = t /\ q.chu_seat = s
      /\ q.holes = [r.holes EXCEPT ![s] = Take(r.holes[s], t, 1)]
      /\ q.discards = [r.discards EXCEPT ![s] = Add(r.discards[s], t, 1)]
      /\ q.ting = r.ting \cup {s}
      /\ q.bao_ting = IF r.last_actions[s][1] = "NONE" THEN r.bao_ting \cup {s} ELSE r.bao_ting
  BY <1>2, <1>3 DEF Same
<1>6. Take(r.holes[s], t, 1) \in Bags /\ Add(r.discards[s], t, 1) \in Bags
  BY AddFacts, TakeFacts DEF Table, Typed
<1>7. q.holes \in [Seats -> Bags] /\ q.discards \in [Seats -> Bags]
  BY <1>5, <1>6 DEF Table, Typed
<1>8. q.ting \in SUBSET Seats /\ q.bao_ting \in SUBSET Seats
  BY <1>5 DEF Table, Typed
<1>9. Typed(q)
  BY <1>6, <1>7, <1>8, <1>2, <1>3 DEF Table, Typed, Same
<1>. QED
  BY <1>3, <1>4, <1>5, <1>9 DEF Table

LEMMA HuFacts ==
  ASSUME NEW r, Table(r), NEW s \in Seats,
         NEW q, q = HandlerHu(r, s)
  PROVE  /\ Table(q)
         /\ Same(q, r, {"last_action", "last_actions", "win_seatid", "is_re_pao",
                        "is_qiang_gang", "phase"})
         /\ q.last_action = "HU"
         /\ q.win_seatid = s /\ q.phase = "won"
<1>1. PICK m : m = Remember(r, s, "HU")
  OBVIOUS
<1>2. /\ Table(m)
      /\ Same(m, r, {"last_action", "last_actions"})
      /\ m.last_action = "HU"
      /\ m.last_actions = [r.last_actions EXCEPT ![s] = <<"HU", r.last_actions[s][1]>>]
  BY <1>1, RememberFacts, ActionNames
<1>3. /\ IsTable(q)
      /\ Same(q, m, {"win_seatid", "is_re_pao", "is_qiang_gang", "phase"})
      /\ q.win_seatid = s
      /\ q.is_re_pao = (/\ r.pao_hu_seat # NoSeat \/ r.gang_hu_seat # NoSeat
                        /\ m.last_actions[r.chu_seat] = <<"CHU", "GANG">>)
      /\ q.is_qiang_gang = (r.gang_hu_seat # NoSeat)
      /\ q.phase = "won"
  BY <1>1, <1>2, FieldNames DEF HandlerHu, Table, IsTable, Same
<1>4. Same(q, r, {"last_action", "last_actions", "win_seatid", "is_re_pao",
                  "is_qiang_gang", "phase"})
  BY <1>2, <1>3 DEF Same
<1>5. /\ q.last_action = "HU"
      /\ q.win_seatid = s /\ q.phase = "won"
  BY <1>2, <1>3 DEF Same
<1>6. q.is_re_pao \in BOOLEAN /\ q.is_qiang_gang \in BOOLEAN
  BY <1>3
<1>7. Typed(q)
  BY <1>6, <1>2, <1>3 DEF Table, Typed, Same
<1>. QED
  BY <1>3, <1>4, <1>5, <1>7 DEF Table


\* How many of a gang's tiles leave the hand.
GangTakes(g) == IF g.flag = 0 THEN 3 ELSE IF g.flag = 1 THEN 1 ELSE 4

\* handler_gang, but for the discard that a claim takes.
LayDown(r, s, g) ==
  [r EXCEPT !.holes[s] = Take(@, g.tile, GangTakes(g)),
            !.pengs[s] = IF g.flag = 1 THEN @ \ {g.tile} ELSE @,
            !.gangs[s] = @ \cup {g},
            !.gang_flag = g.flag,
            !.guo_hu[s] = {},
            !.guo_peng[s] = {},
            !.last_gang_card = g.tile,
            !.wait_handle_action = "GANG",
            !.wait_handler_seat = s]

LEMMA LayDownFacts ==
  ASSUME NEW r, Table(r), NEW s \in Seats, NEW g \in [tile : Tiles, flag : {0, 1, 3}],
         NEW q, q = LayDown(r, s, g)
  PROVE  /\ Table(q)
         /\ Same(q, r, {"holes", "pengs", "gangs", "gang_flag", "guo_hu", "guo_peng",
                        "last_gang_card", "wait_handle_action", "wait_handler_seat"})
         /\ q.holes = [r.holes EXCEPT ![s] = Take(r.holes[s], g.tile, GangTakes(g))]
         /\ q.pengs = [r.pengs EXCEPT ![s] = IF g.flag = 1 THEN r.pengs[s] \ {g.tile} ELSE r.pengs[s]]
         /\ q.gangs = [r.gangs EXCEPT ![s] = r.gangs[s] \cup {g}]
         /\ q.gang_flag = g.flag
         /\ q.last_gang_card = g.tile
         /\ q.wait_handle_action = "GANG"
         /\ q.wait_handler_seat = s
<1>1. /\ IsTable(q)
      /\ Same(q, r, {"holes", "pengs", "gangs", "gang_flag", "guo_hu", "guo_peng",
                     "last_gang_card", "wait_handle_action", "wait_handler_seat"})
      /\ q.holes = [r.holes EXCEPT ![s] = Take(r.holes[s], g.tile, GangTakes(g))]
      /\ q.pengs = [r.pengs EXCEPT ![s] = IF g.flag = 1 THEN r.pengs[s] \ {g.tile} ELSE r.pengs[s]]
      /\ q.gangs = [r.gangs EXCEPT ![s] = r.gangs[s] \cup {g}]
      /\ q.gang_flag = g.flag
      /\ q.guo_hu = [r.guo_hu EXCEPT ![s] = {}]
      /\ q.guo_peng = [r.guo_peng EXCEPT ![s] = {}]
      /\ q.last_gang_card = g.tile
      /\ q.wait_handle_action = "GANG"
      /\ q.wait_handler_seat = s
  BY FieldNames DEF LayDown, Table, IsTable, Same
<1>2. g.tile \in Tiles /\ g.flag \in {0, 1, 3} /\ GangTakes(g) \in Nat
  BY DEF GangTakes
<1>3. Take(r.holes[s], g.tile, GangTakes(g)) \in Bags
  BY <1>2, TakeFacts DEF Table, Typed
<1>4. q.holes \in [Seats -> Bags]
  BY <1>1, <1>3 DEF Table, Typed
<1>5. q.gangs \in [Seats -> SUBSET [tile : Tiles, flag : {0, 1, 3}]]
  BY <1>1 DEF Table, Typed
<1>6. q.wait_handle_action \in Actions
  BY <1>1, ActionNames
<1>7. Typed(q)
  BY <1>2, <1>3, <1>4, <1>5, <1>6, <1>1 DEF Table, Typed, Same
<1>. QED
  BY <1>1, <1>7 DEF Table

\* The table handler_gang leaves.
GangOutcome(r, q, s, g) ==
  /\ Table(q)
  /\ Same(q, r, {"last_action", "last_actions", "pao_hu_seat", "pao_hu_flag",
                 "gang_hu_seat", "gang_hu_flag", "holes", "pengs", "gangs",
                 "gang_flag", "guo_hu", "guo_peng", "last_gang_card",
                 "wait_handle_action", "wait_handler_seat", "discards"})
  /\ q.last_action = "GANG"
  /\ q.last_actions = [r.last_actions EXCEPT ![s] = <<"GANG", r.last_actions[s][1]>>]
  /\ q.holes = [r.holes EXCEPT ![s] = Take(r.holes[s], g.tile, GangTakes(g))]
  /\ q.pengs = [r.pengs EXCEPT ![s] = IF g.flag = 1 THEN r.pengs[s] \ {g.tile} ELSE r.pengs[s]]
  /\ q.gangs = [r.gangs EXCEPT ![s] = r.gangs[s] \cup {g}]
  /\ q.gang_flag = g.flag
  /\ q.last_gang_card = g.tile
  /\ q.wait_handle_action = "GANG"
  /\ q.wait_handler_seat = s
  /\ q.pao_hu_flag = r.pao_hu_flag \ {s}
  /\ q.gang_hu_flag = r.gang_hu_flag \ {s}
  /\ q.pao_hu_seat = IF s \in r.pao_hu_flag THEN NoSeat ELSE r.pao_hu_seat
  /\ q.gang_hu_seat = IF s \in r.gang_hu_flag THEN NoSeat ELSE r.gang_hu_seat
  /\ q.discards = IF g.flag = 0 THEN [r.discards EXCEPT ![r.chu_seat] = Take(r.discards[r.chu_seat], g.tile, 1)]
                  ELSE r.discards

LEMMA GangFacts ==
  ASSUME NEW r, Table(r), NEW s \in Seats, NEW g \in [tile : Tiles, flag : {0, 1, 3}],
         g.flag = 0 => r.chu_seat \in Seats,
         NEW q, q = HandlerGang(r, s, g)
  PROVE  GangOutcome(r, q, s, g)
<1>1. PICK m : m = Remember(r, s, "GANG")
  OBVIOUS
<1>2. PICK p : p = AnswerFlags(m, s)
  OBVIOUS
<1>3. PICK w : w = LayDown(p, s, g)
  OBVIOUS
<1>4. /\ Table(m)
      /\ Same(m, r, {"last_action", "last_actions"})
      /\ m.last_action = "GANG"
      /\ m.last_actions = [r.last_actions EXCEPT ![s] = <<"GANG", r.last_actions[s][1]>>]
  BY <1>1, RememberFacts, ActionNames
<1>5. /\ Table(p)
      /\ Same(p, m, {"pao_hu_seat", "pao_hu_flag", "gang_hu_seat", "gang_hu_flag"})
      /\ p.pao_hu_flag = m.pao_hu_flag \ {s}
      /\ p.gang_hu_flag = m.gang_hu_flag \ {s}
      /\ p.pao_hu_seat = IF s \in m.pao_hu_flag THEN NoSeat ELSE m.pao_hu_seat
      /\ p.gang_hu_seat = IF s \in m.gang_hu_flag THEN NoSeat ELSE m.gang_hu_seat
  BY <1>2, <1>4, AnswerFlagsFacts
<1>6. /\ Table(w)
      /\ Same(w, p, {"holes", "pengs", "gangs", "gang_flag", "guo_hu", "guo_peng",
                     "last_gang_card", "wait_handle_action", "wait_handler_seat"})
      /\ w.holes = [p.holes EXCEPT ![s] = Take(p.holes[s], g.tile, GangTakes(g))]
      /\ w.pengs = [p.pengs EXCEPT ![s] = IF g.flag = 1 THEN p.pengs[s] \ {g.tile} ELSE p.pengs[s]]
      /\ w.gangs = [p.gangs EXCEPT ![s] = p.gangs[s] \cup {g}]
      /\ w.gang_flag = g.flag
      /\ w.last_gang_card = g.tile
      /\ w.wait_handle_action = "GANG"
      /\ w.wait_handler_seat = s
  BY <1>3, <1>5, LayDownFacts
<1>7. Same(w, r, {"last_action", "last_actions", "pao_hu_seat", "pao_hu_flag",
                  "gang_hu_seat", "gang_hu_flag", "holes", "pengs", "gangs", "gang_flag",
                  "guo_hu", "guo_peng", "last_gang_card", "wait_handle_action",
                  "wait_handler_seat"})
  BY <1>4, <1>5, <1>6 DEF Same
<1>8. /\ p.holes = r.holes
      /\ p.pengs = r.pengs
      /\ p.gangs = r.gangs
      /\ p.last_action = "GANG"
      /\ p.last_actions = [r.last_actions EXCEPT ![s] = <<"GANG", r.last_actions[s][1]>>]
      /\ p.pao_hu_flag = r.pao_hu_flag \ {s}
      /\ p.gang_hu_flag = r.gang_hu_flag \ {s}
      /\ p.pao_hu_seat = IF s \in r.pao_hu_flag THEN NoSeat ELSE r.pao_hu_seat
      /\ p.gang_hu_seat = IF s \in r.gang_hu_flag THEN NoSeat ELSE r.gang_hu_seat
  BY <1>4, <1>5 DEF Same
<1>9. /\ w.last_action = "GANG"
      /\ w.last_actions = [r.last_actions EXCEPT ![s] = <<"GANG", r.last_actions[s][1]>>]
      /\ w.holes = [r.holes EXCEPT ![s] = Take(r.holes[s], g.tile, GangTakes(g))]
      /\ w.pengs = [r.pengs EXCEPT ![s] = IF g.flag = 1 THEN r.pengs[s] \ {g.tile} ELSE r.pengs[s]]
      /\ w.gangs = [r.gangs EXCEPT ![s] = r.gangs[s] \cup {g}]
      /\ w.gang_flag = g.flag
      /\ w.last_gang_card = g.tile
      /\ w.wait_handle_action = "GANG"
      /\ w.wait_handler_seat = s
      /\ w.pao_hu_flag = r.pao_hu_flag \ {s}
      /\ w.gang_hu_flag = r.gang_hu_flag \ {s}
      /\ w.pao_hu_seat = IF s \in r.pao_hu_flag THEN NoSeat ELSE r.pao_hu_seat
      /\ w.gang_hu_seat = IF s \in r.gang_hu_flag THEN NoSeat ELSE r.gang_hu_seat
  BY <1>6, <1>8 DEF Same
<1>10. GangTakes(g) = CASE g.flag = 0 -> 3 [] g.flag = 1 -> 1 [] g.flag = 3 -> 4
  <2>1. g.flag = 0 \/ g.flag = 1 \/ g.flag = 3
    OBVIOUS
  <2>. QED
    BY <2>1 DEF GangTakes
<1>11. q = IF g.flag = 0 THEN [w EXCEPT !.discards[r.chu_seat] = Take(@, g.tile, 1)] ELSE w
  BY <1>1, <1>2, <1>3, <1>10 DEF HandlerGang, LayDown
<1>12. CASE g.flag # 0
  <2>1. q = w /\ q.discards = r.discards
    BY <1>7, <1>11, <1>12 DEF Same
  <2>2. Same(q, r, {"last_action", "last_actions", "pao_hu_seat", "pao_hu_flag",
                    "gang_hu_seat", "gang_hu_flag", "holes", "pengs", "gangs",
                    "gang_flag", "guo_hu", "guo_peng", "last_gang_card",
                    "wait_handle_action", "wait_handler_seat", "discards"})
    BY <1>7, <2>1 DEF Same
  <2>. QED
    BY <1>6, <1>9, <1>12, <2>1, <2>2 DEF GangOutcome
<1>13. CASE g.flag = 0
  <2>1. q = [w EXCEPT !.discards[r.chu_seat] = Take(@, g.tile, 1)]
    BY <1>11, <1>13
  <2>2. /\ IsTable(q)
        /\ Same(q, w, {"discards"})
        /\ q.discards = [w.discards EXCEPT ![r.chu_seat] = Take(w.discards[r.chu_seat], g.tile, 1)]
    BY <1>6, <2>1, FieldNames DEF Table, IsTable, Same
  <2>3. w.discards = r.discards
    BY <1>7 DEF Same
  <2>4. Take(r.discards[r.chu_seat], g.tile, 1) \in Bags
    BY <1>13, TakeFacts DEF Table, Typed
  <2>5. q.discards \in [Seats -> Bags]
    <3>1. r.discards \in [Seats -> Bags] /\ r.chu_seat \in Seats
      BY <1>13 DEF Table, Typed
    <3>. QED
      BY <2>2, <2>3, <2>4, <3>1
  <2>6. Typed(q)
    BY <1>6, <2>2, <2>5 DEF Table, Typed, Same
  <2>7. Same(q, r, {"last_action", "last_actions", "pao_hu_seat", "pao_hu_flag",
                    "gang_hu_seat", "gang_hu_flag", "holes", "pengs", "gangs",
                    "gang_flag", "guo_hu", "guo_peng", "last_gang_card",
                    "wait_handle_action", "wait_handler_seat", "discards"})
    BY <1>7, <2>2 DEF Same
  <2>8. /\ q.last_action = "GANG"
        /\ q.last_actions = [r.last_actions EXCEPT ![s] = <<"GANG", r.last_actions[s][1]>>]
        /\ q.holes = [r.holes EXCEPT ![s] = Take(r.holes[s], g.tile, GangTakes(g))]
        /\ q.pengs = [r.pengs EXCEPT ![s] = IF g.flag = 1 THEN r.pengs[s] \ {g.tile} ELSE r.pengs[s]]
        /\ q.gangs = [r.gangs EXCEPT ![s] = r.gangs[s] \cup {g}]
        /\ q.gang_flag = g.flag
        /\ q.last_gang_card = g.tile
        /\ q.wait_handle_action = "GANG"
        /\ q.wait_handler_seat = s
        /\ q.pao_hu_flag = r.pao_hu_flag \ {s}
        /\ q.gang_hu_flag = r.gang_hu_flag \ {s}
        /\ q.pao_hu_seat = IF s \in r.pao_hu_flag THEN NoSeat ELSE r.pao_hu_seat
        /\ q.gang_hu_seat = IF s \in r.gang_hu_flag THEN NoSeat ELSE r.gang_hu_seat
    BY <1>9, <2>2 DEF Same
  <2>. QED
    BY <1>13, <2>2, <2>3, <2>6, <2>7, <2>8 DEF Table, GangOutcome
<1>. QED
  BY <1>12, <1>13

-----------------------------------------------------------------------------
(* Seats, and what next_player_seat and start_next_bet leave alone.        *)

LEMMA NextSeat == \A s \in Seats : NextBettingSeat(s) \in Seats
BY RoundAssumption DEF NextBettingSeat, After, Seats

LEMMA LeastElement ==
  ASSUME NEW n \in Nat, NEW I, I \subseteq 1 .. n, I # {}
  PROVE  \E i \in I : \A j \in I : i <= j
<1> DEFINE Good == {T \in SUBSET (1 .. n) : T = {} \/ \E i \in T : \A j \in T : i <= j}
<1>1. ASSUME NEW T \in SUBSET (1 .. n), \A U \in SUBSET T : U # T => U \in Good
      PROVE  T \in Good
  <2> SUFFICES ASSUME NEW x \in T PROVE \E i \in T : \A j \in T : i <= j
    OBVIOUS
  <2> DEFINE U == {y \in T : y < x}
  <2>1. U \in SUBSET T /\ U # T
    OBVIOUS
  <2>2. U = {} \/ \E i \in U : \A j \in U : i <= j
    BY <1>1, <2>1
  <2>. QED
    BY <2>2
<1>2. IsFiniteSet(1 .. n)
  BY FS_Interval
<1> HIDE DEF Good
<1>3. \A T \in SUBSET (1 .. n) : T \in Good
  BY <1>1, <1>2, SmallestCounterexample
<1>. QED
  BY <1>3 DEF Good

\* Going round the table from any seat meets every seat.
LEMMA FirstFromIsOne ==
  ASSUME NEW s \in Seats, NEW S, S \subseteq Seats, S # {}
  PROVE  FirstFrom(s, S) \in S
<1> DEFINE I == {i \in 1 .. SeatCount : After(s, i) \in S}
<1>1. PICK x \in S : x \in Seats
  OBVIOUS
<1>2. I # {}
  <2> DEFINE i == IF x > s THEN x - s ELSE x - s + SeatCount
  <2>1. i \in 1 .. SeatCount
    BY <1>1, RoundAssumption DEF Seats
  <2>2. After(s, i) = x
    <3>1. x \in 0 .. SeatCount - 1 /\ s \in 0 .. SeatCount - 1 /\ SeatCount \in Nat \ {0}
      BY <1>1, RoundAssumption DEF Seats
    <3>2. s + i = x \/ s + i = x + SeatCount
      BY <3>1
    <3>3. x % SeatCount = x /\ (x + SeatCount) % SeatCount = x
      BY <3>1
    <3>. QED
      BY <3>2, <3>3 DEF After
  <2>. QED
    BY <1>1, <2>1, <2>2
<1>3. I \subseteq 1 .. SeatCount /\ SeatCount \in Nat
  BY RoundAssumption
<1>4. PICK i \in I : \A j \in I : i <= j
  <2> HIDE DEF I
  <2>. QED
    BY <1>2, <1>3, LeastElement
<1>5. \E k \in 1 .. SeatCount :
        After(s, k) \in S /\ \A j \in 1 .. k - 1 : After(s, j) \notin S
  <2>1. \A j \in 1 .. i - 1 : After(s, j) \notin S
    BY <1>4, RoundAssumption
  <2>. QED
    BY <1>4, <2>1
<1>. QED
  BY <1>5 DEF FirstFrom

TurnFields == {"cur_seat", "pao_hu_flag", "pao_hu_count", "pao_hu_seat",
               "gang_hu_flag", "gang_hu_count", "gang_hu_seat"}

-----------------------------------------------------------------------------
(* The invariant.                                                          *)

MeldsOf(r, s) == Cardinality(r.pengs[s]) + Cardinality(r.gangs[s])

\* What the seat holds, counted as tiles of the hand.
Held(r, s) == Size(r, s) + 3 * MeldsOf(r, s)

\* The tiles of a face that lie before a seat.
Account(r, t) ==
  [s \in Seats |-> r.holes[s][t] + r.discards[s][t]
                     + (IF t \in r.pengs[s] THEN 3 ELSE 0)
                     + 4 * Cardinality({g \in r.gangs[s] : g.tile = t})]

Conserved(r) == \A t \in Tiles : Copies[t] = r.deck[t] + Total(Account(r, t))

FiniteMelds(r) == \A s \in Seats : IsFiniteSet(r.gangs[s])

Shaped(r) ==
  \A s \in Seats :
    Held(r, s) \in {HandSize} \cup (IF s = r.cur_seat THEN {HandSize + 1} ELSE {})

\* The last discard lies where it was put, or went into a meld, after which
\* the seat may cancel but is offered nothing; before the first discard nobody
\* can have claimed anything.
LastCardLies(r) ==
  /\ r.last_card = NoTile => \A s \in Seats : r.pengs[s] = {}
  /\ r.last_card # NoTile =>
       /\ r.chu_seat \in Seats
       /\ \/ r.discards[r.chu_seat][r.last_card] >= 1
          \/ r.last_action = "PENG"
          \/ r.last_action = "CANCEL" /\ r.actions = {}
          \/ \E s \in Seats : [tile |-> r.last_card, flag |-> 0] \in r.gangs[s]

\* Only a seat's first action can be the declaration, so a listening seat
\* has declared bao ting.
Listening(r) ==
  /\ r.ting \subseteq r.bao_ting
  /\ \A s \in Seats :
       /\ HasExtraTile(r, s) /\ MeldsOf(r, s) = 0 => r.draws[s] >= 1
       /\ r.last_actions[s][1] # "NONE" =>
            \/ MeldsOf(r, s) > 0
            \/ r.draws[s] = 2
            \/ r.draws[s] = 1 /\ ~ HasExtraTile(r, s)

\* The seat that is waited for while claims are answered.
Waited(r) ==
  /\ r.wait_handler_seat \in Seats
  /\ r.wait_handle_action \in {"CHU", "GANG"}
  /\ r.wait_handle_action = "CHU" => r.wait_handler_seat = r.chu_seat

\* An open win is the turn's, and has its payer on record.
Payers(r) ==
  /\ r.pao_hu_flag = {} => r.pao_hu_seat = NoSeat
  /\ r.gang_hu_flag = {} => r.gang_hu_seat = NoSeat
  /\ r.pao_hu_flag = {} \/ r.gang_hu_flag = {}
  /\ r.pao_hu_flag # {} =>
       r.pao_hu_flag = {r.cur_seat} /\ "HU" \in r.actions /\ r.pao_hu_seat = r.chu_seat
  /\ r.gang_hu_flag # {} =>
       r.gang_hu_flag = {r.cur_seat} /\ "HU" \in r.actions /\ r.gang_hu_seat = r.wait_handler_seat

\* The seat to answer has the extra tile in hand ...
OwnTurn(r, c) ==
  /\ "PENG" \notin r.actions
  /\ r.pao_hu_flag = {} /\ r.gang_hu_flag = {}
  /\ c \in r.ting => r.fresh[c] \in Tiles /\ r.holes[c][r.fresh[c]] >= 1
  /\ "TING" \in r.actions => r.draws[c] = 1 /\ MeldsOf(r, c) = 0
  /\ r.last_action = "PENG" => r.actions = {} /\ c \notin r.ting

\* ... or is asked about another seat's.
Asked(r, c) ==
  /\ "GUO" \in r.actions /\ "TING" \notin r.actions
  /\ r.last_action # "PENG"
  /\ r.last_card \in Tiles
  /\ "PENG" \in r.actions => PermitPeng(r, c, r.last_card) /\ c \notin r.ting
  /\ "GANG" \in r.actions => PermitGang(r, c, r.last_card)
  /\ Waited(r)

SettledWin(r) ==
  /\ r.pao_hu_seat = NoSeat \/ r.gang_hu_seat = NoSeat
  /\ r.win_seatid # NoSeat /\ HasExtraTile(r, r.win_seatid) =>
       r.pao_hu_seat = NoSeat /\ r.gang_hu_seat = NoSeat

RoundInv(r) ==
  /\ Table(r) /\ FiniteMelds(r) /\ Conserved(r) /\ Shaped(r)
  /\ r.phase = "betting" =>
       /\ r.win_seatid = NoSeat
       /\ LastCardLies(r) /\ Listening(r) /\ Payers(r)
       /\ HasExtraTile(r, r.cur_seat) => OwnTurn(r, r.cur_seat)
       /\ ~ HasExtraTile(r, r.cur_seat) => Asked(r, r.cur_seat)
  /\ r.phase # "betting" => SettledWin(r)

\* Between a handler and start_next_bet every hand has its size.
Even(r) ==
  /\ Table(r) /\ FiniteMelds(r) /\ Conserved(r)
  /\ \A s \in Seats : Held(r, s) = HandSize
  /\ r.phase = "betting" /\ r.win_seatid = NoSeat
  /\ LastCardLies(r) /\ Listening(r)
  /\ r.last_action \notin {"PENG", "CANCEL"}
  /\ r.last_action \in {"CHU", "GUO", "GANG"} => Waited(r)

\* After a handler: nobody is flagged.
Quiet(r) ==
  /\ r.pao_hu_flag = {} /\ r.pao_hu_seat = NoSeat
  /\ r.gang_hu_flag = {} /\ r.gang_hu_seat = NoSeat

\* After next_player_seat: who is flagged is the next to answer, or there are
\* several of them.
Flagged(r) ==
  /\ r.pao_hu_flag = {} => r.pao_hu_seat = NoSeat
  /\ r.gang_hu_flag = {} => r.gang_hu_seat = NoSeat
  /\ r.pao_hu_flag = {} \/ r.gang_hu_flag = {}
  /\ r.pao_hu_flag # {} /\ r.pao_hu_count <= 1 =>
       /\ r.pao_hu_flag = {r.cur_seat} /\ r.pao_hu_seat = r.chu_seat
       /\ r.last_action = "CHU" /\ r.handler_flag = {} /\ WinsOnDiscard(r, r.cur_seat)
  /\ r.gang_hu_flag # {} /\ r.gang_hu_count <= 1 =>
       /\ r.gang_hu_flag = {r.cur_seat} /\ r.gang_hu_seat = r.wait_handler_seat
       /\ r.gang_hu_seat \notin {NoSeat, r.cur_seat}
       /\ r.last_action = "GANG" /\ Completes(r, r.cur_seat, r.last_gang_card)
       /\ r.last_card \in Tiles

-----------------------------------------------------------------------------
(* Hands and accounts.                                                     *)

LEMMA SameHands ==
  ASSUME NEW q, NEW r,
         q.holes = r.holes, q.discards = r.discards, q.deck = r.deck,
         q.pengs = r.pengs, q.gangs = r.gangs
  PROVE  /\ \A s : Size(q, s) = Size(r, s) /\ (HasExtraTile(q, s) <=> HasExtraTile(r, s))
         /\ \A s : MeldsOf(q, s) = MeldsOf(r, s) /\ Held(q, s) = Held(r, s)
         /\ FiniteMelds(q) <=> FiniteMelds(r)
         /\ Conserved(q) <=> Conserved(r)
         /\ PermitGet(q) <=> PermitGet(r)
<1>1. \A s : Size(q, s) = Size(r, s)
  BY DEF Size
<1>2. \A s : MeldsOf(q, s) = MeldsOf(r, s)
  BY DEF MeldsOf
<1>3. \A t : Account(q, t) = Account(r, t)
  BY DEF Account
<1>4. \A s : (HasExtraTile(q, s) <=> HasExtraTile(r, s)) /\ Held(q, s) = Held(r, s)
  BY <1>1, <1>2 DEF HasExtraTile, Held
<1>5. Conserved(q) <=> Conserved(r)
  BY <1>3 DEF Conserved
<1>6. FiniteMelds(q) <=> FiniteMelds(r)
  BY DEF FiniteMelds
<1>7. PermitGet(q) <=> PermitGet(r)
  BY DEF PermitGet
<1>. QED
  BY <1>1, <1>2, <1>4, <1>5, <1>6, <1>7

LEMMA SameClaims ==
  ASSUME NEW q, NEW r,
         q.holes = r.holes, q.gangs = r.gangs, q.last_card = r.last_card, q.guo_hu = r.guo_hu,
         q.bao_ting = r.bao_ting, q.chu_seat = r.chu_seat, q.last_actions = r.last_actions,
         q.draws = r.draws
  PROVE  \A s : /\ WinsOnDiscard(q, s) <=> WinsOnDiscard(r, s)
                /\ \A t : /\ Completes(q, s, t) <=> Completes(r, s, t)
                          /\ PermitPeng(q, s, t) <=> PermitPeng(r, s, t)
                          /\ PermitGang(q, s, t) <=> PermitGang(r, s, t)
<1>1. \A s, t : /\ Completes(q, s, t) <=> Completes(r, s, t)
                /\ PermitPeng(q, s, t) <=> PermitPeng(r, s, t)
                /\ PermitGang(q, s, t) <=> PermitGang(r, s, t)
  BY DEF Completes, PermitPeng, PermitGang
<1>2. \A s, t : NeedsPass(q, s, t) <=> NeedsPass(r, s, t)
  BY DEF NeedsPass
<1>. QED
  BY <1>1, <1>2 DEF WinsOnDiscard

LEMMA HandFacts ==
  ASSUME NEW r, Table(r), FiniteMelds(r), NEW s \in Seats
  PROVE  /\ Size(r, s) \in Nat /\ IsFiniteSet(r.pengs[s]) /\ IsFiniteSet(r.gangs[s])
         /\ Cardinality(r.pengs[s]) \in Nat /\ Cardinality(r.gangs[s]) \in Nat
         /\ MeldsOf(r, s) \in Nat
         /\ Held(r, s) = HandSize => Size(r, s) % 3 = 1 /\ ~ HasExtraTile(r, s)
         /\ Held(r, s) = HandSize + 1 => Size(r, s) % 3 = 2 /\ HasExtraTile(r, s)
<1>1. Size(r, s) \in Nat
  BY BagFacts DEF Size, Table, Typed
<1>2. IsFiniteSet(r.pengs[s]) /\ IsFiniteSet(r.gangs[s])
  <2>1. r.pengs[s] \subseteq Tiles
    BY DEF Table, Typed
  <2>. QED
    BY <2>1, TilesAreFinite, FS_Subset DEF FiniteMelds
<1>3. Cardinality(r.pengs[s]) \in Nat /\ Cardinality(r.gangs[s]) \in Nat
  BY <1>2, FS_CardinalityType
<1>4. MeldsOf(r, s) \in Nat
  BY <1>3 DEF MeldsOf
<1>5. /\ Held(r, s) = HandSize => Size(r, s) % 3 = 1
      /\ Held(r, s) = HandSize + 1 => Size(r, s) % 3 = 2
  <2> DEFINE n == Size(r, s)
             m == MeldsOf(r, s)
  <2>1. n \in Nat /\ m \in Nat /\ HandSize \in Nat /\ HandSize % 3 = 1
    BY <1>1, <1>4, RoundAssumption
  <2> HIDE DEF n, m
  <2>2. n + 3 * m = HandSize => n % 3 = 1
    BY <2>1
  <2>3. n + 3 * m = HandSize + 1 => n % 3 = 2
    BY <2>1
  <2>. QED
    BY <2>2, <2>3 DEF n, m, Held
<1>. QED
  BY <1>1, <1>2, <1>3, <1>4, <1>5 DEF HasExtraTile

\* A face has at most four tiles, so nothing is held beside a meld of it that
\* would make five.
LEMMA AccountFacts ==
  ASSUME NEW r, Table(r), FiniteMelds(r), NEW t \in Tiles
  PROVE  /\ \A s \in Seats : Account(r, t)[s] \in Nat
         /\ Total(Account(r, t)) = SumOn(Account(r, t), Seats)
         /\ Conserved(r) =>
              /\ \A a \in Seats : Account(r, t)[a] <= 4
              /\ \A a, b \in Seats : a # b => Account(r, t)[a] + Account(r, t)[b] <= 4
<1> DEFINE f == Account(r, t)
<1>1. ASSUME NEW s \in Seats PROVE f[s] \in Nat
  <2>1. r.holes[s][t] \in Nat /\ r.discards[s][t] \in Nat
    BY BagFacts DEF Table, Typed
  <2>2. Cardinality({g \in r.gangs[s] : g.tile = t}) \in Nat
    <3>1. IsFiniteSet(r.gangs[s])
      BY DEF FiniteMelds
    <3>. QED
      BY <3>1, FS_Subset, FS_CardinalityType
  <2>3. f[s] = r.holes[s][t] + r.discards[s][t] + (IF t \in r.pengs[s] THEN 3 ELSE 0)
                 + 4 * Cardinality({g \in r.gangs[s] : g.tile = t})
    BY DEF Account
  <2> HIDE DEF f
  <2>. QED
    BY <2>1, <2>2, <2>3
<1>2. DOMAIN f = Seats
  BY DEF Account
<1> HIDE DEF f
<1>3. Total(f) = SumOn(f, Seats)
  BY <1>2, TotalIsSum
<1>4. SumOn(f, Seats) \in Nat /\ \A a \in Seats : f[a] <= SumOn(f, Seats)
  BY <1>1, SeatsAreFinite, SumIsNat
<1>5. \A a, b \in Seats : a # b => f[a] + f[b] <= SumOn(f, Seats)
  BY <1>1, SeatsAreFinite, SumHasTwo
<1>6. Conserved(r) => SumOn(f, Seats) <= 4
  <2>1. r.deck[t] \in Nat
    BY BagFacts DEF Table, Typed
  <2>2. Copies[t] \in Nat /\ Copies[t] <= 4
    BY RoundAssumption
  <2>3. Conserved(r) => Copies[t] = r.deck[t] + SumOn(f, Seats)
    BY <1>3 DEF Conserved, f
  <2>. QED
    BY <1>4, <2>1, <2>2, <2>3
<1>7. Conserved(r) => /\ \A a \in Seats : f[a] <= 4
                      /\ \A a, b \in Seats : a # b => f[a] + f[b] <= 4
  BY <1>1, <1>4, <1>5, <1>6
<1>. QED
  BY <1>1, <1>3, <1>7 DEF f

\* Conservation is kept if what one seat gains of a face another one loses.
LEMMA AccountMoves ==
  ASSUME NEW r, Table(r), FiniteMelds(r), Conserved(r),
         NEW q, Table(q), FiniteMelds(q), q.deck = r.deck,
         NEW a \in Seats, NEW b \in Seats,
         \A t \in Tiles : \A s \in Seats \ {a, b} : Account(q, t)[s] = Account(r, t)[s],
         \A t \in Tiles : SamePair(Account(r, t), Account(q, t), a, b)
  PROVE  Conserved(q)
<1> SUFFICES ASSUME NEW t \in Tiles PROVE Copies[t] = q.deck[t] + Total(Account(q, t))
  BY DEF Conserved
<1> DEFINE f == Account(r, t)
           g == Account(q, t)
<1>1. \A s \in Seats : f[s] \in Int /\ g[s] \in Int
  BY AccountFacts
<1>2. (\A s \in Seats \ {a, b} : g[s] = f[s]) /\ SamePair(f, g, a, b)
  OBVIOUS
<1>4. Total(f) = SumOn(f, Seats) /\ Total(g) = SumOn(g, Seats)
  BY AccountFacts
<1>5. Copies[t] = r.deck[t] + Total(f)
  BY DEF Conserved
<1> HIDE DEF f, g
<1>6. SumOn(g, Seats) = SumOn(f, Seats)
  BY <1>1, <1>2, SeatsAreFinite, SumMoves
<1>. QED
  BY <1>4, <1>5, <1>6 DEF g

-----------------------------------------------------------------------------
(* next_player_seat.                                                       *)

LEMMA OneOfASet ==
  ASSUME NEW S, IsFiniteSet(S), NEW x \in S
  PROVE  Cardinality(S) \in Nat /\ (Cardinality(S) <= 1 => S = {x})
<1>1. Cardinality(S) \in Nat
  BY FS_CardinalityType
<1>2. Cardinality(S) # 0
  BY FS_EmptySet
<1>3. Cardinality(S) = 1 => \E y : S = {y}
  BY FS_Singleton
<1>. QED
  BY <1>1, <1>2, <1>3

LEMMA SeatAfterChuFacts ==
  ASSUME NEW q, Table(q), NEW n, n = SeatAfterChu(q)
  PROVE  /\ Table(n)
         /\ Same(n, q, {"pao_hu_flag", "pao_hu_count", "pao_hu_seat", "cur_seat"})
         /\ \/ \E W \in SUBSET Seats :
                 /\ n.cur_seat \in W /\ \A s \in W : WinsOnDiscard(q, s)
                 /\ n.pao_hu_flag = q.pao_hu_flag \cup W
                 /\ n.pao_hu_count = Cardinality(W)
                 /\ n.pao_hu_seat = q.cur_seat
            \/ /\ Same(n, q, {"cur_seat"})
               /\ n.cur_seat \notin q.bao_ting
               /\ q.last_card \notin q.guo_peng[n.cur_seat]
               /\ PermitPeng(q, n.cur_seat, q.last_card)
            \/ Same(n, q, {"cur_seat"}) /\ n.cur_seat = NextBettingSeat(q.cur_seat)
<1> DEFINE W == {s \in Seats \ {q.cur_seat} : WinsOnDiscard(q, s)}
           C == {s \in Seats \ {q.cur_seat} :
                   /\ s \notin q.bao_ting
                   /\ q.last_card \notin q.guo_peng[s]
                   /\ PermitPeng(q, s, q.last_card)}
<1>1. n = IF W # {} THEN
            [q EXCEPT !.pao_hu_flag = q.pao_hu_flag \cup W,
                      !.pao_hu_count = Cardinality(W),
                      !.pao_hu_seat = q.cur_seat,
                      !.cur_seat = FirstFrom(q.cur_seat, W)]
          ELSE IF C # {} THEN
            [q EXCEPT !.cur_seat = FirstFrom(q.cur_seat, C)]
          ELSE
            [q EXCEPT !.cur_seat = NextBettingSeat(q.cur_seat)]
  BY DEF SeatAfterChu
<1>2. q.cur_seat \in Seats
  BY DEF Table, Typed
<1>3. W \subseteq Seats /\ \A s \in W : WinsOnDiscard(q, s)
  OBVIOUS
<1>4. /\ C \subseteq Seats
      /\ \A s \in C : /\ s \notin q.bao_ting
                      /\ q.last_card \notin q.guo_peng[s]
                      /\ PermitPeng(q, s, q.last_card)
  OBVIOUS
<1> HIDE DEF W, C
<1>5. CASE W # {}
  <2>1. /\ IsTable(n)
        /\ Same(n, q, {"pao_hu_flag", "pao_hu_count", "pao_hu_seat", "cur_seat"})
        /\ n.pao_hu_flag = q.pao_hu_flag \cup W
        /\ n.pao_hu_count = Cardinality(W)
        /\ n.pao_hu_seat = q.cur_seat
        /\ n.cur_seat = FirstFrom(q.cur_seat, W)
    BY <1>1, <1>5, FieldNames DEF Table, IsTable, Same
  <2>2. n.cur_seat \in W
    BY <1>2, <1>3, <1>5, <2>1, FirstFromIsOne
  <2>3. Cardinality(W) \in Nat
    BY <1>3, SeatsAreFinite, FS_Subset, FS_CardinalityType
  <2>4. Typed(n)
    BY <1>2, <1>3, <2>1, <2>2, <2>3 DEF Table, Typed, Same
  <2>. QED
    BY <1>3, <2>1, <2>2, <2>4 DEF Table
<1>6. ASSUME NEW c \in Seats, n = [q EXCEPT !.cur_seat = c]
      PROVE  /\ Table(n) /\ n.cur_seat = c /\ Same(n, q, {"cur_seat"})
             /\ Same(n, q, {"pao_hu_flag", "pao_hu_count", "pao_hu_seat", "cur_seat"})
  <2>1. /\ IsTable(n) /\ n.cur_seat = c /\ Same(n, q, {"cur_seat"})
    BY <1>6, FieldNames DEF Table, IsTable, Same
  <2>2. Typed(n)
    BY <2>1 DEF Table, Typed, Same
  <2>3. Same(n, q, {"pao_hu_flag", "pao_hu_count", "pao_hu_seat", "cur_seat"})
    BY <2>1 DEF Same
  <2>. QED
    BY <2>1, <2>2, <2>3 DEF Table
<1>7. CASE W = {} /\ C # {}
  <2>1. FirstFrom(q.cur_seat, C) \in C
    BY <1>2, <1>4, <1>7, FirstFromIsOne
  <2>2. FirstFrom(q.cur_seat, C) \in Seats /\ n = [q EXCEPT !.cur_seat = FirstFrom(q.cur_seat, C)]
    BY <1>1, <1>4, <1>7, <2>1
  <2>. QED
    BY <1>4, <1>6, <2>1, <2>2
<1>8. CASE W = {} /\ C = {}
  BY <1>1, <1>2, <1>6, <1>8, NextSeat
<1>. QED
  BY <1>5, <1>7, <1>8

LEMMA SeatAfterGangFacts ==
  ASSUME NEW q, Table(q), NEW n, n = SeatAfterGang(q)
  PROVE  /\ Table(n)
         /\ Same(n, q, {"gang_hu_flag", "gang_hu_count", "gang_hu_seat", "cur_seat"})
         /\ \/ \E W \in SUBSET Seats :
                 /\ n.cur_seat \in W /\ n.cur_seat # q.cur_seat
                 /\ \A s \in W : Completes(q, s, q.last_gang_card)
                 /\ q.gang_flag = 1
                 /\ n.gang_hu_flag = q.gang_hu_flag \cup W
                 /\ n.gang_hu_count = Cardinality(W)
                 /\ n.gang_hu_seat = q.cur_seat
            \/ n = q
<1> DEFINE W == {s \in Seats \ {q.cur_seat} :
                   q.gang_flag = 1 /\ Completes(q, s, q.last_gang_card)}
<1>1. n = IF W # {} THEN
            [q EXCEPT !.gang_hu_flag = q.gang_hu_flag \cup W,
                      !.gang_hu_count = Cardinality(W),
                      !.gang_hu_seat = q.cur_seat,
                      !.cur_seat = FirstFrom(q.cur_seat, W)]
          ELSE q
  BY DEF SeatAfterGang
<1>2. q.cur_seat \in Seats
  BY DEF Table, Typed
<1>3. /\ W \subseteq Seats \ {q.cur_seat} /\ \A s \in W : Completes(q, s, q.last_gang_card)
      /\ W # {} => q.gang_flag = 1
  OBVIOUS
<1> HIDE DEF W
<1>4. CASE W # {}
  <2>1. /\ IsTable(n)
        /\ Same(n, q, {"gang_hu_flag", "gang_hu_count", "gang_hu_seat", "cur_seat"})
        /\ n.gang_hu_flag = q.gang_hu_flag \cup W
        /\ n.gang_hu_count = Cardinality(W)
        /\ n.gang_hu_seat = q.cur_seat
        /\ n.cur_seat = FirstFrom(q.cur_seat, W)
    BY <1>1, <1>4, FieldNames DEF Table, IsTable, Same
  <2>2. n.cur_seat \in W
    BY <1>2, <1>3, <1>4, <2>1, FirstFromIsOne
  <2>3. Cardinality(W) \in Nat
    BY <1>3, SeatsAreFinite, FS_Subset, FS_CardinalityType
  <2>4. Typed(n)
    BY <1>2, <1>3, <2>1, <2>2, <2>3 DEF Table, Typed, Same
  <2>. QED
    BY <1>3, <1>4, <2>1, <2>2, <2>4 DEF Table
<1>5. CASE W = {}
  BY <1>1, <1>5 DEF Same
<1>. QED
  BY <1>4, <1>5

LEMMA SeatAfterGuoFacts ==
  ASSUME NEW q, Table(q), Waited(q), NEW n, n = SeatAfterGuo(q)
  PROVE  /\ Table(n)
         /\ Same(n, q, {"cur_seat"})
         /\ \/ q.wait_handle_action = "GANG" /\ n.cur_seat = q.wait_handler_seat
            \/ n.cur_seat = NextBettingSeat(q.chu_seat)
            \/ /\ n.cur_seat \notin q.bao_ting \cup q.handler_flag
               /\ n.cur_seat # q.cur_seat
               /\ PermitPeng(q, n.cur_seat, q.last_card)
<1> DEFINE C == {s \in Seats \ {q.cur_seat, q.wait_handler_seat} :
                   /\ s \notin q.handler_flag
                   /\ s \notin q.bao_ting
                   /\ PermitPeng(q, s, q.last_card)}
<1>1. n = [q EXCEPT !.cur_seat =
         CASE q.wait_handle_action = "GANG" -> q.wait_handler_seat
           [] q.wait_handle_action = "CHU" /\ C # {} -> FirstFrom(q.cur_seat, C)
           [] q.wait_handle_action = "CHU" /\ C = {} -> NextBettingSeat(q.wait_handler_seat)
           [] OTHER -> NextBettingSeat(q.cur_seat)]
  BY DEF SeatAfterGuo
<1>2. q.cur_seat \in Seats
  BY DEF Table, Typed
<1>3. C \subseteq Seats \ {q.cur_seat}
      /\ \A s \in C : /\ s \notin q.bao_ting \cup q.handler_flag
                      /\ PermitPeng(q, s, q.last_card)
  OBVIOUS
<1> HIDE DEF C
<1>4. /\ IsTable(n) /\ Same(n, q, {"cur_seat"})
      /\ n.cur_seat = 
         CASE q.wait_handle_action = "GANG" -> q.wait_handler_seat
           [] q.wait_handle_action = "CHU" /\ C # {} -> FirstFrom(q.cur_seat, C)
           [] q.wait_handle_action = "CHU" /\ C = {} -> NextBettingSeat(q.wait_handler_seat)
           [] OTHER -> NextBettingSeat(q.cur_seat)
  BY <1>1, FieldNames DEF Table, IsTable, Same
<1>5. CASE q.wait_handle_action = "GANG"
  <2>1. n.cur_seat = q.wait_handler_seat /\ n.cur_seat \in Seats
    BY <1>4, <1>5 DEF Waited
  <2>2. Typed(n)
    BY <1>4, <2>1 DEF Table, Typed, Same
  <2>. QED
    BY <1>4, <1>5, <2>1, <2>2 DEF Table
<1>6. CASE q.wait_handle_action = "CHU" /\ C # {}
  <2>1. n.cur_seat = FirstFrom(q.cur_seat, C)
    BY <1>4, <1>6
  <2>2. n.cur_seat \in C
    BY <1>2, <1>3, <1>6, <2>1, FirstFromIsOne
  <2>3. Typed(n)
    BY <1>3, <1>4, <2>2 DEF Table, Typed, Same
  <2>. QED
    BY <1>3, <1>4, <2>2, <2>3 DEF Table
<1>7. CASE q.wait_handle_action = "CHU" /\ C = {}
  <2>1. n.cur_seat = NextBettingSeat(q.wait_handler_seat)
    BY <1>4, <1>7
  <2>2. n.cur_seat \in Seats /\ n.cur_seat = NextBettingSeat(q.chu_seat)
    BY <1>7, <2>1, NextSeat DEF Waited
  <2>3. Typed(n)
    BY <1>4, <2>2 DEF Table, Typed, Same
  <2>. QED
    BY <1>4, <2>2, <2>3 DEF Table
<1>. QED
  BY <1>5, <1>6, <1>7 DEF Waited

\* Whose turn it is, and who is flagged, is no part of an even table.
LEMMA TurnMoves ==
  ASSUME NEW r, Even(r), NEW n, Table(n), Same(n, r, TurnFields)
  PROVE  /\ Even(n)
         /\ \A s : /\ WinsOnDiscard(n, s) <=> WinsOnDiscard(r, s)
                   /\ \A t : /\ Completes(n, s, t) <=> Completes(r, s, t)
                             /\ PermitPeng(n, s, t) <=> PermitPeng(r, s, t)
<1>1. /\ n.holes = r.holes /\ n.discards = r.discards /\ n.deck = r.deck
      /\ n.pengs = r.pengs /\ n.gangs = r.gangs /\ n.phase = r.phase
      /\ n.win_seatid = r.win_seatid /\ n.last_action = r.last_action
      /\ n.last_card = r.last_card /\ n.chu_seat = r.chu_seat
      /\ n.last_actions = r.last_actions /\ n.draws = r.draws /\ n.guo_hu = r.guo_hu
      /\ n.ting = r.ting /\ n.bao_ting = r.bao_ting
      /\ n.wait_handler_seat = r.wait_handler_seat
      /\ n.wait_handle_action = r.wait_handle_action
  BY DEF Same, TurnFields
<1>2. /\ \A s : (HasExtraTile(n, s) <=> HasExtraTile(r, s))
      /\ \A s : MeldsOf(n, s) = MeldsOf(r, s) /\ Held(n, s) = Held(r, s)
      /\ FiniteMelds(n) <=> FiniteMelds(r)
      /\ Conserved(n) <=> Conserved(r)
  BY <1>1, SameHands
<1>3. LastCardLies(r) => LastCardLies(n)
  BY <1>1 DEF Even, LastCardLies
<1>4. Listening(r) => Listening(n)
  BY <1>1, <1>2 DEF Listening
<1>5. Waited(r) => Waited(n)
  BY <1>1 DEF Waited
<1>6. Even(n)
  BY <1>1, <1>2, <1>3, <1>4, <1>5 DEF Even
<1>7. \A s : /\ WinsOnDiscard(n, s) <=> WinsOnDiscard(r, s)
             /\ \A t : /\ Completes(n, s, t) <=> Completes(r, s, t)
                       /\ PermitPeng(n, s, t) <=> PermitPeng(r, s, t)
  BY <1>1, SameClaims
<1>. QED
  BY <1>6, <1>7

\* Why it is the turn of cur_seat, seen from the table r the handler left.
InTurn(n, r) ==
  \/ n.cur_seat = NextBettingSeat(n.chu_seat)
  \/ n.wait_handle_action = "GANG" /\ n.cur_seat = n.wait_handler_seat
  \/ n.pao_hu_flag # {} \/ n.gang_hu_flag # {}
  \/ /\ n.last_action \in {"CHU", "GUO"}
     /\ n.cur_seat \notin n.bao_ting \cup n.handler_flag
     /\ PermitPeng(n, n.cur_seat, n.last_card)
     /\ \/ n.last_card \notin n.guo_peng[n.cur_seat]
        \/ n.last_action = "GUO" /\ n.cur_seat # r.cur_seat

\* What a handler leaves to next_player_seat.
Handled(r) ==
  /\ Even(r) /\ Quiet(r)
  /\ r.last_action \in {"CHU", "GANG", "GUO", "TING"}
  /\ r.last_action = "CHU" => r.chu_seat = r.cur_seat /\ r.handler_flag = {}
  /\ r.last_action = "TING" => r.chu_seat = r.cur_seat
  /\ r.last_action = "GANG" =>
       /\ r.wait_handle_action = "GANG" /\ r.wait_handler_seat = r.cur_seat
       /\ r.gang_flag = 1 => r.last_card \in Tiles

LEMMA NextPlayerSeatFacts ==
  ASSUME NEW r, Handled(r), NEW n, n = NextPlayerSeat(r)
  PROVE  Even(n) /\ Flagged(n) /\ Same(n, r, TurnFields) /\ InTurn(n, r)
<1>1. Table(r) /\ Even(r) /\ Quiet(r)
  BY DEF Handled, Even
<1>2. PICK q : q = [r EXCEPT !.pao_hu_count = 0, !.gang_hu_count = 0]
  OBVIOUS
<1>3. Table(q) /\ Same(q, r, {"pao_hu_count", "gang_hu_count"})
  <2>1. /\ IsTable(q) /\ Same(q, r, {"pao_hu_count", "gang_hu_count"})
        /\ q.pao_hu_count = 0 /\ q.gang_hu_count = 0
    BY <1>1, <1>2, FieldNames DEF Table, IsTable, Same
  <2>2. Typed(q)
    BY <1>1, <2>1 DEF Table, Typed, Same
  <2>. QED
    BY <2>1, <2>2 DEF Table
<1>4. /\ q.cur_seat = r.cur_seat /\ q.chu_seat = r.chu_seat /\ q.last_action = r.last_action
      /\ q.handler_flag = r.handler_flag /\ q.gang_flag = r.gang_flag
      /\ q.last_card = r.last_card /\ q.bao_ting = r.bao_ting /\ q.guo_peng = r.guo_peng
      /\ q.wait_handler_seat = r.wait_handler_seat
      /\ q.wait_handle_action = r.wait_handle_action
      /\ q.pao_hu_flag = {} /\ q.pao_hu_seat = NoSeat
      /\ q.gang_hu_flag = {} /\ q.gang_hu_seat = NoSeat
  BY <1>1, <1>3 DEF Same, Quiet
<1>5. Same(q, r, TurnFields)
  BY <1>3 DEF Same, TurnFields
<1>6. ASSUME NEW F, F \subseteq TurnFields, Same(n, q, F), Table(n)
      PROVE  /\ Same(n, r, TurnFields) /\ Even(n)
             /\ n.chu_seat = q.chu_seat /\ n.last_action = q.last_action
             /\ n.last_card = q.last_card /\ n.handler_flag = q.handler_flag
             /\ n.bao_ting = q.bao_ting /\ n.guo_peng = q.guo_peng
             /\ n.last_gang_card = q.last_gang_card
             /\ n.wait_handler_seat = q.wait_handler_seat
             /\ n.wait_handle_action = q.wait_handle_action
             /\ \A s : /\ WinsOnDiscard(n, s) <=> WinsOnDiscard(q, s)
                       /\ \A t : /\ Completes(n, s, t) <=> Completes(q, s, t)
                                 /\ PermitPeng(n, s, t) <=> PermitPeng(q, s, t)
  <2>1. Same(n, q, TurnFields)
    BY <1>6 DEF Same, TurnFields
  <2>2. Same(n, r, TurnFields)
    BY <2>1, <1>5 DEF Same, TurnFields
  <2>3. Even(n) /\ Even(q)
    BY <1>1, <1>3, <1>5, <1>6, <2>2, TurnMoves
  <2>4. \A s : /\ WinsOnDiscard(n, s) <=> WinsOnDiscard(q, s)
               /\ \A t : /\ Completes(n, s, t) <=> Completes(q, s, t)
                         /\ PermitPeng(n, s, t) <=> PermitPeng(q, s, t)
    BY <1>6, <2>1, <2>3, TurnMoves
  <2>5. /\ n.chu_seat = q.chu_seat /\ n.last_action = q.last_action
        /\ n.last_card = q.last_card /\ n.handler_flag = q.handler_flag
        /\ n.bao_ting = q.bao_ting /\ n.guo_peng = q.guo_peng
        /\ n.last_gang_card = q.last_gang_card
        /\ n.wait_handler_seat = q.wait_handler_seat
        /\ n.wait_handle_action = q.wait_handle_action
    BY <2>1 DEF Same, TurnFields
  <2>. QED
    BY <2>2, <2>3, <2>4, <2>5
<1>7. ASSUME Same(n, q, {"cur_seat"})
      PROVE  Flagged(n)
  <2>1. /\ n.pao_hu_flag = {} /\ n.pao_hu_seat = NoSeat
        /\ n.gang_hu_flag = {} /\ n.gang_hu_seat = NoSeat
    BY <1>4, <1>7 DEF Same
  <2>. QED
    BY <2>1 DEF Flagged
<1>8. CASE r.last_action = "CHU"
  <2>1. n = SeatAfterChu(q)
    BY <1>2, <1>8 DEF NextPlayerSeat
  <2>2. Table(n) /\ Same(n, q, {"pao_hu_flag", "pao_hu_count", "pao_hu_seat", "cur_seat"})
    BY <1>3, <2>1, SeatAfterChuFacts
  <2>3. {"pao_hu_flag", "pao_hu_count", "pao_hu_seat", "cur_seat"} \subseteq TurnFields
    BY DEF TurnFields
  <2>4. Same(n, r, TurnFields) /\ Even(n)
    BY <1>6, <2>2, <2>3
  <2>5. /\ n.chu_seat = q.chu_seat /\ n.last_action = q.last_action
        /\ n.last_card = q.last_card /\ n.handler_flag = q.handler_flag
        /\ n.bao_ting = q.bao_ting /\ n.guo_peng = q.guo_peng
        /\ \A s : /\ WinsOnDiscard(n, s) <=> WinsOnDiscard(q, s)
                  /\ \A t : PermitPeng(n, s, t) <=> PermitPeng(q, s, t)
    BY <1>6, <2>2, <2>3
  <2>6. CASE \E W \in SUBSET Seats :
                 /\ n.cur_seat \in W /\ \A s \in W : WinsOnDiscard(q, s)
                 /\ n.pao_hu_flag = q.pao_hu_flag \cup W
                 /\ n.pao_hu_count = Cardinality(W)
                 /\ n.pao_hu_seat = q.cur_seat
    <3>1. PICK W \in SUBSET Seats :
                 /\ n.cur_seat \in W /\ \A s \in W : WinsOnDiscard(q, s)
                 /\ n.pao_hu_flag = q.pao_hu_flag \cup W
                 /\ n.pao_hu_count = Cardinality(W)
                 /\ n.pao_hu_seat = q.cur_seat
      BY <2>6
    <3>2. n.pao_hu_flag = W
      BY <1>4, <3>1
    <3>3. IsFiniteSet(W)
      BY SeatsAreFinite, FS_Subset
    <3>4. n.pao_hu_count <= 1 => W = {n.cur_seat}
      BY <3>1, <3>3, OneOfASet
    <3>5. n.pao_hu_seat = n.chu_seat /\ n.handler_flag = {} /\ n.last_action = "CHU"
      BY <1>4, <1>8, <2>5, <3>1 DEF Handled
    <3>6. n.gang_hu_flag = {} /\ n.gang_hu_seat = NoSeat
      BY <1>4, <2>2 DEF Same
    <3>7. WinsOnDiscard(n, n.cur_seat)
      BY <2>5, <3>1
    <3>8. Flagged(n)
      BY <3>1, <3>2, <3>4, <3>5, <3>6, <3>7 DEF Flagged
    <3>9. InTurn(n, r)
      BY <3>1, <3>2 DEF InTurn
    <3>. QED
      BY <2>4, <3>8, <3>9
  <2>7. CASE /\ Same(n, q, {"cur_seat"})
             /\ n.cur_seat \notin q.bao_ting
             /\ q.last_card \notin q.guo_peng[n.cur_seat]
             /\ PermitPeng(q, n.cur_seat, q.last_card)
    <3>1. n.handler_flag = {} /\ n.last_action = "CHU"
      BY <1>4, <1>8, <2>5 DEF Handled
    <3>2. InTurn(n, r)
      BY <2>5, <2>7, <3>1 DEF InTurn
    <3>. QED
      BY <1>7, <2>4, <2>7, <3>2
  <2>8. CASE Same(n, q, {"cur_seat"}) /\ n.cur_seat = NextBettingSeat(q.cur_seat)
    <3>1. n.cur_seat = NextBettingSeat(n.chu_seat)
      BY <1>4, <1>8, <2>5, <2>8 DEF Handled
    <3>. QED
      BY <1>7, <2>4, <2>8, <3>1 DEF InTurn
  <2>. QED
    BY <1>3, <2>1, <2>6, <2>7, <2>8, SeatAfterChuFacts
<1>9. CASE r.last_action = "GANG"
  <2>1. n = SeatAfterGang(q)
    BY <1>2, <1>9 DEF NextPlayerSeat
  <2>2. Table(n) /\ Same(n, q, {"gang_hu_flag", "gang_hu_count", "gang_hu_seat", "cur_seat"})
    BY <1>3, <2>1, SeatAfterGangFacts
  <2>3. {"gang_hu_flag", "gang_hu_count", "gang_hu_seat", "cur_seat"} \subseteq TurnFields
    BY DEF TurnFields
  <2>4. Same(n, r, TurnFields) /\ Even(n)
    BY <1>6, <2>2, <2>3
  <2>5. /\ n.last_action = q.last_action /\ n.last_card = q.last_card
        /\ n.last_gang_card = q.last_gang_card
        /\ n.wait_handler_seat = q.wait_handler_seat
        /\ n.wait_handle_action = q.wait_handle_action
        /\ \A s, t : Completes(n, s, t) <=> Completes(q, s, t)
    BY <1>6, <2>2, <2>3
  <2>6. CASE \E W \in SUBSET Seats :
                 /\ n.cur_seat \in W /\ n.cur_seat # q.cur_seat
                 /\ \A s \in W : Completes(q, s, q.last_gang_card)
                 /\ q.gang_flag = 1
                 /\ n.gang_hu_flag = q.gang_hu_flag \cup W
                 /\ n.gang_hu_count = Cardinality(W)
                 /\ n.gang_hu_seat = q.cur_seat
    <3>1. PICK W \in SUBSET Seats :
                 /\ n.cur_seat \in W /\ n.cur_seat # q.cur_seat
                 /\ \A s \in W : Completes(q, s, q.last_gang_card)
                 /\ q.gang_flag = 1
                 /\ n.gang_hu_flag = q.gang_hu_flag \cup W
                 /\ n.gang_hu_count = Cardinality(W)
                 /\ n.gang_hu_seat = q.cur_seat
      BY <2>6
    <3>2. n.gang_hu_flag = W
      BY <1>4, <3>1
    <3>3. IsFiniteSet(W)
      BY SeatsAreFinite, FS_Subset
    <3>4. n.gang_hu_count <= 1 => W = {n.cur_seat}
      BY <3>1, <3>3, OneOfASet
    <3>5. /\ n.gang_hu_seat = n.wait_handler_seat /\ n.last_action = "GANG"
          /\ n.last_card \in Tiles
      BY <1>4, <1>9, <2>5, <3>1 DEF Handled
    <3>6. n.gang_hu_seat \notin {NoSeat, n.cur_seat}
      <4>1. q.cur_seat \in Seats
        BY <1>3 DEF Table, Typed
      <4>2. NoSeat \notin Seats
        BY RoundAssumption DEF NoSeat, Seats
      <4>. QED
        BY <3>1, <4>1, <4>2
    <3>7. n.pao_hu_flag = {} /\ n.pao_hu_seat = NoSeat
      BY <1>4, <2>2 DEF Same
    <3>8. Completes(n, n.cur_seat, n.last_gang_card)
      BY <2>5, <3>1
    <3>9. Flagged(n)
      BY <3>1, <3>2, <3>4, <3>5, <3>6, <3>7, <3>8 DEF Flagged
    <3>10. InTurn(n, r)
      BY <3>1, <3>2 DEF InTurn
    <3>. QED
      BY <2>4, <3>9, <3>10
  <2>7. CASE n = q
    <3>1. Same(n, q, {"cur_seat"})
      BY <2>7 DEF Same
    <3>2. n.wait_handle_action = "GANG" /\ n.cur_seat = n.wait_handler_seat
      BY <1>4, <1>9, <2>7 DEF Handled
    <3>. QED
      BY <1>7, <2>4, <3>1, <3>2 DEF InTurn
  <2>. QED
    BY <1>3, <2>1, <2>6, <2>7, SeatAfterGangFacts
<1>10. CASE r.last_action = "GUO"
  <2>1. n = SeatAfterGuo(q)
    BY <1>2, <1>10 DEF NextPlayerSeat
  <2>2. Waited(q)
    BY <1>1, <1>4, <1>10 DEF Even, Waited
  <2>3. Table(n) /\ Same(n, q, {"cur_seat"}) /\ {"cur_seat"} \subseteq TurnFields
    BY <1>3, <2>1, <2>2, SeatAfterGuoFacts DEF TurnFields
  <2>4. Same(n, r, TurnFields) /\ Even(n)
    BY <1>6, <2>3
  <2>5. /\ n.last_action = q.last_action /\ n.last_card = q.last_card
        /\ n.chu_seat = q.chu_seat /\ n.handler_flag = q.handler_flag
        /\ n.bao_ting = q.bao_ting
        /\ n.wait_handler_seat = q.wait_handler_seat
        /\ n.wait_handle_action = q.wait_handle_action
        /\ \A s, t : PermitPeng(n, s, t) <=> PermitPeng(q, s, t)
    BY <1>6, <2>3
  <2>6. \/ q.wait_handle_action = "GANG" /\ n.cur_seat = q.wait_handler_seat
        \/ n.cur_seat = NextBettingSeat(q.chu_seat)
        \/ /\ n.cur_seat \notin q.bao_ting \cup q.handler_flag
           /\ n.cur_seat # q.cur_seat
           /\ PermitPeng(q, n.cur_seat, q.last_card)
    BY <1>3, <2>1, <2>2, SeatAfterGuoFacts
  <2>7. InTurn(n, r)
    BY <1>4, <1>10, <2>5, <2>6 DEF InTurn
  <2>. QED
    BY <1>7, <2>3, <2>4, <2>7
<1>11. CASE r.last_action = "TING"
  <2>1. n = [q EXCEPT !.cur_seat = NextBettingSeat(r.cur_seat)]
    BY <1>2, <1>11 DEF NextPlayerSeat
  <2>2. IsTable(n) /\ Same(n, q, {"cur_seat"}) /\ n.cur_seat = NextBettingSeat(r.cur_seat)
    BY <1>3, <2>1, FieldNames DEF Table, IsTable, Same
  <2>3. r.cur_seat \in Seats
    BY <1>1 DEF Table, Typed
  <2>4. Typed(n)
    BY <1>3, <2>2, <2>3, NextSeat DEF Table, Typed, Same
  <2>5. Table(n) /\ {"cur_seat"} \subseteq TurnFields
    BY <2>2, <2>4 DEF Table, TurnFields
  <2>6. Same(n, r, TurnFields) /\ Even(n) /\ n.chu_seat = q.chu_seat
    BY <1>6, <2>2, <2>5
  <2>7. n.cur_seat = NextBettingSeat(n.chu_seat)
    BY <1>4, <1>11, <2>2, <2>6 DEF Handled
  <2>. QED
    BY <1>7, <2>2, <2>6, <2>7 DEF InTurn
<1>. QED
  BY <1>8, <1>9, <1>10, <1>11 DEF Handled

-----------------------------------------------------------------------------
(* start_next_bet.                                                         *)

Claims(r) == RobbingOffers(r, r.cur_seat) \cup DiscardOffers(r, r.cur_seat)

DrawFields == {"deck", "holes", "draws", "fresh", "guo_hu", "guo_peng"}

\* z is n after the turn has drawn t.
Drawn(n, z, t) ==
  /\ n.deck[t] > 0
  /\ Same(z, n, DrawFields \cup {"actions"})
  /\ z.deck = Take(n.deck, t, 1)
  /\ z.holes = [n.holes EXCEPT ![n.cur_seat] = Add(n.holes[n.cur_seat], t, 1)]
  /\ z.draws = [n.draws EXCEPT ![n.cur_seat] =
                  IF n.draws[n.cur_seat] < 2 THEN n.draws[n.cur_seat] + 1 ELSE 2]
  /\ z.fresh = [n.fresh EXCEPT ![n.cur_seat] = t]
  /\ z.actions = WithPass(TurnOffers(z, n.cur_seat))

LEMMA OffersAreActions ==
  ASSUME NEW r, NEW s
  PROVE  /\ RobbingOffers(r, s) \subseteq {"HU"}
         /\ DiscardOffers(r, s) \subseteq {"HU", "GANG", "PENG"}
         /\ TurnOffers(r, s) \subseteq {"HU", "TING", "GANG"}
<1>1. RobbingOffers(r, s) \subseteq {"HU"}
  BY DEF RobbingOffers
<1>2. DiscardOffers(r, s) \subseteq {"HU", "GANG", "PENG"}
  BY DEF DiscardOffers
<1>3. TurnOffers(r, s) \subseteq {"HU", "TING", "GANG"}
  BY DEF TurnOffers
<1>. QED
  BY <1>1, <1>2, <1>3

LEMMA OfferFacts ==
  ASSUME NEW r, Table(r), NEW A, A \subseteq {"PENG", "GANG", "TING", "HU"},
         NEW q, q = Offer(r, A)
  PROVE  Table(q) /\ Same(q, r, {"actions"}) /\ q.actions = WithPass(A)
<1>1. IsTable(q) /\ Same(q, r, {"actions"}) /\ q.actions = WithPass(A)
  BY FieldNames DEF Offer, Table, IsTable, Same
<1>2. WithPass(A) \in SUBSET {"PENG", "GANG", "GUO", "TING", "HU"}
  BY DEF WithPass
<1>3. Typed(q)
  BY <1>1, <1>2 DEF Table, Typed, Same
<1>. QED
  BY <1>1, <1>3 DEF Table

\* The offer of one's own turn does not look at the actions offered.
LEMMA SameTurnOffers ==
  ASSUME NEW q, NEW r, Same(q, r, {"actions"}), NEW s
  PROVE  TurnOffers(q, s) = TurnOffers(r, s)
<1>1. /\ q.holes = r.holes /\ q.pengs = r.pengs /\ q.ting = r.ting /\ q.draws = r.draws
      /\ q.deck = r.deck /\ q.last_action = r.last_action
  BY DEF Same
<1>2. /\ Size(q, s) = Size(r, s) /\ OwnGangs(q, s) = OwnGangs(r, s)
      /\ PermitGet(q) <=> PermitGet(r)
  BY <1>1 DEF Size, OwnGangs, PermitGet
<1>. QED
  BY <1>1, <1>2 DEF TurnOffers

LEMMA DrawFacts ==
  ASSUME NEW n, Table(n), NEW s \in Seats, NEW t \in Tiles,
         NEW p, p = Draw(n, s, t)
  PROVE  /\ Table(p) /\ Same(p, n, DrawFields)
         /\ p.deck = Take(n.deck, t, 1)
         /\ p.holes = [n.holes EXCEPT ![s] = Add(n.holes[s], t, 1)]
         /\ p.draws = [n.draws EXCEPT ![s] = IF n.draws[s] < 2 THEN n.draws[s] + 1 ELSE 2]
         /\ p.fresh = [n.fresh EXCEPT ![s] = t]
<1>1. /\ IsTable(p) /\ Same(p, n, DrawFields)
      /\ p.deck = Take(n.deck, t, 1)
      /\ p.holes = [n.holes EXCEPT ![s] = Add(n.holes[s], t, 1)]
      /\ p.draws = [n.draws EXCEPT ![s] = IF n.draws[s] < 2 THEN n.draws[s] + 1 ELSE 2]
      /\ p.fresh = [n.fresh EXCEPT ![s] = t]
      /\ p.guo_hu = [n.guo_hu EXCEPT ![s] = {}]
      /\ p.guo_peng = [n.guo_peng EXCEPT ![s] = {}]
  BY FieldNames DEF Draw, Table, IsTable, Same, DrawFields
<1>2. p.deck \in Bags /\ Add(n.holes[s], t, 1) \in Bags
  <2>1. n.deck \in Bags /\ n.holes[s] \in Bags
    BY DEF Table, Typed
  <2>. QED
    BY <1>1, <2>1, TakeFacts, AddFacts
<1>3. p.holes \in [Seats -> Bags]
  BY <1>1, <1>2 DEF Table, Typed
<1>4. p.draws \in [Seats -> 0 .. 2]
  <2>1. n.draws \in [Seats -> 0 .. 2] /\ n.draws[s] \in 0 .. 2
    BY DEF Table, Typed
  <2>2. (IF n.draws[s] < 2 THEN n.draws[s] + 1 ELSE 2) \in 0 .. 2
    BY <2>1
  <2>. QED
    BY <1>1, <2>1, <2>2
<1>5. /\ p.fresh \in [Seats -> Tiles \cup {NoTile}]
      /\ p.guo_hu \in [Seats -> SUBSET Tiles] /\ p.guo_peng \in [Seats -> SUBSET Tiles]
  BY <1>1 DEF Table, Typed
<1>6. Typed(p)
  BY <1>1, <1>2, <1>3, <1>4, <1>5 DEF Table, Typed, Same, DrawFields
<1>. QED
  BY <1>1, <1>6 DEF Table

LEMMA StartNextBetCases ==
  ASSUME NEW n, Table(n), NEW z \in StartNextBet(n)
  PROVE  /\ Table(z)
         /\ \/ Same(z, n, {"phase", "actions"}) /\ z.phase = "won"
            \/ /\ ~ (n.gang_hu_count > 1 \/ n.pao_hu_count > 1)
               /\ Claims(n) # {}
               /\ Same(z, n, {"actions"}) /\ z.actions = Claims(n) \cup {"GUO"}
            \/ /\ ~ (n.gang_hu_count > 1 \/ n.pao_hu_count > 1)
               /\ Claims(n) = {} /\ ~ TakesTile(n, n.cur_seat)
               /\ Same(z, n, {"actions", "fresh"})
               /\ z.actions = WithPass(TurnOffers(z, n.cur_seat))
            \/ /\ Claims(n) = {}
               /\ Same(z, n, {"phase", "actions"}) /\ z.phase = "drawn"
            \/ /\ ~ (n.gang_hu_count > 1 \/ n.pao_hu_count > 1)
               /\ Claims(n) = {} /\ TakesTile(n, n.cur_seat)
               /\ \E t \in Tiles : Drawn(n, z, t)
<1> DEFINE s == n.cur_seat
           many == n.gang_hu_count > 1 \/ n.pao_hu_count > 1
<1>1. s \in Seats
  BY DEF Table, Typed
<1>2. PICK q : q = [n EXCEPT !.actions = {}]
  OBVIOUS
<1>3. Table(q) /\ Same(q, n, {"actions"}) /\ q.actions = {}
  <2>1. IsTable(q) /\ Same(q, n, {"actions"}) /\ q.actions = {}
    BY <1>2, FieldNames DEF Table, IsTable, Same
  <2>2. Typed(q)
    BY <2>1 DEF Table, Typed, Same
  <2>. QED
    BY <2>1, <2>2 DEF Table
<1>4. /\ TakesTile(q, s) <=> TakesTile(n, s)
      /\ q.deck = n.deck /\ q.holes = n.holes /\ q.draws = n.draws /\ q.fresh = n.fresh
  <2>1. q.deck = n.deck /\ q.holes = n.holes /\ q.draws = n.draws /\ q.fresh = n.fresh
    BY <1>3 DEF Same
  <2>. QED
    BY <2>1 DEF TakesTile, Size
<1>5. z \in CASE many -> {[q EXCEPT !.phase = "won"]}
              [] ~ many /\ Claims(n) # {} -> {Offer(q, Claims(n))}
              [] OTHER ->
                   IF ~ TakesTile(q, s)
                   THEN {Offer([q EXCEPT !.fresh[s] = NoTile],
                               TurnOffers([q EXCEPT !.fresh[s] = NoTile], s))}
                   ELSE IF ~ PermitGet(q) THEN {[q EXCEPT !.phase = "drawn"]}
                   ELSE {Offer(Draw(q, s, t), TurnOffers(Draw(q, s, t), s)) :
                           t \in {u \in Tiles : q.deck[u] > 0}}
  BY <1>2 DEF StartNextBet, Claims
<1>6. \A A \in {"won", "drawn"} : \A y : y = [q EXCEPT !.phase = A] =>
        Table(y) /\ Same(y, n, {"phase", "actions"}) /\ y.phase = A
  <2> SUFFICES ASSUME NEW A \in {"won", "drawn"}, NEW y, y = [q EXCEPT !.phase = A]
               PROVE  Table(y) /\ Same(y, n, {"phase", "actions"}) /\ y.phase = A
    OBVIOUS
  <2>1. IsTable(y) /\ Same(y, q, {"phase"}) /\ y.phase = A
    BY <1>3, FieldNames DEF Table, IsTable, Same
  <2>2. Typed(y)
    BY <1>3, <2>1 DEF Table, Typed, Same
  <2>3. Same(y, n, {"phase", "actions"})
    BY <1>3, <2>1 DEF Same
  <2>. QED
    BY <2>1, <2>2, <2>3 DEF Table
<1> HIDE DEF many, s
<1>7. CASE many
  <2>1. z = [q EXCEPT !.phase = "won"]
    BY <1>5, <1>7
  <2>. QED
    BY <1>6, <2>1
<1>8. CASE ~ many /\ Claims(n) # {}
  <2>1. z = Offer(q, Claims(n))
    BY <1>5, <1>8
  <2>2. Claims(n) \subseteq {"PENG", "GANG", "TING", "HU"}
    BY OffersAreActions DEF Claims
  <2>3. Table(z) /\ Same(z, q, {"actions"}) /\ z.actions = WithPass(Claims(n))
    BY <1>3, <2>1, <2>2, OfferFacts
  <2>4. Same(z, n, {"actions"})
    BY <1>3, <2>3 DEF Same
  <2>5. z.actions = Claims(n) \cup {"GUO"}
    BY <1>8, <2>3 DEF WithPass
  <2>. QED
    BY <1>8, <2>3, <2>4, <2>5 DEF many
<1>9. CASE ~ many /\ Claims(n) = {} /\ ~ TakesTile(q, s)
  <2>1. PICK p : p = [q EXCEPT !.fresh[s] = NoTile]
    OBVIOUS
  <2>2. z = Offer(p, TurnOffers(p, s))
    BY <1>5, <1>9, <2>1
  <2>3. Table(p) /\ Same(p, q, {"fresh"})
    <3>1. IsTable(p) /\ Same(p, q, {"fresh"}) /\ p.fresh = [q.fresh EXCEPT ![s] = NoTile]
      BY <1>3, <2>1, FieldNames DEF Table, IsTable, Same
    <3>2. p.fresh \in [Seats -> Tiles \cup {NoTile}]
      <4>1. q.fresh \in [Seats -> Tiles \cup {NoTile}]
        BY <1>3 DEF Table, Typed
      <4>. QED
        BY <3>1, <4>1
    <3>3. Typed(p)
      BY <1>3, <3>1, <3>2 DEF Table, Typed, Same
    <3>. QED
      BY <3>1, <3>3 DEF Table
  <2>4. TurnOffers(p, s) \subseteq {"PENG", "GANG", "TING", "HU"}
    BY OffersAreActions
  <2>5. Table(z) /\ Same(z, p, {"actions"}) /\ z.actions = WithPass(TurnOffers(p, s))
    BY <2>2, <2>3, <2>4, OfferFacts
  <2>6. Same(z, n, {"actions", "fresh"})
    BY <1>3, <2>3, <2>5 DEF Same
  <2>7. TurnOffers(z, s) = TurnOffers(p, s)
    BY <2>5, SameTurnOffers
  <2>. QED
    BY <1>4, <1>9, <2>5, <2>6, <2>7 DEF many, s
<1>10. CASE ~ many /\ Claims(n) = {} /\ TakesTile(q, s) /\ ~ PermitGet(q)
  <2>1. z = [q EXCEPT !.phase = "drawn"]
    BY <1>5, <1>10
  <2>. QED
    BY <1>6, <1>10, <2>1
<1>11. CASE ~ many /\ Claims(n) = {} /\ TakesTile(q, s) /\ PermitGet(q)
  <2>1. PICK t \in Tiles : q.deck[t] > 0 /\ z = Offer(Draw(q, s, t), TurnOffers(Draw(q, s, t), s))
    BY <1>5, <1>11
  <2>2. PICK p : p = Draw(q, s, t)
    OBVIOUS
  <2>3. /\ Table(p) /\ Same(p, q, DrawFields)
        /\ p.deck = Take(q.deck, t, 1)
        /\ p.holes = [q.holes EXCEPT ![s] = Add(q.holes[s], t, 1)]
        /\ p.draws = [q.draws EXCEPT ![s] = IF q.draws[s] < 2 THEN q.draws[s] + 1 ELSE 2]
        /\ p.fresh = [q.fresh EXCEPT ![s] = t]
    BY <1>1, <1>3, <2>2, DrawFacts
  <2>4. TurnOffers(p, s) \subseteq {"PENG", "GANG", "TING", "HU"}
    BY OffersAreActions
  <2>5. Table(z) /\ Same(z, p, {"actions"}) /\ z.actions = WithPass(TurnOffers(p, s))
    BY <2>1, <2>2, <2>3, <2>4, OfferFacts
  <2>6. Same(z, n, DrawFields \cup {"actions"})
    BY <1>3, <2>3, <2>5 DEF Same, DrawFields
  <2>7. TurnOffers(z, s) = TurnOffers(p, s)
    BY <2>5, SameTurnOffers
  <2>8. z.deck = p.deck /\ z.holes = p.holes /\ z.draws = p.draws /\ z.fresh = p.fresh
    BY <2>5 DEF Same
  <2>9. Drawn(n, z, t)
    BY <1>4, <2>1, <2>3, <2>5, <2>6, <2>7, <2>8 DEF Drawn, s
  <2>. QED
    BY <1>4, <1>11, <2>5, <2>9 DEF many, s
<1>. QED
  BY <1>7, <1>8, <1>9, <1>10, <1>11

LEMMA NoTileIsNoTile == NoTile \notin Tiles /\ NoSeat \notin Seats
BY RoundAssumption DEF NoTile, NoSeat, Seats

LEMMA DrawnTableIsEven ==
  ASSUME NEW n, Even(n), NEW z, Table(z), NEW t \in Tiles, Drawn(n, z, t)
  PROVE  /\ FiniteMelds(z) /\ Conserved(z) /\ Listening(z) /\ LastCardLies(z)
         /\ Held(z, n.cur_seat) = HandSize + 1
         /\ \A s \in Seats \ {n.cur_seat} : Held(z, s) = HandSize
         /\ \A s : MeldsOf(z, s) = MeldsOf(n, s)
         /\ z.holes[n.cur_seat][t] >= 1 /\ z.fresh[n.cur_seat] = t
<1> DEFINE c == n.cur_seat
<1>1. Table(n) /\ c \in Seats /\ FiniteMelds(n) /\ Conserved(n)
  BY DEF Even, Table, Typed
<1>2. /\ z.discards = n.discards /\ z.pengs = n.pengs /\ z.gangs = n.gangs
      /\ z.last_card = n.last_card /\ z.chu_seat = n.chu_seat
      /\ z.last_action = n.last_action /\ z.last_actions = n.last_actions
      /\ z.ting = n.ting /\ z.bao_ting = n.bao_ting
  BY DEF Drawn, Same, DrawFields
<1>3. /\ n.deck[t] > 0 /\ z.deck = Take(n.deck, t, 1)
      /\ z.holes = [n.holes EXCEPT ![c] = Add(n.holes[c], t, 1)]
      /\ z.draws = [n.draws EXCEPT ![c] = IF n.draws[c] < 2 THEN n.draws[c] + 1 ELSE 2]
      /\ z.fresh = [n.fresh EXCEPT ![c] = t]
  BY DEF Drawn
<1>4. /\ n.deck \in Bags /\ n.holes \in [Seats -> Bags] /\ n.draws \in [Seats -> 0 .. 2]
      /\ n.fresh \in [Seats -> Tiles \cup {NoTile}]
  BY <1>1 DEF Table, Typed
<1> HIDE DEF c
<1>5. /\ z.holes[c] = Add(n.holes[c], t, 1)
      /\ \A s \in Seats \ {c} : z.holes[s] = n.holes[s]
      /\ \A s \in Seats \ {c} : z.draws[s] = n.draws[s]
      /\ z.fresh[c] = t
  BY <1>1, <1>3, <1>4
<1>6. n.draws[c] \in 0 .. 2 /\ z.draws[c] = IF n.draws[c] < 2 THEN n.draws[c] + 1 ELSE 2
  BY <1>1, <1>3, <1>4
<1>7. /\ Total(Add(n.holes[c], t, 1)) = Total(n.holes[c]) + 1
      /\ Total(n.holes[c]) \in Nat
      /\ \A x \in Tiles : Add(n.holes[c], t, 1)[x]
                            = IF x = t THEN n.holes[c][x] + 1 ELSE n.holes[c][x]
      /\ \A x \in Tiles : n.holes[c][x] \in Nat
  <2>1. n.holes[c] \in Bags
    BY <1>1, <1>4
  <2>2. PICK b : b = n.holes[c]
    OBVIOUS
  <2>3. b \in Bags
    BY <2>1, <2>2
  <2>4. Total(b) \in Nat /\ \A x \in Tiles : b[x] \in Nat
    BY <2>3, BagFacts
  <2>5. /\ Total(Add(b, t, 1)) = Total(b) + 1
        /\ \A x \in Tiles : Add(b, t, 1)[x] = IF x = t THEN b[x] + 1 ELSE b[x]
    BY <2>3, AddFacts
  <2>. QED
    BY <2>2, <2>4, <2>5
<1>8. \A s : MeldsOf(z, s) = MeldsOf(n, s)
  BY <1>2 DEF MeldsOf
<1>9. FiniteMelds(z)
  BY <1>1, <1>2 DEF FiniteMelds
<1>10. Held(z, c) = HandSize + 1
  <2>1. Size(z, c) = Size(n, c) + 1
    BY <1>5, <1>7 DEF Size
  <2>2. Size(n, c) \in Nat /\ MeldsOf(n, c) \in Nat /\ HandSize \in Nat
    BY <1>1, HandFacts, RoundAssumption
  <2>3. Size(n, c) + 3 * MeldsOf(n, c) = HandSize
    BY <1>1 DEF Even, Held
  <2>4. Size(z, c) + 3 * MeldsOf(z, c) = HandSize + 1
    BY <1>8, <2>1, <2>2, <2>3
  <2>. QED
    BY <2>4 DEF Held
<1>11. \A s \in Seats \ {c} : Held(z, s) = HandSize /\ Size(z, s) = Size(n, s)
  <2>1. \A s \in Seats \ {c} : Size(z, s) = Size(n, s)
    BY <1>5 DEF Size
  <2>2. \A s \in Seats : Size(n, s) + 3 * MeldsOf(n, s) = HandSize
    BY DEF Even, Held
  <2>. QED
    BY <1>8, <2>1, <2>2 DEF Held
<1>12. z.holes[c][t] >= 1
  BY <1>5, <1>7
<1>13. Conserved(z)
  <2> SUFFICES ASSUME NEW x \in Tiles PROVE Copies[x] = z.deck[x] + Total(Account(z, x))
    BY DEF Conserved
  <2> DEFINE f == Account(n, x)
             g == Account(z, x)
  <2>1. Copies[x] = n.deck[x] + Total(f)
    BY <1>1 DEF Conserved
  <2>2. n.deck[x] \in Nat /\ z.deck[x] = IF x = t THEN n.deck[x] - 1 ELSE n.deck[x]
    <3>1. n.deck[x] \in Nat /\ n.deck[t] \in Nat
      BY <1>4, BagFacts
    <3>2. n.deck[t] >= 1
      BY <1>3, <3>1
    <3>3. Take(n.deck, t, 1)[x] = IF x = t THEN n.deck[x] - 1 ELSE n.deck[x]
      BY <1>4, <3>2, TakeFacts
    <3>. QED
      BY <1>3, <3>1, <3>3
  <2>3. (\A s \in Seats : f[s] \in Nat /\ g[s] \in Nat)
        /\ Total(f) = SumOn(f, Seats) /\ Total(g) = SumOn(g, Seats)
    BY <1>1, <1>9, AccountFacts
  <2>4. \A s \in Seats \ {c} : g[s] = f[s]
    BY <1>2, <1>5 DEF Account
  <2>5. g[c] = IF x = t THEN f[c] + 1 ELSE f[c]
    <3>1. z.holes[c][x] = IF x = t THEN n.holes[c][x] + 1 ELSE n.holes[c][x]
      BY <1>5, <1>7
    <3>2. n.holes[c][x] \in Nat /\ n.discards[c][x] \in Nat
      BY <1>1, BagFacts DEF Table, Typed
    <3> DEFINE m == IF x \in n.pengs[c] THEN 3 ELSE 0
               k == 4 * Cardinality({e \in n.gangs[c] : e.tile = x})
    <3>3. f[c] = n.holes[c][x] + n.discards[c][x] + m + k
      BY <1>1 DEF Account
    <3>4. g[c] = z.holes[c][x] + n.discards[c][x] + m + k
      BY <1>1, <1>2 DEF Account
    <3>5. m \in Int /\ k \in Int
      <4>1. IsFiniteSet({e \in n.gangs[c] : e.tile = x})
        BY <1>1, FS_Subset DEF FiniteMelds
      <4>. QED
        BY <4>1, FS_CardinalityType
    <3> HIDE DEF f, g, m, k
    <3>. QED
      BY <3>1, <3>2, <3>3, <3>4, <3>5
  <2> HIDE DEF f, g
  <2>6. SumOn(f, Seats) \in Nat /\ SumOn(g, Seats) = SumOn(f, Seats) - f[c] + g[c]
    <3>1. \A s \in Seats : f[s] \in Int /\ g[s] \in Int
      BY <2>3
    <3>. QED
      BY <1>1, <2>3, <2>4, <3>1, SeatsAreFinite, SumChanges, SumIsNat
  <2>7. f[c] \in Nat
    BY <1>1, <2>3
  <2>8. Copies[x] = z.deck[x] + Total(g)
    BY <2>1, <2>2, <2>3, <2>5, <2>6, <2>7
  <2>. QED
    BY <2>8 DEF g
<1>14. Listening(z)
  <2>1. z.ting \subseteq z.bao_ting
    BY <1>2 DEF Even, Listening
  <2>2. \A s \in Seats \ {c} : HasExtraTile(z, s) <=> HasExtraTile(n, s)
    BY <1>11 DEF HasExtraTile
  <2>3. ASSUME NEW s \in Seats
        PROVE /\ HasExtraTile(z, s) /\ MeldsOf(z, s) = 0 => z.draws[s] >= 1
              /\ z.last_actions[s][1] # "NONE" =>
                   \/ MeldsOf(z, s) > 0
                   \/ z.draws[s] = 2
                   \/ z.draws[s] = 1 /\ ~ HasExtraTile(z, s)
    <3>1. CASE s = c
      <4>1. z.draws[c] >= 1
        BY <1>6
      <4>2. n.draws[c] >= 1 => z.draws[c] = 2
        BY <1>6
      <4>3. n.last_actions[c][1] # "NONE" => MeldsOf(n, c) > 0 \/ n.draws[c] >= 1
        BY <1>1 DEF Even, Listening
      <4>. QED
        BY <1>2, <1>8, <3>1, <4>1, <4>2, <4>3
    <3>2. CASE s # c
      <4>1. /\ HasExtraTile(z, s) <=> HasExtraTile(n, s)
            /\ z.draws[s] = n.draws[s] /\ MeldsOf(z, s) = MeldsOf(n, s)
            /\ z.last_actions[s] = n.last_actions[s]
        BY <1>2, <1>5, <1>8, <2>2, <3>2
      <4>. QED
        BY <4>1 DEF Even, Listening
    <3>. QED
      BY <3>1, <3>2
  <2>. QED
    BY <2>1, <2>3 DEF Listening
<1>15. LastCardLies(z)
  BY <1>2 DEF Even, LastCardLies
<1>. QED
  BY <1>5, <1>8, <1>9, <1>10, <1>11, <1>12, <1>13, <1>14, <1>15 DEF c

\* A single flagged seat is made the offer of its win.
LEMMA FlaggedIsOffered ==
  ASSUME NEW n, Even(n), Flagged(n),
         ~ (n.gang_hu_count > 1 \/ n.pao_hu_count > 1)
  PROVE  /\ n.pao_hu_flag # {} \/ n.gang_hu_flag # {} => "HU" \in Claims(n)
         /\ n.pao_hu_flag # {} => n.pao_hu_flag = {n.cur_seat} /\ n.pao_hu_seat = n.chu_seat
         /\ n.gang_hu_flag # {} =>
              n.gang_hu_flag = {n.cur_seat} /\ n.gang_hu_seat = n.wait_handler_seat
<1>1. n.gang_hu_count <= 1 /\ n.pao_hu_count <= 1
  BY DEF Even, Table, Typed
<1>2. n.pao_hu_flag # {} =>
        /\ n.pao_hu_flag = {n.cur_seat} /\ n.pao_hu_seat = n.chu_seat
        /\ n.last_action = "CHU" /\ n.handler_flag = {} /\ WinsOnDiscard(n, n.cur_seat)
  BY <1>1 DEF Flagged
<1>3. n.gang_hu_flag # {} =>
        /\ n.gang_hu_flag = {n.cur_seat} /\ n.gang_hu_seat = n.wait_handler_seat
        /\ n.gang_hu_seat \notin {NoSeat, n.cur_seat}
        /\ n.last_action = "GANG" /\ Completes(n, n.cur_seat, n.last_gang_card)
  BY <1>1 DEF Flagged
<1>4. n.pao_hu_flag # {} => "HU" \in DiscardOffers(n, n.cur_seat)
  BY <1>2 DEF DiscardOffers
<1>5. n.gang_hu_flag # {} => "HU" \in RobbingOffers(n, n.cur_seat)
  BY <1>3 DEF RobbingOffers
<1>. QED
  BY <1>2, <1>3, <1>4, <1>5 DEF Claims

\* What an offer on another seat's tile rests on.
LEMMA ClaimsRestOnTiles ==
  ASSUME NEW n, Even(n), Flagged(n), Claims(n) # {},
         ~ (n.gang_hu_count > 1 \/ n.pao_hu_count > 1)
  PROVE  /\ n.last_card \in Tiles /\ n.last_action \in {"CHU", "GUO", "GANG"}
         /\ "PENG" \in Claims(n) =>
              PermitPeng(n, n.cur_seat, n.last_card) /\ n.cur_seat \notin n.ting
         /\ "GANG" \in Claims(n) => PermitGang(n, n.cur_seat, n.last_card)
<1> DEFINE c == n.cur_seat
<1>1. /\ "PENG" \in Claims(n) => PermitPeng(n, c, n.last_card) /\ c \notin n.ting
      /\ "GANG" \in Claims(n) => PermitGang(n, c, n.last_card)
      /\ "PENG" \notin RobbingOffers(n, c) /\ "GANG" \notin RobbingOffers(n, c)
  BY DEF Claims, RobbingOffers, DiscardOffers
<1>2. ASSUME DiscardOffers(n, c) # {}
      PROVE  n.last_card \in Tiles /\ n.last_action \in {"CHU", "GUO"}
  <2>1. \/ WinsOnDiscard(n, c) \/ PermitGang(n, c, n.last_card)
        \/ PermitPeng(n, c, n.last_card)
    BY <1>2 DEF DiscardOffers
  <2>2. n.last_action \in {"CHU", "GUO"}
    BY <1>2 DEF DiscardOffers
  <2>. QED
    BY <2>1, <2>2 DEF WinsOnDiscard, Completes, PermitGang, PermitPeng
<1>3. ASSUME RobbingOffers(n, c) # {}
      PROVE  n.last_card \in Tiles /\ n.last_action = "GANG"
  <2>1. n.last_action = "GANG" /\ n.gang_hu_seat # NoSeat
    BY <1>3 DEF RobbingOffers
  <2>2. n.gang_hu_flag # {} /\ n.gang_hu_count <= 1
    BY <2>1 DEF Flagged, Even, Table, Typed
  <2>. QED
    BY <2>1, <2>2 DEF Flagged
<1>. QED
  BY <1>1, <1>2, <1>3 DEF Claims

\* Where the turn is settled and no tile is drawn, the tables keep their hands.
LEMMA HandsKept ==
  ASSUME NEW n, Even(n), NEW z, Table(z), Same(z, n, {"phase", "actions"})
  PROVE  /\ FiniteMelds(z) /\ Conserved(z) /\ Shaped(z) /\ Listening(z) /\ LastCardLies(z)
         /\ \A s \in Seats : ~ HasExtraTile(z, s)
         /\ z.win_seatid = NoSeat
<1>1. /\ z.holes = n.holes /\ z.discards = n.discards /\ z.deck = n.deck
      /\ z.pengs = n.pengs /\ z.gangs = n.gangs /\ z.win_seatid = n.win_seatid
      /\ z.last_card = n.last_card /\ z.chu_seat = n.chu_seat
      /\ z.last_action = n.last_action /\ z.last_actions = n.last_actions
      /\ z.ting = n.ting /\ z.bao_ting = n.bao_ting /\ z.draws = n.draws
  BY DEF Same
<1>2. /\ \A s : (HasExtraTile(z, s) <=> HasExtraTile(n, s))
      /\ \A s : MeldsOf(z, s) = MeldsOf(n, s) /\ Held(z, s) = Held(n, s)
      /\ FiniteMelds(z) <=> FiniteMelds(n)
      /\ Conserved(z) <=> Conserved(n)
  BY <1>1, SameHands
<1>3. Shaped(z)
  BY <1>2 DEF Even, Shaped
<1>4. Listening(z)
  BY <1>1, <1>2 DEF Even, Listening
<1>5. LastCardLies(z)
  BY <1>1 DEF Even, LastCardLies
<1>6. \A s \in Seats : ~ HasExtraTile(n, s)
  BY HandFacts DEF Even
<1>. QED
  BY <1>1, <1>2, <1>3, <1>4, <1>5, <1>6 DEF Even

LEMMA StartNextBetKeeps ==
  ASSUME NEW n, Even(n), Flagged(n), NEW z \in StartNextBet(n)
  PROVE  RoundInv(z)
<1> DEFINE c == n.cur_seat
           many == n.gang_hu_count > 1 \/ n.pao_hu_count > 1
<1>1. /\ Table(n) /\ c \in Seats /\ n.phase = "betting" /\ n.win_seatid = NoSeat
      /\ n.last_action # "PENG"
      /\ n.last_action \in {"CHU", "GUO", "GANG"} => Waited(n)
  BY DEF Even, Table, Typed
<1>2. Table(z)
  BY <1>1, StartNextBetCases
<1>3. CASE Same(z, n, {"phase", "actions"}) /\ z.phase # "betting"
  <2>1. FiniteMelds(z) /\ Conserved(z) /\ Shaped(z) /\ z.win_seatid = NoSeat
    BY <1>2, <1>3, HandsKept
  <2>2. z.pao_hu_seat = n.pao_hu_seat /\ z.gang_hu_seat = n.gang_hu_seat
    BY <1>3 DEF Same
  <2>3. SettledWin(z)
    BY <2>1, <2>2 DEF SettledWin, Flagged
  <2>. QED
    BY <1>2, <1>3, <2>1, <2>3 DEF RoundInv
<1>4. CASE ~ many /\ Claims(n) # {} /\ Same(z, n, {"actions"})
             /\ z.actions = Claims(n) \cup {"GUO"}
  <2>1. Same(z, n, {"phase", "actions"})
    BY <1>4 DEF Same
  <2>2. /\ FiniteMelds(z) /\ Conserved(z) /\ Shaped(z) /\ z.win_seatid = NoSeat
        /\ Listening(z) /\ LastCardLies(z) /\ \A s \in Seats : ~ HasExtraTile(z, s)
    BY <1>2, <2>1, HandsKept
  <2>3. /\ z.cur_seat = c /\ z.phase = "betting" /\ z.last_action = n.last_action
        /\ z.last_card = n.last_card /\ z.ting = n.ting /\ z.holes = n.holes
        /\ z.chu_seat = n.chu_seat /\ z.wait_handler_seat = n.wait_handler_seat
        /\ z.wait_handle_action = n.wait_handle_action
        /\ z.pao_hu_flag = n.pao_hu_flag /\ z.gang_hu_flag = n.gang_hu_flag
        /\ z.pao_hu_seat = n.pao_hu_seat /\ z.gang_hu_seat = n.gang_hu_seat
    BY <1>1, <1>4 DEF Same
  <2>4. Payers(z)
    <3>1. /\ n.pao_hu_flag # {} \/ n.gang_hu_flag # {} => "HU" \in z.actions
          /\ n.pao_hu_flag # {} => n.pao_hu_flag = {n.cur_seat} /\ n.pao_hu_seat = n.chu_seat
          /\ n.gang_hu_flag # {} =>
               n.gang_hu_flag = {n.cur_seat} /\ n.gang_hu_seat = n.wait_handler_seat
      BY <1>4, FlaggedIsOffered
    <3>2. /\ n.pao_hu_flag = {} => n.pao_hu_seat = NoSeat
          /\ n.gang_hu_flag = {} => n.gang_hu_seat = NoSeat
          /\ n.pao_hu_flag = {} \/ n.gang_hu_flag = {}
      BY DEF Flagged
    <3>. QED
      BY <2>3, <3>1, <3>2 DEF Payers
  <2>5. Asked(z, c)
    <3>1. /\ n.last_card \in Tiles /\ n.last_action \in {"CHU", "GUO", "GANG"}
          /\ "PENG" \in Claims(n) => PermitPeng(n, c, n.last_card) /\ c \notin n.ting
          /\ "GANG" \in Claims(n) => PermitGang(n, c, n.last_card)
      BY <1>4, ClaimsRestOnTiles
    <3>2. Waited(z)
      BY <1>1, <2>3, <3>1 DEF Waited
    <3>3. "TING" \notin z.actions /\ "GUO" \in z.actions
      BY <1>4, OffersAreActions DEF Claims
    <3>4. /\ "PENG" \in z.actions => PermitPeng(z, c, z.last_card) /\ c \notin z.ting
          /\ "GANG" \in z.actions => PermitGang(z, c, z.last_card)
      BY <1>4, <2>3, <3>1 DEF PermitPeng, PermitGang
    <3>. QED
      BY <1>1, <2>3, <3>1, <3>2, <3>3, <3>4 DEF Asked
  <2>. QED
    BY <1>1, <1>2, <2>2, <2>3, <2>4, <2>5 DEF RoundInv
<1>5. CASE ~ many /\ Claims(n) = {} /\ \E t \in Tiles : Drawn(n, z, t)
  <2>1. PICK t \in Tiles : Drawn(n, z, t)
    BY <1>5
  <2>2. /\ FiniteMelds(z) /\ Conserved(z) /\ Listening(z) /\ LastCardLies(z)
        /\ Held(z, c) = HandSize + 1
        /\ \A s \in Seats \ {c} : Held(z, s) = HandSize
        /\ z.holes[c][t] >= 1 /\ z.fresh[c] = t
    BY <1>2, <2>1, DrawnTableIsEven
  <2>3. /\ z.cur_seat = c /\ z.phase = "betting" /\ z.win_seatid = NoSeat
        /\ z.last_action = n.last_action
        /\ z.pao_hu_flag = n.pao_hu_flag /\ z.gang_hu_flag = n.gang_hu_flag
        /\ z.pao_hu_seat = n.pao_hu_seat /\ z.gang_hu_seat = n.gang_hu_seat
    BY <1>1, <2>1 DEF Drawn, Same, DrawFields
  <2>4. Shaped(z)
    BY <2>2, <2>3 DEF Shaped
  <2>5. n.pao_hu_flag = {} /\ n.gang_hu_flag = {}
    BY <1>5, FlaggedIsOffered
  <2>6. Payers(z)
    BY <2>3, <2>5 DEF Payers, Flagged
  <2>7. z.actions \subseteq {"HU", "TING", "GANG", "GUO"} /\ z.actions = WithPass(TurnOffers(z, c))
    BY <2>1, OffersAreActions DEF Drawn, WithPass
  <2>8. "TING" \in z.actions => z.draws[c] = 1 /\ MeldsOf(z, c) = 0
    <3>1. SUFFICES ASSUME "TING" \in z.actions PROVE z.draws[c] = 1 /\ MeldsOf(z, c) = 0
      OBVIOUS
    <3>2. z.draws[c] = 1 /\ Size(z, c) >= HandSize
      BY <2>7, <3>1 DEF WithPass, TurnOffers
    <3>3. Size(z, c) \in Nat /\ MeldsOf(z, c) \in Nat /\ HandSize \in Nat
      BY <1>1, <1>2, <2>2, HandFacts, RoundAssumption
    <3>4. Size(z, c) + 3 * MeldsOf(z, c) = HandSize + 1
      BY <2>2 DEF Held
    <3>5. MeldsOf(z, c) = 0
      BY <3>2, <3>3, <3>4
    <3>. QED
      BY <3>2, <3>5
  <2>9. OwnTurn(z, c)
    BY <1>1, <2>2, <2>3, <2>5, <2>7, <2>8 DEF OwnTurn
  <2>10. HasExtraTile(z, c)
    BY <1>1, <1>2, <2>2, HandFacts
  <2>. QED
    BY <1>2, <2>2, <2>3, <2>4, <2>6, <2>9, <2>10 DEF RoundInv
<1>6. ~ (~ TakesTile(n, c))
  BY <1>1, HandFacts DEF Even, TakesTile
<1>. QED
  BY <1>1, <1>3, <1>4, <1>5, <1>6, StartNextBetCases

-----------------------------------------------------------------------------
(* The handlers leave an even table.                                       *)

LEMMA TurnHolds ==
  ASSUME NEW r, RoundInv(r)
  PROVE  /\ Table(r) /\ r.cur_seat \in Seats
         /\ HasExtraTile(r, r.cur_seat) => Held(r, r.cur_seat) = HandSize + 1
         /\ ~ HasExtraTile(r, r.cur_seat) => Held(r, r.cur_seat) = HandSize
         /\ \A s \in Seats \ {r.cur_seat} : Held(r, s) = HandSize /\ ~ HasExtraTile(r, s)
<1>1. Table(r) /\ FiniteMelds(r) /\ Shaped(r) /\ r.cur_seat \in Seats
  BY DEF RoundInv, Table, Typed
<1>2. \A s \in Seats \ {r.cur_seat} : Held(r, s) = HandSize
  BY <1>1 DEF Shaped
<1>3. Held(r, r.cur_seat) \in {HandSize, HandSize + 1}
  BY <1>1 DEF Shaped
<1>4. \A s \in Seats : /\ Held(r, s) = HandSize => ~ HasExtraTile(r, s)
                       /\ Held(r, s) = HandSize + 1 => HasExtraTile(r, s)
  BY <1>1, HandFacts
<1>. QED
  BY <1>1, <1>2, <1>3, <1>4

\* A tile goes from a hand to the seat's discards.
Discards(r, q, s, t) ==
  /\ q.deck = r.deck /\ q.pengs = r.pengs /\ q.gangs = r.gangs
  /\ q.holes = [r.holes EXCEPT ![s] = Take(r.holes[s], t, 1)]
  /\ q.discards = [r.discards EXCEPT ![s] = Add(r.discards[s], t, 1)]

LEMMA DiscardFacts ==
  ASSUME NEW r, Table(r), FiniteMelds(r), Conserved(r), NEW q, Table(q),
         NEW s \in Seats, NEW t \in Tiles, r.holes[s][t] > 0, Discards(r, q, s, t)
  PROVE  /\ FiniteMelds(q) /\ Conserved(q)
         /\ \A x : MeldsOf(q, x) = MeldsOf(r, x)
         /\ Size(q, s) = Size(r, s) - 1 /\ Held(q, s) = Held(r, s) - 1
         /\ \A x \in Seats \ {s} : Size(q, x) = Size(r, x) /\ Held(q, x) = Held(r, x)
         /\ q.discards[s][t] >= 1
<1>1. /\ q.deck = r.deck /\ q.pengs = r.pengs /\ q.gangs = r.gangs
      /\ q.holes = [r.holes EXCEPT ![s] = Take(r.holes[s], t, 1)]
      /\ q.discards = [r.discards EXCEPT ![s] = Add(r.discards[s], t, 1)]
  BY DEF Discards
<1>2. r.holes \in [Seats -> Bags] /\ r.discards \in [Seats -> Bags]
  BY DEF Table, Typed
<1>3. PICK b, d : b = r.holes[s] /\ d = r.discards[s]
  OBVIOUS
<1>4. /\ b \in Bags /\ d \in Bags /\ 1 \in Nat
  BY <1>2, <1>3
<1>5. /\ Total(b) \in Nat /\ \A x \in Tiles : b[x] \in Nat
      /\ Total(d) \in Nat /\ \A x \in Tiles : d[x] \in Nat
  BY <1>4, BagFacts
<1>6. b[t] >= 1
  BY <1>3, <1>5
<1>7. /\ Total(Take(b, t, 1)) = Total(b) - 1
      /\ \A x \in Tiles : Take(b, t, 1)[x] = IF x = t THEN b[x] - 1 ELSE b[x]
  BY <1>4, <1>6, TakeFacts
<1>8. \A x \in Tiles : Add(d, t, 1)[x] = IF x = t THEN d[x] + 1 ELSE d[x]
  BY <1>4, AddFacts
<1>9. /\ q.holes[s] = Take(b, t, 1) /\ q.discards[s] = Add(d, t, 1)
      /\ \A x \in Seats \ {s} : q.holes[x] = r.holes[x] /\ q.discards[x] = r.discards[x]
  BY <1>1, <1>2, <1>3
<1>10. FiniteMelds(q)
  BY <1>1 DEF FiniteMelds
<1>11. \A x : MeldsOf(q, x) = MeldsOf(r, x)
  BY <1>1 DEF MeldsOf
<1>12. \A x \in Seats \ {s} : Size(q, x) = Size(r, x) /\ Held(q, x) = Held(r, x)
  BY <1>9, <1>11 DEF Size, Held
<1>13. Size(q, s) = Size(r, s) - 1
  BY <1>3, <1>7, <1>9 DEF Size
<1>14. Held(q, s) = Held(r, s) - 1
  <2>1. Size(r, s) \in Nat /\ MeldsOf(r, s) \in Nat
    BY HandFacts
  <2>. QED
    BY <1>11, <1>13, <2>1 DEF Held
<1>15. q.discards[s][t] >= 1
  BY <1>5, <1>8, <1>9
<1>16. Conserved(q)
  <2>1. \A y \in Tiles : \A x \in Seats \ {s, s} : Account(q, y)[x] = Account(r, y)[x]
    BY <1>1, <1>9 DEF Account
  <2>2. ASSUME NEW y \in Tiles PROVE SamePair(Account(r, y), Account(q, y), s, s)
    <3> DEFINE f == Account(r, y)
               g == Account(q, y)
               m == IF y \in r.pengs[s] THEN 3 ELSE 0
               k == 4 * Cardinality({e \in r.gangs[s] : e.tile = y})
    <3>1. f[s] = b[y] + d[y] + m + k
      BY <1>3 DEF Account
    <3>2. g[s] = Take(b, t, 1)[y] + Add(d, t, 1)[y] + m + k
      BY <1>1, <1>9 DEF Account
    <3>3. m \in Int /\ k \in Int
      <4>1. IsFiniteSet({e \in r.gangs[s] : e.tile = y})
        BY FS_Subset DEF FiniteMelds
      <4>. QED
        BY <4>1, FS_CardinalityType
    <3> HIDE DEF f, g, m, k
    <3>4. f[s] = g[s]
      BY <1>5, <1>7, <1>8, <3>1, <3>2, <3>3
    <3>5. SamePair(f, g, s, s)
      BY <3>4 DEF SamePair
    <3>. QED
      BY <3>5 DEF f, g
  <2>. QED
    BY <1>1, <1>10, <2>1, <2>2, AccountMoves
<1>. QED
  BY <1>10, <1>11, <1>12, <1>13, <1>14, <1>15, <1>16

\* Only the seat that answers is flagged, and answering it is not any more.
LEMMA AnswerIsQuiet ==
  ASSUME NEW r, RoundInv(r), r.phase = "betting", NEW q,
         q.pao_hu_flag = r.pao_hu_flag \ {r.cur_seat},
         q.gang_hu_flag = r.gang_hu_flag \ {r.cur_seat},
         q.pao_hu_seat = (IF r.cur_seat \in r.pao_hu_flag THEN NoSeat ELSE r.pao_hu_seat),
         q.gang_hu_seat = (IF r.cur_seat \in r.gang_hu_flag THEN NoSeat ELSE r.gang_hu_seat)
  PROVE  Quiet(q)
<1>1. Payers(r)
  BY DEF RoundInv
<1>2. q.pao_hu_flag = {} /\ q.pao_hu_seat = NoSeat
  BY <1>1 DEF Payers
<1>3. q.gang_hu_flag = {} /\ q.gang_hu_seat = NoSeat
  BY <1>1 DEF Payers
<1>. QED
  BY <1>2, <1>3 DEF Quiet

LEMMA ChuIsHandled ==
  ASSUME NEW r, RoundInv(r), r.phase = "betting", NEW s, s = r.cur_seat,
         NEW t \in Tiles, r.holes[s][t] > 0, HasExtraTile(r, s),
         NEW q, q = HandlerChu(r, s, t)
  PROVE  /\ Handled(q) /\ q.last_action = "CHU" /\ Size(q, s) <= Size(r, s)
         /\ \A x \in Seats \ {s} : Size(q, x) = Size(r, x)
<1>1. /\ Table(r) /\ s \in Seats /\ FiniteMelds(r) /\ Conserved(r)
      /\ Held(r, s) = HandSize + 1 /\ \A x \in Seats \ {s} : Held(r, x) = HandSize
      /\ LastCardLies(r) /\ Listening(r) /\ r.win_seatid = NoSeat
  BY TurnHolds DEF RoundInv
<1>2. /\ Table(q)
      /\ Same(q, r, {"last_action", "last_actions", "pao_hu_seat", "pao_hu_flag",
                        "gang_hu_seat", "gang_hu_flag", "last_card", "chu_seat", "holes",
                        "discards", "guo_peng", "handler_flag", "wait_handle_action",
                        "wait_handler_seat"})
      /\ q.last_action = "CHU"
      /\ q.last_actions = [r.last_actions EXCEPT ![s] = <<"CHU", r.last_actions[s][1]>>]
      /\ q.last_card = t /\ q.chu_seat = s
      /\ q.holes = [r.holes EXCEPT ![s] = Take(r.holes[s], t, 1)]
      /\ q.discards = [r.discards EXCEPT ![s] = Add(r.discards[s], t, 1)]
      /\ q.handler_flag = {} /\ q.wait_handle_action = "CHU" /\ q.wait_handler_seat = s
      /\ q.pao_hu_flag = r.pao_hu_flag \ {s}
      /\ q.gang_hu_flag = r.gang_hu_flag \ {s}
      /\ q.pao_hu_seat = IF s \in r.pao_hu_flag THEN NoSeat ELSE r.pao_hu_seat
      /\ q.gang_hu_seat = IF s \in r.gang_hu_flag THEN NoSeat ELSE r.gang_hu_seat
  <2>1. Table(r) /\ s \in Seats /\ t \in Tiles /\ q = HandlerChu(r, s, t)
    BY <1>1
  <2>. QED
    BY ONLY <2>1, ChuFacts
<1>3. /\ q.deck = r.deck /\ q.pengs = r.pengs /\ q.gangs = r.gangs /\ q.ting = r.ting
      /\ q.bao_ting = r.bao_ting /\ q.draws = r.draws /\ q.phase = r.phase
      /\ q.win_seatid = r.win_seatid /\ q.cur_seat = s
  BY <1>2 DEF Same
<1>4. Discards(r, q, s, t)
  BY <1>2, <1>3 DEF Discards
<1>5. /\ FiniteMelds(q) /\ Conserved(q)
      /\ \A x : MeldsOf(q, x) = MeldsOf(r, x)
      /\ Size(q, s) = Size(r, s) - 1 /\ Held(q, s) = Held(r, s) - 1
      /\ \A x \in Seats \ {s} : Size(q, x) = Size(r, x) /\ Held(q, x) = Held(r, x)
      /\ q.discards[s][t] >= 1
  <2>1. /\ Table(r) /\ FiniteMelds(r) /\ Conserved(r) /\ Table(q) /\ s \in Seats
        /\ t \in Tiles /\ r.holes[s][t] > 0 /\ Discards(r, q, s, t)
    BY <1>1, <1>2, <1>4
  <2>. QED
    BY ONLY <2>1, DiscardFacts
<1>6. \A x \in Seats : Held(q, x) = HandSize
  <2>1. HandSize \in Nat
    BY RoundAssumption
  <2>. QED
    BY <1>1, <1>5, <2>1
<1>7. \A x \in Seats : ~ HasExtraTile(q, x)
  BY <1>2, <1>5, <1>6, HandFacts
<1>8. LastCardLies(q)
  BY <1>1, <1>2, <1>5, NoTileIsNoTile DEF LastCardLies
<1>9. Listening(q)
  <2>1. q.ting \subseteq q.bao_ting
    BY <1>1, <1>3 DEF Listening
  <2>2. r.draws[s] \in 0 .. 2
    BY <1>1 DEF Table, Typed
  <2>3. MeldsOf(r, s) \in Nat
    BY <1>1, HandFacts
  <2>4. MeldsOf(q, s) > 0 \/ q.draws[s] = 2 \/ q.draws[s] = 1
    <3>1. MeldsOf(r, s) = 0 => r.draws[s] >= 1
      BY <1>1 DEF Listening
    <3>. QED
      BY <1>3, <1>5, <2>2, <2>3, <3>1
  <2>5. \A x \in Seats \ {s} : q.last_actions[x] = r.last_actions[x]
    BY <1>2 DEF Table, Typed
  <2>6. \A x \in Seats \ {s} : r.last_actions[x][1] # "NONE" =>
               MeldsOf(r, x) > 0 \/ r.draws[x] = 2 \/ r.draws[x] = 1
    BY <1>1 DEF Listening
  <2>. QED
    BY <1>3, <1>5, <1>7, <2>1, <2>4, <2>5, <2>6 DEF Listening
<1>10. Even(q)
  BY <1>1, <1>2, <1>3, <1>5, <1>6, <1>8, <1>9 DEF Even, Waited
<1>11. Quiet(q)
  BY <1>2, AnswerIsQuiet
<1>12. Size(q, s) <= Size(r, s)
  <2>1. Size(r, s) \in Nat
    BY <1>1, HandFacts
  <2>. QED
    BY <1>5, <2>1
<1>. QED
  BY <1>2, <1>3, <1>5, <1>10, <1>11, <1>12 DEF Handled

\* The declaration is the seat's first action: it has drawn once and laid
\* down nothing.
LEMMA TingIsHandled ==
  ASSUME NEW r, RoundInv(r), r.phase = "betting", NEW s, s = r.cur_seat,
         NEW t \in Tiles, r.holes[s][t] > 0, "TING" \in r.actions,
         NEW q, q = HandlerTing(r, s, t)
  PROVE  /\ Handled(q) /\ q.last_action = "TING" /\ Size(q, s) <= Size(r, s)
         /\ \A x \in Seats \ {s} : Size(q, x) = Size(r, x)
<1>1. /\ Table(r) /\ s \in Seats /\ FiniteMelds(r) /\ Conserved(r)
      /\ \A x \in Seats \ {s} : Held(r, x) = HandSize
      /\ LastCardLies(r) /\ Listening(r) /\ r.win_seatid = NoSeat
  BY TurnHolds DEF RoundInv
<1>2. HasExtraTile(r, s) /\ OwnTurn(r, s)
  BY DEF RoundInv, Asked
<1>3. Held(r, s) = HandSize + 1
  BY <1>2, TurnHolds
<1>4. /\ Table(q)
      /\ Same(q, r, {"last_action", "last_actions", "last_card", "chu_seat", "holes",
                     "discards", "bao_ting", "ting"})
      /\ q.last_action = "TING"
      /\ q.last_actions = [r.last_actions EXCEPT ![s] = <<"TING", r.last_actions[s][1]>>]
      /\ q.last_card = t /\ q.chu_seat = s
      /\ q.holes = [r.holes EXCEPT ![s] = Take(r.holes[s], t, 1)]
      /\ q.discards = [r.discards EXCEPT ![s] = Add(r.discards[s], t, 1)]
      /\ q.ting = r.ting \cup {s}
      /\ q.bao_ting = IF r.last_actions[s][1] = "NONE" THEN r.bao_ting \cup {s} ELSE r.bao_ting
  <2>1. Table(r) /\ s \in Seats /\ t \in Tiles /\ q = HandlerTing(r, s, t)
    BY <1>1
  <2>. QED
    BY ONLY <2>1, TingFacts
<1>5. /\ q.deck = r.deck /\ q.pengs = r.pengs /\ q.gangs = r.gangs
      /\ q.draws = r.draws /\ q.phase = r.phase /\ q.pao_hu_flag = r.pao_hu_flag
      /\ q.gang_hu_flag = r.gang_hu_flag /\ q.pao_hu_seat = r.pao_hu_seat
      /\ q.gang_hu_seat = r.gang_hu_seat
      /\ q.win_seatid = r.win_seatid /\ q.cur_seat = s
  BY <1>4 DEF Same
<1>6. Discards(r, q, s, t)
  BY <1>4, <1>5 DEF Discards
<1>7. /\ FiniteMelds(q) /\ Conserved(q)
      /\ \A x : MeldsOf(q, x) = MeldsOf(r, x)
      /\ Size(q, s) = Size(r, s) - 1 /\ Held(q, s) = Held(r, s) - 1
      /\ \A x \in Seats \ {s} : Size(q, x) = Size(r, x) /\ Held(q, x) = Held(r, x)
      /\ q.discards[s][t] >= 1
  <2>1. /\ Table(r) /\ FiniteMelds(r) /\ Conserved(r) /\ Table(q) /\ s \in Seats
        /\ t \in Tiles /\ r.holes[s][t] > 0 /\ Discards(r, q, s, t)
    BY <1>1, <1>4, <1>6
  <2>. QED
    BY ONLY <2>1, DiscardFacts
<1>8. \A x \in Seats : Held(q, x) = HandSize
  <2>1. HandSize \in Nat
    BY RoundAssumption
  <2>. QED
    BY <1>1, <1>3, <1>7, <2>1
<1>9. \A x \in Seats : ~ HasExtraTile(q, x)
  BY <1>4, <1>7, <1>8, HandFacts
<1>10. LastCardLies(q)
  BY <1>1, <1>4, <1>7, NoTileIsNoTile DEF LastCardLies
<1>11. r.draws[s] = 1 /\ MeldsOf(r, s) = 0
  BY <1>2 DEF OwnTurn
<1>12. r.last_actions[s][1] = "NONE"
  BY <1>1, <1>2, <1>11 DEF Listening
<1>13. Listening(q)
  <2>1. q.ting \subseteq q.bao_ting
    BY <1>1, <1>4, <1>12 DEF Listening
  <2>2. \A x \in Seats \ {s} : q.last_actions[x] = r.last_actions[x]
    BY <1>1, <1>4 DEF Table, Typed
  <2>3. \A x \in Seats \ {s} : r.last_actions[x][1] # "NONE" =>
               MeldsOf(r, x) > 0 \/ r.draws[x] = 2 \/ r.draws[x] = 1
    BY <1>1 DEF Listening
  <2>. QED
    BY <1>5, <1>7, <1>9, <1>11, <2>1, <2>2, <2>3 DEF Listening
<1>14. Even(q)
  BY <1>1, <1>4, <1>5, <1>7, <1>8, <1>10, <1>13 DEF Even
<1>15. Quiet(q)
  BY <1>2, <1>5 DEF RoundInv, OwnTurn, Payers, Quiet
<1>16. Size(q, s) <= Size(r, s)
  <2>1. Size(r, s) \in Nat
    BY <1>1, HandFacts
  <2>. QED
    BY <1>7, <2>1
<1>. QED
  BY <1>4, <1>5, <1>7, <1>14, <1>15, <1>16 DEF Handled

\* A pass changes nothing but who may still answer.
LEMMA GuoKeepsHands ==
  ASSUME NEW r, RoundInv(r), r.phase = "betting", NEW s, s = r.cur_seat,
         "GUO" \in r.actions, NEW q, q = HandlerGuo(r, s)
  PROVE  /\ Table(q) /\ FiniteMelds(q) /\ Conserved(q)
         /\ \A x : Size(q, x) = Size(r, x) /\ Held(q, x) = Held(r, x)
         /\ \A x : MeldsOf(q, x) = MeldsOf(r, x)
         /\ LastCardLies(q) /\ Listening(q) /\ Quiet(q)
         /\ Same(q, r, {"last_action", "pao_hu_seat", "pao_hu_flag", "gang_hu_seat",
                        "gang_hu_flag", "guo_hu", "guo_peng", "handler_flag"})
         /\ q.last_action = "GUO" /\ q.handler_flag = r.handler_flag \cup {s}
         /\ \A x \in Seats \ {s} : q.guo_peng[x] = r.guo_peng[x]
<1>1. /\ Table(r) /\ s \in Seats /\ FiniteMelds(r) /\ Conserved(r)
      /\ LastCardLies(r) /\ Listening(r)
      /\ HasExtraTile(r, s) => OwnTurn(r, s)
      /\ ~ HasExtraTile(r, s) => Asked(r, s)
  BY TurnHolds DEF RoundInv
<1>2. HasExtraTile(r, s) \/ r.last_card \in Tiles
  BY <1>1 DEF Asked
<1>3. /\ Table(q)
      /\ Same(q, r, {"last_action", "pao_hu_seat", "pao_hu_flag", "gang_hu_seat",
                     "gang_hu_flag", "guo_hu", "guo_peng", "handler_flag"})
      /\ q.last_action = "GUO"
      /\ q.handler_flag = r.handler_flag \cup {s}
      /\ \A x \in Seats \ {s} : q.guo_peng[x] = r.guo_peng[x]
      /\ q.pao_hu_flag = r.pao_hu_flag \ {s}
      /\ q.gang_hu_flag = r.gang_hu_flag \ {s}
      /\ q.pao_hu_seat = IF s \in r.pao_hu_flag THEN NoSeat ELSE r.pao_hu_seat
      /\ q.gang_hu_seat = IF s \in r.gang_hu_flag THEN NoSeat ELSE r.gang_hu_seat
  <2>1. /\ Table(r) /\ s \in Seats /\ q = HandlerGuo(r, s)
        /\ HasExtraTile(r, s) \/ r.last_card \in Tiles
    BY <1>1, <1>2
  <2>. QED
    BY ONLY <2>1, GuoFacts
<1>4. /\ q.holes = r.holes /\ q.discards = r.discards /\ q.deck = r.deck
      /\ q.pengs = r.pengs /\ q.gangs = r.gangs /\ q.last_card = r.last_card
      /\ q.chu_seat = r.chu_seat /\ q.last_actions = r.last_actions
      /\ q.draws = r.draws /\ q.ting = r.ting /\ q.bao_ting = r.bao_ting
  BY <1>3 DEF Same
<1>5. /\ \A x : Size(q, x) = Size(r, x) /\ (HasExtraTile(q, x) <=> HasExtraTile(r, x))
      /\ \A x : MeldsOf(q, x) = MeldsOf(r, x) /\ Held(q, x) = Held(r, x)
      /\ FiniteMelds(q) /\ Conserved(q)
  BY <1>1, <1>4, SameHands
<1>6. Listening(q)
  BY <1>1, <1>4, <1>5 DEF Listening
<1>7. r.last_action # "PENG" /\ r.actions # {}
  BY <1>1 DEF OwnTurn, Asked
<1>8. LastCardLies(q)
  BY <1>1, <1>4, <1>7 DEF LastCardLies
<1>9. Quiet(q)
  BY <1>3, AnswerIsQuiet
<1>. QED
  BY <1>3, <1>5, <1>6, <1>8, <1>9

LEMMA GuoIsHandled ==
  ASSUME NEW r, RoundInv(r), r.phase = "betting", NEW s, s = r.cur_seat,
         "GUO" \in r.actions, ~ HasExtraTile(r, s), NEW q, q = HandlerGuo(r, s)
  PROVE  Handled(q) /\ \A x \in Seats : Size(q, x) = Size(r, x)
<1>1. /\ Table(q) /\ FiniteMelds(q) /\ Conserved(q)
      /\ \A x : Size(q, x) = Size(r, x) /\ Held(q, x) = Held(r, x)
      /\ LastCardLies(q) /\ Listening(q) /\ Quiet(q)
      /\ Same(q, r, {"last_action", "pao_hu_seat", "pao_hu_flag", "gang_hu_seat",
                     "gang_hu_flag", "guo_hu", "guo_peng", "handler_flag"})
      /\ q.last_action = "GUO"
  BY GuoKeepsHands
<1>2. \A x \in Seats : Held(q, x) = HandSize
  BY <1>1, TurnHolds
<1>3. /\ q.phase = r.phase /\ q.win_seatid = r.win_seatid
      /\ q.chu_seat = r.chu_seat /\ q.wait_handler_seat = r.wait_handler_seat
      /\ q.wait_handle_action = r.wait_handle_action
  BY <1>1 DEF Same
<1>4. Waited(r) /\ r.win_seatid = NoSeat
  BY DEF RoundInv, Asked
<1>5. Even(q)
  BY <1>1, <1>2, <1>3, <1>4 DEF Even, Waited
<1>. QED
  BY <1>1, <1>5 DEF Handled

\* A seat that holds the extra tile passes its own win or gang, and goes on.
LEMMA GuoOnOwnTurn ==
  ASSUME NEW r, RoundInv(r), r.phase = "betting", NEW s, s = r.cur_seat,
         "GUO" \in r.actions, HasExtraTile(r, s), NEW q, q = HandlerGuo(r, s)
  PROVE  RoundInv(q) /\ \A x : Size(q, x) = Size(r, x)
<1>1. /\ Table(q) /\ FiniteMelds(q) /\ Conserved(q)
      /\ \A x : Size(q, x) = Size(r, x) /\ Held(q, x) = Held(r, x)
      /\ \A x : MeldsOf(q, x) = MeldsOf(r, x)
      /\ LastCardLies(q) /\ Listening(q) /\ Quiet(q)
      /\ Same(q, r, {"last_action", "pao_hu_seat", "pao_hu_flag", "gang_hu_seat",
                     "gang_hu_flag", "guo_hu", "guo_peng", "handler_flag"})
      /\ q.last_action = "GUO"
  BY GuoKeepsHands
<1>2. /\ q.phase = r.phase /\ q.win_seatid = r.win_seatid /\ q.cur_seat = r.cur_seat
      /\ q.actions = r.actions /\ q.ting = r.ting /\ q.fresh = r.fresh
      /\ q.holes = r.holes /\ q.draws = r.draws
  BY <1>1 DEF Same
<1>3. Shaped(q)
  BY <1>1, <1>2 DEF RoundInv, Shaped
<1>4. OwnTurn(r, s) /\ r.win_seatid = NoSeat
  BY DEF RoundInv
<1>5. OwnTurn(q, s)
  BY <1>1, <1>2, <1>4 DEF OwnTurn, Quiet
<1>6. HasExtraTile(q, s) /\ Payers(q)
  BY <1>1 DEF HasExtraTile, Payers, Quiet
<1>. QED
  BY <1>1, <1>2, <1>3, <1>4, <1>5, <1>6 DEF RoundInv

LEMMA HuKeeps ==
  ASSUME NEW r, RoundInv(r), r.phase = "betting", NEW s, s = r.cur_seat,
         NEW q, q = HandlerHu(r, s)
  PROVE  RoundInv(q) /\ \A x : Size(q, x) = Size(r, x)
<1>1. /\ Table(r) /\ s \in Seats /\ FiniteMelds(r) /\ Conserved(r) /\ Shaped(r) /\ Payers(r)
      /\ HasExtraTile(r, s) => OwnTurn(r, s)
  BY TurnHolds DEF RoundInv
<1>2. /\ Table(q)
      /\ Same(q, r, {"last_action", "last_actions", "win_seatid", "is_re_pao",
                     "is_qiang_gang", "phase"})
      /\ q.win_seatid = s /\ q.phase = "won"
  BY <1>1, HuFacts
<1>3. /\ q.holes = r.holes /\ q.discards = r.discards /\ q.deck = r.deck
      /\ q.pengs = r.pengs /\ q.gangs = r.gangs /\ q.cur_seat = r.cur_seat
      /\ q.pao_hu_seat = r.pao_hu_seat /\ q.gang_hu_seat = r.gang_hu_seat
  BY <1>2 DEF Same
<1>4. /\ \A x : Size(q, x) = Size(r, x) /\ (HasExtraTile(q, x) <=> HasExtraTile(r, x))
      /\ \A x : Held(q, x) = Held(r, x)
      /\ FiniteMelds(q) /\ Conserved(q)
  BY <1>1, <1>3, SameHands
<1>5. Shaped(q)
  BY <1>1, <1>3, <1>4 DEF Shaped
<1>6. SettledWin(q)
  BY <1>1, <1>2, <1>3, <1>4 DEF Payers, OwnTurn, SettledWin
<1>. QED
  BY <1>2, <1>4, <1>5, <1>6 DEF RoundInv

LEMMA CancelKeeps ==
  ASSUME NEW r, RoundInv(r), r.phase = "betting", NEW s, s = r.cur_seat,
         NEW q, q = [r EXCEPT !.last_action = "CANCEL", !.ting = r.ting \ {s}]
  PROVE  RoundInv(q) /\ \A x : Size(q, x) = Size(r, x)
<1>1. /\ Table(r) /\ s \in Seats /\ FiniteMelds(r) /\ Conserved(r) /\ Shaped(r) /\ Payers(r)
      /\ LastCardLies(r) /\ Listening(r) /\ r.win_seatid = NoSeat
      /\ HasExtraTile(r, s) => OwnTurn(r, s)
      /\ ~ HasExtraTile(r, s) => Asked(r, s)
  BY TurnHolds DEF RoundInv
<1>2. /\ IsTable(q) /\ Same(q, r, {"last_action", "ting"})
      /\ q.last_action = "CANCEL" /\ q.ting = r.ting \ {s}
  BY <1>1, FieldNames DEF Table, IsTable, Same
<1>3. q.last_action \in Actions
  BY <1>2, ActionNames
<1>4. Table(q)
  BY <1>1, <1>2, <1>3 DEF Table, Typed, Same
<1>5. /\ q.holes = r.holes /\ q.discards = r.discards /\ q.deck = r.deck
      /\ q.pengs = r.pengs /\ q.gangs = r.gangs /\ q.cur_seat = r.cur_seat
      /\ q.pao_hu_seat = r.pao_hu_seat /\ q.gang_hu_seat = r.gang_hu_seat
      /\ q.pao_hu_flag = r.pao_hu_flag /\ q.gang_hu_flag = r.gang_hu_flag
      /\ q.phase = r.phase /\ q.win_seatid = r.win_seatid /\ q.actions = r.actions
      /\ q.fresh = r.fresh /\ q.draws = r.draws /\ q.last_card = r.last_card
      /\ q.chu_seat = r.chu_seat /\ q.last_actions = r.last_actions
      /\ q.bao_ting = r.bao_ting /\ q.wait_handler_seat = r.wait_handler_seat
      /\ q.wait_handle_action = r.wait_handle_action
  BY <1>2 DEF Same
<1>6. /\ \A x : Size(q, x) = Size(r, x) /\ (HasExtraTile(q, x) <=> HasExtraTile(r, x))
      /\ \A x : MeldsOf(q, x) = MeldsOf(r, x) /\ Held(q, x) = Held(r, x)
      /\ FiniteMelds(q) /\ Conserved(q)
  BY ONLY <1>1, <1>5, SameHands
<1>7. Shaped(q)
  BY <1>1, <1>5, <1>6 DEF Shaped
<1>8. Listening(q)
  BY <1>1, <1>2, <1>5, <1>6 DEF Listening
<1>9. r.last_action = "PENG" => r.actions = {}
  BY <1>1 DEF OwnTurn, Asked
<1>10. LastCardLies(q)
  BY <1>1, <1>2, <1>5, <1>9 DEF LastCardLies
<1>11. Payers(q)
  BY <1>1, <1>5 DEF Payers
<1>12. OwnTurn(r, s) => OwnTurn(q, s)
  BY <1>2, <1>5, <1>6 DEF OwnTurn
<1>13. Asked(r, s) => Asked(q, s)
  BY <1>2, <1>5 DEF Asked, Waited, PermitPeng, PermitGang
<1>. QED
  BY <1>1, <1>4, <1>5, <1>6, <1>7, <1>8, <1>10, <1>11, <1>12, <1>13 DEF RoundInv

PengTiles(r, s, t) == IF t \in r.pengs[s] THEN 3 ELSE 0
GangCount(r, s, t) == Cardinality({g \in r.gangs[s] : g.tile = t})

\* The four terms of an account.
LEMMA AccountParts ==
  ASSUME NEW r, Table(r), FiniteMelds(r), NEW s \in Seats, NEW t \in Tiles
  PROVE  /\ Account(r, t)[s] = r.holes[s][t] + r.discards[s][t]
                                 + PengTiles(r, s, t) + 4 * GangCount(r, s, t)
         /\ r.holes[s][t] \in Nat /\ r.discards[s][t] \in Nat
         /\ PengTiles(r, s, t) \in {0, 3} /\ GangCount(r, s, t) \in Nat
         /\ PengTiles(r, s, t) = 0 <=> t \notin r.pengs[s]
         /\ GangCount(r, s, t) = 0 <=> {g \in r.gangs[s] : g.tile = t} = {}
<1>1. r.holes[s][t] \in Nat /\ r.discards[s][t] \in Nat
  BY BagFacts DEF Table, Typed
<1>2. IsFiniteSet({g \in r.gangs[s] : g.tile = t})
  BY FS_Subset DEF FiniteMelds
<1>3. /\ GangCount(r, s, t) \in Nat
      /\ GangCount(r, s, t) = 0 <=> {g \in r.gangs[s] : g.tile = t} = {}
  BY <1>2, FS_CardinalityType, FS_EmptySet DEF GangCount
<1>4. /\ PengTiles(r, s, t) \in {0, 3}
      /\ PengTiles(r, s, t) = 0 <=> t \notin r.pengs[s]
  BY DEF PengTiles
<1>5. Account(r, t)[s] = r.holes[s][t] + r.discards[s][t]
                                 + PengTiles(r, s, t) + 4 * GangCount(r, s, t)
  BY DEF Account, PengTiles, GangCount
<1>. QED
  BY <1>1, <1>3, <1>4, <1>5

\* Beside a tile in a hand there is no gang of it, beside two no peng.
LEMMA NoMeldOfHeldTile ==
  ASSUME NEW r, Table(r), FiniteMelds(r), Conserved(r), NEW s \in Seats, NEW t \in Tiles,
         r.holes[s][t] >= 1
  PROVE  \A x \in Seats : /\ {e \in r.gangs[x] : e.tile = t} = {}
                          /\ r.holes[s][t] >= 2 => t \notin r.pengs[x]
<1> SUFFICES ASSUME NEW x \in Seats
             PROVE  /\ {e \in r.gangs[x] : e.tile = t} = {}
                    /\ r.holes[s][t] >= 2 => t \notin r.pengs[x]
  OBVIOUS
<1> DEFINE f == Account(r, t)
<1>1. /\ \A a \in Seats : f[a] \in Nat /\ f[a] <= 4
      /\ \A a, b \in Seats : a # b => f[a] + f[b] <= 4
  BY AccountFacts
<1> HIDE DEF f
<1>2. PICK h, d, m, k :
        /\ h = r.holes[s][t] /\ d = r.discards[s][t]
        /\ m = PengTiles(r, s, t) /\ k = GangCount(r, s, t)
  OBVIOUS
<1>3. /\ f[s] = h + d + m + 4 * k /\ h \in Nat /\ d \in Nat /\ m \in {0, 3} /\ k \in Nat
      /\ (m = 0 <=> t \notin r.pengs[s])
      /\ (k = 0 <=> {e \in r.gangs[s] : e.tile = t} = {})
  BY ONLY <1>2, AccountParts, Table(r), FiniteMelds(r), s \in Seats, t \in Tiles DEF f
<1>4. PICK hx, dx, mx, kx :
        /\ hx = r.holes[x][t] /\ dx = r.discards[x][t]
        /\ mx = PengTiles(r, x, t) /\ kx = GangCount(r, x, t)
  OBVIOUS
<1>5. /\ f[x] = hx + dx + mx + 4 * kx
      /\ hx \in Nat /\ dx \in Nat /\ mx \in {0, 3} /\ kx \in Nat
      /\ (mx = 0 <=> t \notin r.pengs[x])
      /\ (kx = 0 <=> {e \in r.gangs[x] : e.tile = t} = {})
  BY ONLY <1>4, AccountParts, Table(r), FiniteMelds(r), x \in Seats, t \in Tiles DEF f
<1>6. h >= 1
  BY <1>2
<1>7. CASE x = s
  <2>1. h + d + m + 4 * k <= 4
    BY <1>1, <1>3
  <2>2. k = 0 /\ (h >= 2 => m = 0)
    BY <1>3, <1>6, <2>1
  <2>. QED
    BY <1>2, <1>3, <1>7, <2>2
<1>8. CASE x # s
  <2>1. (h + d + m + 4 * k) + (hx + dx + mx + 4 * kx) <= 4
    <3>1. f[s] + f[x] <= 4
      BY <1>1, <1>8
    <3>. QED
      BY <1>3, <1>5, <3>1
  <2>2. kx = 0 /\ (h >= 2 => mx = 0)
    BY <1>3, <1>5, <1>6, <2>1
  <2>. QED
    BY <1>2, <1>5, <2>2
<1>. QED
  BY <1>7, <1>8

\* The discard that may be claimed is still on the table.
LEMMA DiscardLies ==
  ASSUME NEW r, Table(r), FiniteMelds(r), Conserved(r), LastCardLies(r),
         r.last_card \in Tiles, r.last_action # "PENG", r.actions # {},
         NEW s \in Seats, r.holes[s][r.last_card] >= 1
  PROVE  r.chu_seat \in Seats /\ r.discards[r.chu_seat][r.last_card] >= 1
<1>1. r.last_card # NoTile
  BY NoTileIsNoTile
<1>2. \A x \in Seats : {e \in r.gangs[x] : e.tile = r.last_card} = {}
  BY NoMeldOfHeldTile
<1>3. \A x \in Seats : [tile |-> r.last_card, flag |-> 0] \notin r.gangs[x]
  BY <1>2
<1>. QED
  BY <1>1, <1>3 DEF LastCardLies

\* q is r after s has laid down g: what handler_gang does to the tiles.
LaysDown(r, q, s, g) ==
  /\ q.deck = r.deck
  /\ q.holes = [r.holes EXCEPT ![s] = Take(r.holes[s], g.tile, GangTakes(g))]
  /\ q.pengs = [r.pengs EXCEPT ![s] = IF g.flag = 1 THEN r.pengs[s] \ {g.tile} ELSE r.pengs[s]]
  /\ q.gangs = [r.gangs EXCEPT ![s] = r.gangs[s] \cup {g}]
  /\ q.discards = IF g.flag = 0
                  THEN [r.discards EXCEPT ![r.chu_seat] = Take(r.discards[r.chu_seat], g.tile, 1)]
                  ELSE r.discards

\* g can be laid down: the tiles it takes are there.
CanLayDown(r, s, g) ==
  /\ r.holes[s][g.tile] >= GangTakes(g)
  /\ g.flag = 1 => g.tile \in r.pengs[s]
  /\ g.flag = 0 => r.chu_seat \in Seats /\ r.discards[r.chu_seat][g.tile] >= 1

LEMMA GangMovesTiles ==
  ASSUME NEW r, Table(r), FiniteMelds(r), Conserved(r), NEW q, Table(q),
         NEW s \in Seats, NEW g \in [tile : Tiles, flag : {0, 1, 3}],
         CanLayDown(r, s, g), LaysDown(r, q, s, g)
  PROVE  /\ FiniteMelds(q) /\ Conserved(q)
         /\ MeldsOf(q, s) > 0
         /\ Held(q, s) = IF g.flag = 0 THEN Held(r, s) ELSE Held(r, s) - 1
         /\ Size(q, s) <= Size(r, s)
         /\ \A x \in Seats \ {s} : /\ Size(q, x) = Size(r, x) /\ MeldsOf(q, x) = MeldsOf(r, x)
                                   /\ Held(q, x) = Held(r, x)
<1> DEFINE t == g.tile
           n == GangTakes(g)
           c == IF g.flag = 0 THEN r.chu_seat ELSE s
<1>1. /\ t \in Tiles /\ g.flag \in {0, 1, 3} /\ n \in Nat /\ n >= 1
      /\ (g.flag = 0 => n = 3) /\ (g.flag = 1 => n = 1) /\ (g.flag = 3 => n = 4)
  BY DEF GangTakes
<1>2. /\ r.holes[s][t] >= n
      /\ g.flag = 1 => t \in r.pengs[s]
      /\ g.flag = 0 => r.discards[c][t] >= 1
      /\ c \in Seats
  BY DEF CanLayDown
<1>3. /\ q.deck = r.deck
      /\ q.holes = [r.holes EXCEPT ![s] = Take(r.holes[s], t, n)]
      /\ q.pengs = [r.pengs EXCEPT ![s] = IF g.flag = 1 THEN r.pengs[s] \ {t} ELSE r.pengs[s]]
      /\ q.gangs = [r.gangs EXCEPT ![s] = r.gangs[s] \cup {g}]
      /\ q.discards = IF g.flag = 0
                      THEN [r.discards EXCEPT ![c] = Take(r.discards[c], t, 1)]
                      ELSE r.discards
  BY DEF LaysDown
<1>4. /\ r.holes \in [Seats -> Bags] /\ r.discards \in [Seats -> Bags]
      /\ r.pengs \in [Seats -> SUBSET Tiles]
      /\ r.gangs \in [Seats -> SUBSET [tile : Tiles, flag : {0, 1, 3}]]
  BY DEF Table, Typed
<1> HIDE DEF t, n, c
<1>5. PICK b, d : b = r.holes[s] /\ d = r.discards[c]
  OBVIOUS
<1>6. b \in Bags /\ d \in Bags /\ 1 \in Nat
  BY <1>2, <1>4, <1>5
<1>7. /\ Total(b) \in Nat /\ \A y \in Tiles : b[y] \in Nat /\ d[y] \in Nat
      /\ b[t] >= n /\ (g.flag = 0 => d[t] >= 1)
  BY <1>2, <1>5, <1>6, BagFacts
<1>8. /\ Total(Take(b, t, n)) = Total(b) - n
      /\ \A y \in Tiles : Take(b, t, n)[y] = IF y = t THEN b[y] - n ELSE b[y]
  BY <1>1, <1>6, <1>7, TakeFacts
<1>9. g.flag = 0 => \A y \in Tiles : Take(d, t, 1)[y] = IF y = t THEN d[y] - 1 ELSE d[y]
  BY <1>1, <1>6, <1>7, TakeFacts
<1>10. /\ q.holes[s] = Take(b, t, n)
       /\ q.pengs[s] = IF g.flag = 1 THEN r.pengs[s] \ {t} ELSE r.pengs[s]
       /\ q.gangs[s] = r.gangs[s] \cup {g}
       /\ \A x \in Seats \ {s} : /\ q.holes[x] = r.holes[x] /\ q.pengs[x] = r.pengs[x]
                                 /\ q.gangs[x] = r.gangs[x]
  BY <1>3, <1>4, <1>5
<1>11. /\ g.flag # 0 => q.discards = r.discards
       /\ g.flag = 0 => /\ q.discards[c] = Take(d, t, 1)
                        /\ \A x \in Seats \ {c} : q.discards[x] = r.discards[x]
  BY <1>2, <1>3, <1>4, <1>5
<1>12. \A x \in Seats : IsFiniteSet(r.pengs[x]) /\ IsFiniteSet(r.gangs[x])
  BY HandFacts
<1>13. FiniteMelds(q)
  <2>1. IsFiniteSet(q.gangs[s])
    BY <1>10, <1>12, FS_AddElement
  <2>. QED
    BY <1>10, <1>12, <2>1 DEF FiniteMelds
<1>14. r.holes[s][t] >= 1
  BY <1>1, <1>5, <1>7
<1>15. {e \in r.gangs[s] : e.tile = t} = {}
  BY <1>1, <1>14, NoMeldOfHeldTile
<1>16. g \notin r.gangs[s]
  BY <1>15 DEF t
<1>17. /\ MeldsOf(q, s) = (IF g.flag = 1 THEN MeldsOf(r, s) ELSE MeldsOf(r, s) + 1)
       /\ MeldsOf(q, s) > 0
  <2> DEFINE P == r.pengs[s]
             G == r.gangs[s]
  <2>1. IsFiniteSet(P) /\ IsFiniteSet(G) /\ Cardinality(P) \in Nat /\ Cardinality(G) \in Nat
    BY <1>12, FS_CardinalityType
  <2>2. Cardinality(G \cup {g}) = Cardinality(G) + 1
    BY <1>16, <2>1, FS_AddElement
  <2>3. g.flag = 1 => Cardinality(P \ {t}) = Cardinality(P) - 1
    BY <1>2, <2>1, FS_RemoveElement
  <2>4. MeldsOf(r, s) = Cardinality(P) + Cardinality(G)
    BY DEF MeldsOf
  <2>5. Cardinality(P \ {t}) \in Nat
    BY <2>1, FS_RemoveElement, FS_CardinalityType
  <2>6. MeldsOf(q, s) = (IF g.flag = 1 THEN Cardinality(P \ {t}) ELSE Cardinality(P))
                          + Cardinality(G \cup {g})
    BY <1>10 DEF MeldsOf
  <2> HIDE DEF P, G
  <2>. QED
    BY <2>1, <2>2, <2>3, <2>4, <2>5, <2>6
<1>18. Size(q, s) = Size(r, s) - n /\ Size(r, s) = Total(b)
  BY <1>5, <1>8, <1>10 DEF Size
<1>19. Held(q, s) = IF g.flag = 0 THEN Held(r, s) ELSE Held(r, s) - 1
  <2>1. Size(r, s) \in Nat /\ MeldsOf(r, s) \in Nat
    BY HandFacts
  <2>2. /\ Held(q, s) = Size(q, s) + 3 * MeldsOf(q, s)
        /\ Held(r, s) = Size(r, s) + 3 * MeldsOf(r, s)
    BY DEF Held
  <2>3. CASE g.flag = 0
    BY <1>1, <1>17, <1>18, <2>1, <2>2, <2>3
  <2>4. CASE g.flag = 1
    BY <1>1, <1>17, <1>18, <2>1, <2>2, <2>4
  <2>5. CASE g.flag = 3
    BY <1>1, <1>17, <1>18, <2>1, <2>2, <2>5
  <2>. QED
    BY <1>1, <2>3, <2>4, <2>5
<1>20. Size(q, s) <= Size(r, s)
  BY <1>1, <1>7, <1>18
<1>21. \A x \in Seats \ {s} : /\ Size(q, x) = Size(r, x) /\ MeldsOf(q, x) = MeldsOf(r, x)
                              /\ Held(q, x) = Held(r, x)
  BY <1>10 DEF Size, MeldsOf, Held
<1>22. \A y \in Tiles : \A x \in Seats \ {s, c} : Account(q, y)[x] = Account(r, y)[x]
  BY <1>10, <1>11 DEF Account
<1>23. ASSUME NEW y \in Tiles, y # t, NEW x \in Seats PROVE Account(q, y)[x] = Account(r, y)[x]
  <2>1. q.holes[x][y] = r.holes[x][y]
    BY <1>5, <1>8, <1>10, <1>23
  <2>2. q.discards[x][y] = r.discards[x][y]
    BY <1>5, <1>9, <1>11, <1>23
  <2>3. (y \in q.pengs[x]) <=> (y \in r.pengs[x])
    BY <1>10, <1>23
  <2>4. {e \in q.gangs[x] : e.tile = y} = {e \in r.gangs[x] : e.tile = y}
    BY <1>10, <1>23 DEF t
  <2>. QED
    BY <2>1, <2>2, <2>3, <2>4 DEF Account
<1>24. SamePair(Account(r, t), Account(q, t), s, c)
  <2> DEFINE f == Account(r, t)
             e == Account(q, t)
  <2>1. \A x \in Seats : f[x] \in Nat /\ e[x] \in Nat
    BY <1>1, <1>13, AccountFacts
  <2>2. {a \in q.gangs[s] : a.tile = t} = {g}
    BY <1>10, <1>15 DEF t
  <2>3. Cardinality({a \in q.gangs[s] : a.tile = t}) = 1 /\ Cardinality({a \in r.gangs[s] : a.tile = t}) = 0
    BY <1>15, <2>2, FS_Singleton, FS_EmptySet
  <2> SUFFICES SamePair(f, e, s, c)
    OBVIOUS
  <2> HIDE DEF f, e
  <2>4. PICK h0, d0, m0, k0 :
         /\ h0 = r.holes[s][t] /\ d0 = r.discards[s][t]
         /\ m0 = PengTiles(r, s, t) /\ k0 = GangCount(r, s, t)
         /\ f[s] = h0 + d0 + m0 + 4 * k0
         /\ h0 \in Nat /\ d0 \in Nat /\ m0 \in {0, 3} /\ k0 \in Nat
    BY <1>1, AccountParts DEF f
  <2>5. PICK h1, d1, m1, k1 :
         /\ h1 = q.holes[s][t] /\ d1 = q.discards[s][t]
         /\ m1 = PengTiles(q, s, t) /\ k1 = GangCount(q, s, t)
         /\ e[s] = h1 + d1 + m1 + 4 * k1
         /\ h1 \in Nat /\ d1 \in Nat /\ m1 \in {0, 3} /\ k1 \in Nat
    BY <1>1, <1>13, AccountParts DEF e
  <2>6. k0 = 0 /\ k1 = 1 /\ h0 = b[t] /\ h1 = b[t] - n
    BY <1>1, <1>5, <1>8, <1>10, <2>3, <2>4, <2>5 DEF GangCount
  <2>7. b[t] \in Nat /\ d[t] \in Nat
    BY <1>1, <1>7
  <2>8. CASE g.flag # 0
    <3>1. d1 = d0 /\ c = s
      BY <1>11, <2>4, <2>5, <2>8 DEF c
    <3>2. g.flag = 1 => m0 = 3 /\ m1 = 0
      BY <1>2, <1>10, <2>4, <2>5 DEF PengTiles
    <3>3. g.flag = 3 => m1 = m0
      BY <1>10, <2>4, <2>5 DEF PengTiles
    <3>4. e[s] = f[s]
      <4>1. CASE g.flag = 1
        BY <1>1, <2>4, <2>5, <2>6, <2>7, <3>1, <3>2, <4>1
      <4>2. CASE g.flag = 3
        BY <1>1, <2>4, <2>5, <2>6, <2>7, <3>1, <3>3, <4>2
      <4>. QED
        BY <1>1, <2>8, <4>1, <4>2
    <3>. QED
      BY <3>1, <3>4 DEF SamePair
  <2>9. CASE g.flag = 0
    <3>1. m1 = m0 /\ n = 3
      BY <1>1, <1>10, <2>4, <2>5, <2>9 DEF PengTiles
    <3>2. CASE c = s
      <4>1. d0 = d[t] /\ d1 = d[t] - 1
        BY <1>1, <1>5, <1>9, <1>11, <2>4, <2>5, <2>9, <3>2
      <4>2. h1 = h0 - 3 /\ d1 = d0 - 1 /\ m1 = m0 /\ k0 = 0 /\ k1 = 1
        BY <2>6, <2>7, <3>1, <4>1
      <4>3. h1 + d1 + m1 + 4 * k1 = h0 + d0 + m0 + 4 * k0
        <5>1. h0 \in Int /\ d0 \in Int /\ m0 \in Int
          BY <2>4
        <5>2. (h0 - 3) + (d0 - 1) + m0 + 4 * 1 = h0 + d0 + m0 + 4 * 0
          BY ONLY <5>1
        <5>. QED
          BY ONLY <4>2, <5>2
      <4>4. e[s] = f[s]
        BY ONLY <2>4, <2>5, <4>3
      <4>. QED
        BY <3>2, <4>4 DEF SamePair
    <3>3. CASE c # s
      <4>1. d1 = d0
        BY <1>11, <2>4, <2>5, <2>9, <3>3
      <4>0. h1 = h0 - 3 /\ m1 = m0 /\ k0 = 0 /\ k1 = 1
        BY <2>6, <2>7, <3>1
      <4>2. e[s] = f[s] + 1
        BY ONLY <2>4, <2>5, <4>0, <4>1
      <4>3. PICK h2, d2, m2, k2 :
             /\ h2 = r.holes[c][t] /\ d2 = r.discards[c][t]
             /\ m2 = PengTiles(r, c, t) /\ k2 = GangCount(r, c, t)
             /\ f[c] = h2 + d2 + m2 + 4 * k2
             /\ h2 \in Nat /\ d2 \in Nat /\ m2 \in {0, 3} /\ k2 \in Nat
        BY <1>1, <1>2, AccountParts DEF f
      <4>4. PICK h3, d3, m3, k3 :
             /\ h3 = q.holes[c][t] /\ d3 = q.discards[c][t]
             /\ m3 = PengTiles(q, c, t) /\ k3 = GangCount(q, c, t)
             /\ e[c] = h3 + d3 + m3 + 4 * k3
             /\ h3 \in Nat /\ d3 \in Nat /\ m3 \in {0, 3} /\ k3 \in Nat
        BY <1>1, <1>2, <1>13, AccountParts DEF e
      <4>5. h3 = h2 /\ m3 = m2 /\ k3 = k2
        BY <1>2, <1>10, <3>3, <4>3, <4>4 DEF PengTiles, GangCount
      <4>6. d2 = d[t] /\ d3 = d[t] - 1
        BY <1>1, <1>5, <1>9, <1>11, <2>9, <4>3, <4>4
      <4>7. e[c] = f[c] - 1
        BY <2>7, <4>3, <4>4, <4>5, <4>6
      <4>8. f[s] + f[c] = e[s] + e[c]
        BY <1>2, <2>1, <4>2, <4>7
      <4>. QED
        BY <4>8 DEF SamePair
    <3>. QED
      BY <3>2, <3>3
  <2>. QED
    BY <2>8, <2>9
<1>25. \A y \in Tiles : SamePair(Account(r, y), Account(q, y), s, c)
  <2>1. ASSUME NEW y \in Tiles, y # t PROVE SamePair(Account(r, y), Account(q, y), s, c)
    BY <1>2, <1>23, <2>1 DEF SamePair
  <2>. QED
    BY <1>24, <2>1
<1>26. Conserved(q)
  BY <1>2, <1>3, <1>13, <1>22, <1>25, AccountMoves
<1>. QED
  BY <1>13, <1>17, <1>19, <1>20, <1>21, <1>26

\* The gangs that handler_bet accepts can be laid down.
LEMMA OfferedGang ==
  ASSUME NEW r, RoundInv(r), r.phase = "betting", NEW s, s = r.cur_seat,
         "GANG" \in r.actions, NEW g,
         IF HasExtraTile(r, s) THEN g \in OwnGangs(r, s)
         ELSE g = [tile |-> r.last_card, flag |-> 0]
  PROVE  /\ g \in [tile : Tiles, flag : {0, 1, 3}] /\ CanLayDown(r, s, g)
         /\ g.flag = 0 => ~ HasExtraTile(r, s) /\ g = [tile |-> r.last_card, flag |-> 0]
         /\ g.flag # 0 => HasExtraTile(r, s)
         /\ r.last_action # "PENG"
         /\ g.flag = 1 => r.last_card \in Tiles
<1>1. /\ Table(r) /\ s \in Seats /\ FiniteMelds(r) /\ Conserved(r) /\ LastCardLies(r)
      /\ HasExtraTile(r, s) => OwnTurn(r, s)
      /\ ~ HasExtraTile(r, s) => Asked(r, s)
  BY TurnHolds DEF RoundInv
<1>2. r.pengs[s] \subseteq Tiles /\ r.last_card \in Tiles \cup {NoTile}
  BY <1>1 DEF Table, Typed
<1>3. r.last_action # "PENG"
  BY <1>1 DEF OwnTurn, Asked
<1>4. CASE HasExtraTile(r, s)
  <2>1. \/ \E t \in r.pengs[s] : g = [tile |-> t, flag |-> 1] /\ r.holes[s][t] >= 1
        \/ \E t \in Tiles : g = [tile |-> t, flag |-> 3] /\ r.holes[s][t] = 4
    BY <1>4 DEF OwnGangs
  <2>2. ASSUME NEW t \in r.pengs[s], g = [tile |-> t, flag |-> 1], r.holes[s][t] >= 1
        PROVE  /\ g \in [tile : Tiles, flag : {0, 1, 3}] /\ CanLayDown(r, s, g)
               /\ g.flag = 1 /\ r.last_card \in Tiles
    <3>1. g.tile = t /\ g.flag = 1 /\ GangTakes(g) = 1
      BY <2>2 DEF GangTakes
    <3>2. r.last_card \in Tiles
      BY <1>1, <1>2 DEF LastCardLies
    <3>. QED
      BY <1>2, <2>2, <3>1, <3>2 DEF CanLayDown
  <2>3. ASSUME NEW t \in Tiles, g = [tile |-> t, flag |-> 3], r.holes[s][t] = 4
        PROVE  g \in [tile : Tiles, flag : {0, 1, 3}] /\ CanLayDown(r, s, g) /\ g.flag = 3
    <3>1. g.tile = t /\ g.flag = 3 /\ GangTakes(g) = 4
      BY <2>3 DEF GangTakes
    <3>. QED
      BY <2>3, <3>1 DEF CanLayDown
  <2>. QED
    BY <1>3, <1>4, <2>1, <2>2, <2>3
<1>5. CASE ~ HasExtraTile(r, s)
  <2>1. g = [tile |-> r.last_card, flag |-> 0]
    BY <1>5
  <2>2. g.tile = r.last_card /\ g.flag = 0 /\ GangTakes(g) = 3
    BY <2>1 DEF GangTakes
  <2>3. r.last_card \in Tiles /\ r.holes[s][r.last_card] >= 3
    BY <1>1, <1>5 DEF Asked, PermitGang
  <2>4. r.holes[s][r.last_card] \in Nat
    BY <1>1, <2>3, BagFacts DEF Table, Typed
  <2>5. r.chu_seat \in Seats /\ r.discards[r.chu_seat][r.last_card] >= 1
    BY <1>1, <1>3, <2>3, <2>4, DiscardLies
  <2>6. CanLayDown(r, s, g)
    BY <2>2, <2>3, <2>5 DEF CanLayDown
  <2>7. g \in [tile : Tiles, flag : {0, 1, 3}]
    BY <2>1, <2>3
  <2>. QED
    BY <1>3, <1>5, <2>1, <2>2, <2>6, <2>7
<1>. QED
  BY <1>4, <1>5

LEMMA GangIsHandled ==
  ASSUME NEW r, RoundInv(r), r.phase = "betting", NEW s, s = r.cur_seat,
         "GANG" \in r.actions, NEW g,
         IF HasExtraTile(r, s) THEN g \in OwnGangs(r, s)
         ELSE g = [tile |-> r.last_card, flag |-> 0],
         NEW q, q = HandlerGang(r, s, g)
  PROVE  Handled(q) /\ Size(q, s) <= Size(r, s) /\ \A x \in Seats \ {s} : Size(q, x) = Size(r, x)
<1>1. /\ Table(r) /\ s \in Seats /\ FiniteMelds(r) /\ Conserved(r)
      /\ LastCardLies(r) /\ Listening(r) /\ r.win_seatid = NoSeat
      /\ HasExtraTile(r, s) => Held(r, s) = HandSize + 1
      /\ ~ HasExtraTile(r, s) => Held(r, s) = HandSize
      /\ \A x \in Seats \ {s} : Held(r, x) = HandSize
  BY TurnHolds DEF RoundInv
<1>2. /\ g \in [tile : Tiles, flag : {0, 1, 3}] /\ CanLayDown(r, s, g)
      /\ g.flag = 0 => ~ HasExtraTile(r, s) /\ g = [tile |-> r.last_card, flag |-> 0]
      /\ g.flag # 0 => HasExtraTile(r, s)
      /\ r.last_action # "PENG"
      /\ g.flag = 1 => r.last_card \in Tiles
  BY OfferedGang
<1>3. /\ Table(q)
      /\ Same(q, r, {"last_action", "last_actions", "pao_hu_seat", "pao_hu_flag",
                     "gang_hu_seat", "gang_hu_flag", "holes", "pengs", "gangs",
                     "gang_flag", "guo_hu", "guo_peng", "last_gang_card",
                     "wait_handle_action", "wait_handler_seat", "discards"})
      /\ q.last_action = "GANG"
      /\ q.last_actions = [r.last_actions EXCEPT ![s] = <<"GANG", r.last_actions[s][1]>>]
      /\ q.holes = [r.holes EXCEPT ![s] = Take(r.holes[s], g.tile, GangTakes(g))]
      /\ q.pengs = [r.pengs EXCEPT ![s] = IF g.flag = 1 THEN r.pengs[s] \ {g.tile} ELSE r.pengs[s]]
      /\ q.gangs = [r.gangs EXCEPT ![s] = r.gangs[s] \cup {g}]
      /\ q.gang_flag = g.flag
      /\ q.wait_handle_action = "GANG"
      /\ q.wait_handler_seat = s
      /\ q.pao_hu_flag = r.pao_hu_flag \ {s}
      /\ q.gang_hu_flag = r.gang_hu_flag \ {s}
      /\ q.pao_hu_seat = (IF s \in r.pao_hu_flag THEN NoSeat ELSE r.pao_hu_seat)
      /\ q.gang_hu_seat = (IF s \in r.gang_hu_flag THEN NoSeat ELSE r.gang_hu_seat)
      /\ q.discards = IF g.flag = 0 THEN [r.discards EXCEPT ![r.chu_seat] = Take(r.discards[r.chu_seat], g.tile, 1)]
                      ELSE r.discards
  <2>1. /\ Table(r) /\ s \in Seats /\ g \in [tile : Tiles, flag : {0, 1, 3}]
        /\ g.flag = 0 => r.chu_seat \in Seats
        /\ q = HandlerGang(r, s, g)
    BY <1>1, <1>2 DEF CanLayDown
  <2>2. GangOutcome(r, q, s, g)
    BY ONLY <2>1, GangFacts
  <2>. QED
    BY ONLY <2>2 DEF GangOutcome
<1>4. /\ q.deck = r.deck /\ q.ting = r.ting /\ q.bao_ting = r.bao_ting
      /\ q.draws = r.draws /\ q.phase = r.phase /\ q.last_card = r.last_card
      /\ q.chu_seat = r.chu_seat /\ q.win_seatid = r.win_seatid /\ q.cur_seat = s
  BY <1>3 DEF Same
<1>5. LaysDown(r, q, s, g)
  BY <1>3, <1>4 DEF LaysDown
<1>6. /\ FiniteMelds(q) /\ Conserved(q)
      /\ MeldsOf(q, s) > 0
      /\ Held(q, s) = IF g.flag = 0 THEN Held(r, s) ELSE Held(r, s) - 1
      /\ Size(q, s) <= Size(r, s)
      /\ \A x \in Seats \ {s} : /\ Size(q, x) = Size(r, x) /\ MeldsOf(q, x) = MeldsOf(r, x)
                                /\ Held(q, x) = Held(r, x)
  <2>1. /\ Table(r) /\ FiniteMelds(r) /\ Conserved(r) /\ Table(q) /\ s \in Seats
        /\ g \in [tile : Tiles, flag : {0, 1, 3}] /\ CanLayDown(r, s, g) /\ LaysDown(r, q, s, g)
    BY <1>1, <1>2, <1>3, <1>5
  <2>. QED
    BY ONLY <2>1, GangMovesTiles
<1>7. \A x \in Seats : Held(q, x) = HandSize
  <2>1. HandSize \in Nat
    BY RoundAssumption
  <2>2. Held(q, s) = HandSize
    BY <1>1, <1>2, <1>6, <2>1
  <2>. QED
    BY <1>1, <1>6, <2>2
<1>8. \A x \in Seats : ~ HasExtraTile(q, x)
  BY <1>3, <1>6, <1>7, HandFacts
<1>9. /\ \A x \in Seats : q.pengs[x] \subseteq r.pengs[x] /\ r.gangs[x] \subseteq q.gangs[x]
      /\ g \in q.gangs[s]
  <2>1. DOMAIN r.pengs = Seats /\ DOMAIN r.gangs = Seats
    BY <1>1 DEF Table, Typed
  <2>. QED
    BY <1>1, <1>3, <2>1
<1>10. LastCardLies(q)
  <2>1. r.last_card = NoTile => \A x \in Seats : q.pengs[x] = {}
    BY <1>1, <1>9 DEF LastCardLies
  <2>2. ASSUME r.last_card # NoTile
        PROVE  /\ r.chu_seat \in Seats
               /\ \/ q.discards[r.chu_seat][r.last_card] >= 1
                  \/ \E x \in Seats : [tile |-> r.last_card, flag |-> 0] \in q.gangs[x]
    <3>1. r.chu_seat \in Seats
      BY <1>1, <2>2 DEF LastCardLies
    <3>2. CASE g.flag = 0
      BY <1>1, <1>2, <1>9, <3>1, <3>2
    <3>3. CASE g.flag # 0
      <4>1. q.discards = r.discards
        BY <1>3, <3>3
      <4>. QED
        BY <1>1, <1>2, <1>9, <2>2, <4>1 DEF LastCardLies
    <3>. QED
      BY <3>2, <3>3
  <2>. QED
    BY <1>4, <2>1, <2>2 DEF LastCardLies
<1>11. Listening(q)
  <2>1. q.ting \subseteq q.bao_ting
    BY <1>1, <1>4 DEF Listening
  <2>2. \A x \in Seats \ {s} : q.last_actions[x] = r.last_actions[x]
    BY <1>1, <1>3 DEF Table, Typed
  <2>3. \A x \in Seats \ {s} : r.last_actions[x][1] # "NONE" =>
               MeldsOf(r, x) > 0 \/ r.draws[x] = 2 \/ r.draws[x] = 1
    BY <1>1 DEF Listening
  <2>. QED
    BY <1>4, <1>6, <1>8, <2>1, <2>2, <2>3 DEF Listening
<1>12. Even(q)
  BY <1>1, <1>3, <1>4, <1>6, <1>7, <1>10, <1>11 DEF Even, Waited
<1>13. Quiet(q)
  BY <1>3, AnswerIsQuiet
<1>. QED
  BY <1>2, <1>3, <1>4, <1>6, <1>12, <1>13 DEF Handled

\* A peng moves two tiles of the hand and the discard into a meld.
PengMoves(r, q, s, t) ==
  /\ q.deck = r.deck /\ q.gangs = r.gangs
  /\ q.holes = [r.holes EXCEPT ![s] = Take(r.holes[s], t, 2)]
  /\ q.pengs = [r.pengs EXCEPT ![s] = r.pengs[s] \cup {t}]
  /\ q.discards = [r.discards EXCEPT ![r.chu_seat] = Take(r.discards[r.chu_seat], t, 1)]

LEMMA PengMovesTiles ==
  ASSUME NEW r, Table(r), FiniteMelds(r), Conserved(r), NEW q, Table(q),
         NEW s \in Seats, NEW t \in Tiles, r.holes[s][t] >= 2,
         r.chu_seat \in Seats, r.discards[r.chu_seat][t] >= 1, PengMoves(r, q, s, t)
  PROVE  /\ FiniteMelds(q) /\ Conserved(q)
         /\ MeldsOf(q, s) > 0
         /\ Held(q, s) = Held(r, s) + 1 /\ Size(q, s) <= Size(r, s)
         /\ \A x \in Seats \ {s} : /\ Size(q, x) = Size(r, x) /\ MeldsOf(q, x) = MeldsOf(r, x)
                                   /\ Held(q, x) = Held(r, x)
<1> DEFINE c == r.chu_seat
<1>1. /\ q.deck = r.deck /\ q.gangs = r.gangs
      /\ q.holes = [r.holes EXCEPT ![s] = Take(r.holes[s], t, 2)]
      /\ q.pengs = [r.pengs EXCEPT ![s] = r.pengs[s] \cup {t}]
      /\ q.discards = [r.discards EXCEPT ![c] = Take(r.discards[c], t, 1)]
      /\ c \in Seats
  BY DEF PengMoves
<1>2. /\ r.holes \in [Seats -> Bags] /\ r.discards \in [Seats -> Bags]
      /\ r.pengs \in [Seats -> SUBSET Tiles]
  BY DEF Table, Typed
<1>3. PICK b, d : b = r.holes[s] /\ d = r.discards[c]
  OBVIOUS
<1>4. b \in Bags /\ d \in Bags /\ 1 \in Nat /\ 2 \in Nat /\ b[t] >= 2 /\ d[t] >= 1
  BY <1>1, <1>2, <1>3
<1> HIDE DEF c
<1>5. Total(b) \in Nat /\ \A y \in Tiles : b[y] \in Nat /\ d[y] \in Nat
  BY <1>4, BagFacts
<1>6. /\ Total(Take(b, t, 2)) = Total(b) - 2
      /\ \A y \in Tiles : Take(b, t, 2)[y] = IF y = t THEN b[y] - 2 ELSE b[y]
  BY <1>4, TakeFacts
<1>7. \A y \in Tiles : Take(d, t, 1)[y] = IF y = t THEN d[y] - 1 ELSE d[y]
  BY <1>4, TakeFacts
<1>8. /\ q.holes[s] = Take(b, t, 2) /\ q.pengs[s] = r.pengs[s] \cup {t}
      /\ \A x \in Seats \ {s} : q.holes[x] = r.holes[x] /\ q.pengs[x] = r.pengs[x]
  BY <1>1, <1>2, <1>3
<1>9. /\ q.discards[c] = Take(d, t, 1)
      /\ \A x \in Seats \ {c} : q.discards[x] = r.discards[x]
  BY <1>1, <1>2, <1>3
<1>10. FiniteMelds(q)
  BY <1>1 DEF FiniteMelds
<1>11. {e \in r.gangs[s] : e.tile = t} = {} /\ t \notin r.pengs[s]
  <2>1. r.holes[s][t] >= 1
    BY <1>3, <1>4, <1>5
  <2>. QED
    BY <2>1, NoMeldOfHeldTile
<1>12. MeldsOf(q, s) = MeldsOf(r, s) + 1 /\ MeldsOf(q, s) > 0
  <2> DEFINE P == r.pengs[s]
             k == Cardinality(r.gangs[s])
  <2>1. IsFiniteSet(P) /\ Cardinality(P) \in Nat /\ k \in Nat
    BY HandFacts
  <2>2. Cardinality(P \cup {t}) = Cardinality(P) + 1
    BY <1>11, <2>1, FS_AddElement
  <2>3. MeldsOf(r, s) = Cardinality(P) + k /\ MeldsOf(q, s) = Cardinality(P \cup {t}) + k
    BY <1>1, <1>8 DEF MeldsOf
  <2> HIDE DEF P, k
  <2>. QED
    BY <2>1, <2>2, <2>3
<1>13. Size(q, s) = Size(r, s) - 2
  BY <1>3, <1>6, <1>8 DEF Size
<1>14. Held(q, s) = Held(r, s) + 1 /\ Size(q, s) <= Size(r, s)
  <2>1. Size(r, s) \in Nat /\ MeldsOf(r, s) \in Nat
    BY HandFacts
  <2>. QED
    BY <1>12, <1>13, <2>1 DEF Held
<1>15. \A x \in Seats \ {s} : /\ Size(q, x) = Size(r, x) /\ MeldsOf(q, x) = MeldsOf(r, x)
                              /\ Held(q, x) = Held(r, x)
  BY <1>1, <1>8 DEF Size, MeldsOf, Held
<1>16. \A y \in Tiles : \A x \in Seats \ {s, c} : Account(q, y)[x] = Account(r, y)[x]
  BY <1>1, <1>8, <1>9 DEF Account
<1>17. ASSUME NEW y \in Tiles, y # t, NEW x \in Seats PROVE Account(q, y)[x] = Account(r, y)[x]
  <2>1. q.holes[x][y] = r.holes[x][y]
    BY <1>3, <1>6, <1>8, <1>17
  <2>2. q.discards[x][y] = r.discards[x][y]
    BY <1>3, <1>7, <1>9, <1>17
  <2>3. (y \in q.pengs[x]) <=> (y \in r.pengs[x])
    BY <1>8, <1>17
  <2>. QED
    BY <1>1, <2>1, <2>2, <2>3 DEF Account
<1>18. SamePair(Account(r, t), Account(q, t), s, c)
  <2> DEFINE f == Account(r, t)
             e == Account(q, t)
  <2>1. \A x \in Seats : f[x] \in Nat /\ e[x] \in Nat
    BY <1>10, AccountFacts
  <2> SUFFICES SamePair(f, e, s, c)
    OBVIOUS
  <2> HIDE DEF f, e
  <2>2. PICK h0, d0, m0, k0 :
         /\ h0 = r.holes[s][t] /\ d0 = r.discards[s][t]
         /\ m0 = PengTiles(r, s, t) /\ k0 = GangCount(r, s, t)
         /\ f[s] = h0 + d0 + m0 + 4 * k0
         /\ h0 \in Nat /\ d0 \in Nat /\ m0 \in {0, 3} /\ k0 \in Nat
    BY AccountParts DEF f
  <2>3. PICK h1, d1, m1, k1 :
         /\ h1 = q.holes[s][t] /\ d1 = q.discards[s][t]
         /\ m1 = PengTiles(q, s, t) /\ k1 = GangCount(q, s, t)
         /\ e[s] = h1 + d1 + m1 + 4 * k1
         /\ h1 \in Nat /\ d1 \in Nat /\ m1 \in {0, 3} /\ k1 \in Nat
    BY <1>10, AccountParts DEF e
  <2>4. /\ h1 = h0 - 2 /\ m0 = 0 /\ m1 = 3 /\ k1 = k0
    BY <1>1, <1>3, <1>6, <1>8, <1>11, <2>2, <2>3 DEF PengTiles, GangCount
  <2>5. CASE c = s
    <3>1. d1 = d0 - 1
      BY <1>3, <1>7, <1>9, <2>2, <2>3, <2>5
    <3>2. e[s] = f[s]
      <4>1. (h0 - 2) + (d0 - 1) + 3 + 4 * k0 = h0 + d0 + 0 + 4 * k0
        BY <2>2
      <4>. QED
        BY ONLY <2>2, <2>3, <2>4, <3>1, <4>1
    <3>. QED
      BY <2>5, <3>2 DEF SamePair
  <2>6. CASE c # s
    <3>1. d1 = d0
      BY <1>1, <1>9, <2>2, <2>3, <2>6
    <3>2. e[s] = f[s] + 1
      <4>1. (h0 - 2) + d0 + 3 + 4 * k0 = (h0 + d0 + 0 + 4 * k0) + 1
        BY <2>2
      <4>. QED
        BY ONLY <2>2, <2>3, <2>4, <3>1, <4>1
    <3>3. PICK h2, d2, m2, k2 :
           /\ h2 = r.holes[c][t] /\ d2 = r.discards[c][t]
           /\ m2 = PengTiles(r, c, t) /\ k2 = GangCount(r, c, t)
           /\ f[c] = h2 + d2 + m2 + 4 * k2
           /\ h2 \in Nat /\ d2 \in Nat /\ m2 \in {0, 3} /\ k2 \in Nat
      BY <1>1, AccountParts DEF f
    <3>4. PICK h3, d3, m3, k3 :
           /\ h3 = q.holes[c][t] /\ d3 = q.discards[c][t]
           /\ m3 = PengTiles(q, c, t) /\ k3 = GangCount(q, c, t)
           /\ e[c] = h3 + d3 + m3 + 4 * k3
           /\ h3 \in Nat /\ d3 \in Nat /\ m3 \in {0, 3} /\ k3 \in Nat
      <4>1. Table(q) /\ FiniteMelds(q) /\ c \in Seats /\ t \in Tiles
        BY <1>1, <1>10
      <4>. QED
        BY ONLY <4>1, AccountParts DEF e
    <3>5. h3 = h2 /\ m3 = m2 /\ k3 = k2 /\ d3 = d2 - 1
      BY <1>1, <1>3, <1>7, <1>8, <1>9, <2>6, <3>3, <3>4 DEF PengTiles, GangCount
    <3>6. e[c] = f[c] - 1
      <4>0. h2 \in Int /\ d2 \in Int /\ m2 \in Int /\ k2 \in Int
        BY <3>3
      <4>1. h2 + (d2 - 1) + m2 + 4 * k2 = (h2 + d2 + m2 + 4 * k2) - 1
        BY ONLY <4>0
      <4>. QED
        BY ONLY <3>3, <3>4, <3>5, <4>1
    <3>7. f[s] + f[c] = e[s] + e[c]
      BY <1>1, <2>1, <3>2, <3>6
    <3>. QED
      BY <3>7 DEF SamePair
  <2>. QED
    BY <2>5, <2>6
<1>19. \A y \in Tiles : SamePair(Account(r, y), Account(q, y), s, c)
  <2>1. ASSUME NEW y \in Tiles, y # t PROVE SamePair(Account(r, y), Account(q, y), s, c)
    BY <1>1, <1>17, <2>1 DEF SamePair
  <2>. QED
    BY <1>18, <2>1
<1>20. Conserved(q)
  BY <1>1, <1>10, <1>16, <1>19, AccountMoves
<1>. QED
  BY <1>10, <1>12, <1>14, <1>15, <1>20


\* The offered discard is there to be claimed, and the claim leaves a table
\* on which the seat holds the extra tile without having drawn.
LEMMA PengIsExtra ==
  ASSUME NEW r, RoundInv(r), r.phase = "betting", NEW s, s = r.cur_seat,
         "PENG" \in r.actions, NEW q, q = HandlerPeng(r, s)
  PROVE  /\ Table(q) /\ FiniteMelds(q) /\ Conserved(q) /\ Shaped(q) /\ Quiet(q)
         /\ LastCardLies(q) /\ Listening(q)
         /\ q.cur_seat = s /\ q.last_action = "PENG" /\ q.win_seatid = NoSeat
         /\ s \notin q.ting /\ MeldsOf(q, s) > 0
         /\ Held(q, s) = HandSize + 1 /\ HasExtraTile(q, s)
         /\ q.phase = "betting"
         /\ \A x \in Seats : Size(q, x) <= Size(r, x)
<1>1. /\ Table(r) /\ s \in Seats /\ FiniteMelds(r) /\ Conserved(r)
      /\ LastCardLies(r) /\ Listening(r) /\ r.win_seatid = NoSeat
      /\ \A x \in Seats \ {s} : Held(r, x) = HandSize /\ ~ HasExtraTile(r, x)
  BY TurnHolds DEF RoundInv
<1>2. ~ HasExtraTile(r, s) /\ Asked(r, s)
  BY DEF RoundInv, OwnTurn
<1>3. Held(r, s) = HandSize
  BY <1>2, TurnHolds
<1>4. PICK t : t = r.last_card
  OBVIOUS
<1>5. /\ t \in Tiles /\ r.holes[s][t] >= 2 /\ s \notin r.ting /\ r.last_action # "PENG"
  BY <1>2, <1>4 DEF Asked, PermitPeng
<1>6. r.chu_seat \in Seats /\ r.discards[r.chu_seat][t] >= 1
  <2>1. r.holes[s][t] \in Nat
    BY <1>1, <1>5, BagFacts DEF Table, Typed
  <2>2. r.holes[s][r.last_card] >= 1 /\ r.last_card \in Tiles
    BY <1>4, <1>5, <2>1
  <2>. QED
    BY <1>1, <1>4, <1>5, <2>2, DiscardLies
<1>7. /\ Table(q)
      /\ Same(q, r, {"last_action", "last_actions", "pao_hu_seat", "pao_hu_flag",
                     "gang_hu_seat", "gang_hu_flag", "holes", "discards", "pengs",
                     "guo_hu", "guo_peng"})
      /\ q.last_action = "PENG"
      /\ q.last_actions = [r.last_actions EXCEPT ![s] = <<"PENG", r.last_actions[s][1]>>]
      /\ q.holes = [r.holes EXCEPT ![s] = Take(r.holes[s], r.last_card, 2)]
      /\ q.discards = [r.discards EXCEPT ![r.chu_seat] = Take(r.discards[r.chu_seat], r.last_card, 1)]
      /\ q.pengs = [r.pengs EXCEPT ![s] = r.pengs[s] \cup {r.last_card}]
      /\ q.pao_hu_flag = r.pao_hu_flag \ {s}
      /\ q.gang_hu_flag = r.gang_hu_flag \ {s}
      /\ q.pao_hu_seat = IF s \in r.pao_hu_flag THEN NoSeat ELSE r.pao_hu_seat
      /\ q.gang_hu_seat = IF s \in r.gang_hu_flag THEN NoSeat ELSE r.gang_hu_seat
  <2>1. /\ Table(r) /\ s \in Seats /\ r.last_card \in Tiles /\ r.chu_seat \in Seats
        /\ q = HandlerPeng(r, s)
    BY <1>1, <1>4, <1>5, <1>6
  <2>. QED
    BY ONLY <2>1, PengFacts
<1>8. /\ q.deck = r.deck /\ q.gangs = r.gangs /\ q.ting = r.ting /\ q.bao_ting = r.bao_ting
      /\ q.draws = r.draws /\ q.phase = r.phase /\ q.last_card = r.last_card
      /\ q.chu_seat = r.chu_seat /\ q.win_seatid = r.win_seatid /\ q.cur_seat = s
  BY <1>7 DEF Same
<1>9. PengMoves(r, q, s, t)
  BY <1>4, <1>7, <1>8 DEF PengMoves
<1>10. /\ FiniteMelds(q) /\ Conserved(q)
       /\ MeldsOf(q, s) > 0
       /\ Held(q, s) = Held(r, s) + 1 /\ Size(q, s) <= Size(r, s)
       /\ \A x \in Seats \ {s} : /\ Size(q, x) = Size(r, x) /\ MeldsOf(q, x) = MeldsOf(r, x)
                                 /\ Held(q, x) = Held(r, x)
  <2>1. /\ Table(r) /\ FiniteMelds(r) /\ Conserved(r) /\ Table(q) /\ s \in Seats
        /\ t \in Tiles /\ r.holes[s][t] >= 2
        /\ r.chu_seat \in Seats /\ r.discards[r.chu_seat][t] >= 1 /\ PengMoves(r, q, s, t)
    BY <1>1, <1>5, <1>6, <1>7, <1>9
  <2>. QED
    BY ONLY <2>1, PengMovesTiles
<1>11. Held(q, s) = HandSize + 1 /\ \A x \in Seats \ {s} : Held(q, x) = HandSize
  BY <1>1, <1>3, <1>10
<1>12. HasExtraTile(q, s) /\ \A x \in Seats \ {s} : ~ HasExtraTile(q, x)
  BY <1>1, <1>7, <1>10, <1>11, HandFacts
<1>13. Shaped(q)
  BY <1>8, <1>11 DEF Shaped
<1>14. LastCardLies(q)
  BY <1>4, <1>5, <1>6, <1>7, <1>8, NoTileIsNoTile DEF LastCardLies
<1>15. Listening(q)
  <2>1. q.ting \subseteq q.bao_ting
    BY <1>1, <1>8 DEF Listening
  <2>2. \A x \in Seats \ {s} : q.last_actions[x] = r.last_actions[x]
    BY <1>1, <1>7 DEF Table, Typed
  <2>3. \A x \in Seats \ {s} : r.last_actions[x][1] # "NONE" =>
               MeldsOf(r, x) > 0 \/ r.draws[x] = 2 \/ r.draws[x] = 1
    BY <1>1 DEF Listening
  <2>. QED
    BY <1>8, <1>10, <1>12, <2>1, <2>2, <2>3 DEF Listening
<1>16. Quiet(q)
  BY <1>7, AnswerIsQuiet
<1>17. \A x \in Seats : Size(q, x) <= Size(r, x)
  <2>1. \A x \in Seats : Size(r, x) \in Nat
    BY <1>1, HandFacts
  <2>. QED
    BY <1>10, <2>1
<1>. QED
  BY <1>1, <1>5, <1>7, <1>8, <1>10, <1>11, <1>12, <1>13, <1>14, <1>15, <1>16, <1>17

\* A peng takes no tile: the seat that claimed goes on to discard.
LEMMA PengKeeps ==
  ASSUME NEW r, RoundInv(r), r.phase = "betting", NEW s, s = r.cur_seat,
         "PENG" \in r.actions, NEW z \in StartNextBet(HandlerPeng(r, s))
  PROVE  RoundInv(z) /\ \A x \in Seats : Size(z, x) <= Size(r, x)
<1>1. PICK q : q = HandlerPeng(r, s)
  OBVIOUS
<1>2. /\ Table(q) /\ FiniteMelds(q) /\ Conserved(q) /\ Shaped(q) /\ Quiet(q)
      /\ LastCardLies(q) /\ Listening(q)
      /\ q.cur_seat = s /\ q.last_action = "PENG" /\ q.win_seatid = NoSeat
      /\ s \notin q.ting /\ MeldsOf(q, s) > 0
      /\ Held(q, s) = HandSize + 1 /\ HasExtraTile(q, s)
      /\ q.phase = "betting"
      /\ \A x \in Seats : Size(q, x) <= Size(r, x)
  BY <1>1, PengIsExtra
<1>3. s \in Seats
  BY <1>2 DEF Table, Typed
<1>4. Claims(q) = {} /\ ~ TakesTile(q, s)
  <2>1. Claims(q) = {}
    BY <1>2 DEF Claims, RobbingOffers, DiscardOffers
  <2>2. Size(q, s) \in Nat
    BY <1>2, <1>3, HandFacts
  <2>. QED
    BY <1>2, <2>1, <2>2 DEF HasExtraTile, TakesTile
<1>5. /\ Table(z)
      /\ \/ Same(z, q, {"phase", "actions"}) /\ z.phase # "betting"
         \/ Same(z, q, {"actions", "fresh"}) /\ z.actions = WithPass(TurnOffers(z, s))
  BY <1>1, <1>2, <1>4, StartNextBetCases
<1>6. /\ z.holes = q.holes /\ z.discards = q.discards /\ z.deck = q.deck
      /\ z.pengs = q.pengs /\ z.gangs = q.gangs
      /\ z.cur_seat = q.cur_seat /\ z.win_seatid = q.win_seatid
      /\ z.pao_hu_seat = q.pao_hu_seat /\ z.gang_hu_seat = q.gang_hu_seat
      /\ z.pao_hu_flag = q.pao_hu_flag /\ z.gang_hu_flag = q.gang_hu_flag
      /\ z.last_card = q.last_card /\ z.chu_seat = q.chu_seat
      /\ z.last_action = q.last_action /\ z.last_actions = q.last_actions
      /\ z.ting = q.ting /\ z.bao_ting = q.bao_ting /\ z.draws = q.draws
  BY <1>5 DEF Same
<1>7. /\ \A x : Size(z, x) = Size(q, x) /\ (HasExtraTile(z, x) <=> HasExtraTile(q, x))
      /\ \A x : MeldsOf(z, x) = MeldsOf(q, x) /\ Held(z, x) = Held(q, x)
      /\ FiniteMelds(z) /\ Conserved(z)
  BY ONLY <1>2, <1>6, SameHands
<1>8. Shaped(z)
  BY <1>2, <1>6, <1>7 DEF Shaped
<1>9. \A x \in Seats : Size(z, x) <= Size(r, x)
  BY <1>2, <1>7
<1>10. CASE z.phase # "betting"
  <2>1. SettledWin(z)
    BY <1>2, <1>6 DEF SettledWin, Quiet
  <2>. QED
    BY <1>5, <1>7, <1>8, <1>9, <1>10, <2>1 DEF RoundInv
<1>11. CASE Same(z, q, {"actions", "fresh"}) /\ z.actions = WithPass(TurnOffers(z, s))
  <2>1. z.phase = "betting"
    BY <1>2, <1>11 DEF Same
  <2>2. ~ (Size(z, s) >= HandSize)
    <3>1. Size(z, s) \in Nat /\ MeldsOf(z, s) \in Nat /\ HandSize \in Nat
      BY <1>3, <1>5, <1>7, HandFacts, RoundAssumption
    <3>2. Size(z, s) + 3 * MeldsOf(z, s) = HandSize + 1 /\ MeldsOf(z, s) > 0
      BY <1>2, <1>7 DEF Held
    <3>. QED
      BY <3>1, <3>2
  <2>3. z.actions = {}
    BY <1>2, <1>6, <1>11, <2>2 DEF TurnOffers, WithPass
  <2>4. OwnTurn(z, s)
    BY <1>2, <1>6, <2>3 DEF OwnTurn, Quiet
  <2>5. Payers(z)
    BY <1>2, <1>6 DEF Payers, Quiet
  <2>6. LastCardLies(z) /\ Listening(z)
    BY <1>2, <1>6, <1>7 DEF LastCardLies, Listening
  <2>7. z.cur_seat = s /\ HasExtraTile(z, s) /\ z.win_seatid = NoSeat
    BY <1>2, <1>6, <1>7
  <2>. QED
    BY <1>5, <1>7, <1>8, <1>9, <2>1, <2>4, <2>5, <2>6, <2>7 DEF RoundInv
<1>. QED
  BY <1>5, <1>10, <1>11


-----------------------------------------------------------------------------
(* The deal.                                                               *)

LEMMA DealtIsEven ==
  ASSUME NEW hands \in Deals, NEW dealer \in Seats, NEW r, r = Dealt(hands, dealer)
  PROVE  Even(r) /\ Flagged(r)
<1> DEFINE none == [t \in Tiles |-> 0]
           deck == [t \in Tiles |-> Copies[t] - Total([s \in Seats |-> hands[s][t]])]
<1>1. /\ hands \in [Seats -> Bags] /\ none \in Bags
      /\ \A s \in Seats : Total(hands[s]) = HandSize
      /\ \A t \in Tiles : Total([s \in Seats |-> hands[s][t]]) <= Copies[t]
      /\ \A t \in Tiles : Copies[t] \in Nat
  BY RoundAssumption DEF Bags
<1>2. \A t \in Tiles : Total([s \in Seats |-> hands[s][t]]) \in Nat
  <2> SUFFICES ASSUME NEW t \in Tiles PROVE Total([s \in Seats |-> hands[s][t]]) \in Nat
    OBVIOUS
  <2> DEFINE f == [s \in Seats |-> hands[s][t]]
  <2>1. DOMAIN f = Seats /\ \A s \in Seats : f[s] \in Nat
    BY <1>1 DEF Bags
  <2>2. Total(f) = SumOn(f, Seats)
    BY <2>1, TotalIsSum
  <2> HIDE DEF f
  <2>3. SumOn(f, Seats) \in Nat
    BY <2>1, SeatsAreFinite, SumIsNat
  <2>4. Total(f) \in Nat
    BY <2>2, <2>3
  <2>. QED
    BY <2>4 DEF f
<1>3. deck \in Bags
  <2>1. ASSUME NEW t \in Tiles PROVE deck[t] \in Nat
    <3>1. PICK v : v = Total([s \in Seats |-> hands[s][t]])
      OBVIOUS
    <3>2. v \in Nat /\ v <= Copies[t] /\ Copies[t] \in Nat
      BY <1>1, <1>2, <3>1
    <3>3. deck[t] = Copies[t] - v
      BY <3>1
    <3>. QED
      BY ONLY <3>2, <3>3
  <2>2. deck = [t \in Tiles |-> deck[t]]
    OBVIOUS
  <2> HIDE DEF deck
  <2>. QED
    BY <2>1, <2>2 DEF Bags
<1>4. /\ r.phase = "betting" /\ r.holes = hands /\ r.deck = deck
      /\ r.discards = [s \in Seats |-> none]
      /\ r.pengs = [s \in Seats |-> {}] /\ r.gangs = [s \in Seats |-> {}]
      /\ r.fresh = [s \in Seats |-> NoTile] /\ r.draws = [s \in Seats |-> 0]
      /\ r.guo_hu = [s \in Seats |-> {}] /\ r.guo_peng = [s \in Seats |-> {}]
      /\ r.last_actions = [s \in Seats |-> <<"NONE", "NONE">>]
      /\ r.handler_flag = {} /\ r.pao_hu_flag = {} /\ r.gang_hu_flag = {}
      /\ r.ting = {} /\ r.bao_ting = {} /\ r.actions = {}
      /\ r.cur_seat = dealer /\ r.chu_seat = NoSeat
      /\ r.last_action = "NONE" /\ r.last_card = NoTile /\ r.last_gang_card = NoTile
      /\ r.gang_flag = 0 /\ r.wait_handle_action = "NONE" /\ r.wait_handler_seat = NoSeat
      /\ r.pao_hu_seat = NoSeat /\ r.gang_hu_seat = NoSeat
      /\ r.pao_hu_count = 0 /\ r.gang_hu_count = 0
      /\ r.win_seatid = NoSeat /\ r.is_re_pao = FALSE /\ r.is_qiang_gang = FALSE
  BY DEF Dealt
<1>5. IsTable(r)
  <2>1. DOMAIN r = Names
    BY DEF Dealt, Names
  <2>2. r = [f \in DOMAIN r |-> r[f]]
    BY DEF Dealt
  <2>. QED
    BY <2>1, <2>2 DEF IsTable
<1> HIDE DEF none, deck
<1>6. Typed(r)
  <2>1. /\ r.holes \in [Seats -> Bags] /\ r.discards \in [Seats -> Bags] /\ r.deck \in Bags
        /\ r.pengs \in [Seats -> SUBSET Tiles]
        /\ r.gangs \in [Seats -> SUBSET [tile : Tiles, flag : {0, 1, 3}]]
    BY <1>1, <1>3, <1>4
  <2>2. /\ r.fresh \in [Seats -> Tiles \cup {NoTile}] /\ r.draws \in [Seats -> 0 .. 2]
        /\ r.guo_hu \in [Seats -> SUBSET Tiles] /\ r.guo_peng \in [Seats -> SUBSET Tiles]
    BY <1>4
  <2>3. r.last_actions \in [Seats -> Actions \X Actions]
    BY <1>4, ActionNames
  <2>4. r.last_action \in Actions /\ r.wait_handle_action \in Actions
    BY <1>4, ActionNames
  <2>5. /\ r.phase \in {"betting", "won", "drawn"} /\ r.cur_seat \in Seats
        /\ r.actions \in SUBSET {"PENG", "GANG", "GUO", "TING", "HU"}
        /\ r.gang_flag \in {0, 1, 3} /\ r.pao_hu_count \in Nat /\ r.gang_hu_count \in Nat
    BY <1>4
  <2>6. /\ r.handler_flag \in SUBSET Seats /\ r.pao_hu_flag \in SUBSET Seats
        /\ r.gang_hu_flag \in SUBSET Seats
        /\ r.ting \in SUBSET Seats /\ r.bao_ting \in SUBSET Seats
    BY <1>4
  <2>7. /\ r.chu_seat \in Seats \cup {NoSeat} /\ r.wait_handler_seat \in Seats \cup {NoSeat}
        /\ r.pao_hu_seat \in Seats \cup {NoSeat} /\ r.gang_hu_seat \in Seats \cup {NoSeat}
        /\ r.win_seatid \in Seats \cup {NoSeat}
        /\ r.last_card \in Tiles \cup {NoTile} /\ r.last_gang_card \in Tiles \cup {NoTile}
    BY <1>4
  <2>8. r.is_re_pao \in BOOLEAN /\ r.is_qiang_gang \in BOOLEAN
    BY <1>4
  <2>. QED
    BY ONLY <2>1, <2>2, <2>3, <2>4, <2>5, <2>6, <2>7, <2>8 DEF Typed
<1>7. Table(r)
  BY <1>5, <1>6 DEF Table
<1>8. FiniteMelds(r) /\ \A s \in Seats : MeldsOf(r, s) = 0
  BY <1>4, FS_EmptySet DEF FiniteMelds, MeldsOf
<1>9. \A s \in Seats : Held(r, s) = HandSize
  <2>1. HandSize \in Nat
    BY RoundAssumption
  <2>2. \A s \in Seats : Size(r, s) = HandSize
    BY <1>1, <1>4 DEF Size
  <2>. QED
    BY <1>8, <2>1, <2>2 DEF Held
<1>10. Conserved(r)
  <2> SUFFICES ASSUME NEW t \in Tiles PROVE Copies[t] = r.deck[t] + Total(Account(r, t))
    BY DEF Conserved
  <2>1. \A s \in Seats : hands[s][t] \in Nat
    BY <1>1 DEF Bags
  <2>2. \A s \in Seats : /\ r.holes[s][t] = hands[s][t] /\ r.discards[s][t] = 0
                         /\ t \notin r.pengs[s]
                         /\ {g \in r.gangs[s] : g.tile = t} = {}
    BY <1>4 DEF none
  <2>3. \A s \in Seats : r.holes[s][t] + r.discards[s][t]
                           + (IF t \in r.pengs[s] THEN 3 ELSE 0)
                           + 4 * Cardinality({g \in r.gangs[s] : g.tile = t}) = hands[s][t]
    <3>1. ASSUME NEW s \in Seats PROVE Cardinality({g \in r.gangs[s] : g.tile = t}) = 0
      BY <2>2, FS_EmptySet
    <3>. QED
      BY <2>1, <2>2, <3>1
  <2>4. Account(r, t) = [s \in Seats |-> hands[s][t]]
    BY <2>3 DEF Account
  <2>5. r.deck[t] = Copies[t] - Total([s \in Seats |-> hands[s][t]])
    BY <1>4 DEF deck
  <2>. QED
    BY <1>1, <1>2, <2>4, <2>5
<1>11. \A s \in Seats : ~ HasExtraTile(r, s)
  BY <1>7, <1>8, <1>9, HandFacts
<1>12. LastCardLies(r) /\ Listening(r)
  BY <1>4, <1>11 DEF LastCardLies, Listening
<1>13. Even(r)
  BY <1>4, <1>7, <1>8, <1>9, <1>10, <1>12 DEF Even
<1>14. Flagged(r)
  BY <1>4 DEF Flagged
<1>. QED
  BY <1>13, <1>14

LEMMA InitKeeps == Init => RoundInv(tbl)
<1> SUFFICES ASSUME NEW hands \in Deals, NEW dealer \in Seats,
                    tbl \in StartNextBet(Dealt(hands, dealer))
             PROVE  RoundInv(tbl)
  BY DEF Init
<1>1. PICK r : r = Dealt(hands, dealer)
  OBVIOUS
<1>2. Even(r) /\ Flagged(r) /\ tbl \in StartNextBet(r)
  BY <1>1, DealtIsEven
<1>. QED
  BY ONLY <1>2, StartNextBetKeeps

-----------------------------------------------------------------------------
(* The next seat and its offer.                                            *)

\* What next_player_seat and start_next_bet make of a handler's table.
LEMMA CountKeeps ==
  ASSUME NEW q, Handled(q), NEW z \in CountNextBet(q)
  PROVE  RoundInv(z)
<1>1. PICK n : n = NextPlayerSeat(q)
  OBVIOUS
<1>2. Even(n) /\ Flagged(n)
  BY <1>1, NextPlayerSeatFacts
<1>3. z \in StartNextBet(n)
  BY <1>1 DEF CountNextBet
<1>. QED
  BY ONLY <1>2, <1>3, StartNextBetKeeps

\* Only the turn draws, and only if it has no claim and nobody is flagged.
LEMMA OnlyTheTurnDraws ==
  ASSUME NEW n, Even(n), Flagged(n), NEW z \in StartNextBet(n), NEW x \in Seats,
         Size(z, x) > Size(n, x)
  PROVE  /\ x = n.cur_seat /\ Claims(n) = {}
         /\ n.pao_hu_flag = {} /\ n.gang_hu_flag = {}
         /\ Same(z, n, DrawFields \cup {"actions"})
<1>1. Table(n) /\ FiniteMelds(n)
  BY DEF Even
<1>2. Size(n, x) \in Nat
  BY <1>1, HandFacts
<1>3. z.holes # n.holes
  BY <1>2 DEF Size
<1>4. /\ ~ (n.gang_hu_count > 1 \/ n.pao_hu_count > 1)
      /\ Claims(n) = {} /\ \E t \in Tiles : Drawn(n, z, t)
  BY <1>1, <1>3, StartNextBetCases DEF Same
<1>5. PICK t \in Tiles : Drawn(n, z, t)
  BY <1>4
<1>6. x = n.cur_seat
  <2>1. z.holes = [n.holes EXCEPT ![n.cur_seat] = Add(n.holes[n.cur_seat], t, 1)]
    BY <1>5 DEF Drawn
  <2>2. x # n.cur_seat => z.holes[x] = n.holes[x]
    BY <1>1, <2>1 DEF Table, Typed
  <2>. QED
    BY <1>2, <2>2 DEF Size
<1>7. n.pao_hu_flag = {} /\ n.gang_hu_flag = {}
  BY <1>4, FlaggedIsOffered
<1>8. Same(z, n, DrawFields \cup {"actions"})
  BY <1>5 DEF Drawn
<1>. QED
  BY <1>4, <1>6, <1>7, <1>8

LEMMA DrawerIsInTurn ==
  ASSUME NEW q, Handled(q), NEW z \in CountNextBet(q), NEW x \in Seats,
         Size(z, x) > Size(q, x)
  PROVE  \/ x = NextBettingSeat(z.chu_seat)
         \/ z.wait_handle_action = "GANG" /\ x = z.wait_handler_seat
         \/ q.last_action = "GUO" /\ x # q.cur_seat /\ q.last_card \in q.guo_peng[x]
<1>1. PICK n : n = NextPlayerSeat(q)
  OBVIOUS
<1>2. Even(n) /\ Flagged(n) /\ Same(n, q, TurnFields) /\ InTurn(n, q)
  BY <1>1, NextPlayerSeatFacts
<1>3. z \in StartNextBet(n)
  BY <1>1 DEF CountNextBet
<1>4. /\ n.last_card = q.last_card /\ n.guo_peng = q.guo_peng /\ n.holes = q.holes
      /\ n.last_action = q.last_action
  BY <1>2 DEF Same, TurnFields
<1>5. Size(z, x) > Size(n, x)
  BY <1>4 DEF Size
<1>6. /\ x = n.cur_seat /\ Claims(n) = {}
      /\ n.pao_hu_flag = {} /\ n.gang_hu_flag = {}
      /\ Same(z, n, DrawFields \cup {"actions"})
  BY ONLY <1>2, <1>3, <1>5, x \in Seats, OnlyTheTurnDraws
<1>7. /\ z.chu_seat = n.chu_seat /\ z.wait_handle_action = n.wait_handle_action
      /\ z.wait_handler_seat = n.wait_handler_seat
  BY <1>6 DEF Same, DrawFields
<1>8. CASE /\ n.last_action \in {"CHU", "GUO"}
           /\ x \notin n.bao_ting \cup n.handler_flag
           /\ PermitPeng(n, x, n.last_card)
           /\ \/ n.last_card \notin n.guo_peng[x]
              \/ n.last_action = "GUO" /\ x # q.cur_seat
  <2>1. x \notin n.ting
    BY <1>2, <1>8 DEF Even, Listening
  <2>2. n.last_card \notin n.guo_peng[x] => "PENG" \in DiscardOffers(n, x)
    BY <1>8, <2>1 DEF DiscardOffers
  <2>3. n.last_card \in n.guo_peng[x]
    BY <1>6, <2>2 DEF Claims
  <2>. QED
    BY <1>4, <1>8, <2>3
<1>. QED
  BY <1>2, <1>6, <1>7, <1>8 DEF InTurn


-----------------------------------------------------------------------------
(* The actions keep the invariant.                                         *)

LEMMA ChuKeeps ==
  ASSUME RoundInv(tbl), NEW s \in Seats, NEW t \in Tiles, Chu(s, t)
  PROVE  RoundInv(tbl')
<1>1. PICK q : q = HandlerChu(tbl, s, t)
  OBVIOUS
<1>2. /\ RoundInv(tbl) /\ tbl.phase = "betting" /\ s = tbl.cur_seat
      /\ t \in Tiles /\ tbl.holes[s][t] > 0 /\ HasExtraTile(tbl, s)
      /\ q = HandlerChu(tbl, s, t)
  BY <1>1 DEF Chu, Betting
<1>3. Handled(q)
  BY ONLY <1>2, ChuIsHandled
<1>4. tbl' \in CountNextBet(q)
  BY <1>1 DEF Chu
<1>. QED
  BY ONLY <1>3, <1>4, CountKeeps

LEMMA PengActionKeeps ==
  ASSUME RoundInv(tbl), NEW s \in Seats, Peng(s)
  PROVE  RoundInv(tbl')
<1>1. /\ RoundInv(tbl) /\ tbl.phase = "betting" /\ s = tbl.cur_seat
      /\ "PENG" \in tbl.actions /\ tbl' \in StartNextBet(HandlerPeng(tbl, s))
  BY DEF Peng, Betting
<1>. QED
  BY ONLY <1>1, PengKeeps

LEMMA GangKeeps ==
  ASSUME RoundInv(tbl), NEW s \in Seats, NEW g, Gang(s, g)
  PROVE  RoundInv(tbl')
<1>1. PICK q : q = HandlerGang(tbl, s, g)
  OBVIOUS
<1>2. /\ RoundInv(tbl) /\ tbl.phase = "betting" /\ s = tbl.cur_seat
      /\ "GANG" \in tbl.actions
      /\ IF HasExtraTile(tbl, s) THEN g \in OwnGangs(tbl, s)
         ELSE g = [tile |-> tbl.last_card, flag |-> 0]
      /\ q = HandlerGang(tbl, s, g)
  BY <1>1 DEF Gang, Betting
<1>3. Handled(q)
  BY ONLY <1>2, GangIsHandled
<1>4. tbl' \in CountNextBet(q)
  BY <1>1 DEF Gang
<1>. QED
  BY ONLY <1>3, <1>4, CountKeeps

LEMMA GuoKeeps ==
  ASSUME RoundInv(tbl), NEW s \in Seats, Guo(s)
  PROVE  RoundInv(tbl')
<1>1. PICK q : q = HandlerGuo(tbl, s)
  OBVIOUS
<1>2. /\ RoundInv(tbl) /\ tbl.phase = "betting" /\ s = tbl.cur_seat
      /\ "GUO" \in tbl.actions /\ q = HandlerGuo(tbl, s)
  BY <1>1 DEF Guo, Betting
<1>3. CASE HasExtraTile(tbl, s)
  <2>1. RoundInv(q)
    BY ONLY <1>2, <1>3, GuoOnOwnTurn
  <2>2. tbl' = q
    BY <1>1, <1>3 DEF Guo
  <2>. QED
    BY <2>1, <2>2
<1>4. CASE ~ HasExtraTile(tbl, s)
  <2>1. Handled(q)
    BY ONLY <1>2, <1>4, GuoIsHandled
  <2>2. tbl' \in CountNextBet(q)
    BY <1>1, <1>4 DEF Guo
  <2>. QED
    BY ONLY <2>1, <2>2, CountKeeps
<1>. QED
  BY <1>3, <1>4

LEMMA TingKeeps ==
  ASSUME RoundInv(tbl), NEW s \in Seats, NEW t \in Tiles, Ting(s, t)
  PROVE  RoundInv(tbl')
<1>1. PICK q : q = HandlerTing(tbl, s, t)
  OBVIOUS
<1>2. /\ RoundInv(tbl) /\ tbl.phase = "betting" /\ s = tbl.cur_seat
      /\ t \in Tiles /\ tbl.holes[s][t] > 0 /\ "TING" \in tbl.actions
      /\ q = HandlerTing(tbl, s, t)
  BY <1>1 DEF Ting, Betting
<1>3. Handled(q)
  BY ONLY <1>2, TingIsHandled
<1>4. tbl' \in CountNextBet(q)
  BY <1>1 DEF Ting
<1>. QED
  BY ONLY <1>3, <1>4, CountKeeps

LEMMA HuActionKeeps ==
  ASSUME RoundInv(tbl), NEW s \in Seats, Hu(s)
  PROVE  RoundInv(tbl')
<1>1. /\ RoundInv(tbl) /\ tbl.phase = "betting" /\ s = tbl.cur_seat
      /\ tbl' = HandlerHu(tbl, s)
  BY DEF Hu, Betting
<1>. QED
  BY ONLY <1>1, HuKeeps

LEMMA CancelActionKeeps ==
  ASSUME RoundInv(tbl), NEW s \in Seats, Cancel(s)
  PROVE  RoundInv(tbl')
<1>1. /\ RoundInv(tbl) /\ tbl.phase = "betting" /\ s = tbl.cur_seat
      /\ tbl' = [tbl EXCEPT !.last_action = "CANCEL", !.ting = tbl.ting \ {s}]
  BY DEF Cancel, Betting
<1>. QED
  BY ONLY <1>1, CancelKeeps

LEMMA NextKeeps == RoundInv(tbl) /\ [Next]_tbl => RoundInv(tbl')
<1> SUFFICES ASSUME RoundInv(tbl), [Next]_tbl PROVE RoundInv(tbl')
  OBVIOUS
<1>1. ASSUME NEW s \in Seats, NEW t \in Tiles, Chu(s, t) PROVE RoundInv(tbl')
  BY <1>1, ChuKeeps
<1>2. ASSUME NEW s \in Seats, Peng(s) PROVE RoundInv(tbl')
  BY <1>2, PengActionKeeps
<1>3. ASSUME NEW s \in Seats, NEW t \in Tiles, NEW f \in {0, 1, 3},
             Gang(s, [tile |-> t, flag |-> f])
      PROVE  RoundInv(tbl')
  BY <1>3, GangKeeps
<1>4. ASSUME NEW s \in Seats, Guo(s) PROVE RoundInv(tbl')
  BY <1>4, GuoKeeps
<1>5. ASSUME NEW s \in Seats, NEW t \in Tiles, Ting(s, t) PROVE RoundInv(tbl')
  BY <1>5, TingKeeps
<1>6. ASSUME NEW s \in Seats, Hu(s) PROVE RoundInv(tbl')
  BY <1>6, HuActionKeeps
<1>7. ASSUME NEW s \in Seats, Cancel(s) PROVE RoundInv(tbl')
  BY <1>7, CancelActionKeeps
<1>8. CASE Over \/ UNCHANGED tbl
  <2>1. tbl' = tbl
    BY <1>8 DEF Over
  <2>. QED
    BY <2>1
<1>. QED
  BY <1>1, <1>2, <1>3, <1>4, <1>5, <1>6, <1>7, <1>8 DEF Next

\* The invariant of the hand: every tile is accounted for, every seat holds
\* what was dealt to it and the turn at most one more, and what was offered
\* to the turn can still be done.
THEOREM HandIsInOrder == Spec => []RoundInv(tbl)
<1>1. Init => RoundInv(tbl)
  BY InitKeeps
<1>2. RoundInv(tbl) /\ [Next]_tbl => RoundInv(tbl)'
  BY NextKeeps
<1>. QED
  BY <1>1, <1>2, PTL DEF Spec


-----------------------------------------------------------------------------
(* What the invariant shows.                                               *)

\* Every field keeps its type, every seat holds what was dealt to it, hand
\* and melds together, and the turn at most one tile more: no order of draws,
\* claims and passes leaves a hand with a tile too many or too few.
THEOREM HandsKeepTheirSize == Spec => []HandShape
<1>1. RoundInv(tbl) => HandShape
  <2> SUFFICES ASSUME RoundInv(tbl) PROVE HandShape
    OBVIOUS
  <2>1. TypeOK
    BY TableOfItsType DEF RoundInv, TypeOK
  <2>2. \A s \in Seats : Size(tbl, s) + 3 * Melds(s) = Held(tbl, s)
    BY DEF Melds, MeldsOf, Held
  <2>. QED
    BY <2>1, <2>2 DEF RoundInv, Shaped, HandShape
<1>. QED
  BY HandIsInOrder, <1>1, PTL

\* Every tile of the set is in one place, whatever was drawn, discarded and
\* claimed: no claim takes a discard that a meld has already taken.
THEOREM TilesAreConserved == Spec => []TileConservation
<1>1. RoundInv(tbl) => TileConservation
  BY Zenon DEF RoundInv, Conserved, Account, TileConservation
<1>. QED
  BY HandIsInOrder, <1>1, PTL

\* A hand that is not over can go on: the seat to answer has a tile it may
\* discard, or may pass what it was offered.
THEOREM HandCanGoOn == Spec => []SomebodyCanAnswer
<1>1. RoundInv(tbl) => SomebodyCanAnswer
  <2> SUFFICES ASSUME RoundInv(tbl), tbl.phase = "betting", NEW s, s = tbl.cur_seat
               PROVE  IF HasExtraTile(tbl, s)
                      THEN \E t \in Tiles : tbl.holes[s][t] > 0 /\ (s \in tbl.ting => t = tbl.fresh[s])
                      ELSE "GUO" \in tbl.actions
    BY DEF SomebodyCanAnswer
  <2>1. CASE HasExtraTile(tbl, s) /\ s \in tbl.ting
    <3>1. tbl.fresh[s] \in Tiles /\ tbl.holes[s][tbl.fresh[s]] >= 1
      BY <2>1 DEF RoundInv, OwnTurn
    <3>2. tbl.holes[s] \in Bags
      BY DEF RoundInv, Table, Typed
    <3>3. tbl.holes[s][tbl.fresh[s]] \in Nat
      BY <3>1, <3>2, BagFacts
    <3>. QED
      BY <2>1, <3>1, <3>3
  <2>2. CASE HasExtraTile(tbl, s) /\ s \notin tbl.ting
    <3>1. tbl.holes[s] \in Bags
      BY DEF RoundInv, Table, Typed
    <3>2. Size(tbl, s) \in Nat /\ Size(tbl, s) % 3 = 2
      BY <2>2, <3>1, BagFacts DEF Size, HasExtraTile
    <3>3. Total(tbl.holes[s]) > 0
      BY <3>2 DEF Size
    <3>. QED
      BY <2>2, <3>1, <3>3, BagFacts
  <2>3. CASE ~ HasExtraTile(tbl, s)
    BY <2>3 DEF RoundInv, Asked
  <2>. QED
    BY <2>1, <2>2, <2>3
<1>. QED
  BY HandIsInOrder, <1>1, PTL

\* While a win on a discard or on a robbed gang is open it is the turn of the
\* seat that may win, and who gave the tile is on record.
THEOREM OpenWinComesFirst == Spec => []OpenWinIsAnsweredFirst
<1>1. RoundInv(tbl) => OpenWinIsAnsweredFirst
  BY DEF RoundInv, Payers, OpenWinIsAnsweredFirst
<1>. QED
  BY HandIsInOrder, <1>1, PTL

\* Nobody's discard or gang is on record when a win by one's own draw is
\* settled, and never a discarder and a robbed seat together.
THEOREM OwnDrawIsPaidByAll == Spec => []SelfDrawHasNoPayer
<1>1. RoundInv(tbl) => SelfDrawHasNoPayer
  BY DEF RoundInv, Payers, SettledWin, SelfDrawHasNoPayer
<1>. QED
  BY HandIsInOrder, <1>1, PTL

\* The seat that passes a claim is not asked again about the same tile.
THEOREM PassIsFinal == Spec => []PassMovesOn
<1>1. RoundInv(tbl) => PassMovesOn
  <2> SUFFICES ASSUME RoundInv(tbl), NEW s \in Seats, Betting(s), "GUO" \in tbl.actions,
                      ~ HasExtraTile(tbl, s), NEW z \in CountNextBet(HandlerGuo(tbl, s))
               PROVE  z.cur_seat # s \/ HasExtraTile(z, s) \/ z.phase # "betting"
    BY DEF PassMovesOn
  <2>1. PICK q : q = HandlerGuo(tbl, s)
    OBVIOUS
  <2>2. /\ RoundInv(tbl) /\ tbl.phase = "betting" /\ s = tbl.cur_seat
        /\ "GUO" \in tbl.actions /\ ~ HasExtraTile(tbl, s) /\ q = HandlerGuo(tbl, s)
    BY <2>1 DEF Betting
  <2>3. Handled(q)
    BY ONLY <2>2, GuoIsHandled
  <2>4. q.last_action = "GUO" /\ s \in q.handler_flag
    <3>1. q.last_action = "GUO" /\ q.handler_flag = tbl.handler_flag \cup {s}
      BY ONLY <2>2, GuoKeepsHands
    <3>. QED
      BY <3>1
  <2>5. PICK n : n = NextPlayerSeat(q)
    OBVIOUS
  <2>6. Even(n) /\ Same(n, q, TurnFields)
    BY ONLY <2>3, <2>5, NextPlayerSeatFacts
  <2>7. z \in StartNextBet(n)
    BY <2>1, <2>5 DEF CountNextBet
  <2>8. n.last_action = "GUO" /\ s \in n.handler_flag
    BY <2>4, <2>6 DEF Same, TurnFields
  <2>9. n.cur_seat = s => Claims(n) = {}
    BY <2>8 DEF Claims, RobbingOffers, DiscardOffers
  <2>10. Table(n) /\ n.cur_seat \in Seats /\ FiniteMelds(n) /\ TakesTile(n, n.cur_seat)
    <3>1. Table(n) /\ n.cur_seat \in Seats /\ FiniteMelds(n)
      BY <2>6 DEF Even, Table, Typed
    <3>. QED
      BY <2>6, <3>1, HandFacts DEF Even, TakesTile
  <2>11. \/ z.phase # "betting"
         \/ Claims(n) # {} /\ Same(z, n, {"actions"})
         \/ Table(z) /\ \E t \in Tiles : Drawn(n, z, t)
    <3>1. /\ Table(z)
          /\ \/ z.phase = "won"
             \/ Claims(n) # {} /\ Same(z, n, {"actions"})
             \/ z.phase = "drawn"
             \/ \E t \in Tiles : Drawn(n, z, t)
      BY ONLY <2>7, <2>10, StartNextBetCases
    <3>. QED
      BY <3>1
  <2>12. CASE Claims(n) # {} /\ Same(z, n, {"actions"})
    BY <2>9, <2>12 DEF Same
  <2>13. CASE Table(z) /\ \E t \in Tiles : Drawn(n, z, t)
    <3>1. PICK t \in Tiles : Drawn(n, z, t)
      BY <2>13
    <3>2. FiniteMelds(z) /\ Held(z, n.cur_seat) = HandSize + 1
      BY <2>6, <2>13, <3>1, DrawnTableIsEven
    <3>3. HasExtraTile(z, n.cur_seat)
      BY <2>10, <2>13, <3>2, HandFacts
    <3>4. z.cur_seat = n.cur_seat
      BY <3>1 DEF Drawn, Same, DrawFields
    <3>. QED
      BY <3>3, <3>4
  <2>. QED
    BY <2>11, <2>12, <2>13
<1>. QED
  BY HandIsInOrder, <1>1, PTL

\* Nobody draws out of turn: the seat that draws comes after the last
\* discarder, has just made a gang, or had passed this discard to peng.
THEOREM NobodyDrawsOutOfTurn == Spec => DrawsInTurn
<1> DEFINE InOrder(x) == \/ x = NextBettingSeat(tbl'.chu_seat)
                         \/ tbl'.wait_handle_action = "GANG" /\ x = tbl'.wait_handler_seat
                         \/ tbl.last_card \in tbl.guo_peng[x]
<1>1. ASSUME RoundInv(tbl), Next, NEW x \in Seats, Drew(x) PROVE InOrder(x)
  <2>1. Size(tbl', x) > Size(tbl, x)
    BY <1>1 DEF Drew, Size
  <2>2. \A y \in Seats : Size(tbl, y) \in Nat
    BY <1>1, HandFacts DEF RoundInv
  <2>3. ASSUME NEW q, Handled(q), tbl' \in CountNextBet(q), Size(q, x) <= Size(tbl, x),
               q.last_action = "GUO" => /\ q.cur_seat = tbl.cur_seat /\ q.last_card = tbl.last_card
                                        /\ x # tbl.cur_seat => q.guo_peng[x] = tbl.guo_peng[x]
        PROVE  InOrder(x)
    <3>1. Size(tbl', x) > Size(q, x)
      <4>1. Table(q) /\ FiniteMelds(q)
        BY <2>3 DEF Handled, Even
      <4>2. Size(q, x) \in Nat /\ (Size(tbl', x) \in Nat)
        <5>1. RoundInv(tbl')
          BY <1>1, NextKeeps
        <5>. QED
          BY <4>1, <5>1, HandFacts DEF RoundInv
      <4>. QED
        BY <2>1, <2>2, <2>3, <4>2
    <3>2. \/ x = NextBettingSeat(tbl'.chu_seat)
          \/ tbl'.wait_handle_action = "GANG" /\ x = tbl'.wait_handler_seat
          \/ q.last_action = "GUO" /\ x # q.cur_seat /\ q.last_card \in q.guo_peng[x]
      BY <2>3, <3>1, DrawerIsInTurn
    <3>. QED
      BY <2>3, <3>2
  <2> HIDE DEF InOrder
  <2>4. ASSUME NEW s \in Seats, NEW t \in Tiles, Chu(s, t) PROVE InOrder(x)
    <3>1. PICK q : q = HandlerChu(tbl, s, t)
      OBVIOUS
    <3>2. /\ RoundInv(tbl) /\ tbl.phase = "betting" /\ s = tbl.cur_seat
          /\ t \in Tiles /\ tbl.holes[s][t] > 0 /\ HasExtraTile(tbl, s)
          /\ q = HandlerChu(tbl, s, t)
      BY <1>1, <2>4, <3>1 DEF Chu, Betting
    <3>3. /\ Handled(q) /\ Size(q, s) <= Size(tbl, s)
          /\ \A y \in Seats \ {s} : Size(q, y) = Size(tbl, y)
          /\ q.last_action = "CHU"
      BY ONLY <3>2, ChuIsHandled
    <3>4. Size(q, x) <= Size(tbl, x)
      BY <2>2, <3>3
    <3>5. tbl' \in CountNextBet(q)
      BY <2>4, <3>1 DEF Chu
    <3>. QED
      BY <2>3, <3>3, <3>4, <3>5
  <2>5. ASSUME NEW s \in Seats, Peng(s) PROVE InOrder(x)
    <3>1. /\ RoundInv(tbl) /\ tbl.phase = "betting" /\ s = tbl.cur_seat
          /\ "PENG" \in tbl.actions /\ tbl' \in StartNextBet(HandlerPeng(tbl, s))
      BY <1>1, <2>5 DEF Peng, Betting
    <3>2. /\ RoundInv(tbl') /\ \A y \in Seats : Size(tbl', y) <= Size(tbl, y)
      BY ONLY <3>1, PengKeeps
    <3>3. Size(tbl', x) \in Nat
      BY <3>2, HandFacts DEF RoundInv
    <3>. QED
      BY <2>1, <2>2, <3>2, <3>3
  <2>6. ASSUME NEW s \in Seats, NEW g, Gang(s, g) PROVE InOrder(x)
    <3>1. PICK q : q = HandlerGang(tbl, s, g)
      OBVIOUS
    <3>2. /\ RoundInv(tbl) /\ tbl.phase = "betting" /\ s = tbl.cur_seat
          /\ "GANG" \in tbl.actions
          /\ IF HasExtraTile(tbl, s) THEN g \in OwnGangs(tbl, s)
             ELSE g = [tile |-> tbl.last_card, flag |-> 0]
          /\ q = HandlerGang(tbl, s, g)
      BY <1>1, <2>6, <3>1 DEF Gang, Betting
    <3>3. /\ Handled(q) /\ Size(q, s) <= Size(tbl, s)
          /\ \A y \in Seats \ {s} : Size(q, y) = Size(tbl, y)
      BY ONLY <3>2, GangIsHandled
    <3>4. /\ g \in [tile : Tiles, flag : {0, 1, 3}] /\ CanLayDown(tbl, s, g)
      BY ONLY <3>2, OfferedGang
    <3>5. /\ Table(tbl) /\ s \in Seats /\ g \in [tile : Tiles, flag : {0, 1, 3}]
          /\ g.flag = 0 => tbl.chu_seat \in Seats
          /\ q = HandlerGang(tbl, s, g)
      BY <1>1, <3>1, <3>4 DEF RoundInv, CanLayDown
    <3>6. GangOutcome(tbl, q, s, g)
      BY ONLY <3>5, GangFacts
    <3>7. q.last_action = "GANG"
      BY <3>6 DEF GangOutcome
    <3>8. Size(q, x) <= Size(tbl, x)
      BY <2>2, <3>3
    <3>9. tbl' \in CountNextBet(q)
      BY <2>6, <3>1 DEF Gang
    <3>. QED
      BY <2>3, <3>3, <3>7, <3>8, <3>9
  <2>7. ASSUME NEW s \in Seats, Guo(s) PROVE InOrder(x)
    <3>1. PICK q : q = HandlerGuo(tbl, s)
      OBVIOUS
    <3>2. /\ RoundInv(tbl) /\ tbl.phase = "betting" /\ s = tbl.cur_seat
          /\ "GUO" \in tbl.actions /\ q = HandlerGuo(tbl, s)
      BY <1>1, <2>7, <3>1 DEF Guo, Betting
    <3>3. CASE HasExtraTile(tbl, s)
      <4>1. \A y : Size(q, y) = Size(tbl, y)
        BY ONLY <3>2, <3>3, GuoOnOwnTurn
      <4>2. tbl' = q
        BY <2>7, <3>1, <3>3 DEF Guo
      <4>. QED
        BY <2>1, <2>2, <4>1, <4>2
    <3>4. CASE ~ HasExtraTile(tbl, s)
      <4>1. Handled(q) /\ \A y \in Seats : Size(q, y) = Size(tbl, y)
        BY ONLY <3>2, <3>4, GuoIsHandled
      <4>2. /\ Same(q, tbl, {"last_action", "pao_hu_seat", "pao_hu_flag", "gang_hu_seat",
                             "gang_hu_flag", "guo_hu", "guo_peng", "handler_flag"})
            /\ \A y \in Seats \ {s} : q.guo_peng[y] = tbl.guo_peng[y]
        BY ONLY <3>2, GuoKeepsHands
      <4>3. q.cur_seat = tbl.cur_seat /\ q.last_card = tbl.last_card
        BY <4>2 DEF Same
      <4>4. Size(q, x) <= Size(tbl, x)
        BY <2>2, <4>1
      <4>5. tbl' \in CountNextBet(q)
        BY <2>7, <3>1, <3>4 DEF Guo
      <4>. QED
        BY <2>3, <3>2, <4>1, <4>2, <4>3, <4>4, <4>5
    <3>. QED
      BY <3>3, <3>4
  <2>8. ASSUME NEW s \in Seats, NEW t \in Tiles, Ting(s, t) PROVE InOrder(x)
    <3>1. PICK q : q = HandlerTing(tbl, s, t)
      OBVIOUS
    <3>2. /\ RoundInv(tbl) /\ tbl.phase = "betting" /\ s = tbl.cur_seat
          /\ t \in Tiles /\ tbl.holes[s][t] > 0 /\ "TING" \in tbl.actions
          /\ q = HandlerTing(tbl, s, t)
      BY <1>1, <2>8, <3>1 DEF Ting, Betting
    <3>3. /\ Handled(q) /\ Size(q, s) <= Size(tbl, s)
          /\ \A y \in Seats \ {s} : Size(q, y) = Size(tbl, y)
          /\ q.last_action = "TING"
      BY ONLY <3>2, TingIsHandled
    <3>4. Size(q, x) <= Size(tbl, x)
      BY <2>2, <3>3
    <3>5. tbl' \in CountNextBet(q)
      BY <2>8, <3>1 DEF Ting
    <3>. QED
      BY <2>3, <3>3, <3>4, <3>5
  <2>9. ASSUME NEW s \in Seats, Hu(s) PROVE InOrder(x)
    <3>1. /\ RoundInv(tbl) /\ tbl.phase = "betting" /\ s = tbl.cur_seat
          /\ tbl' = HandlerHu(tbl, s)
      BY <1>1, <2>9 DEF Hu, Betting
    <3>2. \A y : Size(tbl', y) = Size(tbl, y)
      BY ONLY <3>1, HuKeeps
    <3>. QED
      BY <2>1, <2>2, <3>2
  <2>10. ASSUME NEW s \in Seats, Cancel(s) PROVE InOrder(x)
    <3>1. /\ RoundInv(tbl) /\ tbl.phase = "betting" /\ s = tbl.cur_seat
          /\ tbl' = [tbl EXCEPT !.last_action = "CANCEL", !.ting = tbl.ting \ {s}]
      BY <1>1, <2>10 DEF Cancel, Betting
    <3>2. tbl'.holes = tbl.holes
      BY <3>1, FieldNames DEF RoundInv, Table, IsTable
    <3>. QED
      BY <2>1, <2>2, <3>2 DEF Size
  <2>11. CASE Over
    BY <2>1, <2>2, <2>11 DEF Over
  <2>. QED
    BY <1>1, <2>4, <2>5, <2>6, <2>7, <2>8, <2>9, <2>10, <2>11 DEF Next
<1>2. RoundInv(tbl) /\ [Next]_tbl => [\A s \in Seats : Drew(s) => InOrder(s)]_tbl
  BY <1>1
<1>. QED
  BY HandIsInOrder, <1>2, PTL DEF Spec, DrawsInTurn

=============================================================================
