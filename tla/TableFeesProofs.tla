--------------------------- MODULE TableFeesProofs ---------------------------
(***************************************************************************)
(* A table is paid for once, by whoever is to pay for it, is listed as it  *)
(* is, and its timer never meets a hand, for any players, seats and hands. *)
(*                                                                         *)
(* That cleaning leaves nobody charged who is not to pay depends on the    *)
(* way the table was created and on everything done to it since.  Accounts *)
(* says what has been charged so far at a table in use; Course says that a *)
(* table that is closing gives its fee back exactly if no hand was played  *)
(* to its end.  Red packets, at the end, are counted with the sums of      *)
(* SumProofs.                                                              *)
(***************************************************************************)
EXTENDS TableFees, SumProofs

TableType ==
  [stage : {"free", "waiting", "playing", "between", "closing"}, way : Ways,
   players : SUBSET Players, owner_uid : Payers \cup {Nobody},
   origin_owner_uid : Players \cup {Nobody},
   round_count : 0 .. MaxPlayBoard, max_ready_players : 2 .. SeatMax,
   transfer_flag : BOOLEAN, game_end_count_flag : BOOLEAN, need_return_diamo : BOOLEAN,
   fee_timer : BOOLEAN,
   entry : [key : Payers \cup {Nobody}, size : Nat, status : {0, 1}],
   auto_room : SUBSET AutoRooms,
   charged : [Payers -> Int], every : [Payers -> Int],
   creator : Payers \cup {Nobody}, finished : BOOLEAN, transfers : 0 .. MaxTransfers]

\* Where the table is in its round, and what its flags say of it.
Course(t) ==
  /\ t.stage \in {"free", "waiting"} <=> t.round_count = 0
  /\ t.stage = "waiting" => ~ t.finished
  /\ t.stage # "closing" => ~ t.need_return_diamo
  /\ t.stage = "closing" => t.need_return_diamo = ~ t.finished
  /\ t.stage \in {"waiting", "playing"} => t.game_end_count_flag = t.finished
  /\ t.stage = "between" => t.game_end_count_flag /\ t.finished
  /\ t.stage = "free" => t.players = {} /\ ~ t.transfer_flag

Timed(t) == t.fee_timer <=> t.stage = "waiting" /\ ~ Own(t) /\ ~ IsAuto(t)

Listed(t) ==
  /\ ~ Moved(t) =>
       t.entry = IF t.stage = "free" \/ Own(t) THEN NoEntry
                 ELSE [key |-> t.creator, size |-> Cardinality(t.players),
                       status |-> IF t.round_count = 0 THEN 0 ELSE 1]
  /\ t.auto_room = IF t.stage = "waiting" /\ IsAuto(t) THEN {t.way.auto_flag} ELSE {}

Only(x) == [y \in Payers |-> IF y = x THEN 1 ELSE 0]

\* Who the table belongs to.
Owners(t) ==
  t.stage # "free" =>
    /\ t.transfer_flag <=> t.transfers > 0
    /\ t.creator \in Payers /\ t.owner_uid \in Payers
    /\ IsAuto(t) <=> t.creator = Club
    /\ ~ t.transfer_flag => t.owner_uid = t.creator
    /\ IsAuto(t) => t.owner_uid = Club
    /\ Own(t) => t.origin_owner_uid = t.creator
    /\ t.transfer_flag => t.way.kind # "substitute" /\ t.way.cost_select_flag = 1

\* Who was charged so far.
Accounts(t) ==
  t.stage # "free" =>
    /\ Own(t) => t.charged = IF t.transfer_flag THEN Only(t.creator) ELSE NoCharge
    /\ ~ Own(t) /\ ~ Moved(t) =>
         /\ t.charged = Only(IF t.way.kind = "club" /\ t.way.rmb_cost = 0 THEN Club ELSE t.creator)
         /\ t.way.kind = "club" /\ ~ IsAuto(t) => t.every[t.creator] = 1

TableInv(t) ==
  t \in TableType /\ Course(t) /\ Timed(t) /\ Listed(t) /\ Owners(t) /\ Accounts(t)

-----------------------------------------------------------------------------
(* Ways to create a table, players and accounts.                           *)

LEMMA WayFacts ==
  ASSUME NEW w \in Ways
  PROVE  /\ w.kind \in {"own", "substitute", "club"}
         /\ w.cost_select_flag \in {1, 2} /\ w.rmb_cost \in {0, 1}
         /\ w.auto_flag \in {0} \cup AutoRooms /\ w.auto_flag \in Int
         /\ w.kind # "own" => w.cost_select_flag = 1
         /\ w.auto_flag # NoAutoFlag => w.kind = "club" /\ w.rmb_cost = 0
BY TableFeesAssumption DEF Ways, NoAutoFlag

LEMMA CountPlayers ==
  ASSUME NEW S \in SUBSET Players, NEW p \in Players
  PROVE  /\ Cardinality(S) \in Nat /\ Cardinality({}) = 0
         /\ p \in S => Cardinality(S) > 0
         /\ p \notin S => Cardinality(S \cup {p}) = Cardinality(S) + 1
<1>1. IsFiniteSet(S)
  BY RedPacketsAssumption, FS_Subset
<1>2. Cardinality(S) \in Nat
  BY <1>1, FS_CardinalityType
<1>3. Cardinality(S) = 0 <=> S = {}
  BY <1>1, FS_EmptySet
<1>. QED
  BY <1>1, <1>2, <1>3, FS_AddElement, FS_EmptySet

\* What changes nothing of a table but its accounts.
SameTable(t, u) ==
  /\ u \in TableType
  /\ u.stage = t.stage /\ u.way = t.way /\ u.players = t.players
  /\ u.owner_uid = t.owner_uid /\ u.origin_owner_uid = t.origin_owner_uid
  /\ u.round_count = t.round_count /\ u.max_ready_players = t.max_ready_players
  /\ u.transfer_flag = t.transfer_flag /\ u.game_end_count_flag = t.game_end_count_flag
  /\ u.need_return_diamo = t.need_return_diamo /\ u.fee_timer = t.fee_timer
  /\ u.entry = t.entry /\ u.auto_room = t.auto_room
  /\ u.creator = t.creator /\ u.finished = t.finished /\ u.transfers = t.transfers

LEMMA AddAtOne ==
  ASSUME NEW f \in [Payers -> Int], NEW x, NEW v \in Int
  PROVE  LET c == [f EXCEPT ![x] = @ + v]
         IN  /\ c \in [Payers -> Int]
             /\ \A y \in Payers : c[y] = IF y = x THEN f[y] + v ELSE f[y]
<1>1. CASE x \in Payers
  BY <1>1
<1>2. CASE x \notin Payers
  BY <1>2
<1>. QED
  BY <1>1, <1>2

LEMMA ChargeFacts ==
  ASSUME NEW t \in TableType, NEW x, NEW v \in Int
  PROVE  /\ SameTable(t, Charge(t, x, v)) /\ Charge(t, x, v).every = t.every
         /\ \A y \in Payers :
              Charge(t, x, v).charged[y] = IF y = x THEN t.charged[y] + v ELSE t.charged[y]
<1> DEFINE c == [t.charged EXCEPT ![x] = @ + v]
<1>0. t.charged \in [Payers -> Int]
  BY DEF TableType
<1>1. c \in [Payers -> Int] /\ \A y \in Payers : c[y] = IF y = x THEN t.charged[y] + v ELSE t.charged[y]
  BY <1>0, AddAtOne
<1>2. Charge(t, x, v) = [t EXCEPT !.charged = c]
  BY DEF Charge
<1> HIDE DEF c
<1>3. SameTable(t, [t EXCEPT !.charged = c]) /\ [t EXCEPT !.charged = c].charged = c
      /\ [t EXCEPT !.charged = c].every = t.every
  BY <1>1 DEF TableType, SameTable
<1>. QED
  BY <1>1, <1>2, <1>3

LEMMA CountFacts ==
  ASSUME NEW t \in TableType, NEW x, NEW v \in Int
  PROVE  /\ SameTable(t, Count(t, x, v)) /\ Count(t, x, v).charged = t.charged
         /\ \A y \in Payers :
              Count(t, x, v).every[y] = IF y = x THEN t.every[y] + v ELSE t.every[y]
<1> DEFINE c == [t.every EXCEPT ![x] = @ + v]
<1>0. t.every \in [Payers -> Int]
  BY DEF TableType
<1>1. c \in [Payers -> Int] /\ \A y \in Payers : c[y] = IF y = x THEN t.every[y] + v ELSE t.every[y]
  BY <1>0, AddAtOne
<1>2. Count(t, x, v) = [t EXCEPT !.every = c]
  BY DEF Count
<1> HIDE DEF c
<1>3. SameTable(t, [t EXCEPT !.every = c]) /\ [t EXCEPT !.every = c].every = c
      /\ [t EXCEPT !.every = c].charged = t.charged
  BY <1>1 DEF TableType, SameTable
<1>. QED
  BY <1>1, <1>2, <1>3

LEMMA SameTableTransitive ==
  ASSUME NEW t, NEW u, NEW w, SameTable(t, u), SameTable(u, w)
  PROVE  SameTable(t, w)
BY DEF SameTable

\* clean_table gives back what was paid ahead for a table nobody played at.
LEMMA RefundFacts ==
  ASSUME NEW t \in TableType
  PROVE  /\ SameTable(t, Refund(t))
         /\ ~ Refundable(t) \/ Own(t) => Refund(t) = t
         /\ Refundable(t) /\ ~ Own(t) =>
              LET x == IF t.way.kind = "club" /\ t.way.rmb_cost = 0 THEN Club ELSE t.owner_uid
                  c == t.way.kind = "club" /\ t.way.rmb_cost = 0 /\ ~ IsAuto(t)
              IN  \A y \in Payers :
                    /\ Refund(t).charged[y] = t.charged[y] - (IF y = x THEN 1 ELSE 0)
                    /\ Refund(t).every[y] = t.every[y] - (IF c /\ y = t.owner_uid THEN 1 ELSE 0)
<1>1. CASE ~ Refundable(t) \/ Own(t)
  BY <1>1 DEF Refund, SameTable, Own
<1>2. CASE Refundable(t) /\ t.way.kind = "substitute"
  BY <1>2, ChargeFacts DEF Refund, SameTable, Own, TableType
<1>3. CASE Refundable(t) /\ t.way.kind = "club" /\ IsAuto(t)
  BY <1>3, ChargeFacts, WayFacts DEF Refund, SameTable, Own, IsAuto, TableType
<1>4. CASE Refundable(t) /\ t.way.kind = "club" /\ ~ IsAuto(t) /\ t.way.rmb_cost = 0
  <2> DEFINE u == Count(t, t.owner_uid, -1)
  <2>1. Refund(t) = Charge(u, Club, -1)
    BY <1>4 DEF Refund, Own
  <2>2. SameTable(t, u) /\ u.charged = t.charged
    BY CountFacts
  <2>3. SameTable(u, Charge(u, Club, -1)) /\ Charge(u, Club, -1).every = u.every
    BY <2>2, ChargeFacts DEF SameTable
  <2>. QED
    BY <1>4, <2>1, <2>2, <2>3, ChargeFacts, CountFacts, SameTableTransitive DEF SameTable, Own, TableType
<1>5. CASE Refundable(t) /\ t.way.kind = "club" /\ ~ IsAuto(t) /\ t.way.rmb_cost # 0
  BY <1>5, ChargeFacts DEF Refund, SameTable, Own, TableType
<1>. QED
  BY <1>1, <1>2, <1>3, <1>4, <1>5, WayFacts DEF Own, TableType

\* Who pays for a player's own table when it is cleaned.
PaysAtTheEnd(t) ==
  IF t.way.cost_select_flag = 1 THEN {t.owner_uid} ELSE t.players

LEMMA CreateTableCostFacts ==
  ASSUME NEW t \in TableType
  PROVE  /\ SameTable(t, CreateTableCost(t)) /\ CreateTableCost(t).every = t.every
         /\ \A y \in Payers : CreateTableCost(t).charged[y] =
              t.charged[y] + (IF y \in PaysAtTheEnd(t) THEN 1 ELSE 0)
<1>1. CASE t.way.cost_select_flag = 1
  BY <1>1, ChargeFacts DEF CreateTableCost, PaysAtTheEnd, TableType
<1>2. CASE t.way.cost_select_flag # 1
  <2> DEFINE c == [x \in Payers |-> IF x \in t.players THEN t.charged[x] + 1 ELSE t.charged[x]]
  <2>1. c \in [Payers -> Int]
    BY DEF TableType
  <2>2. CreateTableCost(t) = [t EXCEPT !.charged = c]
    BY <1>2 DEF CreateTableCost, TableType
  <2>3. \A y \in Payers : c[y] = t.charged[y] + (IF y \in PaysAtTheEnd(t) THEN 1 ELSE 0)
    BY <1>2 DEF PaysAtTheEnd, TableType
  <2> HIDE DEF c
  <2>. QED
    BY <2>1, <2>2, <2>3 DEF SameTable, TableType
<1>. QED
  BY <1>1, <1>2

\* What is left to be paid, or given back, for a player's own table.
LEMMA SettleFacts ==
  ASSUME NEW t \in TableType
  PROVE  /\ SameTable(t, Settle(t)) /\ Settle(t).every = t.every
         /\ t.round_count = 0 \/ ~ Own(t) => Settle(t) = t
         /\ Own(t) /\ t.round_count > 0 => \A y \in Payers : Settle(t).charged[y] =
              t.charged[y]
                + (IF ~ t.transfer_flag /\ ~ t.need_return_diamo /\ y \in PaysAtTheEnd(t) THEN 1 ELSE 0)
                - (IF t.transfer_flag /\ t.need_return_diamo /\ y = t.origin_owner_uid THEN 1 ELSE 0)
<1>1. CASE t.round_count > 0 /\ Own(t) /\ ~ t.transfer_flag /\ ~ t.need_return_diamo
  BY <1>1, CreateTableCostFacts DEF Settle, TableType
<1>2. CASE t.round_count > 0 /\ Own(t) /\ t.transfer_flag /\ t.need_return_diamo
  BY <1>2, ChargeFacts DEF Settle, TableType
<1>3. CASE /\ ~ (t.round_count > 0 /\ Own(t) /\ ~ t.transfer_flag /\ ~ t.need_return_diamo)
           /\ ~ (t.round_count > 0 /\ Own(t) /\ t.transfer_flag /\ t.need_return_diamo)
  BY <1>3 DEF Settle, SameTable, TableType
<1>. QED
  BY <1>1, <1>2, <1>3

\* What changes neither the accounts nor the list.
SameAccounts(t, u) ==
  /\ u \in TableType /\ u.charged = t.charged /\ u.every = t.every
  /\ u.way = t.way /\ u.creator = t.creator /\ u.finished = t.finished
  /\ u.transfers = t.transfers /\ u.entry = t.entry /\ u.auto_room = t.auto_room

LEMMA CleanedFacts ==
  ASSUME NEW t \in TableType
  PROVE  LET c == Cleaned(t)
         IN  /\ c \in TableType /\ c.charged = t.charged /\ c.every = t.every
             /\ c.stage = "free" /\ c.round_count = 0 /\ ~ c.fee_timer
             /\ c.players = {} /\ ~ c.transfer_flag /\ ~ c.need_return_diamo
             /\ ~ c.game_end_count_flag
             /\ c.way = t.way /\ c.creator = t.creator /\ c.finished = t.finished
             /\ c.transfers = t.transfers /\ c.entry = t.entry /\ c.auto_room = t.auto_room
<1>0. /\ Nobody \in Payers \cup {Nobody} /\ Nobody \in Players \cup {Nobody}
      /\ SeatMax \in 2 .. SeatMax /\ 0 \in 0 .. MaxPlayBoard /\ {} \in SUBSET Players
      /\ "free" \in {"free", "waiting", "playing", "between", "closing"}
  BY TableFeesAssumption
<1> DEFINE a == [t EXCEPT !.stage = "free", !.players = {}]
           b == [a EXCEPT !.owner_uid = Nobody, !.origin_owner_uid = Nobody]
           c == [b EXCEPT !.round_count = 0, !.max_ready_players = SeatMax]
           d == [c EXCEPT !.transfer_flag = FALSE]
           g == [d EXCEPT !.game_end_count_flag = FALSE]
           e == [g EXCEPT !.need_return_diamo = FALSE, !.fee_timer = FALSE]
<1>1. Cleaned(t) = e
  BY DEF Cleaned, TableType
<1>2. SameAccounts(t, a) /\ a.stage = "free" /\ a.players = {}
  BY <1>0 DEF TableType, SameAccounts
<1> HIDE DEF a
<1>3. SameAccounts(a, b) /\ b.stage = a.stage /\ b.players = a.players
  BY <1>0, <1>2 DEF TableType, SameAccounts
<1> HIDE DEF b
<1>4. SameAccounts(b, c) /\ c.stage = b.stage /\ c.players = b.players /\ c.round_count = 0
  BY <1>0, <1>3 DEF TableType, SameAccounts
<1> HIDE DEF c
<1>5. c \in TableType
  BY <1>4 DEF SameAccounts
<1>6. /\ SameAccounts(c, d) /\ d.stage = c.stage /\ d.players = c.players
      /\ d.round_count = c.round_count /\ ~ d.transfer_flag
  BY <1>5 DEF TableType, SameAccounts
<1> HIDE DEF d
<1>7. /\ SameAccounts(d, g) /\ g.stage = d.stage /\ g.players = d.players
      /\ g.round_count = d.round_count /\ ~ g.transfer_flag /\ ~ g.game_end_count_flag
  BY <1>6 DEF TableType, SameAccounts
<1> HIDE DEF g
<1>8. /\ SameAccounts(g, e) /\ e.stage = g.stage /\ e.players = g.players
      /\ e.round_count = g.round_count /\ ~ e.transfer_flag /\ ~ e.game_end_count_flag
      /\ ~ e.need_return_diamo /\ ~ e.fee_timer
  BY <1>7 DEF TableType, SameAccounts
<1> HIDE DEF e
<1>. QED
  BY <1>1, <1>2, <1>3, <1>4, <1>6, <1>7, <1>8 DEF SameAccounts

\* A cleaned table is free, unlisted and without its timer; what it cost is
\* what was settled.
LEMMA CleanTableFacts ==
  ASSUME NEW t \in TableType, CleanTable(t)
  PROVE  LET u == Settle(Refund(t))
         IN  /\ table' \in TableType
             /\ table'.charged = u.charged /\ table'.every = u.every
             /\ table'.stage = "free" /\ table'.round_count = 0 /\ ~ table'.fee_timer
             /\ table'.players = {} /\ ~ table'.transfer_flag /\ ~ table'.need_return_diamo
             /\ ~ table'.game_end_count_flag
             /\ table'.way = t.way /\ table'.creator = t.creator
             /\ table'.finished = t.finished /\ table'.transfers = t.transfers
             /\ table'.entry = IF Found(t) THEN NoEntry ELSE t.entry
             /\ table'.auto_room = IF t.round_count = 0 THEN t.auto_room \ {t.way.auto_flag} ELSE t.auto_room
<1> DEFINE paid == Settle(Refund(t))
           free == IF t.round_count = 0 THEN AutoRoomOff(paid) ELSE paid
           left == [free EXCEPT !.players = {}]
           counted == CountAgain(left)
           gone == Unlist(counted)
<1>1. SameTable(t, paid)
  BY RefundFacts, SettleFacts, SameTableTransitive DEF SameTable
<1>2. table' = Cleaned(gone)
  BY DEF CleanTable
<1> HIDE DEF paid
<1>3. /\ free \in TableType /\ free.charged = paid.charged /\ free.every = paid.every
      /\ free.way = t.way /\ free.creator = t.creator /\ free.finished = t.finished
      /\ free.transfers = t.transfers /\ free.entry = t.entry /\ free.owner_uid = t.owner_uid
      /\ free.auto_room = IF t.round_count = 0 THEN t.auto_room \ {t.way.auto_flag} ELSE t.auto_room
  BY <1>1 DEF SameTable, TableType, AutoRoomOff
<1> HIDE DEF free
<1>4. /\ left \in TableType /\ left.charged = paid.charged /\ left.every = paid.every
      /\ left.way = t.way /\ left.creator = t.creator /\ left.finished = t.finished
      /\ left.transfers = t.transfers /\ left.entry = t.entry /\ left.owner_uid = t.owner_uid
      /\ left.auto_room = free.auto_room /\ left.players = {}
  BY <1>3 DEF TableType
<1> HIDE DEF left
<1>5. /\ counted \in TableType /\ counted.charged = paid.charged /\ counted.every = paid.every
      /\ counted.way = t.way /\ counted.creator = t.creator /\ counted.finished = t.finished
      /\ counted.transfers = t.transfers /\ counted.entry.key = t.entry.key
      /\ counted.owner_uid = t.owner_uid /\ counted.auto_room = free.auto_room
      /\ ~ Found(t) => counted.entry = t.entry
  BY <1>4, FS_EmptySet DEF TableType, CountAgain, Found
<1> HIDE DEF counted
<1>6. /\ gone \in TableType /\ gone.charged = paid.charged /\ gone.every = paid.every
      /\ gone.way = t.way /\ gone.creator = t.creator /\ gone.finished = t.finished
      /\ gone.transfers = t.transfers /\ gone.auto_room = free.auto_room
      /\ gone.entry = IF Found(t) THEN NoEntry ELSE t.entry
  BY <1>5 DEF TableType, Unlist, Found, NoEntry
<1> HIDE DEF gone
<1>. QED
  BY <1>2, <1>3, <1>6, CleanedFacts DEF paid

-----------------------------------------------------------------------------
(* Cleaning keeps the invariant, and settles the accounts.                 *)

\* Who is to pay has paid once if a hand was finished, nobody else anything.
PaidFor(t, u) ==
  /\ \A x \in Payers : u.charged[x] = IF t.finished /\ x \in PaysFor(t) THEN 1 ELSE 0
  /\ t.way.kind = "club" /\ ~ IsAuto(t) /\ t.way.rmb_cost = 0 =>
       u.every[t.creator] = u.charged[Club]

\* From a table whose accounts are as they should be, at any moment a table is
\* cleaned: before the first hand, or when it is closing.
LEMMA CleaningPays ==
  ASSUME NEW t \in TableType, Course(t), Owners(t), Accounts(t), t.stage \in {"waiting", "closing"}, ~ Moved(t),
         t.stage = "waiting" => ~ (Own(t) /\ t.transfer_flag)
  PROVE  PaidFor(t, Settle(Refund(t)))
<1> DEFINE r == Refund(t)
           u == Settle(r)
<1>1. /\ t \in TableType /\ t.way \in Ways /\ t.creator \in Payers
      /\ t.charged \in [Payers -> Int] /\ t.every \in [Payers -> Int]
  BY DEF TableType, Owners
<1>2. Refundable(t) <=> ~ t.finished
  BY DEF Course, Refundable, TableType
<1>3. SameTable(t, r) /\ SameTable(r, u)
  BY <1>1, RefundFacts, SettleFacts DEF SameTable
<1>4. CASE Own(t)
  <2>1. r = t
    BY <1>1, <1>4, RefundFacts
  <2>2. /\ t.charged = IF t.transfer_flag THEN Only(t.creator) ELSE NoCharge
        /\ ~ t.transfer_flag => t.owner_uid = t.creator
        /\ t.transfer_flag => t.way.cost_select_flag = 1
        /\ t.origin_owner_uid = t.creator
    BY <1>4 DEF Accounts, Owners
  <2>3. t.way.kind = "own" /\ PaysFor(t) = IF t.way.cost_select_flag = 2 THEN t.players ELSE {t.creator}
    BY <1>4 DEF Own, PaysFor
  <2>4. CASE t.stage = "waiting"
    <3>1. ~ t.transfer_flag /\ ~ t.finished /\ t.round_count = 0
      BY <1>4, <2>4 DEF Course
    <3>. QED
      BY <1>1, <2>1, <2>2, <2>3, <3>1, SettleFacts DEF PaidFor, NoCharge
  <2>5. CASE t.stage = "closing"
    <3>1. /\ t.round_count > 0 /\ t.need_return_diamo = ~ t.finished
           /\ t.need_return_diamo \in BOOLEAN /\ t.finished \in BOOLEAN
      BY <2>5 DEF Course, TableType
    <3>2. \A y \in Payers : u.charged[y] =
            t.charged[y]
              + (IF ~ t.transfer_flag /\ t.finished /\ y \in PaysAtTheEnd(t) THEN 1 ELSE 0)
              - (IF t.transfer_flag /\ ~ t.finished /\ y = t.creator THEN 1 ELSE 0)
      <4>1. \A y \in Payers : Settle(t).charged[y] =
              t.charged[y]
                + (IF ~ t.transfer_flag /\ ~ t.need_return_diamo /\ y \in PaysAtTheEnd(t) THEN 1 ELSE 0)
                - (IF t.transfer_flag /\ t.need_return_diamo /\ y = t.origin_owner_uid THEN 1 ELSE 0)
        BY <1>1, <1>4, <3>1, SettleFacts
      <4>2. (t.need_return_diamo <=> ~ t.finished) /\ u = Settle(t)
        BY <2>1, <3>1
      <4>. QED
        BY <2>2, <4>1, <4>2
    <3>3. ~ t.transfer_flag => PaysAtTheEnd(t) = PaysFor(t)
      <4>1. t.way.cost_select_flag \in {1, 2}
        BY <1>1, WayFacts
      <4>. QED
        BY <2>2, <2>3, <4>1 DEF PaysAtTheEnd
    <3>4. t.transfer_flag => PaysFor(t) = {t.creator}
      BY <2>2, <2>3
    <3>. QED
      BY <2>2, <2>3, <3>2, <3>3, <3>4 DEF PaidFor, NoCharge, Only
  <2>. QED
    BY <2>4, <2>5
<1>5. CASE ~ Own(t)
  <2> DEFINE x == IF t.way.kind = "club" /\ t.way.rmb_cost = 0 THEN Club ELSE t.creator
  <2>1. /\ t.charged = Only(x)
        /\ t.way.kind = "club" /\ ~ IsAuto(t) => t.every[t.creator] = 1
        /\ t.owner_uid = t.creator
    <3>1. ~ t.transfer_flag
      BY <1>1, <1>5, WayFacts DEF Owners, Moved, Own, TableType
    <3>. QED
      BY <1>5, <3>1 DEF Accounts, Owners
  <2>2. u = r
    BY <1>3, <1>5, SettleFacts DEF SameTable, Own
  <2>3. PaysFor(t) = {x} /\ x \in Payers
    BY <1>1, <1>5 DEF PaysFor, Own, Payers
  <2>4. CASE t.finished
    BY <1>1, <1>2, <2>1, <2>2, <2>3, <2>4, RefundFacts, TableFeesAssumption DEF PaidFor, Only, IsAuto, Payers
  <2>5. CASE ~ t.finished
    BY <1>1, <1>2, <1>5, <2>1, <2>2, <2>3, <2>5, RefundFacts DEF PaidFor, Only
  <2>. QED
    BY <2>4, <2>5
<1>. QED
  BY <1>4, <1>5

\* What a table is like when clean_table is called.
Cleanable(t) ==
  /\ t \in TableType /\ Listed(t) /\ Owners(t)
  /\ t.stage \in {"waiting", "closing"}
  /\ t.stage = "waiting" <=> t.round_count = 0

LEMMA CleaningKeeps ==
  ASSUME NEW t, Cleanable(t), CleanTable(t)
  PROVE  TableInv(table')
<1>1. /\ table' \in TableType
      /\ table'.stage = "free" /\ table'.round_count = 0 /\ ~ table'.fee_timer
      /\ table'.players = {} /\ ~ table'.transfer_flag /\ ~ table'.need_return_diamo
      /\ table'.way = t.way /\ table'.creator = t.creator /\ table'.transfers = t.transfers
      /\ table'.entry = IF Found(t) THEN NoEntry ELSE t.entry
      /\ table'.auto_room = IF t.round_count = 0 THEN t.auto_room \ {t.way.auto_flag} ELSE t.auto_room
  BY CleanTableFacts DEF Cleanable
<1>2. Course(table') /\ Timed(table') /\ Owners(table') /\ Accounts(table')
  BY <1>1 DEF Course, Timed, Owners, Accounts
<1>3. ~ Moved(t) => table'.entry = NoEntry
  <2>1. CASE Own(t)
    BY <1>1, <2>1 DEF Cleanable, Listed
  <2>2. CASE ~ Own(t) /\ ~ Moved(t)
    <3>1. t.entry.key = t.creator /\ t.creator \in Payers
      BY <2>2 DEF Cleanable, Listed, Owners
    <3>2. ~ t.transfer_flag
      BY <2>2, WayFacts DEF Cleanable, Owners, Moved, Own, TableType
    <3>3. t.owner_uid = t.creator
      BY <3>2 DEF Cleanable, Owners
    <3>. QED
      BY <1>1, <3>1, <3>3, TableFeesAssumption DEF Found, Payers
  <2>. QED
    BY <2>1, <2>2
<1>4. table'.auto_room = {}
  BY <1>1 DEF Cleanable, Listed
<1>5. Listed(table')
  BY <1>1, <1>3, <1>4 DEF Listed, Moved
<1>. QED
  BY <1>1, <1>2, <1>5 DEF TableInv

LEMMA CleanableFacts ==
  ASSUME NEW t, TableInv(t), t.stage \in {"waiting", "closing"}
  PROVE  Cleanable(t)
BY DEF TableInv, Course, Cleanable

LEMMA PrereadyCleans ==
  ASSUME TableInv(table), Preready
  PROVE  /\ TableInv(table')
         /\ ~ Moved(table) => PaidFor(table, table')
<1>1. Cleanable(table) /\ CleanTable(table)
  BY CleanableFacts DEF Preready
<1>2. ~ Moved(table) => PaidFor(table, Settle(Refund(table)))
  BY CleaningPays DEF TableInv, Preready
<1>3. /\ table'.charged = Settle(Refund(table)).charged
      /\ table'.every = Settle(Refund(table)).every
  BY <1>1, CleanTableFacts DEF Cleanable
<1>. QED
  BY <1>1, <1>2, <1>3, CleaningKeeps DEF PaidFor

LEMMA FeeTimerCleans ==
  ASSUME TableInv(table), FeeTimer
  PROVE  /\ TableInv(table')
         /\ ~ Moved(table) => PaidFor(table, table')
<1> DEFINE t == [table EXCEPT !.fee_timer = FALSE]
<1>1. /\ t \in TableType /\ CleanTable(t)
      /\ t.stage = table.stage /\ t.way = table.way /\ t.players = table.players
      /\ t.owner_uid = table.owner_uid /\ t.origin_owner_uid = table.origin_owner_uid
      /\ t.round_count = table.round_count /\ t.transfer_flag = table.transfer_flag
      /\ t.game_end_count_flag = table.game_end_count_flag
      /\ t.need_return_diamo = table.need_return_diamo
      /\ t.entry = table.entry /\ t.auto_room = table.auto_room
      /\ t.creator = table.creator /\ t.finished = table.finished /\ t.transfers = table.transfers
      /\ t.charged = table.charged /\ t.every = table.every
  BY DEF TableInv, TableType, FeeTimer
<1>2. table.stage = "waiting" /\ ~ Own(table)
  BY DEF TableInv, Timed, FeeTimer
<1> HIDE DEF t
<1>3. Own(t) = Own(table) /\ Moved(t) = Moved(table) /\ IsAuto(t) = IsAuto(table)
  BY <1>1 DEF Own, Moved, IsAuto
<1>4. Course(t) /\ Listed(t) /\ Owners(t) /\ Accounts(t)
  BY <1>1, <1>3 DEF TableInv, Course, Listed, Owners, Accounts
<1>5. Cleanable(t)
  BY <1>1, <1>2, <1>4 DEF Cleanable, Course
<1>6. ~ Moved(t) => PaidFor(t, Settle(Refund(t)))
  BY <1>1, <1>2, <1>3, <1>4, CleaningPays
<1>7. PaysFor(t) = PaysFor(table)
  BY <1>1, <1>3 DEF PaysFor
<1>8. /\ table'.charged = Settle(Refund(t)).charged
      /\ table'.every = Settle(Refund(t)).every
  BY <1>1, CleanTableFacts
<1>. QED
  BY <1>1, <1>3, <1>5, <1>6, <1>7, <1>8, CleaningKeeps DEF PaidFor

\* An owner who closes a table that was handed to him gives its first owner's
\* fee back; of his own, nothing was paid.
LEMMA OwnerDismissCleans ==
  ASSUME TableInv(table), NEW p \in Players, OwnerDismiss(p)
  PROVE  /\ TableInv(table')
         /\ ~ Moved(table) => PaidFor(table, table')
<1> DEFINE t == IF table.transfer_flag THEN Charge(table, table.origin_owner_uid, -1) ELSE table
<1>1. /\ table \in TableType /\ table.stage = "waiting" /\ CleanTable(t)
      /\ ~ table.finished /\ table.round_count = 0 /\ Cleanable(table)
  BY CleanableFacts DEF TableInv, Course, OwnerDismiss
<1>2. SameTable(table, t)
  BY <1>1, ChargeFacts DEF SameTable, TableType
<1>3. Cleanable(t) /\ t \in TableType
  BY <1>1, <1>2 DEF SameTable, Cleanable, Listed, Owners, Own, IsAuto, Moved
<1>4. /\ table'.charged = Settle(Refund(t)).charged
      /\ table'.every = Settle(Refund(t)).every
  BY <1>1, <1>3, CleanTableFacts
<1>5. CASE ~ table.transfer_flag
  <2>1. ~ Moved(table) => PaidFor(table, Settle(Refund(table)))
    BY <1>1, <1>5, CleaningPays DEF TableInv
  <2>. QED
    BY <1>1, <1>3, <1>4, <1>5, <2>1, CleaningKeeps DEF PaidFor
<1>6. CASE table.transfer_flag
  <2> SUFFICES ASSUME ~ Moved(table) PROVE PaidFor(table, table')
    BY <1>1, <1>3, CleaningKeeps
  <2>1. Own(table) /\ Own(t)
    BY <1>1, <1>2, <1>6, WayFacts DEF TableInv, Owners, Moved, Own, SameTable, TableType
  <2>2. Settle(Refund(t)) = t
    BY <1>1, <1>2, <1>3, <2>1, RefundFacts, SettleFacts DEF SameTable
  <2>3. table.charged = Only(table.creator) /\ table.origin_owner_uid = table.creator
    BY <1>1, <1>6, <2>1 DEF TableInv, Accounts, Owners
  <2>4. \A y \in Payers : t.charged[y] = 0
    BY <1>1, <1>6, <2>3, ChargeFacts DEF Only
  <2>. QED
    BY <1>1, <1>4, <2>1, <2>2, <2>4 DEF PaidFor, Own
<1>. QED
  BY <1>5, <1>6

-----------------------------------------------------------------------------
(* The other actions keep the invariant.                                   *)

\* What a hand, a vote or a timer leave of a table as it is.
Kept(t, u) ==
  /\ u.way = t.way /\ u.players = t.players /\ u.owner_uid = t.owner_uid
  /\ u.origin_owner_uid = t.origin_owner_uid /\ u.creator = t.creator
  /\ u.transfer_flag = t.transfer_flag /\ u.transfers = t.transfers
  /\ u.charged = t.charged /\ u.every = t.every

LEMMA KeptFacts ==
  ASSUME NEW t, NEW u, Kept(t, u), Owners(t), Accounts(t), t.stage # "free"
  PROVE  Owners(u) /\ Accounts(u)
BY DEF Kept, Owners, Accounts, Own, IsAuto, Moved

\* What a player who sits down or leaves does not touch.
Aside(t, u) ==
  /\ u.way = t.way /\ u.owner_uid = t.owner_uid /\ u.round_count = t.round_count
  /\ u.origin_owner_uid = t.origin_owner_uid /\ u.creator = t.creator
  /\ u.transfer_flag = t.transfer_flag /\ u.transfers = t.transfers
  /\ u.charged = t.charged /\ u.every = t.every /\ u.auto_room = t.auto_room
  /\ u.fee_timer = t.fee_timer /\ u.finished = t.finished
  /\ u.game_end_count_flag = t.game_end_count_flag
  /\ u.need_return_diamo = t.need_return_diamo

\* A table that waits is found in the list if it is there at all.
LEMMA FoundFacts ==
  ASSUME TableInv(table), table.stage = "waiting", ~ Moved(table)
  PROVE  /\ Own(table) => table.entry = NoEntry /\ ~ Found(table)
         /\ ~ Own(table) =>
              /\ Found(table)
              /\ table.entry = [key |-> table.creator, size |-> Cardinality(table.players), status |-> 0]
<1>1. table.entry = IF Own(table) THEN NoEntry
        ELSE [key |-> table.creator, size |-> Cardinality(table.players), status |-> 0]
  BY DEF TableInv, Listed, Course
<1>2. CASE Own(table)
  BY <1>1, <1>2 DEF Found, NoEntry
<1>3. CASE ~ Own(table)
  <2>1. ~ table.transfer_flag
    BY <1>3, WayFacts DEF TableInv, Owners, Moved, Own, TableType
  <2>2. table.owner_uid = table.creator /\ table.creator \in Payers
    BY <2>1 DEF TableInv, Owners
  <2>. QED
    BY <1>1, <1>3, <2>2, TableFeesAssumption DEF Found, Payers
<1>. QED
  BY <1>2, <1>3

LEMMA GameEndKeeps ==
  ASSUME TableInv(table), GameEnd
  PROVE  TableInv(table') /\ table'.stage # "free"
<1>1. table \in TableType /\ table.stage = "playing" /\ table.round_count # 0
  BY DEF TableInv, Course, GameEnd
<1>2. /\ table' \in TableType /\ Kept(table, table')
      /\ table'.stage \in {"between", "closing"}
      /\ table'.game_end_count_flag /\ table'.finished
      /\ table'.need_return_diamo = table.need_return_diamo
      /\ table'.round_count = table.round_count
      /\ table'.fee_timer = table.fee_timer
      /\ table'.entry = table.entry /\ table'.auto_room = table.auto_room
  BY <1>1 DEF GameEnd, TableType, Kept
<1>3. Owners(table') /\ Accounts(table')
  BY <1>1, <1>2, KeptFacts DEF TableInv
<1>4. Course(table') /\ Timed(table') /\ Listed(table')
  BY <1>1, <1>2 DEF TableInv, Course, Timed, Listed, Kept, Own, IsAuto, Moved, TableType
<1>. QED
  BY <1>2, <1>3, <1>4 DEF TableInv

LEMMA VoteKeeps ==
  ASSUME TableInv(table), Vote
  PROVE  TableInv(table') /\ table'.stage # "free"
<1>1. table \in TableType /\ table.stage \in {"playing", "between"} /\ table.round_count # 0
  BY DEF TableInv, Course, Vote
<1>2. /\ table' \in TableType /\ Kept(table, table')
      /\ table'.stage = "closing" /\ table'.finished = table.finished
      /\ table'.need_return_diamo = (table.need_return_diamo \/ ~ table.game_end_count_flag)
      /\ table'.round_count = table.round_count
      /\ table'.fee_timer = table.fee_timer
      /\ table'.entry = table.entry /\ table'.auto_room = table.auto_room
  BY <1>1, ZenonT(60) DEF Vote, TableType, Kept
<1>3. Owners(table') /\ Accounts(table')
  BY <1>1, <1>2, KeptFacts DEF TableInv
<1>4. Course(table')
  BY <1>1, <1>2 DEF TableInv, Course, TableType
<1>5. Timed(table') /\ Listed(table')
  BY <1>1, <1>2 DEF TableInv, Timed, Listed, Kept, Own, IsAuto, Moved
<1>. QED
  BY <1>2, <1>3, <1>4, <1>5 DEF TableInv

LEMMA LeaveKeeps ==
  ASSUME TableInv(table), NEW p \in Players, Leave(p)
  PROVE  TableInv(table') /\ table'.stage # "free"
<1> DEFINE t == [table EXCEPT !.players = @ \ {p}]
<1>1. table \in TableType /\ table.stage = "waiting" /\ p \in table.players /\ table.round_count = 0
  BY DEF TableInv, Course, Leave
<1>2. /\ t \in TableType /\ t.stage = "waiting" /\ t.players = table.players \ {p}
      /\ t.entry = table.entry /\ Aside(table, t)
  BY <1>1 DEF TableType, Aside
<1>3. Cardinality(table.players) > 0 /\ Cardinality(t.players) \in Nat
  BY <1>1, <1>2, CountPlayers DEF TableType
<1>4. table' = CountAgain(t)
  BY DEF Leave, DelPlayer
<1> HIDE DEF t
<1>5. /\ table' \in TableType /\ table'.stage = "waiting" /\ table'.players = t.players
      /\ Aside(t, table')
      /\ table'.entry = IF Found(t) /\ t.entry.size > 0
                        THEN [table.entry EXCEPT !.size = Cardinality(t.players)] ELSE table.entry
  BY <1>2, <1>3, <1>4 DEF CountAgain, TableType, Aside
<1>6. /\ Course(table') /\ Timed(table') /\ Owners(table') /\ Accounts(table')
      /\ table'.auto_room = IF IsAuto(table') THEN {table'.way.auto_flag} ELSE {}
  BY <1>1, <1>2, <1>5 DEF TableInv, Course, Timed, Owners, Accounts, Listed, Aside, Own, IsAuto, Moved
<1>7. ~ Moved(table') => table'.entry = IF Own(table') THEN NoEntry
        ELSE [key |-> table'.creator, size |-> Cardinality(table'.players), status |-> 0]
  BY <1>1, <1>2, <1>3, <1>5, FoundFacts DEF Aside, Own, Moved, Found, NoEntry
<1>. QED
  BY <1>1, <1>2, <1>5, <1>6, <1>7 DEF TableInv, Listed, Aside

LEMMA JoinKeeps ==
  ASSUME TableInv(table), NEW p \in Players, Join(p)
  PROVE  TableInv(table') /\ table'.stage # "free"
<1> DEFINE t == [table EXCEPT !.players = @ \cup {p}]
<1>1. table \in TableType /\ table.stage = "waiting" /\ p \notin table.players /\ table.round_count = 0
  BY DEF TableInv, Course, Join
<1>2. /\ t \in TableType /\ t.stage = "waiting" /\ t.players = table.players \cup {p}
      /\ t.entry = table.entry /\ Aside(table, t)
  BY <1>1 DEF TableType, Aside
<1>3. Cardinality(t.players) = Cardinality(table.players) + 1 /\ Cardinality(table.players) \in Nat
  BY <1>1, <1>2, CountPlayers DEF TableType
<1>4. table' = CountIn(t)
  BY DEF Join, Seat
<1> HIDE DEF t
<1>5. /\ table' \in TableType /\ table'.stage = "waiting" /\ table'.players = t.players
      /\ Aside(t, table')
      /\ table'.entry = IF Found(t)
                        THEN [table.entry EXCEPT !.size = @ + 1] ELSE table.entry
  BY <1>2, <1>4 DEF CountIn, TableType, Aside
<1>6. /\ Course(table') /\ Timed(table') /\ Owners(table') /\ Accounts(table')
      /\ table'.auto_room = IF IsAuto(table') THEN {table'.way.auto_flag} ELSE {}
  BY <1>1, <1>2, <1>5 DEF TableInv, Course, Timed, Owners, Accounts, Listed, Aside, Own, IsAuto, Moved
<1>7. ~ Moved(table') => table'.entry = IF Own(table') THEN NoEntry
        ELSE [key |-> table'.creator, size |-> Cardinality(table'.players), status |-> 0]
  BY <1>1, <1>2, <1>3, <1>5, FoundFacts DEF Aside, Own, Moved, Found, NoEntry
<1>. QED
  BY <1>1, <1>2, <1>5, <1>6, <1>7 DEF TableInv, Listed, Aside

\* What a transfer leaves as it is.
Handed(t, u) ==
  /\ u.stage = t.stage /\ u.way = t.way /\ u.players = t.players
  /\ u.creator = t.creator /\ u.origin_owner_uid = t.origin_owner_uid
  /\ u.round_count = t.round_count /\ u.finished = t.finished
  /\ u.game_end_count_flag = t.game_end_count_flag
  /\ u.need_return_diamo = t.need_return_diamo /\ u.fee_timer = t.fee_timer
  /\ u.entry = t.entry /\ u.auto_room = t.auto_room /\ u.charged = t.charged

LEMMA TransferOwnerKeeps ==
  ASSUME TableInv(table), NEW p \in Players, NEW q \in Players, TransferOwner(p, q)
  PROVE  TableInv(table') /\ table'.stage # "free"
<1> DEFINE t == IF table.transfer_flag THEN table ELSE Charge(table, table.origin_owner_uid, 1)
<1>1. /\ table \in TableType /\ table.stage = "waiting" /\ table.owner_uid = p
      /\ table.way.kind # "substitute" /\ table.way.cost_select_flag = 1
      /\ table.transfers \in 0 .. MaxTransfers /\ table.transfers < MaxTransfers
  BY WayFacts DEF TableInv, TransferOwner, TableType
<1>2. SameTable(table, t)
  BY <1>1, ChargeFacts DEF SameTable, TableType
<1>3. table' = [t EXCEPT !.owner_uid = q, !.transfer_flag = TRUE, !.transfers = @ + 1]
  BY DEF TransferOwner
<1>4. Own(table) => t.charged = Only(table.creator)
  <2> SUFFICES ASSUME Own(table) PROVE t.charged = Only(table.creator)
    OBVIOUS
  <2>1. /\ table.charged = IF table.transfer_flag THEN Only(table.creator) ELSE NoCharge
        /\ table.origin_owner_uid = table.creator
    BY <1>1 DEF TableInv, Accounts, Owners
  <2>2. CASE table.transfer_flag
    BY <2>1, <2>2
  <2>3. CASE ~ table.transfer_flag
    <3>1. /\ t.charged \in [Payers -> Int]
          /\ \A y \in Payers : t.charged[y] = IF y = table.creator THEN 1 ELSE 0
      BY <1>1, <1>2, <2>1, <2>3, ChargeFacts DEF NoCharge, SameTable, TableType
    <3>. QED
      BY <3>1 DEF Only
  <2>. QED
    BY <2>2, <2>3
<1> HIDE DEF t
<1>5. /\ table' \in TableType /\ table'.owner_uid = q /\ table'.transfer_flag /\ table'.transfers > 0
      /\ table'.stage = "waiting" /\ table'.way = table.way /\ table'.players = table.players
      /\ table'.creator = table.creator /\ table'.origin_owner_uid = table.origin_owner_uid
      /\ table'.round_count = table.round_count /\ table'.finished = table.finished
      /\ table'.game_end_count_flag = table.game_end_count_flag
      /\ table'.need_return_diamo = table.need_return_diamo
      /\ table'.fee_timer = table.fee_timer
      /\ table'.entry = table.entry /\ table'.auto_room = table.auto_room
      /\ table'.charged = t.charged
  <2>1. q \in Payers \cup {Nobody} /\ table.transfers + 1 \in 0 .. MaxTransfers
    BY <1>1, TableFeesAssumption DEF Payers
  <2>2. t \in TableType /\ t.transfers + 1 \in 0 .. MaxTransfers /\ t.transfers + 1 > 0
    BY <1>1, <1>2, <2>1 DEF SameTable
  <2> DEFINE u == [t EXCEPT !.owner_uid = q]
             w == [u EXCEPT !.transfer_flag = TRUE]
  <2>3. u \in TableType /\ u.owner_uid = q /\ Handed(t, u) /\ u.transfers = t.transfers
    BY <2>1, <2>2 DEF TableType, Handed
  <2>4. table' = [w EXCEPT !.transfers = @ + 1]
    BY <1>3, <2>2 DEF TableType
  <2> HIDE DEF u
  <2>5. /\ w \in TableType /\ w.owner_uid = q /\ Handed(t, w) /\ w.transfers = t.transfers
        /\ w.transfer_flag
    BY <2>3 DEF TableType, Handed
  <2> HIDE DEF w
  <2>6. /\ table' \in TableType /\ table'.owner_uid = q /\ Handed(t, table')
        /\ table'.transfers > 0 /\ table'.transfer_flag
    BY <2>2, <2>4, <2>5 DEF TableType, Handed
  <2>. QED
    BY <1>1, <1>2, <2>6 DEF SameTable, Handed
<1>6. /\ Own(table') = Own(table) /\ IsAuto(table') = IsAuto(table)
      /\ Moved(table') = (table.way.kind = "club")
  BY <1>5 DEF Own, IsAuto, Moved
<1>7. ~ IsAuto(table)
  BY <1>1, TableFeesAssumption DEF TableInv, Owners
<1>8. ~ Own(table) => table.way.kind = "club"
  BY <1>1, WayFacts DEF Own, TableType
<1>9. Course(table') /\ Timed(table')
  BY <1>1, <1>5, <1>6 DEF TableInv, Course, Timed
<1>10. Owners(table')
  BY <1>1, <1>5, <1>6, <1>7 DEF TableInv, Owners, Payers
<1>11. Accounts(table')
  BY <1>4, <1>5, <1>6, <1>8 DEF Accounts
<1>12. Listed(table')
  BY <1>1, <1>5, <1>6, <1>8 DEF TableInv, Listed, Moved, Own
<1>. QED
  BY <1>5, <1>9, <1>10, <1>11, <1>12 DEF TableInv

\* What creating the history of the table and its start leave of its course.
Flags(t, u) ==
  /\ u.stage = t.stage /\ u.round_count = t.round_count /\ u.finished = t.finished
  /\ u.game_end_count_flag = t.game_end_count_flag
  /\ u.need_return_diamo = t.need_return_diamo

LEMMA GameStartKeeps ==
  ASSUME TableInv(table), NEW n \in 2 .. SeatMax, GameStart(n)
  PROVE  TableInv(table') /\ table'.stage # "free"
<1> DEFINE t == [table EXCEPT !.fee_timer = FALSE]
           o == [t EXCEPT !.auto_room = @ \ {table.way.auto_flag}]
           f == IF t.round_count = 0 THEN Started(o) ELSE t
<1>1. /\ table \in TableType /\ table.stage \in {"waiting", "between"}
      /\ table.stage = "waiting" <=> table.round_count = 0
      /\ table.round_count \in 0 .. MaxPlayBoard /\ table.round_count < MaxPlayBoard
      /\ table.stage = "between" => table.auto_room = {}
  BY DEF TableInv, Course, Listed, GameStart, TableType
<1>2. /\ t \in TableType /\ Kept(table, t) /\ Flags(table, t) /\ ~ t.fee_timer
      /\ t.entry = table.entry /\ t.auto_room = table.auto_room
  BY <1>1 DEF TableType, Kept, Flags
<1>3. AutoRoomOff(t) = o
  BY DEF AutoRoomOff
<1>4. table' = [f EXCEPT !.stage = "playing", !.round_count = @ + 1, !.max_ready_players = n]
  BY <1>3 DEF GameStart, StopFeeTimer, FirstHand
<1> HIDE DEF t
<1>5. /\ o \in TableType /\ Kept(table, o) /\ Flags(table, o) /\ ~ o.fee_timer
      /\ o.entry = table.entry /\ o.auto_room = table.auto_room \ {table.way.auto_flag}
  BY <1>1, <1>2 DEF TableType, Kept, Flags
<1> HIDE DEF o
<1>6. /\ Started(o) \in TableType /\ Kept(table, Started(o)) /\ Flags(table, Started(o))
      /\ ~ Started(o).fee_timer /\ Started(o).auto_room = o.auto_room
      /\ Started(o).entry = IF Found(o) THEN [table.entry EXCEPT !.status = 1] ELSE table.entry
  BY <1>5 DEF Started, TableType, Kept, Flags
<1>7. /\ f \in TableType /\ Kept(table, f) /\ Flags(table, f) /\ ~ f.fee_timer
      /\ f.auto_room = IF table.round_count = 0 THEN table.auto_room \ {table.way.auto_flag} ELSE table.auto_room
      /\ f.entry = IF table.round_count = 0 /\ Found(table)
                   THEN [table.entry EXCEPT !.status = 1] ELSE table.entry
  <2>1. Found(o) <=> Found(table)
    BY <1>5 DEF Found, Kept
  <2>. QED
    BY <1>2, <1>5, <1>6, <2>1 DEF Flags
<1> HIDE DEF f
<1>8. /\ table' \in TableType /\ Kept(table, table') /\ ~ table'.fee_timer
      /\ table'.stage = "playing" /\ table'.round_count = table.round_count + 1
      /\ table'.finished = table.finished
      /\ table'.game_end_count_flag = table.game_end_count_flag
      /\ table'.need_return_diamo = table.need_return_diamo
      /\ table'.entry = f.entry /\ table'.auto_room = f.auto_room
  <2>1. f.round_count + 1 \in 0 .. MaxPlayBoard
    BY <1>1, <1>7, TableFeesAssumption DEF Flags
  <2>. QED
    BY <1>4, <1>7, <2>1 DEF TableType, Kept, Flags
<1>9. Owners(table') /\ Accounts(table')
  BY <1>1, <1>8, KeptFacts DEF TableInv
<1>10. Course(table') /\ Timed(table')
  <2>1. /\ table'.round_count # 0 /\ ~ table'.need_return_diamo
        /\ table'.game_end_count_flag = table'.finished
    <3>1. table.game_end_count_flag \in BOOLEAN /\ table.finished \in BOOLEAN
      BY <1>1 DEF TableType
    <3>. QED
      BY <1>1, <1>8, <3>1 DEF TableInv, Course
  <2>. QED
    BY <1>8, <2>1 DEF Course, Timed
<1>11. table'.auto_room = {}
  BY <1>1, <1>7, <1>8 DEF TableInv, Listed
<1>12. /\ Own(table') = Own(table) /\ Moved(table') = Moved(table)
       /\ table'.creator = table.creator /\ table'.players = table.players
  BY <1>8 DEF Kept, Own, Moved
<1>13. ~ Moved(table') => table'.entry = IF Own(table') THEN NoEntry
         ELSE [key |-> table'.creator, size |-> Cardinality(table'.players), status |-> 1]
  <2>1. CASE table.stage = "waiting"
    BY <1>1, <1>7, <1>8, <1>12, <2>1, FoundFacts
  <2>2. CASE table.stage = "between"
    BY <1>1, <1>7, <1>8, <1>12, <2>2 DEF TableInv, Listed
  <2>. QED
    BY <1>1, <2>1, <2>2
<1>14. Listed(table')
  BY <1>1, <1>8, <1>11, <1>13 DEF Listed
<1>. QED
  BY <1>8, <1>9, <1>10, <1>14 DEF TableInv

\* A table somebody has just asked for.
Fresh(way, p, t) ==
  /\ t \in TableType /\ t.stage = "waiting" /\ t.way = way /\ t.players = {}
  /\ t.creator = p /\ t.owner_uid = p /\ t.round_count = 0 /\ t.transfers = 0
  /\ ~ t.transfer_flag /\ ~ t.game_end_count_flag /\ ~ t.need_return_diamo /\ ~ t.finished
  /\ t.auto_room = {}

\* The same with or without players.
Waits(way, p, t) ==
  /\ t \in TableType /\ t.stage = "waiting" /\ t.way = way
  /\ t.creator = p /\ t.owner_uid = p /\ t.round_count = 0 /\ t.transfers = 0
  /\ ~ t.transfer_flag /\ ~ t.game_end_count_flag /\ ~ t.need_return_diamo /\ ~ t.finished
  /\ t.auto_room = {}

SameFee(t, u) == u.fee_timer = t.fee_timer /\ u.charged = t.charged /\ u.every = t.every

LEMMA NewFacts ==
  ASSUME TableInv(table), table.stage = "free", NEW way \in Ways, NEW p \in Payers
  PROVE  LET t == New(way, p)
         IN  /\ Fresh(way, p, t) /\ ~ t.fee_timer /\ t.entry = NoEntry
             /\ t.charged = NoCharge /\ t.every = [x \in Payers |-> 0]
<1> DEFINE a == [table EXCEPT !.stage = "waiting", !.way = way]
           b == [a EXCEPT !.owner_uid = p, !.creator = p]
           c == [b EXCEPT !.game_end_count_flag = FALSE, !.need_return_diamo = FALSE]
           d == [c EXCEPT !.entry = NoEntry, !.charged = NoCharge]
           e == [d EXCEPT !.every = [x \in Payers |-> 0], !.finished = FALSE, !.transfers = 0]
<1>1. /\ table \in TableType /\ table.players = {} /\ table.round_count = 0
      /\ ~ table.transfer_flag /\ ~ table.fee_timer /\ table.auto_room = {}
  BY DEF TableInv, Course, Timed, Listed
<1>2. /\ p \in Payers \cup {Nobody} /\ NoCharge \in [Payers -> Int]
      /\ NoEntry \in [key : Payers \cup {Nobody}, size : Nat, status : {0, 1}]
      /\ [x \in Payers |-> 0] \in [Payers -> Int] /\ 0 \in 0 .. MaxTransfers
  BY TableFeesAssumption DEF NoCharge, NoEntry
<1>3. New(way, p) = e
  BY <1>1 DEF New, TableType
<1>4. /\ a \in TableType /\ a.players = {} /\ a.round_count = 0
      /\ ~ a.transfer_flag /\ ~ a.fee_timer /\ a.auto_room = {}
      /\ a.stage = "waiting" /\ a.way = way
  BY <1>1, ZenonT(60) DEF TableType
<1> HIDE DEF a
<1>5. /\ b \in TableType /\ b.players = {} /\ b.round_count = 0
      /\ ~ b.transfer_flag /\ ~ b.fee_timer /\ b.auto_room = {}
      /\ b.stage = "waiting" /\ b.way = way /\ b.owner_uid = p /\ b.creator = p
  BY <1>2, <1>4, ZenonT(60) DEF TableType
<1> HIDE DEF b
<1>6. /\ c \in TableType /\ c.players = {} /\ c.round_count = 0
      /\ ~ c.transfer_flag /\ ~ c.fee_timer /\ c.auto_room = {}
      /\ c.stage = "waiting" /\ c.way = way /\ c.owner_uid = p /\ c.creator = p
      /\ ~ c.game_end_count_flag /\ ~ c.need_return_diamo
  BY <1>5, ZenonT(60) DEF TableType
<1> HIDE DEF c
<1>7. /\ d \in TableType /\ d.players = {} /\ d.round_count = 0
      /\ ~ d.transfer_flag /\ ~ d.fee_timer /\ d.auto_room = {}
      /\ d.stage = "waiting" /\ d.way = way /\ d.owner_uid = p /\ d.creator = p
      /\ ~ d.game_end_count_flag /\ ~ d.need_return_diamo
      /\ d.entry = NoEntry /\ d.charged = NoCharge
  BY <1>2, <1>6, ZenonT(60) DEF TableType
<1> HIDE DEF d
<1>8. /\ e \in TableType /\ e.players = {} /\ e.round_count = 0
      /\ ~ e.transfer_flag /\ ~ e.fee_timer /\ e.auto_room = {}
      /\ e.stage = "waiting" /\ e.way = way /\ e.owner_uid = p /\ e.creator = p
      /\ ~ e.game_end_count_flag /\ ~ e.need_return_diamo
      /\ e.entry = NoEntry /\ e.charged = NoCharge /\ e.every = [x \in Payers |-> 0]
      /\ ~ e.finished /\ e.transfers = 0
  BY <1>2, <1>7, ZenonT(60) DEF TableType
<1> HIDE DEF e
<1>. QED
  BY <1>3, <1>8 DEF Fresh

LEMMA CreateAutoKeeps ==
  ASSUME TableInv(table), NEW way \in Ways, CreateAuto(way)
  PROVE  TableInv(table') /\ table'.stage # "free"
<1> DEFINE n == New(way, Club)
           t == Charge(n, Club, 1)
           e == [NoEntry EXCEPT !.key = Club]
<1>1. table.stage = "free" /\ way.auto_flag # NoAutoFlag /\ Club \in Payers
  BY DEF CreateAuto, Payers
<1>2. /\ way.kind = "club" /\ way.rmb_cost = 0 /\ {way.auto_flag} \subseteq AutoRooms
  BY <1>1, WayFacts DEF NoAutoFlag
<1>3. Fresh(way, Club, n) /\ ~ n.fee_timer /\ n.charged = NoCharge
  BY <1>1, NewFacts
<1>4. table' = [t EXCEPT !.entry = e, !.auto_room = @ \cup {way.auto_flag}]
  BY DEF CreateAuto
<1> HIDE DEF n
<1>5. SameTable(n, t) /\ \A y \in Payers : t.charged[y] = IF y = Club THEN 1 ELSE 0
  BY <1>3, ChargeFacts DEF Fresh, NoCharge
<1> HIDE DEF t
<1>6. Fresh(way, Club, t) /\ ~ t.fee_timer /\ t.charged = Only(Club)
  <2>1. t.charged \in [Payers -> Int]
    BY <1>5 DEF SameTable, TableType
  <2>. QED
    BY <1>3, <1>5, <2>1 DEF Fresh, SameTable, Only
<1>7. /\ table' \in TableType /\ table'.stage = "waiting" /\ table'.way = way /\ table'.players = {}
      /\ table'.creator = Club /\ table'.owner_uid = Club /\ table'.round_count = 0
      /\ table'.transfers = 0 /\ ~ table'.transfer_flag /\ ~ table'.game_end_count_flag
      /\ ~ table'.need_return_diamo /\ ~ table'.finished /\ ~ table'.fee_timer
      /\ table'.charged = Only(Club)
      /\ table'.entry = [key |-> Club, size |-> 0, status |-> 0]
      /\ table'.auto_room = {way.auto_flag}
  <2>1. e = [key |-> Club, size |-> 0, status |-> 0]
    BY DEF NoEntry
  <2> HIDE DEF e
  <2>. QED
    BY <1>1, <1>2, <1>4, <1>6, <2>1 DEF Fresh, TableType
<1>8. Own(table') = FALSE /\ IsAuto(table') = TRUE
  BY <1>1, <1>2, <1>7 DEF Own, IsAuto
<1>9. Cardinality(table'.players) = 0
  BY <1>7, FS_EmptySet
<1>10. Course(table') /\ Timed(table') /\ Owners(table')
  <2>1. table'.game_end_count_flag \in BOOLEAN /\ table'.finished \in BOOLEAN
    BY <1>7 DEF TableType
  <2>. QED
    BY <1>1, <1>7, <1>8, <2>1 DEF Course, Timed, Owners
<1>11. Listed(table')
  BY <1>7, <1>8, <1>9 DEF Listed
<1>12. Accounts(table')
  BY <1>2, <1>7, <1>8 DEF Accounts
<1>. QED
  BY <1>7, <1>10, <1>11, <1>12 DEF TableInv

LEMMA CreateAheadFacts ==
  ASSUME NEW p \in Players, NEW way \in Ways, way.kind # "own", way.auto_flag = NoAutoFlag,
         NEW t, Fresh(way, p, t), t.charged = NoCharge, t.every = [x \in Payers |-> 0]
  PROVE  LET u == CreateAhead(t, p)
         IN  /\ Fresh(way, p, u) /\ u.fee_timer
             /\ u.entry = [key |-> p, size |-> 0, status |-> 0]
             /\ u.charged = Only(IF way.kind = "club" /\ way.rmb_cost = 0 THEN Club ELSE p)
             /\ way.kind = "club" => u.every[p] = 1
<1> DEFINE x == IF way.kind = "club" /\ way.rmb_cost = 0 THEN Club ELSE p
           c == ChargeAhead(t, p)
           e == [NoEntry EXCEPT !.key = p]
<1>1. p \in Payers /\ Club \in Payers /\ x \in Payers /\ t \in TableType /\ t.way = way
  BY DEF Payers, Fresh
<1>2. /\ SameTable(t, c)
      /\ way.kind = "club" => c.every[p] = 1
      /\ \A y \in Payers : c.charged[y] = IF y = x THEN 1 ELSE 0
  <2>1. CASE way.kind = "substitute"
    BY <1>1, <2>1, ChargeFacts DEF ChargeAhead, NoCharge
  <2>2. CASE way.kind = "club"
    <3> DEFINE k == Count(t, p, 1)
    <3>1. /\ SameTable(t, k) /\ k.charged = NoCharge /\ k.every[p] = 1 /\ k \in TableType
      BY <1>1, CountFacts DEF SameTable
    <3>2. c = Charge(k, x, 1)
      BY <1>1, <2>2 DEF ChargeAhead
    <3> HIDE DEF k
    <3>3. /\ SameTable(k, c) /\ c.every = k.every
          /\ \A y \in Payers : c.charged[y] = IF y = x THEN NoCharge[y] + 1 ELSE NoCharge[y]
      BY <3>1, <3>2, ChargeFacts
    <3>. QED
      BY <3>1, <3>3, SameTableTransitive DEF NoCharge
  <2>. QED
    BY <2>1, <2>2, WayFacts
<1> HIDE DEF c
<1>3. c.charged = Only(x)
  <2>1. c.charged \in [Payers -> Int]
    BY <1>2 DEF SameTable, TableType
  <2>. QED
    BY <1>2, <2>1 DEF Only
<1>4. e = [key |-> p, size |-> 0, status |-> 0]
  BY DEF NoEntry
<1>5. CreateAhead(t, p) = [c EXCEPT !.entry = e, !.fee_timer = TRUE]
  BY DEF CreateAhead, c
<1>6. Fresh(way, p, c)
  BY <1>2 DEF Fresh, SameTable
<1> HIDE DEF e, x
<1>7. [c EXCEPT !.entry = e, !.fee_timer = TRUE] \in TableType
  BY <1>1, <1>4, <1>6 DEF Fresh, TableType
<1>8. /\ Fresh(way, p, [c EXCEPT !.entry = e, !.fee_timer = TRUE])
      /\ [c EXCEPT !.entry = e, !.fee_timer = TRUE].fee_timer
      /\ [c EXCEPT !.entry = e, !.fee_timer = TRUE].entry = e
      /\ [c EXCEPT !.entry = e, !.fee_timer = TRUE].charged = c.charged
      /\ [c EXCEPT !.entry = e, !.fee_timer = TRUE].every = c.every
  BY <1>6, <1>7 DEF Fresh, TableType
<1>. QED
  BY <1>2, <1>3, <1>4, <1>5, <1>8 DEF x

\* Who creates a table sits down at it, but for a substitute.
LEMMA CreateKeeps ==
  ASSUME TableInv(table), NEW way \in Ways, NEW p \in Players, Create(way, p)
  PROVE  TableInv(table') /\ table'.stage # "free"
<1> DEFINE t == New(way, p)
           ahead == IF Own(t) THEN t ELSE CreateAhead(t, p)
           o == [ahead EXCEPT !.origin_owner_uid = p]
           s == [o EXCEPT !.players = @ \cup {p}]
           x == IF way.kind = "club" /\ way.rmb_cost = 0 THEN Club ELSE p
<1>1. /\ table.stage = "free" /\ way.auto_flag = NoAutoFlag /\ p \in Payers /\ p # Nobody /\ p # Club
      /\ Cardinality({}) = 0 /\ Cardinality({p}) = 1
  BY TableFeesAssumption, FS_EmptySet, FS_Singleton DEF Create, Payers
<1>2. /\ Fresh(way, p, t) /\ ~ t.fee_timer /\ t.entry = NoEntry
      /\ t.charged = NoCharge /\ t.every = [y \in Payers |-> 0]
  BY <1>1, NewFacts
<1>3. t.way = way /\ (Own(t) <=> way.kind = "own")
  BY <1>2 DEF Fresh, Own
<1>4. table' = IF way.kind = "substitute" THEN ahead ELSE CountIn(s)
  BY DEF Create, Seat
<1> HIDE DEF t
<1>5. /\ Fresh(way, p, ahead) /\ ahead.fee_timer = (way.kind # "own")
      /\ ahead.entry = IF way.kind = "own" THEN NoEntry ELSE [key |-> p, size |-> 0, status |-> 0]
      /\ ahead.charged = IF way.kind = "own" THEN NoCharge ELSE Only(x)
      /\ way.kind = "club" => ahead.every[p] = 1
  <2>1. CASE Own(t)
    BY <1>2, <1>3, <2>1 DEF Fresh, TableType
  <2>2. CASE ~ Own(t)
    <3>1. ahead = CreateAhead(t, p)
      BY <2>2
    <3>. QED
      BY <1>1, <1>2, <1>3, <2>2, <3>1, CreateAheadFacts, ZenonT(60)
  <2>. QED
    BY <2>1, <2>2
<1> HIDE DEF ahead
<1>6. Fresh(way, p, o) /\ o.origin_owner_uid = p /\ SameFee(ahead, o) /\ o.entry = ahead.entry
  BY <1>5 DEF Fresh, TableType, SameFee
<1> HIDE DEF o
<1>7. Waits(way, p, s) /\ s.players = {p} /\ SameFee(o, s) /\ s.entry = o.entry /\ s.origin_owner_uid = p
  BY <1>6 DEF Fresh, Waits, TableType, SameFee
<1> HIDE DEF s
<1>8. /\ Waits(way, p, CountIn(s)) /\ CountIn(s).players = {p}
      /\ SameFee(s, CountIn(s)) /\ CountIn(s).origin_owner_uid = p
      /\ CountIn(s).entry = IF way.kind = "own" THEN NoEntry ELSE [key |-> p, size |-> 1, status |-> 0]
  <2>1. CASE way.kind = "own"
    BY <1>5, <1>6, <1>7, <2>1 DEF CountIn, Found, NoEntry, SameFee
  <2>2. CASE way.kind # "own"
    <3>1. s.entry = [key |-> p, size |-> 0, status |-> 0] /\ s.owner_uid = p
      BY <1>5, <1>6, <1>7, <2>2 DEF Waits
    <3>2. CountIn(s) = [s EXCEPT !.entry = [key |-> p, size |-> 1, status |-> 0]]
      BY <1>1, <1>7, <3>1 DEF CountIn, Found, Waits, TableType
    <3>. QED
      BY <1>1, <1>7, <2>2, <3>2 DEF Waits, TableType, SameFee
  <2>. QED
    BY <2>1, <2>2
<1>9. /\ Waits(way, p, table') /\ SameFee(ahead, table')
      /\ way.kind = "own" => table'.origin_owner_uid = p
      /\ table'.entry = IF way.kind = "own" THEN NoEntry
                        ELSE [key |-> p, size |-> Cardinality(table'.players), status |-> 0]
  <2>1. CASE way.kind = "substitute"
    BY <1>1, <1>4, <1>5, <2>1 DEF Fresh, Waits, SameFee
  <2>2. CASE way.kind # "substitute"
    BY <1>1, <1>4, <1>6, <1>7, <1>8, <2>2 DEF SameFee
  <2>. QED
    BY <2>1, <2>2
<1>10. (Own(table') <=> way.kind = "own") /\ ~ IsAuto(table')
  BY <1>1, <1>9 DEF Waits, Own, IsAuto
<1>11. Course(table') /\ Timed(table') /\ Owners(table')
  <2>1. table'.game_end_count_flag \in BOOLEAN /\ table'.finished \in BOOLEAN
    BY <1>9 DEF Waits, TableType
  <2>2. Course(table')
    BY <1>9, <2>1 DEF Course, Waits
  <2>3. table'.fee_timer = (way.kind # "own")
    BY <1>5, <1>9 DEF SameFee
  <2>4. Timed(table')
    BY <1>9, <1>10, <2>3 DEF Timed, Waits
  <2>5. Owners(table')
    BY <1>1, <1>9, <1>10 DEF Owners, Waits
  <2>. QED
    BY <2>2, <2>4, <2>5
<1>12. Listed(table')
  BY <1>9, <1>10 DEF Listed, Waits
<1>13. Accounts(table')
  BY <1>5, <1>9, <1>10 DEF Accounts, Waits, SameFee
<1>. QED
  BY <1>9, <1>11, <1>12, <1>13 DEF TableInv, Waits

-----------------------------------------------------------------------------
(* What holds at every table.                                              *)

LEMMA InitHolds == Init => TableInv(table)
<1> SUFFICES ASSUME Init PROVE TableInv(table)
  OBVIOUS
<1> DEFINE w == CHOOSE w \in Ways : w.kind = "own"
<1>1. \E v \in Ways : v.kind = "own"
  <2>1. [kind |-> "own", cost_select_flag |-> 1, rmb_cost |-> 0, auto_flag |-> NoAutoFlag] \in Ways
    BY DEF Ways
  <2>. QED
    BY <2>1
<1>2. w \in Ways /\ w.kind = "own"
  BY <1>1
<1> HIDE DEF w
<1>3. /\ NoEntry \in [key : Payers \cup {Nobody}, size : Nat, status : {0, 1}]
      /\ NoCharge \in [Payers -> Int] /\ [x \in Payers |-> 0] \in [Payers -> Int]
      /\ 0 \in 0 .. MaxTransfers /\ 0 \in 0 .. MaxPlayBoard /\ SeatMax \in 2 .. SeatMax
  BY TableFeesAssumption DEF NoEntry, NoCharge
<1>4. /\ table.stage = "free" /\ table.way = w /\ table.players = {} /\ table.round_count = 0
      /\ table.transfer_flag = FALSE /\ table.need_return_diamo = FALSE /\ table.fee_timer = FALSE
      /\ table.entry = NoEntry /\ table.auto_room = {} /\ table.finished = FALSE
      /\ table.transfers = 0
  BY DEF Init, w
<1>5. table \in TableType
  BY <1>2, <1>3 DEF Init, w, TableType
<1>. QED
  BY <1>2, <1>4, <1>5 DEF TableInv, Course, Timed, Listed, Owners, Accounts

\* No step but a cleaning frees a table, and a cleaning settles its account.
LEMMA StepHolds ==
  ASSUME TableInv(table), [Next]_vars
  PROVE  /\ TableInv(table')
         /\ table.stage # "free" /\ table'.stage = "free" /\ ~ Moved(table) => PaidFor(table, table')
<1>1. CASE UNCHANGED vars
  BY <1>1 DEF vars
<1>2. ASSUME NEW w \in Ways, CreateAuto(w) \/ \E p \in Players : Create(w, p)
      PROVE  TableInv(table') /\ table'.stage # "free"
  BY <1>2, CreateAutoKeeps, CreateKeeps
<1>3. ASSUME NEW p \in Players, Join(p) \/ Leave(p)
      PROVE  TableInv(table') /\ table'.stage # "free"
  BY <1>3, JoinKeeps, LeaveKeeps
<1>4. ASSUME NEW p \in Players, OwnerDismiss(p)
      PROVE  TableInv(table') /\ (~ Moved(table) => PaidFor(table, table'))
  BY <1>4, OwnerDismissCleans
<1>5. ASSUME NEW p \in Players, GetRedpacket(p)
      PROVE  table' = table
  BY <1>5 DEF GetRedpacket
<1>6. ASSUME NEW p \in Players, NEW q \in Players, TransferOwner(p, q)
      PROVE  TableInv(table') /\ table'.stage # "free"
  BY <1>6, TransferOwnerKeeps
<1>7. ASSUME NEW n \in 2 .. SeatMax, GameStart(n)
      PROVE  TableInv(table') /\ table'.stage # "free"
  BY <1>7, GameStartKeeps
<1>8. CASE GameEnd \/ Vote
  BY <1>8, GameEndKeeps, VoteKeeps
<1>9. CASE Preready \/ FeeTimer
  BY <1>9, PrereadyCleans, FeeTimerCleans
<1>. QED
  BY <1>1, <1>2, <1>3, <1>4, <1>5, <1>6, <1>7, <1>8, <1>9 DEF Next

THEOREM TableIsInOrder == Spec => []TableInv(table)
<1>1. Init => TableInv(table)
  BY InitHolds
<1>2. TableInv(table) /\ [Next]_vars => TableInv(table)'
  BY StepHolds
<1>. QED
  BY <1>1, <1>2, PTL DEF Spec

\* A substitute's or a club's table is given back by its timer exactly until
\* its first hand starts.
THEOREM TimerMeetsNoHand == Spec => []UnplayedTableIsTimed
<1>1. TableInv(table) => UnplayedTableIsTimed
  BY DEF TableInv, Timed, UnplayedTableIsTimed
<1>. QED
  BY <1>1, TableIsInOrder, PTL

\* What redis lists is what is at the table: the entry of any table that is
\* not a club's handed on by a player (`Moved'), and the club's open room.
THEOREM TableIsListedAsItIs == Spec => []ListIsCurrent
<1>1. TableInv(table) => ListIsCurrent
  <2> SUFFICES ASSUME TableInv(table) PROVE ListIsCurrent
    OBVIOUS
  <2>1. TypeOK
    BY DEF TableInv, TableType, TypeOK, Payers
  <2>. QED
    BY <2>1 DEF TableInv, Listed, ListIsCurrent
<1>. QED
  BY <1>1, TableIsInOrder, PTL

\* Whenever a table is cleaned that is not a club's handed on by a player
\* (`Moved'; such a table is charged twice), its payer has paid for it once if a
\* hand was played to its end, and nobody has paid anything if none was.
THEOREM EveryTableIsPaidFor == Spec => TableIsPaidForByItsPayer
<1> DEFINE Paying == table.stage # "free" /\ table'.stage = "free" /\ ~ Moved(table) =>
             /\ \A x \in Payers : table'.charged[x] = IF table.finished /\ x \in PaysFor(table) THEN 1 ELSE 0
             /\ table.way.kind = "club" /\ ~ IsAuto(table) /\ table.way.rmb_cost = 0 =>
                  table'.every[table.creator] = table'.charged[Club]
<1>1. TableInv(table) /\ [Next]_vars => [Paying]_vars
  BY StepHolds DEF PaidFor
<1>. QED
  BY <1>1, TableIsInOrder, PTL DEF Spec, TableIsPaidForByItsPayer

-----------------------------------------------------------------------------
(* Red packets.                                                            *)

\* red is a record of these fields; nobody is marked while nothing was drawn,
\* and nothing was drawn before the second hand.
RedShape(r) ==
  r \in [red_list : {r.red_list}, redpackes : {r.redpackes}, already_get_red : {r.already_get_red},
         city_red_falg : {r.city_red_falg}, paid : {r.paid}, taken : {r.taken}, lost : {r.lost}]

Unmarked(r) == r.already_get_red = {} /\ r.taken = {}

Drawn(r) ==
  \A p \in Players : r.redpackes[p] > 0 =>
    /\ p \in r.city_red_falg
    /\ p \in r.already_get_red <=> p \in r.taken

RedInv(t, r) ==
  /\ RedShape(r)
  /\ r.redpackes = NoRedPackes => Unmarked(r)
  /\ r.redpackes # NoRedPackes => Drawn(r)
  /\ t.round_count <= 1 => r.redpackes = NoRedPackes

LEMMA ClearPacketsFacts ==
  ASSUME NEW t, NEW r, RedShape(r)
  PROVE  RedInv(t, ClearPackets(r))
<1> DEFINE w == r.lost + Waiting(r)
           a == [r EXCEPT !.lost = w, !.redpackes = NoRedPackes]
           u == [a EXCEPT !.already_get_red = {}, !.city_red_falg = {}, !.taken = {}]
<1>1. ClearPackets(r) = u
  BY DEF ClearPackets
<1> HIDE DEF w
<1>2. RedShape(a) /\ a.redpackes = NoRedPackes
  BY DEF RedShape
<1> HIDE DEF a
<1>3. RedShape(u) /\ u.redpackes = NoRedPackes /\ u.already_get_red = {} /\ u.taken = {}
  BY <1>2 DEF RedShape
<1>. QED
  BY <1>1, <1>3 DEF RedInv, Unmarked

LEMMA HandlerGetFacts ==
  ASSUME NEW t, NEW r, RedInv(t, r), NEW p \in Players
  PROVE  RedInv(t, HandlerGet(r, p))
<1>1. CASE r.redpackes = NoRedPackes \/ p \in r.already_get_red
  BY <1>1 DEF HandlerGet
<1>2. CASE r.redpackes # NoRedPackes /\ p \notin r.already_get_red \cup r.city_red_falg
  <2> DEFINE u == [r EXCEPT !.already_get_red = @ \cup {p}]
  <2>1. HandlerGet(r, p) = u
    BY <1>2 DEF HandlerGet
  <2>2. /\ RedShape(u) /\ u.redpackes = r.redpackes /\ u.city_red_falg = r.city_red_falg
        /\ u.already_get_red = r.already_get_red \cup {p} /\ u.taken = r.taken
    BY DEF RedInv, RedShape
  <2>. QED
    BY <1>2, <2>1, <2>2 DEF RedInv, Drawn
<1>3. CASE ~ (r.redpackes = NoRedPackes \/ p \in r.already_get_red) /\ p \in r.city_red_falg
  <2> DEFINE c == [r.paid EXCEPT ![p] = @ + r.redpackes[p]]
             k == IF r.redpackes[p] > 0 THEN r.taken \cup {p} ELSE r.taken
             u == [r EXCEPT !.paid = c, !.already_get_red = @ \cup {p}, !.taken = k]
  <2>1. HandlerGet(r, p) = u
    BY <1>3 DEF HandlerGet
  <2> HIDE DEF c
  <2>2. k = IF r.redpackes[p] > 0 THEN r.taken \cup {p} ELSE r.taken
    OBVIOUS
  <2> HIDE DEF k
  <2>3. /\ RedShape(u) /\ u.redpackes = r.redpackes /\ u.city_red_falg = r.city_red_falg
        /\ u.already_get_red = r.already_get_red \cup {p} /\ u.taken = k
    BY DEF RedInv, RedShape
  <2>. QED
    BY <1>3, <2>1, <2>2, <2>3 DEF RedInv, Drawn
<1>. QED
  BY <1>1, <1>2, <1>3

LEMMA HandlerRedpacketFacts ==
  ASSUME NEW t, NEW r, RedShape(r), Unmarked(r), r.redpackes = NoRedPackes, t.round_count > 1,
         t.round_count \in Nat, NEW ready, NEW u \in HandlerRedpacket(r, ready)
  PROVE  RedInv(t, u)
<1> DEFINE popped == [r EXCEPT !.red_list = @ - 1]
           areas == {e \in (SUBSET ready) \X ready : e[2] \in e[1]}
           draw(e) == [popped EXCEPT !.city_red_falg = @ \cup e[1],
                                     !.redpackes = [p \in Players |-> IF p = e[2] THEN 1 ELSE 0]]
<1>1. RedShape(popped) /\ Unmarked(popped) /\ popped.redpackes = NoRedPackes
  BY DEF RedShape, Unmarked
<1>2. u = r \/ u = [popped EXCEPT !.lost = @ + 1] \/ \E e \in areas : u = draw(e)
  BY DEF HandlerRedpacket
<1> HIDE DEF popped
<1>3. CASE u = r
  BY <1>3 DEF RedInv
<1>4. CASE u = [popped EXCEPT !.lost = @ + 1]
  BY <1>1, <1>4 DEF RedInv, RedShape, Unmarked
<1>5. ASSUME NEW e \in areas, u = draw(e)
      PROVE  RedInv(t, u)
  <2>1. /\ RedShape(u) /\ Unmarked(u) /\ e[1] \subseteq u.city_red_falg
        /\ u.redpackes = [p \in Players |-> IF p = e[2] THEN 1 ELSE 0]
    BY <1>1, <1>5 DEF RedShape, Unmarked
  <2>2. e[2] \in u.city_red_falg
    BY <2>1
  <2>3. Drawn(u)
    BY <2>1, <2>2 DEF Drawn, Unmarked
  <2>. QED
    BY <2>1, <2>3 DEF RedInv
<1>. QED
  BY <1>2, <1>3, <1>4, <1>5

LEMMA RedStep ==
  ASSUME TableInv(table), RedInv(table, red), [Next]_vars
  PROVE  RedInv(table', red')
<1>1. table \in TableType /\ table.round_count \in Nat /\ RedShape(red)
  BY TableFeesAssumption DEF TableInv, TableType, RedInv
\* Before the first hand nothing was drawn.
<1>2. ASSUME red' = red, table.stage \in {"free", "waiting"}
      PROVE  RedInv(table', red')
  <2>1. table.round_count <= 1
    BY <1>2 DEF TableInv, Course
  <2>. QED
    BY <1>2, <2>1 DEF RedInv
<1>3. ASSUME red' = red, table'.round_count = table.round_count
      PROVE  RedInv(table', red')
  BY <1>3 DEF RedInv
<1>4. ASSUME NEW n \in 2 .. SeatMax, GameStart(n)
      PROVE  RedInv(table', red')
  <2>1. table'.round_count = table.round_count + 1
    BY <1>1, <1>4 DEF GameStart, FirstHand, Started, AutoRoomOff, StopFeeTimer, TableType
  <2>2. CASE table.round_count = 1 /\ n = SeatMax
    <3>1. red' \in HandlerRedpacket(red, table.players)
      BY <1>4, <2>2 DEF GameStart
    <3>2. red.redpackes = NoRedPackes /\ Unmarked(red)
      BY <2>2 DEF RedInv
    <3>. QED
      BY <1>1, <2>1, <2>2, <3>1, <3>2, HandlerRedpacketFacts
  <2>3. CASE ~ (table.round_count = 1 /\ n = SeatMax)
    <3>1. red' = red
      BY <1>4, <2>3 DEF GameStart
    <3>. QED
      BY <1>1, <2>1, <3>1 DEF RedInv
  <2>. QED
    BY <2>2, <2>3
<1>5. CASE UNCHANGED vars
  BY <1>3, <1>5 DEF vars
<1>6. ASSUME NEW w \in Ways, CreateAuto(w) \/ \E p \in Players : Create(w, p)
      PROVE  RedInv(table', red')
  BY <1>2, <1>6 DEF CreateAuto, Create
<1>7. ASSUME NEW p \in Players, Join(p) \/ Leave(p) \/ \E q \in Players : TransferOwner(p, q)
      PROVE  RedInv(table', red')
  BY <1>2, <1>7 DEF Join, Leave, TransferOwner
<1>8. ASSUME NEW p \in Players, OwnerDismiss(p)
      PROVE  RedInv(table', red')
  BY <1>1, <1>8, ClearPacketsFacts DEF OwnerDismiss, CleanTable
<1>9. CASE Preready \/ FeeTimer
  BY <1>1, <1>9, ClearPacketsFacts DEF Preready, FeeTimer, CleanTable
<1>10. ASSUME NEW p \in Players, GetRedpacket(p)
       PROVE  RedInv(table', red')
  BY <1>10, HandlerGetFacts DEF GetRedpacket
<1>11. CASE GameEnd \/ Vote
  BY <1>1, <1>3, <1>11 DEF GameEnd, Vote, TableType
<1>. QED
  BY <1>4, <1>5, <1>6, <1>7, <1>8, <1>9, <1>10, <1>11 DEF Next

\* Whoever a packet was drawn for can have it until he took it.
THEOREM PacketCanBeTaken == Spec => []DrawnPlayerCanTake
<1>1. Init => RedInv(table, red)
  BY DEF Init, NoPackets, RedInv, RedShape, Unmarked
<1>2. TableInv(table) /\ RedInv(table, red) /\ [Next]_vars => RedInv(table, red)'
  BY RedStep
<1>3. RedInv(table, red) => DrawnPlayerCanTake
  BY DEF RedInv, Drawn, DrawnPlayerCanTake
<1>. QED
  BY <1>1, <1>2, <1>3, TableIsInOrder, PTL DEF Spec

-----------------------------------------------------------------------------
(* The packets are counted: in the list, drawn and waiting, lost, paid.    *)

\* The sums of MapThenSumSet are those of SumProofs.
LEMMA PaidIsSum ==
  \A r : MapThenSumSet(LAMBDA p : r.paid[p], Players) = SumOn(r.paid, Players)
BY Zenon DEF MapThenSumSet, MapThenFoldSet, SumOn, AddsUp

LEMMA WaitingIsSum ==
  \A r : Waiting(r) = IF r.redpackes = NoRedPackes THEN 0
                      ELSE SumOn(r.redpackes, Players \ r.already_get_red)
BY Zenon DEF Waiting, MapThenSumSet, MapThenFoldSet, SumOn, AddsUp

PacketTypes(r) ==
  /\ r.red_list \in Nat /\ r.lost \in Nat
  /\ r.already_get_red \subseteq Players /\ r.city_red_falg \subseteq Players
  /\ r.taken \subseteq Players /\ r.paid \in [Players -> Nat]
  /\ r.redpackes = NoRedPackes \/ r.redpackes \in [Players -> 0 .. 1]

Counted(r) ==
  /\ PacketTypes(r)
  /\ r.red_list + Waiting(r) + r.lost + SumOn(r.paid, Players) = RedPackes

LEMMA PacketSums ==
  ASSUME NEW r, PacketTypes(r)
  PROVE  /\ Waiting(r) \in Nat /\ SumOn(r.paid, Players) \in Nat
         /\ r.redpackes = NoRedPackes => Waiting(r) = 0
         /\ r.redpackes # NoRedPackes =>
              /\ Waiting(r) = SumOn(r.redpackes, Players \ r.already_get_red)
              /\ r.redpackes \in [Players -> 0 .. 1]
<1>1. IsFiniteSet(Players) /\ IsFiniteSet(Players \ r.already_get_red)
  BY RedPacketsAssumption, FS_Subset
<1>2. \A p \in Players : r.paid[p] \in Nat
  BY DEF PacketTypes
<1>3. SumOn(r.paid, Players) \in Nat
  BY <1>1, <1>2, SumIsNat
<1>4. CASE r.redpackes = NoRedPackes
  BY <1>3, <1>4, WaitingIsSum
<1>5. CASE r.redpackes # NoRedPackes
  <2>1. r.redpackes \in [Players -> 0 .. 1]
    BY <1>5 DEF PacketTypes
  <2>2. \A p \in Players \ r.already_get_red : r.redpackes[p] \in Nat
    BY <2>1
  <2>3. SumOn(r.redpackes, Players \ r.already_get_red) \in Nat
    BY <1>1, <2>2, SumIsNat
  <2>4. Waiting(r) = SumOn(r.redpackes, Players \ r.already_get_red)
    BY <1>5, WaitingIsSum
  <2>. QED
    BY <1>3, <1>5, <2>1, <2>3, <2>4
<1>. QED
  BY <1>4, <1>5

\* What nobody asked for is lost, and only that.
LEMMA ClearPacketsCounts ==
  ASSUME NEW r, RedShape(r), Counted(r)
  PROVE  Counted(ClearPackets(r))
<1>1. Waiting(r) \in Nat /\ SumOn(r.paid, Players) \in Nat
  BY PacketSums DEF Counted
<1> DEFINE w == r.lost + Waiting(r)
           a == [r EXCEPT !.lost = w, !.redpackes = NoRedPackes]
           u == [a EXCEPT !.already_get_red = {}, !.city_red_falg = {}, !.taken = {}]
<1>2. ClearPackets(r) = u
  BY DEF ClearPackets
<1>3. w \in Nat /\ w = r.lost + Waiting(r)
  BY <1>1 DEF Counted, PacketTypes
<1> HIDE DEF w
<1>4. RedShape(a)
  BY DEF RedShape
<1>5. /\ a.red_list = r.red_list /\ a.lost = w /\ a.paid = r.paid
      /\ a.redpackes = NoRedPackes
  BY DEF RedShape
<1> HIDE DEF a
<1>6. /\ u.red_list = r.red_list /\ u.lost = w /\ u.paid = r.paid
      /\ u.redpackes = NoRedPackes /\ u.already_get_red = {} /\ u.city_red_falg = {}
      /\ u.taken = {}
  BY <1>4, <1>5 DEF RedShape
<1> HIDE DEF u
<1>7. PacketTypes(u)
  BY <1>3, <1>6 DEF Counted, PacketTypes
<1>8. Waiting(u) = 0
  BY <1>6, <1>7, PacketSums
<1>9. u.red_list + Waiting(u) + u.lost + SumOn(u.paid, Players) = RedPackes
  BY <1>1, <1>3, <1>6, <1>8 DEF Counted, PacketTypes
<1>. QED
  BY <1>2, <1>7, <1>9 DEF Counted

\* A packet asked for is paid to whom it was drawn for, out of what waits.
LEMMA HandlerGetCounts ==
  ASSUME NEW t, NEW r, RedInv(t, r), Counted(r), NEW p \in Players
  PROVE  Counted(HandlerGet(r, p))
<1>1. CASE r.redpackes = NoRedPackes \/ p \in r.already_get_red
  BY <1>1 DEF HandlerGet
<1>2. CASE ~ (r.redpackes = NoRedPackes \/ p \in r.already_get_red)
  <2> DEFINE asked == r.already_get_red \cup {p}
  <2>1. /\ RedShape(r) /\ PacketTypes(r) /\ r.redpackes \in [Players -> 0 .. 1]
        /\ r.redpackes[p] \in 0 .. 1
        /\ Waiting(r) = SumOn(r.redpackes, Players \ r.already_get_red)
        /\ Waiting(r) \in Nat /\ SumOn(r.paid, Players) \in Nat
    BY <1>2, PacketSums DEF RedInv, Counted
  <2>2. IsFiniteSet(Players) /\ IsFiniteSet(Players \ r.already_get_red)
    BY RedPacketsAssumption, FS_Subset
  <2>3. Waiting(r) = r.redpackes[p] + SumOn(r.redpackes, Players \ asked)
    <3>1. /\ \A x \in Players \ r.already_get_red : r.redpackes[x] \in Int
          /\ p \in Players \ r.already_get_red
          /\ (Players \ r.already_get_red) \ {p} = Players \ asked
      BY <1>2, <2>1
    <3>. QED
      BY <2>1, <2>2, <3>1, SumTakesOut
  <2>4. ASSUME NEW u, u.redpackes = r.redpackes, u.already_get_red = asked
        PROVE  Waiting(u) = SumOn(r.redpackes, Players \ asked)
    BY <1>2, <2>4, WaitingIsSum
  <2>5. CASE p \notin r.city_red_falg
    <3> DEFINE u == [r EXCEPT !.already_get_red = asked]
    <3>1. HandlerGet(r, p) = u
      BY <1>2, <2>5 DEF HandlerGet
    <3>2. /\ u.red_list = r.red_list /\ u.lost = r.lost /\ u.paid = r.paid
          /\ u.redpackes = r.redpackes /\ u.already_get_red = asked
          /\ u.city_red_falg = r.city_red_falg /\ u.taken = r.taken
      BY <2>1 DEF RedShape
    <3> HIDE DEF u
    <3>3. PacketTypes(u)
      BY <2>1, <3>2 DEF PacketTypes
    <3>4. r.redpackes[p] = 0
      BY <1>2, <2>1, <2>5 DEF RedInv, Drawn
    <3>5. Waiting(u) = Waiting(r)
      <4>1. Waiting(u) \in Nat
        BY <3>3, PacketSums
      <4>. QED
        BY <2>3, <2>4, <3>2, <3>4, <4>1
    <3>. QED
      BY <3>1, <3>2, <3>3, <3>5 DEF Counted
  <2>6. CASE p \in r.city_red_falg
    <3> DEFINE c == [r.paid EXCEPT ![p] = @ + r.redpackes[p]]
               k == IF r.redpackes[p] > 0 THEN r.taken \cup {p} ELSE r.taken
               u == [r EXCEPT !.paid = c, !.already_get_red = asked, !.taken = k]
    <3>1. HandlerGet(r, p) = u
      BY <1>2, <2>6 DEF HandlerGet
    <3>2. c \in [Players -> Nat] /\ k \subseteq Players
      BY <2>1 DEF PacketTypes
    <3>3. SumOn(c, Players) = SumOn(r.paid, Players) + r.redpackes[p]
      <4>1. PICK b \in [Players -> Nat] : b = r.paid
        BY <2>1 DEF PacketTypes
      <4>2. /\ \A x \in Players : b[x] \in Int /\ c[x] \in Int
            /\ \A x \in Players \ {p} : c[x] = b[x]
            /\ c[p] = b[p] + r.redpackes[p] /\ b[p] \in Int
        BY <2>1, <3>2, <4>1
      <4> HIDE DEF c
      <4>3. SumOn(c, Players) = SumOn(b, Players) - b[p] + c[p]
        BY <2>2, <4>2, SumChanges
      <4>. QED
        BY <2>1, <4>1, <4>2, <4>3
    <3> HIDE DEF c, k
    <3>4. /\ u.red_list = r.red_list /\ u.lost = r.lost /\ u.paid = c
          /\ u.redpackes = r.redpackes /\ u.already_get_red = asked
          /\ u.city_red_falg = r.city_red_falg /\ u.taken = k
      BY <2>1 DEF RedShape
    <3> HIDE DEF u
    <3>5. PacketTypes(u)
      BY <2>1, <3>2, <3>4 DEF PacketTypes
    <3>6. Waiting(r) = r.redpackes[p] + Waiting(u) /\ Waiting(u) \in Nat
      BY <2>3, <2>4, <3>4, <3>5, PacketSums
    <3>7. u.red_list + Waiting(u) + u.lost + SumOn(u.paid, Players) = RedPackes
      BY <2>1, <3>3, <3>4, <3>6 DEF Counted, PacketTypes
    <3>. QED
      BY <3>1, <3>5, <3>7 DEF Counted
  <2>. QED
    BY <2>5, <2>6
<1>. QED
  BY <1>1, <1>2

\* A packet that is popped waits for one player, or is lost.
LEMMA HandlerRedpacketCounts ==
  ASSUME NEW r, RedShape(r), Unmarked(r), Counted(r), r.redpackes = NoRedPackes,
         NEW ready \in SUBSET Players, NEW u \in HandlerRedpacket(r, ready)
  PROVE  Counted(u)
<1>1. CASE u = r
  BY <1>1
<1>2. CASE u # r
  <2>1. PICK n : n = r.red_list - 1
    OBVIOUS
  <2>2. /\ Waiting(r) = 0 /\ SumOn(r.paid, Players) \in Nat /\ PacketTypes(r)
    BY PacketSums DEF Counted
  <2>a. r.red_list # 0
    BY <1>2 DEF HandlerRedpacket
  <2>3. n \in Nat /\ r.red_list = n + 1 /\ r.lost \in Nat
    BY <2>1, <2>2, <2>a DEF PacketTypes
  <2> DEFINE popped == [r EXCEPT !.red_list = n]
             areas == {e \in (SUBSET ready) \X ready : e[2] \in e[1]}
             one(e) == [p \in Players |-> IF p = e[2] THEN 1 ELSE 0]
             draw(e) == [popped EXCEPT !.city_red_falg = @ \cup e[1], !.redpackes = one(e)]
  <2>4. u = [popped EXCEPT !.lost = @ + 1] \/ \E e \in areas : u = draw(e)
    BY <1>2, <2>1 DEF HandlerRedpacket
  <2>5. /\ RedShape(popped) /\ popped.red_list = n /\ popped.lost = r.lost
        /\ popped.paid = r.paid /\ popped.redpackes = NoRedPackes
        /\ popped.already_get_red = {} /\ popped.taken = {}
        /\ popped.city_red_falg = r.city_red_falg
    BY DEF RedShape, Unmarked
  <2> HIDE DEF popped
  <2>6. CASE u = [popped EXCEPT !.lost = @ + 1]
    <3>1. /\ u.red_list = n /\ u.lost = r.lost + 1 /\ u.paid = r.paid
          /\ u.redpackes = NoRedPackes /\ u.already_get_red = {} /\ u.taken = {}
          /\ u.city_red_falg = r.city_red_falg
      BY <2>5, <2>6 DEF RedShape
    <3>2. PacketTypes(u)
      BY <2>2, <2>3, <3>1 DEF PacketTypes
    <3>3. Waiting(u) = 0
      BY <3>1, <3>2, PacketSums
    <3>. QED
      BY <2>2, <2>3, <3>1, <3>2, <3>3 DEF Counted
  <2>7. ASSUME NEW e \in areas, u = draw(e) PROVE Counted(u)
    <3>1. e[1] \subseteq Players /\ e[2] \in Players
      BY <2>7
    <3>2. one(e) \in [Players -> 0 .. 1] /\ one(e)[e[2]] = 1
          /\ \A p \in Players \ {e[2]} : one(e)[p] = 0
      BY <3>1
    <3> HIDE DEF one
    <3>3. /\ u.red_list = n /\ u.lost = r.lost /\ u.paid = r.paid
          /\ u.redpackes = one(e) /\ u.already_get_red = {} /\ u.taken = {}
          /\ u.city_red_falg = r.city_red_falg \cup e[1]
      BY <2>5, <2>7 DEF RedShape
    <3>4. PacketTypes(u)
      BY <2>2, <2>3, <3>1, <3>2, <3>3 DEF PacketTypes
    <3>5. one(e) # NoRedPackes
      BY <3>1, <3>2 DEF NoRedPackes
    <3>6. Waiting(u) = 1
      <4>1. /\ IsFiniteSet(Players) /\ IsFiniteSet(Players \ {e[2]})
            /\ \A p \in Players : one(e)[p] \in Int
        BY <3>2, RedPacketsAssumption, FS_Subset
      <4>2. SumOn(one(e), Players \ {e[2]}) = 0
        BY <3>2, <4>1, SumOfZeros
      <4>3. SumOn(one(e), Players) = one(e)[e[2]] + SumOn(one(e), Players \ {e[2]})
        BY <3>1, <4>1, SumTakesOut
      <4>4. Waiting(u) = SumOn(one(e), Players)
        <5>1. Players \ {} = Players
          OBVIOUS
        <5>. QED
          BY <3>3, <3>5, <5>1, WaitingIsSum
      <4>. QED
        BY <3>2, <4>2, <4>3, <4>4
    <3>. QED
      BY <2>2, <2>3, <3>3, <3>4, <3>6 DEF Counted
  <2>. QED
    BY <2>4, <2>6, <2>7
<1>. QED
  BY <1>1, <1>2

LEMMA CountStep ==
  ASSUME TableInv(table), RedInv(table, red), Counted(red), [Next]_vars
  PROVE  Counted(red')
<1>1. /\ RedShape(red) /\ table.players \in SUBSET Players
  BY DEF TableInv, TableType, RedInv
<1>2. CASE red' = red
  BY <1>2
<1>3. ASSUME NEW n \in 2 .. SeatMax, GameStart(n), red' # red
      PROVE  Counted(red')
  <2>1. table.round_count = 1 /\ red' \in HandlerRedpacket(red, table.players)
    BY <1>3 DEF GameStart
  <2>2. red.redpackes = NoRedPackes /\ Unmarked(red)
    BY <2>1 DEF RedInv
  <2>. QED
    BY <1>1, <2>1, <2>2, HandlerRedpacketCounts
<1>4. CASE red' = ClearPackets(red)
  BY <1>1, <1>4, ClearPacketsCounts
<1>5. ASSUME NEW p \in Players, GetRedpacket(p)
      PROVE  Counted(red')
  BY <1>5, HandlerGetCounts DEF GetRedpacket
<1>. QED
  BY <1>2, <1>3, <1>4, <1>5
     DEF Next, vars, CreateAuto, Create, Join, Leave, TransferOwner, OwnerDismiss, Preready,
         FeeTimer, CleanTable, GameEnd, Vote

\* Every packet of the activity's list is in the list, waits for the player it
\* was drawn for, is lost or was paid once (handler_redpacket,
\* handler_get_redpacket_req, clean_table), however often it is asked for.
THEOREM PacketsAreCounted == Spec => []PacketIsPaidOnce
<1>1. Init => RedInv(table, red)
  BY DEF Init, NoPackets, RedInv, RedShape, Unmarked
<1>2. Init => Counted(red)
  <2> SUFFICES ASSUME Init PROVE Counted(red)
    OBVIOUS
  <2>1. /\ red.red_list = RedPackes /\ red.lost = 0 /\ red.redpackes = NoRedPackes
        /\ red.already_get_red = {} /\ red.city_red_falg = {} /\ red.taken = {}
        /\ red.paid = [p \in Players |-> 0]
    BY DEF Init, NoPackets
  <2>2. PacketTypes(red)
    BY <2>1, RedPacketsAssumption DEF PacketTypes
  <2>3. SumOn(red.paid, Players) = 0
    BY <2>1, RedPacketsAssumption, SumOfZeros
  <2>4. Waiting(red) = 0
    BY <2>1, <2>2, PacketSums
  <2>. QED
    BY <2>1, <2>2, <2>3, <2>4, RedPacketsAssumption DEF Counted
<1>3. TableInv(table) /\ RedInv(table, red) /\ Counted(red) /\ [Next]_vars
        => (RedInv(table, red) /\ Counted(red))'
  <2> SUFFICES ASSUME TableInv(table), RedInv(table, red), Counted(red), [Next]_vars
               PROVE  RedInv(table', red') /\ Counted(red')
    BY DEF RedInv, RedShape, Unmarked, Drawn, Counted, PacketTypes
  <2>. QED
    BY RedStep, CountStep
<1>4. Counted(red) => PacketIsPaidOnce
  <2> SUFFICES ASSUME Counted(red) PROVE PacketIsPaidOnce
    OBVIOUS
  <2>1. /\ PacketTypes(red) /\ Waiting(red) \in Nat /\ SumOn(red.paid, Players) \in Nat
        /\ red.red_list + Waiting(red) + red.lost + SumOn(red.paid, Players) = RedPackes
    BY PacketSums DEF Counted
  <2>2. red.red_list \in 0 .. RedPackes /\ red.lost \in 0 .. RedPackes
    BY <2>1, RedPacketsAssumption DEF PacketTypes
  <2>3. RedType
    BY <2>1, <2>2 DEF RedType, PacketTypes
  <2>4. MapThenSumSet(LAMBDA p : red.paid[p], Players) = SumOn(red.paid, Players)
    BY PaidIsSum
  <2>. QED
    BY <2>1, <2>3, <2>4 DEF PacketIsPaidOnce
<1>. QED
  BY <1>1, <1>2, <1>3, <1>4, TableIsInOrder, PTL DEF Spec

=============================================================================
