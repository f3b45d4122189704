------------------------------ MODULE TableFees ------------------------------
(***************************************************************************)
(* What a table costs, who pays it and gets it back, and where the table   *)
(* is listed: tables that players create for themselves, for others        *)
(* (substitute), or at a club, and those a club keeps open by itself       *)
(* (auto_flag).                                                            *)
(*                                                                         *)
(* Room has the life of a table in detail; here it is only waiting for its *)
(* first hand, playing, between two hands, or closing (game_end_flag), and *)
(* nobody gets ready while it is closing.  Red packets come with the       *)
(* second hand.                                                            *)
(***************************************************************************)
EXTENDS RedPackets

CONSTANTS
  Nobody,         \* owner_uid = -1
  Club,           \* the account of the club, and the owner of its own tables
  SeatMax,        \* seat_max
  MaxPlayBoard,   \* max_play_board
  MaxTransfers,   \* bound: transfers of a table
  AutoRooms       \* values of auto_flag: the tables a club keeps open

ASSUME TableFeesAssumption ==
  /\ Nobody \notin Players /\ Club \notin Players \cup {Nobody}
  /\ SeatMax \in Nat /\ SeatMax >= 2
  /\ MaxPlayBoard \in Nat /\ MaxPlayBoard >= 1 /\ MaxTransfers \in Nat
  /\ AutoRooms \subseteq {1, 2, 3}

VARIABLE table

vars == <<table, red>>

Payers == Players \cup {Club}
NoAutoFlag == 0

\* How tables are created: who has it (kind), cost_select_flag, rmb_cost of the
\* club and auto_flag.
Ways ==
  {[kind |-> "own", cost_select_flag |-> c, rmb_cost |-> 0, auto_flag |-> NoAutoFlag] : c \in {1, 2}}
    \cup {[kind |-> "substitute", cost_select_flag |-> 1, rmb_cost |-> 0, auto_flag |-> NoAutoFlag]}
    \cup {[kind |-> "club", cost_select_flag |-> 1, rmb_cost |-> c, auto_flag |-> NoAutoFlag] : c \in {0, 1}}
    \cup {[kind |-> "club", cost_select_flag |-> 1, rmb_cost |-> 0, auto_flag |-> a] : a \in AutoRooms}

Own(t) == t.way.kind = "own"
IsAuto(t) == t.way.auto_flag # NoAutoFlag

-----------------------------------------------------------------------------
(* Accounts and the list of tables.                                        *)

NoCharge == [x \in Payers |-> 0]

\* incr_rmb, incr_club_rmb: what the account was charged, less what it got back.
Charge(t, x, v) == [t EXCEPT !.charged[x] = @ + v]

\* incr_club_every_rmb: the player's part in what the club spends.
Count(t, p, v) == [t EXCEPT !.every[p] = @ + v]

\* The entry of the table in redis; its key is made of the owner.
NoEntry == [key |-> Nobody, size |-> 0, status |-> 0]
Found(t) == t.entry.key # Nobody /\ t.entry.key = t.owner_uid

\* modify_substitute_info, modify_club_info: a player more ...
CountIn(t) == IF Found(t) THEN [t EXCEPT !.entry.size = @ + 1] ELSE t

\* ... the players counted again ...
CountAgain(t) ==
  IF Found(t) /\ t.entry.size > 0 THEN [t EXCEPT !.entry.size = Cardinality(t.players)] ELSE t

\* ... or the game has started.
Started(t) == IF Found(t) THEN [t EXCEPT !.entry.status = 1] ELSE t

\* clear_substitute_info, clear_club_info.
Unlist(t) == IF Found(t) THEN [t EXCEPT !.entry = NoEntry] ELSE t

-----------------------------------------------------------------------------
(* clean_table.                                                            *)

\* Mutant of Refundable: what a vote ended is charged for.
RefundableUnplayed(t) == t.round_count = 0

\* Nothing was played to an end.
Refundable(t) == t.round_count = 0 \/ t.need_return_diamo

\* What a table that was paid for ahead gives back.
Refund(t) ==
  CASE ~ Refundable(t) \/ Own(t) -> t
    [] Refundable(t) /\ t.way.kind = "substitute" -> Charge(t, t.owner_uid, -1)
    [] Refundable(t) /\ t.way.kind = "club" /\ IsAuto(t) -> Charge(t, Club, -1)
    [] Refundable(t) /\ t.way.kind = "club" /\ ~ IsAuto(t) ->
         IF t.way.rmb_cost = 0 THEN Charge(Count(t, t.owner_uid, -1), Club, -1)
         ELSE Charge(t, t.owner_uid, -1)

\* create_table_cost: the owner pays, or everybody does.
CreateTableCost(t) ==
  IF t.way.cost_select_flag = 1 THEN Charge(t, t.owner_uid, 1)
  ELSE [t EXCEPT !.charged = [x \in Payers |-> IF x \in t.players THEN @[x] + 1 ELSE @[x]]]

\* A player's own table is paid for at the end, or was at its transfer.
Settle(t) ==
  CASE t.round_count > 0 /\ Own(t) /\ ~ t.transfer_flag /\ ~ t.need_return_diamo -> CreateTableCost(t)
    [] t.round_count > 0 /\ Own(t) /\ t.transfer_flag /\ t.need_return_diamo ->
         Charge(t, t.origin_owner_uid, -1)
    [] OTHER -> t

\* The club's room is free to be opened again.
AutoRoomOff(t) == [t EXCEPT !.auto_room = @ \ {t.way.auto_flag}]

\* The table is free.
Cleaned(t) ==
  [t EXCEPT !.stage = "free", !.players = {}, !.owner_uid = Nobody, !.origin_owner_uid = Nobody,
            !.round_count = 0, !.transfer_flag = FALSE, !.max_ready_players = SeatMax,
            !.game_end_count_flag = FALSE, !.need_return_diamo = FALSE, !.fee_timer = FALSE]

CleanTable(t) ==
  LET paid == Settle(Refund(t))
      free == IF t.round_count = 0 THEN AutoRoomOff(paid) ELSE paid
      gone == Unlist(CountAgain([free EXCEPT !.players = {}]))
  IN  /\ table' = Cleaned(gone)
      /\ red' = ClearPackets(red)

-----------------------------------------------------------------------------
(* Creating a table, sitting down, leaving.                                *)

\* handler_substitute_req, handler_club_create_req: paid for ahead, by whoever
\* creates the table or by his club, as the club has it.
ChargeAhead(t, p) ==
  CASE t.way.kind = "substitute" -> Charge(t, p, 1)
    [] t.way.kind = "club" -> Charge(Count(t, p, 1), IF t.way.rmb_cost = 0 THEN Club ELSE p, 1)
    [] OTHER -> t

\* init_table_type, and the history of the table.  It has a number of its own,
\* so what is left of the list entry of another is not its own.
New(way, p) ==
  [table EXCEPT !.stage = "waiting", !.way = way, !.owner_uid = p, !.creator = p,
                !.game_end_count_flag = FALSE, !.need_return_diamo = FALSE,
                !.entry = NoEntry, !.charged = NoCharge, !.every = [x \in Payers |-> 0],
                !.finished = FALSE, !.transfers = 0]

\* Sitting down is part of creating it, but for a substitute, who need not play.
Seat(t, p) == CountIn([t EXCEPT !.players = @ \cup {p}])

CreateAhead(t, p) ==
  [ChargeAhead(t, p) EXCEPT !.entry = [NoEntry EXCEPT !.key = p], !.fee_timer = TRUE]

\* handler_login with CLIENT_CREATE_TABLE_REQ.
Create(way, p) ==
  /\ table.stage = "free" /\ way.auto_flag = NoAutoFlag
  /\ LET t == New(way, p)
         ahead == IF Own(t) THEN t ELSE CreateAhead(t, p)
     IN  table' = IF way.kind = "substitute" THEN ahead
                  ELSE Seat([ahead EXCEPT !.origin_owner_uid = p], p)
  /\ UNCHANGED red

\* handler_club_auto_create_req.  The server has charged the club before.
CreateAuto(way) ==
  /\ table.stage = "free" /\ way.auto_flag # NoAutoFlag
  /\ table' = [Charge(New(way, Club), Club, 1) EXCEPT
                 !.entry = [NoEntry EXCEPT !.key = Club], !.auto_room = @ \cup {way.auto_flag}]
  /\ UNCHANGED red

\* handler_login.
Join(p) ==
  /\ table.stage = "waiting" /\ p \notin table.players
  /\ Cardinality(table.players) < table.max_ready_players
  /\ table' = Seat(table, p)
  /\ UNCHANGED red

\* Mutant of DelPlayer: the list is not told.
DelPlayerUncounted(t, p) == [t EXCEPT !.players = @ \ {p}]

DelPlayer(t, p) == CountAgain([t EXCEPT !.players = @ \ {p}])

\* handler_dismiss_table before the first hand: the owner closes the table,
\* anybody else leaves it.
Leave(p) ==
  /\ table.stage = "waiting" /\ p \in table.players \ {table.owner_uid}
  /\ table' = DelPlayer(table, p)
  /\ UNCHANGED red

OwnerDismiss(p) ==
  /\ table.stage = "waiting" /\ p \in table.players /\ p = table.owner_uid
  /\ CleanTable(IF table.transfer_flag THEN Charge(table, table.origin_owner_uid, -1) ELSE table)

\* handler_transfer_owner_req, which asks neither whether a club has paid nor
\* where the table is listed.
TransferOwner(p, q) ==
  /\ table.stage = "waiting" /\ p = table.owner_uid /\ q \in table.players \ {p}
  /\ table.way.kind # "substitute" /\ table.way.cost_select_flag # 2
  /\ table.transfers < MaxTransfers
  /\ table' = [IF table.transfer_flag THEN table ELSE Charge(table, table.origin_owner_uid, 1)
                 EXCEPT !.owner_uid = q, !.transfer_flag = TRUE, !.transfers = @ + 1]
  /\ UNCHANGED red

-----------------------------------------------------------------------------
(* Hands, votes and timers.                                                *)

\* game_start before the first hand.
FirstHand(t) == Started(AutoRoomOff(t))

\* Mutant of StopFeeTimer: the timer of an unplayed table goes on.
StopFeeTimerNot(t) == t

StopFeeTimer(t) == [t EXCEPT !.fee_timer = FALSE]

\* game_start, once all are ready, or agreed to start with fewer.
GameStart(n) ==
  /\ table.stage \in {"waiting", "between"} /\ table.round_count < MaxPlayBoard
  /\ n = Cardinality(table.players) /\ n >= 2
  /\ table.stage = "between" => n = table.max_ready_players
  /\ LET t == StopFeeTimer(table)
     IN  table' = [IF t.round_count = 0 THEN FirstHand(t) ELSE t EXCEPT
                     !.stage = "playing", !.round_count = @ + 1, !.max_ready_players = n]
  /\ IF table.round_count = 1 /\ n = SeatMax
     THEN red' \in HandlerRedpacket(red, table.players) ELSE UNCHANGED red

\* game_end by a hand that was played to its end.
GameEnd ==
  /\ table.stage = "playing"
  /\ table' = [table EXCEPT !.stage = IF table.round_count = MaxPlayBoard THEN "closing" ELSE "between",
                            !.game_end_count_flag = TRUE, !.finished = TRUE]
  /\ UNCHANGED red

\* game_end by a vote or its timeout.
Vote ==
  /\ table.stage \in {"playing", "between"}
  /\ table' = [table EXCEPT !.stage = "closing", !.game_end_count_flag = TRUE,
                            !.need_return_diamo = @ \/ ~ table.game_end_count_flag]
  /\ UNCHANGED red

\* preready_timer at a table that is closing.
Preready == table.stage = "closing" /\ CleanTable(table)

\* subs_timer_cb, club_timer_cb.
FeeTimer == table.fee_timer /\ CleanTable([table EXCEPT !.fee_timer = FALSE])

GetRedpacket(p) ==
  /\ p \in table.players
  /\ red' = HandlerGet(red, p)
  /\ UNCHANGED table

-----------------------------------------------------------------------------
Init ==
  /\ red = NoPackets(RedPackes)
  /\ table = [stage |-> "free", way |-> CHOOSE w \in Ways : w.kind = "own",
              players |-> {}, owner_uid |-> Nobody, origin_owner_uid |-> Nobody,
              round_count |-> 0, max_ready_players |-> SeatMax, transfer_flag |-> FALSE,
              game_end_count_flag |-> FALSE, need_return_diamo |-> FALSE,
              fee_timer |-> FALSE, entry |-> NoEntry, auto_room |-> {},
              \* History: what this table cost whom, who created it, whether a
              \* hand of it was finished, and how often it changed owners.
              charged |-> NoCharge, every |-> [x \in Payers |-> 0],
              creator |-> Nobody, finished |-> FALSE, transfers |-> 0]

Next ==
  \/ \E w \in Ways : CreateAuto(w) \/ \E p \in Players : Create(w, p)
  \/ \E p \in Players : Join(p) \/ Leave(p) \/ OwnerDismiss(p) \/ GetRedpacket(p)
  \/ \E p, q \in Players : TransferOwner(p, q)
  \/ \E n \in 2 .. SeatMax : GameStart(n)
  \/ GameEnd \/ Vote \/ Preready \/ FeeTimer

Spec == Init /\ [][Next]_vars

-----------------------------------------------------------------------------
TypeOK ==
  /\ table.stage \in {"free", "waiting", "playing", "between", "closing"}
  /\ table.way \in Ways /\ table.players \subseteq Players
  /\ {table.owner_uid, table.creator} \subseteq Players \cup {Nobody, Club}
  /\ table.origin_owner_uid \in Players \cup {Nobody}
  /\ table.round_count \in 0 .. MaxPlayBoard /\ table.max_ready_players \in 2 .. SeatMax
  /\ table.charged \in [Payers -> Int] /\ table.every \in [Payers -> Int]
  /\ table.entry.size \in Nat /\ table.transfers \in 0 .. MaxTransfers /\ table.auto_room \subseteq AutoRooms

\* Who is to pay for a table.
PaysFor(t) ==
  CASE Own(t) /\ t.way.cost_select_flag = 2 -> t.players
    [] t.way.kind = "club" /\ t.way.rmb_cost = 0 -> {Club}
    [] OTHER -> {t.creator}

\* A club's table that a player handed on: its creator was charged besides the
\* club, and the list does not know it any more.
Moved(t) == t.way.kind = "club" /\ t.transfers > 0

\* A table costs whoever is to pay for it once if a hand of it was finished,
\* and nobody anything if none was, whether it was paid for ahead, at a
\* transfer or at the end, and whoever closed it when; what a club counts as its
\* player's part is what it spent.  (Not so for a club's table that moved.)
TableIsPaidForByItsPayer ==
  [][table.stage # "free" /\ table'.stage = "free" /\ ~ Moved(table) =>
       /\ \A x \in Payers : table'.charged[x] = IF table.finished /\ x \in PaysFor(table) THEN 1 ELSE 0
       /\ table.way.kind = "club" /\ ~ IsAuto(table) /\ table.way.rmb_cost = 0 =>
            table'.every[table.creator] = table'.charged[Club]]_vars

\* A table paid for ahead is given back by its timer until its first hand
\* starts, and never after: the timer wipes no hand and no later table.
UnplayedTableIsTimed ==
  table.fee_timer <=>
    table.stage = "waiting" /\ ~ Own(table) /\ ~ IsAuto(table)

\* A table of a substitute or a club is listed while it is in use, with the
\* number of players at it and whether they play; and the club's rooms that
\* wait for players are those announced as open: neither a start nor a closing
\* leaves one announced that is not there.  (And the fields keep their types.)
ListIsCurrent ==
  /\ TypeOK
  /\ ~ Moved(table) =>
       table.entry = IF table.stage = "free" \/ Own(table) THEN NoEntry
                     ELSE [key |-> table.creator, size |-> Cardinality(table.players),
                           status |-> IF table.round_count = 0 THEN 0 ELSE 1]
  /\ table.auto_room =
       IF table.stage = "waiting" /\ IsAuto(table) THEN {table.way.auto_flag} ELSE {}
=============================================================================
