-------------------------------- MODULE Room --------------------------------
(***************************************************************************)
(* The life of one table of table.cc: players sit down, get ready, play up *)
(* to max_play_board hands, are dismissed by a vote, and the table is      *)
(* cleaned for the next owner.                                             *)
(*                                                                         *)
(* One event loop runs the handlers and the timer callbacks one at a time. *)
(* A handler calls others (handler_ready, test_game_start, game_start), so *)
(* the table is one record and every function of the code is a function    *)
(* from tables to tables; an action is a handler or a callback.            *)
(*                                                                         *)
(* Seats are told apart by who sits there.  A hand is only its end here    *)
(* (Round is its inside): somebody wins, or the deck runs out.  The tables *)
(* are those a player creates for himself (substitute = 0, clubid = 0).    *)
(***************************************************************************)
EXTENDS Integers, FiniteSets

CONSTANTS
  Players,         \* user ids
  Nobody,          \* owner_uid = -1
  SeatMax,         \* seat_max
  MaxPlayBoard     \* max_play_board

ASSUME RoomAssumption ==
  /\ IsFiniteSet(Players) /\ Nobody \notin Players
  /\ SeatMax \in Nat /\ SeatMax >= 2
  /\ MaxPlayBoard \in Nat /\ MaxPlayBoard >= 1

VARIABLE room

Timers == {"preready", "ready", "ji_card", "dismiss", "ahead_start"}

-----------------------------------------------------------------------------
(* Small pieces.                                                           *)

CurPlayers(r) == Cardinality(r.players)
AtLeastTwo(n) == IF n < 2 THEN 2 ELSE n

Arm(r, t) == [r EXCEPT !.timers = @ \cup {t}]
Stop(r, t) == [r EXCEPT !.timers = @ \ {t}]

\* Mutant of Reset: a reset stops the timer that is to clean the table.
ResetStopsPreready(r) == [r EXCEPT !.state = "READY",
                                   !.ready_players = 0,
                                   !.ahead_start_flag = FALSE,
                                   !.already_update_account_bet = FALSE,
                                   !.timers = @ \ {"preready"}]

\* Table::reset; what the seats hold stays.
Reset(r) == [r EXCEPT !.state = "READY",
                      !.ready_players = 0,
                      !.ahead_start_flag = FALSE,
                      !.already_update_account_bet = FALSE]

\* update_account_bet settles a hand once.
UpdateAccountBet(r) ==
  IF r.already_update_account_bet THEN r
  ELSE [r EXCEPT !.already_update_account_bet = TRUE, !.settled = @ + 1]

-----------------------------------------------------------------------------
(* The start and the end of a hand.                                        *)

GameStart(r) == [r EXCEPT !.state = "BETTING",
                          !.round_count = @ + 1,
                          !.settled = 0,
                          !.recorded = 0]

TestGameStart(r) ==
  IF r.ready_players < AtLeastTwo(r.max_ready_players) THEN Stop(r, "ready")
  ELSE IF r.state \notin {"READY", "ROOM_WAIT_GAME"} THEN r
  ELSE GameStart(Stop(r, "ready"))

\* Mutant of RoundIsOver: off by one.
RoundIsOverLate(r, flag) == flag \/ r.round_count > MaxPlayBoard

\* The round is over: the boards are played, or a vote (flag) ended it.
RoundIsOver(r, flag) == flag \/ r.round_count >= MaxPlayBoard

\* Mutant of SaveFlag: whatever the state, the hand is saved.
SaveFlagAlways(r) == TRUE

\* Only a hand under play is settled and recorded.
SaveFlag(r) == r.state = "BETTING"

\* game_end.  insert_flow_record and async_save go together; preready_timer is
\* rearmed, hence behind a ji_card_timer that is already running.
GameEnd(r, flag) ==
  LET ended == [r EXCEPT !.state = "END_GAME", !.game_end_count_flag = TRUE]
      saved == IF SaveFlag(r)
               THEN [UpdateAccountBet(ended) EXCEPT
                       !.recorded = @ + 1,
                       !.finished = IF flag THEN @ ELSE @ + 1]
               ELSE ended
      closed == IF RoundIsOver(r, flag)
                THEN [saved EXCEPT !.round_records = @ + 1, !.game_end_flag = TRUE]
                ELSE saved
  IN  IF r.players = {} THEN ended
      ELSE [Arm(closed, "preready") EXCEPT !.ji_card_late = FALSE]

\* ji_game_end: a win is settled at once and ends the hand a second later.
JiGameEnd(r) ==
  [Arm(UpdateAccountBet(r), "ji_card")
     EXCEPT !.ji_card_late = "preready" \in r.timers]

-----------------------------------------------------------------------------
(* clean_table.                                                            *)

\* create_table_cost: the owner pays, or every seated player his share.
CreateTableCost(r) == IF r.cost_select_flag = 1 THEN 1 ELSE CurPlayers(r)

\* What cleaning charges, or refunds after a transfer.
CleaningCharge(r) ==
  CASE r.round_count > 0 /\ ~ r.transfer_flag /\ ~ r.need_return_diamo -> CreateTableCost(r)
    [] r.round_count > 0 /\ r.transfer_flag /\ r.need_return_diamo -> -1
    [] OTHER -> 0

\* Mutant of CleanTable: the vote's timer is left running.
CleanTableKeepsVote(r) ==
  [Reset(r) EXCEPT !.paid = @ + CleaningCharge(r),
                   !.players = {}, !.ready = {}, !.ahead_start = {},
                   !.round_count = 0, !.dismiss = {},
                   !.owner_uid = Nobody, !.transfer_flag = FALSE,
                   !.max_ready_players = SeatMax,
                   !.game_end_flag = FALSE, !.game_end_count_flag = FALSE,
                   !.need_return_diamo = FALSE,
                   !.timers = @ \ {"preready", "ready", "ahead_start"}]

CleanTable(r) ==
  [Reset(r) EXCEPT !.paid = @ + CleaningCharge(r),
                   !.players = {}, !.ready = {}, !.ahead_start = {},
                   !.round_count = 0, !.dismiss = {},
                   !.owner_uid = Nobody, !.transfer_flag = FALSE,
                   !.max_ready_players = SeatMax,
                   !.game_end_flag = FALSE, !.game_end_count_flag = FALSE,
                   !.need_return_diamo = FALSE,
                   !.timers = @ \ {"preready", "ready", "dismiss", "ahead_start"}]

-----------------------------------------------------------------------------
(* Sitting down, getting ready, leaving.                                   *)

\* init_table_type and handler_login with CLIENT_CREATE_TABLE_REQ.  Whoever
\* creates the table chooses who pays: he (cost 1) or everybody (cost 2).
Create(p, cost) ==
  /\ room.owner_uid = Nobody
  /\ room' = [room EXCEPT !.players = {p}, !.owner_uid = p,
                          !.cost_select_flag = cost,
                          !.state = "ROOM_WAIT_GAME",
                          !.ahead_start_flag = FALSE,
                          !.game_end_count_flag = FALSE,
                          !.need_return_diamo = FALSE,
                          !.already_update_account_bet = FALSE,
                          !.paid = 0, !.round_records = 0, !.finished = 0,
                          !.settled = 0, !.recorded = 0]

\* handler_login and handler_table_info.  Who may join is decided outside, by
\* get_max_players, which is max_ready_players.
Join(p) ==
  /\ room.owner_uid # Nobody /\ p \notin room.players
  /\ CurPlayers(room) < room.max_ready_players
  /\ room' = [room EXCEPT !.players = @ \cup {p},
                          !.state = IF room.round_count = 0 THEN "ROOM_WAIT_GAME" ELSE @]

\* Mutant of HandlerReady: a seat that is ready already counts again.
HandlerReadyTwice(r, p) ==
  LET q == [r EXCEPT !.ready_players = @ + 1, !.ready = @ \cup {p},
                       !.late_ready = @ \/ r.game_end_flag]
  IN  IF r.state \notin {"READY", "ROOM_WAIT_GAME"} THEN r
      ELSE IF q.ready_players = CurPlayers(q) /\ q.ready_players >= q.max_ready_players
      THEN TestGameStart(q) ELSE q

HandlerReady(r, p) ==
  LET q == [r EXCEPT !.ready_players = @ + 1, !.ready = @ \cup {p},
                       !.late_ready = @ \/ r.game_end_flag]
  IN  IF r.state \notin {"READY", "ROOM_WAIT_GAME"} \/ p \in r.ready THEN r
      ELSE IF q.ready_players = CurPlayers(q) /\ q.ready_players >= q.max_ready_players
      THEN TestGameStart(q) ELSE q

Ready(p) ==
  /\ p \in room.players
  /\ room' = HandlerReady(room, p)

\* Mutant of DelPlayer: the counter goes down whoever leaves.
DelPlayerUncounts(r, p) ==
  [r EXCEPT !.ready_players = @ - 1,
            !.players = @ \ {p}, !.ready = @ \ {p}, !.ahead_start = @ \ {p}]

DelPlayer(r, p) ==
  [r EXCEPT !.ready_players = IF p \in r.ready THEN @ - 1 ELSE @,
            !.players = @ \ {p}, !.ready = @ \ {p}, !.ahead_start = @ \ {p}]

\* Mutant of TransferOwner: the new owner need not sit at the table.
TransferOwnerToAnybody(p, q) ==
  /\ p = room.owner_uid /\ q # p
  /\ room.round_count = 0 /\ room.cost_select_flag # 2
  /\ room' = [room EXCEPT !.paid = IF room.transfer_flag THEN @ ELSE @ + 1,
                          !.owner_uid = q, !.transfer_flag = TRUE]

\* handler_transfer_owner_req; the first transfer is paid at once, by the
\* player who created the table.
TransferOwner(p, q) ==
  /\ p = room.owner_uid /\ q \in room.players \ {p}
  /\ room.round_count = 0 /\ room.cost_select_flag # 2
  /\ room' = [room EXCEPT !.paid = IF room.transfer_flag THEN @ ELSE @ + 1,
                          !.owner_uid = q, !.transfer_flag = TRUE]

-----------------------------------------------------------------------------
(* Starting with fewer players than seats: handler_start_game_req.         *)

MayAskToStart(p) ==
  /\ p \in room.players /\ room.state = "ROOM_WAIT_GAME"
  /\ CurPlayers(room) \notin {1, SeatMax}

ForgetVotes(r) == [Stop(r, "ahead_start") EXCEPT !.ahead_start = {}, !.ahead_start_flag = FALSE]

AskToStart(p) ==
  /\ MayAskToStart(p)
  /\ LET q == [room EXCEPT !.ahead_start = @ \cup {p}]
     IN  room' = CASE ~ room.ahead_start_flag ->
                        Arm([q EXCEPT !.ahead_start_flag = TRUE], "ahead_start")
                   [] room.ahead_start_flag /\ q.players \subseteq q.ahead_start ->
                        TestGameStart([ForgetVotes(q) EXCEPT
                          !.max_ready_players = AtLeastTwo(CurPlayers(q))])
                   [] OTHER -> q

RefuseToStart(p) ==
  /\ MayAskToStart(p)
  /\ room' = IF room.ahead_start_flag THEN ForgetVotes(room)
             ELSE [room EXCEPT !.ahead_start = @ \ {p}]

AheadStartTimer ==
  /\ "ahead_start" \in room.timers
  /\ room' = ForgetVotes(room)

-----------------------------------------------------------------------------
(* The end of a hand, and what the timers do about it.                     *)

\* Somebody wins.  The state stays BETTING until ji_card_timer, so that a
\* second HU is handled like the first.
Win ==
  /\ room.state = "BETTING"
  /\ room' = JiGameEnd(room)

\* The deck runs out.  A client that has seen the win plays no more tiles.
HuangZhuang ==
  /\ room.state = "BETTING"
  /\ "ji_card" \notin room.timers
  /\ room' = GameEnd(room, FALSE)

JiCardTimer ==
  /\ "ji_card" \in room.timers
  /\ room' = GameEnd(Stop(room, "ji_card"), FALSE)

\* Mutant of HandlerPreready: the flag is not looked at.
HandlerPrereadyNeverCleans(r) ==
  Arm([Reset(r) EXCEPT !.ready = {}, !.ahead_start = {}], "ready")

HandlerPreready(r) ==
  IF r.game_end_flag THEN CleanTable(r)
  ELSE Arm([Reset(r) EXCEPT !.ready = {}, !.ahead_start = {}], "ready")

\* ji_card_timer takes one second, preready_timer six: the latter is first
\* only if it was running when the other was armed.
PrereadyTimer ==
  /\ "preready" \in room.timers
  /\ "ji_card" \in room.timers => room.ji_card_late
  /\ room' = HandlerPreready(Stop(room, "preready"))

ReadyTimer ==
  /\ "ready" \in room.timers
  /\ room' = TestGameStart(Stop(room, "ready"))

-----------------------------------------------------------------------------
(* handler_dismiss_table.                                                  *)

MayDismiss(p) == p \in room.players /\ ~ room.game_end_flag

\* Mutant of OwnerDismiss: the owner may close the table at any time.
OwnerDismissAnytime(p) ==
  /\ MayDismiss(p) /\ p = room.owner_uid
  /\ room' = Reset(CleanTable([room EXCEPT !.paid = IF room.transfer_flag THEN @ - 1 ELSE @]))

\* Before the first hand the owner closes the table, anybody else leaves.
OwnerDismiss(p) ==
  /\ MayDismiss(p) /\ room.round_count = 0 /\ p = room.owner_uid
  /\ room' = Reset(CleanTable([room EXCEPT !.paid = IF room.transfer_flag THEN @ - 1 ELSE @]))

Leave(p) ==
  /\ MayDismiss(p) /\ room.round_count = 0 /\ p # room.owner_uid
  /\ room' = DelPlayer(room, p)

CancelVote(r) == [Stop(r, "dismiss") EXCEPT !.dismiss = {}]

Refuse(p) ==
  /\ MayDismiss(p) /\ room.round_count > 0
  /\ room' = CancelVote(room)

\* Mutant of Dismissed: the fee is charged for a first hand nobody finished.
DismissedKeepsFee(r) == Reset([GameEnd(r, TRUE) EXCEPT !.dismiss = {}])

\* The round ends by vote.  What was not played to an end is not charged for.
Dismissed(r) ==
  LET q == [r EXCEPT !.need_return_diamo = @ \/ ~ r.game_end_count_flag]
  IN  Reset([GameEnd(q, TRUE) EXCEPT !.dismiss = {}])

\* Mutant of Agree: the first one to agree starts no timer.
AgreeUntimed(p) ==
  /\ MayDismiss(p) /\ room.round_count > 0 /\ p \notin room.dismiss
  /\ LET q == [room EXCEPT !.dismiss = @ \cup {p}]
     IN  room' = IF Cardinality(q.dismiss) >= room.max_ready_players - 1
                 THEN Dismissed(Stop(q, "dismiss")) ELSE q

Agree(p) ==
  /\ MayDismiss(p) /\ room.round_count > 0 /\ p \notin room.dismiss
  /\ LET q == [room EXCEPT !.dismiss = @ \cup {p}]
     IN  room' = CASE room.dismiss = {} -> Arm(q, "dismiss")
                   [] room.dismiss # {}
                        /\ Cardinality(q.dismiss) >= room.max_ready_players - 1 ->
                          Dismissed(Stop(q, "dismiss"))
                   [] OTHER -> q

\* dismiss_timeout; game_end_flag is not looked at.
DismissTimer ==
  /\ "dismiss" \in room.timers
  /\ room' = Dismissed(Stop(room, "dismiss"))

-----------------------------------------------------------------------------
\* Table::init.
Init ==
  room = [state |-> "ROOM_WAIT_GAME", owner_uid |-> Nobody,
          players |-> {}, ready |-> {}, ready_players |-> 0,
          max_ready_players |-> SeatMax, cost_select_flag |-> 1, round_count |-> 0,
          ahead_start |-> {}, ahead_start_flag |-> FALSE, transfer_flag |-> FALSE,
          dismiss |-> {}, game_end_flag |-> FALSE, game_end_count_flag |-> FALSE,
          need_return_diamo |-> FALSE, already_update_account_bet |-> FALSE,
          timers |-> {}, ji_card_late |-> FALSE,
          \* History: the current hand's settlements and records; the table's
          \* hands that were not ended by a vote, its round records, and what
          \* its players were charged for it; and whether anybody ever got ready
          \* at a table that was closing.
          settled |-> 0, recorded |-> 0, late_ready |-> FALSE,
          finished |-> 0, round_records |-> 0, paid |-> 0]

Request ==
  \/ \E p \in Players, cost \in {1, 2} : Create(p, cost)
  \/ \E p \in Players :
       \/ Join(p) \/ Ready(p) \/ Leave(p) \/ OwnerDismiss(p)
       \/ AskToStart(p) \/ RefuseToStart(p) \/ Agree(p) \/ Refuse(p)
  \/ \E p, q \in Players : TransferOwner(p, q)
  \/ Win
  \/ HuangZhuang

Next ==
  \/ Request
  \/ AheadStartTimer
  \/ JiCardTimer
  \/ PrereadyTimer
  \/ ReadyTimer
  \/ DismissTimer

Spec == Init /\ [][Next]_room

\* The event loop runs the callback of every timer that has expired; no player
\* has to do anything.
Fairness ==
  /\ WF_room(AheadStartTimer) /\ WF_room(JiCardTimer) /\ WF_room(PrereadyTimer)
  /\ WF_room(ReadyTimer) /\ WF_room(DismissTimer)

FairSpec == Spec /\ Fairness

-----------------------------------------------------------------------------
TableType ==
  [state : {"ROOM_WAIT_GAME", "READY", "BETTING", "END_GAME"},
   owner_uid : Players \cup {Nobody},
   players : SUBSET Players, ready : SUBSET Players, ready_players : Nat,
   max_ready_players : 2 .. SeatMax, cost_select_flag : {1, 2}, round_count : Nat,
   ahead_start : SUBSET Players, ahead_start_flag : BOOLEAN, transfer_flag : BOOLEAN,
   dismiss : SUBSET Players, game_end_flag : BOOLEAN, game_end_count_flag : BOOLEAN,
   need_return_diamo : BOOLEAN, already_update_account_bet : BOOLEAN,
   timers : SUBSET Timers, ji_card_late : BOOLEAN,
   settled : Nat, recorded : Nat, late_ready : BOOLEAN, finished : Nat, round_records : Nat, paid : Int]

TypeOK == room \in TableType

\* ready_players counts the seats that are ready, through joins, leaves, votes
\* and dismissals: test_game_start trusts the counter and never looks at the
\* seats.  (A vote resets the counter alone; the table is then closing.)
ReadyPlayersAreCounted ==
  room.game_end_flag \/ room.ready_players = Cardinality(room.ready)

\* A hand that is over has been settled once and recorded once, though a win
\* is settled a second before the hand ends, may be sent twice, and a vote or
\* its timeout may end the table in between.  (This and the next two hold until
\* somebody gets ready at a table that is closing, which handler_ready allows.)
HandIsSettledAndRecordedOnce ==
  ~ room.late_ready =>
    /\ room.settled <= 1 /\ room.recorded <= 1
    /\ room.round_count > 0 /\ room.state # "BETTING" =>
         room.settled = 1 /\ room.recorded = 1

\* A round has as many hands as were paid for ("how many hands this round
\* plays", table.h:402), whatever timers are left over from the last one.
NoHandBeyondTheRound == room.round_count <= MaxPlayBoard

\* A vote to dismiss is open exactly while its timer runs: no agreement is
\* kept for a later vote, no timer ends a table nobody asked to end.
OpenVoteHasTimer == room.dismiss # {} <=> "dismiss" \in room.timers

\* Whoever pays for the table is still at it when clean_table looks him up
\* (players[owner_uid]), after any transfers and departures.
OwnerIsSeated == room.owner_uid # Nobody => room.owner_uid \in room.players

\* A table that is to be closed has its cleaning on the way.
ClosingIsScheduled == room.game_end_flag => "preready" \in room.timers

Cleaned == room.owner_uid # Nobody /\ room'.owner_uid = Nobody

\* A table is paid for once, by its owner or by everybody, if a hand of it was
\* played to the end, and is free if the first one was voted away: a transfer
\* charges ahead, closing refunds, and cleaning settles the rest.
TableIsPaidForOnce ==
  [][Cleaned /\ ~ room.late_ready => room'.paid = IF room.finished = 0 THEN 0 ELSE CreateTableCost(room)]_room

\* A vote closes the table between two hands or ends the hand under play; no
\* hand is wiped off the table while it is played, and no played round is
\* cleaned away without its record.
NoHandIsWiped ==
  [][Cleaned => /\ ~ room.late_ready => room.state # "BETTING"
                /\ room.round_count > 0 => room.round_records >= 1]_room

\* A vote does not stay open: it is refused, agreed to or runs out.
VoteIsDecided == room.dismiss # {} ~> room.dismiss = {}

Stuck == room.state = "END_GAME" /\ room.players # {}

\* A closed table becomes free again, and nobody stays at a table in END_GAME,
\* where nobody can get ready.
ClosedTableIsCleaned ==
  /\ room.game_end_flag ~> room.owner_uid = Nobody
  /\ Stuck ~> ~ Stuck

=============================================================================
