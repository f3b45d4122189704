------------------------------- MODULE Round --------------------------------
(***************************************************************************)
(* One hand of table.cc, from game_start to ji_game_end (somebody won) or  *)
(* to game_end (the deck ran out): whose turn it is, which claims on a     *)
(* discard are offered to whom, and where every tile lies.                 *)
(*                                                                         *)
(* The event loop runs one handler at a time.  A handler changes the table *)
(* (HandlerX), chooses the next seat (NextPlayerSeat, next_player_seat)    *)
(* and makes that seat its offer, drawing a tile for it when it has none   *)
(* (StartNextBet, start_next_bet), all in one step.  The table is therefore*)
(* one record, and the three functions are composed into one action.       *)
(*                                                                         *)
(* What a set of tiles is worth is libmajiang's business: permit_hu, the   *)
(* ping-hu type and the listening test are parameters.                     *)
(***************************************************************************)
EXTENDS Integers, FiniteSets, Functions

CONSTANTS
  SeatCount,      \* seats that play this hand
  HandSize,       \* tiles dealt to a seat (13)
  Tiles,          \* tile faces, positive integers
  Copies,         \* how many tiles there are of each face
  Deals,          \* the hands that may be dealt, [Seats -> bag of tiles]
  PermitHu(_),    \* HoleCards::permit_hu: the bag is a complete hand
  PingHu(_),      \* analysis_card_type: ... and is worth no more than a ping hu
  PermitTing(_)   \* ting_cards is not empty: some discard leaves it listening

Seats == 0 .. SeatCount - 1
NoSeat == -1
NoTile == 0

Total(f) == FoldFunction(LAMBDA x, y : x + y, 0, f)

\* What game_start deals: HandSize tiles a seat, from one set of tiles.
ASSUME RoundAssumption ==
  /\ SeatCount \in Nat /\ SeatCount >= 2
  /\ HandSize \in Nat /\ HandSize % 3 = 1
  /\ IsFiniteSet(Tiles) /\ Tiles \subseteq Nat \ {NoTile}
  /\ Copies \in [Tiles -> 0 .. 4]
  /\ Deals \subseteq [Seats -> [Tiles -> Nat]]
  /\ \A hands \in Deals :
       /\ \A s \in Seats : Total(hands[s]) = HandSize
       /\ \A t \in Tiles : Total([s \in Seats |-> hands[s][t]]) <= Copies[t]

VARIABLE tbl

-----------------------------------------------------------------------------
(* Bags of tiles, and seats around the table.                              *)

Add(bag, t, n) == [bag EXCEPT ![t] = @ + n]

\* erase_card and erase_discard_card take what they find.
Take(bag, t, n) == [bag EXCEPT ![t] = IF @ >= n THEN @ - n ELSE 0]

After(s, i) == (s + i) % SeatCount

\* next_betting_seat: every seat of the hand is betting.
NextBettingSeat(s) == After(s, 1)

\* The first seat of S met going round the table from s.
FirstFrom(s, S) ==
  After(s, CHOOSE i \in 1 .. SeatCount :
             /\ After(s, i) \in S
             /\ \A j \in 1 .. i - 1 : After(s, j) \notin S)

-----------------------------------------------------------------------------
(* What a seat may do with a tile.                                         *)

Size(r, s) == Total(r.holes[s])
HasExtraTile(r, s) == Size(r, s) % 3 = 2
PermitGet(r) == Total(r.deck) > 0
PermitPeng(r, s, t) == t \in Tiles /\ r.holes[s][t] >= 2
PermitGang(r, s, t) == t \in Tiles /\ r.holes[s][t] >= 3
Completes(r, s, t) == t \in Tiles /\ PermitHu(Add(r.holes[s], t, 1))

\* "mei you zhuang wan dou": a ping hu on a discard needs a pass, a gang of
\* one's own other than a claimed one, unless somebody declared bao ting, the
\* discarder has just made a gang or the seat has not drawn yet.
NeedsPass(r, s, t) ==
  /\ s \notin r.bao_ting /\ r.chu_seat \notin r.bao_ting
  /\ PingHu(Add(r.holes[s], t, 1))
  /\ \A g \in r.gangs[s] : g.flag = 0
  /\ \A i \in 1 .. 2 : r.last_actions[r.chu_seat][i] # "GANG"
  /\ r.draws[s] # 0

WinsOnDiscard(r, s) ==
  /\ Completes(r, s, r.last_card)
  /\ r.last_card \notin r.guo_hu[s]
  /\ ~ NeedsPass(r, s, r.last_card)

\* gang_cards with their gang_flags on one's own turn: 1 adds the fourth tile
\* to a peng, 3 lays down four of the hand.
OwnGangs(r, s) ==
  {[tile |-> t, flag |-> 1] : t \in {u \in r.pengs[s] : r.holes[s][u] >= 1}}
    \cup {[tile |-> t, flag |-> 3] : t \in {u \in Tiles : r.holes[s][u] = 4}}

WithPass(offers) == IF offers = {} THEN {} ELSE offers \cup {"GUO"}

-----------------------------------------------------------------------------
(* next_player_seat.                                                       *)

\* A discard: everybody who can win is flagged and the first of them comes
\* next; otherwise the first who can peng or gang; otherwise the next seat.
SeatAfterChu(r) ==
  LET cur == r.cur_seat
      winners == {s \in Seats \ {cur} : WinsOnDiscard(r, s)}
      claimers == {s \in Seats \ {cur} :
                     /\ s \notin r.bao_ting
                     /\ r.last_card \notin r.guo_peng[s]
                     /\ PermitPeng(r, s, r.last_card)}
  IN  IF winners # {} THEN
        [r EXCEPT !.pao_hu_flag = @ \cup winners,
                  !.pao_hu_count = Cardinality(winners),
                  !.pao_hu_seat = cur,
                  !.cur_seat = FirstFrom(cur, winners)]
      ELSE IF claimers # {} THEN
        [r EXCEPT !.cur_seat = FirstFrom(cur, claimers)]
      ELSE
        [r EXCEPT !.cur_seat = NextBettingSeat(cur)]

\* A gang: if it completed a peng, everybody who could win with its tile is
\* flagged; otherwise the seat goes on and takes a replacement.
SeatAfterGang(r) ==
  LET cur == r.cur_seat
      robbers == {s \in Seats \ {cur} :
                    r.gang_flag = 1 /\ Completes(r, s, r.last_gang_card)}
  IN  IF robbers # {} THEN
        [r EXCEPT !.gang_hu_flag = @ \cup robbers,
                  !.gang_hu_count = Cardinality(robbers),
                  !.gang_hu_seat = cur,
                  !.cur_seat = FirstFrom(cur, robbers)]
      ELSE r

\* Mutant of SeatAfterGuo: the turn goes on from the seat that passed.
SeatAfterGuoFromPasser(r) == [r EXCEPT !.cur_seat = NextBettingSeat(@)]

\* A pass: the next seat that can peng or gang the discard and has not been
\* asked (handler_flag) comes next.  guo_peng is not looked at here.
SeatAfterGuo(r) ==
  LET cur == r.cur_seat
      claimers == {s \in Seats \ {cur, r.wait_handler_seat} :
                     /\ s \notin r.handler_flag
                     /\ s \notin r.bao_ting
                     /\ PermitPeng(r, s, r.last_card)}
  IN  [r EXCEPT !.cur_seat =
         CASE r.wait_handle_action = "GANG" -> r.wait_handler_seat
           [] r.wait_handle_action = "CHU" /\ claimers # {} ->
                FirstFrom(cur, claimers)
           [] r.wait_handle_action = "CHU" /\ claimers = {} ->
                NextBettingSeat(r.wait_handler_seat)
           [] OTHER -> NextBettingSeat(cur)]

NextPlayerSeat(r) ==
  LET q == [r EXCEPT !.pao_hu_count = 0, !.gang_hu_count = 0]
  IN  CASE r.last_action = "CHU" -> SeatAfterChu(q)
        [] r.last_action = "GANG" -> SeatAfterGang(q)
        [] r.last_action = "GUO" -> SeatAfterGuo(q)
        [] OTHER -> [q EXCEPT !.cur_seat = NextBettingSeat(r.cur_seat)]

-----------------------------------------------------------------------------
(* start_next_bet.                                                         *)

\* A gang that may be robbed.
RobbingOffers(r, s) ==
  {n \in {"HU"} : /\ r.last_action = "GANG"
                  /\ r.gang_hu_seat \notin {NoSeat, s}
                  /\ Completes(r, s, r.last_gang_card)}

\* Mutant of DiscardOffers: a listening seat is offered melds as well.
DiscardOffersWhileTing(r, s) ==
  LET answers == r.last_action \in {"CHU", "GUO"} /\ s \notin r.handler_flag
      melds == answers
  IN  {n \in {"HU"} : answers /\ WinsOnDiscard(r, s)}
        \cup {n \in {"GANG"} : melds /\ PermitGang(r, s, r.last_card) /\ PermitGet(r)}
        \cup {n \in {"PENG"} : /\ melds
                               /\ PermitPeng(r, s, r.last_card)
                               /\ r.last_card \notin r.guo_peng[s]}

\* The last discard, for a seat that has not answered it yet.
DiscardOffers(r, s) ==
  LET answers == r.last_action \in {"CHU", "GUO"} /\ s \notin r.handler_flag
      melds == answers /\ s \notin r.ting /\ s \notin r.bao_ting
  IN  {n \in {"HU"} : answers /\ WinsOnDiscard(r, s)}
        \cup {n \in {"GANG"} : melds /\ PermitGang(r, s, r.last_card) /\ PermitGet(r)}
        \cup {n \in {"PENG"} : /\ melds
                               /\ PermitPeng(r, s, r.last_card)
                               /\ r.last_card \notin r.guo_peng[s]}

\* One's own turn, after the draw.
TurnOffers(r, s) ==
  LET hu == PermitHu(r.holes[s]) /\ r.last_action # "PENG"
  IN  {n \in {"HU"} : hu}
        \cup {n \in {"TING"} : /\ s \notin r.ting /\ ~ hu
                               /\ r.draws[s] = 1
                               /\ PermitTing(r.holes[s])
                               /\ Size(r, s) >= HandSize}
        \cup {n \in {"GANG"} : /\ s \notin r.ting
                               /\ OwnGangs(r, s) # {}
                               /\ PermitGet(r)
                               /\ r.last_action # "PENG"}

\* Deck::get_next_card and the bookkeeping around it; only the first draw of
\* a seat is ever told from the later ones, so the count stops at 2.
Draw(r, s, t) ==
  [r EXCEPT !.deck = Take(@, t, 1),
            !.holes[s] = Add(@, t, 1),
            !.draws[s] = IF @ < 2 THEN @ + 1 ELSE 2,
            !.fresh[s] = t,
            !.guo_hu[s] = {},
            !.guo_peng[s] = {}]

Offer(r, offers) == [r EXCEPT !.actions = WithPass(offers)]

\* Mutant of TakesTile: a seat that has just claimed a tile draws as well.
TakesTileAlways(r, s) == TRUE

\* No draw after a claim ("chi and peng take no tile").
TakesTile(r, s) == Size(r, s) % 3 = 1

\* The tables start_next_bet can leave: several if a tile is drawn.
StartNextBet(r) ==
  LET s == r.cur_seat
      q == [r EXCEPT !.actions = {}]
      claims == RobbingOffers(r, s) \cup DiscardOffers(r, s)
      own(p) == Offer(p, TurnOffers(p, s))
  IN  CASE r.gang_hu_count > 1 \/ r.pao_hu_count > 1 ->
             {[q EXCEPT !.phase = "won"]}
        [] ~ (r.gang_hu_count > 1 \/ r.pao_hu_count > 1) /\ claims # {} ->
             {Offer(q, claims)}
        [] OTHER ->
             IF ~ TakesTile(q, s) THEN {own([q EXCEPT !.fresh[s] = NoTile])}
             ELSE IF ~ PermitGet(q) THEN {[q EXCEPT !.phase = "drawn"]}
             ELSE {own(Draw(q, s, t)) : t \in {u \in Tiles : q.deck[u] > 0}}

CountNextBet(r) == StartNextBet(NextPlayerSeat(r))

-----------------------------------------------------------------------------
(* The handlers of handler_bet, up to the choice of the next seat.         *)

\* last_action, and the seat's last two, the newest first.
Remember(r, s, action) ==
  [r EXCEPT !.last_action = action,
            !.last_actions[s] = <<action, @[1]>>]

\* Mutant of AnswerFlags: the flag is lowered, the payer is left behind.
AnswerFlagsKeepPayer(r, s) ==
  [r EXCEPT !.pao_hu_flag = @ \ {s}, !.gang_hu_flag = @ \ {s}]

\* Mutant of AnswerFlags: the payer is forgotten, the flag stays up.
AnswerFlagsKeepFlag(r, s) ==
  [r EXCEPT !.pao_hu_seat = IF s \in r.pao_hu_flag THEN NoSeat ELSE @,
            !.gang_hu_seat = IF s \in r.gang_hu_flag THEN NoSeat ELSE @]

\* A seat that answers without winning gives up its flags, and with them the
\* discarder or the robbed seat is forgotten.
AnswerFlags(r, s) ==
  [r EXCEPT !.pao_hu_seat = IF s \in r.pao_hu_flag THEN NoSeat ELSE @,
            !.pao_hu_flag = @ \ {s},
            !.gang_hu_seat = IF s \in r.gang_hu_flag THEN NoSeat ELSE @,
            !.gang_hu_flag = @ \ {s}]

HandlerChu(r, s, t) ==
  LET q == AnswerFlags(Remember(r, s, "CHU"), s)
  IN  [q EXCEPT !.last_card = t,
                !.chu_seat = s,
                !.holes[s] = Take(@, t, 1),
                !.discards[s] = Add(@, t, 1),
                !.guo_peng[s] = {},
                !.handler_flag = {},
                !.wait_handle_action = "CHU",
                !.wait_handler_seat = s]

\* Mutant of HandlerPeng: the discard is not taken off the discarder's pile.
HandlerPengLeavesDiscard(r, s) ==
  LET q == AnswerFlags(Remember(r, s, "PENG"), s)
  IN  [q EXCEPT !.holes[s] = Take(@, r.last_card, 2),
                !.pengs[s] = @ \cup {r.last_card},
                !.guo_hu[s] = {},
                !.guo_peng[s] = {}]

HandlerPeng(r, s) ==
  LET q == AnswerFlags(Remember(r, s, "PENG"), s)
  IN  [q EXCEPT !.holes[s] = Take(@, r.last_card, 2),
                !.discards[r.chu_seat] = Take(@, r.last_card, 1),
                !.pengs[s] = @ \cup {r.last_card},
                !.guo_hu[s] = {},
                !.guo_peng[s] = {}]

\* g.flag 0 claims the discard, 1 completes a peng, 3 is from the hand.
HandlerGang(r, s, g) ==
  LET q == AnswerFlags(Remember(r, s, "GANG"), s)
      own == CASE g.flag = 0 -> 3 [] g.flag = 1 -> 1 [] g.flag = 3 -> 4
      p == [q EXCEPT !.holes[s] = Take(@, g.tile, own),
                     !.pengs[s] = IF g.flag = 1 THEN @ \ {g.tile} ELSE @,
                     !.gangs[s] = @ \cup {g},
                     !.gang_flag = g.flag,
                     !.guo_hu[s] = {},
                     !.guo_peng[s] = {},
                     !.last_gang_card = g.tile,
                     !.wait_handle_action = "GANG",
                     !.wait_handler_seat = s]
  IN  IF g.flag = 0
      THEN [p EXCEPT !.discards[r.chu_seat] = Take(@, g.tile, 1)]
      ELSE p

\* Mutant of HandlerGuo: the pass is not marked as an answer.
HandlerGuoUnmarked(r, s) ==
  LET q == AnswerFlags([r EXCEPT !.last_action = "GUO"], s)
  IN  [q EXCEPT
         !.guo_hu[s] = IF "HU" \in r.actions /\ ~ HasExtraTile(r, s)
                       THEN @ \cup {r.last_card} ELSE @,
         !.guo_peng[s] = IF "PENG" \in r.actions /\ ~ HasExtraTile(r, s)
                         THEN @ \cup {r.last_card} ELSE @]

\* A seat passes the tile it was offered: it may not win on it, or peng it,
\* until it has drawn.  A passed robbery leaves last_card here too.
HandlerGuo(r, s) ==
  LET q == AnswerFlags([r EXCEPT !.last_action = "GUO"], s)
  IN  [q EXCEPT
         !.guo_hu[s] = IF "HU" \in r.actions /\ ~ HasExtraTile(r, s)
                       THEN @ \cup {r.last_card} ELSE @,
         !.guo_peng[s] = IF "PENG" \in r.actions /\ ~ HasExtraTile(r, s)
                         THEN @ \cup {r.last_card} ELSE @,
         !.handler_flag = @ \cup {s}]

\* The declaring discard: neither the handler_flags nor the seat waited for
\* are set, unlike handler_chu.
HandlerTing(r, s, t) ==
  LET q == Remember(r, s, "TING")
  IN  [q EXCEPT !.last_card = t,
                !.chu_seat = s,
                !.holes[s] = Take(@, t, 1),
                !.discards[s] = Add(@, t, 1),
                !.bao_ting = IF r.last_actions[s][1] = "NONE" THEN @ \cup {s}
                             ELSE @,
                !.ting = @ \cup {s}]

HandlerHu(r, s) ==
  LET payer == r.pao_hu_seat # NoSeat \/ r.gang_hu_seat # NoSeat
      q == Remember(r, s, "HU")
  IN  [q EXCEPT !.win_seatid = s,
                !.is_re_pao = payer /\ q.last_actions[r.chu_seat] = <<"CHU", "GANG">>,
                !.is_qiang_gang = r.gang_hu_seat # NoSeat,
                !.phase = "won"]

-----------------------------------------------------------------------------
(* handler_bet: the seat whose turn it is answers.  Of the actions that the *)
(* code does not check against the offer, a client sends those it offers.   *)

Betting(s) == tbl.phase = "betting" /\ tbl.cur_seat = s

\* A listening seat may only discard the tile it has drawn.
Chu(s, t) ==
  /\ Betting(s)
  /\ tbl.holes[s][t] > 0
  /\ s \in tbl.ting => t = tbl.fresh[s]
  /\ HasExtraTile(tbl, s)
  /\ tbl' \in CountNextBet(HandlerChu(tbl, s, t))

Peng(s) ==
  /\ Betting(s)
  /\ tbl.last_action \in {"CHU", "GUO"}
  /\ "PENG" \in tbl.actions
  /\ tbl' \in StartNextBet(HandlerPeng(tbl, s))

Gang(s, g) ==
  /\ Betting(s)
  /\ "GANG" \in tbl.actions
  /\ IF HasExtraTile(tbl, s) THEN g \in OwnGangs(tbl, s)
     ELSE g = [tile |-> tbl.last_card, flag |-> 0]
  /\ tbl' \in CountNextBet(HandlerGang(tbl, s, g))

\* With the extra tile in hand the seat has only declined to win or to gang.
Guo(s) ==
  /\ Betting(s)
  /\ "GUO" \in tbl.actions
  /\ LET r == HandlerGuo(tbl, s)
     IN  tbl' \in IF HasExtraTile(tbl, s) THEN {r} ELSE CountNextBet(r)

Ting(s, t) ==
  /\ Betting(s)
  /\ "TING" \in tbl.actions
  /\ tbl.holes[s][t] > 0
  /\ \E u \in Tiles : Completes(HandlerTing(tbl, s, t), s, u)
  /\ tbl' \in CountNextBet(HandlerTing(tbl, s, t))

Hu(s) ==
  /\ Betting(s)
  /\ "HU" \in tbl.actions
  /\ \/ HasExtraTile(tbl, s) /\ PermitHu(tbl.holes[s])
     \/ /\ ~ HasExtraTile(tbl, s)
        /\ \E t \in {tbl.last_card, tbl.last_gang_card} : Completes(tbl, s, t)
  /\ tbl' = HandlerHu(tbl, s)

\* handler_cancel: the seat listens no longer, if it did.
Cancel(s) ==
  /\ Betting(s)
  /\ tbl' = [tbl EXCEPT !.last_action = "CANCEL", !.ting = @ \ {s}]

\* The hand is over; the table's timers take it from here.  (After "won" the
\* code's state stays BETTING for the second ji_card_timer takes, in which
\* handler_bet still accepts requests: what they do to the table is in Room.)
Over == tbl.phase # "betting" /\ UNCHANGED tbl

-----------------------------------------------------------------------------
\* The table game_start leaves to its first start_next_bet(0).  chu_seat is
\* what the last hand left; nobody looks at it before the first discard.
Dealt(hands, dealer) ==
  LET none == [t \in Tiles |-> 0]
  IN  [phase |-> "betting",
       holes |-> hands,
       deck |-> [t \in Tiles |-> Copies[t] - Total([s \in Seats |-> hands[s][t]])],
       discards |-> [s \in Seats |-> none],
       pengs |-> [s \in Seats |-> {}],
       gangs |-> [s \in Seats |-> {}],
       fresh |-> [s \in Seats |-> NoTile],
       draws |-> [s \in Seats |-> 0],
       guo_hu |-> [s \in Seats |-> {}],
       guo_peng |-> [s \in Seats |-> {}],
       last_actions |-> [s \in Seats |-> <<"NONE", "NONE">>],
       handler_flag |-> {}, pao_hu_flag |-> {}, gang_hu_flag |-> {},
       ting |-> {}, bao_ting |-> {}, actions |-> {},
       cur_seat |-> dealer, chu_seat |-> NoSeat,
       last_action |-> "NONE", last_card |-> NoTile, last_gang_card |-> NoTile,
       gang_flag |-> 0,
       wait_handle_action |-> "NONE", wait_handler_seat |-> NoSeat,
       pao_hu_seat |-> NoSeat, gang_hu_seat |-> NoSeat,
       pao_hu_count |-> 0, gang_hu_count |-> 0,
       win_seatid |-> NoSeat, is_re_pao |-> FALSE, is_qiang_gang |-> FALSE]

Init == \E hands \in Deals, dealer \in Seats : tbl \in StartNextBet(Dealt(hands, dealer))

Next ==
  \/ \E s \in Seats, t \in Tiles : Chu(s, t)
  \/ \E s \in Seats : Peng(s)
  \/ \E s \in Seats, t \in Tiles, f \in {0, 1, 3} : Gang(s, [tile |-> t, flag |-> f])
  \/ \E s \in Seats : Guo(s)
  \/ \E s \in Seats, t \in Tiles : Ting(s, t)
  \/ \E s \in Seats : Hu(s)
  \/ \E s \in Seats : Cancel(s)
  \/ Over

Spec == Init /\ [][Next]_tbl

-----------------------------------------------------------------------------
Actions == {"NONE", "CHU", "PENG", "GANG", "GUO", "TING", "HU", "CANCEL"}
Bags == [Tiles -> Nat]

TableType ==
  [phase : {"betting", "won", "drawn"},
   holes : [Seats -> Bags], discards : [Seats -> Bags], deck : Bags,
   pengs : [Seats -> SUBSET Tiles],
   gangs : [Seats -> SUBSET [tile : Tiles, flag : {0, 1, 3}]],
   fresh : [Seats -> Tiles \cup {NoTile}], draws : [Seats -> 0 .. 2],
   guo_hu : [Seats -> SUBSET Tiles], guo_peng : [Seats -> SUBSET Tiles],
   last_actions : [Seats -> Actions \X Actions],
   handler_flag : SUBSET Seats, pao_hu_flag : SUBSET Seats, gang_hu_flag : SUBSET Seats,
   ting : SUBSET Seats, bao_ting : SUBSET Seats,
   actions : SUBSET {"PENG", "GANG", "GUO", "TING", "HU"},
   cur_seat : Seats, chu_seat : Seats \cup {NoSeat},
   last_action : Actions,
   last_card : Tiles \cup {NoTile}, last_gang_card : Tiles \cup {NoTile},
   gang_flag : {0, 1, 3},
   wait_handle_action : Actions, wait_handler_seat : Seats \cup {NoSeat},
   pao_hu_seat : Seats \cup {NoSeat}, gang_hu_seat : Seats \cup {NoSeat},
   pao_hu_count : Nat, gang_hu_count : Nat,
   win_seatid : Seats \cup {NoSeat}, is_re_pao : BOOLEAN, is_qiang_gang : BOOLEAN]

TypeOK == tbl \in TableType

Melds(s) == Cardinality(tbl.pengs[s]) + Cardinality(tbl.gangs[s])

\* Claims move tiles between three seats' records at once (the hand, the
\* meld and the discarder's pile) and a passed robbery leaves stale claims
\* behind: whatever is claimed, every tile of the set is in one place.
TileConservation ==
  \A t \in Tiles :
    Copies[t] = tbl.deck[t] + Total([s \in Seats |->
      tbl.holes[s][t] + tbl.discards[s][t]
        + (IF t \in tbl.pengs[s] THEN 3 ELSE 0)
        + 4 * Cardinality({g \in tbl.gangs[s] : g.tile = t})])

\* Every seat holds, hand and melds together, what was dealt to it, and the
\* seat whose turn it is at most one tile more: nobody draws before a claim
\* or on another seat's turn and keeps the tile ("chi and peng take no tile",
\* the size % 3 test of start_next_bet).  And every field keeps its type.
HandShape ==
  /\ TypeOK
  /\ \A s \in Seats :
       Size(tbl, s) + 3 * Melds(s)
         \in {HandSize} \cup (IF s = tbl.cur_seat THEN {HandSize + 1} ELSE {})

\* A hand that is not over can go on: the seat to answer holds a tile it may
\* discard (a listening seat: the one it drew) or was offered something it
\* can still do.  The timeout that could rescue it (bet_timeout) is empty.
SomebodyCanAnswer ==
  tbl.phase = "betting" =>
    LET s == tbl.cur_seat
    IN  IF HasExtraTile(tbl, s)
        THEN \E t \in Tiles : tbl.holes[s][t] > 0 /\ (s \in tbl.ting => t = tbl.fresh[s])
        ELSE "GUO" \in tbl.actions

\* While a win on somebody's tile is open it is the turn of the seat that may
\* win, it is offered the win, and the payer on record is who gave the tile;
\* no peng or gang is offered ahead of it to another seat.
OpenWinIsAnsweredFirst ==
  tbl.phase = "betting" =>
    /\ tbl.pao_hu_flag # {} =>
         /\ tbl.pao_hu_flag = {tbl.cur_seat} /\ "HU" \in tbl.actions
         /\ tbl.pao_hu_seat = tbl.chu_seat
    /\ tbl.gang_hu_flag # {} =>
         /\ tbl.gang_hu_flag = {tbl.cur_seat} /\ "HU" \in tbl.actions
         /\ tbl.gang_hu_seat = tbl.wait_handler_seat

\* A win by one's own draw is paid by all: no discarder and no robbed seat of
\* an earlier, passed offer is still on record when the hand is settled.  The
\* two sorts of payer always exclude each other: update_account_bet settles a
\* robbed gang and a discard on different branches.
SelfDrawHasNoPayer ==
  /\ tbl.pao_hu_seat = NoSeat \/ tbl.gang_hu_seat = NoSeat
  /\ tbl.phase = "won" /\ tbl.win_seatid # NoSeat /\ HasExtraTile(tbl, tbl.win_seatid)
       => tbl.pao_hu_seat = NoSeat /\ tbl.gang_hu_seat = NoSeat

\* A win on another seat's tile has a payer: chu_seat and pao_hu_seat record
\* "the player who discarded" and "the player who paid" (table.h:409-411).
ClaimedWinHasPayer ==
  tbl.phase = "won" /\ tbl.win_seatid # NoSeat /\ ~ HasExtraTile(tbl, tbl.win_seatid)
    => tbl.pao_hu_seat # NoSeat \/ tbl.gang_hu_seat # NoSeat

Drew(s) == Total(tbl'.holes[s]) > Size(tbl, s)

\* The seat that draws is the one after the last discarder, or has just made
\* a gang (its replacement), or passed this very discard to peng before: the
\* one case in which next_player_seat gives a seat a turn out of order.
DrawsInTurn ==
  [][\A s \in Seats : Drew(s) =>
       \/ s = NextBettingSeat(tbl'.chu_seat)
       \/ tbl'.wait_handle_action = "GANG" /\ s = tbl'.wait_handler_seat
       \/ tbl.last_card \in tbl.guo_peng[s]]_tbl

\* A pass moves the hand on: the seat that passes a claim is not asked again
\* about the same tile, another seat answers, or it draws, or the hand ends.
PassMovesOn ==
  \A s \in Seats :
    Betting(s) /\ "GUO" \in tbl.actions /\ ~ HasExtraTile(tbl, s) =>
      \A r \in CountNextBet(HandlerGuo(tbl, s)) :
        r.cur_seat # s \/ HasExtraTile(r, s) \/ r.phase # "betting"

=============================================================================
