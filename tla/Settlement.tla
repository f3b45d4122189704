----------------------------- MODULE Settlement -----------------------------
(***************************************************************************)
(* What a hand of table.cc is worth and who pays it: the score details the *)
(* handlers of a hand leave behind, update_account_bet, and the bets that  *)
(* game_end turns into money.                                              *)
(*                                                                         *)
(* A hand is played only as far as it matters to the accounts: who         *)
(* discarded the bird tiles (yao ji, the one of bamboos, and ba tong, the  *)
(* eight of circles), who made which gang, who declared bao ting, and who  *)
(* won on what.  Which tiles complete a hand, which seats wait and what    *)
(* else the hands hold is chosen when the hand ends (a reveal).            *)
(*                                                                         *)
(* score_from_players_detail is a ledger: amounts by creditor, debtor and  *)
(* item; the debtor Everyone (-1) stands for all the other seats.  Seats   *)
(* that do not play are left out: every loop skips them.                   *)
(***************************************************************************)
EXTENDS Integers, FiniteSets, FiniteSetsExt, Functions

CONSTANTS
  SeatCount,   \* max_ready_players, all of them ready
  Options,     \* what tables are created with: sets of "bao_ji", "wu_gu_ji", "ben_ji"
  Turned,      \* values the turned card (deck.horse_cards) may have
  Holdings,    \* bird tiles in the hands at the end: [Seats -> [values -> Nat]]
  CardTypes,   \* HoleCards::card_type of the seats' hands: [Seats -> DOMAIN TypeScore]
  Dealers,     \* seats that may deal
  Streaks,     \* values the dealer's lian_zhuang_cnt may have
  Waiting,     \* seats that may wait besides those that have shown it
  MaxDiscards, \* bound: discards of a hand
  MaxGangs     \* bound: gangs of a hand

Seats == 0 .. SeatCount - 1
Nowhere == -1
Everyone == -1

YaoJi == 1
BaTong == 2 * 16 + 8
Plain == 0                      \* any tile that is neither
Tiles == {YaoJi, BaTong, Plain}

\* calculate_base_score, by card_type.
TypeScore == [ping_hu |-> 1, peng_hu |-> 5, qi_xiao_dui |-> 10, long_qi_dui |-> 20,
              qing_yi_se |-> 10, qing_peng |-> 15, qing_qi_dui |-> 20,
              qing_long_qi_dui |-> 30]

ASSUME SettlementAssumption ==
  /\ SeatCount \in Nat /\ SeatCount >= 2
  /\ Options \subseteq SUBSET {"bao_ji", "wu_gu_ji", "ben_ji"}
  /\ Turned \subseteq Nat /\ Dealers \subseteq Seats /\ Streaks \subseteq Nat
  /\ Waiting \subseteq SUBSET Seats /\ CardTypes \subseteq [Seats -> DOMAIN TypeScore]
  /\ \A x \in Holdings, s \in Seats : \A b \in DOMAIN x[s] : x[s][b] \in Nat
  /\ MaxDiscards \in Nat /\ MaxGangs \in Nat

VARIABLE hand

-----------------------------------------------------------------------------
(* The ledger.                                                             *)

BirdItems == {"yao_bai_ji", "ben_ji", "wu_gu_ji", "yao_ji", "jin_ji", "chong_feng_ji",
              "chong_feng_wu_gu_ji", "ze_ren_ji"}
GangItems == {"ming_gang", "peng_gang", "an_gang"}
WinItems == {"pao_hu", "gang_hu", "zi_mo", "lian_zhuang"}
Items == BirdItems \cup GangItems \cup WinItems \cup {"jiao_pai"}

Amount(l, k) == IF k \in DOMAIN l THEN l[k] ELSE 0

\* += of every entry of m.
AddAll(l, m) == [k \in DOMAIN l \cup DOMAIN m |-> Amount(l, k) + Amount(m, k)]

\* The entries that say something.
NonZero(l) == RestrictValues(l, LAMBDA v : v # 0)

\* What i gets from each seat of J for an item.
From(i, J, item, v) == [k \in {<<i, j, item>> : j \in J} |-> v]

Others(i) == Seats \ {i}
Sum(f, S) == MapThenSumSet(LAMBDA x : f[x], S)

-----------------------------------------------------------------------------
(* The hand while it is played.                                            *)

\* The seat's birds, and the table's: chong says that the first tile of a
\* bird was discarded and not claimed; ze_ren is 2 while it may be, 1 when it
\* was; loose counts the other ones discarded.
NoBirds == [t \in {YaoJi, BaTong} |-> [chong |-> FALSE, ze_ren |-> 0, loose |-> 0]]
IsBird(h, t) == t = YaoJi \/ (t = BaTong /\ "wu_gu_ji" \in h.options)

\* A discard of t by s, as far as bird b is concerned.
DropBird(h, s, t, b) ==
  LET stale == h.birds[b].ze_ren = 2 \/ h.seat_birds[s][b].ze_ren = 2
      g == IF stale THEN [h EXCEPT !.birds[b].ze_ren = 0, !.seat_birds[s][b].ze_ren = 0] ELSE h
  IN  IF t = b /\ ~ h.birds[b].chong /\ h.birds[b].ze_ren # 1
      THEN [h EXCEPT !.birds[b] = [@ EXCEPT !.chong = TRUE, !.ze_ren = 2],
                     !.seat_birds[s][b] = [@ EXCEPT !.chong = TRUE, !.ze_ren = 2]]
      ELSE IF t = b THEN [g EXCEPT !.seat_birds[s][b].loose = @ + 1] ELSE g

DropBirds(h, s, t) ==
  LET g == DropBird(h, s, t, YaoJi)
  IN  IF "wu_gu_ji" \in h.options THEN DropBird(g, s, t, BaTong) ELSE g

\* Mutant of ClaimBird: the discarder keeps his chong feng ji.
ClaimBirdKeepsChong(h, t) ==
  LET p == h.chu_seat
  IN  IF IsBird(h, t) /\ h.seat_birds[p][t].chong /\ h.birds[t].ze_ren = 2
      THEN [h EXCEPT !.birds[t].ze_ren = 1, !.seat_birds[p][t].ze_ren = 1]
      ELSE h

\* handler_peng and handler_gang: claiming the first tile of a bird makes its
\* discarder responsible for it.
ClaimBird(h, t) ==
  LET p == h.chu_seat
  IN  IF IsBird(h, t) /\ h.seat_birds[p][t].chong /\ h.birds[t].ze_ren = 2
      THEN [h EXCEPT !.birds[t] = [@ EXCEPT !.chong = FALSE, !.ze_ren = 1],
                     !.seat_birds[p][t] = [@ EXCEPT !.chong = FALSE, !.ze_ren = 1]]
      ELSE h

\* last_actions: the two latest, the newest first.
Acted(h, s, a) == [h EXCEPT !.last_actions[s] = <<a, @[1]>>]

\* Mutant of DropOffer: the payer is not forgotten.
DropOfferKeepsPayer(h, s) == [h EXCEPT !.pao_hu_flag = @ \ {s}, !.gang_hu_flag = @ \ {s}]

\* A seat that answers otherwise gives up the win it was offered.
DropOffer(h, s) ==
  [h EXCEPT !.pao_hu_flag = @ \ {s}, !.pao_hu_seat = IF s \in h.pao_hu_flag THEN Nowhere ELSE @,
            !.gang_hu_flag = @ \ {s}, !.gang_hu_seat = IF s \in h.gang_hu_flag THEN Nowhere ELSE @]

\* What handler_chu, handler_peng and handler_gang do to the seat's actions.
Answers(h, s, a) == DropOffer(Acted(h, s, a), s)

\* start_next_bet draws for the seat; next_player_seat forgot the winners.
\* Only the first draws are told from the later ones.
Draw(h, s) ==
  [h EXCEPT !.stage = "turn", !.cur = s, !.drew = TRUE, !.pao_hu_count = 0, !.gang_hu_count = 0,
            !.draws = IF @ < 2 THEN @ + 1 ELSE 2, !.got[s] = IF @ < 2 THEN @ + 1 ELSE 2]

Next1(s) == (s + 1) % SeatCount

\* Tiles of a kind that everybody has seen; there are four.
Shown(h, t) == Sum([s \in Seats |-> h.out[s][t] + h.melds[s][t]], Seats)
Left(h, t) == IF t = Plain THEN 4 ELSE 4 - Shown(h, t)

\* Somebody may hold n tiles t; where ba tong is no bird it is a plain tile.
MayHave(h, t, n) == (t = Plain \/ IsBird(h, t)) /\ Left(h, t) >= n

-----------------------------------------------------------------------------
(* calculate_base_score.                                                   *)

PlusTen(x) == IF x = 1 THEN 10 ELSE x + 10

Melded(h, s) == \E t \in Tiles : h.melds[s][t] > 0
NobodyPays(h) == h.pao_hu_seat = Nowhere /\ h.gang_hu_seat = Nowhere

\* tian_hu_flag and di_hu_flag: a win before the game is under way.
Early(h, s) ==
  \/ h.draws = 1
  \/ h.got[s] = 0 /\ ~ Melded(h, s)
  \/ h.got[s] = 1 /\ ~ Melded(h, s) /\ NobodyPays(h) /\ s # h.dealer

\* Bao ting by the winner or by who pays, and an early win, are worth ten
\* more; a win after one's own gang or on somebody else's one more.
BaseScore(h, s, type) ==
  LET tens == <<s \in h.bao_ting /\ ~ h.is_huang_zhuang, h.pao_hu_seat \in h.bao_ting, Early(h, s)>>
      Tens(x, i) == IF tens[i] THEN PlusTen(x) ELSE x
  IN  Tens(Tens(Tens(TypeScore[type], 1), 2), 3)
        + (IF h.last_actions[s] = <<"HU", "GANG">> THEN 1 ELSE 0)
        + (IF h.is_qiang_gang THEN 1 ELSE 0)

LianZhuang(h, s) == IF s = h.dealer THEN h.lian_zhuang_cnt ELSE 1

-----------------------------------------------------------------------------
(* update_account_bet: the win.                                            *)

\* Mutant of RobbedGang: the robbed gang is paid for.
RobbedGangPaid(h) == h

\* A robbed gang is not paid for.
RobbedGang(h) ==
  IF h.gang_hu_seat = Nowhere THEN h
  ELSE [h EXCEPT !.ledger = AddAll(@, From(h.gang_hu_seat, {Everyone}, "peng_gang", -1))]

\* The winner and, in a streak, his streak, from whoever pays.  The dealer's
\* count multiplies the score of a win once for every hand after the first.
WinEntry(h, i, payer, item, times, score) ==
  AddAll(From(i, {payer}, item, times * score),
         IF LianZhuang(h, i) > 1
         THEN From(i, {payer}, "lian_zhuang",
                   (IF item = "zi_mo" THEN times ELSE 1) * (score * (LianZhuang(h, i) - 1)))
         ELSE <<>>)

PaoHu(h, rv) ==
  LET W == {i \in Seats : i = h.win_seatid \/ i \in h.pao_hu_flag}
      entry(i) == WinEntry(h, i, h.pao_hu_seat, "pao_hu", 1, BaseScore(h, i, rv.types[i]))
  IN  [k \in UNION {DOMAIN entry(i) : i \in W} |-> entry(k[1])[k]]

GangHu(h, rv) ==
  LET W == {i \in Seats : i = h.win_seatid \/ i \in h.gang_hu_flag}
      entry(i) == WinEntry(h, i, h.gang_hu_seat, "gang_hu", SeatCount - 1,
                           BaseScore(h, i, rv.types[i]))
  IN  [k \in UNION {DOMAIN entry(i) : i \in W} |-> entry(k[1])[k]]

\* A self-drawn win counts twice, from everybody; the seat that fed the gang
\* before it is only named.
ZiMo(h, rv) ==
  WinEntry(h, h.win_seatid, Everyone, "zi_mo", SeatCount - 1,
           2 * BaseScore(h, h.win_seatid, rv.types[h.win_seatid]))

Win(h, rv) ==
  CASE h.pao_hu_seat # Nowhere -> PaoHu(h, rv)
    [] h.pao_hu_seat = Nowhere /\ h.gang_hu_seat # Nowhere -> GangHu(h, rv)
    [] OTHER -> ZiMo(h, rv)

-----------------------------------------------------------------------------
(* update_account_bet: the birds.                                          *)

\* The ranks of a suit go round.
RankBefore(v) == IF v % 16 = 1 THEN v + 8 ELSE v - 1
RankAfter(v) == IF v % 16 = 9 THEN v - 8 ELSE v + 1

\* The tiles the turned card makes birds: its neighbours, and itself.
TurnedBirds(options, v) == {RankBefore(v), RankAfter(v)} \cup (IF "ben_ji" \in options THEN {v} ELSE {})

\* ji_pai: the item every bird is paid as.  A yao ji the turned card points
\* at is a jin ji.
JiPai(options, v) ==
  LET always == {YaoJi} \cup (IF "wu_gu_ji" \in options THEN {BaTong} ELSE {})
  IN  [b \in always \cup TurnedBirds(options, v) |->
         CASE b = YaoJi -> IF YaoJi \in TurnedBirds(options, v) THEN "jin_ji" ELSE "yao_ji"
           [] b = BaTong /\ b \in always -> "wu_gu_ji"
           [] b \notin always /\ b = v -> "ben_ji"
           [] OTHER -> "yao_bai_ji"]

\* A wu gu ji the turned card points at counts twice (fang_8_tong).
BirdBet(options, v, item) ==
  CASE item = "wu_gu_ji" -> IF BaTong \in TurnedBirds(options, v) THEN 2 ELSE 1
    [] item = "jin_ji" -> 2
    [] OTHER -> 1

\* The tiles of a bird a seat is paid for: in its hand, the last tile of a
\* win included, in its melds and among its discards, but for its chong feng
\* ji, which is paid for by itself.
Held(h, rv, s, b) ==
  LET won == s = h.win_seatid \/ s \in h.pao_hu_flag \cup h.gang_hu_flag
      plain == b \in {YaoJi, BaTong}
  IN  Amount(rv.holds[s], b)
        + (IF won /\ h.pao_hu_count > 0 /\ h.last_card = b THEN 1 ELSE 0)
        + (IF won /\ h.gang_hu_count > 0 /\ h.last_gang_card = b THEN 1 ELSE 0)
        + (IF plain THEN h.melds[s][b] + h.out[s][b] ELSE 0)
        - (IF IsBird(h, b) /\ h.seat_birds[s][b].chong THEN 1 ELSE 0)

\* The seat that has drawn and not discarded.
FullHand(h, s) == h.stage = "turn" /\ s = h.cur

\* The seats analysis() finds waiting.  What it says of a hand that has its
\* winning tile already is the library's: rv.full.
Waits(h, rv) == {s \in Seats : IF FullHand(h, s) THEN rv.full ELSE s \in rv.waits}

\* Seats that are paid for birds: the winner and those that wait.  One of
\* several winners has taken the winning tile when it is looked at.
PaidForBirds(h, rv) ==
  {s \in Seats : \/ s = h.win_seatid
                 \/ /\ s \in Waits(h, rv)
                    /\ s \in h.pao_hu_flag \cup h.gang_hu_flag => rv.full}

BirdCards(h, rv, s) ==
  LET jiPai == JiPai(h.options, rv.turned)
      of(item) == {b \in DOMAIN jiPai : jiPai[b] = item}
      paid(item) == Sum([b \in DOMAIN jiPai |-> Held(h, rv, s, b)], of(item))
                      * BirdBet(h.options, rv.turned, item)
  IN  [k \in {<<s, j, item>> : j \in Others(s), item \in {jiPai[b] : b \in DOMAIN jiPai}}
         |-> paid(k[3])]

HasJinJi(h, rv, s) ==
  /\ YaoJi \in TurnedBirds(h.options, rv.turned) /\ Held(h, rv, s, YaoJi) > 0
  /\ s \in PaidForBirds(h, rv)

\* What the first tiles of the birds are worth: to the seat that discarded
\* them, or, claimed, to everybody else.
ChongFeng(h, rv, s) ==
  [item \in {"chong_feng_ji", "chong_feng_wu_gu_ji"} |->
     CASE item = "chong_feng_ji" /\ h.seat_birds[s][YaoJi].chong ->
            IF HasJinJi(h, rv, s) THEN 4 ELSE 2
       [] item = "chong_feng_wu_gu_ji" /\ h.seat_birds[s][BaTong].chong -> 2
       [] OTHER -> 0]
ZeRen(h, s) == Cardinality({b \in {YaoJi, BaTong} : h.seat_birds[s][b].ze_ren = 1})

\* A seat that is paid for birds is paid for its chong feng ji, if the table
\* plays bao ji or it won alone.
ChongFengPaid(h, rv, s) ==
  IF ~ ("bao_ji" \in h.options \/ s = h.win_seatid) THEN <<>>
  ELSE AddAll([k \in {<<s, j, item>> : j \in Others(s), item \in DOMAIN ChongFeng(h, rv, s)}
                 |-> ChongFeng(h, rv, s)[k[3]]],
              [k \in {<<j, s, "ze_ren_ji">> : j \in Others(s)} |-> ZeRen(h, s)])

\* Mutant of BaoJi: everybody is paid for the birds a seat discarded.
BaoJiToAll(h, rv, s) ==
  LET owed == AddAll(ChongFeng(h, rv, s),
                     [item \in {"yao_ji", "wu_gu_ji"} |->
                        h.seat_birds[s][IF item = "yao_ji" THEN YaoJi ELSE BaTong].loose])
  IN  AddAll([k \in {<<j, s, item>> : j \in Others(s), item \in DOMAIN owed} |-> owed[k[3]]],
             [k \in {<<j, s, "ze_ren_ji">> : j \in Others(s)} |-> ZeRen(h, s)])

\* Bao ji: a seat that neither won nor waits pays those that do for every
\* bird it discarded, and everybody for its ze ren ji.
BaoJi(h, rv, s) ==
  LET owed == AddAll(ChongFeng(h, rv, s),
                     [item \in {"yao_ji", "wu_gu_ji"} |->
                        h.seat_birds[s][IF item = "yao_ji" THEN YaoJi ELSE BaTong].loose])
  IN  AddAll([k \in {<<j, s, item>> : j \in PaidForBirds(h, rv) \ {s}, item \in DOMAIN owed}
                |-> owed[k[3]]],
             [k \in {<<j, s, "ze_ren_ji">> : j \in Others(s)} |-> ZeRen(h, s)])

\* A win on the tile discarded after a gang, or on a gang: no birds, no beans.
NoBirdsNoBeans(h) == h.is_re_pao \/ h.is_qiang_gang

Birds(h, rv) ==
  IF NoBirdsNoBeans(h) THEN <<>>
  ELSE FoldFunction(AddAll, <<>>,
         [s \in Seats |->
            IF s \in PaidForBirds(h, rv) THEN AddAll(BirdCards(h, rv, s), ChongFengPaid(h, rv, s))
            ELSE IF "bao_ji" \in h.options THEN BaoJi(h, rv, s) ELSE <<>>])

-----------------------------------------------------------------------------
(* update_account_bet: what each seat gets and puts out, and the bets.      *)

\* Everybody pays for a self-drawn win and its streak, and for the gangs
\* nobody fed.
PaidByAll(h, k) ==
  k[3] \in {"zi_mo", "peng_gang", "an_gang"} \/ (k[3] = "lian_zhuang" /\ NobodyPays(h))

\* Who declared bao ting pays more for a self-drawn win.
KillsBaoTing(h, rv, k, j) ==
  IF k[3] \in {"zi_mo", "lian_zhuang"} /\ PaidByAll(h, k) /\ j \in h.bao_ting
  THEN IF rv.types[k[1]] = "ping_hu" /\ ~ Early(h, k[1]) THEN 18 ELSE 20
  ELSE 0

\* Mutant of Gets: what bao ting costs nobody gets.
GetsWithoutBaoTing(h, rv, k) ==
  (IF k[3] \in {"peng_gang", "an_gang"} THEN SeatCount - 1 ELSE 1) * h.ledger[k]

\* score_from_players_item_total: what the creditor of an entry gets, ...
Gets(h, rv, k) ==
  (IF k[3] \in {"peng_gang", "an_gang"} THEN SeatCount - 1 ELSE 1) * h.ledger[k]
    + Sum([j \in Seats |-> KillsBaoTing(h, rv, k, j)], Others(k[1]))

\* ... and score_to_players_item_total: what seat j puts out for it.
PutsOut(h, rv, k, j) ==
  CASE PaidByAll(h, k) /\ j # k[1] ->
         (IF k[3] \in {"zi_mo", "lian_zhuang"} THEN h.ledger[k] \div (SeatCount - 1)
          ELSE h.ledger[k]) + KillsBaoTing(h, rv, k, j)
    [] ~ PaidByAll(h, k) /\ j = k[2] -> h.ledger[k]
    [] OTHER -> 0

\* The entries that count.
Counted(h) == {k \in DOMAIN h.ledger : k[3] \in GangItems => ~ NoBirdsNoBeans(h)}

\* The amounts of one item are added up; a robber's overwrites those of the
\* robbers in front of him.
Earned(h, rv) ==
  [x \in {<<k[1], k[3]>> : k \in Counted(h)} |->
     Sum([k \in Counted(h) |-> Gets(h, rv, k)], {k \in Counted(h) : <<k[1], k[3]>> = x})]
Owed(h, rv) ==
  [x \in Seats \X {k[3] : k \in Counted(h)} |->
     LET K == {k \in Counted(h) : k[3] = x[2] /\ k[1] # x[1]}
         last == {k \in K : x[2] = "gang_hu" => \A m \in K : m[1] <= k[1]}
     IN  Sum([k \in K |-> PutsOut(h, rv, k, x[1])], last)]

Totals(h, rv) ==
  LET g == [h EXCEPT !.earned = AddAll(@, Earned(h, rv)), !.owed = AddAll(@, NonZero(Owed(h, rv)))]
      Of(l, s) == Sum([item \in Items |-> Amount(l, <<s, item>>)], Items)
  IN  [g EXCEPT !.bet = [s \in Seats |-> Of(g.earned, s) - Of(g.owed, s)]]

\* Mutant of StillWaits: nothing is known yet of the seats behind.
StillWaitsAnalysed(h, rv, i, j) == j < i /\ j \in Waits(h, rv)

\* hu_cards of seat j when it is seat i's turn to be looked at: analysis()
\* has been at the seats in front; those behind have them from their last
\* discard, or from their last draw (rv.full).
StillWaits(h, rv, i, j) ==
  CASE j < i \/ FullHand(h, j) -> j \in Waits(h, rv)
    [] j > i /\ h.stage = "rob" /\ j = h.gang_hu_seat -> rv.full
    [] OTHER -> j \in rv.waits \cap h.discarded

\* huang_zhuang_cha_jiao: who waits is paid the best of his wins by who does
\* not.
ChaJiao(h, rv) ==
  LET payers(i) == {j \in Others(i) : ~ StillWaits(h, rv, i, j)}
      pairs == {p \in Seats \X Seats : p[1] \in Waits(h, rv) /\ p[2] \in payers(p[1])}
      best == [p \in pairs |-> BaseScore(h, p[1], rv.types[p[1]])]
      in(s) == Sum(best, {p \in pairs : p[1] = s})
      out(s) == Sum(best, {p \in pairs : p[2] = s})
  IN  [h EXCEPT !.earned = AddAll(@, NonZero([x \in Seats \X {"jiao_pai"} |-> in(x[1])])),
                !.owed = AddAll(@, NonZero([x \in Seats \X {"jiao_pai"} |-> out(x[1])])),
                !.bet = [s \in Seats |-> @[s] + in(s) - out(s)]]

Settle(h, rv) ==
  LET g == RobbedGang(h)
      entries == [g EXCEPT !.ledger = NonZero(AddAll(AddAll(@, Win(g, rv)), Birds(g, rv)))]
  IN  IF h.win_seatid = Nowhere /\ h.pao_hu_count < 2 /\ h.gang_hu_count < 2
      THEN ChaJiao(g, rv) ELSE Totals(entries, rv)

\* Mutant of UpdateAccountBet: asked for again, what was settled is added again.
UpdateAccountBetAgain(h, rv) ==
  IF h.settled THEN [h EXCEPT !.bet = [s \in Seats |-> 2 * @[s]]]
  ELSE [Settle(h, rv) EXCEPT !.settled = TRUE, !.waits = Waits(h, rv)]

\* Once for a hand, by ji_game_end or by game_end.
UpdateAccountBet(h, rv) ==
  IF h.settled THEN h ELSE [Settle(h, rv) EXCEPT !.settled = TRUE, !.waits = Waits(h, rv)]

-----------------------------------------------------------------------------
(* The end of a hand.                                                      *)

\* What may come to light: seats that could win wait, and no bird tile is
\* there five times.
MustWait(h) ==
  (h.bao_ting \cup h.pao_hu_flag \cup h.gang_hu_flag) \ {s \in Seats : FullHand(h, s)}
MayHold(h, holds) ==
  \A b \in {YaoJi, BaTong} :
    Sum([s \in Seats |-> Amount(holds[s], b)], Seats) <= Left(h, b)

WinReveals(h) ==
  [waits : {MustWait(h) \cup w : w \in Waiting},
   full : IF h.win_seatid = Nowhere THEN BOOLEAN ELSE {TRUE},
   holds : {x \in Holdings : MayHold(h, x)}, turned : Turned, types : CardTypes]

\* Without a win the birds do not matter.
JiaoReveals(h) ==
  [waits : {MustWait(h) \cup w : w \in Waiting},
   full : IF h.stage \in {"turn", "rob"} THEN BOOLEAN ELSE {FALSE}, types : CardTypes]

\* ji_game_end: a hand somebody won is settled, and displayed until
\* ji_card_timer ends it.
JiGameEnd(h) == {[UpdateAccountBet(h, rv) EXCEPT !.stage = "won"] : rv \in WinReveals(h)}

Winners(h) == ({h.win_seatid} \ {Nowhere}) \cup h.pao_hu_flag \cup h.gang_hu_flag

\* accumulate_hu: the wins each seat made and fed, for the round's table.
AccumulateHu(h) ==
  LET taken == {s \in Seats : \/ s \in h.gang_hu_flag /\ h.gang_hu_seat # Nowhere
                              \/ s \in h.pao_hu_flag /\ h.pao_hu_seat # Nowhere}
      payer == IF h.gang_hu_seat # Nowhere THEN h.gang_hu_seat ELSE h.pao_hu_seat
  IN  [h EXCEPT !.tally.jie_pao = @ + Cardinality(taken),
                !.tally.zimo = @ + Cardinality({h.win_seatid} \ ({Nowhere} \cup taken)),
                !.tally.fang_pao = @ + Cardinality({payer} \ {Nowhere})]

\* game_end while the state is BETTING: the hand is settled, unless it was
\* already, and the bets become money (win_update, lose_update).
GameEnd(h) ==
  {LET g == UpdateAccountBet(AccumulateHu(h), rv)
   IN  [g EXCEPT !.stage = "ended", !.moved = [s \in Seats |-> @[s] + g.bet[s]]]
     : rv \in IF h.settled THEN {<<>>} ELSE JiaoReveals(h)}

-----------------------------------------------------------------------------
(* The actions.                                                            *)

Zeros == [s \in Seats |-> 0]

\* A seat and a table between two hands (Seat::reset, Table::reset); the
\* history variables of a hand are gangs, waits, tally and moved.
Between(options) ==
  [stage |-> "idle", options |-> options, dealer |-> 0, lian_zhuang_cnt |-> 1, cur |-> 0,
   chu_seat |-> 0, last_card |-> Plain, last_gang_card |-> Plain, draws |-> 0, got |-> Zeros,
   drew |-> FALSE, last_actions |-> [s \in Seats |-> <<"none", "none">>],
   handler_flag |-> {}, discarded |-> {}, discards |-> 0,
   pengs |-> [s \in Seats |-> {}], bao_ting |-> {}, birds |-> NoBirds,
   seat_birds |-> [s \in Seats |-> NoBirds],
   out |-> [s \in Seats |-> [t \in Tiles |-> 0]], melds |-> [s \in Seats |-> [t \in Tiles |-> 0]],
   ledger |-> <<>>, pao_hu_seat |-> Nowhere, pao_hu_flag |-> {}, pao_hu_count |-> 0,
   gang_hu_seat |-> Nowhere, gang_hu_flag |-> {}, gang_hu_count |-> 0, win_seatid |-> Nowhere,
   is_re_pao |-> FALSE, is_qiang_gang |-> FALSE, is_huang_zhuang |-> FALSE, settled |-> FALSE,
   earned |-> <<>>, owed |-> <<>>, bet |-> Zeros,
   gangs |-> <<>>, waits |-> {}, tally |-> [jie_pao |-> 0, zimo |-> 0, fang_pao |-> 0],
   moved |-> Zeros]

\* Mutant of Started: who paid for the last hand's win pays for this one's.
StartedWithPayer(h) == h

\* game_start, once the dealer is found: the payer of the last hand is
\* forgotten.
Started(h) == [h EXCEPT !.pao_hu_seat = Nowhere, !.gang_hu_seat = Nowhere]

GameStart(d, cnt) ==
  /\ hand.stage = "idle"
  /\ hand' = Draw([Started(hand) EXCEPT !.dealer = d, !.lian_zhuang_cnt = cnt], d)

\* Between two hands; who paid for the last win is kept for init_dealer.  So is
\* chu_seat, which matters to nobody before the first discard.
Preready ==
  /\ hand.stage = "ended"
  /\ hand' = [Between(hand.options) EXCEPT
                !.pao_hu_seat = hand.pao_hu_seat, !.gang_hu_seat = hand.gang_hu_seat]

\* A discard of t, or the declaration that goes with one.
Discard(h, s, t) ==
  [DropBirds(h, s, t) EXCEPT !.out[s][t] = @ + 1, !.last_card = t, !.chu_seat = s,
                             !.discarded = @ \cup {s}, !.discards = @ + 1]

\* handler_chu; the seats of W can win on the tile.
Chu(s, t, W) ==
  /\ hand.stage = "turn" /\ s = hand.cur
  /\ hand.discards < MaxDiscards /\ MayHave(hand, t, 1)
  /\ LET h == [Answers(Discard(hand, s, t), s, "CHU") EXCEPT !.handler_flag = {},
                 !.stage = "claim", !.pao_hu_flag = @ \cup W, !.pao_hu_count = Cardinality(W),
                 !.gang_hu_count = 0, !.pao_hu_seat = IF W = {} THEN @ ELSE s]
     IN  CASE Cardinality(W) > 1 -> hand' \in JiGameEnd(h)
           [] Cardinality(W) = 1 -> hand' = [h EXCEPT !.stage = "offer", !.cur = CHOOSE w \in W : TRUE]
           [] OTHER -> hand' = h

\* handler_ting, with the first discard: nobody is offered the tile.
BaoTing(s, t) ==
  /\ hand.stage = "turn" /\ s = hand.cur /\ hand.drew
  /\ hand.discards < MaxDiscards /\ MayHave(hand, t, 1)
  /\ hand.got[s] = 1 /\ hand.last_actions[s] = <<"none", "none">> /\ ~ Melded(hand, s)
  /\ hand' = [Acted(Discard(hand, s, t), s, "TING") EXCEPT
                !.stage = "next", !.bao_ting = @ \cup {s}]

\* A seat that may claim the tile just discarded.
MayClaim(s, n) ==
  /\ \/ hand.stage = "offer" /\ s = hand.cur
     \/ hand.stage = "claim" /\ s \notin {hand.chu_seat} \cup hand.handler_flag
  /\ s \notin hand.bao_ting /\ MayHave(hand, hand.last_card, n)

\* handler_peng and handler_gang take n tiles of seat s and the discard.
Claim(s, a, n) ==
  LET t == hand.last_card
  IN  [Answers(ClaimBird(hand, t), s, a) EXCEPT !.out[hand.chu_seat][t] = @ - 1,
                                                !.melds[s][t] = @ + n + 1]

Peng(s) ==
  /\ MayClaim(s, 2)
  /\ hand' = [Claim(s, "PENG", 2) EXCEPT !.stage = "turn", !.cur = s, !.drew = FALSE,
                !.pengs[s] = @ \cup {<<hand.last_card, hand.chu_seat>>}]

\* A gang of t and what it is worth, from whom.
Ganged(h, s, t, item, payer, v) ==
  [h EXCEPT !.ledger = AddAll(@, From(s, {payer}, item, v)), !.last_gang_card = t,
            !.gangs = AddAll(@, [k \in {<<s, item>>} |-> 1])]

MayGang == Sum(hand.gangs, DOMAIN hand.gangs) < MaxGangs

MingGang(s) ==
  /\ MayClaim(s, 3) /\ MayGang
  /\ hand' = Draw(Ganged(Claim(s, "GANG", 3), s, hand.last_card, "ming_gang", hand.chu_seat,
                         SeatCount - 1), s)

AnGang(s, t) ==
  /\ hand.stage = "turn" /\ s = hand.cur /\ hand.drew /\ s \notin hand.bao_ting
  /\ MayGang /\ MayHave(hand, t, 4)
  /\ hand' = Draw(Ganged([Answers(hand, s, "GANG") EXCEPT !.melds[s][t] = @ + 4],
                         s, t, "an_gang", Everyone, 2), s)

\* The fourth tile to a peng; the seats of R can win on it.
PengGang(s, p, R) ==
  /\ hand.stage = "turn" /\ s = hand.cur /\ hand.drew
  /\ MayGang /\ MayHave(hand, p[1], 1)
  /\ LET h == Ganged([Answers(hand, s, "GANG") EXCEPT !.melds[s][p[1]] = @ + 1,
                                                      !.pengs[s] = @ \ {p}],
                     s, p[1], "peng_gang", Everyone, 1)
         robbed == [h EXCEPT !.stage = "rob", !.gang_hu_flag = @ \cup R, !.gang_hu_seat = s,
                             !.gang_hu_count = Cardinality(R), !.pao_hu_count = 0]
     IN  CASE Cardinality(R) > 1 -> hand' \in JiGameEnd(robbed)
           [] Cardinality(R) = 1 -> hand' = [robbed EXCEPT !.cur = CHOOSE r \in R : TRUE]
           [] OTHER -> hand' = Draw(h, s)

\* handler_guo by the seat that was offered a win.
Guo ==
  LET h == [DropOffer(hand, hand.cur) EXCEPT !.handler_flag = @ \cup {hand.cur},
                                             !.pao_hu_count = 0, !.gang_hu_count = 0]
  IN  \/ hand.stage = "offer" /\ hand' = [h EXCEPT !.stage = "claim"]
      \/ hand.stage = "rob" /\ hand' = Draw(h, hand.gang_hu_seat)

\* handler_hu: a hot win is one on the tile discarded after a gang.
Hu ==
  /\ hand.stage \in {"offer", "rob"} \/ (hand.stage = "turn" /\ hand.drew)
  /\ LET h == [Acted(hand, hand.cur, "HU") EXCEPT !.win_seatid = hand.cur]
     IN  hand' \in JiGameEnd([h EXCEPT
                      !.is_re_pao = ~ NobodyPays(h) /\ h.last_actions[h.chu_seat] = <<"CHU", "GANG">>,
                      !.is_qiang_gang = h.gang_hu_seat # Nowhere])

\* Nobody claims: the next seat draws, ...
NextSeat ==
  /\ hand.stage \in {"claim", "next"}
  /\ hand' = Draw(hand, Next1(hand.chu_seat))

\* ... or the tiles have run out, which takes more than a round of discards.
HuangZhuang ==
  /\ hand.stage \in {"claim", "next"} /\ hand.discarded = Seats
  /\ hand' \in GameEnd([hand EXCEPT !.is_huang_zhuang = TRUE])

JiCardTimer == hand.stage = "won" /\ hand' \in GameEnd(hand)

\* A vote, or its timeout, ends the round: the bets are zeroed, and a hand
\* under play settled as one nobody won.  The table is reset; its seats are
\* cleared before anybody plays at it again.
Vote ==
  /\ hand.stage # "closed"
  /\ \E h \in LET zeroed == [hand EXCEPT !.bet = Zeros, !.moved = Zeros]
               IN  IF hand.stage \in {"idle", "ended"} THEN {AccumulateHu(zeroed)} ELSE GameEnd(zeroed) :
       hand' = [Between(hand.options) EXCEPT !.stage = "closed", !.bet = h.bet,
                                             !.moved = h.moved, !.tally = h.tally]

\* The table is cleaned and created anew.
Create(options) == hand.stage = "closed" /\ hand' = Between(options)

Init == \E o \in Options : hand = Between(o)

Next ==
  \/ \E d \in Dealers, cnt \in Streaks : GameStart(d, cnt)
  \/ \E s \in Seats, t \in Tiles : \/ \E W \in SUBSET Others(s) : Chu(s, t, W)
                                   \/ BaoTing(s, t) \/ AnGang(s, t)
  \/ \E s \in Seats : \/ Peng(s) \/ MingGang(s)
                      \/ \E p \in hand.pengs[s], R \in SUBSET Others(s) : PengGang(s, p, R)
  \/ Guo \/ Hu \/ NextSeat \/ HuangZhuang \/ JiCardTimer \/ Preready \/ Vote
  \/ \E o \in Options : Create(o)

Spec == Init /\ [][Next]_hand

-----------------------------------------------------------------------------
(* Properties.                                                             *)

\* Every field of the hand keeps its type.
TypeOK ==
  /\ hand.stage \in {"idle", "turn", "offer", "claim", "next", "rob", "won", "ended", "closed"}
  /\ hand.options \in Options /\ hand.dealer \in Seats /\ hand.cur \in Seats
  /\ {hand.pao_hu_seat, hand.gang_hu_seat, hand.win_seatid} \subseteq Seats \cup {Nowhere}
  /\ hand.pao_hu_flag \subseteq Seats /\ hand.gang_hu_flag \subseteq Seats
  /\ hand.discards \in 0 .. MaxDiscards
  /\ \A s \in Seats, t \in Tiles : hand.out[s][t] \in Nat /\ hand.melds[s][t] \in Nat
  /\ \A t \in {YaoJi, BaTong} : Left(hand, t) \in 0 .. 4
  /\ DOMAIN hand.ledger \subseteq Seats \X (Seats \cup {Everyone}) \X Items
  /\ DOMAIN hand.earned \subseteq Seats \X Items /\ DOMAIN hand.owed \subseteq Seats \X Items
  /\ hand.bet \in [Seats -> Int] /\ hand.moved \in [Seats -> Int]

Got(s, item) == Amount(hand.earned, <<s, item>>)
Put(s, item) == Amount(hand.owed, <<s, item>>)
SumOver(f) == Sum(f, Seats)
EarnersOf(I) == {s \in Seats : \E item \in I : Got(s, item) > 0}
PayersOf(I) == {s \in Seats : \E item \in I : Put(s, item) > 0}

\* "统计各个玩家每项的进分和出分" (table.cc 5637): of every item, what the seats
\* get is what the seats put out.
EveryScoreIsPaid ==
  hand.settled => \A item \in Items : SumOver([s \in Seats |-> Got(s, item)]) = SumOver([s \in Seats |-> Put(s, item)])

\* The same but for several robbers of one gang; and the money that moves is
\* neither made nor lost, whatever ended the hand.  (And the fields keep
\* their types.)
BetsBalance ==
  /\ TypeOK
  /\ \/ hand.gang_hu_count > 1
     \/ EveryScoreIsPaid /\ SumOver(hand.bet) = 0 /\ SumOver(hand.moved) = 0

\* A win is paid to the seats that won this hand, by the seat that fed it or,
\* self-drawn, by all the others: not by the last hand's payer.
WinIsPaidByItsPayer ==
  hand.stage = "won" =>
    /\ EarnersOf(WinItems) = Winners(hand)
    /\ PayersOf(WinItems) =
         CASE hand.pao_hu_count > 0 -> {hand.chu_seat}
           [] hand.gang_hu_count > 0 -> {hand.gang_hu_seat}
           [] OTHER -> Seats \ Winners(hand)

Hot == hand.pao_hu_count > 0 /\ hand.last_actions[hand.chu_seat] = <<"CHU", "GANG">>
Robbed == hand.gang_hu_count > 0

\* "热炮，抢杠，和荒庄的情况下鸡和豆的分数全不算" (table.cc 5240, 5347, 5796): a
\* win on the tile discarded after a gang, or on a robbed gang, is all that is
\* paid for, whoever made the birds and gangs of the hand.
HotWinPaysOnlyTheWin ==
  hand.stage = "won" /\ (Hot \/ Robbed) =>
    EarnersOf(Items \ WinItems) = {} /\ PayersOf(Items \ WinItems) = {}

\* What the gangs of this hand bring their maker, at their price from every
\* other seat; one that was robbed brings nothing.
GangDue(s, item) ==
  LET robbed == IF Robbed /\ <<s, item>> = <<hand.gang_hu_seat, "peng_gang">> THEN 1 ELSE 0
  IN  (SeatCount - 1) * (IF item = "an_gang" THEN 2 ELSE 1) * (Amount(hand.gangs, <<s, item>>) - robbed)

\* A hot or robbed win of one seat settles nothing but itself; a win that is
\* neither settles every gang of this hand once; and a robbed gang is not paid
\* for however many robbed it.  (What else several winners on a hot tile or a
\* robbed gang may not be paid is HotWinPaysOnlyTheWin, which they break.)
GangsArePaidOnce ==
  /\ hand.win_seatid # Nowhere => HotWinPaysOnlyTheWin
  /\ hand.stage = "won" /\ ~ (Hot \/ Robbed) =>
       \A s \in Seats, item \in GangItems : Got(s, item) = GangDue(s, item)
  /\ hand.stage = "won" /\ Robbed /\ hand.win_seatid = Nowhere =>
       Got(hand.gang_hu_seat, "peng_gang") <= GangDue(hand.gang_hu_seat, "peng_gang")

\* The first tile of a bird is one seat's: its chong feng ji, or, claimed, its
\* ze ren ji, and then nobody's chong feng ji; the table's flag says the same.
OneFirstBird ==
  \A b \in {YaoJi, BaTong} :
    LET chong == {s \in Seats : hand.seat_birds[s][b].chong}
        zeRen == {s \in Seats : hand.seat_birds[s][b].ze_ren = 1}
    IN  /\ Cardinality(chong \cup zeRen) <= 1 /\ chong \cap zeRen = {}
        /\ hand.birds[b].chong <=> chong # {}
        /\ hand.birds[b].ze_ren = 1 <=> zeRen # {}

\* The chong feng ji is paid in one direction: to its owner by everybody, or
\* by its owner, and then only if he neither waits nor won alone.
ChongFengIsPaidOneWay ==
  hand.settled => \A x \in {<<YaoJi, "chong_feng_ji">>, <<BaTong, "chong_feng_wu_gu_ji">>} :
    LET owners == {s \in Seats : hand.seat_birds[s][x[1]].chong}
        good == hand.waits \cup Winners(hand)
        earners == EarnersOf({x[2]})
        payers == PayersOf({x[2]})
    IN  \/ earners = {} /\ payers = {}
        \/ earners = owners /\ payers = Seats \ owners /\ owners \subseteq good
        \/ /\ payers = owners /\ earners \subseteq good \ owners
           /\ owners \cap good \subseteq Winners(hand) \ {hand.win_seatid}

\* When the tiles have run out, every seat that does not wait pays every seat
\* that does, whichever comes first round the table.
WhoDoesNotWaitPays ==
  hand.stage = "ended" /\ hand.is_huang_zhuang =>
    LET bad == Seats \ hand.waits
    IN  /\ PayersOf({"jiao_pai"}) = (IF hand.waits = {} THEN {} ELSE bad)
        /\ EarnersOf({"jiao_pai"}) = (IF bad = {} THEN {} ELSE hand.waits)

\* The hand displayed is the hand paid: ji_card_timer moves the bets that
\* ji_game_end announced, though game_end settles the hand again.
AnnouncedIsPaid ==
  [][hand.stage = "won" /\ hand'.stage = "ended" => hand'.moved = hand.bet]_hand

\* A finished hand counts one fed win for its payer if somebody took it from
\* him, or one self-drawn win, and nothing if nobody won: a win that was
\* offered and passed leaves no payer behind.
WinIsTalliedOnce ==
  hand.stage = "ended" =>
    LET tally == hand.tally
    IN  /\ tally.fang_pao = (IF tally.jie_pao > 0 THEN 1 ELSE 0)
        /\ tally.zimo = (IF hand.win_seatid # Nowhere /\ tally.fang_pao = 0 THEN 1 ELSE 0)
        /\ Winners(hand) = {} <=> tally.jie_pao + tally.zimo = 0
=============================================================================
