------------------------------- MODULE Dealer -------------------------------
(***************************************************************************)
(* Who deals the next hand: Table::init_dealer of table.cc, and what is    *)
(* left of one hand when it runs at the start of the next.                 *)
(*                                                                         *)
(* A hand leaves its traces in table and seats; preready resets most of    *)
(* them before anybody can get ready for the next hand; game_start then    *)
(* calls init_dealer, which reads them.  The hand itself is Round's; here  *)
(* it only ends, in one of the ways Round ends.                            *)
(***************************************************************************)
EXTENDS Integers, FiniteSets, SequencesExt

CONSTANTS
  SeatMax,        \* seat_max
  MaxPlayBoard    \* max_play_board

ASSUME DealerAssumption ==
  /\ SeatMax \in Nat /\ SeatMax >= 2
  /\ MaxPlayBoard \in Nat /\ MaxPlayBoard >= 1

Seats == 0 .. SeatMax - 1
Nowhere == -1

VARIABLES
  occupied,         \* the seats that play this round
  owner_seat,       \* where owner_uid sits, or Nowhere
  phase,            \* "ready", "betting" or "ended"
  round_count,
  dealer,
  lian_zhuang_cnt,  \* of each seat
  trace,            \* what the last hand left behind
  result            \* history: the last hand, and the dealer's hands in a row

vars == <<occupied, owner_seat, phase, round_count, dealer, lian_zhuang_cnt, trace, result>>

-----------------------------------------------------------------------------
(* init_dealer.  It moves the dealer and his count as it goes through the  *)
(* seats, so it works on the pair of them.                                 *)

\* Mutant of Crown: the dealer's count is started over when he wins again.
CrownAfresh(d, s) == [dealer |-> s, lian |-> [d.lian EXCEPT ![s] = 2]]

Crown(d, s) == [dealer |-> s,
                lian |-> [d.lian EXCEPT ![s] = IF d.dealer = s THEN @ + 1 ELSE 2]]

StayDealer(d) == Crown(d, d.dealer)

\* No loop of init_dealer stops at the first seat it finds.
CrownAll(d, seqOfSeats, winners) ==
  FoldLeft(LAMBDA e, s : IF s \in occupied \cap winners THEN Crown(e, s) ELSE e, d, seqOfSeats)

SeatsAfter(s) == [i \in 1 .. SeatMax - 1 |-> (s + i) % SeatMax]

\* The caller nearest to the dealer; the loop looks at one seat and crowns
\* another, and its origin moves with the dealer.
CrownCaller(d) ==
  FoldLeft(LAMBDA e, i : LET next == (e.dealer + i) % SeatMax
                         IN  IF next \in occupied /\ next \in trace.jiao_pai
                             THEN Crown(e, i) ELSE e,
           d, [j \in 1 .. SeatMax |-> j - 1])

LaterDealer(d) ==
  CASE trace.gang_hu_seat # Nowhere /\ trace.gang_hu_count > 2 -> Crown(d, trace.gang_hu_seat)
    [] trace.pao_hu_seat # Nowhere /\ trace.pao_hu_count > 2 -> Crown(d, trace.pao_hu_seat)
    [] trace.gang_hu_seat # Nowhere /\ trace.gang_hu_count = 2 ->
         CrownAll(d, SeatsAfter(trace.gang_hu_seat), trace.gang_hu_flag)
    [] trace.pao_hu_seat # Nowhere /\ trace.pao_hu_count = 2 ->
         CrownAll(d, SeatsAfter(trace.pao_hu_seat), trace.pao_hu_flag)
    [] OTHER ->
         CASE trace.hu_seat >= 0 -> Crown(d, trace.hu_seat)
           [] trace.hu_seat < 0 /\ trace.jiao_pai_cnt \in {0, Cardinality(occupied)} -> StayDealer(d)
           [] OTHER ->
                IF trace.jiao_pai_cnt = 3
                THEN CrownAll(d, SeatsAfter(0), occupied \ trace.jiao_pai)
                ELSE CrownCaller(d)

\* Mutant of RandomDealer: any seat will do.
RandomDealerAnywhere == Seats

\* random_dealer picks a seat that is ready.
RandomDealer == occupied

\* The first hand is dealt by the owner, if he plays.
FirstDealer == IF owner_seat \in occupied THEN {owner_seat} ELSE RandomDealer

\* The pairs init_dealer may come to.
InitDealer ==
  IF round_count = 0
  THEN {[dealer |-> s, lian |-> [lian_zhuang_cnt EXCEPT ![s] = 1]] : s \in FirstDealer}
  ELSE {LaterDealer([dealer |-> dealer, lian |-> lian_zhuang_cnt])}

\* game_start: nobody but the dealer is on a streak.
CountOnlyDealer(d) == [s \in Seats |-> IF s = d.dealer THEN d.lian[s] ELSE 1]

-----------------------------------------------------------------------------
(* What hands leave behind.                                                *)

NoHand == [winners |-> {}, payer |-> Nowhere, jiao |-> {}, streak |-> 0, since |-> 1]

Clean == [hu_seat |-> Nowhere, pao_hu_seat |-> Nowhere, gang_hu_seat |-> Nowhere,
          pao_hu_count |-> 0, gang_hu_count |-> 0, pao_hu_flag |-> {}, gang_hu_flag |-> {},
          jiao_pai |-> {}, jiao_pai_cnt |-> 0]

GameStart ==
  /\ phase = "ready" /\ round_count < MaxPlayBoard
  /\ phase' = "betting"
  /\ round_count' = round_count + 1
  /\ \E d \in InitDealer :
       /\ dealer' = d.dealer
       /\ lian_zhuang_cnt' = CountOnlyDealer(d)
       /\ result' = IF round_count > 0 /\ d.dealer = dealer
                    THEN [result EXCEPT !.streak = @ + 1]
                    ELSE [result EXCEPT !.streak = 1, !.since = round_count + 1]
  /\ trace' = [trace EXCEPT !.hu_seat = Nowhere, !.pao_hu_seat = Nowhere,
                            !.gang_hu_seat = Nowhere]
  /\ UNCHANGED <<occupied, owner_seat>>

EndHand(left, winners, payer, jiao) ==
  /\ phase = "betting"
  /\ phase' = "ended"
  /\ trace' = left
  /\ result' = [result EXCEPT !.winners = winners, !.payer = payer, !.jiao = jiao]
  /\ UNCHANGED <<occupied, owner_seat, round_count, dealer, lian_zhuang_cnt>>

\* One player wins: on his own draw, on a discard or on a robbed gang.
WinSelfDrawn(s) == EndHand([trace EXCEPT !.hu_seat = s], {s}, Nowhere, {})

WinOnDiscard(s, p) ==
  EndHand([trace EXCEPT !.hu_seat = s, !.pao_hu_seat = p,
                        !.pao_hu_count = 1, !.pao_hu_flag = {s}], {s}, p, {})

WinOnGang(s, p) ==
  EndHand([trace EXCEPT !.hu_seat = s, !.gang_hu_seat = p,
                        !.gang_hu_count = 1, !.gang_hu_flag = {s}], {s}, p, {})

\* Several players win on one tile: the hand ends at once, without handler_hu.
ManyWinOnDiscard(W, p) ==
  EndHand([trace EXCEPT !.pao_hu_seat = p,
                        !.pao_hu_count = Cardinality(W), !.pao_hu_flag = W], W, p, {})

ManyWinOnGang(W, p) ==
  EndHand([trace EXCEPT !.gang_hu_seat = p,
                        !.gang_hu_count = Cardinality(W), !.gang_hu_flag = W], W, p, {})

\* Nobody wins; huang_zhuang_cha_jiao marks the seats that wait for one tile.
HuangZhuang(J) ==
  EndHand([trace EXCEPT !.jiao_pai = J, !.jiao_pai_cnt = Cardinality(J)], {}, Nowhere, J)

\* Mutant of ResetTrace: the winner is forgotten with everything else.
ResetWinnerToo(t) == Clean

\* Seat::reset and Table::reset.  The seats of the winner and of the payer are
\* kept for init_dealer; what it reads with them is not, jiao_pai excepted.
ResetTrace(t) == [t EXCEPT !.pao_hu_count = 0, !.gang_hu_count = 0,
                           !.pao_hu_flag = {}, !.gang_hu_flag = {},
                           !.jiao_pai_cnt = 0]

\* handler_preready, which comes between any two hands.
Preready ==
  /\ phase = "ended" /\ round_count < MaxPlayBoard
  /\ phase' = "ready"
  /\ trace' = ResetTrace(trace)
  /\ UNCHANGED <<occupied, owner_seat, round_count, dealer, lian_zhuang_cnt, result>>

\* The round is over; init_table_type starts another one, of any players.
NextRound ==
  /\ phase = "ended" /\ round_count = MaxPlayBoard
  /\ phase' = "ready"
  /\ round_count' = 0
  /\ occupied' \in {S \in SUBSET Seats : Cardinality(S) >= 2}
  /\ owner_seat' \in occupied' \cup {Nowhere}
  /\ lian_zhuang_cnt' = [s \in Seats |-> 1]
  /\ trace' = [ResetTrace(trace) EXCEPT !.jiao_pai = {}]
  /\ result' = NoHand
  /\ UNCHANGED dealer

-----------------------------------------------------------------------------
Init ==
  /\ occupied \in {S \in SUBSET Seats : Cardinality(S) >= 2}
  /\ owner_seat \in occupied \cup {Nowhere}
  /\ phase = "ready" /\ round_count = 0 /\ dealer = 0
  /\ lian_zhuang_cnt = [s \in Seats |-> 1]
  /\ trace = Clean /\ result = NoHand

Next ==
  \/ GameStart
  \/ \E s \in occupied : WinSelfDrawn(s)
  \/ \E s, p \in occupied : s # p /\ (WinOnDiscard(s, p) \/ WinOnGang(s, p))
  \/ \E p \in occupied : \E W \in SUBSET (occupied \ {p}) :
       Cardinality(W) > 1 /\ (ManyWinOnDiscard(W, p) \/ ManyWinOnGang(W, p))
  \/ \E J \in SUBSET occupied : HuangZhuang(J)
  \/ Preready
  \/ NextRound

Spec == Init /\ [][Next]_vars

-----------------------------------------------------------------------------
TypeOK ==
  /\ occupied \subseteq Seats /\ owner_seat \in occupied \cup {Nowhere}
  /\ phase \in {"ready", "betting", "ended"}
  /\ round_count \in 0 .. MaxPlayBoard
  /\ dealer \in Seats
  /\ lian_zhuang_cnt \in [Seats -> 1 .. MaxPlayBoard + 1]
  /\ {trace.hu_seat, trace.pao_hu_seat, trace.gang_hu_seat} \subseteq Seats \cup {Nowhere}
  /\ {trace.pao_hu_count, trace.gang_hu_count, trace.jiao_pai_cnt} \subseteq 0 .. SeatMax
  /\ {trace.pao_hu_flag, trace.gang_hu_flag, trace.jiao_pai} \subseteq SUBSET Seats

NewHand == phase = "betting" /\ round_count > 1

\* The dealer plays, whatever seats are empty; game_start deals to the seats
\* after his and start_next_bet draws for him.  And every variable keeps its type.
DealerPlays == TypeOK /\ (phase = "betting" => dealer \in occupied)

\* "Who wins deals" (table.cc:2897): the one winner of a hand deals the next,
\* though the table is reset in between.
WinnerDealsNext ==
  NewHand /\ Cardinality(result.winners) = 1 => dealer \in result.winners

\* How many times more a win of seat s counts than one of a seat that does not
\* deal: update_account_bet multiplies by this (table.cc:5005, 5039, 5075).
TimesMore(s) == lian_zhuang_cnt[s] - 1

\* A streak is counted, through resets and whichever branch finds the dealer:
\* a dealer who took the deal over counts as many times more as he has dealt
\* hands in a row; no dealer counts more often than that, and nobody else ever
\* does.  (A round's first dealer counts less: StreakIsWorthItsHands.)
StreakIsCounted ==
  phase = "betting" =>
    \A s \in Seats :
      /\ s # dealer => TimesMore(s) = 0
      /\ s = dealer => TimesMore(s) <= result.streak
      /\ s = dealer /\ result.since > 1 => TimesMore(s) = result.streak

-----------------------------------------------------------------------------
(* What the comments and the rules say and the code does not.              *)

\* Three winners: who paid deals (table.cc:2830); two winners: the first of
\* them does (table.cc:2851).
ManyWinnersDealer ==
  /\ Cardinality(result.winners) = 2 => dealer \in result.winners
  /\ Cardinality(result.winners) = 3 => dealer = result.payer

\* A hand nobody won: if some wait for a tile and some do not, one who waits
\* deals the next, or the only one who does not (table.cc:2920, 2941).
HuangZhuangDealer ==
  LET waiting == result.jiao
      others == occupied \ waiting
  IN  result.winners = {} /\ waiting # {} /\ others # {} =>
        IF Cardinality(waiting) = 3 THEN dealer \in others ELSE dealer \in waiting

\* The counts init_dealer goes by, of winners and of seats that wait, are still
\* those of the last hand when it reads them: the next dealer is the one the
\* comments name.
DealerFollowsTheRules == NewHand => ManyWinnersDealer /\ HuangZhuangDealer

\* The rules of the game (special rule 7 of the rules document): who deals
\* counts once more, and as many times more as he has dealt hands in a row,
\* from the first hand of the round on.
StreakIsWorthItsHands == phase = "betting" => TimesMore(dealer) = result.streak

=============================================================================
