---------------------------- MODULE DealerProofs ----------------------------
(***************************************************************************)
(* One winner deals next, and the streak of a dealer who took over is      *)
(* counted, for any table and any number of hands.                         *)
(*                                                                         *)
(* What the dealer is found by is what Preready leaves of the hand before. *)
(* Counted says that the counts init_dealer reads are zero by then, so     *)
(* that of its branches only two are left (OnlyTwoBranches): the winner,   *)
(* if there was one, and the dealer himself.                               *)
(***************************************************************************)
EXTENDS Dealer, FiniteSetTheorems, TLAPS

TraceType ==
  [hu_seat : Seats \cup {Nowhere}, pao_hu_seat : Seats \cup {Nowhere},
   gang_hu_seat : Seats \cup {Nowhere},
   pao_hu_count : 0 .. SeatMax, gang_hu_count : 0 .. SeatMax,
   pao_hu_flag : SUBSET Seats, gang_hu_flag : SUBSET Seats,
   jiao_pai : SUBSET Seats, jiao_pai_cnt : 0 .. SeatMax]

ResultType ==
  [winners : SUBSET Seats, payer : Seats \cup {Nowhere}, jiao : SUBSET Seats,
   streak : 0 .. MaxPlayBoard, since : 1 .. MaxPlayBoard]

Types ==
  /\ occupied \in SUBSET Seats /\ occupied # {} /\ owner_seat \in occupied \cup {Nowhere}
  /\ phase \in {"ready", "betting", "ended"} /\ round_count \in 0 .. MaxPlayBoard
  /\ dealer \in Seats /\ lian_zhuang_cnt \in [Seats -> 1 .. MaxPlayBoard + 1]
  /\ trace \in TraceType /\ result \in ResultType

\* What init_dealer will find.
Counted ==
  phase # "ended" =>
    trace.pao_hu_count = 0 /\ trace.gang_hu_count = 0 /\ trace.jiao_pai_cnt = 0

\* The winner of the last hand is remembered by his seat, several are not.
Remembered ==
  round_count > 0 /\ phase # "betting" =>
    \/ trace.hu_seat \in occupied /\ result.winners = {trace.hu_seat}
    \/ trace.hu_seat = Nowhere /\ Cardinality(result.winners) # 1

\* The dealer plays and has his count; nobody else has one.
Dealing ==
  /\ phase # "ready" => round_count > 0
  /\ phase = "betting" => trace.hu_seat = Nowhere
  /\ round_count > 0 =>
       /\ dealer \in occupied /\ result.streak <= round_count
       /\ result.since # 1 => result.streak < round_count
       /\ \A s \in Seats : lian_zhuang_cnt[s] =
            IF s # dealer THEN 1 ELSE result.streak + (IF result.since = 1 THEN 0 ELSE 1)

DealerInv == Types /\ Counted /\ Remembered /\ Dealing /\ WinnerDealsNext

-----------------------------------------------------------------------------
\* Whatever a hand left, init_dealer has forgotten how many won and waited.
LEMMA OnlyTwoBranches ==
  ASSUME NEW d, Types, trace.pao_hu_count = 0, trace.gang_hu_count = 0, trace.jiao_pai_cnt = 0
  PROVE  LaterDealer(d) = IF trace.hu_seat = Nowhere THEN StayDealer(d) ELSE Crown(d, trace.hu_seat)
BY DealerAssumption DEF Types, TraceType, LaterDealer, Seats, Nowhere

\* The hand is dealt by the winner of the last one, or by its dealer.
LEMMA LaterHand ==
  ASSUME DealerInv, phase = "ready", round_count > 0, NEW d \in InitDealer
  PROVE  LET s == IF trace.hu_seat = Nowhere THEN dealer ELSE trace.hu_seat
         IN  d = [dealer |-> s, lian |-> [lian_zhuang_cnt EXCEPT ![s] = IF dealer = s THEN @ + 1 ELSE 2]]
<1> DEFINE e == [dealer |-> dealer, lian |-> lian_zhuang_cnt]
<1>1. d = LaterDealer(e)
  BY DEF InitDealer
<1>2. LaterDealer(e) = IF trace.hu_seat = Nowhere THEN StayDealer(e) ELSE Crown(e, trace.hu_seat)
  BY OnlyTwoBranches DEF DealerInv, Counted
<1>. QED
  BY <1>1, <1>2 DEF StayDealer, Crown

LEMMA GameStartKeeps ==
  ASSUME DealerInv, GameStart
  PROVE  DealerInv'
<1> PICK d \in InitDealer :
       /\ dealer' = d.dealer /\ lian_zhuang_cnt' = CountOnlyDealer(d)
       /\ result' = IF round_count > 0 /\ d.dealer = dealer
                    THEN [result EXCEPT !.streak = @ + 1]
                    ELSE [result EXCEPT !.streak = 1, !.since = round_count + 1]
  BY DEF GameStart
<1>1. /\ phase = "ready" /\ round_count < MaxPlayBoard /\ round_count \in Nat /\ MaxPlayBoard \in Nat
      /\ phase' = "betting" /\ round_count' = round_count + 1
      /\ occupied' = occupied /\ owner_seat' = owner_seat
      /\ occupied \subseteq Seats /\ result \in ResultType /\ dealer \in Seats
      /\ lian_zhuang_cnt \in [Seats -> 1 .. MaxPlayBoard + 1]
  BY DealerAssumption DEF GameStart, DealerInv, Types
<1>2. /\ trace' \in TraceType /\ trace'.hu_seat = Nowhere
      /\ trace'.pao_hu_count = 0 /\ trace'.gang_hu_count = 0 /\ trace'.jiao_pai_cnt = 0
  BY <1>1 DEF GameStart, DealerInv, Types, Counted, TraceType
<1>3. /\ result'.winners = result.winners /\ result'.payer = result.payer
      /\ result'.jiao = result.jiao
      /\ result'.streak = IF round_count > 0 /\ d.dealer = dealer THEN result.streak + 1 ELSE 1
      /\ result'.since = IF round_count > 0 /\ d.dealer = dealer THEN result.since ELSE round_count + 1
  BY <1>1 DEF ResultType
<1>4. CASE round_count = 0
  <2>1. PICK s \in FirstDealer : d = [dealer |-> s, lian |-> [lian_zhuang_cnt EXCEPT ![s] = 1]]
    BY <1>4 DEF InitDealer
  <2>2. s \in occupied
    BY <2>1 DEF FirstDealer, RandomDealer
  <2>3. \A x \in Seats : lian_zhuang_cnt'[x] = 1
    BY <1>1, <2>1, <2>2 DEF CountOnlyDealer
  <2>4. lian_zhuang_cnt' \in [Seats -> 1 .. MaxPlayBoard + 1]
    BY <1>1, <2>1, <2>2, <2>3 DEF CountOnlyDealer
  <2>5. result' \in ResultType
    <3>1. result' = [result EXCEPT !.streak = 1, !.since = round_count + 1]
      BY <1>4
    <3>2. 1 \in 0 .. MaxPlayBoard /\ round_count + 1 \in 1 .. MaxPlayBoard
      BY <1>1
    <3>. QED
      BY <1>1, <3>1, <3>2 DEF ResultType
  <2>. QED
    BY <1>1, <1>2, <1>3, <1>4, <2>1, <2>2, <2>3, <2>4, <2>5
       DEF DealerInv, Types, Counted, Remembered, Dealing, WinnerDealsNext, NewHand
<1>5. CASE round_count > 0
  <2> DEFINE s == IF trace.hu_seat = Nowhere THEN dealer ELSE trace.hu_seat
  <2>1. d = [dealer |-> s, lian |-> [lian_zhuang_cnt EXCEPT ![s] = IF dealer = s THEN @ + 1 ELSE 2]]
    BY <1>1, <1>5, LaterHand
  <2>2. s \in occupied /\ (Cardinality(result.winners) = 1 => s \in result.winners)
    <3>1. /\ dealer \in occupied
          /\ \/ trace.hu_seat \in occupied /\ result.winners = {trace.hu_seat}
             \/ trace.hu_seat = Nowhere /\ Cardinality(result.winners) # 1
      BY <1>1, <1>5 DEF DealerInv, Remembered, Dealing
    <3>2. Nowhere \notin occupied
      BY <1>1, DealerAssumption DEF Seats, Nowhere
    <3>. QED
      BY <3>1, <3>2
  <2>3. /\ result.streak \in Nat /\ result.streak <= round_count
        /\ result.since # 1 => result.streak < round_count
        /\ lian_zhuang_cnt[dealer] = result.streak + (IF result.since = 1 THEN 0 ELSE 1)
    BY <1>1, <1>5 DEF DealerInv, Dealing, ResultType
  <2> HIDE DEF s
  <2>4. \A x \in Seats : lian_zhuang_cnt'[x] =
          IF x # s THEN 1 ELSE IF dealer = s THEN lian_zhuang_cnt[dealer] + 1 ELSE 2
    BY <1>1, <2>1, <2>2 DEF CountOnlyDealer
  <2>5. dealer' = s /\ d.dealer = s
    BY <2>1
  <2>6. lian_zhuang_cnt' \in [Seats -> 1 .. MaxPlayBoard + 1]
    <3>1. \A x \in Seats : lian_zhuang_cnt'[x] \in 1 .. MaxPlayBoard + 1
      BY <1>1, <2>3, <2>4
    <3>2. lian_zhuang_cnt' = [x \in Seats |-> lian_zhuang_cnt'[x]]
      BY DEF CountOnlyDealer
    <3>. QED
      BY <3>1, <3>2
  <2>7. result' \in ResultType
    <3>1. /\ 1 \in 0 .. MaxPlayBoard /\ round_count + 1 \in 1 .. MaxPlayBoard
          /\ result.streak + 1 \in 0 .. MaxPlayBoard
      BY <1>1, <2>3
    <3>2. CASE d.dealer = dealer
      BY <1>1, <1>5, <3>1, <3>2 DEF ResultType
    <3>3. CASE d.dealer # dealer
      BY <1>1, <1>5, <3>1, <3>3 DEF ResultType
    <3>. QED
      BY <3>2, <3>3
  <2>8. Dealing'
    BY <1>1, <1>2, <1>3, <1>5, <2>2, <2>3, <2>4, <2>5 DEF Dealing
  <2>. QED
    BY <1>1, <1>2, <1>3, <1>5, <2>2, <2>5, <2>6, <2>7, <2>8
       DEF DealerInv, Types, Counted, Remembered, WinnerDealsNext, NewHand
<1>. QED
  BY <1>1, <1>4, <1>5

\* A hand that ends leaves its winner's seat, or none.
LEMMA EndHandKeeps ==
  ASSUME DealerInv, NEW left \in TraceType, NEW W \in SUBSET Seats, NEW p \in Seats \cup {Nowhere},
         NEW J \in SUBSET Seats, EndHand(left, W, p, J),
         \/ left.hu_seat \in occupied /\ W = {left.hu_seat}
         \/ left.hu_seat = Nowhere /\ Cardinality(W) # 1
  PROVE  DealerInv'
<1>1. /\ phase' = "ended" /\ trace' = left /\ round_count' = round_count /\ dealer' = dealer
      /\ occupied' = occupied /\ owner_seat' = owner_seat /\ lian_zhuang_cnt' = lian_zhuang_cnt
      /\ phase = "betting"
  BY DEF EndHand
<1>2. /\ result' \in ResultType /\ result'.winners = W
      /\ result'.streak = result.streak /\ result'.since = result.since
  BY DEF EndHand, DealerInv, Types, ResultType
<1>3. Types'
  BY <1>1, <1>2 DEF DealerInv, Types
<1>4. Dealing'
  BY <1>1, <1>2 DEF DealerInv, Dealing
<1>5. Counted' /\ Remembered' /\ WinnerDealsNext'
  BY <1>1, <1>2 DEF Counted, Remembered, WinnerDealsNext, NewHand
<1>. QED
  BY <1>3, <1>4, <1>5 DEF DealerInv

LEMMA ResetTraceFacts ==
  ASSUME trace \in TraceType
  PROVE  LET t == ResetTrace(trace)
         IN  /\ t \in TraceType /\ t.hu_seat = trace.hu_seat
             /\ t.pao_hu_count = 0 /\ t.gang_hu_count = 0 /\ t.jiao_pai_cnt = 0
<1>1. 0 \in 0 .. SeatMax /\ {} \in SUBSET Seats
  BY DealerAssumption
<1>. QED
  BY <1>1 DEF ResetTrace, TraceType

LEMMA PrereadyKeeps ==
  ASSUME DealerInv, Preready
  PROVE  DealerInv'
<1>1. /\ trace' \in TraceType /\ trace'.hu_seat = trace.hu_seat
      /\ trace'.pao_hu_count = 0 /\ trace'.gang_hu_count = 0 /\ trace'.jiao_pai_cnt = 0
  BY ResetTraceFacts DEF Preready, DealerInv, Types
<1>. QED
  BY <1>1 DEF Preready, DealerInv, Types, Counted, Remembered, Dealing, WinnerDealsNext, NewHand

LEMMA NextRoundKeeps ==
  ASSUME DealerInv, NextRound
  PROVE  DealerInv'
<1>1. /\ trace' \in TraceType
      /\ trace'.pao_hu_count = 0 /\ trace'.gang_hu_count = 0 /\ trace'.jiao_pai_cnt = 0
  <2>1. ResetTrace(trace) \in TraceType
    BY ResetTraceFacts DEF DealerInv, Types
  <2>. QED
    BY <2>1, ResetTraceFacts DEF NextRound, DealerInv, Types, TraceType
<1>2. occupied' \in SUBSET Seats /\ occupied' # {}
  BY FS_EmptySet DEF NextRound
<1>3. NoHand \in ResultType /\ [s \in Seats |-> 1] \in [Seats -> 1 .. MaxPlayBoard + 1]
  BY DealerAssumption DEF NoHand, ResultType
<1>. QED
  BY <1>1, <1>2, <1>3, DealerAssumption
     DEF NextRound, DealerInv, Types, Counted, Remembered, Dealing, WinnerDealsNext, NewHand

-----------------------------------------------------------------------------
LEMMA InitHolds == Init => DealerInv
<1> SUFFICES ASSUME Init PROVE DealerInv
  OBVIOUS
<1>1. /\ 0 \in Seats /\ 0 \in 0 .. SeatMax /\ 0 \in 0 .. MaxPlayBoard /\ 1 \in 1 .. MaxPlayBoard
      /\ [s \in Seats |-> 1] \in [Seats -> 1 .. MaxPlayBoard + 1]
  BY DealerAssumption DEF Seats
<1>2. NoHand \in ResultType /\ Clean \in TraceType
  BY <1>1 DEF NoHand, Clean, ResultType, TraceType
<1>3. occupied \in SUBSET Seats /\ occupied # {}
  BY FS_EmptySet DEF Init
<1>. QED
  BY <1>1, <1>2, <1>3
     DEF Init, DealerInv, Types, Counted, Remembered, Dealing, WinnerDealsNext, NewHand, Clean

LEMMA StepKeeps == DealerInv /\ [Next]_vars => DealerInv'
<1> SUFFICES ASSUME DealerInv, [Next]_vars PROVE DealerInv'
  OBVIOUS
<1>1. /\ trace \in TraceType /\ occupied \in SUBSET Seats
      /\ Seats \subseteq Int /\ Nowhere \notin Seats /\ {} \in SUBSET Seats
      /\ Nowhere \in Seats \cup {Nowhere}
  BY DEF DealerInv, Types, Seats, Nowhere
<1>2. /\ 1 \in 0 .. SeatMax /\ IsFiniteSet(Seats) /\ Cardinality(Seats) = SeatMax
      /\ Cardinality({}) = 0
  BY DealerAssumption, FS_Interval, FS_EmptySet DEF Seats
<1>3. \A W \in SUBSET Seats : Cardinality(W) \in 0 .. SeatMax
  BY <1>2, FS_Subset, FS_CardinalityType, DealerAssumption
<1>4. phase = "betting" => trace.hu_seat = Nowhere
  BY DEF DealerInv, Dealing
<1>5. ASSUME NEW s \in occupied, WinSelfDrawn(s)
      PROVE  DealerInv'
  <2>1. [trace EXCEPT !.hu_seat = s] \in TraceType /\ [trace EXCEPT !.hu_seat = s].hu_seat = s
    BY <1>1 DEF TraceType
  <2>. QED
    BY <1>1, <1>5, <2>1, EndHandKeeps DEF WinSelfDrawn
<1>6. ASSUME NEW s \in occupied, NEW p \in occupied, WinOnDiscard(s, p)
      PROVE  DealerInv'
  <2> DEFINE left == [trace EXCEPT !.hu_seat = s, !.pao_hu_seat = p,
                                   !.pao_hu_count = 1, !.pao_hu_flag = {s}]
  <2>1. left \in TraceType /\ left.hu_seat = s
    BY <1>1, <1>2 DEF TraceType
  <2>2. EndHand(left, {s}, p, {})
    BY <1>6 DEF WinOnDiscard
  <2>. QED
    BY <1>1, <2>1, <2>2, EndHandKeeps
<1>7. ASSUME NEW s \in occupied, NEW p \in occupied, WinOnGang(s, p)
      PROVE  DealerInv'
  <2> DEFINE left == [trace EXCEPT !.hu_seat = s, !.gang_hu_seat = p,
                                   !.gang_hu_count = 1, !.gang_hu_flag = {s}]
  <2>1. left \in TraceType /\ left.hu_seat = s
    BY <1>1, <1>2 DEF TraceType
  <2>2. EndHand(left, {s}, p, {})
    BY <1>7 DEF WinOnGang
  <2>. QED
    BY <1>1, <2>1, <2>2, EndHandKeeps
<1>8. ASSUME NEW p \in occupied, NEW W \in SUBSET (occupied \ {p}), Cardinality(W) > 1,
             ManyWinOnDiscard(W, p)
      PROVE  DealerInv'
  <2> DEFINE left == [trace EXCEPT !.pao_hu_seat = p,
                                   !.pao_hu_count = Cardinality(W), !.pao_hu_flag = W]
  <2>1. left \in TraceType /\ left.hu_seat = trace.hu_seat
    BY <1>1, <1>3 DEF TraceType
  <2>2. EndHand(left, W, p, {}) /\ phase = "betting"
    BY <1>8 DEF ManyWinOnDiscard, EndHand
  <2>3. W \in SUBSET Seats /\ Cardinality(W) # 1 /\ p \in Seats \cup {Nowhere}
    BY <1>1, <1>3, <1>8
  <2> HIDE DEF left
  <2>. QED
    BY <1>1, <1>4, <2>1, <2>2, <2>3, EndHandKeeps
<1>9. ASSUME NEW p \in occupied, NEW W \in SUBSET (occupied \ {p}), Cardinality(W) > 1,
             ManyWinOnGang(W, p)
      PROVE  DealerInv'
  <2> DEFINE left == [trace EXCEPT !.gang_hu_seat = p,
                                   !.gang_hu_count = Cardinality(W), !.gang_hu_flag = W]
  <2>1. left \in TraceType /\ left.hu_seat = trace.hu_seat
    BY <1>1, <1>3 DEF TraceType
  <2>2. EndHand(left, W, p, {}) /\ phase = "betting"
    BY <1>9 DEF ManyWinOnGang, EndHand
  <2>3. W \in SUBSET Seats /\ Cardinality(W) # 1 /\ p \in Seats \cup {Nowhere}
    BY <1>1, <1>3, <1>9
  <2> HIDE DEF left
  <2>. QED
    BY <1>1, <1>4, <2>1, <2>2, <2>3, EndHandKeeps
<1>10. ASSUME NEW J \in SUBSET occupied, HuangZhuang(J)
       PROVE  DealerInv'
  <2> DEFINE left == [trace EXCEPT !.jiao_pai = J, !.jiao_pai_cnt = Cardinality(J)]
  <2>1. left \in TraceType /\ left.hu_seat = trace.hu_seat
    BY <1>1, <1>3 DEF TraceType
  <2>2. EndHand(left, {}, Nowhere, J) /\ phase = "betting"
    BY <1>10 DEF HuangZhuang, EndHand
  <2>3. J \in SUBSET Seats /\ Cardinality({}) # 1
    BY <1>1, <1>2
  <2> HIDE DEF left
  <2>. QED
    BY <1>1, <1>4, <2>1, <2>2, <2>3, EndHandKeeps
<1>11. CASE UNCHANGED vars
  BY <1>11 DEF vars, DealerInv, Types, Counted, Remembered, Dealing, WinnerDealsNext, NewHand
<1>. QED
  BY <1>5, <1>6, <1>7, <1>8, <1>9, <1>10, <1>11, GameStartKeeps, PrereadyKeeps, NextRoundKeeps DEF Next

THEOREM DealerInvariant == Spec => []DealerInv
BY InitHolds, StepKeeps, PTL DEF Spec

\* The dealer plays, at tables of any size with any seats empty.
THEOREM DealerIsAtTheTable == Spec => []DealerPlays
<1>1. DealerInv => DealerPlays
  BY DEF DealerInv, Types, TraceType, Dealing, DealerPlays, TypeOK
<1>. QED
  BY <1>1, DealerInvariant, PTL

\* The one winner of a hand deals the next, whatever Preready forgets.
THEOREM WinnerDeals == Spec => []WinnerDealsNext
<1>1. DealerInv => WinnerDealsNext
  BY DEF DealerInv
<1>. QED
  BY <1>1, DealerInvariant, PTL

\* Whoever took the deal over counts as many times more as he has dealt hands
\* in a row; a round's first dealer never counts more often than that (he
\* counts less); nobody else counts more than once.
THEOREM StreakCounts == Spec => []StreakIsCounted
<1>1. DealerInv => StreakIsCounted
  BY DealerAssumption
     DEF DealerInv, Types, ResultType, Dealing, StreakIsCounted, TimesMore
<1>. QED
  BY <1>1, DealerInvariant, PTL
=============================================================================
