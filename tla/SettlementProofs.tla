-------------------------- MODULE SettlementProofs --------------------------
(***************************************************************************)
(* Proofs about Settlement, for any number of seats, any bird tiles in the *)
(* hands and hands of any length.                                          *)
(***************************************************************************)
EXTENDS Settlement, SumProofs

-----------------------------------------------------------------------------
(* Ledgers.                                                                *)

LEMMA SumIsSumOn == \A f, S : Sum(f, S) = SumOn(f, S)
BY Zenon DEF Sum, MapThenSumSet, MapThenFoldSet, SumOn, AddsUp

LEMMA SeatsAreFinite ==
  /\ IsFiniteSet(Seats) /\ Cardinality(Seats) = SeatCount
  /\ \A i \in Seats : IsFiniteSet(Others(i)) /\ Cardinality(Others(i)) = SeatCount - 1
<1>1. IsFiniteSet(Seats) /\ Cardinality(Seats) = SeatCount
  BY SettlementAssumption, FS_Interval DEF Seats
<1>2. ASSUME NEW i \in Seats PROVE IsFiniteSet(Others(i)) /\ Cardinality(Others(i)) = SeatCount - 1
  BY <1>1, FS_RemoveElement DEF Others
<1>. QED
  BY <1>1, <1>2

LEMMA NobodyIsSeated == Nowhere \notin Seats /\ Everyone \notin Seats
BY SettlementAssumption DEF Seats, Nowhere, Everyone

\* Amounts of the keys K.
Entries(l, K) == DOMAIN l \subseteq K /\ \A k \in DOMAIN l : l[k] \in Int

LEMMA NoEntries == \A K : Entries(<<>>, K)
BY DEF Entries

LEMMA NoAmount == DOMAIN <<>> = {} /\ \A k : Amount(<<>>, k) = 0
BY DEF Amount

LEMMA AddAllFacts ==
  ASSUME NEW l, NEW m
  PROVE  /\ DOMAIN AddAll(l, m) = DOMAIN l \cup DOMAIN m
         /\ \A k \in DOMAIN l \cup DOMAIN m : AddAll(l, m)[k] = Amount(l, k) + Amount(m, k)
BY DEF AddAll

LEMMA EntriesAdd ==
  ASSUME NEW K, NEW l, NEW m, Entries(l, K), Entries(m, K)
  PROVE  /\ Entries(AddAll(l, m), K)
         /\ \A k : Amount(AddAll(l, m), k) = Amount(l, k) + Amount(m, k)
<1> DEFINE a == AddAll(l, m)
<1>1. /\ DOMAIN a = DOMAIN l \cup DOMAIN m
      /\ \A k \in DOMAIN l \cup DOMAIN m : a[k] = Amount(l, k) + Amount(m, k)
  BY AddAllFacts
<1>2. \A k : Amount(l, k) \in Int /\ Amount(m, k) \in Int
  BY DEF Entries, Amount
<1> HIDE DEF a
<1>3. Entries(a, K)
  BY <1>1, <1>2 DEF Entries
<1>4. \A k : k \notin DOMAIN a => Amount(l, k) = 0 /\ Amount(m, k) = 0
  BY <1>1 DEF Amount
<1>5. \A k : Amount(a, k) = IF k \in DOMAIN a THEN a[k] ELSE 0
  BY DEF Amount
<1>6. \A k : Amount(a, k) = Amount(l, k) + Amount(m, k)
  BY <1>1, <1>4, <1>5
<1>. QED
  BY <1>3, <1>6 DEF a

LEMMA NonZeroFacts ==
  ASSUME NEW K, NEW l, Entries(l, K)
  PROVE  /\ Entries(NonZero(l), K)
         /\ DOMAIN NonZero(l) = {k \in DOMAIN l : l[k] # 0}
         /\ \A k \in DOMAIN NonZero(l) : NonZero(l)[k] = l[k]
         /\ \A k : Amount(NonZero(l), k) = Amount(l, k)
<1>1. /\ DOMAIN NonZero(l) = {k \in DOMAIN l : l[k] # 0}
      /\ \A k \in DOMAIN NonZero(l) : NonZero(l)[k] = l[k]
  BY DEF NonZero, RestrictValues, Restrict
<1>. QED
  BY <1>1 DEF Entries, Amount

LEMMA AmountIsInt ==
  ASSUME NEW K, NEW l, Entries(l, K)
  PROVE  \A k : Amount(l, k) \in Int
BY DEF Entries, Amount

LEMMA FromOne ==
  ASSUME NEW i, NEW j, NEW item, NEW v
  PROVE  /\ DOMAIN From(i, {j}, item, v) = {<<i, j, item>>}
         /\ From(i, {j}, item, v)[<<i, j, item>>] = v
<1>1. DOMAIN From(i, {j}, item, v) = {<<i, j, item>>}
  BY DEF From
<1>. QED
  BY <1>1 DEF From

Keys == Seats \X (Seats \cup {Everyone}) \X Items
Accounts == Seats \X Items

\* The fold of AddAll adds up the entries of every seat.
AddUp(of, S) == [k \in UNION {DOMAIN of[s] : s \in S} |->
                   SumOn([s \in Seats |-> Amount(of[s], k)], S)]

LEMMA AddUpUnfolds ==
  ASSUME NEW of, \A s \in Seats : Entries(of[s], Keys), NEW S \in SUBSET Seats, NEW c \in S
  PROVE  AddUp(of, S) = AddAll(of[c], AddUp(of, S \ {c}))
<1> DEFINE D == UNION {DOMAIN of[s] : s \in S}
           E == UNION {DOMAIN of[s] : s \in S \ {c}}
           v(k) == [s \in Seats |-> Amount(of[s], k)]
           a == AddUp(of, S)
           b == AddUp(of, S \ {c})
<1>1. D = DOMAIN of[c] \cup E
  OBVIOUS
<1>2. /\ a = [k \in D |-> SumOn(v(k), S)]
      /\ b = [k \in E |-> SumOn(v(k), S \ {c})]
  BY DEF AddUp
<1>3. IsFiniteSet(S) /\ IsFiniteSet(S \ {c})
  <2>1. S \ {c} \in SUBSET Seats
    OBVIOUS
  <2>. QED
    BY <2>1, SeatsAreFinite, FS_Subset
<1>4. ASSUME NEW k
      PROVE  /\ SumOn(v(k), S) = Amount(of[c], k) + SumOn(v(k), S \ {c})
             /\ k \notin E => SumOn(v(k), S \ {c}) = 0
  <2>1. \A s \in Seats : v(k)[s] = Amount(of[s], k) /\ v(k)[s] \in Int
    BY AmountIsInt
  <2>2. k \notin E => \A s \in S \ {c} : v(k)[s] = 0
    BY DEF Amount
  <2> HIDE DEF v
  <2>3. SumOn(v(k), S) = v(k)[c] + SumOn(v(k), S \ {c})
    BY <1>3, <2>1, SumTakesOut
  <2>4. k \notin E => SumOn(v(k), S \ {c}) = 0
    BY <1>3, <2>2, SumOfZeros
  <2>. QED
    BY <2>1, <2>3, <2>4
<1>5. \A k : Amount(b, k) = SumOn(v(k), S \ {c})
  <2> SUFFICES ASSUME NEW k PROVE Amount(b, k) = SumOn(v(k), S \ {c})
    OBVIOUS
  <2> HIDE DEF v, E
  <2>1. DOMAIN b = E /\ (k \in E => b[k] = SumOn(v(k), S \ {c}))
    BY <1>2
  <2>. QED
    BY <1>4, <2>1 DEF Amount
<1>6. AddAll(of[c], b) = [k \in DOMAIN of[c] \cup E |-> Amount(of[c], k) + Amount(b, k)]
  <2>1. DOMAIN b = E
    BY <1>2
  <2> HIDE DEF b, E
  <2>. QED
    BY <2>1 DEF AddAll
<1> HIDE DEF D, E, v, b
<1>7. \A k \in D : SumOn(v(k), S) = Amount(of[c], k) + Amount(b, k)
  BY <1>4, <1>5
<1>8. a = AddAll(of[c], b)
  BY <1>1, <1>2, <1>6, <1>7
<1>. QED
  BY <1>8 DEF b

LEMMA FoldAddsUp ==
  ASSUME NEW of, DOMAIN of = Seats, \A s \in Seats : Entries(of[s], Keys)
  PROVE  FoldFunction(AddAll, <<>>, of) = AddUp(of, Seats)
<1> DEFINE IsFold(g) == g = [T \in SUBSET Seats |->
                               IF T = {} THEN <<>>
                               ELSE AddAll(of[CHOOSE x \in T : TRUE], g[T \ {CHOOSE x \in T : TRUE}])]
           witness == [T \in SUBSET Seats |-> AddUp(of, T)]
           fold == CHOOSE g : IsFold(g)
<1>1. FoldFunction(AddAll, <<>>, of) = fold[Seats]
  BY Zenon DEF FoldFunction, FoldFunctionOnSet, MapThenFoldSet
<1>2. AddUp(of, {}) = <<>>
  BY DEF AddUp
<1>3. IsFold(witness)
  <2>1. ASSUME NEW T \in SUBSET Seats, T # {}
        PROVE  AddUp(of, T) = AddAll(of[CHOOSE x \in T : TRUE],
                                     witness[T \ {CHOOSE x \in T : TRUE}])
    <3> DEFINE c == CHOOSE x \in T : TRUE
    <3>1. c \in T
      BY <2>1
    <3>2. T \ {c} \in SUBSET Seats
      OBVIOUS
    <3> HIDE DEF c
    <3>3. AddUp(of, T) = AddAll(of[c], AddUp(of, T \ {c}))
      BY <3>1, AddUpUnfolds
    <3>4. witness[T \ {c}] = AddUp(of, T \ {c})
      BY <3>2
    <3>. QED
      BY <3>3, <3>4 DEF c
  <2>. QED
    BY <1>2, <2>1
<1>4. IsFold(fold)
  BY <1>3
<1> HIDE DEF fold
<1> DEFINE Good == {T \in SUBSET Seats : fold[T] = AddUp(of, T)}
<1>5. ASSUME NEW T \in SUBSET Seats, \A U \in SUBSET T : U # T => U \in Good
      PROVE  T \in Good
  <2>1. CASE T = {}
    BY <1>2, <1>4, <2>1
  <2>2. CASE T # {}
    <3> DEFINE c == CHOOSE x \in T : TRUE
    <3>1. c \in T
      BY <2>2
    <3>2. fold[T] = AddAll(of[c], fold[T \ {c}])
      BY <1>4, <2>2
    <3> HIDE DEF c
    <3>3. fold[T \ {c}] = AddUp(of, T \ {c})
      BY <1>5, <3>1
    <3>4. AddUp(of, T) = AddAll(of[c], AddUp(of, T \ {c}))
      BY <3>1, AddUpUnfolds
    <3>. QED
      BY <3>2, <3>3, <3>4
  <2>. QED
    BY <2>1, <2>2
<1> HIDE DEF Good
<1>6. Seats \in Good
  <2>1. IsFiniteSet(Seats) /\ Seats \in SUBSET Seats
    BY SeatsAreFinite
  <2>2. \A T \in SUBSET Seats : (\A U \in SUBSET T : U # T => U \in Good) => T \in Good
    BY <1>5
  <2>. QED
    BY ONLY <2>1, <2>2, SmallestCounterexample
<1>. QED
  BY <1>1, <1>6 DEF Good

LEMMA AddUpFacts ==
  ASSUME NEW of, \A s \in Seats : Entries(of[s], Keys)
  PROVE  /\ Entries(AddUp(of, Seats), Keys)
         /\ \A k : Amount(AddUp(of, Seats), k) = SumOn([s \in Seats |-> Amount(of[s], k)], Seats)
         /\ DOMAIN AddUp(of, Seats) = UNION {DOMAIN of[s] : s \in Seats}
<1> DEFINE v(k) == [s \in Seats |-> Amount(of[s], k)]
           D == UNION {DOMAIN of[s] : s \in Seats}
           a == AddUp(of, Seats)
<1>1. DOMAIN a = D /\ \A k \in D : a[k] = SumOn(v(k), Seats)
  BY DEF AddUp
<1>2. D \subseteq Keys
  BY DEF Entries
<1>3. ASSUME NEW k PROVE SumOn(v(k), Seats) \in Int /\ (k \notin D => SumOn(v(k), Seats) = 0)
  <2>1. \A s \in Seats : v(k)[s] \in Int
    BY AmountIsInt
  <2>2. k \notin D => \A s \in Seats : v(k)[s] = 0
    BY DEF Amount
  <2> HIDE DEF v, D
  <2>. QED
    BY <2>1, <2>2, SeatsAreFinite, SumIsInt, SumOfZeros
<1> HIDE DEF a, v, D
<1>4. Entries(a, Keys)
  BY <1>1, <1>2, <1>3 DEF Entries
<1>5. \A k : Amount(a, k) = SumOn(v(k), Seats)
  BY <1>1, <1>3 DEF Amount
<1>. QED
  BY <1>1, <1>4, <1>5 DEF a, v, D

-----------------------------------------------------------------------------
(* The record of the hand, field by field.  Reading a field of an updated  *)
(* record takes only the names of the fields.                              *)

Names == {"stage", "options", "dealer", "lian_zhuang_cnt", "cur", "chu_seat", "last_card",
          "last_gang_card", "draws", "got", "drew", "last_actions", "handler_flag",
          "discarded", "discards", "pengs", "bao_ting", "birds", "seat_birds", "out",
          "melds", "ledger", "pao_hu_seat", "pao_hu_flag", "pao_hu_count", "gang_hu_seat",
          "gang_hu_flag", "gang_hu_count", "win_seatid", "is_re_pao", "is_qiang_gang",
          "is_huang_zhuang", "settled", "earned", "owed", "bet", "gangs", "waits",
          "tally", "moved"}

IsHand(r) == DOMAIN r = Names /\ r = [f \in Names |-> r[f]]

BirdTiles == {YaoJi, BaTong}
Bird == [chong : BOOLEAN, ze_ren : 0 .. 2, loose : Nat]
Playing == {"turn", "offer", "claim", "next", "rob"}

Typed(r) ==
  /\ r.stage \in Playing \cup {"idle", "won", "ended", "closed"}
  /\ r.options \in Options
  /\ r.dealer \in Seats
  /\ r.lian_zhuang_cnt \in Nat
  /\ r.cur \in Seats
  /\ r.chu_seat \in Seats
  /\ r.last_card \in Tiles
  /\ r.drew \in BOOLEAN
  /\ r.handler_flag \in SUBSET Seats
  /\ r.discarded \in SUBSET Seats
  /\ r.discards \in 0 .. MaxDiscards
  /\ r.pengs \in [Seats -> SUBSET (Tiles \X Seats)]
  /\ r.bao_ting \in SUBSET Seats
  /\ r.birds \in [BirdTiles -> Bird]
  /\ r.seat_birds \in [Seats -> [BirdTiles -> Bird]]
  /\ r.out \in [Seats -> [Tiles -> Nat]]
  /\ r.melds \in [Seats -> [Tiles -> Nat]]
  /\ Entries(r.ledger, Keys)
  /\ r.pao_hu_seat \in Seats \cup {Nowhere}
  /\ r.pao_hu_flag \in SUBSET Seats
  /\ r.pao_hu_count \in Nat
  /\ r.gang_hu_seat \in Seats \cup {Nowhere}
  /\ r.gang_hu_flag \in SUBSET Seats
  /\ r.gang_hu_count \in Nat
  /\ r.win_seatid \in Seats \cup {Nowhere}
  /\ r.is_re_pao \in BOOLEAN
  /\ r.is_qiang_gang \in BOOLEAN
  /\ r.is_huang_zhuang \in BOOLEAN
  /\ r.settled \in BOOLEAN
  /\ Entries(r.earned, Accounts)
  /\ Entries(r.owed, Accounts)
  /\ r.bet \in [Seats -> Int]
  /\ Entries(r.gangs, Accounts)
  /\ r.waits \in SUBSET Seats
  /\ r.tally \in [jie_pao : Nat, zimo : Nat, fang_pao : Nat]
  /\ r.moved \in [Seats -> Int]

Hand(r) == IsHand(r) /\ Typed(r)

\* q and r differ in the fields F at most.
Same(q, r, F) ==
  /\ "stage" \in F \/ q.stage = r.stage
  /\ "options" \in F \/ q.options = r.options
  /\ "dealer" \in F \/ q.dealer = r.dealer
  /\ "lian_zhuang_cnt" \in F \/ q.lian_zhuang_cnt = r.lian_zhuang_cnt
  /\ "cur" \in F \/ q.cur = r.cur
  /\ "chu_seat" \in F \/ q.chu_seat = r.chu_seat
  /\ "last_card" \in F \/ q.last_card = r.last_card
  /\ "last_gang_card" \in F \/ q.last_gang_card = r.last_gang_card
  /\ "draws" \in F \/ q.draws = r.draws
  /\ "got" \in F \/ q.got = r.got
  /\ "drew" \in F \/ q.drew = r.drew
  /\ "last_actions" \in F \/ q.last_actions = r.last_actions
  /\ "handler_flag" \in F \/ q.handler_flag = r.handler_flag
  /\ "discarded" \in F \/ q.discarded = r.discarded
  /\ "discards" \in F \/ q.discards = r.discards
  /\ "pengs" \in F \/ q.pengs = r.pengs
  /\ "bao_ting" \in F \/ q.bao_ting = r.bao_ting
  /\ "birds" \in F \/ q.birds = r.birds
  /\ "seat_birds" \in F \/ q.seat_birds = r.seat_birds
  /\ "out" \in F \/ q.out = r.out
  /\ "melds" \in F \/ q.melds = r.melds
  /\ "ledger" \in F \/ q.ledger = r.ledger
  /\ "pao_hu_seat" \in F \/ q.pao_hu_seat = r.pao_hu_seat
  /\ "pao_hu_flag" \in F \/ q.pao_hu_flag = r.pao_hu_flag
  /\ "pao_hu_count" \in F \/ q.pao_hu_count = r.pao_hu_count
  /\ "gang_hu_seat" \in F \/ q.gang_hu_seat = r.gang_hu_seat
  /\ "gang_hu_flag" \in F \/ q.gang_hu_flag = r.gang_hu_flag
  /\ "gang_hu_count" \in F \/ q.gang_hu_count = r.gang_hu_count
  /\ "win_seatid" \in F \/ q.win_seatid = r.win_seatid
  /\ "is_re_pao" \in F \/ q.is_re_pao = r.is_re_pao
  /\ "is_qiang_gang" \in F \/ q.is_qiang_gang = r.is_qiang_gang
  /\ "is_huang_zhuang" \in F \/ q.is_huang_zhuang = r.is_huang_zhuang
  /\ "settled" \in F \/ q.settled = r.settled
  /\ "earned" \in F \/ q.earned = r.earned
  /\ "owed" \in F \/ q.owed = r.owed
  /\ "bet" \in F \/ q.bet = r.bet
  /\ "gangs" \in F \/ q.gangs = r.gangs
  /\ "waits" \in F \/ q.waits = r.waits
  /\ "tally" \in F \/ q.tally = r.tally
  /\ "moved" \in F \/ q.moved = r.moved

LEMMA FieldNames ==
  /\ "stage" \in Names /\ "options" \in Names /\ "dealer" \in Names
  /\ "lian_zhuang_cnt" \in Names /\ "cur" \in Names /\ "chu_seat" \in Names
  /\ "last_card" \in Names /\ "last_gang_card" \in Names /\ "draws" \in Names
  /\ "got" \in Names /\ "drew" \in Names /\ "last_actions" \in Names
  /\ "handler_flag" \in Names /\ "discarded" \in Names /\ "discards" \in Names
  /\ "pengs" \in Names /\ "bao_ting" \in Names /\ "birds" \in Names
  /\ "seat_birds" \in Names /\ "out" \in Names /\ "melds" \in Names
  /\ "ledger" \in Names /\ "pao_hu_seat" \in Names /\ "pao_hu_flag" \in Names
  /\ "pao_hu_count" \in Names /\ "gang_hu_seat" \in Names /\ "gang_hu_flag" \in Names
  /\ "gang_hu_count" \in Names /\ "win_seatid" \in Names /\ "is_re_pao" \in Names
  /\ "is_qiang_gang" \in Names /\ "is_huang_zhuang" \in Names /\ "settled" \in Names
  /\ "earned" \in Names /\ "owed" \in Names /\ "bet" \in Names
  /\ "gangs" \in Names /\ "waits" \in Names /\ "tally" \in Names
  /\ "moved" \in Names
BY DEF Names

-----------------------------------------------------------------------------
(* Scores.                                                                 *)

Positive == Nat \ {0}

LEMMA ProductIsPositive == \A x, y \in Positive : x * y \in Positive
BY DEF Positive

LEMMA TypesScore == \A t \in DOMAIN TypeScore : TypeScore[t] \in Positive
BY DEF TypeScore, Positive

LEMMA BaseScoreIsPositive ==
  ASSUME NEW h, NEW s, NEW t \in DOMAIN TypeScore
  PROVE  BaseScore(h, s, t) \in Positive
<1> DEFINE tens == <<s \in h.bao_ting /\ ~ h.is_huang_zhuang, h.pao_hu_seat \in h.bao_ting, Early(h, s)>>
           Tens(x, i) == IF tens[i] THEN PlusTen(x) ELSE x
           x0 == TypeScore[t]
           x1 == Tens(x0, 1)
           x2 == Tens(x1, 2)
           x3 == Tens(x2, 3)
           a == IF h.last_actions[s] = <<"HU", "GANG">> THEN 1 ELSE 0
           b == IF h.is_qiang_gang THEN 1 ELSE 0
<1>1. \A x \in Positive : PlusTen(x) \in Positive
  BY DEF PlusTen, Positive
<1>2. \A i : \A x \in Positive : Tens(x, i) \in Positive
  BY <1>1
<1>3. x0 \in Positive
  BY TypesScore
<1>4. a \in Nat /\ b \in Nat
  OBVIOUS
<1>5. BaseScore(h, s, t) = x3 + a + b
  BY DEF BaseScore
<1> HIDE DEF Tens, x0, a, b
<1>6. x3 \in Positive
  BY <1>2, <1>3
<1> HIDE DEF x3
<1>. QED
  BY <1>4, <1>5, <1>6 DEF Positive

\* The entries of a win of the seats W: an amount each, and perhaps a streak.
PaysFor(e, W, payer, item) ==
  /\ Entries(e, Keys)
  /\ \A i \in W : <<i, payer, item>> \in DOMAIN e
  /\ \A k \in DOMAIN e : /\ k[1] \in W /\ k[2] = payer /\ k[3] \in {item, "lian_zhuang"}
                         /\ e[k] \in Positive

\* Amounts that everybody pays an equal part of.
InParts(e, n) == \A k \in DOMAIN e : \E m \in Positive : e[k] = n * m

\* What a winner gets: his win and, in a streak, his streak, from one payer.
LEMMA WinEntryFacts ==
  ASSUME NEW h, NEW i \in Seats, LianZhuang(h, i) \in Nat, NEW payer \in Seats \cup {Everyone},
         NEW item \in {"pao_hu", "gang_hu", "zi_mo"},
         NEW times \in Positive, NEW score \in Positive,
         NEW e, e = WinEntry(h, i, payer, item, times, score)
  PROVE  /\ PaysFor(e, {i}, payer, item)
         /\ item = "zi_mo" => InParts(e, times)
<1> DEFINE streak == score * (LianZhuang(h, i) - 1)
           t == IF item = "zi_mo" THEN times ELSE 1
           x == times * score
           y == t * streak
           a == <<i, payer, item>>
           b == <<i, payer, "lian_zhuang">>
<1>1. x \in Positive
  BY ProductIsPositive
<1>2. LianZhuang(h, i) > 1 => streak \in Positive
  <2>1. LianZhuang(h, i) > 1 => LianZhuang(h, i) - 1 \in Positive
    BY DEF Positive
  <2>. QED
    BY <2>1, ProductIsPositive
<1>3. t \in Positive /\ (item = "zi_mo" => t = times)
  BY DEF Positive
<1> HIDE DEF streak, t
<1>4. LianZhuang(h, i) > 1 => y \in Positive
  BY <1>2, <1>3, ProductIsPositive
<1> DEFINE l == From(i, {payer}, item, x)
           m == IF LianZhuang(h, i) > 1 THEN From(i, {payer}, "lian_zhuang", y) ELSE <<>>
<1>5. e = AddAll(l, m)
  BY DEF WinEntry, x, y, t, streak
<1>6. item = "zi_mo" => x = times * score /\ y = times * streak
  BY <1>3
<1>7. /\ a \in Keys /\ b \in Keys /\ a # b
  BY DEF Keys, Items, WinItems
<1> HIDE DEF x, y
<1>8. DOMAIN l = {a} /\ l[a] = x
  BY ONLY FromOne DEF l, a
<1>9. \/ LianZhuang(h, i) > 1 /\ DOMAIN m = {b} /\ m[b] = y
      \/ DOMAIN m = {}
  <2>1. DOMAIN From(i, {payer}, "lian_zhuang", y) = {b} /\ From(i, {payer}, "lian_zhuang", y)[b] = y
    BY DEF From
  <2>. QED
    BY <2>1, NoAmount
<1> HIDE DEF l, m, a, b
<1>10. DOMAIN e = DOMAIN l \cup DOMAIN m
       /\ \A k \in DOMAIN l \cup DOMAIN m : e[k] = Amount(l, k) + Amount(m, k)
  BY <1>5, AddAllFacts
<1>11. /\ e[a] = x
       /\ b \in DOMAIN e => LianZhuang(h, i) > 1 /\ e[b] = y
       /\ DOMAIN e \subseteq {a, b} /\ a \in DOMAIN e
  <2>1. x \in Int /\ (LianZhuang(h, i) > 1 => y \in Int)
    BY <1>1, <1>4 DEF Positive
  <2>2. e[a] = x
    BY <1>7, <1>8, <1>9, <1>10, <2>1 DEF Amount
  <2>3. b \in DOMAIN e => LianZhuang(h, i) > 1 /\ e[b] = y
    BY <1>7, <1>8, <1>9, <1>10, <2>1 DEF Amount
  <2>4. DOMAIN e \subseteq {a, b} /\ a \in DOMAIN e
    BY <1>8, <1>9, <1>10
  <2>. QED
    BY <2>2, <2>3, <2>4
<1>12. \A k \in DOMAIN e :
         /\ k \in {a, b}
         /\ e[k] \in Positive
         /\ item = "zi_mo" => \E n \in Positive : e[k] = times * n
  <2> SUFFICES ASSUME NEW k \in DOMAIN e
               PROVE  /\ e[k] \in Positive
                      /\ item = "zi_mo" => \E n \in Positive : e[k] = times * n
    BY <1>11
  <2>1. CASE k = a
    BY <1>1, <1>6, <1>11, <2>1
  <2>2. CASE k = b
    BY <1>2, <1>4, <1>6, <1>11, <2>2
  <2>. QED
    BY <1>11, <2>1, <2>2
<1>13. Entries(e, Keys)
  BY <1>7, <1>11, <1>12 DEF Entries, Positive
<1>14. PaysFor(e, {i}, payer, item)
  BY <1>11, <1>12, <1>13 DEF PaysFor, a, b
<1>15. item = "zi_mo" => InParts(e, times)
  BY <1>12 DEF InParts
<1>. QED
  BY <1>14, <1>15

-----------------------------------------------------------------------------
(* A won hand.                                                             *)

NoOffer(h) ==
  /\ h.pao_hu_flag = {} /\ h.pao_hu_seat = Nowhere
  /\ h.gang_hu_flag = {} /\ h.gang_hu_seat = Nowhere

\* A win on the last discard, or on a gang, is offered, ...
Fed(h) ==
  /\ h.pao_hu_flag # {} /\ h.pao_hu_seat = h.chu_seat /\ h.chu_seat \notin h.pao_hu_flag
  /\ h.gang_hu_flag = {} /\ h.gang_hu_seat = Nowhere
  /\ h.pao_hu_count = Cardinality(h.pao_hu_flag) /\ h.gang_hu_count = 0
Robbing(h) ==
  /\ h.gang_hu_flag # {} /\ h.gang_hu_seat \in Seats \ h.gang_hu_flag
  /\ h.pao_hu_flag = {} /\ h.pao_hu_seat = Nowhere
  /\ h.gang_hu_count = Cardinality(h.gang_hu_flag) /\ h.pao_hu_count = 0
\* ... or none is.
Quiet(h) == NoOffer(h) /\ h.pao_hu_count = 0 /\ h.gang_hu_count = 0

\* Several seats win without handler_hu, and none of them is win_seatid.
Won(h) ==
  \/ Fed(h) /\ h.pao_hu_flag = {h.win_seatid} /\ h.pao_hu_count = 1
  \/ Fed(h) /\ h.win_seatid = Nowhere /\ h.pao_hu_count > 1
  \/ Robbing(h) /\ h.gang_hu_flag = {h.win_seatid} /\ h.gang_hu_count = 1
  \/ Robbing(h) /\ h.win_seatid = Nowhere /\ h.gang_hu_count > 1
  \/ Quiet(h) /\ h.win_seatid # Nowhere

Payer(h) == IF h.pao_hu_seat # Nowhere THEN h.pao_hu_seat
            ELSE IF h.gang_hu_seat # Nowhere THEN h.gang_hu_seat ELSE Everyone
WinItem(h) == IF h.pao_hu_seat # Nowhere THEN "pao_hu"
              ELSE IF h.gang_hu_seat # Nowhere THEN "gang_hu" ELSE "zi_mo"

LEMMA WinnersArePaid ==
  ASSUME NEW W \in SUBSET Seats, NEW payer, NEW item, NEW of,
         \A i \in W : PaysFor(of[i], {i}, payer, item),
         NEW e, e = [k \in UNION {DOMAIN of[i] : i \in W} |-> of[k[1]][k]]
  PROVE  PaysFor(e, W, payer, item)
<1>1. ASSUME NEW k \in DOMAIN e
      PROVE  /\ k \in DOMAIN of[k[1]] /\ k[1] \in W /\ e[k] = of[k[1]][k]
  BY DEF PaysFor
<1>2. ASSUME NEW i \in W PROVE <<i, payer, item>> \in DOMAIN e
  <2>1. <<i, payer, item>> \in DOMAIN of[i]
    BY DEF PaysFor
  <2>2. DOMAIN e = UNION {DOMAIN of[j] : j \in W}
    OBVIOUS
  <2>3. DOMAIN of[i] \in {DOMAIN of[j] : j \in W}
    OBVIOUS
  <2> DEFINE k == <<i, payer, item>>
  <2> HIDE DEF k
  <2>4. k \in DOMAIN of[i] => k \in DOMAIN e
    BY <2>2, <2>3
  <2>. QED
    BY <2>1, <2>4 DEF k
<1>3. Entries(e, Keys)
  BY <1>1 DEF PaysFor, Entries
<1>. QED
  BY <1>1, <1>2, <1>3 DEF PaysFor

LEMMA WinFacts ==
  ASSUME NEW h, Typed(h), Won(h), NEW rv, rv.types \in CardTypes,
         NEW e, e = Win(h, rv)
  PROVE  /\ PaysFor(e, Winners(h), Payer(h), WinItem(h))
         /\ Winners(h) \in SUBSET Seats /\ Winners(h) # {}
         /\ Payer(h) = Everyone \/ Payer(h) \in Seats \ Winners(h)
         /\ Payer(h) = Everyone <=> NobodyPays(h)
         /\ Payer(h) = Everyone => InParts(e, SeatCount - 1)
<1> DEFINE score(i) == BaseScore(h, i, rv.types[i])
           n == SeatCount - 1
<1>1. \A i \in Seats : score(i) \in Positive /\ LianZhuang(h, i) \in Nat
  <2>1. \A i \in Seats : rv.types[i] \in DOMAIN TypeScore
    BY SettlementAssumption
  <2>2. \A i \in Seats : LianZhuang(h, i) \in Nat
    BY DEF LianZhuang, Typed
  <2>. QED
    BY <2>1, <2>2, BaseScoreIsPositive
<1>2. 1 \in Positive /\ n \in Positive
  BY SettlementAssumption DEF Positive
<1>3. Winners(h) \in SUBSET Seats /\ Winners(h) # {}
  BY NobodyIsSeated DEF Winners, Won, Typed, Fed, Robbing, Quiet, NoOffer
<1>4. /\ Payer(h) = Everyone \/ Payer(h) \in Seats \ Winners(h)
      /\ Payer(h) = Everyone <=> NobodyPays(h)
  BY NobodyIsSeated DEF Winners, Won, Typed, Fed, Robbing, Quiet, NoOffer, Payer, NobodyPays
<1> HIDE DEF score, n
<1>5. CASE Fed(h)
  <2> DEFINE of == [i \in Seats |-> WinEntry(h, i, h.pao_hu_seat, "pao_hu", 1, score(i))]
             W == {i \in Seats : i = h.win_seatid \/ i \in h.pao_hu_flag}
  <2>1. /\ W = Winners(h)
        /\ h.pao_hu_seat # Nowhere /\ h.pao_hu_seat \in Seats
    BY <1>5, NobodyIsSeated DEF Winners, Won, Typed, Fed, Robbing, Quiet, NoOffer
  <2>2. e = [k \in UNION {DOMAIN of[i] : i \in W} |-> of[k[1]][k]]
    <3>1. e = PaoHu(h, rv)
      BY <2>1 DEF Win
    <3>2. UNION {DOMAIN of[i] : i \in W} \subseteq Keys
      <4>1. \A i \in W : PaysFor(of[i], {i}, h.pao_hu_seat, "pao_hu")
        BY <1>1, <1>2, <2>1, WinEntryFacts
      <4>. QED
        BY <4>1 DEF PaysFor, Entries
    <3>3. \A k \in Keys : k[1] \in Seats
      BY DEF Keys
    <3>. QED
      BY <3>1, <3>2, <3>3 DEF PaoHu, score
  <2>3. \A i \in W : PaysFor(of[i], {i}, h.pao_hu_seat, "pao_hu")
    BY <1>1, <1>2, <2>1, WinEntryFacts
  <2>4. W \in SUBSET Seats
    OBVIOUS
  <2> HIDE DEF of, W
  <2>5. PaysFor(e, W, h.pao_hu_seat, "pao_hu")
    BY ONLY <2>2, <2>3, <2>4, WinnersArePaid
  <2>6. Payer(h) = h.pao_hu_seat /\ WinItem(h) = "pao_hu" /\ Payer(h) # Everyone
    BY <2>1, NobodyIsSeated DEF Payer, WinItem
  <2>. QED
    BY <1>3, <1>4, <2>1, <2>5, <2>6
<1>6. CASE Robbing(h)
  <2> DEFINE of == [i \in Seats |-> WinEntry(h, i, h.gang_hu_seat, "gang_hu", n, score(i))]
             W == {i \in Seats : i = h.win_seatid \/ i \in h.gang_hu_flag}
  <2>1. /\ W = Winners(h) /\ h.pao_hu_seat = Nowhere
        /\ h.gang_hu_seat # Nowhere /\ h.gang_hu_seat \in Seats
    BY <1>6, NobodyIsSeated DEF Winners, Won, Typed, Fed, Robbing, Quiet, NoOffer
  <2>2. \A i \in W : PaysFor(of[i], {i}, h.gang_hu_seat, "gang_hu")
    BY <1>1, <1>2, <2>1, WinEntryFacts
  <2>3. e = [k \in UNION {DOMAIN of[i] : i \in W} |-> of[k[1]][k]]
    <3>1. e = GangHu(h, rv)
      BY <2>1 DEF Win
    <3>2. UNION {DOMAIN of[i] : i \in W} \subseteq Keys
      BY <2>2 DEF PaysFor, Entries
    <3>3. \A k \in Keys : k[1] \in Seats
      BY DEF Keys
    <3>. QED
      BY <3>1, <3>2, <3>3 DEF GangHu, score, n
  <2>4. W \in SUBSET Seats
    OBVIOUS
  <2> HIDE DEF of, W
  <2>5. PaysFor(e, W, h.gang_hu_seat, "gang_hu")
    BY ONLY <2>2, <2>3, <2>4, WinnersArePaid
  <2>6. Payer(h) = h.gang_hu_seat /\ WinItem(h) = "gang_hu" /\ Payer(h) # Everyone
    BY <2>1, NobodyIsSeated DEF Payer, WinItem
  <2>. QED
    BY <1>3, <1>4, <2>1, <2>5, <2>6
<1>7. CASE Quiet(h)
  <2> DEFINE w == h.win_seatid
             x == 2 * score(w)
  <2>1. /\ Winners(h) = {w} /\ w \in Seats
        /\ h.pao_hu_seat = Nowhere /\ h.gang_hu_seat = Nowhere
    BY <1>7, NobodyIsSeated DEF Winners, Won, Typed, Fed, Robbing, Quiet, NoOffer
  <2>2. x \in Positive
    BY <1>1, <2>1 DEF Positive
  <2>3. e = WinEntry(h, w, Everyone, "zi_mo", n, x)
    BY <2>1 DEF Win, ZiMo, score, n
  <2> HIDE DEF x, w
  <2>4. /\ PaysFor(e, {w}, Everyone, "zi_mo")
        /\ InParts(e, n)
    <3>1. /\ w \in Seats /\ LianZhuang(h, w) \in Nat /\ Everyone \in Seats \cup {Everyone}
          /\ "zi_mo" \in {"pao_hu", "gang_hu", "zi_mo"} /\ n \in Positive /\ x \in Positive
      BY <1>1, <1>2, <2>1, <2>2
    <3> DEFINE item == "zi_mo"
    <3> HIDE DEF item
    <3>2. e = WinEntry(h, w, Everyone, item, n, x) /\ item \in {"pao_hu", "gang_hu", "zi_mo"}
      BY <2>3 DEF item
    <3>3. PaysFor(e, {w}, Everyone, item)
      BY ONLY <3>1, <3>2, WinEntryFacts
    <3>4. item = "zi_mo" => InParts(e, n)
      BY ONLY <3>1, <3>2, WinEntryFacts
    <3>. QED
      BY <3>3, <3>4 DEF item
  <2>5. Payer(h) = Everyone /\ WinItem(h) = "zi_mo"
    BY <2>1 DEF Payer, WinItem
  <2>. QED
    BY <1>3, <1>4, <2>1, <2>4, <2>5 DEF n
<1>. QED
  BY <1>5, <1>6, <1>7 DEF Won

-----------------------------------------------------------------------------
(* The birds.                                                              *)

\* What one seat pays another for a bird.
BirdEntries(l) ==
  Entries(l, Keys) /\ \A k \in DOMAIN l : k[3] \in BirdItems /\ k[2] \in Others(k[1])

LEMMA BirdEntriesAdd ==
  ASSUME NEW l, NEW m, BirdEntries(l), BirdEntries(m)
  PROVE  BirdEntries(AddAll(l, m))
<1>1. Entries(AddAll(l, m), Keys)
  BY EntriesAdd DEF BirdEntries
<1>2. DOMAIN AddAll(l, m) = DOMAIN l \cup DOMAIN m
  BY AddAllFacts
<1>. QED
  BY <1>1, <1>2 DEF BirdEntries

LEMMA NoBirdEntries == BirdEntries(<<>>)
BY NoEntries, NoAmount DEF BirdEntries

\* Entries for the items I between s and seats of J.
Involves(s, J, I, D) ==
  \A k \in D : \E j \in J, item \in I : k = <<s, j, item>> \/ k = <<j, s, item>>

LEMMA SeatsBirdEntries ==
  ASSUME NEW s \in Seats, NEW J, J \subseteq Others(s), NEW I, I \subseteq BirdItems,
         NEW l, Involves(s, J, I, DOMAIN l), \A k \in DOMAIN l : l[k] \in Int
  PROVE  BirdEntries(l)
<1>1. \A k \in DOMAIN l : k \in Keys /\ k[3] \in BirdItems /\ k[2] \in Others(k[1])
  <2> SUFFICES ASSUME NEW k \in DOMAIN l
               PROVE  k \in Keys /\ k[3] \in BirdItems /\ k[2] \in Others(k[1])
    OBVIOUS
  <2>1. PICK j \in J, item \in I : k = <<s, j, item>> \/ k = <<j, s, item>>
    BY DEF Involves
  <2>. QED
    BY <2>1 DEF Keys, Others, Items
<1>. QED
  BY <1>1 DEF BirdEntries, Entries

LEMMA JiPaiFacts ==
  ASSUME NEW options, NEW v \in Nat
  PROVE  /\ IsFiniteSet(DOMAIN JiPai(options, v))
         /\ \A b \in DOMAIN JiPai(options, v) : JiPai(options, v)[b] \in BirdItems
<1> DEFINE always == {YaoJi} \cup (IF "wu_gu_ji" \in options THEN {BaTong} ELSE {})
           turned == TurnedBirds(options, v)
<1>1. DOMAIN JiPai(options, v) = always \cup turned
  BY DEF JiPai
<1>2. IsFiniteSet(always)
  <2>1. IsFiniteSet({YaoJi}) /\ IsFiniteSet({BaTong}) /\ IsFiniteSet({})
    BY FS_Singleton, FS_EmptySet
  <2>. QED
    BY <2>1, FS_Union
<1>3. IsFiniteSet(turned)
  <2>1. /\ IsFiniteSet({v}) /\ IsFiniteSet({})
        /\ IsFiniteSet({RankBefore(v)}) /\ IsFiniteSet({RankAfter(v)})
    BY FS_Singleton, FS_EmptySet
  <2>2. IsFiniteSet({RankBefore(v)} \cup {RankAfter(v)})
    BY <2>1, FS_Union
  <2>3. {RankBefore(v), RankAfter(v)} = {RankBefore(v)} \cup {RankAfter(v)}
    OBVIOUS
  <2>. QED
    BY <2>1, <2>2, <2>3, FS_Union DEF TurnedBirds
<1>4. IsFiniteSet(always \cup turned)
  BY <1>2, <1>3, FS_Union
<1>5. ASSUME NEW b \in always \cup turned PROVE JiPai(options, v)[b] \in BirdItems
  BY DEF JiPai, BirdItems
<1>. QED
  BY <1>1, <1>4, <1>5

\* What a hand may show when it is settled.
Revealed(rv) == rv.types \in CardTypes /\ rv.holds \in Holdings /\ rv.turned \in Turned

LEMMA HeldIsInt ==
  ASSUME NEW h, Typed(h), NEW rv, Revealed(rv), NEW s \in Seats, NEW b
  PROVE  Held(h, rv, s, b) \in Int
<1> DEFINE won == s = h.win_seatid \/ s \in h.pao_hu_flag \cup h.gang_hu_flag
           a0 == Amount(rv.holds[s], b)
           a1 == IF won /\ h.pao_hu_count > 0 /\ h.last_card = b THEN 1 ELSE 0
           a2 == IF won /\ h.gang_hu_count > 0 /\ h.last_gang_card = b THEN 1 ELSE 0
           a3 == IF b \in {YaoJi, BaTong} THEN h.melds[s][b] + h.out[s][b] ELSE 0
           a4 == IF IsBird(h, b) /\ h.seat_birds[s][b].chong THEN 1 ELSE 0
<1>1. Held(h, rv, s, b) = a0 + a1 + a2 + a3 - a4
  BY DEF Held
<1>2. a0 \in Int
  BY SettlementAssumption DEF Revealed, Amount
<1>3. a1 \in Int /\ a2 \in Int /\ a4 \in Int
  OBVIOUS
<1>4. a3 \in Int
  BY DEF Typed, Tiles
<1> HIDE DEF a0, a1, a2, a3, a4
<1>. QED
  BY <1>1, <1>2, <1>3, <1>4

LEMMA BirdCardsFacts ==
  ASSUME NEW h, Typed(h), NEW rv, Revealed(rv), NEW s \in Seats
  PROVE  BirdEntries(BirdCards(h, rv, s))
<1> DEFINE jiPai == JiPai(h.options, rv.turned)
           of(item) == {b \in DOMAIN jiPai : jiPai[b] = item}
           held == [b \in DOMAIN jiPai |-> Held(h, rv, s, b)]
           paid(item) == Sum(held, of(item)) * BirdBet(h.options, rv.turned, item)
           I == {jiPai[b] : b \in DOMAIN jiPai}
           D == {<<s, j, item>> : j \in Others(s), item \in I}
<1>1. BirdCards(h, rv, s) = [k \in D |-> paid(k[3])]
  BY DEF BirdCards
<1>2. rv.turned \in Nat
  BY SettlementAssumption DEF Revealed
<1>3. IsFiniteSet(DOMAIN jiPai) /\ I \in SUBSET BirdItems
  BY <1>2, JiPaiFacts
<1>4. ASSUME NEW item PROVE paid(item) \in Int
  <2>1. \A b \in of(item) : held[b] \in Int
    BY HeldIsInt
  <2>2. of(item) \in SUBSET DOMAIN jiPai
    OBVIOUS
  <2> HIDE DEF held, of
  <2>3. IsFiniteSet(of(item))
    BY <1>3, <2>2, FS_Subset
  <2>4. Sum(held, of(item)) \in Int
    BY <2>1, <2>3, SumIsInt, SumIsSumOn
  <2>5. BirdBet(h.options, rv.turned, item) \in Int
    BY DEF BirdBet
  <2>. QED
    BY <2>4, <2>5
<1> HIDE DEF paid
<1> DEFINE l == [k \in D |-> paid(k[3])]
<1>5. DOMAIN l = D /\ \A k \in D : l[k] \in Int
  BY <1>4
<1>6. Others(s) \subseteq Others(s)
  OBVIOUS
<1>7. Involves(s, Others(s), I, D)
  BY DEF Involves
<1> HIDE DEF l, I, jiPai, D
<1>8. Involves(s, Others(s), I, DOMAIN l) /\ s \in Seats /\ I \subseteq BirdItems
  BY <1>3, <1>5, <1>7
<1>9. \A k \in DOMAIN l : l[k] \in Int
  BY <1>5
<1>10. BirdEntries(l)
  BY ONLY <1>6, <1>8, <1>9, SeatsBirdEntries
<1>. QED
  BY <1>1, <1>10 DEF l

LEMMA ZeRenIsNat ==
  ASSUME NEW h, NEW s
  PROVE  ZeRen(h, s) \in Nat
<1> DEFINE B == {b \in {YaoJi, BaTong} : h.seat_birds[s][b].ze_ren = 1}
<1>1. IsFiniteSet({YaoJi, BaTong})
  <2>1. {YaoJi, BaTong} = {YaoJi} \cup {BaTong}
    OBVIOUS
  <2>2. IsFiniteSet({YaoJi}) /\ IsFiniteSet({BaTong})
    BY FS_Singleton
  <2>3. IsFiniteSet({YaoJi} \cup {BaTong})
    BY ONLY <2>2, FS_Union
  <2>. QED
    BY <2>1, <2>3
<1>2. B \in SUBSET {YaoJi, BaTong}
  OBVIOUS
<1>3. IsFiniteSet(B)
  BY ONLY <1>1, <1>2, FS_Subset
<1> HIDE DEF B
<1>4. Cardinality(B) \in Nat
  BY ONLY <1>3, FS_CardinalityType
<1>. QED
  BY <1>4 DEF ZeRen, B

LEMMA ChongFengItems ==
  ASSUME NEW h, NEW rv, NEW s
  PROVE  /\ DOMAIN ChongFeng(h, rv, s) = {"chong_feng_ji", "chong_feng_wu_gu_ji"}
         /\ \A item \in DOMAIN ChongFeng(h, rv, s) : ChongFeng(h, rv, s)[item] \in Nat
         /\ ZeRen(h, s) \in Nat
<1>1. ZeRen(h, s) \in Nat
  BY ZeRenIsNat
<1>2. /\ DOMAIN ChongFeng(h, rv, s) = {"chong_feng_ji", "chong_feng_wu_gu_ji"}
      /\ \A item \in DOMAIN ChongFeng(h, rv, s) : ChongFeng(h, rv, s)[item] \in Nat
  BY DEF ChongFeng
<1>. QED
  BY <1>1, <1>2

\* The ze ren ji, which its owner pays to everybody.
LEMMA ZeRenFacts ==
  ASSUME NEW h, NEW s \in Seats
  PROVE  BirdEntries([k \in {<<j, s, "ze_ren_ji">> : j \in Others(s)} |-> ZeRen(h, s)])
<1> DEFINE D == {<<j, s, "ze_ren_ji">> : j \in Others(s)}
           l == [k \in D |-> ZeRen(h, s)]
<1>1. Involves(s, Others(s), {"ze_ren_ji"}, D)
  BY DEF Involves
<1>2. {"ze_ren_ji"} \subseteq BirdItems /\ Others(s) \subseteq Others(s)
  BY DEF BirdItems
<1>3. DOMAIN l = D
  OBVIOUS
<1>4. \A k \in D : l[k] \in Int
  <2>1. ZeRen(h, s) \in Int
    BY ZeRenIsNat
  <2>. QED
    BY <2>1
<1> HIDE DEF l, D
<1>5. /\ s \in Seats /\ Involves(s, Others(s), {"ze_ren_ji"}, DOMAIN l)
      /\ \A k \in DOMAIN l : l[k] \in Int
  BY <1>1, <1>3, <1>4
<1>6. BirdEntries(l)
  BY ONLY <1>2, <1>5, SeatsBirdEntries
<1>. QED
  BY <1>6 DEF l, D

LEMMA ChongFengPaidFacts ==
  ASSUME NEW h, NEW rv, NEW s \in Seats
  PROVE  BirdEntries(ChongFengPaid(h, rv, s))
<1> DEFINE c == ChongFeng(h, rv, s)
           D == {<<s, j, item>> : j \in Others(s), item \in DOMAIN c}
           l == [k \in D |-> c[k[3]]]
           m == [k \in {<<j, s, "ze_ren_ji">> : j \in Others(s)} |-> ZeRen(h, s)]
<1>1. ChongFengPaid(h, rv, s) = <<>> \/ ChongFengPaid(h, rv, s) = AddAll(l, m)
  BY DEF ChongFengPaid
<1>2. DOMAIN c \in SUBSET BirdItems /\ \A item \in DOMAIN c : c[item] \in Int
  BY ChongFengItems DEF BirdItems
<1>3. BirdEntries(m)
  BY ZeRenFacts
<1>4. DOMAIN l = D /\ \A k \in D : l[k] \in Int
  BY <1>2
<1>5. Others(s) \subseteq Others(s) /\ Involves(s, Others(s), DOMAIN c, D)
  BY DEF Involves
<1> HIDE DEF l, m, c, D
<1>8. /\ s \in Seats /\ Involves(s, Others(s), DOMAIN c, DOMAIN l)
      /\ DOMAIN c \subseteq BirdItems /\ \A k \in DOMAIN l : l[k] \in Int
  BY <1>2, <1>4, <1>5
<1>6. BirdEntries(l)
  BY ONLY <1>5, <1>8, SeatsBirdEntries
<1>7. BirdEntries(AddAll(l, m))
  BY <1>3, <1>6, BirdEntriesAdd
<1>. QED
  BY <1>1, <1>7, NoBirdEntries

LEMMA BaoJiFacts ==
  ASSUME NEW h, Typed(h), NEW rv, NEW s \in Seats
  PROVE  BirdEntries(BaoJi(h, rv, s))
<1> DEFINE c == ChongFeng(h, rv, s)
           e == [item \in {"yao_ji", "wu_gu_ji"} |->
                   h.seat_birds[s][IF item = "yao_ji" THEN YaoJi ELSE BaTong].loose]
           owed == AddAll(c, e)
           J == PaidForBirds(h, rv) \ {s}
           D == {<<j, s, item>> : j \in J, item \in DOMAIN owed}
           l == [k \in D |-> owed[k[3]]]
           m == [k \in {<<j, s, "ze_ren_ji">> : j \in Others(s)} |-> ZeRen(h, s)]
<1>1. BaoJi(h, rv, s) = AddAll(l, m)
  BY DEF BaoJi
<1>2. Entries(c, BirdItems)
  BY ChongFengItems DEF Entries, BirdItems
<1>3. Entries(e, BirdItems)
  <2>1. \A b \in BirdTiles : h.seat_birds[s][b].loose \in Int
    BY DEF Typed, Bird
  <2>. QED
    BY <2>1 DEF Entries, BirdItems, BirdTiles
<1>4. Entries(owed, BirdItems)
  BY <1>2, <1>3, EntriesAdd
<1>5. BirdEntries(m)
  BY ZeRenFacts
<1> HIDE DEF owed
<1>6. DOMAIN l = D /\ \A k \in D : l[k] \in Int
  BY <1>4 DEF Entries
<1>7. J \subseteq Others(s) /\ DOMAIN owed \subseteq BirdItems
  BY <1>4 DEF PaidForBirds, Others, Entries
<1>9. Involves(s, J, DOMAIN owed, D)
  BY DEF Involves
<1> HIDE DEF l, m, J, D
<1>10. /\ s \in Seats /\ Involves(s, J, DOMAIN owed, DOMAIN l)
       /\ \A k \in DOMAIN l : l[k] \in Int
  BY <1>6, <1>9
<1>8. BirdEntries(l)
  BY ONLY <1>7, <1>10, SeatsBirdEntries
<1>. QED
  BY <1>1, <1>5, <1>8, BirdEntriesAdd

\* What every seat's birds come to.
SeatsBirds(h, rv) ==
  [s \in Seats |->
     IF s \in PaidForBirds(h, rv) THEN AddAll(BirdCards(h, rv, s), ChongFengPaid(h, rv, s))
     ELSE IF "bao_ji" \in h.options THEN BaoJi(h, rv, s) ELSE <<>>]

LEMMA SeatsBirdsFacts ==
  ASSUME NEW h, Typed(h), NEW rv, Revealed(rv)
  PROVE  \A s \in Seats : BirdEntries(SeatsBirds(h, rv)[s])
<1> SUFFICES ASSUME NEW s \in Seats PROVE BirdEntries(SeatsBirds(h, rv)[s])
  OBVIOUS
<1>1. BirdEntries(AddAll(BirdCards(h, rv, s), ChongFengPaid(h, rv, s)))
  BY BirdCardsFacts, ChongFengPaidFacts, BirdEntriesAdd
<1>2. BirdEntries(BaoJi(h, rv, s))
  BY BaoJiFacts
<1>. QED
  BY <1>1, <1>2, NoBirdEntries DEF SeatsBirds

LEMMA BirdsFacts ==
  ASSUME NEW h, Typed(h), NEW rv, Revealed(rv)
  PROVE  /\ BirdEntries(Birds(h, rv))
         /\ Birds(h, rv) = IF NoBirdsNoBeans(h) THEN <<>> ELSE AddUp(SeatsBirds(h, rv), Seats)
<1> DEFINE of == SeatsBirds(h, rv)
           a == AddUp(of, Seats)
<1>1. DOMAIN of = Seats
  BY DEF SeatsBirds
<1>2. Birds(h, rv) = IF NoBirdsNoBeans(h) THEN <<>> ELSE FoldFunction(AddAll, <<>>, of)
  BY Zenon DEF Birds, SeatsBirds
<1>3. \A s \in Seats : BirdEntries(of[s])
  BY SeatsBirdsFacts
<1> HIDE DEF of
<1>4. \A s \in Seats : Entries(of[s], Keys)
  BY <1>3 DEF BirdEntries
<1>5. FoldFunction(AddAll, <<>>, of) = a
  BY <1>1, <1>4, FoldAddsUp
<1>6. Entries(a, Keys) /\ DOMAIN a = UNION {DOMAIN of[s] : s \in Seats}
  BY <1>4, AddUpFacts
<1> HIDE DEF a
<1>7. BirdEntries(a)
  BY <1>3, <1>6 DEF BirdEntries
<1>8. Birds(h, rv) = IF NoBirdsNoBeans(h) THEN <<>> ELSE a
  BY <1>2, <1>5
<1>. QED
  BY <1>7, <1>8, NoBirdEntries DEF a, of

-----------------------------------------------------------------------------
(* What the handlers do to the hand.                                       *)

Owns(h, s, b) == h.seat_birds[s][b].chong \/ h.seat_birds[s][b].ze_ren # 0

\* The first tile of b is one seat's, and the table knows of it.
FirstBird(h, b) ==
  /\ \A s, u \in Seats : Owns(h, s, b) /\ Owns(h, u, b) => s = u
  /\ \A s \in Seats : h.seat_birds[s][b].ze_ren = 2 => h.seat_birds[s][b].chong
  /\ \A s \in Seats : h.seat_birds[s][b].ze_ren = 1 => ~ h.seat_birds[s][b].chong
  /\ h.birds[b].chong <=> \E s \in Seats : h.seat_birds[s][b].chong
  /\ h.birds[b].ze_ren = 1 <=> \E s \in Seats : h.seat_birds[s][b].ze_ren = 1
  /\ h.birds[b].ze_ren = 2 => \E s \in Seats : h.seat_birds[s][b].ze_ren = 2

FirstBirds(h) == \A b \in BirdTiles : FirstBird(h, b)

LEMMA SameBirds ==
  ASSUME NEW q, NEW h, q.birds = h.birds, q.seat_birds = h.seat_birds
  PROVE  FirstBirds(h) => FirstBirds(q)
BY DEF FirstBirds, FirstBird, Owns

\* The records of one bird change, the table's and one seat's.
BirdChanges(q, h, s, b) ==
  /\ \A c \in BirdTiles \ {b} : q.birds[c] = h.birds[c]
  /\ \A u \in Seats, c \in BirdTiles : u # s \/ c # b => q.seat_birds[u][c] = h.seat_birds[u][c]

LEMMA OtherBirds ==
  ASSUME NEW h, NEW s, NEW b, NEW q, BirdChanges(q, h, s, b), FirstBirds(h), FirstBird(q, b)
  PROVE  FirstBirds(q)
<1> SUFFICES ASSUME NEW c \in BirdTiles, c # b PROVE FirstBird(q, c)
  BY DEF FirstBirds
<1>1. FirstBird(h, c)
  BY DEF FirstBirds
<1>2. q.birds[c] = h.birds[c] /\ \A u \in Seats : q.seat_birds[u][c] = h.seat_birds[u][c]
  BY DEF BirdChanges
<1>. QED
  BY <1>1, <1>2 DEF FirstBird, Owns

LEMMA BirdUpdates ==
  ASSUME NEW x \in Bird
  PROVE  /\ [x EXCEPT !.ze_ren = 0] \in Bird
         /\ [x EXCEPT !.ze_ren = 0].chong = x.chong /\ [x EXCEPT !.ze_ren = 0].ze_ren = 0
         /\ [x EXCEPT !.loose = @ + 1] \in Bird
         /\ [x EXCEPT !.loose = @ + 1].chong = x.chong
         /\ [x EXCEPT !.loose = @ + 1].ze_ren = x.ze_ren
<1>2. /\ [x EXCEPT !.ze_ren = 0] \in Bird
      /\ [x EXCEPT !.ze_ren = 0].chong = x.chong /\ [x EXCEPT !.ze_ren = 0].ze_ren = 0
  BY DEF Bird
<1>3. x.loose + 1 \in Nat
  BY DEF Bird
<1>4. [x EXCEPT !.loose = @ + 1] \in Bird
  BY <1>3 DEF Bird
<1>5. /\ [x EXCEPT !.loose = @ + 1].chong = x.chong
      /\ [x EXCEPT !.loose = @ + 1].ze_ren = x.ze_ren
  BY DEF Bird
<1>. QED
  BY <1>2, <1>4, <1>5

LEMMA BirdIsOpen ==
  ASSUME NEW x \in Bird, NEW y, y = [x EXCEPT !.chong = TRUE, !.ze_ren = 2]
  PROVE  y \in Bird /\ y.chong /\ y.ze_ren = 2
<1>1. x.loose \in Nat /\ y = [chong |-> TRUE, ze_ren |-> 2, loose |-> x.loose]
  BY DEF Bird
<1>2. y.chong /\ y.ze_ren = 2
  BY <1>1
<1>3. y \in Bird
  <2>1. \A c \in BOOLEAN, z \in 0 .. 2, n \in Nat : [chong |-> c, ze_ren |-> z, loose |-> n] \in Bird
    BY DEF Bird
  <2>2. TRUE \in BOOLEAN /\ 2 \in 0 .. 2
    OBVIOUS
  <2>. QED
    BY <1>1, <2>1, <2>2, Zenon
<1>. QED
  BY <1>2, <1>3

LEMMA BirdIsClaimed ==
  ASSUME NEW x \in Bird, NEW y, y = [x EXCEPT !.chong = FALSE, !.ze_ren = 1]
  PROVE  y \in Bird /\ ~ y.chong /\ y.ze_ren = 1
<1>1. x.loose \in Nat /\ y = [chong |-> FALSE, ze_ren |-> 1, loose |-> x.loose]
  BY DEF Bird
<1>2. ~ y.chong /\ y.ze_ren = 1
  BY <1>1
<1>3. y \in Bird
  <2>1. \A c \in BOOLEAN, z \in 0 .. 2, n \in Nat : [chong |-> c, ze_ren |-> z, loose |-> n] \in Bird
    BY DEF Bird
  <2>2. FALSE \in BOOLEAN /\ 1 \in 0 .. 2
    OBVIOUS
  <2>. QED
    BY <1>1, <2>1, <2>2, Zenon
<1>. QED
  BY <1>2, <1>3

LEMMA DropBirdFacts ==
  ASSUME NEW h, Hand(h), NEW s \in Seats, NEW t, NEW b \in BirdTiles,
         NEW q, q = DropBird(h, s, t, b)
  PROVE  /\ Hand(q)
         /\ Same(q, h, {"birds", "seat_birds"})
         /\ FirstBirds(h) => FirstBirds(q)
<1> DEFINE stale == h.birds[b].ze_ren = 2 \/ h.seat_birds[s][b].ze_ren = 2
           first == t = b /\ ~ h.birds[b].chong /\ h.birds[b].ze_ren # 1
           x == h.birds[b]
           y == h.seat_birds[s][b]
           x1 == IF first THEN [x EXCEPT !.chong = TRUE, !.ze_ren = 2]
                 ELSE IF stale THEN [x EXCEPT !.ze_ren = 0] ELSE x
           y1 == IF first THEN [y EXCEPT !.chong = TRUE, !.ze_ren = 2]
                 ELSE IF stale THEN [y EXCEPT !.ze_ren = 0] ELSE y
           y2 == IF ~ first /\ t = b THEN [y1 EXCEPT !.loose = @ + 1] ELSE y1
<1>1. /\ h.birds \in [BirdTiles -> Bird] /\ h.seat_birds \in [Seats -> [BirdTiles -> Bird]]
      /\ x \in Bird /\ y \in Bird
  BY DEF Hand, Typed
<1>2. /\ IsHand(q) /\ Same(q, h, {"birds", "seat_birds"})
      /\ q.birds = [h.birds EXCEPT ![b] = x1]
      /\ q.seat_birds = [h.seat_birds EXCEPT ![s][b] = y2]
  <2>1. CASE first
    <3>1. q = [h EXCEPT !.birds[b] = x1, !.seat_birds[s][b] = y2]
      BY <1>1, <2>1, FieldNames DEF DropBird, Hand, IsHand
    <3> HIDE DEF x1, y2
    <3>2. IsHand(q) /\ Same(q, h, {"birds", "seat_birds"})
      BY <3>1, FieldNames DEF Hand, IsHand, Same
    <3>3. q.birds = [h.birds EXCEPT ![b] = x1]
      BY <1>1, <2>1, <3>1, FieldNames DEF Hand, IsHand
    <3>4. q.seat_birds = [h.seat_birds EXCEPT ![s][b] = y2]
      BY <1>1, <2>1, <3>1, FieldNames DEF Hand, IsHand
    <3>. QED
      BY <3>2, <3>3, <3>4
  <2>2. CASE ~ first
    <3> DEFINE g == IF stale THEN [h EXCEPT !.birds[b].ze_ren = 0, !.seat_birds[s][b].ze_ren = 0] ELSE h
    <3>1. q = IF t = b THEN [g EXCEPT !.seat_birds[s][b].loose = @ + 1] ELSE g
      BY <2>2 DEF DropBird
    <3>2. IsHand(g) /\ Same(g, h, {"birds", "seat_birds"})
      BY FieldNames DEF Hand, IsHand, Same
    <3>3. g.birds = [h.birds EXCEPT ![b] = x1] /\ g.seat_birds = [h.seat_birds EXCEPT ![s][b] = y1]
      BY <1>1, <2>2, FieldNames DEF Hand, IsHand
    <3> HIDE DEF g, x1, y1
    <3>4. IsHand(q) /\ Same(q, g, {"seat_birds"})
      BY <3>1, <3>2, FieldNames DEF IsHand, Same
    <3>5. q.seat_birds = [h.seat_birds EXCEPT ![s][b] = y2]
      <4>1. g.seat_birds[s][b] = y1
        BY <1>1, <3>3
      <4>2. q.seat_birds = IF t = b THEN [g.seat_birds EXCEPT ![s][b].loose = @ + 1] ELSE g.seat_birds
        BY <3>1, <3>2, FieldNames DEF IsHand
      <4>. QED
        <5>1. CASE t = b
          <6>1. y2 = [y1 EXCEPT !.loose = @ + 1]
            BY <2>2, <5>1
          <6>2. q.seat_birds = [g.seat_birds EXCEPT ![s][b] = y2]
            BY <4>1, <4>2, <5>1, <6>1
          <6> HIDE DEF y2
          <6>. QED
            BY <1>1, <3>3, <6>2
        <5>2. CASE t # b
          BY <3>3, <4>2, <5>2
        <5>. QED
          BY <5>1, <5>2
    <3>. QED
      BY <3>2, <3>3, <3>4, <3>5 DEF Same
  <2>. QED
    BY <2>1, <2>2
<1>3. /\ x1 \in Bird /\ y2 \in Bird
      /\ first => x1.chong /\ y2.chong /\ x1.ze_ren = 2 /\ y2.ze_ren = 2
      /\ ~ first => x1.chong = x.chong /\ y2.chong = y.chong
      /\ ~ first /\ stale => x1.ze_ren = 0 /\ y2.ze_ren = 0
      /\ ~ first /\ ~ stale => x1.ze_ren = x.ze_ren /\ y2.ze_ren = y.ze_ren
  <2>1. CASE first
    <3>1. y2 = y1 /\ x1 = [x EXCEPT !.chong = TRUE, !.ze_ren = 2] /\ y1 = [y EXCEPT !.chong = TRUE, !.ze_ren = 2]
      BY <2>1
    <3> HIDE DEF x1, y1, y2, x, y
    <3>2. x1 \in Bird /\ x1.chong /\ x1.ze_ren = 2
      BY ONLY <1>1, <3>1, BirdIsOpen
    <3>3. y1 \in Bird /\ y1.chong /\ y1.ze_ren = 2
      BY ONLY <1>1, <3>1, BirdIsOpen
    <3>. QED
      BY <2>1, <3>1, <3>2, <3>3
  <2>2. CASE ~ first
    <3>1. CASE stale
      <4>1. x1 = [x EXCEPT !.ze_ren = 0] /\ y1 = [y EXCEPT !.ze_ren = 0]
        BY <2>2, <3>1
      <4>2. y2 = IF t = b THEN [y1 EXCEPT !.loose = @ + 1] ELSE y1
        BY <2>2
      <4> HIDE DEF x1, y1, y2, x, y
      <4>3. x1 \in Bird /\ x1.chong = x.chong /\ x1.ze_ren = 0
        BY ONLY <1>1, <4>1, BirdUpdates
      <4>4. y1 \in Bird /\ y1.chong = y.chong /\ y1.ze_ren = 0
        BY ONLY <1>1, <4>1, BirdUpdates
      <4>5. y2 \in Bird /\ y2.chong = y1.chong /\ y2.ze_ren = y1.ze_ren
        BY ONLY <4>2, <4>4, BirdUpdates
      <4>. QED
        BY <2>2, <3>1, <4>3, <4>4, <4>5
    <3>2. CASE ~ stale
      <4>1. x1 = x /\ y1 = y
        BY <2>2, <3>2
      <4>2. y2 = IF t = b THEN [y1 EXCEPT !.loose = @ + 1] ELSE y1
        BY <2>2
      <4> HIDE DEF x1, y1, y2, x, y
      <4>3. y2 \in Bird /\ y2.chong = y.chong /\ y2.ze_ren = y.ze_ren
        BY ONLY <1>1, <4>1, <4>2, BirdUpdates
      <4>. QED
        BY <1>1, <2>2, <3>2, <4>1, <4>3
    <3>. QED
      BY <3>1, <3>2
  <2>. QED
    BY <2>1, <2>2
<1> HIDE DEF x1, y1, y2
<1>4. q.birds \in [BirdTiles -> Bird] /\ q.seat_birds \in [Seats -> [BirdTiles -> Bird]]
  BY <1>1, <1>2, <1>3
<1>5. Hand(q)
  BY <1>2, <1>4 DEF Hand, Typed, Same
<1>6. BirdChanges(q, h, s, b) /\ q.birds[b] = x1 /\ q.seat_birds[s][b] = y2
  BY <1>1, <1>2 DEF BirdChanges
<1>7. \A u \in Seats : u # s => q.seat_birds[u][b] = h.seat_birds[u][b]
  BY <1>6 DEF BirdChanges
<1>8. ASSUME FirstBirds(h) PROVE FirstBird(q, b)
  <2>1. FirstBird(h, b)
    BY <1>8 DEF FirstBirds
  <2>2. CASE first
    <3>1. \A u \in Seats : ~ h.seat_birds[u][b].chong /\ h.seat_birds[u][b].ze_ren = 0
      BY <1>1, <2>1, <2>2 DEF FirstBird, Bird
    <3>2. x1.chong /\ y2.chong /\ x1.ze_ren = 2 /\ y2.ze_ren = 2
      BY <1>3, <2>2
    <3>. QED
      BY <1>6, <1>7, <3>1, <3>2 DEF FirstBird, Owns
  <2>3. CASE ~ first /\ stale
    <3>1. y.ze_ren # 1 /\ x.ze_ren # 1
      BY <2>1, <2>3 DEF FirstBird, Owns
    <3>2. /\ x1.chong = x.chong /\ x1.ze_ren = 0 /\ y2.chong = y.chong /\ y2.ze_ren = 0
      BY <1>3, <2>3
    <3>. QED
      BY <1>6, <1>7, <2>1, <3>1, <3>2 DEF FirstBird, Owns
  <2>4. CASE ~ first /\ ~ stale
    <3>2. /\ x1.chong = x.chong /\ x1.ze_ren = x.ze_ren /\ y2.chong = y.chong /\ y2.ze_ren = y.ze_ren
      BY <1>3, <2>4
    <3>. QED
      BY <1>6, <1>7, <2>1, <3>2 DEF FirstBird, Owns
  <2>. QED
    BY <2>2, <2>3, <2>4
<1>. QED
  BY <1>2, <1>5, <1>6, <1>8, OtherBirds

LEMMA DropBirdsFacts ==
  ASSUME NEW h, Hand(h), NEW s \in Seats, NEW t, NEW q, q = DropBirds(h, s, t)
  PROVE  /\ Hand(q)
         /\ Same(q, h, {"birds", "seat_birds"})
         /\ FirstBirds(h) => FirstBirds(q)
<1> DEFINE g == DropBird(h, s, t, YaoJi)
<1>1. YaoJi \in BirdTiles /\ BaTong \in BirdTiles
  BY DEF BirdTiles
<1>2. Hand(g) /\ Same(g, h, {"birds", "seat_birds"}) /\ (FirstBirds(h) => FirstBirds(g))
  BY <1>1, DropBirdFacts
<1> HIDE DEF g
<1>3. q = g \/ q = DropBird(g, s, t, BaTong)
  BY DEF DropBirds, g
<1>4. q # g => Hand(q) /\ Same(q, g, {"birds", "seat_birds"}) /\ (FirstBirds(g) => FirstBirds(q))
  BY <1>1, <1>2, <1>3, DropBirdFacts
<1>. QED
  BY <1>2, <1>4 DEF Same

LEMMA ClaimBirdFacts ==
  ASSUME NEW h, Hand(h), NEW t, NEW q, q = ClaimBird(h, t)
  PROVE  /\ Hand(q)
         /\ Same(q, h, {"birds", "seat_birds"})
         /\ FirstBirds(h) => FirstBirds(q)
<1> DEFINE s == h.chu_seat
           x == h.birds[t]
           y == h.seat_birds[s][t]
           x1 == [x EXCEPT !.chong = FALSE, !.ze_ren = 1]
           y1 == [y EXCEPT !.chong = FALSE, !.ze_ren = 1]
           claimed == IsBird(h, t) /\ y.chong /\ x.ze_ren = 2
<1>1. CASE ~ claimed
  <2>1. q = h
    BY <1>1 DEF ClaimBird
  <2>. QED
    BY <2>1 DEF Same
<1>2. CASE claimed
  <2>1. t \in BirdTiles /\ s \in Seats
    BY <1>2 DEF IsBird, BirdTiles, Hand, Typed
  <2>2. /\ h.birds \in [BirdTiles -> Bird] /\ h.seat_birds \in [Seats -> [BirdTiles -> Bird]]
        /\ x \in Bird /\ y \in Bird
    BY <2>1 DEF Hand, Typed
  <2>3. q = [h EXCEPT !.birds[t] = x1, !.seat_birds[s][t] = y1]
    BY <1>2, <2>1, <2>2, FieldNames DEF ClaimBird, Hand, IsHand
  <2>4. /\ x1 \in Bird /\ y1 \in Bird /\ ~ x1.chong /\ ~ y1.chong
        /\ x1.ze_ren = 1 /\ y1.ze_ren = 1
    <3>2. x1 = [x EXCEPT !.chong = FALSE, !.ze_ren = 1] /\ y1 = [y EXCEPT !.chong = FALSE, !.ze_ren = 1]
      OBVIOUS
    <3> HIDE DEF x1, y1, x, y
    <3>3. x1 \in Bird /\ ~ x1.chong /\ x1.ze_ren = 1
      BY ONLY <2>2, <3>2, BirdIsClaimed
    <3>4. y1 \in Bird /\ ~ y1.chong /\ y1.ze_ren = 1
      BY ONLY <2>2, <3>2, BirdIsClaimed
    <3>. QED
      BY <3>3, <3>4
  <2> HIDE DEF x1, y1
  <2>5. /\ IsHand(q) /\ Same(q, h, {"birds", "seat_birds"})
        /\ q.birds = [h.birds EXCEPT ![t] = x1]
        /\ q.seat_birds = [h.seat_birds EXCEPT ![s][t] = y1]
    BY <2>3, FieldNames DEF Hand, IsHand, Same
  <2>6. q.birds \in [BirdTiles -> Bird] /\ q.seat_birds \in [Seats -> [BirdTiles -> Bird]]
    BY <2>1, <2>2, <2>4, <2>5
  <2>7. Hand(q)
    BY <2>5, <2>6 DEF Hand, Typed, Same
  <2>8. BirdChanges(q, h, s, t) /\ q.birds[t] = x1 /\ q.seat_birds[s][t] = y1
    BY <2>1, <2>2, <2>5 DEF BirdChanges
  <2>9. ASSUME FirstBirds(h) PROVE FirstBird(q, t)
    <3>1. FirstBird(h, t)
      BY <2>1, <2>9 DEF FirstBirds
    <3>2. \A u \in Seats : u # s => /\ q.seat_birds[u][t] = h.seat_birds[u][t]
                                    /\ ~ Owns(h, u, t)
      BY <1>2, <2>1, <2>8, <3>1 DEF BirdChanges, FirstBird, Owns
    <3>. QED
      BY <2>1, <2>4, <2>8, <3>2 DEF FirstBird, Owns
  <2>. QED
    BY <2>5, <2>7, <2>8, <2>9, OtherBirds
<1>. QED
  BY <1>1, <1>2

LEMMA ActedFacts ==
  ASSUME NEW h, Hand(h), NEW s, NEW a, NEW q, q = Acted(h, s, a)
  PROVE  Hand(q) /\ Same(q, h, {"last_actions"})
<1>1. IsHand(q) /\ Same(q, h, {"last_actions"})
  BY FieldNames DEF Acted, Hand, IsHand, Same
<1>. QED
  BY <1>1 DEF Hand, Typed, Same

OfferFields == {"pao_hu_flag", "pao_hu_seat", "gang_hu_flag", "gang_hu_seat"}

\* What is left of the offers when s gives up his.
OfferDropped(q, h, s) ==
  /\ q.pao_hu_flag = h.pao_hu_flag \ {s} /\ q.gang_hu_flag = h.gang_hu_flag \ {s}
  /\ q.pao_hu_seat = (IF s \in h.pao_hu_flag THEN Nowhere ELSE h.pao_hu_seat)
  /\ q.gang_hu_seat = (IF s \in h.gang_hu_flag THEN Nowhere ELSE h.gang_hu_seat)

LEMMA DropOfferFacts ==
  ASSUME NEW h, Hand(h), NEW s, NEW q, q = DropOffer(h, s)
  PROVE  Hand(q) /\ Same(q, h, OfferFields) /\ OfferDropped(q, h, s)
<1>1. IsHand(q) /\ Same(q, h, OfferFields) /\ OfferDropped(q, h, s)
  BY FieldNames DEF DropOffer, Hand, IsHand, Same, OfferFields, OfferDropped
<1>. QED
  BY <1>1 DEF Hand, Typed, Same, OfferFields, OfferDropped

AnswerFields == OfferFields \cup {"last_actions"}

LEMMA AnswersFacts ==
  ASSUME NEW h, Hand(h), NEW s, NEW a, NEW q, q = Answers(h, s, a)
  PROVE  Hand(q) /\ Same(q, h, AnswerFields) /\ OfferDropped(q, h, s)
<1> DEFINE g == Acted(h, s, a)
<1>1. Hand(g) /\ Same(g, h, {"last_actions"})
  BY ActedFacts
<1>2. Hand(q) /\ Same(q, g, OfferFields) /\ OfferDropped(q, g, s)
  BY <1>1, DropOfferFacts DEF Answers
<1> HIDE DEF g
<1>. QED
  BY <1>1, <1>2 DEF Same, OfferFields, AnswerFields, OfferDropped

DrawFields == {"stage", "cur", "drew", "pao_hu_count", "gang_hu_count", "draws", "got"}

\* The seat s has drawn.
Drawn(q, s) ==
  /\ q.stage = "turn" /\ q.cur = s /\ q.drew = TRUE
  /\ q.pao_hu_count = 0 /\ q.gang_hu_count = 0

LEMMA DrawFacts ==
  ASSUME NEW h, Hand(h), NEW s \in Seats, NEW q, q = Draw(h, s)
  PROVE  Hand(q) /\ Same(q, h, DrawFields) /\ Drawn(q, s)
<1>1. /\ IsHand(q) /\ Same(q, h, DrawFields)
      /\ q.stage = "turn" /\ q.cur = s /\ q.drew = TRUE
      /\ q.pao_hu_count = 0 /\ q.gang_hu_count = 0
  BY FieldNames DEF Draw, Hand, IsHand, Same, DrawFields
<1>2. q.drew \in BOOLEAN /\ q.stage \in Playing /\ q.cur \in Seats
  BY <1>1 DEF Playing
<1>3. q.pao_hu_count \in Nat /\ q.gang_hu_count \in Nat
  BY <1>1
<1>4. Typed(q)
  BY <1>1, <1>2, <1>3 DEF Hand, Typed, Same, DrawFields
<1>. QED
  BY <1>1, <1>4 DEF Hand, Drawn

DiscardFields == {"birds", "seat_birds", "out", "last_card", "chu_seat", "discarded", "discards"}

LEMMA DiscardFacts ==
  ASSUME NEW h, Hand(h), NEW s \in Seats, NEW t \in Tiles, h.discards < MaxDiscards,
         NEW q, q = Discard(h, s, t)
  PROVE  /\ Hand(q) /\ Same(q, h, DiscardFields)
         /\ q.last_card = t /\ q.chu_seat = s
         /\ q.out = [h.out EXCEPT ![s][t] = @ + 1]
         /\ FirstBirds(h) => FirstBirds(q)
<1> DEFINE g == DropBirds(h, s, t)
<1>1. Hand(g) /\ Same(g, h, {"birds", "seat_birds"}) /\ (FirstBirds(h) => FirstBirds(g))
  BY DropBirdsFacts
<1>2. q = [g EXCEPT !.out[s][t] = @ + 1, !.last_card = t, !.chu_seat = s,
                    !.discarded = @ \cup {s}, !.discards = @ + 1]
  BY DEF Discard
<1> HIDE DEF g
<1>3. /\ IsHand(q) /\ Same(q, g, {"out", "last_card", "chu_seat", "discarded", "discards"})
      /\ q.last_card = t /\ q.chu_seat = s
      /\ q.out = [g.out EXCEPT ![s][t] = @ + 1]
      /\ q.discarded = g.discarded \cup {s} /\ q.discards = g.discards + 1
  <2>1. IsHand(q)
    BY <1>1, <1>2, FieldNames DEF Hand, IsHand
  <2>2. Same(q, g, {"out", "last_card", "chu_seat", "discarded", "discards"})
    <3> DEFINE o == [g.out EXCEPT ![s][t] = @ + 1]
               d == g.discarded \cup {s}
               n == g.discards + 1
    <3>1. q = [g EXCEPT !.out = o, !.last_card = t, !.chu_seat = s, !.discarded = d, !.discards = n]
      BY <1>2
    <3>2. DOMAIN g = Names
      BY <1>1 DEF Hand, IsHand
    <3> HIDE DEF o, d, n
    <3>. QED
      BY ONLY <3>1, <3>2, FieldNames, SMTT(30) DEF Same
  <2>3. q.last_card = t /\ q.chu_seat = s /\ q.out = [g.out EXCEPT ![s][t] = @ + 1]
    BY <1>1, <1>2, FieldNames DEF Hand, IsHand
  <2>4. q.discarded = g.discarded \cup {s} /\ q.discards = g.discards + 1
    BY <1>1, <1>2, FieldNames DEF Hand, IsHand
  <2>. QED
    BY <2>1, <2>2, <2>3, <2>4
<1>4. /\ Same(q, h, DiscardFields) /\ q.birds = g.birds /\ q.seat_birds = g.seat_birds
      /\ g.out = h.out /\ g.discards = h.discards
  BY <1>1, <1>3 DEF Same, DiscardFields
<1>5. q.out \in [Seats -> [Tiles -> Nat]]
  <2>1. g.out \in [Seats -> [Tiles -> Nat]] /\ g.out[s][t] + 1 \in Nat
    BY <1>1 DEF Hand, Typed
  <2>. QED
    BY <1>3, <2>1
<1>6. q.discards \in 0 .. MaxDiscards
  <2>1. g.discards \in 0 .. MaxDiscards /\ MaxDiscards \in Nat
    BY <1>1, SettlementAssumption DEF Hand, Typed
  <2>. QED
    BY <1>3, <1>4, <2>1
<1>7. q.discarded \in SUBSET Seats /\ q.last_card \in Tiles /\ q.chu_seat \in Seats
  BY <1>1, <1>3 DEF Hand, Typed
<1>8. Typed(q)
  BY <1>1, <1>3, <1>5, <1>6, <1>7 DEF Hand, Typed, Same, DiscardFields
<1>9. FirstBirds(h) => FirstBirds(q)
  BY <1>1, <1>4, SameBirds
<1>. QED
  BY <1>3, <1>4, <1>8, <1>9 DEF Hand

ClaimFields == AnswerFields \cup {"birds", "seat_birds", "out", "melds"}

LEMMA ClaimFacts ==
  ASSUME Hand(hand), NEW s \in Seats, NEW a, NEW n \in Nat,
         hand.out[hand.chu_seat][hand.last_card] >= 1,
         NEW q, q = Claim(s, a, n)
  PROVE  /\ Hand(q) /\ Same(q, hand, ClaimFields) /\ OfferDropped(q, hand, s)
         /\ q.out = [hand.out EXCEPT ![hand.chu_seat][hand.last_card] = @ - 1]
         /\ q.melds = [hand.melds EXCEPT ![s][hand.last_card] = @ + n + 1]
         /\ FirstBirds(hand) => FirstBirds(q)
<1> DEFINE t == hand.last_card
           p == hand.chu_seat
           f == ClaimBird(hand, t)
           g == Answers(f, s, a)
<1>1. Hand(f) /\ Same(f, hand, {"birds", "seat_birds"}) /\ (FirstBirds(hand) => FirstBirds(f))
  BY ClaimBirdFacts
<1>2. Hand(g) /\ Same(g, f, AnswerFields) /\ OfferDropped(g, f, s)
  <2> HIDE DEF f
  <2>. QED
    BY <1>1, AnswersFacts
<1>3. q = [g EXCEPT !.out[p][t] = @ - 1, !.melds[s][t] = @ + n + 1]
  BY DEF Claim
<1> HIDE DEF f, g
<1>4. /\ IsHand(q) /\ Same(q, g, {"out", "melds"})
      /\ q.out = [g.out EXCEPT ![p][t] = @ - 1]
      /\ q.melds = [g.melds EXCEPT ![s][t] = @ + n + 1]
  <2>1. IsHand(q)
    BY <1>2, <1>3, FieldNames DEF Hand, IsHand
  <2>2. Same(q, g, {"out", "melds"})
    BY <1>2, <1>3, FieldNames DEF Hand, IsHand, Same
  <2>3. q.out = [g.out EXCEPT ![p][t] = @ - 1]
    BY <1>2, <1>3, FieldNames DEF Hand, IsHand
  <2>4. q.melds = [g.melds EXCEPT ![s][t] = @ + n + 1]
    BY <1>2, <1>3, FieldNames DEF Hand, IsHand
  <2>. QED
    BY <2>1, <2>2, <2>3, <2>4
<1>5. Same(g, hand, ClaimFields) /\ OfferDropped(g, hand, s) /\ g.out = hand.out /\ g.melds = hand.melds
  BY <1>1, <1>2 DEF Same, AnswerFields, OfferFields, ClaimFields, OfferDropped
<1>6. /\ Same(q, hand, ClaimFields) /\ OfferDropped(q, hand, s)
      /\ q.birds = f.birds /\ q.seat_birds = f.seat_birds
  BY <1>2, <1>4, <1>5 DEF Same, AnswerFields, OfferFields, ClaimFields, OfferDropped
<1>7. q.out \in [Seats -> [Tiles -> Nat]] /\ q.melds \in [Seats -> [Tiles -> Nat]]
  <2>1. /\ hand.out \in [Seats -> [Tiles -> Nat]] /\ hand.melds \in [Seats -> [Tiles -> Nat]]
        /\ p \in Seats /\ t \in Tiles
    BY DEF Hand, Typed
  <2>2. hand.out[p][t] \in Nat /\ hand.melds[s][t] \in Nat
    BY <2>1
  <2>3. hand.out[p][t] - 1 \in Nat /\ hand.melds[s][t] + n + 1 \in Nat
    BY <2>2
  <2>. QED
    BY <1>4, <1>5, <2>1, <2>3
<1>8. Typed(q)
  <2>1. Typed(g)
    BY <1>2 DEF Hand
  <2>. QED
    BY <1>4, <1>7, <2>1 DEF Typed, Same
<1>9. FirstBirds(hand) => FirstBirds(q)
  BY <1>1, <1>6, SameBirds
<1>. QED
  BY <1>4, <1>5, <1>6, <1>8, <1>9 DEF Hand

GangFields == {"ledger", "last_gang_card", "gangs"}

\* One more gang of seat s than in h.
OneMoreGang(q, h, s, item, payer, v) ==
  /\ DOMAIN q.ledger = DOMAIN h.ledger \cup {<<s, payer, item>>}
  /\ \A k : Amount(q.ledger, k) = Amount(h.ledger, k) + (IF k = <<s, payer, item>> THEN v ELSE 0)
  /\ \A k : Amount(q.gangs, k) = Amount(h.gangs, k) + (IF k = <<s, item>> THEN 1 ELSE 0)

LEMMA GangedFacts ==
  ASSUME NEW h, Hand(h), NEW s \in Seats, NEW t, NEW item \in GangItems,
         NEW payer \in Seats \cup {Everyone}, NEW v \in Nat,
         NEW q, q = Ganged(h, s, t, item, payer, v)
  PROVE  Hand(q) /\ Same(q, h, GangFields) /\ OneMoreGang(q, h, s, item, payer, v)
<1> DEFINE l == From(s, {payer}, item, v)
           m == [k \in {<<s, item>>} |-> 1]
           x == <<s, payer, item>>
           y == <<s, item>>
<1>1. /\ IsHand(q) /\ Same(q, h, GangFields)
      /\ q.ledger = AddAll(h.ledger, l) /\ q.gangs = AddAll(h.gangs, m)
  BY FieldNames DEF Ganged, Hand, IsHand, Same, GangFields
<1>2. DOMAIN l = {x} /\ l[x] = v
  BY FromOne
<1>3. DOMAIN m = {y} /\ m[y] = 1
  OBVIOUS
<1>4. x \in Keys /\ y \in Accounts
  BY DEF Keys, Accounts, Items
<1> HIDE DEF l, m, x, y
<1>5. Entries(l, Keys) /\ Entries(m, Accounts)
  BY <1>2, <1>3, <1>4 DEF Entries
<1>6. Entries(h.ledger, Keys) /\ Entries(h.gangs, Accounts)
  BY DEF Hand, Typed
<1>7. /\ Entries(q.ledger, Keys)
      /\ \A k : Amount(q.ledger, k) = Amount(h.ledger, k) + Amount(l, k)
  BY ONLY <1>1, <1>5, <1>6, EntriesAdd
<1>8. /\ Entries(q.gangs, Accounts)
      /\ \A k : Amount(q.gangs, k) = Amount(h.gangs, k) + Amount(m, k)
  BY ONLY <1>1, <1>5, <1>6, EntriesAdd
<1>9. /\ \A k : Amount(l, k) = IF k = x THEN v ELSE 0
      /\ \A k : Amount(m, k) = IF k = y THEN 1 ELSE 0
  BY <1>2, <1>3 DEF Amount
<1>10. DOMAIN q.ledger = DOMAIN h.ledger \cup {x}
  <2>1. DOMAIN AddAll(h.ledger, l) = DOMAIN h.ledger \cup DOMAIN l
    BY ONLY AddAllFacts
  <2>. QED
    BY <1>1, <1>2, <2>1
<1>11. Typed(q)
  BY <1>1, <1>7, <1>8 DEF Hand, Typed, Same, GangFields
<1>. QED
  BY <1>1, <1>7, <1>8, <1>9, <1>10, <1>11 DEF Hand, OneMoreGang, x, y

LEMMA StartedFacts ==
  ASSUME NEW h, Hand(h), NEW q, q = Started(h)
  PROVE  /\ Hand(q) /\ Same(q, h, {"pao_hu_seat", "gang_hu_seat"})
         /\ q.pao_hu_seat = Nowhere /\ q.gang_hu_seat = Nowhere
<1>1. /\ IsHand(q) /\ Same(q, h, {"pao_hu_seat", "gang_hu_seat"})
      /\ q.pao_hu_seat = Nowhere /\ q.gang_hu_seat = Nowhere
  BY FieldNames DEF Started, Hand, IsHand, Same
<1>. QED
  BY <1>1 DEF Hand, Typed, Same

-----------------------------------------------------------------------------
(* Settling a hand.                                                        *)

LEMMA FourAreFinite == \A a, b, c, d : IsFiniteSet({a, b, c, d})
<1> TAKE a, b, c, d
<1>1. IsFiniteSet({a}) /\ IsFiniteSet({b}) /\ IsFiniteSet({c}) /\ IsFiniteSet({d})
  BY FS_Singleton
<1>2. IsFiniteSet({a} \cup {b}) /\ IsFiniteSet({c} \cup {d})
  BY <1>1, FS_Union
<1>3. IsFiniteSet(({a} \cup {b}) \cup ({c} \cup {d}))
  BY <1>2, FS_Union
<1>4. {a, b, c, d} = ({a} \cup {b}) \cup ({c} \cup {d})
  OBVIOUS
<1>. QED
  BY <1>3, <1>4

LEMMA ItemsAreFinite == IsFiniteSet(Items)
<1> DEFINE A == {"yao_bai_ji", "ben_ji", "wu_gu_ji", "yao_ji"}
           B == {"jin_ji", "chong_feng_ji", "chong_feng_wu_gu_ji", "ze_ren_ji"}
           C == {"ming_gang", "peng_gang", "an_gang", "jiao_pai"}
<1>1. Items = (A \cup B) \cup (C \cup WinItems)
  BY DEF Items, BirdItems, GangItems
<1>2. IsFiniteSet(A) /\ IsFiniteSet(B) /\ IsFiniteSet(C) /\ IsFiniteSet(WinItems)
  BY FourAreFinite DEF WinItems
<1> HIDE DEF A, B, C
<1>3. IsFiniteSet(A \cup B) /\ IsFiniteSet(C \cup WinItems)
  BY <1>2, FS_Union
<1>. QED
  BY <1>1, <1>3, FS_Union

LEMMA KeysAreFinite == IsFiniteSet(Keys)
<1> DEFINE P == Seats \X (Seats \cup {Everyone})
           Q == P \X Items
           f == [p \in Q |-> <<p[1][1], p[1][2], p[2]>>]
<1>1. IsFiniteSet(Seats \cup {Everyone})
  BY SeatsAreFinite, FS_Singleton, FS_Union
<1>2. IsFiniteSet(P)
  BY <1>1, SeatsAreFinite, FS_Product
<1>3. IsFiniteSet(Q)
  <2> HIDE DEF P
  <2>. QED
    BY <1>2, ItemsAreFinite, FS_Product
<1>4. f \in Surjection(Q, Keys)
  <2>1. f \in [Q -> Keys]
    BY DEF Keys
  <2>2. ASSUME NEW k \in Keys PROVE \E p \in Q : f[p] = k
    <3>1. <<<<k[1], k[2]>>, k[3]>> \in Q /\ f[<<<<k[1], k[2]>>, k[3]>>] = k
      BY DEF Keys
    <3>. QED
      BY <3>1
  <2> HIDE DEF f, Q
  <2>. QED
    BY <2>1, <2>2 DEF Surjection
<1> HIDE DEF f, Q
<1>. QED
  BY <1>3, <1>4, FS_Surjection

LEMMA FiniteLedger == \A l : Entries(l, Keys) => IsFiniteSet(DOMAIN l)
BY KeysAreFinite, FS_Subset DEF Entries

LEMMA RobbedGangFacts ==
  ASSUME NEW h, Hand(h), NEW q, q = RobbedGang(h)
  PROVE  /\ Hand(q) /\ Same(q, h, {"ledger"})
         /\ \A k : Amount(q.ledger, k) =
              Amount(h.ledger, k)
                - (IF h.gang_hu_seat # Nowhere /\ k = <<h.gang_hu_seat, Everyone, "peng_gang">> THEN 1 ELSE 0)
         /\ h.gang_hu_seat = Nowhere => q = h
         /\ DOMAIN q.ledger \subseteq DOMAIN h.ledger \cup {<<h.gang_hu_seat, Everyone, "peng_gang">>}
<1>1. Entries(h.ledger, Keys)
  BY DEF Hand, Typed
<1>2. \A k : Amount(h.ledger, k) \in Int
  BY <1>1, AmountIsInt
<1>3. CASE h.gang_hu_seat = Nowhere
  <2>1. q = h
    BY <1>3 DEF RobbedGang
  <2>. QED
    BY <1>2, <1>3, <2>1 DEF Same
<1>4. CASE h.gang_hu_seat # Nowhere
  <2> DEFINE g == h.gang_hu_seat
             x == <<g, Everyone, "peng_gang">>
             one == -1
             l == From(g, {Everyone}, "peng_gang", one)
  <2>1. IsHand(q) /\ Same(q, h, {"ledger"}) /\ q.ledger = AddAll(h.ledger, l)
    BY <1>4, FieldNames DEF RobbedGang, Hand, IsHand, Same
  <2>2. DOMAIN l = {x} /\ l[x] = -1
    <3> HIDE DEF one
    <3>1. DOMAIN l = {x} /\ l[x] = one
      BY FromOne
    <3>. QED
      BY <3>1 DEF one
  <2>3. x \in Keys
    BY <1>4 DEF Keys, Items, GangItems, Hand, Typed
  <2> HIDE DEF l, x
  <2>4. Entries(l, Keys)
    BY <2>2, <2>3 DEF Entries
  <2>5. /\ Entries(q.ledger, Keys)
        /\ \A k : Amount(q.ledger, k) = Amount(h.ledger, k) + Amount(l, k)
    BY ONLY <1>1, <2>1, <2>4, EntriesAdd
  <2>6. \A k : Amount(l, k) = IF k = x THEN -1 ELSE 0
    BY <2>2 DEF Amount
  <2>7. DOMAIN AddAll(h.ledger, l) = DOMAIN h.ledger \cup DOMAIN l
    BY ONLY AddAllFacts
  <2>8. Typed(q)
    BY <2>1, <2>5 DEF Hand, Typed, Same
  <2>. QED
    BY <1>2, <1>4, <2>1, <2>2, <2>5, <2>6, <2>7, <2>8 DEF Hand, x
<1>. QED
  BY <1>3, <1>4

LEMMA KillsIsNat ==
  \A h, rv, k, j : KillsBaoTing(h, rv, k, j) \in Nat
BY DEF KillsBaoTing

Kills(h, rv, k) == [j \in Seats |-> KillsBaoTing(h, rv, k, j)]

LEMMA GetsFacts ==
  ASSUME NEW h, Typed(h), NEW rv, NEW k \in DOMAIN h.ledger
  PROVE  /\ Gets(h, rv, k) \in Int
         /\ Gets(h, rv, k) = (IF k[3] \in {"peng_gang", "an_gang"} THEN SeatCount - 1 ELSE 1) * h.ledger[k]
                               + SumOn(Kills(h, rv, k), Others(k[1]))
         /\ SumOn(Kills(h, rv, k), Others(k[1])) \in Nat
<1> DEFINE n == IF k[3] \in {"peng_gang", "an_gang"} THEN SeatCount - 1 ELSE 1
           f == Kills(h, rv, k)
<1>1. k \in Keys /\ h.ledger[k] \in Int
  BY DEF Typed, Entries
<1>2. n \in Int
  BY SettlementAssumption
<1>3. IsFiniteSet(Others(k[1]))
  BY <1>1, SeatsAreFinite DEF Keys
<1>4. \A j \in Others(k[1]) : f[j] \in Nat
  BY KillsIsNat DEF Others, Kills
<1>5. Gets(h, rv, k) = n * h.ledger[k] + SumOn(f, Others(k[1]))
  BY SumIsSumOn DEF Gets, Kills
<1> HIDE DEF n, f
<1>6. SumOn(f, Others(k[1])) \in Nat
  BY <1>3, <1>4, SumIsNat
<1>7. n * h.ledger[k] \in Int
  BY <1>1, <1>2
<1>. QED
  BY <1>5, <1>6, <1>7 DEF n, f

LEMMA PutsOutIsInt ==
  ASSUME NEW h, Typed(h), NEW rv, NEW k \in DOMAIN h.ledger, NEW j
  PROVE  PutsOut(h, rv, k, j) \in Int
<1>1. h.ledger[k] \in Int
  BY DEF Typed, Entries
<1>2. SeatCount - 1 \in Int /\ SeatCount - 1 > 0
  BY SettlementAssumption
<1>3. h.ledger[k] \div (SeatCount - 1) \in Int
  BY <1>1, <1>2
<1>. QED
  BY <1>1, <1>3, KillsIsNat DEF PutsOut

\* The entries of an account, and those that a seat may put out for.
Credits(h, x) == {k \in Counted(h) : <<k[1], k[3]>> = x}
Debts(h, x) ==
  LET K == {k \in Counted(h) : k[3] = x[2] /\ k[1] # x[1]}
  IN  {k \in K : x[2] = "gang_hu" => \A m \in K : m[1] <= k[1]}
Credit(h, rv) == [k \in Counted(h) |-> Gets(h, rv, k)]
\* (The function of Owed is defined on the entries of other seats.)
Debt(h, rv, x) == [k \in {k \in Counted(h) : k[3] = x[2] /\ k[1] # x[1]} |-> PutsOut(h, rv, k, x[1])]

LEMMA EarnedOwedFacts ==
  ASSUME NEW h, Typed(h), NEW rv
  PROVE  /\ Entries(Earned(h, rv), Accounts) /\ Entries(Owed(h, rv), Accounts)
         /\ DOMAIN Earned(h, rv) = {<<k[1], k[3]>> : k \in Counted(h)}
         /\ \A x \in DOMAIN Earned(h, rv) : Earned(h, rv)[x] = SumOn(Credit(h, rv), Credits(h, x))
         /\ DOMAIN Owed(h, rv) = Seats \X {k[3] : k \in Counted(h)}
         /\ \A x \in DOMAIN Owed(h, rv) : Owed(h, rv)[x] = SumOn(Debt(h, rv, x), Debts(h, x))
<1>1. /\ Counted(h) \subseteq DOMAIN h.ledger /\ Counted(h) \subseteq Keys
  BY DEF Counted, Typed, Entries
<1>2. IsFiniteSet(Counted(h))
  BY <1>1, KeysAreFinite, FS_Subset
<1>3. /\ DOMAIN Earned(h, rv) = {<<k[1], k[3]>> : k \in Counted(h)}
      /\ \A x \in DOMAIN Earned(h, rv) : Earned(h, rv)[x] = SumOn(Credit(h, rv), Credits(h, x))
  BY SumIsSumOn DEF Earned, Credit, Credits
<1>4. DOMAIN Owed(h, rv) = Seats \X {k[3] : k \in Counted(h)}
  BY DEF Owed
<1>5. \A x \in DOMAIN Owed(h, rv) : Owed(h, rv)[x] = SumOn(Debt(h, rv, x), Debts(h, x))
  BY SumIsSumOn DEF Owed, Debt, Debts
<1>6. ASSUME NEW x PROVE SumOn(Credit(h, rv), Credits(h, x)) \in Int
  <2>1. Credits(h, x) \in SUBSET Counted(h)
    BY DEF Credits
  <2>2. IsFiniteSet(Credits(h, x))
    BY ONLY <1>2, <2>1, FS_Subset
  <2>3. \A k \in Credits(h, x) : Credit(h, rv)[k] \in Int
    BY <1>1, <2>1, GetsFacts DEF Credit
  <2>. QED
    BY ONLY <2>2, <2>3, SumIsInt
<1>7. ASSUME NEW x PROVE SumOn(Debt(h, rv, x), Debts(h, x)) \in Int
  <2>1. Debts(h, x) \in SUBSET Counted(h)
    BY DEF Debts
  <2>2. IsFiniteSet(Debts(h, x))
    BY ONLY <1>2, <2>1, FS_Subset
  <2>3. \A k \in Debts(h, x) : Debt(h, rv, x)[k] \in Int
    BY <1>1, <2>1, PutsOutIsInt DEF Debt, Debts
  <2>. QED
    BY ONLY <2>2, <2>3, SumIsInt
<1>8. \A k \in Counted(h) : k[1] \in Seats /\ k[3] \in Items
  BY <1>1 DEF Keys
<1>9. Entries(Earned(h, rv), Accounts)
  BY <1>3, <1>6, <1>8 DEF Entries, Accounts
<1>10. Entries(Owed(h, rv), Accounts)
  BY <1>4, <1>5, <1>7, <1>8 DEF Entries, Accounts
<1>. QED
  BY <1>3, <1>4, <1>5, <1>9, <1>10

\* What an account book says of a seat, over all items.
OfSeat(l, s) == SumOn([item \in Items |-> Amount(l, <<s, item>>)], Items)

LEMMA OfSeatIsInt ==
  ASSUME NEW l, Entries(l, Accounts), NEW s
  PROVE  OfSeat(l, s) \in Int
<1> DEFINE f == [item \in Items |-> Amount(l, <<s, item>>)]
<1>1. \A item \in Items : f[item] \in Int
  BY AmountIsInt
<1> HIDE DEF f
<1>2. SumOn(f, Items) \in Int
  BY <1>1, ItemsAreFinite, SumIsInt
<1>. QED
  BY <1>2 DEF OfSeat, f

SettleFields == {"earned", "owed", "bet"}

LEMMA TotalsFacts ==
  ASSUME NEW h, Hand(h), NEW rv, NEW q, q = Totals(h, rv)
  PROVE  /\ Hand(q) /\ Same(q, h, SettleFields)
         /\ q.earned = AddAll(h.earned, Earned(h, rv))
         /\ q.owed = AddAll(h.owed, NonZero(Owed(h, rv)))
         /\ \A s \in Seats : q.bet[s] = OfSeat(q.earned, s) - OfSeat(q.owed, s)
<1> DEFINE e == AddAll(h.earned, Earned(h, rv))
           o == AddAll(h.owed, NonZero(Owed(h, rv)))
           bet == [s \in Seats |-> OfSeat(e, s) - OfSeat(o, s)]
           g == [h EXCEPT !.earned = e, !.owed = o]
<1>1. Entries(Earned(h, rv), Accounts) /\ Entries(Owed(h, rv), Accounts)
  BY EarnedOwedFacts DEF Hand
<1>2. Entries(NonZero(Owed(h, rv)), Accounts)
  BY <1>1, NonZeroFacts
<1>3. Entries(h.earned, Accounts) /\ Entries(h.owed, Accounts)
  BY DEF Hand, Typed
<1>4. Entries(e, Accounts)
  BY ONLY <1>1, <1>3, EntriesAdd
<1>5. Entries(o, Accounts)
  BY ONLY <1>2, <1>3, EntriesAdd
<1> HIDE DEF e, o
<1>6. IsHand(g) /\ g.earned = e /\ g.owed = o /\ Same(g, h, {"earned", "owed"})
  BY FieldNames DEF Hand, IsHand, Same
<1>7. q = [g EXCEPT !.bet = [s \in Seats |->
               Sum([item \in Items |-> Amount(g.earned, <<s, item>>)], Items)
                 - Sum([item \in Items |-> Amount(g.owed, <<s, item>>)], Items)]]
  BY DEF Totals, e, o
<1>8. q = [g EXCEPT !.bet = bet]
  <2>1. \A s \in Seats :
          /\ OfSeat(e, s) = Sum([item \in Items |-> Amount(e, <<s, item>>)], Items)
          /\ OfSeat(o, s) = Sum([item \in Items |-> Amount(o, <<s, item>>)], Items)
    BY SumIsSumOn DEF OfSeat
  <2> DEFINE bets == [s \in Seats |->
                       Sum([item \in Items |-> Amount(e, <<s, item>>)], Items)
                         - Sum([item \in Items |-> Amount(o, <<s, item>>)], Items)]
  <2>2. bet = bets
    BY <2>1
  <2>3. q = [g EXCEPT !.bet = bets]
    BY <1>6, <1>7
  <2> HIDE DEF bet, bets
  <2>. QED
    BY <2>2, <2>3
<1>9. bet \in [Seats -> Int] /\ \A s \in Seats : bet[s] = OfSeat(e, s) - OfSeat(o, s)
  BY <1>4, <1>5, OfSeatIsInt
<1> HIDE DEF bet, g
<1>10. IsHand(q) /\ Same(q, g, {"bet"}) /\ q.bet = bet
  BY <1>6, <1>8, FieldNames DEF IsHand, Same
<1>11. Same(q, h, SettleFields) /\ q.earned = e /\ q.owed = o
  BY <1>6, <1>10 DEF Same, SettleFields
<1>12. Typed(q)
  BY <1>4, <1>5, <1>9, <1>10, <1>11 DEF Hand, Typed, Same, SettleFields
<1>. QED
  BY <1>9, <1>10, <1>11, <1>12 DEF Hand, e, o

\* The gangs in the ledger: a melded one is its feeder's, the others everybody's.
GangLedger(l) ==
  \A k \in DOMAIN l : /\ k[3] \in GangItems
                      /\ k[3] = "ming_gang" => k[2] \in Others(k[1])
                      /\ k[3] # "ming_gang" => k[2] = Everyone

\* The ledger of a hand somebody won.
WonLedger(h, rv) ==
  LET g == RobbedGang(h) IN NonZero(AddAll(AddAll(g.ledger, Win(g, rv)), Birds(g, rv)))
Booked(h, rv) == [RobbedGang(h) EXCEPT !.ledger = WonLedger(h, rv)]

LEMMA ItemsAreApart ==
  /\ BirdItems \cap GangItems = {} /\ BirdItems \cap WinItems = {} /\ GangItems \cap WinItems = {}
  /\ "jiao_pai" \notin BirdItems \cup GangItems \cup WinItems
  /\ \A k \in Keys : k[3] \in BirdItems \cup GangItems \cup WinItems \cup {"jiao_pai"}
BY DEF BirdItems, GangItems, WinItems, Items, Keys

LEMMA WinItemsFacts ==
  ASSUME NEW h PROVE {WinItem(h), "lian_zhuang"} \subseteq WinItems
BY DEF WinItem, WinItems

LEMMA SameWon ==
  ASSUME NEW q, NEW h, Same(q, h, {"ledger"})
  PROVE  /\ Won(h) => Won(q)
         /\ Winners(q) = Winners(h) /\ Payer(q) = Payer(h) /\ WinItem(q) = WinItem(h)
         /\ NobodyPays(q) <=> NobodyPays(h)
         /\ NoBirdsNoBeans(q) <=> NoBirdsNoBeans(h)
BY DEF Same, Won, Fed, Robbing, Quiet, NoOffer, Winners, Payer, WinItem, NobodyPays, NoBirdsNoBeans

LEMMA BookedFacts ==
  ASSUME NEW h, Hand(h), Won(h), GangLedger(h.ledger), NEW rv, Revealed(rv),
         NEW g, g = RobbedGang(h), NEW q, q = Booked(h, rv)
  PROVE  /\ Hand(q) /\ Same(q, h, {"ledger"})
         /\ GangLedger(g.ledger) /\ Hand(g)
         /\ PaysFor(Win(g, rv), Winners(h), Payer(h), WinItem(h))
         /\ Payer(h) = Everyone => InParts(Win(g, rv), SeatCount - 1)
         /\ BirdEntries(Birds(g, rv))
         /\ \A k : /\ k[3] \in WinItems => Amount(q.ledger, k) = Amount(Win(g, rv), k)
                   /\ k[3] \in GangItems => Amount(q.ledger, k) = Amount(g.ledger, k)
                   /\ k[3] \in BirdItems => Amount(q.ledger, k) = Amount(Birds(g, rv), k)
         /\ \A k \in DOMAIN q.ledger : /\ q.ledger[k] # 0
                                       /\ k[3] \in WinItems => k \in DOMAIN Win(g, rv)
                                       /\ k[3] \in GangItems => k \in DOMAIN g.ledger
                                       /\ k[3] \in BirdItems => k \in DOMAIN Birds(g, rv)
                                       /\ k[3] # "jiao_pai"
<1> DEFINE w == Win(g, rv)
           b == Birds(g, rv)
           l == g.ledger
           m == AddAll(l, w)
           n == AddAll(m, b)
<1>1. /\ Hand(g) /\ Same(g, h, {"ledger"})
      /\ DOMAIN g.ledger \subseteq DOMAIN h.ledger \cup {<<h.gang_hu_seat, Everyone, "peng_gang">>}
  BY RobbedGangFacts
<1>2. GangLedger(g.ledger)
  BY <1>1 DEF GangLedger, GangItems
<1>3. /\ Won(g) /\ Typed(g) /\ rv.types \in CardTypes
      /\ Winners(g) = Winners(h) /\ Payer(g) = Payer(h) /\ WinItem(g) = WinItem(h)
  BY <1>1, SameWon DEF Hand, Revealed
<1>4. /\ PaysFor(w, Winners(h), Payer(h), WinItem(h))
      /\ Payer(h) = Everyone => InParts(w, SeatCount - 1)
  BY <1>3, WinFacts
<1>5. BirdEntries(b)
  BY <1>3, BirdsFacts
<1>6. Entries(l, Keys) /\ Entries(w, Keys) /\ Entries(b, Keys)
  BY <1>3, <1>4, <1>5 DEF Typed, PaysFor, BirdEntries
<1>7. \A k \in DOMAIN w : k[3] \in WinItems
  BY <1>4, WinItemsFacts DEF PaysFor
<1>8. \A k \in DOMAIN b : k[3] \in BirdItems
  BY <1>5 DEF BirdEntries
<1>9. \A k \in DOMAIN l : k[3] \in GangItems
  BY <1>2 DEF GangLedger
<1>10. /\ Same(q, g, {"ledger"}) /\ IsHand(q) /\ q.ledger = NonZero(n)
  BY <1>1, FieldNames DEF Booked, WonLedger, Hand, IsHand, Same
<1>21. m = AddAll(l, w) /\ n = AddAll(m, b)
  OBVIOUS
<1> HIDE DEF w, b, l, m, n
<1>11. Entries(m, Keys) /\ \A k : Amount(m, k) = Amount(l, k) + Amount(w, k)
  BY ONLY <1>6, <1>21, EntriesAdd
<1>12. DOMAIN m = DOMAIN l \cup DOMAIN w
  BY ONLY <1>21, AddAllFacts
<1>13. Entries(n, Keys) /\ \A k : Amount(n, k) = Amount(m, k) + Amount(b, k)
  BY ONLY <1>6, <1>11, <1>21, EntriesAdd
<1>14. DOMAIN n = DOMAIN m \cup DOMAIN b
  BY ONLY <1>21, AddAllFacts
<1>15. /\ Entries(q.ledger, Keys)
       /\ DOMAIN q.ledger = {k \in DOMAIN n : n[k] # 0}
       /\ \A k \in DOMAIN q.ledger : q.ledger[k] = n[k]
       /\ \A k : Amount(q.ledger, k) = Amount(n, k)
  BY <1>10, <1>13, NonZeroFacts
<1>16. Hand(q) /\ Same(q, h, {"ledger"})
  <2>1. Typed(q)
    BY <1>1, <1>10, <1>15 DEF Hand, Typed, Same
  <2>. QED
    BY <1>1, <1>10, <2>1 DEF Hand, Same
<1>17. ASSUME NEW k
       PROVE  /\ Amount(q.ledger, k) = Amount(l, k) + Amount(w, k) + Amount(b, k)
              /\ Amount(l, k) \in Int /\ Amount(w, k) \in Int /\ Amount(b, k) \in Int
  BY <1>6, <1>11, <1>13, <1>15, AmountIsInt
<1>18. ASSUME NEW k
       PROVE  /\ k[3] \notin WinItems => Amount(w, k) = 0
              /\ k[3] \notin GangItems => Amount(l, k) = 0
              /\ k[3] \notin BirdItems => Amount(b, k) = 0
  BY <1>7, <1>8, <1>9 DEF Amount
<1>19. \A k : /\ k[3] \in WinItems => Amount(q.ledger, k) = Amount(w, k)
              /\ k[3] \in GangItems => Amount(q.ledger, k) = Amount(l, k)
              /\ k[3] \in BirdItems => Amount(q.ledger, k) = Amount(b, k)
  BY <1>17, <1>18, ItemsAreApart
<1>20. \A k \in DOMAIN q.ledger : /\ q.ledger[k] # 0
                                  /\ k[3] \in WinItems => k \in DOMAIN w
                                  /\ k[3] \in GangItems => k \in DOMAIN l
                                  /\ k[3] \in BirdItems => k \in DOMAIN b
                                  /\ k[3] # "jiao_pai"
  <2>1. \A k \in DOMAIN q.ledger : q.ledger[k] # 0 /\ k \in DOMAIN l \cup DOMAIN w \cup DOMAIN b
    BY <1>12, <1>14, <1>15
  <2>. QED
    BY <1>7, <1>8, <1>9, <2>1, ItemsAreApart
<1>. QED
  BY <1>1, <1>2, <1>4, <1>5, <1>16, <1>19, <1>20 DEF w, b, l

\* The bets of a hand nobody won: the pairs of a seat that waits and one that
\* does not.
JiaoPairs(h, rv) ==
  {p \in Seats \X Seats : p[1] \in Waits(h, rv) /\ p[2] \in Others(p[1]) /\ ~ StillWaits(h, rv, p[1], p[2])}
JiaoBest(h, rv) == [p \in JiaoPairs(h, rv) |-> BaseScore(h, p[1], rv.types[p[1]])]
JiaoIn(h, rv, s) == SumOn(JiaoBest(h, rv), {p \in JiaoPairs(h, rv) : p[1] = s})
JiaoOut(h, rv, s) == SumOn(JiaoBest(h, rv), {p \in JiaoPairs(h, rv) : p[2] = s})

LEMMA JiaoScores ==
  ASSUME NEW h, NEW rv, rv.types \in CardTypes
  PROVE  /\ IsFiniteSet(JiaoPairs(h, rv)) /\ JiaoPairs(h, rv) \subseteq Seats \X Seats
         /\ \A p \in JiaoPairs(h, rv) : JiaoBest(h, rv)[p] \in Positive
         /\ \A s : JiaoIn(h, rv, s) \in Nat /\ JiaoOut(h, rv, s) \in Nat
<1> DEFINE P == JiaoPairs(h, rv)
           f == JiaoBest(h, rv)
<1>1. P \in SUBSET (Seats \X Seats)
  BY DEF JiaoPairs
<1>2. IsFiniteSet(Seats \X Seats)
  BY SeatsAreFinite, FS_Product
<1>3. IsFiniteSet(P)
  BY ONLY <1>1, <1>2, FS_Subset
<1>4. \A i \in Seats : rv.types[i] \in DOMAIN TypeScore
  BY SettlementAssumption
<1>5. \A p \in P : f[p] \in Positive
  BY <1>1, <1>4, BaseScoreIsPositive DEF JiaoBest
<1>6. ASSUME NEW T \in SUBSET P PROVE SumOn(f, T) \in Nat
  <2>1. IsFiniteSet(T)
    BY ONLY <1>3, <1>6, FS_Subset
  <2>2. \A p \in T : f[p] \in Nat
    BY <1>5 DEF Positive
  <2>. QED
    BY ONLY <2>1, <2>2, SumIsNat
<1>7. \A s : /\ {p \in P : p[1] = s} \in SUBSET P
             /\ {p \in P : p[2] = s} \in SUBSET P
  OBVIOUS
<1>. QED
  BY <1>1, <1>3, <1>5, <1>6, <1>7 DEF JiaoIn, JiaoOut

LEMMA ChaJiaoFacts ==
  ASSUME NEW h, Hand(h), NEW rv, rv.types \in CardTypes, NEW q, q = ChaJiao(h, rv)
  PROVE  /\ Hand(q) /\ Same(q, h, SettleFields)
         /\ \A s \in Seats : \A item :
              /\ Amount(q.earned, <<s, item>>) = Amount(h.earned, <<s, item>>)
                   + (IF item = "jiao_pai" THEN JiaoIn(h, rv, s) ELSE 0)
              /\ Amount(q.owed, <<s, item>>) = Amount(h.owed, <<s, item>>)
                   + (IF item = "jiao_pai" THEN JiaoOut(h, rv, s) ELSE 0)
         /\ \A s \in Seats : q.bet[s] = h.bet[s] + JiaoIn(h, rv, s) - JiaoOut(h, rv, s)
<1> DEFINE X == Seats \X {"jiao_pai"}
           i == [x \in X |-> JiaoIn(h, rv, x[1])]
           o == [x \in X |-> JiaoOut(h, rv, x[1])]
           e == AddAll(h.earned, NonZero(i))
           w == AddAll(h.owed, NonZero(o))
           bet == [s \in Seats |-> h.bet[s] + JiaoIn(h, rv, s) - JiaoOut(h, rv, s)]
<1>1. q = [h EXCEPT !.earned = e, !.owed = w, !.bet = bet]
  <2> DEFINE payers(k) == {j \in Others(k) : ~ StillWaits(h, rv, k, j)}
             pairs == {p \in Seats \X Seats : p[1] \in Waits(h, rv) /\ p[2] \in payers(p[1])}
             best == [p \in pairs |-> BaseScore(h, p[1], rv.types[p[1]])]
             in(s) == Sum(best, {p \in pairs : p[1] = s})
             out(s) == Sum(best, {p \in pairs : p[2] = s})
  <2>1. pairs = JiaoPairs(h, rv)
    BY DEF JiaoPairs
  <2>2. best = JiaoBest(h, rv)
    BY <2>1 DEF JiaoBest
  <2>3. q = [h EXCEPT !.earned = AddAll(@, NonZero([x \in X |-> in(x[1])])),
                      !.owed = AddAll(@, NonZero([x \in X |-> out(x[1])])),
                      !.bet = [s \in Seats |-> @[s] + in(s) - out(s)]]
    BY DEF ChaJiao
  <2> HIDE DEF pairs, best
  <2>4. \A s : in(s) = JiaoIn(h, rv, s) /\ out(s) = JiaoOut(h, rv, s)
    BY <2>1, <2>2, SumIsSumOn DEF JiaoIn, JiaoOut
  <2> HIDE DEF in, out
  <2>5. /\ [x \in X |-> in(x[1])] = i /\ [x \in X |-> out(x[1])] = o
        /\ [s \in Seats |-> h.bet[s] + in(s) - out(s)] = bet
    BY <2>4
  <2>. QED
    BY <2>3, <2>5
<1>2. \A s : JiaoIn(h, rv, s) \in Nat /\ JiaoOut(h, rv, s) \in Nat
  BY JiaoScores
<1>3. Entries(i, Accounts) /\ Entries(o, Accounts)
  BY <1>2 DEF Entries, Accounts, Items
<1>4. \A s \in Seats : \A item : Amount(i, <<s, item>>) = IF item = "jiao_pai" THEN JiaoIn(h, rv, s) ELSE 0
  BY DEF Amount
<1>5. \A s \in Seats : \A item : Amount(o, <<s, item>>) = IF item = "jiao_pai" THEN JiaoOut(h, rv, s) ELSE 0
  BY DEF Amount
<1> HIDE DEF i, o
<1>6. Entries(NonZero(i), Accounts) /\ \A k : Amount(NonZero(i), k) = Amount(i, k)
  BY <1>3, NonZeroFacts
<1>7. Entries(NonZero(o), Accounts) /\ \A k : Amount(NonZero(o), k) = Amount(o, k)
  BY <1>3, NonZeroFacts
<1>8. Entries(h.earned, Accounts) /\ Entries(h.owed, Accounts) /\ h.bet \in [Seats -> Int]
  BY DEF Hand, Typed
<1>9. Entries(e, Accounts) /\ \A k : Amount(e, k) = Amount(h.earned, k) + Amount(NonZero(i), k)
  <2> HIDE DEF e
  <2>1. e = AddAll(h.earned, NonZero(i))
    BY DEF e
  <2>. QED
    BY ONLY <1>6, <1>8, <2>1, EntriesAdd
<1>10. Entries(w, Accounts) /\ \A k : Amount(w, k) = Amount(h.owed, k) + Amount(NonZero(o), k)
  <2> HIDE DEF w
  <2>1. w = AddAll(h.owed, NonZero(o))
    BY DEF w
  <2>. QED
    BY ONLY <1>7, <1>8, <2>1, EntriesAdd
<1>11. bet \in [Seats -> Int] /\ \A s \in Seats : bet[s] = h.bet[s] + JiaoIn(h, rv, s) - JiaoOut(h, rv, s)
  BY <1>2, <1>8
<1> HIDE DEF e, w, bet
<1>12. IsHand(q) /\ Same(q, h, SettleFields) /\ q.earned = e /\ q.owed = w /\ q.bet = bet
  <2>1. IsHand(h)
    BY DEF Hand
  <2>. QED
    BY ONLY <1>1, <2>1, FieldNames DEF IsHand, Same, SettleFields
<1>13. Typed(q)
  BY <1>9, <1>10, <1>11, <1>12 DEF Hand, Typed, Same, SettleFields
<1>. QED
  BY <1>4, <1>5, <1>6, <1>7, <1>9, <1>10, <1>11, <1>12, <1>13 DEF Hand

LEMMA WaitsFacts == \A h, rv : Waits(h, rv) \in SUBSET Seats
BY DEF Waits

\* A hand before it is settled.
Unsettled(h) ==
  /\ ~ h.settled /\ h.earned = <<>> /\ h.owed = <<>> /\ h.bet = Zeros /\ h.waits = {}
  /\ GangLedger(h.ledger)

WonFields == SettleFields \cup {"stage", "ledger", "settled", "waits"}

\* How a hand somebody won is settled.
SettledWin(q, h, rv) ==
  /\ q.stage = "won" /\ q.settled /\ q.waits = Waits(h, rv)
  /\ Same(q, h, WonFields)
  /\ q.ledger = Booked(h, rv).ledger
  /\ \A x : Amount(q.earned, x) = Amount(Earned(Booked(h, rv), rv), x)
  /\ \A x : Amount(q.owed, x) = Amount(Owed(Booked(h, rv), rv), x)
  /\ \A s \in Seats : q.bet[s] = OfSeat(q.earned, s) - OfSeat(q.owed, s)

LEMMA WinIsSettled ==
  ASSUME NEW h, Hand(h), Won(h), Unsettled(h), NEW q \in JiGameEnd(h)
  PROVE  /\ Hand(q)
         /\ \E rv \in WinReveals(h) : Revealed(rv) /\ SettledWin(q, h, rv)
<1>1. PICK rv \in WinReveals(h) : q = [UpdateAccountBet(h, rv) EXCEPT !.stage = "won"]
  BY DEF JiGameEnd
<1>2. Revealed(rv)
  BY DEF WinReveals, Revealed
<1> DEFINE b == Booked(h, rv)
           t == Totals(b, rv)
           c == [t EXCEPT !.settled = TRUE, !.waits = Waits(h, rv)]
<1>3. Hand(b) /\ Same(b, h, {"ledger"})
  BY <1>2, BookedFacts DEF Unsettled
<1>4. ~ (h.win_seatid = Nowhere /\ h.pao_hu_count < 2 /\ h.gang_hu_count < 2)
  <2>1. h.pao_hu_count > 1 => ~ (h.pao_hu_count < 2)
    BY DEF Hand, Typed
  <2>2. h.gang_hu_count > 1 => ~ (h.gang_hu_count < 2)
    BY DEF Hand, Typed
  <2>3. h.win_seatid \in h.pao_hu_flag \cup h.gang_hu_flag => h.win_seatid # Nowhere
    BY NobodyIsSeated DEF Hand, Typed
  <2>. QED
    BY <2>1, <2>2, <2>3 DEF Won
<1>5. Settle(h, rv) = t
  BY <1>4 DEF Settle, Booked, WonLedger
<1>6. UpdateAccountBet(h, rv) = c
  BY <1>5 DEF UpdateAccountBet, Unsettled
<1>7. q = [c EXCEPT !.stage = "won"]
  BY <1>1, <1>6
<1> HIDE DEF b
<1>8. /\ Hand(t) /\ Same(t, b, SettleFields)
      /\ t.earned = AddAll(b.earned, Earned(b, rv))
      /\ t.owed = AddAll(b.owed, NonZero(Owed(b, rv)))
      /\ \A s \in Seats : t.bet[s] = OfSeat(t.earned, s) - OfSeat(t.owed, s)
  BY <1>3, TotalsFacts
<1> HIDE DEF t
<1>9. /\ IsHand(q) /\ Same(q, t, {"stage", "settled", "waits"})
      /\ q.stage = "won" /\ q.settled = TRUE /\ q.waits = Waits(h, rv)
  BY <1>7, <1>8, FieldNames DEF Hand, IsHand, Same
<1>10. q.settled \in BOOLEAN /\ q.waits \in SUBSET Seats /\ q.stage \in {"won"}
  BY <1>9, WaitsFacts
<1>11. Typed(q)
  <2>1. Typed(t)
    BY <1>8 DEF Hand
  <2>. QED
    BY <1>9, <1>10, <2>1 DEF Typed, Same
<1>12. /\ q.earned = t.earned /\ q.owed = t.owed /\ q.bet = t.bet
       /\ b.earned = <<>> /\ b.owed = <<>> /\ q.ledger = b.ledger
       /\ Same(q, h, WonFields)
  BY <1>3, <1>8, <1>9 DEF Same, SettleFields, WonFields, Unsettled
<1>13. Entries(Earned(b, rv), Accounts) /\ Entries(Owed(b, rv), Accounts)
  BY <1>3, EarnedOwedFacts DEF Hand
<1>14. \A x : Amount(q.earned, x) = Amount(Earned(b, rv), x)
  <2>1. \A x : Amount(q.earned, x) = Amount(<<>>, x) + Amount(Earned(b, rv), x)
    <3> DEFINE z == <<>>
    <3>1. Entries(z, Accounts) /\ q.earned = AddAll(z, Earned(b, rv))
      BY <1>8, <1>12, NoEntries
    <3> DEFINE e == Earned(b, rv)
    <3>2. Entries(e, Accounts)
      BY <1>13
    <3> DEFINE a == AddAll(z, e)
    <3>3. a = AddAll(z, e)
      OBVIOUS
    <3> HIDE DEF z, e, a
    <3>4. Entries(a, Accounts) /\ \A x : Amount(a, x) = Amount(z, x) + Amount(e, x)
      BY ONLY <3>1, <3>2, <3>3, EntriesAdd
    <3>. QED
      BY <3>1, <3>3, <3>4 DEF z, e
  <2>. QED
    BY <1>13, <2>1, NoAmount, AmountIsInt
<1>15. \A x : Amount(q.owed, x) = Amount(Owed(b, rv), x)
  <2> DEFINE n == NonZero(Owed(b, rv))
  <2>1. Entries(n, Accounts) /\ \A x : Amount(n, x) = Amount(Owed(b, rv), x)
    BY <1>13, NonZeroFacts
  <2> DEFINE z == <<>>
  <2>2. Entries(z, Accounts) /\ q.owed = AddAll(z, n)
    BY <1>8, <1>12, NoEntries
  <2> DEFINE a == AddAll(z, n)
  <2>6. a = AddAll(z, n)
    OBVIOUS
  <2> HIDE DEF n, z, a
  <2>5. Entries(a, Accounts) /\ \A x : Amount(a, x) = Amount(z, x) + Amount(n, x)
    BY ONLY <2>1, <2>2, <2>6, EntriesAdd
  <2>3. \A x : Amount(q.owed, x) = Amount(z, x) + Amount(n, x)
    BY <2>2, <2>5, <2>6
  <2>4. \A x : Amount(z, x) = 0
    BY NoAmount DEF z
  <2>. QED
    BY <1>13, <2>1, <2>3, <2>4, AmountIsInt
<1>16. SettledWin(q, h, rv)
  BY <1>8, <1>9, <1>12, <1>14, <1>15 DEF SettledWin, b
<1>. QED
  BY <1>2, <1>9, <1>11, <1>16 DEF Hand

\* How a hand nobody won is settled.
SettledDraw(q, g, rv) ==
  /\ \A s \in Seats : \A item :
       /\ Amount(q.earned, <<s, item>>) = IF item = "jiao_pai" THEN JiaoIn(g, rv, s) ELSE 0
       /\ Amount(q.owed, <<s, item>>) = IF item = "jiao_pai" THEN JiaoOut(g, rv, s) ELSE 0
  /\ \A s \in Seats : q.bet[s] = JiaoIn(g, rv, s) - JiaoOut(g, rv, s)

LEMMA DrawIsSettled ==
  ASSUME NEW h, Hand(h), Unsettled(h), h.win_seatid = Nowhere,
         h.pao_hu_count < 2, h.gang_hu_count < 2,
         NEW rv, rv.types \in CardTypes, NEW q, q = UpdateAccountBet(h, rv),
         NEW g, g = RobbedGang(h)
  PROVE  /\ Hand(g) /\ Same(g, h, {"ledger"})
         /\ Hand(q) /\ Same(q, h, SettleFields \cup {"ledger", "settled", "waits"})
         /\ q.settled /\ q.waits = Waits(h, rv)
         /\ SettledDraw(q, g, rv)
<1> DEFINE t == ChaJiao(g, rv)
<1>1. Hand(g) /\ Same(g, h, {"ledger"})
  BY RobbedGangFacts
<1>2. q = [t EXCEPT !.settled = TRUE, !.waits = Waits(h, rv)]
  BY DEF UpdateAccountBet, Settle, Unsettled
<1>3. /\ Hand(t) /\ Same(t, g, SettleFields)
      /\ \A s \in Seats : \A item :
           /\ Amount(t.earned, <<s, item>>) = Amount(g.earned, <<s, item>>)
                + (IF item = "jiao_pai" THEN JiaoIn(g, rv, s) ELSE 0)
           /\ Amount(t.owed, <<s, item>>) = Amount(g.owed, <<s, item>>)
                + (IF item = "jiao_pai" THEN JiaoOut(g, rv, s) ELSE 0)
      /\ \A s \in Seats : t.bet[s] = g.bet[s] + JiaoIn(g, rv, s) - JiaoOut(g, rv, s)
  BY <1>1, ChaJiaoFacts
<1> HIDE DEF t
<1>4. /\ IsHand(q) /\ Same(q, t, {"settled", "waits"})
      /\ q.settled = TRUE /\ q.waits = Waits(h, rv)
  <2>1. IsHand(t)
    BY <1>3 DEF Hand
  <2> DEFINE w == Waits(h, rv)
  <2>2. q = [t EXCEPT !.settled = TRUE, !.waits = w]
    BY <1>2
  <2> HIDE DEF w
  <2>3. IsHand(q)
    BY ONLY <2>1, <2>2, FieldNames DEF IsHand
  <2>4. Same(q, t, {"settled", "waits"})
    BY ONLY <2>1, <2>2, FieldNames DEF IsHand, Same
  <2>5. q.settled = TRUE /\ q.waits = w
    BY ONLY <2>1, <2>2, FieldNames DEF IsHand
  <2>. QED
    BY <2>3, <2>4, <2>5 DEF w
<1>5. q.settled \in BOOLEAN /\ q.waits \in SUBSET Seats
  BY <1>4, WaitsFacts
<1>6. Typed(q)
  <2>1. Typed(t)
    BY <1>3 DEF Hand
  <2>. QED
    BY <1>4, <1>5, <2>1 DEF Typed, Same
<1>7. /\ q.earned = t.earned /\ q.owed = t.owed /\ q.bet = t.bet
      /\ g.earned = <<>> /\ g.owed = <<>> /\ g.bet = Zeros
      /\ Same(q, h, SettleFields \cup {"ledger", "settled", "waits"})
  BY <1>1, <1>3, <1>4 DEF Same, SettleFields, Unsettled
<1>8. \A s : JiaoIn(g, rv, s) \in Nat /\ JiaoOut(g, rv, s) \in Nat
  BY JiaoScores
<1>9. \A k : Amount(g.earned, k) = 0 /\ Amount(g.owed, k) = 0
  BY <1>7, NoAmount
<1>10. \A s \in Seats : g.bet[s] = 0
  BY <1>7 DEF Zeros
<1>11. \A s \in Seats : \A item :
         /\ Amount(q.earned, <<s, item>>) = IF item = "jiao_pai" THEN JiaoIn(g, rv, s) ELSE 0
         /\ Amount(q.owed, <<s, item>>) = IF item = "jiao_pai" THEN JiaoOut(g, rv, s) ELSE 0
  <2> TAKE s \in Seats
  <2> TAKE item
  <2> DEFINE i == JiaoIn(g, rv, s)
             o == JiaoOut(g, rv, s)
  <2>1. i \in Nat /\ o \in Nat
    BY <1>8
  <2>2. /\ Amount(q.earned, <<s, item>>) = 0 + (IF item = "jiao_pai" THEN i ELSE 0)
        /\ Amount(q.owed, <<s, item>>) = 0 + (IF item = "jiao_pai" THEN o ELSE 0)
    BY <1>3, <1>7, <1>9
  <2> HIDE DEF i, o
  <2>3. /\ Amount(q.earned, <<s, item>>) = IF item = "jiao_pai" THEN i ELSE 0
        /\ Amount(q.owed, <<s, item>>) = IF item = "jiao_pai" THEN o ELSE 0
    BY <2>1, <2>2
  <2>. QED
    BY <2>3 DEF i, o
<1>12. \A s \in Seats : q.bet[s] = JiaoIn(g, rv, s) - JiaoOut(g, rv, s)
  BY <1>3, <1>7, <1>8, <1>10
<1>. QED
  BY <1>1, <1>4, <1>6, <1>7, <1>11, <1>12 DEF Hand, SettledDraw

-----------------------------------------------------------------------------
(* The end of a hand.                                                      *)

Taken(h) == {s \in Seats : \/ s \in h.gang_hu_flag /\ h.gang_hu_seat # Nowhere
                           \/ s \in h.pao_hu_flag /\ h.pao_hu_seat # Nowhere}
Feeder(h) == IF h.gang_hu_seat # Nowhere THEN h.gang_hu_seat ELSE h.pao_hu_seat

\* What the end of the hand adds to the tally.
Counts(t, h) ==
  /\ t.jie_pao = h.tally.jie_pao + Cardinality(Taken(h))
  /\ t.zimo = h.tally.zimo + Cardinality({h.win_seatid} \ ({Nowhere} \cup Taken(h)))
  /\ t.fang_pao = h.tally.fang_pao + Cardinality({Feeder(h)} \ {Nowhere})

LEMMA FewAreFinite ==
  /\ \A h : IsFiniteSet(Taken(h)) /\ Cardinality(Taken(h)) \in Nat
  /\ \A x, S : IsFiniteSet({x} \ S) /\ Cardinality({x} \ S) \in Nat
<1>1. ASSUME NEW h PROVE IsFiniteSet(Taken(h))
  <2>1. Taken(h) \in SUBSET Seats
    BY DEF Taken
  <2>. QED
    BY <2>1, SeatsAreFinite, FS_Subset
<1>2. ASSUME NEW x, NEW S PROVE IsFiniteSet({x} \ S)
  <2>1. {x} \ S \in SUBSET {x}
    OBVIOUS
  <2>. QED
    BY <2>1, FS_Singleton, FS_Subset
<1>. QED
  BY <1>1, <1>2, FS_CardinalityType

LEMMA TallyFields ==
  \A w \in [jie_pao : Nat, zimo : Nat, fang_pao : Nat] : \A x, y, z :
    [w EXCEPT !.jie_pao = x, !.zimo = y, !.fang_pao = z] = [jie_pao |-> x, zimo |-> y, fang_pao |-> z]
<1> TAKE w \in [jie_pao : Nat, zimo : Nat, fang_pao : Nat]
<1> TAKE x, y, z
<1> DEFINE e == [w EXCEPT !.jie_pao = x, !.zimo = y, !.fang_pao = z]
           D == {"jie_pao", "zimo", "fang_pao"}
<1>1. DOMAIN w = D
  OBVIOUS
<1>2. e = [f \in D |-> e[f]] /\ e.jie_pao = x /\ e.zimo = y /\ e.fang_pao = z
  BY ONLY <1>1
<1> HIDE DEF e
<1>. QED
  BY <1>2

LEMMA AccumulateHuFacts ==
  ASSUME NEW h, Hand(h), NEW q, q = AccumulateHu(h)
  PROVE  Hand(q) /\ Same(q, h, {"tally"}) /\ Counts(q.tally, h)
<1> DEFINE a == Cardinality(Taken(h))
           b == Cardinality({h.win_seatid} \ ({Nowhere} \cup Taken(h)))
           c == Cardinality({Feeder(h)} \ {Nowhere})
           t == [h.tally EXCEPT !.jie_pao = @ + a, !.zimo = @ + b, !.fang_pao = @ + c]
<1>1. a \in Nat /\ b \in Nat /\ c \in Nat
  BY FewAreFinite
<1>2. q = [h EXCEPT !.tally.jie_pao = @ + a, !.tally.zimo = @ + b, !.tally.fang_pao = @ + c]
  BY DEF AccumulateHu, Taken, Feeder
<1>3. h.tally \in [jie_pao : Nat, zimo : Nat, fang_pao : Nat] /\ IsHand(h)
  BY DEF Hand, Typed
<1> HIDE DEF a, b, c
<1>4. q.tally = t
  BY ONLY <1>2, <1>3, FieldNames DEF IsHand, t
<1>5. IsHand(q) /\ Same(q, h, {"tally"})
  BY ONLY <1>2, <1>3, FieldNames DEF IsHand, Same
<1>6. /\ t \in [jie_pao : Nat, zimo : Nat, fang_pao : Nat]
      /\ t.jie_pao = h.tally.jie_pao + a /\ t.zimo = h.tally.zimo + b
      /\ t.fang_pao = h.tally.fang_pao + c
  <2> DEFINE x == h.tally.jie_pao + a
             y == h.tally.zimo + b
             z == h.tally.fang_pao + c
  <2>1. h.tally.jie_pao \in Nat /\ h.tally.zimo \in Nat /\ h.tally.fang_pao \in Nat
    BY <1>3
  <2>2. x \in Nat /\ y \in Nat /\ z \in Nat
    BY <1>1, <2>1
  <2> HIDE DEF x, y, z
  <2>3. t = [h.tally EXCEPT !.jie_pao = x, !.zimo = y, !.fang_pao = z]
    BY DEF t, x, y, z
  <2>4. t = [jie_pao |-> x, zimo |-> y, fang_pao |-> z]
    BY ONLY <1>3, <2>3, TallyFields
  <2>5. /\ t \in [jie_pao : Nat, zimo : Nat, fang_pao : Nat]
        /\ t.jie_pao = x /\ t.zimo = y /\ t.fang_pao = z
    BY ONLY <2>2, <2>4
  <2>. QED
    BY <2>5 DEF x, y, z
<1> HIDE DEF t
<1>7. Typed(q)
  BY <1>4, <1>5, <1>6 DEF Hand, Typed, Same
<1>. QED
  BY <1>4, <1>5, <1>6, <1>7 DEF Hand, Counts, a, b, c

\* q is h settled without a winner, as g with rv.
DrawnWith(q, h, rv, g) ==
  /\ rv \in JiaoReveals(h) /\ rv.types \in CardTypes
  /\ Hand(g) /\ Same(g, h, {"ledger", "tally"})
  /\ q.waits = Waits(g, rv) /\ SettledDraw(q, g, rv)

EndFields == {"stage", "tally", "moved"}
Money(h) == SettleFields \cup {"ledger", "settled", "waits"}

LEMMA GameEndFacts ==
  ASSUME NEW h, Hand(h), NEW q \in GameEnd(h),
         h.settled \/ (Unsettled(h) /\ h.win_seatid = Nowhere /\ h.pao_hu_count < 2 /\ h.gang_hu_count < 2)
  PROVE  /\ Hand(q) /\ q.stage = "ended" /\ q.settled /\ Counts(q.tally, h)
         /\ \A s \in Seats : q.moved[s] = h.moved[s] + q.bet[s]
         /\ h.settled => Same(q, h, EndFields)
         /\ ~ h.settled => /\ Same(q, h, EndFields \cup Money(h))
                           /\ \E rv, g : DrawnWith(q, h, rv, g)
<1> DEFINE a == AccumulateHu(h)
<1>1. Hand(a) /\ Same(a, h, {"tally"}) /\ Counts(a.tally, h)
  BY AccumulateHuFacts
<1>2. PICK rv \in IF h.settled THEN {<<>>} ELSE JiaoReveals(h) :
        q = [UpdateAccountBet(a, rv) EXCEPT !.stage = "ended",
               !.moved = [s \in Seats |-> @[s] + UpdateAccountBet(a, rv).bet[s]]]
  BY DEF GameEnd
<1> DEFINE u == UpdateAccountBet(a, rv)
           m == [s \in Seats |-> u.moved[s] + u.bet[s]]
<1> HIDE DEF a
<1>3. q = [u EXCEPT !.stage = "ended", !.moved = m]
  BY <1>2
<1> HIDE DEF u
<1>4. ASSUME Hand(u), Counts(u.tally, h), u.settled, Same(u, h, {"tally"} \cup Money(h))
      PROVE  /\ Hand(q) /\ q.stage = "ended" /\ q.settled /\ Counts(q.tally, h)
             /\ Same(q, u, {"stage", "moved"})
             /\ \A s \in Seats : q.moved[s] = h.moved[s] + q.bet[s]
  <2>1. IsHand(u)
    BY <1>4 DEF Hand
  <2>2. m \in [Seats -> Int] /\ \A s \in Seats : m[s] = u.moved[s] + u.bet[s]
    BY <1>4 DEF Hand, Typed
  <2> HIDE DEF m
  <2>3. IsHand(q) /\ Same(q, u, {"stage", "moved"}) /\ q.stage = "ended" /\ q.moved = m
    BY ONLY <1>3, <2>1, FieldNames DEF IsHand, Same
  <2>4. Typed(q)
    BY <1>4, <2>2, <2>3 DEF Hand, Typed, Same
  <2>5. q.tally = u.tally /\ q.settled = u.settled /\ q.bet = u.bet /\ u.moved = h.moved
    BY <1>4, <2>3 DEF Same, Money, SettleFields
  <2>. QED
    BY <1>4, <2>2, <2>3, <2>4, <2>5 DEF Hand
<1>5. CASE h.settled
  <2>1. u = a
    BY <1>1, <1>5 DEF UpdateAccountBet, u, Same
  <2>2. Hand(u) /\ Counts(u.tally, h) /\ u.settled /\ Same(u, h, {"tally"} \cup Money(h)) /\ Same(u, h, {"tally"})
    BY <1>1, <1>5, <2>1 DEF Same
  <2>3. /\ Hand(q) /\ q.stage = "ended" /\ q.settled /\ Counts(q.tally, h)
        /\ Same(q, u, {"stage", "moved"})
        /\ \A s \in Seats : q.moved[s] = h.moved[s] + q.bet[s]
    BY <1>4, <2>2
  <2>4. Same(q, h, EndFields)
    <3>1. Same(q, u, {"stage", "moved"}) /\ Same(u, h, {"tally"})
      BY <2>2, <2>3
    <3>. QED
      BY ONLY <3>1 DEF Same, EndFields
  <2>. QED
    BY <1>5, <2>3, <2>4
<1>6. CASE ~ h.settled
  <2>1. rv \in JiaoReveals(h) /\ rv.types \in CardTypes
    BY <1>6 DEF JiaoReveals
  <2>2. /\ Unsettled(a) /\ a.win_seatid = Nowhere /\ a.pao_hu_count < 2 /\ a.gang_hu_count < 2
    BY <1>1, <1>6 DEF Same, Unsettled
  <2> DEFINE g == RobbedGang(a)
  <2>3. /\ Hand(g) /\ Same(g, a, {"ledger"}) /\ Hand(u) /\ Same(u, a, Money(h))
        /\ u.settled /\ u.waits = Waits(a, rv) /\ SettledDraw(u, g, rv)
    BY <1>1, <2>1, <2>2, DrawIsSettled DEF u, Money
  <2> HIDE DEF g
  <2>4. Counts(u.tally, h) /\ Same(u, h, {"tally"} \cup Money(h))
    BY <1>1, <2>3 DEF Same, Money, SettleFields
  <2>5. /\ Hand(q) /\ q.stage = "ended" /\ q.settled /\ Counts(q.tally, h)
        /\ Same(q, u, {"stage", "moved"})
        /\ \A s \in Seats : q.moved[s] = h.moved[s] + q.bet[s]
    BY <1>4, <2>3, <2>4
  <2>6. Same(q, h, EndFields \cup Money(h))
    BY <2>4, <2>5 DEF Same, EndFields, Money, SettleFields
  <2>7. Same(g, h, {"ledger", "tally"}) /\ Waits(a, rv) = Waits(g, rv)
    BY <1>1, <2>3 DEF Same, Waits, FullHand
  <2>8. q.earned = u.earned /\ q.owed = u.owed /\ q.bet = u.bet /\ q.waits = u.waits
    BY <2>5 DEF Same
  <2>9. DrawnWith(q, h, rv, g)
    BY <2>1, <2>3, <2>7, <2>8 DEF DrawnWith, SettledDraw
  <2>. QED
    BY <1>6, <2>5, <2>6, <2>9
<1>. QED
  BY <1>5, <1>6

NoTally == [jie_pao |-> 0, zimo |-> 0, fang_pao |-> 0]

\* A table between two hands.
Cleared(q, options) ==
  /\ q.stage = "idle" /\ q.options = options
  /\ q.birds = NoBirds /\ q.seat_birds = [s \in Seats |-> NoBirds]
  /\ q.out = [s \in Seats |-> [t \in Tiles |-> 0]] /\ q.melds = [s \in Seats |-> [t \in Tiles |-> 0]]
  /\ Quiet(q) /\ q.win_seatid = Nowhere /\ q.ledger = <<>> /\ q.gangs = <<>>
  /\ ~ q.is_re_pao /\ ~ q.is_qiang_gang /\ ~ q.is_huang_zhuang /\ ~ q.settled
  /\ q.earned = <<>> /\ q.owed = <<>> /\ q.bet = Zeros /\ q.waits = {}
  /\ q.tally = NoTally /\ q.moved = Zeros

LEMMA BetweenFacts ==
  ASSUME NEW o \in Options, NEW q, q = Between(o)
  PROVE  Hand(q) /\ Cleared(q, o)
<1>1. Cleared(q, o)
  BY DEF Between, Cleared, NoTally, Quiet, NoOffer
<1>2. IsHand(q)
  BY DEF Between, IsHand, Names
<1>3. /\ NoBirds \in [BirdTiles -> Bird] /\ Zeros \in [Seats -> Int]
      /\ NoTally \in [jie_pao : Nat, zimo : Nat, fang_pao : Nat]
      /\ [s \in Seats |-> [t \in Tiles |-> 0]] \in [Seats -> [Tiles -> Nat]]
  <2>1. NoBirds \in [BirdTiles -> Bird]
    <3>1. [chong |-> FALSE, ze_ren |-> 0, loose |-> 0] \in Bird
      BY DEF Bird
    <3>. QED
      BY <3>1 DEF NoBirds, BirdTiles
  <2>2. Zeros \in [Seats -> Int] /\ NoTally \in [jie_pao : Nat, zimo : Nat, fang_pao : Nat]
    BY DEF Zeros, NoTally
  <2>. QED
    BY <2>1, <2>2
<1>4. [s \in Seats |-> NoBirds] \in [Seats -> [BirdTiles -> Bird]]
  BY <1>3
<1>5. Entries(<<>>, Keys) /\ Entries(<<>>, Accounts)
  BY NoEntries
<1>6. /\ q.dealer = 0 /\ q.lian_zhuang_cnt = 1 /\ q.cur = 0 /\ q.chu_seat = 0 /\ q.last_card = Plain
      /\ q.drew = FALSE /\ q.handler_flag = {} /\ q.discarded = {} /\ q.discards = 0
      /\ q.pengs = [s \in Seats |-> {}] /\ q.bao_ting = {}
  BY DEF Between
<1>7. 0 \in Seats /\ 0 \in 0 .. MaxDiscards /\ Plain \in Tiles
  BY SettlementAssumption DEF Seats, Tiles
<1>8. q.pengs \in [Seats -> SUBSET (Tiles \X Seats)]
  BY <1>6
<1>9. /\ q.drew \in BOOLEAN /\ q.is_re_pao \in BOOLEAN /\ q.is_qiang_gang \in BOOLEAN
      /\ q.is_huang_zhuang \in BOOLEAN /\ q.settled \in BOOLEAN
  BY DEF Between
<1> HIDE DEF NoTally, NoBirds
<1>10. Typed(q)
  BY <1>1, <1>3, <1>4, <1>5, <1>6, <1>7, <1>8, <1>9 DEF Typed, Cleared, Quiet, NoOffer, Nowhere
<1>. QED
  BY <1>1, <1>2, <1>10 DEF Hand

-----------------------------------------------------------------------------
(* The bird tiles everybody has seen.                                      *)

Seen(h, t) == [s \in Seats |-> h.out[s][t] + h.melds[s][t]]

LEMMA ShownFacts ==
  ASSUME NEW h, Typed(h), NEW t \in Tiles
  PROVE  /\ Shown(h, t) = SumOn(Seen(h, t), Seats)
         /\ \A s \in Seats : h.out[s][t] \in Nat /\ h.melds[s][t] \in Nat /\ Seen(h, t)[s] \in Int
         /\ Shown(h, t) \in Nat
<1>1. Shown(h, t) = SumOn(Seen(h, t), Seats)
  BY SumIsSumOn DEF Shown, Seen
<1>2. \A s \in Seats : h.out[s][t] \in Nat /\ h.melds[s][t] \in Nat
  BY DEF Typed
<1>3. \A s \in Seats : Seen(h, t)[s] \in Nat
  BY <1>2 DEF Seen
<1>4. SumOn(Seen(h, t), Seats) \in Nat
  BY <1>3, SeatsAreFinite, SumIsNat
<1>. QED
  BY <1>1, <1>2, <1>3, <1>4

LEMMA BirdsAreTiles == BirdTiles \subseteq Tiles /\ Plain \notin BirdTiles
BY DEF BirdTiles, Tiles, Plain, YaoJi, BaTong

\* n more tiles t have been seen.
Adds(q, h, t, n) == \A c \in BirdTiles : Shown(q, c) = Shown(h, c) + (IF c = t THEN n ELSE 0)

LEMMA NothingIsAdded ==
  ASSUME NEW h, Typed(h), NEW q, q.out = h.out, q.melds = h.melds
  PROVE  \A t : Adds(q, h, t, 0)
<1>1. \A c : Shown(q, c) = Shown(h, c)
  BY DEF Shown
<1>2. \A c \in BirdTiles : Shown(h, c) \in Nat
  BY BirdsAreTiles, ShownFacts
<1>. QED
  BY <1>1, <1>2 DEF Adds

LEMMA SeenByOne ==
  ASSUME NEW h, Typed(h), NEW q, Typed(q), NEW s \in Seats, NEW t, NEW n \in Nat,
         \A u \in Seats, c \in BirdTiles :
           Seen(q, c)[u] = Seen(h, c)[u] + (IF u = s /\ c = t THEN n ELSE 0)
  PROVE  Adds(q, h, t, n)
<1> SUFFICES ASSUME NEW c \in BirdTiles
             PROVE  Shown(q, c) = Shown(h, c) + (IF c = t THEN n ELSE 0)
  BY DEF Adds
<1> DEFINE f == Seen(h, c)
           g == Seen(q, c)
<1>1. /\ Shown(h, c) = SumOn(f, Seats) /\ Shown(q, c) = SumOn(g, Seats)
      /\ \A u \in Seats : f[u] \in Int /\ g[u] \in Int
      /\ Shown(h, c) \in Nat
  BY BirdsAreTiles, ShownFacts
<1>2. /\ \A u \in Seats \ {s} : g[u] = f[u]
      /\ g[s] = f[s] + (IF c = t THEN n ELSE 0)
  BY <1>1
<1> HIDE DEF f, g
<1>3. SumOn(g, Seats) = SumOn(f, Seats) - f[s] + g[s]
  BY <1>1, <1>2, SeatsAreFinite, SumChanges
<1>4. f[s] \in Int /\ g[s] \in Int
  BY <1>1
<1>. QED
  BY <1>1, <1>2, <1>3, <1>4

LEMMA DiscardIsSeen ==
  ASSUME NEW h, Typed(h), NEW q, Typed(q), NEW s \in Seats, NEW t \in Tiles,
         q.out = [h.out EXCEPT ![s][t] = @ + 1], q.melds = h.melds
  PROVE  Adds(q, h, t, 1)
<1>1. ASSUME NEW u \in Seats, NEW c \in BirdTiles
      PROVE  Seen(q, c)[u] = Seen(h, c)[u] + (IF u = s /\ c = t THEN 1 ELSE 0)
  <2>1. c \in Tiles
    BY BirdsAreTiles
  <2>2. h.out[u][c] \in Nat /\ h.melds[u][c] \in Nat
    BY <2>1, ShownFacts
  <2>3. q.out[u][c] = h.out[u][c] + (IF u = s /\ c = t THEN 1 ELSE 0)
    BY <2>1, <2>2 DEF Typed
  <2>. QED
    BY <2>2, <2>3 DEF Seen
<1>2. 1 \in Nat
  OBVIOUS
<1>. QED
  BY <1>1, <1>2, SeenByOne

LEMMA GangIsSeen ==
  ASSUME NEW h, Typed(h), NEW q, Typed(q), NEW s \in Seats, NEW t \in Tiles, NEW n \in Nat,
         q.melds = [h.melds EXCEPT ![s][t] = @ + n], q.out = h.out
  PROVE  Adds(q, h, t, n)
<1>1. ASSUME NEW u \in Seats, NEW c \in BirdTiles
      PROVE  Seen(q, c)[u] = Seen(h, c)[u] + (IF u = s /\ c = t THEN n ELSE 0)
  <2>1. c \in Tiles
    BY BirdsAreTiles
  <2>2. h.out[u][c] \in Nat /\ h.melds[u][c] \in Nat
    BY <2>1, ShownFacts
  <2>3. q.melds[u][c] = h.melds[u][c] + (IF u = s /\ c = t THEN n ELSE 0)
    BY <2>1, <2>2 DEF Typed
  <2>. QED
    BY <2>2, <2>3 DEF Seen
<1>. QED
  BY <1>1, SeenByOne

\* A claimed tile moves from the discards of one seat to the melds of another.
LEMMA ClaimIsSeen ==
  ASSUME NEW h, Typed(h), NEW q, Typed(q), NEW s \in Seats, NEW p \in Seats, NEW t \in Tiles,
         NEW n \in Nat,
         q.out = [h.out EXCEPT ![p][t] = @ - 1], q.melds = [h.melds EXCEPT ![s][t] = @ + n + 1]
  PROVE  Adds(q, h, t, n)
<1> SUFFICES ASSUME NEW c \in BirdTiles
             PROVE  Shown(q, c) = Shown(h, c) + (IF c = t THEN n ELSE 0)
  BY DEF Adds
<1> DEFINE f == Seen(h, c)
           g == Seen(q, c)
           m == [u \in Seats |-> f[u] - (IF u = p /\ c = t THEN 1 ELSE 0)]
<1>1. /\ Shown(h, c) = SumOn(f, Seats) /\ Shown(q, c) = SumOn(g, Seats)
      /\ \A u \in Seats : f[u] \in Int /\ g[u] \in Int
      /\ Shown(h, c) \in Nat /\ c \in Tiles
  BY BirdsAreTiles, ShownFacts
<1>2. ASSUME NEW u \in Seats
      PROVE  /\ m[u] \in Int
             /\ m[u] = f[u] - (IF u = p /\ c = t THEN 1 ELSE 0)
             /\ g[u] = m[u] + (IF u = s /\ c = t THEN n + 1 ELSE 0)
  <2>1. h.out[u][c] \in Nat /\ h.melds[u][c] \in Nat
    BY <1>1, ShownFacts
  <2>2. q.out[u][c] = h.out[u][c] - (IF u = p /\ c = t THEN 1 ELSE 0)
    BY <1>1, <2>1 DEF Typed
  <2>3. q.melds[u][c] = h.melds[u][c] + (IF u = s /\ c = t THEN n + 1 ELSE 0)
    BY <1>1, <2>1 DEF Typed
  <2>. QED
    BY <2>1, <2>2, <2>3 DEF Seen
<1> HIDE DEF f, g, m
<1>3. SumOn(m, Seats) = SumOn(f, Seats) - f[p] + m[p]
  <2>1. \A u \in Seats : f[u] \in Int /\ m[u] \in Int
    BY <1>1, <1>2
  <2>2. \A u \in Seats \ {p} : m[u] = f[u]
    BY <1>1, <1>2
  <2>. QED
    BY ONLY <2>1, <2>2, p \in Seats, SeatsAreFinite, SumChanges
<1>4. SumOn(g, Seats) = SumOn(m, Seats) - m[s] + g[s]
  <2>1. \A u \in Seats : g[u] \in Int /\ m[u] \in Int
    BY <1>1, <1>2
  <2>2. \A u \in Seats \ {s} : g[u] = m[u]
    BY <1>1, <1>2
  <2>. QED
    BY ONLY <2>1, <2>2, s \in Seats, SeatsAreFinite, SumChanges
<1>5. /\ f[p] \in Int /\ m[p] = f[p] - (IF c = t THEN 1 ELSE 0)
      /\ m[s] \in Int /\ g[s] = m[s] + (IF c = t THEN n + 1 ELSE 0)
  BY <1>1, <1>2
<1>. QED
  BY <1>1, <1>3, <1>4, <1>5

BirdsShown(h) == \A b \in BirdTiles : Shown(h, b) \in 0 .. 4

LEMMA TilesStay ==
  ASSUME NEW h, NEW q, NEW t, NEW n \in Nat, Adds(q, h, t, n), BirdsShown(h),
         n = 0 \/ MayHave(h, t, n)
  PROVE  BirdsShown(q)
<1> SUFFICES ASSUME NEW b \in BirdTiles PROVE Shown(q, b) \in 0 .. 4
  BY DEF BirdsShown
<1>1. Shown(h, b) \in 0 .. 4 /\ Shown(q, b) = Shown(h, b) + (IF b = t THEN n ELSE 0)
  BY DEF BirdsShown, Adds
<1>2. b = t /\ n # 0 => 4 - Shown(h, b) >= n
  BY BirdsAreTiles DEF MayHave, Left
<1>. QED
  BY <1>1, <1>2
-----------------------------------------------------------------------------
(* The inductive invariant.                                                *)

\* What is offered, and to whom, at every stage.
Offers(h) ==
  /\ h.stage = "turn" => /\ NoOffer(h) /\ h.gang_hu_count = 0
                         /\ h.pao_hu_count \in {0, 1} /\ (h.drew => h.pao_hu_count = 0)
  /\ h.stage \in {"claim", "next"} => Quiet(h)
  /\ h.stage = "offer" => Fed(h) /\ h.pao_hu_flag = {h.cur} /\ h.pao_hu_count = 1
  /\ h.stage = "rob" => Robbing(h) /\ h.gang_hu_flag = {h.cur} /\ h.gang_hu_count = 1

\* What the gangs of seat s have put into the ledger.
MingGangs(h, s) == [j \in Seats |-> Amount(h.ledger, <<s, j, "ming_gang">>)]
GangBooked(h, s) ==
  /\ Amount(h.ledger, <<s, Everyone, "an_gang">>) = 2 * Amount(h.gangs, <<s, "an_gang">>)
  /\ Amount(h.ledger, <<s, Everyone, "peng_gang">>) = Amount(h.gangs, <<s, "peng_gang">>)
  /\ SumOn(MingGangs(h, s), Seats) = (SeatCount - 1) * Amount(h.gangs, <<s, "ming_gang">>)
GangsBooked(h) == \A s \in Seats : GangBooked(h, s)

\* A hand that is neither won nor settled; the flags of a hot or robbed win.
Unflagged(h) == ~ h.is_huang_zhuang /\ ~ h.is_re_pao /\ ~ h.is_qiang_gang
Unpaid(h) == h.tally = NoTally /\ h.moved = Zeros
Open(h) == Unsettled(h) /\ GangsBooked(h) /\ h.win_seatid = Nowhere /\ Unflagged(h) /\ Unpaid(h)

Fresh(h) ==
  /\ Open(h) /\ h.pao_hu_flag = {} /\ h.gang_hu_flag = {}
  /\ h.pao_hu_count = 0 /\ h.gang_hu_count = 0

Course(h) ==
  /\ h.stage \in Playing => Open(h)
  /\ h.stage = "idle" => Fresh(h)
  /\ h.stage \in {"won", "ended"} => h.settled
  /\ h.stage = "won" => Won(h) /\ Unpaid(h)

\* A bird tile is there four times, and the one that may be claimed lies there.
TilesLie(h) ==
  /\ BirdsShown(h)
  /\ h.stage \in {"offer", "claim"} => h.out[h.chu_seat][h.last_card] >= 1

Inv(h) == Hand(h) /\ FirstBirds(h) /\ Offers(h) /\ Course(h) /\ TilesLie(h)

-----------------------------------------------------------------------------
(* A gang is booked as it is made.                                         *)

GangEntry(s, item, payer, v) ==
  \/ item = "an_gang" /\ payer = Everyone /\ v = 2
  \/ item = "peng_gang" /\ payer = Everyone /\ v = 1
  \/ item = "ming_gang" /\ payer \in Others(s) /\ v = SeatCount - 1

LEMMA GangIsBooked ==
  ASSUME NEW h, Typed(h), NEW q, Typed(q), NEW s \in Seats, NEW item, NEW payer, NEW v,
         GangEntry(s, item, payer, v), OneMoreGang(q, h, s, item, payer, v)
  PROVE  /\ GangsBooked(h) => GangsBooked(q)
         /\ GangLedger(h.ledger) => GangLedger(q.ledger)
<1>1. /\ \A k : Amount(h.ledger, k) \in Int /\ Amount(h.gangs, k) \in Int
      /\ \A k : Amount(q.ledger, k) \in Int /\ Amount(q.gangs, k) \in Int
  BY AmountIsInt DEF Typed
<1>2. v \in Int /\ SeatCount - 1 \in Int
  BY SettlementAssumption DEF GangEntry
<1>3. ASSUME NEW u \in Seats, GangBooked(h, u) PROVE GangBooked(q, u)
  <2>1. Amount(q.ledger, <<u, Everyone, "an_gang">>) = 2 * Amount(q.gangs, <<u, "an_gang">>)
    <3>1. Amount(h.ledger, <<u, Everyone, "an_gang">>) = 2 * Amount(h.gangs, <<u, "an_gang">>)
      BY <1>3 DEF GangBooked
    <3>2. CASE u = s /\ item = "an_gang"
      BY <1>1, <3>1, <3>2 DEF GangEntry, OneMoreGang
    <3>3. CASE ~ (u = s /\ item = "an_gang")
      BY <1>1, <3>1, <3>3 DEF OneMoreGang
    <3>. QED
      BY <3>2, <3>3
  <2>2. Amount(q.ledger, <<u, Everyone, "peng_gang">>) = Amount(q.gangs, <<u, "peng_gang">>)
    <3>1. Amount(h.ledger, <<u, Everyone, "peng_gang">>) = Amount(h.gangs, <<u, "peng_gang">>)
      BY <1>3 DEF GangBooked
    <3>2. CASE u = s /\ item = "peng_gang"
      BY <1>1, <3>1, <3>2 DEF GangEntry, OneMoreGang
    <3>3. CASE ~ (u = s /\ item = "peng_gang")
      BY <1>1, <3>1, <3>3 DEF OneMoreGang
    <3>. QED
      BY <3>2, <3>3
  <2> DEFINE f == MingGangs(h, u)
             g == MingGangs(q, u)
  <2>3. \A j \in Seats : /\ f[j] = Amount(h.ledger, <<u, j, "ming_gang">>) /\ f[j] \in Int
                         /\ g[j] = Amount(q.ledger, <<u, j, "ming_gang">>) /\ g[j] \in Int
    BY <1>1 DEF MingGangs
  <2>4. SumOn(f, Seats) = (SeatCount - 1) * Amount(h.gangs, <<u, "ming_gang">>)
    BY <1>3 DEF GangBooked
  <2>6. \A j \in Seats : g[j] = f[j] + (IF <<u, j, "ming_gang">> = <<s, payer, item>> THEN v ELSE 0)
    BY <2>3 DEF OneMoreGang
  <2> HIDE DEF f, g
  <2>5. SumOn(g, Seats) = (SeatCount - 1) * Amount(q.gangs, <<u, "ming_gang">>)
    <3>1. CASE u = s /\ item = "ming_gang"
      <4>1. payer \in Seats /\ v = SeatCount - 1
        BY <3>1 DEF GangEntry, Others
      <4>2. \A j \in Seats \ {payer} : g[j] = f[j]
        <5> TAKE j \in Seats \ {payer}
        <5>1. <<u, j, "ming_gang">> # <<s, payer, item>>
          OBVIOUS
        <5>2. f[j] \in Int /\ g[j] = f[j] + (IF <<u, j, "ming_gang">> = <<s, payer, item>> THEN v ELSE 0)
          BY <2>3, <2>6
        <5>. QED
          BY ONLY <5>1, <5>2
      <4>3. g[payer] = f[payer] + (SeatCount - 1)
        BY ONLY <2>6, <3>1, <4>1
      <4>4. \A x \in Seats : f[x] \in Int /\ g[x] \in Int
        BY <2>3
      <4>5. SumOn(g, Seats) = SumOn(f, Seats) - f[payer] + g[payer]
        BY ONLY <4>1, <4>2, <4>4, SeatsAreFinite, SumChanges
      <4>6. SumOn(f, Seats) \in Int
        BY ONLY <4>4, SeatsAreFinite, SumIsInt
      <4>7. SumOn(g, Seats) = SumOn(f, Seats) + (SeatCount - 1)
        <5>1. f[payer] \in Int
          BY <2>3, <4>1
        <5>. QED
          BY ONLY <1>2, <4>3, <4>5, <4>6, <5>1
      <4>8. Amount(q.gangs, <<u, "ming_gang">>) = Amount(h.gangs, <<u, "ming_gang">>) + 1
        BY <3>1 DEF OneMoreGang
      <4> DEFINE a == Amount(h.gangs, <<u, "ming_gang">>)
                 n == SeatCount - 1
      <4>9. a \in Int /\ n \in Int
        BY <1>1, <1>2
      <4> HIDE DEF a, n
      <4>10. n * (a + 1) = n * a + n
        BY <4>9
      <4>. QED
        BY <2>4, <4>7, <4>8, <4>10 DEF a, n
    <3>2. CASE ~ (u = s /\ item = "ming_gang")
      <4>1. \A j \in Seats : g[j] = f[j]
        <5> TAKE j \in Seats
        <5>1. <<u, j, "ming_gang">> # <<s, payer, item>>
          BY ONLY <3>2
        <5>2. f[j] \in Int /\ g[j] = f[j] + (IF <<u, j, "ming_gang">> = <<s, payer, item>> THEN v ELSE 0)
          BY <2>3, <2>6
        <5>. QED
          BY ONLY <5>1, <5>2
      <4>2. SumOn(g, Seats) = SumOn(f, Seats)
        BY ONLY <4>1, SeatsAreFinite, SumSame
      <4>3. Amount(q.gangs, <<u, "ming_gang">>) = Amount(h.gangs, <<u, "ming_gang">>)
        BY <1>1, <3>2 DEF OneMoreGang
      <4>. QED
        BY <2>4, <4>2, <4>3
    <3>. QED
      BY <3>1, <3>2
  <2>. QED
    BY <2>1, <2>2, <2>5 DEF GangBooked, f, g
<1>4. GangLedger(h.ledger) => GangLedger(q.ledger)
  <2>1. /\ item \in GangItems
        /\ item = "ming_gang" => payer \in Others(s)
        /\ item # "ming_gang" => payer = Everyone
    BY DEF GangEntry, GangItems
  <2>. QED
    BY <2>1 DEF GangLedger, OneMoreGang
<1>. QED
  BY <1>3, <1>4 DEF GangsBooked

LEMMA NoGangs ==
  ASSUME NEW h, h.ledger = <<>>, h.gangs = <<>>
  PROVE  GangsBooked(h) /\ GangLedger(h.ledger)
<1>1. GangLedger(h.ledger)
  BY NoAmount DEF GangLedger
<1>2. ASSUME NEW s \in Seats PROVE GangBooked(h, s)
  <2>1. \A k : Amount(h.ledger, k) = 0 /\ Amount(h.gangs, k) = 0
    BY NoAmount
  <2>2. \A j \in Seats : MingGangs(h, s)[j] = 0
    BY <2>1 DEF MingGangs
  <2>3. SumOn(MingGangs(h, s), Seats) = 0
    BY <2>2, SeatsAreFinite, SumOfZeros
  <2>. QED
    BY <2>1, <2>3, SettlementAssumption DEF GangBooked
<1>. QED
  BY <1>1, <1>2 DEF GangsBooked

\* The fields of a hand that its course does not speak of.
PlayFields == {"stage", "options", "dealer", "lian_zhuang_cnt", "cur", "chu_seat", "last_card",
               "last_gang_card", "draws", "got", "drew", "last_actions", "handler_flag",
               "discarded", "discards", "pengs", "bao_ting", "birds", "seat_birds", "out",
               "melds", "pao_hu_seat", "pao_hu_flag", "pao_hu_count", "gang_hu_seat",
               "gang_hu_flag", "gang_hu_count"}

LEMMA StaysOpen ==
  ASSUME NEW h, NEW q, Same(q, h, PlayFields), Open(h)
  PROVE  Open(q)
<1>1. q.ledger = h.ledger /\ q.gangs = h.gangs
  BY DEF Same, PlayFields
<1>2. GangsBooked(q)
  BY <1>1 DEF Open, GangsBooked, GangBooked, MingGangs
<1>3. Unsettled(q) /\ q.win_seatid = Nowhere
  BY <1>1 DEF Same, PlayFields, Open, Unsettled
<1>4. Unflagged(q) /\ Unpaid(q)
  BY DEF Same, PlayFields, Open, Unflagged, Unpaid
<1>. QED
  BY <1>2, <1>3, <1>4 DEF Open

LEMMA StaysOpenWithGang ==
  ASSUME NEW h, Typed(h), NEW q, Typed(q), Same(q, h, PlayFields \cup {"ledger", "gangs"}),
         NEW s \in Seats, NEW item, NEW payer, NEW v,
         GangEntry(s, item, payer, v), OneMoreGang(q, h, s, item, payer, v), Open(h)
  PROVE  Open(q)
<1>1. GangsBooked(q) /\ GangLedger(q.ledger)
  BY GangIsBooked DEF Open, Unsettled
<1>2. Unsettled(q) /\ q.win_seatid = Nowhere
  BY <1>1 DEF Same, PlayFields, Open, Unsettled
<1>3. Unflagged(q) /\ Unpaid(q)
  BY DEF Same, PlayFields, Open, Unflagged, Unpaid
<1>. QED
  BY <1>1, <1>2, <1>3 DEF Open

-----------------------------------------------------------------------------
(* The kinds of steps.                                                     *)

HotWin(h) == h.pao_hu_count > 0 /\ h.last_actions[h.chu_seat] = <<"CHU", "GANG">>

\* A hand somebody has won, ready to be settled.
Decided(h) ==
  /\ Hand(h) /\ Won(h) /\ Unsettled(h) /\ GangsBooked(h) /\ FirstBirds(h) /\ BirdsShown(h)
  /\ Unpaid(h) /\ ~ h.is_huang_zhuang
  /\ NoBirdsNoBeans(h) <=> h.win_seatid # Nowhere /\ (HotWin(h) \/ h.gang_hu_count > 0)

WinStep(q) == \E h, rv : /\ Decided(h) /\ rv \in WinReveals(h) /\ Revealed(rv)
                         /\ SettledWin(q, h, rv)

LEMMA DecidedIsWon ==
  ASSUME NEW h, Decided(h), NEW q \in JiGameEnd(h)
  PROVE  Inv(q) /\ q.stage = "won" /\ WinStep(q)
<1>1. Hand(h) /\ Won(h) /\ Unsettled(h)
  BY DEF Decided
<1>2. Hand(q) /\ \E rv \in WinReveals(h) : Revealed(rv) /\ SettledWin(q, h, rv)
  BY <1>1, WinIsSettled
<1>3. PICK rv \in WinReveals(h) : Revealed(rv) /\ SettledWin(q, h, rv)
  BY <1>2
<1>4. Same(q, h, WonFields) /\ q.stage = "won" /\ q.settled
  BY <1>3 DEF SettledWin
<1>5. FirstBirds(q)
  <2>1. q.birds = h.birds /\ q.seat_birds = h.seat_birds
    BY <1>4 DEF Same, WonFields, SettleFields
  <2>. QED
    BY <2>1, SameBirds DEF Decided
<1>6. TilesLie(q)
  <2>1. q.out = h.out /\ q.melds = h.melds
    BY <1>4 DEF Same, WonFields, SettleFields
  <2>2. \A b : Shown(q, b) = Shown(h, b)
    BY <2>1 DEF Shown
  <2>. QED
    BY <1>4, <2>2 DEF TilesLie, BirdsShown, Decided
<1>7. Won(q) /\ Unpaid(q)
  BY <1>1, <1>4 DEF Decided, Same, WonFields, SettleFields, Won, Fed, Robbing, Quiet, NoOffer, Unpaid
<1>8. Offers(q) /\ Course(q)
  BY <1>4, <1>7 DEF Offers, Course, Playing
<1>. QED
  BY <1>2, <1>3, <1>4, <1>5, <1>6, <1>8 DEF Inv, WinStep
-----------------------------------------------------------------------------
(* The steps of a hand under play.                                         *)

LEMMA PlaysOn ==
  ASSUME NEW h, Open(h), NEW q, Hand(q), q.stage \in Playing, Same(q, h, PlayFields),
         FirstBirds(q), Offers(q), TilesLie(q)
  PROVE  Inv(q)
<1>1. Open(q)
  BY StaysOpen
<1>2. Course(q)
  BY <1>1 DEF Course, Playing
<1>. QED
  BY <1>2 DEF Inv

LEMMA PlaysOnWithGang ==
  ASSUME NEW h, Hand(h), Open(h), NEW q, Hand(q), q.stage \in Playing,
         Same(q, h, PlayFields \cup {"ledger", "gangs"}),
         NEW s \in Seats, NEW item, NEW payer, NEW v,
         GangEntry(s, item, payer, v), OneMoreGang(q, h, s, item, payer, v),
         FirstBirds(q), Offers(q), TilesLie(q)
  PROVE  Inv(q)
<1>1. Open(q)
  BY StaysOpenWithGang DEF Hand
<1>2. Course(q)
  BY <1>1 DEF Course, Playing
<1>. QED
  BY <1>2 DEF Inv

\* What of an invariant hand the steps use.
LEMMA InPlay ==
  ASSUME NEW h, Inv(h)
  PROVE  /\ Hand(h) /\ Typed(h) /\ IsHand(h) /\ FirstBirds(h) /\ BirdsShown(h)
         /\ h.stage \in Playing => Open(h)
BY DEF Inv, Hand, TilesLie, Course

LEMMA GameStartStep ==
  ASSUME Inv(hand), NEW d \in Dealers, NEW cnt \in Streaks, GameStart(d, cnt), NEW q, q = hand'
  PROVE  Inv(q) /\ q.stage \in Playing
<1> DEFINE a == Started(hand)
           b == [a EXCEPT !.dealer = d, !.lian_zhuang_cnt = cnt]
<1>1. /\ Hand(a) /\ Same(a, hand, {"pao_hu_seat", "gang_hu_seat"})
      /\ a.pao_hu_seat = Nowhere /\ a.gang_hu_seat = Nowhere
  BY InPlay, StartedFacts
<1>2. hand.stage = "idle" /\ q = Draw(b, d) /\ d \in Seats /\ cnt \in Nat
  BY SettlementAssumption DEF GameStart
<1> HIDE DEF a
<1>3. /\ IsHand(b) /\ Same(b, a, {"dealer", "lian_zhuang_cnt"})
      /\ b.dealer = d /\ b.lian_zhuang_cnt = cnt
  BY <1>1, FieldNames DEF Hand, IsHand, Same
<1>4. Hand(b)
  BY <1>1, <1>2, <1>3 DEF Hand, Typed, Same
<1> HIDE DEF b
<1>13. Hand(q) /\ Same(q, b, DrawFields) /\ Drawn(q, d)
  BY ONLY <1>2, <1>4, DrawFacts
<1>5. /\ Hand(q) /\ Same(q, b, DrawFields)
      /\ q.stage = "turn" /\ q.cur = d /\ q.drew = TRUE
      /\ q.pao_hu_count = 0 /\ q.gang_hu_count = 0
  BY <1>13 DEF Drawn
<1>6. /\ Same(q, hand, PlayFields) /\ q.birds = hand.birds /\ q.seat_birds = hand.seat_birds
      /\ q.out = hand.out /\ q.melds = hand.melds
      /\ q.pao_hu_flag = hand.pao_hu_flag /\ q.gang_hu_flag = hand.gang_hu_flag
      /\ q.pao_hu_seat = Nowhere /\ q.gang_hu_seat = Nowhere
  BY <1>1, <1>3, <1>5 DEF Same, DrawFields, PlayFields
<1>7. Fresh(hand)
  BY <1>2 DEF Inv, Course
<1>8. FirstBirds(q)
  BY <1>6, InPlay, SameBirds
<1>9. TilesLie(q)
  <2>1. \A b_1 : Shown(q, b_1) = Shown(hand, b_1)
    BY <1>6 DEF Shown
  <2>. QED
    BY <1>5, <2>1, InPlay DEF TilesLie, BirdsShown
<1>10. Offers(q)
  BY <1>5, <1>6, <1>7 DEF Offers, NoOffer, Fresh
<1>11. q.stage \in Playing
  BY <1>5 DEF Playing
<1>. QED
  BY <1>5, <1>6, <1>7, <1>8, <1>9, <1>10, <1>11, PlaysOn DEF Fresh

LEMMA NextSeatStep ==
  ASSUME Inv(hand), NextSeat, NEW q, q = hand'
  PROVE  Inv(q) /\ q.stage \in Playing
<1>1. hand.stage \in {"claim", "next"} /\ q = Draw(hand, Next1(hand.chu_seat))
  BY DEF NextSeat
<1>2. Next1(hand.chu_seat) \in Seats
  BY InPlay, SettlementAssumption DEF Typed, Next1, Seats
<1>3. /\ Hand(q) /\ Same(q, hand, DrawFields)
      /\ q.stage = "turn" /\ q.drew = TRUE
      /\ q.pao_hu_count = 0 /\ q.gang_hu_count = 0
  <2>1. Hand(hand)
    BY InPlay
  <2>2. Hand(q) /\ Same(q, hand, DrawFields) /\ Drawn(q, Next1(hand.chu_seat))
    BY ONLY <1>1, <1>2, <2>1, DrawFacts
  <2>. QED
    BY <2>2 DEF Drawn
<1>4. Open(hand) /\ Quiet(hand)
  BY <1>1 DEF Inv, Course, Offers, Playing
<1>5. /\ Same(q, hand, PlayFields) /\ q.birds = hand.birds /\ q.seat_birds = hand.seat_birds
      /\ q.out = hand.out /\ q.melds = hand.melds /\ NoOffer(q)
  BY <1>3, <1>4 DEF Same, DrawFields, PlayFields, Quiet, NoOffer
<1>6. FirstBirds(q)
  BY <1>5, InPlay, SameBirds
<1>7. TilesLie(q)
  <2>1. \A b : Shown(q, b) = Shown(hand, b)
    BY <1>5 DEF Shown
  <2>. QED
    BY <1>3, <2>1, InPlay DEF TilesLie, BirdsShown
<1>8. Offers(q)
  BY <1>3, <1>5 DEF Offers
<1>9. q.stage \in Playing
  BY <1>3 DEF Playing
<1>. QED
  BY <1>3, <1>4, <1>5, <1>6, <1>7, <1>8, <1>9, PlaysOn

LEMMA GuoStep ==
  ASSUME Inv(hand), Guo, NEW q, q = hand'
  PROVE  Inv(q) /\ q.stage \in Playing
<1> DEFINE a == DropOffer(hand, hand.cur)
           h == [a EXCEPT !.handler_flag = @ \cup {hand.cur}, !.pao_hu_count = 0, !.gang_hu_count = 0]
<1>1. /\ Hand(a) /\ Same(a, hand, OfferFields) /\ OfferDropped(a, hand, hand.cur)
  BY InPlay, DropOfferFacts
<1>2. \/ hand.stage = "offer" /\ q = [h EXCEPT !.stage = "claim"]
      \/ hand.stage = "rob" /\ q = Draw(h, hand.gang_hu_seat)
  BY DEF Guo
<1> HIDE DEF a
<1>3. /\ IsHand(h) /\ Same(h, a, {"handler_flag", "pao_hu_count", "gang_hu_count"})
      /\ h.handler_flag = a.handler_flag \cup {hand.cur}
      /\ h.pao_hu_count = 0 /\ h.gang_hu_count = 0
  <2> DEFINE f == a.handler_flag \cup {hand.cur}
  <2>1. h = [a EXCEPT !.handler_flag = f, !.pao_hu_count = 0, !.gang_hu_count = 0] /\ IsHand(a)
    BY <1>1 DEF Hand
  <2> HIDE DEF f, h
  <2>2. IsHand(h)
    BY ONLY <2>1, FieldNames DEF IsHand
  <2>3. Same(h, a, {"handler_flag", "pao_hu_count", "gang_hu_count"})
    BY ONLY <2>1, FieldNames DEF IsHand, Same
  <2>4. h.handler_flag = f /\ h.pao_hu_count = 0 /\ h.gang_hu_count = 0
    BY ONLY <2>1, FieldNames DEF IsHand
  <2>. QED
    BY <2>2, <2>3, <2>4 DEF f
<1>4. Hand(h)
  <2>1. h.handler_flag \in SUBSET Seats /\ h.pao_hu_count \in Nat /\ h.gang_hu_count \in Nat
    BY <1>1, <1>3, InPlay DEF Hand, Typed
  <2>. QED
    BY <1>1, <1>3, <2>1 DEF Hand, Typed, Same
<1> HIDE DEF h
<1>5. /\ Same(h, hand, PlayFields) /\ Open(hand)
      /\ h.birds = hand.birds /\ h.seat_birds = hand.seat_birds
      /\ h.out = hand.out /\ h.melds = hand.melds
      /\ h.chu_seat = hand.chu_seat /\ h.last_card = hand.last_card
  BY <1>1, <1>2, <1>3, InPlay DEF Same, OfferFields, PlayFields, Playing
<1>6. Quiet(h)
  <2>1. \/ hand.pao_hu_flag = {hand.cur} /\ hand.gang_hu_flag = {} /\ hand.gang_hu_seat = Nowhere
        \/ hand.gang_hu_flag = {hand.cur} /\ hand.pao_hu_flag = {} /\ hand.pao_hu_seat = Nowhere
    BY <1>2 DEF Inv, Offers, Fed, Robbing
  <2>2. /\ h.pao_hu_flag = a.pao_hu_flag /\ h.pao_hu_seat = a.pao_hu_seat
        /\ h.gang_hu_flag = a.gang_hu_flag /\ h.gang_hu_seat = a.gang_hu_seat
    BY <1>3 DEF Same
  <2>. QED
    BY <1>1, <1>3, <2>1, <2>2 DEF Quiet, NoOffer, OfferDropped
<1>7. FirstBirds(h) /\ \A b : Shown(h, b) = Shown(hand, b)
  BY <1>5, InPlay, SameBirds DEF Shown
<1>8. CASE hand.stage = "offer" /\ q = [h EXCEPT !.stage = "claim"]
  <2>1. IsHand(q) /\ Same(q, h, {"stage"}) /\ q.stage = "claim"
    BY <1>4, <1>8, FieldNames DEF Hand, IsHand, Same
  <2>2. Hand(q)
    BY <1>4, <2>1 DEF Hand, Typed, Same, Playing
  <2>3. Same(q, hand, PlayFields)
    BY <1>5, <2>1 DEF Same, PlayFields
  <2>4. FirstBirds(q) /\ Quiet(q) /\ \A b : Shown(q, b) = Shown(hand, b)
    BY <1>6, <1>7, <2>1, SameBirds DEF Same, Quiet, NoOffer, Shown
  <2>5. /\ q.out = hand.out /\ q.chu_seat = hand.chu_seat /\ q.last_card = hand.last_card
    BY <1>5, <2>1 DEF Same
  <2>6. TilesLie(q)
    BY <1>8, <2>1, <2>4, <2>5 DEF Inv, TilesLie, BirdsShown
  <2>7. Offers(q) /\ q.stage \in Playing
    BY <2>1, <2>4 DEF Offers, Playing
  <2>. QED
    BY <1>5, <2>2, <2>3, <2>4, <2>6, <2>7, PlaysOn
<1>9. CASE hand.stage = "rob" /\ q = Draw(h, hand.gang_hu_seat)
  <2>1. hand.gang_hu_seat \in Seats
    BY <1>9 DEF Inv, Offers, Robbing
  <2>7. Hand(q) /\ Same(q, h, DrawFields) /\ Drawn(q, hand.gang_hu_seat)
    BY ONLY <1>4, <1>9, <2>1, DrawFacts
  <2>2. /\ Hand(q) /\ Same(q, h, DrawFields)
        /\ q.stage = "turn" /\ q.drew = TRUE
        /\ q.pao_hu_count = 0 /\ q.gang_hu_count = 0
    BY <2>7 DEF Drawn
  <2>3. Same(q, hand, PlayFields)
    BY <1>5, <2>2 DEF Same, PlayFields, DrawFields
  <2>4. FirstBirds(q) /\ NoOffer(q) /\ \A b : Shown(q, b) = Shown(hand, b)
    <3>1. /\ q.birds = h.birds /\ q.seat_birds = h.seat_birds /\ q.out = h.out /\ q.melds = h.melds
          /\ NoOffer(q)
      BY <1>6, <2>2 DEF Same, DrawFields, Quiet, NoOffer
    <3>. QED
      BY <1>7, <3>1, SameBirds DEF Shown
  <2>5. TilesLie(q)
    BY <2>2, <2>4, InPlay DEF TilesLie, BirdsShown
  <2>6. Offers(q) /\ q.stage \in Playing
    BY <2>2, <2>4 DEF Offers, Playing
  <2>. QED
    BY <1>5, <2>2, <2>3, <2>4, <2>5, <2>6, PlaysOn
<1>. QED
  BY <1>2, <1>8, <1>9
LEMMA HowManySeats ==
  ASSUME NEW W \in SUBSET Seats
  PROVE  /\ Cardinality(W) \in Nat
         /\ Cardinality(W) = 0 <=> W = {}
         /\ Cardinality(W) = 1 => W = {CHOOSE w \in W : TRUE}
         /\ Cardinality(W) > 1 \/ Cardinality(W) = 1 \/ Cardinality(W) = 0
<1>1. IsFiniteSet(W)
  BY SeatsAreFinite, FS_Subset
<1>2. Cardinality(W) \in Nat
  BY <1>1, FS_CardinalityType
<1>3. Cardinality(W) = 0 <=> W = {}
  BY <1>1, FS_EmptySet
<1>4. ASSUME Cardinality(W) = 1 PROVE W = {CHOOSE w \in W : TRUE}
  <2>1. PICK x : W = {x}
    BY <1>1, <1>4, FS_Singleton
  <2>. QED
    BY <2>1
<1>. QED
  BY <1>2, <1>3, <1>4

\* The hand a, after s has discarded t from h.
DiscardedFrom(a, h, s, t) ==
  /\ BirdsShown(a) /\ a.out[s][t] >= 1 /\ FirstBirds(a)
  /\ Same(a, h, DiscardFields \cup AnswerFields)
  /\ a.last_card = t /\ a.chu_seat = s

\* A discard, and the answer that comes with it.
LEMMA DiscardKeeps ==
  ASSUME NEW h, Inv(h), NEW s \in Seats, NEW t \in Tiles, h.discards < MaxDiscards,
         MayHave(h, t, 1), NEW d, d = Discard(h, s, t),
         NEW a, Same(a, d, AnswerFields)
  PROVE  DiscardedFrom(a, h, s, t)
<1>1. Hand(h) /\ FirstBirds(h) /\ BirdsShown(h) /\ Typed(h)
  BY InPlay
<1>2. /\ Hand(d) /\ Same(d, h, DiscardFields)
      /\ d.last_card = t /\ d.chu_seat = s
      /\ d.out = [h.out EXCEPT ![s][t] = @ + 1]
      /\ FirstBirds(d)
  BY <1>1, DiscardFacts
<1>3. Typed(d) /\ d.melds = h.melds
  BY <1>2 DEF Hand, Same, DiscardFields
<1>4. Adds(d, h, t, 1)
  BY <1>1, <1>2, <1>3, DiscardIsSeen
<1>5. BirdsShown(d)
  BY <1>1, <1>4, TilesStay
<1>6. /\ a.out = d.out /\ a.melds = d.melds /\ a.birds = d.birds /\ a.seat_birds = d.seat_birds
      /\ a.last_card = d.last_card /\ a.chu_seat = d.chu_seat
  BY DEF Same, AnswerFields, OfferFields
<1>7. BirdsShown(a)
  BY <1>5, <1>6 DEF BirdsShown, Shown
<1>8. FirstBirds(a)
  BY <1>2, <1>6, SameBirds
<1>9. a.out[s][t] >= 1
  <2>1. h.out[s][t] \in Nat /\ h.out \in [Seats -> [Tiles -> Nat]]
    BY <1>1 DEF Typed
  <2>. QED
    BY <1>2, <1>6, <2>1
<1>10. Same(a, h, DiscardFields \cup AnswerFields)
  BY <1>2 DEF Same, AnswerFields, OfferFields, DiscardFields
<1>. QED
  BY <1>2, <1>6, <1>7, <1>8, <1>9, <1>10 DEF DiscardedFrom

LEMMA ChuStep ==
  ASSUME Inv(hand), NEW s \in Seats, NEW t \in Tiles, NEW W \in SUBSET Others(s), Chu(s, t, W),
         NEW q, q = hand'
  PROVE  Inv(q) /\ (q.stage \in Playing \/ (q.stage = "won" /\ WinStep(q)))
<1> DEFINE d == Discard(hand, s, t)
           a == Answers(d, s, "CHU")
           p == IF W = {} THEN a.pao_hu_seat ELSE s
           f == a.pao_hu_flag \cup W
           c == Cardinality(W)
           none == {}
           h == [a EXCEPT !.handler_flag = none, !.stage = "claim", !.pao_hu_flag = f, !.pao_hu_count = c,
                   !.gang_hu_count = 0, !.pao_hu_seat = p]
<1>1. /\ hand.stage = "turn" /\ hand.discards < MaxDiscards /\ MayHave(hand, t, 1)
  BY DEF Chu
<1>3. /\ Hand(hand) /\ Open(hand) /\ NoOffer(hand)
  BY <1>1, InPlay DEF Inv, Offers, Playing
<1>4. Hand(d) /\ Same(d, hand, DiscardFields)
  BY <1>1, <1>3, DiscardFacts
<1>5. W \in SUBSET Seats /\ s \notin W
  BY DEF Others
<1>6. /\ c \in Nat /\ (c = 0 <=> W = {})
      /\ c = 1 => W = {CHOOSE w \in W : TRUE}
      /\ c > 1 \/ c = 1 \/ c = 0
  BY <1>5, HowManySeats
<1>2. /\ c > 1 => q \in JiGameEnd(h)
      /\ c = 1 => q = [h EXCEPT !.stage = "offer", !.cur = CHOOSE w \in W : TRUE]
      /\ c = 0 => q = h
  BY <1>6 DEF Chu
<1>7. Hand(a) /\ Same(a, d, AnswerFields) /\ OfferDropped(a, d, s)
  <2> HIDE DEF d
  <2>. QED
    BY <1>4, AnswersFacts
<1>8. /\ BirdsShown(a) /\ a.out[s][t] >= 1 /\ FirstBirds(a)
      /\ Same(a, hand, DiscardFields \cup AnswerFields)
      /\ a.last_card = t /\ a.chu_seat = s
  <2>1. d = Discard(hand, s, t)
    OBVIOUS
  <2> HIDE DEF d, a
  <2>2. DiscardedFrom(a, hand, s, t)
    BY ONLY Inv(hand), s \in Seats, t \in Tiles, <1>1, <1>7, <2>1, DiscardKeeps
  <2>. QED
    BY <2>2 DEF DiscardedFrom
<1>9. NoOffer(a)
  BY <1>3, <1>4, <1>7 DEF Same, DiscardFields, NoOffer, OfferDropped
<1>10. p \in Seats \cup {Nowhere} /\ f = W /\ (p = IF W = {} THEN Nowhere ELSE s)
  BY <1>9 DEF NoOffer
<1> DEFINE F == {"handler_flag", "stage", "pao_hu_flag", "pao_hu_count", "gang_hu_count", "pao_hu_seat"}
<1> HIDE DEF d, a, p, f, c, none
<1>11. /\ IsHand(h) /\ Same(h, a, F) /\ h.handler_flag = none /\ h.stage = "claim"
       /\ h.pao_hu_flag = f /\ h.pao_hu_count = c /\ h.gang_hu_count = 0 /\ h.pao_hu_seat = p
  <2>1. IsHand(a)
    BY <1>7 DEF Hand
  <2>2. h = [a EXCEPT !.handler_flag = none, !.stage = "claim", !.pao_hu_flag = f, !.pao_hu_count = c,
                      !.gang_hu_count = 0, !.pao_hu_seat = p]
    OBVIOUS
  <2> HIDE DEF h
  <2>3. IsHand(h)
    BY ONLY <2>1, <2>2, FieldNames DEF IsHand
  <2>4. Same(h, a, F)
    BY ONLY <2>1, <2>2, FieldNames DEF IsHand, Same
  <2>5. /\ h.handler_flag = none /\ h.stage = "claim" /\ h.pao_hu_flag = f
        /\ h.pao_hu_count = c /\ h.gang_hu_count = 0 /\ h.pao_hu_seat = p
    BY ONLY <2>1, <2>2, FieldNames DEF IsHand
  <2>. QED
    BY <2>3, <2>4, <2>5
<1> HIDE DEF h
<1>12. Hand(h)
  <2>1. h.handler_flag \in SUBSET Seats /\ h.pao_hu_flag \in SUBSET Seats
    BY <1>5, <1>10, <1>11 DEF none
  <2>2. h.pao_hu_count \in Nat /\ h.gang_hu_count \in Nat /\ h.stage \in Playing
    BY <1>6, <1>11 DEF Playing
  <2>. QED
    BY <1>7, <1>10, <1>11, <2>1, <2>2 DEF Hand, Typed, Same
<1>13. /\ Same(h, hand, PlayFields)
       /\ FirstBirds(h) /\ BirdsShown(h) /\ h.out[h.chu_seat][h.last_card] >= 1 /\ h.chu_seat = s
       /\ h.gang_hu_flag = {} /\ h.gang_hu_seat = Nowhere
  <2>1. Same(h, hand, PlayFields)
    BY <1>8, <1>11 DEF Same, DiscardFields, AnswerFields, OfferFields, PlayFields
  <2>2. /\ h.birds = a.birds /\ h.seat_birds = a.seat_birds /\ h.out = a.out /\ h.melds = a.melds
        /\ h.chu_seat = a.chu_seat /\ h.last_card = a.last_card
        /\ h.gang_hu_flag = a.gang_hu_flag /\ h.gang_hu_seat = a.gang_hu_seat
    BY <1>11 DEF Same
  <2>3. FirstBirds(h) /\ BirdsShown(h)
    BY <1>8, <2>2, SameBirds DEF BirdsShown, Shown
  <2>. QED
    BY <1>8, <1>9, <2>1, <2>2, <2>3 DEF NoOffer
<1>14. CASE c = 0
  <2>1. q = h
    BY <1>2, <1>14
  <2>2. Quiet(h)
    BY <1>6, <1>10, <1>11, <1>13, <1>14 DEF Quiet, NoOffer
  <2>3. Offers(h) /\ TilesLie(h) /\ h.stage \in Playing
    BY <1>11, <1>13, <2>2 DEF Offers, TilesLie, Playing
  <2>. QED
    BY <1>3, <1>12, <1>13, <2>1, <2>3, PlaysOn
<1>15. Fed(h) \/ c = 0
  BY <1>5, <1>6, <1>10, <1>11, <1>13 DEF Fed, c
<1>16. CASE c = 1
  <2> DEFINE w == CHOOSE x \in W : TRUE
  <2>1. q = [h EXCEPT !.stage = "offer", !.cur = w] /\ W = {w} /\ w \in Seats
    BY <1>2, <1>5, <1>6, <1>16
  <2> HIDE DEF w
  <2>2. IsHand(q) /\ Same(q, h, {"stage", "cur"}) /\ q.stage = "offer" /\ q.cur = w
    BY <1>12, <2>1, FieldNames DEF Hand, IsHand, Same
  <2>3. Hand(q)
    BY <1>12, <2>1, <2>2 DEF Hand, Typed, Same, Playing
  <2>4. /\ Same(q, hand, PlayFields)
        /\ q.birds = h.birds /\ q.seat_birds = h.seat_birds /\ q.out = h.out /\ q.melds = h.melds
        /\ q.chu_seat = h.chu_seat /\ q.last_card = h.last_card
    BY <1>13, <2>2 DEF Same, PlayFields
  <2>5. FirstBirds(q) /\ TilesLie(q)
    BY <1>13, <2>4, SameBirds DEF TilesLie, BirdsShown, Shown
  <2>6. Fed(q) /\ q.pao_hu_flag = {q.cur} /\ q.pao_hu_count = 1
    BY <1>10, <1>11, <1>15, <1>16, <2>1, <2>2 DEF Same, Fed
  <2>7. Offers(q) /\ q.stage \in Playing
    BY <2>2, <2>6 DEF Offers, Playing
  <2>. QED
    BY <1>3, <2>3, <2>4, <2>5, <2>7, PlaysOn
<1>17. CASE c > 1
  <2>1. q \in JiGameEnd(h)
    BY <1>2, <1>17
  <2>2. Open(h)
    BY <1>3, <1>13, StaysOpen
  <2>3. Won(h)
    BY <1>6, <1>11, <1>15, <1>17, <2>2 DEF Won, Open
  <2>4. Decided(h)
    BY <1>12, <1>13, <2>2, <2>3 DEF Decided, Open, Unflagged, NoBirdsNoBeans
  <2>. QED
    BY <2>1, <2>4, DecidedIsWon
<1>. QED
  BY <1>6, <1>14, <1>16, <1>17
LEMMA BaoTingStep ==
  ASSUME Inv(hand), NEW s \in Seats, NEW t \in Tiles, BaoTing(s, t), NEW q, q = hand'
  PROVE  Inv(q) /\ q.stage \in Playing
<1> DEFINE d == Discard(hand, s, t)
           a == Acted(d, s, "TING")
           b == a.bao_ting \cup {s}
<1>1. /\ hand.stage = "turn" /\ hand.drew /\ hand.discards < MaxDiscards /\ MayHave(hand, t, 1)
      /\ q = [a EXCEPT !.stage = "next", !.bao_ting = b]
  BY DEF BaoTing
<1>2. /\ Hand(hand) /\ Open(hand) /\ Quiet(hand)
  BY <1>1, InPlay DEF Inv, Offers, Playing, Quiet
<1>3. Hand(d)
  BY <1>1, <1>2, DiscardFacts
<1>4. Hand(a) /\ Same(a, d, {"last_actions"})
  <2> HIDE DEF d
  <2>. QED
    BY <1>3, ActedFacts
<1>5. DiscardedFrom(a, hand, s, t)
  <2>1. d = Discard(hand, s, t) /\ Same(a, d, AnswerFields)
    BY <1>4 DEF Same, AnswerFields, OfferFields
  <2> HIDE DEF d, a
  <2>. QED
    BY ONLY Inv(hand), s \in Seats, t \in Tiles, <1>1, <2>1, DiscardKeeps
<1>6. Same(a, hand, DiscardFields \cup {"last_actions"})
  <2>1. Same(d, hand, DiscardFields)
    BY <1>1, <1>2, DiscardFacts
  <2> HIDE DEF d, a
  <2>. QED
    BY <1>4, <2>1 DEF Same, DiscardFields
<1> HIDE DEF d, a, b
<1>7. IsHand(q) /\ Same(q, a, {"stage", "bao_ting"}) /\ q.stage = "next" /\ q.bao_ting = b
  <2>1. IsHand(a) /\ q = [a EXCEPT !.stage = "next", !.bao_ting = b]
    BY <1>1, <1>4 DEF Hand
  <2>2. IsHand(q)
    BY ONLY <2>1, FieldNames DEF IsHand
  <2>3. Same(q, a, {"stage", "bao_ting"})
    BY ONLY <2>1, FieldNames DEF IsHand, Same
  <2>4. q.stage = "next" /\ q.bao_ting = b
    BY ONLY <2>1, FieldNames DEF IsHand
  <2>. QED
    BY <2>2, <2>3, <2>4
<1>8. b \in SUBSET Seats
  BY <1>4 DEF b, Hand, Typed
<1>9. Hand(q)
  BY <1>4, <1>7, <1>8 DEF Hand, Typed, Same, Playing
<1>10. /\ Same(q, hand, PlayFields) /\ Quiet(q)
       /\ q.birds = a.birds /\ q.seat_birds = a.seat_birds /\ q.out = a.out /\ q.melds = a.melds
  BY <1>2, <1>6, <1>7 DEF Same, DiscardFields, PlayFields, Quiet, NoOffer
<1>11. FirstBirds(q) /\ TilesLie(q)
  BY <1>5, <1>7, <1>10, SameBirds DEF DiscardedFrom, TilesLie, BirdsShown, Shown
<1>12. Offers(q) /\ q.stage \in Playing
  BY <1>7, <1>10 DEF Offers, Playing
<1>. QED
  BY <1>2, <1>9, <1>10, <1>11, <1>12, PlaysOn

\* The hand q, after s has claimed the last discard.
Claimed(q, s) ==
  /\ Hand(q) /\ Same(q, hand, ClaimFields)
  /\ NoOffer(q) /\ q.pao_hu_count \in {0, 1} /\ q.gang_hu_count = 0
  /\ BirdsShown(q) /\ FirstBirds(q)

LEMMA ClaimKeeps ==
  ASSUME Inv(hand), NEW s \in Seats, NEW n \in Nat, MayClaim(s, n), NEW a,
         NEW q, q = Claim(s, a, n)
  PROVE  Claimed(q, s) /\ hand.chu_seat \in Others(s) /\ hand.stage \in Playing
<1> DEFINE t == hand.last_card
           p == hand.chu_seat
<1>1. /\ \/ hand.stage = "offer" /\ s = hand.cur
         \/ hand.stage = "claim" /\ s # p
      /\ MayHave(hand, t, n)
  BY DEF MayClaim
<1>2. Hand(hand) /\ Typed(hand) /\ FirstBirds(hand) /\ BirdsShown(hand) /\ p \in Seats /\ t \in Tiles
  BY InPlay DEF Typed
<1>3. hand.out[p][t] >= 1
  BY <1>1 DEF Inv, TilesLie
<1> DEFINE C == /\ Hand(q) /\ Same(q, hand, ClaimFields) /\ OfferDropped(q, hand, s)
                /\ q.out = [hand.out EXCEPT ![p][t] = @ - 1]
                /\ q.melds = [hand.melds EXCEPT ![s][t] = @ + n + 1]
                /\ (FirstBirds(hand) => FirstBirds(q))
<1>4. C
  BY <1>2, <1>3, ClaimFacts
<1>5. Adds(q, hand, t, n)
  <2>1. Typed(q)
    BY <1>4 DEF Hand
  <2> HIDE DEF t, p
  <2>2. /\ q.out = [hand.out EXCEPT ![p][t] = @ - 1]
        /\ q.melds = [hand.melds EXCEPT ![s][t] = @ + n + 1]
    BY <1>4
  <2>. QED
    BY ONLY <1>2, <2>1, <2>2, s \in Seats, n \in Nat, ClaimIsSeen
<1>6. BirdsShown(q)
  BY <1>1, <1>2, <1>5, TilesStay
<1>7. \/ /\ Fed(hand) /\ hand.pao_hu_flag = {s} /\ hand.pao_hu_count = 1
      \/ Quiet(hand) /\ s # p
  BY <1>1 DEF Inv, Offers
<1>8. NoOffer(q) /\ p \in Others(s)
  <2>1. p # s
    BY <1>7 DEF Fed
  <2>2. NoOffer(q)
    BY <1>4, <1>7 DEF OfferDropped, NoOffer, Fed, Quiet
  <2>. QED
    BY <1>2, <2>1, <2>2 DEF Others
<1>9. q.pao_hu_count \in {0, 1} /\ q.gang_hu_count = 0
  <2>1. q.pao_hu_count = hand.pao_hu_count /\ q.gang_hu_count = hand.gang_hu_count
    BY <1>4 DEF Same, ClaimFields, AnswerFields, OfferFields
  <2>. QED
    BY <1>7, <2>1 DEF Fed, Quiet
<1>. QED
  BY <1>1, <1>2, <1>4, <1>6, <1>8, <1>9 DEF Claimed, Playing

LEMMA PengStep ==
  ASSUME Inv(hand), NEW s \in Seats, Peng(s), NEW q, q = hand'
  PROVE  Inv(q) /\ q.stage \in Playing
<1> DEFINE c == Claim(s, "PENG", 2)
           e == c.pengs[s] \cup {<<hand.last_card, hand.chu_seat>>}
<1>1. /\ MayClaim(s, 2)
      /\ q = [c EXCEPT !.stage = "turn", !.cur = s, !.drew = FALSE, !.pengs[s] = e]
  BY DEF Peng
<1>2. Claimed(c, s) /\ hand.stage \in Playing
  <2>1. 2 \in Nat /\ c = Claim(s, "PENG", 2)
    OBVIOUS
  <2> DEFINE a == "PENG"
             n == 2
  <2> HIDE DEF c, a, n
  <2>2. n \in Nat /\ c = Claim(s, a, n) /\ MayClaim(s, n)
    BY <1>1, <2>1 DEF a, n
  <2>. QED
    BY ONLY Inv(hand), s \in Seats, <2>2, ClaimKeeps
<1>3. /\ c.pengs \in [Seats -> SUBSET (Tiles \X Seats)]
      /\ e \in SUBSET (Tiles \X Seats) /\ Hand(c)
  <2>1. Hand(c) /\ Hand(hand)
    BY <1>2, InPlay DEF Claimed
  <2> HIDE DEF c
  <2>2. c.pengs \in [Seats -> SUBSET (Tiles \X Seats)] /\ hand.last_card \in Tiles /\ hand.chu_seat \in Seats
    BY <2>1 DEF Hand, Typed
  <2>. QED
    BY <2>1, <2>2
<1> DEFINE ps == [c.pengs EXCEPT ![s] = e]
<1> HIDE DEF c, e
<1>4. /\ IsHand(q) /\ Same(q, c, {"stage", "cur", "drew", "pengs"})
      /\ q.stage = "turn" /\ q.cur = s /\ q.drew = FALSE /\ q.pengs = ps
  <2>1. q = [c EXCEPT !.stage = "turn", !.cur = s, !.drew = FALSE, !.pengs = ps] /\ IsHand(c)
    BY <1>1, <1>3 DEF Hand
  <2> HIDE DEF ps
  <2>2. IsHand(q)
    BY ONLY <2>1, FieldNames DEF IsHand
  <2>3. Same(q, c, {"stage", "cur", "drew", "pengs"})
    BY ONLY <2>1, FieldNames DEF IsHand, Same
  <2>4. q.stage = "turn" /\ q.cur = s /\ q.drew = FALSE /\ q.pengs = ps
    BY ONLY <2>1, FieldNames DEF IsHand
  <2>. QED
    BY <2>2, <2>3, <2>4
<1>5. ps \in [Seats -> SUBSET (Tiles \X Seats)]
  BY <1>3
<1> HIDE DEF ps
<1>6. Hand(q)
  <2>1. q.drew \in BOOLEAN /\ q.stage \in Playing
    BY <1>4 DEF Playing
  <2>. QED
    BY <1>3, <1>4, <1>5, <2>1 DEF Hand, Typed, Same
<1>7. /\ Same(q, hand, PlayFields)
      /\ NoOffer(q) /\ q.pao_hu_count \in {0, 1} /\ q.gang_hu_count = 0
  BY <1>2, <1>4 DEF Claimed, Same, ClaimFields, AnswerFields, OfferFields, PlayFields, NoOffer
<1>8. FirstBirds(q) /\ BirdsShown(q)
  <2>1. q.birds = c.birds /\ q.seat_birds = c.seat_birds /\ q.out = c.out /\ q.melds = c.melds
    BY <1>4 DEF Same
  <2>. QED
    BY <1>2, <2>1, SameBirds DEF Claimed, BirdsShown, Shown
<1>9. Offers(q) /\ TilesLie(q) /\ q.stage \in Playing
  BY <1>4, <1>7, <1>8 DEF Offers, TilesLie, Playing
<1>. QED
  BY <1>2, <1>6, <1>7, <1>8, <1>9, InPlay, PlaysOn

\* A gang of seat s, booked and followed by a draw.
LEMMA GangStep ==
  ASSUME NEW h, Hand(h), Open(h), NEW c, Hand(c), Same(c, h, PlayFields),
         NoOffer(c), FirstBirds(c), BirdsShown(c),
         NEW s \in Seats, NEW t, NEW item, NEW payer, NEW v, GangEntry(s, item, payer, v),
         NEW g, g = Ganged(c, s, t, item, payer, v), NEW q, q = Draw(g, s)
  PROVE  Inv(q) /\ q.stage \in Playing
<1>1. item \in GangItems /\ payer \in Seats \cup {Everyone} /\ v \in Nat
  BY SettlementAssumption DEF GangEntry, GangItems, Others
<1>3. Hand(g) /\ Same(g, c, GangFields) /\ OneMoreGang(g, c, s, item, payer, v)
  BY ONLY Hand(c), s \in Seats, g = Ganged(c, s, t, item, payer, v), <1>1, GangedFacts
<1>4. Hand(q) /\ Same(q, g, DrawFields) /\ Drawn(q, s)
  BY ONLY <1>3, s \in Seats, q = Draw(g, s), DrawFacts
<1>5. Open(c)
  BY StaysOpen
<1>6. /\ Same(q, c, PlayFields \cup {"ledger", "gangs"})
      /\ q.ledger = g.ledger /\ q.gangs = g.gangs
      /\ q.birds = c.birds /\ q.seat_birds = c.seat_birds /\ q.out = c.out /\ q.melds = c.melds
      /\ NoOffer(q)
  BY <1>3, <1>4 DEF Same, GangFields, DrawFields, PlayFields, NoOffer
<1>7. OneMoreGang(q, c, s, item, payer, v)
  BY <1>3, <1>6 DEF OneMoreGang
<1>8. FirstBirds(q) /\ TilesLie(q)
  BY <1>4, <1>6, SameBirds DEF TilesLie, BirdsShown, Shown, Drawn
<1>9. Offers(q) /\ q.stage \in Playing
  BY <1>4, <1>6 DEF Offers, Playing, Drawn
<1>. QED
  BY <1>4, <1>5, <1>6, <1>7, <1>8, <1>9, PlaysOnWithGang

LEMMA MingGangStep ==
  ASSUME Inv(hand), NEW s \in Seats, MingGang(s), NEW q, q = hand'
  PROVE  Inv(q) /\ q.stage \in Playing
<1> DEFINE c == Claim(s, "GANG", 3)
           t == hand.last_card
           p == hand.chu_seat
           v == SeatCount - 1
           g == Ganged(c, s, t, "ming_gang", p, v)
<1>1. MayClaim(s, 3) /\ q = Draw(g, s)
  BY DEF MingGang
<1>2. Claimed(c, s) /\ p \in Others(s) /\ hand.stage \in Playing
  <2>1. 3 \in Nat /\ c = Claim(s, "GANG", 3)
    OBVIOUS
  <2> DEFINE a == "GANG"
             n == 3
  <2> HIDE DEF c, a, n
  <2>2. n \in Nat /\ c = Claim(s, a, n) /\ MayClaim(s, n)
    BY <1>1, <2>1 DEF a, n
  <2>. QED
    BY ONLY Inv(hand), s \in Seats, <2>2, ClaimKeeps
<1>3. Hand(hand) /\ Open(hand)
  BY <1>2, InPlay
<1> DEFINE item == "ming_gang"
<1>4. GangEntry(s, item, p, v)
  BY <1>2 DEF GangEntry
<1>5. g = Ganged(c, s, t, item, p, v)
  OBVIOUS
<1> HIDE DEF c, g, p, v, t, item
<1>6. Hand(c) /\ Same(c, hand, PlayFields) /\ NoOffer(c) /\ FirstBirds(c) /\ BirdsShown(c)
  BY <1>2 DEF Claimed, Same, ClaimFields, AnswerFields, OfferFields, PlayFields
<1>. QED
  BY ONLY <1>1, <1>3, <1>4, <1>5, <1>6, s \in Seats, GangStep

LEMMA AnGangStep ==
  ASSUME Inv(hand), NEW s \in Seats, NEW t \in Tiles, AnGang(s, t), NEW q, q = hand'
  PROVE  Inv(q) /\ q.stage \in Playing
<1> DEFINE a == Answers(hand, s, "GANG")
           c == [a EXCEPT !.melds[s][t] = @ + 4]
           item == "an_gang"
           e == Everyone
           v == 2
           g == Ganged(c, s, t, item, e, v)
<1>1. /\ hand.stage = "turn" /\ MayHave(hand, t, 4) /\ q = Draw(g, s)
  BY DEF AnGang
<1>2. Hand(hand) /\ Open(hand) /\ NoOffer(hand) /\ FirstBirds(hand) /\ BirdsShown(hand)
  BY <1>1, InPlay DEF Inv, Offers, Playing
<1>3. Hand(a) /\ Same(a, hand, AnswerFields) /\ OfferDropped(a, hand, s)
  BY <1>2, AnswersFacts
<1> HIDE DEF a
<1>4. IsHand(c) /\ Same(c, a, {"melds"}) /\ c.melds = [a.melds EXCEPT ![s][t] = @ + 4]
  BY <1>3, FieldNames DEF Hand, IsHand, Same
<1>5. c.melds \in [Seats -> [Tiles -> Nat]]
  <2>1. a.melds \in [Seats -> [Tiles -> Nat]]
    BY <1>3 DEF Hand, Typed
  <2>2. a.melds[s][t] + 4 \in Nat
    BY <2>1
  <2>. QED
    BY <1>4, <2>1, <2>2
<1> HIDE DEF c
<1>6. Hand(c)
  BY <1>3, <1>4, <1>5 DEF Hand, Typed, Same
<1>7. /\ Same(c, hand, PlayFields) /\ c.birds = hand.birds /\ c.seat_birds = hand.seat_birds
      /\ c.out = hand.out /\ c.melds = [hand.melds EXCEPT ![s][t] = @ + 4]
      /\ NoOffer(c)
  BY <1>2, <1>3, <1>4 DEF Same, AnswerFields, OfferFields, PlayFields, OfferDropped, NoOffer
<1>8. FirstBirds(c)
  BY <1>2, <1>7, SameBirds
<1>9. BirdsShown(c)
  <2> DEFINE n == 4
  <2>1. /\ Typed(hand) /\ Typed(c) /\ n \in Nat /\ c.out = hand.out
        /\ c.melds = [hand.melds EXCEPT ![s][t] = @ + n]
    BY <1>2, <1>6, <1>7 DEF Hand
  <2>2. MayHave(hand, t, n)
    BY <1>1
  <2> HIDE DEF n
  <2>3. Adds(c, hand, t, n)
    BY ONLY <2>1, s \in Seats, t \in Tiles, GangIsSeen
  <2>. QED
    BY <1>2, <2>1, <2>2, <2>3, TilesStay
<1>10. GangEntry(s, item, e, v)
  BY DEF GangEntry
<1>11. g = Ganged(c, s, t, item, e, v)
  OBVIOUS
<1> HIDE DEF g, item, e, v
<1>. QED
  BY ONLY <1>1, <1>2, <1>6, <1>7, <1>8, <1>9, <1>10, <1>11, s \in Seats, GangStep
LEMMA PengGangStep ==
  ASSUME Inv(hand), NEW s \in Seats, NEW p \in hand.pengs[s], NEW R \in SUBSET Others(s),
         PengGang(s, p, R), NEW q, q = hand'
  PROVE  Inv(q) /\ (q.stage \in Playing \/ (q.stage = "won" /\ WinStep(q)))
<1> DEFINE t == p[1]
           a == Answers(hand, s, "GANG")
           m == [a.melds EXCEPT ![s][t] = @ + 1]
           ps == [a.pengs EXCEPT ![s] = @ \ {p}]
           b == [a EXCEPT !.melds = m, !.pengs = ps]
           item == "peng_gang"
           e == Everyone
           v == 1
           g == Ganged(b, s, t, item, e, v)
           n == Cardinality(R)
           f == g.gang_hu_flag \cup R
           r == [g EXCEPT !.stage = "rob", !.gang_hu_flag = f, !.gang_hu_seat = s,
                          !.gang_hu_count = n, !.pao_hu_count = 0]
<1>1. R \in SUBSET Seats /\ s \notin R
  BY DEF Others
<1>2. /\ n \in Nat /\ (n = 0 <=> R = {})
      /\ n = 1 => R = {CHOOSE x \in R : TRUE}
      /\ n > 1 \/ n = 1 \/ n = 0
  BY <1>1, HowManySeats
<1>3. /\ hand.stage = "turn" /\ hand.drew /\ MayHave(hand, t, 1)
      /\ n > 1 => q \in JiGameEnd(r)
      /\ n = 1 => q = [r EXCEPT !.cur = CHOOSE x \in R : TRUE]
      /\ n = 0 => q = Draw(g, s)
  BY <1>2 DEF PengGang
<1>4. /\ Hand(hand) /\ Open(hand) /\ NoOffer(hand) /\ FirstBirds(hand) /\ BirdsShown(hand)
      /\ t \in Tiles
  BY <1>3, InPlay DEF Inv, Offers, Playing, Typed
<1>5. Hand(a) /\ Same(a, hand, AnswerFields) /\ OfferDropped(a, hand, s)
  BY <1>4, AnswersFacts
<1> HIDE DEF a, t
<1>6. /\ m \in [Seats -> [Tiles -> Nat]] /\ ps \in [Seats -> SUBSET (Tiles \X Seats)]
  <2>1. a.melds \in [Seats -> [Tiles -> Nat]] /\ a.pengs \in [Seats -> SUBSET (Tiles \X Seats)]
    BY <1>5 DEF Hand, Typed
  <2>2. a.melds[s][t] + 1 \in Nat
    BY <1>4, <2>1
  <2>. QED
    BY <1>4, <2>1, <2>2
<1>7. m = [hand.melds EXCEPT ![s][t] = @ + 1]
  BY <1>5 DEF Same, AnswerFields, OfferFields
<1> HIDE DEF m, ps
<1>8. IsHand(b) /\ Same(b, a, {"melds", "pengs"}) /\ b.melds = m /\ b.pengs = ps
  BY <1>5, FieldNames DEF Hand, IsHand, Same
<1> HIDE DEF b
<1>9. Hand(b)
  BY <1>5, <1>6, <1>8 DEF Hand, Typed, Same
<1>10. /\ Same(b, hand, PlayFields) /\ b.birds = hand.birds /\ b.seat_birds = hand.seat_birds
       /\ b.out = hand.out /\ b.melds = [hand.melds EXCEPT ![s][t] = @ + 1] /\ NoOffer(b)
  BY <1>4, <1>5, <1>7, <1>8 DEF Same, AnswerFields, OfferFields, PlayFields, OfferDropped, NoOffer
<1>11. FirstBirds(b)
  BY <1>4, <1>10, SameBirds
<1>12. BirdsShown(b)
  <2> DEFINE k == 1
  <2>1. /\ Typed(hand) /\ Typed(b) /\ k \in Nat /\ b.out = hand.out
        /\ b.melds = [hand.melds EXCEPT ![s][t] = @ + k]
    BY <1>4, <1>9, <1>10 DEF Hand
  <2>2. MayHave(hand, t, k)
    BY <1>3
  <2> HIDE DEF k
  <2>3. Adds(b, hand, t, k)
    BY ONLY <1>4, <2>1, s \in Seats, GangIsSeen
  <2>. QED
    BY <1>4, <2>1, <2>2, <2>3, TilesStay
<1>13. GangEntry(s, item, e, v) /\ item \in GangItems /\ e \in Seats \cup {Everyone} /\ v \in Nat
  BY DEF GangEntry, GangItems
<1>14. g = Ganged(b, s, t, item, e, v)
  OBVIOUS
<1> HIDE DEF g, item, e, v, n, f, r
<1>15. CASE n = 0
  <2>1. q = Draw(g, s)
    BY <1>3, <1>15
  <2>. QED
    BY ONLY <1>4, <1>9, <1>10, <1>11, <1>12, <1>13, <1>14, <2>1, s \in Seats, GangStep
<1>16. Hand(g) /\ Same(g, b, GangFields) /\ OneMoreGang(g, b, s, item, e, v)
  BY ONLY <1>9, <1>13, <1>14, s \in Seats, GangedFacts
<1>17. f = R
  BY <1>10, <1>16 DEF f, Same, GangFields, NoOffer
<1> DEFINE F == {"stage", "gang_hu_flag", "gang_hu_seat", "gang_hu_count", "pao_hu_count"}
<1>18. /\ IsHand(r) /\ Same(r, g, F) /\ r.stage = "rob" /\ r.gang_hu_flag = R
       /\ r.gang_hu_seat = s /\ r.gang_hu_count = n /\ r.pao_hu_count = 0
  <2>1. IsHand(g)
    BY <1>16 DEF Hand
  <2>2. r = [g EXCEPT !.stage = "rob", !.gang_hu_flag = f, !.gang_hu_seat = s,
                      !.gang_hu_count = n, !.pao_hu_count = 0]
    BY DEF r
  <2>3. IsHand(r)
    BY ONLY <2>1, <2>2, FieldNames DEF IsHand
  <2>4. Same(r, g, F)
    BY ONLY <2>1, <2>2, FieldNames DEF IsHand, Same
  <2>5. /\ r.stage = "rob" /\ r.gang_hu_flag = f /\ r.gang_hu_seat = s
        /\ r.gang_hu_count = n /\ r.pao_hu_count = 0
    BY ONLY <2>1, <2>2, FieldNames DEF IsHand
  <2>. QED
    BY <1>17, <2>3, <2>4, <2>5
<1>19. Hand(r)
  <2>1. /\ r.gang_hu_flag \in SUBSET Seats /\ r.gang_hu_seat \in Seats
        /\ r.gang_hu_count \in Nat /\ r.pao_hu_count \in Nat /\ r.stage \in Playing
    BY <1>1, <1>2, <1>18 DEF Playing
  <2>. QED
    BY <1>16, <1>18, <2>1 DEF Hand, Typed, Same
<1>20. /\ Same(r, b, PlayFields \cup {"ledger", "gangs"})
       /\ r.ledger = g.ledger /\ r.gangs = g.gangs
       /\ r.birds = b.birds /\ r.seat_birds = b.seat_birds /\ r.out = b.out /\ r.melds = b.melds
       /\ r.pao_hu_flag = {} /\ r.pao_hu_seat = Nowhere
  BY <1>10, <1>16, <1>18 DEF Same, GangFields, PlayFields, NoOffer
<1>21. Open(b) /\ OneMoreGang(r, b, s, item, e, v)
  BY <1>4, <1>10, <1>16, <1>20, StaysOpen DEF OneMoreGang
<1>22. FirstBirds(r) /\ BirdsShown(r)
  BY <1>11, <1>12, <1>20, SameBirds DEF BirdsShown, Shown
<1>23. Robbing(r) \/ n = 0
  BY <1>1, <1>2, <1>18, <1>20 DEF Robbing, n
<1>24. CASE n = 1
  <2> DEFINE w == CHOOSE x \in R : TRUE
  <2>1. q = [r EXCEPT !.cur = w] /\ R = {w} /\ w \in Seats
    BY <1>1, <1>2, <1>3, <1>24
  <2> HIDE DEF w
  <2>2. IsHand(q) /\ Same(q, r, {"cur"}) /\ q.cur = w
    BY <1>19, <2>1, FieldNames DEF Hand, IsHand, Same
  <2>3. Hand(q)
    BY <1>19, <2>1, <2>2 DEF Hand, Typed, Same
  <2>4. /\ Same(q, b, PlayFields \cup {"ledger", "gangs"})
        /\ q.ledger = r.ledger /\ q.gangs = r.gangs /\ q.stage = "rob"
        /\ q.birds = r.birds /\ q.seat_birds = r.seat_birds /\ q.out = r.out /\ q.melds = r.melds
    BY <1>18, <1>20, <2>2 DEF Same, PlayFields
  <2>5. FirstBirds(q) /\ TilesLie(q)
    BY <1>22, <2>4, SameBirds DEF TilesLie, BirdsShown, Shown
  <2>6. Robbing(q) /\ q.gang_hu_flag = {q.cur} /\ q.gang_hu_count = 1
    BY <1>18, <1>23, <1>24, <2>1, <2>2 DEF Same, Robbing
  <2>7. Offers(q) /\ q.stage \in Playing
    BY <2>4, <2>6 DEF Offers, Playing
  <2>8. OneMoreGang(q, b, s, item, e, v)
    BY <1>21, <2>4 DEF OneMoreGang
  <2>9. Inv(q)
    BY ONLY <1>9, <1>13, <1>21, <2>3, <2>4, <2>5, <2>7, <2>8, s \in Seats, PlaysOnWithGang
  <2>. QED
    BY <2>7, <2>9
<1>25. CASE n > 1
  <2>1. q \in JiGameEnd(r)
    BY <1>3, <1>25
  <2>2. Open(r)
    <3>1. Typed(b) /\ Typed(r)
      BY <1>9, <1>19 DEF Hand
    <3>. QED
      BY ONLY <1>13, <1>20, <1>21, <3>1, s \in Seats, StaysOpenWithGang
  <2>3. Won(r)
    BY <1>2, <1>18, <1>23, <1>25, <2>2 DEF Won, Open
  <2>4. Decided(r)
    BY <1>19, <1>22, <2>2, <2>3 DEF Decided, Open, Unflagged, NoBirdsNoBeans
  <2>. QED
    BY <2>1, <2>4, DecidedIsWon
<1>. QED
  BY <1>2, <1>15, <1>24, <1>25

LEMMA HuStep ==
  ASSUME Inv(hand), Hu, NEW q, q = hand'
  PROVE  Inv(q) /\ q.stage = "won" /\ WinStep(q)
<1> DEFINE a == Acted(hand, hand.cur, "HU")
           h == [a EXCEPT !.win_seatid = hand.cur]
           re == ~ NobodyPays(h) /\ h.last_actions[h.chu_seat] = <<"CHU", "GANG">>
           qiang == h.gang_hu_seat # Nowhere
           g == [h EXCEPT !.is_re_pao = re, !.is_qiang_gang = qiang]
<1>1. /\ hand.stage \in {"offer", "rob"} \/ (hand.stage = "turn" /\ hand.drew)
      /\ q \in JiGameEnd(g)
  BY DEF Hu
<1>2. Hand(hand) /\ Open(hand) /\ FirstBirds(hand) /\ BirdsShown(hand) /\ hand.cur \in Seats
  BY <1>1, InPlay DEF Playing, Typed
<1>3. Hand(a) /\ Same(a, hand, {"last_actions"})
  BY <1>2, ActedFacts
<1> HIDE DEF a
<1>4. IsHand(h) /\ Same(h, a, {"win_seatid"}) /\ h.win_seatid = hand.cur
  BY <1>3, FieldNames DEF Hand, IsHand, Same
<1> HIDE DEF h
<1>5. Hand(h)
  BY <1>2, <1>3, <1>4 DEF Hand, Typed, Same
<1>6. /\ re \in BOOLEAN /\ qiang \in BOOLEAN
      /\ re <=> ~ NobodyPays(h) /\ h.last_actions[h.chu_seat] = <<"CHU", "GANG">>
      /\ qiang <=> h.gang_hu_seat # Nowhere
  OBVIOUS
<1> HIDE DEF re, qiang
<1>7. /\ IsHand(g) /\ Same(g, h, {"is_re_pao", "is_qiang_gang"})
      /\ g.is_re_pao = re /\ g.is_qiang_gang = qiang
  <2>1. g = [h EXCEPT !.is_re_pao = re, !.is_qiang_gang = qiang] /\ IsHand(h)
    BY <1>5 DEF Hand
  <2> HIDE DEF g
  <2>2. IsHand(g)
    BY ONLY <2>1, FieldNames DEF IsHand
  <2>3. Same(g, h, {"is_re_pao", "is_qiang_gang"})
    BY ONLY <2>1, FieldNames DEF IsHand, Same
  <2>4. g.is_re_pao = re /\ g.is_qiang_gang = qiang
    BY ONLY <2>1, FieldNames DEF IsHand
  <2>. QED
    BY <2>2, <2>3, <2>4
<1> HIDE DEF g
<1>8. Hand(g)
  <2>1. g.is_re_pao \in BOOLEAN /\ g.is_qiang_gang \in BOOLEAN
    BY <1>6, <1>7
  <2>. QED
    BY <1>5, <1>7, <2>1 DEF Hand, Typed, Same
<1>9. /\ Same(g, hand, {"last_actions", "win_seatid", "is_re_pao", "is_qiang_gang"})
      /\ g.win_seatid = hand.cur
      /\ g.last_actions = h.last_actions /\ g.chu_seat = h.chu_seat
      /\ h.pao_hu_seat = g.pao_hu_seat /\ h.gang_hu_seat = g.gang_hu_seat
  BY <1>3, <1>4, <1>7 DEF Same
<1>10. /\ g.birds = hand.birds /\ g.seat_birds = hand.seat_birds /\ g.out = hand.out /\ g.melds = hand.melds
       /\ g.ledger = hand.ledger /\ g.gangs = hand.gangs
       /\ Unsettled(g) /\ Unpaid(g) /\ ~ g.is_huang_zhuang
  BY <1>2, <1>9 DEF Same, Open, Unsettled, Unpaid, Unflagged
<1>11. FirstBirds(g) /\ BirdsShown(g) /\ GangsBooked(g)
  BY <1>2, <1>10, SameBirds DEF BirdsShown, Shown, Open, GangsBooked, GangBooked, MingGangs
<1>12. /\ g.pao_hu_flag = hand.pao_hu_flag /\ g.pao_hu_seat = hand.pao_hu_seat
       /\ g.pao_hu_count = hand.pao_hu_count /\ g.gang_hu_flag = hand.gang_hu_flag
       /\ g.gang_hu_seat = hand.gang_hu_seat /\ g.gang_hu_count = hand.gang_hu_count
       /\ g.chu_seat = hand.chu_seat
  BY <1>9 DEF Same
<1>13. \/ Fed(g) /\ g.pao_hu_flag = {g.win_seatid} /\ g.pao_hu_count = 1 /\ g.chu_seat \in Seats
       \/ Robbing(g) /\ g.gang_hu_flag = {g.win_seatid} /\ g.gang_hu_count = 1
       \/ Quiet(g) /\ g.win_seatid # Nowhere
  <2>1. hand.chu_seat \in Seats /\ hand.cur # Nowhere
    BY <1>2, NobodyIsSeated DEF Hand, Typed
  <2>2. CASE hand.stage = "offer"
    BY <1>9, <1>12, <2>1, <2>2 DEF Inv, Offers, Fed
  <2>3. CASE hand.stage = "rob"
    BY <1>9, <1>12, <2>3 DEF Inv, Offers, Robbing
  <2>4. CASE hand.stage = "turn" /\ hand.drew
    BY <1>9, <1>12, <2>1, <2>4 DEF Inv, Offers, Quiet, NoOffer
  <2>. QED
    BY <1>1, <2>2, <2>3, <2>4
<1>14. Won(g)
  BY <1>13 DEF Won
<1>15. NoBirdsNoBeans(g) <=> re \/ qiang
  BY <1>7 DEF NoBirdsNoBeans
<1>16. NoBirdsNoBeans(g) <=> g.win_seatid # Nowhere /\ (HotWin(g) \/ g.gang_hu_count > 0)
  <2>1. g.win_seatid # Nowhere
    BY <1>2, <1>9, NobodyIsSeated
  <2>2. /\ re <=> ~ NobodyPays(g) /\ g.last_actions[g.chu_seat] = <<"CHU", "GANG">>
        /\ qiang <=> g.gang_hu_seat # Nowhere
    BY <1>6, <1>9 DEF NobodyPays
  <2>. QED
    BY <1>13, <1>15, <2>1, <2>2, NobodyIsSeated DEF HotWin, NobodyPays, Fed, Robbing, Quiet, NoOffer
<1>17. Decided(g)
  BY <1>8, <1>10, <1>11, <1>14, <1>16 DEF Decided
<1>. QED
  BY <1>1, <1>17, DecidedIsWon
-----------------------------------------------------------------------------
(* The ends of a hand, and what lies between two.                          *)

\* The tiles have run out.
DrawStep(q) ==
  \E h, rv, g : /\ Hand(h) /\ Quiet(h) /\ h.win_seatid = Nowhere /\ Unpaid(h)
                /\ h.stage \in {"claim", "next"} /\ h.discarded = Seats
                /\ q.stage = "ended" /\ Same(q, h, EndFields \cup Money(h)) /\ Counts(q.tally, h)
                /\ DrawnWith(q, h, rv, g)
                /\ \A s \in Seats : q.moved[s] = h.moved[s] + q.bet[s]

\* The displayed win is paid.
ShowStep(h, q) ==
  /\ h.stage = "won" /\ q.stage = "ended" /\ Same(q, h, EndFields) /\ Counts(q.tally, h)
  /\ \A s \in Seats : q.moved[s] = h.moved[s] + q.bet[s]

\* A vote ends the round; what it settles, if anything, is a hand nobody won.
CloseStep(q) ==
  /\ q.stage = "closed" /\ Quiet(q) /\ ~ q.settled
  /\ \/ q.bet = Zeros /\ \A s \in Seats : q.moved[s] = 0
     \/ \E g, rv : /\ Hand(g) /\ rv.types \in CardTypes
                   /\ \A s \in Seats : /\ q.bet[s] = JiaoIn(g, rv, s) - JiaoOut(g, rv, s)
                                       /\ q.moved[s] = q.bet[s]

IdleStep(q) == q.stage = "idle" /\ ~ q.settled /\ q.bet = Zeros /\ q.moved = Zeros

LEMMA EndedKeeps ==
  ASSUME NEW h, NEW q, Hand(q), q.stage = "ended", q.settled,
         FirstBirds(h), BirdsShown(h), Same(q, h, EndFields \cup Money(h) \cup {"is_huang_zhuang"})
  PROVE  Inv(q)
<1>1. q.birds = h.birds /\ q.seat_birds = h.seat_birds /\ q.out = h.out /\ q.melds = h.melds
  BY DEF Same, EndFields, Money, SettleFields
<1>2. FirstBirds(q) /\ BirdsShown(q)
  BY <1>1, SameBirds DEF BirdsShown, Shown
<1>. QED
  BY <1>2 DEF Inv, Offers, Course, TilesLie, Playing

LEMMA JiCardTimerStep ==
  ASSUME Inv(hand), JiCardTimer, NEW q, q = hand'
  PROVE  Inv(q) /\ ShowStep(hand, q)
<1>1. hand.stage = "won" /\ q \in GameEnd(hand)
  BY DEF JiCardTimer
<1>2. Hand(hand) /\ hand.settled /\ FirstBirds(hand) /\ BirdsShown(hand)
  BY <1>1, InPlay DEF Inv, Course
<1> DEFINE C == /\ Hand(q) /\ q.stage = "ended" /\ q.settled /\ Counts(q.tally, hand)
                /\ \A s \in Seats : q.moved[s] = hand.moved[s] + q.bet[s]
                /\ Same(q, hand, EndFields)
<1>3. C
  BY <1>1, <1>2, GameEndFacts
<1>4. Same(q, hand, EndFields \cup Money(hand) \cup {"is_huang_zhuang"})
  BY <1>3 DEF Same, EndFields, Money, SettleFields
<1>. QED
  BY <1>1, <1>2, <1>3, <1>4, EndedKeeps DEF ShowStep

LEMMA FewAreOffered ==
  ASSUME NEW h, Inv(h), h.stage \in Playing
  PROVE  h.pao_hu_count < 2 /\ h.gang_hu_count < 2
BY DEF Inv, Offers, Playing, Quiet, Fed, Robbing

LEMMA HuangZhuangStep ==
  ASSUME Inv(hand), HuangZhuang, NEW q, q = hand'
  PROVE  Inv(q) /\ DrawStep(q)
<1> DEFINE h == [hand EXCEPT !.is_huang_zhuang = TRUE]
<1>1. hand.stage \in {"claim", "next"} /\ hand.discarded = Seats /\ q \in GameEnd(h)
  BY DEF HuangZhuang
<1>2. /\ Hand(hand) /\ Open(hand) /\ FirstBirds(hand) /\ BirdsShown(hand) /\ Quiet(hand)
  BY <1>1, InPlay DEF Playing, Inv, Offers
<1>3. IsHand(h) /\ Same(h, hand, {"is_huang_zhuang"}) /\ h.is_huang_zhuang
  BY <1>2, FieldNames DEF Hand, IsHand, Same
<1>4. h.is_huang_zhuang \in BOOLEAN
  BY <1>2, FieldNames DEF Hand, IsHand
<1> HIDE DEF h
<1>5. Hand(h)
  BY <1>2, <1>3, <1>4 DEF Hand, Typed, Same
<1>6. /\ Unsettled(h) /\ h.win_seatid = Nowhere /\ Quiet(h) /\ Unpaid(h)
      /\ h.stage = hand.stage /\ h.discarded = hand.discarded
  BY <1>2, <1>3 DEF Same, Open, Unsettled, Quiet, NoOffer, Unpaid
<1>7. ~ h.settled /\ h.pao_hu_count < 2 /\ h.gang_hu_count < 2
  BY <1>6 DEF Unsettled, Quiet
<1>8. /\ Hand(q) /\ q.stage = "ended" /\ q.settled /\ Counts(q.tally, h)
      /\ \A s \in Seats : q.moved[s] = h.moved[s] + q.bet[s]
      /\ Same(q, h, EndFields \cup Money(h))
      /\ \E rv, g : DrawnWith(q, h, rv, g)
  BY <1>1, <1>5, <1>6, <1>7, GameEndFacts
<1>9. DrawStep(q)
  BY <1>1, <1>5, <1>6, <1>8 DEF DrawStep
<1>10. FirstBirds(h) /\ BirdsShown(h) /\ Same(q, h, EndFields \cup Money(h) \cup {"is_huang_zhuang"})
  <2>1. h.birds = hand.birds /\ h.seat_birds = hand.seat_birds /\ h.out = hand.out /\ h.melds = hand.melds
    BY <1>3 DEF Same
  <2>2. Same(q, h, EndFields \cup Money(h) \cup {"is_huang_zhuang"})
    BY <1>8 DEF Same, EndFields, Money, SettleFields
  <2>. QED
    BY <1>2, <2>1, <2>2, SameBirds DEF BirdsShown, Shown
<1>11. Inv(q)
  BY <1>8, <1>10, EndedKeeps
<1>. QED
  BY <1>9, <1>11

LEMMA NothingIsShown ==
  ASSUME NEW q, q.out = [s \in Seats |-> [t \in Tiles |-> 0]],
         q.melds = [s \in Seats |-> [t \in Tiles |-> 0]]
  PROVE  BirdsShown(q)
<1> SUFFICES ASSUME NEW b \in BirdTiles PROVE Shown(q, b) \in 0 .. 4
  BY DEF BirdsShown
<1>1. \A s \in Seats : Seen(q, b)[s] = 0
  BY BirdsAreTiles DEF Seen
<1>2. SumOn(Seen(q, b), Seats) = 0
  BY <1>1, SeatsAreFinite, SumOfZeros
<1>3. Shown(q, b) = SumOn(Seen(q, b), Seats)
  BY SumIsSumOn DEF Shown, Seen
<1>. QED
  BY <1>2, <1>3

LEMMA NobodyHasBirds ==
  ASSUME NEW q, q.birds = NoBirds, q.seat_birds = [s \in Seats |-> NoBirds]
  PROVE  FirstBirds(q)
<1>1. \A b \in BirdTiles : ~ NoBirds[b].chong /\ NoBirds[b].ze_ren = 0
  BY DEF NoBirds, BirdTiles
<1>. QED
  BY <1>1 DEF FirstBirds, FirstBird, Owns

LEMMA ClearedIsFresh ==
  ASSUME NEW q, NEW o, Hand(q), Cleared(q, o)
  PROVE  Inv(q) /\ Fresh(q) /\ IdleStep(q)
<1>1. FirstBirds(q) /\ BirdsShown(q)
  BY NothingIsShown, NobodyHasBirds DEF Cleared
<1>2. GangsBooked(q) /\ GangLedger(q.ledger)
  BY NoGangs DEF Cleared
<1>3. Fresh(q) /\ IdleStep(q)
  BY <1>2 DEF Cleared, Fresh, Open, Unsettled, Unflagged, Unpaid, Quiet, NoOffer, IdleStep
<1>4. Offers(q) /\ Course(q) /\ TilesLie(q)
  BY <1>1, <1>3 DEF Cleared, Offers, Course, TilesLie, Playing
<1>. QED
  BY <1>1, <1>3, <1>4 DEF Inv

LEMMA CreateStep ==
  ASSUME NEW o \in Options, Create(o), NEW q, q = hand'
  PROVE  Inv(q) /\ IdleStep(q)
<1>1. q = Between(o)
  BY DEF Create
<1>2. Hand(q) /\ Cleared(q, o)
  BY <1>1, BetweenFacts
<1>. QED
  BY <1>2, ClearedIsFresh

LEMMA PrereadyStep ==
  ASSUME Inv(hand), Preready, NEW q, q = hand'
  PROVE  Inv(q) /\ IdleStep(q)
<1> DEFINE b == Between(hand.options)
           x == hand.pao_hu_seat
           y == hand.gang_hu_seat
<1>1. q = [b EXCEPT !.pao_hu_seat = x, !.gang_hu_seat = y]
  BY DEF Preready
<1>2. hand.options \in Options /\ x \in Seats \cup {Nowhere} /\ y \in Seats \cup {Nowhere}
  BY InPlay DEF Typed
<1>3. Hand(b) /\ Cleared(b, hand.options)
  BY <1>2, BetweenFacts
<1> HIDE DEF b, x, y
<1>4. Inv(b) /\ Fresh(b)
  BY <1>3, ClearedIsFresh
<1>5. /\ IsHand(q) /\ Same(q, b, {"pao_hu_seat", "gang_hu_seat"})
      /\ q.pao_hu_seat = x /\ q.gang_hu_seat = y
  <2>1. IsHand(b)
    BY <1>3 DEF Hand
  <2>2. IsHand(q)
    BY ONLY <1>1, <2>1, FieldNames DEF IsHand
  <2>3. Same(q, b, {"pao_hu_seat", "gang_hu_seat"})
    BY ONLY <1>1, <2>1, FieldNames DEF IsHand, Same
  <2>4. q.pao_hu_seat = x /\ q.gang_hu_seat = y
    BY ONLY <1>1, <2>1, FieldNames DEF IsHand
  <2>. QED
    BY <2>2, <2>3, <2>4
<1>6. Hand(q)
  BY <1>2, <1>3, <1>5 DEF Hand, Typed, Same
<1>7. /\ q.stage = "idle" /\ q.birds = NoBirds /\ q.seat_birds = [s \in Seats |-> NoBirds]
      /\ q.out = b.out /\ q.melds = b.melds
      /\ Same(q, b, PlayFields)
  BY <1>3, <1>5 DEF Same, Cleared, PlayFields
<1>8. FirstBirds(q) /\ BirdsShown(q)
  BY <1>4, <1>7, NobodyHasBirds DEF Inv, TilesLie, BirdsShown, Shown
<1>9. Open(q)
  BY <1>4, <1>7, StaysOpen DEF Fresh
<1>10. Fresh(q)
  BY <1>4, <1>5, <1>9 DEF Same, Fresh
<1>11. Inv(q)
  BY <1>6, <1>7, <1>8, <1>10 DEF Inv, Offers, Course, TilesLie, Playing
<1>12. IdleStep(q)
  BY <1>7, <1>9 DEF IdleStep, Open, Unsettled, Unpaid
<1>. QED
  BY <1>11, <1>12
LEMMA VoteStep ==
  ASSUME Inv(hand), Vote, NEW q, q = hand'
  PROVE  Inv(q) /\ CloseStep(q)
<1> DEFINE z == [hand EXCEPT !.bet = Zeros, !.moved = Zeros]
           b == Between(hand.options)
<1>1. /\ hand.stage # "closed"
      /\ \E h \in IF hand.stage \in {"idle", "ended"} THEN {AccumulateHu(z)} ELSE GameEnd(z) :
           q = [b EXCEPT !.stage = "closed", !.bet = h.bet, !.moved = h.moved, !.tally = h.tally]
  BY DEF Vote
<1>2. PICK h \in IF hand.stage \in {"idle", "ended"} THEN {AccumulateHu(z)} ELSE GameEnd(z) :
           q = [b EXCEPT !.stage = "closed", !.bet = h.bet, !.moved = h.moved, !.tally = h.tally]
  BY <1>1
<1>3. Hand(hand) /\ Typed(hand) /\ hand.options \in Options
  BY InPlay DEF Typed
<1>4. IsHand(z) /\ Same(z, hand, {"bet", "moved"}) /\ z.bet = Zeros /\ z.moved = Zeros
  <2>1. IsHand(hand)
    BY <1>3 DEF Hand
  <2> DEFINE o == Zeros
  <2>2. z = [hand EXCEPT !.bet = o, !.moved = o]
    OBVIOUS
  <2> HIDE DEF o, z
  <2>3. IsHand(z)
    BY ONLY <2>1, <2>2, FieldNames DEF IsHand
  <2>4. Same(z, hand, {"bet", "moved"})
    BY ONLY <2>1, <2>2, FieldNames DEF IsHand, Same
  <2>5. z.bet = o /\ z.moved = o
    BY ONLY <2>1, <2>2, FieldNames DEF IsHand
  <2>. QED
    BY <2>3, <2>4, <2>5 DEF o
<1> HIDE DEF z
<1>5. Hand(z) /\ \A s \in Seats : z.moved[s] = 0 /\ z.bet[s] = 0
  <2>1. Zeros \in [Seats -> Int] /\ \A s \in Seats : Zeros[s] = 0
    BY DEF Zeros
  <2>. QED
    BY <1>3, <1>4, <2>1 DEF Typed, Hand, Same
<1> DEFINE Paid(x) == \/ x.bet = Zeros /\ \A s \in Seats : x.moved[s] = 0
                      \/ \E g, rv : /\ Hand(g) /\ rv.types \in CardTypes
                                    /\ \A s \in Seats : /\ x.bet[s] = JiaoIn(g, rv, s) - JiaoOut(g, rv, s)
                                                        /\ x.moved[s] = x.bet[s]
<1>6. Hand(h) /\ Paid(h)
  <2>1. CASE hand.stage \in {"idle", "ended"}
    <3>1. h = AccumulateHu(z)
      BY <2>1
    <3>2. Hand(h) /\ Same(h, z, {"tally"})
      BY <1>5, <3>1, AccumulateHuFacts
    <3>3. h.bet = Zeros /\ h.moved = z.moved
      BY <1>4, <3>2 DEF Same
    <3>. QED
      BY <1>5, <3>2, <3>3
  <2>2. CASE hand.stage = "won"
    <3>1. h \in GameEnd(z) /\ z.settled
      BY <1>4, <2>2 DEF Same, Inv, Course
    <3> DEFINE C == /\ Hand(h) /\ h.stage = "ended" /\ h.settled /\ Counts(h.tally, z)
                    /\ \A s \in Seats : h.moved[s] = z.moved[s] + h.bet[s]
                    /\ Same(h, z, EndFields)
    <3>2. C
      BY <1>5, <3>1, GameEndFacts
    <3>3. h.bet = Zeros
      BY <1>4, <3>2 DEF Same, EndFields
    <3>4. \A s \in Seats : h.moved[s] = 0
      BY <1>4, <1>5, <3>2, <3>3
    <3>. QED
      BY <3>2, <3>3, <3>4
  <2>3. CASE hand.stage \in Playing
    <3>1. h \in GameEnd(z)
      BY <2>3 DEF Playing
    <3>2. Unsettled(z) /\ z.win_seatid = Nowhere /\ ~ z.settled
      BY <1>4, <2>3 DEF Same, Inv, Course, Open, Unsettled
    <3>3. z.pao_hu_count < 2 /\ z.gang_hu_count < 2
      BY <1>4, <2>3, FewAreOffered DEF Same
    <3> DEFINE C == /\ Hand(h) /\ h.stage = "ended" /\ h.settled /\ Counts(h.tally, z)
                    /\ \A s \in Seats : h.moved[s] = z.moved[s] + h.bet[s]
                    /\ \E rv, g : DrawnWith(h, z, rv, g)
    <3>4. C
      BY <1>5, <3>1, <3>2, <3>3, GameEndFacts
    <3>5. PICK rv, g : DrawnWith(h, z, rv, g)
      BY <3>4
    <3>6. Hand(g)
      BY <3>5 DEF DrawnWith
    <3>7. \A s \in Seats : h.bet[s] \in Int /\ h.moved[s] = h.bet[s]
      BY <1>5, <3>4 DEF Hand, Typed
    <3>. QED
      BY <3>4, <3>5, <3>6, <3>7 DEF DrawnWith, SettledDraw
  <2>. QED
    BY <1>1, <1>3, <2>1, <2>2, <2>3 DEF Typed
<1>7. Hand(b) /\ Cleared(b, hand.options)
  BY <1>3, BetweenFacts
<1> HIDE DEF b
<1>8. Inv(b)
  BY <1>7, ClearedIsFresh
<1>9. /\ IsHand(q) /\ Same(q, b, {"stage", "bet", "moved", "tally"})
      /\ q.stage = "closed" /\ q.bet = h.bet /\ q.moved = h.moved /\ q.tally = h.tally
  <2>1. IsHand(b)
    BY <1>7 DEF Hand
  <2> DEFINE u == h.bet
             v == h.moved
             w == h.tally
  <2>2. q = [b EXCEPT !.stage = "closed", !.bet = u, !.moved = v, !.tally = w]
    BY <1>2
  <2> HIDE DEF u, v, w
  <2>3. IsHand(q)
    BY ONLY <2>1, <2>2, FieldNames DEF IsHand
  <2>4. Same(q, b, {"stage", "bet", "moved", "tally"})
    BY ONLY <2>1, <2>2, FieldNames DEF IsHand, Same
  <2>5. q.stage = "closed" /\ q.bet = u /\ q.moved = v /\ q.tally = w
    BY ONLY <2>1, <2>2, FieldNames DEF IsHand
  <2>. QED
    BY <2>3, <2>4, <2>5 DEF u, v, w
<1>10. Hand(q)
  BY <1>6, <1>7, <1>9 DEF Hand, Typed, Same
<1>11. CloseStep(q)
  <2>1. Quiet(q) /\ ~ q.settled
    BY <1>7, <1>9 DEF Same, Cleared, Quiet, NoOffer
  <2>. QED
    BY <1>6, <1>9, <2>1 DEF CloseStep
<1>12. q.birds = b.birds /\ q.seat_birds = b.seat_birds /\ q.out = b.out /\ q.melds = b.melds
  BY <1>9 DEF Same
<1>13. FirstBirds(q) /\ TilesLie(q) /\ Offers(q) /\ Course(q)
  BY <1>8, <1>9, <1>12, SameBirds DEF Inv, TilesLie, BirdsShown, Shown, Offers, Course, Playing
<1>. QED
  BY <1>10, <1>11, <1>13 DEF Inv

-----------------------------------------------------------------------------
(* The invariant, and every kind of step.                                  *)

Kinds(h, q) ==
  \/ q.stage \in Playing
  \/ q.stage = "won" /\ WinStep(q)
  \/ DrawStep(q) /\ h.stage # "won"
  \/ ShowStep(h, q) \/ CloseStep(q) \/ IdleStep(q)

LEMMA EveryStep ==
  ASSUME Inv(hand), Next
  PROVE  Inv(hand') /\ Kinds(hand, hand')
<1>1. ASSUME NEW d \in Dealers, NEW cnt \in Streaks, GameStart(d, cnt)
      PROVE  Inv(hand') /\ Kinds(hand, hand')
  BY <1>1, GameStartStep DEF Kinds
<1>2. ASSUME NEW s \in Seats, NEW t \in Tiles, NEW W \in SUBSET Others(s), Chu(s, t, W)
      PROVE  Inv(hand') /\ Kinds(hand, hand')
  BY <1>2, ChuStep DEF Kinds
<1>3. ASSUME NEW s \in Seats, NEW t \in Tiles, BaoTing(s, t)
      PROVE  Inv(hand') /\ Kinds(hand, hand')
  BY <1>3, BaoTingStep DEF Kinds
<1>4. ASSUME NEW s \in Seats, NEW t \in Tiles, AnGang(s, t)
      PROVE  Inv(hand') /\ Kinds(hand, hand')
  BY <1>4, AnGangStep DEF Kinds
<1>5. ASSUME NEW s \in Seats, Peng(s) PROVE Inv(hand') /\ Kinds(hand, hand')
  BY <1>5, PengStep DEF Kinds
<1>6. ASSUME NEW s \in Seats, MingGang(s) PROVE Inv(hand') /\ Kinds(hand, hand')
  BY <1>6, MingGangStep DEF Kinds
<1>7. ASSUME NEW s \in Seats, NEW p \in hand.pengs[s], NEW R \in SUBSET Others(s), PengGang(s, p, R)
      PROVE  Inv(hand') /\ Kinds(hand, hand')
  BY <1>7, PengGangStep DEF Kinds
<1>8. CASE Guo
  BY <1>8, GuoStep DEF Kinds
<1>9. CASE Hu
  BY <1>9, HuStep DEF Kinds
<1>10. CASE NextSeat
  BY <1>10, NextSeatStep DEF Kinds
<1>11. CASE HuangZhuang
  BY <1>11, HuangZhuangStep DEF Kinds, HuangZhuang
<1>12. CASE JiCardTimer
  BY <1>12, JiCardTimerStep DEF Kinds
<1>13. CASE Preready
  BY <1>13, PrereadyStep DEF Kinds
<1>14. CASE Vote
  BY <1>14, VoteStep DEF Kinds
<1>15. ASSUME NEW o \in Options, Create(o) PROVE Inv(hand') /\ Kinds(hand, hand')
  BY <1>15, CreateStep DEF Kinds
<1>. QED
  BY <1>1, <1>2, <1>3, <1>4, <1>5, <1>6, <1>7, <1>8, <1>9, <1>10, <1>11, <1>12, <1>13, <1>14, <1>15 DEF Next

\* How the hand on the table came to be settled.
History(h) ==
  /\ h.stage = "won" => WinStep(h)
  /\ h.stage = "ended" => DrawStep(h) \/ \E g : Inv(g) /\ WinStep(g) /\ ShowStep(g, h)
  /\ h.stage = "closed" => CloseStep(h)
  /\ h.stage = "idle" => IdleStep(h)

SettlementInv == Inv(hand) /\ History(hand)

LEMMA Starts == Init => SettlementInv
<1> SUFFICES ASSUME NEW o \in Options, hand = Between(o) PROVE SettlementInv
  BY DEF Init
<1>1. Hand(hand) /\ Cleared(hand, o)
  BY BetweenFacts
<1>2. Inv(hand) /\ IdleStep(hand)
  BY <1>1, ClearedIsFresh
<1>. QED
  BY <1>2 DEF SettlementInv, History, IdleStep

LEMMA Continues == SettlementInv /\ [Next]_hand => SettlementInv'
<1> SUFFICES ASSUME SettlementInv, [Next]_hand PROVE SettlementInv'
  OBVIOUS
<1>1. CASE Next
  <2>1. Inv(hand') /\ Kinds(hand, hand')
    BY <1>1, EveryStep DEF SettlementInv
  <2> DEFINE q == hand'
  <2>2. Inv(q) /\ Kinds(hand, q) /\ Inv(hand) /\ History(hand)
    BY <2>1 DEF SettlementInv
  <2> HIDE DEF q
  <2>3. History(q)
    <3>1. CASE q.stage \in Playing
      BY <3>1 DEF History, Playing
    <3>2. CASE q.stage = "won" /\ WinStep(q)
      BY <3>2 DEF History
    <3>3. CASE DrawStep(q)
      <4>1. q.stage = "ended"
        BY <3>3 DEF DrawStep
      <4>. QED
        BY <3>3, <4>1 DEF History
    <3>4. CASE ShowStep(hand, q)
      <4>1. q.stage = "ended" /\ WinStep(hand)
        BY <2>2, <3>4 DEF ShowStep, History
      <4>. QED
        BY <2>2, <3>4, <4>1 DEF History
    <3>5. CASE CloseStep(q)
      BY <3>5 DEF History, CloseStep
    <3>6. CASE IdleStep(q)
      BY <3>6 DEF History, IdleStep
    <3>. QED
      BY <2>2, <3>1, <3>2, <3>3, <3>4, <3>5, <3>6 DEF Kinds
  <2>. QED
    BY <2>2, <2>3 DEF SettlementInv, q
<1>2. CASE UNCHANGED hand
  BY <1>2 DEF SettlementInv
<1>. QED
  BY <1>1, <1>2

\* Every hand is in order, and settled in one of the ways there are.
THEOREM InvHolds == Spec => []SettlementInv
BY Starts, Continues, PTL DEF Spec

-----------------------------------------------------------------------------
(* What the invariant says of the hand itself.                             *)

\* The first tile of a bird is one seat's chong feng ji or, once somebody has
\* claimed it, its ze ren ji, and the table's flags agree, whatever is
\* discarded and claimed in whatever order (handler_chu, handler_peng,
\* handler_gang).
THEOREM FirstBirdIsOneSeats == Spec => []OneFirstBird
<1>1. SettlementInv => OneFirstBird
  <2> SUFFICES ASSUME FirstBirds(hand), NEW b \in {YaoJi, BaTong}
               PROVE  LET chong == {s \in Seats : hand.seat_birds[s][b].chong}
                          zeRen == {s \in Seats : hand.seat_birds[s][b].ze_ren = 1}
                      IN  /\ Cardinality(chong \cup zeRen) <= 1 /\ chong \cap zeRen = {}
                          /\ hand.birds[b].chong <=> chong # {}
                          /\ hand.birds[b].ze_ren = 1 <=> zeRen # {}
    BY DEF SettlementInv, Inv, OneFirstBird
  <2> DEFINE chong == {s \in Seats : hand.seat_birds[s][b].chong}
             zeRen == {s \in Seats : hand.seat_birds[s][b].ze_ren = 1}
             O == chong \cup zeRen
  <2>1. FirstBird(hand, b)
    BY DEF FirstBirds, BirdTiles
  <2>2. /\ chong \cap zeRen = {}
        /\ hand.birds[b].chong <=> chong # {}
        /\ hand.birds[b].ze_ren = 1 <=> zeRen # {}
    BY <2>1 DEF FirstBird
  <2>3. O \in SUBSET Seats /\ \A s, u \in O : s = u
    BY <2>1 DEF FirstBird, Owns
  <2> HIDE DEF O
  <2>4. Cardinality(O) <= 1
    <3>1. CASE O = {}
      BY <3>1, FS_EmptySet
    <3>2. CASE O # {}
      <4>1. PICK x : O = {x}
        BY <2>3, <3>2
      <4>. QED
        BY <4>1, FS_Singleton
    <3>. QED
      BY <3>1, <3>2
  <2>. QED
    BY <2>2, <2>4 DEF O
<1>. QED
  BY <1>1, InvHolds, PTL

\* Cardinalities the tally is made of.
LEMMA SmallCounts ==
  /\ Cardinality({}) = 0
  /\ \A x : Cardinality({x}) = 1
BY FS_EmptySet, FS_Singleton

\* What a tally says when nothing was in it.
LEMMA CountsFromNone ==
  ASSUME NEW h, NEW t, Unpaid(h), Counts(t, h)
  PROVE  /\ t.jie_pao = Cardinality(Taken(h))
         /\ t.zimo = Cardinality({h.win_seatid} \ ({Nowhere} \cup Taken(h)))
         /\ t.fang_pao = Cardinality({Feeder(h)} \ {Nowhere})
<1> DEFINE a == Cardinality(Taken(h))
           b == Cardinality({h.win_seatid} \ ({Nowhere} \cup Taken(h)))
           c == Cardinality({Feeder(h)} \ {Nowhere})
<1>1. a \in Nat /\ b \in Nat /\ c \in Nat
  BY FewAreFinite
<1>2. /\ t.jie_pao = h.tally.jie_pao + a
      /\ t.zimo = h.tally.zimo + b
      /\ t.fang_pao = h.tally.fang_pao + c
  BY DEF Counts
<1>3. h.tally.jie_pao = 0 /\ h.tally.zimo = 0 /\ h.tally.fang_pao = 0
  BY DEF Unpaid, NoTally
<1> HIDE DEF a, b, c
<1>4. t.jie_pao = a /\ t.zimo = b /\ t.fang_pao = c
  BY ONLY <1>1, <1>2, <1>3
<1>. QED
  BY <1>4 DEF a, b, c

LEMMA QuietCounts ==
  ASSUME NEW h, Quiet(h), NEW t, Unpaid(h), Counts(t, h)
  PROVE  /\ t.jie_pao = 0 /\ t.fang_pao = 0
         /\ t.zimo = (IF h.win_seatid = Nowhere THEN 0 ELSE 1)
<1>1. Taken(h) = {} /\ Feeder(h) = Nowhere
  BY DEF Taken, Feeder, Quiet, NoOffer
<1>2. /\ {h.win_seatid} \ ({Nowhere} \cup Taken(h)) =
           (IF h.win_seatid = Nowhere THEN {} ELSE {h.win_seatid})
      /\ {Feeder(h)} \ {Nowhere} = {}
  BY <1>1
<1>3. t.jie_pao = 0 /\ t.fang_pao = 0
  BY <1>1, <1>2, CountsFromNone, SmallCounts
<1>4. t.zimo = (IF h.win_seatid = Nowhere THEN 0 ELSE 1)
  BY <1>2, CountsFromNone, SmallCounts
<1>. QED
  BY <1>3, <1>4

LEMMA FedCounts ==
  ASSUME NEW h, Typed(h), Fed(h) \/ Robbing(h), Won(h), NEW t, Unpaid(h), Counts(t, h)
  PROVE  t.jie_pao \in Positive /\ t.fang_pao = 1 /\ t.zimo = 0
<1>1. /\ Taken(h) \in SUBSET Seats /\ Taken(h) # {} /\ Feeder(h) # Nowhere
      /\ h.win_seatid = Nowhere \/ h.win_seatid \in Taken(h)
  BY NobodyIsSeated DEF Taken, Feeder, Fed, Robbing, Won, Quiet, NoOffer, Typed
<1>2. Cardinality(Taken(h)) \in Positive
  BY <1>1, HowManySeats DEF Positive
<1>3. /\ {h.win_seatid} \ ({Nowhere} \cup Taken(h)) = {}
      /\ {Feeder(h)} \ {Nowhere} = {Feeder(h)}
  BY <1>1
<1>4. t.jie_pao \in Positive
  BY <1>2, CountsFromNone
<1>5. t.fang_pao = 1 /\ t.zimo = 0
  BY <1>3, CountsFromNone, SmallCounts
<1>. QED
  BY <1>4, <1>5

\* Every finished hand adds to the tallies of accumulate_hu exactly what it
\* was: one fed win if somebody took one, one self-drawn win, or nothing; an
\* offer that was passed is forgotten.
THEOREM TalliesAreRight == Spec => []WinIsTalliedOnce
<1>1. SettlementInv => WinIsTalliedOnce
  <2> DEFINE q == hand
  <2> SUFFICES ASSUME Inv(q), History(q), q.stage = "ended" PROVE WinIsTalliedOnce
    BY DEF SettlementInv, WinIsTalliedOnce
  <2>1. CASE DrawStep(q)
    <3>1. PICK h : /\ Quiet(h) /\ h.win_seatid = Nowhere /\ Unpaid(h) /\ Counts(q.tally, h)
                   /\ Same(q, h, EndFields \cup Money(h))
      BY <2>1 DEF DrawStep
    <3>2. q.tally.jie_pao = 0 /\ q.tally.fang_pao = 0 /\ q.tally.zimo = 0
      BY <3>1, QuietCounts
    <3>3. q.win_seatid = Nowhere /\ q.pao_hu_flag = {} /\ q.gang_hu_flag = {}
      BY <3>1 DEF Same, EndFields, Money, SettleFields, Quiet, NoOffer
    <3>. QED
      BY <3>2, <3>3 DEF WinIsTalliedOnce, Winners
  <2>2. CASE \E g : Inv(g) /\ WinStep(g) /\ ShowStep(g, q)
    <3>1. PICK g : Inv(g) /\ ShowStep(g, q)
      BY <2>2
    <3>2. /\ Typed(g) /\ Won(g) /\ Unpaid(g) /\ Counts(q.tally, g)
          /\ q.win_seatid = g.win_seatid /\ q.pao_hu_flag = g.pao_hu_flag
          /\ q.gang_hu_flag = g.gang_hu_flag
      BY <3>1, InPlay DEF ShowStep, Inv, Course, Same, EndFields
    <3>3. Winners(q) # {}
      BY <3>2, NobodyIsSeated DEF Won, Winners, Fed, Robbing, Quiet, NoOffer, Typed
    <3>4. CASE Quiet(g)
      <4>1. q.tally.jie_pao = 0 /\ q.tally.fang_pao = 0
        BY <3>2, <3>4, QuietCounts
      <4>2. q.win_seatid # Nowhere /\ q.tally.zimo = 1
        BY <3>2, <3>4, QuietCounts DEF Won, Fed, Robbing, Quiet, NoOffer
      <4>. QED
        BY <3>3, <4>1, <4>2 DEF WinIsTalliedOnce
    <3>5. CASE Fed(g) \/ Robbing(g)
      <4>1. q.tally.jie_pao \in Positive /\ q.tally.fang_pao = 1 /\ q.tally.zimo = 0
        BY <3>2, <3>5, FedCounts
      <4>. QED
        BY <3>3, <4>1 DEF WinIsTalliedOnce, Positive
    <3>. QED
      BY <3>2, <3>4, <3>5 DEF Won
  <2>. QED
    BY <2>1, <2>2 DEF History
<1>. QED
  BY <1>1, InvHolds, PTL

\* ji_card_timer pays the bets that ji_game_end announced: game_end asks for
\* them again, and update_account_bet leaves them as they are.
THEOREM BetsAreMovedAsAnnounced == Spec => AnnouncedIsPaid
<1>1. SettlementInv /\ [Next]_hand => [hand.stage = "won" /\ hand'.stage = "ended" => hand'.moved = hand.bet]_hand
  <2> SUFFICES ASSUME Inv(hand), Next, hand.stage = "won", hand'.stage = "ended"
               PROVE  hand'.moved = hand.bet
    BY DEF SettlementInv
  <2>1. Inv(hand') /\ Kinds(hand, hand')
    BY EveryStep
  <2>2. ShowStep(hand, hand')
    BY <2>1 DEF Kinds, Playing, CloseStep, IdleStep
  <2> DEFINE q == hand'
  <2>3. /\ \A s \in Seats : q.moved[s] = hand.moved[s] + q.bet[s]
        /\ q.bet = hand.bet
    BY <2>2 DEF ShowStep, Same, EndFields
  <2>4. q.moved \in [Seats -> Int] /\ hand.bet \in [Seats -> Int]
    BY <2>1, InPlay DEF Typed
  <2>5. \A s \in Seats : hand.moved[s] = 0
    BY DEF Inv, Course, Unpaid, Zeros
  <2> HIDE DEF q
  <2>6. \A s \in Seats : q.moved[s] = hand.bet[s]
    BY <2>3, <2>4, <2>5
  <2>7. q.moved = hand.bet
    BY <2>4, <2>6
  <2>. QED
    BY <2>7 DEF q
<1>. QED
  BY <1>1, InvHolds, PTL DEF Spec, AnnouncedIsPaid

-----------------------------------------------------------------------------
(* A hand nobody won: who is paid.                                         *)

LEMMA PositiveSum ==
  ASSUME NEW S, IsFiniteSet(S), NEW f, \A x \in S : f[x] \in Positive
  PROVE  SumOn(f, S) > 0 <=> S # {}
<1>1. \A x \in S : f[x] \in Nat
  BY DEF Positive
<1>2. SumOn(f, S) \in Nat /\ \A x \in S : f[x] <= SumOn(f, S)
  BY <1>1, SumIsNat
<1>3. S = {} => SumOn(f, S) = 0
  BY SumEmpty
<1>. QED
  BY <1>2, <1>3 DEF Positive

\* Some pair has s on the left, or on the right.
OfFirst(P, s) == \E p \in P : p[1] = s
OfSecond(P, s) == \E p \in P : p[2] = s

LEMMA JiaoIsPaid ==
  ASSUME NEW g, NEW rv, rv.types \in CardTypes, NEW s
  PROVE  /\ JiaoIn(g, rv, s) > 0 <=> OfFirst(JiaoPairs(g, rv), s)
         /\ JiaoOut(g, rv, s) > 0 <=> OfSecond(JiaoPairs(g, rv), s)
<1> DEFINE P == JiaoPairs(g, rv)
           best == JiaoBest(g, rv)
           I == {p \in P : p[1] = s}
           O == {p \in P : p[2] = s}
<1>1. JiaoIn(g, rv, s) = SumOn(best, I) /\ JiaoOut(g, rv, s) = SumOn(best, O)
  BY DEF JiaoIn, JiaoOut
<1>2. IsFiniteSet(P) /\ \A p \in P : best[p] \in Positive
  BY JiaoScores
<1> HIDE DEF P, best
<1>3. IsFiniteSet(I) /\ IsFiniteSet(O)
  BY <1>2, FS_Subset
<1>4. SumOn(best, I) > 0 <=> I # {}
  BY <1>2, <1>3, PositiveSum
<1>5. SumOn(best, O) > 0 <=> O # {}
  BY <1>2, <1>3, PositiveSum
<1>. QED
  BY <1>1, <1>4, <1>5 DEF P, OfFirst, OfSecond

\* Once everybody has discarded, hu_cards says of all seats alike who waits.
LEMMA WhoWaitsIsKnown ==
  ASSUME NEW g, g.stage \in {"claim", "next"}, g.discarded = Seats, NEW rv
  PROVE  JiaoPairs(g, rv) = Waits(g, rv) \X (Seats \ Waits(g, rv))
<1> DEFINE W == Waits(g, rv)
<1>1. \A s : ~ FullHand(g, s)
  BY DEF FullHand
<1>2. W = {s \in Seats : s \in rv.waits}
  BY <1>1 DEF Waits
<1>3. ASSUME NEW i \in Seats, NEW j \in Others(i)
      PROVE  StillWaits(g, rv, i, j) <=> j \in W
  <2>1. j \in Seats /\ j \in W <=> j \in rv.waits \cap g.discarded
    BY <1>2 DEF Others
  <2>2. j < i => (StillWaits(g, rv, i, j) <=> j \in W)
    BY DEF StillWaits
  <2>3. ~ (j < i) => (StillWaits(g, rv, i, j) <=> j \in rv.waits \cap g.discarded)
    BY <1>1 DEF StillWaits
  <2>. QED
    BY <2>1, <2>2, <2>3, <1>2 DEF Others
<1>4. W \in SUBSET Seats
  BY WaitsFacts
<1> HIDE DEF W
<1>5. JiaoPairs(g, rv) = {p \in Seats \X Seats : p[1] \in W /\ p[2] \in Others(p[1]) /\ ~ StillWaits(g, rv, p[1], p[2])}
  BY DEF JiaoPairs, W
<1>6. ASSUME NEW i \in Seats, NEW j \in Seats
      PROVE  i \in W /\ j \in Others(i) /\ ~ StillWaits(g, rv, i, j) <=> i \in W /\ j \notin W
  BY <1>3 DEF Others
<1>7. JiaoPairs(g, rv) = {p \in Seats \X Seats : p[1] \in W /\ p[2] \notin W}
  BY <1>5, <1>6
<1>8. JiaoPairs(g, rv) = W \X (Seats \ W)
  BY <1>4, <1>7
<1>. QED
  BY <1>8 DEF W

LEMMA PairsOf ==
  ASSUME NEW A, NEW B, NEW s
  PROVE  /\ (OfFirst(A \X B, s)) <=> s \in A /\ B # {}
         /\ (OfSecond(A \X B, s)) <=> s \in B /\ A # {}
<1>1. \A p \in A \X B : p[1] \in A /\ p[2] \in B
  OBVIOUS
<1>2. ASSUME NEW x \in A, NEW y \in B
      PROVE  \E p \in A \X B : p[1] = x /\ p[2] = y
  <2>1. <<x, y>> \in A \X B /\ <<x, y>>[1] = x /\ <<x, y>>[2] = y
    OBVIOUS
  <2>. QED
    BY <2>1
<1>. QED
  BY <1>1, <1>2 DEF OfFirst, OfSecond

\* When the tiles have run out, every seat that does not wait pays every one
\* that does (huang_zhuang_cha_jiao), although the seats are looked at one
\* after the other and those behind have only their last discard to go by.
THEOREM RunOutHandIsPaid == Spec => []WhoDoesNotWaitPays
<1>1. SettlementInv => WhoDoesNotWaitPays
  <2> DEFINE q == hand
  <2> SUFFICES ASSUME Inv(q), History(q), q.stage = "ended", q.is_huang_zhuang PROVE WhoDoesNotWaitPays
    BY DEF SettlementInv, WhoDoesNotWaitPays
  <2>1. ~ \E g : Inv(g) /\ WinStep(g) /\ ShowStep(g, q)
    <3> SUFFICES ASSUME NEW g, WinStep(g), ShowStep(g, q) PROVE FALSE
      OBVIOUS
    <3>1. PICK h : ~ h.is_huang_zhuang /\ Same(g, h, WonFields)
      BY DEF WinStep, Decided, SettledWin
    <3>2. ~ g.is_huang_zhuang
      BY <3>1 DEF Same, WonFields, SettleFields
    <3>. QED
      BY <3>2 DEF ShowStep, Same, EndFields
  <2>2. DrawStep(q)
    BY <2>1 DEF History
  <2>3. PICK h, rv, g : /\ h.stage \in {"claim", "next"} /\ h.discarded = Seats
                        /\ DrawnWith(q, h, rv, g)
    BY <2>2 DEF DrawStep
  <2>4. /\ g.stage \in {"claim", "next"} /\ g.discarded = Seats /\ rv.types \in CardTypes
        /\ q.waits = Waits(g, rv) /\ SettledDraw(q, g, rv)
    BY <2>3 DEF DrawnWith, Same
  <2> DEFINE W == Waits(g, rv)
             bad == Seats \ W
  <2>5. JiaoPairs(g, rv) = W \X bad
    BY <2>4, WhoWaitsIsKnown
  <2>6. W \in SUBSET Seats
    BY WaitsFacts
  <2>7. \A s \in Seats : /\ Got(s, "jiao_pai") = JiaoIn(g, rv, s)
                         /\ Put(s, "jiao_pai") = JiaoOut(g, rv, s)
    BY <2>4 DEF SettledDraw, Got, Put
  <2> HIDE DEF W, bad, q
  <2>8. ASSUME NEW s \in Seats
        PROVE  /\ Got(s, "jiao_pai") > 0 <=> s \in W /\ bad # {}
               /\ Put(s, "jiao_pai") > 0 <=> s \in bad /\ W # {}
    <3>1. (OfFirst(W \X bad, s)) <=> s \in W /\ bad # {}
      BY ONLY PairsOf
    <3>2. (OfSecond(W \X bad, s)) <=> s \in bad /\ W # {}
      BY ONLY PairsOf
    <3>3. /\ JiaoIn(g, rv, s) > 0 <=> OfFirst(JiaoPairs(g, rv), s)
          /\ JiaoOut(g, rv, s) > 0 <=> OfSecond(JiaoPairs(g, rv), s)
      BY <2>4, JiaoIsPaid
    <3>. QED
      BY <2>5, <2>7, <3>1, <3>2, <3>3
  <2>9. /\ PayersOf({"jiao_pai"}) = (IF W = {} THEN {} ELSE bad)
        /\ EarnersOf({"jiao_pai"}) = (IF bad = {} THEN {} ELSE W)
    BY <2>6, <2>8 DEF PayersOf, EarnersOf, bad
  <2>10. hand.waits = W
    BY <2>4 DEF W, q
  <2>. QED
    BY <2>9, <2>10 DEF WhoDoesNotWaitPays, bad
<1>. QED
  BY <1>1, InvHolds, PTL

-----------------------------------------------------------------------------
(* The money.  What the creditor of an entry gets is what the other seats  *)
(* put out for it.                                                         *)

LEMMA ExactDivision == \A n \in Positive, m \in Nat : (n * m) \div n = m
BY Z3 DEF Positive

\* The entries of a hand that is booked: everybody pays for some, for the
\* others one seat other than the creditor does.
FairEntry(h, k) ==
  \/ k[3] \in {"peng_gang", "an_gang"}
  \/ k[3] \in {"zi_mo", "lian_zhuang"} /\ NobodyPays(h) /\ \E m \in Positive : h.ledger[k] = (SeatCount - 1) * m
  \/ k[3] \in BirdItems \cup {"ming_gang", "pao_hu", "gang_hu"} /\ k[2] \in Others(k[1])
  \/ k[3] = "lian_zhuang" /\ ~ NobodyPays(h) /\ k[2] \in Others(k[1])

LEMMA BookedEntriesAreFair ==
  ASSUME NEW h, Hand(h), Won(h), GangLedger(h.ledger), NEW rv, Revealed(rv),
         NEW q, q = Booked(h, rv)
  PROVE  \A k \in DOMAIN q.ledger : FairEntry(q, k)
<1> DEFINE g == RobbedGang(h)
           w == Win(g, rv)
           b == Birds(g, rv)
           n == SeatCount - 1
           payer == Payer(h)
           winners == Winners(h)
           item == WinItem(h)
<1>1. /\ Hand(q) /\ Same(q, h, {"ledger"}) /\ GangLedger(g.ledger)
      /\ PaysFor(w, winners, payer, item)
      /\ payer = Everyone => InParts(w, n)
      /\ BirdEntries(b)
      /\ \A k : k[3] \in WinItems => Amount(q.ledger, k) = Amount(w, k)
      /\ \A k \in DOMAIN q.ledger : /\ k[3] \in WinItems => k \in DOMAIN w
                                    /\ k[3] \in GangItems => k \in DOMAIN g.ledger
                                    /\ k[3] \in BirdItems => k \in DOMAIN b
                                    /\ k[3] # "jiao_pai"
  BY BookedFacts
<1>2. /\ payer = Everyone \/ payer \in Seats \ winners
      /\ payer = Everyone <=> NobodyPays(h)
      /\ winners \in SUBSET Seats
  BY NobodyIsSeated DEF Hand, Typed, Won, Winners, Payer, NobodyPays, Fed, Robbing, Quiet, NoOffer
<1>3. NobodyPays(q) <=> NobodyPays(h)
  BY <1>1, SameWon
<1>4. /\ NobodyPays(h) => item = "zi_mo"
      /\ ~ NobodyPays(h) => item \in {"pao_hu", "gang_hu"}
  BY DEF NobodyPays, WinItem
<1>5. DOMAIN q.ledger \subseteq Keys
  BY <1>1 DEF Hand, Typed, Entries
<1> HIDE DEF g, w, b, n, payer, winners, item
<1> SUFFICES ASSUME NEW k \in DOMAIN q.ledger PROVE FairEntry(q, k)
  OBVIOUS
<1>6. k[3] \in BirdItems \cup GangItems \cup WinItems
  BY <1>1, <1>5, ItemsAreApart
<1>7. CASE k[3] \in BirdItems
  BY <1>1, <1>7 DEF BirdEntries, FairEntry
<1>8. CASE k[3] \in GangItems
  <2>1. k \in DOMAIN g.ledger
    BY <1>1, <1>8
  <2>2. k[3] = "ming_gang" => k[2] \in Others(k[1])
    BY <1>1, <2>1 DEF GangLedger
  <2>. QED
    BY <1>8, <2>2 DEF FairEntry, GangItems
<1>9. CASE k[3] \in WinItems
  <2>1. k \in DOMAIN w /\ q.ledger[k] = w[k]
    <3>1. k \in DOMAIN w /\ Amount(q.ledger, k) = Amount(w, k)
      BY <1>1, <1>9
    <3>. QED
      BY <3>1 DEF Amount
  <2>2. k[1] \in winners /\ k[2] = payer /\ k[3] \in {item, "lian_zhuang"}
    BY <1>1, <2>1 DEF PaysFor
  <2>3. CASE NobodyPays(h)
    <3>1. \E m \in Positive : w[k] = n * m
      BY <1>1, <1>2, <2>1, <2>3 DEF InParts
    <3>2. k[3] \in {"zi_mo", "lian_zhuang"}
      BY <1>4, <2>2, <2>3
    <3>. QED
      BY <1>3, <2>1, <2>3, <3>1, <3>2 DEF FairEntry, n
  <2>4. CASE ~ NobodyPays(h)
    <3>1. k[2] \in Others(k[1])
      BY <1>2, <2>2, <2>4 DEF Others
    <3>2. k[3] \in {"pao_hu", "gang_hu", "lian_zhuang"}
      BY <1>4, <2>2, <2>4
    <3>. QED
      BY <1>3, <2>4, <3>1, <3>2 DEF FairEntry
  <2>. QED
    BY <2>3, <2>4
<1>. QED
  BY <1>6, <1>7, <1>8, <1>9

LEMMA ItemsOfBirds ==
  BirdItems \cap {"peng_gang", "an_gang", "ming_gang", "zi_mo", "lian_zhuang", "pao_hu", "gang_hu"} = {}
BY DEF BirdItems

\* What every seat puts out for the entry k.
Puts(h, rv, k) == [j \in Seats |-> PutsOut(h, rv, k, j)]

LEMMA EntryIsPaid ==
  ASSUME NEW h, Typed(h), NEW rv, NEW k \in DOMAIN h.ledger, FairEntry(h, k)
  PROVE  Gets(h, rv, k) = SumOn(Puts(h, rv, k), Others(k[1]))
<1> DEFINE n == SeatCount - 1
           v == h.ledger[k]
           i == k[1]
           O == Others(i)
           kills == Kills(h, rv, k)
           puts == Puts(h, rv, k)
           all == PaidByAll(h, k)
           gang == k[3] \in {"peng_gang", "an_gang"}
<1>1. v \in Int /\ i \in Seats /\ O \in SUBSET Seats /\ n \in Positive /\ i \notin O
  BY SettlementAssumption DEF Typed, Entries, Keys, Others, Positive
<1>2. IsFiniteSet(O) /\ Cardinality(O) = n
  BY <1>1, SeatsAreFinite
<1>3. /\ Gets(h, rv, k) = (IF gang THEN n ELSE 1) * v + SumOn(kills, O)
      /\ SumOn(kills, O) \in Nat
  BY GetsFacts
<1>4. \A j \in O : kills[j] = KillsBaoTing(h, rv, k, j) /\ kills[j] \in Nat
  BY <1>1, KillsIsNat DEF Kills
<1>5. \A j \in O : puts[j] = PutsOut(h, rv, k, j)
  BY <1>1 DEF Puts
<1>6. k[3] \notin {"zi_mo", "lian_zhuang"} \/ ~ all => SumOn(kills, O) = 0 /\ \A j \in O : kills[j] = 0
  <2> SUFFICES ASSUME k[3] \notin {"zi_mo", "lian_zhuang"} \/ ~ all
               PROVE  SumOn(kills, O) = 0 /\ \A j \in O : kills[j] = 0
    OBVIOUS
  <2>1. \A j \in O : kills[j] = 0
    BY <1>4 DEF KillsBaoTing
  <2> HIDE DEF kills, O
  <2>. QED
    BY <1>2, <2>1, SumOfZeros
<1>7. CASE gang
  <2>1. all /\ k[3] \notin {"zi_mo", "lian_zhuang"}
    BY <1>7 DEF PaidByAll
  <2>2. \A j \in O : puts[j] = v
    BY <1>1, <1>4, <1>5, <1>6, <2>1 DEF PutsOut
  <2> HIDE DEF O, puts, v, kills
  <2>3. SumOn(puts, O) = n * v
    BY <1>1, <1>2, <2>2, SumOfEqual
  <2>. QED
    <3> HIDE DEF n, gang
    <3>1. SumOn(kills, O) = 0
      BY <1>6, <2>1
    <3>. QED
      BY <1>1, <1>3, <1>7, <2>3, <3>1 DEF Positive, puts, O
<1>8. CASE k[3] \in {"zi_mo", "lian_zhuang"} /\ NobodyPays(h) /\ \E m \in Positive : v = n * m
  <2>1. PICK m \in Positive : v = n * m
    BY <1>8
  <2>2. all /\ ~ gang
    BY <1>8 DEF PaidByAll
  <2>3. v \div n = m
    BY <1>1, <2>1, ExactDivision DEF Positive
  <2>4. \A j \in O : puts[j] = m + kills[j]
    BY <1>1, <1>4, <1>5, <1>8, <2>2, <2>3 DEF PutsOut
  <2> DEFINE each == [j \in Seats |-> m]
  <2>5. \A j \in O : each[j] = m
    BY <1>1
  <2>6. m \in Nat
    BY DEF Positive
  <2> HIDE DEF O, puts, kills, each, v, n
  <2>7. SumOn(each, O) = n * m
    BY <1>2, <2>5, <2>6, SumOfEqual
  <2>8. SumOn(puts, O) = SumOn(each, O) + SumOn(kills, O)
    BY <1>2, <1>4, <2>4, <2>5, <2>6, SumOfSums
  <2>9. Gets(h, rv, k) = v + SumOn(kills, O)
    BY <1>1, <1>3, <2>2
  <2>. QED
    BY <2>1, <2>7, <2>8, <2>9 DEF puts, O
<1>9. CASE ~ all /\ ~ gang /\ k[2] \in O
  <2>1. \A j \in O : puts[j] = IF j = k[2] THEN v ELSE 0
    BY <1>5, <1>9 DEF PutsOut
  <2> DEFINE a == k[2]
  <2> HIDE DEF O, puts, v, kills, a
  <2>2. a \in O /\ \A j \in O : puts[j] = IF j = a THEN v ELSE 0
    BY <1>9, <2>1 DEF a
  <2>3. SumOn(puts, O) = puts[a]
    BY <1>1, <1>2, <2>2, SumOfOne
  <2>4. puts[a] = v
    BY <2>2
  <2>5. Gets(h, rv, k) = v
    BY <1>1, <1>3, <1>6, <1>9
  <2>. QED
    BY <2>3, <2>4, <2>5 DEF puts, O, a
<1>. QED
  BY <1>7, <1>8, <1>9, ItemsOfBirds DEF FairEntry, PaidByAll

\* The entries of an item.
ItemEntries(h, item) == {k \in Counted(h) : k[3] = item}

LEMMA ItemEntriesFacts ==
  ASSUME NEW h, Typed(h), NEW item
  PROVE  /\ IsFiniteSet(ItemEntries(h, item))
         /\ \A k \in ItemEntries(h, item) : k \in DOMAIN h.ledger /\ k \in Counted(h) /\ k \in Keys
                                            /\ k[1] \in Seats /\ k[3] = item
<1>1. Counted(h) \in SUBSET DOMAIN h.ledger /\ DOMAIN h.ledger \in SUBSET Keys
  BY DEF Counted, Typed, Entries
<1>2. ItemEntries(h, item) \in SUBSET DOMAIN h.ledger /\ IsFiniteSet(DOMAIN h.ledger)
  BY <1>1, FiniteLedger DEF ItemEntries, Typed
<1>3. \A k \in ItemEntries(h, item) : k \in Counted(h) /\ k[3] = item
  BY DEF ItemEntries
<1>4. \A k \in Keys : k[1] \in Seats
  BY DEF Keys
<1>. QED
  BY <1>1, <1>2, <1>3, <1>4, FS_Subset

\* Those that one seat is paid, and those that the others are.
PaidTo(h, item, s) == {k \in ItemEntries(h, item) : k[1] = s}
PaidToOthers(h, item, s) == {k \in ItemEntries(h, item) : k[1] # s}

LEMMA AccountOfKey ==
  \A k, s, item : <<k[1], k[3]>> = <<s, item>> <=> k[1] = s /\ k[3] = item
OBVIOUS

LEMMA EarnedOf ==
  ASSUME NEW h, Typed(h), NEW rv, NEW s \in Seats, NEW item
  PROVE  Amount(Earned(h, rv), <<s, item>>)
           = SumOn(Credit(h, rv), PaidTo(h, item, s))
<1> DEFINE x == <<s, item>>
           e == Earned(h, rv)
           C == PaidTo(h, item, s)
<1>1. /\ DOMAIN e = {<<k[1], k[3]>> : k \in Counted(h)}
      /\ \A y \in DOMAIN e : e[y] = SumOn(Credit(h, rv), Credits(h, y))
  BY EarnedOwedFacts
<1>2. Credits(h, x) = C
  BY AccountOfKey DEF Credits, ItemEntries, PaidTo
<1>3. x \notin DOMAIN e => C = {}
  <2> SUFFICES ASSUME NEW k \in C PROVE x \in DOMAIN e
    OBVIOUS
  <2>1. k \in Counted(h) /\ <<k[1], k[3]>> = x
    BY <1>2, AccountOfKey DEF ItemEntries, PaidTo
  <2> HIDE DEF x
  <2>. QED
    BY <1>1, <2>1
<1> HIDE DEF x, e, C
<1>4. Amount(e, x) = SumOn(Credit(h, rv), C)
  BY <1>1, <1>2, <1>3, SumEmpty DEF Amount
<1>. QED
  BY <1>4 DEF e, x, C

\* One seat at most has robbed the gang.
OneRobber(h) ==
  \A k, m \in Counted(h) : k[3] = "gang_hu" /\ m[3] = "gang_hu" => k[1] = m[1]

LEMMA OwedOf ==
  ASSUME NEW h, Typed(h), OneRobber(h), NEW rv, NEW s \in Seats, NEW item
  PROVE  Amount(Owed(h, rv), <<s, item>>)
           = SumOn(Debt(h, rv, <<s, item>>), PaidToOthers(h, item, s))
<1> DEFINE x == <<s, item>>
           e == Owed(h, rv)
           C == PaidToOthers(h, item, s)
<1>1. /\ DOMAIN e = Seats \X {k[3] : k \in Counted(h)}
      /\ \A y \in DOMAIN e : e[y] = SumOn(Debt(h, rv, y), Debts(h, y))
  BY EarnedOwedFacts
<1>2. Debts(h, x) = C
  <2>1. x[1] = s /\ x[2] = item
    OBVIOUS
  <2>2. C = {k \in Counted(h) : k[3] = item /\ k[1] # s}
    BY DEF ItemEntries, PaidToOthers
  <2>3. Counted(h) \subseteq Keys
    BY DEF Counted, Typed, Entries
  <2>4. \A k \in C : k[1] \in Int
    BY <2>2, <2>3 DEF Keys, Seats
  <2>5. \A k \in C : item = "gang_hu" => \A m \in C : m[1] = k[1]
    BY <2>2 DEF OneRobber
  <2>6. \A k \in C : item = "gang_hu" => \A m \in C : m[1] <= k[1]
    BY <2>4, <2>5
  <2>7. Debts(h, x) = {k \in C : item = "gang_hu" => \A m \in C : m[1] <= k[1]}
    BY <2>1, <2>2 DEF Debts
  <2> HIDE DEF C
  <2>. QED
    BY <2>6, <2>7
<1>3. x \notin DOMAIN e => C = {}
  BY <1>1 DEF ItemEntries, PaidToOthers
<1> HIDE DEF x, e, C
<1>4. Amount(e, x) = SumOn(Debt(h, rv, x), C)
  BY <1>1, <1>2, <1>3, SumEmpty DEF Amount
<1>. QED
  BY <1>4 DEF e, x, C

\* f is what the seats have in the book l for an item.
Reads(f, l, item) == \A s \in Seats : f[s] = Amount(l, <<s, item>>)

\* Of every item, what the seats get is what the seats put out.
LEMMA ItemIsPaid ==
  ASSUME NEW h, Typed(h), OneRobber(h), NEW rv, \A k \in DOMAIN h.ledger : FairEntry(h, k),
         NEW item, NEW got, Reads(got, Earned(h, rv), item),
         NEW put, Reads(put, Owed(h, rv), item)
  PROVE  SumOn(got, Seats) = SumOn(put, Seats)
<1> DEFINE A == ItemEntries(h, item)
           credit == Credit(h, rv)
           creditor == [k \in A |-> k[1]]
           row == [s \in Seats |-> [k \in A |-> IF k[1] # s THEN PutsOut(h, rv, k, s) ELSE 0]]
           col == [k \in A |-> [s \in Seats |-> IF k[1] # s THEN PutsOut(h, rv, k, s) ELSE 0]]
           cost == [k \in A |-> SumOn(col[k], Seats)]
<1>1. /\ IsFiniteSet(A) /\ IsFiniteSet(Seats)
      /\ \A k \in A : k \in DOMAIN h.ledger /\ k \in Counted(h) /\ k[1] \in Seats /\ k[3] = item
  BY ItemEntriesFacts, SeatsAreFinite
<1>2. \A k \in A : credit[k] = Gets(h, rv, k) /\ credit[k] \in Int
  BY <1>1, GetsFacts DEF Credit
<1>3. SumOn(got, Seats) = SumOn(credit, A)
  <2>1. \A s \in Seats : got[s] = SumOn(credit, PaidTo(h, item, s))
    BY EarnedOf DEF Reads
  <2>2. \A k \in A : creditor[k] = k[1] /\ creditor[k] \in Seats
    BY <1>1
  <2>3. \A s \in Seats : PaidTo(h, item, s) = PartOf(A, creditor, s)
    BY <2>2 DEF PaidTo, PartOf
  <2> HIDE DEF A, credit, creditor
  <2>4. \A s \in Seats : got[s] = SumOn(credit, PartOf(A, creditor, s))
    BY <2>1, <2>3
  <2>5. \A k \in A : credit[k] \in Int
    BY <1>2
  <2>6. \A k \in A : creditor[k] \in Seats
    BY <2>2
  <2>7. IsFiniteSet(A) /\ IsFiniteSet(Seats)
    BY <1>1
  <2>. QED
    BY ONLY <2>4, <2>5, <2>6, <2>7, SumByParts
<1>4. \A s \in Seats, k \in A : row[s][k] \in Int /\ col[k][s] = row[s][k]
  BY <1>1, PutsOutIsInt
<1>5. \A s \in Seats : put[s] = SumOn(row[s], A)
  <2> SUFFICES ASSUME NEW s \in Seats PROVE put[s] = SumOn(row[s], A)
    OBVIOUS
  <2> DEFINE C == PaidToOthers(h, item, s)
             debt == Debt(h, rv, <<s, item>>)
             r == row[s]
  <2>1. put[s] = SumOn(debt, C)
    BY OwedOf DEF Reads
  <2>2. \A k \in C : debt[k] = PutsOut(h, rv, k, s)
    <3>1. <<s, item>>[1] = s /\ <<s, item>>[2] = item
      OBVIOUS
    <3>. QED
      BY <1>1, <3>1 DEF Debt, PaidToOthers
  <2>3. \A k \in A : r[k] = IF k[1] # s THEN PutsOut(h, rv, k, s) ELSE 0
    OBVIOUS
  <2>4. \A k \in A : r[k] \in Int
    BY <1>4
  <2>5. C \in SUBSET A /\ (\A k \in C : r[k] = debt[k]) /\ \A k \in A \ C : r[k] = 0
    BY <2>2, <2>3 DEF PaidToOthers
  <2> HIDE DEF C, debt, r, A
  <2>6. IsFiniteSet(C)
    BY <1>1, <2>5, FS_Subset
  <2>7. SumOn(r, A) = SumOn(r, C)
    BY <1>1, <2>4, <2>5, SumOfPart
  <2>8. SumOn(r, C) = SumOn(debt, C)
    BY <2>5, <2>6, SumSame
  <2>. QED
    BY <2>1, <2>7, <2>8 DEF r
<1>6. \A k \in A : cost[k] = SumOn(col[k], Seats)
  OBVIOUS
<1>7. \A k \in A : cost[k] = credit[k]
  <2> SUFFICES ASSUME NEW k \in A PROVE cost[k] = credit[k]
    OBVIOUS
  <2> DEFINE O == Others(k[1])
             c == col[k]
             puts == Puts(h, rv, k)
  <2>1. Gets(h, rv, k) = SumOn(puts, O)
    BY <1>1, EntryIsPaid
  <2>2. O \in SUBSET Seats /\ \A s \in Seats : s \in O <=> s # k[1]
    BY DEF Others
  <2>3. \A s \in Seats : c[s] = IF k[1] # s THEN PutsOut(h, rv, k, s) ELSE 0
    OBVIOUS
  <2>4. \A s \in Seats : c[s] \in Int
    BY <1>4
  <2>5. (\A s \in O : c[s] = puts[s]) /\ \A s \in Seats \ O : c[s] = 0
    BY <2>2, <2>3 DEF Puts
  <2>6. IsFiniteSet(O)
    BY <1>1, <2>2, FS_Subset
  <2> HIDE DEF O, c, puts, A
  <2>7. SumOn(c, Seats) = SumOn(c, O)
    BY <1>1, <2>2, <2>4, <2>5, SumOfPart
  <2>8. SumOn(c, O) = SumOn(puts, O)
    BY <2>5, <2>6, SumSame
  <2>. QED
    BY <1>2, <1>6, <2>1, <2>7, <2>8 DEF c
<1> HIDE DEF A, credit, row, col, cost
<1>8. SumOn(put, Seats) = SumOn(cost, A)
  <2>1. IsFiniteSet(A) /\ IsFiniteSet(Seats)
    BY <1>1
  <2>2. Transposed(row, col, Seats, A)
    BY <1>4 DEF Transposed
  <2>3. RowSums(put, row, Seats, A) /\ RowSums(cost, col, A, Seats)
    BY <1>5, <1>6 DEF RowSums
  <2>. QED
    BY ONLY <2>1, <2>2, <2>3, SumSwaps
<1>9. SumOn(cost, A) = SumOn(credit, A)
  BY <1>1, <1>7, SumSame
<1>. QED
  BY <1>3, <1>8, <1>9

\* What all seats have in an account book for an item.
SeatsOf(l, item) == [s \in Seats |-> Amount(l, <<s, item>>)]
OfItem(l, item) == SumOn(SeatsOf(l, item), Seats)

\* A book may be added up by seats or by items.
LEMMA BookTotals ==
  ASSUME NEW l, Entries(l, Accounts)
  PROVE  SumOn([s \in Seats |-> OfSeat(l, s)], Seats) = SumOn([item \in Items |-> OfItem(l, item)], Items)
<1> DEFINE row == [s \in Seats |-> [item \in Items |-> Amount(l, <<s, item>>)]]
           col == [item \in Items |-> SeatsOf(l, item)]
           rows == [s \in Seats |-> OfSeat(l, s)]
           cols == [item \in Items |-> OfItem(l, item)]
<1>1. IsFiniteSet(Seats) /\ IsFiniteSet(Items)
  BY SeatsAreFinite, ItemsAreFinite
<1>2. Transposed(row, col, Seats, Items)
  BY AmountIsInt DEF Transposed, SeatsOf
<1>3. RowSums(rows, row, Seats, Items)
  BY DEF RowSums, OfSeat
<1>4. RowSums(cols, col, Items, Seats)
  BY DEF RowSums, OfItem
<1> HIDE DEF row, col, rows, cols
<1>5. SumOn(rows, Seats) = SumOn(cols, Items)
  BY ONLY <1>1, <1>2, <1>3, <1>4, SumSwaps
<1>. QED
  BY <1>5 DEF rows, cols

\* What the seats get they put out, and the bets cancel out.
Balanced(q) ==
  /\ \A item \in Items : OfItem(q.earned, item) = OfItem(q.owed, item)
  /\ SumOn(q.bet, Seats) = 0

LEMMA BetsCancelOut ==
  ASSUME NEW q, Typed(q), \A item \in Items : OfItem(q.earned, item) = OfItem(q.owed, item),
         \A s \in Seats : q.bet[s] = OfSeat(q.earned, s) - OfSeat(q.owed, s)
  PROVE  Balanced(q)
<1> DEFINE a == [s \in Seats |-> OfSeat(q.earned, s)]
           b == [s \in Seats |-> OfSeat(q.owed, s)]
           c == [item \in Items |-> OfItem(q.earned, item)]
           d == [item \in Items |-> OfItem(q.owed, item)]
           bet == q.bet
<1>1. Entries(q.earned, Accounts) /\ Entries(q.owed, Accounts)
  BY DEF Typed
<1>2. \A s \in Seats : a[s] \in Int /\ b[s] \in Int /\ bet[s] = a[s] - b[s]
  BY <1>1, OfSeatIsInt
<1>3. SumOn(a, Seats) = SumOn(c, Items) /\ SumOn(b, Seats) = SumOn(d, Items)
  BY <1>1, BookTotals
<1>4. c = d
  OBVIOUS
<1>5. IsFiniteSet(Seats)
  BY SeatsAreFinite
<1> HIDE DEF a, b, c, d, bet
<1>6. SumOn(bet, Seats) = SumOn(a, Seats) - SumOn(b, Seats)
  BY <1>2, <1>5, SumOfDifferences
<1>7. SumOn(a, Seats) \in Int /\ SumOn(b, Seats) \in Int
  BY <1>2, <1>5, SumIsInt
<1>8. SumOn(bet, Seats) = 0
  BY <1>3, <1>4, <1>6, <1>7
<1>. QED
  BY <1>8 DEF Balanced, bet

LEMMA WinIsBalanced ==
  ASSUME NEW q, Hand(q), WinStep(q), ~ (q.gang_hu_count > 1)
  PROVE  Balanced(q)
<1>1. PICK h, rv : Decided(h) /\ Revealed(rv) /\ SettledWin(q, h, rv)
  BY DEF WinStep
<1> DEFINE b == Booked(h, rv)
           g == RobbedGang(h)
<1>2. Hand(h) /\ Won(h) /\ GangLedger(h.ledger)
  BY <1>1 DEF Decided, Unsettled
<1>3. /\ Hand(b) /\ Typed(b)
      /\ PaysFor(Win(g, rv), Winners(h), Payer(h), WinItem(h))
      /\ \A k \in DOMAIN b.ledger : k[3] \in WinItems => k \in DOMAIN Win(g, rv)
  BY <1>1, <1>2, BookedFacts DEF Hand
<1>4. \A k \in DOMAIN b.ledger : FairEntry(b, k)
  BY <1>1, <1>2, BookedEntriesAreFair
<1>5. /\ \A x : Amount(q.earned, x) = Amount(Earned(b, rv), x)
      /\ \A x : Amount(q.owed, x) = Amount(Owed(b, rv), x)
      /\ \A s \in Seats : q.bet[s] = OfSeat(q.earned, s) - OfSeat(q.owed, s)
      /\ q.gang_hu_count = h.gang_hu_count
  BY <1>1 DEF SettledWin, Same, WonFields, SettleFields
<1> HIDE DEF b, g
<1>6. OneRobber(b)
  <2> SUFFICES ASSUME NEW k \in Counted(b), NEW m \in Counted(b), k[3] = "gang_hu", m[3] = "gang_hu"
               PROVE  k[1] = m[1]
    BY DEF OneRobber
  <2>1. k \in DOMAIN b.ledger /\ m \in DOMAIN b.ledger
    BY DEF Counted
  <2>2. k \in DOMAIN Win(g, rv) /\ m \in DOMAIN Win(g, rv)
    BY <1>3, <2>1 DEF WinItems
  <2>3. k[1] \in Winners(h) /\ m[1] \in Winners(h) /\ WinItem(h) = "gang_hu"
    BY <1>3, <2>2 DEF PaysFor
  <2>4. h.gang_hu_seat # Nowhere
    BY <2>3 DEF WinItem
  <2>5. h.gang_hu_flag = {h.win_seatid} /\ h.pao_hu_flag = {}
    BY <1>2, <1>5, <2>4 DEF Won, Fed, Robbing, Quiet, NoOffer
  <2>. QED
    BY <2>3, <2>5 DEF Winners
<1>7. ASSUME NEW item \in Items PROVE OfItem(q.earned, item) = OfItem(q.owed, item)
  <2> DEFINE got == SeatsOf(q.earned, item)
             put == SeatsOf(q.owed, item)
  <2>1. Reads(got, Earned(b, rv), item)
    BY <1>5 DEF SeatsOf, Reads
  <2>2. Reads(put, Owed(b, rv), item)
    BY <1>5 DEF SeatsOf, Reads
  <2> HIDE DEF got, put
  <2>3. SumOn(got, Seats) = SumOn(put, Seats)
    <3>1. Typed(b)
      BY <1>3
    <3>. QED
      BY ONLY <3>1, <1>4, <1>6, <2>1, <2>2, ItemIsPaid
  <2>. QED
    BY <2>3 DEF OfItem, got, put
<1>8. Typed(q)
  BY DEF Hand
<1>. QED
  BY <1>5, <1>7, <1>8, BetsCancelOut

LEMMA JiaoBalances ==
  ASSUME NEW g, NEW rv, rv.types \in CardTypes,
         NEW in, \A s \in Seats : in[s] = JiaoIn(g, rv, s),
         NEW out, \A s \in Seats : out[s] = JiaoOut(g, rv, s)
  PROVE  SumOn(in, Seats) = SumOn(out, Seats)
<1> DEFINE P == JiaoPairs(g, rv)
           best == JiaoBest(g, rv)
           first == [p \in P |-> p[1]]
           second == [p \in P |-> p[2]]
<1>1. IsFiniteSet(P) /\ P \subseteq Seats \X Seats /\ \A p \in P : best[p] \in Int
  BY JiaoScores DEF Positive
<1>2. /\ \A p \in P : first[p] \in Seats
      /\ \A p \in P : second[p] \in Seats
  BY <1>1
<1>3. \A s \in Seats : in[s] = SumOn(best, PartOf(P, first, s))
  <2> SUFFICES ASSUME NEW s \in Seats PROVE in[s] = SumOn(best, PartOf(P, first, s))
    OBVIOUS
  <2>1. PartOf(P, first, s) = {p \in P : p[1] = s}
    BY DEF PartOf
  <2>. QED
    BY <2>1 DEF JiaoIn
<1>4. \A s \in Seats : out[s] = SumOn(best, PartOf(P, second, s))
  <2> SUFFICES ASSUME NEW s \in Seats PROVE out[s] = SumOn(best, PartOf(P, second, s))
    OBVIOUS
  <2>1. PartOf(P, second, s) = {p \in P : p[2] = s}
    BY DEF PartOf
  <2>. QED
    BY <2>1 DEF JiaoOut
<1>5. IsFiniteSet(P) /\ IsFiniteSet(Seats)
  BY <1>1, SeatsAreFinite
<1>6. \A p \in P : best[p] \in Int
  BY <1>1
<1> HIDE DEF P, best, first, second
<1>7. SumOn(in, Seats) = SumOn(best, P)
  BY ONLY <1>2, <1>3, <1>5, <1>6, SumByParts
<1>8. SumOn(out, Seats) = SumOn(best, P)
  BY ONLY <1>2, <1>4, <1>5, <1>6, SumByParts
<1>. QED
  BY <1>7, <1>8

\* Bets of pairs of seats cancel out.
LEMMA JiaoBetsCancelOut ==
  ASSUME NEW g, NEW rv, rv.types \in CardTypes,
         NEW bet, \A s \in Seats : bet[s] = JiaoIn(g, rv, s) - JiaoOut(g, rv, s)
  PROVE  SumOn(bet, Seats) = 0
<1> DEFINE in == [s \in Seats |-> JiaoIn(g, rv, s)]
           out == [s \in Seats |-> JiaoOut(g, rv, s)]
<1>1. \A s \in Seats : in[s] = JiaoIn(g, rv, s)
  OBVIOUS
<1>2. \A s \in Seats : out[s] = JiaoOut(g, rv, s)
  OBVIOUS
<1>3. \A s \in Seats : JiaoIn(g, rv, s) \in Int /\ JiaoOut(g, rv, s) \in Int
  <2>1. \A s : JiaoIn(g, rv, s) \in Nat /\ JiaoOut(g, rv, s) \in Nat
    BY JiaoScores
  <2>. QED
    BY <2>1
<1> HIDE DEF in, out
<1>4. \A s \in Seats : in[s] \in Int /\ out[s] \in Int /\ bet[s] = in[s] - out[s]
  BY <1>1, <1>2, <1>3
<1>5. SumOn(in, Seats) = SumOn(out, Seats)
  BY <1>1, <1>2, JiaoBalances
<1>6. SumOn(bet, Seats) = SumOn(in, Seats) - SumOn(out, Seats) /\ SumOn(in, Seats) \in Int
  BY <1>4, SeatsAreFinite, SumOfDifferences, SumIsInt
<1>. QED
  BY <1>5, <1>6

LEMMA DrawIsBalanced ==
  ASSUME NEW q, NEW g, NEW rv, rv.types \in CardTypes, SettledDraw(q, g, rv)
  PROVE  Balanced(q)
<1>1. SumOn(q.bet, Seats) = 0
  <2>1. \A s \in Seats : q.bet[s] = JiaoIn(g, rv, s) - JiaoOut(g, rv, s)
    BY DEF SettledDraw
  <2> DEFINE bet == q.bet
  <2> HIDE DEF bet
  <2>2. \A s \in Seats : bet[s] = JiaoIn(g, rv, s) - JiaoOut(g, rv, s)
    BY <2>1 DEF bet
  <2>3. SumOn(bet, Seats) = 0
    BY <2>2, JiaoBetsCancelOut
  <2>. QED
    BY <2>3 DEF bet
<1>2. ASSUME NEW item \in Items PROVE OfItem(q.earned, item) = OfItem(q.owed, item)
  <2> DEFINE got == SeatsOf(q.earned, item)
             put == SeatsOf(q.owed, item)
  <2>1. \A s \in Seats : /\ got[s] = IF item = "jiao_pai" THEN JiaoIn(g, rv, s) ELSE 0
                         /\ put[s] = IF item = "jiao_pai" THEN JiaoOut(g, rv, s) ELSE 0
    BY DEF SettledDraw, SeatsOf
  <2> HIDE DEF got, put
  <2>2. CASE item = "jiao_pai"
    <3>1. \A s \in Seats : got[s] = JiaoIn(g, rv, s)
      BY <2>1, <2>2
    <3>2. \A s \in Seats : put[s] = JiaoOut(g, rv, s)
      BY <2>1, <2>2
    <3>3. SumOn(got, Seats) = SumOn(put, Seats)
      BY <3>1, <3>2, JiaoBalances
    <3>. QED
      BY <3>3 DEF OfItem, got, put
  <2>3. CASE item # "jiao_pai"
    <3>1. \A s \in Seats : got[s] = put[s]
      BY <2>1, <2>3
    <3>2. SumOn(got, Seats) = SumOn(put, Seats)
      BY <3>1, SeatsAreFinite, SumSame
    <3>. QED
      BY <3>2 DEF OfItem, got, put
  <2>. QED
    BY <2>2, <2>3
<1>. QED
  BY <1>1, <1>2 DEF Balanced

LEMMA ZerosCancelOut ==
  ASSUME NEW f, \A s \in Seats : f[s] = 0
  PROVE  SumOn(f, Seats) = 0
BY SeatsAreFinite, SumOfZeros

LEMMA NoBets == SumOn(Zeros, Seats) = 0
<1>1. \A s \in Seats : Zeros[s] = 0
  BY DEF Zeros
<1>. QED
  BY <1>1, ZerosCancelOut

\* The money of a hand: as announced, and moved as announced or not at all.
MoneyIsKept(q) ==
  /\ q.settled => Balanced(q)
  /\ SumOn(q.bet, Seats) = 0 /\ SumOn(q.moved, Seats) = 0

LEMMA BetsAreMoved ==
  ASSUME NEW q, Typed(q), NEW m, \A s \in Seats : m[s] = 0,
         \A s \in Seats : q.moved[s] = m[s] + q.bet[s]
  PROVE  SumOn(q.moved, Seats) = SumOn(q.bet, Seats)
<1>1. \A s \in Seats : q.bet[s] \in Int
  BY DEF Typed
<1> DEFINE moved == q.moved
           bet == q.bet
<1>2. \A s \in Seats : moved[s] = bet[s]
  BY <1>1
<1> HIDE DEF moved, bet
<1>3. SumOn(moved, Seats) = SumOn(bet, Seats)
  BY <1>2, SeatsAreFinite, SumSame
<1>. QED
  BY <1>3 DEF moved, bet

LEMMA WonMoney ==
  ASSUME NEW g, Inv(g), WinStep(g), NEW q, Inv(q), ShowStep(g, q), ~ (q.gang_hu_count > 1)
  PROVE  MoneyIsKept(q)
<1>1. /\ q.gang_hu_count = g.gang_hu_count /\ q.earned = g.earned /\ q.owed = g.owed
      /\ q.bet = g.bet /\ g.stage = "won"
      /\ \A s \in Seats : q.moved[s] = g.moved[s] + q.bet[s]
  BY DEF ShowStep, Same, EndFields
<1>2. Balanced(g)
  BY <1>1, WinIsBalanced, InPlay
<1>3. Balanced(q)
  BY <1>1, <1>2 DEF Balanced
<1>4. \A s \in Seats : g.moved[s] = 0
  BY <1>1 DEF Inv, Course, Unpaid, Zeros
<1>5. SumOn(q.moved, Seats) = SumOn(q.bet, Seats)
  BY <1>1, <1>4, BetsAreMoved, InPlay
<1>. QED
  BY <1>3, <1>5 DEF MoneyIsKept, Balanced

LEMMA DrawnMoney ==
  ASSUME NEW q, Inv(q), DrawStep(q)
  PROVE  MoneyIsKept(q)
<1>1. PICK h, rv, g : /\ Unpaid(h) /\ DrawnWith(q, h, rv, g)
                      /\ \A s \in Seats : q.moved[s] = h.moved[s] + q.bet[s]
  BY DEF DrawStep
<1>2. Balanced(q)
  BY <1>1, DrawIsBalanced DEF DrawnWith
<1>3. \A s \in Seats : h.moved[s] = 0
  BY <1>1 DEF Unpaid, Zeros
<1>4. SumOn(q.moved, Seats) = SumOn(q.bet, Seats)
  BY <1>1, <1>3, BetsAreMoved, InPlay
<1>. QED
  BY <1>2, <1>4 DEF MoneyIsKept, Balanced

LEMMA ClosedMoney ==
  ASSUME NEW q, Inv(q), CloseStep(q)
  PROVE  MoneyIsKept(q)
<1>1. ~ q.settled
  BY DEF CloseStep
<1>2. CASE q.bet = Zeros /\ \A s \in Seats : q.moved[s] = 0
  BY <1>1, <1>2, NoBets, ZerosCancelOut DEF MoneyIsKept
<1>3. CASE ~ (q.bet = Zeros /\ \A s \in Seats : q.moved[s] = 0)
  <2>1. PICK g, rv : /\ rv.types \in CardTypes
                     /\ \A s \in Seats : /\ q.bet[s] = JiaoIn(g, rv, s) - JiaoOut(g, rv, s)
                                         /\ q.moved[s] = q.bet[s]
    BY <1>3 DEF CloseStep
  <2> DEFINE bet == q.bet
             moved == q.moved
  <2>2. \A s \in Seats : bet[s] = JiaoIn(g, rv, s) - JiaoOut(g, rv, s)
    BY <2>1
  <2>3. \A s \in Seats : moved[s] = JiaoIn(g, rv, s) - JiaoOut(g, rv, s)
    BY <2>1
  <2> HIDE DEF bet, moved
  <2>4. SumOn(bet, Seats) = 0
    BY <2>1, <2>2, JiaoBetsCancelOut
  <2>5. SumOn(moved, Seats) = 0
    BY <2>1, <2>3, JiaoBetsCancelOut
  <2>. QED
    BY <1>1, <2>4, <2>5 DEF MoneyIsKept, bet, moved
<1>. QED
  BY <1>2, <1>3

LEMMA OpenMoney ==
  ASSUME NEW q, ~ q.settled, q.bet = Zeros, q.moved = Zeros
  PROVE  MoneyIsKept(q)
BY NoBets DEF MoneyIsKept

LEMMA EveryHandsMoney ==
  ASSUME NEW q, Inv(q), History(q), ~ (q.gang_hu_count > 1)
  PROVE  MoneyIsKept(q)
<1>1. CASE q.stage \in Playing
  BY <1>1, OpenMoney DEF Inv, Course, Open, Unsettled, Unpaid
<1>2. CASE q.stage = "idle"
  BY <1>2, OpenMoney DEF History, IdleStep
<1>3. CASE q.stage = "won"
  <2>1. WinStep(q) /\ q.moved = Zeros
    BY <1>3 DEF History, Inv, Course, Unpaid
  <2>2. Balanced(q)
    BY <2>1, WinIsBalanced, InPlay
  <2>. QED
    BY <2>1, <2>2, NoBets DEF MoneyIsKept, Balanced
<1>4. CASE q.stage = "ended"
  BY <1>4, WonMoney, DrawnMoney DEF History
<1>5. CASE q.stage = "closed"
  BY <1>5, ClosedMoney DEF History
<1>. QED
  BY <1>1, <1>2, <1>3, <1>4, <1>5, InPlay DEF Typed

\* Types.
LEMMA TypesHold == Inv(hand) => TypeOK
<1> SUFFICES ASSUME Inv(hand) PROVE TypeOK
  OBVIOUS
<1>1. Typed(hand) /\ BirdsShown(hand)
  BY InPlay
<1>2. /\ hand.stage \in {"idle", "turn", "offer", "claim", "next", "rob", "won", "ended", "closed"}
      /\ hand.options \in Options /\ hand.dealer \in Seats /\ hand.cur \in Seats
      /\ {hand.pao_hu_seat, hand.gang_hu_seat, hand.win_seatid} \subseteq Seats \cup {Nowhere}
      /\ hand.pao_hu_flag \subseteq Seats /\ hand.gang_hu_flag \subseteq Seats
      /\ hand.discards \in 0 .. MaxDiscards
  BY <1>1 DEF Typed, Playing
<1>3. \A s \in Seats, t \in Tiles : hand.out[s][t] \in Nat /\ hand.melds[s][t] \in Nat
  BY <1>1, ShownFacts
<1>4. \A t \in {YaoJi, BaTong} : Left(hand, t) \in 0 .. 4
  <2> SUFFICES ASSUME NEW t \in BirdTiles PROVE Left(hand, t) \in 0 .. 4
    BY DEF BirdTiles
  <2>1. Shown(hand, t) \in 0 .. 4 /\ t # Plain
    BY <1>1, BirdsAreTiles DEF BirdsShown
  <2>. QED
    BY <2>1 DEF Left
<1>5. /\ DOMAIN hand.ledger \subseteq Seats \X (Seats \cup {Everyone}) \X Items
      /\ DOMAIN hand.earned \subseteq Seats \X Items /\ DOMAIN hand.owed \subseteq Seats \X Items
  BY <1>1 DEF Typed, Entries, Keys, Accounts
<1>6. hand.bet \in [Seats -> Int] /\ hand.moved \in [Seats -> Int]
  BY <1>1 DEF Typed
<1>. QED
  BY <1>2, <1>3, <1>4, <1>5, <1>6 DEF TypeOK

\* Whatever ends the hand (ji_game_end, game_end, a vote), of every item the
\* seats get what the seats put out (update_account_bet), and the money that
\* game_end moves is neither made nor lost, unless several seats robbed one
\* gang.
THEOREM MoneyIsNeitherMadeNorLost == Spec => []BetsBalance
<1>1. SettlementInv => BetsBalance
  <2> SUFFICES ASSUME Inv(hand), History(hand) PROVE BetsBalance
    BY DEF SettlementInv
  <2>1. TypeOK
    BY TypesHold
  <2>2. CASE hand.gang_hu_count > 1
    BY <2>1, <2>2 DEF BetsBalance
  <2>3. CASE ~ (hand.gang_hu_count > 1)
    <3>1. MoneyIsKept(hand)
      BY <2>3, EveryHandsMoney
    <3>2. SumOver(hand.bet) = 0 /\ SumOver(hand.moved) = 0
      BY <3>1, SumIsSumOn DEF MoneyIsKept, SumOver
    <3>3. EveryScoreIsPaid
      <4> SUFFICES ASSUME hand.settled, NEW item \in Items
                   PROVE  SumOver([s \in Seats |-> Got(s, item)]) = SumOver([s \in Seats |-> Put(s, item)])
        BY DEF EveryScoreIsPaid
      <4>1. OfItem(hand.earned, item) = OfItem(hand.owed, item)
        BY <3>1 DEF MoneyIsKept, Balanced
      <4>2. /\ SumOver([s \in Seats |-> Got(s, item)]) = OfItem(hand.earned, item)
            /\ SumOver([s \in Seats |-> Put(s, item)]) = OfItem(hand.owed, item)
        BY SumIsSumOn DEF SumOver, OfItem, SeatsOf, Got, Put
      <4>. QED
        BY <4>1, <4>2
    <3>. QED
      BY <2>1, <3>2, <3>3 DEF BetsBalance
  <2>. QED
    BY <2>2, <2>3
<1>. QED
  BY <1>1, InvHolds, PTL

-----------------------------------------------------------------------------
(* Who pays a win.                                                         *)

LEMMA SumIsPositive ==
  ASSUME NEW S, IsFiniteSet(S), NEW f, \A x \in S : f[x] \in Nat
  PROVE  /\ SumOn(f, S) \in Nat
         /\ SumOn(f, S) > 0 <=> \E x \in S : f[x] > 0
<1>1. SumOn(f, S) \in Nat /\ \A x \in S : f[x] <= SumOn(f, S)
  BY SumIsNat
<1>2. SumOn(f, S) # 0 => \E x \in S : f[x] # 0
  BY SumHasSummand
<1>. QED
  BY <1>1, <1>2

LEMMA LastOfAll ==
  ASSUME NEW S, IsFiniteSet(S), S # {}, \A x \in S : x \in Int
  PROVE  \E x \in S : \A y \in S : y <= x
<1> DEFINE Good == {T \in SUBSET S : T = {} \/ \E x \in T : \A y \in T : y <= x}
<1>1. ASSUME NEW T \in SUBSET S, \A U \in SUBSET T : U # T => U \in Good
      PROVE  T \in Good
  <2>1. CASE T = {}
    BY <2>1
  <2>2. CASE T # {}
    <3>1. PICK c \in T : TRUE
      BY <2>2
    <3>2. T \ {c} \in Good
      BY <1>1
    <3>3. CASE T \ {c} = {}
      <4>1. \A y \in T : y <= c
        BY <3>3
      <4>. QED
        BY <4>1
    <3>4. CASE T \ {c} # {}
      <4>1. PICK x \in T \ {c} : \A y \in T \ {c} : y <= x
        BY <3>2, <3>4
      <4>2. x \in Int /\ c \in Int /\ \A y \in T : y \in Int
        OBVIOUS
      <4>3. CASE c <= x
        <5>1. \A y \in T : y <= x
          BY <4>1, <4>3
        <5>. QED
          BY <5>1
      <4>4. CASE x <= c
        <5>1. \A y \in T : y <= c
          BY <4>1, <4>2, <4>4
        <5>. QED
          BY <5>1
      <4>. QED
        BY <4>2, <4>3, <4>4
    <3>. QED
      BY <3>3, <3>4
  <2>. QED
    BY <2>1, <2>2
<1> HIDE DEF Good
<1>2. S \in Good
  <2>1. IsFiniteSet(S) /\ S \in SUBSET S
    OBVIOUS
  <2>2. \A T \in SUBSET S : (\A U \in SUBSET T : U # T => U \in Good) => T \in Good
    BY <1>1
  <2>. QED
    BY ONLY <2>1, <2>2, SmallestCounterexample
<1>. QED
  BY <1>2 DEF Good

\* The entries of the win in the ledger of a hand that is booked.
WinEntries(q, h) ==
  /\ \A k \in DOMAIN q.ledger :
       k[3] \in WinItems => /\ k[1] \in Winners(h) /\ k[2] = Payer(h)
                            /\ k[3] \in {WinItem(h), "lian_zhuang"}
                            /\ q.ledger[k] \in Positive
  /\ \A i \in Winners(h) : <<i, Payer(h), WinItem(h)>> \in DOMAIN q.ledger

LEMMA BookedWin ==
  ASSUME NEW h, Hand(h), Won(h), GangLedger(h.ledger), NEW rv, Revealed(rv),
         NEW q, q = Booked(h, rv)
  PROVE  WinEntries(q, h)
<1> DEFINE g == RobbedGang(h)
           w == Win(g, rv)
<1>1. /\ PaysFor(w, Winners(h), Payer(h), WinItem(h))
      /\ \A k : k[3] \in WinItems => Amount(q.ledger, k) = Amount(w, k)
      /\ \A k \in DOMAIN q.ledger : k[3] \in WinItems => k \in DOMAIN w
  BY BookedFacts
<1> HIDE DEF g, w
<1>2. ASSUME NEW k \in DOMAIN q.ledger, k[3] \in WinItems
      PROVE  /\ k[1] \in Winners(h) /\ k[2] = Payer(h)
             /\ k[3] \in {WinItem(h), "lian_zhuang"}
             /\ q.ledger[k] \in Positive
  <2>1. k \in DOMAIN w /\ Amount(q.ledger, k) = Amount(w, k)
    BY <1>1, <1>2
  <2>2. q.ledger[k] = w[k]
    BY <2>1 DEF Amount
  <2>. QED
    BY <1>1, <2>1, <2>2 DEF PaysFor
<1>3. ASSUME NEW i \in Winners(h) PROVE <<i, Payer(h), WinItem(h)>> \in DOMAIN q.ledger
  <2> DEFINE k == <<i, Payer(h), WinItem(h)>>
  <2>1. k[3] \in WinItems /\ k[1] = i
    BY WinItemsFacts
  <2>2. k \in DOMAIN w
    BY <1>1 DEF PaysFor
  <2> HIDE DEF k
  <2>3. w[k] \in Positive /\ Amount(q.ledger, k) = Amount(w, k)
    BY <1>1, <2>1, <2>2 DEF PaysFor
  <2>4. Amount(q.ledger, k) # 0
    BY <2>2, <2>3 DEF Amount, Positive
  <2>5. k \in DOMAIN q.ledger
    BY <2>4 DEF Amount
  <2>. QED
    BY <2>5 DEF k
<1>. QED
  BY <1>2, <1>3 DEF WinEntries

\* What an entry of the win gives its creditor, and takes from seat s.
LEMMA WinEntryIsPaid ==
  ASSUME NEW h, NEW b, Typed(b), NobodyPays(b) <=> NobodyPays(h), WinEntries(b, h), NEW rv,
         NEW k \in DOMAIN b.ledger, FairEntry(b, k), k[3] \in WinItems
  PROVE  /\ Gets(b, rv, k) \in Positive
         /\ \A s \in Others(k[1]) : /\ PutsOut(b, rv, k, s) \in Nat
                                    /\ PutsOut(b, rv, k, s) > 0 <=> NobodyPays(h) \/ s = Payer(h)
<1> DEFINE v == b.ledger[k]
           n == SeatCount - 1
<1>1. /\ v \in Positive /\ k[2] = Payer(h) /\ k[3] \in {WinItem(h), "lian_zhuang"}
  BY DEF WinEntries
<1>2. k[3] \notin {"peng_gang", "an_gang"} /\ k[3] \notin BirdItems \cup {"ming_gang"}
  BY ItemsAreApart DEF GangItems
<1>3. Gets(b, rv, k) \in Positive
  <2>1. /\ Gets(b, rv, k) = (IF k[3] \in {"peng_gang", "an_gang"} THEN n ELSE 1) * v
                              + SumOn(Kills(b, rv, k), Others(k[1]))
        /\ SumOn(Kills(b, rv, k), Others(k[1])) \in Nat
    BY GetsFacts
  <2> HIDE DEF v, n
  <2>. QED
    BY <1>1, <1>2, <2>1 DEF Positive
<1>4. CASE NobodyPays(h)
  <2>1. k[3] \in {"zi_mo", "lian_zhuang"}
    BY <1>1, <1>4 DEF WinItem, NobodyPays
  <2>2. PICK m \in Positive : v = n * m
    BY <1>2, <1>4, <2>1 DEF FairEntry
  <2>3. n \in Positive
    BY SettlementAssumption DEF Positive
  <2>4. v \div n = m
    BY <2>2, <2>3, ExactDivision DEF Positive
  <2>5. \A s \in Others(k[1]) : PutsOut(b, rv, k, s) = m + KillsBaoTing(b, rv, k, s)
    BY <1>4, <2>1, <2>4 DEF PutsOut, PaidByAll, Others
  <2>6. \A s : KillsBaoTing(b, rv, k, s) \in Nat
    BY KillsIsNat
  <2>7. \A s \in Others(k[1]) : PutsOut(b, rv, k, s) \in Nat /\ PutsOut(b, rv, k, s) > 0
    BY <2>5, <2>6 DEF Positive
  <2>. QED
    BY <1>3, <1>4, <2>7
<1>5. CASE ~ NobodyPays(h)
  <2>1. ~ PaidByAll(b, k)
    BY <1>2, <1>5 DEF FairEntry, PaidByAll
  <2>2. \A s : PutsOut(b, rv, k, s) = IF s = Payer(h) THEN v ELSE 0
    BY <1>1, <2>1 DEF PutsOut
  <2>. QED
    BY <1>1, <1>3, <1>5, <2>2 DEF Positive
<1>. QED
  BY <1>4, <1>5

LEMMA OwedIsDebts ==
  ASSUME NEW h, Typed(h), NEW rv, NEW s \in Seats, NEW item
  PROVE  /\ Amount(Owed(h, rv), <<s, item>>) = SumOn(Debt(h, rv, <<s, item>>), Debts(h, <<s, item>>))
         /\ IsFiniteSet(Debts(h, <<s, item>>))
         /\ Debts(h, <<s, item>>) \in SUBSET PaidToOthers(h, item, s)
         /\ \A k \in Debts(h, <<s, item>>) : Debt(h, rv, <<s, item>>)[k] = PutsOut(h, rv, k, s)
         /\ PaidToOthers(h, item, s) # {} => Debts(h, <<s, item>>) # {}
<1> DEFINE x == <<s, item>>
           e == Owed(h, rv)
           D == Debts(h, x)
           K == PaidToOthers(h, item, s)
<1>1. /\ DOMAIN e = Seats \X {k[3] : k \in Counted(h)}
      /\ \A y \in DOMAIN e : e[y] = SumOn(Debt(h, rv, y), Debts(h, y))
  BY EarnedOwedFacts
<1>2. x[1] = s /\ x[2] = item
  OBVIOUS
<1>3. K = {k \in Counted(h) : k[3] = item /\ k[1] # s}
  BY DEF PaidToOthers, ItemEntries
<1>4. D = {k \in K : item = "gang_hu" => \A m \in K : m[1] <= k[1]}
  BY <1>2, <1>3 DEF Debts
<1>5. D \in SUBSET K
  BY <1>4
<1>6. IsFiniteSet(K) /\ \A k \in K : k[1] \in Seats /\ k[1] \in Int
  <2>1. K \in SUBSET ItemEntries(h, item)
    BY DEF PaidToOthers
  <2>2. IsFiniteSet(ItemEntries(h, item)) /\ \A k \in ItemEntries(h, item) : k[1] \in Seats
    BY ItemEntriesFacts
  <2> HIDE DEF K
  <2>3. IsFiniteSet(K)
    BY <2>1, <2>2, FS_Subset
  <2>. QED
    BY <2>1, <2>2, <2>3 DEF Seats
<1>7. IsFiniteSet(D)
  BY <1>5, <1>6, FS_Subset
<1>8. \A k \in K : Debt(h, rv, x)[k] = PutsOut(h, rv, k, s)
  BY <1>2, <1>3 DEF Debt
<1>9. K # {} => D # {}
  <2> SUFFICES ASSUME K # {} PROVE D # {}
    OBVIOUS
  <2> DEFINE creditors == {k[1] : k \in K}
  <2>1. IsFiniteSet(creditors)
    <3>1. creditors \in SUBSET Seats
      BY <1>6
    <3>. QED
      BY <3>1, SeatsAreFinite, FS_Subset
  <2>2. creditors # {} /\ \A i \in creditors : i \in Int
    BY <1>6
  <2>3. PICK i \in creditors : \A j \in creditors : j <= i
    BY <2>1, <2>2, LastOfAll
  <2>4. PICK k \in K : k[1] = i
    BY <2>3
  <2>5. \A m \in K : m[1] <= k[1]
    BY <2>3, <2>4
  <2>. QED
    BY <1>4, <2>4, <2>5
<1>10. x \notin DOMAIN e => D = {}
  BY <1>1, <1>3, <1>5
<1> HIDE DEF x, e, D, K
<1>11. Amount(e, x) = SumOn(Debt(h, rv, x), D)
  BY <1>1, <1>10, SumEmpty DEF Amount, D
<1>. QED
  BY <1>5, <1>7, <1>8, <1>9, <1>11 DEF e, x, D, K

\* Who gets something for the win, and who puts something out.
LEMMA WinIsEarned ==
  ASSUME NEW h, NEW b, Typed(b), NobodyPays(b) <=> NobodyPays(h), WinEntries(b, h), NEW rv,
         \A k \in DOMAIN b.ledger : FairEntry(b, k), NEW s \in Seats
  PROVE  (\E item \in WinItems : Amount(Earned(b, rv), <<s, item>>) > 0) <=> s \in Winners(h)
<1>1. \A k \in Counted(b) : k \in DOMAIN b.ledger
  BY DEF Counted
<1>2. \A k \in DOMAIN b.ledger : k[3] \in WinItems => k \in Counted(b)
  BY ItemsAreApart DEF Counted
<1>3. ASSUME NEW item \in WinItems
      PROVE  Amount(Earned(b, rv), <<s, item>>) > 0 <=> PaidTo(b, item, s) # {}
  <2> DEFINE P == PaidTo(b, item, s)
             f == Credit(b, rv)
  <2>1. P \in SUBSET ItemEntries(b, item)
    BY DEF PaidTo
  <2>2. IsFiniteSet(ItemEntries(b, item))
    BY ItemEntriesFacts
  <2>3. \A k \in P : k \in DOMAIN b.ledger /\ k \in Counted(b) /\ k[3] = item
    BY <2>1, ItemEntriesFacts
  <2>4. \A k \in P : f[k] \in Positive
    BY <2>3, WinEntryIsPaid DEF Credit
  <2>5. Amount(Earned(b, rv), <<s, item>>) = SumOn(f, P)
    BY EarnedOf
  <2> HIDE DEF P, f
  <2>6. IsFiniteSet(P)
    BY <2>1, <2>2, FS_Subset
  <2>7. SumOn(f, P) > 0 <=> P # {}
    BY <2>4, <2>6, PositiveSum
  <2>. QED
    BY <2>5, <2>7 DEF P
<1>4. ASSUME NEW item \in WinItems, PaidTo(b, item, s) # {} PROVE s \in Winners(h)
  <2>1. PICK k \in Counted(b) : k[3] = item /\ k[1] = s
    BY <1>4 DEF PaidTo, ItemEntries
  <2>. QED
    BY <1>1, <2>1 DEF WinEntries
<1>5. ASSUME s \in Winners(h) PROVE WinItem(h) \in WinItems /\ PaidTo(b, WinItem(h), s) # {}
  <2> DEFINE item == WinItem(h)
             k == <<s, Payer(h), item>>
  <2>1. k \in DOMAIN b.ledger /\ item \in WinItems /\ k[3] = item /\ k[1] = s
    BY <1>5, WinItemsFacts DEF WinEntries
  <2> HIDE DEF k, item
  <2>2. k \in PaidTo(b, item, s)
    BY <1>2, <2>1 DEF PaidTo, ItemEntries
  <2>. QED
    BY <2>1, <2>2 DEF item
<1>. QED
  BY <1>3, <1>4, <1>5

LEMMA WinIsOwed ==
  ASSUME NEW h, Winners(h) # {}, Payer(h) = Everyone \/ Payer(h) \in Seats \ Winners(h),
         NobodyPays(h) => \E w : Winners(h) = {w},
         NEW b, Typed(b), NobodyPays(b) <=> NobodyPays(h), WinEntries(b, h), NEW rv,
         \A k \in DOMAIN b.ledger : FairEntry(b, k), NEW s \in Seats
  PROVE  (\E item \in WinItems : Amount(Owed(b, rv), <<s, item>>) > 0)
           <=> IF NobodyPays(h) THEN s \notin Winners(h) ELSE s = Payer(h)
<1>1. \A k \in Counted(b) : k \in DOMAIN b.ledger
  BY DEF Counted
<1>2. \A k \in DOMAIN b.ledger : k[3] \in WinItems => k \in Counted(b)
  BY ItemsAreApart DEF Counted
<1>3. \A item : \A k \in PaidToOthers(b, item, s) : k \in DOMAIN b.ledger /\ k[3] = item /\ s \in Others(k[1])
  BY <1>1 DEF PaidToOthers, ItemEntries, Others
<1>4. ASSUME NEW item \in WinItems
      PROVE  Amount(Owed(b, rv), <<s, item>>) > 0
               <=> PaidToOthers(b, item, s) # {} /\ (NobodyPays(h) \/ s = Payer(h))
  <2> DEFINE x == <<s, item>>
             D == Debts(b, x)
             f == Debt(b, rv, x)
             K == PaidToOthers(b, item, s)
             pays == NobodyPays(h) \/ s = Payer(h)
  <2>1. /\ Amount(Owed(b, rv), x) = SumOn(f, D)
        /\ IsFiniteSet(D) /\ D \in SUBSET K
        /\ \A k \in D : f[k] = PutsOut(b, rv, k, s)
        /\ K # {} => D # {}
    BY OwedIsDebts
  <2>2. \A k \in K : PutsOut(b, rv, k, s) \in Nat /\ (PutsOut(b, rv, k, s) > 0 <=> pays)
    BY <1>3, WinEntryIsPaid
  <2> HIDE DEF D, f, K, pays
  <2>3. \A k \in D : f[k] \in Nat /\ (f[k] > 0 <=> pays)
    BY <2>1, <2>2
  <2>4. SumOn(f, D) > 0 <=> \E k \in D : f[k] > 0
    BY <2>1, <2>3, SumIsPositive
  <2>5. SumOn(f, D) > 0 <=> K # {} /\ pays
    BY <2>1, <2>3, <2>4
  <2>. QED
    BY <2>1, <2>5 DEF x, K, pays
<1>5. ASSUME NEW item \in WinItems, PaidToOthers(b, item, s) # {}
      PROVE  \E i \in Winners(h) : i # s
  <2>1. PICK k \in Counted(b) : k[3] = item /\ k[1] # s
    BY <1>5 DEF PaidToOthers, ItemEntries
  <2>. QED
    BY <1>1, <2>1 DEF WinEntries
<1>6. ASSUME NEW i \in Winners(h), i # s
      PROVE  WinItem(h) \in WinItems /\ PaidToOthers(b, WinItem(h), s) # {}
  <2> DEFINE item == WinItem(h)
             k == <<i, Payer(h), item>>
  <2>1. k \in DOMAIN b.ledger /\ item \in WinItems /\ k[3] = item /\ k[1] = i
    BY WinItemsFacts DEF WinEntries
  <2> HIDE DEF k, item
  <2>2. k \in PaidToOthers(b, item, s)
    BY <1>2, <1>6, <2>1 DEF PaidToOthers, ItemEntries
  <2>. QED
    BY <2>1, <2>2 DEF item
<1>7. (\E item \in WinItems : Amount(Owed(b, rv), <<s, item>>) > 0)
        <=> (NobodyPays(h) \/ s = Payer(h)) /\ \E i \in Winners(h) : i # s
  BY <1>4, <1>5, <1>6
<1>8. CASE NobodyPays(h)
  <2>1. PICK w : Winners(h) = {w}
    BY <1>8
  <2>2. (\E i \in Winners(h) : i # s) <=> s \notin Winners(h)
    BY <2>1
  <2>. QED
    BY <1>7, <1>8, <2>2
<1>9. CASE ~ NobodyPays(h)
  <2>1. s = Payer(h) => \E i \in Winners(h) : i # s
    BY NobodyIsSeated
  <2>. QED
    BY <1>7, <1>9, <2>1
<1>. QED
  BY <1>8, <1>9

\* What a hand somebody has won says about its win.
LEMMA WonWinners ==
  ASSUME NEW h, Typed(h), Won(h)
  PROVE  /\ Winners(h) # {} /\ Winners(h) \in SUBSET Seats
         /\ Payer(h) = Everyone \/ Payer(h) \in Seats \ Winners(h)
         /\ NobodyPays(h) => \E w : Winners(h) = {w}
         /\ h.pao_hu_count > 0 => ~ NobodyPays(h) /\ Payer(h) = h.chu_seat
         /\ ~ (h.pao_hu_count > 0) /\ h.gang_hu_count > 0 => ~ NobodyPays(h) /\ Payer(h) = h.gang_hu_seat
         /\ ~ (h.pao_hu_count > 0) /\ ~ (h.gang_hu_count > 0) => NobodyPays(h)
<1>1. CASE Fed(h)
  <2>1. h.pao_hu_count > 0 /\ h.gang_hu_count = 0 /\ Payer(h) = h.chu_seat /\ ~ NobodyPays(h)
    <3>1. h.pao_hu_flag \in SUBSET Seats /\ h.pao_hu_flag # {} /\ h.pao_hu_count = Cardinality(h.pao_hu_flag)
      BY <1>1 DEF Fed, Typed
    <3>2. h.pao_hu_count > 0
      BY <3>1, HowManySeats
    <3>. QED
      BY <1>1, <3>2, NobodyIsSeated DEF Fed, Typed, Payer, NobodyPays
  <2>2. /\ Winners(h) # {} /\ Winners(h) \in SUBSET Seats /\ h.chu_seat \in Seats \ Winners(h)
    BY <1>1, NobodyIsSeated DEF Won, Fed, Robbing, Quiet, NoOffer, Winners, Typed
  <2>. QED
    BY <2>1, <2>2
<1>2. CASE Robbing(h)
  <2>1. h.gang_hu_count > 0 /\ h.pao_hu_count = 0 /\ Payer(h) = h.gang_hu_seat /\ ~ NobodyPays(h)
    <3>1. h.gang_hu_flag \in SUBSET Seats /\ h.gang_hu_flag # {} /\ h.gang_hu_count = Cardinality(h.gang_hu_flag)
      BY <1>2 DEF Robbing, Typed
    <3>2. h.gang_hu_count > 0
      BY <3>1, HowManySeats
    <3>. QED
      BY <1>2, <3>2, NobodyIsSeated DEF Robbing, Typed, Payer, NobodyPays
  <2>2. /\ Winners(h) # {} /\ Winners(h) \in SUBSET Seats /\ h.gang_hu_seat \in Seats \ Winners(h)
    BY <1>2, NobodyIsSeated DEF Won, Fed, Robbing, Quiet, NoOffer, Winners, Typed
  <2>. QED
    BY <2>1, <2>2
<1>3. CASE Quiet(h)
  <2>1. /\ h.pao_hu_count = 0 /\ h.gang_hu_count = 0 /\ Payer(h) = Everyone /\ NobodyPays(h)
    BY <1>3 DEF Quiet, NoOffer, Payer, NobodyPays
  <2>2. Winners(h) = {h.win_seatid} /\ h.win_seatid \in Seats
    BY <1>3, NobodyIsSeated DEF Won, Fed, Robbing, Quiet, NoOffer, Winners, Typed
  <2>. QED
    BY <2>1, <2>2
<1>. QED
  BY <1>1, <1>2, <1>3 DEF Won

\* A displayed win is paid to this hand's winners by the seat that fed it, or
\* by everybody else: never by whoever paid the last one (the payers' seats
\* outlive the hand, Table::reset, and PaoHu, GangHu and ZiMo ask them).
THEOREM WinnersArePaidByTheirPayer == Spec => []WinIsPaidByItsPayer
<1>1. SettlementInv => WinIsPaidByItsPayer
  <2> DEFINE q == hand
  <2> SUFFICES ASSUME Inv(q), History(q), q.stage = "won" PROVE WinIsPaidByItsPayer
    BY DEF SettlementInv, WinIsPaidByItsPayer
  <2>1. PICK h, rv : Decided(h) /\ Revealed(rv) /\ SettledWin(q, h, rv)
    BY DEF History, WinStep
  <2> DEFINE b == Booked(h, rv)
  <2>2. Hand(h) /\ Typed(h) /\ Won(h) /\ GangLedger(h.ledger)
    BY <2>1 DEF Decided, Unsettled, Hand
  <2>3. Typed(b) /\ (NobodyPays(b) <=> NobodyPays(h))
    <3>1. Hand(b) /\ Same(b, h, {"ledger"})
      BY <2>1, <2>2, BookedFacts
    <3>. QED
      BY <3>1, SameWon DEF Hand
  <2>4. WinEntries(b, h) /\ \A k \in DOMAIN b.ledger : FairEntry(b, k)
    BY <2>1, <2>2, BookedWin, BookedEntriesAreFair
  <2>5. /\ q.win_seatid = h.win_seatid /\ q.pao_hu_flag = h.pao_hu_flag /\ q.gang_hu_flag = h.gang_hu_flag
        /\ q.pao_hu_count = h.pao_hu_count /\ q.gang_hu_count = h.gang_hu_count
        /\ q.chu_seat = h.chu_seat /\ q.gang_hu_seat = h.gang_hu_seat
        /\ \A x : Amount(q.earned, x) = Amount(Earned(b, rv), x)
        /\ \A x : Amount(q.owed, x) = Amount(Owed(b, rv), x)
    BY <2>1 DEF SettledWin, Same, WonFields, SettleFields
  <2> DEFINE W == Winners(h)
             payer == Payer(h)
  <2>6. /\ W # {} /\ W \in SUBSET Seats
        /\ payer = Everyone \/ payer \in Seats \ W
        /\ NobodyPays(h) => \E w : W = {w}
        /\ h.pao_hu_count > 0 => ~ NobodyPays(h) /\ payer = h.chu_seat
        /\ ~ (h.pao_hu_count > 0) /\ h.gang_hu_count > 0 => ~ NobodyPays(h) /\ payer = h.gang_hu_seat
        /\ ~ (h.pao_hu_count > 0) /\ ~ (h.gang_hu_count > 0) => NobodyPays(h)
    BY <2>2, WonWinners
  <2>7. ASSUME NEW s \in Seats
        PROVE  (\E item \in WinItems : Amount(Earned(b, rv), <<s, item>>) > 0) <=> s \in W
    BY <2>3, <2>4, WinIsEarned
  <2>8. ASSUME NEW s \in Seats
        PROVE  (\E item \in WinItems : Amount(Owed(b, rv), <<s, item>>) > 0)
                 <=> IF NobodyPays(h) THEN s \notin W ELSE s = payer
    BY <2>3, <2>4, <2>6, WinIsOwed
  <2>9. Winners(hand) = W
    BY <2>5 DEF Winners
  <2> HIDE DEF W, payer, b
  <2>10. EarnersOf(WinItems) = W
    BY <2>5, <2>6, <2>7 DEF EarnersOf, Got
  <2>11. PayersOf(WinItems) = {s \in Seats : IF NobodyPays(h) THEN s \notin W ELSE s = payer}
    BY <2>5, <2>8 DEF PayersOf, Put
  <2>12. h.chu_seat \in Seats /\ (h.gang_hu_seat \in Seats \/ payer # h.gang_hu_seat \/ payer = Everyone)
    BY <2>2, <2>6 DEF Typed
  <2>13. ~ NobodyPays(h) => payer \in Seats
    BY <2>6, NobodyIsSeated DEF payer, Payer, NobodyPays, Everyone, Nowhere
  <2>14. PayersOf(WinItems) =
         CASE h.pao_hu_count > 0 -> {h.chu_seat}
           [] ~ (h.pao_hu_count > 0) /\ h.gang_hu_count > 0 -> {h.gang_hu_seat}
           [] OTHER -> Seats \ W
    BY <2>6, <2>11, <2>13
  <2>. QED
    BY <2>5, <2>9, <2>10, <2>14 DEF WinIsPaidByItsPayer
<1>. QED
  BY <1>1, InvHolds, PTL

-----------------------------------------------------------------------------
(* The gangs of a win.                                                     *)

LEMMA SumOfOneAtMost ==
  ASSUME NEW k, NEW P \in SUBSET {k}, NEW f, k \in P => f[k] \in Int
  PROVE  SumOn(f, P) = IF k \in P THEN f[k] ELSE 0
<1>1. CASE P = {}
  BY <1>1, SumEmpty
<1>2. CASE P # {}
  <2>1. P = {k} /\ k \in P
    BY <1>2
  <2>2. IsFiniteSet(P)
    BY <2>1, FS_Singleton
  <2>3. (\A x \in P : f[x] \in Int) /\ \A x \in P \ {k} : f[x] = 0
    BY <2>1
  <2>4. SumOn(f, P) = f[k]
    BY <2>1, <2>2, <2>3, SumOfOne
  <2>. QED
    BY <2>1, <2>4
<1>. QED
  BY <1>1, <1>2

LEMMA KeysAreTriples == \A k \in Keys : k = <<k[1], k[2], k[3]>>
BY DEF Keys

\* How many seats pay the amount of a gang.
GangPayers(item) == IF item = "ming_gang" THEN 1 ELSE SeatCount - 1

LEMMA GangGets ==
  ASSUME NEW b, Typed(b), NEW rv, NEW k \in DOMAIN b.ledger, k[3] \in GangItems
  PROVE  Gets(b, rv, k) = GangPayers(k[3]) * Amount(b.ledger, k) /\ Gets(b, rv, k) \in Int
<1> DEFINE v == b.ledger[k]
           n == IF k[3] \in {"peng_gang", "an_gang"} THEN SeatCount - 1 ELSE 1
           O == Others(k[1])
           kills == Kills(b, rv, k)
<1>1. /\ Gets(b, rv, k) \in Int
      /\ Gets(b, rv, k) = n * v + SumOn(kills, O)
  BY GetsFacts
<1>2. n = GangPayers(k[3]) /\ n \in Int
  BY SettlementAssumption DEF GangItems, GangPayers
<1>3. v \in Int /\ Amount(b.ledger, k) = v /\ k[1] \in Seats
  BY DEF Typed, Entries, Keys, Amount
<1>4. k[3] \notin {"zi_mo", "lian_zhuang"}
  BY DEF GangItems
<1>5. \A j \in O : kills[j] = 0
  BY <1>4 DEF Kills, KillsBaoTing, Others
<1>6. IsFiniteSet(O)
  BY <1>3, SeatsAreFinite
<1> HIDE DEF v, n, kills, O
<1>7. SumOn(kills, O) = 0
  BY <1>5, <1>6, SumOfZeros
<1>8. n * v \in Int
  BY <1>2, <1>3
<1>9. Gets(b, rv, k) = n * v
  BY <1>1, <1>7, <1>8
<1>. QED
  BY <1>1, <1>2, <1>3, <1>9

LEMMA GangEntriesCount ==
  ASSUME NEW b, ~ NoBirdsNoBeans(b), NEW item
  PROVE  ItemEntries(b, item) = {k \in DOMAIN b.ledger : k[3] = item}
BY DEF ItemEntries, Counted

LEMMA GangCredit ==
  ASSUME NEW b, Typed(b), ~ NoBirdsNoBeans(b), NEW rv, NEW item \in GangItems, NEW s, NEW j,
         NEW P \in SUBSET {<<s, j, item>>}, <<s, j, item>> \in P <=> <<s, j, item>> \in DOMAIN b.ledger
  PROVE  SumOn(Credit(b, rv), P) = GangPayers(item) * Amount(b.ledger, <<s, j, item>>)
<1> DEFINE k == <<s, j, item>>
           f == Credit(b, rv)
<1>1. k[3] = item
  OBVIOUS
<1>2. GangPayers(item) \in Int
  BY SettlementAssumption DEF GangPayers
<1>3. Amount(b.ledger, k) \in Int
  BY AmountIsInt DEF Typed
<1>4. P \in SUBSET {k} /\ (k \in P <=> k \in DOMAIN b.ledger)
  OBVIOUS
<1> HIDE DEF k
<1>5. ASSUME k \in P PROVE f[k] = GangPayers(item) * Amount(b.ledger, k) /\ f[k] \in Int
  <2>1. k \in DOMAIN b.ledger
    BY <1>4, <1>5
  <2>2. k \in Counted(b)
    BY <2>1 DEF Counted
  <2>3. f[k] = Gets(b, rv, k)
    BY <2>2 DEF Credit
  <2>. QED
    BY <1>1, <2>1, <2>3, GangGets
<1>6. k \notin P => Amount(b.ledger, k) = 0
  BY <1>4 DEF Amount
<1> HIDE DEF f
<1>7. SumOn(f, P) = IF k \in P THEN f[k] ELSE 0
  BY <1>4, <1>5, SumOfOneAtMost
<1>8. SumOn(f, P) = GangPayers(item) * Amount(b.ledger, k)
  BY <1>2, <1>5, <1>6, <1>7
<1>. QED
  BY <1>8 DEF k, f

\* A gang in the ledger that b differs from in the items of wins and birds.
SameGangs(b, g) ==
  /\ \A k : k[3] \in GangItems => Amount(b.ledger, k) = Amount(g.ledger, k)
  /\ \A k \in DOMAIN b.ledger : k[3] \in GangItems => k \in DOMAIN g.ledger

LEMMA OwnGangsArePaid ==
  ASSUME NEW b, Typed(b), ~ NoBirdsNoBeans(b), NEW g, GangLedger(g.ledger), SameGangs(b, g),
         NEW rv, NEW item \in {"peng_gang", "an_gang"}, NEW s \in Seats
  PROVE  Amount(Earned(b, rv), <<s, item>>) = (SeatCount - 1) * Amount(g.ledger, <<s, Everyone, item>>)
<1> DEFINE P == PaidTo(b, item, s)
           k0 == <<s, Everyone, item>>
<1>1. item \in GangItems /\ item # "ming_gang" /\ GangPayers(item) = SeatCount - 1
  BY DEF GangItems, GangPayers
<1>2. P = {k \in DOMAIN b.ledger : k[3] = item /\ k[1] = s}
  BY GangEntriesCount DEF PaidTo
<1>3. DOMAIN b.ledger \subseteq Keys
  BY DEF Typed, Entries
<1>4. \A k \in P : k = k0
  <2> SUFFICES ASSUME NEW k \in P PROVE k = k0
    OBVIOUS
  <2>1. k \in DOMAIN b.ledger /\ k[3] = item /\ k[1] = s
    BY <1>2
  <2>2. k[2] = Everyone
    BY <1>1, <2>1 DEF SameGangs, GangLedger
  <2>3. k = <<k[1], k[2], k[3]>>
    BY <1>3, <2>1, KeysAreTriples
  <2>. QED
    BY <2>1, <2>2, <2>3
<1>5. k0[1] = s /\ k0[3] = item
  OBVIOUS
<1>6. P \in SUBSET {k0} /\ (k0 \in P <=> k0 \in DOMAIN b.ledger)
  BY <1>2, <1>4, <1>5
<1> HIDE DEF P
<1>7. SumOn(Credit(b, rv), P) = GangPayers(item) * Amount(b.ledger, k0)
  BY <1>1, <1>6, GangCredit
<1>8. Amount(Earned(b, rv), <<s, item>>) = SumOn(Credit(b, rv), P)
  BY EarnedOf DEF P
<1>9. Amount(b.ledger, k0) = Amount(g.ledger, k0)
  BY <1>1, <1>5 DEF SameGangs
<1>. QED
  BY <1>1, <1>7, <1>8, <1>9

LEMMA MingGangsArePaid ==
  ASSUME NEW b, Typed(b), ~ NoBirdsNoBeans(b), NEW g, GangLedger(g.ledger), SameGangs(b, g),
         NEW rv, NEW s \in Seats
  PROVE  Amount(Earned(b, rv), <<s, "ming_gang">>) = SumOn(MingGangs(g, s), Seats)
<1> DEFINE item == "ming_gang"
           P == PaidTo(b, item, s)
           f == Credit(b, rv)
           feeder == [k \in P |-> k[2]]
           fed == MingGangs(g, s)
<1>1. item \in GangItems /\ GangPayers(item) = 1
  BY DEF GangItems, GangPayers
<1> HIDE DEF item
<1>2. P = {k \in DOMAIN b.ledger : k[3] = item /\ k[1] = s}
  BY GangEntriesCount DEF PaidTo
<1>3. DOMAIN b.ledger \subseteq Keys
  BY DEF Typed, Entries
<1>4. \A k \in P : k[2] \in Seats /\ k = <<s, k[2], item>> /\ k \in DOMAIN b.ledger /\ k[3] \in GangItems
  <2> SUFFICES ASSUME NEW k \in P
               PROVE  k[2] \in Seats /\ k = <<s, k[2], item>> /\ k \in DOMAIN b.ledger /\ k[3] \in GangItems
    OBVIOUS
  <2>1. k \in DOMAIN b.ledger /\ k[3] = item /\ k[1] = s
    BY <1>2
  <2>2. k[2] \in Others(k[1])
    BY <1>1, <2>1 DEF SameGangs, GangLedger, item
  <2>3. k = <<k[1], k[2], k[3]>>
    BY <1>3, <2>1, KeysAreTriples
  <2>. QED
    BY <1>1, <2>1, <2>2, <2>3 DEF Others
<1>5. \A k \in P : feeder[k] = k[2] /\ feeder[k] \in Seats
  BY <1>4
<1>6. \A k \in P : f[k] \in Int
  <2> SUFFICES ASSUME NEW k \in P PROVE f[k] \in Int
    OBVIOUS
  <2>1. k \in DOMAIN b.ledger /\ k[3] \in GangItems
    BY <1>4
  <2>2. f[k] = Gets(b, rv, k)
    BY <2>1 DEF Credit, Counted
  <2>. QED
    BY <2>1, <2>2, GangGets
<1>7. \A j \in Seats : fed[j] = SumOn(f, PartOf(P, feeder, j))
  <2> SUFFICES ASSUME NEW j \in Seats PROVE fed[j] = SumOn(f, PartOf(P, feeder, j))
    OBVIOUS
  <2> DEFINE Q == PartOf(P, feeder, j)
             k0 == <<s, j, item>>
  <2>1. Q = {k \in P : k[2] = j}
    BY <1>5 DEF PartOf
  <2>2. k0[1] = s /\ k0[2] = j /\ k0[3] = item
    OBVIOUS
  <2>3. Q \in SUBSET {k0}
    BY <1>4, <2>1
  <2>4. k0 \in Q <=> k0 \in DOMAIN b.ledger
    BY <1>2, <2>1, <2>2
  <2> HIDE DEF Q
  <2>5. SumOn(f, Q) = GangPayers(item) * Amount(b.ledger, k0)
    BY <1>1, <2>3, <2>4, GangCredit
  <2>6. Amount(b.ledger, k0) = Amount(g.ledger, k0) /\ Amount(b.ledger, k0) \in Int
    BY <1>1, <2>2, AmountIsInt DEF SameGangs, Typed
  <2>7. fed[j] = Amount(g.ledger, k0)
    BY DEF MingGangs, item
  <2> HIDE DEF k0
  <2>. QED
    BY <1>1, <2>5, <2>6, <2>7 DEF Q
<1>8. IsFiniteSet(P) /\ IsFiniteSet(Seats)
  <2>1. IsFiniteSet(DOMAIN b.ledger) /\ P \in SUBSET DOMAIN b.ledger
    BY <1>2, FiniteLedger DEF Typed
  <2> HIDE DEF P
  <2>. QED
    BY <2>1, SeatsAreFinite, FS_Subset
<1>9. \A k \in P : feeder[k] \in Seats
  BY <1>5
<1>10. Amount(Earned(b, rv), <<s, item>>) = SumOn(f, P)
  BY EarnedOf
<1> HIDE DEF P, f, feeder, fed
<1>11. SumOn(fed, Seats) = SumOn(f, P)
  BY ONLY <1>6, <1>7, <1>8, <1>9, SumByParts
<1>. QED
  BY <1>10, <1>11 DEF item, fed

\* After a hot or robbed win nothing but the win is in the ledger.
LEMMA NothingButTheWin ==
  ASSUME NEW h, Hand(h), Won(h), GangLedger(h.ledger), NEW rv, Revealed(rv), NoBirdsNoBeans(h),
         NEW b, b = Booked(h, rv), NEW item \in Items \ WinItems
  PROVE  ItemEntries(b, item) = {}
<1> DEFINE g == RobbedGang(h)
<1>1. /\ Hand(b) /\ Hand(g) /\ Same(b, h, {"ledger"})
      /\ \A k \in DOMAIN b.ledger : /\ k[3] \in BirdItems => k \in DOMAIN Birds(g, rv)
                                    /\ k[3] # "jiao_pai"
  BY BookedFacts
<1>2. NoBirdsNoBeans(b)
  BY <1>1, SameWon
<1>3. NoBirdsNoBeans(g)
  <2>1. Same(g, h, {"ledger"})
    BY RobbedGangFacts
  <2>. QED
    BY <2>1, SameWon
<1>4. Birds(g, rv) = <<>>
  BY <1>3 DEF Birds
<1> HIDE DEF g
<1> SUFFICES ASSUME NEW k \in Counted(b), k[3] = item PROVE FALSE
  BY DEF ItemEntries
<1>5. k \in DOMAIN b.ledger /\ k[3] \notin GangItems
  BY <1>2 DEF Counted
<1>6. k[3] \in BirdItems
  <2>1. item \in BirdItems \cup GangItems \cup {"jiao_pai"}
    BY DEF Items
  <2>. QED
    BY <1>1, <1>5, <2>1
<1>. QED
  BY <1>1, <1>4, <1>5, <1>6, NoAmount

LEMMA NoEntriesNoMoney ==
  ASSUME NEW b, Typed(b), NEW rv, NEW item, ItemEntries(b, item) = {}, NEW s \in Seats
  PROVE  Amount(Earned(b, rv), <<s, item>>) = 0 /\ Amount(Owed(b, rv), <<s, item>>) = 0
<1>1. PaidTo(b, item, s) = {} /\ PaidToOthers(b, item, s) = {}
  BY DEF PaidTo, PaidToOthers
<1>2. Amount(Earned(b, rv), <<s, item>>) = SumOn(Credit(b, rv), {})
  BY <1>1, EarnedOf
<1>3. Amount(Owed(b, rv), <<s, item>>) = SumOn(Debt(b, rv, <<s, item>>), {})
  <2>1. /\ Amount(Owed(b, rv), <<s, item>>) = SumOn(Debt(b, rv, <<s, item>>), Debts(b, <<s, item>>))
        /\ Debts(b, <<s, item>>) \in SUBSET PaidToOthers(b, item, s)
    BY OwedIsDebts
  <2>2. Debts(b, <<s, item>>) = {}
    BY <1>1, <2>1
  <2>. QED
    BY <2>1, <2>2
<1>. QED
  BY <1>2, <1>3, SumEmpty

\* The price of a gang.
Price(item) == IF item = "an_gang" THEN 2 ELSE 1

\* Whether the gang that was robbed counts in the account x.
RobbedOf(h, x) == IF h.gang_hu_count > 0 /\ x = <<h.gang_hu_seat, "peng_gang">> THEN 1 ELSE 0

LEMMA GangsOfWin ==
  ASSUME NEW h, Hand(h), Won(h), GangLedger(h.ledger), GangsBooked(h), ~ NoBirdsNoBeans(h),
         NEW rv, Revealed(rv), NEW b, b = Booked(h, rv),
         NEW s \in Seats, NEW item \in GangItems
  PROVE  Amount(Earned(b, rv), <<s, item>>) =
           (SeatCount - 1) * Price(item) * (Amount(h.gangs, <<s, item>>) - RobbedOf(h, <<s, item>>))
<1> DEFINE g == RobbedGang(h)
           n == SeatCount - 1
<1>1. /\ Hand(b) /\ Typed(b) /\ Same(b, h, {"ledger"}) /\ GangLedger(g.ledger)
      /\ SameGangs(b, g)
  BY BookedFacts DEF SameGangs, Hand
<1>2. ~ NoBirdsNoBeans(b)
  BY <1>1, SameWon
<1>3. \A k : Amount(g.ledger, k) =
              Amount(h.ledger, k)
                - (IF h.gang_hu_seat # Nowhere /\ k = <<h.gang_hu_seat, Everyone, "peng_gang">> THEN 1 ELSE 0)
  BY RobbedGangFacts
<1>4. h.gang_hu_seat # Nowhere <=> h.gang_hu_count > 0
  <2>1. Fed(h) \/ Robbing(h) \/ Quiet(h)
    BY DEF Won
  <2>2. CASE Robbing(h)
    <3>1. h.gang_hu_flag \in SUBSET Seats /\ h.gang_hu_flag # {} /\ h.gang_hu_count = Cardinality(h.gang_hu_flag)
      BY <2>2 DEF Robbing, Hand, Typed
    <3>2. h.gang_hu_count > 0
      BY <3>1, HowManySeats
    <3>. QED
      BY <2>2, <3>2, NobodyIsSeated DEF Robbing
  <2>. QED
    BY <2>1, <2>2 DEF Fed, Quiet, NoOffer
<1>5. \A k : Amount(h.ledger, k) \in Int /\ Amount(h.gangs, k) \in Int
  BY AmountIsInt DEF Hand, Typed
<1>6. n \in Int
  BY SettlementAssumption
<1>7. GangBooked(h, s)
  BY DEF GangsBooked
<1> HIDE DEF g
<1>8. CASE item = "an_gang"
  <2> DEFINE k == <<s, Everyone, "an_gang">>
             a == Amount(h.gangs, <<s, "an_gang">>)
  <2>1. Amount(Earned(b, rv), <<s, item>>) = n * Amount(g.ledger, k)
    BY <1>1, <1>2, <1>8, OwnGangsArePaid
  <2>2. k # <<h.gang_hu_seat, Everyone, "peng_gang">>
    OBVIOUS
  <2>3. Amount(g.ledger, k) = Amount(h.ledger, k) - 0 /\ Amount(h.ledger, k) = 2 * a /\ a \in Int
    BY <1>3, <1>5, <1>7, <2>2 DEF GangBooked
  <2>4. RobbedOf(h, <<s, item>>) = 0 /\ Price(item) = 2
    BY <1>8 DEF RobbedOf, Price
  <2>5. Amount(h.gangs, <<s, item>>) = a
    BY <1>8
  <2> HIDE DEF a, k, n
  <2>6. Amount(Earned(b, rv), <<s, item>>) = n * 2 * (a - 0)
    BY <1>5, <1>6, <2>1, <2>3
  <2>. QED
    BY <2>4, <2>5, <2>6 DEF n
<1>9. CASE item = "peng_gang"
  <2> DEFINE k == <<s, Everyone, "peng_gang">>
             a == Amount(h.gangs, <<s, "peng_gang">>)
             r == RobbedOf(h, <<s, "peng_gang">>)
  <2>1. Amount(Earned(b, rv), <<s, item>>) = n * Amount(g.ledger, k)
    BY <1>1, <1>2, <1>9, OwnGangsArePaid
  <2>2. /\ k = <<h.gang_hu_seat, Everyone, "peng_gang">> <=> s = h.gang_hu_seat
        /\ <<s, "peng_gang">> = <<h.gang_hu_seat, "peng_gang">> <=> s = h.gang_hu_seat
    OBVIOUS
  <2>3. r = IF h.gang_hu_count > 0 /\ s = h.gang_hu_seat THEN 1 ELSE 0
    BY <2>2 DEF RobbedOf
  <2>4. Amount(h.ledger, k) = a /\ a \in Int
    BY <1>5, <1>7 DEF GangBooked
  <2>5. Amount(g.ledger, k) = Amount(h.ledger, k) - r
    <3>1. Amount(g.ledger, k) = Amount(h.ledger, k) - (IF h.gang_hu_seat # Nowhere /\ s = h.gang_hu_seat THEN 1 ELSE 0)
      BY <1>3, <2>2
    <3>. QED
      BY <1>4, <2>3, <3>1
  <2>6. Amount(h.gangs, <<s, item>>) = a /\ RobbedOf(h, <<s, item>>) = r /\ Price(item) = 1
    BY <1>9 DEF Price
  <2>7. r \in Int
    BY <2>3
  <2> HIDE DEF a, k, n, r
  <2>8. Amount(Earned(b, rv), <<s, item>>) = n * 1 * (a - r)
    BY <1>6, <2>1, <2>4, <2>5, <2>7
  <2>. QED
    BY <2>6, <2>8 DEF n
<1>10. CASE item = "ming_gang"
  <2> DEFINE a == Amount(h.gangs, <<s, "ming_gang">>)
  <2>1. Amount(Earned(b, rv), <<s, item>>) = SumOn(MingGangs(g, s), Seats)
    BY <1>1, <1>2, <1>10, MingGangsArePaid
  <2>2. \A j \in Seats : MingGangs(g, s)[j] = MingGangs(h, s)[j]
    <3> SUFFICES ASSUME NEW j \in Seats PROVE MingGangs(g, s)[j] = MingGangs(h, s)[j]
      OBVIOUS
    <3> DEFINE k == <<s, j, "ming_gang">>
    <3>1. k # <<h.gang_hu_seat, Everyone, "peng_gang">>
      OBVIOUS
    <3>2. Amount(g.ledger, k) = Amount(h.ledger, k) - 0
      BY <1>3, <3>1
    <3>3. Amount(h.ledger, k) \in Int
      BY <1>5
    <3>. QED
      BY <3>2, <3>3 DEF MingGangs
  <2>3. SumOn(MingGangs(g, s), Seats) = SumOn(MingGangs(h, s), Seats)
    BY <2>2, SeatsAreFinite, SumSame
  <2>4. SumOn(MingGangs(h, s), Seats) = n * a /\ a \in Int
    BY <1>5, <1>7 DEF GangBooked
  <2>5. Amount(h.gangs, <<s, item>>) = a /\ RobbedOf(h, <<s, item>>) = 0 /\ Price(item) = 1
    BY <1>10 DEF RobbedOf, Price
  <2> HIDE DEF a, n
  <2>6. Amount(Earned(b, rv), <<s, item>>) = n * 1 * (a - 0)
    BY <1>6, <2>1, <2>3, <2>4
  <2>. QED
    BY <2>5, <2>6 DEF n
<1>. QED
  BY <1>8, <1>9, <1>10 DEF GangItems

\* A hot or robbed win of one seat settles nothing but the win; a win that is
\* neither settles the gangs of this hand as they were made, each at its price
\* (handler_gang books them); and of several robbers' wins, which settle the
\* other gangs too, none pays for the gang they robbed (GangHu takes it back).
THEOREM GangsAreSettledOnce == Spec => []GangsArePaidOnce
<1>1. SettlementInv => GangsArePaidOnce
  <2> DEFINE q == hand
  <2> SUFFICES ASSUME Inv(q), History(q), q.stage = "won" PROVE GangsArePaidOnce
    BY DEF SettlementInv, GangsArePaidOnce, HotWinPaysOnlyTheWin
  <2>1. PICK h, rv : Decided(h) /\ Revealed(rv) /\ SettledWin(q, h, rv)
    BY DEF History, WinStep
  <2> DEFINE b == Booked(h, rv)
  <2>2. Hand(h) /\ Won(h) /\ GangLedger(h.ledger) /\ GangsBooked(h)
    BY <2>1 DEF Decided, Unsettled
  <2>3. Hand(b) /\ Typed(b)
    BY <2>1, <2>2, BookedFacts DEF Hand
  <2>4. /\ q.win_seatid = h.win_seatid /\ q.gang_hu_seat = h.gang_hu_seat /\ q.gangs = h.gangs
        /\ q.pao_hu_count = h.pao_hu_count /\ q.gang_hu_count = h.gang_hu_count
        /\ q.last_actions = h.last_actions /\ q.chu_seat = h.chu_seat
        /\ \A x : Amount(q.earned, x) = Amount(Earned(b, rv), x)
        /\ \A x : Amount(q.owed, x) = Amount(Owed(b, rv), x)
    BY <2>1 DEF SettledWin, Same, WonFields, SettleFields
  <2>5. NoBirdsNoBeans(h) <=> hand.win_seatid # Nowhere /\ (Hot \/ Robbed)
    BY <2>1, <2>4 DEF Decided, HotWin, Hot, Robbed
  <2>6. ASSUME hand.win_seatid # Nowhere, Hot \/ Robbed
        PROVE  EarnersOf(Items \ WinItems) = {} /\ PayersOf(Items \ WinItems) = {}
    <3>1. ASSUME NEW s \in Seats, NEW item \in Items \ WinItems
          PROVE  Got(s, item) = 0 /\ Put(s, item) = 0
      <4>1. ItemEntries(b, item) = {}
        BY <2>1, <2>2, <2>5, <2>6, NothingButTheWin
      <4>2. Amount(Earned(b, rv), <<s, item>>) = 0 /\ Amount(Owed(b, rv), <<s, item>>) = 0
        BY <2>3, <4>1, NoEntriesNoMoney
      <4>. QED
        BY <2>4, <4>2 DEF Got, Put
    <3>. QED
      BY <3>1 DEF EarnersOf, PayersOf
  <2>7. ASSUME ~ (hand.win_seatid # Nowhere /\ (Hot \/ Robbed)), NEW s \in Seats, NEW item \in GangItems
        PROVE  Got(s, item) = GangDue(s, item)
    <3> DEFINE x == <<s, item>>
               r == IF Robbed /\ x = <<hand.gang_hu_seat, "peng_gang">> THEN 1 ELSE 0
               price == IF item = "an_gang" THEN 2 ELSE 1
    <3>1. Amount(Earned(b, rv), x) = (SeatCount - 1) * Price(item) * (Amount(h.gangs, x) - RobbedOf(h, x))
      BY <2>1, <2>2, <2>5, <2>7, GangsOfWin
    <3>2. RobbedOf(h, x) = r
      BY <2>4 DEF RobbedOf, Robbed
    <3>3. Price(item) = price
      BY DEF Price
    <3>4. Amount(hand.gangs, x) = Amount(h.gangs, x) /\ Got(s, item) = Amount(Earned(b, rv), x)
      BY <2>4 DEF Got
    <3> HIDE DEF x, r, price
    <3>5. Got(s, item) = (SeatCount - 1) * price * (Amount(hand.gangs, x) - r)
      BY <3>1, <3>2, <3>3, <3>4
    <3>. QED
      BY <3>5 DEF GangDue, x, r, price
  <2>8. ASSUME Robbed, hand.win_seatid = Nowhere
        PROVE  Got(hand.gang_hu_seat, "peng_gang") <= GangDue(hand.gang_hu_seat, "peng_gang")
    <3>1. hand.gang_hu_seat \in Seats
      BY <2>2, <2>4, <2>8 DEF Won, Fed, Robbing, Quiet, NoOffer, Robbed
    <3>2. Got(hand.gang_hu_seat, "peng_gang") = GangDue(hand.gang_hu_seat, "peng_gang")
      BY <2>7, <2>8, <3>1 DEF GangItems
    <3>3. Got(hand.gang_hu_seat, "peng_gang") \in Int
      BY AmountIsInt DEF Got, Inv, Hand, Typed
    <3>. QED
      BY <3>2, <3>3
  <2>9. hand.win_seatid # Nowhere => HotWinPaysOnlyTheWin
    BY <2>6 DEF HotWinPaysOnlyTheWin
  <2>. QED
    BY <2>7, <2>8, <2>9 DEF GangsArePaidOnce
<1>. QED
  BY <1>1, InvHolds, PTL

-----------------------------------------------------------------------------
(* The chong feng ji.                                                      *)

ChongItems == {"chong_feng_ji", "chong_feng_wu_gu_ji"}
BirdOf(item) == IF item = "chong_feng_ji" THEN YaoJi ELSE BaTong

LEMMA ChongFengWorth ==
  ASSUME NEW g, Typed(g), NEW rv, NEW s \in Seats, NEW item \in ChongItems
  PROVE  /\ ChongFeng(g, rv, s)[item] \in Nat
         /\ ChongFeng(g, rv, s)[item] > 0 <=> g.seat_birds[s][BirdOf(item)].chong
<1>1. ChongFeng(g, rv, s)[item] =
        CASE item = "chong_feng_ji" /\ g.seat_birds[s][YaoJi].chong ->
               IF HasJinJi(g, rv, s) THEN 4 ELSE 2
          [] item = "chong_feng_wu_gu_ji" /\ g.seat_birds[s][BaTong].chong -> 2
          [] OTHER -> 0
  BY DEF ChongFeng, ChongItems
<1>2. CASE item = "chong_feng_ji"
  BY <1>1, <1>2 DEF BirdOf
<1>3. CASE item = "chong_feng_wu_gu_ji"
  BY <1>1, <1>3 DEF BirdOf
<1>. QED
  BY <1>2, <1>3 DEF ChongItems

LEMMA AddsNothing ==
  ASSUME NEW l, NEW m, NEW k, Amount(l, k) \in Int, Amount(m, k) = 0
  PROVE  Amount(AddAll(l, m), k) = Amount(l, k) /\ Amount(AddAll(m, l), k) = Amount(l, k)
<1>1. /\ DOMAIN AddAll(l, m) = DOMAIN l \cup DOMAIN m
      /\ DOMAIN AddAll(m, l) = DOMAIN l \cup DOMAIN m
      /\ k \in DOMAIN l \cup DOMAIN m => /\ AddAll(l, m)[k] = Amount(l, k) + Amount(m, k)
                                         /\ AddAll(m, l)[k] = Amount(m, k) + Amount(l, k)
  BY AddAllFacts
<1>2. CASE k \in DOMAIN l \cup DOMAIN m
  BY <1>1, <1>2 DEF Amount
<1>3. CASE k \notin DOMAIN l \cup DOMAIN m
  BY <1>1, <1>3 DEF Amount
<1>. QED
  BY <1>2, <1>3

\* Seat i is paid by seat j for the chong feng ji of seat s.
PaysForFirst(g, rv, s, i, j) ==
  \/ /\ s \in PaidForBirds(g, rv) /\ ("bao_ji" \in g.options \/ s = g.win_seatid)
     /\ i = s /\ j \in Others(s)
  \/ /\ s \notin PaidForBirds(g, rv) /\ "bao_ji" \in g.options
     /\ j = s /\ i \in PaidForBirds(g, rv) \ {s}

LEMMA NoFirstAmongCards ==
  ASSUME NEW g, NEW rv, NEW s, NEW i, NEW j, NEW item \in ChongItems
  PROVE  Amount(BirdCards(g, rv, s), <<i, j, item>>) = 0
<1> DEFINE jiPai == JiPai(g.options, rv.turned)
           I == {jiPai[b] : b \in DOMAIN jiPai}
           D == {<<s, u, x>> : u \in Others(s), x \in I}
<1>1. DOMAIN BirdCards(g, rv, s) = D
  BY DEF BirdCards
<1>2. item \notin I
  BY DEF JiPai, ChongItems
<1> HIDE DEF I
<1>3. <<i, j, item>> \notin D
  BY <1>2
<1>. QED
  BY <1>1, <1>3 DEF Amount

LEMMA NoFirstAmongZeRen ==
  ASSUME NEW g, NEW s, NEW i, NEW j, NEW item \in ChongItems
  PROVE  Amount([k \in {<<u, s, "ze_ren_ji">> : u \in Others(s)} |-> ZeRen(g, s)], <<i, j, item>>) = 0
BY DEF Amount, ChongItems

\* What the seats' birds say of the first tiles.
LEMMA FirstOfSeat ==
  ASSUME NEW g, Typed(g), NEW rv, Revealed(rv), NEW s \in Seats, NEW item \in ChongItems, NEW i, NEW j
  PROVE  Amount(SeatsBirds(g, rv)[s], <<i, j, item>>) =
           IF PaysForFirst(g, rv, s, i, j) THEN ChongFeng(g, rv, s)[item] ELSE 0
<1> DEFINE c == ChongFeng(g, rv, s)
           k == <<i, j, item>>
           m == [x \in {<<u, s, "ze_ren_ji">> : u \in Others(s)} |-> ZeRen(g, s)]
<1>1. /\ DOMAIN c = ChongItems /\ c[item] \in Int
      /\ Amount(m, k) = 0 /\ k[3] = item
  <2>1. DOMAIN c = ChongItems
    BY ChongFengItems DEF ChongItems
  <2>2. c[item] \in Int
    BY ChongFengWorth
  <2>3. Amount(m, k) = 0
    BY NoFirstAmongZeRen
  <2>. QED
    BY <2>1, <2>2, <2>3
<1>2. CASE s \in PaidForBirds(g, rv)
  <2> DEFINE l == [x \in {<<s, u, t>> : u \in Others(s), t \in DOMAIN c} |-> c[x[3]]]
             p == ChongFengPaid(g, rv, s)
  <2>1. SeatsBirds(g, rv)[s] = AddAll(BirdCards(g, rv, s), p)
    BY <1>2 DEF SeatsBirds
  <2>2. Amount(BirdCards(g, rv, s), k) = 0
    BY NoFirstAmongCards
  <2>3. Amount(p, k) = IF PaysForFirst(g, rv, s, i, j) THEN c[item] ELSE 0
    <3>1. CASE ~ ("bao_ji" \in g.options \/ s = g.win_seatid)
      <4>1. p = <<>> /\ ~ PaysForFirst(g, rv, s, i, j)
        BY <1>2, <3>1 DEF ChongFengPaid, PaysForFirst
      <4>. QED
        BY <4>1, NoAmount
    <3>2. CASE "bao_ji" \in g.options \/ s = g.win_seatid
      <4>1. p = AddAll(l, m)
        BY <3>2 DEF ChongFengPaid
      <4>2. PaysForFirst(g, rv, s, i, j) <=> i = s /\ j \in Others(s)
        BY <1>2, <3>2 DEF PaysForFirst
      <4>3. k \in DOMAIN l <=> i = s /\ j \in Others(s)
        <5>1. DOMAIN l = {<<s, u, t>> : u \in Others(s), t \in ChongItems}
          BY <1>1
        <5>2. <<i, j, item>> \in {<<s, u, t>> : u \in Others(s), t \in ChongItems}
                <=> i = s /\ j \in Others(s)
          OBVIOUS
        <5> HIDE DEF l
        <5>. QED
          BY <5>1, <5>2
      <4>4. k \in DOMAIN l => l[k] = c[item]
        BY <1>1
      <4> HIDE DEF c, k, m, l
      <4>5. Amount(l, k) = IF PaysForFirst(g, rv, s, i, j) THEN c[item] ELSE 0
        BY <4>2, <4>3, <4>4 DEF Amount
      <4>6. Amount(l, k) \in Int
        BY <1>1, <4>5
      <4>7. Amount(AddAll(l, m), k) = Amount(l, k)
        BY <1>1, <4>6, AddsNothing
      <4>. QED
        BY <4>1, <4>5, <4>7
    <3>. QED
      BY <3>1, <3>2
  <2> HIDE DEF p, c, k, m
  <2>4. Amount(p, k) \in Int
    BY <1>1, <2>3
  <2>5. Amount(AddAll(BirdCards(g, rv, s), p), k) = Amount(p, k)
    BY <2>2, <2>4, AddsNothing
  <2>. QED
    BY <2>1, <2>3, <2>5 DEF k, c
<1>3. CASE s \notin PaidForBirds(g, rv) /\ "bao_ji" \in g.options
  <2> DEFINE e == [t \in {"yao_ji", "wu_gu_ji"} |->
                     g.seat_birds[s][IF t = "yao_ji" THEN YaoJi ELSE BaTong].loose]
             owed == AddAll(c, e)
             J == PaidForBirds(g, rv) \ {s}
             l == [x \in {<<u, s, t>> : u \in J, t \in DOMAIN owed} |-> owed[x[3]]]
  <2>1. SeatsBirds(g, rv)[s] = AddAll(l, m)
    BY <1>3 DEF SeatsBirds, BaoJi
  <2>2. item \in DOMAIN owed /\ owed[item] = c[item]
    <3>1. Amount(c, item) = c[item] /\ Amount(e, item) = 0
      BY <1>1 DEF Amount, ChongItems
    <3>2. item \in DOMAIN c
      BY <1>1
    <3> HIDE DEF c, e
    <3>3. item \in DOMAIN owed
      BY <3>2, AddAllFacts
    <3>4. Amount(owed, item) = Amount(c, item)
      BY <1>1, <3>1, AddsNothing
    <3>. QED
      BY <3>1, <3>3, <3>4 DEF Amount
  <2>3. PaysForFirst(g, rv, s, i, j) <=> j = s /\ i \in J
    BY <1>3 DEF PaysForFirst
  <2> HIDE DEF owed, J
  <2>4. k \in DOMAIN l <=> j = s /\ i \in J
    BY <2>2
  <2>5. k \in DOMAIN l => l[k] = c[item]
    BY <1>1, <2>2
  <2> HIDE DEF c, k, m, l
  <2>6. Amount(l, k) = IF PaysForFirst(g, rv, s, i, j) THEN c[item] ELSE 0
    BY <2>3, <2>4, <2>5 DEF Amount
  <2>7. Amount(l, k) \in Int
    BY <1>1, <2>6
  <2>8. Amount(AddAll(l, m), k) = Amount(l, k)
    BY <1>1, <2>7, AddsNothing
  <2>. QED
    BY <2>1, <2>6, <2>8 DEF k, c
<1>4. CASE s \notin PaidForBirds(g, rv) /\ "bao_ji" \notin g.options
  <2>1. SeatsBirds(g, rv)[s] = <<>> /\ ~ PaysForFirst(g, rv, s, i, j)
    BY <1>4 DEF SeatsBirds, PaysForFirst
  <2>. QED
    BY <2>1, NoAmount
<1>. QED
  BY <1>2, <1>3, <1>4

\* Some seat's first tile is paid by j to i.
FirstIsPaid(g, rv, item, i, j) ==
  \E s \in Seats : g.seat_birds[s][BirdOf(item)].chong /\ PaysForFirst(g, rv, s, i, j)

LEMMA FirstsOfAll ==
  ASSUME NEW g, Typed(g), ~ NoBirdsNoBeans(g), NEW rv, Revealed(rv),
         NEW item \in ChongItems, NEW i, NEW j
  PROVE  /\ Amount(Birds(g, rv), <<i, j, item>>) \in Nat
         /\ Amount(Birds(g, rv), <<i, j, item>>) > 0 <=> FirstIsPaid(g, rv, item, i, j)
<1> DEFINE of == SeatsBirds(g, rv)
           k == <<i, j, item>>
           f == [s \in Seats |-> Amount(of[s], k)]
<1>1. Birds(g, rv) = AddUp(of, Seats)
  BY BirdsFacts
<1>2. \A s \in Seats : Entries(of[s], Keys)
  BY SeatsBirdsFacts DEF BirdEntries
<1>3. \A s \in Seats : f[s] = IF PaysForFirst(g, rv, s, i, j) THEN ChongFeng(g, rv, s)[item] ELSE 0
  BY FirstOfSeat
<1>4. \A s \in Seats : /\ ChongFeng(g, rv, s)[item] \in Nat
                       /\ ChongFeng(g, rv, s)[item] > 0 <=> g.seat_birds[s][BirdOf(item)].chong
  BY ChongFengWorth
<1> HIDE DEF of, k
<1>5. Amount(AddUp(of, Seats), k) = SumOn(f, Seats)
  BY <1>2, AddUpFacts
<1> HIDE DEF f
<1>6. \A s \in Seats : f[s] \in Nat
  BY <1>3, <1>4
<1>7. SumOn(f, Seats) \in Nat /\ (SumOn(f, Seats) > 0 <=> \E s \in Seats : f[s] > 0)
  BY <1>6, SeatsAreFinite, SumIsPositive
<1>8. (\E s \in Seats : f[s] > 0) <=> FirstIsPaid(g, rv, item, i, j)
  BY <1>3, <1>4 DEF FirstIsPaid
<1>. QED
  BY <1>1, <1>5, <1>7, <1>8 DEF k

\* Who gets something for the birds of an item, and who puts something out.
LEMMA BirdMoney ==
  ASSUME NEW b, Typed(b), NEW rv, NEW item \in BirdItems,
         \A k \in ItemEntries(b, item) : b.ledger[k] \in Positive /\ k[2] \in Others(k[1]),
         NEW s \in Seats
  PROVE  /\ Amount(Earned(b, rv), <<s, item>>) > 0 <=> \E k \in ItemEntries(b, item) : k[1] = s
         /\ Amount(Owed(b, rv), <<s, item>>) > 0 <=> \E k \in ItemEntries(b, item) : k[2] = s
<1>1. /\ IsFiniteSet(ItemEntries(b, item))
      /\ \A k \in ItemEntries(b, item) : k \in DOMAIN b.ledger /\ k \in Counted(b) /\ k[1] \in Seats /\ k[3] = item
  BY ItemEntriesFacts
<1>2. /\ item \notin {"peng_gang", "an_gang", "zi_mo", "lian_zhuang"} /\ item # "gang_hu"
  BY ItemsOfBirds
<1>3. (Amount(Earned(b, rv), <<s, item>>) > 0) <=> \E k \in ItemEntries(b, item) : k[1] = s
  <2> DEFINE P == PaidTo(b, item, s)
             f == Credit(b, rv)
  <2>1. Amount(Earned(b, rv), <<s, item>>) = SumOn(f, P)
    BY EarnedOf
  <2>2. P \in SUBSET ItemEntries(b, item) /\ (P # {} <=> \E k \in ItemEntries(b, item) : k[1] = s)
    BY DEF PaidTo
  <2>3. ASSUME NEW k \in P PROVE f[k] \in Positive
    <3>1. /\ Gets(b, rv, k) = (IF k[3] \in {"peng_gang", "an_gang"} THEN SeatCount - 1 ELSE 1) * b.ledger[k]
                                + SumOn(Kills(b, rv, k), Others(k[1]))
          /\ SumOn(Kills(b, rv, k), Others(k[1])) \in Nat
      BY <1>1, <2>2, GetsFacts
    <3>2. k[3] \notin {"peng_gang", "an_gang"} /\ b.ledger[k] \in Positive
      BY <1>1, <1>2, <2>2
    <3>3. Gets(b, rv, k) = 1 * b.ledger[k] + SumOn(Kills(b, rv, k), Others(k[1]))
      BY ONLY <3>1, <3>2
    <3>4. Gets(b, rv, k) \in Positive
      BY ONLY <3>1, <3>2, <3>3 DEF Positive
    <3>5. f[k] = Gets(b, rv, k)
      BY <1>1, <2>2 DEF Credit
    <3>. QED
      BY <3>4, <3>5
  <2> HIDE DEF P, f
  <2>4. IsFiniteSet(P)
    BY <1>1, <2>2, FS_Subset
  <2>5. SumOn(f, P) > 0 <=> P # {}
    BY <2>3, <2>4, PositiveSum
  <2>. QED
    BY <2>1, <2>2, <2>5
<1>4. (Amount(Owed(b, rv), <<s, item>>) > 0) <=> \E k \in ItemEntries(b, item) : k[2] = s
  <2> DEFINE D == Debts(b, <<s, item>>)
             f == Debt(b, rv, <<s, item>>)
             O == PaidToOthers(b, item, s)
  <2>1. /\ Amount(Owed(b, rv), <<s, item>>) = SumOn(f, D) /\ IsFiniteSet(D) /\ D \in SUBSET O
        /\ \A k \in D : f[k] = PutsOut(b, rv, k, s)
    BY OwedIsDebts
  <2>2. O = D
    BY <1>2 DEF Debts, PaidToOthers, ItemEntries
  <2>3. \A k \in O : k \in ItemEntries(b, item) /\ k[1] # s
    BY DEF PaidToOthers
  <2>4. \A k \in O : f[k] = IF k[2] = s THEN b.ledger[k] ELSE 0
    <3>1. \A k \in O : ~ PaidByAll(b, k)
      BY <1>1, <1>2, <2>3 DEF PaidByAll
    <3>2. \A k \in O : PutsOut(b, rv, k, s) = IF k[2] = s THEN b.ledger[k] ELSE 0
      BY <3>1 DEF PutsOut
    <3>. QED
      BY <2>1, <2>2, <3>2
  <2>5. (\E k \in O : k[2] = s) <=> \E k \in ItemEntries(b, item) : k[2] = s
    BY DEF PaidToOthers, Others
  <2> HIDE DEF D, f, O
  <2>6. \A k \in O : f[k] \in Nat /\ (f[k] > 0 <=> k[2] = s)
    BY <2>3, <2>4 DEF Positive
  <2>7. SumOn(f, O) > 0 <=> \E k \in O : f[k] > 0
    BY <2>1, <2>2, <2>6, SumIsPositive
  <2>. QED
    BY <2>1, <2>2, <2>5, <2>6, <2>7
<1>. QED
  BY <1>3, <1>4

\* Who is paid for the first tiles of a bird when a hand is won.
LEMMA FirstsOfWin ==
  ASSUME NEW h, Hand(h), Won(h), GangLedger(h.ledger), ~ NoBirdsNoBeans(h), NEW rv, Revealed(rv),
         NEW b, b = Booked(h, rv), NEW g, g = RobbedGang(h), NEW item \in ChongItems, NEW s \in Seats
  PROVE  /\ Amount(Earned(b, rv), <<s, item>>) > 0 <=> \E j \in Seats : FirstIsPaid(g, rv, item, s, j)
         /\ Amount(Owed(b, rv), <<s, item>>) > 0 <=> \E i \in Seats : FirstIsPaid(g, rv, item, i, s)
<1>1. /\ Hand(b) /\ Hand(g) /\ BirdEntries(Birds(g, rv))
      /\ \A k : k[3] \in BirdItems => Amount(b.ledger, k) = Amount(Birds(g, rv), k)
      /\ \A k \in DOMAIN b.ledger : /\ b.ledger[k] # 0
                                    /\ k[3] \in BirdItems => k \in DOMAIN Birds(g, rv)
  BY BookedFacts
<1>2. Typed(b) /\ Typed(g) /\ item \in BirdItems
  BY <1>1 DEF Hand, ChongItems, BirdItems
<1>3. ~ NoBirdsNoBeans(g)
  BY SameWon, RobbedGangFacts
<1>4. \A i, j : /\ Amount(Birds(g, rv), <<i, j, item>>) \in Nat
                /\ Amount(Birds(g, rv), <<i, j, item>>) > 0 <=> FirstIsPaid(g, rv, item, i, j)
  BY <1>2, <1>3, FirstsOfAll
<1>5. \A k \in ItemEntries(b, item) : k \in DOMAIN b.ledger /\ k \in Counted(b) /\ k \in Keys /\ k[3] = item
  BY <1>2, ItemEntriesFacts
<1>6. ASSUME NEW k \in ItemEntries(b, item)
      PROVE  /\ b.ledger[k] \in Positive /\ k[2] \in Others(k[1])
             /\ FirstIsPaid(g, rv, item, k[1], k[2]) /\ k[1] \in Seats /\ k[2] \in Seats
  <2>1. k \in DOMAIN b.ledger /\ k \in Keys /\ k[3] = item
    BY <1>5
  <2>2. k = <<k[1], k[2], item>>
    BY <2>1, KeysAreTriples
  <2>3. k \in DOMAIN Birds(g, rv) /\ k[2] \in Others(k[1])
    BY <1>1, <1>2, <2>1 DEF BirdEntries
  <2>4. b.ledger[k] = Amount(Birds(g, rv), k) /\ b.ledger[k] # 0
    <3>1. Amount(b.ledger, k) = Amount(Birds(g, rv), k) /\ b.ledger[k] # 0
      BY <1>1, <1>2, <2>1
    <3>2. Amount(b.ledger, k) = b.ledger[k]
      BY <2>1 DEF Amount
    <3>. QED
      BY <3>1, <3>2
  <2> DEFINE a == Amount(Birds(g, rv), <<k[1], k[2], item>>)
  <2>5. a \in Nat /\ (a > 0 <=> FirstIsPaid(g, rv, item, k[1], k[2]))
    BY <1>4
  <2>6. b.ledger[k] = a
    BY <2>2, <2>4
  <2> HIDE DEF a
  <2>7. b.ledger[k] \in Positive /\ FirstIsPaid(g, rv, item, k[1], k[2])
    BY <2>4, <2>5, <2>6 DEF Positive
  <2>8. k[1] \in Seats /\ k[2] \in Seats
    BY <2>1, <2>3 DEF Keys, Others
  <2>. QED
    BY <2>3, <2>7, <2>8
<1>7. ASSUME NEW i \in Seats, NEW j \in Seats, FirstIsPaid(g, rv, item, i, j)
      PROVE  \E k \in ItemEntries(b, item) : k[1] = i /\ k[2] = j
  <2> DEFINE k == <<i, j, item>>
  <2>1. k[1] = i /\ k[2] = j /\ k[3] = item
    OBVIOUS
  <2>2. Amount(Birds(g, rv), k) \in Nat /\ Amount(Birds(g, rv), k) > 0
    BY <1>4, <1>7
  <2> HIDE DEF k
  <2>3. Amount(b.ledger, k) # 0
    BY <1>1, <1>2, <2>1, <2>2
  <2>4. k \in DOMAIN b.ledger
    BY <2>3 DEF Amount
  <2>5. k \in Counted(b)
    BY <1>2, <2>1, <2>4, ItemsAreApart DEF Counted
  <2>6. k \in ItemEntries(b, item)
    BY <2>1, <2>5 DEF ItemEntries
  <2>. QED
    BY <2>1, <2>6
<1>8. /\ Amount(Earned(b, rv), <<s, item>>) > 0 <=> \E k \in ItemEntries(b, item) : k[1] = s
      /\ Amount(Owed(b, rv), <<s, item>>) > 0 <=> \E k \in ItemEntries(b, item) : k[2] = s
  <2>1. \A k \in ItemEntries(b, item) : b.ledger[k] \in Positive /\ k[2] \in Others(k[1])
    BY <1>6
  <2>. QED
    BY <1>2, <2>1, BirdMoney
<1>9. (\E k \in ItemEntries(b, item) : k[1] = s) <=> \E j \in Seats : FirstIsPaid(g, rv, item, s, j)
  BY <1>6, <1>7
<1>10. (\E k \in ItemEntries(b, item) : k[2] = s) <=> \E i \in Seats : FirstIsPaid(g, rv, item, i, s)
  BY <1>6, <1>7
<1>. QED
  BY <1>8, <1>9, <1>10

\* What is said of the first tile of a bird, about the hand q.
FirstIsPaidOneWay(q, item) ==
  LET owners == {s \in Seats : q.seat_birds[s][BirdOf(item)].chong}
      good == q.waits \cup Winners(q)
      earners == {s \in Seats : Amount(q.earned, <<s, item>>) > 0}
      payers == {s \in Seats : Amount(q.owed, <<s, item>>) > 0}
  IN  \/ earners = {} /\ payers = {}
      \/ earners = owners /\ payers = Seats \ owners /\ owners \subseteq good
      \/ /\ payers = owners /\ earners \subseteq good \ owners
         /\ owners \cap good \subseteq Winners(q) \ {q.win_seatid}

LEMMA NothingPaidOneWay ==
  ASSUME NEW q, NEW item,
         \A s \in Seats : Amount(q.earned, <<s, item>>) = 0 /\ Amount(q.owed, <<s, item>>) = 0
  PROVE  FirstIsPaidOneWay(q, item)
BY DEF FirstIsPaidOneWay

\* Who is paid for birds is good for them, and a good seat that is not has
\* the winning tile in hand.
LEMMA WhoIsPaidForBirds ==
  ASSUME NEW h, Typed(h), NEW rv, NEW q, q.waits = Waits(h, rv),
         q.win_seatid = h.win_seatid, q.pao_hu_flag = h.pao_hu_flag, q.gang_hu_flag = h.gang_hu_flag
  PROVE  /\ PaidForBirds(h, rv) \subseteq q.waits \cup Winners(q)
         /\ (q.waits \cup Winners(q)) \ PaidForBirds(h, rv) \subseteq Winners(q) \ {q.win_seatid}
<1>1. Nowhere \notin Seats /\ Waits(h, rv) \in SUBSET Seats
  BY NobodyIsSeated, WaitsFacts
<1>2. h.pao_hu_flag \in SUBSET Seats /\ h.gang_hu_flag \in SUBSET Seats
  BY DEF Typed
<1>3. h.win_seatid \in Seats \cup {Nowhere}
  BY DEF Typed
<1>4. ASSUME NEW s \in PaidForBirds(h, rv) PROVE s \in q.waits \cup Winners(q)
  BY <1>1 DEF PaidForBirds, Winners
<1>5. ASSUME NEW s \in q.waits \cup Winners(q), s \notin PaidForBirds(h, rv)
      PROVE  s \in Winners(q) \ {q.win_seatid}
  <2>1. s \in Seats
    BY <1>1, <1>2, <1>3 DEF Winners
  <2>2. s # h.win_seatid /\ (s \in Waits(h, rv) => s \in h.pao_hu_flag \cup h.gang_hu_flag)
    BY <1>5, <2>1 DEF PaidForBirds
  <2>. QED
    BY <2>2 DEF Winners
<1>. QED
  BY <1>4, <1>5

LEMMA WonOneWay ==
  ASSUME NEW h, Decided(h), NEW rv, Revealed(rv), NEW q, SettledWin(q, h, rv), NEW item \in ChongItems
  PROVE  FirstIsPaidOneWay(q, item)
<1> DEFINE b == Booked(h, rv)
           g == RobbedGang(h)
           P == PaidForBirds(h, rv)
           chong(s) == h.seat_birds[s][BirdOf(item)].chong
           pays(o, i, j) == PaysForFirst(h, rv, o, i, j)
<1>1. Hand(h) /\ Typed(h) /\ Won(h) /\ GangLedger(h.ledger) /\ FirstBirds(h)
  BY DEF Decided, Unsettled, Hand
<1>2. /\ q.seat_birds = h.seat_birds /\ q.win_seatid = h.win_seatid
      /\ q.pao_hu_flag = h.pao_hu_flag /\ q.gang_hu_flag = h.gang_hu_flag
      /\ q.waits = Waits(h, rv)
      /\ \A x : Amount(q.earned, x) = Amount(Earned(b, rv), x)
      /\ \A x : Amount(q.owed, x) = Amount(Owed(b, rv), x)
  BY DEF SettledWin, Same, WonFields, SettleFields
<1>3. Hand(b) /\ Typed(b)
  BY <1>1, BookedFacts DEF Hand
<1>4. CASE NoBirdsNoBeans(h)
  <2>1. item \in Items \ WinItems
    BY DEF ChongItems, Items, BirdItems, WinItems
  <2>2. ItemEntries(b, item) = {}
    BY <1>1, <1>4, <2>1, NothingButTheWin
  <2>3. \A s \in Seats : Amount(Earned(b, rv), <<s, item>>) = 0 /\ Amount(Owed(b, rv), <<s, item>>) = 0
    BY <1>3, <2>2, NoEntriesNoMoney
  <2>. QED
    BY <1>2, <2>3, NothingPaidOneWay
<1>5. CASE ~ NoBirdsNoBeans(h)
  <2>1. \A s \in Seats :
          /\ Amount(Earned(b, rv), <<s, item>>) > 0 <=> \E j \in Seats : FirstIsPaid(g, rv, item, s, j)
          /\ Amount(Owed(b, rv), <<s, item>>) > 0 <=> \E i \in Seats : FirstIsPaid(g, rv, item, i, s)
    BY <1>1, <1>5, FirstsOfWin
  <2>2. \A i, j : FirstIsPaid(g, rv, item, i, j) <=> \E o \in Seats : chong(o) /\ pays(o, i, j)
    <3>1. Same(g, h, {"ledger"})
      BY <1>1, RobbedGangFacts
    <3>2. /\ g.seat_birds = h.seat_birds /\ g.options = h.options /\ g.win_seatid = h.win_seatid
          /\ g.stage = h.stage /\ g.cur = h.cur
          /\ g.pao_hu_flag = h.pao_hu_flag /\ g.gang_hu_flag = h.gang_hu_flag
      BY <3>1 DEF Same
    <3>3. PaidForBirds(g, rv) = P
      BY <3>2 DEF PaidForBirds, Waits, FullHand
    <3> HIDE DEF g, P
    <3>4. \A o, i, j : PaysForFirst(g, rv, o, i, j) <=> pays(o, i, j)
      BY <3>2, <3>3 DEF PaysForFirst, P
    <3>. QED
      BY <3>2, <3>4 DEF FirstIsPaid
  <2>3. \A s, u \in Seats : chong(s) /\ chong(u) => s = u
    <3>1. FirstBird(h, BirdOf(item))
      BY <1>1 DEF FirstBirds, BirdOf, BirdTiles
    <3>. QED
      BY <3>1 DEF FirstBird, Owns
  <2> DEFINE earns(s) == Amount(q.earned, <<s, item>>) > 0
             owes(s) == Amount(q.owed, <<s, item>>) > 0
             good == q.waits \cup Winners(q)
  <2>4. \A s \in Seats : /\ earns(s) <=> \E j \in Seats, o \in Seats : chong(o) /\ pays(o, s, j)
                         /\ owes(s) <=> \E i \in Seats, o \in Seats : chong(o) /\ pays(o, i, s)
    BY <1>2, <2>1, <2>2
  <2>5. /\ P \subseteq good /\ good \ P \subseteq Winners(q) \ {q.win_seatid}
        /\ P \subseteq Seats
    BY <1>1, <1>2, WhoIsPaidForBirds DEF PaidForBirds
  <2>6. \A s \in Seats : Others(s) # {} /\ Others(s) = Seats \ {s}
    BY SettlementAssumption DEF Others, Seats
  <2> DEFINE owners == {s \in Seats : q.seat_birds[s][BirdOf(item)].chong}
             earners == {s \in Seats : earns(s)}
             payers == {s \in Seats : owes(s)}
  <2>7. \A s \in Seats : s \in owners <=> chong(s)
    BY <1>2
  <2>8. \/ earners = {} /\ payers = {}
        \/ earners = owners /\ payers = Seats \ owners /\ owners \subseteq good
        \/ /\ payers = owners /\ earners \subseteq good \ owners
           /\ owners \cap good \subseteq Winners(q) \ {q.win_seatid}
    <3>1. /\ owners \subseteq Seats
          /\ \A s : s \in earners <=> s \in Seats /\ earns(s)
          /\ \A s : s \in payers <=> s \in Seats /\ owes(s)
      OBVIOUS
    <3>2. \A o, i, j : pays(o, i, j) <=>
            \/ /\ o \in P /\ ("bao_ji" \in h.options \/ o = h.win_seatid)
               /\ i = o /\ j \in Seats \ {o}
            \/ o \notin P /\ "bao_ji" \in h.options /\ j = o /\ i \in P \ {o}
      BY DEF PaysForFirst, Others
    <3> HIDE DEF owners, earners, payers, earns, owes, good, P, chong, pays
    <3>3. CASE owners = {}
      BY <2>4, <2>7, <3>1, <3>3
    <3>4. CASE owners # {}
      <4>1. PICK o \in Seats : owners = {o} /\ chong(o)
        BY <2>3, <2>7, <3>1, <3>4
      <4>2. \A s \in Seats : /\ earns(s) <=> \E j \in Seats : pays(o, s, j)
                             /\ owes(s) <=> \E i \in Seats : pays(o, i, s)
        BY <2>3, <2>4, <4>1
      <4>3. CASE o \in P /\ ("bao_ji" \in h.options \/ o = h.win_seatid)
        <5>1. \A i, j : pays(o, i, j) <=> i = o /\ j \in Seats \ {o}
          BY <3>2, <4>3
        <5>2. earners = {o} /\ payers = Seats \ {o}
          BY <2>6, <3>1, <4>1, <4>2, <5>1
        <5>. QED
          BY <2>5, <4>1, <4>3, <5>2
      <4>4. CASE o \notin P /\ "bao_ji" \in h.options
        <5>1. \A i, j : pays(o, i, j) <=> j = o /\ i \in P \ {o}
          BY <3>2, <4>4
        <5>2. earners = P \ {o} /\ payers = (IF P \ {o} = {} THEN {} ELSE {o})
          BY <2>5, <3>1, <4>1, <4>2, <5>1
        <5>. QED
          BY <2>5, <4>1, <4>4, <5>2
      <4>5. CASE ~ (o \in P /\ ("bao_ji" \in h.options \/ o = h.win_seatid))
                 /\ ~ (o \notin P /\ "bao_ji" \in h.options)
        <5>1. \A i, j : ~ pays(o, i, j)
          BY <3>2, <4>5
        <5>2. earners = {} /\ payers = {}
          BY <3>1, <4>2, <5>1
        <5>. QED
          BY <5>2
      <4>. QED
        BY <4>3, <4>4, <4>5
    <3>. QED
      BY <3>3, <3>4
  <2>. QED
    BY ONLY <2>8 DEF FirstIsPaidOneWay, owners, earners, payers, earns, owes, good
<1>. QED
  BY <1>4, <1>5

\* The chong feng ji of a settled hand is paid in one direction
\* (update_account_bet): to its owner by everybody, or by its owner to the
\* seats that won or wait, and then only if he does neither by himself.
THEOREM FirstBirdIsPaidOneWay == Spec => []ChongFengIsPaidOneWay
<1>1. SettlementInv => ChongFengIsPaidOneWay
  <2> SUFFICES ASSUME Inv(hand), History(hand), hand.settled PROVE ChongFengIsPaidOneWay
    BY DEF SettlementInv, ChongFengIsPaidOneWay
  <2>1. hand.stage \in {"won", "ended"}
    <3>1. hand.stage \in Playing \cup {"idle", "won", "ended", "closed"}
      BY DEF Inv, Hand, Typed
    <3>2. hand.stage \notin Playing
      BY DEF Inv, Course, Open, Unsettled
    <3>. QED
      BY <3>1, <3>2 DEF History, CloseStep, IdleStep
  <2>2. ASSUME NEW q, NEW item \in ChongItems, WinStep(q)
        PROVE  FirstIsPaidOneWay(q, item)
    <3>1. PICK h, rv : Decided(h) /\ Revealed(rv) /\ SettledWin(q, h, rv)
      BY <2>2 DEF WinStep
    <3>. QED
      BY <3>1, WonOneWay
  <2>3. ASSUME NEW item \in ChongItems PROVE FirstIsPaidOneWay(hand, item)
    <3>1. CASE WinStep(hand)
      BY <2>2, <3>1
    <3>2. CASE DrawStep(hand)
      <4>1. PICK g, rv : SettledDraw(hand, g, rv)
        BY <3>2 DEF DrawStep, DrawnWith
      <4>2. item # "jiao_pai"
        BY DEF ChongItems
      <4>3. \A s \in Seats : Amount(hand.earned, <<s, item>>) = 0 /\ Amount(hand.owed, <<s, item>>) = 0
        BY <4>1, <4>2 DEF SettledDraw
      <4>. QED
        BY <4>3, NothingPaidOneWay
    <3>3. CASE \E g : Inv(g) /\ WinStep(g) /\ ShowStep(g, hand)
      <4>1. PICK g : WinStep(g) /\ ShowStep(g, hand)
        BY <3>3
      <4>2. FirstIsPaidOneWay(g, item)
        BY <2>2, <4>1
      <4>3. /\ hand.seat_birds = g.seat_birds /\ hand.waits = g.waits
            /\ hand.earned = g.earned /\ hand.owed = g.owed /\ hand.win_seatid = g.win_seatid
            /\ hand.pao_hu_flag = g.pao_hu_flag /\ hand.gang_hu_flag = g.gang_hu_flag
        BY <4>1 DEF ShowStep, Same, EndFields
      <4>. QED
        BY <4>2, <4>3 DEF FirstIsPaidOneWay, Winners
    <3>. QED
      BY <2>1, <3>1, <3>2, <3>3 DEF History
  <2>4. ASSUME NEW item \in ChongItems
        PROVE  LET owners == {s \in Seats : hand.seat_birds[s][BirdOf(item)].chong}
                   good == hand.waits \cup Winners(hand)
                   earners == EarnersOf({item})
                   payers == PayersOf({item})
               IN  \/ earners = {} /\ payers = {}
                   \/ earners = owners /\ payers = Seats \ owners /\ owners \subseteq good
                   \/ /\ payers = owners /\ earners \subseteq good \ owners
                      /\ owners \cap good \subseteq Winners(hand) \ {hand.win_seatid}
    <3>1. /\ EarnersOf({item}) = {s \in Seats : Amount(hand.earned, <<s, item>>) > 0}
          /\ PayersOf({item}) = {s \in Seats : Amount(hand.owed, <<s, item>>) > 0}
      BY DEF EarnersOf, PayersOf, Got, Put
    <3>. QED
      BY <2>3, <3>1 DEF FirstIsPaidOneWay
  <2>5. \A x \in {<<YaoJi, "chong_feng_ji">>, <<BaTong, "chong_feng_wu_gu_ji">>} :
          x[2] \in ChongItems /\ BirdOf(x[2]) = x[1]
    BY DEF ChongItems, BirdOf
  <2> SUFFICES ASSUME NEW x \in {<<YaoJi, "chong_feng_ji">>, <<BaTong, "chong_feng_wu_gu_ji">>}
               PROVE  LET owners == {s \in Seats : hand.seat_birds[s][x[1]].chong}
                          good == hand.waits \cup Winners(hand)
                          earners == EarnersOf({x[2]})
                          payers == PayersOf({x[2]})
                      IN  \/ earners = {} /\ payers = {}
                          \/ earners = owners /\ payers = Seats \ owners /\ owners \subseteq good
                          \/ /\ payers = owners /\ earners \subseteq good \ owners
                             /\ owners \cap good \subseteq Winners(hand) \ {hand.win_seatid}
    BY DEF ChongFengIsPaidOneWay
  <2> DEFINE item == x[2]
  <2>6. item \in ChongItems /\ BirdOf(item) = x[1]
    BY <2>5
  <2> HIDE DEF item
  <2>. QED
    BY <2>4, <2>6 DEF item
<1>. QED
  BY <1>1, InvHolds, PTL
=============================================================================
