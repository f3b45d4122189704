----------------------------- MODULE RoomProofs -----------------------------
(***************************************************************************)
(* A table plays no hand beyond its round, and its counters, votes and     *)
(* timers stay consistent, for any players, seats and boards.              *)
(*                                                                         *)
(* The bound on hands is not inductive.  What keeps a table that has       *)
(* played its last hand from starting another is that every seat is still  *)
(* marked ready, so that handler_ready counts nobody (LastHand); the only  *)
(* timer that unmarks the seats of an open table is preready_timer, and it *)
(* runs outside END_GAME only for a first hand of several (LateTimer).     *)
(*                                                                         *)
(* Each hand is settled and recorded once, each table paid for once and no *)
(* hand wiped off it, as long as nobody gets ready at a closing table: the *)
(* second half (HandInv) keeps the books of the hand, of the fee and of    *)
(* the timers that end a hand.                                             *)
(***************************************************************************)
EXTENDS Room, FiniteSetTheorems, TLAPS

Seated(r) ==
  /\ r.ready \subseteq r.players
  /\ r.ready_players <= Cardinality(r.ready)
  /\ Cardinality(r.players) <= r.max_ready_players
  /\ r.game_end_flag \/ r.ready_players = Cardinality(r.ready)
  /\ r.owner_uid = Nobody => r.players = {}
  /\ r.owner_uid # Nobody => r.owner_uid \in r.players

Votes(r) ==
  /\ r.dismiss # {} <=> "dismiss" \in r.timers
  /\ r.dismiss # {} => r.round_count > 0
  /\ r.game_end_flag => "preready" \in r.timers

LastHand(r) ==
  /\ r.round_count > 0 => Cardinality(r.players) = r.max_ready_players
  /\ r.state = "ROOM_WAIT_GAME" \/ r.owner_uid = Nobody => r.round_count = 0
  /\ r.state = "BETTING" => r.ready = r.players /\ r.round_count > 0
  /\ r.round_count <= MaxPlayBoard
  /\ r.round_count = MaxPlayBoard =>
       /\ r.ready = r.players
       /\ r.state # "BETTING" => r.game_end_flag
       /\ r.state = "READY" => r.ready_players = 0

LateTimer(r) ==
  /\ "preready" \in r.timers /\ ~ r.game_end_flag =>
       /\ r.state # "READY"
       /\ r.state = "BETTING" => r.round_count = 1 /\ MaxPlayBoard > 1
  /\ MaxPlayBoard = 1 =>
       /\ r.game_end_flag => r.round_count = 1 /\ r.state # "BETTING"
       /\ "ji_card" \in r.timers => r.round_count = 1 /\ ~ r.ji_card_late
       /\ "preready" \in r.timers => r.game_end_flag

TableInv(r) == r \in TableType /\ Seated(r) /\ Votes(r) /\ LastHand(r) /\ LateTimer(r)

-----------------------------------------------------------------------------
(* Counting players.                                                       *)

LEMMA CountPlayers ==
  ASSUME NEW S \in SUBSET Players
  PROVE  /\ Cardinality(S) \in Nat
         /\ Cardinality(S) = 0 <=> S = {}
         /\ \A p \in Players : Cardinality(S \cup {p}) =
              IF p \in S THEN Cardinality(S) ELSE Cardinality(S) + 1
         /\ \A p \in Players : Cardinality(S \ {p}) =
              IF p \in S THEN Cardinality(S) - 1 ELSE Cardinality(S)
         /\ \A T \in SUBSET S : Cardinality(T) \in Nat /\ Cardinality(T) <= Cardinality(S)
                                /\ (Cardinality(T) = Cardinality(S) => T = S)
<1>1. IsFiniteSet(S)
  BY RoomAssumption, FS_Subset
<1>2. \A T \in SUBSET S : IsFiniteSet(T) /\ Cardinality(T) <= Cardinality(S)
                          /\ (Cardinality(T) = Cardinality(S) => T = S)
  BY <1>1, FS_Subset
<1>3. \A p \in Players : /\ Cardinality(S \cup {p}) =
                              IF p \in S THEN Cardinality(S) ELSE Cardinality(S) + 1
                         /\ Cardinality(S \ {p}) =
                              IF p \in S THEN Cardinality(S) - 1 ELSE Cardinality(S)
  BY <1>1, FS_AddElement, FS_RemoveElement
<1>4. Cardinality(S) = 0 <=> S = {}
  BY <1>1, FS_EmptySet
<1>. QED
  BY <1>1, <1>2, <1>3, <1>4, FS_CardinalityType

LEMMA EmptyCount == Cardinality({}) = 0
BY FS_EmptySet

-----------------------------------------------------------------------------
(* The functions of the code keep the invariant.                           *)

\* Stopping any timer but those of the vote and of the cleaning.
LEMMA StopKeeps ==
  ASSUME NEW r, TableInv(r), NEW t \in {"ready", "ahead_start", "ji_card"}
  PROVE  /\ TableInv(Stop(r, t))
         /\ Stop(r, t) = [r EXCEPT !.timers = @ \ {t}]
BY DEF TableInv, TableType, Seated, Votes, LastHand, LateTimer, Stop, Timers

\* test_game_start starts no hand beyond the round.
LEMMA TestGameStartKeeps ==
  ASSUME NEW r, TableInv(r)
  PROVE  TableInv(TestGameStart(r))
<1>1. CASE r.ready_players < AtLeastTwo(r.max_ready_players)
  BY <1>1, StopKeeps DEF TestGameStart
<1>2. CASE /\ ~ r.ready_players < AtLeastTwo(r.max_ready_players)
           /\ r.state \notin {"READY", "ROOM_WAIT_GAME"}
  BY <1>2 DEF TestGameStart
<1>3. CASE /\ ~ r.ready_players < AtLeastTwo(r.max_ready_players)
           /\ r.state \in {"READY", "ROOM_WAIT_GAME"}
  <2> DEFINE q == Stop(r, "ready")
  <2>1. /\ TableInv(q) /\ q.players = r.players /\ q.ready = r.ready
        /\ q.ready_players = r.ready_players /\ q.state = r.state
        /\ q.max_ready_players = r.max_ready_players
    BY StopKeeps DEF TableInv, TableType
  <2>2. /\ q.ready_players >= q.max_ready_players /\ q.ready_players >= 2
        /\ q.max_ready_players \in Nat /\ q.ready_players \in Nat
    BY <1>3, <2>1, RoomAssumption DEF AtLeastTwo, TableInv, TableType
  <2>3. /\ q.ready = q.players /\ Cardinality(q.players) = q.max_ready_players
        /\ q.players # {}
    <3>1. q.players \in SUBSET Players /\ q.ready \in SUBSET q.players
      BY <2>1 DEF TableInv, TableType, Seated
    <3>2. /\ Cardinality(q.players) \in Nat /\ Cardinality(q.ready) \in Nat
          /\ Cardinality(q.ready) <= Cardinality(q.players)
          /\ (Cardinality(q.ready) = Cardinality(q.players) => q.ready = q.players)
          /\ (Cardinality(q.players) = 0 <=> q.players = {})
      BY <3>1, CountPlayers
    <3>3. q.ready_players <= Cardinality(q.ready) /\ Cardinality(q.players) <= q.max_ready_players
      BY <2>1 DEF TableInv, Seated
    <3>. QED
      BY <2>2, <3>2, <3>3
  <2>4. q.round_count # MaxPlayBoard
    BY <1>3, <2>1, <2>2, RoomAssumption DEF TableInv, LastHand
  <2> DEFINE s == GameStart(q)
  <2>5. s = [q EXCEPT !.state = "BETTING", !.round_count = @ + 1, !.settled = 0, !.recorded = 0]
    BY DEF GameStart
  <2> HIDE DEF q, s
  <2>6. s \in TableType
    <3>1. q \in TableType
      BY <2>1 DEF TableInv
    <3>2. PICK n \in Nat : n = q.round_count + 1
      BY <3>1 DEF TableType
    <3>3. s = [q EXCEPT !.state = "BETTING", !.round_count = n, !.settled = 0, !.recorded = 0]
      BY <2>5, <3>2
    <3>. QED
      BY <3>1, <3>3 DEF TableType
  <2>7. Seated(s) /\ Votes(s)
    BY <2>1, <2>5 DEF TableInv, TableType, Seated, Votes
  <2>8. LastHand(s)
    BY <2>1, <2>3, <2>4, <2>5, RoomAssumption DEF TableInv, TableType, Seated, LastHand
  <2>9. LateTimer(s)
    BY <1>3, <2>1, <2>2, <2>4, <2>5, RoomAssumption DEF TableInv, TableType, LastHand, LateTimer
  <2>. QED
    BY <1>3, <2>6, <2>7, <2>8, <2>9 DEF TestGameStart, TableInv, q, s
<1>. QED
  BY <1>1, <1>2, <1>3

\* What an ending hand, its settlement and its timers leave alone.
SameSeats(r, s) ==
  /\ s.players = r.players /\ s.ready = r.ready /\ s.ready_players = r.ready_players
  /\ s.max_ready_players = r.max_ready_players /\ s.round_count = r.round_count
  /\ s.dismiss = r.dismiss /\ s.owner_uid = r.owner_uid

\* update_account_bet touches nothing the invariant is about.
LEMMA UpdateAccountBetFacts ==
  ASSUME NEW r \in TableType
  PROVE  LET s == UpdateAccountBet(r)
         IN  /\ s \in TableType /\ SameSeats(r, s) /\ s.state = r.state
             /\ s.game_end_flag = r.game_end_flag /\ s.timers = r.timers
             /\ s.ji_card_late = r.ji_card_late
<1>1. PICK n \in Nat : n = r.settled + 1
  BY DEF TableType
<1>2. UpdateAccountBet(r) = IF r.already_update_account_bet THEN r
        ELSE [r EXCEPT !.already_update_account_bet = TRUE, !.settled = n]
  BY <1>1 DEF UpdateAccountBet
<1>3. CASE r.already_update_account_bet
  BY <1>2, <1>3 DEF SameSeats
<1>4. CASE ~ r.already_update_account_bet
  <2> DEFINE s == [r EXCEPT !.already_update_account_bet = TRUE, !.settled = n]
  <2>1. s \in TableType
    BY DEF TableType
  <2>2. /\ SameSeats(r, s) /\ s.state = r.state /\ s.game_end_flag = r.game_end_flag
        /\ s.timers = r.timers /\ s.ji_card_late = r.ji_card_late
    BY DEF TableType, SameSeats
  <2>. QED
    BY <1>2, <1>4, <2>1, <2>2
<1>. QED
  BY <1>3, <1>4

\* game_end leaves the seats; it closes the table if the round is over.
LEMMA GameEndFacts ==
  ASSUME NEW r \in TableType, NEW flag \in BOOLEAN
  PROVE  LET s == GameEnd(r, flag)
         IN  /\ s \in TableType /\ SameSeats(r, s) /\ s.state = "END_GAME"
             /\ r.players = {} =>
                  /\ s.game_end_flag = r.game_end_flag /\ s.timers = r.timers
                  /\ s.ji_card_late = r.ji_card_late
             /\ r.players # {} =>
                  /\ s.game_end_flag <=> r.game_end_flag \/ RoundIsOver(r, flag)
                  /\ s.timers = r.timers \cup {"preready"}
                  /\ s.ji_card_late = FALSE
<1> DEFINE ended == [r EXCEPT !.state = "END_GAME", !.game_end_count_flag = TRUE]
           bet   == UpdateAccountBet(ended)
           saved == IF SaveFlag(r)
                    THEN [bet EXCEPT !.recorded = @ + 1,
                                     !.finished = IF flag THEN @ ELSE @ + 1]
                    ELSE ended
           closed == IF RoundIsOver(r, flag)
                     THEN [saved EXCEPT !.round_records = @ + 1, !.game_end_flag = TRUE]
                     ELSE saved
<1>1. /\ ended \in TableType /\ SameSeats(r, ended) /\ ended.state = "END_GAME"
      /\ ended.game_end_flag = r.game_end_flag /\ ended.timers = r.timers
      /\ ended.ji_card_late = r.ji_card_late
  BY DEF TableType, SameSeats
<1> HIDE DEF ended
<1>2. /\ bet \in TableType /\ SameSeats(r, bet) /\ bet.state = "END_GAME"
      /\ bet.game_end_flag = r.game_end_flag /\ bet.timers = r.timers
  BY <1>1, UpdateAccountBetFacts DEF SameSeats
<1> HIDE DEF bet
<1>3. /\ saved \in TableType /\ SameSeats(r, saved) /\ saved.state = "END_GAME"
      /\ saved.game_end_flag = r.game_end_flag /\ saved.timers = r.timers
  <2>1. PICK m \in Nat : m = bet.recorded + 1
    BY <1>2 DEF TableType
  <2>2. PICK n \in Nat : n = IF flag THEN bet.finished ELSE bet.finished + 1
    BY <1>2 DEF TableType
  <2>3. saved = IF SaveFlag(r) THEN [bet EXCEPT !.recorded = m, !.finished = n] ELSE ended
    BY <2>1, <2>2
  <2> DEFINE s == [bet EXCEPT !.recorded = m, !.finished = n]
  <2>4. s \in TableType
    BY <1>2 DEF TableType
  <2>5. /\ SameSeats(bet, s) /\ s.state = bet.state /\ s.game_end_flag = bet.game_end_flag
        /\ s.timers = bet.timers
    BY <1>2 DEF TableType, SameSeats
  <2> HIDE DEF s
  <2>6. saved \in {s, ended}
    BY <2>3 DEF s
  <2>. QED
    BY <1>1, <1>2, <2>4, <2>5, <2>6 DEF SameSeats
<1> HIDE DEF saved
<1>4. /\ closed \in TableType /\ SameSeats(r, closed) /\ closed.state = "END_GAME"
      /\ closed.game_end_flag <=> r.game_end_flag \/ RoundIsOver(r, flag)
      /\ closed.timers = r.timers
  <2>1. PICK n \in Nat : n = saved.round_records + 1
    BY <1>3 DEF TableType
  <2>2. closed = IF RoundIsOver(r, flag)
                 THEN [saved EXCEPT !.round_records = n, !.game_end_flag = TRUE] ELSE saved
    BY <2>1
  <2> DEFINE s == [saved EXCEPT !.round_records = n, !.game_end_flag = TRUE]
  <2>3. s \in TableType
    BY <1>3 DEF TableType
  <2>4. /\ SameSeats(saved, s) /\ s.state = saved.state /\ s.game_end_flag = TRUE
        /\ s.timers = saved.timers
    BY <1>3 DEF TableType, SameSeats
  <2> HIDE DEF s
  <2>5. closed = IF RoundIsOver(r, flag) THEN s ELSE saved
    BY <2>2 DEF s
  <2> HIDE DEF closed
  <2>6. CASE RoundIsOver(r, flag)
    BY <1>3, <2>3, <2>4, <2>5, <2>6 DEF SameSeats
  <2>7. CASE ~RoundIsOver(r, flag)
    BY <1>3, <2>5, <2>7
  <2>. QED
    BY <2>6, <2>7
<1> HIDE DEF closed
<1>5. GameEnd(r, flag) = IF r.players = {} THEN ended
                         ELSE [Arm(closed, "preready") EXCEPT !.ji_card_late = FALSE]
  BY DEF GameEnd, closed, saved, bet, ended
<1>6. Arm(closed, "preready") = [closed EXCEPT !.timers = @ \cup {"preready"}]
  BY DEF Arm
<1> DEFINE s == [closed EXCEPT !.timers = @ \cup {"preready"}, !.ji_card_late = FALSE]
<1>7. s \in TableType
  BY <1>4 DEF TableType, Timers
<1>8. /\ SameSeats(closed, s) /\ s.state = closed.state
      /\ s.game_end_flag = closed.game_end_flag
      /\ s.timers = closed.timers \cup {"preready"} /\ s.ji_card_late = FALSE
  BY <1>4 DEF TableType, SameSeats
<1>9. GameEnd(r, flag) = IF r.players = {} THEN ended ELSE s
  BY <1>4, <1>5, <1>6 DEF TableType
<1> HIDE DEF s
<1>. QED
  BY <1>1, <1>4, <1>7, <1>8, <1>9 DEF SameSeats

\* Reset forgets who is ready in the counter, not at the seats.
LEMMA ResetFacts ==
  ASSUME NEW r \in TableType
  PROVE  LET s == Reset(r)
         IN  /\ s \in TableType /\ s.state = "READY" /\ s.ready_players = 0
             /\ s.players = r.players /\ s.ready = r.ready
             /\ s.max_ready_players = r.max_ready_players /\ s.round_count = r.round_count
             /\ s.dismiss = r.dismiss /\ s.owner_uid = r.owner_uid
             /\ s.game_end_flag = r.game_end_flag /\ s.timers = r.timers
             /\ s.ji_card_late = r.ji_card_late
BY DEF TableType, Reset

-----------------------------------------------------------------------------
\* A game that ends with players at the table keeps the invariant.
LEMMA GameEndKeeps ==
  ASSUME NEW r, TableInv(r), MaxPlayBoard = 1 => r.round_count = 1
  PROVE  TableInv(GameEnd(r, FALSE))
<1> DEFINE s == GameEnd(r, FALSE)
<1>1. r \in TableType
  BY DEF TableInv
<1>2. /\ s \in TableType /\ SameSeats(r, s) /\ s.state = "END_GAME"
      /\ r.players = {} =>
           /\ s.game_end_flag = r.game_end_flag /\ s.timers = r.timers
           /\ s.ji_card_late = r.ji_card_late
      /\ r.players # {} =>
           /\ s.game_end_flag <=> r.game_end_flag \/ r.round_count >= MaxPlayBoard
           /\ s.timers = r.timers \cup {"preready"}
           /\ s.ji_card_late = FALSE
  BY <1>1, GameEndFacts DEF RoundIsOver
<1> HIDE DEF s
<1>3. r.round_count > 0 => r.players # {}
  BY <1>1, EmptyCount, RoomAssumption DEF TableInv, LastHand, TableType
<1>4. s.game_end_flag \in BOOLEAN /\ r.game_end_flag \in BOOLEAN
  BY <1>1, <1>2 DEF TableType
<1>5. Seated(s) /\ Votes(s)
  BY <1>1, <1>2, <1>4 DEF TableInv, Seated, Votes, SameSeats, TableType
<1>6. LastHand(s)
  BY <1>1, <1>2, <1>3, <1>4, RoomAssumption DEF TableInv, LastHand, SameSeats, TableType
<1>7. LateTimer(s)
  BY <1>1, <1>2, <1>3, <1>4, RoomAssumption DEF TableInv, LateTimer, LastHand, SameSeats, TableType
<1>. QED
  BY <1>2, <1>5, <1>6, <1>7 DEF TableInv, s

\* A vote closes the table, in whatever state it finds it.
LEMMA DismissedKeeps ==
  ASSUME NEW r \in TableType, Seated(r), LastHand(r), LateTimer(r),
         r.players # {}, r.round_count > 0, "dismiss" \notin r.timers
  PROVE  TableInv(Dismissed(r))
<1> DEFINE q == [r EXCEPT !.need_return_diamo = @ \/ ~ r.game_end_count_flag]
           e == GameEnd(q, TRUE)
           d == [e EXCEPT !.dismiss = {}]
           s == Reset(d)
<1>1. q \in TableType /\ SameSeats(r, q) /\ q.timers = r.timers
  BY DEF TableType, SameSeats
<1> HIDE DEF q
<1>2. /\ e \in TableType /\ SameSeats(r, e) /\ e.timers = r.timers \cup {"preready"}
      /\ e.game_end_flag = TRUE /\ e.ji_card_late = FALSE
  <2>1. /\ e \in TableType /\ SameSeats(q, e)
        /\ e.game_end_flag <=> q.game_end_flag \/ RoundIsOver(q, TRUE)
        /\ e.timers = q.timers \cup {"preready"} /\ e.ji_card_late = FALSE
    BY <1>1, GameEndFacts DEF SameSeats
  <2>2. e.game_end_flag \in BOOLEAN
    BY <2>1 DEF TableType
  <2>. QED
    BY <1>1, <2>1, <2>2 DEF SameSeats, RoundIsOver
<1> HIDE DEF e
<1>3. /\ d \in TableType /\ d.timers = e.timers /\ d.dismiss = {}
      /\ d.game_end_flag = TRUE /\ d.ji_card_late = FALSE
      /\ d.players = r.players /\ d.ready = r.ready /\ d.owner_uid = r.owner_uid
      /\ d.max_ready_players = r.max_ready_players /\ d.round_count = r.round_count
  BY <1>2 DEF TableType, SameSeats
<1> HIDE DEF d
<1>4. /\ s \in TableType /\ s.timers = r.timers \cup {"preready"} /\ s.dismiss = {}
      /\ s.game_end_flag = TRUE /\ s.ji_card_late = FALSE
      /\ s.players = r.players /\ s.ready = r.ready /\ s.owner_uid = r.owner_uid
      /\ s.max_ready_players = r.max_ready_players /\ s.round_count = r.round_count
      /\ s.state = "READY" /\ s.ready_players = 0
  BY <1>2, <1>3, ResetFacts
<1> HIDE DEF s
<1>5. Cardinality(r.ready) \in Nat
  BY CountPlayers DEF TableType
<1>6. Seated(s) /\ Votes(s)
  BY <1>4, <1>5 DEF Seated, Votes
<1>7. LastHand(s)
  BY <1>4 DEF LastHand
<1>8. LateTimer(s)
  BY <1>4, RoomAssumption DEF LateTimer, LastHand, TableType
<1>. QED
  BY <1>4, <1>6, <1>7, <1>8 DEF TableInv, Dismissed, s, d, e, q

\* What cleaning charges is a number.
LEMMA ChargeIsInt ==
  ASSUME NEW r \in TableType
  PROVE  CleaningCharge(r) \in Int
<1>1. r.players \in SUBSET Players
  BY DEF TableType
<1>2. Cardinality(r.players) \in Nat
  BY <1>1, CountPlayers
<1>. QED
  BY <1>2 DEF CleaningCharge, CreateTableCost, CurPlayers

\* A cleaned table is as good as new but for a ji_card_timer it may keep.
LEMMA CleanTableKeeps ==
  ASSUME NEW r \in TableType,
         MaxPlayBoard = 1 => "ji_card" \notin r.timers
  PROVE  /\ TableInv(CleanTable(r))
         /\ TableInv(Reset(CleanTable(r)))
<1> DEFINE q == Reset(r)
           s == CleanTable(r)
<1>1. q \in TableType /\ q.state = "READY" /\ q.ready_players = 0 /\ q.timers = r.timers
  BY ResetFacts
<1>2. PICK n \in Int : n = q.paid + CleaningCharge(r)
  BY <1>1, ChargeIsInt DEF TableType
<1>3. s = [q EXCEPT !.paid = n,
                    !.players = {}, !.ready = {}, !.ahead_start = {},
                    !.round_count = 0, !.dismiss = {},
                    !.owner_uid = Nobody, !.transfer_flag = FALSE,
                    !.max_ready_players = SeatMax,
                    !.game_end_flag = FALSE, !.game_end_count_flag = FALSE,
                    !.need_return_diamo = FALSE,
                    !.timers = @ \ {"preready", "ready", "dismiss", "ahead_start"}]
  BY <1>2 DEF CleanTable
<1> HIDE DEF q, s
<1>4. s \in TableType
  <2> DEFINE a == [q EXCEPT !.paid = n]
             b == [a EXCEPT !.players = {}, !.ready = {}, !.ahead_start = {}]
             c == [b EXCEPT !.round_count = 0]
             d == [c EXCEPT !.dismiss = {}, !.owner_uid = Nobody, !.transfer_flag = FALSE]
             e == [d EXCEPT !.max_ready_players = SeatMax]
             f == [e EXCEPT !.game_end_flag = FALSE, !.game_end_count_flag = FALSE,
                            !.need_return_diamo = FALSE]
             g == [f EXCEPT !.timers = @ \ {"preready", "ready", "dismiss", "ahead_start"}]
  <2>1. s = g
    BY <1>3
  <2>2. SeatMax \in 2 .. SeatMax
    BY RoomAssumption
  <2>3. a \in TableType
    BY <1>1 DEF TableType
  <2> HIDE DEF a
  <2>4. b \in TableType
    BY <2>3 DEF TableType
  <2> HIDE DEF b
  <2>5. c \in TableType
    BY <2>4 DEF TableType
  <2> HIDE DEF c
  <2>6. d \in TableType
    BY <2>5 DEF TableType
  <2> HIDE DEF d
  <2>7. e \in TableType
    BY <2>2, <2>6 DEF TableType
  <2> HIDE DEF e
  <2>8. f \in TableType
    BY <2>7 DEF TableType
  <2> HIDE DEF f
  <2>9. g \in TableType
    BY <2>8 DEF TableType
  <2>. QED
    BY <2>1, <2>9
<1>5. /\ s.players = {} /\ s.ready = {} /\ s.round_count = 0 /\ s.dismiss = {}
      /\ s.owner_uid = Nobody /\ s.max_ready_players = SeatMax
      /\ s.game_end_flag = FALSE /\ s.state = "READY" /\ s.ready_players = 0
      /\ s.timers = r.timers \ {"preready", "ready", "dismiss", "ahead_start"}
  BY <1>1, <1>3 DEF TableType
<1>6. \A t : /\ t \in TableType /\ t.players = {} /\ t.ready = {} /\ t.round_count = 0
             /\ t.dismiss = {} /\ t.owner_uid = Nobody /\ t.max_ready_players = SeatMax
             /\ t.game_end_flag = FALSE /\ t.state = "READY" /\ t.ready_players = 0
             /\ t.timers = s.timers
             => TableInv(t)
  BY <1>5, EmptyCount, RoomAssumption
     DEF TableInv, Seated, Votes, LastHand, LateTimer
<1>7. TableInv(s)
  BY <1>4, <1>5, <1>6
<1>8. TableInv(Reset(s))
  BY <1>4, <1>5, <1>6, ResetFacts
<1>. QED
  BY <1>7, <1>8 DEF s

-----------------------------------------------------------------------------
(* The actions keep the invariant.                                         *)

LEMMA CreateKeeps ==
  ASSUME TableInv(room), NEW p \in Players, NEW cost \in {1, 2}, Create(p, cost)
  PROVE  TableInv(room')
<1>1. Cardinality({p}) = 1
  BY FS_Singleton
<1>2. /\ room'.players = {p} /\ room'.owner_uid = p /\ room'.state = "ROOM_WAIT_GAME"
      /\ room'.ready = room.ready /\ room'.ready_players = room.ready_players
      /\ room'.max_ready_players = room.max_ready_players
      /\ room'.round_count = room.round_count /\ room'.dismiss = room.dismiss
      /\ room'.game_end_flag = room.game_end_flag /\ room'.timers = room.timers
      /\ room'.ji_card_late = room.ji_card_late
  BY DEF Create, TableInv, TableType
<1>3. room' \in TableType
  <2> DEFINE a == [room EXCEPT !.players = {p}, !.owner_uid = p, !.cost_select_flag = cost]
             b == [a EXCEPT !.state = "ROOM_WAIT_GAME"]
             c == [b EXCEPT !.ahead_start_flag = FALSE, !.game_end_count_flag = FALSE,
                            !.need_return_diamo = FALSE,
                            !.already_update_account_bet = FALSE]
             d == [c EXCEPT !.paid = 0]
             e == [d EXCEPT !.round_records = 0, !.finished = 0,
                            !.settled = 0, !.recorded = 0]
  <2>1. room' = e
    BY DEF Create
  <2>2. a \in TableType
    BY DEF TableInv, TableType
  <2> HIDE DEF a
  <2>3. b \in TableType
    BY <2>2 DEF TableType
  <2> HIDE DEF b
  <2>4. c \in TableType
    BY <2>3 DEF TableType
  <2> HIDE DEF c
  <2>5. d \in TableType
    BY <2>4 DEF TableType
  <2> HIDE DEF d
  <2>6. e \in TableType
    BY <2>5 DEF TableType
  <2>. QED
    BY <2>1, <2>6
<1>4. room.owner_uid = Nobody /\ room.players = {} /\ room.ready = {} /\ room.round_count = 0
  BY DEF Create, TableInv, Seated, LastHand
<1>5. Seated(room') /\ Votes(room')
  BY <1>1, <1>2, <1>4, EmptyCount, RoomAssumption DEF TableInv, Seated, Votes, TableType
<1>6. LastHand(room') /\ LateTimer(room')
  BY <1>2, <1>4, RoomAssumption DEF TableInv, LastHand, LateTimer
<1>. QED
  BY <1>3, <1>5, <1>6 DEF TableInv

LEMMA JoinKeeps ==
  ASSUME TableInv(room), NEW p \in Players, Join(p)
  PROVE  TableInv(room')
<1>1. /\ room'.players = room.players \cup {p} /\ room'.owner_uid = room.owner_uid
      /\ room'.state = IF room.round_count = 0 THEN "ROOM_WAIT_GAME" ELSE room.state
      /\ room'.ready = room.ready /\ room'.ready_players = room.ready_players
      /\ room'.max_ready_players = room.max_ready_players
      /\ room'.round_count = room.round_count /\ room'.dismiss = room.dismiss
      /\ room'.game_end_flag = room.game_end_flag /\ room'.timers = room.timers
      /\ room'.ji_card_late = room.ji_card_late
  BY DEF Join, TableInv, TableType
<1>2. room' \in TableType
  BY DEF Join, TableInv, TableType
<1>3. /\ Cardinality(room.players) \in Nat
      /\ Cardinality(room.players \cup {p}) = Cardinality(room.players) + 1
  BY CountPlayers DEF Join, TableInv, TableType
<1>4. Cardinality(room.players) < room.max_ready_players /\ room.owner_uid # Nobody
  BY DEF Join, CurPlayers
<1>5. room.round_count = 0
  BY <1>4 DEF TableInv, LastHand, TableType
<1>6. Seated(room') /\ Votes(room')
  BY <1>1, <1>2, <1>3, <1>4 DEF TableInv, Seated, Votes, TableType
<1>7. LastHand(room') /\ LateTimer(room')
  BY <1>1, <1>4, <1>5, RoomAssumption DEF TableInv, LastHand, LateTimer
<1>. QED
  BY <1>2, <1>6, <1>7 DEF TableInv

\* handler_ready counts only a seat that was not ready, hence nobody after
\* the last hand.
LEMMA ReadyCounts ==
  ASSUME TableInv(room), NEW p \in room.players,
         room.state \in {"READY", "ROOM_WAIT_GAME"}, p \notin room.ready
  PROVE  TableInv([room EXCEPT !.ready_players = @ + 1, !.ready = @ \cup {p},
                               !.late_ready = @ \/ room.game_end_flag])
<1> DEFINE q == [room EXCEPT !.ready_players = @ + 1, !.ready = @ \cup {p},
                             !.late_ready = @ \/ room.game_end_flag]
<1>1. PICK n \in Nat : n = room.ready_players + 1
  BY DEF TableInv, TableType
<1>2. q = [room EXCEPT !.ready_players = n, !.ready = @ \cup {p},
                       !.late_ready = @ \/ room.game_end_flag]
  BY <1>1
<1>3. room \in TableType /\ p \in Players
  BY DEF TableInv, TableType
<1>4. q \in TableType
  BY <1>2, <1>3 DEF TableType
<1>5. /\ q.ready = room.ready \cup {p} /\ q.ready_players = room.ready_players + 1
      /\ q.players = room.players /\ q.owner_uid = room.owner_uid /\ q.state = room.state
      /\ q.max_ready_players = room.max_ready_players
      /\ q.round_count = room.round_count /\ q.dismiss = room.dismiss
      /\ q.game_end_flag = room.game_end_flag /\ q.timers = room.timers
      /\ q.ji_card_late = room.ji_card_late
  BY <1>3 DEF TableType
<1> HIDE DEF q
<1>6. /\ Cardinality(room.ready) \in Nat
      /\ Cardinality(room.ready \cup {p}) = Cardinality(room.ready) + 1
  BY <1>3, CountPlayers DEF TableType
<1>7. Seated(q) /\ Votes(q)
  BY <1>3, <1>5, <1>6 DEF TableInv, Seated, Votes, TableType
<1>8. LastHand(q) /\ LateTimer(q)
  BY <1>5 DEF TableInv, LastHand, LateTimer
<1>. QED
  BY <1>4, <1>7, <1>8 DEF TableInv, q

LEMMA ReadyKeeps ==
  ASSUME TableInv(room), NEW p \in Players, Ready(p)
  PROVE  TableInv(room')
<1> DEFINE q == [room EXCEPT !.ready_players = @ + 1, !.ready = @ \cup {p},
                             !.late_ready = @ \/ room.game_end_flag]
<1>1. CASE room.state \notin {"READY", "ROOM_WAIT_GAME"} \/ p \in room.ready
  BY <1>1 DEF Ready, HandlerReady
<1>2. CASE room.state \in {"READY", "ROOM_WAIT_GAME"} /\ p \notin room.ready
  <2>1. p \in room.players
    BY DEF Ready
  <2>2. TableInv(q)
    BY <1>2, <2>1, ReadyCounts
  <2>3. room' \in {q, TestGameStart(q)}
    BY <1>2 DEF Ready, HandlerReady
  <2>. QED
    BY <2>2, <2>3, TestGameStartKeeps
<1>. QED
  BY <1>1, <1>2 DEF TableInv, TableType

LEMMA LeaveKeeps ==
  ASSUME TableInv(room), NEW p \in Players, Leave(p)
  PROVE  TableInv(room')
<1>1. room \in TableType /\ room.ready \in SUBSET Players /\ room.players \in SUBSET Players
  BY DEF TableInv, TableType
<1>2. /\ Cardinality(room.ready) \in Nat /\ Cardinality(room.players) \in Nat
      /\ Cardinality(room.ready \ {p}) =
            IF p \in room.ready THEN Cardinality(room.ready) - 1 ELSE Cardinality(room.ready)
      /\ Cardinality(room.players \ {p}) <= Cardinality(room.players)
      /\ Cardinality(room.players \ {p}) \in Nat /\ Cardinality(room.ready \ {p}) \in Nat
  BY <1>1, CountPlayers
<1>3. /\ room.ready_players = Cardinality(room.ready) /\ room.round_count = 0
      /\ p # room.owner_uid /\ ~ room.game_end_flag
  BY DEF Leave, MayDismiss, TableInv, Seated
<1>4. PICK n \in Nat : n = IF p \in room.ready THEN room.ready_players - 1 ELSE room.ready_players
  BY <1>2, <1>3
<1>5. room' = [room EXCEPT !.ready_players = n, !.players = @ \ {p},
                           !.ready = @ \ {p}, !.ahead_start = @ \ {p}]
  BY <1>4 DEF Leave, DelPlayer
<1>6. room' \in TableType
  BY <1>1, <1>5 DEF TableType
<1>7. /\ room'.players = room.players \ {p} /\ room'.owner_uid = room.owner_uid
      /\ room'.ready = room.ready \ {p} /\ room'.ready_players = n
      /\ room'.state = room.state
      /\ room'.max_ready_players = room.max_ready_players
      /\ room'.round_count = room.round_count /\ room'.dismiss = room.dismiss
      /\ room'.game_end_flag = room.game_end_flag /\ room'.timers = room.timers
      /\ room'.ji_card_late = room.ji_card_late
  BY <1>1, <1>5 DEF TableType
<1>8. n = Cardinality(room.ready \ {p})
  BY <1>2, <1>3, <1>4
<1>9. Cardinality(room.players \ {p}) <= room.max_ready_players
  BY <1>1, <1>2 DEF TableInv, Seated, TableType
<1>10. Seated(room') /\ Votes(room')
  BY <1>2, <1>3, <1>7, <1>8, <1>9 DEF TableInv, Seated, Votes
<1>11. LastHand(room') /\ LateTimer(room')
  BY <1>3, <1>7, RoomAssumption DEF TableInv, LastHand, LateTimer
<1>. QED
  BY <1>6, <1>10, <1>11 DEF TableInv

LEMMA TransferOwnerKeeps ==
  ASSUME TableInv(room), NEW p \in Players, NEW q \in Players, TransferOwner(p, q)
  PROVE  TableInv(room')
<1>1. room \in TableType
  BY DEF TableInv
<1>2. PICK n \in Int : n = IF room.transfer_flag THEN room.paid ELSE room.paid + 1
  BY <1>1 DEF TableType
<1>3. room' = [room EXCEPT !.paid = n, !.owner_uid = q, !.transfer_flag = TRUE]
  BY <1>2 DEF TransferOwner
<1>4. room' \in TableType
  BY <1>1, <1>3 DEF TableType
<1>5. /\ room'.owner_uid = q /\ q \in room.players /\ q # Nobody
      /\ room'.players = room.players /\ room'.state = room.state
      /\ room'.ready = room.ready /\ room'.ready_players = room.ready_players
      /\ room'.max_ready_players = room.max_ready_players
      /\ room'.round_count = room.round_count /\ room'.dismiss = room.dismiss
      /\ room'.game_end_flag = room.game_end_flag /\ room'.timers = room.timers
      /\ room'.ji_card_late = room.ji_card_late
  BY <1>1, <1>3, RoomAssumption DEF TableType, TransferOwner
<1>. QED
  BY <1>4, <1>5 DEF TableInv, Seated, Votes, LastHand, LateTimer

LEMMA AskToStartKeeps ==
  ASSUME TableInv(room), NEW p \in Players, AskToStart(p) \/ RefuseToStart(p)
  PROVE  TableInv(room')
<1>1. /\ room \in TableType /\ p \in room.players /\ room.state = "ROOM_WAIT_GAME"
      /\ Cardinality(room.players) # 1 /\ room.round_count = 0
  BY DEF TableInv, AskToStart, RefuseToStart, MayAskToStart, CurPlayers, LastHand
<1> DEFINE Asked(S, b, T) ==
             [room EXCEPT !.ahead_start = S, !.ahead_start_flag = b, !.timers = T]
           Others == Timers \ {"ahead_start"}
<1>2. \A S \in SUBSET Players, b \in BOOLEAN, T \in SUBSET Timers :
        (\A t \in Others : t \in T <=> t \in room.timers) => TableInv(Asked(S, b, T))
  <2> TAKE S \in SUBSET Players, b \in BOOLEAN, T \in SUBSET Timers
  <2> HAVE \A t \in Others : t \in T <=> t \in room.timers
  <2> DEFINE q == Asked(S, b, T)
  <2>1. q \in TableType
    BY <1>1 DEF TableType
  <2>2. /\ SameSeats(room, q) /\ q.state = room.state /\ q.timers = T
        /\ q.game_end_flag = room.game_end_flag /\ q.ji_card_late = room.ji_card_late
    BY <1>1 DEF TableType, SameSeats
  <2>3. /\ "preready" \in T <=> "preready" \in room.timers
        /\ "dismiss" \in T <=> "dismiss" \in room.timers
        /\ "ji_card" \in T <=> "ji_card" \in room.timers
    BY DEF Timers
  <2> HIDE DEF q
  <2>4. Seated(q) /\ Votes(q) /\ LastHand(q) /\ LateTimer(q)
    BY <2>2, <2>3 DEF TableInv, Seated, Votes, LastHand, LateTimer, SameSeats
  <2>. QED
    BY <2>1, <2>4 DEF TableInv, q
<1>a. /\ room.ahead_start \cup {p} \in SUBSET Players
      /\ room.ahead_start \ {p} \in SUBSET Players
      /\ {} \in SUBSET Players
      /\ room.timers \in SUBSET Timers
      /\ room.timers \ {"ahead_start"} \in SUBSET Timers
      /\ room.timers \cup {"ahead_start"} \in SUBSET Timers
      /\ room.ahead_start_flag \in BOOLEAN
  BY <1>1 DEF TableType, Timers
<1>b. /\ \A t \in Others : t \in room.timers \ {"ahead_start"} <=> t \in room.timers
      /\ \A t \in Others : t \in room.timers \cup {"ahead_start"} <=> t \in room.timers
  OBVIOUS
<1> HIDE DEF Asked, Others
<1> DEFINE q == [room EXCEPT !.ahead_start = @ \cup {p}]
           f == ForgetVotes(q)
           n == AtLeastTwo(CurPlayers(q))
           g == [f EXCEPT !.max_ready_players = n]
<1>3. TableInv(q)
  <2>1. q = Asked(room.ahead_start \cup {p}, room.ahead_start_flag, room.timers)
    BY <1>1 DEF TableType, Asked
  <2> HIDE DEF q
  <2>2. TableInv(Asked(room.ahead_start \cup {p}, room.ahead_start_flag, room.timers))
    BY <1>2, <1>a
  <2>. QED
    BY <2>1, <2>2
<1>4. TableInv(f) /\ f.state = "ROOM_WAIT_GAME" /\ f.players = room.players
      /\ f.max_ready_players = room.max_ready_players /\ f.round_count = 0
  <2>1. f = Asked({}, FALSE, room.timers \ {"ahead_start"})
    BY <1>1 DEF TableType, ForgetVotes, Stop, Asked
  <2> HIDE DEF f
  <2>2. TableInv(Asked({}, FALSE, room.timers \ {"ahead_start"}))
    BY <1>2, <1>a, <1>b
  <2>. QED
    BY <1>1, <2>1, <2>2 DEF TableType, Asked
<1>5. TableInv(ForgetVotes(room))
  <2>1. ForgetVotes(room) = Asked({}, FALSE, room.timers \ {"ahead_start"})
    BY <1>1 DEF TableType, ForgetVotes, Stop, Asked
  <2>2. TableInv(Asked({}, FALSE, room.timers \ {"ahead_start"}))
    BY <1>2, <1>a, <1>b
  <2>. QED
    BY <2>1, <2>2
<1>6. TableInv([room EXCEPT !.ahead_start = @ \ {p}])
  <2>1. [room EXCEPT !.ahead_start = @ \ {p}] =
          Asked(room.ahead_start \ {p}, room.ahead_start_flag, room.timers)
    BY <1>1 DEF TableType, Asked
  <2>2. TableInv(Asked(room.ahead_start \ {p}, room.ahead_start_flag, room.timers))
    BY <1>2, <1>a
  <2>. QED
    BY <2>1, <2>2
<1>7. TableInv(Arm([q EXCEPT !.ahead_start_flag = TRUE], "ahead_start"))
  <2>1. Arm([q EXCEPT !.ahead_start_flag = TRUE], "ahead_start") =
          Asked(room.ahead_start \cup {p}, TRUE, room.timers \cup {"ahead_start"})
    BY <1>1 DEF TableType, Arm, Asked
  <2>2. TableInv(Asked(room.ahead_start \cup {p}, TRUE, room.timers \cup {"ahead_start"}))
    BY <1>2, <1>a, <1>b
  <2>. QED
    BY <2>1, <2>2
<1>8. TableInv(g)
  <2>1. q.players = room.players
    BY <1>1 DEF TableType
  <2>2. /\ Cardinality(room.players) \in Nat /\ room.players # {}
        /\ Cardinality(room.players) # 0
        /\ Cardinality(room.players) <= room.max_ready_players
    BY <1>1, CountPlayers DEF TableType, TableInv, Seated
  <2>3. n \in 2 .. SeatMax /\ Cardinality(room.players) <= n
    BY <1>1, <2>1, <2>2, RoomAssumption DEF TableType, AtLeastTwo, CurPlayers
  <2> HIDE DEF f, n
  <2>4. f \in TableType
    BY <1>4 DEF TableInv
  <2>5. g \in TableType
    BY <2>3, <2>4 DEF TableType
  <2>6. /\ g.max_ready_players = n /\ g.state = f.state /\ g.timers = f.timers
        /\ g.players = f.players /\ g.ready = f.ready /\ g.ready_players = f.ready_players
        /\ g.round_count = f.round_count /\ g.dismiss = f.dismiss
        /\ g.owner_uid = f.owner_uid
        /\ g.game_end_flag = f.game_end_flag /\ g.ji_card_late = f.ji_card_late
    BY <2>4 DEF TableType
  <2> HIDE DEF g
  <2>7. Seated(g) /\ Votes(g) /\ LastHand(g) /\ LateTimer(g)
    BY <1>4, <2>3, <2>6 DEF TableInv, Seated, Votes, LastHand, LateTimer
  <2>. QED
    BY <2>5, <2>7 DEF TableInv
<1>9. AskToStart(p) =>
        room' \in {Arm([q EXCEPT !.ahead_start_flag = TRUE], "ahead_start"), TestGameStart(g), q}
  BY DEF AskToStart
<1>10. RefuseToStart(p) => room' \in {ForgetVotes(room), [room EXCEPT !.ahead_start = @ \ {p}]}
  BY DEF RefuseToStart
<1> HIDE DEF q, g
<1>11. TableInv(TestGameStart(g))
  BY <1>8, TestGameStartKeeps
<1>. QED
  BY <1>3, <1>5, <1>6, <1>7, <1>9, <1>10, <1>11

LEMMA AheadStartTimerKeeps ==
  ASSUME TableInv(room), AheadStartTimer
  PROVE  TableInv(room')
<1> DEFINE q == Stop(room, "ahead_start")
<1>1. TableInv(q)
  BY StopKeeps
<1>2. room' = [q EXCEPT !.ahead_start = {}, !.ahead_start_flag = FALSE]
  BY DEF AheadStartTimer, ForgetVotes
<1> HIDE DEF q
<1>3. room' \in TableType
  BY <1>1, <1>2 DEF TableInv, TableType
<1>4. /\ SameSeats(q, room') /\ room'.state = q.state /\ room'.timers = q.timers
      /\ room'.game_end_flag = q.game_end_flag /\ room'.ji_card_late = q.ji_card_late
  BY <1>1, <1>2 DEF TableInv, TableType, SameSeats
<1>. QED
  BY <1>1, <1>3, <1>4 DEF TableInv, Seated, Votes, LastHand, LateTimer, SameSeats

\* A win is settled; the hand stays under play for another second.
LEMMA WinKeeps ==
  ASSUME TableInv(room), Win
  PROVE  TableInv(room')
<1> DEFINE q == UpdateAccountBet(room)
           late == "preready" \in room.timers
<1>1. room \in TableType /\ room.state = "BETTING" /\ room.round_count > 0
  BY DEF TableInv, Win, LastHand
<1>2. /\ q \in TableType /\ SameSeats(room, q) /\ q.state = room.state
      /\ q.game_end_flag = room.game_end_flag /\ q.timers = room.timers
  BY <1>1, UpdateAccountBetFacts
<1>3. room' = [q EXCEPT !.timers = @ \cup {"ji_card"}, !.ji_card_late = late]
  BY DEF Win, JiGameEnd, Arm
<1> HIDE DEF q
<1>4. late \in BOOLEAN
  OBVIOUS
<1>5. room' \in TableType
  BY <1>2, <1>3, <1>4 DEF TableType, Timers
<1>6. /\ SameSeats(room, room') /\ room'.state = room.state
      /\ room'.timers = room.timers \cup {"ji_card"}
      /\ room'.game_end_flag = room.game_end_flag /\ room'.ji_card_late = late
  BY <1>2, <1>3 DEF TableType, SameSeats
<1>7. Seated(room') /\ Votes(room') /\ LastHand(room')
  BY <1>6 DEF TableInv, Seated, Votes, LastHand, SameSeats
<1>8. MaxPlayBoard = 1 => room.round_count = 1 /\ ~ late
  BY <1>1 DEF TableInv, LastHand, LateTimer, TableType
<1>9. LateTimer(room')
  BY <1>6, <1>8 DEF TableInv, LateTimer, SameSeats
<1>. QED
  BY <1>5, <1>7, <1>9 DEF TableInv

LEMMA HandEndKeeps ==
  ASSUME TableInv(room), HuangZhuang \/ JiCardTimer
  PROVE  TableInv(room')
<1>1. CASE HuangZhuang
  <2>1. MaxPlayBoard = 1 => room.round_count = 1
    BY <1>1 DEF HuangZhuang, TableInv, LastHand, TableType
  <2>. QED
    BY <1>1, <2>1, GameEndKeeps DEF HuangZhuang
<1>2. CASE JiCardTimer
  <2> DEFINE q == Stop(room, "ji_card")
  <2>1. TableInv(q)
    BY StopKeeps
  <2>2. q.round_count = room.round_count
    BY DEF Stop, TableInv, TableType
  <2>3. MaxPlayBoard = 1 => q.round_count = 1
    BY <1>2, <2>2 DEF JiCardTimer, TableInv, LateTimer
  <2> HIDE DEF q
  <2>4. TableInv(GameEnd(q, FALSE))
    BY <2>1, <2>3, GameEndKeeps
  <2>. QED
    BY <1>2, <2>4 DEF JiCardTimer, q
<1>. QED
  BY <1>1, <1>2

\* The seats of an open table are unmarked only while hands are left.
LEMMA PrereadyTimerKeeps ==
  ASSUME TableInv(room), PrereadyTimer
  PROVE  TableInv(room')
<1> DEFINE q == Stop(room, "preready")
<1>1. /\ q \in TableType /\ SameSeats(room, q) /\ q.state = room.state
      /\ q.timers = room.timers \ {"preready"}
      /\ q.game_end_flag = room.game_end_flag /\ q.ji_card_late = room.ji_card_late
  BY DEF TableInv, TableType, Stop, SameSeats
<1>2. room' = HandlerPreready(q) /\ "preready" \in room.timers
  BY DEF PrereadyTimer
<1>3. MaxPlayBoard = 1 => "ji_card" \notin room.timers /\ room.game_end_flag
  BY DEF PrereadyTimer, TableInv, LateTimer
<1> HIDE DEF q
<1>4. CASE q.game_end_flag
  BY <1>1, <1>2, <1>3, <1>4, CleanTableKeeps DEF HandlerPreready
<1>5. CASE ~ q.game_end_flag
  <2> DEFINE s == Reset(q)
  <2>1. /\ s \in TableType /\ s.state = "READY" /\ s.ready_players = 0
        /\ s.players = room.players /\ s.owner_uid = room.owner_uid
        /\ s.max_ready_players = room.max_ready_players
        /\ s.round_count = room.round_count /\ s.dismiss = room.dismiss
        /\ s.game_end_flag = FALSE /\ s.timers = room.timers \ {"preready"}
        /\ s.ji_card_late = room.ji_card_late
    BY <1>1, <1>5, ResetFacts DEF SameSeats, TableType
  <2>2. room' = [s EXCEPT !.ready = {}, !.ahead_start = {}, !.timers = @ \cup {"ready"}]
    BY <1>2, <1>5, <2>1 DEF HandlerPreready, Arm, TableType
  <2> HIDE DEF s
  <2>3. room' \in TableType
    BY <2>1, <2>2 DEF TableType, Timers
  <2>4. /\ room'.state = "READY" /\ room'.ready_players = 0 /\ room'.ready = {}
        /\ room'.players = room.players /\ room'.owner_uid = room.owner_uid
        /\ room'.max_ready_players = room.max_ready_players
        /\ room'.round_count = room.round_count /\ room'.dismiss = room.dismiss
        /\ room'.game_end_flag = FALSE
        /\ room'.timers = (room.timers \ {"preready"}) \cup {"ready"}
        /\ room'.ji_card_late = room.ji_card_late
    BY <2>1, <2>2 DEF TableType
  <2>5. Seated(room') /\ Votes(room')
    BY <1>1, <1>5, <2>4, EmptyCount DEF TableInv, Seated, Votes, SameSeats
  <2>6. room.round_count < MaxPlayBoard
    <3>1. /\ room.state # "READY"
          /\ room.state = "BETTING" => room.round_count = 1 /\ MaxPlayBoard > 1
      BY <1>1, <1>2, <1>5 DEF TableInv, LateTimer
    <3>. QED
      BY <1>1, <1>5, <3>1, RoomAssumption DEF TableInv, LastHand, TableType
  <2>7. LastHand(room') /\ LateTimer(room')
    BY <1>1, <1>3, <1>5, <2>4, <2>6, RoomAssumption DEF TableInv, LastHand, LateTimer, TableType
  <2>. QED
    BY <2>3, <2>5, <2>7 DEF TableInv
<1>. QED
  BY <1>4, <1>5

LEMMA ReadyTimerKeeps ==
  ASSUME TableInv(room), ReadyTimer
  PROVE  TableInv(room')
<1>1. TableInv(Stop(room, "ready"))
  BY StopKeeps
<1>. QED
  BY <1>1, TestGameStartKeeps DEF ReadyTimer

LEMMA OwnerDismissKeeps ==
  ASSUME TableInv(room), NEW p \in Players, OwnerDismiss(p)
  PROVE  TableInv(room')
<1>1. room \in TableType
  BY DEF TableInv
<1>2. PICK n \in Int : n = IF room.transfer_flag THEN room.paid - 1 ELSE room.paid
  BY <1>1 DEF TableType
<1> DEFINE q == [room EXCEPT !.paid = n]
<1>3. q \in TableType /\ q.timers = room.timers
  BY <1>1 DEF TableType
<1>4. MaxPlayBoard = 1 => "ji_card" \notin room.timers
  BY DEF OwnerDismiss, TableInv, LateTimer
<1>5. room' = Reset(CleanTable(q))
  BY <1>2 DEF OwnerDismiss
<1> HIDE DEF q
<1>. QED
  BY <1>3, <1>4, <1>5, CleanTableKeeps

LEMMA RefuseKeeps ==
  ASSUME TableInv(room), NEW p \in Players, Refuse(p)
  PROVE  TableInv(room')
<1>1. room \in TableType
  BY DEF TableInv
<1>2. room' = [room EXCEPT !.timers = @ \ {"dismiss"}, !.dismiss = {}]
  BY DEF Refuse, CancelVote, Stop
<1>3. room' \in TableType
  BY <1>1, <1>2 DEF TableType
<1>4. /\ room'.players = room.players /\ room'.ready = room.ready
      /\ room'.ready_players = room.ready_players
      /\ room'.max_ready_players = room.max_ready_players
      /\ room'.round_count = room.round_count /\ room'.owner_uid = room.owner_uid
      /\ room'.state = room.state /\ room'.game_end_flag = room.game_end_flag
      /\ room'.ji_card_late = room.ji_card_late
      /\ room'.timers = room.timers \ {"dismiss"} /\ room'.dismiss = {}
  BY <1>1, <1>2 DEF TableType
<1>. QED
  BY <1>3, <1>4 DEF TableInv, Seated, Votes, LastHand, LateTimer

\* What is left when the vote's timer is stopped or has run out.
LEMMA VoteStopped ==
  ASSUME NEW r \in TableType, Seated(r), LastHand(r), LateTimer(r)
  PROVE  LET s == Stop(r, "dismiss")
         IN  /\ s \in TableType /\ Seated(s) /\ LastHand(s) /\ LateTimer(s)
             /\ s.players = r.players /\ s.round_count = r.round_count
             /\ "dismiss" \notin s.timers
<1> DEFINE s == Stop(r, "dismiss")
<1>1. /\ s \in TableType /\ SameSeats(r, s) /\ s.timers = r.timers \ {"dismiss"}
      /\ s.state = r.state /\ s.game_end_flag = r.game_end_flag
      /\ s.ji_card_late = r.ji_card_late
  BY DEF Stop, TableType, SameSeats
<1> HIDE DEF s
<1>2. Seated(s) /\ LastHand(s) /\ LateTimer(s)
  BY <1>1 DEF Seated, LastHand, LateTimer, SameSeats
<1>. QED
  BY <1>1, <1>2 DEF SameSeats, s

LEMMA AgreeKeeps ==
  ASSUME TableInv(room), NEW p \in Players, Agree(p)
  PROVE  TableInv(room')
<1> DEFINE q == [room EXCEPT !.dismiss = @ \cup {p}]
<1>1. room \in TableType /\ room.round_count > 0 /\ p \in room.players
  BY DEF TableInv, Agree, MayDismiss
<1>2. q \in TableType
  BY <1>1 DEF TableType
<1>3. /\ q.players = room.players /\ q.ready = room.ready
      /\ q.ready_players = room.ready_players
      /\ q.max_ready_players = room.max_ready_players
      /\ q.round_count = room.round_count /\ q.owner_uid = room.owner_uid
      /\ q.state = room.state /\ q.game_end_flag = room.game_end_flag
      /\ q.ji_card_late = room.ji_card_late
      /\ q.timers = room.timers /\ q.dismiss = room.dismiss \cup {p}
  BY <1>1 DEF TableType
<1>4. \/ room.dismiss = {} /\ room' = Arm(q, "dismiss")
      \/ room.dismiss # {} /\ room' = Dismissed(Stop(q, "dismiss"))
      \/ room.dismiss # {} /\ room' = q
  BY DEF Agree
<1> HIDE DEF q
<1>5. Seated(q) /\ LastHand(q) /\ LateTimer(q)
  BY <1>3 DEF TableInv, Seated, LastHand, LateTimer
<1>6. CASE room.dismiss = {} /\ room' = Arm(q, "dismiss")
  <2>1. room' = [q EXCEPT !.timers = @ \cup {"dismiss"}]
    BY <1>6 DEF Arm
  <2>2. room' \in TableType
    BY <1>2, <2>1 DEF TableType, Timers
  <2>3. /\ SameSeats(q, room') /\ room'.timers = q.timers \cup {"dismiss"}
        /\ room'.state = q.state /\ room'.game_end_flag = q.game_end_flag
        /\ room'.ji_card_late = q.ji_card_late
    BY <1>2, <2>1 DEF TableType, SameSeats
  <2>4. Seated(room') /\ LastHand(room') /\ LateTimer(room')
    BY <1>5, <2>3 DEF Seated, LastHand, LateTimer, SameSeats
  <2>5. Votes(room')
    BY <1>1, <1>3, <2>3 DEF TableInv, Votes, SameSeats
  <2>. QED
    BY <2>2, <2>4, <2>5 DEF TableInv
<1>7. CASE room' = Dismissed(Stop(q, "dismiss"))
  BY <1>1, <1>2, <1>3, <1>5, <1>7, VoteStopped, DismissedKeeps
<1>8. CASE room.dismiss # {} /\ room' = q
  <2>1. Votes(q)
    BY <1>3, <1>8 DEF TableInv, Votes
  <2>. QED
    BY <1>2, <1>5, <1>8, <2>1 DEF TableInv
<1>. QED
  BY <1>4, <1>6, <1>7, <1>8

LEMMA DismissTimerKeeps ==
  ASSUME TableInv(room), DismissTimer
  PROVE  TableInv(room')
<1>1. room \in TableType /\ room.round_count > 0
  BY DEF TableInv, Votes, DismissTimer
<1>2. room.players # {}
  BY <1>1, EmptyCount, RoomAssumption DEF TableInv, LastHand, TableType
<1>. QED
  BY <1>1, <1>2, VoteStopped, DismissedKeeps DEF TableInv, DismissTimer

-----------------------------------------------------------------------------
LEMMA InitTableInv == Init => TableInv(room)
<1> SUFFICES ASSUME Init PROVE TableInv(room)
  OBVIOUS
<1>1. SeatMax \in 2 .. SeatMax
  BY RoomAssumption
<1>2. room \in TableType
  BY <1>1 DEF Init, TableType
<1>3. /\ room.players = {} /\ room.ready = {} /\ room.ready_players = 0
      /\ room.max_ready_players = SeatMax /\ room.round_count = 0 /\ room.dismiss = {}
      /\ room.owner_uid = Nobody /\ room.timers = {} /\ room.game_end_flag = FALSE
      /\ room.state = "ROOM_WAIT_GAME"
  BY DEF Init
<1>4. Seated(room) /\ Votes(room) /\ LastHand(room) /\ LateTimer(room)
  BY <1>3, EmptyCount, RoomAssumption DEF Seated, Votes, LastHand, LateTimer
<1>. QED
  BY <1>2, <1>4 DEF TableInv

LEMMA NextKeepsTableInv == TableInv(room) /\ [Next]_room => TableInv(room')
<1> SUFFICES ASSUME TableInv(room), [Next]_room PROVE TableInv(room')
  OBVIOUS
<1>1. ASSUME NEW p \in Players, NEW cost \in {1, 2}, Create(p, cost)
      PROVE  TableInv(room')
  BY <1>1, CreateKeeps
<1>2. ASSUME NEW p \in Players, Join(p) PROVE TableInv(room')
  BY <1>2, JoinKeeps
<1>3. ASSUME NEW p \in Players, Ready(p) PROVE TableInv(room')
  BY <1>3, ReadyKeeps
<1>4. ASSUME NEW p \in Players, Leave(p) PROVE TableInv(room')
  BY <1>4, LeaveKeeps
<1>5. ASSUME NEW p \in Players, OwnerDismiss(p) PROVE TableInv(room')
  BY <1>5, OwnerDismissKeeps
<1>6. ASSUME NEW p \in Players, AskToStart(p) \/ RefuseToStart(p) PROVE TableInv(room')
  BY <1>6, AskToStartKeeps
<1>7. ASSUME NEW p \in Players, Agree(p) PROVE TableInv(room')
  BY <1>7, AgreeKeeps
<1>8. ASSUME NEW p \in Players, Refuse(p) PROVE TableInv(room')
  BY <1>8, RefuseKeeps
<1>9. ASSUME NEW p \in Players, NEW q \in Players, TransferOwner(p, q) PROVE TableInv(room')
  BY <1>9, TransferOwnerKeeps
<1>10. CASE Win
  BY <1>10, WinKeeps
<1>11. CASE HuangZhuang \/ JiCardTimer
  BY <1>11, HandEndKeeps
<1>12. CASE AheadStartTimer
  BY <1>12, AheadStartTimerKeeps
<1>13. CASE PrereadyTimer
  BY <1>13, PrereadyTimerKeeps
<1>14. CASE ReadyTimer
  BY <1>14, ReadyTimerKeeps
<1>15. CASE DismissTimer
  BY <1>15, DismissTimerKeeps
<1>16. CASE UNCHANGED room
  BY <1>16
<1>. QED
  BY <1>1, <1>2, <1>3, <1>4, <1>5, <1>6, <1>7, <1>8, <1>9, <1>10, <1>11, <1>12,
     <1>13, <1>14, <1>15, <1>16 DEF Next, Request

LEMMA TableInvariant == Spec => []TableInv(room)
<1>1. TableInv(room) /\ [Next]_room => TableInv(room)'
  BY NextKeepsTableInv DEF TableInv, TableType, Seated, Votes, LastHand, LateTimer
<1>. QED
  BY InitTableInv, <1>1, PTL DEF Spec

\* The table keeps its type: no counter goes below zero, nor the number of
\* players a hand needs above the seats.
THEOREM TypeCorrect == Spec => []TypeOK
<1>1. TableInv(room) => TypeOK
  BY DEF TableInv, TypeOK
<1>. QED
  BY TableInvariant, <1>1, PTL

\* ready_players counts the ready seats of every table that is not closing.
THEOREM ReadyCounted == Spec => []ReadyPlayersAreCounted
<1>1. TableInv(room) => ReadyPlayersAreCounted
  BY DEF TableInv, Seated, ReadyPlayersAreCounted
<1>. QED
  BY TableInvariant, <1>1, PTL

\* Whatever timers are left over and whoever gets ready while the table is
\* closing, no table plays more hands than its round has.
THEOREM RoundIsBounded == Spec => []NoHandBeyondTheRound
<1>1. TableInv(room) => NoHandBeyondTheRound
  BY DEF TableInv, LastHand, NoHandBeyondTheRound
<1>. QED
  BY TableInvariant, <1>1, PTL

\* A vote is open exactly while its timer runs.
THEOREM VoteHasTimer == Spec => []OpenVoteHasTimer
<1>1. TableInv(room) => OpenVoteHasTimer
  BY DEF TableInv, Votes, OpenVoteHasTimer
<1>. QED
  BY TableInvariant, <1>1, PTL

\* The owner, whom clean_table charges, sits at the table.
THEOREM OwnerSeated == Spec => []OwnerIsSeated
<1>1. TableInv(room) => OwnerIsSeated
  BY DEF TableInv, Seated, OwnerIsSeated
<1>. QED
  BY TableInvariant, <1>1, PTL

\* A table to be closed has preready_timer running.
THEOREM ClosingScheduled == Spec => []ClosingIsScheduled
<1>1. TableInv(room) => ClosingIsScheduled
  BY DEF TableInv, Votes, ClosingIsScheduled
<1>. QED
  BY TableInvariant, <1>1, PTL

-----------------------------------------------------------------------------
(* What a hand leaves in the books.  While nobody gets ready at a closing  *)
(* table, the settlements and records of the current hand, the flags that  *)
(* decide the fee, and the fee charged so far are functions of where the   *)
(* table is in its round.                                                  *)

\* A table that is closing has played and has a record of its round.
Records(r) == r.game_end_flag => r.round_count > 0 /\ r.round_records >= 1

\* preready_timer runs between hands only, and ji_card_timer is not left to
\* the next table.
Closing(r) ==
  /\ r.state = "END_GAME" => r.round_count > 0
  /\ r.game_end_flag =>
       r.state = "END_GAME" \/ (r.state = "READY" /\ r.ready_players = 0)
  /\ "preready" \in r.timers =>
       r.state = "END_GAME" \/ (r.state = "READY" /\ r.game_end_flag)
  /\ "ji_card" \in r.timers =>
       /\ r.round_count > 0 /\ ~ r.ji_card_late
       /\ r.state = "BETTING" \/ r.game_end_flag

\* A hand under play is settled if its flag says so and is not recorded.
Tally(r) ==
  /\ r.settled <= 1 /\ r.recorded <= 1
  /\ r.state = "BETTING" =>
       r.recorded = 0 /\ r.settled = IF r.already_update_account_bet THEN 1 ELSE 0
  /\ r.round_count > 0 /\ r.state # "BETTING" => r.settled = 1 /\ r.recorded = 1
  /\ r.state \in {"READY", "ROOM_WAIT_GAME"} => ~ r.already_update_account_bet

\* A transfer is all that is charged at an open table; the fee goes back from
\* a closing one exactly if no hand was finished.
Fees(r) ==
  /\ r.owner_uid = Nobody => ~ r.transfer_flag
  /\ r.transfer_flag => r.cost_select_flag = 1
  /\ r.owner_uid # Nobody => r.paid = IF r.transfer_flag THEN 1 ELSE 0
  /\ r.owner_uid # Nobody /\ r.round_count = 0 => r.finished = 0
  /\ r.owner_uid # Nobody /\ ~ r.game_end_flag =>
       ~ r.need_return_diamo /\ (r.game_end_count_flag <=> r.finished > 0)
  /\ r.game_end_flag =>
       r.game_end_count_flag /\ (r.need_return_diamo <=> r.finished = 0)

HandInv(r) == Records(r) /\ (~ r.late_ready => Closing(r) /\ Tally(r) /\ Fees(r))

\* What sitting down, getting ready and voting leave in the books.
SameBooks(r, s) ==
  /\ s.settled = r.settled /\ s.recorded = r.recorded
  /\ s.already_update_account_bet = r.already_update_account_bet
  /\ s.transfer_flag = r.transfer_flag /\ s.cost_select_flag = r.cost_select_flag
  /\ s.paid = r.paid /\ s.finished = r.finished /\ s.round_records = r.round_records
  /\ s.need_return_diamo = r.need_return_diamo
  /\ s.game_end_count_flag = r.game_end_count_flag
  /\ s.late_ready = r.late_ready

\* Where the table is in its round.
SamePlace(r, s) ==
  /\ s.state = r.state /\ s.round_count = r.round_count
  /\ s.game_end_flag = r.game_end_flag /\ s.ji_card_late = r.ji_card_late
  /\ s.owner_uid = r.owner_uid

\* Nothing but the vote, the early start and the timers "ready", "dismiss" and
\* "ahead_start" has changed, or a timer was stopped.
LEMMA SameBooksKeep ==
  ASSUME NEW r \in TableType, NEW s, HandInv(r), SameBooks(r, s), SamePlace(r, s),
         s.ready_players = r.ready_players,
         \A t \in {"preready", "ji_card"} : t \in s.timers => t \in r.timers
  PROVE  HandInv(s)
<1>1. Records(s)
  BY DEF HandInv, Records, SameBooks, SamePlace
<1>2. ASSUME ~ s.late_ready PROVE Closing(s) /\ Tally(s) /\ Fees(s)
  <2>1. Closing(r) /\ Tally(r) /\ Fees(r)
    BY <1>2 DEF HandInv, SameBooks
  <2>2. Closing(s)
    BY <2>1 DEF Closing, SamePlace
  <2>3. Tally(s)
    BY <2>1 DEF Tally, SamePlace, SameBooks
  <2>4. Fees(s)
    BY <2>1 DEF Fees, SamePlace, SameBooks
  <2>. QED
    BY <2>2, <2>3, <2>4
<1>. QED
  BY <1>1, <1>2 DEF HandInv

LEMMA StopKeepsHand ==
  ASSUME NEW r \in TableType, HandInv(r), NEW t \in Timers
  PROVE  /\ HandInv(Stop(r, t)) /\ SameBooks(r, Stop(r, t)) /\ SamePlace(r, Stop(r, t))
         /\ SameSeats(r, Stop(r, t)) /\ Stop(r, t) \in TableType
         /\ Stop(r, t).timers = r.timers \ {t}
<1> DEFINE s == Stop(r, t)
<1>1. /\ SameBooks(r, s) /\ SamePlace(r, s) /\ SameSeats(r, s) /\ s \in TableType
      /\ s.timers = r.timers \ {t}
  BY DEF Stop, TableType, SameBooks, SamePlace, SameSeats
<1> HIDE DEF s
<1>2. HandInv(s)
  BY <1>1, SameBooksKeep DEF SameSeats
<1>. QED
  BY <1>1, <1>2 DEF s

\* A hand starts settled and recorded by nobody, and never while the table is
\* closing unless somebody got ready then.
LEMMA TestGameStartKeepsHand ==
  ASSUME NEW r \in TableType, HandInv(r)
  PROVE  HandInv(TestGameStart(r)) /\ TestGameStart(r).owner_uid = r.owner_uid
<1> DEFINE q == Stop(r, "ready")
<1>1. /\ HandInv(q) /\ SameBooks(r, q) /\ SamePlace(r, q) /\ SameSeats(r, q)
      /\ q \in TableType /\ q.timers = r.timers \ {"ready"}
  BY StopKeepsHand DEF Timers
<1> DEFINE s == GameStart(q)
<1>2. CASE TestGameStart(r) \in {q, r}
  BY <1>1, <1>2 DEF SamePlace
<1>3. CASE /\ ~ r.ready_players < AtLeastTwo(r.max_ready_players)
           /\ r.state \in {"READY", "ROOM_WAIT_GAME"} /\ TestGameStart(r) = s
  <2>1. r.ready_players >= 2
    BY <1>3, RoomAssumption DEF AtLeastTwo, TableType
  <2> HIDE DEF q
  <2>2. /\ s.state = "BETTING" /\ s.round_count = q.round_count + 1
        /\ s.settled = 0 /\ s.recorded = 0
        /\ s.game_end_flag = q.game_end_flag /\ s.ji_card_late = q.ji_card_late
        /\ s.owner_uid = q.owner_uid /\ s.timers = q.timers
        /\ s.already_update_account_bet = q.already_update_account_bet
        /\ s.transfer_flag = q.transfer_flag /\ s.cost_select_flag = q.cost_select_flag
        /\ s.paid = q.paid /\ s.finished = q.finished /\ s.round_records = q.round_records
        /\ s.need_return_diamo = q.need_return_diamo
        /\ s.game_end_count_flag = q.game_end_count_flag
        /\ s.late_ready = q.late_ready
    BY <1>1 DEF GameStart, TableType
  <2> HIDE DEF s
  <2>3. q.round_count \in Nat
    BY <1>1 DEF TableType
  <2>4. Records(s)
    BY <1>1, <2>2, <2>3 DEF HandInv, Records
  <2>5. ASSUME ~ s.late_ready PROVE Closing(s) /\ Tally(s) /\ Fees(s)
    <3>1. Closing(q) /\ Tally(q) /\ Fees(q)
      BY <1>1, <2>2, <2>5 DEF HandInv
    <3>2. ~ q.game_end_flag /\ "preready" \notin q.timers
      BY <1>1, <1>3, <2>1, <3>1 DEF Closing, SamePlace, SameSeats
    <3>3. Closing(s)
      BY <2>2, <2>3, <3>1, <3>2 DEF Closing
    <3>4. Tally(s)
      BY <1>1, <1>3, <2>2, <3>1 DEF Tally, SamePlace
    <3>5. Fees(s)
      BY <2>2, <2>3, <3>1, <3>2 DEF Fees
    <3>. QED
      BY <3>3, <3>4, <3>5
  <2>6. HandInv(s)
    BY <2>4, <2>5 DEF HandInv
  <2>. QED
    BY <1>1, <1>3, <2>2, <2>6 DEF SamePlace
<1>. QED
  BY <1>2, <1>3 DEF TestGameStart

\* update_account_bet changes the settlement of the hand and its flag.
LEMMA UpdateAccountBetBooks ==
  ASSUME NEW r \in TableType
  PROVE  LET s == UpdateAccountBet(r)
         IN  /\ s.settled = IF r.already_update_account_bet THEN r.settled ELSE r.settled + 1
             /\ s.already_update_account_bet = TRUE
             /\ s.recorded = r.recorded
             /\ s.transfer_flag = r.transfer_flag /\ s.cost_select_flag = r.cost_select_flag
             /\ s.paid = r.paid /\ s.finished = r.finished
             /\ s.round_records = r.round_records
             /\ s.need_return_diamo = r.need_return_diamo
             /\ s.game_end_count_flag = r.game_end_count_flag
             /\ s.late_ready = r.late_ready
<1>1. CASE r.already_update_account_bet
  BY <1>1 DEF UpdateAccountBet, TableType
<1>2. CASE ~ r.already_update_account_bet
  BY <1>2 DEF UpdateAccountBet, TableType
<1>. QED
  BY <1>1, <1>2

\* game_end settles and records the hand under play, and no other.
LEMMA GameEndBooks ==
  ASSUME NEW r \in TableType, NEW flag \in BOOLEAN, r.players # {}
  PROVE  LET s == GameEnd(r, flag)
         IN  /\ s.game_end_count_flag = TRUE
             /\ s.transfer_flag = r.transfer_flag /\ s.cost_select_flag = r.cost_select_flag
             /\ s.paid = r.paid /\ s.late_ready = r.late_ready
             /\ s.need_return_diamo = r.need_return_diamo
             /\ s.round_records = IF RoundIsOver(r, flag) THEN r.round_records + 1
                                  ELSE r.round_records
             /\ r.state # "BETTING" =>
                  /\ s.settled = r.settled /\ s.recorded = r.recorded
                  /\ s.finished = r.finished
             /\ r.state = "BETTING" =>
                  /\ s.settled = IF r.already_update_account_bet THEN r.settled
                                 ELSE r.settled + 1
                  /\ s.recorded = r.recorded + 1
                  /\ s.finished = IF flag THEN r.finished ELSE r.finished + 1
<1> DEFINE ended == [r EXCEPT !.state = "END_GAME", !.game_end_count_flag = TRUE]
           bet   == UpdateAccountBet(ended)
           kept  == [bet EXCEPT !.recorded = @ + 1, !.finished = IF flag THEN @ ELSE @ + 1]
           saved == IF SaveFlag(r) THEN kept ELSE ended
           over  == [saved EXCEPT !.round_records = @ + 1, !.game_end_flag = TRUE]
           closed == IF RoundIsOver(r, flag) THEN over ELSE saved
           s == [Arm(closed, "preready") EXCEPT !.ji_card_late = FALSE]
           Fixed(t) == /\ t.game_end_count_flag = TRUE
                       /\ t.transfer_flag = r.transfer_flag
                       /\ t.cost_select_flag = r.cost_select_flag
                       /\ t.paid = r.paid /\ t.late_ready = r.late_ready
                       /\ t.need_return_diamo = r.need_return_diamo
           Counts(t, u) == /\ t.settled = u.settled /\ t.recorded = u.recorded
                           /\ t.finished = u.finished
           Fields(t) == DOMAIN t = DOMAIN r
<1>1. GameEnd(r, flag) = s
  BY DEF GameEnd
<1>2. /\ Fixed(ended) /\ Counts(ended, r) /\ ended.round_records = r.round_records
      /\ ended.already_update_account_bet = r.already_update_account_bet
      /\ ended \in TableType
  BY DEF TableType
<1> HIDE DEF ended
<1>3. /\ Fixed(bet) /\ bet.round_records = r.round_records /\ bet.finished = r.finished
      /\ bet.recorded = r.recorded
      /\ bet.settled = IF r.already_update_account_bet THEN r.settled ELSE r.settled + 1
      /\ bet \in TableType
  <2>1. bet \in TableType
    BY <1>2, UpdateAccountBetFacts
  <2>2. /\ bet.settled = IF ended.already_update_account_bet THEN ended.settled
                         ELSE ended.settled + 1
        /\ bet.recorded = ended.recorded
        /\ bet.transfer_flag = ended.transfer_flag
        /\ bet.cost_select_flag = ended.cost_select_flag
        /\ bet.paid = ended.paid /\ bet.finished = ended.finished
        /\ bet.round_records = ended.round_records
        /\ bet.need_return_diamo = ended.need_return_diamo
        /\ bet.game_end_count_flag = ended.game_end_count_flag
        /\ bet.late_ready = ended.late_ready
    BY <1>2, UpdateAccountBetBooks
  <2> HIDE DEF bet
  <2>. QED
    BY <1>2, <2>1, <2>2
<1> HIDE DEF bet
<1>4. /\ Fixed(kept) /\ kept.round_records = r.round_records /\ kept.settled = bet.settled
      /\ kept.recorded = r.recorded + 1
      /\ kept.finished = IF flag THEN r.finished ELSE r.finished + 1
      /\ Fields(kept)
  BY <1>3 DEF TableType
<1>5. Fields(ended)
  BY <1>2 DEF TableType
<1> HIDE DEF kept
<1>6. /\ Fixed(saved) /\ saved.round_records = r.round_records /\ Fields(saved)
      /\ r.state # "BETTING" => Counts(saved, r)
      /\ r.state = "BETTING" => Counts(saved, kept)
  BY <1>2, <1>4, <1>5 DEF SaveFlag
<1> HIDE DEF saved
<1>7. Fixed(over) /\ over.round_records = r.round_records + 1 /\ Fields(over) /\ Counts(over, saved)
  BY <1>6 DEF TableType
<1> HIDE DEF over
<1>8. /\ Fixed(closed) /\ Fields(closed) /\ Counts(closed, saved)
      /\ closed.round_records = IF RoundIsOver(r, flag) THEN r.round_records + 1
                                ELSE r.round_records
  BY <1>6, <1>7
<1> HIDE DEF closed
<1>9. /\ Fixed(s) /\ Counts(s, closed) /\ s.round_records = closed.round_records
  BY <1>8 DEF Arm, TableType
<1> HIDE DEF s
<1>. QED
  BY <1>1, <1>3, <1>4, <1>6, <1>8, <1>9

\* A hand that ends, or a timer of it that fires at a closing table.
LEMMA GameEndKeepsHand ==
  ASSUME NEW r, TableInv(r), HandInv(r), r.players # {},
         "ji_card" \notin r.timers,
         ~ r.late_ready => r.round_count > 0 /\ (r.state = "BETTING" \/ r.game_end_flag)
  PROVE  HandInv(GameEnd(r, FALSE))
<1> DEFINE s == GameEnd(r, FALSE)
<1>1. r \in TableType
  BY DEF TableInv
<1>2. /\ s \in TableType /\ SameSeats(r, s) /\ s.state = "END_GAME"
      /\ s.game_end_flag <=> r.game_end_flag \/ r.round_count >= MaxPlayBoard
      /\ s.timers = r.timers \cup {"preready"} /\ s.ji_card_late = FALSE
  BY <1>1, GameEndFacts DEF RoundIsOver
<1>3. /\ s.game_end_count_flag = TRUE
      /\ s.transfer_flag = r.transfer_flag /\ s.cost_select_flag = r.cost_select_flag
      /\ s.paid = r.paid /\ s.late_ready = r.late_ready
      /\ s.need_return_diamo = r.need_return_diamo
      /\ s.round_records = IF r.round_count >= MaxPlayBoard THEN r.round_records + 1
                           ELSE r.round_records
      /\ r.state # "BETTING" =>
           /\ s.settled = r.settled /\ s.recorded = r.recorded /\ s.finished = r.finished
      /\ r.state = "BETTING" =>
           /\ s.settled = IF r.already_update_account_bet THEN r.settled ELSE r.settled + 1
           /\ s.recorded = r.recorded + 1
           /\ s.finished = r.finished + 1
  BY <1>1, GameEndBooks DEF RoundIsOver
<1> HIDE DEF s
<1>4. /\ s.game_end_flag \in BOOLEAN /\ r.game_end_flag \in BOOLEAN
      /\ r.round_count \in Nat /\ r.round_records \in Nat /\ r.finished \in Nat
      /\ s.round_count = r.round_count /\ s.owner_uid = r.owner_uid
      /\ r.already_update_account_bet \in BOOLEAN /\ r.need_return_diamo \in BOOLEAN
  BY <1>1, <1>2 DEF TableType, SameSeats
<1>5. Records(s)
  BY <1>2, <1>3, <1>4, RoomAssumption DEF HandInv, Records
<1>6. ASSUME ~ s.late_ready PROVE Closing(s) /\ Tally(s) /\ Fees(s)
  <2>1. /\ Closing(r) /\ Tally(r) /\ Fees(r) /\ r.round_count > 0
        /\ r.state = "BETTING" \/ r.game_end_flag
    BY <1>3, <1>6 DEF HandInv
  <2>2. r.state = "BETTING" => ~ r.game_end_flag
    BY <2>1 DEF Closing
  <2>3. r.owner_uid # Nobody
    BY <1>4, <2>1 DEF TableInv, LastHand
  <2>4. Closing(s)
    BY <1>2, <1>4, <2>1 DEF Closing
  <2>5. Tally(s)
    BY <1>2, <1>3, <1>4, <2>1 DEF Tally
  <2>6. Fees(s)
    BY <1>2, <1>3, <1>4, <2>1, <2>2, <2>3 DEF Fees
  <2>. QED
    BY <2>4, <2>5, <2>6
<1>. QED
  BY <1>5, <1>6 DEF HandInv, s

\* A vote that passes closes the table, and nothing is wiped by it.
LEMMA DismissedKeepsHand ==
  ASSUME NEW r \in TableType, HandInv(r), LastHand(r), r.players # {}, r.round_count > 0
  PROVE  HandInv(Dismissed(r)) /\ Dismissed(r).owner_uid = r.owner_uid
<1> DEFINE q == [r EXCEPT !.need_return_diamo = @ \/ ~ r.game_end_count_flag]
           e == GameEnd(q, TRUE)
           d == [e EXCEPT !.dismiss = {}]
           s == Reset(d)
<1>1. /\ q \in TableType /\ SameSeats(r, q) /\ SamePlace(r, q) /\ q.timers = r.timers
      /\ q.settled = r.settled /\ q.recorded = r.recorded
      /\ q.already_update_account_bet = r.already_update_account_bet
      /\ q.transfer_flag = r.transfer_flag /\ q.cost_select_flag = r.cost_select_flag
      /\ q.paid = r.paid /\ q.finished = r.finished /\ q.round_records = r.round_records
      /\ q.late_ready = r.late_ready
  BY DEF TableType, SameSeats, SamePlace
<1>2. q.need_return_diamo <=> r.need_return_diamo \/ ~ r.game_end_count_flag
  BY DEF TableType
<1> HIDE DEF q
<1>3. /\ e \in TableType /\ SameSeats(q, e) /\ e.timers = q.timers \cup {"preready"}
      /\ e.game_end_flag <=> q.game_end_flag \/ RoundIsOver(q, TRUE)
      /\ e.ji_card_late = FALSE
  BY <1>1, GameEndFacts DEF SameSeats
<1>4. /\ e.game_end_count_flag = TRUE
      /\ e.transfer_flag = q.transfer_flag /\ e.cost_select_flag = q.cost_select_flag
      /\ e.paid = q.paid /\ e.late_ready = q.late_ready
      /\ e.need_return_diamo = q.need_return_diamo
      /\ e.round_records = q.round_records + 1
      /\ e.finished = q.finished
      /\ q.state # "BETTING" => e.settled = q.settled /\ e.recorded = q.recorded
      /\ q.state = "BETTING" =>
           /\ e.settled = IF q.already_update_account_bet THEN q.settled ELSE q.settled + 1
           /\ e.recorded = q.recorded + 1
  BY <1>1, GameEndBooks DEF RoundIsOver, SameSeats
<1> HIDE DEF e
<1>5. e.game_end_flag = TRUE
  BY <1>3 DEF RoundIsOver, TableType
<1>6. /\ s.state = "READY" /\ s.ready_players = 0 /\ s.game_end_flag = TRUE
      /\ s.round_count = e.round_count /\ s.owner_uid = e.owner_uid
      /\ s.timers = e.timers /\ s.ji_card_late = e.ji_card_late
      /\ s.settled = e.settled /\ s.recorded = e.recorded
      /\ s.already_update_account_bet = FALSE
      /\ s.transfer_flag = e.transfer_flag /\ s.cost_select_flag = e.cost_select_flag
      /\ s.paid = e.paid /\ s.finished = e.finished /\ s.round_records = e.round_records
      /\ s.need_return_diamo = e.need_return_diamo
      /\ s.game_end_count_flag = e.game_end_count_flag
      /\ s.late_ready = e.late_ready
  BY <1>3, <1>5 DEF TableType, Reset
<1> HIDE DEF s
<1>7. /\ s.round_count = r.round_count /\ s.owner_uid = r.owner_uid
      /\ r.round_records \in Nat /\ r.finished \in Nat /\ r.round_count \in Nat
  BY <1>1, <1>3, <1>6 DEF SameSeats, TableType
<1>8. Records(s)
  BY <1>1, <1>4, <1>6, <1>7 DEF Records
<1>9. ASSUME ~ s.late_ready PROVE Closing(s) /\ Tally(s) /\ Fees(s)
  <2>1. Closing(r) /\ Tally(r) /\ Fees(r)
    BY <1>1, <1>4, <1>6, <1>9 DEF HandInv
  <2>2. r.owner_uid # Nobody
    BY <1>7 DEF LastHand
  <2>3. Closing(s)
    BY <1>1, <1>3, <1>6, <1>7, <2>1 DEF Closing
  <2>4. Tally(s)
    BY <1>1, <1>4, <1>6, <1>7, <2>1 DEF Tally, SamePlace
  <2>5. /\ s.paid = r.paid /\ s.transfer_flag = r.transfer_flag
        /\ s.cost_select_flag = r.cost_select_flag /\ s.finished = r.finished
        /\ s.game_end_count_flag = TRUE
        /\ s.need_return_diamo <=> r.need_return_diamo \/ ~ r.game_end_count_flag
    BY <1>1, <1>2, <1>4, <1>6
  <2>6. Fees(s)
    BY <1>6, <1>7, <2>1, <2>2, <2>5 DEF Fees
  <2>. QED
    BY <2>3, <2>4, <2>6
<1>. QED
  BY <1>7, <1>8, <1>9 DEF HandInv, Dismissed, s, d, e, q

\* Cleaning charges what is due and forgets the flags that decided it.
LEMMA CleanTableBooks ==
  ASSUME NEW r \in TableType,
         ~ r.late_ready => /\ r.settled <= 1 /\ r.recorded <= 1
                           /\ "ji_card" \notin r.timers
  PROVE  /\ HandInv(CleanTable(r)) /\ HandInv(Reset(CleanTable(r)))
         /\ CleanTable(r).paid = r.paid + CleaningCharge(r)
         /\ Reset(CleanTable(r)).paid = r.paid + CleaningCharge(r)
         /\ CleanTable(r).owner_uid = Nobody
<1> DEFINE s == CleanTable(r)
           t == Reset(s)
           Clean(q) == /\ q.state = "READY" /\ q.round_count = 0
                       /\ q.game_end_flag = FALSE /\ q.owner_uid = Nobody
                       /\ q.transfer_flag = FALSE /\ q.already_update_account_bet = FALSE
                       /\ "preready" \notin q.timers
                       /\ "ji_card" \in q.timers => "ji_card" \in r.timers
                       /\ q.settled = r.settled /\ q.recorded = r.recorded
                       /\ q.late_ready = r.late_ready
                       /\ q.paid = r.paid + CleaningCharge(r)
<1>1. Clean(s) /\ DOMAIN s = DOMAIN r
  BY DEF CleanTable, Reset, TableType
<1> HIDE DEF s
<1>2. Clean(t)
  BY <1>1 DEF Reset, TableType
<1> HIDE DEF t
<1>3. ASSUME NEW q, Clean(q) PROVE HandInv(q)
  <2>1. Records(q)
    BY <1>3 DEF Records
  <2>2. ASSUME ~ q.late_ready PROVE Closing(q) /\ Tally(q)
    BY <1>3, <2>2 DEF Closing, Tally
  <2>3. q.transfer_flag = FALSE /\ q.owner_uid = Nobody /\ q.game_end_flag = FALSE
    BY <1>3
  <2>4. Fees(q)
    BY <2>3 DEF Fees
  <2>. QED
    BY <2>1, <2>2, <2>4 DEF HandInv
<1>. QED
  BY <1>1, <1>2, <1>3 DEF s, t

\* What a step does to the books, and who owns the table after it.
Goes == HandInv(room') /\ (room.owner_uid # Nobody => room'.owner_uid # Nobody)

LEMMA CreateBooks ==
  ASSUME TableInv(room), HandInv(room), NEW p \in Players, NEW cost \in {1, 2},
         Create(p, cost)
  PROVE  Goes
<1>1. room \in TableType /\ room.owner_uid = Nobody /\ p # Nobody /\ room.round_count = 0
  BY RoomAssumption DEF TableInv, Create, LastHand
<1>2. /\ room'.state = "ROOM_WAIT_GAME" /\ room'.owner_uid = p
      /\ room'.already_update_account_bet = FALSE
      /\ room'.game_end_count_flag = FALSE /\ room'.need_return_diamo = FALSE
      /\ room'.paid = 0 /\ room'.finished = 0 /\ room'.settled = 0 /\ room'.recorded = 0
      /\ room'.round_count = room.round_count /\ room'.game_end_flag = room.game_end_flag
      /\ room'.transfer_flag = room.transfer_flag /\ room'.timers = room.timers
      /\ room'.ji_card_late = room.ji_card_late /\ room'.late_ready = room.late_ready
  BY <1>1 DEF Create, TableType
<1>3. ~ room.game_end_flag
  BY <1>1 DEF HandInv, Records
<1>4. ASSUME ~ room'.late_ready PROVE Closing(room') /\ Tally(room') /\ Fees(room')
  <2>1. Closing(room) /\ Fees(room)
    BY <1>2, <1>4 DEF HandInv
  <2>2. "preready" \notin room.timers /\ "ji_card" \notin room.timers
    BY <1>1, <1>3, <2>1 DEF Closing
  <2>3. Closing(room') /\ Tally(room')
    BY <1>1, <1>2, <1>3, <2>2 DEF Closing, Tally
  <2>4. room.transfer_flag = FALSE
    BY <1>1, <2>1 DEF Fees, TableType
  <2>5. Fees(room')
    BY <1>1, <1>2, <1>3, <2>4 DEF Fees
  <2>. QED
    BY <2>3, <2>5
<1>5. Records(room')
  BY <1>2, <1>3 DEF Records
<1>. QED
  BY <1>1, <1>2, <1>4, <1>5 DEF HandInv, Goes

LEMMA JoinBooks ==
  ASSUME TableInv(room), HandInv(room), NEW p \in Players, Join(p)
  PROVE  Goes
<1>1. /\ room \in TableType /\ room.owner_uid # Nobody
      /\ Cardinality(room.players) < room.max_ready_players
  BY DEF TableInv, Join, CurPlayers
<1>2. Cardinality(room.players) \in Nat
  BY <1>1, CountPlayers DEF TableType
<1>3. room.round_count = 0 /\ room.state # "BETTING"
  BY <1>1, <1>2 DEF TableInv, LastHand, TableType
<1>4. /\ room'.state = "ROOM_WAIT_GAME" /\ room'.round_count = room.round_count
      /\ room'.game_end_flag = room.game_end_flag /\ room'.owner_uid = room.owner_uid
      /\ room'.timers = room.timers /\ SameBooks(room, room')
  BY <1>1, <1>3 DEF Join, TableType, SameBooks
<1>5. ~ room.game_end_flag
  BY <1>3 DEF HandInv, Records
<1>6. ASSUME ~ room'.late_ready PROVE Closing(room') /\ Tally(room') /\ Fees(room')
  <2>1. Closing(room) /\ Tally(room) /\ Fees(room)
    BY <1>4, <1>6 DEF HandInv, SameBooks
  <2>2. /\ "preready" \notin room.timers /\ "ji_card" \notin room.timers
        /\ room.state \in {"READY", "ROOM_WAIT_GAME"}
    BY <1>1, <1>3, <1>5, <2>1 DEF Closing, TableType
  <2>3. Closing(room') /\ Tally(room')
    BY <1>3, <1>4, <1>5, <2>1, <2>2 DEF Closing, Tally, SameBooks
  <2>4. Fees(room')
    BY <1>4, <2>1 DEF Fees, SameBooks
  <2>. QED
    BY <2>3, <2>4
<1>7. Records(room')
  BY <1>4, <1>5 DEF Records
<1>. QED
  BY <1>1, <1>4, <1>6, <1>7 DEF HandInv, Goes

LEMMA ReadyBooks ==
  ASSUME TableInv(room), HandInv(room), NEW p \in Players, Ready(p)
  PROVE  Goes
<1> DEFINE q == [room EXCEPT !.ready_players = @ + 1, !.ready = @ \cup {p},
                             !.late_ready = @ \/ room.game_end_flag]
<1>1. CASE room.state \notin {"READY", "ROOM_WAIT_GAME"} \/ p \in room.ready
  <2>1. room' = room
    BY <1>1 DEF Ready, HandlerReady
  <2>. QED
    BY <2>1 DEF Goes
<1>2. CASE room.state \in {"READY", "ROOM_WAIT_GAME"} /\ p \notin room.ready
  <2>1. room \in TableType
    BY DEF TableInv
  <2>2. /\ SamePlace(room, q) /\ q.timers = room.timers
        /\ q.settled = room.settled /\ q.recorded = room.recorded
        /\ q.already_update_account_bet = room.already_update_account_bet
        /\ q.transfer_flag = room.transfer_flag
        /\ q.cost_select_flag = room.cost_select_flag
        /\ q.paid = room.paid /\ q.finished = room.finished
        /\ q.round_records = room.round_records
        /\ q.need_return_diamo = room.need_return_diamo
        /\ q.game_end_count_flag = room.game_end_count_flag
    BY <2>1 DEF TableType, SamePlace
  <2>3. q.late_ready <=> room.late_ready \/ room.game_end_flag
    BY <2>1 DEF TableType
  <2>4. room' \in {q, TestGameStart(q)}
    BY <1>2 DEF Ready, HandlerReady
  <2>a. p \in room.players
    BY DEF Ready
  <2>5. TableInv(q)
    BY <1>2, <2>a, ReadyCounts
  <2> HIDE DEF q
  <2>6. Records(q)
    BY <2>2 DEF HandInv, Records, SamePlace
  <2>7. ASSUME ~ q.late_ready PROVE Closing(q) /\ Tally(q) /\ Fees(q)
    <3>1. Closing(room) /\ Tally(room) /\ Fees(room) /\ ~ room.game_end_flag
      BY <2>3, <2>7 DEF HandInv
    <3>2. Closing(q)
      BY <2>2, <3>1 DEF Closing, SamePlace
    <3>3. Tally(q)
      BY <2>2, <3>1 DEF Tally, SamePlace
    <3>4. Fees(q)
      BY <2>2, <3>1 DEF Fees, SamePlace
    <3>. QED
      BY <3>2, <3>3, <3>4
  <2>8. HandInv(q)
    BY <2>6, <2>7 DEF HandInv
  <2>9. HandInv(TestGameStart(q)) /\ TestGameStart(q).owner_uid = q.owner_uid
    BY <2>5, <2>8, TestGameStartKeepsHand DEF TableInv
  <2>. QED
    BY <2>2, <2>4, <2>8, <2>9 DEF Goes, SamePlace
<1>. QED
  BY <1>1, <1>2

LEMMA LeaveBooks ==
  ASSUME TableInv(room), HandInv(room), NEW p \in Players, Leave(p)
  PROVE  Goes
<1>1. room \in TableType /\ ~ room.game_end_flag
  BY DEF TableInv, Leave, MayDismiss
<1>2. SameBooks(room, room') /\ SamePlace(room, room') /\ room'.timers = room.timers
  BY <1>1 DEF Leave, DelPlayer, TableType, SameBooks, SamePlace
<1>3. Records(room')
  BY <1>1, <1>2 DEF Records, SamePlace
<1>4. ASSUME ~ room'.late_ready PROVE Closing(room') /\ Tally(room') /\ Fees(room')
  <2>1. Closing(room) /\ Tally(room) /\ Fees(room)
    BY <1>2, <1>4 DEF HandInv, SameBooks
  <2>2. Closing(room')
    BY <1>1, <1>2, <2>1 DEF Closing, SamePlace
  <2>3. Tally(room')
    BY <1>2, <2>1 DEF Tally, SamePlace, SameBooks
  <2>4. Fees(room')
    BY <1>2, <2>1 DEF Fees, SamePlace, SameBooks
  <2>. QED
    BY <2>2, <2>3, <2>4
<1>. QED
  BY <1>2, <1>3, <1>4 DEF HandInv, Goes, SamePlace

LEMMA TransferOwnerBooks ==
  ASSUME TableInv(room), HandInv(room), NEW p \in Players, NEW q \in Players,
         TransferOwner(p, q)
  PROVE  Goes
<1>1. /\ room \in TableType /\ q # Nobody /\ room.owner_uid # Nobody
      /\ room.cost_select_flag = 1 /\ room.round_count = 0
  BY RoomAssumption DEF TableInv, TransferOwner, TableType
<1>2. /\ room'.paid = IF room.transfer_flag THEN room.paid ELSE room.paid + 1
      /\ room'.owner_uid = q /\ room'.transfer_flag = TRUE
      /\ room'.settled = room.settled /\ room'.recorded = room.recorded
      /\ room'.already_update_account_bet = room.already_update_account_bet
      /\ room'.cost_select_flag = room.cost_select_flag
      /\ room'.finished = room.finished /\ room'.round_records = room.round_records
      /\ room'.need_return_diamo = room.need_return_diamo
      /\ room'.game_end_count_flag = room.game_end_count_flag
      /\ room'.late_ready = room.late_ready
      /\ room'.state = room.state /\ room'.round_count = room.round_count
      /\ room'.game_end_flag = room.game_end_flag
      /\ room'.ji_card_late = room.ji_card_late
      /\ room'.timers = room.timers /\ room'.ready_players = room.ready_players
  BY <1>1 DEF TransferOwner, TableType
<1>3. Records(room')
  BY <1>2 DEF HandInv, Records
<1>4. ASSUME ~ room'.late_ready PROVE Closing(room') /\ Tally(room') /\ Fees(room')
  <2>1. Closing(room) /\ Tally(room) /\ Fees(room)
    BY <1>2, <1>4 DEF HandInv
  <2>2. Closing(room')
    BY <1>2, <2>1 DEF Closing
  <2>3. Tally(room')
    BY <1>2, <2>1 DEF Tally
  <2>4. room.paid = IF room.transfer_flag THEN 1 ELSE 0
    BY <1>1, <2>1 DEF Fees
  <2>5. room'.paid = 1
    BY <1>2, <2>4
  <2>6. Fees(room')
    BY <1>1, <1>2, <2>1, <2>5 DEF Fees
  <2>. QED
    BY <2>2, <2>3, <2>6
<1>. QED
  BY <1>1, <1>2, <1>3, <1>4 DEF HandInv, Goes

\* The early start changes its own votes and timer, and the players needed.
LEMMA EarlyStartBooks ==
  ASSUME TableInv(room), HandInv(room), NEW p,
         (p \in Players /\ (AskToStart(p) \/ RefuseToStart(p))) \/ AheadStartTimer
  PROVE  Goes
<1>1. room \in TableType
  BY DEF TableInv
<1>2. CASE AheadStartTimer \/ RefuseToStart(p)
  <2> DEFINE f == ForgetVotes(room)
             c == [room EXCEPT !.ahead_start = @ \ {p}]
  <2>1. /\ SameBooks(room, f) /\ SamePlace(room, f) /\ f.ready_players = room.ready_players
        /\ f.timers = room.timers \ {"ahead_start"}
    BY <1>1 DEF TableType, SameBooks, SamePlace, ForgetVotes, Stop
  <2>2. /\ SameBooks(room, c) /\ SamePlace(room, c) /\ c.ready_players = room.ready_players
        /\ c.timers = room.timers
    BY <1>1 DEF TableType, SameBooks, SamePlace
  <2>3. room' \in {f, c}
    BY <1>2 DEF AheadStartTimer, RefuseToStart
  <2> HIDE DEF f, c
  <2>4. HandInv(f) /\ HandInv(c)
    BY <1>1, <2>1, <2>2, SameBooksKeep
  <2>. QED
    BY <2>1, <2>2, <2>3, <2>4 DEF Goes, SamePlace
<1>3. CASE p \in Players /\ AskToStart(p)
  <2> DEFINE q == [room EXCEPT !.ahead_start = @ \cup {p}]
             a == Arm([q EXCEPT !.ahead_start_flag = TRUE], "ahead_start")
             f == ForgetVotes(q)
             n == AtLeastTwo(CurPlayers(q))
             g == [f EXCEPT !.max_ready_players = n]
  <2>1. /\ SameBooks(room, q) /\ SamePlace(room, q) /\ q.ready_players = room.ready_players
        /\ q.timers = room.timers /\ q.players = room.players
    BY <1>1 DEF TableType, SameBooks, SamePlace
  <2>2. /\ SameBooks(room, a) /\ SamePlace(room, a) /\ a.ready_players = room.ready_players
        /\ a.timers = room.timers \cup {"ahead_start"}
    BY <1>1 DEF TableType, SameBooks, SamePlace, Arm
  <2>3. /\ SameBooks(room, f) /\ SamePlace(room, f) /\ f.ready_players = room.ready_players
        /\ f.timers = room.timers \ {"ahead_start"} /\ f \in TableType
    BY <1>1, <1>3 DEF TableType, SameBooks, SamePlace, ForgetVotes, Stop
  <2>4. room' \in {a, q, TestGameStart(g)}
    BY <1>3 DEF AskToStart
  <2>5. n \in 2 .. SeatMax
    <3>1. /\ Cardinality(room.players) \in Nat
          /\ Cardinality(room.players) <= room.max_ready_players
          /\ room.max_ready_players \in 2 .. SeatMax
      BY <1>1, CountPlayers DEF TableType, TableInv, Seated
    <3>. QED
      BY <2>1, <3>1, RoomAssumption DEF AtLeastTwo, CurPlayers
  <2> HIDE DEF q, a, f, n
  <2>6. /\ SameBooks(f, g) /\ SamePlace(f, g) /\ g.ready_players = f.ready_players
        /\ g.timers = f.timers /\ g \in TableType
    BY <2>3, <2>5 DEF TableType, SameBooks, SamePlace
  <2> HIDE DEF g
  <2>7. HandInv(a) /\ HandInv(q) /\ HandInv(f)
    BY <1>1, <2>1, <2>2, <2>3, SameBooksKeep
  <2>8. HandInv(g)
    BY <2>3, <2>6, <2>7, SameBooksKeep
  <2>9. HandInv(TestGameStart(g)) /\ TestGameStart(g).owner_uid = g.owner_uid
    BY <2>6, <2>8, TestGameStartKeepsHand
  <2>. QED
    BY <2>1, <2>2, <2>3, <2>4, <2>6, <2>7, <2>9 DEF Goes, SamePlace
<1>. QED
  BY <1>2, <1>3

\* A win settles the hand, a second win of the same hand does not.
LEMMA WinBooks ==
  ASSUME TableInv(room), HandInv(room), Win
  PROVE  Goes
<1> DEFINE q == UpdateAccountBet(room)
<1>1. room \in TableType /\ room.state = "BETTING" /\ room.round_count > 0
  BY DEF TableInv, Win, LastHand
<1>2. /\ q \in TableType /\ SameSeats(room, q) /\ q.state = room.state
      /\ q.game_end_flag = room.game_end_flag /\ q.timers = room.timers
  BY <1>1, UpdateAccountBetFacts
<1>3. /\ q.settled = IF room.already_update_account_bet THEN room.settled ELSE room.settled + 1
      /\ q.already_update_account_bet = TRUE
      /\ q.recorded = room.recorded
      /\ q.transfer_flag = room.transfer_flag /\ q.cost_select_flag = room.cost_select_flag
      /\ q.paid = room.paid /\ q.finished = room.finished
      /\ q.round_records = room.round_records
      /\ q.need_return_diamo = room.need_return_diamo
      /\ q.game_end_count_flag = room.game_end_count_flag
      /\ q.late_ready = room.late_ready
  BY <1>1, UpdateAccountBetBooks
<1>4. room' = [q EXCEPT !.timers = @ \cup {"ji_card"},
                        !.ji_card_late = "preready" \in room.timers]
  BY DEF Win, JiGameEnd, Arm
<1> HIDE DEF q
<1>5. /\ SameBooks(q, room') /\ room'.state = "BETTING"
      /\ room'.round_count = room.round_count /\ room'.owner_uid = room.owner_uid
      /\ room'.game_end_flag = room.game_end_flag
      /\ room'.timers = room.timers \cup {"ji_card"}
      /\ room'.ji_card_late = ("preready" \in room.timers)
  BY <1>1, <1>2, <1>4 DEF TableType, SameBooks, SameSeats
<1>6. Records(room')
  BY <1>3, <1>5 DEF HandInv, Records, SameBooks
<1>7. ASSUME ~ room'.late_ready PROVE Closing(room') /\ Tally(room') /\ Fees(room')
  <2>1. Closing(room) /\ Tally(room) /\ Fees(room)
    BY <1>3, <1>5, <1>7 DEF HandInv, SameBooks
  <2>2. ~ room.game_end_flag /\ "preready" \notin room.timers
    BY <1>1, <2>1 DEF Closing
  <2>3. Closing(room')
    BY <1>1, <1>5, <2>2 DEF Closing
  <2>4. Tally(room')
    <3>1. room.already_update_account_bet \in BOOLEAN
      BY <1>1 DEF TableType
    <3>. QED
      BY <1>1, <1>3, <1>5, <2>1, <3>1 DEF Tally, SameBooks
  <2>5. Fees(room')
    BY <1>3, <1>5, <2>1 DEF Fees, SameBooks
  <2>. QED
    BY <2>3, <2>4, <2>5
<1>. QED
  BY <1>5, <1>6, <1>7 DEF HandInv, Goes

LEMMA HandEndBooks ==
  ASSUME TableInv(room), HandInv(room), HuangZhuang \/ JiCardTimer
  PROVE  Goes
<1>1. room \in TableType
  BY DEF TableInv
<1>2. \A r \in TableType : r.round_count > 0 /\ TableInv(r) => r.players # {}
  BY EmptyCount, RoomAssumption DEF TableInv, LastHand, TableType
<1>3. \A r \in TableType : GameEnd(r, FALSE).owner_uid = r.owner_uid
  BY GameEndFacts DEF SameSeats
<1>4. CASE HuangZhuang
  <2>1. /\ room.state = "BETTING" /\ "ji_card" \notin room.timers
        /\ room.round_count > 0 /\ room' = GameEnd(room, FALSE)
    BY <1>4 DEF HuangZhuang, TableInv, LastHand
  <2>2. HandInv(GameEnd(room, FALSE))
    BY <1>1, <1>2, <2>1, GameEndKeepsHand
  <2>. QED
    BY <1>1, <1>3, <2>1, <2>2 DEF Goes
<1>5. CASE JiCardTimer
  <2> DEFINE q == Stop(room, "ji_card")
  <2>1. /\ HandInv(q) /\ SameBooks(room, q) /\ SamePlace(room, q) /\ SameSeats(room, q)
        /\ q \in TableType /\ q.timers = room.timers \ {"ji_card"}
    BY <1>1, StopKeepsHand DEF Timers
  <2>2. TableInv(q)
    BY StopKeeps
  <2>3. "ji_card" \in room.timers /\ room' = GameEnd(q, FALSE)
    BY <1>5 DEF JiCardTimer
  <2> HIDE DEF q
  <2>4. ~ q.late_ready => q.round_count > 0 /\ (q.state = "BETTING" \/ q.game_end_flag)
    BY <2>1, <2>3 DEF HandInv, Closing, SameBooks, SamePlace
  <2>5. HandInv(GameEnd(q, FALSE))
    <3>1. CASE q.players # {}
      BY <2>1, <2>2, <2>4, <3>1, GameEndKeepsHand
    <3>2. CASE q.players = {}
      <4> DEFINE e == [q EXCEPT !.state = "END_GAME", !.game_end_count_flag = TRUE]
      <4>1. GameEnd(q, FALSE) = e
        BY <3>2 DEF GameEnd
      <4>2. q.late_ready
        BY <1>2, <2>1, <2>2, <2>4, <3>2
      <4>3. /\ e.late_ready = q.late_ready /\ e.game_end_flag = q.game_end_flag
            /\ e.round_count = q.round_count /\ e.round_records = q.round_records
        BY <2>1 DEF TableType
      <4> HIDE DEF e
      <4>. QED
        BY <2>1, <4>1, <4>2, <4>3 DEF HandInv, Records
    <3>. QED
      BY <3>1, <3>2
  <2>. QED
    BY <1>3, <2>1, <2>3, <2>5 DEF Goes, SamePlace
<1>. QED
  BY <1>4, <1>5

\* What is charged depends on the flags, the players and the hands played.
LEMMA SameCharge ==
  ASSUME NEW r, NEW s, s.round_count = r.round_count, s.transfer_flag = r.transfer_flag,
         s.need_return_diamo = r.need_return_diamo,
         s.cost_select_flag = r.cost_select_flag, s.players = r.players
  PROVE  CleaningCharge(s) = CleaningCharge(r)
BY DEF CleaningCharge, CreateTableCost, CurPlayers

\* A table is cleaned by preready_timer only once its round is over.
LEMMA PrereadyTimerBooks ==
  ASSUME TableInv(room), HandInv(room), PrereadyTimer
  PROVE  /\ HandInv(room')
         /\ Cleaned => /\ room.game_end_flag
                       /\ room'.paid = room.paid + CleaningCharge(room)
<1> DEFINE q == Stop(room, "preready")
<1>1. /\ q \in TableType /\ SameBooks(room, q) /\ SamePlace(room, q) /\ SameSeats(room, q)
      /\ q.timers = room.timers \ {"preready"} /\ HandInv(q)
  <2>1. room \in TableType /\ "preready" \in Timers
    BY DEF TableInv, Timers
  <2>. QED
    BY <2>1, StopKeepsHand
<1>2. /\ room' = HandlerPreready(q) /\ "preready" \in room.timers
      /\ "ji_card" \in room.timers => room.ji_card_late
  BY DEF PrereadyTimer
<1> HIDE DEF q
<1>3. ASSUME ~ q.late_ready
      PROVE  /\ Closing(q) /\ Tally(q) /\ Fees(q) /\ "ji_card" \notin q.timers
             /\ q.state # "BETTING" /\ q.round_count > 0
  <2>1. Closing(room) /\ Tally(room) /\ Fees(room)
    BY <1>1, <1>3 DEF HandInv, SameBooks
  <2>2. Closing(q) /\ Tally(q) /\ Fees(q)
    BY <1>1, <1>3 DEF HandInv
  <2>3. "ji_card" \notin q.timers
    BY <1>1, <1>2, <2>1 DEF Closing
  <2>4. room.state # "BETTING" /\ (room.state = "END_GAME" \/ room.game_end_flag)
    BY <1>2, <2>1 DEF Closing
  <2>5. room.round_count > 0
    BY <2>1, <2>4 DEF HandInv, Closing, Records
  <2>. QED
    BY <1>1, <2>2, <2>3, <2>4, <2>5 DEF SamePlace
<1>4. CASE q.game_end_flag
  <2>1. room' = CleanTable(q)
    BY <1>2, <1>4 DEF HandlerPreready
  <2>2. HandInv(room') /\ room'.paid = q.paid + CleaningCharge(q)
    BY <1>1, <1>3, <2>1, CleanTableBooks DEF Tally
  <2>3. q.paid = room.paid /\ CleaningCharge(q) = CleaningCharge(room)
    BY <1>1, SameCharge DEF SameBooks, SamePlace, SameSeats
  <2>. QED
    BY <1>1, <1>4, <2>2, <2>3 DEF SamePlace
<1>5. CASE ~ q.game_end_flag
  <2>1. /\ room'.state = "READY" /\ room'.ready_players = 0
        /\ room'.already_update_account_bet = FALSE
        /\ room'.round_count = q.round_count /\ room'.game_end_flag = q.game_end_flag
        /\ room'.ji_card_late = q.ji_card_late /\ room'.owner_uid = q.owner_uid
        /\ room'.timers = q.timers \cup {"ready"}
        /\ room'.settled = q.settled /\ room'.recorded = q.recorded
        /\ room'.transfer_flag = q.transfer_flag
        /\ room'.cost_select_flag = q.cost_select_flag
        /\ room'.paid = q.paid /\ room'.finished = q.finished
        /\ room'.round_records = q.round_records
        /\ room'.need_return_diamo = q.need_return_diamo
        /\ room'.game_end_count_flag = q.game_end_count_flag
        /\ room'.late_ready = q.late_ready
    BY <1>1, <1>2, <1>5 DEF HandlerPreready, Reset, Arm, TableType
  <2>2. Records(room')
    BY <1>5, <2>1 DEF Records
  <2>3. ASSUME ~ room'.late_ready PROVE Closing(room') /\ Tally(room') /\ Fees(room')
    <3>1. /\ Closing(q) /\ Tally(q) /\ Fees(q) /\ "ji_card" \notin q.timers
          /\ q.state # "BETTING" /\ q.round_count > 0
      BY <1>3, <2>1, <2>3
    <3>2. Closing(room')
      BY <1>1, <1>5, <2>1, <3>1 DEF Closing
    <3>3. Tally(room')
      BY <2>1, <3>1 DEF Tally
    <3>4. Fees(room')
      BY <2>1, <3>1 DEF Fees
    <3>. QED
      BY <3>2, <3>3, <3>4
  <2>4. ~ Cleaned
    BY <1>1, <2>1 DEF Cleaned, SamePlace
  <2>. QED
    BY <2>2, <2>3, <2>4 DEF HandInv
<1>. QED
  BY <1>4, <1>5

LEMMA ReadyTimerBooks ==
  ASSUME TableInv(room), HandInv(room), ReadyTimer
  PROVE  Goes
<1>1. room \in TableType /\ "ready" \in Timers
  BY DEF TableInv, Timers
<1> DEFINE q == Stop(room, "ready")
<1>2. HandInv(q) /\ SamePlace(room, q) /\ q \in TableType
  BY <1>1, StopKeepsHand
<1>3. room' = TestGameStart(q)
  BY DEF ReadyTimer
<1> HIDE DEF q
<1>. QED
  BY <1>2, <1>3, TestGameStartKeepsHand DEF Goes, SamePlace

\* An owner who closes his table before its first hand gets back what a
\* transfer was charged.
LEMMA OwnerDismissBooks ==
  ASSUME TableInv(room), HandInv(room), NEW p \in Players, OwnerDismiss(p)
  PROVE  /\ HandInv(room') /\ room.round_count = 0 /\ ~ room.game_end_flag
         /\ room'.paid = IF room.transfer_flag THEN room.paid - 1 ELSE room.paid
<1>1. room \in TableType /\ room.round_count = 0 /\ ~ room.game_end_flag
  BY DEF TableInv, OwnerDismiss, MayDismiss
<1>2. PICK n \in Int : n = IF room.transfer_flag THEN room.paid - 1 ELSE room.paid
  BY <1>1 DEF TableType
<1> DEFINE q == [room EXCEPT !.paid = n]
<1>3. /\ q \in TableType /\ q.timers = room.timers /\ q.paid = n
      /\ q.round_count = room.round_count /\ q.settled = room.settled
      /\ q.recorded = room.recorded /\ q.late_ready = room.late_ready
  BY <1>1 DEF TableType
<1>4. room' = Reset(CleanTable(q))
  BY <1>2 DEF OwnerDismiss
<1> HIDE DEF q
<1>5. ~ q.late_ready =>
        q.settled <= 1 /\ q.recorded <= 1 /\ "ji_card" \notin q.timers
  BY <1>1, <1>3 DEF HandInv, Closing, Tally
<1>6. CleaningCharge(q) = 0
  BY <1>1, <1>3 DEF CleaningCharge
<1>7. HandInv(room') /\ room'.paid = q.paid + CleaningCharge(q)
  BY <1>3, <1>4, <1>5, CleanTableBooks
<1>. QED
  BY <1>1, <1>2, <1>3, <1>6, <1>7

LEMMA RefuseBooks ==
  ASSUME TableInv(room), HandInv(room), NEW p \in Players, Refuse(p)
  PROVE  Goes
<1>1. room \in TableType
  BY DEF TableInv
<1>2. room' = [room EXCEPT !.timers = @ \ {"dismiss"}, !.dismiss = {}]
  BY DEF Refuse, CancelVote, Stop
<1>3. /\ SameBooks(room, room') /\ SamePlace(room, room')
      /\ room'.ready_players = room.ready_players
      /\ room'.timers = room.timers \ {"dismiss"}
  BY <1>1, <1>2 DEF TableType, SameBooks, SamePlace
<1>4. HandInv(room')
  BY <1>1, <1>3, SameBooksKeep
<1>. QED
  BY <1>3, <1>4 DEF Goes, SamePlace

\* A vote that is opened, goes on or passes, and its timeout.
LEMMA VoteBooks ==
  ASSUME TableInv(room), HandInv(room),
         (\E p \in Players : Agree(p)) \/ DismissTimer
  PROVE  Goes
<1>1. /\ room \in TableType /\ room.round_count > 0
  BY DEF TableInv, Votes, Agree, DismissTimer
<1>2. room.players # {}
  BY <1>1, EmptyCount, RoomAssumption DEF TableInv, LastHand, TableType
<1>3. ASSUME NEW q \in TableType, HandInv(q), LastHand(q), SamePlace(room, q),
             q.players = room.players, room' = Dismissed(Stop(q, "dismiss"))
      PROVE  Goes
  <2> DEFINE s == Stop(q, "dismiss")
  <2>1. /\ HandInv(s) /\ SamePlace(q, s) /\ SameSeats(q, s) /\ s \in TableType
        /\ s.timers = q.timers \ {"dismiss"}
    BY <1>3, StopKeepsHand DEF Timers
  <2> HIDE DEF s
  <2>2. LastHand(s)
    BY <1>3, <2>1 DEF LastHand, SamePlace, SameSeats
  <2>3. s.players # {} /\ s.round_count > 0
    BY <1>1, <1>2, <1>3, <2>1 DEF SamePlace, SameSeats
  <2>4. HandInv(Dismissed(s)) /\ Dismissed(s).owner_uid = s.owner_uid
    BY <2>1, <2>2, <2>3, DismissedKeepsHand
  <2>. QED
    BY <1>3, <2>1, <2>4 DEF Goes, SamePlace, s
<1>4. CASE DismissTimer
  BY <1>1, <1>3, <1>4 DEF DismissTimer, SamePlace, TableInv
<1>5. ASSUME NEW p \in Players, Agree(p) PROVE Goes
  <2> DEFINE q == [room EXCEPT !.dismiss = @ \cup {p}]
             a == Arm(q, "dismiss")
  <2>1. /\ q \in TableType /\ SameBooks(room, q) /\ SamePlace(room, q)
        /\ q.ready_players = room.ready_players /\ q.timers = room.timers
        /\ q.players = room.players /\ q.ready = room.ready
        /\ q.max_ready_players = room.max_ready_players
    BY <1>1 DEF TableType, SameBooks, SamePlace
  <2>2. /\ SameBooks(room, a) /\ SamePlace(room, a)
        /\ a.ready_players = room.ready_players
        /\ a.timers = room.timers \cup {"dismiss"}
    BY <1>1 DEF TableType, SameBooks, SamePlace, Arm
  <2>3. room' \in {a, q, Dismissed(Stop(q, "dismiss"))}
    BY <1>5 DEF Agree
  <2> HIDE DEF q, a
  <2>4. HandInv(q) /\ HandInv(a)
    BY <1>1, <2>1, <2>2, SameBooksKeep
  <2>5. LastHand(q)
    BY <2>1 DEF TableInv, LastHand, SamePlace
  <2>. QED
    BY <1>3, <2>1, <2>2, <2>3, <2>4, <2>5 DEF Goes, SamePlace
<1>. QED
  BY <1>4, <1>5

-----------------------------------------------------------------------------
\* Steps that clean no table, and the two that do.
LEMMA NextKeepsHandInv ==
  ASSUME TableInv(room), HandInv(room), [Next]_room
  PROVE  /\ HandInv(room')
         /\ Cleaned =>
              \/ /\ room.game_end_flag
                 /\ room'.paid = room.paid + CleaningCharge(room)
              \/ /\ room.round_count = 0 /\ ~ room.game_end_flag
                 /\ room'.paid = IF room.transfer_flag THEN room.paid - 1 ELSE room.paid
<1>1. Goes => HandInv(room') /\ ~ Cleaned
  BY DEF Goes, Cleaned
<1>2. ASSUME NEW p \in Players, NEW cost \in {1, 2}, Create(p, cost) PROVE Goes
  BY <1>2, CreateBooks
<1>3. ASSUME NEW p \in Players, Join(p) PROVE Goes
  BY <1>3, JoinBooks
<1>4. ASSUME NEW p \in Players, Ready(p) PROVE Goes
  BY <1>4, ReadyBooks
<1>5. ASSUME NEW p \in Players, Leave(p) PROVE Goes
  BY <1>5, LeaveBooks
<1>6. ASSUME NEW p \in Players, AskToStart(p) \/ RefuseToStart(p) PROVE Goes
  BY <1>6, EarlyStartBooks
<1>7. ASSUME NEW p \in Players, Agree(p) PROVE Goes
  BY <1>7, VoteBooks
<1>8. ASSUME NEW p \in Players, Refuse(p) PROVE Goes
  BY <1>8, RefuseBooks
<1>9. ASSUME NEW p \in Players, NEW q \in Players, TransferOwner(p, q) PROVE Goes
  BY <1>9, TransferOwnerBooks
<1>10. CASE Win
  BY <1>1, <1>10, WinBooks
<1>11. CASE HuangZhuang \/ JiCardTimer
  BY <1>1, <1>11, HandEndBooks
<1>12. CASE AheadStartTimer
  BY <1>1, <1>12, EarlyStartBooks
<1>13. ASSUME NEW p \in Players, OwnerDismiss(p)
       PROVE  /\ HandInv(room') /\ room.round_count = 0 /\ ~ room.game_end_flag
              /\ room'.paid = IF room.transfer_flag THEN room.paid - 1 ELSE room.paid
  BY <1>13, OwnerDismissBooks
<1>14. CASE PrereadyTimer
  BY <1>14, PrereadyTimerBooks
<1>15. CASE ReadyTimer
  BY <1>1, <1>15, ReadyTimerBooks
<1>16. CASE DismissTimer
  BY <1>1, <1>16, VoteBooks
<1>17. CASE UNCHANGED room
  BY <1>17 DEF Cleaned
<1>. QED
  BY <1>1, <1>2, <1>3, <1>4, <1>5, <1>6, <1>7, <1>8, <1>9, <1>10, <1>11, <1>12,
     <1>13, <1>14, <1>15, <1>16, <1>17 DEF Next, Request

LEMMA InitHandInv == Init => HandInv(room)
BY DEF Init, HandInv, Records, Closing, Tally, Fees

\* The books of a table agree with its place in the round.
THEOREM BooksAreInOrder == Spec => [](TableInv(room) /\ HandInv(room))
<1>1. Init => TableInv(room) /\ HandInv(room)
  BY InitTableInv, InitHandInv
<1>2. TableInv(room) /\ HandInv(room) /\ [Next]_room => TableInv(room') /\ HandInv(room')
  BY NextKeepsTableInv, NextKeepsHandInv
<1>3. TableInv(room) /\ HandInv(room) /\ [Next]_room => (TableInv(room) /\ HandInv(room))'
  BY <1>2 DEF TableInv, TableType, Seated, Votes, LastHand, LateTimer,
              HandInv, Records, Closing, Tally, Fees
<1>. QED
  BY <1>1, <1>3, PTL DEF Spec

\* Whether a win, a second win, an empty deck, a vote or its timeout ends it,
\* a hand is settled and recorded exactly once (update_account_bet, game_end),
\* at a table at which nobody got ready while it was closing (~ late_ready).
THEOREM HandsAreBooked == Spec => []HandIsSettledAndRecordedOnce
<1>1. TableInv(room) /\ HandInv(room) => HandIsSettledAndRecordedOnce
  BY DEF HandInv, Tally, HandIsSettledAndRecordedOnce
<1>. QED
  BY BooksAreInOrder, <1>1, PTL

\* A table that is cleaned has been paid for once, by its owner or by everybody,
\* if a hand was played to its end, and by nobody otherwise, if nobody got ready
\* at it while it was closing (~ late_ready).
THEOREM TableIsPaidFor == Spec => TableIsPaidForOnce
<1> DEFINE A == Cleaned /\ ~ room.late_ready =>
                room'.paid = IF room.finished = 0 THEN 0 ELSE CreateTableCost(room)
<1>1. TableInv(room) /\ HandInv(room) /\ [Next]_room => [A]_room
  <2> SUFFICES ASSUME TableInv(room), HandInv(room), [Next]_room,
                      Cleaned, ~ room.late_ready
               PROVE  room'.paid = IF room.finished = 0 THEN 0 ELSE CreateTableCost(room)
    OBVIOUS
  <2>1. Fees(room) /\ Records(room) /\ room.owner_uid # Nobody
    BY DEF HandInv, Cleaned
  <2>2. CASE /\ room.game_end_flag
             /\ room'.paid = room.paid + CleaningCharge(room)
    <3>1. /\ room.paid = IF room.transfer_flag THEN 1 ELSE 0
          /\ room.transfer_flag => room.cost_select_flag = 1
          /\ room.need_return_diamo <=> room.finished = 0
          /\ room.round_count > 0
      BY <2>1, <2>2 DEF Fees, Records
    <3>2. CreateTableCost(room) \in Int
          /\ (room.cost_select_flag = 1 => CreateTableCost(room) = 1)
      <4>1. room.players \in SUBSET Players
        BY DEF TableInv, TableType
      <4>. QED
        BY <4>1, CountPlayers DEF CreateTableCost, CurPlayers
    <3>3. CASE room.finished = 0
      BY <2>2, <3>1, <3>3 DEF CleaningCharge
    <3>4. CASE room.finished # 0
      BY <2>2, <3>1, <3>2, <3>4 DEF CleaningCharge
    <3>. QED
      BY <3>3, <3>4
  <2>3. CASE /\ room.round_count = 0
             /\ room'.paid = IF room.transfer_flag THEN room.paid - 1 ELSE room.paid
    BY <2>1, <2>3 DEF Fees
  <2>. QED
    BY <2>2, <2>3, NextKeepsHandInv
<1>. QED
  BY BooksAreInOrder, <1>1, PTL DEF Spec, TableIsPaidForOnce

\* clean_table wipes no hand under play off a table at which nobody got ready
\* while it was closing (~ late_ready; handler_ready allows it, and then one is
\* wiped), and at any table no played round goes without its record.
THEOREM HandsAreNotWiped == Spec => NoHandIsWiped
<1> DEFINE A == Cleaned => /\ ~ room.late_ready => room.state # "BETTING"
                           /\ room.round_count > 0 => room.round_records >= 1
<1>1. TableInv(room) /\ HandInv(room) /\ [Next]_room => [A]_room
  <2> SUFFICES ASSUME TableInv(room), HandInv(room), [Next]_room, Cleaned
               PROVE  /\ ~ room.late_ready => room.state # "BETTING"
                      /\ room.round_count > 0 => room.round_records >= 1
    OBVIOUS
  <2>1. CASE room.game_end_flag
    BY <2>1 DEF HandInv, Records, Closing
  <2>2. CASE room.round_count = 0
    BY <2>2 DEF TableInv, LastHand
  <2>. QED
    BY <2>1, <2>2, NextKeepsHandInv
<1>. QED
  BY BooksAreInOrder, <1>1, PTL DEF Spec, NoHandIsWiped

=============================================================================
