# Asmajiang: specifications and proofs

TLA+ modules for the Anshun mahjong table server in `src/`: one event loop
(libev) that runs a request handler or a timer callback of a `Table` at a time,
and one detached thread that stores the records of finished hands in redis.
Line numbers refer to the files of `src/`.

## Inventory

| part | state it keeps | operations | what is hard |
|---|---|---|---|
| Hand under play (`table.cc` 1278-1746, 2459-2676, 3063-4027) | hands, discards, melds, deck; `cur_seat`, `last_action`, `last_card`, `chu_seat`, `wait_handler_seat`, flags of seats that may win, tiles a seat has passed | `handler_chu/peng/gang/guo/ting/hu/cancel`, each followed by `next_player_seat` and `start_next_bet` | who is asked about a tile, in which order; what a passed offer leaves behind; who pays |
| Life of a table (`table.cc` 468-1133, 1881-2256, 4075-4412, 6185-6411, 7032-7060, 7261-7307) | `state`, players, ready seats and their counter, `round_count`, the vote, the early-start vote, six timers, fee flags | login, ready, leave, early start, transfer of the owner, dismissal votes, `game_start`, `game_end`, `handler_preready`, `clean_table` | timers that meet requests and each other; flags reset in one path and not in another |
| Dealer (`table.cc` 2807-2959, 7062-7083, resets at 209-366, 1036-1072) | `dealer`, `lian_zhuang_cnt` per seat, traces of the last hand | `init_dealer`, `game_start`, `reset` | traces are reset before they are read |
| Settlement (`table.cc` 4665-5899, 6440-6475, 7112-7191) | bets, score details, totals | `update_account_bet`, `calculate_base_score`, `huang_zhuang_cha_jiao`, `accumulate_hu` | once per hand; what is paid is received; which points count |
| Hand records (`replay.cc`) | the ring `msgs`, `head`, `tail` | `async_save`, `send_msg`, `msg_handler`, `compress_data` | two threads, no lock, a slot given back before it is used up, a full ring |
| Red packets (`table.cc` 6592-6800, 7334-7400) | the packet drawn for each seat, who has asked, who lives in its area | hand out, take, clear | taken twice; popped for nobody; marks of an earlier hand. `handler_redpacket_open_condition` is never called and `red_type` never 1 |
| Substitute and club tables (`table.cc` 1137-1186, 6871-7030, 7403-7602) | who pays, the entry of the table in the lobby list, the club's open rooms, two timers | create, modify, clear, time out | fees and refunds on every path that closes a table; the list's key is made of an owner who may change |
| Messages (`handler_table_info`, chat, gps, voice...) | none of their own | build packets | - |
| Callbacks (`table_delegate.cc`) | none | find the table, call a handler | - |
| Tiles (`libmajiang/*.h`) and server (`game.h`, `player.h`, `client.h`, `redis_client.h`) | external: only headers are in the repository | `permit_hu`, `permit_gang`, `get_next_card`; redis commands | - |

How they interact: the event loop calls a table's handlers, directly or from a
timer; handlers call one another (`handler_ready` may reach `game_start`,
`game_start` calls `init_dealer` and then `start_next_bet`, a win calls
`ji_game_end`, which arms the timer that calls `game_end`). The only state
shared between threads is the ring of `replay.cc`, which `game_end` fills.

## Modules

| module | models | shape |
|---|---|---|
| `RecordStore` | what `async_save` promises | abstract specification: a bounded queue that takes in or refuses |
| `ReplayRing` | `send_msg`, `msg_handler` | one action per access to shared memory of either thread; `Store!Spec` is its refinement |
| `ReplayRingProofs` | - | theorems about `ReplayRing` |
| `ReplayRingRefinement` | - | the proof that `ReplayRing` implements `RecordStore` |
| `Round` | one hand, from `game_start` to its end | the table is one record; `HandlerX`, `NextPlayerSeat`, `StartNextBet` are functions on it; an action is a request with all it calls |
| `RoundProofs` | - | theorems about `Round` |
| `Room` | a table from creation to cleaning | the same; an action is a request or a timer callback |
| `RoomProofs` | - | theorems about `Room` |
| `Dealer` | who deals the next hand | a hand only ends here, in each of the ways `Round` ends |
| `DealerProofs` | - | theorems about `Dealer` |
| `Settlement` | chickens, beans, gangs and wins of a hand, what they are worth, who pays them | the parts of a hand that leave a score; `UpdateAccountBet` and what it calls are functions on it |
| `SettlementProofs` | - | theorems about `Settlement` |
| `RedPackets` | packets: popped, drawn, asked for, cleared | operators on one record, used by `TableFees` |
| `TableFees` | how a table is created, who pays and is paid back, the lobby list, the timers of unplayed tables, and the packets of its hands | composes `RedPackets` with the course of a table; an action is a request or a timer |
| `TableFeesProofs` | - | theorems about `TableFees` and `RedPackets` |
| `SumProofs` | - | lemmas about sums over finite sets, which three of the proof modules use |
| `MC...` | - | model values, deals and hands for TLC |

Code that does not return to the event loop is never cut into two actions. That
is why all of them but `ReplayRing` and `Dealer` keep the table in one record:
`handler_ready` calls `test_game_start`, which calls `game_start`, and each of
the three is an operator from tables to tables, named like its function.

**Round.** `holes`, `discards`, `pengs`, `gangs` are the `HoleCards` of the
seats as bags; `guo_hu`, `guo_peng` are `guo_hu_cards`, `guo_peng_cards`;
`handler_flag`, `pao_hu_flag`, `gang_hu_flag`, `ting`, `bao_ting` are sets of
the seats whose field is 1; `draws` is `get_next_card_cnt` (up to 2, the code
asks for 0 and 1 only); `fresh` is `hole_cards.last_card`; `actions` are the
offers of `start_next_bet`. `permit_hu`, `analysis_card_type` and `ting_cards`
are parameters, because libmajiang's sources are not here. A client answers what
it is offered: `handler_ting` tests no offer at all, and its error path, which
has already changed the hand, is not an action. `robot_flag` and `forbid_hu` are
never set to 1 in the repository and are left out, like the chicken flags (which
`Settlement` has), `jiabei` and the `need_card` facility, none of which decides
a turn. After a win `Round` stops at `won`; in the code the state stays BETTING for
the second until `ji_card_timer`, and what requests do to the table in that second
(a second win, a vote) is `Room`'s.

**Room.** `players` is `players`, `ready` the seats with `ready = 1`, `dismiss`
the set of the same name, `timers` the ev_timers that are armed. `ji_card_late`
says that `preready_timer` (six seconds) was already running when
`ji_card_timer` (one second) was armed: only then may it fire first. Time is
otherwise abstract: an armed timer may fire at any moment. Who may join is
decided in `game.cc`, not here; `Join` uses `get_max_players`, which `table.h`
defines as `max_ready_players`. Creating a table chooses `cost_select_flag`. The
last fields are history; `late_ready` says that somebody got ready at a table
that was closing.

**Dealer.** `trace` holds what a hand leaves: `hu_seat`, the payers' seats, the
counts and flags of winners, the seats that wait for a tile. Seats do not change
within a round: nobody leaves or joins after its first hand (`Room`'s invariant
`LastHand` in `RoomProofs` says as much). `result` is history.

**Settlement.** A seat of `hand` is not its tiles but what is paid for: `out`
and `melds` count the tiles of each sort that lie open, `birds` and `seat_birds`
are the `ji` flags of table and seats, `ledger` the score details of gangs,
`earned` and `owed` what `update_account_bet` adds up of each item. How a hand
ends is chosen: which seats can win on a tile, which wait when the wall is
exhausted (`hu_cards`), what sort a winning hand is of, which chickens lie in
whose hand and which card is turned over; what `analysis` finds of a hand that
holds its winning tile already is the library's, one choice for all of them
(`full`). `HuangZhuang` and a vote settle as the code does, the vote with the
`hu_cards` of the last analysis. Of a gang before a self-drawn win only the
debtor is named. `Started` forgets the last payer; `chu_seat` of the hand before
is not kept. An offer that outlives a passed robbery is `Round`'s subject, not
this one's.

**RedPackets and TableFees.** `Ways` are the kinds of tables there are: a
player's own (paid by its owner or by all), a substitute's, a club's (paid by
the club or by its player), and those a club keeps open. `table.entry` is the
entry in redis, found only under the owner of the moment, as the code finds it.
`charged` and `every` are what redis was asked to add up: `incr_rmb`,
`incr_club_rmb`, `incr_club_every_rmb`. A club's open rooms get no timer and are
charged by `game.cc`, from which `CreateAuto` takes the charge; `Room` has the
ready counters, seats and votes that this module leaves out, and nobody gets
ready at a closing table here (see `late_ready`). Three things the model has
because the code does: a packet is popped before anybody is known to live in
its area and is then lost; packets nobody took are cleared, not given back; a
club's table can be handed on, which charges its creator besides the club,
returns refunds to the new owner and leaves the entry behind (`Moved`; the two
properties concerned leave such a table out, since no sentence of the repository
says what should happen).

**ReplayRing.** `cur` is the slot the C++ reference `msg` is bound to. The
`__sync_` builtins that move `head` and `tail` are full barriers, so what one
thread wrote before moving its index is visible after the other has read it; the
plain reads of `tail` and `msg.data` are taken to be atomic, as aligned words
are on the platforms the Makefile builds for. A record is never empty JSON, so
the `len <= 0` branch is left out.

## Runs

| run | module, cfg | bounds | what it shows |
|---|---|---|---|
| `replay` | `MCReplayRing` | 3 slots, 5 records: the ring fills at 2 and is lapped | no slot is refilled while in use, none is polled for ever, no record is mislabelled, leaked, overtaken or lost without a refusal or an error |
| `round` | `MCRound` | 3 seats, hands of 4 tiles, 16 tiles, 3 deals | tiles are conserved, hands keep their size, somebody can always answer, open wins come first, payers are forgotten with their offer |
| `round_four` | `MCRoundFour` | 4 seats, 1 deal | a seat draws out of turn only after passing this very tile |
| `round_payer` (violation) | `MCRound` | as `round` | finding 1 |
| `room` | `MCRoom` | 4 players, 4 seats, 2 hands | counters, votes, owner and timers fit together, clients at a closing table included; each hand is settled and recorded once, each table paid for once, no hand wiped, unless somebody got ready while the table was closing; votes, closing tables and finished hands do not stay |
| `dealer` | `MCDealer` | 4 seats, any of them occupied, 3 hands | the dealer plays, the winner deals, a dealer who took over counts as often as he has dealt |
| `dealer_rules` (violation) | `MCDealer` | the same | finding 3 |
| `dealer_streak` (violation) | `MCDealer` | the same | finding 5 |
| `settlement` | `MCSettlement` | 3 seats, 3 discards and 1 gang to a hand, any number of hands | what is paid is received; the right seats pay and are paid, once; what is announced is what moves |
| `settlement_robbers` (violation) | `MCSettlement` | the same | finding 4 |
| `settlement_hot` (violation) | `MCSettlement` | the same | finding 2 |
| `table_fees` | `MCTableFees` | 3 players, 3 seats, 2 hands, 2 transfers, 2 packets, 2 rooms of a club | a table is paid for by its payer, is listed as it is, and is given back before its first hand only; a packet is paid once, to whom it was drawn for |

Why these bounds. A hand of four tiles has the shapes that matter: a pair beside
a meld or a triplet, a run, a tile that completes two seats' hands at once, a
peng whose fourth tile comes later. Four tiles are left in the deck in each
deal, so that every hand ends by a win or an empty deck within a few turns, and
every tile is in play. The fourth seat matters for the order of turns only
(`round_four`). Two hands to a round are the least with a hand that is the last
and one that is not, and four players fill the table, so that nobody is left
over to join one that is under way; `RoomProofs` covers every other number.
Three hands in `Dealer` let a streak begin, go on and be broken. Three discards
are enough for a seat to discard the first chicken, another to claim it and the
third to discard on, and one gang for each sort of gang, and for a hot and a
robbed win; the scores of further gangs only add up. Three seats have a payer, a
winner and somebody else, and two winners at once. In `table_fees` the second
hand is the one with red packets, a second transfer the one that charges nobody,
a second packet one that a cleaned table leaves for the next; `TableFeesProofs`
covers every other number. No run uses symmetry or a state constraint. Hands and
requests are bounded by the rules themselves; the one history counter that could
grow, `finished`, is bounded by the round.

Deadlock is looked for except in `replay`, where the program may stop offering
records.

**Fairness.** `ReplayRing`: each thread's next step is weakly fair; `send_msg`
does not block and `msg_handler` loops for ever. That a hand ends is not
assumed. `Room`: the timer callbacks are weakly fair, because libev runs every
expired timer; no request is fair, players may do nothing. The other runs assume
none.

## What the runs found

1. *A win without a payer* (`ClaimedWinHasPayer`). After a robbery is passed,
   `next_player_seat` (2661) gives the turn to the ganger by the branch of an
   answered discard, and `start_next_bet` (1375) offers it the discard before the
   gang instead of a replacement tile. If it wins on it, neither `pao_hu_seat`
   nor `gang_hu_seat` is set, and the hand is settled as a self-draw.
2. *Several winners on a hot tile or a robbed gang* (`HotWinPaysOnlyTheWin`).
   With two or more winners `start_next_bet` (1339) ends the hand without
   `handler_hu`, which alone sets `is_re_pao` (3748-3752) and `is_qiang_gang`
   (3753-3757); so `update_account_bet` settles gangs and chickens that its
   comments (5240, 5347, 5796) say do not count after a hot discard or a robbed
   gang. The run's trace is a seat that makes a gang and discards a tile on which
   both others win: it is paid for the gang. With one winner the property holds;
   that, and that a robbed gang itself is paid to nobody, is `GangsArePaidOnce`.
3. *The dealer after several winners or none* (`DealerFollowsTheRules`).
   `Table::reset` zeroes the counts of winners (316) and of seats that wait (348)
   before `init_dealer` reads them; the rules at 2830, 2851, 2920 and 2940 are
   dead code and the dealer stays. `OnlyTwoBranches` in `DealerProofs` says so for
   every table.
4. *Several robbers are paid, one is paid for* (`EveryScoreIsPaid`).
   `score_to_players_item_total` of the robbed seat is assigned at 5662 where every
   other item is added to: of several robbers it puts out the last one's amount.
5. *The first dealer of a round* (`StreakIsWorthItsHands`). The rules
   (`安顺麻将.docx`, special rule 7) say that a dealer's score counts once more,
   and as many times more as he has dealt hands in a row. `init_dealer` starts the
   first dealer of a round with `lian_zhuang_cnt = 1` (2821, 2826) and the scores
   use `lian_zhuang_cnt - 1` (5005-5011), so he counts no times more in his first
   hand and once less than the rules say after it; a dealer who took over starts
   at 2. `StreakIsCounted` is what does hold: of a dealer who took over the count
   is exact, of the first it is never too high, and nobody else has one. (The rule
   names losses as well; the code multiplies a dealer's wins only.)

Others that no run of this project records, because no sentence of the repository
can be quoted against them:

- `NoHandIsWiped`, `TableIsPaidForOnce` and `HandIsSettledAndRecordedOnce` are
  stated for tables at which nobody got ready while they were closing; without
  that condition (`~ late_ready`) TLC finds all three violated. A vote that passes
  between two hands resets the state to READY with `preready_timer` running; if
  the players get ready within its six seconds a hand starts, and is then wiped
  off the table by `clean_table`. A `ji_card_timer` of that hand, which
  `clean_table` does not stop, ends the first hand of the next table. The
  three theorems state these properties with the condition; the other six
  theorems about `Room` do not use it.
- A vote between two hands counts the tallies of the last hand again (1902).
- `incr_club_every_rmb` counts a player's part whether the club pays or he does,
  and is taken back only if the club does; a club's table that is handed on
  (6347 asks for substitutes and `cost_select_flag` only) is charged twice.

## Proofs

`tlapm` proves the following for every value of the constants; the assumptions
are `RingAssumption`, `RoundAssumption`, `RoomAssumption`, `DealerAssumption`,
`SettlementAssumption`, `TableFeesAssumption` and `RedPacketsAssumption`, which
TLC evaluates on the instances. Every safety property of a passing run is stated
by a theorem.

**ReplayRingProofs** (`RingInvariant`, `NoRefill`, `NoSpin`, `OwnKey`,
`NoLeak`): for every `MAX_SMSG >= 2` and every set of records. That the slot in
use is not refilled is not inductive. `RingInv` adds three things: every slot
between `tail` and `head` holds the data its key names; the sender, once past
its test, still has `NextSlot(head) # tail`, because only the reader moves
`tail` and moves it away; the reader, between giving the slot back and freeing
it, knows that the slot is the one just behind `tail`, so that `head` cannot be
there without the ring being full, and that its data is the record whose key it
has copied. Each part has a lemma, and `NextSlotIsInjective` and
`RingGrowsAndShrinksByOne` carry the arithmetic of the wrapped index. `NoLeak`
needs, and states, a second invariant, `Ownership`: the writer, each slot and
the reader hold different buffers of the heap (`Holders`); every buffer on the
heap has such a holder, but for those of the records a full ring refused, which
leak (`NoneIsLost`); and what was stored or given up is off the heap and was
once handed over, so that no new record is one of them (`Freed`).

**ReplayRingRefinement** (`RingIsFirstInFirstOut`): under the mapping of
`ReplayRing!Store`, initial states map to initial states and every step to a step
of `RecordStore` or a stutter. The queue of the store is `Taken \o RingContents \o
Coming`; there is one lemma per step, which says that publishing moves a record
from `Coming` to the end of the ring, giving the slot back moves the first of the
ring to `Taken`, filling a slot is not seen, and only the test for room and the
end of a record's treatment change the whole.

**SumProofs**: the models add up with `MapThenSumSet` and `FoldFunction`;
`SumOn` is the recursive function on subsets that both unfold to. That it is
defined, and does not depend on the order in which the elements are taken, would
be proved by induction on finite sets, whose theorem takes an operator;
`SmallestCounterexample` says the same of a *set* of good subsets, and every
lemma of the module is an instance of it. The lemmas say how a sum changes with
one summand (`SumTakesOut`, `SumChanges`) or two (`SumMoves`), that rows and
columns may be swapped (`SumSwaps`) and that a sum may be taken part by part
(`SumByParts`).

**RoundProofs** (`HandIsInOrder`, `HandsKeepTheirSize`, `TilesAreConserved`,
`HandCanGoOn`, `OpenWinComesFirst`, `OwnDrawIsPaidByAll`, `PassIsFinal`,
`NobodyDrawsOutOfTurn`): for any number of seats, any finite set of tiles of at
most four copies, any deals and any notion of a complete hand. None of the six
invariants is inductive, and they hold only together: a claim conserves tiles
and sizes because the discard still lies there, which `LastCardLies` says
(unless it has just been claimed, after which the seat may cancel but is offered
nothing); the offered claim is still permitted when it is answered, which is
`Asked`; and the discarder is known because the seat that is waited for is the
last to discard (`Waited`). `Listening` is needed because a listening seat must
discard the tile it drew: only a seat's first action can be the declaration, so
it has drawn since. `RoundInv` says for a hand under play that the turn either
has the extra tile and nothing of another's is offered to it (`OwnTurn`), or is
asked about another seat's tile (`Asked`), and that an open win is the turn's
with its payer on record (`Payers`). A request is proved in stages as the code
runs it: each handler leaves an `Even` table, on which every hand has its
resting size, with nobody's offer on it (`Quiet`); `next_player_seat` leaves at
most the next seat flagged, or several (`Flagged`); `start_next_bet` draws, asks
or ends the hand. `PassIsFinal` follows from the invariant,
`NobodyDrawsOutOfTurn` from it and these stages.

**RoomProofs** (`TypeCorrect`, `ReadyCounted`, `RoundIsBounded`, `VoteHasTimer`,
`OwnerSeated`, `ClosingScheduled`): for all players, numbers of seats and hands,
and whether or not clients get ready at a closing table. `TableInv` adds to the
six properties what makes them inductive. `LastHand`: after the last hand of a
round all seats are still marked ready, so that `handler_ready` counts nobody
and no new hand starts until the table is cleaned; this holds because a table
with a hand behind it is full, which is also why nobody joins it. `LateTimer`:
`preready_timer`, which unmarks the seats, runs at an open table outside END_GAME
only during a first hand of several, where a stray `ji_card_timer` of the table
before may have armed it; for rounds of one hand it never does. Lemmas go
function by function (`TestGameStartKeeps`, `GameEndFacts`, `DismissedKeeps`,
`CleanTableKeeps`) and the actions follow from them. The parts of `TableInv` were
checked with TLC for rounds of one, two and three hands before they were proved.

A second invariant, `HandInv`, keeps the books (`BooksAreInOrder`,
`HandsAreBooked`, `TableIsPaidFor`, `HandsAreNotWiped`). Its parts need one another:
a hand is settled once because `already_update_account_bet` says whether it was
(`Tally`); the flag can be trusted because no timer ends a hand twice, that is,
because `preready_timer` runs between hands only and `ji_card_timer` is not left to
the next table (`Closing`); the fee is returned exactly if no hand was finished
because a closing table's flags say so (`Fees`). All three are lost once somebody
gets ready at a closing table, so they stand under `~ late_ready`, as the
properties do; `Records`, that a table to be closed has the record of its round,
holds in any case.

**DealerProofs** (`DealerInvariant`, `DealerIsAtTheTable`, `WinnerDeals`,
`StreakCounts`): for every number of seats and hands. The properties speak of the
dealer of a hand, but what decides him lies two steps back, where the hand before
ended. `Remembered` carries the winner's seat over `Preready`, `Counted` says that
the counts of winners and of waiting seats do not survive it, and `OnlyTwoBranches`
concludes that `init_dealer` then either crowns the winner or keeps the dealer: the
folds of its other branches are never evaluated. `Dealing` relates the counts of
all seats to the history of the streak, exactly: they are one above it for a dealer
who took over and equal to it for the first dealer of a round. It also bounds the
streak by the hands played, which its type needs. `StreakCounts` follows.

**SettlementProofs** (`InvHolds`, `FirstBirdIsOneSeats`,
`FirstBirdIsPaidOneWay`, `TalliesAreRight`, `BetsAreMovedAsAnnounced`,
`RunOutHandIsPaid`, `MoneyIsNeitherMadeNorLost`, `WinnersArePaidByTheirPayer`,
`GangsAreSettledOnce`): for any number of seats, discards and gangs, any bird
tiles in the hands and any sorts of winning hands. The invariant has two halves.
`Inv` is about the table: the first tile of a bird is one seat's (`FirstBirds`),
what is offered at each stage and to whom, the payers left by the last hand
included (`Offers`), a hand under play has been settled in nothing and has its
gangs in the ledger at their prices (`Course`), no bird tile is seen five times
(`TilesLie`). `History` says how a settled table came about: as a win that was
decided and booked (`WinStep`), as such a win displayed and then paid
(`ShowStep`), as an exhausted wall (`DrawStep`), by a vote (`CloseStep`), or not
at all (`IdleStep`). The properties speak of a settled hand, whose hand under
play is gone; `History` keeps that hand as a witness, and each theorem is then
about the operators of `update_account_bet`. `MoneyIsNeitherMadeNorLost` goes
entry by entry: the entries in the ledger are fair (`BookedEntriesAreFair`: who
is debited is another seat, or everybody in equal parts), the creditor of a fair
entry gets what the others put out for it (`EntryIsPaid`), so what is earned of
an item is what is owed of it (`ItemIsPaid`, where a sum over entries of a sum
over seats is swapped), and the bets add up to nothing, by seats as by items.
`WinnersArePaidByTheirPayer`, `GangsAreSettledOnce` and `FirstBirdIsPaidOneWay`
ask who has a positive entry: `BookedFacts` splits the ledger into the win, the
gangs and the birds, whose items are different. With a hot or robbed win of one
seat `NothingButTheWin` leaves nothing of the other two; with any other win
`GangsOfWin` gives every gang its price, but for the one that was robbed.

**TableFeesProofs** (`TableIsInOrder`, `TimerMeetsNoHand`,
`TableIsListedAsItIs`, `EveryTableIsPaidFor`, `PacketCanBeTaken`,
`PacketsAreCounted`): for all players, seats, hands, transfers and rooms of a
club. That a closed table has been paid for is a statement about one step; what
it needs to know is where the accounts stand before it. (Both
`EveryTableIsPaidFor` and `TableIsListedAsItIs` leave out a club's table that a
player handed on, `Moved`, for which they are false.) `Accounts` says what has
been charged at a table in use: nobody for a player's own unless it was handed
on, its creator if it was, and who paid ahead otherwise. `Course` says that a
closing table gives its fee back exactly if no hand was finished, which ties
`need_return_diamo`, set by a vote, to the history `finished`; `Owners` says
when owner, first owner and creator are the same. `RefundFacts` and
`SettleFacts` say what `clean_table` moves, `CleaningPays` adds them to the
accounts; `OwnerDismissCleans` treats the refund an owner triggers himself.
`PacketCanBeTaken` rests on `RedInv`: nothing is drawn before the second hand,
and nobody is marked while nothing is drawn. `PacketsAreCounted` adds that
popping, drawing, taking and clearing each move a packet from one of the four
places to another (`Counted`): the list, a player it waits for, the lost and the
paid.

Only model-checked: that accepted records are settled (`AcceptedIsSettled`) and the
fairness of `RecordStore` in `ImplementsStore`; that votes are decided
(`VoteIsDecided`) and closed tables cleaned (`ClosedTableIsCleaned`). These are
liveness properties, which tlapm does not handle (no ENABLED).

## Not modelled

What makes a hand complete, full or of a sort: libmajiang decides it and only its
headers are here. A request that is for a
substitute and a club at once; several tables of one club at a time; failures of
redis when a table is charged or listed. The robot branch of `init_table_type`,
which no request reaches. `handler_owner_dismiss_table`, which only broadcasts.
Messages, chat and location services, `table_delegate.cc` (each callback finds a
table and calls one handler), and everything of the server whose sources are not
in the repository. A crash of the process: a table lives in memory only and is
gone with it.

## Plan

Done, in the order of importance: `ReplayRing` with its store, `Round`, `Room`,
`Dealer`, `Settlement`, `RedPackets` and `TableFees`, each with its proofs.
Next:

1. `Room` as a refinement of the course of a table in `TableFees`.
2. The error path of `handler_ting` in `Round`, and its chicken flags, so that
   `Settlement`'s hands are `Round`'s.
