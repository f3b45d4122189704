----------------------------- MODULE RedPackets -----------------------------
(***************************************************************************)
(* The red packets of an activity, as table.cc hands them out: a packet is *)
(* popped from a list in redis when the second hand of a full table starts *)
(* and drawn for one of its players, who has to ask for it.                *)
(*                                                                         *)
(* Only a full table hands out, and nobody changes seats at it, so a seat  *)
(* is told by who sits on it.  red_type is 0 (Table::init): nothing in the *)
(* repository sets the other one.  Packets are worth the same.             *)
(***************************************************************************)
EXTENDS Integers, FiniteSets, FiniteSetsExt

CONSTANTS
  Players,    \* user ids
  RedPackes   \* bound: packets in red_list at first

ASSUME RedPacketsAssumption == IsFiniteSet(Players) /\ RedPackes \in Nat

VARIABLE red

NoRedPackes == <<>>

\* paid, taken and lost are history: what each player was paid, who was paid at
\* this table, and the packets that nobody will get any more.
NoPackets(list) ==
  [red_list |-> list, redpackes |-> NoRedPackes, already_get_red |-> {}, city_red_falg |-> {},
   paid |-> [p \in Players |-> 0], taken |-> {}, lost |-> 0]

\* Packets drawn for somebody who has not asked yet.
Waiting(r) ==
  IF r.redpackes = NoRedPackes THEN 0
  ELSE MapThenSumSet(LAMBDA p : r.redpackes[p], Players \ r.already_get_red)

\* handler_redpacket, at a table where the players of ready play: there may be
\* no activity; the packet is popped before anybody is known to live in its
\* area, and one of those who do is drawn.
HandlerRedpacket(r, ready) ==
  LET popped == [r EXCEPT !.red_list = @ - 1]
      areas == {e \in (SUBSET ready) \X ready : e[2] \in e[1]}
      drawn == {[popped EXCEPT !.city_red_falg = @ \cup e[1],
                               !.redpackes = [p \in Players |-> IF p = e[2] THEN 1 ELSE 0]]
                  : e \in areas}
  IN  IF r.red_list = 0 THEN {r}
      ELSE {r, [popped EXCEPT !.lost = @ + 1]} \cup drawn

\* Mutant of HandlerGet: a packet may be asked for again.
HandlerGetAgain(r, p) ==
  IF r.redpackes = NoRedPackes \/ p \notin r.city_red_falg THEN r
  ELSE [r EXCEPT !.paid[p] = @ + r.redpackes[p], !.already_get_red = @ \cup {p},
                 !.taken = @ \cup {p}]

\* handler_get_redpacket_req.  Who does not live in the area is told once.
HandlerGet(r, p) ==
  CASE r.redpackes = NoRedPackes \/ p \in r.already_get_red -> r
    [] r.redpackes # NoRedPackes /\ p \notin r.already_get_red \cup r.city_red_falg ->
         [r EXCEPT !.already_get_red = @ \cup {p}]
    [] OTHER ->
         [r EXCEPT !.paid[p] = @ + r.redpackes[p], !.already_get_red = @ \cup {p},
                   !.taken = IF r.redpackes[p] > 0 THEN @ \cup {p} ELSE @]

\* Mutant of ClearPackets: the seats keep their marks.
ClearPacketsKeepsMarks(r) ==
  [r EXCEPT !.lost = @ + Waiting(r), !.redpackes = NoRedPackes, !.taken = {}]

\* clean_table: what nobody asked for is not given back.
ClearPackets(r) ==
  [r EXCEPT !.lost = @ + Waiting(r), !.redpackes = NoRedPackes,
            !.already_get_red = {}, !.city_red_falg = {}, !.taken = {}]

-----------------------------------------------------------------------------
RedType ==
  /\ red.red_list \in 0 .. RedPackes /\ red.lost \in 0 .. RedPackes
  /\ {red.already_get_red, red.city_red_falg, red.taken} \subseteq SUBSET Players
  /\ red.redpackes = NoRedPackes \/ red.redpackes \in [Players -> 0 .. 1]

\* A packet that was popped is paid once, waits for the player it was drawn
\* for, or is lost; asking again, before or after, pays nothing.
PacketIsPaidOnce ==
  /\ RedType
  /\ red.red_list + Waiting(red) + red.lost
       + MapThenSumSet(LAMBDA p : red.paid[p], Players) = RedPackes

\* Whoever a packet was drawn for can have it until he took it: no mark of an
\* earlier question, hand or table bars him.
DrawnPlayerCanTake ==
  red.redpackes # NoRedPackes =>
    \A p \in Players : red.redpackes[p] > 0 =>
      /\ p \in red.city_red_falg
      /\ p \in red.already_get_red <=> p \in red.taken
=============================================================================
