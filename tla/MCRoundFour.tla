---------------------------- MODULE MCRoundFour -----------------------------
(* Round for TLC with four seats and one deal in which seat 3 may pass a     *)
(* peng of 11 twice, seat 1 gang 31 and seat 2 win on the second 11.         *)
EXTENDS Round, TLC

MCTiles == {11, 12, 13, 21, 22, 23, 24, 31}
MCCopies == [t \in MCTiles |-> CASE t \in {12, 13} -> 1
                               [] t \in {21, 22} -> 2
                               [] OTHER -> 4]

Hand(a, b, c, d) == [t \in MCTiles |-> Cardinality({i \in 1 .. 4 : <<a, b, c, d>>[i] = t})]

Pair(b) == Total(b) = 2 /\ \E t \in DOMAIN b : b[t] = 2
Triplets(b) == \E t, u \in DOMAIN b : b[t] = 3 /\ b[u] = 2 /\ Total(b) = 5
Run == {11, 12, 13}
RunAndPair(b) ==
  /\ Total(b) = 5
  /\ \A t \in Run : b[t] >= 1
  /\ \E t \in DOMAIN b : b[t] = (IF t \in Run THEN 3 ELSE 2)

MCPermitHu(b) == Pair(b) \/ Triplets(b) \/ RunAndPair(b)
MCPingHu(b) == RunAndPair(b) /\ \A t \in Run : b[t] = 1

\* Nobody declares in this deal.
MCPermitTing(b) == FALSE

MCDeals ==
  {(0 :> Hand(11, 21, 21, 23)) @@ (1 :> Hand(11, 31, 31, 31))
     @@ (2 :> Hand(12, 13, 22, 22)) @@ (3 :> Hand(11, 11, 23, 23))}

=============================================================================
