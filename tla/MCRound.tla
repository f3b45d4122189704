------------------------------ MODULE MCRound -------------------------------
(* Round for TLC: hands of four tiles, so that a complete hand is a pair and *)
(* one more set, or a pair beside a meld.  Faces are suit * 10 + rank; 11,   *)
(* 12 and 13 are the only run.                                               *)
EXTENDS Round, TLC

Pair(b) == Total(b) = 2 /\ \E t \in DOMAIN b : b[t] = 2
Triplets(b) == \E t, u \in DOMAIN b : b[t] = 3 /\ b[u] = 2 /\ Total(b) = 5
Run == {11, 12, 13}
RunAndPair(b) ==
  /\ Total(b) = 5
  /\ \A t \in Run : b[t] >= 1
  /\ \E t \in DOMAIN b : b[t] = (IF t \in Run THEN 3 ELSE 2)

MCPermitHu(b) == Pair(b) \/ Triplets(b) \/ RunAndPair(b)

\* A run beside a pair of another suit.
MCPingHu(b) == RunAndPair(b) /\ \A t \in Run : b[t] = 1

MCPermitTing(b) ==
  \E t, u \in DOMAIN b : b[t] > 0 /\ MCPermitHu([[b EXCEPT ![t] = @ - 1] EXCEPT ![u] = @ + 1])

Hand(tiles, a, b, c, d) ==
  [t \in tiles |-> Cardinality({i \in 1 .. 4 : <<a, b, c, d>>[i] = t})]
Deal(x, y, z) == (0 :> x) @@ (1 :> y) @@ (2 :> z)

\* Sixteen tiles: everything is dealt but four.
MCTiles == {11, 12, 13, 21}
MCCopies == [t \in MCTiles |-> 4]
MCDeals ==
  LET h(a, b, c, d) == Hand(MCTiles, a, b, c, d)
  IN  {Deal(h(11, 11, 12, 13), h(11, 12, 13, 21), h(13, 21, 21, 21)),
       Deal(h(11, 11, 21, 21), h(12, 12, 13, 21), h(12, 13, 13, 13)),
       Deal(h(11, 11, 11, 12), h(12, 12, 13, 13), h(11, 12, 21, 21))}

=============================================================================
