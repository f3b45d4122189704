---------------------------- MODULE MCSettlement ----------------------------
(* Three seats; the turned card is next to the yao ji, next to the ba tong, *)
(* or neither.                                                              *)
EXTENDS Settlement

MCOptions == {{"bao_ji", "wu_gu_ji", "ben_ji"}, {}}
MCTurned == {2, BaTong}
None == [b \in {YaoJi, BaTong} |-> 0]
MCHoldings == {[s \in Seats |-> IF s = 1 THEN [b \in {YaoJi, 3} |-> 1] ELSE None]}
MCCardTypes == {[s \in Seats |-> IF s = 0 THEN "ping_hu" ELSE "qing_yi_se"]}
MCWaiting == {{}, {0}, {1, 2}}
MCDealers == {0}
MCStreaks == {2}
=============================================================================
