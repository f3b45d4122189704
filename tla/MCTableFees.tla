----------------------------- MODULE MCTableFees -----------------------------
(* Three players, three seats, two hands; every way to create a table.       *)
EXTENDS TableFees

CONSTANTS p1, p2, p3
MCPlayers == {p1, p2, p3}
=============================================================================
