---------------------------- MODULE MCReplayRing ----------------------------
(* ReplayRing for TLC: a ring of three slots and enough records to wrap it  *)
(* around while the reader is behind.                                       *)
EXTENDS ReplayRing

CONSTANTS r1, r2, r3, r4, r5

MCRecords == {r1, r2, r3, r4, r5}

=============================================================================
