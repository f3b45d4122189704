------------------------------- MODULE MCRoom -------------------------------
(* Room for TLC: a table of four seats, two hands to a round.                *)
EXTENDS Room

CONSTANTS p1, p2, p3, p4

MCPlayers == {p1, p2, p3, p4}

=============================================================================
