------------------------------ MODULE MCDealer ------------------------------
(* Dealer for TLC.                                                           *)
EXTENDS Dealer
=============================================================================
