------------------------- MODULE MCCowSwitchOpening -------------------------
(* An instance of CowSwitchOpening for TLC. *)
EXTENDS CowSwitchOpening, TLC

CONSTANTS c1, c2, bnb, eth

MCNetworkOf == (c1 :> bnb) @@ (c2 :> eth)
=============================================================================
