-------------------------- MODULE MCCowQuoteDaemon --------------------------
(* Instances of CowQuoteDaemon for TLC. *)
EXTENDS CowQuoteDaemon, TLC

CONSTANTS c1, c2, bnb, eth

MCNetworkOf == (c1 :> bnb) @@ (c2 :> eth)
=============================================================================
