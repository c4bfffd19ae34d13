------------------------ MODULE MCLiquidationEngine ------------------------
(* Instances of LiquidationEngine for TLC. *)
EXTENDS LiquidationEngine

CONSTANTS engine, request

MCLevelAt == <<2, 3, 4>>
=============================================================================
