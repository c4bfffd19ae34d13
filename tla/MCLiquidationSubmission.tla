----------------------- MODULE MCLiquidationSubmission -----------------------
(* Instances of LiquidationSubmission for TLC. *)
EXTENDS LiquidationSubmission, TLC

CONSTANTS engine, request1, request2

\* The engine thread and the request threads run the same code.
Symmetry == Permutations(Thread)
=============================================================================
