-------------------------- MODULE MCClosedLoopReview --------------------------
(* Values for the constants of ClosedLoopReview. *)
EXTENDS ClosedLoopReview

CONSTANTS a, b, w1, r1

MCGroup == {a, b}
MCWorker == {w1}
MCRequest == {r1}
MCMaxLane == [p \in Priority |-> IF p = User THEN 1 ELSE 2]

=============================================================================
