--------------------------- MODULE CowOrderPermit ---------------------------
(***************************************************************************)
(* What the CoW daemon promises about the orders it posts: an order goes   *)
(* out only for the one candidate in hand, on a permit that was granted    *)
(* while the submission switch was open; a permit serves one order; and a  *)
(* candidate whose order is out is not taken in hand again, unless it was  *)
(* renewed or the record of its order was lost.                            *)
(*                                                                         *)
(* The switch may be closed after a permit was granted: the permit then    *)
(* still serves its order.  CowQuoteDaemon implements this module.         *)
(***************************************************************************)
CONSTANT Candidate

VARIABLES
    hand,     \* the candidate in hand, as a set of at most one
    open,     \* the submission switch
    permit,   \* the candidate in hand may be ordered
    order     \* what became of the order of each candidate

vars == <<hand, open, permit, order>>

Init ==
    /\ hand = {}
    /\ open \in BOOLEAN
    /\ permit = FALSE
    /\ order = [c \in Candidate |-> "none"]

\* A candidate is claimed.
Take(c) ==
    /\ hand = {}
    /\ order[c] # "posted"
    /\ hand' = {c}
    /\ UNCHANGED <<open, permit, order>>

\* The last reading of the switch finds it open.
Grant ==
    /\ hand # {} /\ ~permit
    /\ open
    /\ permit' = TRUE
    /\ UNCHANGED <<hand, open, order>>

\* The permit is used ...
Order ==
    /\ permit
    /\ permit' = FALSE
    /\ order' = [c \in Candidate |-> IF c \in hand THEN "posted" ELSE order[c]]
    /\ UNCHANGED <<hand, open>>

\* ... or given up.
Forgo ==
    /\ permit
    /\ permit' = FALSE
    /\ UNCHANGED <<hand, open, order>>

\* The order is out and its record could not be written.
LoseRecord ==
    /\ \E c \in hand : order[c] = "posted"
    /\ ~permit
    /\ order' = [c \in Candidate |-> IF c \in hand THEN "unrecorded" ELSE order[c]]
    /\ UNCHANGED <<hand, open, permit>>

\* The candidate in hand is settled or put back.
Release ==
    /\ hand # {} /\ ~permit
    /\ hand' = {}
    /\ UNCHANGED <<open, permit, order>>

\* A producer finds a candidate anew, or the queue starts over.
Renew(C) ==
    /\ order' = [c \in Candidate |-> IF c \in C THEN "none" ELSE order[c]]
    /\ UNCHANGED <<hand, open, permit>>

Switch ==
    /\ open' = ~open
    /\ UNCHANGED <<hand, permit, order>>

Next ==
    \/ \E c \in Candidate : Take(c)
    \/ Grant \/ Order \/ Forgo \/ LoseRecord \/ Release \/ Switch
    \/ \E c \in Candidate : Renew({c})
    \/ Renew(Candidate)

Spec == Init /\ [][Next]_vars
=============================================================================
