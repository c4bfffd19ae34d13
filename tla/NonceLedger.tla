----------------------------- MODULE NonceLedger -----------------------------
(***************************************************************************)
(* What the nonces of a sender's managers come to, without counters, lists *)
(* of released nonces or the steps of a submission: a manager starts from  *)
(* some number; a thread is given the lowest one that is free; and it      *)
(* gives it back, sends it, or strands it, each once and only the one it   *)
(* was given.                                                              *)
(*                                                                         *)
(* The managers have nothing to do with each other.  LiquidationSubmission *)
(* implements this module.                                                 *)
(***************************************************************************)
EXTENDS Integers

CONSTANTS Thread, Manager, MaxNonce

VARIABLES
    first,      \* the nonce each manager started from
    sent,       \* its nonces that were sent
    stranded,   \* its nonces that were neither sent nor given back
    hand        \* the manager and the nonce a thread was given

vars == <<first, sent, stranded, hand>>

None == -1
Empty == <<>>
Nonce == 0..(MaxNonce - 1)

\* Every nonce of a manager is free that nobody has, sent or stranded.
Free(m, n) ==
    /\ first[m] # None /\ first[m] <= n
    /\ n \notin sent[m] \cup stranded[m]
    /\ \A t \in Thread : hand[t] # <<m, n>>

Init ==
    /\ first = [m \in Manager |-> None]
    /\ sent = [m \in Manager |-> {}]
    /\ stranded = [m \in Manager |-> {}]
    /\ hand = [t \in Thread |-> Empty]

Start(m) ==
    /\ first[m] = None /\ first'[m] # None
    /\ \E n \in 0..MaxNonce : first' = [first EXCEPT ![m] = n]
    /\ UNCHANGED <<sent, stranded, hand>>

Give(t) ==
    /\ hand[t] = Empty /\ hand'[t] # Empty
    /\ \E m \in Manager, n \in Nonce :
        /\ hand' = [hand EXCEPT ![t] = <<m, n>>]
        /\ Free(m, n)
        /\ \A k \in Nonce : k < n => ~Free(m, k)
    /\ UNCHANGED <<first, sent, stranded>>

\* The thread is through with its nonce.
Settle(t) ==
    LET m == hand[t][1]
        n == hand[t][2]
    IN  /\ hand[t] # Empty /\ hand'[t] = Empty
        /\ hand' = [hand EXCEPT ![t] = Empty]
        /\ \/ UNCHANGED <<sent, stranded>>
           \/ sent' = [sent EXCEPT ![m] = @ \cup {n}] /\ UNCHANGED stranded
           \/ stranded' = [stranded EXCEPT ![m] = @ \cup {n}] /\ UNCHANGED sent
        /\ UNCHANGED first

\* The process starts again and knows nothing of what was.
Restart ==
    /\ first' = [m \in Manager |-> None]
    /\ sent' = [m \in Manager |-> {}]
    /\ stranded' = [m \in Manager |-> {}]
    /\ hand' = [t \in Thread |-> Empty]

Next ==
    \/ \E t \in Thread : Give(t) \/ Settle(t)
    \/ \E m \in Manager : Start(m)
    \/ Restart

Spec == Init /\ [][Next]_vars
=============================================================================
