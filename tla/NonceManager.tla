---------------------------- MODULE NonceManager ----------------------------
(***************************************************************************)
(* Nonce managers (bot/execution/nonce_manager.py, class NonceManager).    *)
(* Each manager is an object of its own; its methods run under its lock,   *)
(* so each is one action.  The managers of one sender are told apart by    *)
(* the thread that creates them.                                           *)
(***************************************************************************)
EXTENDS Integers

CONSTANTS
    Thread,     \* the threads that submit transactions
    MaxNonce    \* bound of the model on the nonces handed out

ASSUME MaxNonceAssumption == MaxNonce \in Nat

VARIABLES
    next,       \* _nonce of each manager
    released    \* _released of each manager

managerVars == <<next, released>>

None == -1      \* _nonce before initialize

ManagerInit ==
    /\ next = [m \in Thread |-> None]
    /\ released = [m \in Thread |-> {}]

\* initialize, with the pending transaction count n the node reports.
Initialize(m, n) ==
    /\ next' = [next EXCEPT ![m] = n]
    /\ released' = [released EXCEPT ![m] = {}]

\* Slip: the released nonce is returned but stays in the list.
AcquireReleasedPeeking(m, n) ==
    /\ next[m] # None
    /\ n \in released[m]
    /\ \A k \in released[m] : n <= k
    /\ UNCHANGED managerVars

\* Slip: the counter is incremented before it is read.
AcquireNextAfterIncrement(m, n) ==
    /\ next[m] # None
    /\ released[m] = {}
    /\ n = next[m] + 1
    /\ n < MaxNonce
    /\ next' = [next EXCEPT ![m] = @ + 1]
    /\ UNCHANGED released

\* acquire takes the lowest released nonce ...
AcquireReleased(m, n) ==
    /\ next[m] # None
    /\ n \in released[m]
    /\ \A k \in released[m] : n <= k
    /\ released' = [released EXCEPT ![m] = @ \ {n}]
    /\ UNCHANGED next

\* ... or, with none released, the next one.  Before initialize it raises.
AcquireNext(m, n) ==
    /\ next[m] # None
    /\ released[m] = {}
    /\ n = next[m]
    /\ n < MaxNonce
    /\ next' = [next EXCEPT ![m] = @ + 1]
    /\ UNCHANGED released

\* release.
Release(m, n) ==
    /\ released' = [released EXCEPT ![m] = @ \cup {n}]
    /\ UNCHANGED next

=============================================================================
