------------------------- MODULE LiquidationBreaker -------------------------
(***************************************************************************)
(* What the circuit breaker of automatic liquidation promises to those who *)
(* record attempts and to those who read it: a failure, a success or a     *)
(* clear takes effect once between its call and its return, on top of all  *)
(* earlier ones, and what readers are shown is what the breaker has come   *)
(* to before or after the last of them, and after it once it returned.     *)
(*                                                                         *)
(* It promises this as long as no record or clear begins while another is  *)
(* being saved; from then on it promises nothing.  How a state is stored,  *)
(* row by row, is no part of it.  LiquidationEngine implements this        *)
(* module.                                                                 *)
(***************************************************************************)
EXTENDS Naturals

CONSTANTS
    Thread,        \* who record
    Enabled,       \* the breaker may pause
    Threshold,     \* failures in a row that pause
    LevelAt,       \* failures in a row at which levels 1, 2 and 3 are reached
    MaxFailures    \* failures in a row are counted up to here

VARIABLES
    state,     \* what all records and clears so far have come to
    shown,     \* what a reader is told: automatic liquidation is paused
    call,      \* what a thread is recording, or that its record took effect
    spoiled    \* two records overlapped

vars == <<state, shown, call, spoiled>>

Event == {"failure", "success", "clear"}
State == [paused : BOOLEAN, failures : 0..MaxFailures, level : 0..3]
Initial == [paused |-> FALSE, failures |-> 0, level |-> 0]

Init ==
    /\ state = Initial
    /\ shown = FALSE
    /\ call = [t \in Thread |-> "none"]
    /\ spoiled = FALSE

\* One more failure in a row.  A level is kept or reached, and the pause is kept,
\* or called for by level 2 being reached or by the failures in a row.
Failure(r) ==
    /\ r.failures = IF state.failures < MaxFailures THEN state.failures + 1 ELSE MaxFailures
    /\ \A i \in 1..3 : r.level >= i <=> state.level >= i \/ r.failures >= LevelAt[i]
    /\ r.paused <=> \/ state.paused
                    \/ state.level < 2 /\ r.level >= 2
                    \/ Enabled /\ r.failures >= Threshold

\* A liquidation was confirmed.  It steps down one level from level 2 or 3, and
\* from level 1 if it is the second in a row; levels 2 and 3 stay paused.
Success(r) ==
    /\ r.failures = 0
    /\ IF state.level >= 2 \/ (state.level = 1 /\ state.failures = 0)
         THEN state.level = r.level + 1 ELSE state.level = r.level
    /\ r.paused <=> r.level >= 2

-----------------------------------------------------------------------------
Begin(t, e) ==
    /\ ~spoiled
    /\ call[t] = "none"
    /\ call' = [call EXCEPT ![t] = e]
    /\ UNCHANGED <<state, shown, spoiled>>

\* The record takes effect, when the one before has returned.
Apply(t) ==
    /\ ~spoiled
    /\ call[t] \in Event
    /\ \A u \in Thread : call[u] # "done"
    /\ call' = [call EXCEPT ![t] = "done"]
    /\ state' \in State
    /\ call[t] = "failure" => Failure(state')
    /\ call[t] = "success" => Success(state')
    /\ call[t] = "clear" => state' = Initial
    /\ UNCHANGED <<shown, spoiled>>

Show ==
    /\ ~spoiled
    /\ shown' = state.paused
    /\ UNCHANGED <<state, call, spoiled>>

Return(t) ==
    /\ ~spoiled
    /\ call[t] = "done"
    /\ shown = state.paused
    /\ call' = [call EXCEPT ![t] = "none"]
    /\ UNCHANGED <<state, shown, spoiled>>

\* Records overlap, or have overlapped: anything may come of them.
Overlap ==
    /\ spoiled' = TRUE
    /\ state' \in State
    /\ shown' \in BOOLEAN
    /\ call' \in [Thread -> Event \cup {"none", "done"}]

Next ==
    \/ \E t \in Thread, e \in Event : Begin(t, e)
    \/ \E t \in Thread : Apply(t) \/ Return(t)
    \/ Show
    \/ Overlap

Spec == Init /\ [][Next]_vars
=============================================================================
