------------------------ MODULE LiquidationPauseGuard ------------------------
(***************************************************************************)
(* The circuit breaker of automatic liquidation                            *)
(* (bot/liquidation/pause_guard.py).  Every attempt ends in a record: the  *)
(* state is loaded, a failure or a success is worked into it, and it is    *)
(* saved row by row (control parameters are rows of a key-value store).    *)
(* Nothing locks the three, and the engine, the request threads and the    *)
(* operator's clear do it at the same time.                                *)
(*                                                                         *)
(* Of the saved state the rows that steer are kept: paused, the count of   *)
(* consecutive failures and the level.  Stamps, the reason and the         *)
(* cooldown multiplier, which no caller reads, are left out.               *)
(***************************************************************************)
EXTENDS Naturals

CONSTANTS
    Thread,        \* the engine, and the threads that serve requests
    Enabled,       \* LIQUIDATION_AUTO_PAUSE_ENABLED
    Threshold,     \* LIQUIDATION_AUTO_PAUSE_FAILURE_THRESHOLD
    LevelAt,       \* failures at which levels 1, 2 and 3 are reached
    MaxFailures    \* bound of the model: the count stops here

ASSUME GuardFlagAssumption == Enabled \in BOOLEAN
ASSUME ThresholdAssumption == Threshold \in Nat \ {0}
ASSUME LevelAssumption ==
    /\ LevelAt \in [1..3 -> Nat \ {0}]
    /\ LevelAt[1] <= LevelAt[2] /\ LevelAt[2] <= LevelAt[3]
ASSUME CountAssumption ==
    MaxFailures \in Nat /\ MaxFailures >= LevelAt[3] /\ MaxFailures >= Threshold

VARIABLES
    rows,       \* the rows of the store
    step,       \* what a thread that records does next
    event,      \* what it records
    copy,       \* the state it is about to save
    \* history variable
    overlapped  \* some record or clear began while another was being saved

guardVars == <<rows, step, event, copy, overlapped>>

Event == {"failure", "success", "clear"}
State == [paused : BOOLEAN, failures : 0..MaxFailures, level : 0..3]
Initial == [paused |-> FALSE, failures |-> 0, level |-> 0]

GuardInit ==
    /\ rows = Initial
    /\ step = [t \in Thread |-> "idle"]
    /\ event = [t \in Thread |-> "clear"]
    /\ copy = [t \in Thread |-> Initial]
    /\ overlapped = FALSE

Saving(t) == step[t] \in {"paused", "failures", "level"}
Recording(t) == step[t] # "idle"

-----------------------------------------------------------------------------
(* What record_pause_guard_event makes of the state it loaded. *)

LevelFor(f) ==
    IF f >= LevelAt[3] THEN 3 ELSE IF f >= LevelAt[2] THEN 2 ELSE IF f >= LevelAt[1] THEN 1 ELSE 0

\* Slip: the step down has no floor.
AfterSuccessNoFloor(r) ==
    LET level == r.level - 1
    IN  [paused |-> level >= 2, failures |-> 0, level |-> level]

\* Slip: a success resumes at every level.
AfterSuccessResumes(r) ==
    LET level == IF r.level >= 2 \/ (r.level = 1 /\ r.failures = 0) THEN r.level - 1 ELSE r.level
    IN  [paused |-> FALSE, failures |-> 0, level |-> level]

AfterSuccess(r) ==
    LET level == IF r.level >= 2 \/ (r.level = 1 /\ r.failures = 0) THEN r.level - 1 ELSE r.level
    IN  [paused |-> level >= 2, failures |-> 0, level |-> level]

\* Slip: whether to pause is worked out from this failure alone.
AfterFailureAnew(r) ==
    LET failures == IF r.failures < MaxFailures THEN r.failures + 1 ELSE MaxFailures
        level == IF LevelFor(failures) > r.level THEN LevelFor(failures) ELSE r.level
    IN  [paused |-> (level >= 2 /\ r.level < 2) \/ (Enabled /\ failures >= Threshold),
         failures |-> failures, level |-> level]

AfterFailure(r) ==
    LET failures == IF r.failures < MaxFailures THEN r.failures + 1 ELSE MaxFailures
        level == IF LevelFor(failures) > r.level THEN LevelFor(failures) ELSE r.level
    IN  [paused |-> r.paused \/ (level >= 2 /\ r.level < 2) \/ (Enabled /\ failures >= Threshold),
         failures |-> failures, level |-> level]

After(e, r) ==
    CASE e = "failure" -> AfterFailure(r)
      [] e = "success" -> AfterSuccess(r)
      [] e = "clear" -> Initial

-----------------------------------------------------------------------------
(* Recording: load, work the event in, save row by row. *)

\* The thread is going to record e.
Record(t, e) ==
    /\ step[t] = "idle"
    /\ step' = [step EXCEPT ![t] = "load"]
    /\ event' = [event EXCEPT ![t] = e]
    /\ UNCHANGED <<rows, copy, overlapped>>

\* Slip: a state kept from the last record saves the reading.
LoadCached(t) ==
    /\ step[t] = "load"
    /\ step' = [step EXCEPT ![t] = "paused"]
    /\ copy' = [copy EXCEPT ![t] = After(event[t], copy[t])]
    /\ overlapped' = (overlapped \/ \E u \in Thread \ {t} : Saving(u))
    /\ UNCHANGED <<rows, event>>

\* One scan reads all the rows; a clear reads nothing.
Load(t) ==
    /\ step[t] = "load"
    /\ step' = [step EXCEPT ![t] = "paused"]
    /\ copy' = [copy EXCEPT ![t] = After(event[t], rows)]
    /\ overlapped' = (overlapped \/ \E u \in Thread \ {t} : Saving(u))
    /\ UNCHANGED <<rows, event>>

SavePaused(t) ==
    /\ step[t] = "paused"
    /\ step' = [step EXCEPT ![t] = "failures"]
    /\ rows' = [rows EXCEPT !.paused = copy[t].paused]
    /\ UNCHANGED <<event, copy, overlapped>>

SaveFailures(t) ==
    /\ step[t] = "failures"
    /\ step' = [step EXCEPT ![t] = "level"]
    /\ rows' = [rows EXCEPT !.failures = copy[t].failures]
    /\ UNCHANGED <<event, copy, overlapped>>

\* The last row; what was recorded is forgotten.
SaveLevel(t) ==
    /\ step[t] = "level"
    /\ step' = [step EXCEPT ![t] = "idle"]
    /\ rows' = [rows EXCEPT !.level = copy[t].level]
    /\ event' = [event EXCEPT ![t] = "clear"]
    /\ copy' = [copy EXCEPT ![t] = Initial]
    /\ UNCHANGED overlapped

RecordStep(t) == Load(t) \/ SavePaused(t) \/ SaveFailures(t) \/ SaveLevel(t)

\* auto_pause_active of pause_guard_controls.
Active == Enabled /\ rows.paused

\* What the records so far have come to: the state that the one thread that is
\* saving will leave in the rows, or the rows.
Current ==
    IF ~overlapped /\ \E t \in Thread : Saving(t)
    THEN copy[CHOOSE t \in Thread : Saving(t)]
    ELSE rows

\* What a thread has asked the breaker to record, and whether it took effect.
Called ==
    [t \in Thread |-> IF Saving(t) THEN "done" ELSE IF step[t] = "load" THEN event[t] ELSE "none"]

-----------------------------------------------------------------------------
(* Properties. *)

GuardTypeOK ==
    /\ rows \in State
    /\ step \in [Thread -> {"idle", "load", "paused", "failures", "level"}]
    /\ event \in [Thread -> Event]
    /\ copy \in [Thread -> State]
    /\ overlapped \in BOOLEAN

\* From level 2 on the breaker is paused, and it is paused for no other reason
\* than a level or a count of failures.
Sound(r) ==
    /\ r.level >= 2 => r.paused
    /\ r.paused => r.level >= 2 \/ (Enabled /\ r.failures >= Threshold)

\* As long as no two records overlapped, the saved state is sound whenever
\* nobody is in the middle of saving, whatever failures, successes and clears
\* came in whatever order.
SoundAtRest == ~overlapped /\ (\A t \in Thread : ~Saving(t)) => Sound(rows)

=============================================================================
