-------------------------- MODULE LiquidationEngine --------------------------
(***************************************************************************)
(* The liquidation engine (bot/runtime/liquidation_engine.py) and the      *)
(* request threads that liquidate or test one account                      *)
(* (web/control_panel_liquidation_routes.py), under the circuit breaker.   *)
(*                                                                         *)
(* The engine reads the breaker at the head of a tick, then while it       *)
(* builds the payload of each account, and the submission reads it once    *)
(* more.  Each reading travels with the payload until the next: the static *)
(* call is judged by what the building read, the submission by what its    *)
(* own gate read, and between the gate and the broadcast nobody looks.     *)
(* Why an account is blocked, fails or succeeds is chosen freely; reasons  *)
(* count as soft or hard, as in bot/execution/liquidation_preflight.py.    *)
(***************************************************************************)
EXTENDS LiquidationPauseGuard

CONSTANTS
    Engine,        \* the engine's thread
    AutoExecute,   \* the engine submits what passes
    RequireFork,   \* LIQUIDATION_REQUIRE_FORK_SIMULATION
    MaxAccounts    \* max_accounts_per_tick

ASSUME EngineAssumption == Engine \in Thread
ASSUME EngineFlagAssumption == AutoExecute \in BOOLEAN /\ RequireFork \in BOOLEAN
ASSUME AccountsAssumption == MaxAccounts \in Nat \ {0}

VARIABLES
    pc,      \* where a thread is once it has finished recording
    seen,    \* the payload's controls say that the breaker is active
    left,    \* accounts of the engine's tick not yet done with
    \* history variables
    leaks,   \* transactions a thread sent since the breaker last became active
    through  \* threads that were past the gate when it did

vars == <<guardVars, pc, seen, left, leaks, through>>

Pc == {"idle", "build", "static", "softBlocked", "submit", "send", "sent", "next"}
MaxLeaks == 2   \* bound of the model

Init ==
    /\ GuardInit
    /\ pc = [t \in Thread |-> "idle"]
    /\ seen = [t \in Thread |-> FALSE]
    /\ left = 0
    /\ leaks = [t \in Thread |-> 0]
    /\ through = {}

At(t, where) == pc[t] = where /\ step[t] = "idle"
Goto(t, where) == pc' = [pc EXCEPT ![t] = where]

\* An attempt that the breaker need not hear of, or that it counts.
Note(t, e) == IF e = "none" THEN UNCHANGED guardVars ELSE Record(t, e)

-----------------------------------------------------------------------------
(* The engine's tick, and the requests. *)

\* run_once, when the breaker lets it load accounts.
Tick(n) ==
    /\ At(Engine, "idle")
    /\ ~(Active \/ rows.level >= 3)
    /\ left' = n
    /\ Goto(Engine, "build")
    /\ UNCHANGED <<guardVars, seen, leaks, through>>

\* POST liquidation/account/flashloan or .../static-call-and-save.
Request(t) ==
    /\ t # Engine
    /\ At(t, "idle")
    /\ Goto(t, "build")
    /\ UNCHANGED <<guardVars, seen, left, leaks, through>>

\* POST liquidation/pause-guard/clear.
Clear(t) ==
    /\ t # Engine
    /\ At(t, "idle")
    /\ Record(t, "clear")
    /\ UNCHANGED <<pc, seen, left, leaks, through>>

\* liquidation_execution_payload_for_account reads the controls.
Build(t) ==
    /\ At(t, "build")
    /\ seen' = [seen EXCEPT ![t] = Active]
    /\ IF t = Engine THEN Goto(t, "static") ELSE \E where \in {"static", "submit"} : Goto(t, where)
    /\ UNCHANGED <<guardVars, left, leaks, through>>

\* Building, the static call or the submission raises, or is refused.  The
\* engine's "execution plan is not ready", and a block for a hard reason on a
\* request, are not counted.
Fails(t) ==
    /\ At(t, "build") \/ At(t, "static") \/ At(t, "submit") \/ At(t, "send")
    /\ \E e \in {"failure", "none"} :
        /\ e = "none" => pc[t] = "build" \/ t # Engine
        /\ Note(t, e)
    /\ Goto(t, "next")
    /\ UNCHANGED <<seen, left, leaks, through>>

\* The static call passes.  Its record carries the reasons that block the
\* submission, and with any of them it counts as a failure.
StaticPasses(t) ==
    /\ At(t, "static")
    /\ \E soft, hard \in BOOLEAN :
        LET fork == RequireFork
            blocked == hard \/ seen[t] \/ (fork /\ ~AutoExecute)
        IN  /\ Note(t, IF soft \/ hard \/ seen[t] \/ fork THEN "failure" ELSE "none")
            /\ Goto(t, IF t # Engine \/ blocked \/ (soft /\ fork) THEN "next"
                       ELSE IF soft THEN "softBlocked"
                       ELSE IF AutoExecute THEN "submit" ELSE "next")
    /\ UNCHANGED <<seen, left, leaks, through>>

\* The engine records a blocked submission a second time; it is counted only if
\* every reason is soft.
SoftBlocked ==
    /\ At(Engine, "softBlocked")
    /\ Record(Engine, "failure")
    /\ Goto(Engine, "next")
    /\ UNCHANGED <<seen, left, leaks, through>>

\* Slip: the gate takes the controls that came with the payload.
GateOnPayload(t) ==
    /\ At(t, "submit")
    /\ IF seen[t]
         THEN Note(t, IF t = Engine THEN "failure" ELSE "none") /\ Goto(t, "next")
         ELSE UNCHANGED guardVars /\ Goto(t, "send")
    /\ UNCHANGED <<seen, left, leaks, through>>

\* execute_flashloan_liquidation reads the controls anew, puts them into the
\* payload and is refused while they say active: force drops soft reasons only.
\* The engine counts the error; for a request it is a block for a hard reason.
Gate(t) ==
    /\ At(t, "submit")
    /\ seen' = [seen EXCEPT ![t] = Active]
    /\ IF Active
         THEN Note(t, IF t = Engine THEN "failure" ELSE "none") /\ Goto(t, "next")
         ELSE UNCHANGED guardVars /\ Goto(t, "send")
    /\ UNCHANGED <<left, leaks, through>>

\* Past the gate the static call, the fork simulation and the building of the
\* transaction take their time, and it is broadcast whatever the breaker says.
Send(t) ==
    /\ At(t, "send")
    /\ Goto(t, "sent")
    /\ leaks' = IF Active /\ leaks[t] < MaxLeaks
                  THEN [leaks EXCEPT ![t] = @ + 1] ELSE leaks
    /\ UNCHANGED <<guardVars, seen, left, through>>

\* The receipt says success, says failure, or does not come in time.
Receipt(t) ==
    /\ At(t, "sent")
    /\ \E e \in {"success", "failure"} : Record(t, e)
    /\ Goto(t, "next")
    /\ UNCHANGED <<seen, left, leaks, through>>

NextAccount(t) ==
    /\ At(t, "next")
    /\ IF t = Engine /\ left > 1
         THEN left' = left - 1 /\ Goto(t, "build")
         ELSE left' = (IF t = Engine THEN 0 ELSE left) /\ Goto(t, "idle")
    /\ UNCHANGED <<guardVars, seen, leaks, through>>

\* A row of the breaker is written; when it becomes active or ceases to be, the
\* count of leaks starts over, with those who are past the gate by then.
Save(t) ==
    /\ RecordStep(t)
    /\ leaks' = IF Active' = Active THEN leaks ELSE [u \in Thread |-> 0]
    /\ through' = IF Active' = Active THEN through
                  ELSE IF Active' THEN {u \in Thread : pc[u] = "send"} ELSE {}
    /\ UNCHANGED <<pc, seen, left>>

Work(t) ==
    \/ Build(t) \/ Fails(t) \/ StaticPasses(t) \/ Gate(t) \/ Send(t)
    \/ Receipt(t) \/ NextAccount(t) \/ Save(t)

Next ==
    \/ \E n \in 1..MaxAccounts : Tick(n)
    \/ SoftBlocked
    \/ \E t \in Thread : Request(t) \/ Clear(t) \/ Work(t)

Spec == Init /\ [][Next]_vars

\* The engine's loop goes on, and a thread that has begun runs to its end: every
\* call it makes has a timeout.
Fairness ==
    /\ WF_vars(\E n \in 1..MaxAccounts : Tick(n))
    /\ WF_vars(SoftBlocked)
    /\ \A t \in Thread : WF_vars(Work(t))

FairSpec == Spec /\ Fairness

-----------------------------------------------------------------------------
(* Properties. *)

TypeOK ==
    /\ GuardTypeOK
    /\ pc \in [Thread -> Pc]
    /\ seen \in [Thread -> BOOLEAN]
    /\ left \in 0..MaxAccounts
    /\ leaks \in [Thread -> 0..MaxLeaks]
    /\ through \subseteq Thread

\* Once the breaker is active, and until it ceases to be, only those send who had
\* passed the gate of execute_flashloan_liquidation before, and each of them once.
LeakBound == \A t \in Thread : leaks[t] <= IF t \in through THEN 1 ELSE 0

\* While no two records overlapped, recording a failure never resumes a paused
\* breaker: only a confirmed liquidation or the operator's clear does.
FailuresKeepPause ==
    [][~overlapped' /\ rows.paused /\ ~rows'.paused =>
        \E t \in Thread : step[t] = "paused" /\ event[t] \in {"success", "clear"}]_vars

\* While no two records overlap, the breaker keeps the promise of
\* LiquidationBreaker: loading, working in and saving three rows amount to one
\* step of it, no record is lost and none is seen half done.
Breaker == INSTANCE LiquidationBreaker WITH
    state <- Current, shown <- rows.paused, call <- Called, spoiled <- overlapped

RecordsAtomic == Breaker!Spec

\* The same of every behaviour: "after the breaker trips the clear API must be
\* called or the file deleted" (.env.example), confirmed liquidations excepted.
TripHolds ==
    [][rows.paused /\ ~rows'.paused =>
        \E t \in Thread : step[t] = "paused" /\ event[t] \in {"success", "clear"}]_vars

RecordsFailure == \E t \in Thread : step[t] = "load" /\ event[t] = "failure"
RecordsOther == \E t \in Thread : Recording(t) /\ event[t] # "failure"

\* Records that overlap lose failures and can even undo a trip, but they cannot
\* keep the breaker open for ever: if failures keep being recorded and from some
\* time on nothing else, it ends up paused.
FailuresTrip == Enabled /\ []<>RecordsFailure /\ <>[]~RecordsOther => <>[](rows.paused)

=============================================================================
