--------------------------- MODULE CowQuoteDaemon ---------------------------
(***************************************************************************)
(* The CoW quote daemon (dex/runtime/cow_arbitrage_daemon.py): one worker  *)
(* thread that claims a candidate, has it quoted, may post an order for    *)
(* it, records the attempt and settles or requeues the candidate; and the  *)
(* web threads around it, which pause and reopen order submission, feed    *)
(* the queue, drop networks and start or stop the worker.                  *)
(*                                                                         *)
(* The worker's steps are those between which another thread can change    *)
(* what it reads: the pause guard is read three times (process_once,       *)
(* default_quote_candidate, submit_cow_flashloan_order), the queue is      *)
(* touched at the claim and at the end.  What the quote, the node script   *)
(* that posts the order and the attempt log answer is chosen freely.       *)
(***************************************************************************)
EXTENDS CowCandidateQueue

CONSTANTS
    QuoteOutcome,      \* statuses a quote that posts nothing may lead to
    RecordMayFail,     \* record_attempts may raise after a quote or an order
    DeadlineEnabled,   \* COW_ARBITRAGE_QUOTE_DEADLINE_SECONDS is not zero
    StopMayHappen      \* CowQuoteDaemon.stop is called (nothing in src does)

ASSUME QuoteOutcomeAssumption ==
    QuoteOutcome \subseteq {"quoted", "blocked", "ready_to_submit", "ready_not_submitted"}
ASSUME FlagAssumption ==
    /\ RecordMayFail \in BOOLEAN
    /\ DeadlineEnabled \in BOOLEAN
    /\ StopMayHappen \in BOOLEAN

VARIABLES
    paused,      \* the submission pause guard
    pc,          \* where the worker thread is
    held,        \* the copy of the candidate that claim_next returned
    outcome,     \* the status the worker is going to settle it with
    stop,        \* the _stop event
    reopening,   \* where a request that reopens submission is
    admitted,    \* a producer has passed the guard and has yet to enqueue
    \* history variables: nothing reads them but the properties
    cleared,     \* the queue was cleared since the worker's last claim
    ordered,     \* what became of the order of each candidate since it was enqueued
    leaks        \* orders posted since the guard was last set to paused

workerVars == <<pc, held, outcome, stop>>
webVars == <<paused, reopening, admitted>>
historyVars == <<cleared, ordered, leaks>>
vars == <<queueVars, workerVars, webVars, historyVars>>

NoCandidate == [signature |-> "none", attempts |-> 0]
WorkerPc == {"down", "loop", "claim", "claimed", "quote", "recheck", "guard",
             "post", "record", "complete", "except", "retry"}

\* Where the worker answers for a candidate it has claimed.
Busy == pc \notin {"down", "loop", "claim"}

\* Slip: a guard that cannot be read counts as open.
GuardReadsOpen == FALSE

\* What cow_submission_pause_guard_status tells a thread that asks.
GuardReadsPaused == paused

MaxLeaks == 2   \* bound of the model: leaks are counted up to here

Init ==
    /\ QueueInit
    /\ paused \in BOOLEAN
    /\ pc = "down" /\ held = NoCandidate /\ outcome = "none" /\ stop = FALSE
    /\ reopening = "none"
    /\ admitted = FALSE
    /\ cleared = FALSE
    /\ ordered = [s \in Signature |-> "none"]
    /\ leaks = 0

-----------------------------------------------------------------------------
(* The worker thread: run_forever and process_once. *)

Goto(from, to) == pc = from /\ pc' = to

\* start(): an alive thread is left alone, with its stop event as it is.
Start ==
    /\ pc' = IF pc = "down" THEN "loop" ELSE pc
    /\ stop' = IF pc = "down" THEN FALSE ELSE stop
    /\ UNCHANGED <<held, outcome>>

\* run_forever sees the stop event between two candidates.
Exit ==
    /\ stop
    /\ Goto("loop", "down")
    /\ UNCHANGED <<queueVars, held, outcome, stop, webVars, historyVars>>

\* process_once reads the guard; while it reads paused the loop only sleeps.
CheckPause ==
    /\ ~stop
    /\ ~GuardReadsPaused
    /\ Goto("loop", "claim")
    /\ UNCHANGED <<queueVars, held, outcome, stop, webVars, historyVars>>

ClaimCandidate(s) ==
    /\ Goto("claim", "claimed")
    /\ Claim(s)
    /\ held' = [signature |-> s, attempts |-> items'[s].attempts]
    /\ cleared' = FALSE
    /\ UNCHANGED <<outcome, stop, webVars, ordered, leaks>>

ClaimEmpty ==
    /\ Goto("claim", "loop")
    /\ ClaimNothing
    /\ UNCHANGED <<held, outcome, stop, webVars, historyVars>>

\* With a deadline, OrchestrationContext.start may find it already past.
DeadlineExceeded ==
    /\ DeadlineEnabled
    /\ Goto("claimed", "loop")
    /\ Complete(held.signature, "failed")
    /\ held' = NoCandidate
    /\ UNCHANGED <<outcome, stop, webVars, historyVars>>

BeginQuote ==
    /\ Goto("claimed", "quote")
    /\ UNCHANGED <<queueVars, held, outcome, stop, webVars, historyVars>>

\* default_quote_candidate up to the precheck: it may raise, find nothing to
\* submit, or find an order that can be submitted.
QuoteRaises ==
    /\ Goto("quote", "except")
    /\ UNCHANGED <<queueVars, held, outcome, stop, webVars, historyVars>>

\* Slip: the state is left at its initial value.
QuoteForgetsOutcome(o) ==
    /\ Goto("quote", "record")
    /\ UNCHANGED <<queueVars, held, outcome, stop, webVars, historyVars>>

QuoteNotSubmittable(o) ==
    /\ Goto("quote", "record")
    /\ outcome' = o
    /\ UNCHANGED <<queueVars, held, stop, webVars, historyVars>>

QuoteSubmittable ==
    /\ Goto("quote", "recheck")
    /\ UNCHANGED <<queueVars, held, outcome, stop, webVars, historyVars>>

\* The guard is read again before submit_cow_intent_trade ...
RecheckPause ==
    /\ pc = "recheck"
    /\ pc' = IF GuardReadsPaused THEN "record" ELSE "guard"
    /\ outcome' = IF GuardReadsPaused THEN "submission_paused" ELSE outcome
    /\ UNCHANGED <<queueVars, held, stop, webVars, historyVars>>

\* ... and once more at the head of submit_cow_flashloan_order.
FinalPauseGuard ==
    /\ pc = "guard"
    /\ pc' = IF GuardReadsPaused THEN "record" ELSE "post"
    /\ outcome' = IF GuardReadsPaused THEN "submission_paused" ELSE outcome
    /\ UNCHANGED <<queueVars, held, stop, webVars, historyVars>>

\* The rest of submit_cow_flashloan_order posts nothing: submission is switched
\* off, the adapter or the signer is not ready, or the node script fails
\* before it posts.
NotPosted ==
    /\ Goto("post", "record")
    /\ outcome' \in {"ready_not_submitted", "adapter_unavailable", "submission_failed"}
    /\ UNCHANGED <<queueVars, held, stop, webVars, historyVars>>

\* Slip: the timeout of the node script is not caught in the submission.
PostOrderTimeoutRaises ==
    /\ pc = "post"
    /\ \/ pc' = "record" /\ outcome' = "submitted_success"
       \/ pc' = "except" /\ outcome' = outcome
    /\ ordered' = [ordered EXCEPT ![held.signature] = "posted"]
    /\ leaks' = IF paused /\ leaks < MaxLeaks THEN leaks + 1 ELSE leaks
    /\ UNCHANGED <<queueVars, held, stop, webVars, cleared>>

\* The node script posts the order.  If it then overruns its timeout the
\* submission is reported as failed although the order is out.
PostOrder ==
    /\ Goto("post", "record")
    /\ outcome' \in {"submitted_success", "submission_failed"}
    /\ ordered' = [ordered EXCEPT ![held.signature] = "posted"]
    /\ leaks' = IF paused /\ leaks < MaxLeaks THEN leaks + 1 ELSE leaks
    /\ UNCHANGED <<queueVars, held, stop, webVars, cleared>>

\* record_attempts returns (writing nothing while paused), or raises inside the try of process_once.
Record ==
    /\ Goto("record", "complete")
    /\ UNCHANGED <<queueVars, held, outcome, stop, webVars, historyVars>>

RecordRaises ==
    /\ RecordMayFail
    /\ Goto("record", "except")
    /\ ordered' = [ordered EXCEPT ![held.signature] =
                                    IF @ = "posted" THEN "unrecorded" ELSE @]
    /\ UNCHANGED <<queueVars, held, outcome, stop, webVars, cleared, leaks>>

CompleteCandidate ==
    /\ Goto("complete", "loop")
    /\ Complete(held.signature, outcome)
    /\ held' = NoCandidate
    /\ outcome' = "none"
    /\ UNCHANGED <<stop, webVars, historyVars>>

\* The handler records the failure; an error while doing so is swallowed.
RecordFailure ==
    /\ Goto("except", "retry")
    /\ UNCHANGED <<queueVars, held, outcome, stop, webVars, historyVars>>

\* Slip: off by one.
RetryAlwaysAllowed == held.attempts <= MaxAttempts

RetryAllowed == held.attempts < MaxAttempts

RequeueCandidate ==
    /\ Goto("retry", "loop")
    /\ RetryAllowed
    /\ Requeue(held.signature)
    /\ held' = NoCandidate
    /\ outcome' = "none"
    /\ UNCHANGED <<stop, webVars, historyVars>>

\* Slip: an exhausted candidate is dropped without settling it.
GiveUpSilently ==
    /\ Goto("retry", "loop")
    /\ ~RetryAllowed \/ DeadlineEnabled
    /\ held' = NoCandidate
    /\ outcome' = "none"
    /\ UNCHANGED <<queueVars, stop, webVars, historyVars>>

\* Slip: only the deadline ends the retries.
GiveUpAtDeadline ==
    /\ DeadlineEnabled
    /\ Goto("retry", "loop")
    /\ Complete(held.signature, "failed")
    /\ held' = NoCandidate
    /\ outcome' = "none"
    /\ UNCHANGED <<stop, webVars, historyVars>>

\* No attempts are left, or retry() reports that the deadline is past.
GiveUp ==
    /\ Goto("retry", "loop")
    /\ ~RetryAllowed \/ DeadlineEnabled
    /\ Complete(held.signature, "failed")
    /\ held' = NoCandidate
    /\ outcome' = "none"
    /\ UNCHANGED <<stop, webVars, historyVars>>

Worker ==
    \/ Exit \/ CheckPause \/ ClaimEmpty
    \/ \E s \in Signature : ClaimCandidate(s)
    \/ DeadlineExceeded \/ BeginQuote
    \/ QuoteRaises \/ QuoteSubmittable
    \/ \E o \in QuoteOutcome : QuoteNotSubmittable(o)
    \/ RecheckPause \/ FinalPauseGuard \/ NotPosted \/ PostOrder
    \/ Record \/ RecordRaises \/ CompleteCandidate
    \/ RecordFailure \/ RequeueCandidate \/ GiveUp

-----------------------------------------------------------------------------
(* The other threads. *)

\* POST cow-submission-pause {paused: true}.
Pause ==
    /\ ~paused
    /\ paused' = TRUE
    /\ leaks' = 0
    /\ UNCHANGED <<queueVars, workerVars, reopening, admitted, cleared, ordered>>

\* POST cow-submission-pause {paused: false}, or .../clear: the guard is set,
\* then the queue is cleared, then the worker is ensured to run.
Reopen ==
    /\ reopening = "none"
    /\ paused' = FALSE
    /\ reopening' = "clear"
    /\ leaks' = 0
    /\ UNCHANGED <<queueVars, workerVars, admitted, cleared, ordered>>

ClearStale ==
    /\ reopening = "clear"
    /\ reopening' = "start"
    /\ Clear
    /\ cleared' = TRUE
    /\ ordered' = [s \in Signature |-> "none"]
    /\ UNCHANGED <<workerVars, paused, admitted, leaks>>

ReopenStart ==
    /\ reopening = "start"
    /\ reopening' = "none"
    /\ Start
    /\ UNCHANGED <<queueVars, paused, admitted, historyVars>>

\* ensure_cow_quote_daemon_running, from the startup code, the queue page or
\* a producer.
Ensure ==
    /\ pc = "down"
    /\ Start
    /\ UNCHANGED <<queueVars, webVars, historyVars>>

Stop ==
    /\ StopMayHappen
    /\ stop' = TRUE
    /\ UNCHANGED <<queueVars, pc, held, outcome, webVars, historyVars>>

\* enqueue_cow_candidate_attempts reads the guard, then calls enqueue_many.
Admit ==
    /\ ~GuardReadsPaused
    /\ admitted' = TRUE
    /\ UNCHANGED <<queueVars, workerVars, paused, reopening, historyVars>>

ProducerBegin ==
    /\ admitted
    /\ admitted' = FALSE
    /\ EnqueueBegin
    /\ UNCHANGED <<workerVars, paused, reopening, historyVars>>

ProducerEnqueue(s, h) ==
    /\ EnqueueExisting(s, h) \/ EnqueueNew(s, h)
    /\ ordered' = [ordered EXCEPT ![s] = "none"]
    /\ UNCHANGED <<workerVars, webVars, cleared, leaks>>

ProducerEnd == EnqueueEnd /\ UNCHANGED <<workerVars, webVars, historyVars>>

\* retain_cow_candidate_networks, on a market page request.
Retain(N) == RetainNetworks(N) /\ UNCHANGED <<workerVars, webVars, historyVars>>

ClockTick == Tick /\ UNCHANGED <<workerVars, webVars, historyVars>>

Web ==
    \/ Pause \/ Reopen \/ ClearStale \/ ReopenStart \/ Ensure \/ Stop \/ Admit
    \/ ProducerBegin \/ ProducerEnd
    \/ \E s \in Signature, h \in Hint : ProducerEnqueue(s, h)
    \/ \E N \in SUBSET Network : Retain(N)

Next == Worker \/ Web \/ ClockTick

Spec == Init /\ [][Next]_vars

\* The worker thread keeps running, time passes, a request that began to
\* reopen submission or to enqueue runs to its end.
Fairness ==
    /\ WF_vars(Worker)
    /\ WF_vars(ClockTick)
    /\ WF_vars(ProducerEnd)
    /\ WF_vars(ClearStale)
    /\ WF_vars(ReopenStart)

FairSpec == Spec /\ Fairness

-----------------------------------------------------------------------------
(* Safety. *)

\* The types of the whole state.
TypeOK ==
    /\ QueueTypeOK
    /\ paused \in BOOLEAN
    /\ pc \in WorkerPc
    /\ held \in [signature : Signature, attempts : 1..MaxAttempts] \cup {NoCandidate}
    /\ Busy => held.signature \in Signature
    /\ outcome \in FinalStatus \cup {"none"}
    /\ pc \in {"record", "complete"} => outcome \in FinalStatus
    /\ stop \in BOOLEAN
    /\ reopening \in {"none", "clear", "start"}
    /\ admitted \in BOOLEAN
    /\ cleared \in BOOLEAN
    /\ ordered \in [Signature -> {"none", "posted", "unrecorded"}]
    /\ leaks \in 0..MaxLeaks

\* The candidate the worker is busy with stays in the queue, marked as being
\* processed, whatever expires, overflows, is refreshed, dropped or removed
\* meanwhile; only a clear of the whole queue can take it away.  Otherwise
\* complete and requeue would miss it, or hit another entry of that signature.
HeldIsProcessing ==
    Busy /\ ~cleared =>
        /\ held.signature \in Queued
        /\ items[held.signature].status = "processing"
        /\ items[held.signature].attempts = held.attempts

\* No entry is left marked as being processed once the worker is done with
\* it: nothing in the queue would ever claim, trim, expire or remove it.
NoOrphan ==
    \A s \in Holding(items, {"processing"}) :
        Busy /\ held.signature = s /\ ~cleared

\* A candidate whose order was posted is not claimed a second time before a
\* producer enqueues it again, unless the record of the attempt was lost: the
\* retry of process_once after record_attempts raised is the one way to post
\* the same order twice.  This takes the in-memory work of
\* default_quote_candidate after the submission not to raise.
NoRepeatClaim ==
    [][\A s \in Signature : ClaimCandidate(s) => ordered[s] # "posted"]_vars

\* Once order submission is paused, and until it is reopened, at most the one
\* order already past the last guard goes out.
LeakBound == leaks <= 1

\* The daemon keeps the promise of CowOrderPermit: a permit is the worker's place
\* between the last guard of submit_cow_flashloan_order and the node script.
Permit == INSTANCE CowOrderPermit WITH
    Candidate <- Signature,
    hand <- IF Busy THEN {held.signature} ELSE {},
    open <- ~paused,
    permit <- (pc = "post"),
    order <- ordered

\* Every order is posted for the candidate that is held, once, after a reading
\* of the guard that found it open, whatever the web threads do meanwhile; and
\* a candidate with an order out is not claimed again unless it was renewed or
\* the record of the order was lost.
OrdersPermitted == Permit!Spec

-----------------------------------------------------------------------------
(* Liveness. *)

Quiet == <>[](~enqueuing)
Unhindered == <>[](~paused /\ pc # "down")

\* A claimed candidate is always settled, requeued or found gone: the worker
\* comes back to its loop whatever the quote, the order and the log do.
ClaimsSettle == Quiet => (Busy ~> pc = "loop")

\* Once producers are quiet and the worker runs unpaused, retries come to an
\* end and no candidate waits for ever: every one is settled or removed.
Drains == Quiet /\ Unhindered => <>[](Holding(items, WaitingStatus) = {})

=============================================================================
