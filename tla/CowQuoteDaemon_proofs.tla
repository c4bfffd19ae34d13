----------------------- MODULE CowQuoteDaemon_proofs -----------------------
(***************************************************************************)
(* Proofs about CowQuoteDaemon for any candidates, limits and outcomes.    *)
(*                                                                         *)
(* The inductive invariant adds three things to the properties the model   *)
(* checker checks: the invariant of the queue, what the count of leaked    *)
(* orders can be while the guard is open (LeakInv), and where the worker   *)
(* may be while a candidate's order is out and recorded (OrderInv).        *)
(***************************************************************************)
EXTENDS CowQuoteDaemon, CowCandidateQueue_proofs

\* An order has leaked only if the guard is paused and the worker is not about
\* to post another one.
LeakInv == leaks <= 1 /\ (~paused \/ pc = "post" => leaks = 0)

\* A candidate whose order was posted waits in the queue only if the worker is
\* still about to settle it.
OrderInv ==
    \A s \in Signature : ordered[s] = "posted" =>
        /\ Waiting(items, s) => Busy /\ held.signature = s
        /\ Busy /\ held.signature = s => pc \in {"record", "complete"}

HeldInv ==
    Busy /\ ~cleared =>
        /\ Processing(items, held.signature)
        /\ items[held.signature].attempts = held.attempts

OrphanInv ==
    \A s \in Signature : Processing(items, s) => Busy /\ held.signature = s /\ ~cleared

IInv == TypeOK /\ QueueInv /\ HeldInv /\ OrphanInv /\ LeakInv /\ OrderInv

-----------------------------------------------------------------------------
(* Which method of the queue each step of the daemon calls. *)

\* Steps of the worker that leave the queue alone.
WorkerAlone ==
    \/ Exit \/ CheckPause \/ BeginQuote \/ QuoteRaises \/ QuoteSubmittable
    \/ \E o \in QuoteOutcome : QuoteNotSubmittable(o)
    \/ RecheckPause \/ FinalPauseGuard \/ NotPosted \/ PostOrder
    \/ Record \/ RecordRaises \/ RecordFailure

\* Steps of the other threads that leave the queue alone.
WebAlone == Pause \/ Reopen \/ ReopenStart \/ Ensure \/ Stop \/ Admit

\* Steps of the other threads that disturb no entry being processed.
WebQuiet ==
    \/ ProducerBegin \/ ProducerEnd \/ ClockTick
    \/ \E N \in SUBSET Network : Retain(N)

\* Steps in which the worker is done with its candidate.
Settle ==
    \/ DeadlineExceeded /\ Complete(held.signature, "failed")
    \/ CompleteCandidate /\ Complete(held.signature, outcome)
    \/ RequeueCandidate /\ Requeue(held.signature)
    \/ GiveUp /\ Complete(held.signature, "failed")

LEMMA NextCases ==
    ASSUME Next
    PROVE  \/ WorkerAlone \/ WebAlone \/ WebQuiet \/ Settle
           \/ ClaimEmpty \/ ClearStale
           \/ \E s \in Signature : ClaimCandidate(s)
           \/ \E s \in Signature, h \in Hint : ProducerEnqueue(s, h)
BY Zenon DEF Next, Worker, Web, WorkerAlone, WebAlone, WebQuiet, Settle,
             DeadlineExceeded, CompleteCandidate, RequeueCandidate, GiveUp

LEMMA AloneQueue ==
    ASSUME WorkerAlone \/ WebAlone
    PROVE  UNCHANGED queueVars
BY DEF WorkerAlone, Exit, CheckPause, BeginQuote, QuoteRaises, QuoteSubmittable,
       QuoteNotSubmittable, RecheckPause, FinalPauseGuard, NotPosted, PostOrder,
       Record, RecordRaises, RecordFailure,
       WebAlone, Pause, Reopen, ReopenStart, Ensure, Stop, Admit

LEMMA WebQuietQueue ==
    ASSUME WebQuiet
    PROVE  /\ \/ EnqueueBegin \/ EnqueueEnd \/ Tick
              \/ \E N \in SUBSET Network : RetainNetworks(N)
           /\ UNCHANGED <<workerVars, paused, reopening, historyVars>>
           /\ admitted' \in {admitted, FALSE}
<1>1. CASE ProducerBegin
  BY <1>1 DEF ProducerBegin
<1>2. CASE ProducerEnd
  BY <1>2 DEF ProducerEnd, webVars
<1>3. CASE ClockTick
  BY <1>3 DEF ClockTick, webVars
<1>4. ASSUME NEW N \in SUBSET Network, Retain(N)
      PROVE  RetainNetworks(N) /\ UNCHANGED <<workerVars, webVars, historyVars>>
  BY <1>4 DEF Retain
<1>. QED
  BY <1>1, <1>2, <1>3, <1>4 DEF WebQuiet, webVars

LEMMA SettleFacts ==
    ASSUME TypeOK, Settle
    PROVE  /\ Busy /\ held.signature \in Signature
           /\ ~Busy' /\ pc' = "loop"
           /\ \/ \E status \in FinalStatus : Complete(held.signature, status)
              \/ Requeue(held.signature) /\ pc = "retry"
           /\ held' = NoCandidate /\ outcome' \in {outcome, "none"}
           /\ UNCHANGED <<stop, webVars, historyVars>>
<1>1. "failed" \in FinalStatus
  BY DEF FinalStatus, CoolingStatus
<1>2. pc \in {"record", "complete"} => outcome \in FinalStatus
  BY DEF TypeOK
<1>3. Busy /\ held.signature \in Signature
  BY DEF Settle, DeadlineExceeded, CompleteCandidate, RequeueCandidate, GiveUp, Goto, Busy, TypeOK
<1>4. ~Busy' /\ pc' = "loop"
  BY DEF Settle, DeadlineExceeded, CompleteCandidate, RequeueCandidate, GiveUp, Goto, Busy
<1>5. /\ held' = NoCandidate /\ outcome' \in {outcome, "none"}
      /\ UNCHANGED <<stop, webVars, historyVars>>
  BY DEF Settle, DeadlineExceeded, CompleteCandidate, RequeueCandidate, GiveUp
<1>6. \/ Complete(held.signature, "failed")
      \/ Complete(held.signature, outcome) /\ pc = "complete"
      \/ Requeue(held.signature) /\ pc = "retry"
  BY DEF Settle, CompleteCandidate, RequeueCandidate, Goto
<1>. QED
  BY <1>1, <1>2, <1>3, <1>4, <1>5, <1>6

-----------------------------------------------------------------------------
(* The daemon and its web threads are callers of the queue. *)

\* Whatever the daemon and the web threads do is one call of one method of the
\* queue, with an argument the queue is specified for, or leaves the queue alone.
LEMMA DaemonCallsQueue ==
    ASSUME TypeOK, [Next]_vars
    PROVE  [QueueStep]_queueVars
<1>1. CASE WorkerAlone \/ WebAlone
  BY <1>1, AloneQueue
<1>2. CASE WebQuiet
  BY <1>2, WebQuietQueue DEF QueueStep
<1>3. CASE Settle
  BY <1>3, SettleFacts DEF QueueStep
<1>4. CASE ClaimEmpty
  BY <1>4 DEF ClaimEmpty, QueueStep
<1>5. CASE ClearStale
  BY <1>5 DEF ClearStale, QueueStep
<1>6. CASE \E s \in Signature : ClaimCandidate(s)
  BY <1>6 DEF ClaimCandidate, QueueStep
<1>7. CASE \E s \in Signature, h \in Hint : ProducerEnqueue(s, h)
  BY <1>7 DEF ProducerEnqueue, QueueStep
<1>8. CASE UNCHANGED vars
  BY <1>8 DEF vars
<1>. QED
  BY <1>1, <1>2, <1>3, <1>4, <1>5, <1>6, <1>7, <1>8, NextCases

\* So the daemon keeps the invariant of the queue.
LEMMA QueueInvNext ==
    ASSUME TypeOK, QueueInv, Next
    PROVE  QueueInv'
BY DaemonCallsQueue, QueueStepInvariance

-----------------------------------------------------------------------------
(* The candidate that is held and the entries being processed. *)

\* A step that leaves the queue alone leaves the candidate held alone, and the
\* worker as busy as it was.
LEMMA AloneFacts ==
    ASSUME WorkerAlone \/ WebAlone
    PROVE  held' = held /\ (cleared' <=> cleared) /\ (Busy' <=> Busy)
<1>1. held' = held
  BY DEF WorkerAlone, Exit, CheckPause, BeginQuote, QuoteRaises, QuoteSubmittable,
         QuoteNotSubmittable, RecheckPause, FinalPauseGuard, NotPosted, PostOrder,
         Record, RecordRaises, RecordFailure,
         WebAlone, Pause, Reopen, ReopenStart, Ensure, Start, Stop, Admit, workerVars
<1>2. (cleared' <=> cleared)
  BY DEF WorkerAlone, Exit, CheckPause, BeginQuote, QuoteRaises, QuoteSubmittable,
         QuoteNotSubmittable, RecheckPause, FinalPauseGuard, NotPosted, PostOrder,
         Record, RecordRaises, RecordFailure,
         WebAlone, Pause, Reopen, ReopenStart, Ensure, Stop, Admit, historyVars
<1>3. ASSUME WorkerAlone PROVE Busy' <=> Busy
  BY <1>3 DEF WorkerAlone, Exit, CheckPause, BeginQuote, QuoteRaises, QuoteSubmittable,
         QuoteNotSubmittable, RecheckPause, FinalPauseGuard, NotPosted, PostOrder,
         Record, RecordRaises, RecordFailure, Goto, Busy
<1>4. ASSUME WebAlone PROVE Busy' <=> Busy
  BY <1>4 DEF WebAlone, Pause, Reopen, ReopenStart, Ensure, Start, Stop, Admit,
              workerVars, Busy
<1>. QED
  BY <1>1, <1>2, <1>3, <1>4

\* No step but a clear takes the candidate from the worker, and no entry is left
\* behind marked as being processed.
LEMMA HeldNext ==
    ASSUME TypeOK, QueueInv, HeldInv, OrphanInv, Next
    PROVE  HeldInv' /\ OrphanInv'
<1>. USE DEF HeldInv, OrphanInv
<1>1. ASSUME Frame(items, items', {}), held' = held, (cleared' <=> cleared), (Busy' <=> Busy)
      PROVE  HeldInv' /\ OrphanInv'
  <2>1. \A s \in Signature : /\ Processing(items', s) <=> Processing(items, s)
                             /\ Processing(items, s) => items'[s].attempts = items[s].attempts
    BY <1>1 DEF Frame
  <2>2. Busy => held.signature \in Signature
    BY DEF TypeOK
  <2>3. HeldInv'
    BY <1>1, <2>1, <2>2
  <2>4. OrphanInv'
    BY <1>1, <2>1
  <2>. QED
    BY <2>3, <2>4
<1>2. CASE WorkerAlone \/ WebAlone
  BY <1>1, <1>2, AloneQueue, AloneFacts, QuietFrame
<1>3. CASE WebQuiet
  <2>1. held' = held /\ (cleared' <=> cleared) /\ (Busy' <=> Busy)
    BY <1>3, WebQuietQueue DEF workerVars, historyVars, Busy
  <2>2. Frame(items, items', {})
    BY <1>3, WebQuietQueue, QuietFrame
  <2>. QED
    BY <1>1, <2>1, <2>2
<1>4. CASE ClaimEmpty
  <2>1. held' = held /\ (cleared' <=> cleared) /\ ~Busy /\ ~Busy'
    BY <1>4 DEF ClaimEmpty, historyVars, Goto, Busy
  <2>2. Frame(items, items', {})
    BY <1>4, QuietFrame DEF ClaimEmpty
  <2>3. \A s \in Signature : Processing(items', s) <=> Processing(items, s)
    BY <2>2 DEF Frame
  <2>. QED
    BY <2>1, <2>3
<1>5. CASE Settle
  <2>1. held.signature \in Signature /\ Busy /\ ~Busy'
    BY <1>5, SettleFacts
  <2>2. Frame(items, items', {held.signature}) /\ ~Processing(items', held.signature)
    BY <1>5, <2>1, SettleFacts, CompleteFrame, RequeueFrame
  <2>3. \A s \in Signature : ~Processing(items', s)
    BY <2>1, <2>2 DEF Frame
  <2>. QED
    BY <2>1, <2>3
<1>6. CASE ClearStale
  <2>1. DOMAIN items' = {} /\ cleared' = TRUE
    BY <1>6 DEF ClearStale, Clear
  <2>. QED
    BY <2>1 DEF Processing
<1>7. ASSUME NEW s \in Signature, ClaimCandidate(s)
      PROVE  HeldInv' /\ OrphanInv'
  <2>1. /\ Frame(items, items', {s}) /\ Processing(items', s)
    BY <1>7, ClaimFrame DEF ClaimCandidate
  <2>2. /\ held' = [signature |-> s, attempts |-> items'[s].attempts]
        /\ cleared' = FALSE /\ ~Busy /\ Busy'
    BY <1>7 DEF ClaimCandidate, Goto, Busy
  <2>3. \A t \in Signature \ {s} : ~Processing(items', t)
    BY <2>1, <2>2 DEF Frame
  <2>4. held'.signature = s /\ held'.attempts = items'[s].attempts
    BY <2>2
  <2>. QED
    BY <2>1, <2>2, <2>3, <2>4
<1>8. ASSUME NEW s \in Signature, NEW h \in Hint, ProducerEnqueue(s, h)
      PROVE  HeldInv' /\ OrphanInv'
  <2>1. held' = held /\ (cleared' <=> cleared) /\ (Busy' <=> Busy)
    BY <1>8 DEF ProducerEnqueue, workerVars, Busy
  <2>2. /\ Frame(items, items', {s})
        /\ Processing(items', s) <=> Processing(items, s)
        /\ Processing(items, s) => items'[s].attempts = items[s].attempts
    BY <1>8, EnqueueFrame DEF ProducerEnqueue
  <2>3. \A t \in Signature : /\ Processing(items', t) <=> Processing(items, t)
                             /\ Processing(items, t) => items'[t].attempts = items[t].attempts
    BY <2>2 DEF Frame
  <2>4. Busy => held.signature \in Signature
    BY DEF TypeOK
  <2>5. HeldInv'
    BY <2>1, <2>3, <2>4
  <2>6. OrphanInv'
    BY <2>1, <2>3
  <2>. QED
    BY <2>5, <2>6
<1>. QED
  BY <1>2, <1>3, <1>4, <1>5, <1>6, <1>7, <1>8, NextCases

-----------------------------------------------------------------------------
(* Types, apart from those of the queue. *)

WorkerTypeOK ==
    /\ pc \in WorkerPc
    /\ held \in [signature : Signature, attempts : 1..MaxAttempts] \cup {NoCandidate}
    /\ Busy => held.signature \in Signature
    /\ outcome \in FinalStatus \cup {"none"}
    /\ pc \in {"record", "complete"} => outcome \in FinalStatus
    /\ stop \in BOOLEAN

WebTypeOK ==
    /\ paused \in BOOLEAN
    /\ reopening \in {"none", "clear", "start"}
    /\ admitted \in BOOLEAN

HistoryTypeOK ==
    /\ cleared \in BOOLEAN
    /\ ordered \in [Signature -> {"none", "posted", "unrecorded"}]
    /\ leaks \in 0..MaxLeaks

LEMMA TypeParts == TypeOK <=> QueueTypeOK /\ WorkerTypeOK /\ WebTypeOK /\ HistoryTypeOK
BY DEF TypeOK, WorkerTypeOK, WebTypeOK, HistoryTypeOK

LEMMA StatusFacts ==
    /\ QuoteOutcome \subseteq FinalStatus
    /\ {"submission_paused", "ready_not_submitted", "adapter_unavailable",
        "submission_failed", "submitted_success"} \subseteq FinalStatus
BY QuoteOutcomeAssumption DEF FinalStatus, CoolingStatus, OpenStatus

LEMMA WorkerTypeNext ==
    ASSUME TypeOK, QueueInv, Next
    PROVE  WorkerTypeOK'
<1>0. WorkerTypeOK
  BY TypeParts
<1>1. CASE WorkerAlone
  <2>1. held' = held /\ (Busy' <=> Busy)
    BY <1>1, AloneFacts
  <2>2. pc' \in WorkerPc /\ stop' = stop
    BY <1>1 DEF WorkerAlone, Exit, CheckPause, BeginQuote, QuoteRaises, QuoteSubmittable,
         QuoteNotSubmittable, RecheckPause, FinalPauseGuard, NotPosted, PostOrder,
         Record, RecordRaises, RecordFailure, Goto, WorkerPc
  <2>3. \/ outcome' = outcome /\ (pc' \in {"record", "complete"} => pc = "record")
        \/ outcome' \in FinalStatus
    <3>1. CASE NotPosted
      BY <3>1, StatusFacts DEF NotPosted
    <3>2. CASE PostOrder
      BY <3>2, StatusFacts DEF PostOrder
    <3>3. CASE \E o \in QuoteOutcome : QuoteNotSubmittable(o)
      BY <3>3, StatusFacts DEF QuoteNotSubmittable
    <3>4. CASE RecheckPause \/ FinalPauseGuard
      BY <3>4, StatusFacts DEF RecheckPause, FinalPauseGuard
    <3>5. CASE \/ Exit \/ CheckPause \/ BeginQuote \/ QuoteRaises \/ QuoteSubmittable
               \/ Record \/ RecordRaises \/ RecordFailure
      BY <3>5 DEF Exit, CheckPause, BeginQuote, QuoteRaises, QuoteSubmittable,
           Record, RecordRaises, RecordFailure, Goto
    <3>. QED
      BY <1>1, <3>1, <3>2, <3>3, <3>4, <3>5 DEF WorkerAlone
  <2>. QED
    BY <1>0, <2>1, <2>2, <2>3 DEF WorkerTypeOK
<1>2. CASE WebAlone
  <2>1. held' = held /\ (Busy' <=> Busy)
    BY <1>2, AloneFacts
  <2>2. /\ pc' = pc \/ pc' = "loop"
        /\ outcome' = outcome
        /\ stop' = stop \/ stop' = FALSE \/ stop' = TRUE
    BY <1>2 DEF WebAlone, Pause, Reopen, ReopenStart, Ensure, Start, Stop, Admit, workerVars
  <2>. QED
    BY <1>0, <2>1, <2>2 DEF WorkerTypeOK, WorkerPc
<1>3. CASE WebQuiet
  BY <1>0, <1>3, WebQuietQueue DEF WorkerTypeOK, workerVars, Busy
<1>4. CASE Settle
  <2>1. /\ ~Busy' /\ pc' = "loop" /\ held' = NoCandidate
        /\ outcome' \in {outcome, "none"} /\ stop' = stop
    BY <1>4, SettleFacts
  <2>. QED
    BY <1>0, <2>1 DEF WorkerTypeOK, WorkerPc
<1>5. CASE ClaimEmpty
  BY <1>0, <1>5 DEF ClaimEmpty, WorkerTypeOK, WorkerPc, Goto, Busy
<1>6. CASE ClearStale
  BY <1>0, <1>6 DEF ClearStale, WorkerTypeOK, workerVars, Busy
<1>7. ASSUME NEW s \in Signature, ClaimCandidate(s)
      PROVE  WorkerTypeOK'
  <2>1. items'[s].attempts \in 1..MaxAttempts
    BY <1>7, ClaimFrame DEF ClaimCandidate
  <2>2. /\ held' = [signature |-> s, attempts |-> items'[s].attempts]
        /\ pc' = "claimed" /\ outcome' = outcome /\ stop' = stop
    BY <1>7 DEF ClaimCandidate, Goto
  <2>. QED
    BY <1>0, <2>1, <2>2 DEF WorkerTypeOK, WorkerPc
<1>8. ASSUME NEW s \in Signature, NEW h \in Hint, ProducerEnqueue(s, h)
      PROVE  WorkerTypeOK'
  BY <1>0, <1>8 DEF ProducerEnqueue, WorkerTypeOK, workerVars, Busy
<1>. QED
  BY <1>1, <1>2, <1>3, <1>4, <1>5, <1>6, <1>7, <1>8, NextCases

LEMMA WebTypeNext ==
    ASSUME TypeOK, Next
    PROVE  WebTypeOK'
<1>0. WebTypeOK
  BY TypeParts
<1>1. CASE WorkerAlone
  BY <1>0, <1>1 DEF WebTypeOK, webVars, WorkerAlone, Exit, CheckPause, BeginQuote,
     QuoteRaises, QuoteSubmittable, QuoteNotSubmittable, RecheckPause, FinalPauseGuard,
     NotPosted, PostOrder, Record, RecordRaises, RecordFailure
<1>2. CASE WebAlone
  BY <1>0, <1>2 DEF WebTypeOK, webVars, WebAlone, Pause, Reopen, ReopenStart, Ensure,
     Stop, Admit
<1>3. CASE WebQuiet
  BY <1>0, <1>3, WebQuietQueue DEF WebTypeOK
<1>4. CASE Settle
  BY <1>0, <1>4, SettleFacts DEF WebTypeOK, webVars
<1>5. CASE ClaimEmpty
  BY <1>0, <1>5 DEF ClaimEmpty, WebTypeOK, webVars
<1>6. CASE ClearStale
  BY <1>0, <1>6 DEF ClearStale, WebTypeOK
<1>7. CASE \E s \in Signature : ClaimCandidate(s)
  BY <1>0, <1>7 DEF ClaimCandidate, WebTypeOK, webVars
<1>8. CASE \E s \in Signature, h \in Hint : ProducerEnqueue(s, h)
  BY <1>0, <1>8 DEF ProducerEnqueue, WebTypeOK, webVars
<1>. QED
  BY <1>1, <1>2, <1>3, <1>4, <1>5, <1>6, <1>7, <1>8, NextCases

LEMMA HistoryTypeNext ==
    ASSUME TypeOK, Next
    PROVE  HistoryTypeOK'
<1>0. HistoryTypeOK
  BY TypeParts
<1>1. CASE WorkerAlone
  <2>1. cleared' = cleared
    BY <1>1 DEF historyVars, WorkerAlone, Exit, CheckPause, BeginQuote,
       QuoteRaises, QuoteSubmittable, QuoteNotSubmittable, RecheckPause, FinalPauseGuard,
       NotPosted, PostOrder, Record, RecordRaises, RecordFailure
  <2>2. \/ UNCHANGED <<ordered, leaks>>
        \/ PostOrder
        \/ RecordRaises
    BY <1>1 DEF historyVars, WorkerAlone, Exit, CheckPause, BeginQuote,
       QuoteRaises, QuoteSubmittable, QuoteNotSubmittable, RecheckPause, FinalPauseGuard,
       NotPosted, Record, RecordFailure
  <2>3. ordered' \in [Signature -> {"none", "posted", "unrecorded"}]
    BY <1>0, <2>2 DEF HistoryTypeOK, PostOrder, RecordRaises
  <2>4. leaks' \in 0..MaxLeaks
    BY <1>0, <2>2 DEF HistoryTypeOK, PostOrder, RecordRaises, MaxLeaks
  <2>. QED
    BY <1>0, <2>1, <2>3, <2>4 DEF HistoryTypeOK
<1>2. CASE WebAlone
  BY <1>0, <1>2 DEF HistoryTypeOK, historyVars, WebAlone, Pause, Reopen, ReopenStart,
     Ensure, Stop, Admit, MaxLeaks
<1>3. CASE WebQuiet
  BY <1>0, <1>3, WebQuietQueue DEF HistoryTypeOK, historyVars
<1>4. CASE Settle
  BY <1>0, <1>4, SettleFacts DEF HistoryTypeOK, historyVars
<1>5. CASE ClaimEmpty
  BY <1>0, <1>5 DEF ClaimEmpty, HistoryTypeOK, historyVars
<1>6. CASE ClearStale
  BY <1>0, <1>6 DEF ClearStale, HistoryTypeOK
<1>7. CASE \E s \in Signature : ClaimCandidate(s)
  BY <1>0, <1>7 DEF ClaimCandidate, HistoryTypeOK
<1>8. CASE \E s \in Signature, h \in Hint : ProducerEnqueue(s, h)
  BY <1>0, <1>8 DEF ProducerEnqueue, HistoryTypeOK
<1>. QED
  BY <1>1, <1>2, <1>3, <1>4, <1>5, <1>6, <1>7, <1>8, NextCases

-----------------------------------------------------------------------------
(* Orders posted while submission is paused. *)

LEMMA LeakNext ==
    ASSUME TypeOK, LeakInv, Next
    PROVE  LeakInv'
<1>. USE DEF LeakInv
<1>1. CASE WorkerAlone
  <2>1. CASE PostOrder
    <3>1. leaks = 0 /\ paused' = paused /\ pc' = "record"
      BY <2>1 DEF PostOrder, Goto, webVars
    <3>2. leaks' = IF paused THEN 1 ELSE 0
      BY <2>1, <3>1 DEF PostOrder, MaxLeaks
    <3>. QED
      BY <3>1, <3>2
  <2>2. CASE FinalPauseGuard
    BY <2>2 DEF FinalPauseGuard, GuardReadsPaused, webVars, historyVars
  <2>3. CASE ~PostOrder /\ ~FinalPauseGuard
    <3>1. leaks' = leaks /\ paused' = paused /\ pc' # "post"
      BY <1>1, <2>3 DEF webVars, historyVars, WorkerAlone, Exit, CheckPause, BeginQuote,
         QuoteRaises, QuoteSubmittable, QuoteNotSubmittable, RecheckPause,
         NotPosted, Record, RecordRaises, RecordFailure, Goto
    <3>. QED
      BY <3>1
  <2>. QED
    BY <2>1, <2>2, <2>3
<1>2. CASE WebAlone
  <2>1. CASE Pause \/ Reopen
    BY <2>1 DEF Pause, Reopen
  <2>2. CASE ReopenStart \/ Ensure \/ Stop \/ Admit
    <3>1. leaks' = leaks /\ paused' = paused /\ pc' \in {pc, "loop"}
      BY <2>2 DEF ReopenStart, Ensure, Stop, Admit, Start, historyVars, webVars, workerVars
    <3>. QED
      BY <3>1
  <2>. QED
    BY <1>2, <2>1, <2>2 DEF WebAlone
<1>3. CASE WebQuiet
  BY <1>3, WebQuietQueue DEF workerVars, historyVars
<1>4. CASE Settle
  BY <1>4, SettleFacts DEF webVars, historyVars
<1>5. CASE ClaimEmpty
  BY <1>5 DEF ClaimEmpty, Goto, webVars, historyVars
<1>6. CASE ClearStale
  BY <1>6 DEF ClearStale, workerVars
<1>7. CASE \E s \in Signature : ClaimCandidate(s)
  BY <1>7 DEF ClaimCandidate, Goto, webVars
<1>8. CASE \E s \in Signature, h \in Hint : ProducerEnqueue(s, h)
  BY <1>8 DEF ProducerEnqueue, workerVars, webVars
<1>. QED
  BY <1>1, <1>2, <1>3, <1>4, <1>5, <1>6, <1>7, <1>8, NextCases

-----------------------------------------------------------------------------
(* Where the worker is while an order is out. *)

\* Only the post of its own candidate makes an order count as posted.
LEMMA OrderedAlone ==
    ASSUME TypeOK, WorkerAlone, ~PostOrder,
           NEW s \in Signature, ordered'[s] = "posted"
    PROVE  ordered[s] = "posted" /\ (held.signature = s /\ pc = "record" => pc' = "complete")
<1>1. ordered \in [Signature -> {"none", "posted", "unrecorded"}]
  BY DEF TypeOK
<1>2. CASE RecordRaises
  BY <1>1, <1>2 DEF RecordRaises
<1>3. CASE ~RecordRaises
  <2>1. ordered' = ordered
    BY <1>3 DEF historyVars, WorkerAlone, Exit, CheckPause, BeginQuote,
       QuoteRaises, QuoteSubmittable, QuoteNotSubmittable, RecheckPause, FinalPauseGuard,
       NotPosted, Record, RecordFailure
  <2>2. pc = "record" => pc' = "complete"
    BY <1>3 DEF WorkerAlone, Exit, CheckPause, BeginQuote,
       QuoteRaises, QuoteSubmittable, QuoteNotSubmittable, RecheckPause, FinalPauseGuard,
       NotPosted, Record, RecordFailure, Goto
  <2>. QED
    BY <2>1, <2>2
<1>. QED
  BY <1>2, <1>3

LEMMA OrderNext ==
    ASSUME TypeOK, QueueInv, HeldInv, OrphanInv, OrderInv, Next
    PROVE  OrderInv'
<1>. DEFINE Safe(s) == /\ Waiting(items, s) => Busy /\ held.signature = s
                       /\ Busy /\ held.signature = s => pc \in {"record", "complete"}
<1>. SUFFICES ASSUME NEW s \in Signature, ordered'[s] = "posted"
              PROVE  Safe(s)'
  BY DEF OrderInv
<1>0. /\ ordered \in [Signature -> {"none", "posted", "unrecorded"}]
      /\ Busy => held.signature \in Signature
      /\ ordered[s] = "posted" => Safe(s)
  BY DEF TypeOK, OrderInv
<1>1. CASE WorkerAlone /\ ~PostOrder
  <2>1. /\ items' = items /\ held' = held /\ (Busy' <=> Busy)
    BY <1>1, AloneQueue, AloneFacts DEF queueVars
  <2>2. Safe(s) /\ (held.signature = s /\ pc = "record" => pc' = "complete")
    BY <1>0, <1>1, OrderedAlone
  <2>3. pc # "complete"
    BY <1>1 DEF WorkerAlone, Exit, CheckPause, BeginQuote, QuoteRaises, QuoteSubmittable,
       QuoteNotSubmittable, RecheckPause, FinalPauseGuard, NotPosted, Record,
       RecordRaises, RecordFailure, Goto
  <2>. QED
    BY <2>1, <2>2, <2>3
<1>2. CASE PostOrder
  <2>1. /\ items' = items /\ held' = held /\ Busy /\ Busy'
        /\ pc = "post" /\ pc' = "record"
        /\ ordered' = [ordered EXCEPT ![held.signature] = "posted"]
    BY <1>2 DEF PostOrder, Goto, Busy, queueVars
  <2>2. CASE held.signature = s
    BY <2>1, <2>2
  <2>3. CASE held.signature # s
    BY <1>0, <2>1, <2>3
  <2>. QED
    BY <2>2, <2>3
<1>3. CASE WebAlone
  <2>1. /\ items' = items /\ held' = held /\ (Busy' <=> Busy)
    BY <1>3, AloneQueue, AloneFacts DEF queueVars
  <2>2. ordered' = ordered
    BY <1>3 DEF WebAlone, Pause, Reopen, ReopenStart, Ensure, Stop, Admit, historyVars
  <2>3. Busy => pc' = pc
    BY <1>3 DEF WebAlone, Pause, Reopen, ReopenStart, Ensure, Start, Stop, Admit, workerVars, Busy
  <2>. QED
    BY <1>0, <2>1, <2>2, <2>3
<1>4. CASE WebQuiet
  <2>1. held' = held /\ pc' = pc /\ ordered' = ordered /\ (Busy' <=> Busy)
    BY <1>4, WebQuietQueue DEF workerVars, historyVars, Busy
  <2>2. Waiting(items', s) => Waiting(items, s)
    BY <1>4, WebQuietQueue, QuietFrame DEF Frame
  <2>. QED
    BY <1>0, <2>1, <2>2
<1>5. CASE Settle
  <2>1. ordered' = ordered /\ Busy /\ ~Busy' /\ held.signature \in Signature
    BY <1>5, SettleFacts DEF historyVars
  <2>2. CASE held.signature = s
    <3>1. pc # "retry"
      BY <1>0, <2>1, <2>2
    <3>2. ~Waiting(items', s)
      BY <1>5, <2>1, <2>2, <3>1, SettleFacts, CompleteFrame
    <3>. QED
      BY <2>1, <3>2
  <2>3. CASE held.signature # s
    <3>1. ~Waiting(items, s)
      BY <1>0, <2>1, <2>3
    <3>2. Frame(items, items', {held.signature})
      BY <1>5, <2>1, SettleFacts, CompleteFrame, RequeueFrame
    <3>3. ~Waiting(items', s)
      BY <2>3, <3>1, <3>2 DEF Frame
    <3>. QED
      BY <2>1, <3>3
  <2>. QED
    BY <2>2, <2>3
<1>6. CASE ClaimEmpty
  <2>1. ordered' = ordered /\ ~Busy /\ ~Busy'
    BY <1>6 DEF ClaimEmpty, historyVars, Goto, Busy
  <2>2. Waiting(items', s) => Waiting(items, s)
    BY <1>6, QuietFrame DEF ClaimEmpty, Frame
  <2>. QED
    BY <1>0, <2>1, <2>2
<1>7. CASE ClearStale
  BY <1>7 DEF ClearStale
<1>8. ASSUME NEW t \in Signature, ClaimCandidate(t)
      PROVE  Safe(s)'
  <2>1. /\ ordered' = ordered /\ ~Busy
        /\ held' = [signature |-> t, attempts |-> items'[t].attempts]
    BY <1>8 DEF ClaimCandidate, Goto, Busy
  <2>2. Frame(items, items', {t}) /\ Waiting(items, t)
    BY <1>8, ClaimFrame DEF ClaimCandidate
  <2>3. t # s /\ ~Waiting(items, s)
    BY <1>0, <2>1, <2>2
  <2>4. ~Waiting(items', s) /\ held'.signature # s
    BY <2>1, <2>2, <2>3 DEF Frame
  <2>. QED
    BY <2>4
<1>9. ASSUME NEW t \in Signature, NEW h \in Hint, ProducerEnqueue(t, h)
      PROVE  Safe(s)'
  <2>1. /\ held' = held /\ pc' = pc /\ (Busy' <=> Busy)
        /\ ordered' = [ordered EXCEPT ![t] = "none"]
    BY <1>9 DEF ProducerEnqueue, workerVars, Busy
  <2>2. t # s /\ ordered[s] = "posted"
    BY <1>0, <2>1
  <2>3. Waiting(items', s) => Waiting(items, s)
    BY <1>9, <2>2, EnqueueFrame DEF ProducerEnqueue, Frame
  <2>. QED
    BY <1>0, <2>1, <2>2, <2>3
<1>. QED
  BY <1>1, <1>2, <1>3, <1>4, <1>5, <1>6, <1>7, <1>8, <1>9, NextCases

-----------------------------------------------------------------------------
(* The theorems. *)

LEMMA InitInv ==
    ASSUME Init
    PROVE  IInv
<1>1. QueueInv /\ DOMAIN items = {}
  BY QueueInitInv DEF Init, QueueInit
<1>2. pc = "down" /\ ~Busy
  BY DEF Init, Busy
<1>3. WorkerTypeOK
  <2>1. stop \in BOOLEAN
    BY DEF Init
  <2>. QED
    BY <1>2, <2>1 DEF Init, WorkerTypeOK, WorkerPc
<1>4. WebTypeOK /\ HistoryTypeOK
  <2>1. paused \in BOOLEAN /\ admitted \in BOOLEAN /\ cleared \in BOOLEAN
    BY DEF Init
  <2>. QED
    BY <2>1 DEF Init, WebTypeOK, HistoryTypeOK, MaxLeaks
<1>5. TypeOK
  BY <1>1, <1>3, <1>4, TypeParts DEF QueueInv
<1>6. HeldInv /\ OrphanInv
  BY <1>1, <1>2 DEF HeldInv, OrphanInv, Processing
<1>7. LeakInv
  BY DEF Init, LeakInv
<1>8. OrderInv
  BY DEF Init, OrderInv
<1>. QED
  BY <1>1, <1>5, <1>6, <1>7, <1>8 DEF IInv

LEMMA NextInv ==
    ASSUME IInv, [Next]_vars
    PROVE  IInv'
<1>1. CASE Next
  <2>1. QueueInv'
    BY <1>1, QueueInvNext DEF IInv
  <2>2. TypeOK'
    <3>1. QueueTypeOK' /\ WorkerTypeOK' /\ WebTypeOK' /\ HistoryTypeOK'
      BY <1>1, <2>1, WorkerTypeNext, WebTypeNext, HistoryTypeNext DEF IInv, QueueInv
    <3>. QED
      BY <3>1 DEF TypeOK, WorkerTypeOK, WebTypeOK, HistoryTypeOK
  <2>3. HeldInv' /\ OrphanInv'
    BY <1>1, HeldNext DEF IInv
  <2>4. LeakInv'
    BY <1>1, LeakNext DEF IInv
  <2>5. OrderInv'
    BY <1>1, OrderNext DEF IInv
  <2>. QED
    BY <2>1, <2>2, <2>3, <2>4, <2>5 DEF IInv
<1>2. CASE UNCHANGED vars
  <2>. USE <1>2 DEF vars, queueVars, workerVars, webVars, historyVars, IInv, Busy
  <2>1. QueueInv'
    BY QueueStepInvariance
  <2>2. TypeOK'
    BY <2>1 DEF TypeOK, QueueInv
  <2>3. HeldInv' /\ OrphanInv'
    BY DEF HeldInv, OrphanInv, Processing
  <2>4. LeakInv' /\ OrderInv'
    BY DEF LeakInv, OrderInv, Waiting
  <2>. QED
    BY <2>1, <2>2, <2>3, <2>4
<1>. QED
  BY <1>1, <1>2

\* The inductive invariant holds in every reachable state of the daemon.
THEOREM Invariance == Spec => []IInv
<1>1. Init => IInv
  BY InitInv
<1>2. IInv /\ [Next]_vars => IInv'
  BY NextInv
<1>. QED
  BY <1>1, <1>2, PTL DEF Spec

\* The daemon's state keeps its types, for any candidates and limits.
THEOREM TypeCorrect == Spec => []TypeOK
<1>1. IInv => TypeOK
  BY DEF IInv
<1>. QED
  BY <1>1, Invariance, PTL

\* The daemon with its web threads is one of the callers CowCandidateQueue is
\* specified for: hidden behind the daemon, the queue behaves as its specification
\* says, and what is proved of the queue is true of the daemon's.
THEOREM DaemonImplementsQueue == Spec => QueueStepSpec
<1>1. Init => QueueInit
  BY DEF Init
<1>2. TypeOK /\ [Next]_vars => [QueueStep]_queueVars
  BY DaemonCallsQueue
<1>. QED
  BY <1>1, <1>2, TypeCorrect, PTL DEF Spec, QueueStepSpec

\* The queue inside the daemon keeps max_size, distinct numbers and timed retries,
\* and claim_next always has exactly one candidate to take when one is pending.
THEOREM DaemonQueueSound == Spec => [](SizeBound /\ SequenceSound /\ RetryHasTime /\ OneToClaim)
BY DaemonImplementsQueue, QueueSizeBound, QueueSequenceSound, QueueRetryHasTime,
   QueueOneToClaim, PTL

\* The candidate the worker is busy with stays in the queue as it was claimed,
\* unless the whole queue is cleared (process_once against the web threads).
THEOREM HeldStaysProcessing == Spec => []HeldIsProcessing
<1>1. IInv => HeldIsProcessing
  BY DEF IInv, HeldInv, HeldIsProcessing, Processing, Queued
<1>. QED
  BY <1>1, Invariance, PTL

\* No entry is left marked as being processed by a worker that is done with it.
THEOREM NoOrphanLeft == Spec => []NoOrphan
<1>1. IInv => NoOrphan
  <2>1. IInv => DOMAIN items \subseteq Signature
    BY DEF IInv, TypeOK, QueueTypeOK
  <2>. QED
    BY <2>1 DEF IInv, OrphanInv, NoOrphan, Holding, Processing
<1>. QED
  BY <1>1, Invariance, PTL

\* A pause lets at most the one order through that had passed the last guard.
THEOREM AtMostOneLeak == Spec => []LeakBound
<1>1. IInv => LeakBound
  BY DEF IInv, LeakInv, LeakBound
<1>. QED
  BY <1>1, Invariance, PTL

\* No candidate is claimed again after its order was posted and recorded, until
\* a producer enqueues it again.
THEOREM OrderedNotReclaimed == Spec => NoRepeatClaim
<1>1. ASSUME IInv, [Next]_vars
      PROVE  [\A s \in Signature : ClaimCandidate(s) => ordered[s] # "posted"]_vars
  <2>. SUFFICES ASSUME NEW s \in Signature, ClaimCandidate(s)
                PROVE  ordered[s] # "posted"
    OBVIOUS
  <2>1. Waiting(items, s)
    BY <1>1, ClaimFrame DEF ClaimCandidate, IInv
  <2>2. ~Busy
    BY DEF ClaimCandidate, Goto, Busy
  <2>. QED
    BY <1>1, <2>1, <2>2 DEF IInv, OrderInv
<1>. QED
  BY <1>1, Invariance, PTL DEF Spec, NoRepeatClaim

-----------------------------------------------------------------------------
(* The daemon implements CowOrderPermit. *)

Hand == IF Busy THEN {held.signature} ELSE {}

\* A step that changes neither the worker's place nor what is held, ordered or
\* paused is invisible to the promise.
LEMMA PermitStutter ==
    ASSUME held' = held, Busy' <=> Busy, paused' = paused, ordered' = ordered,
           pc # "post", pc' # "post"
    PROVE  UNCHANGED Permit!vars
BY DEF Permit!vars

LEMMA PermitWorker ==
    ASSUME IInv, WorkerAlone
    PROVE  [Permit!Next]_Permit!vars
<1>1. held' = held /\ (Busy' <=> Busy) /\ paused' = paused
  <2>1. paused' = paused
    BY DEF WorkerAlone, webVars, Exit, CheckPause, BeginQuote, QuoteRaises, QuoteSubmittable,
       QuoteNotSubmittable, RecheckPause, FinalPauseGuard, NotPosted, PostOrder, Record,
       RecordRaises, RecordFailure
  <2>. QED
    BY <2>1, AloneFacts
<1>2. ordered \in [Signature -> {"none", "posted", "unrecorded"}]
  BY DEF IInv, TypeOK
<1>3. CASE FinalPauseGuard
  <2>1. pc = "guard" /\ Busy /\ ordered' = ordered
    BY <1>3 DEF FinalPauseGuard, Busy, historyVars
  <2>2. CASE paused
    BY <1>1, <1>3, <2>1, <2>2, PermitStutter DEF FinalPauseGuard, GuardReadsPaused
  <2>3. CASE ~paused
    <3>1. pc' = "post"
      BY <1>3, <2>3 DEF FinalPauseGuard, GuardReadsPaused
    <3>2. Permit!Grant
      BY <1>1, <2>1, <2>3, <3>1 DEF Permit!Grant
    <3>. QED
      BY <3>2 DEF Permit!Next
  <2>. QED
    BY <2>2, <2>3
<1>4. CASE NotPosted
  <2>1. pc = "post" /\ pc' = "record" /\ ordered' = ordered
    BY <1>4 DEF NotPosted, Goto, historyVars
  <2>2. Permit!Forgo
    BY <1>1, <2>1 DEF Permit!Forgo
  <2>. QED
    BY <2>2 DEF Permit!Next
<1>5. CASE PostOrder
  <2>1. /\ pc = "post" /\ pc' = "record" /\ Busy
        /\ ordered' = [ordered EXCEPT ![held.signature] = "posted"]
    BY <1>5 DEF PostOrder, Goto, Busy
  <2>2. ordered' = [c \in Signature |-> IF c \in Hand THEN "posted" ELSE ordered[c]]
    BY <1>2, <2>1 DEF Hand
  <2>3. Permit!Order
    BY <1>1, <2>1, <2>2 DEF Permit!Order, Hand
  <2>. QED
    BY <2>3 DEF Permit!Next
<1>6. CASE RecordRaises
  <2>1. /\ pc = "record" /\ pc' = "except" /\ Busy
        /\ ordered' = [ordered EXCEPT ![held.signature] =
                                    IF @ = "posted" THEN "unrecorded" ELSE @]
    BY <1>6 DEF RecordRaises, Goto, Busy
  <2>2. held.signature \in Signature
    BY <2>1 DEF IInv, TypeOK
  <2>3. CASE ordered[held.signature] = "posted"
    <3>1. ordered' = [c \in Signature |-> IF c \in Hand THEN "unrecorded" ELSE ordered[c]]
      BY <1>2, <2>1, <2>2, <2>3 DEF Hand
    <3>2. Permit!LoseRecord
      BY <1>1, <2>1, <2>2, <2>3, <3>1 DEF Permit!LoseRecord, Hand
    <3>. QED
      BY <3>2 DEF Permit!Next
  <2>4. CASE ordered[held.signature] # "posted"
    <3>1. ordered' = ordered
      BY <1>2, <2>1, <2>2, <2>4
    <3>. QED
      BY <1>1, <2>1, <3>1, PermitStutter
  <2>. QED
    BY <2>3, <2>4
<1>7. CASE ~(FinalPauseGuard \/ NotPosted \/ PostOrder \/ RecordRaises)
  <2>1. ordered' = ordered /\ pc # "post" /\ pc' # "post"
    BY <1>7 DEF WorkerAlone, historyVars, Goto, Exit, CheckPause, BeginQuote, QuoteRaises,
       QuoteSubmittable, QuoteNotSubmittable, RecheckPause, Record, RecordFailure
  <2>. QED
    BY <1>1, <2>1, PermitStutter
<1>. QED
  BY <1>3, <1>4, <1>5, <1>6, <1>7

LEMMA PermitWeb ==
    ASSUME IInv, WebAlone \/ WebQuiet
    PROVE  [Permit!Next]_Permit!vars
<1>1. held' = held /\ (Busy' <=> Busy) /\ ordered' = ordered /\ ((pc' = "post") <=> (pc = "post"))
  <2>1. CASE WebAlone
    BY <2>1, AloneFacts DEF WebAlone, Pause, Reopen, ReopenStart, Ensure, Start, Stop, Admit,
       workerVars, historyVars
  <2>2. CASE WebQuiet
    BY <2>2, WebQuietQueue DEF workerVars, historyVars, Busy
  <2>. QED
    BY <2>1, <2>2
<1>2. paused \in BOOLEAN /\ paused' \in BOOLEAN
  <2>1. paused \in BOOLEAN
    BY DEF IInv, TypeOK
  <2>2. CASE WebAlone
    BY <2>1, <2>2 DEF WebAlone, Pause, Reopen, ReopenStart, Ensure, Stop, Admit, webVars
  <2>3. CASE WebQuiet
    BY <2>1, <2>3, WebQuietQueue
  <2>. QED
    BY <2>1, <2>2, <2>3
<1>3. CASE paused' = paused
  BY <1>1, <1>3 DEF Permit!vars
<1>4. CASE paused' = ~paused
  <2>1. Permit!Switch
    BY <1>1, <1>4 DEF Permit!Switch
  <2>. QED
    BY <2>1 DEF Permit!Next
<1>. QED
  BY <1>2, <1>3, <1>4

\* Every step of the daemon is a step the promise allows, or is invisible to it.
LEMMA PermitStep ==
    ASSUME IInv, [Next]_vars
    PROVE  [Permit!Next]_Permit!vars
<1>0. ordered \in [Signature -> {"none", "posted", "unrecorded"}]
  BY DEF IInv, TypeOK
<1>1. CASE WorkerAlone
  BY <1>1, PermitWorker
<1>2. CASE WebAlone \/ WebQuiet
  BY <1>2, PermitWeb
<1>3. CASE Settle
  <2>1. Busy /\ ~Busy' /\ paused' = paused /\ ordered' = ordered /\ pc' # "post"
    BY <1>3, SettleFacts DEF IInv, webVars, historyVars
  <2>2. pc # "post"
    BY <1>3 DEF Settle, DeadlineExceeded, CompleteCandidate, RequeueCandidate, GiveUp, Goto
  <2>3. Permit!Release
    BY <2>1, <2>2 DEF Permit!Release
  <2>. QED
    BY <2>3 DEF Permit!Next
<1>4. CASE ClaimEmpty
  BY <1>4, PermitStutter DEF ClaimEmpty, Goto, Busy, webVars, historyVars
<1>5. CASE ClearStale
  <2>1. /\ pc' = pc /\ held' = held /\ (Busy' <=> Busy) /\ paused' = paused
        /\ ordered' = [s \in Signature |-> "none"]
    BY <1>5 DEF ClearStale, workerVars, Busy
  <2>2. Permit!Renew(Signature)
    BY <2>1 DEF Permit!Renew
  <2>. QED
    BY <2>2 DEF Permit!Next
<1>6. ASSUME NEW s \in Signature, ClaimCandidate(s)
      PROVE  [Permit!Next]_Permit!vars
  <2>1. /\ pc = "claim" /\ pc' = "claimed" /\ ~Busy /\ Busy' /\ held'.signature = s
        /\ paused' = paused /\ ordered' = ordered
    BY <1>6 DEF ClaimCandidate, Goto, Busy, webVars
  <2>2. ordered[s] # "posted"
    <3>1. Waiting(items, s)
      BY <1>6, ClaimFrame DEF ClaimCandidate, IInv
    <3>. QED
      BY <2>1, <3>1 DEF IInv, OrderInv
  <2>3. Permit!Take(s)
    BY <2>1, <2>2 DEF Permit!Take
  <2>. QED
    BY <2>3 DEF Permit!Next
<1>7. ASSUME NEW s \in Signature, NEW h \in Hint, ProducerEnqueue(s, h)
      PROVE  [Permit!Next]_Permit!vars
  <2>1. /\ pc' = pc /\ held' = held /\ (Busy' <=> Busy) /\ paused' = paused
        /\ ordered' = [ordered EXCEPT ![s] = "none"]
    BY <1>7 DEF ProducerEnqueue, workerVars, webVars, Busy
  <2>2. ordered' = [c \in Signature |-> IF c \in {s} THEN "none" ELSE ordered[c]]
    BY <1>0, <2>1
  <2>3. Permit!Renew({s})
    BY <2>1, <2>2 DEF Permit!Renew
  <2>. QED
    BY <2>3 DEF Permit!Next
<1>8. CASE UNCHANGED vars
  BY <1>8 DEF vars, workerVars, webVars, historyVars, Busy, Permit!vars
<1>. QED
  BY <1>1, <1>2, <1>3, <1>4, <1>5, <1>6, <1>7, <1>8, NextCases

\* The daemon implements the promise: an order only for the candidate in hand,
\* one per reading of the open guard, none for a candidate already ordered.
THEOREM OrdersImplementPermit == Spec => OrdersPermitted
<1>1. Init => Permit!Init
  BY DEF Init, Permit!Init, Busy
<1>2. IInv /\ [Next]_vars => [Permit!Next]_Permit!vars
  BY PermitStep
<1>. QED
  BY <1>1, <1>2, Invariance, PTL DEF Spec, OrdersPermitted, Permit!Spec
=============================================================================
