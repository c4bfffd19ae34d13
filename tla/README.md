# Verification of flashloan

TLA+ models, TLC checks and TLAPS proofs of the parts of the `flashloan`
repository whose correctness depends on the order in which threads, requests,
failures and the clock act. All paths below are relative to `src/flashloan/`
unless they start with `src/contract`.

## The system

The repository runs one Python process (`app_runtime/web`, a Flask control
panel) with worker threads, plus Node scripts that post CoW orders, Solidity
executors and data files. It does two things: it finds triangular arbitrage
candidates and posts CoW flash-loan orders for them, and it liquidates
under-collateralised lending accounts with flash loans.

| component | state | operations | interacts with |
|---|---|---|---|
| CoW candidate queue, `src/dex/runtime/cow_candidate_queue.py` | entries by signature, a sequence counter, a lock | enqueue, claim, complete, requeue, clear, retain networks, remove statuses; expiry and trimming inside them | the daemon, market pages, the switch routes |
| CoW quote daemon, `src/dex/runtime/cow_arbitrage_daemon.py` | a thread, a stop event, the claimed candidate | claim, quote, submit, record, settle or requeue; start, stop | queue, pause guard, order submission, attempt log |
| Order submission, `src/dex/cow_flashloan/order_submission.py` | none | last guard, readiness checks, the Node script with a timeout | the daemon, the CoW order book |
| Switch routes, `app_runtime/web/data_routes/binance_market_admin.py` | none | pause; reopen = set guard, clear queue, ensure worker | guard, queue, daemon |
| CoW pause switch store, `src/dex/runtime/cow_submission_pause.py` | rows of a database, a JSON file | load with fallback and write-back, save, startup default | every reader of the guard |
| Candidate attempt log, `src/dex/runtime/cow_attempt_log.py` | JSON lines | append unless paused | daemon, market pages |
| Nonce manager, `src/bot/execution/nonce_manager.py` | next nonce, released nonces, a lock | initialize, acquire, release | submission threads |
| Liquidation submission, `src/bot/liquidation/execution_orchestrator.py`, `execution_broadcast.py`, `src/bot/execution/private_tx.py`, `app_runtime/web/control_panel_liquidation_execute.py` | the registry of nonce managers | look up, acquire, build, sign and broadcast, wait for the receipt | nonce manager, relays, node |
| Liquidation circuit breaker, `src/bot/liquidation/pause_guard.py` | failure count, level, paused flag in a database or file | record an event, clear, read | submission threads, pages |
| Closed-loop review queue, `src/dex/runtime/dex_closed_loop_review_queue.py` | tasks by group, a heap | submit, pop, mark done or failed; several workers | scanner, review route |
| CoW realtime quote, `src/dex/runtime/cow_realtime_quote.py` | in-flight count, last start of each route | trigger, quote thread | market monitor, attempt log |
| Liquidation engine, `src/bot/runtime/liquidation_engine.py`, and the routes that liquidate or test one account | the accounts of a tick | tick, build, static call, submit, record | circuit breaker, liquidation submission |
| DEX opportunity scanner, `src/dex/runtime/dex_opportunity_scanner_engine.py` | chains to scan, a snapshot of each chain, a scan lock | scan now, scan later, watch, merge a review, reset | review queue, route quoting through the process's environment |
| account backfill, market observer, page state | state files, thread handles | resume, poll, project | each other through files and the local store |
| Route quoting, key-value store, web presentation, chain data, contracts | data | arithmetic, I/O, rendering, single transactions | everything |

What makes it hard:

* the guard that stops automatic orders is read in three places and the order
  is posted after the last of them;
* the queue is changed by web requests while the worker holds a copy of one of
  its entries, and the worker settles by signature, not by object;
* a step can fail after the step before it had an effect outside (an order
  posted, a transaction sent);
* nonces are taken before work that can fail, by threads that share a manager
  or were meant to;
* the process forgets its memory at a restart, the chain does not;
* the two switches that stop automatic execution (the CoW submission switch and
  the circuit breaker) are several rows of a key-value store, loaded, changed and
  saved by many threads, one row at a time and without a lock; readers of the
  first also write;
* a review task is one object for all who ask for its group, submitted again while
  it runs, with entries of it left in the heap;
* snapshots of routes are read, worked on for seconds, and replaced, while reviews
  merge into them and a user resets them;
* live quoting is switched off for a while through one environment variable.

What would make each modelled component correct is stated by the properties
below; PROJECT.json lists every hazard with its line and the properties that
watch it, and says why where none does yet.

## The modules

### `CowCandidateQueue`

`items` is `_items`, `sequence` is `_sequence`, `enqueuing` says that
`enqueue_many` holds `_lock`. Every other method runs under the lock from
beginning to end and is one action; `enqueue_many` is `EnqueueBegin` (lock and
prune), any number of `EnqueueExisting` / `EnqueueNew`, and `EnqueueEnd`.
Pruning is part of the enqueue and of the claim, trimming part of every
addition, the promotion of due retries part of the claim.

Time is counted in ticks. An entry has an age since `updated_at` instead of the
stamp, which the properties cannot tell apart from it, and ages above the larger
of the time to live and the cooldown compare alike. `_trim_locked` compares
stamps: two of the same tick leave the choice open, so `Trimmed` is a set. Of a
candidate's payload only its profit hint counts.

### `CowQuoteDaemon` (extends the queue)

`pc` is the worker's place in `run_forever` / `process_once` /
`default_quote_candidate` / `submit_cow_flashloan_order`, `held` the copy that
`claim_next` returned, `outcome` the status it will settle with, `stop` the stop
event, `paused` the guard, `reopening` the place of a request that reopens
submission, `admitted` a producer between its guard check and `enqueue_many`.
Steps are cut where another thread can change what is read next. `cleared`,
`ordered` and `leaks` are history variables.

What the quote, the Node script and the log answer is free: the quote may
raise, refuse or approve; the order may be posted and reported as failed (the
script's timeout); the record may fail. The guard is one boolean here; its
storage is a component of its own.

### `CowSwitchOpening` (extends the daemon)

The daemon's behaviour with three more history variables that follow the
candidates queued before the switch was opened.

### `CowOrderPermit`

What the daemon promises about orders, without its queue, its steps or its
clock: an order goes out only for the candidate in hand, on a permit granted
while the switch was open; a permit serves one order; a candidate with an order
out is not taken again unless it is renewed or the record of the order was lost.
`CowQuoteDaemon` states `OrdersPermitted == Permit!Spec` with the refinement
mapping

| `CowOrderPermit` | `CowQuoteDaemon` |
|---|---|
| `hand` | the held candidate while the worker is past its claim |
| `open` | the guard |
| `permit` | the worker is between the last guard and the Node script (`pc = "post"`) |
| `order` | the history variable `ordered` |

The switch may close while a permit is out; the promise does not hide it, and
`LeakBound` counts the one order that can follow.

### `CowSubmissionPauseStore`

The store behind the guard that `CowQuoteDaemon` has as a boolean. `rows` are
the rows of the switch, `file` its JSON file, `job[t]` a thread's place in a
reading, a change or the start of the process. A scan of the rows is one
statement (`Scan`), a save one transaction per row (`WriteRow`), the file one
write. `Scan` mends rows that disagree and brings the file up to date, `Empty`
moves a file into an empty table, `FallBack` is the reading that the database
refused. `Settled` is what the start looks at before it opens the switch: that
somebody set it or that it was stored, and that its reason is not
`startup_transaction_switch_off`. Of a reason only this is kept (`startup`); the
route takes the reason of a pause from the client, so any pause may be stored with
it (`Aims`). `Crash` ends the process between any two steps. `blind` marks the
threads whose value is older than the rows or comes from the file.

### `LiquidationPauseGuard` and `LiquidationEngine`

The first has the breaker: `AfterFailure`, `AfterSuccess` and `Initial` are what
`record_pause_guard_event` and `clear` make of a loaded state, and `Load`,
`SavePaused`, `SaveFailures`, `SaveLevel` are the steps of a record. The second
composes it with those who record: the engine (`Tick`, then each account) and
the request threads, both through `Build`, `StaticPasses`, `Gate`, `Send`,
`Receipt`. `seen` is what the payload's controls say of the breaker. The static
call is judged by what `Build` read; `execute_flashloan_liquidation` reads the
controls anew, puts them into the payload and gates on them (`Gate`), and from
there to the broadcast (`Send`), through a static call, a fork simulation and the
building of the transaction, nobody looks again. `StaticPasses` has what the code
does with a static call that passes while something else blocks: it counts as a
failure. `overlapped`, `leaks` and `through` are history variables; the last has
the threads that were past the gate when the breaker became active.

### `LiquidationBreaker`

The breaker as those see it who record into it and read it, without rows or
copies: a failure, a success or a clear takes effect once, between its call and
its return, on top of all earlier ones, and what readers are shown is what the
breaker has come to before or after the last of them. `Failure` and `Success`
relate the states before and after without saying how they are computed. From the
moment two records overlap it promises nothing (`Overlap`).
`LiquidationEngine` states `RecordsAtomic == Breaker!Spec` with the mapping

| `LiquidationBreaker` | `LiquidationPauseGuard` |
|---|---|
| `state` | `Current`: the copy of the one thread that is saving, or the rows |
| `shown` | the row `paused` |
| `call` | `Called`: what a thread is about to load for; done from the load to the last row |
| `spoiled` | the history variable `overlapped` |

So the load is where a record takes effect, the row `paused` is where readers see
it, and the two rows after it concern nobody but the next record.

### `ClosedLoopReview`

`task[g]` is the task of a group; `lane[p]` the heap's entries of a priority in
the order of their sequence numbers, which is the heap's order. `Pop` skips the
entries that no longer match their task. `Quote`, `Review`, `Leave`, `Finish`
and `Fail` are `run_once` with the refresh's outcomes free. The scan looks at a
task and submits later (`ScanLooks`, `ScanSubmits`); a user's request submits
(`Refresh`) or submits and then runs one task itself (`RefreshAndWait`: the best
of the queue, which need not be its own).
`served` and `again` are history variables.

### `DexOpportunityScanner`

`queue` and `watched` say what is to be scanned, `job[t]` where a thread is in
`_scan_one`, `snapshot` what is kept of each chain: of a group's route, whether
its default and its temporary variant are listed and whether they carry evidence
of a review. The variants of a route share its tokens, by which `_scan_one` and
`_merge_fixed_refresh_into_snapshot` look routes up (`_route_simple_key`): of two
that are listed the later, the temporary, hides the default (`ByTokens`). `Keep`
carries evidence from the old snapshot to the quoted routes, and never from one
variant to the other; `Better` is the last merge's choice between two routes of the
same tokens, where a default route takes the place of a temporary one, reviewed or
not, and never the other way round. `live` is the environment variable, `saved[t]`
the value thread `t` will restore. `mine` says that the snapshot in place is the
object this scan put there, which it then merges with itself; after a reset it
merges the old object's routes in.
`late` and `mixed` are history variables.

### `NonceManager` and `LiquidationSubmission`

`next[m]` and `released[m]` are the fields of the manager object that thread `m`
created; the registry maps the one sender of the model to a manager. A thread
goes through the lookup, the creation (`idle`, `create`, `register`: nothing
locks them), the acquisition, `build_transaction_params`, signing and
broadcasting, and the wait for the receipt. `pool` and `mined` are the chain's
side; `Create` may read any count between what is mined and what is pending,
because a transaction in a private relay need not be known to the node.
`first`, `sent` and `stranded` are history variables. `Restart` empties the
memory and keeps the chain.

### `NonceLedger`

What the managers come to, without a counter, a list or the steps of a
submission: a manager starts from a number (`Start`); a thread is given the lowest
nonce from there on that nobody has, sent or stranded (`Give`), and gives it back,
sends it or strands it, once, and only the one it was given (`Settle`).
`LiquidationSubmission` states `LowestFreeGiven == Ledgers!Spec` with the mapping

| `NonceLedger` | `LiquidationSubmission` |
|---|---|
| `first`, `sent`, `stranded` | the history variables of these names |
| `hand[t]` | `InHand`: the manager and the nonce of a thread that has one |

`next` and `released` are not in the mapping: that nothing below the counter is
free but what is released is what makes the choice of `acquire` the lowest.

### MC modules

`MCCowCandidateQueue` gives the queue a next-state relation in which callers
call its methods in any order; the other MC modules only name model values.

## The runs

| run | what it asks | bounds | result |
|---|---|---|---|
| `queue` | size bound, claim order, retry times, exactly one candidate to claim when one is pending, whatever the callers do | three candidates on two networks, `max_size` 2, ticks of 1, 5 sequence numbers, profit sort with two hints | holds |
| `daemon_safety` | the held candidate is not lost, none is orphaned, at most one order after a pause, no order repeated, every order permitted (refinement of `CowOrderPermit`) | two candidates, `max_size` 1, two attempts, deadline on, stop allowed | holds |
| `daemon_liveness` | claims are settled, candidates drain | two candidates, `max_size` 1, two attempts, no deadline, time to live 2 | holds |
| `switch_opening` | no order for a candidate queued before the switch was opened | as above | **violated** |
| `liquidation_submission` | nonces of one manager are exclusive, never reused once sent, all accounted for; the lowest free one is given (refinement of `NonceLedger`); conflicts end with the race for the manager | three threads, two nonces, symmetry over threads | holds |
| `nonce_race` | threads never hold the same nonce | two threads, two nonces | **violated** |
| `engine` | the breaker is sound at rest, after a trip only those past the gate send and once each, no failure resumes, failures trip in the end, records take effect atomically unless they overlap (refinement of `LiquidationBreaker`) | the engine with two accounts and one request thread, threshold 2, levels at 2, 3 and 4 failures | holds |
| `breaker_race` | only successes and clears resume, overlapping records included | as above | **violated** |
| `review` | no queued group without an entry, no running one without a worker, one refresher, the refresh that closes a group is as deep as asked for, the queue drains | two groups, one worker, one waiting request, two entries in the scan's lane and one in the users' | holds |
| `review_promotion` | a promoted review is run as deep as it was asked for | as above | **violated** |
| `pause_store` | readers are told the stored switch, a pause holds, rows and file agree in the end | two setters, the daemon, the start; two changes, one failure or crash; a file of a former process that says paused, or none | holds |
| `scanner` | live quoting comes back, evidence is kept, what is asked for is scanned | two chains, one quoted without live quoting and one with temporary routes, one group, one waiting request with one scan, one thread that tests routes | holds |

Why the bounds are enough: `queue` overflows with three candidates in two
places, with every combination of one being processed; two hints make the
profit order differ from the sequence order. In the daemon one candidate is held
while another is added over a full queue, which is every relation an entry can
have to the worker; two attempts show a retry that is allowed and one that is
not. The sequence bound stops additions, not refreshes, and a clear starts it
anew. `MaxLeaks` counts one more than the property allows. Two nonces make one
taken over another released, three threads a release between two acquisitions.
Two threads overlap in every way two records can, and four failures reach every
level of the breaker. One worker and one waiting request are two threads that
refresh; two entries of the scan's lane make one left over from a submission
before, and one in the users' lane a promotion over it. Two changes of the
switch are the pause and the resume that can overtake it, with a reader that has
read before either; one failure or crash falls at any step. The pauses of this
process are stored for either kind of reason, so the file of the former one need
not be. One scanning thread and one request contend for the scan lock, and two
chains tell apart the two kinds of quoting and those with and without temporary
routes; route tests and refreshes come without a bound. What the bounds leave out
is what the proofs add. The two largest runs, `pause_store` (two million states)
and `scanner` (half a million, with a liveness property), take about three minutes
each with two workers.

`NoStaleOrder` fails: the request sets the guard at
`binance_market_admin.py:152` and clears the queue at line 154. Between the two
the worker can claim an old candidate, and its order goes out. The tests of the
queue and of the route say that opening makes all queued candidates stale.

`NoConflict` fails: `_nonce_manager` looks up, creates and registers without a
lock, so two first submissions work with a manager each and sign the same nonce.
Each manager by itself is sound (`ManagerExclusive`). `RaceStaysOver` says when
the danger ends: once no thread is between the lookup and the registration and
those that work with an overwritten manager are through, it cannot come back
before a restart.

`TripHolds` fails: `record_pause_guard_event` loads, changes and saves without a
lock. A record loaded before the breaker tripped is saved after it and takes the
trip back, although `app_runtime/.env.example:411` says that only the clear API or the
removal of the file does. Records that do not overlap keep a trip
(`FailuresKeepPause`), and overlapping ones cannot keep the breaker open for
ever (`FailuresTrip`).

`PromotionServed` fails: `submit_group` sets a running task back to queued with
the deeper mode, and when the run that was under way ends, `mark_completed`
marks the task done. The deeper review is never run, although the class says
that a user's review "simply uses the same pipeline with a higher priority and
deeper mode". A promotion of a task that is still queued, which is what the
tests promote, is served: `DepthServed` says that a resubmission during the
refresh itself is the only way to be closed with less than what was asked for.

### Fairness

`daemon_liveness` assumes weak fairness of the worker, of the clock, of the end
of an enqueue, and of the steps of a request that has begun to reopen
submission. The worker is one daemon thread in a loop whose every call has a
timeout or does local work; a Flask request runs to its end once begun; time
passes. Nothing is assumed of producers, pauses or page requests: `Drains` has
them as hypotheses instead (`Quiet`, `Unhindered`). It is also assumed that
`cow_quote_daemon_enabled()` is true; without it no worker exists.

`ClaimsSettle` says that the worker always comes back to its loop: a quote or a
log that fails for ever does not keep a candidate. `Drains` says that retries
end: attempts are counted across requeues, and a refresh does not reset them.

The four later specifications assume weak fairness of the steps of threads that
have begun (every call in them is local or has a timeout), and no fairness of
requests, changes, failures or crashes. Beyond that: the engine's loop ticks
while the breaker lets it; the queue's workers go on, as threads of a pipeline
that was started; the scanner's thread takes its next turn; the quote daemon
asks for the switch again and again, which is what `process_once` does at each
turn. `Drains` of the review has as hypothesis that submissions end and a thread
serves the queue, `Converges` needs none because changes and failures are
bounded in the model: it says what is left when they have ended. `FailuresTrip`
has as hypothesis that failures keep being recorded and nothing else is.

## What is proved

| module | theorem | statement |
|---|---|---|
| `CowCandidateQueue_proofs` | `QueueInvariance`, `QueueTypeCorrect`, `QueueSizeBound`, `QueueSequenceSound`, `QueueOneToClaim`, `QueueRetryHasTime` | `QueueStepSpec => []...` |
| `CowQuoteDaemon_proofs` | `Invariance`, `TypeCorrect`, `HeldStaysProcessing`, `NoOrphanLeft`, `AtMostOneLeak`, `OrderedNotReclaimed` | `Spec => []...`, and the action property `NoRepeatClaim` |
| `CowQuoteDaemon_proofs` | `DaemonImplementsQueue`, `DaemonQueueSound` | `Spec => QueueStepSpec`, and the queue's properties in the daemon |
| `CowQuoteDaemon_proofs` | `OrdersImplementPermit` | `Spec => OrdersPermitted`, the refinement of `CowOrderPermit` |
| `LiquidationSubmission_proofs` | `Invariance`, `TypeCorrect`, `Exclusive`, `SentNotReused`, `Accounted`, `RaceEnds` | `Spec => []...`, and the action property `RaceStaysOver` |
| `LiquidationSubmission_proofs` | `ManagersImplementLedger` | `Spec => LowestFreeGiven`, the refinement of `NonceLedger` |
| `LiquidationEngine_proofs` | `Invariance`, `TypeCorrect`, `OneSendAfterTrip`, `SavedStateSound`, `FailureNeverResumes` | `Spec => []...`, and the action property `FailuresKeepPause` |
| `LiquidationEngine_proofs` | `RecordsAreAtomic` | `Spec => RecordsAtomic`, the refinement of `LiquidationBreaker` |
| `ClosedLoopReview_proofs` | `Invariance`, `TypeCorrect`, `NoQueuedGroupLost`, `NoGroupStuckRunning`, `RefreshedByOne`, `DepthIsServed` | `Spec => []...`, and the action property `DepthServed` |
| `CowSubmissionPauseStore_proofs` | `Invariance`, `TypeCorrect`, `ReadersAreCurrent`, `PauseIsKept` | `Spec => []...`, and the action property `PauseHolds` |
| `DexOpportunityScanner_proofs` | `Invariance`, `TypeCorrect`, `LiveQuotingComesBack`, `EvidenceIsKept` | `Spec => []...`, and the action property `EvidenceKept` |

They hold for every value of the constants that satisfies the named
assumptions of the modules: the sizes, delays and counts are naturals, every
candidate has a network, the status set is the daemon's.

*Queue.* `QueueStepSpec` lets every method be called at any time with any
argument of its type, so the theorems carry over to every caller. The size bound
is not inductive alone: an overflow is undone only if some entry can be removed,
which the entry just added always can, and the trimming removes one at a time,
which needs the bound before the addition. `QueueInv` therefore joins the types,
the size, the sequence and the retry conditions. Every method has a lemma.
`OneToClaim` follows from it: `ClaimOrder` shows that distinct sequence numbers
make `ClaimedBefore` a strict total order on the entries, and `FirstExists` that a
finite set of them has a first one. The second needs no induction over the queue:
the strict subset order of the finite sets is well-founded, so among the sets of
entries that come before some pending entry there is a least one, and it is empty.
`DaemonImplementsQueue` shows that every step of the daemon or of a web thread is
one call of one method or leaves the queue alone, so all of this holds in it.

*Daemon.* The invariant is `TypeOK /\ QueueInv /\ HeldInv /\ OrphanInv /\
LeakInv /\ OrderInv`. `HeldInv` ties the worker's place to the held entry (it is
in the queue, processing, with the held count of attempts, unless the queue was
cleared); `OrphanInv` says that only the held entry is processing; `LeakInv`
that after a leak the worker is past the post, so that a second one needs a
guard read that the pause refuses; `OrderInv` that a posted order belongs to the
held candidate or to one that is settled. The queue's frame lemmas say what each
method leaves of an entry that is being processed.

*Submission.* The invariant says that the nonces held, released, sent and
stranded of a manager are disjoint and together make up the range it has handed
out, and that a manager belongs to the thread that created it until it is
registered. The four properties follow from it. `RaceEnds` needs that a thread
with a nonce has a manager, which while the race is over is the registered one.

*Ledger.* The acquisition maps to `Give`, what ends a thread's hold on its nonce to
`Settle`, the initialization to `Start`, everything else to a stutter. That the
nonce given is the lowest free one is where the invariant is used: below the
counter exactly the released nonces are free (`FreeFacts`), and a manager without a
counter has started nothing.

*Refinement.* The initial states map to initial states, and every step of the
daemon maps to a step of `CowOrderPermit` or leaves its variables alone: the
claim to `Take`, the last guard to `Grant`, the post to `Order`, the refusals
after it to `Forgo`, and so on. `Take` needs the invariant: a claimed candidate
has no order out (`OrderInv`).

*Breaker.* `LeakInv`: a thread that stands before its broadcast while the breaker is
active was past the gate when it became so, because `Gate` lets nobody through after
that, and has not sent since; while it is not active nobody has leaked. `RestInv`:
while no two records have overlapped, the thread that saves has brought the rows
a known part of the way from one sound state to the next; `Sound` itself is
broken between two rows, which is why it is claimed at rest only.

*Breaker, refinement.* The load maps to `Apply`, the saving of the row `paused` to
`Show`, of the row `level` to `Return`; a load while another thread saves, and
every step after one, maps to `Overlap`. The invariant gives that until then at most
one thread saves, so that `Current` is well defined (`CurrentOne`), and that when it
has saved its last row the rows are its copy. `FailureApplied` and `SuccessApplied`
show that what the code computes is what the abstract relation asks for, for every
threshold and every ascending choice of the levels.

*Review queue.* `QueuedHasEntry` and `RunningHasWorker` are inductive with the
types. `OneRefresher` is not: `AloneInv` adds that a group which was not
submitted again is running as long as somebody refreshes it, so no entry left
over in the heap can be taken. `DepthServed` is about the step that closes a group
and needs `DepthInv`: a thread that is past the reading of the mode has the mode
the task still has, unless the group was submitted again since.

*Pause store.* `Held` says that the value of a thread that is not blind was found
in the rows and that the rows still say so; `Aimed` what a saving thread is going
to write. `Alone` says that nobody but the start works before it has answered, so
that the reason it found stays the stored one; `Reason` that a start which is not
blind sets the switch only over `startup_transaction_switch_off`. Without `Alone`
the second is not inductive: a request could store another reason in between.

*Scanner.* The scan lock carries both proofs. `GateInv`: while no route test has
overlapped another quoting, at most one thread has live quoting switched off and
it will switch it on again. `EvidenceInv`: the routes a scan is about to put in
place know of the evidence in the snapshot unless a review came late, or the route
was a default one that a temporary one hid. `SingleInv`: a snapshot that is not the
scan's own lists one variant of each group, since what a reset leaves and what a
refresh merges do, so in the last merge evidence is lost only where a temporary
route gives way to a default one.

Only model-checked: the liveness properties `ClaimsSettle`, the two `Drains`,
`FailuresTrip`, `Converges` and `QueuedIsScanned` (fairness and ENABLED are
beyond the prover), and the four violations. Every invariant and every action
property of the passing runs, and each of the three refinements, is a theorem.

## What is not modelled, and why

The quote's arithmetic, the node script's inside, the contents of log lines and
of answers to requests are data no property distinguishes. Most of the
repository's lines are of this kind: market observation, pool candidates, schema
and row builders, pages. They compute from the answers of remote services,
change no state that another thread steers by, and a model of them would repeat
them.

Pure I/O (key-value store, presentation), data (chain registry) and contracts
whose every transaction is atomic are left out. The self-funded liquidation path
(`execution_orchestrator.py:301` on) is refused by its web route.
`remove_statuses` is called by tests only: it is an action of the queue and not
of the daemon. Nothing calls the scanner's `stop`, and only it calls the
pipeline's: the second is an action of `ClosedLoopReview`, the first is left out.

* *Scanner*: the recording of opportunities and its cooldown, automatic
  execution, the counters and the cache file. Each is listed with its hazard
  where it has one.
* *Circuit breaker*: failures of the database and the fallback to the file, which
  work as those of `CowSubmissionPauseStore` do; the reason, the stamps and the
  cooldown multiplier, which no caller reads.
* *Realtime quote*: three quotes at a time and a counter of them.
* *Account backfill*: one loop over block ranges that saves its progress after
  each; its stop event is a hazard without a property.
* *Market observer, page state*: they poll or project, and steer nothing that is
  modelled.

Known limits of what is modelled: `PauseHolds` and `AnswersCurrent` exempt
threads that act on a value older than the rows (`blind`), which the code lets
exist: a reading that overlaps a pause can write the older value back, and
`Converges` then has rows and file agree on that value. `PauseHolds` also exempts
the start over a pause stored for `startup_transaction_switch_off`, which the code
opens; the reason is whatever the client of the route gave, so a pause of a user can
be opened this way, and so can a user's pause that was saved over such a row and cut
short by a crash before its own reason was written. `LiveAgain` exempts route tests
that overlap another quoting, after which the environment variable can stay off.
`NoRepeatClaim` and `OrdersPermitted` exempt an order whose record was lost
(`unrecorded`), after which the code claims the candidate again.

`EvidenceKept` exempts reviews merged while a scan is between its reading and its
replacement of the snapshot; a default route listed beside a temporary one of the
same tokens, whose evidence the reading does not find; and a temporary route that
gives way to a default one in the last merge. The comment there (line 783) says that
a temporary replacement must not replace the scan default. A scan's last merge
keeps to it for the routes in place, but the list is brought under one key per
tokens before that (`by_key`, line 764), and a refresh does the same: either drops
a default route that is listed before a temporary one. Several temporary routes of
one group are one in the model; a refresh of a chain that has no snapshot, which
the code takes as it is, lists one variant of each group; a reset of all chains is
one reset after the other. The hazards say so at their lines.

## Plan

Done: the queue, the daemon with its switch and the abstract permit it
implements, the switch's store, nonces and liquidation submission, the engine
under its circuit breaker, the review queue and the scanner, each with its
proofs; abstract specifications of the breaker and of the nonce ledger, and the
queue inside the daemon as an instance of the queue alone. What remains worth
doing, in this order: the candidates of `CowSwitchOpening` proved to go stale
only between the guard and the clear; the composition of the
switch's store with the daemon in place of the boolean; automatic execution of
the scanner and the review under one switch; the recording cooldown; the
backfill's stop and resume.
