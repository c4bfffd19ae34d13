------------------------- MODULE CowCandidateQueue -------------------------
(***************************************************************************)
(* The in-memory queue of CoW route candidates                             *)
(* (dex/runtime/cow_candidate_queue.py, class CowCandidateQueue).          *)
(*                                                                         *)
(* Every method of the class runs under one lock, so each is one action,   *)
(* except enqueue_many: its loop adds, refreshes or skips one attempt at a *)
(* time and trims after each addition, so it is a sequence of steps taken  *)
(* while `enqueuing' (the lock) is held.                                   *)
(*                                                                         *)
(* Time is counted in ticks.  An entry carries its age (ticks since        *)
(* updated_at) and, while it waits for a retry, the ticks left until       *)
(* retry_at.  Clock readings within one tick are not ordered, so a choice  *)
(* the code makes by comparing two such readings is left open here.        *)
(* Of the attempt's payload only the profit hint matters: it orders claims *)
(* under the profit sort key.  The network is part of the signature.       *)
(***************************************************************************)
EXTENDS Integers, FiniteSets, Functions

CONSTANTS
    Signature,     \* candidate_signature values
    Network,       \* networks a candidate may belong to
    NetworkOf,     \* the network in each signature
    Hint,          \* values of _profit_hint
    SortKey,       \* "fifo" or "profit", COW_ARBITRAGE_QUEUE_SORT_KEY
    MaxSize,       \* max_size
    Ttl,           \* ttl_seconds, in ticks
    Cooldown,      \* requote_cooldown_seconds, in ticks
    RetryDelay,    \* retry_delay_seconds of the daemon, in ticks
    MaxAttempts,   \* max_attempts of the daemon: where counting claims stops
    MaxSequence    \* bound of the model on the sequence counter

ASSUME SignatureAssumption == NetworkOf \in [Signature -> Network]
ASSUME HintAssumption == Hint \subseteq Int /\ Hint # {}
ASSUME SortKeyAssumption == SortKey \in {"fifo", "profit"}
ASSUME SizeAssumption == MaxSize \in Nat \ {0}
ASSUME TimeAssumption == Ttl \in Nat /\ Cooldown \in Nat /\ RetryDelay \in Nat
ASSUME AttemptsAssumption == MaxAttempts \in Nat \ {0}
ASSUME BoundAssumption == MaxSequence \in Nat

VARIABLES
    items,      \* _items: an entry for each queued signature
    sequence,   \* _sequence
    enqueuing   \* enqueue_many holds _lock

queueVars == <<items, sequence, enqueuing>>

\* Settled statuses whose entries enqueue_many leaves alone while they are fresh.
CoolingStatus == {"quoted", "blocked", "failed"}

\* Statuses the daemon settles an entry with that are never held back.  The
\* daemon has more names for an order that was not to be submitted
\* ("order_submission_switch_off", ...); the queue treats them all alike, and
\* "ready_not_submitted" stands for them.
OpenStatus == {"ready_to_submit", "ready_not_submitted", "submission_paused",
               "adapter_unavailable", "submitted_success", "submission_failed"}

FinalStatus == CoolingStatus \cup OpenStatus
WaitingStatus == {"pending", "retry_wait"}
Status == WaitingStatus \cup {"processing"} \cup FinalStatus

\* retry_at is None.
NoRetry == -1

\* Ages above the larger of the two limits compare alike.
MaxAge == IF Ttl >= Cooldown THEN Ttl + 1 ELSE Cooldown

Entry == [status : Status, sequence : 1..MaxSequence, age : 0..MaxAge,
          attempts : 0..MaxAttempts, retryAt : NoRetry..RetryDelay, hint : Hint]

Queued == DOMAIN items
Holding(q, S) == {s \in DOMAIN q : q[s].status \in S}

-----------------------------------------------------------------------------
(* Helpers of the methods, on the dictionary q of entries.  A definition    *)
(* whose comment begins with "Slip" is a plausible programming slip in the  *)
(* definition after it; it shows that a property notices the slip.          *)

Drop(q, S) == Restrict(q, DOMAIN q \ S)

\* Slip: entries being processed expire too.
ExpiredWithProcessing(q) == {s \in DOMAIN q : q[s].age > Ttl}

\* _prune_locked: entries past the time to live go, unless being processed.
Expired(q) == {s \in DOMAIN q : q[s].age > Ttl /\ q[s].status # "processing"}
Pruned(q) == Drop(q, Expired(q))

\* The sort key of _trim_locked: entries that are not pending before pending
\* ones, and the least recently updated first.
TrimmedBefore(e, f) ==
    \/ e.status # "pending" /\ f.status = "pending"
    \/ (e.status = "pending") = (f.status = "pending") /\ e.age > f.age

Removable(q) == {s \in DOMAIN q : q[s].status # "processing"}
TrimVictims(q) ==
    {v \in Removable(q) : \A u \in Removable(q) : ~TrimmedBefore(q[u], q[v])}

\* Slip: off by one, the queue keeps one entry too many.
TrimmedLate(q) ==
    IF Cardinality(DOMAIN q) <= MaxSize + 1 \/ Removable(q) = {}
    THEN {q}
    ELSE {Drop(q, {v}) : v \in TrimVictims(q)}

\* _trim_locked: it runs after every addition, so at most one entry is in
\* excess.  The set of the dictionaries it may leave.
Trimmed(q) ==
    IF Cardinality(DOMAIN q) <= MaxSize \/ Removable(q) = {}
    THEN {q}
    ELSE {Drop(q, {v}) : v \in TrimVictims(q)}

\* The first loop of claim_next: retries whose time has come are pending.
Due(e) == e.status = "retry_wait" /\ e.retryAt = 0
Promoted(q) ==
    [s \in DOMAIN q |-> IF Due(q[s])
                        THEN [q[s] EXCEPT !.status = "pending", !.retryAt = NoRetry]
                        ELSE q[s]]

\* Slip: candidates of equal profit are not told apart.
ClaimedBeforeByHint(e, f) ==
    IF SortKey = "profit" THEN e.hint > f.hint ELSE e.sequence < f.sequence

\* The order claim_next takes pending entries in.
ClaimedBefore(e, f) ==
    \/ SortKey = "profit" /\ e.hint > f.hint
    \/ (SortKey = "profit" => e.hint = f.hint) /\ e.sequence < f.sequence

Claimable(q) ==
    {s \in Holding(q, {"pending"}) :
        \A t \in Holding(q, {"pending"}) \ {s} : ClaimedBefore(q[s], q[t])}

InCooldown(e) == e.status \in CoolingStatus /\ e.age < Cooldown

Fresh(n, h) == [status |-> "pending", sequence |-> n, age |-> 0,
                attempts |-> 0, retryAt |-> NoRetry, hint |-> h]

\* Slip: the retry time of the earlier failure is kept.
RefreshedKeepingRetry(e, h) ==
    [e EXCEPT !.hint = h, !.age = 0,
              !.status = IF e.status = "processing" THEN @ ELSE "pending"]

Refreshed(e, h) ==
    [e EXCEPT !.hint = h, !.age = 0, !.retryAt = NoRetry,
              !.status = IF e.status = "processing" THEN @ ELSE "pending"]

Added(q, s, e) == [t \in DOMAIN q \cup {s} |-> IF t = s THEN e ELSE q[t]]

-----------------------------------------------------------------------------
(* The methods. *)

QueueInit == items = [s \in {} |-> 0] /\ sequence = 0 /\ enqueuing = FALSE

\* clear and clear_with_result.
Clear ==
    /\ ~enqueuing
    /\ items' = [s \in {} |-> 0]
    /\ sequence' = 0
    /\ UNCHANGED enqueuing

\* enqueue_many takes the lock and prunes.  Attempts it skips (not a market
\* candidate, empty signature, cooling down) change nothing.
EnqueueBegin ==
    /\ ~enqueuing
    /\ enqueuing' = TRUE
    /\ items' = Pruned(items)
    /\ UNCHANGED sequence

EnqueueExisting(s, h) ==
    /\ enqueuing
    /\ s \in Queued
    /\ ~InCooldown(items[s])
    /\ items' = [items EXCEPT ![s] = Refreshed(@, h)]
    /\ UNCHANGED <<sequence, enqueuing>>

\* Slip: the entry takes the counter before it is incremented.
EnqueueNewBeforeIncrement(s, h) ==
    /\ enqueuing
    /\ s \notin Queued
    /\ sequence < MaxSequence
    /\ sequence' = sequence + 1
    /\ items' \in Trimmed(Added(items, s, Fresh(sequence, h)))
    /\ UNCHANGED enqueuing

\* Slip: the entry is numbered by the size of the queue.
EnqueueNewBySize(s, h) ==
    /\ enqueuing
    /\ s \notin Queued
    /\ sequence < MaxSequence
    /\ sequence' = sequence + 1
    /\ items' \in Trimmed(Added(items, s, Fresh(Cardinality(Queued) + 1, h)))
    /\ UNCHANGED enqueuing

EnqueueNew(s, h) ==
    /\ enqueuing
    /\ s \notin Queued
    /\ sequence < MaxSequence
    /\ sequence' = sequence + 1
    /\ items' \in Trimmed(Added(items, s, Fresh(sequence + 1, h)))
    /\ UNCHANGED enqueuing

EnqueueEnd == enqueuing /\ enqueuing' = FALSE /\ UNCHANGED <<items, sequence>>

\* claim_next finds a pending entry.  The count of attempts is only ever
\* compared with max_attempts, so it stops there.
Claim(s) ==
    LET q == Promoted(Pruned(items))
    IN  /\ ~enqueuing
        /\ s \in Claimable(q)
        /\ items' = [q EXCEPT ![s].status = "processing", ![s].age = 0,
                              ![s].attempts = IF @ < MaxAttempts THEN @ + 1 ELSE @]
        /\ UNCHANGED <<sequence, enqueuing>>

\* claim_next returns None.
ClaimNothing ==
    LET q == Promoted(Pruned(items))
    IN  /\ ~enqueuing
        /\ Holding(q, {"pending"}) = {}
        /\ items' = q
        /\ UNCHANGED <<sequence, enqueuing>>

\* complete: whatever entry now has the signature is settled.
Complete(s, status) ==
    /\ ~enqueuing
    /\ items' = IF s \in Queued
                THEN [items EXCEPT ![s].status = status, ![s].age = 0,
                                   ![s].retryAt = NoRetry]
                ELSE items
    /\ UNCHANGED <<sequence, enqueuing>>

\* requeue with delay_seconds = RetryDelay.
Requeue(s) ==
    /\ ~enqueuing
    /\ items' = IF s \in Queued
                THEN [items EXCEPT
                        ![s].status = IF RetryDelay > 0 THEN "retry_wait" ELSE "pending",
                        ![s].age = 0,
                        ![s].retryAt = IF RetryDelay > 0 THEN RetryDelay ELSE NoRetry]
                ELSE items
    /\ UNCHANGED <<sequence, enqueuing>>

\* remove_statuses.
RemoveStatuses(S) ==
    /\ ~enqueuing
    /\ items' = Drop(items, Holding(items, S \ {"processing"}))
    /\ UNCHANGED <<sequence, enqueuing>>

\* retain_networks: an empty selection keeps everything.
RetainNetworks(N) ==
    /\ ~enqueuing
    /\ N # {}
    /\ items' = Drop(items, {s \in Queued : /\ items[s].status # "processing"
                                            /\ NetworkOf[s] \notin N})
    /\ UNCHANGED <<sequence, enqueuing>>

\* A tick of the clock; no method of the queue lasts one.
Aged(e) ==
    [e EXCEPT !.age = IF @ < MaxAge THEN @ + 1 ELSE @,
              !.retryAt = IF @ > 0 THEN @ - 1 ELSE @]

Tick ==
    /\ ~enqueuing
    /\ items' = [s \in Queued |-> Aged(items[s])]
    /\ UNCHANGED <<sequence, enqueuing>>

-----------------------------------------------------------------------------
(* Properties of the queue whatever its callers do. *)

\* The types of the queue's state.
QueueTypeOK ==
    /\ DOMAIN items \subseteq Signature
    /\ \A s \in DOMAIN items : items[s] \in Entry
    /\ sequence \in 0..MaxSequence
    /\ enqueuing \in BOOLEAN

\* The queue never holds more than max_size entries, even though entries
\* being processed are exempt from trimming (_trim_locked).
SizeBound == Cardinality(Queued) <= MaxSize

\* Sequence numbers are never shared and never ahead of the counter, across
\* clears that restart it: the claim order of claim_next is total.
SequenceSound ==
    /\ \A s \in Queued : items[s].sequence <= sequence
    /\ \A s, t \in Queued : items[s].sequence = items[t].sequence => s = t

\* As long as a candidate is pending, claim_next has one to take and no choice
\* which: what producers, retries and clears did to the numbers and the profits
\* never leaves two that come first, or none.
OneToClaim ==
    LET q == Promoted(Pruned(items))
    IN  Holding(q, {"pending"}) # {} => \E s \in Queued : Claimable(q) = {s}

\* An entry waits for a retry exactly when it has a retry time: one in
\* retry_wait without retry_at would never be promoted by claim_next.
RetryHasTime ==
    \A s \in Queued : items[s].status = "retry_wait" <=> items[s].retryAt # NoRetry

=============================================================================
