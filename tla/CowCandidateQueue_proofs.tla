---------------------- MODULE CowCandidateQueue_proofs ----------------------
(***************************************************************************)
(* Proofs about CowCandidateQueue, for any set of signatures and any       *)
(* limits: what its methods preserve whoever calls them, in any order.     *)
(***************************************************************************)
EXTENDS CowCandidateQueue, FiniteSetTheorems, TLAPS

QueueInv ==
    /\ QueueTypeOK
    /\ IsFiniteSet(Queued)
    /\ SizeBound
    /\ SequenceSound
    /\ RetryHasTime

\* Any method, with any argument the program passes it.
QueueStep ==
    \/ Clear \/ EnqueueBegin \/ EnqueueEnd \/ ClaimNothing \/ Tick
    \/ \E s \in Signature, h \in Hint : EnqueueExisting(s, h)
    \/ \E s \in Signature, h \in Hint : EnqueueNew(s, h)
    \/ \E s \in Signature : Claim(s)
    \/ \E s \in Signature, status \in FinalStatus : Complete(s, status)
    \/ \E s \in Signature : Requeue(s)
    \/ \E S \in SUBSET Status : RemoveStatuses(S)
    \/ \E N \in SUBSET Network : RetainNetworks(N)

-----------------------------------------------------------------------------
(* Lemmas about the helpers. *)

\* What a dictionary of entries must satisfy, as QueueInv states it of items.
GoodQueue(q, n) ==
    /\ DOMAIN q \subseteq Signature
    /\ \A s \in DOMAIN q : q[s] \in Entry
    /\ IsFiniteSet(DOMAIN q)
    /\ \A s \in DOMAIN q : q[s].sequence <= n
    /\ \A s, t \in DOMAIN q : q[s].sequence = q[t].sequence => s = t
    /\ \A s \in DOMAIN q : q[s].status = "retry_wait" <=> q[s].retryAt # NoRetry

Sized(q) == Cardinality(DOMAIN q) <= MaxSize

LEMMA QueueInvIsGood ==
    QueueInv <=> GoodQueue(items, sequence) /\ Sized(items)
                 /\ sequence \in 0..MaxSequence /\ enqueuing \in BOOLEAN
BY DEF QueueInv, QueueTypeOK, SizeBound, SequenceSound, RetryHasTime, GoodQueue, Sized, Queued

\* A dictionary with some entries dropped is still a good one.
LEMMA DropGood ==
    ASSUME NEW q, NEW n, NEW S, GoodQueue(q, n)
    PROVE  GoodQueue(Drop(q, S), n)
<1>1. DOMAIN Drop(q, S) \subseteq DOMAIN q /\ DOMAIN Drop(q, S) = DOMAIN q \ S
  BY DEF Drop, Restrict
<1>2. IsFiniteSet(DOMAIN Drop(q, S))
  BY <1>1, FS_Subset DEF GoodQueue
<1>. QED
  BY <1>1, <1>2 DEF GoodQueue, Drop, Restrict

\* Dropping entries never makes the queue longer.
LEMMA DropSized ==
    ASSUME NEW q, NEW S, IsFiniteSet(DOMAIN q), Sized(q)
    PROVE  Sized(Drop(q, S))
<1>1. DOMAIN Drop(q, S) \subseteq DOMAIN q
  BY DEF Drop, Restrict
<1>2. /\ Cardinality(DOMAIN Drop(q, S)) <= Cardinality(DOMAIN q)
      /\ Cardinality(DOMAIN Drop(q, S)) \in Nat /\ Cardinality(DOMAIN q) \in Nat
  BY <1>1, FS_Subset, FS_CardinalityType
<1>. QED
  BY <1>2, SizeAssumption DEF Sized
\* Entries changed in place, numbers kept, still make a good dictionary.
LEMMA ChangeGood ==
    ASSUME NEW q, NEW r, NEW n, GoodQueue(q, n),
           DOMAIN r = DOMAIN q,
           \A s \in DOMAIN q :
                /\ r[s] \in Entry
                /\ r[s].sequence = q[s].sequence
                /\ r[s].status = "retry_wait" <=> r[s].retryAt # NoRetry
    PROVE  GoodQueue(r, n) /\ (Sized(q) => Sized(r))
BY DEF GoodQueue, Sized

\* Promoting the retries that are due.
LEMMA PromotedGood ==
    ASSUME NEW q, NEW n, GoodQueue(q, n)
    PROVE  GoodQueue(Promoted(q), n) /\ (Sized(q) => Sized(Promoted(q)))
<1>1. DOMAIN Promoted(q) = DOMAIN q
  BY DEF Promoted
<1>2. ASSUME NEW s \in DOMAIN q
      PROVE  /\ Promoted(q)[s] \in Entry
             /\ Promoted(q)[s].sequence = q[s].sequence
             /\ Promoted(q)[s].status = "retry_wait" <=> Promoted(q)[s].retryAt # NoRetry
  <2>1. q[s] \in Entry /\ (q[s].status = "retry_wait" <=> q[s].retryAt # NoRetry)
    BY DEF GoodQueue
  <2>2. CASE Due(q[s])
    <3>. DEFINE e == [q[s] EXCEPT !.status = "pending", !.retryAt = NoRetry]
    <3>1. Promoted(q)[s] = e
      BY <2>2 DEF Promoted
    <3>2. e.status = "pending" /\ e.retryAt = NoRetry /\ e.sequence = q[s].sequence
      BY <2>1 DEF Entry
    <3>3. "pending" \in Status /\ NoRetry \in NoRetry..RetryDelay
      BY TimeAssumption DEF Status, WaitingStatus, NoRetry
    <3>4. e \in Entry
      BY <2>1, <3>3 DEF Entry
    <3>. HIDE DEF e
    <3>. QED
      BY <3>1, <3>2, <3>4
  <2>3. CASE ~Due(q[s])
    BY <2>1, <2>3 DEF Promoted
  <2>. QED
    BY <2>2, <2>3
<1>. QED
  BY <1>1, <1>2, ChangeGood

\* A new entry, numbered above all others, is pending.
LEMMA AddedGood ==
    ASSUME NEW q, NEW n \in 0..MaxSequence, GoodQueue(q, n), n < MaxSequence,
           NEW s \in Signature, s \notin DOMAIN q, NEW h \in Hint
    PROVE  /\ GoodQueue(Added(q, s, Fresh(n + 1, h)), n + 1)
           /\ Cardinality(DOMAIN Added(q, s, Fresh(n + 1, h))) = Cardinality(DOMAIN q) + 1
           /\ Removable(Added(q, s, Fresh(n + 1, h))) # {}
<1>. DEFINE r == Added(q, s, Fresh(n + 1, h))
<1>1. DOMAIN r = DOMAIN q \cup {s}
  BY DEF Added
<1>2. IsFiniteSet(DOMAIN r) /\ Cardinality(DOMAIN r) = Cardinality(DOMAIN q) + 1
  BY <1>1, FS_AddElement DEF GoodQueue
<1>3. r[s] = Fresh(n + 1, h) /\ \A u \in DOMAIN q : r[u] = q[u]
  BY DEF Added
<1>4. Fresh(n + 1, h) \in Entry
  BY BoundAssumption, TimeAssumption, AttemptsAssumption
     DEF Fresh, Entry, Status, WaitingStatus, NoRetry, MaxAge
<1>5. s \in Removable(r)
  BY <1>1, <1>3 DEF Removable, Fresh
<1>6. \A u \in DOMAIN q : q[u].sequence \in Int /\ q[u].sequence <= n
  BY DEF GoodQueue, Entry
<1>7. GoodQueue(r, n + 1)
  <2>1. \A u \in DOMAIN r : r[u].sequence <= n + 1
    BY <1>1, <1>3, <1>6 DEF Fresh
  <2>2. \A u, v \in DOMAIN r : r[u].sequence = r[v].sequence => u = v
    BY <1>1, <1>3, <1>6 DEF Fresh, GoodQueue
  <2>3. \A u \in DOMAIN r : r[u].status = "retry_wait" <=> r[u].retryAt # NoRetry
    BY <1>1, <1>3 DEF Fresh, GoodQueue
  <2>. QED
    BY <1>1, <1>2, <1>3, <1>4, <2>1, <2>2, <2>3 DEF GoodQueue
<1>. QED
  BY <1>2, <1>5, <1>7

\* Trimming brings a dictionary with one entry too many back to max_size, as
\* long as there is an entry that may be removed.
LEMMA TrimmedGood ==
    ASSUME NEW q, NEW n, GoodQueue(q, n), Removable(q) # {},
           Cardinality(DOMAIN q) <= MaxSize + 1,
           NEW r \in Trimmed(q)
    PROVE  GoodQueue(r, n) /\ Sized(r)
<1>. Cardinality(DOMAIN q) \in Nat /\ MaxSize \in Nat
  BY FS_CardinalityType, SizeAssumption DEF GoodQueue
<1>1. CASE Cardinality(DOMAIN q) <= MaxSize
  BY <1>1 DEF Trimmed, Sized
<1>2. CASE Cardinality(DOMAIN q) > MaxSize
  <2>0. Trimmed(q) = {Drop(q, {v}) : v \in TrimVictims(q)}
    <3>1. ~(Cardinality(DOMAIN q) <= MaxSize)
      BY <1>2
    <3>. QED
      BY <3>1 DEF Trimmed
  <2>1. PICK v \in TrimVictims(q) : r = Drop(q, {v})
    <3>1. r \in {Drop(q, {v}) : v \in TrimVictims(q)}
      BY <2>0
    <3>. QED
      BY <3>1
  <2>2. v \in DOMAIN q
    BY DEF TrimVictims, Removable
  <2>3. DOMAIN r = DOMAIN q \ {v}
    BY <2>1 DEF Drop, Restrict
  <2>4. Cardinality(DOMAIN r) = Cardinality(DOMAIN q) - 1
    BY <2>2, <2>3, FS_RemoveElement DEF GoodQueue
  <2>. QED
    BY <2>1, <2>4, DropGood DEF Sized
<1>. QED
  BY <1>1, <1>2

-----------------------------------------------------------------------------
(* What each method preserves. *)

QueueRest == sequence \in 0..MaxSequence /\ enqueuing \in BOOLEAN

LEMMA NextIsGood ==
    GoodQueue(items', sequence') /\ Sized(items') /\ QueueRest' => QueueInv'
BY DEF QueueInv, QueueTypeOK, SizeBound, SequenceSound, RetryHasTime,
       GoodQueue, Sized, Queued, QueueRest

\* A method that only drops entries.
LEMMA DropStep ==
    ASSUME QueueInv, NEW S, items' = Drop(items, S), sequence' = sequence,
           enqueuing' \in BOOLEAN
    PROVE  QueueInv'
<1>1. GoodQueue(items, sequence) /\ Sized(items) /\ QueueRest
  BY QueueInvIsGood DEF QueueRest
<1>2. GoodQueue(Drop(items, S), sequence)
  BY <1>1, DropGood
<1>3. Sized(Drop(items, S))
  BY <1>1, DropSized DEF GoodQueue
<1>4. QueueRest'
  BY <1>1 DEF QueueRest
<1>5. GoodQueue(items', sequence') /\ Sized(items')
  BY <1>2, <1>3
<1>. QED
  BY <1>4, <1>5, NextIsGood

\* A method that changes entries of a good dictionary in place.
LEMMA ChangeStep ==
    ASSUME NEW q, GoodQueue(q, sequence), Sized(q), QueueRest,
           DOMAIN items' = DOMAIN q,
           \A s \in DOMAIN q :
                /\ items'[s] \in Entry
                /\ items'[s].sequence = q[s].sequence
                /\ items'[s].status = "retry_wait" <=> items'[s].retryAt # NoRetry,
           sequence' = sequence, enqueuing' \in BOOLEAN
    PROVE  QueueInv'
<1>1. GoodQueue(items', sequence) /\ Sized(items')
  BY ChangeGood
<1>2. QueueRest'
  BY DEF QueueRest
<1>. QED
  BY <1>1, <1>2, NextIsGood

LEMMA ClearStep ==
    ASSUME QueueInv, Clear
    PROVE  QueueInv'
<1>1. DOMAIN items' = {} /\ sequence' = 0 /\ enqueuing' = enqueuing
  BY DEF Clear
<1>2. IsFiniteSet({}) /\ Cardinality({}) = 0
  BY FS_EmptySet
<1>3. GoodQueue(items', sequence')
  BY <1>1, <1>2 DEF GoodQueue
<1>4. Sized(items')
  BY <1>1, <1>2, SizeAssumption DEF Sized
<1>5. QueueRest'
  BY <1>1, BoundAssumption DEF QueueRest, QueueInv, QueueTypeOK
<1>. QED
  BY <1>3, <1>4, <1>5, NextIsGood

LEMMA EnqueueExistingStep ==
    ASSUME QueueInv, NEW s \in Signature, NEW h \in Hint, EnqueueExisting(s, h)
    PROVE  QueueInv'
<1>1. GoodQueue(items, sequence) /\ Sized(items) /\ QueueRest
  BY QueueInvIsGood DEF QueueRest
<1>2. DOMAIN items' = DOMAIN items /\ sequence' = sequence /\ enqueuing' \in BOOLEAN
  BY <1>1 DEF EnqueueExisting, QueueRest
<1>3. ASSUME NEW t \in DOMAIN items
      PROVE  /\ items'[t] \in Entry
             /\ items'[t].sequence = items[t].sequence
             /\ items'[t].status = "retry_wait" <=> items'[t].retryAt # NoRetry
  <2>1. items[t] \in Entry /\ (items[t].status = "retry_wait" <=> items[t].retryAt # NoRetry)
    BY <1>1 DEF GoodQueue
  <2>2. CASE t # s
    BY <2>1, <2>2 DEF EnqueueExisting
  <2>3. CASE t = s
    <3>1. items'[t] = Refreshed(items[t], h)
      BY <2>3 DEF EnqueueExisting
    <3>2. NoRetry \in NoRetry..RetryDelay /\ 0 \in 0..MaxAge /\ "pending" \in Status
      BY TimeAssumption DEF NoRetry, MaxAge, Status, WaitingStatus
    <3>. QED
      BY <2>1, <3>1, <3>2 DEF Refreshed, Entry
  <2>. QED
    BY <2>2, <2>3
<1>. QED
  BY <1>1, <1>2, <1>3, ChangeStep

LEMMA EnqueueNewStep ==
    ASSUME QueueInv, NEW s \in Signature, NEW h \in Hint, EnqueueNew(s, h)
    PROVE  QueueInv'
<1>1. GoodQueue(items, sequence) /\ Sized(items) /\ QueueRest
  BY QueueInvIsGood DEF QueueRest
<1>. DEFINE r == Added(items, s, Fresh(sequence + 1, h))
<1>2. /\ s \notin DOMAIN items /\ sequence < MaxSequence
      /\ items' \in Trimmed(r) /\ sequence' = sequence + 1 /\ enqueuing' = enqueuing
  BY DEF EnqueueNew, Queued
<1>3. sequence \in 0..MaxSequence
  BY <1>1 DEF QueueRest
<1>4. /\ GoodQueue(r, sequence + 1)
      /\ Cardinality(DOMAIN r) = Cardinality(DOMAIN items) + 1
      /\ Removable(r) # {}
  BY <1>1, <1>2, <1>3, AddedGood
<1>5. Cardinality(DOMAIN r) <= MaxSize + 1
  <2>1. Cardinality(DOMAIN items) \in Nat /\ MaxSize \in Nat
    BY <1>1, FS_CardinalityType, SizeAssumption DEF GoodQueue
  <2>. QED
    BY <1>1, <1>4, <2>1 DEF Sized
<1>. HIDE DEF r
<1>6. GoodQueue(items', sequence + 1) /\ Sized(items')
  BY <1>2, <1>4, <1>5, TrimmedGood
<1>7. QueueRest'
  BY <1>1, <1>2, BoundAssumption DEF QueueRest
<1>. QED
  BY <1>2, <1>6, <1>7, NextIsGood

\* What claim_next works on: the queue pruned, and its due retries promoted.
LEMMA ClaimBase ==
    ASSUME QueueInv
    PROVE  /\ GoodQueue(Promoted(Pruned(items)), sequence)
           /\ Sized(Promoted(Pruned(items)))
           /\ QueueRest
<1>1. GoodQueue(items, sequence) /\ Sized(items) /\ QueueRest
  BY QueueInvIsGood DEF QueueRest
<1>2. GoodQueue(Drop(items, Expired(items)), sequence)
  BY <1>1, DropGood
<1>3. Sized(Drop(items, Expired(items)))
  BY <1>1, DropSized DEF GoodQueue
<1>4. GoodQueue(Pruned(items), sequence) /\ Sized(Pruned(items))
  BY <1>2, <1>3 DEF Pruned
<1>. QED
  BY <1>1, <1>4, PromotedGood

\* In a good dictionary the order of claims is strict and total.
LEMMA ClaimOrder ==
    ASSUME NEW q, NEW n, GoodQueue(q, n)
    PROVE  /\ \A s \in DOMAIN q : ~ClaimedBefore(q[s], q[s])
           /\ \A s, t \in DOMAIN q :
                s # t => ClaimedBefore(q[s], q[t]) \/ ClaimedBefore(q[t], q[s])
           /\ \A s, t, u \in DOMAIN q :
                ClaimedBefore(q[s], q[t]) /\ ClaimedBefore(q[t], q[u])
                    => ClaimedBefore(q[s], q[u])
<1>1. \A s \in DOMAIN q : q[s].hint \in Int /\ q[s].sequence \in Int
  <2>. SUFFICES ASSUME NEW s \in DOMAIN q
                PROVE  q[s].hint \in Int /\ q[s].sequence \in Int
    OBVIOUS
  <2>1. q[s].hint \in Hint /\ q[s].sequence \in 1..MaxSequence
    BY DEF GoodQueue, Entry
  <2>2. q[s].hint \in Int
    BY <2>1, HintAssumption, Zenon
  <2>. QED
    BY <2>1, <2>2, BoundAssumption
<1>2. \A s, t \in DOMAIN q : q[s].sequence = q[t].sequence => s = t
  BY DEF GoodQueue
<1>. QED
  BY <1>1, <1>2 DEF ClaimedBefore

\* Of a finite dictionary's pending entries one comes before all others.  The
\* sets of those claimed before a candidate are finite, so one is least.
LEMMA FirstExists ==
    ASSUME NEW q, NEW n, GoodQueue(q, n), Holding(q, {"pending"}) # {}
    PROVE  \E s \in DOMAIN q : Claimable(q) = {s}
<1>. DEFINE P == Holding(q, {"pending"})
            Earlier(s) == {t \in P : ClaimedBefore(q[t], q[s])}
            T == {Earlier(s) : s \in P}
<1>1. P \subseteq DOMAIN q /\ P # {}
  BY DEF Holding
<1>2. IsFiniteSet(P)
  BY <1>1, FS_Subset DEF GoodQueue
<1>3. T \subseteq FiniteSubsetsOf(P) /\ T # {}
  <2>1. ASSUME NEW s \in P PROVE Earlier(s) \in FiniteSubsetsOf(P)
    <3>1. Earlier(s) \in SUBSET P
      OBVIOUS
    <3>2. IsFiniteSet(Earlier(s))
      BY <1>2, <3>1, FS_Subset
    <3>. QED
      BY <3>1, <3>2 DEF FiniteSubsetsOf
  <2>. QED
    BY <1>1, <2>1
<1>4. PICK U \in T : \A V \in T : ~(<<V, U>> \in StrictSubsetOrdering(P))
  <2>. HIDE DEF T, P
  <2>. QED
    BY <1>3, FS_StrictSubsetOrderingWellFounded, WFMin
<1>5. PICK s \in P : U = Earlier(s)
  BY <1>4
<1>6. \A t \in P : ~ClaimedBefore(q[t], q[s])
  <2>. SUFFICES ASSUME NEW t \in P, ClaimedBefore(q[t], q[s])
                PROVE  FALSE
    OBVIOUS
  <2>1. Earlier(t) \subseteq Earlier(s)
    BY <1>1, ClaimOrder
  <2>2. t \in Earlier(s) /\ t \notin Earlier(t)
    BY <1>1, ClaimOrder
  <2>3. <<Earlier(t), Earlier(s)>> \in (SUBSET P) \X (SUBSET P)
    OBVIOUS
  <2>4. <<Earlier(t), Earlier(s)>> \in StrictSubsetOrdering(P)
    BY <2>1, <2>2, <2>3 DEF StrictSubsetOrdering
  <2>. QED
    BY <1>4, <1>5, <2>4
<1>7. s \in Claimable(q)
  BY <1>1, <1>5, <1>6, ClaimOrder DEF Claimable
<1>8. ASSUME NEW t \in Claimable(q) PROVE t = s
  BY <1>1, <1>6, <1>8 DEF Claimable
<1>. QED
  BY <1>1, <1>7, <1>8

LEMMA ClaimStep ==
    ASSUME QueueInv, NEW s \in Signature, Claim(s)
    PROVE  QueueInv'
<1>. DEFINE q == Promoted(Pruned(items))
<1>1. GoodQueue(q, sequence) /\ Sized(q) /\ QueueRest
  BY ClaimBase
<1>2. /\ items' = [q EXCEPT ![s].status = "processing", ![s].age = 0,
                           ![s].attempts = IF @ < MaxAttempts THEN @ + 1 ELSE @]
      /\ sequence' = sequence /\ enqueuing' = enqueuing
      /\ s \in DOMAIN q /\ q[s].status = "pending"
  BY DEF Claim, Claimable, Holding
<1>. HIDE DEF q
<1>3. DOMAIN items' = DOMAIN q /\ enqueuing' \in BOOLEAN
  BY <1>1, <1>2 DEF QueueRest
<1>4. ASSUME NEW t \in DOMAIN q
      PROVE  /\ items'[t] \in Entry
             /\ items'[t].sequence = q[t].sequence
             /\ items'[t].status = "retry_wait" <=> items'[t].retryAt # NoRetry
  <2>1. q[t] \in Entry /\ (q[t].status = "retry_wait" <=> q[t].retryAt # NoRetry)
    BY <1>1 DEF GoodQueue
  <2>2. CASE t # s
    BY <1>2, <2>1, <2>2
  <2>3. CASE t = s
    <3>1. items'[t] = [q[t] EXCEPT !.status = "processing", !.age = 0,
                         !.attempts = IF @ < MaxAttempts THEN @ + 1 ELSE @]
      BY <1>2, <2>3
    <3>2. 0 \in 0..MaxAge /\ "processing" \in Status
      BY TimeAssumption DEF MaxAge, Status
    <3>. QED
      BY <1>2, <2>1, <2>3, <3>1, <3>2, AttemptsAssumption DEF Entry
  <2>. QED
    BY <2>2, <2>3
<1>. QED
  BY <1>1, <1>2, <1>3, <1>4, ChangeStep

LEMMA ClaimNothingStep ==
    ASSUME QueueInv, ClaimNothing
    PROVE  QueueInv'
<1>1. /\ GoodQueue(Promoted(Pruned(items)), sequence)
      /\ Sized(Promoted(Pruned(items))) /\ QueueRest
  BY ClaimBase
<1>2. items' = Promoted(Pruned(items)) /\ sequence' = sequence /\ enqueuing' = enqueuing
  BY DEF ClaimNothing
<1>3. QueueRest'
  BY <1>1, <1>2 DEF QueueRest
<1>4. GoodQueue(items', sequence') /\ Sized(items')
  BY <1>1, <1>2
<1>. QED
  BY <1>3, <1>4, NextIsGood

LEMMA CompleteStep ==
    ASSUME QueueInv, NEW s \in Signature, NEW status \in FinalStatus, Complete(s, status)
    PROVE  QueueInv'
<1>1. GoodQueue(items, sequence) /\ Sized(items) /\ QueueRest
  BY QueueInvIsGood DEF QueueRest
<1>2. DOMAIN items' = DOMAIN items /\ sequence' = sequence /\ enqueuing' \in BOOLEAN
  BY <1>1 DEF Complete, QueueRest
<1>3. ASSUME NEW t \in DOMAIN items
      PROVE  /\ items'[t] \in Entry
             /\ items'[t].sequence = items[t].sequence
             /\ items'[t].status = "retry_wait" <=> items'[t].retryAt # NoRetry
  <2>1. items[t] \in Entry /\ (items[t].status = "retry_wait" <=> items[t].retryAt # NoRetry)
    BY <1>1 DEF GoodQueue
  <2>2. CASE t # s
    BY <2>1, <2>2 DEF Complete
  <2>3. CASE t = s
    <3>1. items'[t] = [items[t] EXCEPT !.status = status, !.age = 0, !.retryAt = NoRetry]
      BY <2>3 DEF Complete, Queued
    <3>2. /\ NoRetry \in NoRetry..RetryDelay /\ 0 \in 0..MaxAge
          /\ status \in Status /\ status # "retry_wait"
      BY TimeAssumption DEF NoRetry, MaxAge, Status, FinalStatus, CoolingStatus, OpenStatus
    <3>. QED
      BY <2>1, <3>1, <3>2 DEF Entry
  <2>. QED
    BY <2>2, <2>3
<1>. QED
  BY <1>1, <1>2, <1>3, ChangeStep

LEMMA RequeueStep ==
    ASSUME QueueInv, NEW s \in Signature, Requeue(s)
    PROVE  QueueInv'
<1>1. GoodQueue(items, sequence) /\ Sized(items) /\ QueueRest
  BY QueueInvIsGood DEF QueueRest
<1>2. DOMAIN items' = DOMAIN items /\ sequence' = sequence /\ enqueuing' \in BOOLEAN
  BY <1>1 DEF Requeue, QueueRest
<1>3. ASSUME NEW t \in DOMAIN items
      PROVE  /\ items'[t] \in Entry
             /\ items'[t].sequence = items[t].sequence
             /\ items'[t].status = "retry_wait" <=> items'[t].retryAt # NoRetry
  <2>1. items[t] \in Entry /\ (items[t].status = "retry_wait" <=> items[t].retryAt # NoRetry)
    BY <1>1 DEF GoodQueue
  <2>2. CASE t # s
    BY <2>1, <2>2 DEF Requeue
  <2>3. CASE t = s
    <3>1. items'[t] = [items[t] EXCEPT
                         !.status = IF RetryDelay > 0 THEN "retry_wait" ELSE "pending",
                         !.age = 0,
                         !.retryAt = IF RetryDelay > 0 THEN RetryDelay ELSE NoRetry]
      BY <2>3 DEF Requeue, Queued
    <3>2. /\ NoRetry \in NoRetry..RetryDelay /\ 0 \in 0..MaxAge
          /\ RetryDelay \in NoRetry..RetryDelay
          /\ "retry_wait" \in Status /\ "pending" \in Status
          /\ RetryDelay > 0 => RetryDelay # NoRetry
      BY TimeAssumption DEF NoRetry, MaxAge, Status, WaitingStatus
    <3>. QED
      BY <2>1, <3>1, <3>2 DEF Entry
  <2>. QED
    BY <2>2, <2>3
<1>. QED
  BY <1>1, <1>2, <1>3, ChangeStep

LEMMA TickStep ==
    ASSUME QueueInv, Tick
    PROVE  QueueInv'
<1>1. GoodQueue(items, sequence) /\ Sized(items) /\ QueueRest
  BY QueueInvIsGood DEF QueueRest
<1>2. DOMAIN items' = DOMAIN items /\ sequence' = sequence /\ enqueuing' \in BOOLEAN
  BY <1>1 DEF Tick, QueueRest, Queued
<1>3. ASSUME NEW t \in DOMAIN items
      PROVE  /\ items'[t] \in Entry
             /\ items'[t].sequence = items[t].sequence
             /\ items'[t].status = "retry_wait" <=> items'[t].retryAt # NoRetry
  <2>1. items[t] \in Entry /\ (items[t].status = "retry_wait" <=> items[t].retryAt # NoRetry)
    BY <1>1 DEF GoodQueue
  <2>2. items'[t] = Aged(items[t])
    BY DEF Tick, Queued
  <2>3. MaxAge \in Nat /\ NoRetry = -1
    BY TimeAssumption DEF MaxAge, NoRetry
  <2>. DEFINE e == items[t]
             age == IF e.age < MaxAge THEN e.age + 1 ELSE e.age
             retryAt == IF e.retryAt > 0 THEN e.retryAt - 1 ELSE e.retryAt
  <2>4. items'[t] = [e EXCEPT !.age = age, !.retryAt = retryAt]
    BY <2>1, <2>2 DEF Aged, Entry
  <2>5. age \in 0..MaxAge
    BY <2>1, <2>3 DEF Entry
  <2>6. retryAt \in NoRetry..RetryDelay /\ (retryAt = NoRetry <=> e.retryAt = NoRetry)
    BY <2>1, <2>3, TimeAssumption DEF Entry
  <2>. HIDE DEF age, retryAt
  <2>. QED
    BY <2>1, <2>4, <2>5, <2>6 DEF Entry
<1>. QED
  BY <1>1, <1>2, <1>3, ChangeStep

LEMMA EnqueueEndStep ==
    ASSUME QueueInv, EnqueueEnd
    PROVE  QueueInv'
BY DEF EnqueueEnd, QueueInv, QueueTypeOK, Queued, SizeBound, SequenceSound, RetryHasTime

\* Every method preserves the invariant of the queue (class CowCandidateQueue),
\* whatever the order they are called in.
THEOREM QueueStepInvariance ==
    ASSUME QueueInv, QueueStep \/ UNCHANGED queueVars
    PROVE  QueueInv'
<1>1. ASSUME EnqueueBegin PROVE QueueInv'
  <2>1. /\ items' = Drop(items, Expired(items)) /\ sequence' = sequence
        /\ enqueuing' \in BOOLEAN
    BY <1>1 DEF EnqueueBegin, Pruned
  <2>. QED
    BY <2>1, DropStep
<1>2. ASSUME NEW S, RemoveStatuses(S) PROVE QueueInv'
  <2>1. /\ items' = Drop(items, Holding(items, S \ {"processing"}))
        /\ sequence' = sequence /\ enqueuing' \in BOOLEAN
    BY <1>2 DEF RemoveStatuses, QueueInv, QueueTypeOK
  <2>. QED
    BY <2>1, DropStep
<1>3. ASSUME NEW N, RetainNetworks(N) PROVE QueueInv'
  <2>. DEFINE S == {s \in Queued : items[s].status # "processing" /\ NetworkOf[s] \notin N}
  <2>1. items' = Drop(items, S) /\ sequence' = sequence /\ enqueuing' \in BOOLEAN
    BY <1>3 DEF RetainNetworks, QueueInv, QueueTypeOK
  <2>. HIDE DEF S
  <2>. QED
    BY <2>1, DropStep
<1>4. ASSUME UNCHANGED queueVars PROVE QueueInv'
  BY <1>4 DEF queueVars, QueueInv, QueueTypeOK, Queued, SizeBound, SequenceSound, RetryHasTime
<1>. QED
  BY <1>1, <1>2, <1>3, <1>4, ClearStep, EnqueueExistingStep, EnqueueNewStep, ClaimStep,
     ClaimNothingStep, CompleteStep, RequeueStep, TickStep, EnqueueEndStep
  DEF QueueStep

LEMMA QueueInitInv ==
    ASSUME QueueInit
    PROVE  QueueInv
<1>1. DOMAIN items = {} /\ sequence = 0 /\ enqueuing = FALSE
  BY DEF QueueInit
<1>2. IsFiniteSet({}) /\ Cardinality({}) = 0
  BY FS_EmptySet
<1>3. SizeBound /\ IsFiniteSet(Queued)
  BY <1>1, <1>2, SizeAssumption DEF SizeBound, Queued
<1>4. QueueTypeOK
  <2>1. enqueuing \in BOOLEAN
    BY DEF QueueInit
  <2>2. sequence \in 0..MaxSequence
    BY <1>1, BoundAssumption
  <2>. QED
    BY <1>1, <2>1, <2>2 DEF QueueTypeOK
<1>. QED
  BY <1>1, <1>3, <1>4 DEF QueueInv, SequenceSound, RetryHasTime, Queued

QueueStepSpec == QueueInit /\ [][QueueStep]_queueVars

\* The queue keeps its types and its size limit, its numbers stay distinct and
\* its retries timed, for any callers: the invariant of the whole class.
THEOREM QueueInvariance == QueueStepSpec => []QueueInv
<1>1. QueueInit => QueueInv
  BY QueueInitInv
<1>2. QueueInv /\ [QueueStep]_queueVars => QueueInv'
  BY QueueStepInvariance
<1>. QED
  BY <1>1, <1>2, PTL DEF QueueStepSpec

\* The queue's state keeps its types whoever calls its methods.
THEOREM QueueTypeCorrect == QueueStepSpec => []QueueTypeOK
<1>1. QueueInv => QueueTypeOK
  BY DEF QueueInv
<1>. QED
  BY <1>1, QueueInvariance, PTL

\* claim_next is never at a loss: with a candidate pending, exactly one comes
\* first, for any number of candidates and any profits.
THEOREM QueueOneToClaim == QueueStepSpec => []OneToClaim
<1>1. QueueInv => OneToClaim
  <2>. SUFFICES ASSUME QueueInv PROVE OneToClaim
    OBVIOUS
  <2>. DEFINE q == Promoted(Pruned(items))
  <2>1. GoodQueue(q, sequence) /\ DOMAIN q \subseteq Queued
    <3>1. DOMAIN q \subseteq Queued
      BY DEF Promoted, Pruned, Drop, Restrict, Queued
    <3>. QED
      BY <3>1, ClaimBase
  <2>2. ASSUME Holding(q, {"pending"}) # {}
        PROVE  \E s \in Queued : Claimable(q) = {s}
    <3>. HIDE DEF q
    <3>. QED
      BY <2>1, <2>2, FirstExists
  <2>. QED
    BY <2>2 DEF OneToClaim
<1>. QED
  BY <1>1, QueueInvariance, PTL

\* max_size bounds the queue although entries being processed are exempt.
THEOREM QueueSizeBound == QueueStepSpec => []SizeBound
<1>1. QueueInv => SizeBound
  BY DEF QueueInv
<1>. QED
  BY <1>1, QueueInvariance, PTL

\* The numbers that order claims are never shared.
THEOREM QueueSequenceSound == QueueStepSpec => []SequenceSound
<1>1. QueueInv => SequenceSound
  BY DEF QueueInv
<1>. QED
  BY <1>1, QueueInvariance, PTL

\* No entry waits for a retry that has no time.
THEOREM QueueRetryHasTime == QueueStepSpec => []RetryHasTime
<1>1. QueueInv => RetryHasTime
  BY DEF QueueInv
<1>. QED
  BY <1>1, QueueInvariance, PTL

-----------------------------------------------------------------------------
(* What each method does to entries being processed and entries waiting.    *)

Processing(q, s) == s \in DOMAIN q /\ q[s].status = "processing"
Waiting(q, s) == s \in DOMAIN q /\ q[s].status \in WaitingStatus

\* From q to r, candidates outside S start or stop being processed nowhere, and
\* none of them comes to wait.
Frame(q, r, S) ==
    \A s \in Signature \ S :
        /\ Processing(r, s) <=> Processing(q, s)
        /\ Processing(q, s) => r[s].attempts = q[s].attempts
        /\ Waiting(r, s) => Waiting(q, s)

\* Dropping entries that are not being processed.
LEMMA DropFrame ==
    ASSUME NEW q, NEW S, \A s \in S : ~Processing(q, s)
    PROVE  Frame(q, Drop(q, S), {})
BY DEF Frame, Drop, Restrict, Processing, Waiting

LEMMA PrunedFrame ==
    ASSUME NEW q
    PROVE  Frame(q, Pruned(q), {})
<1>1. \A s \in Expired(q) : ~Processing(q, s)
  BY DEF Expired, Processing
<1>2. Frame(q, Drop(q, Expired(q)), {})
  BY <1>1, DropFrame
<1>. QED
  BY <1>2 DEF Pruned

LEMMA PromotedFrame ==
    ASSUME NEW q, NEW n, GoodQueue(q, n)
    PROVE  Frame(q, Promoted(q), {})
<1>. SUFFICES ASSUME NEW s \in Signature
              PROVE  /\ Processing(Promoted(q), s) <=> Processing(q, s)
                     /\ Processing(q, s) => Promoted(q)[s].attempts = q[s].attempts
                     /\ Waiting(Promoted(q), s) => Waiting(q, s)
  BY DEF Frame
<1>1. DOMAIN Promoted(q) = DOMAIN q
  BY DEF Promoted
<1>2. CASE s \notin DOMAIN q
  BY <1>1, <1>2 DEF Processing, Waiting
<1>3. CASE s \in DOMAIN q /\ Due(q[s])
  <2>1. q[s] \in Entry /\ q[s].status = "retry_wait"
    BY <1>3 DEF GoodQueue, Due
  <2>2. Promoted(q)[s].status = "pending"
    BY <1>3, <2>1 DEF Promoted, Entry
  <2>. QED
    BY <1>1, <1>3, <2>1, <2>2 DEF Processing, Waiting, WaitingStatus
<1>4. CASE s \in DOMAIN q /\ ~Due(q[s])
  <2>1. Promoted(q)[s] = q[s]
    BY <1>4 DEF Promoted
  <2>. QED
    BY <1>1, <2>1 DEF Processing, Waiting
<1>. QED
  BY <1>2, <1>3, <1>4

LEMMA ClaimBaseFrame ==
    ASSUME QueueInv
    PROVE  Frame(items, Promoted(Pruned(items)), {})
<1>1. GoodQueue(items, sequence)
  BY QueueInvIsGood
<1>2. GoodQueue(Drop(items, Expired(items)), sequence)
  BY <1>1, DropGood
<1>3. Frame(Pruned(items), Promoted(Pruned(items)), {})
  BY <1>2, PromotedFrame DEF Pruned
<1>4. Frame(items, Pruned(items), {})
  BY PrunedFrame
<1>. QED
  BY <1>3, <1>4 DEF Frame

\* Methods that drop, promote or age entries disturb none being processed.
LEMMA QuietFrame ==
    ASSUME QueueInv,
           \/ EnqueueBegin \/ EnqueueEnd \/ ClaimNothing \/ Tick
           \/ \E S \in SUBSET Status : RemoveStatuses(S)
           \/ \E N \in SUBSET Network : RetainNetworks(N)
           \/ UNCHANGED queueVars
    PROVE  Frame(items, items', {})
<1>1. CASE EnqueueBegin
  BY <1>1, PrunedFrame DEF EnqueueBegin
<1>2. CASE EnqueueEnd \/ UNCHANGED queueVars
  BY <1>2 DEF EnqueueEnd, queueVars, Frame
<1>3. CASE ClaimNothing
  BY <1>3, ClaimBaseFrame DEF ClaimNothing
<1>4. CASE Tick
  <2>1. \A s \in DOMAIN items : items[s] \in Entry
    BY DEF QueueInv, QueueTypeOK
  <2>2. DOMAIN items' = DOMAIN items
    BY <1>4 DEF Tick, Queued
  <2>3. \A s \in DOMAIN items : items'[s].status = items[s].status
                                /\ items'[s].attempts = items[s].attempts
    BY <1>4, <2>1 DEF Tick, Queued, Aged, Entry
  <2>. QED
    BY <2>2, <2>3 DEF Frame, Processing, Waiting
<1>5. ASSUME NEW S \in SUBSET Status, RemoveStatuses(S) PROVE Frame(items, items', {})
  <2>1. \A s \in Holding(items, S \ {"processing"}) : ~Processing(items, s)
    BY DEF Holding, Processing
  <2>2. Frame(items, Drop(items, Holding(items, S \ {"processing"})), {})
    BY <2>1, DropFrame
  <2>. QED
    BY <1>5, <2>2 DEF RemoveStatuses
<1>6. ASSUME NEW N \in SUBSET Network, RetainNetworks(N) PROVE Frame(items, items', {})
  <2>. DEFINE S == {s \in Queued : items[s].status # "processing" /\ NetworkOf[s] \notin N}
  <2>1. \A s \in S : ~Processing(items, s)
    BY DEF Processing
  <2>2. items' = Drop(items, S)
    BY <1>6 DEF RetainNetworks
  <2>. HIDE DEF S
  <2>3. Frame(items, Drop(items, S), {})
    BY <2>1, DropFrame
  <2>. QED
    BY <2>2, <2>3
<1>. QED
  BY <1>1, <1>2, <1>3, <1>4, <1>5, <1>6

\* claim_next disturbs no other candidate, and the one it takes was waiting.
LEMMA ClaimFrame ==
    ASSUME QueueInv, NEW s \in Signature, Claim(s)
    PROVE  /\ Frame(items, items', {s})
           /\ Waiting(items, s)
           /\ Processing(items', s)
           /\ items'[s].attempts \in 1..MaxAttempts
<1>. DEFINE q == Promoted(Pruned(items))
<1>1. /\ items' = [q EXCEPT ![s].status = "processing", ![s].age = 0,
                           ![s].attempts = IF @ < MaxAttempts THEN @ + 1 ELSE @]
      /\ s \in DOMAIN q /\ q[s].status = "pending"
  BY DEF Claim, Claimable, Holding
<1>2. Frame(items, q, {}) /\ GoodQueue(q, sequence)
  BY ClaimBaseFrame, ClaimBase
<1>. HIDE DEF q
<1>3. Waiting(items, s)
  BY <1>1, <1>2 DEF Frame, Waiting, WaitingStatus
<1>4. DOMAIN items' = DOMAIN q /\ \A t \in DOMAIN q \ {s} : items'[t] = q[t]
  BY <1>1
<1>5. Frame(items, items', {s})
  BY <1>2, <1>4 DEF Frame, Processing, Waiting
<1>6. q[s] \in Entry
  BY <1>1, <1>2 DEF GoodQueue
<1>7. /\ items'[s].status = "processing"
      /\ items'[s].attempts =
            IF q[s].attempts < MaxAttempts THEN q[s].attempts + 1 ELSE q[s].attempts
  BY <1>1, <1>6 DEF Entry
<1>8. items'[s].attempts \in 1..MaxAttempts
  BY <1>6, <1>7, AttemptsAssumption DEF Entry
<1>. QED
  BY <1>1, <1>3, <1>4, <1>5, <1>7, <1>8 DEF Processing

\* complete and requeue disturb no other candidate.
LEMMA CompleteFrame ==
    ASSUME QueueInv, NEW s \in Signature, NEW status \in FinalStatus, Complete(s, status)
    PROVE  /\ Frame(items, items', {s})
           /\ ~Processing(items', s)
           /\ ~Waiting(items', s)
<1>1. DOMAIN items' = DOMAIN items /\ \A t \in DOMAIN items \ {s} : items'[t] = items[t]
  BY DEF Complete
<1>2. s \in DOMAIN items => items'[s].status = status
  BY DEF Complete, Queued, QueueInv, QueueTypeOK, Entry
<1>. QED
  BY <1>1, <1>2 DEF Frame, Processing, Waiting, WaitingStatus, FinalStatus, CoolingStatus, OpenStatus

LEMMA RequeueFrame ==
    ASSUME QueueInv, NEW s \in Signature, Requeue(s)
    PROVE  Frame(items, items', {s}) /\ ~Processing(items', s)
<1>1. DOMAIN items' = DOMAIN items /\ \A t \in DOMAIN items \ {s} : items'[t] = items[t]
  BY DEF Requeue
<1>2. s \in DOMAIN items => items'[s].status \in {"retry_wait", "pending"}
  BY DEF Requeue, Queued, QueueInv, QueueTypeOK, Entry
<1>. QED
  BY <1>1, <1>2 DEF Frame, Processing, Waiting

\* enqueue_many may make its candidate wait, but neither refreshing an entry nor
\* adding and trimming disturbs one being processed.
LEMMA EnqueueFrame ==
    ASSUME QueueInv, NEW s \in Signature, NEW h \in Hint,
           EnqueueExisting(s, h) \/ EnqueueNew(s, h)
    PROVE  /\ Frame(items, items', {s})
           /\ Processing(items', s) <=> Processing(items, s)
           /\ Processing(items, s) => items'[s].attempts = items[s].attempts
<1>1. CASE EnqueueExisting(s, h)
  <2>1. /\ s \in DOMAIN items /\ DOMAIN items' = DOMAIN items
        /\ \A t \in DOMAIN items \ {s} : items'[t] = items[t]
    BY <1>1 DEF EnqueueExisting, Queued
  <2>2. items[s] \in Entry /\ items'[s] = Refreshed(items[s], h)
    BY <1>1, <2>1 DEF EnqueueExisting, QueueInv, QueueTypeOK
  <2>3. /\ items'[s].attempts = items[s].attempts
        /\ items'[s].status = IF items[s].status = "processing" THEN items[s].status
                                                                ELSE "pending"
    BY <2>2 DEF Refreshed, Entry
  <2>. QED
    BY <2>1, <2>3 DEF Frame, Processing, Waiting
<1>2. CASE EnqueueNew(s, h)
  <2>. DEFINE q == Added(items, s, Fresh(sequence + 1, h))
  <2>1. s \notin DOMAIN items /\ items' \in Trimmed(q)
    BY <1>2 DEF EnqueueNew, Queued
  <2>2. /\ DOMAIN q = DOMAIN items \cup {s}
        /\ q[s].status = "pending"
        /\ \A t \in DOMAIN items : q[t] = items[t]
    BY <2>1 DEF Added, Fresh
  <2>. HIDE DEF q
  <2>3. Frame(q, items', {})
    <3>1. CASE items' = q
      BY <3>1 DEF Frame
    <3>2. ASSUME NEW v \in TrimVictims(q), items' = Drop(q, {v}) PROVE Frame(q, items', {})
      <4>1. \A t \in {v} : ~Processing(q, t)
        BY DEF TrimVictims, Removable, Processing
      <4>2. Frame(q, Drop(q, {v}), {})
        BY <4>1, DropFrame
      <4>. QED
        BY <3>2, <4>2
    <3>3. items' = q \/ \E v \in TrimVictims(q) : items' = Drop(q, {v})
      BY <2>1, Zenon DEF Trimmed
    <3>. QED
      BY <3>1, <3>2, <3>3
  <2>4. Frame(items, q, {s}) /\ ~Processing(q, s) /\ ~Processing(items, s)
    BY <2>1, <2>2 DEF Frame, Processing, Waiting
  <2>. QED
    BY <2>3, <2>4 DEF Frame
<1>. QED
  BY <1>1, <1>2
=============================================================================
