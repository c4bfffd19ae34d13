-------------------- MODULE LiquidationSubmission_proofs --------------------
(***************************************************************************)
(* Proofs about LiquidationSubmission for any number of threads.           *)
(***************************************************************************)
EXTENDS LiquidationSubmission, TLAPS

\* A thread has a nonce exactly between acquire and the end of the broadcast,
\* and then works with an initialized manager.
Control ==
    \A t \in Thread :
        /\ nonce[t] # None <=> pc[t] \in {"build", "broadcast"}
        /\ pc[t] \in {"register", "acquire", "build", "broadcast"} =>
                using[t] \in Thread /\ next[using[t]] # None
        /\ pc[t] \in {"idle", "create", "receipt"} => using[t] = NoManager

\* A thread about to create its manager has none yet: it was idle while
\* there was no manager to be found.
Creation ==
    /\ registry # NoManager => next[registry] # None
    /\ \A t \in Thread :
        /\ pc[t] = "create" => next[t] = None
        /\ pc[t] = "register" => using[t] = t
        /\ pc[t] = "idle" /\ registry = NoManager => next[t] = None
        /\ pc[t] \in {"acquire", "build", "broadcast", "receipt"} => registry # NoManager

HeldFrom(m, n) == \E t \in Thread : using[t] = m /\ nonce[t] = n

\* What a manager has handed out is shared out between the threads that hold
\* it, what was released, sent and stranded, without overlap.
Ledger ==
    \A m \in Thread :
        /\ next[m] = None =>
            first[m] = None /\ released[m] = {} /\ sent[m] = {} /\ stranded[m] = {}
        /\ next[m] # None => first[m] # None /\ first[m] <= next[m]
        /\ next[m] # None =>
            \A n \in Nonce :
                first[m] <= n /\ n < next[m] <=>
                    n \in released[m] \cup sent[m] \cup stranded[m] \/ HeldFrom(m, n)
        /\ \A n \in released[m] : n \notin sent[m] \cup stranded[m] /\ ~HeldFrom(m, n)
        /\ \A n \in sent[m] \cup stranded[m] : ~HeldFrom(m, n)

IInv == TypeOK /\ Control /\ Creation /\ Ledger /\ ManagerExclusive
-----------------------------------------------------------------------------

\* The invariant holds when the first process starts, on an empty chain.
LEMMA InitInv == Init => IInv
BY MaxNonceAssumption, ThreadAssumption
   DEF Init, ProcessInit, ManagerInit, IInv, TypeOK, Control, Creation, Ledger, HeldFrom,
       ManagerExclusive, ThreadPc, None, NoManager, Nonce

LEMMA LookUpFoundInv ==
    ASSUME NEW t \in Thread, IInv, LookUpFound(t) PROVE IInv'
<1> USE MaxNonceAssumption, ThreadAssumption DEF IInv, LookUpFound, Goto, managerVars, chainVars, ledgerVars, threadVars, None, NoManager, Nonce
<1>1. TypeOK'
  BY DEF TypeOK, Control, ThreadPc
<1>2. Control'
  BY DEF TypeOK, Control, Creation, ThreadPc
<1>3. Creation'
  BY DEF TypeOK, Control, Creation, ThreadPc
<1>4. Ledger'
  BY DEF TypeOK, Control, Creation, Ledger, HeldFrom, ThreadPc, ManagerExclusive
<1>5. ManagerExclusive'
  BY DEF TypeOK, Control, Ledger, HeldFrom, ThreadPc, ManagerExclusive
<1>. QED
  BY <1>1, <1>2, <1>3, <1>4, <1>5

LEMMA LookUpMissingInv ==
    ASSUME NEW t \in Thread, IInv, LookUpMissing(t) PROVE IInv'
<1> USE MaxNonceAssumption, ThreadAssumption DEF IInv, LookUpMissing, Goto, managerVars, chainVars, ledgerVars, threadVars, None, NoManager, Nonce
<1>1. TypeOK'
  BY DEF TypeOK, Control, ThreadPc
<1>2. Control'
  BY DEF TypeOK, Control, ThreadPc
<1>3. Creation'
  BY DEF TypeOK, Control, Creation, ThreadPc
<1>4. Ledger'
  BY DEF TypeOK, Control, Creation, Ledger, HeldFrom, ThreadPc, ManagerExclusive
<1>5. ManagerExclusive'
  BY DEF TypeOK, Control, Ledger, HeldFrom, ThreadPc, ManagerExclusive
<1>. QED
  BY <1>1, <1>2, <1>3, <1>4, <1>5

LEMMA CreateInv ==
    ASSUME NEW t \in Thread, NEW n \in 0..MaxNonce, IInv, Create(t, n) PROVE IInv'
<1> USE MaxNonceAssumption, ThreadAssumption DEF IInv, Create, Goto, Initialize, managerVars, chainVars, ledgerVars, threadVars, None, NoManager, Nonce
<1>1. TypeOK'
  BY DEF TypeOK, Control, ThreadPc
<1>2. Control'
  BY DEF TypeOK, Control, ThreadPc
<1>3. Creation'
  BY DEF TypeOK, Control, Creation, ThreadPc
<1>4. Ledger'
  BY DEF TypeOK, Control, Creation, Ledger, HeldFrom, ThreadPc, ManagerExclusive
<1>5. ManagerExclusive'
  BY DEF TypeOK, Control, Ledger, HeldFrom, ThreadPc, ManagerExclusive
<1>. QED
  BY <1>1, <1>2, <1>3, <1>4, <1>5

LEMMA RegisterInv ==
    ASSUME NEW t \in Thread, IInv, Register(t) PROVE IInv'
<1> USE MaxNonceAssumption, ThreadAssumption DEF IInv, Register, Goto, managerVars, chainVars, ledgerVars, threadVars, None, NoManager, Nonce
<1>1. TypeOK'
  BY DEF TypeOK, Control, ThreadPc
<1>2. Control'
  BY DEF TypeOK, Control, ThreadPc
<1>3. Creation'
  BY DEF TypeOK, Control, Creation, ThreadPc
<1>4. Ledger'
  BY DEF TypeOK, Control, Creation, Ledger, HeldFrom, ThreadPc, ManagerExclusive
<1>5. ManagerExclusive'
  BY DEF TypeOK, Control, Ledger, HeldFrom, ThreadPc, ManagerExclusive
<1>. QED
  BY <1>1, <1>2, <1>3, <1>4, <1>5

LEMMA AcquireInv ==
    ASSUME NEW t \in Thread, NEW n \in 0..MaxNonce, IInv, Acquire(t, n) PROVE IInv'
<1> USE MaxNonceAssumption, ThreadAssumption DEF IInv, Acquire, Goto, AcquireReleased, AcquireNext, managerVars, chainVars, ledgerVars, threadVars, None, NoManager, Nonce
<1>1. TypeOK'
  BY DEF TypeOK, Control, ThreadPc
<1>2. Control'
  BY DEF TypeOK, Control, ThreadPc
<1>3. Creation'
  BY DEF TypeOK, Control, Creation, ThreadPc
<1>4. Ledger'
  <2>. DEFINE m == using[t]
  <2>1. m \in Thread /\ next[m] # None /\ nonce[t] = None /\ nonce'[t] = n /\ n \in Nonce
    BY DEF TypeOK, Control, ThreadPc
  <2>2. \A u \in Thread, k \in Nonce : HeldFrom(u, k)' <=> HeldFrom(u, k) \/ (u = m /\ k = n)
    BY <2>1 DEF TypeOK, HeldFrom
  <2>3. ~HeldFrom(m, n) /\ n \notin sent[m] \cup stranded[m]
    BY <2>1 DEF TypeOK, Ledger
  <2>4. CASE AcquireReleased(m, n)
    <3>1. /\ next' = next /\ first' = first /\ sent' = sent /\ stranded' = stranded
          /\ n \in released[m]
          /\ \A u \in Thread : released'[u] = IF u = m THEN released[m] \ {n} ELSE released[u]
      BY <2>1, <2>4 DEF TypeOK
    <3>2. \A k \in released[m] : k \in Nonce
      BY <2>1 DEF TypeOK
    <3>. QED
      BY <2>1, <2>2, <2>3, <3>1, <3>2 DEF TypeOK, Ledger
  <2>5. CASE AcquireNext(m, n)
    <3>1. /\ first' = first /\ sent' = sent /\ stranded' = stranded /\ released' = released
          /\ n = next[m] /\ released[m] = {}
          /\ \A u \in Thread : next'[u] = IF u = m THEN n + 1 ELSE next[u]
      BY <2>1, <2>5 DEF TypeOK
    <3>2. SUFFICES ASSUME NEW u \in Thread PROVE
            /\ next'[u] = None =>
                first'[u] = None /\ released'[u] = {} /\ sent'[u] = {} /\ stranded'[u] = {}
            /\ next'[u] # None => first'[u] # None /\ first'[u] <= next'[u]
            /\ next'[u] # None =>
                \A k \in Nonce :
                    first'[u] <= k /\ k < next'[u] <=>
                        k \in released'[u] \cup sent'[u] \cup stranded'[u] \/ HeldFrom(u, k)'
            /\ \A k \in released'[u] : k \notin sent'[u] \cup stranded'[u] /\ ~HeldFrom(u, k)'
            /\ \A k \in sent'[u] \cup stranded'[u] : ~HeldFrom(u, k)'
      BY DEF Ledger
    <3>3. CASE u # m
      BY <2>1, <2>2, <3>1, <3>3 DEF TypeOK, Ledger
    <3>4. CASE u = m
      <4>1. first[m] \in Nonce \cup {MaxNonce} /\ first[m] <= n /\ next'[m] = n + 1 /\ n + 1 # None
        BY <2>1, <3>1 DEF TypeOK, Ledger
      <4>2. ASSUME NEW k \in Nonce
            PROVE  first[m] <= k /\ k < n + 1 <=>
                    k \in released[m] \cup sent[m] \cup stranded[m] \/ HeldFrom(m, k)'
        <5>1. first[m] <= k /\ k < n <=>
                    k \in released[m] \cup sent[m] \cup stranded[m] \/ HeldFrom(m, k)
          BY <2>1, <3>1 DEF Ledger
        <5>2. HeldFrom(m, k)' <=> HeldFrom(m, k) \/ k = n
          BY <2>1, <2>2
        <5>3. k \in Int /\ n \in Int /\ first[m] \in Int
          BY <2>1, <4>1
        <5>. QED
          BY <4>1, <5>1, <5>2, <5>3
      <4>3. \A k \in sent[m] \cup stranded[m] : k # n /\ ~HeldFrom(m, k)'
        BY <2>1, <2>2, <2>3 DEF TypeOK, Ledger
      <4>. QED
        BY <2>1, <3>1, <3>4, <4>1, <4>2, <4>3
    <3>. QED
      BY <3>3, <3>4
  <2>. QED
    BY <2>4, <2>5
<1>5. ManagerExclusive'
  BY DEF TypeOK, Control, Ledger, HeldFrom, ThreadPc, ManagerExclusive
<1>. QED
  BY <1>1, <1>2, <1>3, <1>4, <1>5

LEMMA BuildInv ==
    ASSUME NEW t \in Thread, IInv, Build(t) PROVE IInv'
<1> USE MaxNonceAssumption, ThreadAssumption DEF IInv, Build, Goto, managerVars, chainVars, ledgerVars, threadVars, None, NoManager, Nonce
<1>1. TypeOK'
  BY DEF TypeOK, Control, ThreadPc
<1>2. Control'
  BY DEF TypeOK, Control, ThreadPc
<1>3. Creation'
  BY DEF TypeOK, Control, Creation, ThreadPc
<1>4. Ledger'
  BY DEF TypeOK, Control, Creation, Ledger, HeldFrom, ThreadPc, ManagerExclusive
<1>5. ManagerExclusive'
  BY DEF TypeOK, Control, Ledger, HeldFrom, ThreadPc, ManagerExclusive
<1>. QED
  BY <1>1, <1>2, <1>3, <1>4, <1>5

LEMMA BuildFailsInv ==
    ASSUME NEW t \in Thread, IInv, BuildFails(t) PROVE IInv'
<1> USE MaxNonceAssumption, ThreadAssumption DEF IInv, BuildFails, Goto, LetGo, Strand, managerVars, chainVars, ledgerVars, threadVars, None, NoManager, Nonce
<1>1. TypeOK'
  BY DEF TypeOK, Control, ThreadPc
<1>2. Control'
  BY DEF TypeOK, Control, ThreadPc
<1>3. Creation'
  BY DEF TypeOK, Control, Creation, ThreadPc
<1>4. Ledger'
  BY DEF TypeOK, Control, Creation, Ledger, HeldFrom, ThreadPc, ManagerExclusive
<1>5. ManagerExclusive'
  BY DEF TypeOK, Control, Ledger, HeldFrom, ThreadPc, ManagerExclusive
<1>. QED
  BY <1>1, <1>2, <1>3, <1>4, <1>5

LEMMA SigningFailsInv ==
    ASSUME NEW t \in Thread, IInv, SigningFails(t) PROVE IInv'
<1> USE MaxNonceAssumption, ThreadAssumption DEF IInv, SigningFails, Goto, Release, LetGo, managerVars, chainVars, ledgerVars, threadVars, None, NoManager, Nonce
<1>1. TypeOK'
  <2>1. using[t] \in Thread /\ nonce[t] \in Nonce /\ nonce[t] < next[using[t]]
    BY DEF TypeOK, Control, Ledger, HeldFrom, ThreadPc
  <2>. QED
    BY <2>1 DEF TypeOK, Control, ThreadPc
<1>2. Control'
  BY DEF TypeOK, Control, ThreadPc
<1>3. Creation'
  BY DEF TypeOK, Control, Creation, ThreadPc
<1>4. Ledger'
  BY DEF TypeOK, Control, Creation, Ledger, HeldFrom, ThreadPc, ManagerExclusive
<1>5. ManagerExclusive'
  BY DEF TypeOK, Control, Ledger, HeldFrom, ThreadPc, ManagerExclusive
<1>. QED
  BY <1>1, <1>2, <1>3, <1>4, <1>5

LEMMA BroadcastInv ==
    ASSUME NEW t \in Thread, IInv, Broadcast(t) PROVE IInv'
<1> USE MaxNonceAssumption, ThreadAssumption DEF IInv, Broadcast, Goto, SendOut, LetGo, managerVars, chainVars, ledgerVars, threadVars, None, NoManager, Nonce
<1>1. TypeOK'
  BY DEF TypeOK, Control, ThreadPc
<1>2. Control'
  BY DEF TypeOK, Control, ThreadPc
<1>3. Creation'
  BY DEF TypeOK, Control, Creation, ThreadPc
<1>4. Ledger'
  BY DEF TypeOK, Control, Creation, Ledger, HeldFrom, ThreadPc, ManagerExclusive
<1>5. ManagerExclusive'
  BY DEF TypeOK, Control, Ledger, HeldFrom, ThreadPc, ManagerExclusive
<1>. QED
  BY <1>1, <1>2, <1>3, <1>4, <1>5

LEMMA NotBroadcastInv ==
    ASSUME NEW t \in Thread, IInv, NotBroadcast(t) PROVE IInv'
<1> USE MaxNonceAssumption, ThreadAssumption DEF IInv, NotBroadcast, Goto, LetGo, Strand, managerVars, chainVars, ledgerVars, threadVars, None, NoManager, Nonce
<1>1. TypeOK'
  BY DEF TypeOK, Control, ThreadPc
<1>2. Control'
  BY DEF TypeOK, Control, ThreadPc
<1>3. Creation'
  BY DEF TypeOK, Control, Creation, ThreadPc
<1>4. Ledger'
  BY DEF TypeOK, Control, Creation, Ledger, HeldFrom, ThreadPc, ManagerExclusive
<1>5. ManagerExclusive'
  BY DEF TypeOK, Control, Ledger, HeldFrom, ThreadPc, ManagerExclusive
<1>. QED
  BY <1>1, <1>2, <1>3, <1>4, <1>5

LEMMA ReceiptInv ==
    ASSUME NEW t \in Thread, IInv, Receipt(t) PROVE IInv'
<1> USE MaxNonceAssumption, ThreadAssumption DEF IInv, Receipt, Goto, managerVars, chainVars, ledgerVars, threadVars, None, NoManager, Nonce
<1>1. TypeOK'
  BY DEF TypeOK, Control, ThreadPc
<1>2. Control'
  BY DEF TypeOK, Control, ThreadPc
<1>3. Creation'
  BY DEF TypeOK, Control, Creation, ThreadPc
<1>4. Ledger'
  BY DEF TypeOK, Control, Creation, Ledger, HeldFrom, ThreadPc, ManagerExclusive
<1>5. ManagerExclusive'
  BY DEF TypeOK, Control, Ledger, HeldFrom, ThreadPc, ManagerExclusive
<1>. QED
  BY <1>1, <1>2, <1>3, <1>4, <1>5

LEMMA MineInv ==
    ASSUME IInv, Mine PROVE IInv'
BY MaxNonceAssumption, ThreadAssumption
   DEF Mine, IInv, TypeOK, Control, Creation, Ledger, HeldFrom, ManagerExclusive,
       managerVars, threadVars, ledgerVars, Nonce

LEMMA RestartInv ==
    ASSUME IInv, Restart PROVE IInv'
BY MaxNonceAssumption, ThreadAssumption
   DEF Restart, IInv, TypeOK, Control, Creation, Ledger, HeldFrom, ManagerExclusive,
       ThreadPc, chainVars, None, NoManager, Nonce

LEMMA StutterInv ==
    ASSUME IInv, UNCHANGED vars PROVE IInv'
BY DEF IInv, TypeOK, Control, Creation, Ledger, HeldFrom, ManagerExclusive,
       vars, managerVars, threadVars, chainVars, ledgerVars

\* The inductive invariant: who holds which nonce, and what became of every
\* other one, in every interleaving of any number of threads, their
\* failures and restarts of the process.
THEOREM Invariance == Spec => []IInv
<1>1. Init => IInv
  BY InitInv
<1>2. IInv /\ [Next]_vars => IInv'
  <2>. SUFFICES ASSUME IInv, [Next]_vars PROVE IInv'
    OBVIOUS
  <2>1. ASSUME NEW t \in Thread, Step(t) PROVE IInv'
    BY <2>1, LookUpFoundInv, LookUpMissingInv, CreateInv, RegisterInv, AcquireInv, BuildInv,
       BuildFailsInv, SigningFailsInv, BroadcastInv, NotBroadcastInv, ReceiptInv DEF Step
  <2>2. CASE Mine
    BY <2>2, MineInv
  <2>3. CASE Restart
    BY <2>3, RestartInv
  <2>4. CASE UNCHANGED vars
    BY <2>4, StutterInv
  <2>. QED
    BY <2>1, <2>2, <2>3, <2>4 DEF Next
<1>. QED
  BY <1>1, <1>2, PTL DEF Spec

\* The state of the managers, the threads and the chain is well typed.
THEOREM TypeCorrect == Spec => []TypeOK
BY Invariance, PTL DEF IInv

\* Two threads that use one manager never hold the same nonce, whatever is
\* acquired, lost and released meanwhile (NonceManager.acquire, release).
THEOREM Exclusive == Spec => []ManagerExclusive
BY Invariance, PTL DEF IInv

\* A manager never hands a nonce out again that a transaction went out with:
\* the handler of execute_flashloan_liquidation releases a nonce only when
\* nothing was sent.
THEOREM SentNotReused == Spec => []NoReuseOfSent
<1>1. IInv => NoReuseOfSent
  <2>. SUFFICES ASSUME IInv, NEW m \in Thread, NEW n \in sent[m]
                PROVE  n \notin released[m] /\ n \notin Held(m)
    BY DEF NoReuseOfSent
  <2>1. n \notin released[m] /\ ~HeldFrom(m, n)
    BY DEF IInv, Ledger
  <2>. QED
    BY <2>1 DEF Held, Holders, HeldFrom
<1>. QED
  BY <1>1, Invariance, PTL

\* Nothing a manager has handed out goes missing: each nonce is held,
\* released, sent, or stranded by one of the two failures that keep it.
THEOREM Accounted == Spec => []NonceAccounted
<1>1. IInv => NonceAccounted
  <2>. SUFFICES ASSUME IInv, NEW m \in Thread, next[m] # None
                PROVE  first[m]..(next[m] - 1) =
                            released[m] \cup Held(m) \cup sent[m] \cup stranded[m]
    BY DEF NonceAccounted
  <2>1. first[m] \in Nat /\ next[m] \in 0..MaxNonce
    BY MaxNonceAssumption DEF IInv, TypeOK, Ledger, None, Nonce
  <2>2. \A n \in Nonce : n \in Held(m) <=> HeldFrom(m, n)
    BY MaxNonceAssumption DEF Held, Holders, HeldFrom, None, Nonce
  <2>3. released[m] \cup Held(m) \cup sent[m] \cup stranded[m] \subseteq Nonce
    BY DEF IInv, TypeOK, Held, Holders
  <2>4. first[m]..(next[m] - 1) \subseteq Nonce
    BY <2>1, MaxNonceAssumption DEF Nonce
  <2>5. \A n \in Nonce :
            n \in first[m]..(next[m] - 1) <=>
                n \in released[m] \cup Held(m) \cup sent[m] \cup stranded[m]
    BY <2>1, <2>2, MaxNonceAssumption DEF IInv, Ledger, Nonce
  <2>. QED
    BY <2>3, <2>4, <2>5
<1>. QED
  BY <1>1, Invariance, PTL

-----------------------------------------------------------------------------
(* The managers implement NonceLedger.                                       *)

LEMMA HandFacts ==
    ASSUME NEW t \in Thread
    PROVE  /\ InHand[t] = Ledgers!Empty <=> nonce[t] = None
           /\ \A m, n : n # None =>
                (InHand[t] = <<m, n>> <=> using[t] = m /\ nonce[t] = n)
<1>1. \A m, n : <<m, n>> # <<>>
  OBVIOUS
<1>2. CASE nonce[t] = None
  BY <1>1, <1>2 DEF InHand, Ledgers!Empty
<1>3. CASE nonce[t] # None
  BY <1>1, <1>3 DEF InHand, Ledgers!Empty
<1>. QED
  BY <1>2, <1>3

\* Free is what a manager has released or not yet counted up to.
LEMMA FreeFacts ==
    ASSUME IInv, NEW m \in Thread, next[m] # None, NEW n \in Nonce
    PROVE  Ledgers!Free(m, n) <=> n \in released[m] \/ n >= next[m]
<1>1. /\ next[m] \in 0..MaxNonce /\ first[m] \in 0..MaxNonce /\ first[m] # None
      /\ first[m] <= next[m] /\ n \in Int /\ n # None
  BY MaxNonceAssumption DEF IInv, TypeOK, Ledger, None, Nonce
<1>2. HeldFrom(m, n) <=> \E t \in Thread : InHand[t] = <<m, n>>
  BY <1>1, HandFacts DEF HeldFrom
<1>3. Ledgers!Free(m, n) <=>
        first[m] <= n /\ n \notin sent[m] \cup stranded[m] /\ ~HeldFrom(m, n)
  BY <1>1, <1>2 DEF Ledgers!Free, Ledgers!None, None
<1>4. /\ first[m] <= n /\ n < next[m] <=>
            n \in released[m] \cup sent[m] \cup stranded[m] \/ HeldFrom(m, n)
      /\ n \in released[m] => n \notin sent[m] \cup stranded[m] /\ ~HeldFrom(m, n)
  BY <1>1 DEF IInv, Ledger
<1>. QED
  BY <1>1, <1>3, <1>4

LEMMA LedgerGive ==
    ASSUME IInv, NEW t \in Thread, NEW n \in 0..MaxNonce, Acquire(t, n)
    PROVE  Ledgers!Give(t)
<1>. DEFINE m == using[t]
<1>1. /\ m \in Thread /\ next[m] # None /\ next[m] \in 0..MaxNonce
      /\ nonce[t] = None /\ nonce' = [nonce EXCEPT ![t] = n] /\ using' = using
      /\ released[m] \subseteq Nonce /\ \A k \in released[m] : k < next[m]
  BY DEF IInv, Control, TypeOK, Acquire, Goto, None
<1>2. n \in Nonce /\ n # None
  BY <1>1, MaxNonceAssumption DEF Acquire, AcquireReleased, AcquireNext, Nonce, None
<1>3. InHand' = [InHand EXCEPT ![t] = <<m, n>>]
  BY <1>1, <1>2 DEF InHand, IInv, TypeOK
<1>4. Ledgers!Free(m, n) /\ \A k \in Nonce : k < n => ~Ledgers!Free(m, k)
  <2>1. CASE AcquireReleased(m, n)
    BY <1>1, <1>2, <2>1, FreeFacts, MaxNonceAssumption DEF AcquireReleased, Nonce
  <2>2. CASE AcquireNext(m, n)
    BY <1>1, <1>2, <2>2, FreeFacts, MaxNonceAssumption DEF AcquireNext, Nonce
  <2>. QED
    BY <2>1, <2>2 DEF Acquire
<1>5. InHand[t] = Ledgers!Empty /\ InHand'[t] # Ledgers!Empty
  <2>1. InHand'[t] = <<m, n>>
    BY <1>3 DEF InHand
  <2>. QED
    BY <1>1, <2>1, HandFacts DEF Ledgers!Empty
<1>. QED
  BY <1>1, <1>2, <1>3, <1>4, <1>5
     DEF Ledgers!Give, Ledgers!Nonce, Nonce, Acquire, ledgerVars

\* A thread that lets go of its nonce settles that one.
LEMMA LedgerSettle ==
    ASSUME IInv, NEW t \in Thread, pc[t] \in {"build", "broadcast"}, LetGo(t), first' = first,
           \/ UNCHANGED <<sent, stranded>>
           \/ /\ sent' = [sent EXCEPT ![using[t]] = @ \cup {nonce[t]}]
              /\ UNCHANGED stranded
           \/ Strand(t) /\ UNCHANGED sent
    PROVE  Ledgers!Settle(t)
<1>1. nonce[t] # None
  BY DEF IInv, Control
<1>2. InHand[t] = <<using[t], nonce[t]>>
  BY <1>1 DEF InHand
<1>3. InHand' = [InHand EXCEPT ![t] = <<>>]
  BY DEF LetGo, InHand, IInv, TypeOK
<1>4. InHand[t][1] = using[t] /\ InHand[t][2] = nonce[t]
  BY <1>2
<1>5. InHand[t] # Ledgers!Empty /\ InHand'[t] = Ledgers!Empty
  BY <1>1, <1>3, HandFacts DEF InHand, Ledgers!Empty
<1>. QED
  BY <1>3, <1>4, <1>5 DEF Ledgers!Settle, Ledgers!Empty, Strand

LEMMA LedgerStep ==
    ASSUME IInv, [Next]_vars
    PROVE  [Ledgers!Next]_Ledgers!vars
<1>0. nonce \in [Thread -> Nonce \cup {None}] /\ using \in [Thread -> Thread \cup {NoManager}]
  BY DEF IInv, TypeOK
<1>1. ASSUME NEW t \in Thread,
             LookUpFound(t) \/ LookUpMissing(t) \/ Register(t) \/ Build(t) \/ Receipt(t)
      PROVE  UNCHANGED Ledgers!vars
  <2>1. nonce' = nonce /\ UNCHANGED ledgerVars
    BY <1>1 DEF LookUpFound, LookUpMissing, Register, Build, Receipt
  <2>2. \A u \in Thread : nonce[u] # None => using'[u] = using[u]
    BY <1>0, <1>1 DEF LookUpFound, LookUpMissing, Register, Build, Receipt, Goto, IInv, Control
  <2>3. InHand' = InHand
    BY <2>1, <2>2 DEF InHand
  <2>. QED
    BY <2>1, <2>3 DEF Ledgers!vars, ledgerVars
<1>2. ASSUME NEW t \in Thread, NEW n \in 0..MaxNonce, Create(t, n)
      PROVE  Ledgers!Start(t)
  <2>1. first[t] = None /\ first' = [first EXCEPT ![t] = n] /\ nonce[t] = None
    BY <1>2 DEF Create, Goto, IInv, Control, Creation, Ledger
  <2>2. InHand' = InHand
    BY <1>0, <1>2, <2>1 DEF Create, InHand
  <2>3. first'[t] # None
    BY <2>1, MaxNonceAssumption DEF IInv, TypeOK, None
  <2>. QED
    BY <1>2, <2>1, <2>2, <2>3 DEF Create, Ledgers!Start, Ledgers!None, None
<1>3. ASSUME NEW t \in Thread,
             BuildFails(t) \/ SigningFails(t) \/ Broadcast(t) \/ NotBroadcast(t)
      PROVE  Ledgers!Settle(t)
  <2>1. CASE BuildFails(t)
    BY <2>1, LedgerSettle DEF BuildFails, Goto
  <2>2. CASE SigningFails(t)
    BY <2>2, LedgerSettle DEF SigningFails, Goto, ledgerVars
  <2>3. CASE Broadcast(t)
    BY <2>3, LedgerSettle DEF Broadcast, SendOut, Goto
  <2>4. CASE NotBroadcast(t)
    BY <2>4, LedgerSettle DEF NotBroadcast, Goto
  <2>. QED
    BY <1>3, <2>1, <2>2, <2>3, <2>4
<1>4. CASE Mine \/ UNCHANGED vars
  <2>1. UNCHANGED <<nonce, using, first, sent, stranded>>
    BY <1>4 DEF Mine, vars, threadVars, ledgerVars
  <2>. QED
    BY <2>1 DEF InHand, Ledgers!vars
<1>5. ASSUME Restart
      PROVE  Ledgers!Restart
  BY <1>5 DEF Restart, Ledgers!Restart, InHand, Ledgers!Empty, Ledgers!None, None
<1>6. ASSUME NEW t \in Thread, Step(t)
      PROVE  [Ledgers!Next]_Ledgers!vars
  <2>1. ASSUME NEW n \in 0..MaxNonce, Acquire(t, n)
        PROVE  Ledgers!Next
    BY <2>1, LedgerGive DEF Ledgers!Next
  <2>2. ASSUME NEW n \in 0..MaxNonce, Create(t, n)
        PROVE  Ledgers!Next
    BY <1>2, <2>2 DEF Ledgers!Next
  <2>3. CASE BuildFails(t) \/ SigningFails(t) \/ Broadcast(t) \/ NotBroadcast(t)
    BY <1>3, <2>3 DEF Ledgers!Next
  <2>. QED
    BY <1>1, <1>6, <2>1, <2>2, <2>3 DEF Step
<1>7. CASE Restart
  BY <1>5, <1>7 DEF Ledgers!Next
<1>. QED
  BY <1>4, <1>6, <1>7 DEF Next

\* Counter, list and lock of a nonce manager, and the handlers that give nonces
\* back or keep them, implement the ledger, for any number of threads.
THEOREM ManagersImplementLedger == Spec => LowestFreeGiven
<1>1. Init => Ledgers!Init
  BY DEF Init, ProcessInit, Ledgers!Init, InHand, Ledgers!Empty, Ledgers!None, None
<1>2. IInv /\ [Next]_vars => [Ledgers!Next]_Ledgers!vars
  BY LedgerStep
<1>. QED
  BY <1>1, <1>2, Invariance, PTL DEF Spec, LowestFreeGiven, Ledgers!Spec

-----------------------------------------------------------------------------
(* When the race for the manager is over. *)

LEMMA NoConflictAfterRace ==
    ASSUME IInv, RaceOver
    PROVE  NoConflict
<1>. SUFFICES ASSUME NEW t \in Thread, NEW u \in Thread, t # u, nonce[t] # None, nonce[t] = nonce[u]
              PROVE  FALSE
  BY DEF NoConflict
<1>1. using[t] \in Thread /\ using[u] \in Thread
  BY DEF IInv, Control
<1>2. using[t] = using[u]
  BY <1>1, ThreadAssumption DEF RaceOver
<1>. QED
  BY <1>2 DEF IInv, ManagerExclusive

\* No step of a thread begins the race again.
LEMMA RaceStep ==
    ASSUME IInv, RaceOver, NEW t \in Thread, Step(t)
    PROVE  RaceOver'
<1>0. pc \in [Thread -> ThreadPc] /\ using \in [Thread -> Thread \cup {NoManager}]
  BY DEF IInv, TypeOK
<1>1. ~LookUpMissing(t) /\ ~Register(t) /\ \A n \in 0..MaxNonce : ~Create(t, n)
  BY DEF RaceOver, LookUpMissing, Register, Create, Goto
<1>2. CASE LookUpFound(t)
  BY <1>0, <1>2 DEF LookUpFound, Goto, RaceOver
<1>3. ASSUME NEW n \in 0..MaxNonce, Acquire(t, n)
      PROVE  RaceOver'
  BY <1>0, <1>3 DEF Acquire, Goto, RaceOver
<1>4. CASE Build(t) \/ Receipt(t)
  BY <1>0, <1>4 DEF Build, Receipt, Goto, RaceOver
<1>5. CASE BuildFails(t) \/ SigningFails(t)
  BY <1>0, <1>5 DEF BuildFails, SigningFails, LetGo, Goto, RaceOver
<1>6. CASE Broadcast(t) \/ NotBroadcast(t)
  BY <1>0, <1>6 DEF Broadcast, NotBroadcast, LetGo, Goto, RaceOver
<1>. QED
  BY <1>1, <1>2, <1>3, <1>4, <1>5, <1>6 DEF Step

\* The race for the manager is one of the start: once it is over it stays over
\* until the process restarts, and no two threads hold the same nonce.
THEOREM RaceEnds == Spec => RaceStaysOver
<1>1. IInv /\ IInv' /\ [Next]_vars =>
        [RaceOver /\ registry' # NoManager => RaceOver' /\ NoConflict']_vars
  <2>. SUFFICES ASSUME IInv, IInv', Next, RaceOver, registry' # NoManager
                PROVE  RaceOver' /\ NoConflict'
    OBVIOUS
  <2>1. RaceOver'
    <3>1. CASE \E t \in Thread : Step(t)
      BY <3>1, RaceStep
    <3>2. CASE Mine
      BY <3>2 DEF Mine, threadVars, RaceOver
    <3>3. ~Restart
      BY DEF Restart
    <3>. QED
      BY <3>1, <3>2, <3>3 DEF Next
  <2>2. (IInv /\ RaceOver => NoConflict)'
    BY NoConflictAfterRace, PTL
  <2>. QED
    BY <2>1, <2>2
<1>. QED
  BY <1>1, Invariance, PTL DEF Spec, RaceStaysOver

=============================================================================
