------------------------ MODULE LiquidationSubmission ------------------------
(***************************************************************************)
(* The submission of flash-loan liquidations by several threads of one     *)
(* process and one sender: the liquidation engine thread and the threads   *)
(* that serve POST /api/liquidation/account/flashloan.                     *)
(*                                                                         *)
(* Each thread runs execute_flashloan_liquidation                          *)
(* (bot/liquidation/execution_orchestrator.py).  What happens before the   *)
(* nonce manager is asked for (gates, static call, target validation)      *)
(* touches no shared state of this model: the thread then is `idle'.  The  *)
(* node, the relays and the signer are free to answer as they can.         *)
(***************************************************************************)
EXTENDS NonceManager, FiniteSets

VARIABLES
    registry,   \* _NONCE_MANAGERS for this sender: its manager
    pc,         \* where each thread is
    using,      \* the manager each thread works with
    nonce,      \* the nonce each thread has taken
    pool,       \* nonces the node or a relay has taken a transaction for
    mined,      \* nonces below this are mined
    \* history variables
    first,      \* the nonce each manager started from
    sent,       \* nonces taken from each manager that went out
    stranded    \* nonces taken from each manager, neither sent nor released

threadVars == <<pc, using, nonce>>
chainVars == <<pool, mined>>
ledgerVars == <<first, sent, stranded>>
vars == <<managerVars, registry, threadVars, chainVars, ledgerVars>>

NoManager == "none"
Nonce == 0..(MaxNonce - 1)

ASSUME ThreadAssumption == NoManager \notin Thread

ThreadPc == {"idle", "create", "register", "acquire", "build", "broadcast", "receipt"}

\* The transaction count no transaction leaves a gap below.
PendingCount == CHOOSE n \in 0..MaxNonce :
                    n \notin pool /\ \A k \in 0..(n - 1) : k \in pool

ProcessInit ==
    /\ ManagerInit
    /\ registry = NoManager
    /\ pc = [t \in Thread |-> "idle"]
    /\ using = [t \in Thread |-> NoManager]
    /\ nonce = [t \in Thread |-> None]
    /\ first = [m \in Thread |-> None]
    /\ sent = [m \in Thread |-> {}]
    /\ stranded = [m \in Thread |-> {}]

Init == ProcessInit /\ pool = {} /\ mined = 0

Goto(t, from, to) == pc[t] = from /\ pc' = [pc EXCEPT ![t] = to]

-----------------------------------------------------------------------------
(* _nonce_manager: look the manager up, create and initialize one if there *)
(* is none, and register it.  No lock is held across these steps.          *)

LookUpFound(t) ==
    /\ Goto(t, "idle", "acquire")
    /\ registry # NoManager
    /\ using' = [using EXCEPT ![t] = registry]
    /\ UNCHANGED <<managerVars, registry, nonce, chainVars, ledgerVars>>

\* Slip: the key of the table is one of the call, not of the sender, so that
\* nothing is ever found.
LookUpMissingAlways(t) ==
    /\ Goto(t, "idle", "create")
    /\ UNCHANGED <<managerVars, registry, using, nonce, chainVars, ledgerVars>>

LookUpMissing(t) ==
    /\ Goto(t, "idle", "create")
    /\ registry = NoManager
    /\ UNCHANGED <<managerVars, registry, using, nonce, chainVars, ledgerVars>>

\* The node counts what it knows to be pending; a transaction that only a
\* private relay holds need not be known to it.
Create(t, n) ==
    /\ Goto(t, "create", "register")
    /\ n \in mined..PendingCount
    /\ Initialize(t, n)
    /\ using' = [using EXCEPT ![t] = t]
    /\ first' = [first EXCEPT ![t] = n]
    /\ UNCHANGED <<registry, nonce, chainVars, sent, stranded>>

Register(t) ==
    /\ Goto(t, "register", "acquire")
    /\ registry' = t
    /\ UNCHANGED <<managerVars, using, nonce, chainVars, ledgerVars>>

-----------------------------------------------------------------------------
(* The rest of execute_flashloan_liquidation. *)

Acquire(t, n) ==
    /\ Goto(t, "acquire", "build")
    /\ AcquireReleased(using[t], n) \/ AcquireNext(using[t], n)
    /\ nonce' = [nonce EXCEPT ![t] = n]
    /\ UNCHANGED <<registry, using, chainVars, ledgerVars>>

\* build_transaction_params asks the node for the block and the gas price.
Build(t) ==
    /\ Goto(t, "build", "broadcast")
    /\ UNCHANGED <<managerVars, registry, using, nonce, chainVars, ledgerVars>>

\* The thread is through with its nonce and its manager.
LetGo(t) ==
    /\ nonce' = [nonce EXCEPT ![t] = None]
    /\ using' = [using EXCEPT ![t] = NoManager]

Strand(t) == stranded' = [stranded EXCEPT ![using[t]] = @ \cup {nonce[t]}]

\* It raises outside the try whose handler releases the nonce.
BuildFails(t) ==
    /\ Goto(t, "build", "idle")
    /\ LetGo(t) /\ Strand(t)
    /\ UNCHANGED <<managerVars, registry, chainVars, first, sent>>

\* Slip: the nonce of a transaction that was not signed is not given back.
SigningForgetsRelease(t) ==
    /\ Goto(t, "broadcast", "idle")
    /\ LetGo(t)
    /\ UNCHANGED <<managerVars, registry, chainVars, ledgerVars>>

\* build_transaction or sign_transaction raises: the handler releases.
SigningFails(t) ==
    /\ Goto(t, "broadcast", "idle")
    /\ Release(using[t], nonce[t])
    /\ LetGo(t)
    /\ UNCHANGED <<registry, chainVars, ledgerVars>>

SendOut(t) ==
    /\ nonce[t] >= mined
    /\ pool' = pool \cup {nonce[t]}
    /\ sent' = [sent EXCEPT ![using[t]] = @ \cup {nonce[t]}]
    /\ UNCHANGED <<mined, first, stranded>>

\* Slip: a relay error after the relay took the transaction reaches the
\* handler, which releases the nonce.
BroadcastRaisesAfterSending(t) ==
    /\ \/ Goto(t, "broadcast", "receipt") /\ UNCHANGED managerVars
       \/ Goto(t, "broadcast", "idle") /\ Release(using[t], nonce[t])
    /\ SendOut(t)
    /\ LetGo(t)
    /\ UNCHANGED registry

\* A relay takes the transaction.  send_raw_transaction_private_first
\* swallows the relays' errors, so it returns also when the relay's answer
\* was lost; the hash it returns is then None.
Broadcast(t) ==
    /\ Goto(t, "broadcast", "receipt")
    /\ SendOut(t)
    /\ LetGo(t)
    /\ UNCHANGED <<managerVars, registry>>

\* No relay takes it and the public fallback is off: it returns, with no
\* hash, and nothing releases the nonce.
NotBroadcast(t) ==
    /\ Goto(t, "broadcast", "receipt")
    /\ LetGo(t) /\ Strand(t)
    /\ UNCHANGED <<managerVars, registry, chainVars, first, sent>>

\* wait_for_transaction_receipt returns or raises.
Receipt(t) ==
    /\ Goto(t, "receipt", "idle")
    /\ UNCHANGED <<managerVars, registry, using, nonce, chainVars, ledgerVars>>

-----------------------------------------------------------------------------
\* The chain mines the next transaction it knows.
Mine ==
    /\ mined \in pool
    /\ mined' = mined + 1
    /\ UNCHANGED <<managerVars, registry, threadVars, pool, ledgerVars>>

\* The process restarts: all its memory is gone, the chain is not.
Restart ==
    /\ registry # NoManager
    /\ registry' = NoManager
    /\ next' = [m \in Thread |-> None]
    /\ released' = [m \in Thread |-> {}]
    /\ pc' = [t \in Thread |-> "idle"]
    /\ using' = [t \in Thread |-> NoManager]
    /\ nonce' = [t \in Thread |-> None]
    /\ first' = [m \in Thread |-> None]
    /\ sent' = [m \in Thread |-> {}]
    /\ stranded' = [m \in Thread |-> {}]
    /\ UNCHANGED chainVars

Step(t) ==
    \/ LookUpFound(t) \/ LookUpMissing(t) \/ Register(t)
    \/ \E n \in 0..MaxNonce : Create(t, n)
    \/ \E n \in 0..MaxNonce : Acquire(t, n)
    \/ Build(t) \/ BuildFails(t)
    \/ SigningFails(t) \/ Broadcast(t) \/ NotBroadcast(t) \/ Receipt(t)

Next == (\E t \in Thread : Step(t)) \/ Mine \/ Restart

Spec == Init /\ [][Next]_vars

-----------------------------------------------------------------------------
(* Properties. *)

Holders(m) == {t \in Thread : using[t] = m /\ nonce[t] # None}
Held(m) == {nonce[t] : t \in Holders(m)}

\* The types of the whole state; a manager holds as released only nonces it
\* has handed out.
TypeOK ==
    /\ next \in [Thread -> 0..MaxNonce \cup {None}]
    /\ released \in [Thread -> SUBSET Nonce]
    /\ \A m \in Thread : \A n \in released[m] : n < next[m]
    /\ registry \in Thread \cup {NoManager}
    /\ pc \in [Thread -> ThreadPc]
    /\ using \in [Thread -> Thread \cup {NoManager}]
    /\ nonce \in [Thread -> Nonce \cup {None}]
    /\ pool \in SUBSET Nonce
    /\ mined \in 0..MaxNonce
    /\ first \in [Thread -> 0..MaxNonce \cup {None}]
    /\ sent \in [Thread -> SUBSET Nonce]
    /\ stranded \in [Thread -> SUBSET Nonce]

\* Two threads never hold the same nonce of one manager, however their
\* acquires, failures and releases interleave.
ManagerExclusive ==
    \A t, u \in Thread :
        t # u /\ using[t] = using[u] /\ nonce[t] # None => nonce[t] # nonce[u]

\* A manager never hands a nonce out again once a transaction went out with
\* it: what it has released, and what its threads hold, has not been sent.
NoReuseOfSent ==
    \A m \in Thread : (released[m] \cup Held(m)) \cap sent[m] = {}

\* Every nonce a manager has handed out is held by a thread, released for
\* reuse, sent, or was stranded by one of the two failures that keep it.
NonceAccounted ==
    \A m \in Thread : next[m] # None =>
        first[m]..(next[m] - 1) = released[m] \cup Held(m) \cup sent[m] \cup stranded[m]

\* What a thread was given.
InHand == [t \in Thread |-> IF nonce[t] = None THEN <<>> ELSE <<using[t], nonce[t]>>]

\* Seen from outside, the counter and the list of each manager are a ledger.
Ledgers == INSTANCE NonceLedger WITH Manager <- Thread, hand <- InHand

\* A thread is always given the lowest free nonce of its manager, and settles
\* exactly that one, in every interleaving of threads, failures and restarts:
\* gaps are filled first, and nothing sent or stranded is given again.
LowestFreeGiven == Ledgers!Spec

\* Threads that acquire nonces at the same time have no conflicts
\* (test_nonce_manager_threaded_acquire_has_no_conflicts), whichever manager
\* object _nonce_manager gave them.
NoConflict ==
    \A t, u \in Thread : t # u /\ nonce[t] # None => nonce[t] # nonce[u]

\* Nobody is between the look-up and the registration, and who works with a
\* manager works with the registered one.
RaceOver ==
    /\ registry # NoManager
    /\ \A t \in Thread : /\ pc[t] \notin {"create", "register"}
                         /\ using[t] \in {registry, NoManager}

\* What is true of it: conflicts come from the first submissions of a process
\* alone.  Once they have registered their managers and those of the overwritten
\* ones are through, all later threads find the same manager, and until the
\* process restarts no two of them hold the same nonce.
RaceStaysOver ==
    [][RaceOver /\ registry' # NoManager => RaceOver' /\ NoConflict']_vars
=============================================================================
