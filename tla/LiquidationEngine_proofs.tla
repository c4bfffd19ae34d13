----------------------- MODULE LiquidationEngine_proofs -----------------------
(***************************************************************************)
(* Proofs about LiquidationEngine for any threads, thresholds and modes.   *)
(*                                                                         *)
(* LeakInv says that a thread past the gate, while the breaker is active,  *)
(* was there when it tripped and has not sent since.  RestInv says, while  *)
(* no two records have overlapped, how far the one thread that is saving   *)
(* has brought the rows from one sound state to the next.                  *)
(***************************************************************************)
EXTENDS LiquidationEngine, TLAPS

LeakInv ==
    /\ ~Active => \A t \in Thread : leaks[t] = 0
    /\ \A t \in Thread :
        /\ leaks[t] <= IF t \in through THEN 1 ELSE 0
        /\ Active /\ pc[t] = "send" => t \in through /\ leaks[t] = 0

\* What the rows are while t saves alone.
Underway(t) ==
    /\ \A u \in Thread \ {t} : ~Saving(u)
    /\ Sound(copy[t])
    /\ step[t] = "paused" =>
        /\ Sound(rows)
        /\ event[t] = "failure" /\ rows.paused => copy[t].paused
    /\ step[t] \in {"failures", "level"} => rows.paused = copy[t].paused
    /\ step[t] = "level" => rows.failures = copy[t].failures

RestInv ==
    ~overlapped =>
        /\ \A t \in Thread : Saving(t) => Underway(t)
        /\ (\A t \in Thread : ~Saving(t)) => Sound(rows)

IInv == TypeOK /\ LeakInv /\ RestInv

USE DEF Event, Initial

LEMMA ConstantFacts ==
    /\ LevelAt[1] \in Nat \ {0} /\ LevelAt[2] \in Nat \ {0} /\ LevelAt[3] \in Nat \ {0}
    /\ MaxFailures \in Nat /\ Threshold \in Nat \ {0}
    /\ MaxFailures >= Threshold
BY LevelAssumption, CountAssumption, ThresholdAssumption

-----------------------------------------------------------------------------
(* What an event makes of a state. *)

LEMMA FailureFacts ==
    ASSUME NEW r \in State
    PROVE  /\ AfterFailure(r) \in State
           /\ Sound(r) => Sound(AfterFailure(r))
           /\ r.paused => AfterFailure(r).paused
<1>. DEFINE f == IF r.failures < MaxFailures THEN r.failures + 1 ELSE MaxFailures
            l == IF LevelFor(f) > r.level THEN LevelFor(f) ELSE r.level
            p == r.paused \/ (l >= 2 /\ r.level < 2) \/ (Enabled /\ f >= Threshold)
<1>1. r.paused \in BOOLEAN /\ r.failures \in 0..MaxFailures /\ r.level \in 0..3
  BY DEF State
<1>2. f \in 0..MaxFailures /\ f >= r.failures /\ (r.failures >= Threshold => f >= Threshold)
  BY <1>1, ConstantFacts
<1>3. LevelFor(f) \in 0..3
  BY DEF LevelFor
<1>. HIDE DEF f
<1>4. l \in 0..3 /\ l >= r.level
  BY <1>1, <1>3
<1>5. AfterFailure(r) = [paused |-> p, failures |-> f, level |-> l] /\ p \in BOOLEAN
  BY DEF AfterFailure, f
<1>6. /\ p <=> r.paused \/ (l >= 2 /\ r.level < 2) \/ (Enabled /\ f >= Threshold)
      /\ l > r.level => l = LevelFor(f)
  BY <1>1, <1>3
<1>. HIDE DEF l, p
<1>7. /\ AfterFailure(r).paused = p /\ AfterFailure(r).failures = f
      /\ AfterFailure(r).level = l
  BY <1>5
<1>8. AfterFailure(r) \in State
  BY <1>2, <1>4, <1>5 DEF State
<1>9. r.paused => AfterFailure(r).paused
  BY <1>6, <1>7
<1>10. Sound(r) => Sound(AfterFailure(r))
  <2>. SUFFICES ASSUME r.level >= 2 => r.paused,
                       r.paused => r.level >= 2 \/ (Enabled /\ r.failures >= Threshold)
                PROVE  (l >= 2 => p) /\ (p => l >= 2 \/ (Enabled /\ f >= Threshold))
    BY <1>7 DEF Sound
  <2>1. l >= 2 => p
    BY <1>1, <1>4, <1>6
  <2>2. p => l >= 2 \/ (Enabled /\ f >= Threshold)
    BY <1>1, <1>2, <1>4, <1>6
  <2>. QED
    BY <2>1, <2>2
<1>. QED
  BY <1>8, <1>9, <1>10

LEMMA SuccessFacts ==
    ASSUME NEW r \in State
    PROVE  AfterSuccess(r) \in State /\ Sound(AfterSuccess(r))
<1>. DEFINE l == IF r.level >= 2 \/ (r.level = 1 /\ r.failures = 0) THEN r.level - 1 ELSE r.level
<1>1. l \in 0..3
  BY DEF State
<1>. HIDE DEF l
<1>2. AfterSuccess(r) = [paused |-> l >= 2, failures |-> 0, level |-> l]
  BY DEF AfterSuccess, l
<1>3. 0 \in 0..MaxFailures
  BY ConstantFacts
<1>. DEFINE p == l >= 2
<1>4. AfterSuccess(r) = [paused |-> p, failures |-> 0, level |-> l] /\ p \in BOOLEAN
  BY <1>2
<1>5. p <=> l >= 2
  OBVIOUS
<1>. HIDE DEF p
<1>6. AfterSuccess(r).paused = p /\ AfterSuccess(r).level = l
  BY <1>4
<1>. QED
  BY <1>1, <1>3, <1>4, <1>5, <1>6 DEF State, Sound

LEMMA AfterFacts ==
    ASSUME NEW r \in State, NEW e \in Event
    PROVE  /\ After(e, r) \in State
           /\ Sound(r) => Sound(After(e, r))
           /\ e = "failure" /\ r.paused => After(e, r).paused
<1>1. CASE e = "failure"
  BY <1>1, FailureFacts DEF After
<1>2. CASE e = "success"
  BY <1>2, SuccessFacts DEF After
<1>3. CASE e = "clear"
  <2>1. Initial \in State /\ Sound(Initial)
    BY ConstantFacts DEF State, Sound
  <2>. QED
    BY <1>3, <2>1 DEF After
<1>. QED
  BY <1>1, <1>2, <1>3

-----------------------------------------------------------------------------
(* The steps, as the breaker sees them. *)

\* Steps that leave the breaker alone, or only begin a record.
Outside(t) ==
    /\ rows' = rows /\ copy' = copy /\ overlapped' = overlapped
    /\ \/ step' = step /\ event' = event
       \/ \E e \in Event : Record(t, e)

LEMMA NoteFacts ==
    ASSUME NEW t \in Thread, NEW e \in Event \cup {"none"}, Note(t, e)
    PROVE  Outside(t)
BY DEF Note, Record, Outside, guardVars

LEMMA StepCases ==
    ASSUME TypeOK, Next
    PROVE  \/ \E t \in Thread : Outside(t) /\ UNCHANGED <<leaks, through>>
           \/ \E t \in Thread : Outside(t) /\ Send(t)
           \/ \E t \in Thread : Save(t)
<1>1. ASSUME NEW n \in 1..MaxAccounts, Tick(n)
      PROVE  Outside(Engine) /\ UNCHANGED <<leaks, through>>
  BY <1>1 DEF Tick, Outside, guardVars
<1>2. ASSUME SoftBlocked
      PROVE  Outside(Engine) /\ UNCHANGED <<leaks, through>>
  BY <1>2, Zenon DEF SoftBlocked, Outside, Record
<1>3. ASSUME NEW t \in Thread, Request(t) \/ Build(t) \/ NextAccount(t)
      PROVE  Outside(t) /\ UNCHANGED <<leaks, through>>
  BY <1>3 DEF Request, Build, NextAccount, Outside, guardVars
<1>4. ASSUME NEW t \in Thread, Clear(t)
      PROVE  Outside(t) /\ UNCHANGED <<leaks, through>>
  BY <1>4 DEF Clear, Outside, Record
<1>5. ASSUME NEW t \in Thread, Fails(t)
      PROVE  Outside(t) /\ UNCHANGED <<leaks, through>>
  BY <1>5, NoteFacts DEF Fails
<1>6. ASSUME NEW t \in Thread, StaticPasses(t)
      PROVE  Outside(t) /\ UNCHANGED <<leaks, through>>
  <2>1. \E e \in {"failure", "none"} : Note(t, e)
    BY <1>6 DEF StaticPasses
  <2>. QED
    BY <1>6, <2>1, NoteFacts DEF StaticPasses
<1>7. ASSUME NEW t \in Thread, Receipt(t)
      PROVE  Outside(t) /\ UNCHANGED <<leaks, through>>
  BY <1>7 DEF Receipt, Outside, Record
<1>8. ASSUME NEW t \in Thread, Send(t)
      PROVE  Outside(t)
  BY <1>8 DEF Send, Outside, guardVars
<1>9. ASSUME NEW t \in Thread, Gate(t)
      PROVE  Outside(t) /\ UNCHANGED <<leaks, through>>
  <2>1. \E e \in {"failure", "none"} : Note(t, e)
    BY <1>9 DEF Gate, Note
  <2>. QED
    BY <1>9, <2>1, NoteFacts DEF Gate
<1>. QED
  BY <1>1, <1>2, <1>3, <1>4, <1>5, <1>6, <1>7, <1>8, <1>9, EngineAssumption DEF Next, Work

-----------------------------------------------------------------------------
(* Types. *)

LEMMA GuardTypeNext ==
    ASSUME TypeOK, Next
    PROVE  GuardTypeOK'
<1>0. GuardTypeOK
  BY DEF TypeOK
<1>1. ASSUME NEW t \in Thread, Outside(t)
      PROVE  GuardTypeOK'
  BY <1>0, <1>1 DEF Outside, Record, GuardTypeOK
<1>2. ASSUME NEW t \in Thread, Save(t)
      PROVE  GuardTypeOK'
  <2>1. CASE Load(t)
    <3>1. After(event[t], rows) \in State
      BY <1>0, AfterFacts DEF GuardTypeOK
    <3>. QED
      BY <1>0, <2>1, <3>1 DEF Load, GuardTypeOK
  <2>2. CASE SavePaused(t)
    BY <1>0, <2>2 DEF SavePaused, GuardTypeOK, State
  <2>3. CASE SaveFailures(t)
    BY <1>0, <2>3 DEF SaveFailures, GuardTypeOK, State
  <2>4. CASE SaveLevel(t)
    <3>1. Initial \in State
      BY ConstantFacts DEF State
    <3>. QED
      BY <1>0, <2>4, <3>1 DEF SaveLevel, GuardTypeOK, State
  <2>. QED
    BY <1>2, <2>1, <2>2, <2>3, <2>4 DEF Save, RecordStep
<1>. QED
  BY <1>1, <1>2, StepCases

LEMMA TypeNext ==
    ASSUME TypeOK, Next
    PROVE  TypeOK'
<1>0. GuardTypeOK'
  BY GuardTypeNext
<1>1. /\ pc \in [Thread -> Pc] /\ seen \in [Thread -> BOOLEAN]
      /\ left \in 0..MaxAccounts /\ leaks \in [Thread -> 0..MaxLeaks]
      /\ through \subseteq Thread
      /\ MaxAccounts \in Nat \ {0} /\ rows.paused \in BOOLEAN
  BY AccountsAssumption DEF TypeOK, GuardTypeOK, State
<1>2. Active \in BOOLEAN
  BY GuardFlagAssumption DEF Active
<1>3. /\ pc' \in [Thread -> Pc] /\ left' \in 0..MaxAccounts
  <2>1. ASSUME NEW n \in 1..MaxAccounts, Tick(n)
        PROVE  pc' \in [Thread -> Pc] /\ left' \in 0..MaxAccounts
    <3>1. pc' = [pc EXCEPT ![Engine] = "build"] /\ left' = n
      BY <2>1 DEF Tick, Goto
    <3>2. n \in 0..MaxAccounts
      BY <1>1
    <3>. QED
      BY <1>1, <3>1, <3>2 DEF Pc
  <2>2. CASE SoftBlocked
    BY <1>1, <2>2 DEF SoftBlocked, Goto, Pc
  <2>3. ASSUME NEW t \in Thread, NextAccount(t)
        PROVE  pc' \in [Thread -> Pc] /\ left' \in 0..MaxAccounts
    BY <1>1, <2>3 DEF NextAccount, Goto, Pc
  <2>4. ASSUME NEW t \in Thread,
               Request(t) \/ Clear(t) \/ Build(t) \/ Fails(t) \/ StaticPasses(t) \/ Gate(t)
               \/ Send(t) \/ Receipt(t) \/ Save(t)
        PROVE  pc' \in [Thread -> Pc] /\ left' \in 0..MaxAccounts
    BY <1>1, <2>4, Z3 DEF Request, Clear, Build, Fails, StaticPasses, Gate, Send, Receipt, Save,
       Goto, Pc
  <2>. QED
    BY <2>1, <2>2, <2>3, <2>4 DEF Next, Work
<1>4. seen' \in [Thread -> BOOLEAN]
  <2>1. ASSUME NEW t \in Thread, Build(t) \/ Gate(t)
        PROVE  seen' \in [Thread -> BOOLEAN]
    BY <1>1, <1>2, <2>1 DEF Build, Gate
  <2>2. ASSUME seen' = seen
        PROVE  seen' \in [Thread -> BOOLEAN]
    BY <1>1, <2>2
  <2>. QED
    BY <2>1, <2>2 DEF Next, Work, Tick, SoftBlocked, Request, Clear, Fails, StaticPasses, Send,
       Receipt, NextAccount, Save
<1>5. leaks' \in [Thread -> 0..MaxLeaks]
  <2>1. ASSUME NEW t \in Thread, Send(t)
        PROVE  leaks' \in [Thread -> 0..MaxLeaks]
    BY <1>1, <2>1 DEF Send, MaxLeaks
  <2>2. ASSUME NEW t \in Thread, Save(t)
        PROVE  leaks' \in [Thread -> 0..MaxLeaks]
    BY <1>1, <2>2 DEF Save, MaxLeaks
  <2>. QED
    BY <1>1, <2>1, <2>2, StepCases
<1>6. through' \subseteq Thread
  BY <1>1, StepCases DEF Send, Save
<1>. QED
  BY <1>0, <1>3, <1>4, <1>5, <1>6 DEF TypeOK

-----------------------------------------------------------------------------
(* Transactions sent while the breaker is active. *)

LEMMA LeakNext ==
    ASSUME TypeOK, LeakInv, Next
    PROVE  LeakInv'
<1>0. /\ pc \in [Thread -> Pc] /\ seen \in [Thread -> BOOLEAN]
      /\ leaks \in [Thread -> 0..MaxLeaks] /\ through \subseteq Thread
  BY DEF TypeOK
<1>1. ASSUME NEW t \in Thread, Save(t)
      PROVE  LeakInv'
  <2>1. CASE Active' = Active
    BY <1>1, <2>1 DEF Save, LeakInv
  <2>2. CASE Active' # Active
    <3>1. /\ leaks' = [u \in Thread |-> 0] /\ pc' = pc
          /\ Active' => through' = {u \in Thread : pc[u] = "send"}
      BY <1>1, <2>2 DEF Save
    <3>. QED
      BY <3>1 DEF LeakInv
  <2>. QED
    BY <2>1, <2>2
<1>2. ASSUME NEW t \in Thread, Outside(t), Send(t)
      PROVE  LeakInv'
  <2>1. Active' = Active /\ through' = through /\ pc' = [pc EXCEPT ![t] = "sent"]
        /\ pc[t] = "send"
    BY <1>2 DEF Outside, Active, Send, Goto, At
  <2>2. CASE Active
    <3>1. t \in through /\ leaks[t] = 0
      BY <2>1, <2>2 DEF LeakInv
    <3>2. leaks' = [leaks EXCEPT ![t] = 1]
      BY <1>0, <1>2, <2>2, <3>1 DEF Send, MaxLeaks
    <3>. QED
      BY <1>0, <2>1, <2>2, <3>1, <3>2 DEF LeakInv
  <2>3. CASE ~Active
    <3>1. leaks' = leaks
      BY <1>2, <2>3 DEF Send
    <3>. QED
      BY <1>0, <2>1, <2>3, <3>1 DEF LeakInv
  <2>. QED
    BY <2>2, <2>3
<1>3. ASSUME NEW t \in Thread, Outside(t), UNCHANGED <<leaks, through>>
      PROVE  LeakInv'
  <2>1. Active' = Active
    BY <1>3 DEF Outside, Active
  <2>2. ASSUME NEW u \in Thread, Active, pc'[u] = "send"
        PROVE  pc[u] = "send"
    <3>1. ASSUME NEW n \in 1..MaxAccounts, Tick(n)
          PROVE  pc[u] = "send"
      BY <1>0, <2>2, <3>1, EngineAssumption DEF Tick, Goto
    <3>2. CASE SoftBlocked
      BY <1>0, <2>2, <3>2, EngineAssumption DEF SoftBlocked, Goto
    <3>3. ASSUME NEW v \in Thread,
                 Request(v) \/ Clear(v) \/ Fails(v) \/ Receipt(v) \/ NextAccount(v) \/ Save(v)
                 \/ Send(v)
          PROVE  pc[u] = "send"
      BY <1>0, <2>2, <3>3 DEF Request, Clear, Fails, Receipt, NextAccount, Save, Send, Goto
    <3>4. ASSUME NEW v \in Thread, Build(v)
          PROVE  pc[u] = "send"
      BY <1>0, <2>2, <3>4 DEF Build, Goto
    <3>5. ASSUME NEW v \in Thread, StaticPasses(v)
          PROVE  pc[u] = "send"
      BY <1>0, <2>2, <3>5 DEF StaticPasses, Goto
    <3>6. ASSUME NEW v \in Thread, Gate(v)
          PROVE  pc[u] = "send"
      BY <1>0, <2>2, <3>6 DEF Gate, Goto
    <3>. QED
      BY <3>1, <3>2, <3>3, <3>4, <3>5, <3>6 DEF Next, Work
  <2>. QED
    BY <1>3, <2>1, <2>2 DEF LeakInv
<1>. QED
  BY <1>1, <1>2, <1>3, StepCases

-----------------------------------------------------------------------------
(* The saved state, while no two records overlap. *)

LEMMA RestNext ==
    ASSUME TypeOK, RestInv, Next
    PROVE  RestInv'
<1>. SUFFICES ASSUME ~overlapped'
              PROVE  /\ \A t \in Thread : Saving(t)' => Underway(t)'
                     /\ (\A t \in Thread : ~Saving(t)') => Sound(rows')
  BY DEF RestInv, Sound
<1>0. GuardTypeOK
  BY DEF TypeOK
<1>1. ASSUME NEW t \in Thread, Outside(t)
      PROVE  /\ \A u \in Thread : Saving(u)' => Underway(u)'
             /\ (\A u \in Thread : ~Saving(u)') => Sound(rows')
  <2>1. \A u \in Thread : /\ Saving(u)' <=> Saving(u)
                          /\ Saving(u) => step'[u] = step[u] /\ event'[u] = event[u]
    BY <1>0, <1>1 DEF Outside, Record, Saving, GuardTypeOK
  <2>2. rows' = rows /\ copy' = copy /\ overlapped' = overlapped
    BY <1>1 DEF Outside
  <2>. QED
    BY <2>1, <2>2 DEF RestInv, Underway, Sound
<1>2. ASSUME NEW t \in Thread, Save(t)
      PROVE  /\ \A u \in Thread : Saving(u)' => Underway(u)'
             /\ (\A u \in Thread : ~Saving(u)') => Sound(rows')
  <2>1. /\ \A u \in Thread \ {t} : step'[u] = step[u] /\ ~Saving(u)
        /\ ~overlapped
    <3>1. CASE Load(t)
      BY <1>0, <3>1 DEF Load, GuardTypeOK, Saving
    <3>2. CASE SavePaused(t) \/ SaveFailures(t) \/ SaveLevel(t)
      <4>1. Saving(t) /\ ~overlapped /\ \A u \in Thread \ {t} : step'[u] = step[u]
        BY <1>0, <3>2 DEF SavePaused, SaveFailures, SaveLevel, Saving, GuardTypeOK
      <4>. QED
        BY <4>1 DEF RestInv, Underway
    <3>. QED
      BY <1>2, <3>1, <3>2 DEF Save, RecordStep
  <2>2. \A u \in Thread \ {t} : ~Saving(u)'
    BY <2>1 DEF Saving
  <2>3. CASE Load(t)
    <3>1. Sound(rows)
      BY <2>1, <2>3 DEF RestInv, Load, Saving
    <3>2. /\ Sound(After(event[t], rows))
          /\ event[t] = "failure" /\ rows.paused => After(event[t], rows).paused
      BY <1>0, <3>1, AfterFacts DEF GuardTypeOK
    <3>3. /\ rows' = rows /\ event' = event /\ step'[t] = "paused"
          /\ copy'[t] = After(event[t], rows)
      BY <1>0, <2>3 DEF Load, GuardTypeOK
    <3>. QED
      BY <2>2, <3>1, <3>2, <3>3 DEF Underway, Saving, Sound
  <2>4. CASE SavePaused(t)
    <3>1. Underway(t)
      BY <2>1, <2>4 DEF RestInv, SavePaused, Saving
    <3>2. /\ rows'.paused = copy[t].paused /\ copy' = copy /\ step'[t] = "failures"
      BY <1>0, <2>4 DEF SavePaused, GuardTypeOK, State
    <3>. QED
      BY <2>2, <3>1, <3>2 DEF Underway, Saving, Sound
  <2>5. CASE SaveFailures(t)
    <3>1. Underway(t) /\ step[t] = "failures"
      BY <2>1, <2>5 DEF RestInv, SaveFailures, Saving
    <3>2. /\ rows'.failures = copy[t].failures /\ rows'.paused = rows.paused
          /\ copy' = copy /\ step'[t] = "level"
      BY <1>0, <2>5 DEF SaveFailures, GuardTypeOK, State
    <3>. QED
      BY <2>2, <3>1, <3>2 DEF Underway, Saving, Sound
  <2>6. CASE SaveLevel(t)
    <3>1. Underway(t) /\ step[t] = "level"
      BY <2>1, <2>6 DEF RestInv, SaveLevel, Saving
    <3>2. /\ rows'.failures = rows.failures /\ rows'.paused = rows.paused
          /\ rows'.level = copy[t].level /\ step'[t] = "idle"
      BY <1>0, <2>6 DEF SaveLevel, GuardTypeOK, State
    <3>3. Sound(rows')
      BY <3>1, <3>2 DEF Underway, Sound
    <3>. QED
      BY <2>2, <3>2, <3>3 DEF Saving
  <2>. QED
    BY <1>2, <2>3, <2>4, <2>5, <2>6 DEF Save, RecordStep
<1>. QED
  BY <1>1, <1>2, StepCases

-----------------------------------------------------------------------------
(* The theorems. *)

LEMMA InitInv ==
    ASSUME Init
    PROVE  IInv
<1>1. GuardTypeOK
  <2>1. Initial \in State
    BY ConstantFacts DEF State
  <2>. HIDE DEF Initial
  <2>. QED
    BY <2>1 DEF Init, GuardInit, GuardTypeOK
<1>2. TypeOK
  BY <1>1, AccountsAssumption DEF Init, TypeOK, Pc, MaxLeaks
<1>3. LeakInv
  BY DEF Init, LeakInv
<1>4. RestInv
  BY ConstantFacts DEF Init, GuardInit, RestInv, Saving, Sound
<1>. QED
  BY <1>2, <1>3, <1>4 DEF IInv

LEMMA NextInv ==
    ASSUME IInv, [Next]_vars
    PROVE  IInv'
<1>1. CASE Next
  BY <1>1, TypeNext, LeakNext, RestNext DEF IInv
<1>2. CASE UNCHANGED vars
  BY <1>2 DEF vars, guardVars, IInv, TypeOK, GuardTypeOK, LeakInv, Active, RestInv,
              Underway, Saving, Sound
<1>. QED
  BY <1>1, <1>2

\* The inductive invariant holds in every reachable state.
THEOREM Invariance == Spec => []IInv
<1>1. Init => IInv
  BY InitInv
<1>2. IInv /\ [Next]_vars => IInv'
  BY NextInv
<1>. QED
  BY <1>1, <1>2, PTL DEF Spec

\* The state of engine, requests and breaker keeps its types.
THEOREM TypeCorrect == Spec => []TypeOK
<1>1. IInv => TypeOK
  BY DEF IInv
<1>. QED
  BY <1>1, Invariance, PTL

\* After a trip nobody sends but those who were past the gate by then, each of them
\* once, for any number of threads.
THEOREM OneSendAfterTrip == Spec => []LeakBound
<1>1. IInv => LeakBound
  BY DEF IInv, LeakInv, LeakBound
<1>. QED
  BY <1>1, Invariance, PTL

\* Without overlapping records the saved state of the breaker is sound whenever
\* nobody is saving it.
THEOREM SavedStateSound == Spec => []SoundAtRest
<1>1. IInv => SoundAtRest
  BY DEF IInv, RestInv, SoundAtRest
<1>. QED
  BY <1>1, Invariance, PTL

\* Without overlapping records no failure resumes a paused breaker.
THEOREM FailureNeverResumes == Spec => FailuresKeepPause
<1>1. ASSUME IInv, [Next]_vars
      PROVE  [~overlapped' /\ rows.paused /\ ~rows'.paused =>
                \E t \in Thread : step[t] = "paused" /\ event[t] \in {"success", "clear"}]_vars
  <2>. SUFFICES ASSUME Next, ~overlapped', rows.paused, ~rows'.paused
                PROVE  \E t \in Thread : step[t] = "paused" /\ event[t] \in {"success", "clear"}
    BY <1>1
  <2>0. TypeOK /\ RestInv /\ GuardTypeOK
    BY <1>1 DEF IInv, TypeOK
  <2>1. PICK t \in Thread : Save(t)
    BY <2>0, StepCases DEF Outside
  <2>2. SavePaused(t)
    BY <2>0, <2>1 DEF Save, RecordStep, Load, SaveFailures, SaveLevel, GuardTypeOK, State
  <2>3. step[t] = "paused" /\ ~overlapped /\ rows'.paused = copy[t].paused
    BY <2>0, <2>2 DEF SavePaused, GuardTypeOK, State
  <2>4. Underway(t)
    BY <2>0, <2>3 DEF RestInv, Saving
  <2>5. event[t] # "failure"
    BY <2>3, <2>4 DEF Underway
  <2>. QED
    BY <2>0, <2>3, <2>5 DEF GuardTypeOK
<1>. QED
  BY <1>1, Invariance, PTL DEF Spec, FailuresKeepPause

-----------------------------------------------------------------------------
(* The engine implements LiquidationBreaker.  Current picks the copy of the  *)
(* thread that is saving; the first lemmas say which that is.                *)

SavingIn(s, t) == s[t] \in {"paused", "failures", "level"}

CurrentOf(s, c, r, o) ==
    IF ~o /\ \E t \in Thread : SavingIn(s, t)
    THEN c[CHOOSE t \in Thread : SavingIn(s, t)]
    ELSE r

LEMMA CurrentIs ==
    /\ Current = CurrentOf(step, copy, rows, overlapped)
    /\ Current' = CurrentOf(step', copy', rows', overlapped')
    /\ \A t : Saving(t) <=> SavingIn(step, t)
    /\ \A t : Saving(t)' <=> SavingIn(step', t)
BY DEF Current, CurrentOf, Saving, SavingIn

LEMMA CurrentOne ==
    ASSUME NEW s, NEW c, NEW r, NEW t \in Thread, SavingIn(s, t),
           \A u \in Thread \ {t} : ~SavingIn(s, u)
    PROVE  CurrentOf(s, c, r, FALSE) = c[t]
<1>1. (CHOOSE u \in Thread : SavingIn(s, u)) = t
  OBVIOUS
<1>. QED
  BY <1>1 DEF CurrentOf

LEMMA CurrentNone ==
    ASSUME NEW s, NEW c, NEW r, NEW o, o \/ \A u \in Thread : ~SavingIn(s, u)
    PROVE  CurrentOf(s, c, r, o) = r
BY DEF CurrentOf

\* The state the breaker has come to is one, at every moment.
LEMMA CurrentType ==
    ASSUME NEW s, NEW c \in [Thread -> State], NEW r \in State, NEW o
    PROVE  CurrentOf(s, c, r, o) \in State
<1>1. CASE ~o /\ \E t \in Thread : SavingIn(s, t)
  <2>1. (CHOOSE t \in Thread : SavingIn(s, t)) \in Thread
    BY <1>1
  <2>. QED
    BY <1>1, <2>1 DEF CurrentOf
<1>. QED
  BY <1>1 DEF CurrentOf

\* Once records have overlapped every step is one.
LEMMA BreakerOverlap ==
    ASSUME TypeOK', overlapped'
    PROVE  Breaker!Overlap
<1>1. /\ rows' \in State /\ copy' \in [Thread -> State]
      /\ event' \in [Thread -> Event]
  BY DEF TypeOK, GuardTypeOK
<1>2. Current' \in State
  BY <1>1, CurrentIs, CurrentType
<1>3. rows'.paused \in BOOLEAN
  BY <1>1 DEF State
<1>4. Called' \in [Thread -> Event \cup {"none", "done"}]
  BY <1>1 DEF Called
<1>. QED
  BY <1>2, <1>3, <1>4 DEF Breaker!Overlap, Breaker!State, State, Breaker!Event

\* The engine's and the requests' steps begin a record at most.
LEMMA BreakerOutside ==
    ASSUME TypeOK, NEW t \in Thread, Outside(t), ~overlapped
    PROVE  [Breaker!Next]_Breaker!vars
<1>0. GuardTypeOK
  BY DEF TypeOK
<1>1. rows' = rows /\ copy' = copy /\ overlapped' = overlapped
  BY DEF Outside
<1>2. CASE step' = step /\ event' = event
  <2>1. Current' = Current /\ Called' = Called
    BY <1>1, <1>2 DEF Current, Called, Saving
  <2>. QED
    BY <1>1, <2>1 DEF Breaker!vars
<1>3. ASSUME NEW e \in Event, Record(t, e)
      PROVE  Breaker!Begin(t, e)
  <2>1. /\ step[t] = "idle" /\ step' = [step EXCEPT ![t] = "load"]
        /\ event' = [event EXCEPT ![t] = e]
    BY <1>3 DEF Record
  <2>2. \A u \in Thread : SavingIn(step', u) <=> SavingIn(step, u)
    BY <1>0, <2>1 DEF SavingIn, GuardTypeOK
  <2>3. Current' = Current
    <3>1. CASE \A u \in Thread : ~SavingIn(step, u)
      BY <1>1, <2>2, <3>1, CurrentIs, CurrentNone
    <3>2. CASE \E u \in Thread : SavingIn(step, u)
      <4>1. (CHOOSE u \in Thread : SavingIn(step', u)) = (CHOOSE u \in Thread : SavingIn(step, u))
        BY <2>2
      <4>. QED
        BY <1>1, <2>2, <4>1, CurrentIs DEF CurrentOf
    <3>. QED
      BY <3>1, <3>2
  <2>4. Called[t] = "none" /\ Called' = [Called EXCEPT ![t] = e]
    BY <1>0, <2>1 DEF Called, Saving, GuardTypeOK
  <2>. QED
    BY <1>1, <2>3, <2>4 DEF Breaker!Begin
<1>. QED
  BY <1>2, <1>3 DEF Outside, Breaker!Next, Breaker!Event

\* A failure worked in is one more failure of LiquidationBreaker ...
LEMMA FailureApplied ==
    ASSUME NEW r \in State
    PROVE  LET n == AfterFailure(r)
           IN  /\ n.failures = IF r.failures < MaxFailures THEN r.failures + 1 ELSE MaxFailures
               /\ \A i \in 1..3 : n.level >= i <=> r.level >= i \/ n.failures >= LevelAt[i]
               /\ n.paused <=> \/ r.paused
                               \/ r.level < 2 /\ n.level >= 2
                               \/ Enabled /\ n.failures >= Threshold
<1>. DEFINE f == IF r.failures < MaxFailures THEN r.failures + 1 ELSE MaxFailures
            l == IF LevelFor(f) > r.level THEN LevelFor(f) ELSE r.level
            p == r.paused \/ (l >= 2 /\ r.level < 2) \/ (Enabled /\ f >= Threshold)
<1>1. r.paused \in BOOLEAN /\ r.failures \in 0..MaxFailures /\ r.level \in 0..3
  BY DEF State
<1>2. f \in Nat
  BY <1>1, ConstantFacts
<1>3. AfterFailure(r) = [paused |-> p, failures |-> f, level |-> l]
  BY DEF AfterFailure
<1>4. /\ AfterFailure(r).failures = f /\ AfterFailure(r).level = l
      /\ AfterFailure(r).paused = p
  BY <1>3
<1>5. /\ LevelFor(f) \in 0..3
      /\ LevelFor(f) >= 1 <=> f >= LevelAt[1]
      /\ LevelFor(f) >= 2 <=> f >= LevelAt[2]
      /\ LevelFor(f) >= 3 <=> f >= LevelAt[3]
  <2>. HIDE DEF f
  <2>. QED
    BY <1>2, ConstantFacts, LevelAssumption DEF LevelFor
<1>6. \A i \in 1..3 : l >= i <=> r.level >= i \/ f >= LevelAt[i]
  <2>. HIDE DEF f
  <2>1. \A i \in 1..3 : i = 1 \/ i = 2 \/ i = 3
    OBVIOUS
  <2>. QED
    BY <1>1, <1>5, <2>1
<1>7. p <=> r.paused \/ (r.level < 2 /\ l >= 2) \/ (Enabled /\ f >= Threshold)
  BY DEF p
<1>. HIDE DEF p, l
<1>. QED
  BY <1>4, <1>6, <1>7

\* ... and a success one more success.
LEMMA SuccessApplied ==
    ASSUME NEW r \in State
    PROVE  LET n == AfterSuccess(r)
           IN  /\ n.failures = 0
               /\ IF r.level >= 2 \/ (r.level = 1 /\ r.failures = 0)
                    THEN r.level = n.level + 1 ELSE r.level = n.level
               /\ n.paused <=> n.level >= 2
<1>. DEFINE l == IF r.level >= 2 \/ (r.level = 1 /\ r.failures = 0) THEN r.level - 1 ELSE r.level
            p == l >= 2
<1>1. r.level \in 0..3
  BY DEF State
<1>2. AfterSuccess(r) = [paused |-> p, failures |-> 0, level |-> l]
  BY DEF AfterSuccess
<1>3. /\ AfterSuccess(r).failures = 0 /\ AfterSuccess(r).level = l
      /\ AfterSuccess(r).paused = p
  BY <1>2
<1>4. /\ IF r.level >= 2 \/ (r.level = 1 /\ r.failures = 0) THEN r.level = l + 1 ELSE r.level = l
      /\ p <=> l >= 2
  BY <1>1
<1>. HIDE DEF p, l
<1>. QED
  BY <1>3, <1>4

\* Loading, with nobody saving, is where the record takes effect.
LEMMA BreakerLoad ==
    ASSUME TypeOK, TypeOK', NEW t \in Thread, Load(t), ~overlapped'
    PROVE  Breaker!Apply(t)
<1>0. GuardTypeOK /\ rows' \in State /\ copy' \in [Thread -> State]
  BY DEF TypeOK, GuardTypeOK
<1>1. /\ ~overlapped /\ step[t] = "load" /\ step' = [step EXCEPT ![t] = "paused"]
      /\ event' = event /\ rows' = rows
      /\ \A u \in Thread \ {t} : ~SavingIn(step, u)
  BY DEF Load, Saving, SavingIn
<1>2. /\ \A u \in Thread : ~SavingIn(step, u)
      /\ SavingIn(step', t) /\ \A u \in Thread \ {t} : ~SavingIn(step', u)
  BY <1>0, <1>1 DEF SavingIn, GuardTypeOK
<1>3. Current = rows
  BY <1>2, CurrentIs, CurrentNone
<1>4. Current' = After(event[t], rows)
  <2>1. Current' = copy'[t]
    <3>1. overlapped' = FALSE
      BY <1>1 DEF Load
    <3>. QED
      BY <1>2, <3>1, CurrentIs, CurrentOne
  <2>. QED
    BY <1>0, <2>1 DEF Load, GuardTypeOK
<1>5. Current' \in State
  BY <1>0, CurrentIs, CurrentType
<1>6. /\ Called[t] = event[t] /\ Called' = [Called EXCEPT ![t] = "done"]
      /\ \A u \in Thread : Called[u] # "done"
  <2>1. \A u \in Thread : ~Saving(u)
    BY <1>2, CurrentIs
  <2>. QED
    BY <1>0, <1>1, <2>1 DEF Called, Saving, GuardTypeOK
<1>7. event[t] \in Event /\ rows \in State
  BY <1>0 DEF GuardTypeOK
<1>8. ASSUME event[t] = "failure" PROVE Breaker!Failure(Current')
  BY <1>3, <1>4, <1>7, <1>8, FailureApplied DEF After, Breaker!Failure
<1>9. ASSUME event[t] = "success" PROVE Breaker!Success(Current')
  BY <1>3, <1>4, <1>7, <1>9, SuccessApplied DEF After, Breaker!Success
<1>10. event[t] = "clear" => Current' = Breaker!Initial
  BY <1>4 DEF After, Breaker!Initial
<1>11. rows'.paused = rows.paused /\ overlapped' = overlapped
  <2>1. overlapped \in BOOLEAN /\ overlapped' \in BOOLEAN
    BY DEF TypeOK, GuardTypeOK
  <2>2. overlapped = FALSE /\ overlapped' = FALSE
    BY <1>1, <2>1, Zenon
  <2>. QED
    BY <1>1, <2>2
<1>. QED
  BY <1>1, <1>5, <1>6, <1>7, <1>8, <1>9, <1>10, <1>11
     DEF Breaker!Apply, Breaker!Event, Breaker!State, State

\* The three rows: the first is shown, the last lets the thread return.
LEMMA BreakerSave ==
    ASSUME TypeOK, RestInv, NEW t \in Thread,
           SavePaused(t) \/ SaveFailures(t) \/ SaveLevel(t), ~overlapped
    PROVE  [Breaker!Next]_Breaker!vars
<1>0. GuardTypeOK
  BY DEF TypeOK
<1>1. /\ Saving(t) /\ Underway(t) /\ overlapped' = FALSE /\ overlapped = FALSE
      /\ \A u \in Thread \ {t} : ~SavingIn(step, u)
  BY <1>0 DEF SavePaused, SaveFailures, SaveLevel, Saving, SavingIn, RestInv, Underway, GuardTypeOK
<1>2. Current = copy[t]
  BY <1>1, CurrentIs, CurrentOne
<1>3. \A u \in Thread \ {t} : step'[u] = step[u] /\ ~SavingIn(step', u)
  BY <1>0, <1>1 DEF SavePaused, SaveFailures, SaveLevel, SavingIn, GuardTypeOK
<1>4. ASSUME SavePaused(t) \/ SaveFailures(t)
      PROVE  Current' = Current /\ Called' = Called
  <2>1. SavingIn(step', t) /\ copy' = copy /\ event' = event
    BY <1>0, <1>4 DEF SavePaused, SaveFailures, SavingIn, GuardTypeOK
  <2>2. Current' = copy[t]
    <3>1. CurrentOf(step', copy', rows', FALSE) = copy'[t]
      BY <1>3, <2>1, CurrentOne
    <3>. QED
      BY <1>1, <2>1, <3>1, CurrentIs
  <2>3. Called' = Called
    BY <1>1, <1>3, <2>1, CurrentIs DEF Called, SavingIn, Saving
  <2>. QED
    BY <1>2, <2>2, <2>3
<1>5. CASE SavePaused(t)
  <2>1. rows'.paused = Current.paused
    BY <1>0, <1>2, <1>5 DEF SavePaused, GuardTypeOK, State
  <2>. QED
    BY <1>1, <1>4, <1>5, <2>1 DEF Breaker!Show, Breaker!Next
<1>6. CASE SaveFailures(t)
  <2>1. rows'.paused = rows.paused
    BY <1>0, <1>6 DEF SaveFailures, GuardTypeOK, State
  <2>. QED
    BY <1>1, <1>4, <1>6, <2>1 DEF Breaker!vars
<1>7. CASE SaveLevel(t)
  <2>1. /\ rows.paused = copy[t].paused /\ rows.failures = copy[t].failures
        /\ rows' = [rows EXCEPT !.level = copy[t].level] /\ step[t] = "level"
        /\ step' = [step EXCEPT ![t] = "idle"] /\ event' = [event EXCEPT ![t] = "clear"]
    BY <1>1, <1>7 DEF SaveLevel, Underway
  <2>2. rows \in State /\ copy[t] \in State
    BY <1>0 DEF GuardTypeOK
  <2>3. rows' = copy[t]
    BY <2>1, <2>2 DEF State
  <2>4. Current' = copy[t]
    <3>1. \A u \in Thread : ~SavingIn(step', u)
      BY <1>0, <1>3, <2>1 DEF SavingIn, GuardTypeOK
    <3>. QED
      BY <2>3, <3>1, CurrentIs, CurrentNone
  <2>5. Called[t] = "done" /\ Called' = [Called EXCEPT ![t] = "none"]
    BY <1>0, <1>1, <2>1 DEF Called, Saving, GuardTypeOK
  <2>6. Breaker!Return(t)
    BY <1>1, <1>2, <2>1, <2>3, <2>4, <2>5 DEF Breaker!Return
  <2>. QED
    BY <2>6 DEF Breaker!Next
<1>. QED
  BY <1>5, <1>6, <1>7

LEMMA BreakerStep ==
    ASSUME IInv, IInv', [Next]_vars
    PROVE  [Breaker!Next]_Breaker!vars
<1>0. TypeOK /\ TypeOK' /\ RestInv
  BY DEF IInv
<1>1. CASE UNCHANGED vars
  <2>1. Current' = Current /\ Called' = Called
    BY <1>1 DEF vars, guardVars, Current, Called, Saving
  <2>. QED
    BY <1>1, <2>1 DEF vars, guardVars, Breaker!vars
<1>2. CASE overlapped'
  BY <1>0, <1>2, BreakerOverlap DEF Breaker!Next
<1>3. ASSUME Next, ~overlapped'
      PROVE  [Breaker!Next]_Breaker!vars
  <2>1. ASSUME NEW t \in Thread, Outside(t)
        PROVE  [Breaker!Next]_Breaker!vars
    BY <1>0, <1>3, <2>1, BreakerOutside DEF Outside
  <2>2. ASSUME NEW t \in Thread, Save(t)
        PROVE  [Breaker!Next]_Breaker!vars
    <3>1. CASE Load(t)
      BY <1>0, <1>3, <3>1, BreakerLoad DEF Breaker!Next
    <3>2. CASE SavePaused(t) \/ SaveFailures(t) \/ SaveLevel(t)
      <4>1. ~overlapped
        BY <1>3, <3>2 DEF SavePaused, SaveFailures, SaveLevel
      <4>. QED
        BY <1>0, <3>2, <4>1, BreakerSave
    <3>. QED
      BY <2>2, <3>1, <3>2 DEF Save, RecordStep
  <2>. QED
    BY <1>0, <1>3, <2>1, <2>2, StepCases
<1>. QED
  BY <1>1, <1>2, <1>3

\* While no two records overlap, loading, working in and saving row by row are one
\* step of an atomic breaker: none is lost, doubled or seen half done.
THEOREM RecordsAreAtomic == Spec => RecordsAtomic
<1>1. Init => Breaker!Init
  <2>. SUFFICES ASSUME Init PROVE Breaker!Init
    OBVIOUS
  <2>1. Current = Initial /\ Called = [t \in Thread |-> "none"]
    BY DEF Init, GuardInit, Current, Called, Saving
  <2>. QED
    BY <2>1 DEF Init, GuardInit, Breaker!Init, Breaker!Initial
<1>2. IInv /\ IInv' /\ [Next]_vars => [Breaker!Next]_Breaker!vars
  BY BreakerStep
<1>. QED
  BY <1>1, <1>2, Invariance, PTL DEF Spec, RecordsAtomic, Breaker!Spec
=============================================================================
