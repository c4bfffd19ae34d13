--------------------- MODULE DexOpportunityScanner_proofs ---------------------
(***************************************************************************)
(* Proofs about DexOpportunityScanner for any chains, groups and threads.  *)
(*                                                                         *)
(* The scan lock carries them: of the scanning threads only the one past   *)
(* it replaces snapshots and switches live quoting off.  GateInv says who  *)
(* may have live quoting switched off while no route test has overlapped,  *)
(* EvidenceInv that the routes a scan is about to put in place know of the *)
(* evidence in the snapshot that the reading could see, unless a review    *)
(* came late, and SingleInv that a snapshot which is not the scan's own    *)
(* lists one variant of each group when the scan merges its routes.        *)
(***************************************************************************)
EXTENDS DexOpportunityScanner, TLAPS

OneScan == \A t, u \in ScanThread : Holds(t) /\ Holds(u) => t = u

QueueOK == queue \in Seq(Chain) /\ IsInjective(queue)

GateInv ==
    /\ \A t \in ScanThread : Off(t) => At(t, "quoting")
    /\ ~mixed =>
        /\ \A t, u \in Thread : Off(t) /\ Off(u) => t = u
        /\ \A t \in Thread : Off(t) => saved[t] = "on"
        /\ (\A t \in Thread : ~Off(t)) => live

EvidenceInv ==
    \A t \in ScanThread : At(t, "record") /\ t \notin late =>
        \A g \in Group, v \in Variant :
            snapshot[job[t].chain][g][v] = "reviewed" /\ job[t].routes[g][v] = "plain" =>
                v = "default" /\ snapshot[job[t].chain][g]["temporary"] # "absent"

Single(listed) == listed["default"] = "absent" \/ listed["temporary"] = "absent"

SingleInv ==
    \A t \in ScanThread : At(t, "finish") /\ ~job[t].mine =>
        \A g \in Group : Single(snapshot[job[t].chain][g])

MineInv == \A t \in ScanThread : job[t].mine => At(t, "finish")

\* TypeOK is this with OneScan and QueueOK.
TypeRest ==
    /\ up \in BOOLEAN /\ live \in BOOLEAN /\ mixed \in BOOLEAN
    /\ watched \subseteq Chain /\ round \subseteq watched
    /\ snapshot \in [Chain -> Routes]
    /\ job \in [ScanThread -> Job]
    /\ saved \in [Thread -> {"none", "on", "off"}]
    /\ nows \in 0..MaxNow
    /\ late \subseteq ScanThread

IInv == TypeRest /\ QueueOK /\ OneScan /\ GateInv /\ EvidenceInv /\ SingleInv /\ MineInv

LEMMA TypeParts == TypeOK <=> TypeRest /\ QueueOK /\ OneScan
BY DEF TypeOK, TypeRest, QueueOK, OneScan

LEMMA LoneFacts ==
    ASSUME NEW v \in Variant, NEW r \in Route
    PROVE  /\ Lone(v, r) \in [Variant -> Route]
           /\ Single(Lone(v, r))
BY DEF Lone, Route, Single, Variant

LEMMA ByTokensFacts ==
    ASSUME NEW listed \in [Variant -> Route]
    PROVE  /\ ByTokens(listed) \in [Variant -> Route]
           /\ Single(ByTokens(listed))
           /\ listed["temporary"] = "absent" => ByTokens(listed) = listed
           /\ listed["temporary"] # "absent" => ByTokens(listed) = Lone("temporary", listed["temporary"])
<1>1. "temporary" \in Variant /\ listed["temporary"] \in Route
  BY DEF Variant
<1>. QED
  BY <1>1, LoneFacts DEF ByTokens, Single

LEMMA BetterFacts ==
    ASSUME NEW old \in [Variant -> Route], NEW v \in Variant, NEW r \in Route
    PROVE  Better(old, v, r) \in [Variant -> Route]
BY LoneFacts DEF Better

\* What the last merge makes of a group's routes, and what evidence it takes away.
LEMMA MergedFacts ==
    ASSUME NEW new \in [Variant -> Route], NEW listed \in [Variant -> Route]
    PROVE  /\ Merged(new, listed) \in [Variant -> Route]
           /\ new = listed \/ Single(listed) =>
                \A v \in Variant :
                    listed[v] = "reviewed" /\ Merged(new, listed)[v] # "reviewed" =>
                        v = "temporary" /\ Merged(new, listed)["default"] # "absent"
<1>1. /\ "default" \in Variant /\ "temporary" \in Variant
      /\ new["default"] \in Route /\ new["temporary"] \in Route
      /\ listed["default"] \in Route /\ listed["temporary"] \in Route
  BY DEF Variant
<1>. DEFINE first == Better(ByTokens(listed), "default", new["default"])
<1>2. ByTokens(listed) \in [Variant -> Route] /\ first \in [Variant -> Route]
  BY <1>1, ByTokensFacts, BetterFacts
<1>3. Merged(new, listed) = Better(first, "temporary", new["temporary"])
  BY DEF Merged
<1>4. Merged(new, listed) \in [Variant -> Route]
  <2>. HIDE DEF first
  <2>1. Better(first, "temporary", new["temporary"]) \in [Variant -> Route]
    BY <1>1, <1>2, BetterFacts, Zenon
  <2>. QED
    BY <1>3, <2>1, Zenon
<1>5. ASSUME first["default"] # "absent"
      PROVE  Merged(new, listed) = first
  BY <1>3, <1>5 DEF Better
<1>6. CASE listed["temporary"] = "absent"
  <2>1. ByTokens(listed) = listed
    BY <1>6, ByTokensFacts
  <2>2. listed["default"] = "reviewed" => first = listed
    BY <2>1 DEF Better
  <2>. QED
    BY <1>4, <1>5, <1>6, <2>2 DEF Variant
<1>7. CASE listed["temporary"] # "absent"
  <2>1. /\ ByTokens(listed)["default"] = "absent"
        /\ ByTokens(listed)["temporary"] = listed["temporary"]
    BY <1>7, ByTokensFacts DEF Lone, Variant
  <2>2. new["default"] # "absent" => first = Lone("default", new["default"])
    BY <2>1 DEF Better
  <2>3. new["default"] # "absent" => first["default"] = new["default"]
    BY <2>2 DEF Lone, Variant
  <2>4. new["default"] = "absent" => first = ByTokens(listed)
    BY DEF Better
  <2>5. new["default"] = "absent" /\ listed["temporary"] = "reviewed" =>
            Merged(new, listed)["temporary"] = "reviewed"
    BY <1>3, <2>1, <2>4 DEF Better
  <2>6. (new = listed \/ Single(listed)) /\ listed["default"] = "reviewed" =>
            new["default"] = "reviewed"
    BY <1>7 DEF Single
  <2>. QED
    BY <1>4, <1>5, <2>3, <2>5, <2>6 DEF Variant
<1>. QED
  BY <1>4, <1>6, <1>7

LEMMA NoRoutesFacts ==
    /\ NoRoutes \in Routes
    /\ \A g \in Group, v \in Variant : NoRoutes[g][v] = "absent"
BY LoneFacts DEF NoRoutes, Routes, Route, Variant, Lone

LEMMA RestFacts == Rest \in Job /\ Rest.at = "idle" /\ ~Rest.mine
<1>1. (CHOOSE c \in Chain : TRUE) \in Chain
  BY ChainAssumption
<1>. QED
  BY <1>1, NoRoutesFacts DEF Rest, Job

LEMMA Threads == ScanThread \subseteq Thread /\ Tester \subseteq Thread /\ ScanThread \cap Tester = {}
BY ThreadAssumption DEF ScanThread, Thread

-----------------------------------------------------------------------------
(* Who is asked to scan what. *)

Asks ==
    \/ \E c \in Chain : ScanAsync(c) \/ Start(c)
    \/ \E r \in Request, c \in Chain : ScanNow(r, c)
    \/ Turn

LEMMA QueueKept ==
    ASSUME QueueOK, Asks
    PROVE  QueueOK'
<1>1. ASSUME NEW c \in Chain, ScanAsync(c)
      PROVE  QueueOK'
  <2>1. CASE Contains(queue, c)
    BY <1>1, <2>1 DEF ScanAsync, QueueOK
  <2>2. CASE ~Contains(queue, c)
    <3>1. queue' = Append(queue, c) /\ queue \in Seq(Chain)
      BY <1>1, <2>2 DEF ScanAsync, QueueOK
    <3>2. \A i \in 1..Len(queue) : queue[i] # c
      BY <2>2, <3>1 DEF Contains
    <3>3. /\ Len(queue') = Len(queue) + 1 /\ queue' \in Seq(Chain)
          /\ \A i \in 1..Len(queue) : queue'[i] = queue[i]
          /\ queue'[Len(queue) + 1] = c
      BY <3>1
    <3>4. \A i, j \in 1..Len(queue) : queue[i] = queue[j] => i = j
      BY <3>1 DEF QueueOK, IsInjective
    <3>5. ASSUME NEW i \in 1..Len(queue'), NEW j \in 1..Len(queue'), queue'[i] = queue'[j]
          PROVE  i = j
      BY <3>1, <3>2, <3>3, <3>4, <3>5
    <3>. QED
      BY <3>3, <3>5 DEF QueueOK, IsInjective
  <2>. QED
    BY <2>1, <2>2
<1>2. CASE Pop
  <2>1. queue # <<>> /\ queue \in Seq(Chain) /\ queue' = Tail(queue)
    BY <1>2 DEF Pop, QueueOK
  <2>2. \A i, j \in 1..Len(queue) : queue[i] = queue[j] => i = j
    BY <2>1 DEF QueueOK, IsInjective
  <2>3. /\ Len(queue') = Len(queue) - 1 /\ queue' \in Seq(Chain) /\ Len(queue) \in Nat
        /\ \A i \in 1..Len(queue') : queue'[i] = queue[i + 1]
    BY <2>1
  <2>4. ASSUME NEW i \in 1..Len(queue'), NEW j \in 1..Len(queue'), queue'[i] = queue'[j]
        PROVE  i = j
    <3>1. i + 1 \in 1..Len(queue) /\ j + 1 \in 1..Len(queue)
      BY <2>3
    <3>2. queue[i + 1] = queue[j + 1]
      BY <2>3, <2>4
    <3>3. i + 1 = j + 1
      BY <2>2, <3>1, <3>2
    <3>. QED
      BY <3>3
  <2>. QED
    BY <2>3, <2>4 DEF QueueOK, IsInjective
<1>3. CASE queue' = queue
  BY <1>3 DEF QueueOK
<1>. QED
  BY <1>1, <1>2, <1>3 DEF Asks, Start, ScanNow, Turn, Round, Periodic, NotDue

\* Asking leaves the snapshots and the gate alone; it sends at most one idle
\* thread to the scan lock.
LEMMA AsksFacts ==
    ASSUME TypeRest, QueueOK, Asks
    PROVE  /\ UNCHANGED <<snapshot, late, gate>>
           /\ up' \in BOOLEAN /\ watched' \subseteq Chain /\ round' \subseteq watched'
           /\ nows' \in 0..MaxNow
           /\ \/ job' = job
              \/ \E t \in ScanThread, c \in Chain :
                    /\ At(t, "idle")
                    /\ job' = [job EXCEPT ![t].at = "lock", ![t].chain = c]
<1>1. ASSUME NEW c \in Chain, ScanAsync(c) \/ Start(c)
      PROVE  /\ UNCHANGED <<snapshot, late, gate, job>>
             /\ up' \in BOOLEAN /\ watched' \subseteq Chain /\ round' \subseteq watched'
             /\ nows' \in 0..MaxNow
  BY <1>1 DEF ScanAsync, Start, TypeRest
<1>2. ASSUME NEW r \in Request, NEW c \in Chain, ScanNow(r, c)
      PROVE  /\ UNCHANGED <<snapshot, late, gate>>
             /\ up' \in BOOLEAN /\ watched' \subseteq Chain /\ round' \subseteq watched'
             /\ nows' \in 0..MaxNow
             /\ At(r, "idle") /\ r \in ScanThread
             /\ job' = [job EXCEPT ![r].at = "lock", ![r].chain = c]
  BY <1>2, BoundAssumption DEF ScanNow, TypeRest, ScanThread
<1>3. ASSUME NEW c \in Chain, Periodic(c)
      PROVE  /\ UNCHANGED <<snapshot, late, gate>>
             /\ up' \in BOOLEAN /\ watched' \subseteq Chain /\ round' \subseteq watched'
             /\ nows' \in 0..MaxNow
             /\ At(Scanner, "idle") /\ Scanner \in ScanThread
             /\ job' = [job EXCEPT ![Scanner].at = "lock", ![Scanner].chain = c]
  BY <1>3 DEF Periodic, Looping, TypeRest, ScanThread
<1>4. CASE Pop
  <2>1. Head(queue) \in Chain
    BY <1>4 DEF Pop, QueueOK
  <2>2. /\ UNCHANGED <<snapshot, late, gate>>
        /\ up' \in BOOLEAN /\ watched' \subseteq Chain /\ round' \subseteq watched'
        /\ nows' \in 0..MaxNow
        /\ At(Scanner, "idle") /\ Scanner \in ScanThread
        /\ job' = [job EXCEPT ![Scanner].at = "lock", ![Scanner].chain = Head(queue)]
    BY <1>4 DEF Pop, Looping, TypeRest, ScanThread
  <2>. QED
    BY <2>1, <2>2
<1>5. ASSUME Round \/ \E c \in Chain : NotDue(c)
      PROVE  /\ UNCHANGED <<snapshot, late, gate, job>>
             /\ up' \in BOOLEAN /\ watched' \subseteq Chain /\ round' \subseteq watched'
             /\ nows' \in 0..MaxNow
  BY <1>5 DEF Round, NotDue, TypeRest
<1>6. CASE \E c \in Chain : ScanAsync(c) \/ Start(c)
  BY <1>1, <1>6
<1>7. CASE \E r \in Request, c \in Chain : ScanNow(r, c)
  <2>1. PICK r \in Request, c \in Chain : ScanNow(r, c)
    BY <1>7
  <2>. QED
    BY <1>2, <2>1
<1>8. CASE \E c \in Chain : Periodic(c)
  <2>1. PICK c \in Chain : Periodic(c)
    BY <1>8
  <2>. QED
    BY <1>3, <2>1
<1>. QED
  BY <1>4, <1>5, <1>6, <1>7, <1>8 DEF Asks, Turn

LEMMA AsksInv ==
    ASSUME IInv, Asks
    PROVE  IInv'
<1>0. TypeRest /\ QueueOK /\ OneScan /\ GateInv /\ EvidenceInv /\ SingleInv /\ MineInv
  BY DEF IInv
<1>1. /\ UNCHANGED <<snapshot, late, gate>>
      /\ up' \in BOOLEAN /\ watched' \subseteq Chain /\ round' \subseteq watched'
      /\ nows' \in 0..MaxNow
      /\ \/ job' = job
         \/ \E t \in ScanThread, c \in Chain :
               /\ At(t, "idle")
               /\ job' = [job EXCEPT ![t].at = "lock", ![t].chain = c]
  BY <1>0, AsksFacts
<1>2. QueueOK'
  BY <1>0, QueueKept
<1>3. CASE job' = job
  <2>1. TypeRest' /\ OneScan'
    BY <1>0, <1>1, <1>3 DEF TypeRest, OneScan, Holds, gate
  <2>2. GateInv' /\ EvidenceInv' /\ SingleInv' /\ MineInv'
    BY <1>0, <1>1, <1>3 DEF GateInv, Off, EvidenceInv, SingleInv, MineInv, At, gate
  <2>. QED
    BY <1>2, <2>1, <2>2 DEF IInv
<1>4. ASSUME NEW t \in ScanThread, NEW c \in Chain, At(t, "idle"),
             job' = [job EXCEPT ![t].at = "lock", ![t].chain = c]
      PROVE  IInv'
  <2>1. job' \in [ScanThread -> Job]
    BY <1>0, <1>4 DEF TypeRest, Job
  <2>2. /\ \A u \in ScanThread \ {t} : job'[u] = job[u]
        /\ job'[t].at = "lock" /\ job'[t].mine = job[t].mine /\ job[t].at = "idle"
        /\ UNCHANGED <<snapshot, late, live, saved, mixed>>
    BY <1>0, <1>1, <1>4 DEF TypeRest, Job, At, gate
  <2>3. TypeRest' /\ OneScan'
    BY <1>0, <1>1, <2>1, <2>2 DEF TypeRest, OneScan, Holds, gate
  <2>4. GateInv'
    <3>1. ~Off(t) /\ \A u \in Thread : saved'[u] = saved[u] /\ (Off(u)' <=> Off(u))
      BY <1>0, <2>2 DEF GateInv, Off, At
    <3>2. \A u \in ScanThread : Off(u)' => At(u, "quoting")'
      BY <1>0, <2>2, <3>1, Threads DEF GateInv, At
    <3>. QED
      BY <1>0, <2>2, <3>1, <3>2 DEF GateInv
  <2>5. EvidenceInv' /\ SingleInv' /\ MineInv'
    <3>1. /\ \A u \in ScanThread : ~At(u, "lock")' => job'[u] = job[u]
          /\ ~job'[t].mine
      BY <1>0, <2>2 DEF MineInv, At
    <3>. QED
      BY <1>0, <2>2, <3>1 DEF EvidenceInv, SingleInv, MineInv, At
  <2>. QED
    BY <1>2, <2>3, <2>4, <2>5 DEF IInv
<1>. QED
  BY <1>1, <1>3, <1>4

-----------------------------------------------------------------------------
(* The steps of a scan. *)

\* What a step of t's scan does to the other threads' scans: nothing.
LEMMA StepOthers ==
    ASSUME TypeRest, NEW t \in ScanThread, ScanStep(t)
    PROVE  /\ \A u \in ScanThread \ {t} : job'[u] = job[u]
           /\ \A u \in ScanThread \ {t} : u \in late' <=> u \in late
           /\ \A u \in Thread \ {t} : saved'[u] = saved[u]
           /\ UNCHANGED asking
           /\ late' \subseteq ScanThread
<1>1. CASE Lock(t)
  BY <1>1 DEF TypeRest, Lock, Goto, gate
<1>2. CASE Quote(t)
  BY <1>2 DEF TypeRest, Quote, Goto, SwitchOff
<1>3. CASE Quoted(t)
  BY <1>3 DEF TypeRest, Quoted, Goto, SwitchBack
<1>4. CASE QuoteRaises(t)
  BY <1>4 DEF TypeRest, QuoteRaises, SwitchBack
<1>5. CASE Read(t)
  BY <1>5 DEF TypeRest, Read, gate
<1>6. CASE Persist(t)
  BY <1>6 DEF TypeRest, Persist, gate
<1>7. CASE ScanRaises(t)
  BY <1>7 DEF TypeRest, ScanRaises, gate
<1>8. CASE Finish(t)
  BY <1>8 DEF TypeRest, Finish, gate
<1>. QED
  BY <1>1, <1>2, <1>3, <1>4, <1>5, <1>6, <1>7, <1>8 DEF ScanStep

\* The scan's own state.
LEMMA StepTypes ==
    ASSUME TypeRest, NEW t \in ScanThread, ScanStep(t)
    PROVE  /\ job' \in [ScanThread -> Job]
           /\ snapshot' \in [Chain -> Routes]
           /\ live' \in BOOLEAN /\ mixed' \in BOOLEAN
           /\ saved' \in [Thread -> {"none", "on", "off"}]
<1>0. /\ job \in [ScanThread -> Job] /\ job[t] \in Job /\ job[t].chain \in Chain
      /\ job[t].routes \in Routes /\ t \in Thread /\ Rest \in Job
      /\ snapshot \in [Chain -> Routes]
      /\ saved \in [Thread -> {"none", "on", "off"}]
      /\ live \in BOOLEAN /\ mixed \in BOOLEAN
      /\ NoRoutes \in Routes
  BY RestFacts, NoRoutesFacts, Threads DEF TypeRest, Job
<1>1. CASE Lock(t)
  BY <1>0, <1>1 DEF Lock, Goto, gate, Job
<1>2. CASE Quote(t)
  <2>1. job' \in [ScanThread -> Job] /\ snapshot' = snapshot
    BY <1>0, <1>2 DEF Quote, Goto, Job
  <2>2. live' \in BOOLEAN /\ mixed' \in BOOLEAN /\ saved' \in [Thread -> {"none", "on", "off"}]
    BY <1>0, <1>2 DEF Quote, SwitchOff
  <2>. QED
    BY <1>0, <2>1, <2>2
<1>3. CASE Quoted(t) \/ QuoteRaises(t)
  <2>1. job' \in [ScanThread -> Job] /\ snapshot' = snapshot
    <3>1. CASE Quoted(t)
      BY <1>0, <3>1 DEF Quoted, Goto, Job
    <3>2. CASE QuoteRaises(t)
      BY <1>0, <3>2 DEF QuoteRaises
    <3>. QED
      BY <1>3, <3>1, <3>2
  <2>2. live' \in BOOLEAN /\ mixed' \in BOOLEAN /\ saved' \in [Thread -> {"none", "on", "off"}]
    BY <1>0, <1>3 DEF Quoted, QuoteRaises, SwitchBack
  <2>. QED
    BY <1>0, <2>1, <2>2
<1>4. CASE Read(t)
  <2>1. PICK found \in [Group -> SUBSET VariantsOf(job[t].chain)], logged \in SUBSET Group :
          job' = [job EXCEPT ![t].at = "record",
                             ![t].routes = Keep(snapshot[job[t].chain], found, logged)]
    BY <1>4 DEF Read
  <2>2. Keep(snapshot[job[t].chain], found, logged) \in Routes
    BY DEF Keep, Routes, Route
  <2>3. job' \in [ScanThread -> Job]
    BY <1>0, <2>1, <2>2 DEF Job
  <2>. QED
    BY <1>0, <1>4, <2>3 DEF Read, gate
<1>5. CASE Persist(t)
  <2>1. job' \in [ScanThread -> Job]
    BY <1>0, <1>5 DEF Persist, Job
  <2>2. snapshot' \in [Chain -> Routes]
    BY <1>0, <1>5 DEF Persist
  <2>. QED
    BY <1>0, <1>5, <2>1, <2>2 DEF Persist, gate
<1>6. CASE ScanRaises(t)
  BY <1>0, <1>6 DEF ScanRaises, gate
<1>7. CASE Finish(t)
  <2>. DEFINE c == job[t].chain
              new == IF job[t].mine THEN snapshot[c] ELSE job[t].routes
  <2>1. [g \in Group |-> Merged(new[g], snapshot[c][g])] \in Routes
    <3>1. \A g \in Group : new[g] \in [Variant -> Route] /\ snapshot[c][g] \in [Variant -> Route]
      BY <1>0 DEF Routes
    <3>. HIDE DEF new, c
    <3>. QED
      BY <3>1, MergedFacts DEF Routes
  <2>2. snapshot' \in [Chain -> Routes]
    BY <1>0, <1>7, <2>1 DEF Finish
  <2>. QED
    BY <1>0, <1>7, <2>2 DEF Finish, gate
<1>. QED
  BY <1>1, <1>2, <1>3, <1>4, <1>5, <1>6, <1>7 DEF ScanStep

\* Nobody passes the lock while somebody holds it.
LEMMA StepLock ==
    ASSUME TypeRest, OneScan, NEW t \in ScanThread, ScanStep(t)
    PROVE  OneScan'
<1>1. \A u \in ScanThread \ {t} : Holds(u)' <=> Holds(u)
  BY StepOthers DEF Holds
<1>2. CASE Lock(t)
  BY <1>1, <1>2 DEF OneScan, Lock
<1>3. CASE ~Lock(t)
  <2>1. Holds(t)
    BY <1>3 DEF ScanStep, Quote, Quoted, QuoteRaises, Read, Persist, ScanRaises, Finish, At, Holds
  <2>. QED
    BY <1>1, <2>1 DEF OneScan
<1>. QED
  BY <1>2, <1>3

LEMMA StepGate ==
    ASSUME TypeRest, OneScan, GateInv, NEW t \in ScanThread, ScanStep(t)
    PROVE  GateInv'
<1>0. /\ t \in Thread /\ \A u \in ScanThread \ {t} : job'[u] = job[u]
      /\ \A u \in Thread \ {t} : saved'[u] = saved[u] /\ (Off(u)' <=> Off(u))
      /\ job \in [ScanThread -> Job] /\ saved \in [Thread -> {"none", "on", "off"}]
      /\ live \in BOOLEAN /\ mixed \in BOOLEAN
  BY StepOthers, Threads DEF TypeRest, Off
<1>1. CASE Quote(t)
  <2>1. job'[t].at = "quoting" /\ ~Off(t) /\ Holds(t)
    BY <1>0, <1>1 DEF Quote, Goto, At, GateInv, Job, Holds
  <2>2. CASE SwitchOff(t)
    <3>1. /\ saved'[t] = IF live THEN "on" ELSE "off"
          /\ mixed' = (mixed \/ \E u \in Thread \ {t} : Off(u) /\ (u \in Tester \/ t \in Tester))
      BY <1>0, <2>2 DEF SwitchOff
    <3>2. \A u \in ScanThread \ {t} : ~Off(u)
      BY <2>1 DEF GateInv, OneScan, Holds, At
    <3>3. ~mixed' => \A u \in Thread \ {t} : ~Off(u)
      BY <3>1, <3>2 DEF Thread, ScanThread
    <3>4. ~mixed' => saved'[t] = "on"
      BY <2>1, <3>1, <3>3 DEF GateInv
    <3>5. ~mixed' => \A u, v \in Thread : Off(u)' /\ Off(v)' => u = v
      BY <1>0, <3>3
    <3>6. ~mixed' => \A u \in Thread : Off(u)' => saved'[u] = "on"
      BY <1>0, <3>3, <3>4
    <3>7. Off(t)'
      BY <3>1 DEF Off
    <3>8. \A u \in ScanThread : Off(u)' => At(u, "quoting")'
      BY <1>0, <2>1, <3>2, Threads DEF At
    <3>. QED
      BY <1>0, <3>5, <3>6, <3>7, <3>8 DEF GateInv
  <2>3. CASE UNCHANGED <<live, saved, mixed>>
    BY <1>0, <2>1, <2>3 DEF GateInv, Off, At
  <2>. QED
    BY <1>1, <2>2, <2>3 DEF Quote
<1>2. CASE Quoted(t) \/ QuoteRaises(t)
  <2>1. SwitchBack(t)
    BY <1>2 DEF Quoted, QuoteRaises
  <2>2. /\ ~Off(t)'
        /\ mixed' = (mixed /\ (~live' \/ \E u \in Thread \ {t} : Off(u)))
    BY <1>0, <2>1 DEF SwitchBack, Off
  <2>3. \A u \in ScanThread : Off(u)' => At(u, "quoting")'
    BY <1>0, <2>2, Threads DEF GateInv, At
  <2>4. ~mixed /\ Off(t) => live' /\ \A u \in Thread \ {t} : ~Off(u)
    BY <1>0, <2>1 DEF SwitchBack, GateInv
  <2>5. ~mixed /\ ~Off(t) => live' = live
    BY <2>1 DEF SwitchBack
  <2>6. CASE mixed /\ ~mixed'
    <3>1. live' /\ \A u \in Thread : ~Off(u)'
      BY <1>0, <2>2, <2>6
    <3>. QED
      BY <2>3, <3>1 DEF GateInv
  <2>7. CASE ~mixed \/ mixed'
    BY <1>0, <2>2, <2>3, <2>4, <2>5, <2>7 DEF GateInv
  <2>. QED
    BY <2>6, <2>7
<1>3. CASE Lock(t) \/ Read(t) \/ Persist(t) \/ ScanRaises(t) \/ Finish(t)
  <2>1. UNCHANGED <<live, saved, mixed>> /\ ~At(t, "quoting")
    BY <1>3 DEF Lock, Read, Persist, ScanRaises, Finish, gate, At
  <2>. QED
    BY <1>0, <2>1 DEF GateInv, Off, At
<1>. QED
  BY <1>1, <1>2, <1>3 DEF ScanStep

LEMMA StepEvidence ==
    ASSUME TypeRest, OneScan, EvidenceInv, SingleInv, MineInv, NEW t \in ScanThread, ScanStep(t)
    PROVE  EvidenceInv' /\ SingleInv' /\ MineInv'
<1>0. /\ \A u \in ScanThread \ {t} : job'[u] = job[u]
      /\ \A u \in ScanThread \ {t} : u \in late' <=> u \in late
      /\ job \in [ScanThread -> Job] /\ job[t] \in Job /\ job[t].chain \in Chain
      /\ snapshot \in [Chain -> Routes]
  BY StepOthers DEF TypeRest, Job
<1>1. CASE Read(t)
  <2>1. PICK found \in [Group -> SUBSET VariantsOf(job[t].chain)], logged \in SUBSET Group :
          job' = [job EXCEPT ![t].at = "record",
                             ![t].routes = Keep(snapshot[job[t].chain], found, logged)]
    BY <1>1 DEF Read
  <2>. DEFINE was == snapshot[job[t].chain]
  <2>2. /\ job'[t].chain = job[t].chain /\ job'[t].mine = job[t].mine
        /\ job'[t].routes = Keep(was, found, logged) /\ job'[t].at = "record"
    BY <1>0, <2>1 DEF Job
  <2>3. ASSUME NEW g \in Group, NEW v \in Variant,
               was[g][v] = "reviewed", job'[t].routes[g][v] = "plain"
        PROVE  v = "default" /\ was[g]["temporary"] # "absent"
    <3>0. was[g] \in [Variant -> Route]
      BY <1>0 DEF Routes
    <3>1. ByTokens(was[g])[v] # "reviewed"
      BY <2>2, <2>3 DEF Keep
    <3>2. CASE was[g]["temporary"] = "absent"
      BY <2>3, <3>0, <3>1, <3>2, ByTokensFacts
    <3>3. CASE was[g]["temporary"] # "absent" /\ v = "temporary"
      BY <2>3, <3>0, <3>1, <3>3, ByTokensFacts DEF Lone, Variant
    <3>. QED
      BY <3>2, <3>3 DEF Variant
  <2>4. snapshot' = snapshot /\ At(t, "read")
    BY <1>1 DEF Read
  <2>. QED
    BY <1>0, <2>2, <2>3, <2>4 DEF EvidenceInv, SingleInv, MineInv, At
<1>2. CASE Persist(t) \/ Finish(t)
  <2>1. \A u \in ScanThread \ {t} : ~Holds(u)
    BY <1>2 DEF Persist, Finish, OneScan, Holds, At
  <2>2. \/ job'[t].at = "finish" /\ job'[t].mine
        \/ job'[t].at = "idle" /\ ~job'[t].mine
    BY <1>0, <1>2, RestFacts DEF Persist, Finish, Job
  <2>. QED
    BY <1>0, <2>1, <2>2 DEF EvidenceInv, SingleInv, MineInv, Holds, At
<1>3. CASE Lock(t) \/ Quote(t) \/ Quoted(t)
  <2>1. snapshot' = snapshot /\ ~At(t, "finish")
        /\ job'[t].at \notin {"record", "finish"} /\ job'[t].mine = job[t].mine
    BY <1>0, <1>3 DEF Lock, Quote, Quoted, Goto, At, Job
  <2>. QED
    BY <1>0, <2>1 DEF EvidenceInv, SingleInv, MineInv, At
<1>4. CASE QuoteRaises(t) \/ ScanRaises(t)
  <2>1. snapshot' = snapshot /\ job'[t].at = "idle" /\ ~job'[t].mine
    BY <1>0, <1>4, RestFacts DEF QuoteRaises, ScanRaises
  <2>. QED
    BY <1>0, <2>1 DEF EvidenceInv, SingleInv, MineInv, At
<1>. QED
  BY <1>1, <1>2, <1>3, <1>4 DEF ScanStep

LEMMA StepInv ==
    ASSUME IInv, NEW t \in ScanThread, ScanStep(t)
    PROVE  IInv'
<1>0. TypeRest /\ QueueOK /\ OneScan /\ GateInv /\ EvidenceInv /\ SingleInv /\ MineInv
  BY DEF IInv
<1>1. TypeRest'
  BY <1>0, StepOthers, StepTypes DEF TypeRest, asking
<1>2. QueueOK'
  BY <1>0, StepOthers DEF QueueOK, asking
<1>. QED
  BY <1>0, <1>1, <1>2, StepLock, StepGate, StepEvidence DEF IInv

-----------------------------------------------------------------------------
(* Those beside the scans. *)

LEMMA MergeInv ==
    ASSUME IInv, NEW c \in Chain, NEW g \in Group, NEW r \in {"plain", "reviewed"},
           NEW v \in VariantsOf(c), Merge(c, g, v, r)
    PROVE  IInv'
<1>0. /\ TypeRest /\ QueueOK /\ OneScan /\ GateInv /\ EvidenceInv /\ SingleInv /\ MineInv
      /\ v \in Variant /\ r \in Route
  BY DEF IInv, VariantsOf, Variant, Route
<1>. DEFINE merged == [h \in Group |-> IF h = g THEN Lone(v, r) ELSE ByTokens(snapshot[c][h])]
<1>1. /\ merged \in Routes
      /\ \A h \in Group : Single(merged[h])
  <2>1. \A h \in Group : snapshot[c][h] \in [Variant -> Route]
    BY <1>0 DEF TypeRest, Routes
  <2>. QED
    BY <1>0, <2>1, LoneFacts, ByTokensFacts DEF Routes
<1>2. /\ snapshot' \in [Chain -> Routes] /\ snapshot'[c] = merged
      /\ \A d \in Chain : d # c => snapshot'[d] = snapshot[d]
  <2>1. snapshot' = [snapshot EXCEPT ![c] = merged]
    BY DEF Merge
  <2>. HIDE DEF merged
  <2>. QED
    BY <1>0, <1>1, <2>1 DEF TypeRest
<1>3. TypeRest'
  BY <1>0, <1>2 DEF Merge, TypeRest, asking, gate
<1>4. QueueOK' /\ OneScan' /\ GateInv' /\ MineInv'
  <2>1. UNCHANGED <<asking, job, gate>>
    BY DEF Merge
  <2>2. QueueOK' /\ OneScan' /\ MineInv'
    BY <1>0, <2>1 DEF asking, QueueOK, OneScan, Holds, At, MineInv
  <2>3. GateInv'
    BY <1>0, <2>1 DEF gate, GateInv, Off, At
  <2>. QED
    BY <2>2, <2>3
<1>5. job' = job /\ \A t \in ScanThread : job[t].chain \in Chain
  BY <1>0 DEF Merge, TypeRest, Job
<1>6. EvidenceInv'
  <2>1. ASSUME NEW t \in ScanThread, At(t, "record")', t \notin late'
        PROVE  job[t].chain # c /\ t \notin late /\ At(t, "record")
    BY <2>1 DEF Merge, At
  <2>. QED
    BY <1>0, <1>2, <1>5, <2>1 DEF EvidenceInv
<1>7. SingleInv'
  <2>. HIDE DEF merged
  <2>. QED
    BY <1>0, <1>1, <1>2, <1>5 DEF SingleInv, At
<1>. QED
  BY <1>3, <1>4, <1>6, <1>7 DEF IInv

LEMMA ResetInv ==
    ASSUME IInv, NEW c \in Chain, Reset(c)
    PROVE  IInv'
<1>0. TypeRest /\ QueueOK /\ OneScan /\ GateInv /\ EvidenceInv /\ SingleInv /\ MineInv
  BY DEF IInv
<1>1. /\ snapshot' \in [Chain -> Routes]
      /\ \A d \in Chain : snapshot'[d] = IF d = c THEN NoRoutes ELSE snapshot[d]
  BY <1>0, NoRoutesFacts DEF Reset, TypeRest
<1>2. ASSUME NEW t \in ScanThread
      PROVE  /\ job'[t] \in Job
             /\ job'[t].at = job[t].at
             /\ job'[t].mine => job[t].mine
             /\ job'[t].chain = job[t].chain
             /\ ~At(t, "finish") => job'[t] = job[t]
             /\ ~job'[t].mine => ~job[t].mine \/ job[t].chain = c
  <2>1. job[t] \in Job /\ snapshot[c] \in Routes
    BY <1>0 DEF TypeRest
  <2>2. job'[t] = IF job[t].mine /\ job[t].chain = c
                    THEN [job[t] EXCEPT !.mine = FALSE, !.routes = snapshot[c]] ELSE job[t]
    BY DEF Reset
  <2>3. [job[t] EXCEPT !.mine = FALSE, !.routes = snapshot[c]] \in Job
    BY <2>1 DEF Job
  <2>4. /\ [job[t] EXCEPT !.mine = FALSE, !.routes = snapshot[c]].at = job[t].at
        /\ ~[job[t] EXCEPT !.mine = FALSE, !.routes = snapshot[c]].mine
        /\ [job[t] EXCEPT !.mine = FALSE, !.routes = snapshot[c]].chain = job[t].chain
    BY <2>1 DEF Job
  <2>5. job[t].mine => At(t, "finish")
    BY <1>0 DEF MineInv
  <2>. QED
    BY <2>1, <2>2, <2>3, <2>4, <2>5
<1>3. TypeRest'
  <2>1. job' \in [ScanThread -> Job]
    BY <1>2 DEF Reset
  <2>. QED
    BY <1>0, <1>1, <2>1 DEF Reset, TypeRest, asking, gate
<1>4. QueueOK' /\ OneScan' /\ GateInv' /\ MineInv'
  <2>1. UNCHANGED <<asking, gate>> /\ \A t \in ScanThread : job'[t].at = job[t].at
    BY <1>2 DEF Reset
  <2>2. QueueOK' /\ OneScan'
    BY <1>0, <2>1 DEF asking, QueueOK, OneScan, Holds
  <2>3. GateInv'
    BY <1>0, <2>1 DEF gate, GateInv, Off, At
  <2>4. MineInv'
    BY <1>0, <1>2, <2>1 DEF MineInv, At
  <2>. QED
    BY <2>2, <2>3, <2>4
<1>5. EvidenceInv'
  <2>1. ASSUME NEW t \in ScanThread, At(t, "record")', t \notin late', NEW g \in Group,
               NEW v \in Variant,
               snapshot'[job'[t].chain][g][v] = "reviewed", job'[t].routes[g][v] = "plain"
        PROVE  v = "default" /\ snapshot'[job'[t].chain][g]["temporary"] # "absent"
    <3>1. job'[t] = job[t] /\ At(t, "record") /\ t \notin late /\ job[t].chain \in Chain
      BY <1>0, <1>2, <2>1 DEF At, Reset, TypeRest, Job
    <3>2. job[t].chain # c
      BY <1>1, <2>1, <3>1, NoRoutesFacts
    <3>. QED
      BY <1>0, <1>1, <2>1, <3>1, <3>2 DEF EvidenceInv
  <2>. QED
    BY <2>1 DEF EvidenceInv
<1>6. SingleInv'
  <2>1. ASSUME NEW t \in ScanThread, At(t, "finish")', ~job'[t].mine, NEW g \in Group
        PROVE  Single(snapshot'[job'[t].chain][g])
    <3>1. At(t, "finish") /\ job'[t].chain = job[t].chain /\ job[t].chain \in Chain
      BY <1>0, <1>2, <2>1 DEF At, TypeRest, Job
    <3>2. CASE job[t].chain = c
      BY <1>1, <3>1, <3>2, NoRoutesFacts DEF Single, Variant
    <3>3. CASE job[t].chain # c
      BY <1>0, <1>1, <1>2, <2>1, <3>1, <3>3 DEF SingleInv
    <3>. QED
      BY <3>2, <3>3
  <2>. QED
    BY <2>1 DEF SingleInv
<1>. QED
  BY <1>3, <1>4, <1>5, <1>6 DEF IInv

LEMMA TestInv ==
    ASSUME IInv, NEW x \in Tester, TestBegins(x) \/ TestEnds(x)
    PROVE  IInv'
<1>0. /\ TypeRest /\ QueueOK /\ OneScan /\ GateInv /\ EvidenceInv /\ SingleInv /\ MineInv
      /\ x \in Thread /\ x \notin ScanThread
  BY Threads DEF IInv
<1>1. TypeRest'
  <2>1. CASE TestBegins(x)
    <3>1. UNCHANGED <<up, watched, round, snapshot, job, nows, late>>
      BY <2>1 DEF TestBegins, asking
    <3>2. /\ live' \in BOOLEAN /\ mixed' \in BOOLEAN
          /\ saved' \in [Thread -> {"none", "on", "off"}]
      BY <1>0, <2>1 DEF TestBegins, SwitchOff, TypeRest
    <3>. QED
      BY <1>0, <3>1, <3>2 DEF TypeRest
  <2>2. CASE TestEnds(x)
    BY <1>0, <2>2 DEF TestEnds, SwitchBack, TypeRest, asking
  <2>. QED
    BY <2>1, <2>2
<1>2. QueueOK' /\ OneScan' /\ EvidenceInv' /\ SingleInv' /\ MineInv'
  BY <1>0 DEF TestBegins, TestEnds, asking, QueueOK, OneScan, Holds, EvidenceInv, SingleInv, At, MineInv
<1>3. GateInv'
  <2>0. /\ job' = job /\ saved \in [Thread -> {"none", "on", "off"}]
        /\ \A u \in Thread \ {x} : saved'[u] = saved[u] /\ (Off(u)' <=> Off(u))
    BY <1>0 DEF TestBegins, TestEnds, SwitchOff, SwitchBack, TypeRest, Off
  <2>1. \A u \in ScanThread : Off(u)' => At(u, "quoting")'
    BY <1>0, <2>0, Threads DEF GateInv, At
  <2>2. CASE TestBegins(x)
    <3>1. /\ saved'[x] = IF live THEN "on" ELSE "off"
          /\ mixed' = (mixed \/ \E u \in Thread \ {x} : Off(u) /\ (u \in Tester \/ x \in Tester))
      BY <1>0, <2>0, <2>2 DEF TestBegins, SwitchOff
    <3>2. ~mixed' => ~mixed /\ \A u \in Thread \ {x} : ~Off(u)
      BY <1>0, <3>1 DEF TypeRest
    <3>3. ~Off(x) /\ Off(x)'
      BY <2>2, <3>1 DEF TestBegins, Off
    <3>4. ~mixed' => saved'[x] = "on"
      BY <1>0, <3>1, <3>2, <3>3 DEF GateInv
    <3>. QED
      BY <1>0, <2>0, <2>1, <3>2, <3>3, <3>4 DEF GateInv
  <2>3. CASE TestEnds(x)
    <3>1. /\ ~Off(x)' /\ Off(x) /\ live' = (saved[x] = "on")
          /\ mixed' = (mixed /\ (~live' \/ \E u \in Thread \ {x} : Off(u)))
      BY <1>0, <2>0, <2>3 DEF TestEnds, SwitchBack, Off
    <3>2. ~mixed => live' /\ \A u \in Thread \ {x} : ~Off(u)
      BY <1>0, <3>1 DEF GateInv
    <3>3. mixed /\ ~mixed' => live' /\ \A u \in Thread : ~Off(u)'
      BY <2>0, <3>1
    <3>4. CASE mixed /\ ~mixed'
      BY <2>1, <3>3, <3>4 DEF GateInv
    <3>5. CASE ~mixed \/ mixed'
      BY <1>0, <2>0, <2>1, <3>1, <3>2, <3>5 DEF GateInv
    <3>. QED
      BY <3>4, <3>5
  <2>. QED
    BY <2>2, <2>3
<1>. QED
  BY <1>1, <1>2, <1>3 DEF IInv

-----------------------------------------------------------------------------
(* The theorems. *)

LEMMA InitInv ==
    ASSUME Init
    PROVE  IInv
<1>1. TypeRest
  <2>2. snapshot \in [Chain -> Routes] /\ job \in [ScanThread -> Job]
    BY NoRoutesFacts, RestFacts DEF Init
  <2>3. saved \in [Thread -> {"none", "on", "off"}]
    BY DEF Init
  <2>4. nows \in 0..MaxNow
    BY BoundAssumption DEF Init
  <2>. QED
    BY <2>2, <2>3, <2>4 DEF Init, TypeRest
<1>2. QueueOK /\ OneScan
  BY RestFacts DEF Init, QueueOK, IsInjective, OneScan, Holds
<1>3. GateInv /\ EvidenceInv /\ SingleInv /\ MineInv
  BY RestFacts, Threads DEF Init, GateInv, Off, EvidenceInv, SingleInv, MineInv, At
<1>. QED
  BY <1>1, <1>2, <1>3 DEF IInv

LEMMA NextInv ==
    ASSUME IInv, [Next]_vars
    PROVE  IInv'
<1>1. CASE Next
  BY <1>1, AsksInv, StepInv, MergeInv, ResetInv, TestInv DEF Next, Asks
<1>2. CASE UNCHANGED vars
  <2>1. TypeRest' /\ QueueOK' /\ OneScan'
    BY <1>2 DEF vars, IInv, TypeRest, QueueOK, OneScan, Holds
  <2>2. GateInv' /\ EvidenceInv' /\ SingleInv' /\ MineInv'
    BY <1>2 DEF vars, IInv, GateInv, Off, EvidenceInv, SingleInv, MineInv, At
  <2>. QED
    BY <2>1, <2>2 DEF IInv
<1>. QED
  BY <1>1, <1>2

\* The inductive invariant holds in every reachable state.
THEOREM Invariance == Spec => []IInv
<1>. QED
  BY InitInv, NextInv, PTL DEF Spec

\* The scanner keeps its types: no chain is queued twice and one thread scans.
THEOREM TypeCorrect == Spec => []TypeOK
<1>1. IInv => TypeOK
  BY TypeParts DEF IInv
<1>. QED
  BY <1>1, Invariance, PTL

\* Scans alone leave live quoting as it was, for any chains and threads.
THEOREM LiveQuotingComesBack == Spec => []LiveAgain
<1>1. IInv => LiveAgain
  BY DEF IInv, GateInv, LiveAgain
<1>. QED
  BY <1>1, Invariance, PTL

\* A scan takes the evidence of a route that stays away only when a review came while
\* it was under way, when the reading could not see it behind a temporary route, or in
\* the last merge when a default route takes the place of a temporary one, for any
\* chains, groups and threads.
THEOREM EvidenceIsKept == Spec => EvidenceKept
<1>1. ASSUME IInv, [Next]_vars
      PROVE  [\A t \in ScanThread :
                Persist(t) \/ Finish(t) =>
                   \A g \in Group, v \in Variant :
                       snapshot[job[t].chain][g][v] = "reviewed" /\ Loses(t, g, v)
                           => MayLose(t, g, v)]_vars
  <2>. SUFFICES ASSUME NEW t \in ScanThread, Persist(t) \/ Finish(t), NEW g \in Group,
                       NEW v \in Variant,
                       snapshot[job[t].chain][g][v] = "reviewed", Loses(t, g, v)
                PROVE  MayLose(t, g, v)
    OBVIOUS
  <2>. DEFINE c == job[t].chain
              new == IF job[t].mine THEN snapshot[c] ELSE job[t].routes
  <2>0. /\ snapshot \in [Chain -> Routes] /\ c \in Chain /\ job[t].routes \in Routes
        /\ EvidenceInv /\ SingleInv
    BY <1>1 DEF IInv, TypeRest, Job
  <2>1. CASE Persist(t)
    <3>1. At(t, "record") /\ snapshot'[c] = job[t].routes
      BY <2>0, <2>1 DEF Persist
    <3>. QED
      BY <2>0, <3>1 DEF EvidenceInv, Loses, MayLose
  <2>2. CASE Finish(t)
    <3>1. ~At(t, "record") /\ At(t, "finish")
      BY <2>2 DEF Finish, At
    <3>2. snapshot'[c][g] = Merged(new[g], snapshot[c][g])
      BY <2>0, <2>2 DEF Finish
    <3>3. new[g] \in [Variant -> Route] /\ snapshot[c][g] \in [Variant -> Route]
      BY <2>0 DEF Routes
    <3>4. new[g] = snapshot[c][g] \/ Single(snapshot[c][g])
      BY <2>0, <3>1 DEF SingleInv
    <3>5. Merged(new[g], snapshot[c][g])[v] # "reviewed"
      BY <3>1, <3>2 DEF Loses
    <3>6. v = "temporary" /\ Merged(new[g], snapshot[c][g])["default"] # "absent"
      <4>. HIDE DEF new
      <4>. QED
        BY <3>3, <3>4, <3>5, MergedFacts
    <3>. QED
      BY <3>1, <3>2, <3>6 DEF MayLose
  <2>. QED
    BY <2>1, <2>2
<1>. QED
  BY <1>1, Invariance, PTL DEF Spec, EvidenceKept
=============================================================================
