------------------------ MODULE ClosedLoopReview_proofs ------------------------
(***************************************************************************)
(* Proofs about ClosedLoopReview for any groups, threads and lane bound.   *)
(*                                                                         *)
(* QueuedHasEntry and RunningHasWorker are inductive once types are known. *)
(* OneRefresher is not: AloneInv adds that a group which has not been      *)
(* submitted again is running as long as a thread refreshes it, so that no *)
(* left-over entry of it can be taken.  DepthServed is about one step; it  *)
(* needs DepthInv, that the mode a thread has read is still that of the    *)
(* task when the group has not been submitted again.                       *)
(***************************************************************************)
EXTENDS ClosedLoopReview, TLAPS

AloneInv ==
    \A g \in Group \ again :
        /\ \A v, w \in Refreshers(g) : v = w
        /\ \A w \in Refreshers(g) : task[g].state = "running"

Reviewing(w) == work[w].at \in {"review", "finish"}

DepthInv ==
    \A g \in Group \ again : \A w \in Refreshers(g) :
        Reviewing(w) => work[w].mode = task[g].mode

IInv == TypeOK /\ QueuedHasEntry /\ RunningHasWorker /\ AloneInv /\ DepthInv

USE DEF User, Scan, Priority, Shallow, Deep

-----------------------------------------------------------------------------
(* What a submission does. *)

LEMMA SubmittedFacts ==
    ASSUME TypeOK, NEW g \in Group, NEW p \in Priority, NEW m \in {Shallow, Deep}
    PROVE  Submitted(g, p, m) \in Task /\ Submitted(g, p, m).state = "queued"
<1>1. task[g] \in Task
  BY DEF TypeOK
<1>2. CASE task[g].state = "none"
  BY <1>2 DEF Submitted, Task
<1>3. CASE task[g].state # "none"
  <2>1. Least(task[g].priority, p) \in Priority /\ Greatest(task[g].mode, m) \in {Shallow, Deep}
    BY <1>1 DEF Task, Least, Greatest
  <2>. QED
    BY <1>1, <1>3, <2>1 DEF Submitted, Resubmitted, Task
<1>. QED
  BY <1>2, <1>3

\* Submission, with the task it makes as a parameter.
Enters(g, t) ==
    /\ task' = [task EXCEPT ![g] = t]
    /\ lane' = [lane EXCEPT ![t.priority] = Append(@, g)]
    /\ served' = [served EXCEPT ![g] = Shallow]
    /\ again' = IF Refreshers(g) = {} THEN again ELSE again \cup {g}

\* What every submitting step leaves alone.
Beside ==
    /\ UNCHANGED <<alive, stop>>
    /\ looked' \subseteq looked
    /\ \/ UNCHANGED work
       \/ \E r \in Thread : At(r, "idle") /\ Goto(r, "pop")

LEMMA SubmitEnters ==
    ASSUME TypeOK, NEW g \in Group, NEW p \in Priority, NEW m \in {Shallow, Deep}, Submit(g, p, m)
    PROVE  \E t \in Task : t.state = "queued" /\ Enters(g, t)
BY SubmittedFacts DEF Submit, Enters, Forget

LEMMA StepCases ==
    ASSUME TypeOK, Next
    PROVE  \/ \E w \in Thread : Step(w) /\ UNCHANGED looked
           \/ (Start \/ Stop) /\ UNCHANGED looked
           \/ \E g \in Group : ScanLooks(g)
           \/ \E g \in Group : \E t \in Task : t.state = "queued" /\ Enters(g, t) /\ Beside
<1>1. ASSUME NEW g \in Group, ScanSubmits(g)
      PROVE  \E t \in Task : t.state = "queued" /\ Enters(g, t) /\ Beside
  <2>1. PICK m \in {Shallow, Deep} : Submit(g, Scan, m)
    BY <1>1 DEF ScanSubmits
  <2>2. \E t \in Task : t.state = "queued" /\ Enters(g, t)
    BY <2>1, SubmitEnters
  <2>. QED
    BY <1>1, <2>2 DEF ScanSubmits, Beside
<1>2. ASSUME NEW g \in Group, NEW ask \in Asked,
             Refresh(g, ask) \/ \E r \in Request : RefreshAndWait(r, g, ask)
      PROVE  \E t \in Task : t.state = "queued" /\ Enters(g, t) /\ Beside
  <2>1. ask[1] \in Priority /\ ask[2] \in {Shallow, Deep}
    BY DEF Asked
  <2>2. Submit(g, ask[1], ask[2])
    BY <1>2 DEF Refresh, RefreshAndWait
  <2>3. \E t \in Task : t.state = "queued" /\ Enters(g, t)
    BY <2>1, <2>2, SubmitEnters
  <2>4. Beside
    BY <1>2 DEF Refresh, RefreshAndWait, Beside, Thread
  <2>. QED
    BY <2>3, <2>4
<1>. QED
  BY <1>1, <1>2 DEF Next

\* What Pop does to the entry i of the lane p.
Takes(w, p, i) ==
    /\ First(p, i)
    /\ task' = [task EXCEPT ![lane[p][i]].state = "running"]
    /\ lane' = [q \in Priority |->
                   CASE q < p -> <<>>
                     [] q = p -> SubSeq(lane[p], i + 1, Len(lane[p]))
                     [] q > p -> lane[q]]
    /\ work' = [work EXCEPT ![w].at = "quote", ![w].group = lane[p][i]]

-----------------------------------------------------------------------------
(* Types. *)

LEMMA TypeNext ==
    ASSUME TypeOK, Next
    PROVE  TypeOK'
<1>0. /\ task \in [Group -> Task] /\ lane \in [Priority -> Seq(Group)]
      /\ alive \subseteq Worker /\ stop \in BOOLEAN /\ work \in [Thread -> Work]
      /\ looked \subseteq Group /\ served \in [Group -> {Shallow, Deep}] /\ again \subseteq Group
  BY DEF TypeOK
<1>1. ASSUME NEW w \in Thread, Step(w), UNCHANGED looked
      PROVE  TypeOK'
  <2>0. work[w] \in Work
    BY <1>0
  <2>1. CASE Loop(w)
    BY <1>0, <1>1, <2>0, <2>1 DEF Loop, At, Goto, TypeOK, Work
  <2>2. CASE Pop(w)
    <3>0. PICK p \in Priority : \E i \in DOMAIN lane[p] : Takes(w, p, i)
      BY <2>2 DEF Pop, Takes
    <3>1. PICK i \in DOMAIN lane[p] : Takes(w, p, i)
      BY <3>0
    <3>2. lane[p] \in Seq(Group) /\ lane[p][i] \in Group
      BY <1>0
    <3>3. task' \in [Group -> Task]
      BY <1>0, <3>1, <3>2 DEF Task, Takes
    <3>4. SubSeq(lane[p], i + 1, Len(lane[p])) \in Seq(Group)
      BY <3>2
    <3>5. lane' \in [Priority -> Seq(Group)]
      BY <1>0, <3>1, <3>4 DEF Takes
    <3>6. work' \in [Thread -> Work]
      BY <1>0, <2>0, <3>1, <3>2 DEF Work, Takes
    <3>. QED
      BY <1>0, <1>1, <2>2, <3>3, <3>5, <3>6 DEF Pop, TypeOK
  <2>3. CASE PopNothing(w)
    <3>1. lane' \in [Priority -> Seq(Group)]
      BY <2>3 DEF PopNothing
    <3>2. work' \in [Thread -> Work]
      BY <1>0, <2>0, <2>3 DEF PopNothing, At, Goto, Work
    <3>. QED
      BY <1>0, <1>1, <2>3, <3>1, <3>2 DEF PopNothing, TypeOK
  <2>4. CASE Quote(w)
    <3>1. work[w].group \in Group /\ work[w].mode \in {Shallow, Deep}
      BY <2>0, <2>4 DEF Quote, At, Work
    <3>2. task[work[w].group].mode \in {Shallow, Deep}
      BY <1>0, <3>1 DEF Task
    <3>3. work' \in [Thread -> Work]
      BY <1>0, <2>0, <2>4, <3>1, <3>2 DEF Quote, Work
    <3>. QED
      BY <1>0, <1>1, <2>4, <3>3 DEF Quote, TypeOK
  <2>5. CASE Review(w)
    BY <1>0, <1>1, <2>0, <2>5 DEF Review, At, Goto, TypeOK, Work
  <2>6. CASE Finish(w)
    <3>1. Rest \in Work
      BY DEF Rest, Work
    <3>2. work[w].mode \in {Shallow, Deep}
      BY <2>0 DEF Work
    <3>. QED
      BY <1>0, <1>1, <2>6, <3>1, <3>2 DEF Finish, Leave, TypeOK, Task
  <2>7. CASE Fail(w)
    <3>1. Rest \in Work
      BY DEF Rest, Work
    <3>. QED
      BY <1>0, <1>1, <2>7, <3>1 DEF Fail, Leave, TypeOK, Task
  <2>. QED
    BY <1>1, <2>1, <2>2, <2>3, <2>4, <2>5, <2>6, <2>7 DEF Step
<1>2. ASSUME Start \/ Stop, UNCHANGED looked
      PROVE  TypeOK'
  BY <1>0, <1>2 DEF Start, Stop, TypeOK
<1>3. ASSUME NEW g \in Group, ScanLooks(g)
      PROVE  TypeOK'
  BY <1>0, <1>3 DEF ScanLooks, TypeOK
<1>4. ASSUME NEW g \in Group, NEW t \in Task, Enters(g, t), Beside
      PROVE  TypeOK'
  <2>1. t.priority \in Priority
    BY DEF Task
  <2>2. lane' \in [Priority -> Seq(Group)]
    BY <1>0, <1>4, <2>1 DEF Enters
  <2>3. work' \in [Thread -> Work]
    <3>1. ASSUME NEW r \in Thread, At(r, "idle"), Goto(r, "pop")
          PROVE  work' \in [Thread -> Work]
      <4>1. work[r] \in Work
        BY <1>0
      <4>2. [work[r] EXCEPT !.at = "pop"] \in Work
        BY <3>1, <4>1 DEF At, Work
      <4>. QED
        BY <1>0, <3>1, <4>2 DEF Goto
    <3>. QED
      BY <1>0, <1>4, <3>1 DEF Beside
  <2>. QED
    BY <1>0, <1>4, <2>2, <2>3 DEF Enters, Beside, TypeOK
<1>. QED
  BY <1>1, <1>2, <1>3, <1>4, StepCases

-----------------------------------------------------------------------------
(* Entries of queued groups. *)

\* Entry(g) is what QueuedHasEntry asks of g.
Entry(g) == \E i \in DOMAIN lane[task[g].priority] : lane[task[g].priority][i] = g

LEMMA EntryNext ==
    ASSUME TypeOK, QueuedHasEntry, Next
    PROVE  QueuedHasEntry'
<1>0. task \in [Group -> Task] /\ lane \in [Priority -> Seq(Group)] /\ work \in [Thread -> Work]
  BY DEF TypeOK
<1>. SUFFICES ASSUME NEW h \in Group, task'[h].state = "queued"
              PROVE  Entry(h)'
  BY DEF QueuedHasEntry, Entry
<1>1. ASSUME task'[h] = task[h], lane' = lane
      PROVE  Entry(h)'
  BY <1>1 DEF QueuedHasEntry, Entry
<1>2. ASSUME NEW w \in Thread, Pop(w)
      PROVE  Entry(h)'
  <2>0. PICK p \in Priority : \E i \in DOMAIN lane[p] : Takes(w, p, i)
    BY <1>2 DEF Pop, Takes
  <2>1. PICK i \in DOMAIN lane[p] : Takes(w, p, i)
    BY <2>0
  <2>2. lane[p] \in Seq(Group) /\ lane[p][i] \in Group /\ i \in 1..Len(lane[p])
    BY <1>0
  <2>3. h # lane[p][i] /\ task'[h] = task[h]
    BY <1>0, <2>1, <2>2 DEF Task, Takes
  <2>. DEFINE q == task[h].priority
  <2>4. q \in Priority
    BY <1>0 DEF Task
  <2>5. PICK k \in DOMAIN lane[q] : lane[q][k] = h
    BY <2>3 DEF QueuedHasEntry
  <2>6. Live(q, k)
    BY <2>3, <2>5 DEF Live
  <2>7. ~(q < p)
    BY <2>1, <2>4, <2>5, <2>6 DEF First, Takes
  <2>8. CASE q = p
    <3>1. k \in 1..Len(lane[p]) /\ k > i
      BY <2>1, <2>2, <2>3, <2>5, <2>6, <2>8 DEF First, Takes
    <3>2. lane'[q] = SubSeq(lane[p], i + 1, Len(lane[p]))
      BY <2>1, <2>4, <2>8 DEF Takes
    <3>3. /\ k - i \in 1..(Len(lane[p]) - i)
          /\ Len(SubSeq(lane[p], i + 1, Len(lane[p]))) = Len(lane[p]) - i
          /\ SubSeq(lane[p], i + 1, Len(lane[p]))[k - i] = lane[p][k]
      BY <2>2, <3>1
    <3>4. k - i \in DOMAIN lane'[q] /\ lane'[q][k - i] = h
      <4>1. DOMAIN lane'[q] = 1..(Len(lane[p]) - i)
        BY <2>2, <3>2
      <4>. QED
        BY <2>5, <2>8, <3>2, <3>3, <4>1
    <3>. QED
      BY <2>3, <3>4 DEF Entry
  <2>9. CASE q > p
    <3>1. lane'[q] = lane[q]
      BY <2>1, <2>4, <2>9 DEF Takes
    <3>. QED
      BY <2>3, <2>5, <3>1 DEF Entry
  <2>. QED
    BY <2>4, <2>7, <2>8, <2>9
<1>3. ASSUME NEW w \in Thread, PopNothing(w)
      PROVE  Entry(h)'
  <2>1. task' = task
    BY <1>3 DEF PopNothing
  <2>2. task[h].priority \in Priority
    BY <1>0 DEF Task
  <2>3. PICK k \in DOMAIN lane[task[h].priority] : lane[task[h].priority][k] = h
    BY <2>1 DEF QueuedHasEntry
  <2>4. Live(task[h].priority, k)
    BY <2>1, <2>3 DEF Live
  <2>. QED
    BY <1>3, <2>2, <2>3, <2>4 DEF PopNothing
<1>4. ASSUME NEW w \in Thread, Loop(w) \/ Quote(w) \/ Review(w)
      PROVE  Entry(h)'
  BY <1>1, <1>4 DEF Loop, Quote, Review
<1>5. ASSUME NEW w \in Thread, Finish(w) \/ Fail(w)
      PROVE  Entry(h)'
  <2>1. lane' = lane /\ task'[h] = task[h]
    BY <1>0, <1>5 DEF Finish, Fail, Task
  <2>. QED
    BY <1>1, <2>1
<1>6. ASSUME Start \/ Stop \/ \E g \in Group : ScanLooks(g)
      PROVE  Entry(h)'
  BY <1>1, <1>6 DEF Start, Stop, ScanLooks
<1>7. ASSUME NEW g \in Group, NEW t \in Task, Enters(g, t)
      PROVE  Entry(h)'
  <2>1. t.priority \in Priority /\ lane[t.priority] \in Seq(Group)
    BY <1>0 DEF Task
  <2>2. lane'[t.priority] = Append(lane[t.priority], g)
    BY <1>0, <1>7, <2>1 DEF Enters
  <2>3. CASE h = g
    <3>1. task'[h] = t
      BY <1>0, <1>7, <2>3 DEF Enters
    <3>2. /\ Len(lane[t.priority]) + 1 \in DOMAIN lane'[t.priority]
          /\ lane'[t.priority][Len(lane[t.priority]) + 1] = g
      BY <2>1, <2>2
    <3>. QED
      BY <2>3, <3>1, <3>2 DEF Entry
  <2>4. CASE h # g
    <3>1. task'[h] = task[h]
      BY <1>0, <1>7, <2>4 DEF Enters
    <3>. DEFINE q == task[h].priority
    <3>2. q \in Priority /\ lane[q] \in Seq(Group)
      BY <1>0 DEF Task
    <3>3. PICK k \in DOMAIN lane[q] : lane[q][k] = h
      BY <3>1 DEF QueuedHasEntry
    <3>4. lane'[q] = lane[q] \/ lane'[q] = Append(lane[q], g)
      BY <1>0, <1>7, <2>1, <3>2 DEF Enters
    <3>5. k \in DOMAIN lane'[q] /\ lane'[q][k] = h
      BY <3>2, <3>3, <3>4
    <3>. QED
      BY <3>1, <3>5 DEF Entry
  <2>. QED
    BY <2>3, <2>4
<1>. QED
  BY <1>2, <1>3, <1>4, <1>5, <1>6, <1>7, StepCases DEF Step

-----------------------------------------------------------------------------
(* Who refreshes what. *)

\* Threads that take a group up or leave it are in Pop, Finish or Fail; all else
\* keeps who refreshes which group.
LEMMA RefreshersKept ==
    ASSUME TypeOK, NEW g \in Group,
           \/ UNCHANGED work
           \/ \E w \in Thread : Loop(w) \/ PopNothing(w) \/ Quote(w) \/ Review(w)
           \/ \E r \in Thread : At(r, "idle") /\ Goto(r, "pop")
    PROVE  Refreshers(g)' = Refreshers(g)
<1>0. work \in [Thread -> Work]
  BY DEF TypeOK
<1>1. CASE UNCHANGED work
  BY <1>1 DEF Refreshers, Refreshing
<1>2. ASSUME NEW w \in Thread, Loop(w) \/ PopNothing(w) \/ Quote(w) \/ Review(w)
      PROVE  Refreshers(g)' = Refreshers(g)
  <2>1. /\ \A v \in Thread \ {w} : work'[v] = work[v]
        /\ work'[w].group = work[w].group
        /\ Refreshing(w)' <=> Refreshing(w)
    <3>1. CASE Loop(w)
      BY <1>0, <3>1 DEF Loop, At, Goto, Refreshing, Work
    <3>2. CASE PopNothing(w)
      BY <1>0, <3>2 DEF PopNothing, At, Goto, Refreshing, Work
    <3>3. CASE Quote(w)
      BY <1>0, <3>3 DEF Quote, At, Refreshing, Work
    <3>4. CASE Review(w)
      BY <1>0, <3>4 DEF Review, At, Goto, Refreshing, Work
    <3>. QED
      BY <1>2, <3>1, <3>2, <3>3, <3>4
  <2>. QED
    BY <2>1 DEF Refreshers, Refreshing
<1>3. ASSUME NEW r \in Thread, At(r, "idle"), Goto(r, "pop")
      PROVE  Refreshers(g)' = Refreshers(g)
  <2>1. /\ \A v \in Thread \ {r} : work'[v] = work[v]
        /\ ~Refreshing(r)' /\ ~Refreshing(r)
    BY <1>0, <1>3 DEF At, Goto, Refreshing, Work
  <2>. QED
    BY <2>1 DEF Refreshers, Refreshing
<1>. QED
  BY <1>1, <1>2, <1>3

LEMMA PopRefreshers ==
    ASSUME TypeOK, NEW w \in Thread, Pop(w)
    PROVE  \E h \in Group :
             /\ task[h].state = "queued" /\ task'[h].state = "running"
             /\ \A g \in Group \ {h} : task'[g] = task[g] /\ Refreshers(g)' = Refreshers(g)
             /\ Refreshers(h)' = Refreshers(h) \cup {w}
<1>0. task \in [Group -> Task] /\ lane \in [Priority -> Seq(Group)] /\ work \in [Thread -> Work]
  BY DEF TypeOK
<1>a. PICK p \in Priority : \E i \in DOMAIN lane[p] : Takes(w, p, i)
  BY DEF Pop, Takes
<1>1. PICK i \in DOMAIN lane[p] : Takes(w, p, i)
  BY <1>a
<1>2. PICK h \in Group : h = lane[p][i]
  BY <1>0
<1>3. task[h].state = "queued" /\ task'[h].state = "running"
  BY <1>0, <1>1, <1>2 DEF First, Live, Task, Takes
<1>4. \A g \in Group \ {h} : task'[g] = task[g]
  BY <1>0, <1>1, <1>2 DEF Task, Takes
<1>5. /\ \A v \in Thread \ {w} : work'[v] = work[v]
      /\ ~Refreshing(w)
      /\ work'[w].at = "quote" /\ work'[w].group = h
  BY <1>0, <1>1, <1>2 DEF Pop, Takes, At, Refreshing, Work
<1>6. /\ \A g \in Group \ {h} : Refreshers(g)' = Refreshers(g)
      /\ Refreshers(h)' = Refreshers(h) \cup {w}
  <2>1. /\ \A v \in Thread \ {w} : Refreshing(v)' <=> Refreshing(v)
        /\ Refreshing(w)'
    BY <1>5 DEF Refreshing
  <2>2. \A g \in Group \ {h} : Refreshers(g)' = Refreshers(g)
    BY <1>5, <2>1 DEF Refreshers
  <2>3. Refreshers(h)' = Refreshers(h) \cup {w}
    BY <1>5, <2>1 DEF Refreshers
  <2>. QED
    BY <2>2, <2>3
<1>. QED
  BY <1>2, <1>3, <1>4, <1>6

LEMMA LeaveRefreshers ==
    ASSUME TypeOK, NEW w \in Thread, Finish(w) \/ Fail(w)
    PROVE  /\ Refreshing(w)
           /\ \A g \in Group : Refreshers(g)' = Refreshers(g) \ {w}
           /\ \A g \in Group : g # work[w].group => task'[g] = task[g]
           /\ \A g \in Group : g = work[w].group => task'[g].state \in {"done", "error"}
           /\ again' = IF Refreshers(work[w].group) = {w}
                         THEN again \ {work[w].group} ELSE again
<1>0. task \in [Group -> Task] /\ work \in [Thread -> Work]
  BY DEF TypeOK
<1>1. Refreshing(w) /\ Leave(w)
  BY DEF Finish, Fail, At, Refreshing
<1>2. /\ \A v \in Thread \ {w} : work'[v] = work[v]
      /\ ~Refreshing(w)'
  BY <1>0, <1>1 DEF Leave, Refreshing, Rest
<1>3. \A g \in Group : Refreshers(g)' = Refreshers(g) \ {w}
  BY <1>2 DEF Refreshers, Refreshing
<1>4. /\ \A g \in Group : g # work[w].group => task'[g] = task[g]
      /\ \A g \in Group : g = work[w].group => task'[g].state \in {"done", "error"}
  BY <1>0 DEF Finish, Fail, Task
<1>. QED
  BY <1>1, <1>3, <1>4 DEF Leave

LEMMA RefreshNext ==
    ASSUME TypeOK, RunningHasWorker, AloneInv, Next
    PROVE  RunningHasWorker' /\ AloneInv'
<1>. DEFINE Good(g) ==
        /\ task[g].state = "running" => Refreshers(g) # {}
        /\ g \notin again =>
              /\ \A v, w \in Refreshers(g) : v = w
              /\ \A w \in Refreshers(g) : task[g].state = "running"
<1>0. task \in [Group -> Task] /\ \A g \in Group : Good(g)
  BY DEF TypeOK, RunningHasWorker, AloneInv, Refreshers
<1>. SUFFICES ASSUME NEW g \in Group
              PROVE  Good(g)'
  BY DEF RunningHasWorker, AloneInv, Refreshers
<1>1. ASSUME Refreshers(g)' = Refreshers(g), task'[g] = task[g], again' = again
      PROVE  Good(g)'
  BY <1>0, <1>1
<1>2. ASSUME NEW w \in Thread, Loop(w) \/ PopNothing(w) \/ Quote(w) \/ Review(w)
      PROVE  Good(g)'
  <2>1. task' = task /\ again' = again
    BY <1>2 DEF Loop, PopNothing, Quote, Review
  <2>. QED
    BY <1>1, <1>2, <2>1, RefreshersKept
<1>3. ASSUME NEW w \in Thread, Pop(w)
      PROVE  Good(g)'
  <2>1. PICK h \in Group :
           /\ task[h].state = "queued" /\ task'[h].state = "running"
           /\ \A f \in Group \ {h} : task'[f] = task[f] /\ Refreshers(f)' = Refreshers(f)
           /\ Refreshers(h)' = Refreshers(h) \cup {w}
    BY <1>3, PopRefreshers
  <2>2. again' = again
    BY <1>3 DEF Pop
  <2>3. CASE g = h
    <3>1. g \notin again => Refreshers(g) = {}
      BY <1>0, <2>1, <2>3
    <3>. QED
      BY <2>1, <2>2, <2>3, <3>1
  <2>4. CASE g # h
    BY <1>1, <2>1, <2>2, <2>4
  <2>. QED
    BY <2>3, <2>4
<1>4. ASSUME NEW w \in Thread, Finish(w) \/ Fail(w)
      PROVE  Good(g)'
  <2>1. /\ Refreshing(w)
        /\ Refreshers(g)' = Refreshers(g) \ {w}
        /\ g # work[w].group => task'[g] = task[g]
        /\ g = work[w].group => task'[g].state \in {"done", "error"}
        /\ again' = IF Refreshers(work[w].group) = {w}
                      THEN again \ {work[w].group} ELSE again
    BY <1>4, LeaveRefreshers
  <2>2. CASE g = work[w].group
    <3>1. w \in Refreshers(g)
      BY <2>1, <2>2 DEF Refreshers
    <3>2. g \notin again => Refreshers(g) = {w}
      BY <1>0, <3>1
    <3>3. g \notin again' => Refreshers(g)' = {}
      BY <2>1, <2>2, <3>2
    <3>. QED
      BY <2>1, <2>2, <3>3
  <2>3. CASE g # work[w].group
    <3>1. w \notin Refreshers(g)
      BY <2>3 DEF Refreshers
    <3>2. Refreshers(g)' = Refreshers(g)
      BY <2>1, <3>1
    <3>3. g \in again' <=> g \in again
      BY <2>1, <2>3
    <3>. QED
      BY <1>0, <2>1, <2>3, <3>2, <3>3
  <2>. QED
    BY <2>2, <2>3
<1>5. ASSUME Start \/ Stop \/ \E f \in Group : ScanLooks(f)
      PROVE  Good(g)'
  <2>1. task' = task /\ again' = again /\ work' = work
    BY <1>5 DEF Start, Stop, ScanLooks
  <2>. QED
    BY <1>1, <2>1, RefreshersKept
<1>6. ASSUME NEW f \in Group, NEW t \in Task, t.state = "queued", Enters(f, t), Beside
      PROVE  Good(g)'
  <2>1. Refreshers(g)' = Refreshers(g)
    BY <1>6, RefreshersKept DEF Beside
  <2>2. CASE g = f
    <3>1. task'[g].state = "queued"
      BY <1>0, <1>6, <2>2 DEF Enters
    <3>2. g \notin again' => Refreshers(g) = {}
      BY <1>6, <2>2 DEF Enters
    <3>. QED
      BY <2>1, <3>1, <3>2
  <2>3. CASE g # f
    <3>1. task'[g] = task[g] /\ (g \in again' <=> g \in again)
      BY <1>0, <1>6, <2>3 DEF Enters
    <3>. QED
      BY <1>0, <2>1, <3>1
  <2>. QED
    BY <2>2, <2>3
<1>. QED
  BY <1>2, <1>3, <1>4, <1>5, <1>6, StepCases DEF Step

-----------------------------------------------------------------------------
(* The depth a thread has read. *)

\* A step that puts no thread further and changes no mode keeps DepthInv.
LEMMA DepthKept ==
    ASSUME DepthInv, NEW g \in Group, g \notin again' => g \notin again \/ Refreshers(g)' = {},
           task'[g].mode = task[g].mode,
           \A w \in Refreshers(g)' : Reviewing(w)' =>
               w \in Refreshers(g) /\ Reviewing(w) /\ work'[w].mode = work[w].mode,
           g \notin again', NEW w \in Refreshers(g)', Reviewing(w)'
    PROVE  work'[w].mode = task'[g].mode
BY DEF DepthInv

LEMMA DepthNext ==
    ASSUME TypeOK, DepthInv, Next
    PROVE  DepthInv'
<1>0. task \in [Group -> Task] /\ lane \in [Priority -> Seq(Group)] /\ work \in [Thread -> Work]
  BY DEF TypeOK
<1>. DEFINE Kept(g) ==
        /\ g \notin again' => g \notin again \/ Refreshers(g)' = {}
        /\ task'[g].mode = task[g].mode
        /\ \A w \in Refreshers(g)' : Reviewing(w)' =>
               w \in Refreshers(g) /\ Reviewing(w) /\ work'[w].mode = work[w].mode
<1>. DEFINE Good(g) ==
        g \notin again' => \A w \in Refreshers(g)' : Reviewing(w)' => work'[w].mode = task'[g].mode
<1>. SUFFICES ASSUME NEW g \in Group
              PROVE  Good(g)
  BY DEF DepthInv
<1>1. ASSUME Kept(g)
      PROVE  Good(g)
  BY <1>1, DepthKept
<1>2. ASSUME NEW w \in Thread, Loop(w) \/ PopNothing(w)
      PROVE  Good(g)
  <2>1. Refreshers(g)' = Refreshers(g)
    BY <1>2, RefreshersKept
  <2>2. UNCHANGED <<task, again>>
    BY <1>2 DEF Loop, PopNothing
  <2>3. /\ \A v \in Thread \ {w} : work'[v] = work[v]
        /\ ~Reviewing(w)'
    <3>1. CASE Loop(w)
      BY <1>0, <3>1 DEF Loop, At, Goto, Reviewing, Work
    <3>2. CASE PopNothing(w)
      BY <1>0, <3>2 DEF PopNothing, Goto, Reviewing, Work
    <3>. QED
      BY <1>2, <3>1, <3>2
  <2>. QED
    BY <1>1, <2>1, <2>2, <2>3 DEF Refreshers, Reviewing
<1>3. ASSUME NEW w \in Thread, Pop(w)
      PROVE  Good(g)
  <2>0. PICK p \in Priority : \E i \in DOMAIN lane[p] : Takes(w, p, i)
    BY <1>3 DEF Pop, Takes
  <2>1. PICK i \in DOMAIN lane[p] : Takes(w, p, i)
    BY <2>0
  <2>2. task'[g].mode = task[g].mode
    BY <1>0, <2>1 DEF Takes, Task
  <2>3. /\ \A v \in Thread \ {w} : work'[v] = work[v]
        /\ ~Reviewing(w)'
    BY <1>0, <2>1 DEF Takes, Reviewing
  <2>4. again' = again
    BY <1>3 DEF Pop
  <2>. QED
    BY <1>1, <2>2, <2>3, <2>4 DEF Refreshers, Refreshing, Reviewing
<1>4. ASSUME NEW w \in Thread, Quote(w)
      PROVE  Good(g)
  <2>1. Refreshers(g)' = Refreshers(g)
    BY <1>4, RefreshersKept
  <2>2. UNCHANGED <<task, again>>
    BY <1>4 DEF Quote
  <2>3. /\ \A v \in Thread \ {w} : work'[v] = work[v]
        /\ work'[w].mode = task[work[w].group].mode
    BY <1>0, <1>4 DEF Quote, Work
  <2>4. w \in Refreshers(g) => work[w].group = g
    BY DEF Refreshers
  <2>. QED
    BY <2>1, <2>2, <2>3, <2>4 DEF DepthInv, Refreshers, Reviewing
<1>5. ASSUME NEW w \in Thread, Review(w)
      PROVE  Good(g)
  <2>1. Refreshers(g)' = Refreshers(g)
    BY <1>5, RefreshersKept
  <2>2. UNCHANGED <<task, again>>
    BY <1>5 DEF Review
  <2>3. /\ \A v \in Thread \ {w} : work'[v] = work[v]
        /\ Reviewing(w) /\ work'[w].mode = work[w].mode
    BY <1>0, <1>5 DEF Review, At, Goto, Reviewing, Work
  <2>. QED
    BY <1>1, <2>1, <2>2, <2>3 DEF Refreshers, Reviewing
<1>6. ASSUME NEW w \in Thread, Finish(w) \/ Fail(w)
      PROVE  Good(g)
  <2>1. /\ Refreshing(w)
        /\ Refreshers(g)' = Refreshers(g) \ {w}
        /\ again' = IF Refreshers(work[w].group) = {w}
                      THEN again \ {work[w].group} ELSE again
    BY <1>6, LeaveRefreshers
  <2>2. g \notin again' => g \notin again \/ Refreshers(g)' = {}
    BY <2>1
  <2>3. task'[g].mode = task[g].mode
    <3>1. CASE Finish(w)
      BY <1>0, <3>1 DEF Finish, Task
    <3>2. CASE Fail(w)
      BY <1>0, <3>2 DEF Fail, Task
    <3>. QED
      BY <1>6, <3>1, <3>2
  <2>4. \A v \in Thread \ {w} : work'[v] = work[v]
    BY <1>0, <1>6 DEF Finish, Fail, Leave
  <2>. QED
    BY <1>1, <2>1, <2>2, <2>3, <2>4 DEF Refreshers, Reviewing
<1>7. ASSUME Start \/ Stop \/ \E f \in Group : ScanLooks(f)
      PROVE  Good(g)
  BY <1>1, <1>7 DEF Start, Stop, ScanLooks, Refreshers, Refreshing, Reviewing
<1>8. ASSUME NEW f \in Group, NEW t \in Task, Enters(f, t), Beside
      PROVE  Good(g)
  <2>1. Refreshers(g)' = Refreshers(g)
    BY <1>8, RefreshersKept DEF Beside
  <2>2. CASE g = f
    BY <1>8, <2>1, <2>2 DEF Enters
  <2>3. CASE g # f
    <3>1. task'[g] = task[g] /\ (g \in again' <=> g \in again)
      BY <1>0, <1>8, <2>3 DEF Enters
    <3>2. \A w \in Thread : work'[w] = work[w] \/ ~Reviewing(w)'
      <4>1. ASSUME NEW r \in Thread, Goto(r, "pop")
            PROVE  \A w \in Thread : work'[w] = work[w] \/ ~Reviewing(w)'
        BY <1>0, <4>1 DEF Goto, Reviewing, Work
      <4>. QED
        BY <1>8, <4>1 DEF Beside
    <3>. QED
      BY <1>1, <2>1, <3>1, <3>2 DEF Refreshers, Reviewing
  <2>. QED
    BY <2>2, <2>3
<1>. QED
  BY <1>2, <1>3, <1>4, <1>5, <1>6, <1>7, <1>8, StepCases DEF Step

\* Only the end of a refresh makes a group done.
LEMMA DepthStep ==
    ASSUME TypeOK, DepthInv, Next, NEW g \in Group \ again,
           task[g].state # "done", task'[g].state = "done"
    PROVE  served'[g] >= task'[g].mode
<1>0. /\ task \in [Group -> Task] /\ lane \in [Priority -> Seq(Group)]
      /\ work \in [Thread -> Work] /\ served \in [Group -> {Shallow, Deep}]
  BY DEF TypeOK
<1>1. ASSUME NEW w \in Thread, Finish(w)
      PROVE  served'[g] >= task'[g].mode
  <2>1. work[w].group = g
    BY <1>0, <1>1 DEF Finish, Task
  <2>2. w \in Refreshers(g) /\ Reviewing(w)
    BY <1>1, <2>1 DEF Finish, At, Refreshers, Refreshing, Reviewing
  <2>3. work[w].mode = task[g].mode
    BY <2>2 DEF DepthInv
  <2>4. served'[g] = work[w].mode /\ task'[g].mode = task[g].mode
    BY <1>0, <1>1, <2>1 DEF Finish, Task
  <2>5. task[g].mode \in {Shallow, Deep}
    BY <1>0 DEF Task
  <2>. QED
    BY <2>3, <2>4, <2>5
<1>2. ASSUME NEW w \in Thread, Fail(w)
      PROVE  FALSE
  BY <1>0, <1>2 DEF Fail, Task
<1>3. ASSUME NEW w \in Thread, Pop(w)
      PROVE  FALSE
  BY <1>3, PopRefreshers
<1>4. ASSUME NEW w \in Thread, Loop(w) \/ PopNothing(w) \/ Quote(w) \/ Review(w)
      PROVE  FALSE
  BY <1>4 DEF Loop, PopNothing, Quote, Review
<1>5. ASSUME Start \/ Stop \/ \E f \in Group : ScanLooks(f)
      PROVE  FALSE
  BY <1>5 DEF Start, Stop, ScanLooks
<1>6. ASSUME NEW f \in Group, NEW t \in Task, t.state = "queued", Enters(f, t)
      PROVE  FALSE
  BY <1>0, <1>6 DEF Enters
<1>. QED
  BY <1>1, <1>2, <1>3, <1>4, <1>5, <1>6, StepCases DEF Step

-----------------------------------------------------------------------------
(* The theorems. *)

LEMMA InitInv ==
    ASSUME Init
    PROVE  IInv
<1>1. Rest \in Work
  BY DEF Rest, Work
<1>2. TypeOK
  BY <1>1 DEF Init, TypeOK, Task
<1>3. \A w \in Thread : ~Refreshing(w)
  BY DEF Init, Rest, Refreshing
<1>4. QueuedHasEntry /\ RunningHasWorker
  BY DEF Init, QueuedHasEntry, RunningHasWorker
<1>5. AloneInv /\ DepthInv
  BY <1>3 DEF AloneInv, DepthInv, Refreshers
<1>. QED
  BY <1>2, <1>4, <1>5 DEF IInv

LEMMA NextInv ==
    ASSUME IInv, [Next]_vars
    PROVE  IInv'
<1>1. CASE Next
  BY <1>1, TypeNext, EntryNext, RefreshNext, DepthNext DEF IInv
<1>2. CASE UNCHANGED vars
  BY <1>2 DEF vars, IInv, TypeOK, QueuedHasEntry, RunningHasWorker, AloneInv, DepthInv,
              Refreshers, Refreshing, Reviewing
<1>. QED
  BY <1>1, <1>2

\* The inductive invariant holds in every reachable state.
THEOREM Invariance == Spec => []IInv
<1>1. Init => IInv
  BY InitInv
<1>2. IInv /\ [Next]_vars => IInv'
  BY NextInv
<1>. QED
  BY <1>1, <1>2, PTL DEF Spec

\* The queue, the pipeline and the scan keep their types.
THEOREM TypeCorrect == Spec => []TypeOK
<1>1. IInv => TypeOK
  BY DEF IInv
<1>. QED
  BY <1>1, Invariance, PTL

\* A queued group is never forgotten by the heap, for any number of groups,
\* threads and submissions.
THEOREM NoQueuedGroupLost == Spec => []QueuedHasEntry
<1>1. IInv => QueuedHasEntry
  BY DEF IInv
<1>. QED
  BY <1>1, Invariance, PTL

\* A running group is being run by somebody.
THEOREM NoGroupStuckRunning == Spec => []RunningHasWorker
<1>1. IInv => RunningHasWorker
  BY DEF IInv
<1>. QED
  BY <1>1, Invariance, PTL

\* Two threads refresh the same group only if it was submitted again meanwhile.
THEOREM RefreshedByOne == Spec => []OneRefresher
<1>1. IInv => OneRefresher
  BY DEF IInv, AloneInv, OneRefresher
<1>. QED
  BY <1>1, Invariance, PTL

\* The refresh that closes a group has the depth that all of its submissions have
\* asked for, unless one of them came while it was being refreshed: for any number
\* of groups and threads.
THEOREM DepthIsServed == Spec => DepthServed
<1>1. IInv /\ [Next]_vars =>
        [\A g \in Group \ again :
            task[g].state # "done" /\ task'[g].state = "done" => served'[g] >= task'[g].mode]_vars
  BY DepthStep DEF IInv
<1>. QED
  BY <1>1, Invariance, PTL DEF Spec, DepthServed

=============================================================================
