--------------------------- MODULE ClosedLoopReview ---------------------------
(***************************************************************************)
(* The closed-loop review queue and its pipeline of worker threads         *)
(* (dex/runtime/dex_closed_loop_review_queue.py), with the refresh that    *)
(* a worker runs on a group (dex_opportunity_review_engine.py).            *)
(*                                                                         *)
(* The scanner and the users submit groups; there is one task per group,   *)
(* for ever, and a submission re-queues it.  The heap of (priority,        *)
(* sequence number, group) is kept as one first-in first-out lane per      *)
(* priority.  Depths deep and broadcast are one depth here: a refresh      *)
(* treats them alike.  A group stands for one of its routes; the chain and *)
(* the protocols of a task, which its first submission fixes, are left     *)
(* out, and so is the snapshot that a refresh merges into.                 *)
(***************************************************************************)
EXTENDS Integers, Sequences

CONSTANTS
    Group,      \* anchors of closed loops
    Worker,     \* threads of FixedRefreshPipeline
    Request,    \* request threads that refresh a group and wait for it
    None,       \* no group
    MaxLane     \* bound of the model: entries in each lane

ASSUME ThreadAssumption == Worker \cap Request = {}
ASSUME NoneAssumption == None \notin Group

VARIABLES
    task,       \* the task of each group
    lane,       \* the heap's entries of each priority, oldest first
    alive,      \* the pipeline's threads that run
    stop,       \* its stop event
    work,       \* what each thread is doing
    looked,     \* the group that the scan has seen is not under way
    \* history variables
    served,     \* depth of the refresh completed since the group was last submitted
    again       \* groups submitted since they are being refreshed

vars == <<task, lane, alive, stop, work, looked, served, again>>

Thread == Worker \cup Request
User == 0       \* USER_PRIORITY
Scan == 1       \* SCAN_PRIORITY
Priority == {User, Scan}
Shallow == 0    \* mode scan
Deep == 1       \* modes deep and broadcast

ASSUME LaneAssumption == MaxLane \in [Priority -> Nat \ {0}]

Task == [state : {"none", "queued", "running", "done", "error"},
         priority : Priority, mode : {Shallow, Deep}]
Work == [at : {"idle", "pop"}, group : {None}, mode : {Shallow}]
        \cup [at : {"quote", "review", "finish"}, group : Group, mode : {Shallow, Deep}]
Rest == [at |-> "idle", group |-> None, mode |-> Shallow]

At(w, where) == work[w].at = where
Goto(w, where) == work' = [work EXCEPT ![w].at = where]
Refreshing(w) == work[w].at \notin {"idle", "pop"}

Init ==
    /\ task = [g \in Group |-> [state |-> "none", priority |-> Scan, mode |-> Shallow]]
    /\ lane = [p \in Priority |-> <<>>]
    /\ alive = {}
    /\ stop = FALSE
    /\ work = [w \in Thread |-> Rest]
    /\ looked = {}
    /\ served = [g \in Group |-> Shallow]
    /\ again = {}

-----------------------------------------------------------------------------
(* The queue. *)

Least(a, b) == IF a < b THEN a ELSE b
Greatest(a, b) == IF a > b THEN a ELSE b

Resubmitted(t, p, m) ==
    [t EXCEPT !.state = "queued", !.priority = Least(t.priority, p), !.mode = Greatest(t.mode, m)]

Submitted(g, p, m) ==
    IF task[g].state = "none"
      THEN [state |-> "queued", priority |-> p, mode |-> m]
      ELSE Resubmitted(task[g], p, m)

Refreshers(g) == {w \in Thread : Refreshing(w) /\ work[w].group = g}

\* What the history variables make of a submission.
Forget(g) ==
    /\ served' = [served EXCEPT ![g] = Shallow]
    /\ again' = IF Refreshers(g) = {} THEN again ELSE again \cup {g}

\* Slip: every request of a user lifts the priority by one.
SubmitLifts(g, p, m) ==
    LET t == [Submitted(g, p, m) EXCEPT !.priority = IF p = User THEN task[g].priority - 1 ELSE @]
        q == IF t.priority < User THEN User ELSE t.priority
    IN  /\ Len(lane[q]) < MaxLane[q]
        /\ task' = [task EXCEPT ![g] = t]
        /\ lane' = [lane EXCEPT ![q] = Append(@, g)]
        /\ Forget(g)

\* Slip: a task that is queued already is not pushed again.
SubmitInPlace(g, p, m) ==
    LET t == Submitted(g, p, m)
    IN  /\ Len(lane[t.priority]) < MaxLane[t.priority]
        /\ task' = [task EXCEPT ![g] = t]
        /\ lane' = IF task[g].state = "queued" THEN lane
                   ELSE [lane EXCEPT ![t.priority] = Append(@, g)]
        /\ Forget(g)

\* Slip: the entry has the priority of the submission.
SubmitAsAsked(g, p, m) ==
    LET t == Submitted(g, p, m)
    IN  /\ Len(lane[p]) < MaxLane[p]
        /\ task' = [task EXCEPT ![g] = t]
        /\ lane' = [lane EXCEPT ![p] = Append(@, g)]
        /\ Forget(g)

\* submit_group.
Submit(g, p, m) ==
    LET t == Submitted(g, p, m)
    IN  /\ Len(lane[t.priority]) < MaxLane[t.priority]
        /\ task' = [task EXCEPT ![g] = t]
        /\ lane' = [lane EXCEPT ![t.priority] = Append(@, g)]
        /\ Forget(g)

\* Slip: an entry of a group that was popped before is taken again.
LiveAgain(p, i) == task[lane[p][i]].priority = p

\* An entry that pop_next does not pass over.
Live(p, i) == task[lane[p][i]].state = "queued" /\ task[lane[p][i]].priority = p

First(p, i) ==
    /\ Live(p, i)
    /\ \A j \in 1..(i - 1) : ~Live(p, j)
    /\ \A q \in Priority : q < p => \A j \in DOMAIN lane[q] : ~Live(q, j)

\* pop_next: everything ahead of the entry is thrown away with it.
Pop(w) ==
    /\ At(w, "pop")
    /\ \E p \in Priority : \E i \in DOMAIN lane[p] :
        /\ First(p, i)
        /\ task' = [task EXCEPT ![lane[p][i]].state = "running"]
        /\ lane' = [q \in Priority |->
                       CASE q < p -> <<>>
                         [] q = p -> SubSeq(lane[p], i + 1, Len(lane[p]))
                         [] q > p -> lane[q]]
        /\ work' = [work EXCEPT ![w].at = "quote", ![w].group = lane[p][i]]
    /\ UNCHANGED <<alive, stop, served, again>>

PopNothing(w) ==
    /\ At(w, "pop")
    /\ \A p \in Priority : \A i \in DOMAIN lane[p] : ~Live(p, i)
    /\ lane' = [p \in Priority |-> <<>>]
    /\ Goto(w, "idle")
    /\ UNCHANGED <<task, alive, stop, served, again>>

-----------------------------------------------------------------------------
(* The pipeline's threads. *)

\* start; it returns at once while a thread of before still runs.
Start ==
    /\ IF alive # {} THEN UNCHANGED <<alive, stop>> ELSE alive' = Worker /\ stop' = FALSE
    /\ UNCHANGED <<task, lane, work, served, again>>

\* stop; it waits two seconds for each thread, and not for a refresh.
Stop ==
    /\ stop' = TRUE
    /\ UNCHANGED <<task, lane, alive, work, served, again>>

\* The head of _loop.
Loop(w) ==
    /\ w \in alive
    /\ At(w, "idle")
    /\ IF stop THEN alive' = alive \ {w} /\ UNCHANGED work
               ELSE Goto(w, "pop") /\ UNCHANGED alive
    /\ UNCHANGED <<task, lane, stop, served, again>>

-----------------------------------------------------------------------------
(* _fixed_refresh_group. *)

\* Slip: only what a user asked for is reviewed.
QuoteForUsers(w) ==
    /\ At(w, "quote")
    /\ LET t == task[work[w].group]
           m == IF t.priority = User THEN t.mode ELSE Shallow
       IN  work' = [work EXCEPT ![w].mode = m,
                                ![w].at = IF m = Deep THEN "review" ELSE "finish"]
    /\ UNCHANGED <<task, lane, alive, stop, served, again>>

\* The routes are quoted; only then is the mode of the task read.
Quote(w) ==
    /\ At(w, "quote")
    /\ LET m == task[work[w].group].mode
       IN  work' = [work EXCEPT ![w].mode = m,
                                ![w].at = IF m = Deep THEN "review" ELSE "finish"]
    /\ UNCHANGED <<task, lane, alive, stop, served, again>>

\* The routes are reviewed on the chain and, with auto execution on, broadcast.
Review(w) ==
    /\ At(w, "review")
    /\ Goto(w, "finish")
    /\ UNCHANGED <<task, lane, alive, stop, served, again>>

\* Who leaves a group last closes its history.
Leave(w) ==
    /\ work' = [work EXCEPT ![w] = Rest]
    /\ again' = IF Refreshers(work[w].group) = {w} THEN again \ {work[w].group} ELSE again

\* The routes are merged into the snapshot; mark_completed.
Finish(w) ==
    /\ At(w, "finish")
    /\ task' = [task EXCEPT ![work[w].group].state = "done"]
    /\ served' = [served EXCEPT ![work[w].group] = work[w].mode]
    /\ Leave(w)
    /\ UNCHANGED <<lane, alive, stop>>

\* Slip: the error is logged and the task left as it is.
FailForgets(w) ==
    /\ At(w, "quote") \/ At(w, "review")
    /\ Leave(w)
    /\ UNCHANGED <<task, lane, alive, stop, served>>

\* Quoting or reviewing raises: mark_error.
Fail(w) ==
    /\ At(w, "quote") \/ At(w, "review")
    /\ task' = [task EXCEPT ![work[w].group].state = "error"]
    /\ Leave(w)
    /\ UNCHANGED <<lane, alive, stop, served>>

\* What a thread does on its own.
Step(w) ==
    \/ Loop(w) \/ Pop(w) \/ PopNothing(w) \/ Quote(w) \/ Review(w)
    \/ Finish(w) \/ Fail(w)

-----------------------------------------------------------------------------
(* The scan and the web routes. *)

\* _enqueue_closed_loop_groups_from_payload looks at the task of a group ...
ScanLooks(g) ==
    /\ looked = {}
    /\ task[g].state \in {"none", "done", "error"}
    /\ looked' = {g}
    /\ UNCHANGED <<task, lane, alive, stop, work, served, again>>

\* ... and submits it, for a deep refresh if auto execution is on.
ScanSubmits(g) ==
    /\ g \in looked
    /\ \E m \in {Shallow, Deep} : Submit(g, Scan, m)
    /\ looked' = {}
    /\ UNCHANGED <<alive, stop, work>>

\* The priority of a request is that of the scan only if its mode is "scan"; a
\* mode the queue does not know is shallow.
Asked == {<<Scan, Shallow>>, <<User, Shallow>>, <<User, Deep>>}

\* POST dex/closed-loop-groups/<group>/refresh, without waiting.
Refresh(g, ask) ==
    /\ Submit(g, ask[1], ask[2])
    /\ UNCHANGED <<alive, stop, work, looked>>

\* The same with wait=1: the request then runs one task, the best there is.
RefreshAndWait(r, g, ask) ==
    /\ At(r, "idle")
    /\ Submit(g, ask[1], ask[2])
    /\ Goto(r, "pop")
    /\ UNCHANGED <<alive, stop, looked>>

Next ==
    \/ \E w \in Thread : Step(w) /\ UNCHANGED looked
    \/ (Start \/ Stop) /\ UNCHANGED looked
    \/ \E g \in Group : ScanLooks(g) \/ ScanSubmits(g)
    \/ \E g \in Group, ask \in Asked :
        Refresh(g, ask) \/ \E r \in Request : RefreshAndWait(r, g, ask)

Spec == Init /\ [][Next]_vars

\* A thread that runs goes on: what it calls has a timeout.
Fairness == \A w \in Thread : WF_vars(Step(w) /\ UNCHANGED looked)

FairSpec == Spec /\ Fairness

-----------------------------------------------------------------------------
(* Properties. *)

TypeOK ==
    /\ task \in [Group -> Task]
    /\ lane \in [Priority -> Seq(Group)]
    /\ alive \subseteq Worker
    /\ stop \in BOOLEAN
    /\ work \in [Thread -> Work]
    /\ looked \subseteq Group
    /\ served \in [Group -> {Shallow, Deep}]
    /\ again \subseteq Group

\* However it was submitted, promoted, run and resubmitted, a queued group has
\* an entry in the heap that pop_next does not pass over: promotion changes the
\* priority of the task under the entries it already has.
QueuedHasEntry ==
    \A g \in Group : task[g].state = "queued" =>
        \E i \in DOMAIN lane[task[g].priority] : lane[task[g].priority][i] = g

\* A task that says running is being run: no group is stuck in the one state in
\* which the scanner neither submits it nor a worker takes it.
RunningHasWorker ==
    \A g \in Group : task[g].state = "running" =>
        \E w \in Thread : Refreshing(w) /\ work[w].group = g

\* The heap keeps entries of groups that were popped long ago; still nobody takes
\* up a group that another thread is refreshing, and may be sending transactions
\* for, unless it was submitted again in the meantime.
OneRefresher ==
    \A g \in Group \ again : \A v, w \in Refreshers(g) : v = w

\* A submission promotes an existing group ("a user-triggered deep review simply
\* uses the same pipeline with ... deeper mode"): a group that is done has had a
\* refresh of the depth its task has.
PromotionServed == \A g \in Group : task[g].state = "done" => served[g] >= task[g].mode

\* What is true of it: a group becomes done with less than the depth its task asks
\* for only if it was submitted again while it was being refreshed.  However often
\* it was promoted in the heap, run, failed and submitted before, the refresh that
\* closes it has the depth asked for by all of its submissions.
DepthServed ==
    [][\A g \in Group \ again :
        task[g].state # "done" /\ task'[g].state = "done" => served'[g] >= task'[g].mode]_vars

Submits == \E p \in Priority : Len(lane'[p]) > Len(lane[p])

\* If the pipeline is at last left running and nothing more is submitted, no
\* group stays queued, whatever entries were left behind in the heap.
Drains ==
    <>[](~stop /\ alive # {}) /\ <>[][~Submits]_vars => <>[](\A g \in Group : task[g].state # "queued")

=============================================================================
