------------------------ MODULE DexOpportunityScanner ------------------------
(***************************************************************************)
(* The DEX opportunity scanner                                             *)
(* (dex/runtime/dex_opportunity_scanner_engine.py): its thread, which      *)
(* scans the chains that were asked for and those that are watched, the    *)
(* requests that scan and wait, and the snapshot they leave of each chain. *)
(* Beside them the closed-loop review merges routes into the snapshots, a  *)
(* user resets them, and route tests switch live quoting off and on, as    *)
(* the quoting of a scan does for some chains, through one variable of the *)
(* process's environment.                                                  *)
(*                                                                         *)
(* A snapshot lists of each group's route the default variant and the      *)
(* temporary one, in which UniswapX fills the middle hop, and keeps of     *)
(* each whether it carries evidence of a review on the chain.  Where       *)
(* routes are looked up by their tokens the variants are not told apart.   *)
(* Recording, the counters and the cache file are left out;                *)
(* ClosedLoopReview has the queue that a scan fills.  stop is left out     *)
(* too: nothing in the repository calls it.                                *)
(***************************************************************************)
EXTENDS Integers, SequencesExt

CONSTANTS
    Chain,
    Reference,  \* chains that are quoted with live quoting switched off
    Fallback,   \* chains where UniswapX may fill a route's middle hop
    Group,      \* anchors of closed loops
    Scanner,    \* the scanner's thread
    Request,    \* request threads that scan and wait for it
    Tester,     \* threads that quote a route's test with live quoting switched off
    MaxNow      \* bound of the model: scans that requests wait for

ASSUME ChainAssumption == Chain # {} /\ Reference \subseteq Chain /\ Fallback \subseteq Chain
ASSUME ThreadAssumption ==
    Scanner \notin Request \cup Tester /\ Request \cap Tester = {}
ASSUME BoundAssumption == MaxNow \in Nat

VARIABLES
    up,         \* the scanner's thread runs
    queue,      \* chains that are to be scanned (_queued_scans)
    watched,    \* chains that are scanned periodically
    round,      \* those the thread has yet to look at in this round
    snapshot,   \* the routes of each chain
    job,        \* the scan of each thread
    live,       \* live quoting is not switched off (DEX_V4_LIVE_QUOTE_ENABLED)
    saved,      \* what each thread is going to set it back to
    nows,       \* counted for the bound
    \* history variables
    late,       \* threads whose chain had a review merged since they read its snapshot
    mixed       \* a route test overlapped another quoting with live quoting off,
                \* and live quoting has not been back since

vars == <<up, queue, watched, round, snapshot, job, live, saved, nows, late, mixed>>
asking == <<up, queue, watched, round, nows>>
gate == <<live, saved, mixed>>

ScanThread == {Scanner} \cup Request
Thread == ScanThread \cup Tester
Variant == {"default", "temporary"}
VariantsOf(c) == IF c \in Fallback THEN Variant ELSE {"default"}
Route == {"absent", "plain", "reviewed"}
Routes == [Group -> [Variant -> Route]]

\* A route alone among the variants of its group.
Lone(v, r) == [w \in Variant |-> IF w = v THEN r ELSE "absent"]
NoRoutes == [g \in Group |-> Lone("default", "absent")]

\* What is found by the tokens of a listed route (_route_simple_key): of two variants
\* the later in the list, the temporary.
ByTokens(listed) ==
    IF listed["temporary"] # "absent" THEN Lone("temporary", listed["temporary"]) ELSE listed

\* mine: the snapshot in place is the object that this scan put there; its
\* routes are kept apart only when they are not.
Job == [at : {"idle", "lock", "quote", "quoting", "read", "record", "finish"},
        chain : Chain, routes : Routes, mine : BOOLEAN]

At(t, where) == job[t].at = where
Goto(t, where) == job' = [job EXCEPT ![t].at = where]
Rest == [at |-> "idle", chain |-> CHOOSE c \in Chain : TRUE, routes |-> NoRoutes, mine |-> FALSE]

Init ==
    /\ up = FALSE
    /\ queue = <<>>
    /\ watched = {} /\ round = {}
    /\ snapshot = [c \in Chain |-> NoRoutes]
    /\ job = [t \in ScanThread |-> Rest]
    /\ live = TRUE
    /\ saved = [t \in Thread |-> "none"]
    /\ nows = 0
    /\ late = {} /\ mixed = FALSE

-----------------------------------------------------------------------------
(* Live quoting, switched off for a while. *)

Off(t) == saved[t] # "none"

SwitchOff(t) ==
    /\ saved' = [saved EXCEPT ![t] = IF live THEN "on" ELSE "off"]
    /\ live' = FALSE
    /\ mixed' = (mixed \/ \E u \in Thread \ {t} : Off(u) /\ (u \in Tester \/ t \in Tester))

SwitchBack(t) ==
    /\ live' = IF Off(t) THEN saved[t] = "on" ELSE live
    /\ saved' = [saved EXCEPT ![t] = "none"]
    /\ mixed' = (mixed /\ (~live' \/ \E u \in Thread \ {t} : Off(u)))

\* _routes_payload of a route's test, which a review runs as well.
TestBegins(x) ==
    /\ ~Off(x)
    /\ SwitchOff(x)
    /\ UNCHANGED <<asking, snapshot, job, late>>

TestEnds(x) ==
    /\ Off(x)
    /\ SwitchBack(x)
    /\ UNCHANGED <<asking, snapshot, job, late>>

-----------------------------------------------------------------------------
(* Who scans what. *)

\* scan_async; start is the same without the queue.
ScanAsync(c) ==
    /\ watched' = watched \cup {c}
    /\ queue' = IF Contains(queue, c) THEN queue ELSE Append(queue, c)
    /\ up' = TRUE
    /\ UNCHANGED <<round, nows, snapshot, job, late, gate>>

Start(c) ==
    /\ watched' = watched \cup {c}
    /\ up' = TRUE
    /\ UNCHANGED <<queue, round, nows, snapshot, job, late, gate>>

\* scan_now.
ScanNow(r, c) ==
    /\ At(r, "idle") /\ nows < MaxNow
    /\ nows' = nows + 1
    /\ watched' = watched \cup {c}
    /\ job' = [job EXCEPT ![r].at = "lock", ![r].chain = c]
    /\ UNCHANGED <<up, queue, round, snapshot, late, gate>>

Looping == up /\ At(Scanner, "idle")

\* run_forever: first the chains that were asked for, ...
Pop ==
    /\ Looping /\ round = {} /\ queue # <<>>
    /\ queue' = Tail(queue)
    /\ job' = [job EXCEPT ![Scanner].at = "lock", ![Scanner].chain = Head(queue)]
    /\ UNCHANGED <<up, watched, round, nows, snapshot, late, gate>>

\* Slip: a round begins whatever was asked for.
RoundFirst ==
    /\ Looping /\ round = {} /\ watched # {}
    /\ round' = watched
    /\ UNCHANGED <<up, queue, watched, nows, snapshot, job, late, gate>>

\* ... then a round of those that are watched, ...
Round ==
    /\ Looping /\ round = {} /\ queue = <<>> /\ watched # {}
    /\ round' = watched
    /\ UNCHANGED <<up, queue, watched, nows, snapshot, job, late, gate>>

\* ... of which some are not due.
Periodic(c) ==
    /\ Looping /\ c \in round
    /\ round' = round \ {c}
    /\ job' = [job EXCEPT ![Scanner].at = "lock", ![Scanner].chain = c]
    /\ UNCHANGED <<up, queue, watched, nows, snapshot, late, gate>>

NotDue(c) ==
    /\ Looping /\ c \in round
    /\ round' = round \ {c}
    /\ UNCHANGED <<up, queue, watched, nows, snapshot, job, late, gate>>

-----------------------------------------------------------------------------
(* _scan_one. *)

Holds(t) == job[t].at \notin {"idle", "lock"}

\* Slip: nobody waits for the scan lock.
LockNever(t) ==
    /\ At(t, "lock")
    /\ Goto(t, "quote")
    /\ UNCHANGED <<asking, snapshot, late, gate>>

Lock(t) ==
    /\ At(t, "lock")
    /\ \A u \in ScanThread : ~Holds(u)
    /\ Goto(t, "quote")
    /\ UNCHANGED <<asking, snapshot, late, gate>>

\* default_quote_payload_provider.
Quote(t) ==
    /\ At(t, "quote")
    /\ Goto(t, "quoting")
    /\ IF job[t].chain \in Reference THEN SwitchOff(t) ELSE UNCHANGED <<live, saved, mixed>>
    /\ UNCHANGED <<asking, snapshot, late>>

Quoted(t) ==
    /\ At(t, "quoting")
    /\ SwitchBack(t)
    /\ Goto(t, "read")
    /\ UNCHANGED <<asking, snapshot, late>>

\* Slip: the variable is set back only when the quoting returns.
QuoteRaisesBare(t) ==
    /\ At(t, "quoting")
    /\ saved' = [saved EXCEPT ![t] = "none"]
    /\ job' = [job EXCEPT ![t] = Rest]
    /\ UNCHANGED <<asking, snapshot, late, live, mixed>>

QuoteRaises(t) ==
    /\ At(t, "quoting")
    /\ SwitchBack(t)
    /\ job' = [job EXCEPT ![t] = Rest]
    /\ UNCHANGED <<asking, snapshot, late>>

\* Slip: the routes are taken as they were quoted.
KeepNothing(was, found, logged) ==
    [g \in Group |-> [v \in Variant |->
        CASE v \notin found[g] -> "absent"
          [] v \in found[g] /\ g \in logged -> "reviewed"
          [] OTHER -> "plain"]]

\* The quoted routes with the evidence of the snapshot, which does not pass from one
\* variant to the other, and of the route tests logged of late, which are logged by
\* the route's tokens.
Keep(was, found, logged) ==
    [g \in Group |-> [v \in Variant |->
        CASE v \notin found[g] -> "absent"
          [] v \in found[g] /\ (g \in logged \/ ByTokens(was[g])[v] = "reviewed") -> "reviewed"
          [] OTHER -> "plain"]]

Read(t) ==
    /\ At(t, "read")
    /\ UNCHANGED <<asking, snapshot, late, gate>>
    /\ \E found \in [Group -> SUBSET VariantsOf(job[t].chain)], logged \in SUBSET Group :
        job' = [job EXCEPT ![t].at = "record",
                           ![t].routes = Keep(snapshot[job[t].chain], found, logged)]

\* What was found has been recorded: the snapshot is replaced.
Persist(t) ==
    /\ At(t, "record")
    /\ job' = [job EXCEPT ![t].at = "finish", ![t].mine = TRUE,
                       ![t].routes = NoRoutes]
    /\ snapshot' = [snapshot EXCEPT ![job[t].chain] = job[t].routes]
    /\ late' = late \ {t}
    /\ UNCHANGED <<asking, gate>>

\* Recording raises, or queueing the groups does after the snapshot was replaced.
ScanRaises(t) ==
    /\ At(t, "record") \/ At(t, "finish")
    /\ job' = [job EXCEPT ![t] = Rest]
    /\ late' = late \ {t}
    /\ UNCHANGED <<asking, snapshot, gate>>

\* Slip: the routes of the scan win.
BetterNew(old, v, r) == IF r = "absent" THEN old ELSE Lone(v, r)

\* A route of the scan against the one in place.  A default route takes the place of
\* a temporary one, never the other way round; of one variant, evidence stays.
Better(old, v, r) ==
    IF \/ r = "absent"
       \/ v = "temporary" /\ old["default"] # "absent"
       \/ old[v] = "reviewed"
      THEN old
      ELSE Lone(v, r)

\* The last merge: the routes of the scan, in their order, into those in place, which
\* are the same ones where the snapshot in place is the scan's own.
Merged(new, listed) ==
    Better(Better(ByTokens(listed), "default", new["default"]), "temporary", new["temporary"])

Finish(t) ==
    /\ At(t, "finish")
    /\ job' = [job EXCEPT ![t] = Rest]
    /\ UNCHANGED <<asking, late, gate>>
    /\ LET c == job[t].chain
           new == IF job[t].mine THEN snapshot[c] ELSE job[t].routes
       IN snapshot' = [snapshot EXCEPT ![c] = [g \in Group |-> Merged(new[g], @[g])]]

ScanStep(t) ==
    \/ Lock(t) \/ Quote(t) \/ Quoted(t) \/ QuoteRaises(t) \/ Read(t)
    \/ Persist(t) \/ ScanRaises(t) \/ Finish(t)

-----------------------------------------------------------------------------
(* Those beside the scans. *)

\* _merge_fixed_refresh_into_snapshot: a refreshed route, of either variant and with
\* evidence or without, takes the place of what is there; the other groups keep what
\* is found by their tokens.
Merge(c, g, v, r) ==
    /\ snapshot' = [snapshot EXCEPT ![c] =
                        [h \in Group |-> IF h = g THEN Lone(v, r) ELSE ByTokens(@[h])]]
    /\ late' = late \cup {t \in ScanThread : At(t, "record") /\ job[t].chain = c}
    /\ UNCHANGED <<asking, job, gate>>

\* reset_dex_opportunity_stats puts an empty snapshot in place; a scan that has
\* put its own there keeps that object, as it was left.
Reset(c) ==
    /\ snapshot' = [snapshot EXCEPT ![c] = NoRoutes]
    /\ job' = [t \in ScanThread |->
                IF job[t].mine /\ job[t].chain = c
                  THEN [job[t] EXCEPT !.mine = FALSE, !.routes = snapshot[c]]
                  ELSE job[t]]
    /\ UNCHANGED <<asking, late, gate>>

Turn == Pop \/ Round \/ \E c \in Chain : Periodic(c) \/ NotDue(c)

Next ==
    \/ \E c \in Chain : ScanAsync(c) \/ Start(c) \/ Reset(c)
    \/ \E r \in Request, c \in Chain : ScanNow(r, c)
    \/ Turn
    \/ \E t \in ScanThread : ScanStep(t)
    \/ \E c \in Chain, g \in Group, r \in {"plain", "reviewed"} :
         \E v \in VariantsOf(c) : Merge(c, g, v, r)
    \/ \E x \in Tester : TestBegins(x) \/ TestEnds(x)

Spec == Init /\ [][Next]_vars

\* The threads go on; quoting and recording come back, with or without a result.
FairSpec ==
    /\ Spec
    /\ WF_vars(Turn)
    /\ \A t \in ScanThread : WF_vars(ScanStep(t))

-----------------------------------------------------------------------------
\* The types of the variables; the queue has no chain twice, and of the threads
\* that scan one at a time is past the scan lock.
TypeOK ==
    /\ up \in BOOLEAN /\ live \in BOOLEAN /\ mixed \in BOOLEAN
    /\ queue \in Seq(Chain) /\ IsInjective(queue)
    /\ watched \subseteq Chain /\ round \subseteq watched
    /\ snapshot \in [Chain -> Routes]
    /\ job \in [ScanThread -> Job]
    /\ saved \in [Thread -> {"none", "on", "off"}]
    /\ nows \in 0..MaxNow
    /\ late \subseteq ScanThread
    /\ \A t, u \in ScanThread : Holds(t) /\ Holds(u) => t = u

\* Where a scan takes a route's evidence away although the route stays.  Replacing the
\* snapshot, it does when a review was merged into the chain since the scan read it,
\* and of a default route that is listed beside a temporary one, which hides it from
\* the reading.  In the last merge a temporary route gives way to a default one.
Loses(t, g, v) ==
    IF At(t, "record")
      THEN snapshot'[job[t].chain][g][v] = "plain"
      ELSE snapshot'[job[t].chain][g][v] # "reviewed"
MayLose(t, g, v) ==
    LET c == job[t].chain
    IN  IF At(t, "record")
          THEN t \in late \/ (v = "default" /\ snapshot[c][g]["temporary"] # "absent")
          ELSE v = "temporary" /\ snapshot'[c][g]["default"] # "absent"

\* A scan takes the evidence of a reviewed route away in these cases only, whatever is
\* merged, reset or fails while it runs (the comments at the reading of the snapshot
\* and in the last merge).
EvidenceKept ==
    [][\A t \in ScanThread :
         Persist(t) \/ Finish(t) =>
            \A g \in Group, v \in Variant :
                snapshot[job[t].chain][g][v] = "reviewed" /\ Loses(t, g, v) => MayLose(t, g, v)]_vars

\* Scans alone, in whatever order they come and fail, leave live quoting as it
\* was: what is left of a route test that overlaps another quoting is the test's
\* (_reference_only_quote_payload under the scan lock).
LiveAgain == (~mixed /\ \A t \in Thread : ~Off(t)) => live

\* A chain that was asked for is scanned, whatever is watched, asked for again,
\* reset or fails in between.
QueuedIsScanned ==
    \A c \in Chain : Contains(queue, c) ~> At(Scanner, "quote") /\ job[Scanner].chain = c
=============================================================================
