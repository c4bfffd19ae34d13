----------------------- MODULE CowSubmissionPauseStore -----------------------
(***************************************************************************)
(* The store of the CoW submission switch                                  *)
(* (dex/runtime/cow_submission_pause.py): rows of the local key-value      *)
(* store, written one transaction each, and a JSON file that follows them  *)
(* and stands in for them when the database raises.  Reading the switch    *)
(* also writes: it mends rows that disagree, moves a file into an empty    *)
(* table and brings the file up to date.  Nothing is locked.               *)
(*                                                                         *)
(* A value is the switch, whether somebody has ever set it (its            *)
(* updated_at) and whether the reason it was paused for is the one that    *)
(* the start does not respect, "startup_transaction_switch_off"; other     *)
(* reasons and the other times are left out.  A scan of the rows is one    *)
(* SQL statement, so one step.                                             *)
(***************************************************************************)
EXTENDS Integers

CONSTANTS
    Setter,       \* request threads that pause or resume
    Reader,       \* threads that ask for the switch: the quote daemon's, requests'
    Main,         \* the thread that starts the process
    FirstFile,    \* what the file may say before the rows are first written
    MaxSets,      \* bound of the model: pauses and resumes asked for
    MaxFaults     \* bound of the model: calls of the database or the file that
                  \* raise, and deaths of the process

ASSUME ThreadAssumption == Setter \cap Reader = {} /\ Main \notin Setter \cup Reader
ASSUME BoundAssumption == MaxSets \in Nat /\ MaxFaults \in Nat

VARIABLES
    rows,      \* the rows of the switch
    file,      \* its JSON file
    job,       \* what each thread is doing
    serving,   \* the start is over: requests are served and the daemon runs
    sets, faults,   \* counted for the bounds
    \* history variable
    blind      \* threads that act on a value older than the rows, or on the file's

vars == <<rows, file, job, serving, sets, faults, blind>>
counters == <<sets, faults>>

Thread == Setter \cup Reader \cup {Main}
Mode == {"open", "paused"}
Value == [mode : Mode, startup : BOOLEAN, chosen : BOOLEAN]
Untouched == [mode |-> "open", startup |-> FALSE, chosen |-> FALSE]     \* _DEFAULT_STATE
NoFile == [mode |-> "none", startup |-> FALSE, chosen |-> FALSE]
ASSUME FileAssumption == FirstFile \subseteq Value \cup {NoFile}

Absent == [paused |-> "absent", enabled |-> "absent", startup |-> FALSE, chosen |-> FALSE]

\* paused, order_submission_enabled, pause_reason, updated_at: in the order of the saves
Row == 1..4
Job == [op : {"none", "read", "pause", "resume", "boot", "init"},
        at : {"idle", "scan", "empty", "mend", "migrate", "sync", "loaded", "save", "publish"},
        row : Row, value : Value, found : BOOLEAN]
Rest == [op |-> "none", at |-> "idle", row |-> 1, value |-> Untouched, found |-> FALSE]
Asked(o) == [Rest EXCEPT !.op = o, !.at = "scan"]

At(t, where) == job[t].at = where

Init ==
    /\ rows = Absent
    /\ file \in FirstFile
    /\ job = [t \in Thread |-> IF t = Main THEN Asked("boot") ELSE Rest]
    /\ serving = FALSE
    /\ sets = 0 /\ faults = 0
    /\ blind = {}

-----------------------------------------------------------------------------
(* Loading the switch. *)

\* Slip: the switch is taken from order_submission_enabled.
NormalByEnabled(r) ==
    [mode |-> IF r.enabled = "absent" THEN "open" ELSE r.enabled,
     startup |-> r.startup, chosen |-> r.chosen]

\* _normalized_state of rows that are there.
Normal(r) == [mode |-> r.paused, startup |-> r.startup, chosen |-> r.chosen]

Coherent(r) == r.enabled = r.paused

\* The start alone asks where a value comes from.
Starting(t) == job[t].op = "boot"

\* What a thread that reads the file may find: a file that another thread is
\* writing reads as none.
FileReads ==
    {IF file = NoFile THEN Untouched ELSE file}
    \cup {v \in {Untouched} : \E u \in Thread : job[u].at \in {"sync", "publish"}}

\* A request, or a turn of the daemon's loop.
Begin(t, o) ==
    /\ serving /\ At(t, "idle")
    /\ job' = [job EXCEPT ![t] = Asked(o)]
    /\ UNCHANGED <<rows, file, serving, faults, blind>>

Read(t) == Begin(t, "read") /\ UNCHANGED sets
Set(t, o) == sets < MaxSets /\ sets' = sets + 1 /\ Begin(t, o)

\* Slip: what the rows say is not mended.
ScanOnly(t) ==
    /\ At(t, "scan")
    /\ IF rows.paused = "absent"
         THEN job' = [job EXCEPT ![t].at = "empty"]
         ELSE job' = [job EXCEPT ![t].at = "sync", ![t].value = Normal(rows), ![t].found = Starting(t)]
    /\ blind' = IF job[t].op = "init" THEN blind ELSE blind \ {t}
    /\ UNCHANGED <<rows, file, serving, counters>>

\* The rows are scanned and taken as they are; rows that disagree are mended.
Scan(t) ==
    /\ At(t, "scan")
    /\ IF rows.paused = "absent"
         THEN job' = [job EXCEPT ![t].at = "empty"]
         ELSE job' = [job EXCEPT ![t].at = IF Coherent(rows) THEN "sync" ELSE "mend",
                                 ![t].value = Normal(rows), ![t].found = Starting(t)]
    /\ blind' = IF job[t].op = "init" THEN blind ELSE blind \ {t}
    /\ UNCHANGED <<rows, file, serving, counters>>

\* No rows: what the file says is going to be written to them.
Empty(t) ==
    /\ At(t, "empty")
    /\ \E v \in FileReads :
        job' = [job EXCEPT ![t].at = "migrate", ![t].value = v,
                                 ![t].found = Starting(t) /\ file # NoFile]
    /\ blind' = blind \cup {t}
    /\ UNCHANGED <<rows, file, serving, counters>>

\* The database raises: the file stands in.
FallBack(t) ==
    /\ \E v \in FileReads :
        job' = [job EXCEPT ![t].at = "loaded", ![t].row = 1, ![t].value = v, ![t].found = FALSE]
    /\ blind' = blind \cup {t}

Fault == faults < MaxFaults /\ faults' = faults + 1 /\ UNCHANGED sets

ScanFails(t) ==
    /\ At(t, "scan") /\ Fault
    /\ FallBack(t)
    /\ UNCHANGED <<rows, file, serving>>

-----------------------------------------------------------------------------
(* Writing it. *)

\* Slip: order_submission_enabled is written before paused.
WrittenSwapped(r, n, v) ==
    CASE n = 1 -> [r EXCEPT !.enabled = v.mode]
      [] n = 2 -> [r EXCEPT !.paused = v.mode]
      [] n = 3 -> [r EXCEPT !.startup = v.startup]
      [] n = 4 -> [r EXCEPT !.chosen = v.chosen]

\* The rows after the n-th upsert of a value.
Written(r, n, v) ==
    CASE n = 1 -> [r EXCEPT !.paused = v.mode]
      [] n = 2 -> [r EXCEPT !.enabled = v.mode]
      [] n = 3 -> [r EXCEPT !.startup = v.startup]
      [] n = 4 -> [r EXCEPT !.chosen = v.chosen]

Writing(t) == job[t].at \in {"mend", "migrate", "save"}
FileNext(t) == IF At(t, "save") THEN "publish" ELSE "sync"

\* Threads that have taken a value and not yet answered for it.
Holding == {u \in Thread : job[u].at \notin {"idle", "scan", "empty"}}

\* save_control_panel_parameter_map: one upsert of one row.
WriteRow(t) ==
    /\ Writing(t)
    /\ rows' = Written(rows, job[t].row, job[t].value)
    /\ job' = IF job[t].row < 4
                THEN [job EXCEPT ![t].row = @ + 1]
                ELSE [job EXCEPT ![t].row = 1, ![t].at = FileNext(t)]
    /\ blind' = IF rows'.paused # rows.paused THEN blind \cup (Holding \ {t}) ELSE blind
    /\ UNCHANGED <<file, serving, counters>>

\* An upsert raises.  A mend goes on without it, a migration falls back on the
\* file, a save writes the file alone.
WriteFails(t) ==
    /\ Writing(t) /\ Fault
    /\ IF At(t, "migrate")
         THEN FallBack(t)
         ELSE /\ job' = [job EXCEPT ![t].row = 1, ![t].at = FileNext(t)]
              /\ UNCHANGED blind
    /\ UNCHANGED <<rows, file, serving>>

\* Where a thread goes when it answers; the answer of the start opens the shop.
Answer(t) ==
    /\ job' = [job EXCEPT ![t] = Rest]
    /\ serving' = (serving \/ t = Main)
    /\ blind' = blind \ {t}

AfterFile(t) ==
    IF At(t, "publish")
      THEN Answer(t)
      ELSE job' = [job EXCEPT ![t].at = "loaded"] /\ UNCHANGED <<serving, blind>>

WriteFile(t) ==
    /\ job[t].at \in {"sync", "publish"}
    /\ file' = job[t].value
    /\ AfterFile(t)
    /\ UNCHANGED <<rows, counters>>

WriteFileFails(t) ==
    /\ job[t].at \in {"sync", "publish"} /\ Fault
    /\ AfterFile(t)
    /\ UNCHANGED <<rows, file>>

-----------------------------------------------------------------------------
(* What becomes of a loaded switch. *)

\* Slip: the start opens the switch whatever it finds.
SettledNever(t) == FALSE

\* The start leaves a switch alone that somebody has set or that was stored, but
\* for the reason "startup_transaction_switch_off".
Settled(t) == (job[t].value.chosen \/ job[t].found) /\ ~job[t].value.startup

\* What set_cow_submission_pause_guard may save: the reason of a pause is the
\* client's, and opening the switch drops it.
Aims(o) ==
    [mode : {IF o = "pause" THEN "paused" ELSE "open"},
     startup : IF o = "pause" THEN BOOLEAN ELSE {FALSE},
     chosen : {TRUE}]

\* cow_submission_pause_guard_status answers, disable_cow_submission_for_startup
\* answers or goes on to set the switch, set_cow_submission_pause_guard saves.
Loaded(t) ==
    /\ At(t, "loaded")
    /\ \/ /\ job[t].op = "read" \/ (job[t].op = "boot" /\ Settled(t))
          /\ Answer(t)
       \/ /\ job[t].op = "boot" /\ ~Settled(t)
          /\ job' = [job EXCEPT ![t] = Asked("init")]
          /\ UNCHANGED <<serving, blind>>
       \/ /\ job[t].op \in {"pause", "resume", "init"}
          /\ \E v \in Aims(job[t].op) :
                job' = [job EXCEPT ![t].at = "save", ![t].value = v]
          /\ UNCHANGED <<serving, blind>>
    /\ UNCHANGED <<rows, file, counters>>

\* The process dies and starts again; a file that was being written may be cut.
Crash ==
    /\ Fault
    /\ job' = [t \in Thread |-> IF t = Main THEN Asked("boot") ELSE Rest]
    /\ serving' = FALSE
    /\ \/ UNCHANGED file
       \/ /\ \E t \in Thread : job[t].at \in {"sync", "publish"}
          /\ file' = Untouched
    /\ blind' = {}
    /\ UNCHANGED rows

Step(t) == Scan(t) \/ Empty(t) \/ WriteRow(t) \/ WriteFile(t) \/ Loaded(t)

Next ==
    \/ \E t \in Reader : Read(t)
    \/ \E t \in Setter, o \in {"pause", "resume"} : Set(t, o)
    \/ \E t \in Thread : Step(t) \/ ScanFails(t) \/ WriteFails(t) \/ WriteFileFails(t)
    \/ Crash

Spec == Init /\ [][Next]_vars

\* Threads that have work go on, and readers come back: the daemon looks at the
\* switch at every turn of its loop.
FairSpec ==
    /\ Spec
    /\ \A t \in Thread : WF_vars(Step(t))
    /\ \A t \in Reader : WF_vars(Read(t))

-----------------------------------------------------------------------------
\* The types of the variables; the rows are written in their order.
TypeOK ==
    /\ rows \in [paused : Mode \cup {"absent"}, enabled : Mode \cup {"absent"},
                startup : BOOLEAN, chosen : BOOLEAN]
    /\ rows.paused = "absent" => rows = Absent
    /\ file \in Value \cup {NoFile}
    /\ job \in [Thread -> Job]
    /\ serving \in BOOLEAN
    /\ sets \in 0..MaxSets /\ faults \in 0..MaxFaults
    /\ blind \subseteq Thread

\* Whoever asks for the switch while it is not being changed and the database
\* answers is told what its first row says, however the rows disagree after a
\* change that was cut short (_normalized_state).
AnswersCurrent ==
    \A t \in Thread \ blind :
        job[t].at \in {"mend", "sync", "loaded"} => job[t].value.mode = rows.paused

\* A pause that has reached the first row is taken back by a resume, by a thread
\* that read the switch before the pause or fell back on the file, or by the start
\* when the stored reason is "startup_transaction_switch_off"; no later reader's
\* mending, no restart and no other start-up default takes it back
\* (disable_cow_submission_for_startup: "without overwriting an existing user
\* choice").
PauseHolds ==
    [][rows.paused = "paused" /\ rows'.paused # "paused" =>
         \E t \in Thread :
             /\ WriteRow(t)
             /\ \/ At(t, "save") /\ job[t].op = "resume"
                \/ At(t, "save") /\ job[t].op = "init" /\ rows.startup
                \/ t \in blind]_vars

\* When no more changes, failures and crashes come, the rows agree in the end
\* and the file says what they say, whatever the threads that overlapped left.
Converges == <>[](Coherent(rows) /\ file = Normal(rows))
=============================================================================
