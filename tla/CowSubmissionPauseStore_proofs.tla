-------------------- MODULE CowSubmissionPauseStore_proofs --------------------
(***************************************************************************)
(* Proofs about CowSubmissionPauseStore for any threads and bounds.        *)
(*                                                                         *)
(* Held says where the value of a thread that is not blind comes from: it  *)
(* was found in the rows and the rows still say so.  Aimed says what a     *)
(* thread that saves is going to write.  StartInv says that the start is   *)
(* alone, so that the reason it found in the rows is the one still stored, *)
(* and that it sets the switch only when it is blind, that is when the     *)
(* rows did not answer, or when that reason is the one it does not         *)
(* respect.                                                                *)
(***************************************************************************)
EXTENDS CowSubmissionPauseStore, TLAPS

Held(t) ==
    job[t].at \in {"mend", "migrate", "sync", "loaded"} /\ t \notin blind =>
        /\ ~At(t, "migrate")
        /\ Starting(t) => job[t].found
        /\ job[t].value.mode = rows.paused

Aimed(t) ==
    /\ At(t, "save") =>
        /\ job[t].op \in {"pause", "resume", "init"}
        /\ job[t].op = "pause" => job[t].value.mode = "paused"
    /\ job[t].row > 1 => rows.paused # "absent"

Core == TypeOK /\ \A t \in Thread : Held(t) /\ Aimed(t)

Alone ==
    \A t \in Thread :
        /\ job[t].op \in {"boot", "init"} => t = Main
        /\ IF serving THEN t = Main => job[t] = Rest ELSE t # Main => job[t] = Rest

Reason ==
    Main \notin blind =>
        /\ job[Main].op \in {"boot", "init"} /\ job[Main].at \in {"mend", "sync", "loaded"} =>
              job[Main].value.startup = rows.startup
        /\ job[Main].op = "init" =>
              rows.startup \/ (At(Main, "save") /\ job[Main].row > 3) \/ At(Main, "publish")

IInv == Core /\ Alone /\ Reason

\* The types of the parts, for a proof that leaves TypeOK closed.
LEMMA TypeParts ==
    ASSUME TypeOK
    PROVE  /\ rows \in [paused : Mode \cup {"absent"}, enabled : Mode \cup {"absent"},
                        startup : BOOLEAN, chosen : BOOLEAN]
           /\ rows.paused = "absent" => rows = Absent
           /\ file \in Value \cup {NoFile}
           /\ job \in [Thread -> Job]
           /\ serving \in BOOLEAN
           /\ sets \in 0..MaxSets
           /\ faults \in 0..MaxFaults
           /\ blind \subseteq Thread
BY DEF TypeOK

LEMMA FileReadsValues ==
    ASSUME TypeOK
    PROVE  FileReads \subseteq Value
<1>1. Untouched \in Value
  BY DEF Untouched, Value, Mode
<1>2. file # NoFile => file \in Value
  BY DEF TypeOK
<1>. QED
  BY <1>1, <1>2 DEF FileReads

LEMMA RowFacts == 1 \in Row /\ \A n \in Row : n < 4 => n + 1 \in Row
BY DEF Row

LEMMA AskedFacts ==
    /\ Rest \in Job
    /\ \A o \in {"read", "pause", "resume", "boot", "init"} : Asked(o) \in Job
<1>1. Untouched \in Value
  BY DEF Untouched, Value, Mode
<1>2. Rest \in Job
  BY <1>1, RowFacts DEF Rest, Job
<1>3. ASSUME NEW o \in {"read", "pause", "resume", "boot", "init"}
      PROVE  Asked(o) \in Job
  BY <1>2 DEF Asked, Job
<1>. QED
  BY <1>2, <1>3

\* The counts keep their bounds.
LEMMA FaultCount ==
    ASSUME TypeOK, Fault
    PROVE  sets' \in 0..MaxSets /\ faults' \in 0..MaxFaults
BY BoundAssumption DEF TypeOK, Fault

\* A step on one thread's job, the rows kept: the others hold what they held.
LEMMA OthersKept ==
    ASSUME Core, NEW t \in Thread, rows' = rows,
           \A u \in Thread \ {t} : job'[u] = job[u] /\ (u \in blind => u \in blind')
    PROVE  \A u \in Thread \ {t} : Held(u)' /\ Aimed(u)'
BY DEF Core, Held, Aimed, At, Starting

-----------------------------------------------------------------------------
(* One lemma per action. *)

LEMMA BeginInv ==
    ASSUME Core, NEW t \in Thread, NEW o \in {"read", "pause", "resume"}, Begin(t, o),
           sets' \in 0..MaxSets
    PROVE  Core'
<1>0. TypeOK /\ job \in [Thread -> Job] /\ Asked(o) \in Job
  BY TypeParts, AskedFacts DEF Core
<1>1. TypeOK'
  BY <1>0, TypeParts DEF Begin, TypeOK
<1>2. \A u \in Thread \ {t} : Held(u)' /\ Aimed(u)'
  <2>1. /\ rows' = rows
        /\ \A u \in Thread \ {t} : job'[u] = job[u] /\ (u \in blind => u \in blind')
    BY <1>0 DEF Begin
  <2>. QED
    BY <2>1, OthersKept
<1>3. Held(t)' /\ Aimed(t)'
  BY <1>0 DEF Begin, Asked, Rest, Held, Aimed, At
<1>. QED
  BY <1>1, <1>2, <1>3 DEF Core

LEMMA ScanInv ==
    ASSUME Core, NEW t \in Thread, Scan(t)
    PROVE  Core'
<1>0. TypeOK /\ job \in [Thread -> Job]
  BY TypeParts DEF Core
<1>1. rows.paused # "absent" => Normal(rows) \in Value
  BY <1>0, TypeParts DEF Normal, Value
<1>2. TypeOK'
  <2>1. job' \in [Thread -> Job]
    BY <1>0, <1>1 DEF Scan, Job, Starting
  <2>. QED
    BY <1>0, <2>1, TypeParts DEF Scan, TypeOK, counters
<1>3. \A u \in Thread \ {t} : Held(u)' /\ Aimed(u)'
  <2>1. /\ rows' = rows
        /\ \A u \in Thread \ {t} : job'[u] = job[u] /\ (u \in blind => u \in blind')
    BY <1>0 DEF Scan
  <2>. QED
    BY <2>1, OthersKept
<1>4. Held(t)' /\ Aimed(t)'
  <2>1. Aimed(t) /\ job[t] \in Job
    BY <1>0 DEF Core
  <2>2. CASE rows.paused = "absent"
    BY <1>0, <2>1, <2>2 DEF Scan, Held, Aimed, At, Job
  <2>3. CASE rows.paused # "absent"
    BY <1>0, <2>1, <2>3 DEF Scan, Held, Aimed, At, Job, Normal, Starting
  <2>. QED
    BY <2>2, <2>3
<1>. QED
  BY <1>2, <1>3, <1>4 DEF Core

LEMMA EmptyInv ==
    ASSUME Core, NEW t \in Thread, Empty(t)
    PROVE  Core'
<1>0. TypeOK /\ job \in [Thread -> Job] /\ FileReads \subseteq Value
  BY TypeParts, FileReadsValues DEF Core
<1>1. PICK v \in Value :
        job' = [job EXCEPT ![t].at = "migrate", ![t].value = v,
                           ![t].found = Starting(t) /\ file # NoFile]
  BY <1>0 DEF Empty
<1>2. TypeOK'
  <2>1. job' \in [Thread -> Job]
    <3>1. /\ job[t] \in Job
          /\ (Starting(t) /\ file # NoFile) \in BOOLEAN
      BY <1>0
    <3>2. [[[job[t] EXCEPT !.at = "migrate"] EXCEPT !.value = v] EXCEPT !.found = Starting(t) /\ file # NoFile]
            \in Job
      BY <3>1 DEF Job
    <3>. QED
      BY <1>0, <1>1, <3>2
  <2>. QED
    BY <1>0, <2>1, TypeParts DEF Empty, TypeOK, counters
<1>3. \A u \in Thread \ {t} : Held(u)' /\ Aimed(u)'
  <2>1. /\ rows' = rows
        /\ \A u \in Thread \ {t} : job'[u] = job[u] /\ (u \in blind => u \in blind')
    BY <1>0, <1>1 DEF Empty
  <2>. QED
    BY <2>1, OthersKept
<1>4. Held(t)' /\ Aimed(t)'
  <2>1. Aimed(t) /\ job[t] \in Job /\ t \in blind' /\ rows' = rows
    BY <1>0 DEF Core, Empty
  <2>. QED
    BY <1>0, <1>1, <2>1 DEF Held, Aimed, At, Job
<1>. QED
  BY <1>2, <1>3, <1>4 DEF Core

\* Falling back leaves the thread loaded and blind.
LEMMA FallBackInv ==
    ASSUME Core, NEW t \in Thread, FallBack(t), Fault, UNCHANGED <<rows, file, serving>>
    PROVE  Core'
<1>0. TypeOK /\ job \in [Thread -> Job] /\ FileReads \subseteq Value
  BY TypeParts, FileReadsValues DEF Core
<1>1. PICK v \in Value :
        job' = [job EXCEPT ![t].at = "loaded", ![t].row = 1, ![t].value = v, ![t].found = FALSE]
  BY <1>0 DEF FallBack
<1>2. TypeOK'
  <2>1. job' \in [Thread -> Job]
    <3>1. job[t] \in Job
      BY <1>0
    <3>2. [job[t] EXCEPT !.at = "loaded", !.row = 1, !.value = v, !.found = FALSE] \in Job
      BY <3>1, RowFacts DEF Job
    <3>. QED
      BY <1>0, <1>1, <3>2
  <2>2. blind' \subseteq Thread
    BY <1>0, TypeParts DEF FallBack
  <2>. QED
    BY <1>0, <2>1, <2>2, TypeParts, FaultCount DEF TypeOK
<1>3. \A u \in Thread \ {t} : Held(u)' /\ Aimed(u)'
  <2>1. /\ rows' = rows
        /\ \A u \in Thread \ {t} : job'[u] = job[u] /\ (u \in blind => u \in blind')
    BY <1>0, <1>1 DEF FallBack
  <2>. QED
    BY <2>1, OthersKept
<1>4. Held(t)' /\ Aimed(t)'
  BY <1>0, <1>1 DEF FallBack, Held, Aimed, At, Job
<1>. QED
  BY <1>2, <1>3, <1>4 DEF Core

LEMMA WriteRowInv ==
    ASSUME Core, NEW t \in Thread, WriteRow(t)
    PROVE  Core'
<1>0. /\ TypeOK /\ job \in [Thread -> Job] /\ job[t] \in Job
      /\ rows \in [paused : Mode \cup {"absent"}, enabled : Mode \cup {"absent"},
                   startup : BOOLEAN, chosen : BOOLEAN]
      /\ rows.paused = "absent" => rows = Absent
      /\ blind \subseteq Thread
  BY TypeParts DEF Core
<1>1. /\ job[t].row \in 1..4 /\ job[t].value.mode \in Mode
      /\ job[t].value.startup \in BOOLEAN /\ job[t].value.chosen \in BOOLEAN
      /\ job[t].row > 1 => rows.paused # "absent"
  BY <1>0 DEF Core, Aimed, Job, Value, Row
<1>2. /\ rows' \in [paused : Mode \cup {"absent"}, enabled : Mode \cup {"absent"},
                    startup : BOOLEAN, chosen : BOOLEAN]
      /\ rows'.paused = IF job[t].row = 1 THEN job[t].value.mode ELSE rows.paused
  <2>1. CASE job[t].row = 1
    BY <1>0, <1>1, <2>1 DEF WriteRow, Written
  <2>2. CASE job[t].row = 2
    BY <1>0, <1>1, <2>2 DEF WriteRow, Written
  <2>3. CASE job[t].row = 3
    BY <1>0, <1>1, <2>3 DEF WriteRow, Written
  <2>4. CASE job[t].row = 4
    BY <1>0, <1>1, <2>4 DEF WriteRow, Written
  <2>. QED
    BY <1>1, <2>1, <2>2, <2>3, <2>4
<1>3. rows'.paused # "absent"
  BY <1>1, <1>2 DEF Mode
<1>4. /\ \A u \in Thread \ {t} : job'[u] = job[u]
      /\ job'[t].op = job[t].op /\ job'[t].value = job[t].value /\ job'[t].found = job[t].found
      /\ job'[t].at = job[t].at \/ (job'[t].at = "sync" /\ ~At(t, "save"))
           \/ job'[t].at = "publish"
      /\ job'[t].row \in Row
      /\ job' \in [Thread -> Job]
  <2>1. CASE job[t].row < 4
    BY <1>0, <1>1, <2>1, RowFacts DEF WriteRow, Job
  <2>2. CASE ~(job[t].row < 4)
    <3>1. job' = [job EXCEPT ![t].row = 1, ![t].at = FileNext(t)]
      BY <2>2 DEF WriteRow
    <3>2. FileNext(t) \in {"sync", "publish"} /\ (FileNext(t) = "sync" => ~At(t, "save"))
      BY DEF FileNext
    <3>. QED
      BY <1>0, <3>1, <3>2, RowFacts DEF Job
  <2>. QED
    BY <2>1, <2>2
<1>5. TypeOK'
  <2>1. blind' \subseteq Thread
    BY <1>0 DEF WriteRow, Holding
  <2>. QED
    BY <1>0, <1>2, <1>3, <1>4, <2>1, TypeParts DEF WriteRow, TypeOK, counters
<1>6. blind \subseteq blind'
  BY DEF WriteRow
<1>7. ASSUME NEW u \in Thread \ {t}
      PROVE  Held(u)' /\ Aimed(u)'
  <2>1. Held(u) /\ Aimed(u) /\ job'[u] = job[u]
    BY <1>4, <1>7 DEF Core
  <2>2. CASE rows'.paused = rows.paused
    BY <1>3, <1>6, <2>1, <2>2 DEF Held, Aimed, At, Starting
  <2>3. CASE rows'.paused # rows.paused
    <3>1. u \in Holding => u \in blind'
      BY <1>7, <2>3 DEF WriteRow
    <3>. QED
      BY <1>3, <1>6, <2>1, <3>1 DEF Held, Aimed, At, Holding, Starting
  <2>. QED
    BY <2>2, <2>3
<1>8. Held(t)' /\ Aimed(t)'
  <2>1. Held(t) /\ Aimed(t) /\ Writing(t)
    BY DEF Core, WriteRow
  <2>2. Aimed(t)'
    BY <1>3, <1>4, <1>6, <2>1 DEF Aimed, At
  <2>3. Held(t)'
    BY <1>2, <1>4, <1>6, <2>1 DEF Held, At, Writing, Starting
  <2>. QED
    BY <2>2, <2>3
<1>. QED
  BY <1>5, <1>7, <1>8 DEF Core

LEMMA WriteFailsInv ==
    ASSUME Core, NEW t \in Thread, WriteFails(t)
    PROVE  Core'
<1>0. TypeOK /\ job \in [Thread -> Job] /\ job[t] \in Job
  BY TypeParts DEF Core
<1>1. CASE At(t, "migrate")
  BY <1>1, FallBackInv DEF WriteFails
<1>2. CASE ~At(t, "migrate")
  <2>1. /\ job' = [job EXCEPT ![t].row = 1, ![t].at = FileNext(t)]
        /\ blind' = blind /\ rows' = rows /\ file' = file /\ serving' = serving
        /\ Fault /\ Writing(t)
    BY <1>2 DEF WriteFails
  <2>2. TypeOK'
    <3>1. job' \in [Thread -> Job]
      <4>1. FileNext(t) \in {"sync", "publish"}
        BY DEF FileNext
      <4>. QED
        BY <1>0, <2>1, <4>1, RowFacts DEF Job
    <3>. QED
      BY <1>0, <2>1, <3>1, TypeParts, FaultCount DEF TypeOK
  <2>3. \A u \in Thread \ {t} : Held(u)' /\ Aimed(u)'
    <3>1. \A u \in Thread \ {t} : job'[u] = job[u] /\ (u \in blind => u \in blind')
      BY <1>0, <2>1
    <3>. QED
      BY <2>1, <3>1, OthersKept
  <2>4. Held(t)' /\ Aimed(t)'
    <3>1. Held(t) /\ Aimed(t)
      BY DEF Core
    <3>. QED
      BY <1>0, <1>2, <2>1, <3>1 DEF Held, Aimed, At, Job, FileNext, Writing, Starting
  <2>. QED
    BY <2>2, <2>3, <2>4 DEF Core
<1>. QED
  BY <1>1, <1>2

\* After the file: to rest, or to what becomes of the switch.
LEMMA AfterFileInv ==
    ASSUME Core, NEW t \in Thread, AfterFile(t), job[t].at \in {"sync", "publish"},
           rows' = rows, file' \in Value \cup {NoFile},
           sets' \in 0..MaxSets, faults' \in 0..MaxFaults
    PROVE  Core'
<1>0. TypeOK /\ job \in [Thread -> Job] /\ job[t] \in Job /\ Rest \in Job
  BY TypeParts, AskedFacts DEF Core
<1>1. /\ \A u \in Thread \ {t} : job'[u] = job[u] /\ (u \in blind => u \in blind')
      /\ serving' \in BOOLEAN /\ blind' \subseteq Thread
      /\ job' \in [Thread -> Job]
  <2>1. CASE At(t, "publish")
    BY <1>0, <2>1, TypeParts DEF AfterFile, Answer
  <2>2. CASE ~At(t, "publish")
    BY <1>0, <2>2, TypeParts DEF AfterFile, Job
  <2>. QED
    BY <2>1, <2>2
<1>2. TypeOK'
  BY <1>0, <1>1, TypeParts DEF TypeOK
<1>3. \A u \in Thread \ {t} : Held(u)' /\ Aimed(u)'
  BY <1>1, OthersKept
<1>4. Held(t)' /\ Aimed(t)'
  <2>0. Held(t) /\ Aimed(t)
    BY DEF Core
  <2>1. CASE At(t, "publish")
    BY <1>0, <2>1 DEF AfterFile, Answer, Rest, Held, Aimed, At
  <2>2. CASE ~At(t, "publish")
    BY <1>0, <2>0, <2>2 DEF AfterFile, Held, Aimed, At, Job, Starting
  <2>. QED
    BY <2>1, <2>2
<1>. QED
  BY <1>2, <1>3, <1>4 DEF Core

LEMMA FileInv ==
    ASSUME Core, NEW t \in Thread, WriteFile(t) \/ WriteFileFails(t)
    PROVE  Core'
<1>0. TypeOK /\ job[t] \in Job
  BY TypeParts DEF Core
<1>1. CASE WriteFile(t)
  BY <1>0, <1>1, TypeParts, AfterFileInv DEF WriteFile, counters, Job
<1>2. CASE WriteFileFails(t)
  BY <1>0, <1>2, TypeParts, FaultCount, AfterFileInv DEF WriteFileFails
<1>. QED
  BY <1>1, <1>2

LEMMA LoadedInv ==
    ASSUME Core, NEW t \in Thread, Loaded(t)
    PROVE  Core'
<1>0. /\ TypeOK /\ job \in [Thread -> Job] /\ job[t] \in Job
      /\ Rest \in Job /\ Asked("init") \in Job
  BY TypeParts, AskedFacts DEF Core
<1>1. At(t, "loaded") /\ Held(t) /\ Aimed(t) /\ rows' = rows
  BY DEF Loaded, Core
<1>2. \/ Answer(t)
      \/ /\ job' = [job EXCEPT ![t] = Asked("init")]
         /\ serving' = serving /\ blind' = blind
      \/ /\ job[t].op \in {"pause", "resume", "init"}
         /\ \E v \in Aims(job[t].op) : job' = [job EXCEPT ![t].at = "save", ![t].value = v]
         /\ serving' = serving /\ blind' = blind
  BY DEF Loaded
<1>3. CASE Answer(t)
  <2>1. /\ \A u \in Thread \ {t} : job'[u] = job[u] /\ (u \in blind => u \in blind')
        /\ serving' \in BOOLEAN /\ blind' \subseteq Thread /\ job' \in [Thread -> Job]
    BY <1>0, <1>3, TypeParts DEF Answer
  <2>2. TypeOK'
    BY <1>0, <2>1, TypeParts DEF Loaded, TypeOK, counters
  <2>3. Held(t)' /\ Aimed(t)'
    BY <1>0, <1>3 DEF Answer, Rest, Held, Aimed, At
  <2>. QED
    BY <1>1, <2>1, <2>2, <2>3, OthersKept DEF Core
<1>4. CASE /\ job' = [job EXCEPT ![t] = Asked("init")]
           /\ serving' = serving /\ blind' = blind
  <2>1. /\ \A u \in Thread \ {t} : job'[u] = job[u] /\ (u \in blind => u \in blind')
        /\ job' \in [Thread -> Job]
    BY <1>0, <1>4
  <2>2. TypeOK'
    BY <1>0, <1>4, <2>1, TypeParts DEF Loaded, TypeOK, counters
  <2>3. Held(t)' /\ Aimed(t)'
    BY <1>0, <1>4 DEF Asked, Rest, Held, Aimed, At
  <2>. QED
    BY <1>1, <2>1, <2>2, <2>3, OthersKept DEF Core
<1>5. ASSUME NEW v \in Aims(job[t].op), job[t].op \in {"pause", "resume", "init"},
             job' = [job EXCEPT ![t].at = "save", ![t].value = v],
             serving' = serving, blind' = blind
      PROVE  Core'
  <2>0. v \in Value /\ (job[t].op = "pause" => v.mode = "paused")
    BY <1>5 DEF Aims, Value, Mode
  <2>1. /\ \A u \in Thread \ {t} : job'[u] = job[u] /\ (u \in blind => u \in blind')
        /\ job' \in [Thread -> Job]
    BY <1>0, <1>5, <2>0 DEF Job
  <2>2. TypeOK'
    BY <1>0, <1>5, <2>1, TypeParts DEF Loaded, TypeOK, counters
  <2>3. Held(t)' /\ Aimed(t)'
    BY <1>0, <1>1, <1>5, <2>0 DEF Held, Aimed, At, Job
  <2>. QED
    BY <1>1, <2>1, <2>2, <2>3, OthersKept DEF Core
<1>. QED
  BY <1>2, <1>3, <1>4, <1>5

LEMMA CrashInv ==
    ASSUME Core, Crash
    PROVE  Core'
<1>0. TypeOK /\ Rest \in Job /\ Asked("boot") \in Job
  BY TypeParts, AskedFacts DEF Core
<1>1. TypeOK'
  <2>1. job' \in [Thread -> Job]
    BY <1>0 DEF Crash
  <2>2. file' \in Value \cup {NoFile}
    <3>1. Untouched \in Value
      BY DEF Untouched, Value, Mode
    <3>. QED
      BY <1>0, <3>1, TypeParts DEF Crash
  <2>. QED
    BY <1>0, <2>1, <2>2, TypeParts, FaultCount DEF Crash, TypeOK
<1>2. ASSUME NEW t \in Thread
      PROVE  Held(t)' /\ Aimed(t)'
  BY DEF Crash, Asked, Rest, Held, Aimed, At
<1>. QED
  BY <1>1, <1>2 DEF Core

LEMMA CoreInit ==
    ASSUME Init
    PROVE  Core
<1>1. Rest \in Job /\ Asked("boot") \in Job
  BY AskedFacts
<1>2. TypeOK
  <2>1. Absent \in [paused : Mode \cup {"absent"}, enabled : Mode \cup {"absent"},
                    startup : BOOLEAN, chosen : BOOLEAN]
    BY DEF Absent
  <2>2. job \in [Thread -> Job]
    BY <1>1 DEF Init
  <2>3. 0 \in 0..MaxSets /\ 0 \in 0..MaxFaults
    BY BoundAssumption
  <2>. QED
    BY <2>1, <2>2, <2>3, FileAssumption DEF Init, TypeOK
<1>3. ASSUME NEW t \in Thread
      PROVE  Held(t) /\ Aimed(t)
  BY DEF Init, Asked, Rest, Held, Aimed, At
<1>. QED
  BY <1>2, <1>3 DEF Core

LEMMA CoreNext ==
    ASSUME Core, [Next]_vars
    PROVE  Core'
<1>0. TypeOK
  BY DEF Core
<1>1. ASSUME NEW t \in Thread, Read(t)
      PROVE  Core'
  BY <1>0, <1>1, TypeParts, BeginInv DEF Read
<1>2. ASSUME NEW t \in Thread, NEW o \in {"pause", "resume"}, Set(t, o)
      PROVE  Core'
  <2>1. sets' \in 0..MaxSets
    BY <1>0, <1>2, BoundAssumption, TypeParts DEF Set
  <2>. QED
    BY <1>2, <2>1, BeginInv DEF Set
<1>3. ASSUME NEW t \in Thread, Step(t) \/ WriteFileFails(t)
      PROVE  Core'
  BY <1>3, ScanInv, EmptyInv, WriteRowInv, FileInv, LoadedInv DEF Step
<1>4. ASSUME NEW t \in Thread, ScanFails(t)
      PROVE  Core'
  BY <1>4, FallBackInv DEF ScanFails
<1>5. CASE UNCHANGED vars
  BY <1>0, <1>5 DEF vars, Core, TypeOK, Held, Aimed, At, Starting
<1>. QED
  BY <1>1, <1>2, <1>3, <1>4, <1>5, WriteFailsInv, CrashInv DEF Next, Thread

-----------------------------------------------------------------------------
(* The start. *)

Work(t) == Step(t) \/ ScanFails(t) \/ WriteFails(t) \/ WriteFileFails(t)

\* What a thread at work does to the threads.
LEMMA WorkFacts ==
    ASSUME TypeOK, NEW t \in Thread, Work(t)
    PROVE  /\ ~At(t, "idle")
           /\ \A u \in Thread \ {t} : job'[u] = job[u]
           /\ \/ /\ serving' = serving
                 /\ job'[t].op = job[t].op \/ (job[t].op = "boot" /\ job'[t].op = "init")
              \/ job'[t] = Rest /\ serving' = (serving \/ t = Main)
<1>0. job \in [Thread -> Job] /\ job[t] \in Job
  BY TypeParts
<1>1. CASE Scan(t)
  BY <1>0, <1>1 DEF Scan, At, Job
<1>2. CASE Empty(t)
  BY <1>0, <1>2 DEF Empty, At, Job
<1>3. CASE WriteRow(t)
  BY <1>0, <1>3 DEF WriteRow, Writing, At, Job
<1>4. CASE WriteFile(t) \/ WriteFileFails(t)
  <2>1. CASE At(t, "publish")
    BY <1>0, <1>4, <2>1 DEF WriteFile, WriteFileFails, AfterFile, Answer, At
  <2>2. CASE ~At(t, "publish")
    BY <1>0, <1>4, <2>2 DEF WriteFile, WriteFileFails, AfterFile, At, Job
  <2>. QED
    BY <2>1, <2>2
<1>5. CASE Loaded(t)
  <2>1. At(t, "loaded")
    BY <1>5 DEF Loaded
  <2>2. CASE Answer(t)
    BY <1>0, <2>1, <2>2 DEF Answer, At
  <2>3. CASE /\ job[t].op = "boot" /\ job' = [job EXCEPT ![t] = Asked("init")]
             /\ serving' = serving
    BY <1>0, <2>1, <2>3 DEF Asked, Rest, At
  <2>4. ASSUME NEW v \in Aims(job[t].op), serving' = serving,
               job' = [job EXCEPT ![t].at = "save", ![t].value = v]
        PROVE  /\ \A u \in Thread \ {t} : job'[u] = job[u]
               /\ job'[t].op = job[t].op
    BY <1>0, <2>4 DEF Job
  <2>. QED
    BY <1>5, <2>1, <2>2, <2>3, <2>4 DEF Loaded, At
<1>6. CASE ScanFails(t)
  BY <1>0, <1>6 DEF ScanFails, FallBack, At, Job
<1>7. CASE WriteFails(t)
  <2>1. CASE At(t, "migrate")
    <3>1. PICK v \in FileReads :
            job' = [job EXCEPT ![t].at = "loaded", ![t].row = 1, ![t].value = v, ![t].found = FALSE]
      BY <1>7, <2>1 DEF WriteFails, FallBack
    <3>2. job[t].op = job'[t].op /\ \A u \in Thread \ {t} : job'[u] = job[u]
      BY <1>0, <3>1 DEF Job
    <3>. QED
      BY <1>7, <2>1, <3>2 DEF WriteFails, At
  <2>2. CASE ~At(t, "migrate")
    <3>1. job' = [job EXCEPT ![t].row = 1, ![t].at = FileNext(t)] /\ serving' = serving
      BY <1>7, <2>2 DEF WriteFails
    <3>. QED
      BY <1>0, <1>7, <3>1 DEF WriteFails, Writing, At, Job
  <2>. QED
    BY <2>1, <2>2
<1>. QED
  BY <1>1, <1>2, <1>3, <1>4, <1>5, <1>6, <1>7 DEF Work, Step

\* A step is a request, the work of a thread or a crash; before requests are served
\* it is the work of the start or a crash.
LEMMA StartCases ==
    ASSUME Core, Alone, Next
    PROVE  \/ \E t \in Thread \ {Main}, o \in {"read", "pause", "resume"} : Begin(t, o)
           \/ \E t \in Thread : Work(t) /\ (serving <=> t # Main)
           \/ Crash
<1>1. ASSUME NEW t \in Thread, Work(t)
      PROVE  serving <=> t # Main
  <2>1. ~At(t, "idle")
    BY <1>1, WorkFacts DEF Core
  <2>2. job[t] # Rest
    BY <2>1 DEF At, Rest
  <2>. QED
    BY <2>2 DEF Alone
<1>2. Setter \subseteq Thread \ {Main} /\ Reader \subseteq Thread \ {Main}
  BY ThreadAssumption DEF Thread
<1>. QED
  BY <1>1, <1>2 DEF Next, Read, Set, Work

LEMMA AloneKept ==
    ASSUME Core, Alone, Next
    PROVE  Alone'
<1>0. TypeOK /\ job \in [Thread -> Job] /\ Main \in Thread
  BY TypeParts DEF Core, Thread
<1>1. ASSUME NEW t \in Thread \ {Main}, NEW o \in {"read", "pause", "resume"}, Begin(t, o)
      PROVE  Alone'
  <2>1. /\ serving /\ serving' = serving
        /\ job'[t].op = o /\ \A u \in Thread \ {t} : job'[u] = job[u]
    BY <1>0, <1>1 DEF Begin, Asked, Rest
  <2>. QED
    BY <1>1, <2>1 DEF Alone
<1>2. ASSUME NEW t \in Thread, Work(t), serving <=> t # Main
      PROVE  Alone'
  <2>1. /\ \A u \in Thread \ {t} : job'[u] = job[u]
        /\ \/ /\ serving' = serving
              /\ job'[t].op = job[t].op \/ (job[t].op = "boot" /\ job'[t].op = "init")
           \/ job'[t] = Rest /\ serving' = (serving \/ t = Main)
    BY <1>0, <1>2, WorkFacts
  <2>2. job'[t].op \in {"boot", "init"} => t = Main
    <3>1. Rest.op = "none"
      BY DEF Rest
    <3>. QED
      BY <2>1, <3>1 DEF Alone
  <2>3. CASE t = Main
    BY <1>2, <2>1, <2>2, <2>3 DEF Alone
  <2>4. CASE t # Main
    <3>1. serving /\ serving' /\ job'[Main] = job[Main] /\ job[Main] = Rest
      <4>1. serving = TRUE
        BY <1>0, <1>2, <2>4, TypeParts
      <4>2. serving' = TRUE /\ job'[Main] = job[Main]
        BY <1>0, <2>1, <2>4, <4>1
      <4>3. job[Main] = Rest
        BY <1>0, <4>1 DEF Alone
      <4>. QED
        BY <4>1, <4>2, <4>3
    <3>2. \A u \in Thread : job'[u].op \in {"boot", "init"} => u = Main
      <4>1. ASSUME NEW u \in Thread \ {t}
            PROVE  job'[u].op \in {"boot", "init"} => u = Main
        BY <2>1, <4>1 DEF Alone
      <4>. QED
        BY <2>2, <4>1
    <3>. QED
      BY <3>1, <3>2 DEF Alone
  <2>. QED
    BY <2>3, <2>4
<1>3. CASE Crash
  <2>1. Rest.op = "none"
    BY DEF Rest
  <2>. QED
    BY <1>3, <2>1 DEF Crash, Alone
<1>. QED
  BY <1>1, <1>2, <1>3, StartCases

LEMMA ReasonKept ==
    ASSUME Core, Alone, Reason, Next
    PROVE  Reason'
<1>0. /\ TypeOK /\ job \in [Thread -> Job] /\ Main \in Thread /\ job[Main] \in Job
      /\ Held(Main)
  BY TypeParts DEF Core, Thread
<1>1. CASE serving'
  <2>1. job'[Main] = Rest
    BY <1>0, <1>1, AloneKept DEF Alone
  <2>. QED
    BY <2>1 DEF Reason, Rest
<1>2. CASE Crash
  BY <1>0, <1>2 DEF Crash, Asked, Rest, Reason, At
<1>3. ASSUME Work(Main), ~serving'
      PROVE  Reason'
  <2>1. CASE Scan(Main)
    <3>1. job[Main].at = "scan" /\ rows' = rows
      BY <2>1 DEF Scan, At
    <3>2. CASE rows.paused = "absent"
      BY <1>0, <2>1, <3>1, <3>2 DEF Scan, Reason, At, Job
    <3>3. CASE rows.paused # "absent"
      <4>1. /\ job'[Main].op = job[Main].op /\ job'[Main].at \in {"sync", "mend"}
            /\ job'[Main].value.startup = rows.startup
        BY <1>0, <2>1, <3>3 DEF Scan, Normal, Job
      <4>2. job[Main].op = "init" => blind' = blind
        BY <2>1 DEF Scan
      <4>. QED
        BY <3>1, <4>1, <4>2 DEF Reason, At
    <3>. QED
      BY <3>2, <3>3
  <2>2. CASE Empty(Main) \/ ScanFails(Main) \/ (WriteFails(Main) /\ At(Main, "migrate"))
    BY <2>2 DEF Empty, ScanFails, WriteFails, FallBack, Reason
  <2>3. CASE WriteRow(Main)
    <3>. SUFFICES ASSUME Main \notin blind'
                  PROVE  Reason'
      BY DEF Reason
    <3>0. /\ Main \notin blind /\ Writing(Main) /\ ~At(Main, "migrate")
          /\ rows' = Written(rows, job[Main].row, job[Main].value)
          /\ rows.startup \in BOOLEAN /\ job[Main].row \in 1..4
      BY <1>0, <2>3, TypeParts DEF WriteRow, Held, At, Job, Row
    <3>1. rows'.startup = IF job[Main].row = 3 THEN job[Main].value.startup ELSE rows.startup
      <4>0. rows \in [paused : Mode \cup {"absent"}, enabled : Mode \cup {"absent"},
                      startup : BOOLEAN, chosen : BOOLEAN]
        BY <1>0, TypeParts
      <4>1. CASE job[Main].row = 1
        BY <3>0, <4>0, <4>1 DEF Written
      <4>2. CASE job[Main].row = 2
        BY <3>0, <4>0, <4>2 DEF Written
      <4>3. CASE job[Main].row = 3
        BY <3>0, <4>0, <4>3 DEF Written
      <4>4. CASE job[Main].row = 4
        BY <3>0, <4>0, <4>4 DEF Written
      <4>. QED
        BY <3>0, <4>1, <4>2, <4>3, <4>4
    <3>2. /\ job'[Main].op = job[Main].op /\ job'[Main].value = job[Main].value
          /\ \/ /\ job[Main].row < 4 /\ job'[Main].row = job[Main].row + 1
                /\ job'[Main].at = job[Main].at
             \/ ~(job[Main].row < 4) /\ job'[Main].at = FileNext(Main)
      <4>1. CASE job[Main].row < 4
        BY <1>0, <2>3, <4>1 DEF WriteRow, Job
      <4>2. CASE ~(job[Main].row < 4)
        BY <1>0, <2>3, <4>2 DEF WriteRow, Job
      <4>. QED
        BY <4>1, <4>2
    <3>3. CASE At(Main, "mend")
      <4>1. job'[Main].at \in {"mend", "sync"}
        BY <3>2, <3>3 DEF FileNext, At
      <4>. QED
        BY <3>0, <3>1, <3>2, <3>3, <4>1 DEF Reason, At
    <3>4. CASE At(Main, "save")
      <4>1. job'[Main].at \in {"save", "publish"}
        BY <3>2, <3>4 DEF FileNext, At
      <4>2. job[Main].op = "init" => rows.startup \/ job[Main].row > 3
        BY <3>0, <3>4 DEF Reason, At
      <4>3. CASE job[Main].row < 4
        BY <3>0, <3>1, <3>2, <3>4, <4>1, <4>2, <4>3 DEF Reason, At
      <4>4. CASE ~(job[Main].row < 4)
        BY <3>2, <3>4, <4>4 DEF Reason, At, FileNext
      <4>. QED
        BY <4>3, <4>4
    <3>. QED
      BY <3>0, <3>3, <3>4 DEF Writing, At
  <2>4. CASE WriteFails(Main) /\ ~At(Main, "migrate")
    <3>1. /\ job'[Main].op = job[Main].op /\ job'[Main].value = job[Main].value
          /\ job'[Main].at = FileNext(Main) /\ rows' = rows /\ blind' = blind
          /\ Writing(Main)
      BY <1>0, <2>4 DEF WriteFails, Job
    <3>. QED
      BY <2>4, <3>1 DEF Reason, At, FileNext, Writing
  <2>5. CASE WriteFile(Main) \/ WriteFileFails(Main)
    <3>1. AfterFile(Main) /\ rows' = rows /\ job[Main].at \in {"sync", "publish"}
      BY <2>5 DEF WriteFile, WriteFileFails
    <3>2. ~At(Main, "publish")
      BY <1>3, <3>1 DEF AfterFile, Answer
    <3>3. /\ job'[Main].op = job[Main].op /\ job'[Main].value = job[Main].value
          /\ job'[Main].at = "loaded" /\ blind' = blind
      BY <1>0, <3>1, <3>2 DEF AfterFile, Job
    <3>. QED
      BY <3>1, <3>2, <3>3 DEF Reason, At
  <2>6. CASE Loaded(Main)
    <3>1. At(Main, "loaded") /\ rows' = rows /\ ~Answer(Main)
      BY <1>3, <2>6 DEF Loaded, Answer
    <3>2. CASE /\ job[Main].op = "boot" /\ ~Settled(Main)
               /\ job' = [job EXCEPT ![Main] = Asked("init")] /\ blind' = blind
      <4>1. job'[Main].op = "init" /\ job'[Main].at = "scan"
        BY <1>0, <3>2 DEF Asked, Rest
      <4>2. Main \notin blind => job[Main].found /\ job[Main].value.startup = rows.startup
        BY <1>0, <3>1, <3>2 DEF Held, Starting, Reason, At
      <4>3. Main \notin blind => rows.startup
        BY <3>2, <4>2 DEF Settled
      <4>. QED
        BY <3>1, <3>2, <4>1, <4>3 DEF Reason
    <3>3. ASSUME NEW v \in Aims(job[Main].op), blind' = blind,
                 job' = [job EXCEPT ![Main].at = "save", ![Main].value = v]
          PROVE  Reason'
      <4>1. job'[Main].op = job[Main].op /\ job'[Main].at = "save"
        BY <1>0, <3>3 DEF Job
      <4>. QED
        BY <3>1, <3>3, <4>1 DEF Reason, At
    <3>. QED
      BY <2>6, <3>1, <3>2, <3>3 DEF Loaded
  <2>. QED
    BY <1>3, <2>1, <2>2, <2>3, <2>4, <2>5, <2>6 DEF Work, Step
<1>4. CASE ~serving' /\ ~Crash
  <2>1. ASSUME NEW t \in Thread, NEW o \in {"read", "pause", "resume"}, Begin(t, o)
        PROVE  serving'
    BY <2>1 DEF Begin
  <2>2. ASSUME NEW t \in Thread \ {Main}, Work(t), serving
        PROVE  serving'
    BY <1>0, <2>2, WorkFacts
  <2>. QED
    BY <1>3, <1>4, <2>1, <2>2, StartCases
<1>. QED
  BY <1>1, <1>2, <1>4

-----------------------------------------------------------------------------
(* The theorems. *)

LEMMA InitInv ==
    ASSUME Init
    PROVE  IInv
<1>1. Main \in Thread
  BY DEF Thread
<1>. QED
  BY <1>1, CoreInit DEF Init, IInv, Alone, Reason, Asked, Rest, At

LEMMA NextInv ==
    ASSUME IInv, [Next]_vars
    PROVE  IInv'
<1>1. CASE Next
  BY <1>1, CoreNext, AloneKept, ReasonKept DEF IInv
<1>2. CASE UNCHANGED vars
  BY <1>2, CoreNext DEF vars, IInv, Alone, Reason, At
<1>. QED
  BY <1>1, <1>2

\* The inductive invariant holds in every reachable state.
THEOREM Invariance == Spec => []IInv
<1>. QED
  BY InitInv, NextInv, PTL DEF Spec

\* Rows, file and threads keep their types, and the rows are written in order.
THEOREM TypeCorrect == Spec => []TypeOK
<1>1. IInv => TypeOK
  BY DEF IInv, Core
<1>. QED
  BY <1>1, Invariance, PTL

\* Whoever asks for the switch while it is not being changed and the database
\* answers is told what its first row says, for any number of threads.
THEOREM ReadersAreCurrent == Spec => []AnswersCurrent
<1>1. IInv => AnswersCurrent
  BY DEF IInv, Core, Held, AnswersCurrent
<1>. QED
  BY <1>1, Invariance, PTL

\* A pause is taken back by a resume, by a thread that acts on what it read before the
\* pause or on the file, or by the start when the stored reason is the one it does not
\* respect, through any number of crashes.
THEOREM PauseIsKept == Spec => PauseHolds
<1>1. ASSUME IInv, [Next]_vars
      PROVE  [rows.paused = "paused" /\ rows'.paused # "paused" =>
                \E t \in Thread :
                    /\ WriteRow(t)
                    /\ \/ At(t, "save") /\ job[t].op = "resume"
                       \/ At(t, "save") /\ job[t].op = "init" /\ rows.startup
                       \/ t \in blind]_vars
  <2>. SUFFICES ASSUME Next, rows.paused = "paused", rows'.paused # "paused"
                PROVE  \E t \in Thread :
                         /\ WriteRow(t)
                         /\ \/ At(t, "save") /\ job[t].op = "resume"
                            \/ At(t, "save") /\ job[t].op = "init" /\ rows.startup
                            \/ t \in blind
    BY <1>1
  <2>1. PICK t \in Thread : WriteRow(t)
    BY DEF Next, Read, Set, Begin, Step, Scan, Empty, WriteFile, Loaded, ScanFails,
           WriteFails, WriteFileFails, Crash
  <2>2. /\ job[t] \in Job /\ Held(t) /\ Aimed(t) /\ Alone /\ Reason
        /\ rows \in [paused : Mode \cup {"absent"}, enabled : Mode \cup {"absent"},
                     startup : BOOLEAN, chosen : BOOLEAN]
    BY <1>1, TypeParts DEF IInv, Core
  <2>3. /\ rows'.paused = job[t].value.mode
        /\ job[t].row = 1
    <3>1. CASE job[t].row = 1
      BY <2>1, <2>2, <3>1 DEF WriteRow, Written
    <3>2. CASE job[t].row = 2
      BY <2>1, <2>2, <3>2 DEF WriteRow, Written
    <3>3. CASE job[t].row = 3
      BY <2>1, <2>2, <3>3 DEF WriteRow, Written
    <3>4. CASE job[t].row = 4
      BY <2>1, <2>2, <3>4 DEF WriteRow, Written
    <3>. QED
      BY <2>2, <3>1, <3>2, <3>3, <3>4 DEF Job, Row
  <2>4. CASE At(t, "save")
    <3>1. job[t].op \in {"pause", "resume", "init"} /\ job[t].op # "pause"
      BY <2>2, <2>3, <2>4 DEF Aimed
    <3>2. job[t].op = "init" => t \in blind \/ rows.startup
      BY <2>2, <2>3, <2>4 DEF Alone, Reason, At
    <3>. QED
      BY <2>1, <2>4, <3>1, <3>2
  <2>5. CASE ~At(t, "save")
    BY <2>1, <2>2, <2>3, <2>5 DEF Held, WriteRow, Writing, At
  <2>. QED
    BY <2>4, <2>5
<1>. QED
  BY <1>1, Invariance, PTL DEF Spec, PauseHolds
=============================================================================
