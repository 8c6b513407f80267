---------------------------- MODULE ReadersProofs -----------------------------
(***************************************************************************)
(* Proofs about the logger beside the readers, and about what the readers  *)
(* say: for every history of the log, every time zone, retention and movement *)
(* of the clock, every command line, every config document and every cap.  *)
(*                                                                         *)
(*   Retention, The files      what the logger prunes, where its records lie *)
(*   The inputs of export      which files an export empties               *)
(*   Rules                     what a config document yields               *)
(*   What a reader holds,                                                  *)
(*   The pass, The window,                                                 *)
(*   The steps of the pass     that a pass covers its window               *)
(*   The rows of an export     that an export is complete                  *)
(*   Sorting ... Digits        the operators the digest is made of         *)
(*   Dropping ... Fitting      that bisecting finds what dropping one item *)
(*                             after the other would                       *)
(*   The ranking of the rows   that those with a violation are shown       *)
(*   One tick ... What a       what the aggregator and the list of the     *)
(*   report has accumulated    transitions hold after any number of samples *)
(*   The report as a whole     the invariant of report and reconcile       *)
(*   The gaps, The violations  what a digest says of the whole log         *)
(*   How long ... The verdicts that an incident is closed, and a log       *)
(*                             certified, only for a reason in the whole log *)
(***************************************************************************)
EXTENDS Readers, EngineLemmas, SequenceTheorems, FiniteSetTheorems

-----------------------------------------------------------------------------
(* Whole seconds. *)

\* A factor makes a product no smaller.
LEMMA FactorKeeps ==
  ASSUME NEW a \in Int, NEW b \in Int, a <= b, NEW c \in Nat
  PROVE  c * a \in Int /\ c * b \in Int /\ c * a <= c * b
OBVIOUS

LEMMA Distributes ==
  ASSUME NEW a \in Int, NEW b \in Int, NEW c \in Int
  PROVE  c * (a + b) = c * a + c * b /\ c * a = a * c
OBVIOUS

\* Less than a second is lost of a length.
LEMMA WholeSecondsIs ==
  ASSUME NEW n \in Int
  PROVE  /\ WholeSeconds(n) \in Int
         /\ Second * WholeSeconds(n) \in Int
         /\ Second * WholeSeconds(n) <= n
         /\ n < Second * WholeSeconds(n) + Second
         /\ n >= 0 => WholeSeconds(n) \in Nat
<1> DEFINE q == WholeSeconds(n)
           b == Second
<1>1. b \in Nat \ {0}
  BY SecondAssumption
<1>2. q \in Int /\ b * q \in Int /\ b * q <= n /\ n < b * q + b
  BY <1>1 DEF WholeSeconds
<1> HIDE DEF q, b
<1>3. ASSUME n >= 0 PROVE q >= 0
  <2> SUFFICES ASSUME q <= -1 PROVE FALSE
    BY <1>2
  <2>1. b * q <= b * (-1)
    BY <1>1, <1>2, FactorKeeps
  <2>2. b * (-1) = -b
    BY <1>1
  <2> QED BY <1>1, <1>2, <1>3, <2>1, <2>2
<1> QED BY <1>2, <1>3 DEF q, b

-----------------------------------------------------------------------------
(* Retention. *)

\* What the logger and the readers share is of the right type.
Typed ==
  /\ clock \in Int /\ retention \in Int
  /\ zones \in Int \X Int
  /\ files \subseteq Int
  /\ request \in Requests

\* A logger that tried to write has a date, and no file is open before that.
DatesAgree ==
  /\ writer = [running |-> writer.running, date |-> writer.date, open |-> writer.open]
  /\ writer.open => firstDay # NoDay /\ writer.date \in Int
  /\ firstDay # NoDay => writer.date # NoDay

PruneInv == Typed /\ DatesAgree /\ RolloverPurges

LEMMA TodayTyped == ASSUME Typed PROVE Today \in Int
BY TimeAssumption DEF Typed, Today, DayOf

\* A pruning leaves what is young enough and what could not be removed.
LEMMA CleanupPrunes ==
  ASSUME NEW today \in Int, NEW present, present \subseteq files \cup {today},
         files \subseteq Int, retention \in Int, Cleanup(today, present)
  PROVE  /\ files' \subseteq Int
         /\ \A d \in files' \ stuck' : retention > 0 => d >= today - retention
<1>1. PICK left \in {{}, Expired(today)} :
        files' = present \ (Expired(today) \ left) /\ stuck' = left
  BY DEF Cleanup
<1>2. files' \subseteq Int
  BY <1>1
<1>3. ASSUME NEW d \in files' \ stuck', retention > 0 PROVE d >= today - retention
  <2>1. d \in Int /\ d \in present /\ d \notin Expired(today)
    BY <1>1, <1>2, <1>3
  <2>2. d = today \/ ~(d < today - retention)
    BY <1>3, <2>1 DEF Expired
  <2> QED BY <1>3, <2>1, <2>2
<1> QED BY <1>2, <1>3

\* A logger that opens a file on another day than its first has had a date
\* before, and prunes.
LEMMA RotatePrunes ==
  ASSUME PruneInv, NEW sample, Rotate(sample), UNCHANGED request
  PROVE  PruneInv'
<1>1. Today \in Int
  BY TodayTyped DEF PruneInv
<1>2. /\ writer' = [running |-> writer.running, date |-> Today, open |-> TRUE]
      /\ firstDay' = First(Today)
      /\ UNCHANGED <<clock, zones, retention>>
  BY DEF Rotate, PruneInv, DatesAgree
<1>3. /\ files' \subseteq Int
      /\ RolledOver => \A d \in files' \ stuck' : retention > 0 => d >= Today - retention
  <2>1. CASE RolledOver
    <3>1. Cleanup(Today, files \cup {Today})
      BY <2>1 DEF Rotate
    <3> QED BY <1>1, <3>1, CleanupPrunes DEF PruneInv, Typed
  <2>2. CASE ~RolledOver
    BY <1>1, <2>2 DEF Rotate, PruneInv, Typed
  <2> QED BY <2>1, <2>2
<1>4. ~RolledOver => firstDay' = Today
  BY <1>2 DEF RolledOver, First, PruneInv, DatesAgree
<1>5. firstDay' # NoDay
  BY <1>1, <1>2, TimeAssumption DEF First
<1> QED BY TimeAssumption, <1>1, <1>2, <1>3, <1>4, <1>5 DEF PruneInv, Typed, DatesAgree, RolloverPurges

\* The other steps of the logger leave no file open that was not, or add none.
LEMMA LoggerPrunes ==
  ASSUME PruneInv, LoggerStep \/ Tick, UNCHANGED request
  PROVE  PruneInv'
<1>1. Today \in Int
  BY TodayTyped DEF PruneInv
<1>2. CASE StartLogger
  <2>1. files' \subseteq Int
    BY <1>1, <1>2, CleanupPrunes DEF StartLogger, PruneInv, Typed
  <2> QED BY <1>2, <2>1 DEF StartLogger, Stopped, PruneInv, Typed, DatesAgree, RolloverPurges
<1>3. CASE StopLogger
  BY <1>3 DEF StopLogger, Stopped, PruneInv, Typed, DatesAgree, RolloverPurges
<1>4. ASSUME NEW sample, Append1(sample) PROVE PruneInv'
  BY <1>4 DEF Append1, PruneInv, Typed, DatesAgree, RolloverPurges
<1>5. ASSUME NEW sample, Rotate(sample) PROVE PruneInv'
  BY <1>5, RotatePrunes
<1>6. CASE RotateFails
  BY <1>1, <1>6, TimeAssumption DEF RotateFails, First, PruneInv, Typed, DatesAgree, RolloverPurges
<1>7. CASE Tick
  BY <1>7, TimeAssumption DEF Tick, PruneInv, Typed, DatesAgree, RolloverPurges
<1> QED BY <1>2, <1>3, <1>4, <1>5, <1>6, <1>7 DEF LoggerStep

\* A file that export makes counts as one that was not there to prune.
LEMMA ExportPrunes ==
  ASSUME PruneInv, ExportStep
  PROVE  PruneInv'
<1>1. UNCHANGED <<request, clock, zones, retention, writer, firstDay>>
  BY DEF ExportStep, ExportConfig, ExportSelect, OpenOutput, Guard, Truncate, ExportReadOn,
         ExportSample, PushFails, Close, Select, ReadOn, TakeSample, UnchangedPass, writerVars
<1>2. files' \ stuck' \subseteq files \ stuck
  BY DEF ExportStep, ExportConfig, ExportSelect, OpenOutput, Guard, Truncate, ExportReadOn,
         ExportSample, PushFails, Close, writerVars
<1>3. files' \subseteq Int
  <2>1. CASE OpenOutput
    <3>1. output.link = "path" => output.day \in Int
      BY OutputsAssumption, TimeAssumption DEF output, PruneInv, Typed, Days
    <3>2. files' = files \/ (output.link = "path" /\ files' = files \cup {output.day})
      BY <2>1 DEF OpenOutput
    <3> QED BY <3>1, <3>2 DEF PruneInv, Typed
  <2>2. CASE ~OpenOutput
    BY <2>2 DEF ExportStep, ExportConfig, ExportSelect, Guard, Truncate, ExportReadOn,
         ExportSample, PushFails, Close, writerVars, PruneInv, Typed
  <2> QED BY <2>1, <2>2
<1> QED BY <1>1, <1>2, <1>3 DEF PruneInv, Typed, DatesAgree, RolloverPurges

\* Neither `report` nor `reconcile` touches what the logger keeps.
LEMMA ReadingPrunes ==
  ASSUME PruneInv, UNCHANGED writerVars, UNCHANGED request
  PROVE  PruneInv'
BY DEF writerVars, PruneInv, Typed, DatesAgree, RolloverPurges

LEMMA RequestStays == ReportStep \/ ExportStep \/ Reconcile => UNCHANGED request
BY DEF ReportStep, LoadConfig, ReportSelect, ReportReadOn, ReportSample, Emit, Reconcile,
       ExportStep, ExportConfig, ExportSelect, OpenOutput, Guard, Truncate, ExportReadOn,
       ExportSample, PushFails, Close, Select, ReadOn, TakeSample, UnchangedPass, readerVars

\* Whatever fails on the way: a logger that has rolled over leaves no file
\* older than the retention but those it could not remove.
THEOREM RolloverPrunes == Spec => []RolloverPurges
<1>1. Init => PruneInv
  BY TimeAssumption
     DEF Init, WriterInit, ReaderInit, Stopped, PruneInv, Typed, DatesAgree, RolloverPurges, Days
<1>2. ASSUME PruneInv, [Next]_vars PROVE PruneInv'
  <2>1. CASE ReportStep /\ UNCHANGED <<writerVars, exportVars, reconciled>>
    BY <1>2, <2>1, ReadingPrunes, RequestStays
  <2>2. CASE ExportStep /\ UNCHANGED <<reportVars, reconciled>>
    BY <1>2, <2>2, ExportPrunes
  <2>3. CASE Reconcile /\ UNCHANGED <<writerVars, exportVars>>
    BY <1>2, <2>3, ReadingPrunes, RequestStays
  <2>4. CASE Environment
    BY <1>2, <2>4, LoggerPrunes DEF Environment, readerVars
  <2>5. CASE UNCHANGED vars
    BY <1>2, <2>5, ReadingPrunes DEF vars, readerVars
  <2> QED BY <1>2, <2>1, <2>2, <2>3, <2>4, <2>5 DEF Next
<1>3. PruneInv => RolloverPurges
  BY DEF PruneInv
<1> QED BY <1>1, <1>2, <1>3, PTL DEF Spec

-----------------------------------------------------------------------------
(* The files. *)

\* What the files hold, and that whatever the clock may show has its file.
Stored ==
  /\ data \in [Days -> Seq(Fragments)]
  /\ files \subseteq Days
  /\ clock \in Int /\ zones[1] \in Int
  /\ request \in Requests
  /\ Today \in Days
  /\ \A instant \in Instants : DayOf(instant, zones[1]) \in Days

FilesInv == Stored /\ RecordsInTheirDay

\* A write leaves at most one fragment, of the time it was made.
LEMMA WritesTyped ==
  ASSUME NEW sample \in Polled, clock \in Int, NEW w \in Writes(sample)
  PROVE  w \in Seq(Fragments) /\ \A n \in 1..Len(w) : w[n].ts = clock
<1>1. PICK form \in {"json", "garbage"}, ends \in BOOLEAN :
        w = <<>> \/ w = <<Fragment(form, clock, sample, ends)>>
  BY DEF Writes
<1>2. Fragment(form, clock, sample, ends) \in Fragments
  BY DEF Fragment, Fragments, Forms
<1>3. Fragment(form, clock, sample, ends).ts = clock
  BY DEF Fragment
<1>4. CASE w = <<>>
  BY <1>4
<1>5. CASE w = <<Fragment(form, clock, sample, ends)>>
  <2> DEFINE f == Fragment(form, clock, sample, ends)
  <2>1. f \in Fragments /\ f.ts = clock /\ w = <<f>>
    BY <1>2, <1>3, <1>5
  <2> HIDE DEF f
  <2>2. w \in Seq(Fragments) /\ Len(w) = 1 /\ w[1] = f
    BY <2>1
  <2> QED BY <2>1, <2>2
<1> QED BY <1>1, <1>4, <1>5

\* What is appended to a file leaves what it held, under any element type.
LEMMA AppendedTo ==
  ASSUME NEW S, NEW s \in Seq(S), NEW t \in Seq(S)
  PROVE  /\ s \o t \in Seq(S)
         /\ IsPrefix(s, s \o t)
         /\ \A n \in 1..Len(s \o t) : (n <= Len(s) /\ (s \o t)[n] = s[n])
                                   \/ (n - Len(s) \in 1..Len(t) /\ (s \o t)[n] = t[n - Len(s)])
<1>1. s \o t \in Seq(S) /\ Len(s \o t) = Len(s) + Len(t) /\ Len(s) \in Nat /\ Len(t) \in Nat
  OBVIOUS
<1>2. \A n \in 1..Len(s \o t) : (n <= Len(s) /\ (s \o t)[n] = s[n])
                             \/ (n - Len(s) \in 1..Len(t) /\ (s \o t)[n] = t[n - Len(s)])
  BY <1>1
<1>3. SubSeq(s, 1, Len(s)) = SubSeq(s \o t, 1, Len(s))
  <2>1. SubSeq(s \o t, 1, Len(s)) = SubSeq(s, 1, Len(s))
    BY <1>1, SubSeqOfConcat1
  <2> QED BY <2>1
<1> QED BY <1>1, <1>2, <1>3 DEF IsPrefix

LEMMA PrefixOfItself ==
  ASSUME NEW S, NEW s \in Seq(S) PROVE IsPrefix(s, s)
BY DEF IsPrefix

\* A write of today, to a file that is there or to a new one.
LEMMA WriteKeeps ==
  ASSUME FilesInv, NEW sample \in Polled, NEW w \in Writes(sample),
         NEW found \in {data[Today], <<>>},
         data' = [data EXCEPT ![Today] = found \o w],
         files' \subseteq files \cup {Today}, UNCHANGED <<clock, zones, request>>
  PROVE  FilesInv'
<1> USE DEF FilesInv, Stored
<1>1. w \in Seq(Fragments) /\ \A n \in 1..Len(w) : w[n].ts = clock
  BY WritesTyped
<1>2. found \in Seq(Fragments) /\ \A n \in 1..Len(found) : DayOf(found[n].ts, zones[1]) = Today
  <2>1. CASE found = data[Today]
    BY <2>1 DEF RecordsInTheirDay
  <2>2. CASE found = <<>>
    BY <2>2
  <2> QED BY <2>1, <2>2
<1>3. /\ found \o w \in Seq(Fragments)
      /\ \A n \in 1..Len(found \o w) : DayOf((found \o w)[n].ts, zones[1]) = Today
  BY <1>1, <1>2, AppendedTo, SMTT(30) DEF Today
<1>4. data' \in [Days -> Seq(Fragments)] /\ data'[Today] = found \o w
      /\ \A d \in Days \ {Today} : data'[d] = data[d]
  BY <1>3
<1>5. RecordsInTheirDay'
  BY <1>3, <1>4 DEF RecordsInTheirDay
<1> QED BY <1>4, <1>5 DEF Today

LEMMA CleanupSubset ==
  ASSUME NEW today, NEW present, Cleanup(today, present) PROVE files' \subseteq present
BY DEF Cleanup

\* The logger and the clock keep every file what it is.
LEMMA LoggerFiles ==
  ASSUME FilesInv, LoggerStep \/ Tick, UNCHANGED request
  PROVE  FilesInv'
<1>1. CASE StartLogger
  BY <1>1, CleanupSubset DEF StartLogger, FilesInv, Stored, Today, RecordsInTheirDay
<1>2. CASE StopLogger \/ RotateFails
  BY <1>2 DEF StopLogger, RotateFails, FilesInv, Stored, Today, RecordsInTheirDay
<1>3. ASSUME NEW sample \in Polled, Append1(sample) PROVE FilesInv'
  <2>1. PICK w \in Writes(sample) : data' = [data EXCEPT ![Today] = @ \o w]
    BY <1>3 DEF Append1, FileIsCurrent
  <2> QED BY <1>3, <2>1, WriteKeeps DEF Append1
<1>4. ASSUME NEW sample \in Polled, Rotate(sample) PROVE FilesInv'
  <2> DEFINE found == IF Today \in files THEN data[Today] ELSE <<>>
  <2>1. PICK w \in Writes(sample) : data' = [data EXCEPT ![Today] = found \o w]
    BY <1>4 DEF Rotate
  <2>2. files' \subseteq files \cup {Today}
    BY <1>4, CleanupSubset DEF Rotate
  <2> QED BY <1>4, <2>1, <2>2, WriteKeeps DEF Rotate
<1>5. CASE Tick
  <2>1. clock' \in Instants /\ clock' \in Int /\ UNCHANGED <<zones, files, data>>
    BY <1>5, TimeAssumption DEF Tick
  <2> QED BY <2>1 DEF FilesInv, Stored, Today, RecordsInTheirDay
<1> QED BY <1>1, <1>2, <1>3, <1>4, <1>5 DEF LoggerStep

\* Export empties files, and makes one where there was none.
LEMMA ExportFiles ==
  ASSUME FilesInv, ExportStep
  PROVE  FilesInv'
<1>1. UNCHANGED <<clock, zones, request>>
  BY DEF ExportStep, ExportConfig, ExportSelect, OpenOutput, Guard, Truncate, ExportReadOn,
         ExportSample, PushFails, Close, Select, ReadOn, TakeSample, UnchangedPass, writerVars
<1>2. \/ UNCHANGED data
      \/ \E emptied : data' = [d \in Days |-> IF d \in emptied THEN <<>> ELSE data[d]]
  <2>1. CASE OpenOutput
    BY <2>1 DEF OpenOutput
  <2>2. CASE Truncate
    <3>1. UNCHANGED data \/ data' = [d \in Days |-> IF d \in {output.day} THEN <<>> ELSE data[d]]
      BY <2>2 DEF Truncate
    <3> QED BY <3>1
  <2>3. CASE ~OpenOutput /\ ~Truncate
    BY <2>3 DEF ExportStep, ExportConfig, ExportSelect, Guard, ExportReadOn, ExportSample, PushFails,
                Close, writerVars
  <2> QED BY <2>1, <2>2, <2>3
<1>3. files' \subseteq Days
  <2>1. CASE OpenOutput
    <3>1. output.link = "path" => output.day \in Days
      BY OutputsAssumption DEF output, FilesInv, Stored
    <3> QED BY <2>1, <3>1 DEF OpenOutput, FilesInv, Stored
  <2>2. CASE ~OpenOutput
    BY <2>2 DEF ExportStep, ExportConfig, ExportSelect, Guard, Truncate, ExportReadOn,
                ExportSample, PushFails, Close, writerVars, FilesInv, Stored
  <2> QED BY <2>1, <2>2
<1>4. /\ data' \in [Days -> Seq(Fragments)]
      /\ \A d \in Days : data'[d] = data[d] \/ data'[d] = <<>>
  <2>1. <<>> \in Seq(Fragments)
    OBVIOUS
  <2> QED BY <1>2, <2>1 DEF FilesInv, Stored
<1>5. RecordsInTheirDay'
  BY <1>1, <1>4 DEF FilesInv, Stored, RecordsInTheirDay
<1> QED BY <1>1, <1>3, <1>4, <1>5 DEF FilesInv, Stored, Today

\* What neither the logger nor export does keeps the files as they are.
LEMMA ReadingFiles ==
  ASSUME FilesInv, UNCHANGED <<writerVars, request>>
  PROVE  FilesInv'
BY DEF writerVars, FilesInv, Stored, RecordsInTheirDay, Today

\* The files are well typed, and lie where their names say, in every reachable
\* state.
LEMMA FilesInvariant == Spec => []FilesInv
<1>1. Init => FilesInv
  <2> SUFFICES ASSUME Init PROVE FilesInv
    OBVIOUS
  <2>1. PICK w \in Worlds : zones = w.zones /\ clock = w.clock /\ data = w.data
                         /\ files = {d \in Days : w.data[d] # <<>>}
    BY DEF Init, WriterInit
  <2> QED BY <2>1, WorldsAssumption, TimeAssumption
          DEF Init, ReaderInit, FilesInv, Stored, Today, RecordsInTheirDay
<1>2. ASSUME FilesInv, [Next]_vars PROVE FilesInv'
  <2>1. CASE ReportStep /\ UNCHANGED <<writerVars, exportVars, reconciled>>
    BY <1>2, <2>1, ReadingFiles, RequestStays
  <2>2. CASE ExportStep /\ UNCHANGED <<reportVars, reconciled>>
    BY <1>2, <2>2, ExportFiles
  <2>3. CASE Reconcile /\ UNCHANGED <<writerVars, exportVars>>
    BY <1>2, <2>3, ReadingFiles, RequestStays
  <2>4. CASE Environment
    BY <1>2, <2>4, LoggerFiles DEF Environment, readerVars
  <2>5. CASE UNCHANGED vars
    BY <1>2, <2>5, ReadingFiles DEF vars, readerVars
  <2> QED BY <1>2, <2>1, <2>2, <2>3, <2>4, <2>5 DEF Next
<1> QED BY <1>1, <1>2, PTL DEF Spec

\* A record lies in the file of the day it was written on, for every movement of
\* the clock, every zone and every failure of the writer.
THEOREM RecordsLieInTheirDay == Spec => []RecordsInTheirDay
<1>1. FilesInv => RecordsInTheirDay
  BY DEF FilesInv
<1> QED BY <1>1, FilesInvariant, PTL

-----------------------------------------------------------------------------
(* The inputs of export. *)

\* The output that is about to be truncated is none of the selected logs, or
\* export made it.
InputsSafe ==
  /\ chosen \subseteq Days
  /\ pc = "truncate" => output.day \notin chosen \/ created

\* The guard lets nothing pass that is one of the inputs.
LEMMA DistinctIsNoInput ==
  ASSUME NEW unverifiable, Judgement(unverifiable) = "distinct"
  PROVE  output.day \notin chosen
<1> DEFINE hits == {d \in chosen : d \in unverifiable \/ d = output.day}
<1>1. CASE hits = {}
  BY <1>1
<1>2. CASE hits # {}
  <2>1. Judgement(unverifiable) \in {"alias", "unknown"}
    BY <1>2 DEF Judgement
  <2> QED BY <2>1
<1> QED BY <1>1, <1>2

LEMMA SelectionJudged ==
  ASSUME Stored, InputsSafe, [Next]_vars
  PROVE  InputsSafe'
<1> USE DEF InputsSafe
<1>1. CASE ReportSelect \/ ExportSelect
  <2>1. chosen' \subseteq Days
    BY <1>1 DEF ReportSelect, ExportSelect, Select, CandidateDays, Stored
  <2>2. pc' # "truncate"
    BY <1>1 DEF ReportSelect, ExportSelect, Select, Exits
  <2> QED BY <2>1, <2>2
<1>2. CASE OpenOutput
  <2>1. UNCHANGED chosen /\ (pc' = "truncate" => created')
    BY <1>2 DEF OpenOutput, UnchangedPass, Exits
  <2> QED BY <2>1
<1>3. CASE Guard
  <2>1. UNCHANGED <<chosen, request>>
    BY <1>3 DEF Guard, UnchangedPass
  <2>2. PICK denied \in {{}} \cup {{d} : d \in chosen} :
          LET judgement == Judgement(denied \cup (chosen \ files)) IN
          CASE judgement = "alias"    -> Exits(USAGE)
            [] judgement = "unknown"  -> Exits(FATAL)
            [] judgement = "distinct" -> pc' = "truncate" /\ UNCHANGED exit
    BY <1>3 DEF Guard
  <2> DEFINE judgement == Judgement(denied \cup (chosen \ files))
  <2>3. judgement \in {"alias", "unknown", "distinct"}
    BY DEF Judgement
  <2>4. pc' = "truncate" => judgement = "distinct"
    BY <2>2, <2>3, Zenon DEF Exits
  <2>5. pc' = "truncate" => output.day \notin chosen
    BY <2>4, DistinctIsNoInput
  <2> QED BY <2>1, <2>5 DEF output
<1>4. CASE UNCHANGED <<chosen, request, created>> /\ (pc' = "truncate" => pc = "truncate")
  BY <1>4 DEF output
<1>5. CASE Truncate \/ ExportConfig \/ ExportReadOn \/ ExportSample \/ PushFails \/ Close
  BY <1>4, <1>5 DEF Truncate, ExportConfig, ExportReadOn, ExportSample, PushFails, Close, ReadOn,
                    TakeSample, UnchangedPass, Exits, exportVars
<1>6. CASE (LoadConfig \/ ReportReadOn \/ ReportSample \/ Emit) /\ UNCHANGED exportVars
  BY <1>4, <1>6 DEF LoadConfig, ReportReadOn, ReportSample, Emit, ReadOn, TakeSample, Exits, exportVars
<1>7. CASE (Reconcile /\ UNCHANGED exportVars) \/ Environment \/ UNCHANGED vars
  BY <1>4, <1>7 DEF Reconcile, Environment, readerVars, exportVars, vars
<1> QED BY <1>1, <1>2, <1>3, <1>5, <1>6, <1>7 DEF Next, ReportStep, ExportStep

\* What the logger does to a file that it did not make in this step.
LEMMA LoggerAppends ==
  ASSUME Stored, LoggerStep \/ Tick, NEW d \in Days
  PROVE  IsPrefix(data[d], data'[d]) \/ d \in files' \ files
<1> USE DEF Stored
<1>1. data[d] \in Seq(Fragments) /\ data[Today] \in Seq(Fragments)
  OBVIOUS
<1>2. ASSUME NEW sample \in Polled, NEW w \in Writes(sample)
      PROVE  IsPrefix(data[Today], data[Today] \o w)
  BY <1>1, <1>2, WritesTyped, AppendedTo
<1>3. ASSUME NEW sample \in Polled, Append1(sample)
      PROVE  IsPrefix(data[d], data'[d])
  <2>1. PICK w \in Writes(sample) : data' = [data EXCEPT ![Today] = @ \o w]
    BY <1>3 DEF Append1, FileIsCurrent
  <2>2. data'[d] = data[d] \/ (d = Today /\ data'[d] = data[Today] \o w)
    BY <2>1
  <2> QED BY <1>1, <1>2, <2>2, PrefixOfItself
<1>4. ASSUME NEW sample \in Polled, Rotate(sample)
      PROVE  IsPrefix(data[d], data'[d]) \/ d \in files' \ files
  <2> DEFINE found == IF Today \in files THEN data[Today] ELSE <<>>
  <2>1. PICK w \in Writes(sample) : data' = [data EXCEPT ![Today] = found \o w]
    BY <1>4 DEF Rotate
  <2>2. CASE d # Today
    <3>1. data'[d] = data[d]
      BY <2>1, <2>2
    <3> QED BY <1>1, <3>1, PrefixOfItself
  <2>3. CASE d = Today /\ Today \in files
    <3>1. data'[d] = data[Today] \o w
      BY <2>1, <2>3
    <3> QED BY <1>2, <2>3, <3>1
  <2>4. CASE d = Today /\ Today \notin files
    <3>1. Today \in files'
      <4>1. Today \notin Expired(Today)
        BY <2>4 DEF Expired
      <4> QED BY <1>4, <4>1 DEF Rotate, Cleanup
    <3> QED BY <2>4, <3>1
  <2> QED BY <2>2, <2>3, <2>4
<1>5. CASE StartLogger \/ StopLogger \/ RotateFails \/ Tick
  <2>1. data' = data
    BY <1>5 DEF StartLogger, StopLogger, RotateFails, Tick
  <2> QED BY <1>1, <2>1, PrefixOfItself
<1> QED BY <1>3, <1>4, <1>5 DEF LoggerStep

\* Export truncates no log it selected as an input, whichever name or link its
\* output goes by, whatever the logger prunes meanwhile and whatever cannot be
\* verified; but a file that export made, where a selected log was pruned.
THEOREM InputsAreKept == Spec => HistoryKept
<1>1. Init => InputsSafe
  BY DEF Init, ReaderInit, InputsSafe
<1>2. FilesInv /\ InputsSafe /\ [Next]_vars => InputsSafe'
  BY SelectionJudged DEF FilesInv
<1>3. FilesInv /\ InputsSafe /\ [Next]_vars =>
        [\A d \in chosen : \/ IsPrefix(data[d], data'[d])
                           \/ d \in files' \ files
                           \/ created /\ d = output.day]_<<data, files>>
  <2> SUFFICES ASSUME Stored, InputsSafe, [Next]_vars, NEW d \in chosen
               PROVE  \/ IsPrefix(data[d], data'[d])
                      \/ d \in files' \ files
                      \/ created /\ d = output.day
    BY DEF FilesInv
  <2>0. d \in Days /\ data[d] \in Seq(Fragments)
    BY DEF InputsSafe, Stored
  <2>1. CASE UNCHANGED data
    BY <2>0, <2>1, PrefixOfItself
  <2>2. CASE Environment
    BY <2>0, <2>2, LoggerAppends DEF Environment
  <2>3. CASE OpenOutput
    <3>1. data' = [e \in Days |-> IF e \in files' \ files THEN <<>> ELSE data[e]] \/ UNCHANGED data
      BY <2>3 DEF OpenOutput
    <3>2. d \in files' \ files \/ data'[d] = data[d]
      BY <2>0, <3>1
    <3> QED BY <2>0, <3>2, PrefixOfItself
  <2>4. CASE Truncate
    <3>1. pc = "truncate"
          /\ (data' = [e \in Days |-> IF e = output.day THEN <<>> ELSE data[e]] \/ UNCHANGED data)
      BY <2>4 DEF Truncate
    <3>2. (created /\ d = output.day) \/ data'[d] = data[d]
      BY <2>0, <3>1 DEF InputsSafe
    <3> QED BY <2>0, <3>2, PrefixOfItself
  <2> QED BY <2>1, <2>2, <2>3, <2>4
          DEF Next, ReportStep, ExportStep, ExportConfig, ExportSelect, Guard, ExportReadOn, ExportSample,
              PushFails, Close, Reconcile, writerVars, vars
<1> QED BY <1>1, <1>2, <1>3, FilesInvariant, PTL DEF Spec, HistoryKept

-----------------------------------------------------------------------------
(* Rules. *)

\* Each check that finds nothing to complain about.
LEMMA Uncomplained ==
  ASSUME NEW raw, Complaints(raw) = {}
  PROVE  /\ raw.kind # Unset
         /\ \A x \in {raw.threshold, raw.clear} : x # Unset => x \in Int
         /\ (raw.op # Unset /\ raw.threshold \in Int /\ raw.clear \in Int) =>
               RecoverySide(raw.op, raw.threshold, raw.clear)
         /\ raw.for_samples # Unset => raw.for_samples \in 1..MaxSamples
         /\ IF ValueBased(raw.kind) THEN raw.op # Unset /\ raw.threshold # Unset
            ELSE raw.op = Unset /\ raw.threshold = Unset /\ raw.clear = Unset
         /\ IF raw.kind = "rate" THEN raw.window_samples \in 2..MaxSamples
            ELSE raw.window_samples = Unset
<1>1. Raised(PlainComplaints(raw)) = {}
  BY DEF Complaints
<1>2. /\ ~PlainComplaints(raw).finite /\ ~PlainComplaints(raw).clear
      /\ ~PlainComplaints(raw).count /\ ~PlainComplaints(raw).kind
  <2>1. {"finite", "clear", "count", "kind"} \subseteq DOMAIN PlainComplaints(raw)
    BY DEF PlainComplaints
  <2> QED BY <1>1, <2>1 DEF Raised
<1>3. raw.kind # Unset
  BY <1>2 DEF PlainComplaints, IsSet
<1>4. Raised(KindComplaints(raw)) = {}
  BY <1>3 DEF Complaints, IsSet
<1>5. ~KindComplaints(raw).fields /\ ~KindComplaints(raw).window
  <2>1. {"fields", "window"} \subseteq DOMAIN KindComplaints(raw)
    BY DEF KindComplaints
  <2> QED BY <1>4, <2>1 DEF Raised
<1>6. /\ \A x \in {raw.threshold, raw.clear} : x # Unset => x \in Int
      /\ raw.for_samples # Unset => raw.for_samples \in 1..MaxSamples
  BY <1>2 DEF PlainComplaints, IsSet, Finite
<1>7. (raw.op # Unset /\ raw.threshold \in Int /\ raw.clear \in Int) =>
        RecoverySide(raw.op, raw.threshold, raw.clear)
  BY <1>2 DEF PlainComplaints, IsSet, Finite
<1>8. IF ValueBased(raw.kind) THEN raw.op # Unset /\ raw.threshold # Unset
      ELSE raw.op = Unset /\ raw.threshold = Unset /\ raw.clear = Unset
  <2>1. CASE ValueBased(raw.kind)
    BY <1>5, <2>1 DEF KindComplaints, IsSet
  <2>2. CASE ~ValueBased(raw.kind)
    <3>1. \A f \in {"op", "threshold", "clear", "metric"} : ~IsSet(raw[f])
      BY <1>5, <2>2 DEF KindComplaints
    <3> QED BY <2>2, <3>1 DEF IsSet
  <2> QED BY <2>1, <2>2
<1>9. IF raw.kind = "rate" THEN raw.window_samples \in 2..MaxSamples
      ELSE raw.window_samples = Unset
  BY <1>5 DEF KindComplaints, IsSet
<1> QED BY <1>3, <1>6, <1>7, <1>8, <1>9

\* An entry without a complaint becomes a rule the engine can evaluate.
LEMMA NoComplaintIsValid ==
  ASSUME NEW raw, IsEntry(raw), Complaints(raw) = {}
  PROVE  ValidRule(Validated(raw, Series), Series) /\ Validated(raw, Series).for <= MaxSamples
<1> DEFINE rule == Validated(raw, Series)
           threshold == Or(raw.threshold, 0)
<1>1. /\ rule.kind = raw.kind /\ rule.covers \subseteq Series
      /\ rule.metric = Or(raw.metric, "value") /\ rule.op = Or(raw.op, "gt")
      /\ rule.threshold = threshold /\ rule.clear = Or(raw.clear, threshold)
      /\ rule.window = Or(raw.window_samples, 2) /\ rule.for = Or(raw.for_samples, 1)
  BY DEF Validated, Covers
<1>2. rule.kind \in RuleKind /\ rule.metric \in Metric /\ rule.op \in Op
  BY <1>1, Uncomplained DEF IsEntry, Or, IsSet, Metric, Op
<1>3. rule.threshold \in Int /\ rule.clear \in Int
  BY <1>1, Uncomplained DEF Or, IsSet
<1>4. rule.for \in 1..MaxSamples
  BY <1>1, Uncomplained, MaxSamplesAssumption DEF Or, IsSet
<1>5. rule.window \in Nat \ {0, 1}
  BY <1>1, Uncomplained, MaxSamplesAssumption DEF Or, IsSet
<1>6. RecoverySide(rule.op, rule.threshold, rule.clear)
  <2>1. CASE raw.clear # Unset
    BY <1>1, <2>1, Uncomplained DEF Or, IsSet
  <2>2. CASE raw.clear = Unset
    BY <1>1, <1>3, <2>2 DEF Or, IsSet, RecoverySide
  <2> QED BY <2>1, <2>2
<1>7. /\ rule.op \in {"gt", "ge"} => rule.clear <= rule.threshold
      /\ rule.op \in {"lt", "le"} => rule.clear >= rule.threshold
  BY <1>6 DEF RecoverySide
<1> QED BY <1>1, <1>2, <1>3, <1>4, <1>5, <1>7, MaxSamplesAssumption DEF ValidRule

\* Whatever document is found: the engine of a run gets only rules it can
\* evaluate.
THEOREM AcceptedRulesAreValid == Spec => []RulesAreValid
<1>1. Init => RulesAreValid
  BY DEF Init, ReportInit, RulesAreValid
<1>2. ASSUME RulesAreValid, [Next]_vars PROVE RulesAreValid'
  <2>1. CASE LoadConfig /\ rules' # rules
    <3>0. PICK docs \in ConfigFiles : \E path \in DOMAIN docs :
            RulesAccepted(docs[path]) /\ rules' = RuleSet(docs[path], Series)
      <4>1. PICK docs \in ConfigFiles, explicit \in {Unset, "given"} :
              LET path == ConfigPath(explicit, "config.toml", DOMAIN docs) IN
              path # Unset /\ RulesAccepted(docs[path]) /\ rules' = RuleSet(docs[path], Series)
        BY <2>1 DEF LoadConfig
      <4>2. ConfigPath(explicit, "config.toml", DOMAIN docs) # Unset =>
              ConfigPath(explicit, "config.toml", DOMAIN docs) \in DOMAIN docs
        BY DEF ConfigPath
      <4> QED BY <4>1, <4>2
    <3>1. PICK path \in DOMAIN docs :
            RulesAccepted(docs[path]) /\ rules' = RuleSet(docs[path], Series)
      BY <3>0
    <3> DEFINE entries == docs[path].rules
    <3>2. /\ Len(entries) \in Nat
          /\ \A n \in 1..Len(entries) : IsEntry(entries[n]) /\ Complaints(entries[n]) = {}
      BY <3>1, ConfigAssumption DEF RulesAccepted
    <3>3. rules' = [n \in 1..Len(entries) |-> Validated(entries[n], Series)]
      BY <3>1 DEF RuleSet
    <3> HIDE DEF entries
    <3>4. Len(rules') = Len(entries)
      BY <3>2, <3>3
    <3> QED BY <3>2, <3>3, <3>4, NoComplaintIsValid DEF RulesAreValid
  <2>2. CASE UNCHANGED rules
    BY <1>2, <2>2 DEF RulesAreValid
  <2>3. LoadConfig \/ UNCHANGED rules
    BY <1>2 DEF Next, ReportStep, ReportSelect, ReportReadOn, ReportSample, Emit, ExportStep,
                Reconcile, Environment, reportVars, vars
  <2> QED BY <2>1, <2>2, <2>3
<1> QED BY <1>1, <1>2, PTL DEF Spec

-----------------------------------------------------------------------------
(* Induction, and sequences put one after another. *)

\* A set of numbers that holds 0 and the successor of each of its elements holds
\* all of them.
LEMMA Induction ==
  ASSUME NEW A \in SUBSET Nat, 0 \in A, \A n \in A : n + 1 \in A
  PROVE  \A n \in Nat : n \in A
<1> SUFFICES ASSUME A # Nat PROVE FALSE
  OBVIOUS
<1>1. PICK x \in Nat \ A : \A y \in Nat \ A : x <= y
  BY LeastNat
<1>2. x - 1 \in Nat /\ x - 1 \notin Nat \ A
  BY <1>1
<1> QED BY <1>1, <1>2

\* The recursion behind FlattenSeq, up to n.
Flattens(f, s, n) ==
  f = [i \in 1..n |-> IF i = 1 THEN s[i] ELSE f[i-1] \o s[i]]

LEMMA FlattenAt ==
  ASSUME NEW s, NEW f, NEW n \in Nat, Flattens(f, s, n), NEW i \in 1..n
  PROVE  f[i] = IF i = 1 THEN s[i] ELSE f[i-1] \o s[i]
<1> DEFINE Step(j) == IF j = 1 THEN s[j] ELSE f[j-1] \o s[j]
<1>1. f = [j \in 1..n |-> Step(j)]
  BY DEF Flattens
<1> HIDE DEF Step
<1>2. f[i] = Step(i)
  BY <1>1, Zenon
<1> QED BY <1>2 DEF Step

\* The recursion has a solution.
LEMMA FlattenExists ==
  ASSUME NEW s, NEW n \in Nat
  PROVE  \E f : Flattens(f, s, n)
<1> DEFINE A == {m \in Nat : \E f : Flattens(f, s, m)}
<1>1. 0 \in A
  <2>1. Flattens([i \in {} |-> 0], s, 0)
    BY DEF Flattens
  <2> QED BY <2>1
<1>2. ASSUME NEW m \in A PROVE m + 1 \in A
  <2>1. PICK f : Flattens(f, s, m)
    OBVIOUS
  <2> DEFINE last == IF m = 0 THEN s[m+1] ELSE f[m] \o s[m+1]
             g == [i \in 1..m+1 |-> IF i = m + 1 THEN last ELSE f[i]]
  <2>2. \A i \in 1..m+1 : g[i] = IF i = 1 THEN s[i] ELSE g[i-1] \o s[i]
    BY <2>1, FlattenAt
  <2>3. Flattens(g, s, m + 1)
    BY <2>2 DEF Flattens
  <2> QED BY <2>3
<1> HIDE DEF A
<1>3. n \in A
  BY <1>1, <1>2, Induction DEF A
<1> QED BY <1>3 DEF A

\* What FlattenSeq is, by the lengths of its argument.
LEMMA FlattenIs ==
  ASSUME NEW S, NEW s \in Seq(S), s # <<>>
  PROVE  \E f : Flattens(f, s, Len(s)) /\ FlattenSeq(s) = f[Len(s)]
<1> DEFINE f == CHOOSE g : Flattens(g, s, Len(s))
<1>1. Len(s) \in Nat \ {0}
  OBVIOUS
<1>2. Flattens(f, s, Len(s))
  BY <1>1, FlattenExists
<1>3. FlattenSeq(s) = f[Len(s)]
  BY <1>1 DEF FlattenSeq, Flattens
<1> QED BY <1>2, <1>3

\* The recursion does not see what comes later.
LEMMA FlattenLocal ==
  ASSUME NEW s, NEW t, NEW f, NEW g, NEW n \in Nat,
         Flattens(f, s, n), Flattens(g, t, n + 1), \A i \in 1..n : s[i] = t[i]
  PROVE  \A i \in 1..n : f[i] = g[i]
<1> DEFINE A == {m \in Nat : m \in 1..n => f[m] = g[m]}
<1>1. 0 \in A
  OBVIOUS
<1>2. ASSUME NEW m \in A PROVE m + 1 \in A
  <2> SUFFICES ASSUME m + 1 \in 1..n PROVE f[m+1] = g[m+1]
    OBVIOUS
  <2>1. f[m+1] = IF m + 1 = 1 THEN s[m+1] ELSE f[m] \o s[m+1]
    BY FlattenAt
  <2>2. g[m+1] = IF m + 1 = 1 THEN t[m+1] ELSE g[m] \o t[m+1]
    <3>1. n + 1 \in Nat /\ m + 1 \in 1..n+1
      OBVIOUS
    <3> QED BY <3>1, FlattenAt
  <2> QED BY <2>1, <2>2
<1> HIDE DEF A
<1>3. \A m \in Nat : m \in A
  BY <1>1, <1>2, Induction DEF A
<1> QED BY <1>3 DEF A

\* Sequences of rows make a sequence of rows.
LEMMA FlattenTyped ==
  ASSUME NEW T, NEW s \in Seq(Seq(T))
  PROVE  FlattenSeq(s) \in Seq(T)
<1>1. CASE s = <<>>
  BY <1>1 DEF FlattenSeq
<1>2. CASE s # <<>>
  <2>1. PICK f : Flattens(f, s, Len(s)) /\ FlattenSeq(s) = f[Len(s)]
    BY <1>2, FlattenIs
  <2>2. Len(s) \in Nat \ {0}
    BY <1>2
  <2> DEFINE A == {m \in Nat : m \in 1..Len(s) => f[m] \in Seq(T)}
  <2>3. 0 \in A
    OBVIOUS
  <2>4. ASSUME NEW m \in A PROVE m + 1 \in A
    <3> SUFFICES ASSUME m + 1 \in 1..Len(s) PROVE f[m+1] \in Seq(T)
      OBVIOUS
    <3>1. f[m+1] = IF m + 1 = 1 THEN s[m+1] ELSE f[m] \o s[m+1]
      BY <2>1, <2>2, FlattenAt
    <3>2. s[m+1] \in Seq(T)
      OBVIOUS
    <3> QED BY <3>1, <3>2
  <2> HIDE DEF A
  <2>5. \A m \in Nat : m \in A
    BY <2>3, <2>4, Induction DEF A
  <2> QED BY <2>1, <2>2, <2>5 DEF A
<1> QED BY <1>1, <1>2

\* One more sequence at the end.
LEMMA FlattenAppend ==
  ASSUME NEW T, NEW s \in Seq(Seq(T)), NEW x \in Seq(T)
  PROVE  FlattenSeq(Append(s, x)) = FlattenSeq(s) \o x
<1> DEFINE t == Append(s, x)
<1>1. /\ t \in Seq(Seq(T)) /\ Len(t) = Len(s) + 1 /\ t # <<>> /\ t[Len(s) + 1] = x
      /\ \A i \in 1..Len(s) : t[i] = s[i]
      /\ Len(s) \in Nat
  BY AppendProperties
<1> HIDE DEF t
<1>2. PICK g : Flattens(g, t, Len(s) + 1) /\ FlattenSeq(t) = g[Len(s) + 1]
  BY <1>1, FlattenIs
<1>3. g[Len(s) + 1] = IF Len(s) = 0 THEN x ELSE g[Len(s)] \o x
  <2>1. Len(s) + 1 \in 1..Len(s) + 1
    BY <1>1
  <2> QED BY <1>1, <1>2, <2>1, FlattenAt
<1>4. CASE s = <<>>
  <2>1. FlattenSeq(s) = <<>> /\ <<>> \o x = x /\ Len(s) = 0
    BY <1>4 DEF FlattenSeq
  <2> QED BY <1>2, <1>3, <2>1 DEF t
<1>5. CASE s # <<>>
  <2>1. PICK f : Flattens(f, s, Len(s)) /\ FlattenSeq(s) = f[Len(s)]
    BY <1>5, FlattenIs
  <2>2. Len(s) # 0
    BY <1>5
  <2>3. f[Len(s)] = g[Len(s)]
    <3> DEFINE n == Len(s)
    <3>1. n \in Nat /\ n + 1 \in Nat /\ n <= n + 1 /\ \A i \in 1..n : s[i] = t[i]
      BY <1>1
    <3> HIDE DEF n
    <3>2. Flattens(f, s, n) /\ Flattens(g, t, n + 1)
      BY <1>2, <2>1 DEF n
    <3>3. \A i \in 1..n : f[i] = g[i]
      BY <3>1, <3>2, FlattenLocal, SMT
    <3> QED BY <1>1, <2>2, <3>3 DEF n
  <2> QED BY <1>2, <1>3, <2>1, <2>2, <2>3 DEF t
<1> QED BY <1>4, <1>5

LEMMA Multiples ==
  ASSUME NEW n \in Nat
  PROVE  /\ n * RowsPerGroup \in Nat
         /\ (n + 1) * RowsPerGroup = n * RowsPerGroup + RowsPerGroup
         /\ n >= 1 => n * RowsPerGroup >= RowsPerGroup
BY GroupAssumption

LEMMA FullFits ==
  ASSUME NEW n \in Nat
  PROVE  /\ n \div RowsPerGroup \in Nat
         /\ (n \div RowsPerGroup) * RowsPerGroup \in 0..n
         /\ \A k \in 0..(n \div RowsPerGroup) : k * RowsPerGroup \in 0..n
BY GroupAssumption

\* A longer beginning has one element more.
LEMMA OneMore ==
  ASSUME NEW S, NEW s \in Seq(S), NEW k \in Nat, k + 1 <= Len(s)
  PROVE  /\ SubSeq(s, 1, k) \in Seq(S) /\ s[k+1] \in S
         /\ SubSeq(s, 1, k + 1) = Append(SubSeq(s, 1, k), s[k+1])
<1>1. Len(s) \in Nat /\ 1 \in 1..Len(s) /\ k + 1 \in 1..Len(s) /\ \A i \in 1..k : s[i] \in S
  OBVIOUS
<1>2. SubSeq(s, 1, k + 1) = SubSeq(s, 1, (k + 1) - 1) \o <<s[k+1]>>
  BY <1>1, SubSeqRecursiveSecond
<1>3. SubSeq(s, 1, k) \in Seq(S)
  BY <1>1, SubSeqProperties
<1>4. (k + 1) - 1 = k
  OBVIOUS
<1> QED BY <1>1, <1>2, <1>3, <1>4, AppendIsConcat

LEMMA Associates ==
  ASSUME NEW S, NEW a \in Seq(S), NEW b \in Seq(S), NEW c \in Seq(S)
  PROVE  (a \o b) \o c = a \o (b \o c)
OBVIOUS

LEMMA AppendsLast ==
  ASSUME NEW S, NEW a \in Seq(S), NEW b \in Seq(S), NEW c \in S
  PROVE  a \o Append(b, c) = Append(a \o b, c)
OBVIOUS

LEMMA FlattenConcatStep ==
  ASSUME NEW T, NEW s \in Seq(Seq(T)), NEW p \in Seq(Seq(T)), NEW x \in Seq(T),
         FlattenSeq(s \o p) = FlattenSeq(s) \o FlattenSeq(p)
  PROVE  FlattenSeq(s \o Append(p, x)) = FlattenSeq(s) \o FlattenSeq(Append(p, x))
<1>1. s \o Append(p, x) = Append(s \o p, x) /\ s \o p \in Seq(Seq(T))
  BY AppendsLast, SMTT(30)
<1>2. FlattenSeq(s \o Append(p, x)) = (FlattenSeq(s) \o FlattenSeq(p)) \o x
  BY <1>1, FlattenAppend
<1>3. FlattenSeq(Append(p, x)) = FlattenSeq(p) \o x
  BY FlattenAppend
<1>4. FlattenSeq(s) \in Seq(T) /\ FlattenSeq(p) \in Seq(T)
  BY FlattenTyped
<1>5. (FlattenSeq(s) \o FlattenSeq(p)) \o x = FlattenSeq(s) \o (FlattenSeq(p) \o x)
  BY <1>4, Associates, SMTT(30)
<1> QED BY <1>2, <1>3, <1>5

\* Two lists of sequences, one after the other.
LEMMA FlattenConcat ==
  ASSUME NEW T, NEW s \in Seq(Seq(T)), NEW t \in Seq(Seq(T))
  PROVE  FlattenSeq(s \o t) = FlattenSeq(s) \o FlattenSeq(t)
<1> DEFINE A == {k \in Nat : k <= Len(t) =>
                  FlattenSeq(s \o SubSeq(t, 1, k)) = FlattenSeq(s) \o FlattenSeq(SubSeq(t, 1, k))}
<1>1. 0 \in A
  <2>1. SubSeq(t, 1, 0) = <<>> /\ FlattenSeq(<<>>) = <<>>
    BY SubSeqEmpty DEF FlattenSeq
  <2>2. FlattenSeq(s) \in Seq(T)
    BY FlattenTyped
  <2>3. s \o <<>> = s /\ FlattenSeq(s) \o <<>> = FlattenSeq(s)
    BY <2>2
  <2> QED BY <2>1, <2>3
<1>2. ASSUME NEW k \in A PROVE k + 1 \in A
  <2> SUFFICES ASSUME k + 1 <= Len(t)
               PROVE  FlattenSeq(s \o SubSeq(t, 1, k + 1))
                        = FlattenSeq(s) \o FlattenSeq(SubSeq(t, 1, k + 1))
    OBVIOUS
  <2> DEFINE p == SubSeq(t, 1, k)
             x == t[k+1]
  <2>1. p \in Seq(Seq(T)) /\ x \in Seq(T) /\ SubSeq(t, 1, k + 1) = Append(p, x)
    BY OneMore
  <2>2. FlattenSeq(s \o p) = FlattenSeq(s) \o FlattenSeq(p)
    OBVIOUS
  <2> HIDE DEF A, p, x
  <2> QED BY <2>1, <2>2, FlattenConcatStep, ZenonT(60)
<1>3. A \in SUBSET Nat
  OBVIOUS
<1>4. SubSeq(t, 1, Len(t)) = t /\ Len(t) \in Nat
  BY SubSeqFull
<1>5. \A k \in Nat : k \in A
  <2> HIDE DEF A
  <2> QED BY <1>1, <1>2, <1>3, Induction
<1>6. FlattenSeq(s \o SubSeq(t, 1, Len(t))) = FlattenSeq(s) \o FlattenSeq(SubSeq(t, 1, Len(t)))
  BY <1>4, <1>5
<1> QED BY <1>4, <1>6

\* The full groups hold the first rows.
LEMMA GroupsHoldRows ==
  ASSUME NEW T, NEW rows \in Seq(T)
  PROVE  /\ FullGroups(rows) \in Seq(Seq(T)) /\ Rest(rows) \in Seq(T)
         /\ FlattenSeq(FullGroups(rows)) \o Rest(rows) = rows
         /\ \A n \in 1..Len(FullGroups(rows)) : Len(FullGroups(rows)[n]) = RowsPerGroup
<1> DEFINE n == Len(rows) \div RowsPerGroup
           full == FullGroups(rows)
           Rows(k) == SubSeq(rows, 1, k * RowsPerGroup)
           A == {k \in Nat : k <= n => FlattenSeq(SubSeq(full, 1, k)) = Rows(k)}
<1>1. /\ n \in Nat /\ Len(rows) \in Nat
      /\ \A k \in 0..n : k * RowsPerGroup \in 0..Len(rows)
  BY FullFits
<1>2. \A i \in 1..n : /\ (i - 1) * RowsPerGroup \in 0..Len(rows) /\ i * RowsPerGroup \in 0..Len(rows)
                      /\ i * RowsPerGroup = (i - 1) * RowsPerGroup + RowsPerGroup
  <2> TAKE i \in 1..n
  <2>1. i - 1 \in 0..n /\ i \in 0..n /\ i - 1 \in Nat /\ (i - 1) + 1 = i
    BY <1>1
  <2> QED BY <1>1, <2>1, Multiples
<1>3. \A i \in 1..n :
        LET group == SubSeq(rows, (i - 1) * RowsPerGroup + 1, i * RowsPerGroup)
        IN  group \in Seq(T) /\ Len(group) = RowsPerGroup
  <2> TAKE i \in 1..n
  <2> DEFINE a == (i - 1) * RowsPerGroup
             b == i * RowsPerGroup
  <2>1. a \in 0..Len(rows) /\ b \in 0..Len(rows) /\ b = a + RowsPerGroup
    BY <1>2
  <2> HIDE DEF a, b
  <2>2. \A j \in a+1..b : rows[j] \in T
    BY <2>1
  <2>3. SubSeq(rows, a + 1, b) \in Seq(T) /\ Len(SubSeq(rows, a + 1, b)) = RowsPerGroup
    BY <2>1, <2>2, SubSeqProperties, GroupAssumption
  <2> QED BY <2>3 DEF a, b
<1>4. full = [i \in 1..n |-> SubSeq(rows, (i - 1) * RowsPerGroup + 1, i * RowsPerGroup)]
  BY DEF FullGroups
<1>5. full \in Seq(Seq(T)) /\ Len(full) = n /\ \A i \in 1..n : Len(full[i]) = RowsPerGroup
  <2> DEFINE group(i) == SubSeq(rows, (i - 1) * RowsPerGroup + 1, i * RowsPerGroup)
  <2>1. full = [i \in 1..n |-> group(i)] /\ \A i \in 1..n : group(i) \in Seq(T) /\ Len(group(i)) = RowsPerGroup
    BY <1>3, <1>4
  <2> HIDE DEF full, group, n
  <2>2. full \in [1..n -> Seq(T)] /\ \A i \in 1..n : Len(full[i]) = RowsPerGroup
    BY <2>1
  <2>3. full \in Seq(Seq(T)) /\ Len(full) = n
    BY <1>1, <2>2
  <2> QED BY <2>2, <2>3
<1> HIDE DEF full
<1>6. 0 \in A
  <2>1. SubSeq(full, 1, 0) = <<>> /\ 0 * RowsPerGroup = 0 /\ SubSeq(rows, 1, 0) = <<>>
    BY SubSeqEmpty, GroupAssumption
  <2> QED BY <2>1 DEF FlattenSeq
<1>7. ASSUME NEW k \in A PROVE k + 1 \in A
  <2> SUFFICES ASSUME k + 1 <= n
               PROVE  FlattenSeq(SubSeq(full, 1, k + 1)) = Rows(k + 1)
    OBVIOUS
  <2> DEFINE a == k * RowsPerGroup
             b == (k + 1) * RowsPerGroup
  <2>1. a \in 0..Len(rows) /\ b \in a..Len(rows)
    <3>1. k + 1 \in 1..n /\ (k + 1) - 1 = k
      OBVIOUS
    <3> QED BY <1>1, <1>2, <3>1, GroupAssumption
  <2>2. full[k+1] = SubSeq(rows, a + 1, b)
    <3>1. k + 1 \in 1..n /\ (k + 1) - 1 = k
      OBVIOUS
    <3> QED BY <1>4, <3>1
  <2>3. FlattenSeq(SubSeq(full, 1, k)) = SubSeq(rows, 1, a)
    <3>1. k \in Nat /\ k <= n
      BY <1>1
    <3>2. k <= n => FlattenSeq(SubSeq(full, 1, k)) = Rows(k)
      OBVIOUS
    <3> HIDE DEF n
    <3> QED BY <3>1, <3>2
  <2> HIDE DEF a
  <2>4. /\ SubSeq(full, 1, k + 1) = Append(SubSeq(full, 1, k), full[k+1])
        /\ SubSeq(full, 1, k) \in Seq(Seq(T)) /\ full[k+1] \in Seq(T)
    BY <1>5, OneMore
  <2>5. FlattenSeq(SubSeq(full, 1, k + 1)) = FlattenSeq(SubSeq(full, 1, k)) \o full[k+1]
    BY <2>4, FlattenAppend
  <2> HIDE DEF b
  <2>6. SubSeq(rows, 1, a) \o SubSeq(rows, a + 1, b) = SubSeq(rows, 1, b)
    <3>1. 1 \in 1..Len(rows)+1 /\ a \in 1-1..Len(rows) /\ b \in a..Len(rows)
      BY <1>1, <2>1
    <3> QED BY <3>1, ConcatAdjacentSubSeq
  <2> QED BY <2>2, <2>3, <2>5, <2>6 DEF b
<1>8. n \in A
  <2>1. A \in SUBSET Nat
    OBVIOUS
  <2> HIDE DEF A, n
  <2> QED BY <1>1, <1>6, <1>7, <2>1, Induction
<1>9. FlattenSeq(full) = Rows(n)
  <2>1. SubSeq(full, 1, n) = full
    BY <1>5, SubSeqFull
  <2>2. n <= n
    BY <1>1
  <2>3. FlattenSeq(SubSeq(full, 1, n)) = Rows(n)
    <3> HIDE DEF n, Rows
    <3> QED BY <1>8, <2>2
  <2> QED BY <2>1, <2>3
<1> DEFINE c == n * RowsPerGroup
<1>10. Rows(n) \o Rest(rows) = rows /\ Rest(rows) \in Seq(T)
  <2>1. c \in 0..Len(rows) /\ Rest(rows) = SubSeq(rows, c + 1, Len(rows)) /\ Rows(n) = SubSeq(rows, 1, c)
    BY <1>1 DEF Rest
  <2> HIDE DEF c
  <2>2. SubSeq(rows, 1, c) \o SubSeq(rows, c + 1, Len(rows)) = SubSeq(rows, 1, Len(rows))
    <3>1. 1 \in 1..Len(rows)+1 /\ c \in 1-1..Len(rows) /\ Len(rows) \in c..Len(rows)
      BY <1>1, <2>1
    <3> QED BY <3>1, ConcatAdjacentSubSeq
  <2>3. SubSeq(rows, c + 1, Len(rows)) \in Seq(T)
    <3>1. \A j \in c+1..Len(rows) : rows[j] \in T
      BY <2>1
    <3> QED BY <1>1, <2>1, <3>1, SubSeqProperties
  <2> QED BY <2>1, <2>2, <2>3, SubSeqFull
<1> QED BY <1>5, <1>9, <1>10 DEF full

-----------------------------------------------------------------------------
(* What a reader holds. *)

\* A file is only open while lines are read; what is read of it is in it.
Held ==
  \/ reading = NoFile
  \/ /\ reading \in [day : Days, at : Nat, replaced : BOOLEAN, held : Seq(Fragments)]
     /\ reading.at <= Len(Content)
     /\ pc \in {"stream", "done"}

LEMMA ContentTyped ==
  ASSUME Stored, Held, reading # NoFile
  PROVE  /\ Content \in Seq(Fragments)
         /\ Len(Content) \in Nat /\ reading.at \in 0..Len(Content) /\ reading.day \in Days
BY DEF Stored, Held, Content

\* An open day is no NoFile.
LEMMA DayIsOpen ==
  ASSUME NEW r, r \in [day : Days, at : Nat, replaced : BOOLEAN, held : Seq(Fragments)]
  PROVE  r # NoFile
<1>1. r.day \in Int /\ NoFile.day = NoDay
  BY DEF NoFile, Open, Days
<1> QED BY <1>1, TimeAssumption

\* A beginning of a beginning.
LEMMA PrefixShorter ==
  ASSUME NEW S, NEW s \in Seq(S), NEW t \in Seq(S), IsPrefix(s, t)
  PROVE  Len(s) <= Len(t) /\ \A n \in 1..Len(s) : s[n] = t[n]
BY DEF IsPrefix

\* Whatever the logger and the clock do, an open file keeps what it held, and
\* may grow at its end.
LEMMA OpenFileKeeps ==
  ASSUME FilesInv, Held, reading # NoFile, Environment
  PROVE  /\ IsPrefix(Content, Content') /\ Content' \in Seq(Fragments)
         /\ reading' \in [day : Days, at : Nat, replaced : BOOLEAN, held : Seq(Fragments)]
         /\ reading'.at = reading.at /\ reading'.day = reading.day
         /\ reading.day \in files' \ files \/ reading' = reading
<1> DEFINE d == reading.day
<1>1. /\ reading \in [day : Days, at : Nat, replaced : BOOLEAN, held : Seq(Fragments)]
      /\ Content \in Seq(Fragments) /\ d \in Days
  BY ContentTyped DEF Held, FilesInv
<1>2. data' \in [Days -> Seq(Fragments)] /\ data[d] \in Seq(Fragments)
  <2>1. FilesInv'
    BY LoggerFiles DEF Environment, readerVars
  <2> QED BY <1>1, <2>1 DEF FilesInv, Stored
<1>3. IsPrefix(data[d], data'[d]) \/ d \in files' \ files
  BY <1>1, LoggerAppends DEF FilesInv, Environment
<1>4. KeepHandle
  BY DEF Environment
<1>5. CASE d \in files' \ files
  <2>1. reading' = [reading EXCEPT !.replaced = TRUE, !.held = Content]
    BY <1>4, <1>5 DEF KeepHandle
  <2>2. /\ reading' \in [day : Days, at : Nat, replaced : BOOLEAN, held : Seq(Fragments)]
        /\ reading'.replaced /\ reading'.held = Content
        /\ reading'.at = reading.at /\ reading'.day = reading.day
    BY <1>1, <2>1
  <2>3. Content' = Content
    BY <2>2 DEF Content
  <2> QED BY <1>1, <1>5, <2>2, <2>3, PrefixOfItself
<1>6. CASE d \notin files' \ files
  <2>1. reading' = reading
    BY <1>4, <1>6 DEF KeepHandle
  <2>2. CASE reading.replaced
    <3>1. Content' = Content
      BY <2>1, <2>2 DEF Content
    <3> QED BY <1>1, <2>1, <3>1, PrefixOfItself
  <2>3. CASE ~reading.replaced
    <3>1. Content = data[d] /\ Content' = data'[d]
      BY <2>1, <2>3 DEF Content
    <3> QED BY <1>1, <1>2, <1>3, <1>6, <2>1, <3>1
  <2> QED BY <2>2, <2>3
<1> QED BY <1>5, <1>6

\* A set of numbers has the minimum that Min chooses.
LEMMA MinIsLeast ==
  ASSUME NEW T \in SUBSET Nat, T # {}
  PROVE  Min(T) \in T /\ \A y \in T : Min(T) <= y
BY LeastNat DEF Min

\* A line ends at the first line end, or with the file.
LEMMA LineIsRead ==
  ASSUME NEW f \in Seq(Fragments), NEW at \in Nat, at < Len(f)
  PROVE  /\ EndOfLine(f, at) \in at+1..Len(f)
         /\ \A n \in at+1..EndOfLine(f, at)-1 : ~f[n].ends
         /\ f[EndOfLine(f, at)].ends \/ EndOfLine(f, at) = Len(f)
         /\ LineOf(f, at) \in Fragments
<1> DEFINE ends == {n \in at+1..Len(f) : f[n].ends}
           end == EndOfLine(f, at)
<1>0. Len(f) \in Nat /\ \A n \in at+1..Len(f) : n \in ends <=> f[n].ends
  OBVIOUS
<1>1. /\ end \in at+1..Len(f)
      /\ \A n \in at+1..end-1 : ~f[n].ends
      /\ f[end].ends \/ end = Len(f)
  <2>1. CASE ends = {}
    <3>1. end = Len(f)
      BY <2>1 DEF EndOfLine
    <3>2. \A n \in at+1..Len(f) : ~f[n].ends
      BY <2>1
    <3> HIDE DEF end, ends
    <3> QED BY <1>0, <3>1, <3>2
  <2>2. CASE ends # {}
    <3>1. end = Min(ends)
      BY <2>2 DEF EndOfLine
    <3>2. ends \in SUBSET Nat
      OBVIOUS
    <3>3. \A n \in ends : n \in at+1..Len(f) /\ f[n].ends
      OBVIOUS
    <3> HIDE DEF ends, end
    <3>4. end \in ends /\ \A y \in ends : end <= y
      BY <2>2, <3>1, <3>2, MinIsLeast
    <3> QED BY <1>0, <3>3, <3>4
  <2> QED BY <2>1, <2>2
<1>2. LineOf(f, at) \in Fragments
  <2>1. f[end] \in Fragments
    BY <1>1
  <2>2. LineOf(f, at) = f[end] \/ LineOf(f, at) = [f[end] EXCEPT !.form = "garbage"]
    BY DEF LineOf
  <2> HIDE DEF end
  <2> QED BY <2>1, <2>2 DEF Fragments, Forms
<1> QED BY <1>1, <1>2

\* The next line of an open file.
LEMMA NextLine ==
  ASSUME Stored, Held, reading # NoFile, ~AtEnd
  PROVE  /\ TheLine \in Fragments
         /\ EndOfLine(Content, reading.at) \in reading.at+1..Len(Content)
<1>1. Content \in Seq(Fragments) /\ reading.at \in Nat /\ reading.at < Len(Content)
  BY ContentTyped DEF AtEnd
<1> QED BY <1>1, LineIsRead DEF TheLine

\* The next line, seen from a beginning of the file: it ends at the first line
\* end there is, and is whole if the fragment before it ended one.
LEMMA LineOfPrefix ==
  ASSUME NEW s \in Seq(Fragments), NEW f \in Seq(Fragments), IsPrefix(s, f),
         NEW at \in Nat, at < Len(f), at = 0 \/ at >= Len(s) \/ s[at].ends,
         NEW e, e = EndOfLine(f, at), NEW line, line = LineOf(f, at)
  PROVE  /\ e \in at+1..Len(f) /\ line \in Fragments
         /\ \A n \in at+1..e-1 : n <= Len(s) => ~s[n].ends
         /\ e >= Len(s) \/ s[e].ends
         /\ e <= Len(s) =>
              /\ line.ts = s[e].ts
              /\ IF e = 1 \/ s[e-1].ends THEN line = s[e] ELSE line.form = "garbage"
<1>1. /\ e \in at+1..Len(f) /\ line \in Fragments
      /\ \A n \in at+1..e-1 : ~f[n].ends
      /\ f[e].ends \/ e = Len(f)
  BY LineIsRead
<1>2. Len(s) \in Nat /\ Len(f) \in Nat /\ Len(s) <= Len(f) /\ \A n \in 1..Len(s) : s[n] = f[n]
  BY PrefixShorter
<1>3. \A n \in at+1..e-1 : n <= Len(s) => ~s[n].ends
  BY <1>1, <1>2
<1>4. e >= Len(s) \/ s[e].ends
  BY <1>1, <1>2
<1>5. ASSUME e <= Len(s)
      PROVE  /\ line.ts = s[e].ts
             /\ IF e = 1 \/ s[e-1].ends THEN line = s[e] ELSE line.form = "garbage"
  <2>1. s[e] = f[e] /\ f[e] \in Fragments
    BY <1>1, <1>2, <1>5
  <2>2. line = IF e = at + 1 THEN f[e] ELSE [f[e] EXCEPT !.form = "garbage"]
    BY DEF LineOf
  <2>3. [f[e] EXCEPT !.form = "garbage"].ts = f[e].ts /\ [f[e] EXCEPT !.form = "garbage"].form = "garbage"
    BY <2>1 DEF Fragments
  <2>4. CASE e = at + 1
    <3>1. e = 1 \/ s[e-1].ends
      BY <1>1, <1>2, <1>5, <2>4
    <3> QED BY <2>1, <2>2, <2>4, <3>1
  <2>5. CASE e # at + 1
    <3>1. e - 1 \in at+1..e-1 /\ e - 1 <= Len(s) /\ e # 1
      BY <1>1, <1>2, <1>5, <2>5
    <3>2. ~s[e-1].ends
      BY <1>3, <3>1
    <3> QED BY <2>1, <2>2, <2>3, <2>5, <3>1, <3>2
  <2> QED BY <2>4, <2>5
<1> QED BY <1>1, <1>3, <1>4, <1>5

-----------------------------------------------------------------------------
(* The pass over the window. *)

Active == pc \in {"open", "guard", "truncate", "stream"}

\* The pass is well typed, and nothing happens in it before the selection.
PassTyped ==
  /\ pc \in {"config", "window", "open", "guard", "truncate", "stream", "done"}
  /\ chosen \subseteq Days /\ pending \subseteq chosen
  /\ skipped \in Nat
  /\ seen \in Seq([day : Days, at : Nat, line : Fragments])
  /\ start \in [Days -> Seq(Fragments)]
  /\ pc \in {"config", "window"} =>
       reading = NoFile /\ seen = <<>> /\ changed = {} /\ lost = {}
  /\ Active => window \in [since : Int, until : Int]

\* The files that were not selected hold nothing of the window.
Padded == Active => \A d \in Days \ chosen : \A n \in 1..Len(start[d]) : ~Inside(start[d][n])

\* What is read begins with what was selected, and is just that where nothing
\* was written since; what has been read of it ends at a line end.
Follows ==
  Active =>
    /\ reading # NoFile /\ reading.day \notin lost =>
         /\ IsPrefix(start[reading.day], Content)
         /\ \/ reading.at = 0
            \/ reading.at >= Len(start[reading.day])
            \/ start[reading.day][reading.at].ends
    /\ reading # NoFile /\ reading.day \notin changed => ~reading.replaced
    /\ \A d \in chosen \ (changed \cup lost) :
         data[d] = start[d] \/ (pc # "stream" /\ d = output.day)

\* The files are taken in order, and so are their lines.
InTurn ==
  Active =>
    /\ reading # NoFile =>
         reading.day \in chosen \ pending /\ \A d \in pending : reading.day < d
    /\ \A n \in 1..Len(seen) :
         /\ Inside(seen[n].line)
         /\ \A d \in pending : seen[n].day < d
         /\ reading # NoFile => seen[n].day < reading.day
                                \/ (seen[n].day = reading.day /\ seen[n].at <= reading.at)
    /\ \A n \in 2..Len(seen) : Later(seen[n-1], seen[n])

\* The places the pass is done with.
Past(p) ==
  /\ p.day \in chosen \ pending
  /\ reading # NoFile /\ p.day = reading.day => p.at <= reading.at

Taken(p) ==
  \E n \in 1..Len(seen) : seen[n] = [day |-> p.day, at |-> p.at, line |-> start[p.day][p.at]]

Delivered == Active => \A p \in Promised : Past(p) => Taken(p)

\* The places that could not be read so far.
Met == {p \in Unreadable : Past(p)}

Tallied == Active /\ Undisturbed => IsFiniteSet(Met) /\ skipped = Cardinality(Met)

Zoned == zones \in Int \X Int /\ zones[1] - zones[2] \in -DayLength..DayLength

PassInv == Zoned /\ Held /\ PassTyped /\ Padded /\ Follows /\ InTurn /\ Delivered /\ Tallied

\* Nothing is selected, nothing has happened.
LEMMA PassInit == Init => PassInv
<1> SUFFICES ASSUME Init PROVE PassInv
  OBVIOUS
<1>1. /\ reading = NoFile /\ pc = "config" /\ seen = <<>> /\ changed = {} /\ lost = {}
      /\ pending = {} /\ chosen = {} /\ skipped = 0 /\ start = [d \in Days |-> <<>>]
  BY DEF Init, ReaderInit, ReplayInit
<1>2. <<>> \in Seq(Fragments) /\ <<>> \in Seq([day : Days, at : Nat, line : Fragments])
  OBVIOUS
<1>3. Zoned
  BY TimeAssumption, ZonesAssumption DEF Init, WriterInit, Zoned
<1> QED BY <1>1, <1>2, <1>3
        DEF PassInv, Held, PassTyped, Padded, Follows, InTurn, Delivered, Tallied, Active

-----------------------------------------------------------------------------
(* The window. *)

\* The sums of a duration, up to n parts.
Sums(f, d, k) ==
  f = [n \in 0..k |-> IF n = 0 THEN 0 ELSE f[n-1] + d[n].count * UnitSeconds(d[n].unit)]

LEMMA SumsAt ==
  ASSUME NEW f, NEW d, NEW k \in Nat, Sums(f, d, k), NEW n \in 0..k
  PROVE  f[n] = IF n = 0 THEN 0 ELSE f[n-1] + d[n].count * UnitSeconds(d[n].unit)
<1> DEFINE Sum(m) == IF m = 0 THEN 0 ELSE f[m-1] + d[m].count * UnitSeconds(d[m].unit)
<1>1. f = [m \in 0..k |-> Sum(m)]
  BY DEF Sums
<1> HIDE DEF Sum
<1>2. f[n] = Sum(n)
  BY <1>1, Zenon
<1> QED BY <1>2 DEF Sum

\* The sums exist,
LEMMA SumsExist ==
  ASSUME NEW d, NEW k \in Nat PROVE \E f : Sums(f, d, k)
<1> DEFINE A == {m \in Nat : \E f : Sums(f, d, m)}
<1>1. 0 \in A
  <2>1. Sums([n \in 0..0 |-> 0], d, 0)
    BY DEF Sums
  <2> QED BY <2>1
<1>2. ASSUME NEW m \in A PROVE m + 1 \in A
  <2>1. PICK f : Sums(f, d, m)
    OBVIOUS
  <2> DEFINE last == f[m] + d[m+1].count * UnitSeconds(d[m+1].unit)
             g == [n \in 0..m+1 |-> IF n = m + 1 THEN last ELSE f[n]]
  <2>2. \A n \in 0..m+1 :
          g[n] = IF n = 0 THEN 0 ELSE g[n-1] + d[n].count * UnitSeconds(d[n].unit)
    <3> TAKE n \in 0..m+1
    <3>1. n # 0 => g[n-1] = f[n-1]
      OBVIOUS
    <3>2. CASE n = m + 1
      <4>1. g[n] = last /\ n # 0 /\ n - 1 = m
        BY <3>2
      <4> QED BY <3>1, <3>2, <4>1
    <3>3. CASE n # m + 1
      <4>1. n \in 0..m /\ g[n] = f[n]
        BY <3>3
      <4>2. f[n] = IF n = 0 THEN 0 ELSE f[n-1] + d[n].count * UnitSeconds(d[n].unit)
        BY <2>1, <4>1, SumsAt
      <4> QED BY <3>1, <4>1, <4>2
    <3> QED BY <3>2, <3>3
  <2>3. Sums(g, d, m + 1)
    BY <2>2 DEF Sums
  <2> QED BY <2>3
<1> HIDE DEF A
<1>3. k \in A
  BY <1>1, <1>2, Induction DEF A
<1> QED BY <1>3 DEF A

\* and are numbers.
LEMMA SumsTyped ==
  ASSUME NEW d \in Duration, NEW f, Sums(f, d, Len(d))
  PROVE  f[Len(d)] \in Nat
<1> DEFINE Part(n) == d[n].count * UnitSeconds(d[n].unit)
           A == {m \in Nat : m <= Len(d) => f[m] \in Nat}
<1>0. d \in Seq([count : Nat, unit : {"s", "d"}])
  BY DEF Duration
<1>1. Len(d) \in Nat /\ \A n \in 1..Len(d) : d[n] \in [count : Nat, unit : {"s", "d"}]
  <2> DEFINE P == [count : Nat, unit : {"s", "d"}]
  <2>1. d \in Seq(P)
    BY <1>0
  <2> HIDE DEF P
  <2>2. Len(d) \in Nat /\ \A n \in 1..Len(d) : d[n] \in P
    BY <2>1
  <2> QED BY <2>2 DEF P
<1>2. \A n \in 1..Len(d) : Part(n) \in Nat
  <2> TAKE n \in 1..Len(d)
  <2>1. d[n].count \in Nat /\ UnitSeconds(d[n].unit) \in Nat
    <3>1. PICK day \in Nat : day = DayLength
      BY TimeAssumption
    <3>2. WholeSeconds(day) \in Nat
      <4>1. day \in Int /\ day >= 0
        BY ONLY <3>1
      <4> QED BY ONLY <4>1, WholeSecondsIs
    <3>3. \A u : UnitSeconds(u) \in Nat
      BY <3>1, <3>2 DEF UnitSeconds
    <3> QED BY <1>1, <3>3
  <2> DEFINE a == d[n].count
             b == UnitSeconds(d[n].unit)
  <2> HIDE DEF a, b
  <2>2. a * b \in Nat
    BY <2>1 DEF a, b
  <2> QED BY <2>2 DEF a, b
<1>3. \A n \in 0..Len(d) : f[n] = IF n = 0 THEN 0 ELSE f[n-1] + Part(n)
  BY <1>1, SumsAt
<1> HIDE DEF Part
<1>4. 0 \in A
  BY <1>1, <1>3
<1>5. ASSUME NEW m \in A PROVE m + 1 \in A
  <2> SUFFICES ASSUME m + 1 <= Len(d) PROVE f[m+1] \in Nat
    OBVIOUS
  <2>1. f[m] \in Nat /\ m + 1 \in 1..Len(d) /\ m + 1 \in 0..Len(d)
    BY <1>1
  <2>2. f[m+1] = f[m] + Part(m+1)
    <3>1. m + 1 # 0 /\ (m + 1) - 1 = m
      OBVIOUS
    <3> QED BY <1>3, <2>1, <3>1
  <2>3. Part(m+1) \in Nat
    BY <1>2, <2>1
  <2> QED BY <2>1, <2>2, <2>3
<1> HIDE DEF A
<1>6. Len(d) \in A
  BY <1>1, <1>4, <1>5, Induction DEF A
<1> QED BY <1>1, <1>6 DEF A

LEMMA DurationIsNumber ==
  ASSUME NEW d \in Duration PROVE DurationSecs(d) \in Nat \cup {Bad}
<1> DEFINE f == CHOOSE g : Sums(g, d, Len(d))
           t == f[Len(d)]
<1>1. Len(d) \in Nat
  BY DEF Duration
<1>2. t \in Nat
  <2>1. Sums(f, d, Len(d))
    BY <1>1, SumsExist
  <2> HIDE DEF f
  <2> QED BY <2>1, SumsTyped
<1>3. DurationSecs(d) = IF d = <<>> \/ t > MaxSeconds \/ t = 0 THEN Bad ELSE t
  BY DEF DurationSecs, Sums
<1> HIDE DEF t
<1> QED BY <1>2, <1>3

\* A window that is accepted has two instants.
LEMMA WindowTyped ==
  ASSUME clock \in Int, zones \in Int \X Int, request \in Requests, WindowOf(request) # Bad
  PROVE  WindowOf(request) \in [since : Int, until : Int]
<1> DEFINE until == Until(request)
           since == Since(request, until)
<1>1. /\ request.until \in When \cup {Unset} /\ request.since \in When \cup {Unset}
      /\ request.last \in Duration
  BY RequestsAssumption
<1>2. \A edge : \A w \in When, z \in Int : ParseWhen(w, z, edge) \in Int \cup {Bad}
  BY TimeAssumption DEF When, ParseWhen
<1>3. until \in Int \cup {Bad}
  BY <1>1, <1>2 DEF Until
<1>4. until # Bad => since \in Int \cup {Bad}
  <2> SUFFICES ASSUME until # Bad PROVE since \in Int \cup {Bad}
    OBVIOUS
  <2>1. CASE request.since # Unset
    BY <1>1, <1>2, <2>1 DEF Since
  <2>2. CASE request.since = Unset
    <3>1. PICK secs : secs = DurationSecs(request.last) /\ secs \in Nat \cup {Bad}
      BY <1>1, DurationIsNumber
    <3>2. secs # Bad => secs * Second \in Int
      BY <3>1, SecondAssumption
    <3>3. since = IF secs = Bad THEN Bad
                  ELSE IF until - secs * Second < Earliest THEN Bad ELSE until - secs * Second
      BY <2>2, <3>1 DEF Since
    <3> HIDE DEF until, since
    <3> QED BY <1>3, <3>2, <3>3
  <2> QED BY <2>1, <2>2
<1> HIDE DEF until, since
<1>5. until # Bad /\ since # Bad /\ WindowOf(request) = [since |-> since, until |-> until]
  BY DEF WindowOf, until, since
<1> QED BY <1>3, <1>4, <1>5

\* The days around the window hold all of it, in whichever zone it was written.
LEMMA DaysAround ==
  ASSUME NEW t \in Int, NEW a \in Int, NEW b \in Int, NEW mine \in Int, NEW yours \in Int,
         mine - yours \in -DayLength..DayLength, a <= t, t <= b
  PROVE  DayOf(a, yours) - 1 <= DayOf(t, mine) /\ DayOf(t, mine) <= DayOf(b, yours) + 1
<1>1. DayLength \in Nat \ {0}
  BY TimeAssumption
<1>2. \A n \in Int : /\ n \div DayLength \in Int
                     /\ DayLength * (n \div DayLength) <= n
                     /\ n < DayLength * (n \div DayLength) + DayLength
  BY <1>1
<1> QED BY <1>1, <1>2 DEF DayOf

-----------------------------------------------------------------------------
(* The steps of the pass. *)

\* What becomes of a line.
LEMMA OutcomeIs ==
  ASSUME NEW line \in Fragments, window \in [since : Int, until : Int]
  PROVE  /\ InWindow(line.ts, window) <=> Inside(line)
         /\ Outcome(line, window) = "skip" <=>
              \/ line.form \in {"garbage", "oversized"}
              \/ line.form = "nonrecord" /\ Inside(line)
         /\ line.form \in {"json", "python", "foreign"} /\ Inside(line) =>
              Outcome(line, window) = "sample"
<1>1. window # NoWindow
  BY NoWindowAssumption
<1>2. InWindow(line.ts, window) <=> Inside(line)
  BY <1>1 DEF InWindow, Inside
<1>3. line.form \in Forms
  BY DEF Fragments
<1> QED BY <1>2, <1>3 DEF Outcome, Elided, HasLeadingTimestamp, IsJson, Parses, Forms

\* A line is consumed: the places the pass has now passed are those up to its
\* end.
LEMMA HandleMoves ==
  ASSUME Stored, Held, PassTyped, pc = "stream", NEW outcome, Consume(outcome, window),
         UNCHANGED data, pc' \in {"stream", "done"}
  PROVE  LET e == EndOfLine(Content, reading.at) IN
         /\ TheLine \in Fragments /\ e \in reading.at+1..Len(Content)
         /\ reading' \in [day : Days, at : Nat, replaced : BOOLEAN, held : Seq(Fragments)]
         /\ reading'.day = reading.day /\ reading'.at = e /\ reading'.replaced = reading.replaced
         /\ Content' = Content /\ Held' /\ reading # NoFile /\ reading' # NoFile
         /\ UNCHANGED pending
<1> DEFINE e == EndOfLine(Content, reading.at)
<1>1. reading # NoFile /\ ~AtEnd /\ reading' = [reading EXCEPT !.at = e] /\ UNCHANGED pending
  BY DEF Consume
<1>2. /\ TheLine \in Fragments /\ e \in reading.at+1..Len(Content)
      /\ Content \in Seq(Fragments) /\ reading.at \in Nat
  BY <1>1, NextLine, ContentTyped
<1>3. reading \in [day : Days, at : Nat, replaced : BOOLEAN, held : Seq(Fragments)]
  BY <1>1 DEF Held
<1> HIDE DEF e
<1>4. /\ reading' \in [day : Days, at : Nat, replaced : BOOLEAN, held : Seq(Fragments)]
      /\ reading'.day = reading.day /\ reading'.at = e /\ reading'.replaced = reading.replaced
      /\ reading'.held = reading.held
  BY <1>1, <1>2, <1>3
<1>5. Content' = Content
  BY <1>4 DEF Content
<1>6. Held'
  BY <1>2, <1>4, <1>5 DEF Held
<1> QED BY <1>1, <1>2, <1>4, <1>5, <1>6, DayIsOpen DEF e

\* The line that was read, in a file that is as it was selected, or longer.
LEMMA LineFollows ==
  ASSUME Stored, Held, PassTyped, Follows, pc = "stream", reading # NoFile, ~AtEnd,
         reading.day \notin lost,
         NEW e, e = EndOfLine(Content, reading.at), NEW s, s = start[reading.day]
  PROVE  /\ e \in reading.at+1..Len(Content) /\ TheLine \in Fragments
         /\ \A n \in reading.at+1..e-1 : n <= Len(s) => ~s[n].ends
         /\ e >= Len(s) \/ s[e].ends
         /\ e <= Len(s) =>
              /\ TheLine.ts = s[e].ts
              /\ IF Whole(reading.day, e) THEN TheLine = s[e] ELSE TheLine.form = "garbage"
<1>1. /\ Content \in Seq(Fragments) /\ reading.at \in Nat /\ reading.at < Len(Content)
      /\ reading.day \in Days /\ s \in Seq(Fragments)
  BY ContentTyped DEF AtEnd, PassTyped
<1>2. IsPrefix(s, Content) /\ (reading.at = 0 \/ reading.at >= Len(s) \/ s[reading.at].ends)
  BY DEF Follows, Active
<1> DEFINE line == TheLine
           at == reading.at
           f == Content
<1>3. line = LineOf(f, at)
  BY DEF TheLine
<1> HIDE DEF line, at, f
<1>4. /\ e \in at+1..Len(f) /\ line \in Fragments
      /\ \A n \in at+1..e-1 : n <= Len(s) => ~s[n].ends
      /\ e >= Len(s) \/ s[e].ends
      /\ e <= Len(s) =>
           /\ line.ts = s[e].ts
           /\ IF e = 1 \/ s[e-1].ends THEN line = s[e] ELSE line.form = "garbage"
  <2>1. /\ f \in Seq(Fragments) /\ IsPrefix(s, f) /\ at \in Nat /\ at < Len(f)
        /\ (at = 0 \/ at >= Len(s) \/ s[at].ends) /\ e = EndOfLine(f, at)
    BY <1>1, <1>2 DEF at, f
  <2> QED BY <1>1, <1>3, <2>1, LineOfPrefix, SMTT(60)
<1> QED BY <1>4 DEF line, at, f, Whole

LEMMA FollowsOn ==
  ASSUME Stored, Held, PassTyped, Follows, pc = "stream", NEW outcome, Consume(outcome, window),
         UNCHANGED <<data, chosen, start, changed, lost, request, pc>>
  PROVE  Follows'
<1> DEFINE e == EndOfLine(Content, reading.at)
<1>1. /\ reading'.day = reading.day /\ reading'.at = e /\ reading'.replaced = reading.replaced
      /\ Content' = Content /\ reading # NoFile
  BY HandleMoves
<1>2. ~AtEnd
  BY DEF Consume
<1>3. ASSUME reading.day \notin lost
      PROVE  IsPrefix(start[reading.day], Content)
             /\ (e >= Len(start[reading.day]) \/ start[reading.day][e].ends)
  <2>1. IsPrefix(start[reading.day], Content)
    BY <1>1, <1>3 DEF Follows, Active
  <2>2. e >= Len(start[reading.day]) \/ start[reading.day][e].ends
    BY <1>1, <1>2, <1>3, LineFollows
  <2> QED BY <2>1, <2>2
<1>4. /\ reading.day \notin changed => ~reading.replaced
      /\ \A d \in chosen \ (changed \cup lost) : data[d] = start[d]
  BY <1>1 DEF Follows, Active
<1> HIDE DEF e
<1> QED BY <1>1, <1>3, <1>4 DEF Follows

\* A place in a file.
LEMMA PlaceIs ==
  ASSUME PassTyped, NEW days \in SUBSET Days, NEW p \in Places(days)
  PROVE  /\ p.day \in days /\ p.at \in Nat /\ p.at \in 1..Len(start[p.day])
         /\ p = [day |-> p.day, at |-> p.at] /\ Len(start[p.day]) \in Nat
<1>1. PICK d \in days : p \in [day : {d}, at : 1..Len(start[d])]
  BY DEF Places
<1>2. Len(start[d]) \in Nat
  BY DEF PassTyped
<1> QED BY <1>1, <1>2

LEMMA PlacesPassed ==
  ASSUME Stored, Held, PassTyped, InTurn, pc = "stream", NEW outcome, Consume(outcome, window),
         UNCHANGED <<data, chosen, pc>>, NEW p, p.at \in Nat
  PROVE  Past(p)' <=> Past(p) \/ (p.day = reading.day
                                  /\ p.at \in reading.at+1..EndOfLine(Content, reading.at))
<1> DEFINE e == EndOfLine(Content, reading.at)
<1>1. /\ reading'.day = reading.day /\ reading'.at = e
      /\ reading # NoFile /\ reading' # NoFile /\ UNCHANGED pending
      /\ e \in reading.at+1..Len(Content) /\ reading.at \in Nat
  BY HandleMoves, ContentTyped
<1>2. reading.day \in chosen \ pending
  BY <1>1 DEF InTurn, Active
<1> HIDE DEF e
<1>3. Past(p)' <=> p.day \in chosen \ pending /\ (p.day = reading.day => p.at <= e)
  BY <1>1 DEF Past
<1>4. Past(p) <=> p.day \in chosen \ pending /\ (p.day = reading.day => p.at <= reading.at)
  BY <1>1 DEF Past
<1>5. e \in Nat /\ e > reading.at
  BY <1>1
<1> QED BY <1>1, <1>2, <1>3, <1>4, <1>5 DEF e

\* A promised record that is passed is the line that was read, and is given out.
LEMMA PromisePassed ==
  ASSUME Stored, Held, PassTyped, Follows, InTurn, pc = "stream",
         NEW outcome, Consume(outcome, window), UNCHANGED <<data, chosen, pc>>,
         NEW p \in Promised, Past(p)', ~Past(p)
  PROVE  /\ p.day = reading.day /\ p.at = EndOfLine(Content, reading.at)
         /\ TheLine = start[p.day][p.at] /\ Inside(TheLine) /\ outcome = "sample"
<1> DEFINE e == EndOfLine(Content, reading.at)
           s == start[p.day]
<1>1. /\ p \in Places(Days \ lost) /\ s[p.at].ends /\ Inside(s[p.at])
      /\ FormAt(p.day, p.at) \in {"json", "python", "foreign"}
  BY DEF Promised
<1>2. p.day \in Days \ lost /\ p.at \in 1..Len(s) /\ p.at \in Nat /\ Len(s) \in Nat
  <2>1. Days \ lost \in SUBSET Days
    OBVIOUS
  <2> QED BY <1>1, <2>1, PlaceIs
<1>3. p.day = reading.day /\ p.at \in reading.at+1..e
  BY <1>2, PlacesPassed
<1>4. reading # NoFile /\ ~AtEnd /\ reading.at \in Nat
  BY ContentTyped DEF Consume
<1>5. /\ e \in reading.at+1..Len(Content) /\ TheLine \in Fragments
      /\ \A n \in reading.at+1..e-1 : n <= Len(s) => ~s[n].ends
      /\ e <= Len(s) =>
           /\ TheLine.ts = s[e].ts
           /\ IF Whole(reading.day, e) THEN TheLine = s[e] ELSE TheLine.form = "garbage"
  BY <1>2, <1>3, <1>4, LineFollows
<1> HIDE DEF e, s
<1>6. p.at = e
  BY <1>1, <1>2, <1>3, <1>4, <1>5
<1>7. TheLine = s[e] /\ FormAt(p.day, p.at) = s[e].form
  <2>1. Whole(p.day, p.at)
    BY <1>1 DEF FormAt
  <2> QED BY <1>2, <1>3, <1>5, <1>6, <2>1 DEF FormAt, s
<1>8. Inside(TheLine) /\ Outcome(TheLine, window) = "sample"
  BY <1>1, <1>5, <1>6, <1>7, OutcomeIs DEF PassTyped, Active
<1>9. outcome = "sample"
  BY <1>8 DEF Consume
<1> QED BY <1>3, <1>6, <1>7, <1>8, <1>9 DEF e, s

\* A place that could not be read is met when the line that ends there is
\* skipped, and with no other line.
LEMMA UnreadablePassed ==
  ASSUME Stored, Held, PassTyped, Follows, InTurn, Undisturbed, pc = "stream",
         NEW outcome, Consume(outcome, window),
         UNCHANGED <<data, chosen, start, window, pc>>,
         NEW here, here = [day |-> reading.day, at |-> EndOfLine(Content, reading.at)]
  PROVE  /\ here \notin Met
         /\ Met' = IF outcome = "skip" THEN Met \cup {here} ELSE Met
<1> DEFINE e == EndOfLine(Content, reading.at)
           d == reading.day
           s == start[d]
<1>1. reading # NoFile /\ ~AtEnd /\ reading.at \in Nat /\ d \in Days
  BY ContentTyped DEF Consume
<1>2. d \in chosen \ pending /\ d \notin lost /\ d \notin changed
  BY <1>1 DEF InTurn, Active, Undisturbed
<1>3. Content = s
  BY <1>1, <1>2 DEF Follows, Active, Content
<1>4. /\ e \in reading.at+1..Len(s) /\ TheLine \in Fragments /\ Len(s) \in Nat
      /\ \A n \in reading.at+1..e-1 : n <= Len(s) => ~s[n].ends
      /\ e >= Len(s) \/ s[e].ends
      /\ TheLine.ts = s[e].ts
      /\ IF Whole(d, e) THEN TheLine = s[e] ELSE TheLine.form = "garbage"
  <2>1. Len(s) \in Nat
    BY <1>1 DEF PassTyped
  <2>2. e \in reading.at+1..Len(Content) /\ e <= Len(s)
    BY <1>1, <1>2, <1>3, <2>1, LineFollows
  <2> QED BY <1>1, <1>2, <1>3, <2>1, <2>2, LineFollows
<1>5. TheLine.form = FormAt(d, e) /\ (Inside(TheLine) <=> Inside(s[e]))
  BY <1>4 DEF FormAt, Inside
<1>6. outcome = "skip" <=> \/ FormAt(d, e) \in {"garbage", "oversized"}
                           \/ FormAt(d, e) = "nonrecord" /\ Inside(s[e])
  <2>1. outcome = Outcome(TheLine, window)
    BY DEF Consume
  <2> QED BY <1>4, <1>5, <2>1, OutcomeIs DEF PassTyped, Active
<1>7. here \in Places(chosen) /\ here.day = d /\ here.at = e /\ e \in LineEnds(d)
  <2>1. e \in 1..Len(s) /\ (s[e].ends \/ e = Len(s))
    BY <1>1, <1>4
  <2>2. here \in [day : {d}, at : 1..Len(start[d])]
    BY <2>1
  <2> HIDE DEF e, s
  <2>3. e \in LineEnds(d) /\ here.day = d /\ here.at = e
    BY <2>1 DEF LineEnds, e, s
  <2> QED BY <1>2, <2>2, <2>3 DEF Places
<1>8. here \in Unreadable <=> outcome = "skip"
  BY <1>6, <1>7 DEF Unreadable
<1>9. Unreadable' = Unreadable
  BY DEF Unreadable, Places, LineEnds, FormAt, Whole, Inside
<1>10. ASSUME NEW p \in Unreadable
       PROVE  Past(p)' <=> Past(p) \/ p = here
  <2>1. /\ p.at \in Nat /\ p.at \in 1..Len(start[p.day]) /\ p.at \in LineEnds(p.day)
        /\ p = [day |-> p.day, at |-> p.at]
    BY PlaceIs DEF Unreadable, PassTyped
  <2>2. Past(p)' <=> Past(p) \/ (p.day = d /\ p.at \in reading.at+1..e)
    BY <2>1, PlacesPassed
  <2>3. ASSUME p.day = d, p.at \in reading.at+1..e PROVE p.at = e
    <3>1. s[p.at].ends \/ p.at = Len(s)
      BY <2>1, <2>3 DEF LineEnds
    <3> QED BY <1>1, <1>4, <2>1, <2>3, <3>1
  <2>4. e \in reading.at+1..e
    BY <1>1, <1>4
  <2> HIDE DEF e
  <2>5. p = here <=> p.day = d /\ p.at = e
    BY <1>7, <2>1
  <2> QED BY <2>2, <2>3, <2>4, <2>5
<1>11. ~Past(here)
  BY <1>1, <1>4, <1>7 DEF Past
<1> QED BY <1>8, <1>9, <1>10, <1>11 DEF Met

\* What is not read of the pass.
Kept == UNCHANGED <<command, request, pc, window, exit, chosen, start, changed>>

LEMMA PaddedStays ==
  ASSUME Padded, Active, UNCHANGED <<chosen, start, window>> PROVE Padded'
BY DEF Padded, Inside

LEMMA MetOn ==
  ASSUME Active, Tallied, Undisturbed, IsFiniteSet(Met), skipped = Cardinality(Met),
         skipped \in Nat, NEW here, here \notin Met, Met' = Met \cup {here}, skipped' = skipped + 1
  PROVE  IsFiniteSet(Met') /\ skipped' = Cardinality(Met')
BY FS_AddElement

LEMMA SeenTyped ==
  ASSUME PassTyped
  PROVE  /\ Len(seen) \in Nat
         /\ \A n \in 1..Len(seen) :
              seen[n].day \in Days /\ seen[n].at \in Nat /\ seen[n].line \in Fragments
<1> DEFINE P == [day : Days, at : Nat, line : Fragments]
<1>1. seen \in Seq(P)
  BY DEF PassTyped
<1> HIDE DEF P
<1>2. Len(seen) \in Nat /\ \A n \in 1..Len(seen) : seen[n] \in P
  BY <1>1
<1> QED BY <1>2 DEF P

\* A line that yields no sample for the command.
LEMMA LinePasses ==
  ASSUME FilesInv, PassInv, ReadOn, UNCHANGED writerVars,
         SkipLine(window) \/ SilentLine(window) \/ (SampleLine(window) /\ Outside), UNCHANGED lost
  PROVE  PassInv'
<1> USE DEF FilesInv, PassInv
<1>1. PICK outcome \in {"skip", "silent", "sample"} :
        /\ Consume(outcome, window)
        /\ outcome = "sample" => ~Inside(TheLine)
        /\ skipped' = IF outcome = "skip" THEN skipped + 1 ELSE skipped
  <2>1. CASE SkipLine(window)
    BY <2>1 DEF SkipLine
  <2>2. CASE SilentLine(window)
    BY <2>2 DEF SilentLine
  <2>3. CASE SampleLine(window) /\ Outside
    <3>1. ~InWindow(TheLine.ts, window)
      BY <2>3 DEF Outside
    <3>2. ~Inside(TheLine)
      BY <3>1 DEF InWindow, Inside
    <3> QED BY <2>3, <3>2 DEF SampleLine
  <2> QED BY <2>1, <2>2, <2>3
<1>2. /\ pc = "stream" /\ Kept /\ UNCHANGED <<seen, data, zones, lost>>
  BY DEF ReadOn, Kept, writerVars
<1>3. /\ Held' /\ UNCHANGED pending /\ reading # NoFile /\ reading' # NoFile
      /\ reading'.day = reading.day /\ reading'.at > reading.at /\ reading.at \in Nat
      /\ reading'.at \in Nat
  <2>1. reading # NoFile
    BY <1>1 DEF Consume
  <2> QED BY <1>1, <1>2, <2>1, HandleMoves, ContentTyped DEF Kept
<1>4. Zoned' /\ PassTyped' /\ Padded'
  <2>1. skipped' \in Nat
    BY <1>1 DEF PassTyped
  <2>2. Padded'
    BY <1>2, PaddedStays DEF Active, Kept
  <2> QED BY <1>2, <1>3, <2>1, <2>2 DEF Zoned, PassTyped, Kept, Active
<1>5. Follows'
  BY <1>1, <1>2, FollowsOn DEF Kept
<1>6. InTurn'
  <2>1. \A n \in 1..Len(seen) : seen[n].day \in Int /\ seen[n].at \in Nat
    BY SeenTyped DEF Days
  <2>2. Active /\ UNCHANGED <<chosen, pending, window, seen>>
    BY <1>2, <1>3 DEF Active, Kept
  <2>3. \A n \in 1..Len(seen) :
          seen[n].day < reading'.day \/ (seen[n].day = reading'.day /\ seen[n].at <= reading'.at)
    BY <1>3, <2>1, <2>2 DEF InTurn
  <2>4. reading'.day \in chosen \ pending /\ \A d \in pending : reading'.day < d
    BY <1>3, <2>2 DEF InTurn
  <2> QED BY <2>2, <2>3, <2>4 DEF InTurn, Inside
<1>7. Delivered'
  <2>1. Promised' = Promised
    BY <1>2 DEF Promised, Places, FormAt, Whole, Inside, Kept
  <2>2. ASSUME NEW p \in Promised, Past(p)' PROVE Past(p)
    BY <1>1, <1>2, <2>2, PromisePassed DEF Kept
  <2> QED BY <1>2, <2>1, <2>2 DEF Delivered, Active, Taken, Kept
<1>8. Tallied'
  <2> SUFFICES ASSUME Undisturbed PROVE IsFiniteSet(Met') /\ skipped' = Cardinality(Met')
    BY <1>2 DEF Tallied, Undisturbed, Kept
  <2> DEFINE here == [day |-> reading.day, at |-> EndOfLine(Content, reading.at)]
  <2>1. here \notin Met /\ Met' = IF outcome = "skip" THEN Met \cup {here} ELSE Met
    BY <1>1, <1>2, UnreadablePassed DEF Kept
  <2>2. Active /\ IsFiniteSet(Met) /\ skipped = Cardinality(Met) /\ skipped \in Nat
    BY <1>2 DEF Tallied, Active, PassTyped
  <2> HIDE DEF here
  <2> QED BY <1>1, <2>1, <2>2, MetOn
<1> QED BY <1>3, <1>4, <1>5, <1>6, <1>7, <1>8

\* A sample of the window is taken into account.
LEMMA SampleTaken ==
  ASSUME FilesInv, PassInv, TakeSample, UNCHANGED writerVars
  PROVE  PassInv'
<1> USE DEF FilesInv, PassInv
<1> DEFINE new == [day |-> reading.day, at |-> reading'.at, line |-> TheLine]
<1>1. /\ Consume("sample", window) /\ UNCHANGED skipped
      /\ pc = "stream" /\ Kept /\ UNCHANGED <<data, zones, lost>>
      /\ seen' = Append(seen, new) /\ ~Outside
  BY DEF TakeSample, SampleLine, Kept, writerVars
<1>2. /\ Held' /\ UNCHANGED pending /\ reading # NoFile /\ reading' # NoFile
      /\ reading'.day = reading.day /\ reading'.at > reading.at /\ reading.at \in Nat
      /\ reading'.at \in Nat /\ TheLine \in Fragments /\ reading.day \in Days
      /\ reading'.at = EndOfLine(Content, reading.at)
  <2>1. reading # NoFile
    BY <1>1 DEF Consume
  <2> QED BY <1>1, <2>1, HandleMoves, ContentTyped DEF Kept
<1>3. Inside(TheLine)
  BY <1>1, <1>2, OutcomeIs DEF Outside, PassTyped, Active
<1>4. /\ seen' \in Seq([day : Days, at : Nat, line : Fragments])
      /\ Len(seen') = Len(seen) + 1 /\ Len(seen) \in Nat
      /\ seen'[Len(seen) + 1] = new
      /\ \A n \in 1..Len(seen) : seen'[n] = seen[n]
  <2> DEFINE P == [day : Days, at : Nat, line : Fragments]
  <2>1. new \in P /\ seen \in Seq(P)
    BY <1>2 DEF PassTyped
  <2> HIDE DEF P, new
  <2>2. seen' \in Seq(P) /\ Len(seen') = Len(seen) + 1 /\ Len(seen) \in Nat
        /\ seen'[Len(seen) + 1] = new /\ \A n \in 1..Len(seen) : seen'[n] = seen[n]
    BY <1>1, <2>1, AppendProperties
  <2> QED BY <2>2 DEF P
<1>5. Zoned' /\ PassTyped' /\ Padded'
  <2>1. Padded'
    BY <1>1, PaddedStays DEF Active, Kept
  <2> QED BY <1>1, <1>2, <1>4, <2>1 DEF Zoned, PassTyped, Kept, Active
<1>6. Follows'
  BY <1>1, FollowsOn DEF Kept
<1>7. /\ new.day = reading.day /\ new.at = reading'.at /\ new.line = TheLine
  OBVIOUS
<1>8. InTurn'
  <2>0. Active /\ Active' /\ UNCHANGED <<chosen, window>>
    BY <1>1 DEF Active, Kept
  <2>1. reading'.day \in chosen \ pending /\ \A d \in pending : reading'.day < d
    BY <1>2, <2>0 DEF InTurn
  <2>2. \A n \in 1..Len(seen) :
          /\ Inside(seen[n].line)
          /\ \A d \in pending : seen[n].day < d
          /\ seen[n].day < reading.day \/ (seen[n].day = reading.day /\ seen[n].at <= reading.at)
          /\ seen[n].day \in Int /\ seen[n].at \in Int
    BY <1>2, <2>0, SeenTyped DEF InTurn, Days
  <2> HIDE DEF new
  <2>3. \A n \in 1..Len(seen') :
          /\ Inside(seen'[n].line)
          /\ \A d \in pending : seen'[n].day < d
          /\ seen'[n].day < reading.day
             \/ (seen'[n].day = reading.day /\ seen'[n].at <= reading'.at)
    <3> TAKE n \in 1..Len(seen')
    <3>1. CASE n = Len(seen) + 1
      BY <1>2, <1>3, <1>4, <1>7, <2>1, <3>1
    <3>2. CASE n # Len(seen) + 1
      <4>1. n \in 1..Len(seen) /\ seen'[n] = seen[n]
        BY <1>4, <3>2
      <4> QED BY <1>2, <2>2, <4>1
    <3> QED BY <3>1, <3>2
  <2>4. \A n \in 2..Len(seen') : Later(seen'[n-1], seen'[n])
    <3> TAKE n \in 2..Len(seen')
    <3>1. CASE n = Len(seen) + 1
      <4>1. n - 1 \in 1..Len(seen) /\ seen'[n-1] = seen[n-1] /\ seen'[n] = new
        BY <1>4, <3>1
      <4> QED BY <1>2, <1>7, <2>2, <4>1, SMTT(30) DEF Later
    <3>2. CASE n # Len(seen) + 1
      <4>1. n \in 2..Len(seen) /\ n - 1 \in 1..Len(seen) /\ n \in 1..Len(seen)
        BY <1>4, <3>2
      <4>2. seen'[n] = seen[n] /\ seen'[n-1] = seen[n-1]
        BY <1>4, <4>1
      <4> QED BY <2>0, <4>1, <4>2 DEF InTurn
    <3> QED BY <3>1, <3>2
  <2>5. \A n \in 1..Len(seen') :
          window'.since <= seen'[n].line.ts /\ seen'[n].line.ts <= window'.until
    BY <2>0, <2>3 DEF Inside
  <2>6. \A n \in 2..Len(seen') : Later(seen[n-1], seen[n])'
    BY <2>4 DEF Later
  <2> QED BY <1>2, <2>0, <2>1, <2>3, <2>5, <2>6 DEF InTurn, Inside
<1>9. Delivered'
  <2>1. Promised' = Promised
    BY <1>1 DEF Promised, Places, FormAt, Whole, Inside, Kept
  <2>2. ASSUME NEW p \in Promised, Taken(p) PROVE Taken(p)'
    <3>1. PICK n \in 1..Len(seen) :
            seen[n] = [day |-> p.day, at |-> p.at, line |-> start[p.day][p.at]]
      BY <2>2 DEF Taken
    <3>2. n \in 1..Len(seen') /\ seen'[n] = seen[n] /\ UNCHANGED start
      BY <1>1, <1>4 DEF Kept
    <3> QED BY <3>1, <3>2 DEF Taken
  <2>3. ASSUME NEW p \in Promised, Past(p)', ~Past(p) PROVE Taken(p)'
    <3>1. p.day = reading.day /\ p.at = reading'.at /\ TheLine = start[p.day][p.at]
      BY <1>1, <1>2, <2>3, PromisePassed DEF Kept
    <3>2. Len(seen) + 1 \in 1..Len(seen') /\ seen'[Len(seen) + 1] = new /\ UNCHANGED start
      BY <1>1, <1>4 DEF Kept
    <3> QED BY <3>1, <3>2 DEF Taken
  <2> QED BY <1>1, <2>1, <2>2, <2>3 DEF Delivered, Active, Kept
<1>10. Tallied'
  <2> SUFFICES ASSUME Undisturbed PROVE IsFiniteSet(Met') /\ skipped' = Cardinality(Met')
    BY <1>1 DEF Tallied, Undisturbed, Kept
  <2> DEFINE here == [day |-> reading.day, at |-> EndOfLine(Content, reading.at)]
  <2>1. Met' = IF "sample" = "skip" THEN Met \cup {here} ELSE Met
    BY <1>1, UnreadablePassed DEF Kept
  <2> QED BY <1>1, <2>1 DEF Tallied, Active
<1> QED BY <1>2, <1>5, <1>6, <1>8, <1>9, <1>10

\* A file that is lost takes its promises with it, and makes none.
LEMMA PromisesShrink ==
  ASSUME lost \subseteq lost', UNCHANGED <<start, window>>
  PROVE  Promised' \subseteq Promised /\ \A p \in Promised' : p.day \in Days \ lost'
<1>1. Promised' = {p \in Places(Days \ lost') :
                     /\ start[p.day][p.at].ends
                     /\ FormAt(p.day, p.at) \in {"json", "python", "foreign"}
                     /\ Inside(start[p.day][p.at])}
  BY DEF Promised, Places, FormAt, Whole, Inside
<1>2. Places(Days \ lost') \subseteq Places(Days \ lost)
  BY DEF Places
<1>3. \A p \in Places(Days \ lost') : p.day \in Days \ lost'
  BY DEF Places
<1> QED BY <1>1, <1>2, <1>3 DEF Promised

LEMMA MetStays ==
  ASSUME UNCHANGED <<chosen, start, window>>, \A p \in Unreadable : Past(p)' <=> Past(p)
  PROVE  Met' = Met
<1>1. Unreadable' = Unreadable
  BY DEF Unreadable, Places, LineEnds, FormAt, Whole, Inside
<1> QED BY <1>1 DEF Met

LEMMA TalliedOn ==
  ASSUME Active, Tallied, lost \subseteq lost', changed \subseteq changed',
         UNCHANGED <<chosen, skipped>>, Undisturbed' => Met' = Met
  PROVE  Tallied'
BY DEF Tallied, Undisturbed

\* The next file is opened, or cannot be.
LEMMA FileOpened ==
  ASSUME FilesInv, PassInv, ReadOn, UNCHANGED writerVars,
         NextFile, lost' = IF Same(reading'.day) THEN lost ELSE lost \cup {Min(pending)}
  PROVE  PassInv'
<1> USE DEF FilesInv, PassInv
<1> DEFINE m == Min(pending)
<1>1. /\ pc = "stream" /\ Kept /\ UNCHANGED <<seen, data, zones, skipped>>
      /\ reading = NoFile /\ pending' = pending \ {m}
      /\ reading' = Open(m) \/ reading' = NoFile
  BY DEF ReadOn, Kept, writerVars, NextFile
<1>2. m \in pending /\ m \in Days /\ m \in chosen /\ \A d \in pending : m <= d
  <2>1. pending \in SUBSET Nat /\ pending \subseteq Days /\ pending # {} /\ pending \subseteq chosen
    BY DEF NextFile, PassTyped, Days
  <2> QED BY <2>1, MinIsLeast
<1>3. NoFile.day = NoDay /\ ~Same(NoDay)
  BY DEF NoFile, Open, Same
<1> HIDE DEF m
<1>4. lost \subseteq lost' /\ (m \notin lost' => reading' = Open(m) /\ Same(m))
  <2>1. lost' = IF Same(reading'.day) THEN lost ELSE lost \cup {m}
    BY DEF m
  <2>2. Open(m).day = m
    BY DEF Open
  <2> QED BY <1>1, <1>3, <2>1, <2>2
<1>5. reading' = Open(m) =>
        /\ reading' \in [day : Days, at : Nat, replaced : BOOLEAN, held : Seq(Fragments)]
        /\ reading'.day = m /\ reading'.at = 0 /\ ~reading'.replaced /\ reading' # NoFile
        /\ Content' = data[m] /\ data[m] \in Seq(Fragments)
  <2> SUFFICES ASSUME reading' = Open(m)
               PROVE  /\ reading' \in [day : Days, at : Nat, replaced : BOOLEAN, held : Seq(Fragments)]
                      /\ reading'.day = m /\ reading'.at = 0 /\ ~reading'.replaced /\ reading' # NoFile
                      /\ Content' = data[m] /\ data[m] \in Seq(Fragments)
    OBVIOUS
  <2>1. <<>> \in Seq(Fragments)
    OBVIOUS
  <2>2. /\ reading' \in [day : Days, at : Nat, replaced : BOOLEAN, held : Seq(Fragments)]
        /\ reading'.day = m /\ reading'.at = 0 /\ ~reading'.replaced
    BY <1>2, <2>1 DEF Open
  <2> QED BY <1>1, <1>2, <2>2, DayIsOpen DEF Content, Stored
<1>6. Held'
  BY <1>1, <1>5 DEF Held, Kept
<1>7. Zoned' /\ PassTyped' /\ Padded'
  <2>1. Padded'
    BY <1>1, PaddedStays DEF Active, Kept
  <2> QED BY <1>1, <2>1 DEF Zoned, PassTyped, Kept, Active
<1>8. Follows'
  <2>1. reading' # NoFile /\ m \notin lost' => IsPrefix(start[m], Content')
    BY <1>4, <1>5 DEF Same
  <2>2. \A d \in chosen \ (changed \cup lost') : data[d] = start[d]
    BY <1>1, <1>4 DEF Follows, Active
  <2>3. reading' # NoFile => reading' = Open(m)
    BY <1>1
  <2> QED BY <1>1, <1>5, <2>1, <2>2, <2>3 DEF Follows, Kept
<1>9. InTurn'
  <2>1. Active /\ UNCHANGED <<chosen, window, seen>>
    BY <1>1 DEF Active, Kept
  <2>2. \A d \in pending' : d \in pending /\ d \in Int /\ m < d
    BY <1>1, <1>2 DEF PassTyped, Days
  <2>3. \A n \in 1..Len(seen) : seen[n].day < m
    BY <1>2, <2>1 DEF InTurn
  <2>4. m \in chosen \ pending'
    BY <1>1, <1>2
  <2>5. reading' # NoFile => reading'.day = m
    BY <1>1, <1>5
  <2> QED BY <2>1, <2>2, <2>3, <2>4, <2>5 DEF InTurn, Inside
<1>10. ASSUME NEW p, p.day \notin lost', p.at \in Nat \ {0}
       PROVE  Past(p)' <=> Past(p)
  <2>1. CASE p.day = m
    <3>1. reading' # NoFile /\ reading'.day = m /\ reading'.at = 0
      BY <1>4, <1>5, <1>10, <2>1
    <3> QED BY <1>2, <1>10, <2>1, <3>1 DEF Past
  <2>2. CASE p.day # m
    <3>1. reading' # NoFile => reading'.day = m
      BY <1>1, <1>5
    <3> QED BY <1>1, <2>2, <3>1 DEF Past, Kept
  <2> QED BY <2>1, <2>2
<1>11. Delivered'
  <2>1. Promised' \subseteq Promised /\ \A p \in Promised' : p.day \in Days \ lost'
    BY <1>1, <1>4, PromisesShrink DEF Kept
  <2>2. ASSUME NEW p \in Promised', Past(p)' PROVE Past(p)
    <3>1. p \in Places(Days \ lost)
      BY <2>1 DEF Promised
    <3>2. p.at \in Nat \ {0}
      <4>1. Days \ lost \in SUBSET Days
        OBVIOUS
      <4> QED BY <3>1, <4>1, PlaceIs
    <3> QED BY <1>10, <2>1, <2>2, <3>2
  <2> QED BY <1>1, <2>1, <2>2 DEF Delivered, Active, Taken, Kept
<1>12. Tallied'
  <2>1. ASSUME Undisturbed' PROVE Met' = Met
    <3>1. \A p \in Unreadable : p.at \in Nat \ {0}
      BY PlaceIs DEF Unreadable, PassTyped
    <3>2. lost' = {}
      BY <2>1 DEF Undisturbed
    <3> QED BY <1>1, <1>10, <3>1, <3>2, MetStays DEF Kept
  <2> QED BY <1>1, <1>4, <2>1, TalliedOn DEF Active, Kept
<1> QED BY <1>6, <1>7, <1>8, <1>9, <1>11, <1>12

\* The file that was open is left, at its end or before it.
LEMMA FileLeft ==
  ASSUME FilesInv, PassInv, ReadOn, UNCHANGED writerVars,
         EndFile, lost' = IF AtEnd THEN lost ELSE lost \cup {reading.day}
  PROVE  PassInv'
<1> USE DEF FilesInv, PassInv
<1>1. /\ pc = "stream" /\ Kept /\ UNCHANGED <<seen, data, zones, skipped, pending>>
      /\ reading # NoFile /\ reading' = NoFile /\ lost \subseteq lost'
  BY DEF ReadOn, Kept, writerVars, EndFile
<1>2. Held' /\ Zoned' /\ PassTyped' /\ Padded'
  <2>1. Padded'
    BY <1>1, PaddedStays DEF Active, Kept
  <2> QED BY <1>1, <2>1 DEF Held, Zoned, PassTyped, Kept, Active
<1>3. Follows'
  BY <1>1 DEF Follows, Active, Kept
<1>4. InTurn'
  BY <1>1 DEF InTurn, Active, Kept, Inside
<1>5. ASSUME NEW p, p.day \notin lost', p.at \in Nat, p.at <= Len(start[p.day])
      PROVE  Past(p)' <=> Past(p)
  <2>1. CASE p.day = reading.day
    <3>1. reading.day \notin lost /\ reading.at = Len(Content)
      BY <1>5, <2>1 DEF AtEnd
    <3>2. start[reading.day] \in Seq(Fragments) /\ Content \in Seq(Fragments)
      BY <1>1, ContentTyped DEF PassTyped
    <3>3. IsPrefix(start[reading.day], Content)
      BY <1>1, <3>1 DEF Follows, Active
    <3>4. Len(start[reading.day]) <= Len(Content) /\ Len(start[reading.day]) \in Nat
      BY <3>2, <3>3, PrefixShorter
    <3>5. p.at <= reading.at
      BY <1>5, <2>1, <3>1, <3>2, <3>4
    <3> QED BY <1>1, <2>1, <3>5 DEF Past, Kept
  <2>2. CASE p.day # reading.day
    BY <1>1, <2>2 DEF Past, Kept
  <2> QED BY <2>1, <2>2
<1>6. Delivered'
  <2>1. Promised' \subseteq Promised /\ \A p \in Promised' : p.day \in Days \ lost'
    BY <1>1, PromisesShrink DEF Kept
  <2>2. ASSUME NEW p \in Promised', Past(p)' PROVE Past(p)
    <3>1. p \in Places(Days \ lost)
      BY <2>1 DEF Promised
    <3>2. p.at \in Nat /\ p.at <= Len(start[p.day])
      <4>1. Days \ lost \in SUBSET Days
        OBVIOUS
      <4> QED BY <3>1, <4>1, PlaceIs
    <3> QED BY <1>5, <2>1, <2>2, <3>2
  <2> QED BY <1>1, <2>1, <2>2 DEF Delivered, Active, Taken, Kept
<1>7. Tallied'
  <2>1. ASSUME Undisturbed' PROVE Met' = Met
    <3>1. \A p \in Unreadable : p.at \in Nat /\ p.at <= Len(start[p.day])
      BY PlaceIs DEF Unreadable, PassTyped
    <3>2. lost' = {}
      BY <2>1 DEF Undisturbed
    <3> QED BY <1>1, <1>5, <3>1, <3>2, MetStays DEF Kept
  <2> QED BY <1>1, <2>1, TalliedOn DEF Active, Kept
<1> QED BY <1>2, <1>3, <1>4, <1>6, <1>7

LEMMA ReadsOn ==
  ASSUME FilesInv, PassInv, ReadOn, UNCHANGED writerVars PROVE PassInv'
BY FileOpened, FileLeft, LinePasses DEF ReadOn

\* A run that has not selected its files, or that is over.
LEMMA PassRests ==
  ASSUME PassInv, pc' \in {"window", "done"}, pc' = "window" => pc = "config",
         UNCHANGED <<zones, replayVars, chosen, start, changed, seen>>,
         UNCHANGED <<data, lost>> \/ pc = "truncate"
  PROVE  PassInv'
<1> USE DEF PassInv, replayVars
<1>1. ~Active'
  BY DEF Active
<1>2. Zoned' /\ Held' /\ PassTyped'
  <2>1. CASE UNCHANGED <<data, lost>>
    BY <1>1, <2>1 DEF Zoned, Held, Content, PassTyped
  <2>2. CASE pc = "truncate"
    <3>1. reading = NoFile
      BY <2>2 DEF Held
    <3> QED BY <1>1, <2>2, <3>1 DEF Zoned, Held, PassTyped
  <2> QED BY <2>1, <2>2
<1> QED BY <1>1, <1>2 DEF Padded, Follows, InTurn, Delivered, Tallied

\* A row that could not be written ends the run.
LEMMA PushEnds ==
  ASSUME FilesInv, PassInv, PushFails
  PROVE  PassInv'
<1> USE DEF FilesInv, PassInv
<1>1. /\ pc = "stream" /\ pc' = "done" /\ Consume("sample", window)
      /\ UNCHANGED <<zones, data, skipped, pending, chosen, start, changed, lost, seen>>
  BY DEF PushFails, SampleLine, Consume, Exits, writerVars
<1>2. Held' /\ ~Active'
  BY <1>1, HandleMoves DEF Active
<1>3. Zoned' /\ PassTyped'
  BY <1>1, <1>2 DEF Zoned, PassTyped
<1> QED BY <1>2, <1>3 DEF Padded, Follows, InTurn, Delivered, Tallied

\* The selection: nothing is read yet, and what was left aside holds nothing of
\* the window.
LEMMA Selected ==
  ASSUME FilesInv, PassInv, NEW next \in {"stream", "open"}, Select(next), UNCHANGED writerVars
  PROVE  PassInv'
<1> USE DEF FilesInv, PassInv
<1> DEFINE w == WindowOf(request)
<1>0. pc = "window" /\ UNCHANGED <<zones, data, files, changed, lost, seen>>
  BY DEF Select, writerVars
<1>1. CASE w = Bad
  <2>1. pc' = "done" /\ UNCHANGED <<chosen, start, replayVars>>
    BY <1>1 DEF Select, Exits
  <2> QED BY <1>0, <2>1, PassRests
<1>2. CASE w # Bad
  <2>1. /\ pc' = next /\ window' = w /\ chosen' = CandidateDays(w)
        /\ start' = [d \in Days |-> IF d \in files THEN data[d] ELSE <<>>]
        /\ pending' = chosen' /\ reading' = NoFile /\ skipped' = 0
    BY <1>2 DEF Select, FromFiles
  <2>2. reading = NoFile /\ seen = <<>> /\ changed = {} /\ lost = {}
    BY <1>0 DEF PassTyped
  <2>3. w \in [since : Int, until : Int]
    BY <1>2, WindowTyped DEF Stored, Zoned
  <2> HIDE DEF w
  <2>4. start' \in [Days -> Seq(Fragments)] /\ chosen' \subseteq files /\ files \subseteq Days
    <3>1. <<>> \in Seq(Fragments)
      OBVIOUS
    <3> QED BY <2>1, <3>1 DEF Stored, CandidateDays
  <2>5. Zoned' /\ Held' /\ PassTyped'
    BY <1>0, <2>1, <2>2, <2>3, <2>4 DEF Zoned, Held, PassTyped
  <2>6. Padded'
    <3> SUFFICES ASSUME NEW d \in Days \ chosen', NEW n \in 1..Len(start'[d]),
                        w.since <= start'[d][n].ts, start'[d][n].ts <= w.until
                 PROVE  FALSE
      BY <2>1 DEF Padded, Inside
    <3>1. d \in files /\ start'[d] = data[d]
      BY <2>1
    <3>2. data[d] \in Seq(Fragments) /\ n \in 1..Len(data[d])
      BY <3>1 DEF Stored
    <3>3. data[d][n].ts \in Int
      <4>1. data[d][n] \in Fragments
        BY <3>2
      <4>2. \A f \in Fragments : f.ts \in Int
        BY DEF Fragments
      <4> QED BY <4>1, <4>2
    <3>4. DayOf(data[d][n].ts, zones[1]) = d
      BY <3>2 DEF RecordsInTheirDay
    <3>5. zones[1] \in Int /\ zones[2] \in Int /\ zones[1] - zones[2] \in -DayLength..DayLength
      BY DEF Zoned
    <3>6. DayOf(w.since, zones[2]) - 1 <= d /\ d <= DayOf(w.until, zones[2]) + 1
      <4> DEFINE t == data[d][n].ts
                 mine == zones[1]
                 yours == zones[2]
                 a == w.since
                 b == w.until
      <4>1. /\ t \in Int /\ a \in Int /\ b \in Int /\ mine \in Int /\ yours \in Int
            /\ mine - yours \in -DayLength..DayLength /\ a <= t /\ t <= b
            /\ DayOf(t, mine) = d
        BY <2>3, <3>1, <3>3, <3>4, <3>5
      <4> HIDE DEF t, mine, yours, a, b
      <4>2. DayOf(a, yours) - 1 <= d /\ d <= DayOf(b, yours) + 1
        BY <4>1, DaysAround
      <4> QED BY <4>2 DEF yours, a, b
    <3> QED BY <2>1, <3>1, <3>6 DEF CandidateDays
  <2>7. Follows'
    BY <1>0, <2>1, <2>4 DEF Follows
  <2>8. InTurn'
    BY <2>1, <2>2, <1>0 DEF InTurn
  <2>9. \A p : ~Past(p)'
    BY <2>1 DEF Past
  <2>10. Delivered'
    BY <2>9 DEF Delivered
  <2>11. Tallied'
    <3>1. Met' = {}
      BY <2>9 DEF Met
    <3> QED BY <2>1, <3>1, FS_EmptySet DEF Tallied
  <2> QED BY <2>5, <2>6, <2>7, <2>8, <2>10, <2>11
<1> QED BY <1>1, <1>2

\* Export opens, compares and truncates its output before it reads.
LEMMA OutputPrepared ==
  ASSUME PassInv, pc \in {"open", "guard", "truncate"}, pc' \in {"guard", "truncate", "stream"},
         UNCHANGED <<zones, request, window, chosen, start, changed, seen, replayVars>>,
         lost \subseteq lost',
         \A d \in Days : data'[d] = data[d] \/ d = output.day,
         pc' = "stream" => {output.day} \cap Days \subseteq lost'
  PROVE  PassInv'
<1> USE DEF PassInv, replayVars
<1>1. reading = NoFile /\ Active /\ Active' /\ pc # "stream" /\ UNCHANGED output
  BY DEF Held, Active, output
<1>2. Zoned' /\ Held' /\ PassTyped'
  BY <1>1 DEF Zoned, Held, PassTyped
<1>3. Padded'
  BY <1>1, PaddedStays
<1>4. Follows'
  <2>1. \A d \in chosen \ (changed \cup lost') : data'[d] = start[d] \/ (pc' # "stream" /\ d = output.day)
    BY <1>1 DEF Follows, PassTyped
  <2> QED BY <1>1, <2>1 DEF Follows
<1>5. InTurn'
  BY <1>1 DEF InTurn, Inside
<1>6. \A p : Past(p)' <=> Past(p)
  BY DEF Past
<1>7. Delivered'
  <2>1. Promised' \subseteq Promised
    BY PromisesShrink
  <2> QED BY <1>1, <1>6, <2>1 DEF Delivered, Taken
<1>8. Tallied'
  BY <1>1, <1>6, MetStays, TalliedOn
<1> QED BY <1>2, <1>3, <1>4, <1>5, <1>7, <1>8

\* A beginning of a beginning is a beginning.
LEMMA PrefixOfPrefix ==
  ASSUME NEW S, NEW s \in Seq(S), NEW t \in Seq(S), NEW u \in Seq(S), IsPrefix(s, t), IsPrefix(t, u)
  PROVE  IsPrefix(s, u)
<1>1. /\ Len(s) \in Nat /\ Len(t) \in Nat /\ Len(u) \in Nat
      /\ Len(s) <= Len(t) /\ Len(t) <= Len(u)
      /\ \A n \in 1..Len(s) : s[n] = t[n]
      /\ \A n \in 1..Len(t) : t[n] = u[n]
  BY PrefixShorter
<1>2. \A n \in 1..Len(s) : s[n] = u[n]
  BY <1>1
<1>3. SubSeq(s, 1, Len(s)) = SubSeq(u, 1, Len(s))
  BY <1>1, <1>2
<1> QED BY <1>1, <1>3 DEF IsPrefix

\* Whatever the logger writes and prunes meanwhile.
LEMMA LogMoves ==
  ASSUME FilesInv, FilesInv', PassInv, Environment
  PROVE  PassInv'
<1> USE DEF FilesInv, PassInv
<1>1. /\ pc \notin {"config", "window", "done"}
      /\ UNCHANGED <<request, pc, window, chosen, start, lost, seen, pending, skipped, zones>>
      /\ changed \subseteq changed'
      /\ changed' = changed \cup {d \in Days : data'[d] # data[d] \/ d \in files' \ files}
      /\ KeepHandle
  BY DEF Environment, LoggerStep, StartLogger, StopLogger, Append1, Rotate, RotateFails, Tick
<1>2. Active /\ Active' /\ UNCHANGED output
  BY <1>1 DEF Active, PassTyped, output
<1>3. /\ reading = NoFile => reading' = NoFile
      /\ reading'.day = reading.day /\ reading'.at = reading.at
      /\ reading' = NoFile => reading = NoFile
      /\ reading # NoFile =>
           /\ reading' \in [day : Days, at : Nat, replaced : BOOLEAN, held : Seq(Fragments)]
           /\ IsPrefix(Content, Content') /\ Content' \in Seq(Fragments)
           /\ reading.day \in files' \ files \/ reading' = reading
  <2>1. CASE reading = NoFile
    <3>1. reading.day \notin files' \ files
      BY <2>1, TimeAssumption, SMTT(30) DEF NoFile, Open, Stored, Days
    <3> QED BY <1>1, <2>1, <3>1 DEF KeepHandle
  <2>2. CASE reading # NoFile
    BY <2>2, OpenFileKeeps, DayIsOpen
  <2> QED BY <2>1, <2>2
<1>4. reading # NoFile =>
        /\ Content \in Seq(Fragments) /\ reading.at \in 0..Len(Content) /\ reading.day \in Days
        /\ Len(Content) <= Len(Content') /\ Len(Content') \in Nat
  <2> SUFFICES ASSUME reading # NoFile
               PROVE  /\ Content \in Seq(Fragments) /\ reading.at \in 0..Len(Content)
                      /\ reading.day \in Days
                      /\ Len(Content) <= Len(Content') /\ Len(Content') \in Nat
    OBVIOUS
  <2>1. Content \in Seq(Fragments) /\ reading.at \in 0..Len(Content) /\ reading.day \in Days
    BY ContentTyped
  <2> QED BY <1>3, <2>1, PrefixShorter
<1>5. Zoned' /\ Held' /\ PassTyped'
  <2>1. Held'
    BY <1>1, <1>3, <1>4 DEF Held
  <2> QED BY <1>1, <1>2, <2>1 DEF Zoned, PassTyped
<1>6. Padded'
  BY <1>1, <1>2, PaddedStays
<1>7. Follows'
  <2>1. ASSUME reading # NoFile, reading.day \notin lost
        PROVE  IsPrefix(start[reading.day], Content')
    <3>1. start[reading.day] \in Seq(Fragments) /\ IsPrefix(start[reading.day], Content)
      BY <1>2, <1>4, <2>1 DEF Follows, PassTyped
    <3> QED BY <1>3, <1>4, <2>1, <3>1, PrefixOfPrefix
  <2>2. reading # NoFile /\ reading.day \notin changed' => ~reading'.replaced
    BY <1>1, <1>2, <1>3, <1>4 DEF Follows
  <2>3. \A d \in chosen \ (changed' \cup lost) :
          data'[d] = start[d] \/ (pc # "stream" /\ d = output.day)
    BY <1>1, <1>2 DEF Follows, PassTyped
  <2> QED BY <1>1, <1>2, <1>3, <2>1, <2>2, <2>3 DEF Follows
<1>8. InTurn'
  BY <1>1, <1>2, <1>3 DEF InTurn, Inside
<1>9. \A p : Past(p)' <=> Past(p)
  BY <1>1, <1>3 DEF Past
<1>10. Delivered'
  <2>1. Promised' \subseteq Promised
    BY <1>1, PromisesShrink
  <2> QED BY <1>1, <1>2, <1>9, <2>1 DEF Delivered, Taken
<1>11. Tallied'
  BY <1>1, <1>2, <1>9, MetStays, TalliedOn
<1> QED BY <1>5, <1>6, <1>7, <1>8, <1>10, <1>11

LEMMA OutputMoves ==
  ASSUME FilesInv, PassInv, OpenOutput \/ Guard \/ Truncate
  PROVE  PassInv'
<1>1. CASE OpenOutput
  <2>1. /\ pc = "open" /\ UNCHANGED <<zones, request, window, chosen, start, changed, seen, replayVars, lost>>
    BY <1>1 DEF OpenOutput, UnchangedPass
  <2>2. CASE Exits(FATAL) /\ UNCHANGED data
    BY <2>1, <2>2, PassRests DEF Exits
  <2>3. CASE ~(Exits(FATAL) /\ UNCHANGED data)
    <3>1. /\ pc' \in {"guard", "truncate"}
          /\ files' = IF output.link = "path" THEN files \cup {output.day} ELSE files
          /\ data' = [d \in Days |-> IF d \in files' \ files THEN <<>> ELSE data[d]]
      BY <1>1, <2>3 DEF OpenOutput
    <3>2. \A d \in files' \ files : d = output.day
      BY <3>1
    <3>3. \A d \in Days : data'[d] = data[d] \/ d = output.day
      BY <3>1, <3>2
    <3> QED BY <2>1, <3>1, <3>3, OutputPrepared
  <2> QED BY <2>2, <2>3
<1>2. CASE Guard
  <2>1. /\ pc = "guard"
        /\ UNCHANGED <<zones, data, request, window, chosen, start, changed, seen, replayVars, lost>>
    BY <1>2 DEF Guard, UnchangedPass, writerVars
  <2>2. pc' \in {"done", "truncate"}
    <3>1. PICK denied \in {{}} \cup {{d} : d \in chosen} :
            LET judgement == Judgement(denied \cup (chosen \ files)) IN
            CASE judgement = "alias"    -> Exits(USAGE)
              [] judgement = "unknown"  -> Exits(FATAL)
              [] judgement = "distinct" -> pc' = "truncate" /\ UNCHANGED exit
      BY <1>2 DEF Guard
    <3> DEFINE judgement == Judgement(denied \cup (chosen \ files))
    <3>2. judgement \in {"alias", "unknown", "distinct"}
      BY DEF Judgement
    <3> QED BY <3>1, <3>2, Zenon DEF Exits
  <2> QED BY <2>1, <2>2, PassRests, OutputPrepared
<1>3. CASE Truncate
  <2>1. /\ pc = "truncate" /\ UNCHANGED <<zones, request, window, chosen, start, changed, seen, replayVars>>
    BY <1>3 DEF Truncate, UnchangedPass
  <2>2. CASE Exits(FATAL)
    BY <2>1, <2>2, PassRests DEF Exits
  <2>3. CASE ~Exits(FATAL)
    <3>1. /\ pc' = "stream" /\ lost' = lost \cup ({output.day} \cap Days)
          /\ data' = [d \in Days |-> IF d = output.day THEN <<>> ELSE data[d]]
      BY <1>3, <2>3 DEF Truncate
    <3>2. \A d \in Days : data'[d] = data[d] \/ d = output.day
      BY <3>1
    <3> QED BY <2>1, <3>1, <3>2, OutputPrepared
  <2> QED BY <2>2, <2>3
<1> QED BY <1>1, <1>2, <1>3

LEMMA PassStutters ==
  ASSUME PassInv, UNCHANGED <<writerVars, readerVars, replayVars>>
  PROVE  PassInv'
<1> USE DEF writerVars, readerVars, replayVars, PassInv
<1>1. Zoned' /\ Held' /\ PassTyped' /\ Padded' /\ Follows' /\ InTurn'
  BY DEF Zoned, Held, Content, PassTyped, Active, Padded, Inside, Follows, output, InTurn
<1>2. \A p : Past(p)' <=> Past(p)
  BY DEF Past
<1>3. Delivered'
  <2>1. Promised' \subseteq Promised
    BY PromisesShrink
  <2> QED BY <1>2, <2>1 DEF Delivered, Active, Taken
<1>4. Tallied'
  <2>1. Met' = Met
    BY <1>2, MetStays
  <2> QED BY <2>1 DEF Tallied, Active, Undisturbed
<1> QED BY <1>1, <1>3, <1>4

\* So goes every pass, in every reachable state.
LEMMA PassInvariant == Spec => []PassInv
<1>1. Init => PassInv
  BY PassInit
<1>2. ASSUME FilesInv, FilesInv', PassInv, [Next]_vars PROVE PassInv'
  <2>1. CASE ReportStep /\ UNCHANGED writerVars
    <3>1. CASE LoadConfig
      <4>1. /\ pc = "config" /\ pc' \in {"window", "done"}
            /\ UNCHANGED <<zones, data, replayVars, chosen, start, changed, lost, seen>>
        BY <2>1, <3>1 DEF LoadConfig, Exits, writerVars
      <4> QED BY <1>2, <4>1, PassRests
    <3>2. CASE ReportSelect
      BY <1>2, <2>1, <3>2, Selected DEF ReportSelect
    <3>3. CASE ReportReadOn
      BY <1>2, <2>1, <3>3, ReadsOn DEF ReportReadOn
    <3>4. CASE ReportSample
      BY <1>2, <2>1, <3>4, SampleTaken DEF ReportSample
    <3>5. CASE Emit
      <4>1. pc' = "done" /\ UNCHANGED <<zones, data, replayVars, chosen, start, changed, lost, seen>>
        BY <2>1, <3>5 DEF Emit, Exits, writerVars
      <4> QED BY <1>2, <4>1, PassRests
    <3> QED BY <2>1, <3>1, <3>2, <3>3, <3>4, <3>5 DEF ReportStep
  <2>2. CASE ExportStep
    <3>1. CASE ExportConfig
      <4>1. /\ pc = "config" /\ pc' \in {"window", "done"}
            /\ UNCHANGED <<zones, data, replayVars, chosen, start, changed, lost, seen>>
        BY <3>1 DEF ExportConfig, Exits, UnchangedPass, writerVars
      <4> QED BY <1>2, <4>1, PassRests
    <3>2. CASE ExportSelect
      BY <1>2, <3>2, Selected DEF ExportSelect
    <3>3. CASE OpenOutput \/ Guard \/ Truncate
      BY <1>2, <3>3, OutputMoves
    <3>4. CASE ExportReadOn
      BY <1>2, <3>4, ReadsOn DEF ExportReadOn
    <3>5. CASE ExportSample
      BY <1>2, <3>5, SampleTaken DEF ExportSample
    <3>6. CASE PushFails
      BY <1>2, <3>6, PushEnds
    <3>7. CASE Close
      <4>1. pc' = "done" /\ UNCHANGED <<zones, data, replayVars, chosen, start, changed, lost, seen>>
        BY <3>7 DEF Close, Exits, UnchangedPass, writerVars
      <4> QED BY <1>2, <4>1, PassRests
    <3> QED BY <2>2, <3>1, <3>2, <3>3, <3>4, <3>5, <3>6, <3>7 DEF ExportStep
  <2>3. CASE UNCHANGED <<writerVars, readerVars, replayVars>>
    BY <1>2, <2>3, PassStutters
  <2>4. CASE Environment
    BY <1>2, <2>4, LogMoves
  <2> QED BY <1>2, <2>1, <2>2, <2>3, <2>4 DEF Next, Reconcile, vars
<1> QED BY <1>1, <1>2, FilesInvariant, PTL DEF Spec

\* A finished pass has seen every record of the window that was on disk when it
\* began, once and in file order, and nothing else, and has counted the lines it
\* could not read: for every history, every pair of zones up to a day apart,
\* every command line, and whatever the logger writes and prunes meanwhile.
THEOREM WindowIsCovered == Spec => []WindowCovered
<1>1. FilesInv /\ PassInv => WindowCovered
  <2> SUFFICES ASSUME FilesInv, PassInv, pc = "stream", AllRead PROVE WindowCovered
    BY DEF WindowCovered
  <2> USE DEF FilesInv, PassInv
  <2>1. Active /\ reading = NoFile /\ pending = {}
    BY DEF Active, AllRead
  <2>2. \A p : Past(p) <=> p.day \in chosen
    BY <2>1 DEF Past
  <2>3. \A p \in Promised : Taken(p)
    <3> SUFFICES ASSUME NEW p \in Promised PROVE p.day \in chosen
      BY <2>1, <2>2 DEF Delivered
    <3>1. p \in Places(Days \ lost) /\ Inside(start[p.day][p.at])
      BY DEF Promised
    <3>2. p.day \in Days /\ p.at \in 1..Len(start[p.day])
      <4>1. Days \ lost \in SUBSET Days
        OBVIOUS
      <4> QED BY <3>1, <4>1, PlaceIs
    <3> QED BY <2>1, <3>1, <3>2 DEF Padded
  <2>4. /\ \A n \in 1..Len(seen) : Inside(seen[n].line)
        /\ \A n \in 2..Len(seen) : Later(seen[n-1], seen[n])
    BY <2>1 DEF InTurn
  <2>5. Undisturbed => skipped = Cardinality(Unreadable)
    <3>1. \A p \in Unreadable : p.day \in chosen
      BY PlaceIs DEF Unreadable, PassTyped
    <3>2. Met = Unreadable
      BY <2>2, <3>1 DEF Met
    <3> QED BY <2>1, <3>2 DEF Tallied
  <2> QED BY <2>3, <2>4, <2>5 DEF WindowCovered, Taken
<1> QED BY <1>1, FilesInvariant, PassInvariant, PTL

-----------------------------------------------------------------------------
(* The rows of an export. *)

AnyRow == {Row(instant, entry) : instant \in Int, entry \in Entry}

\* The rows of the samples seen, sample by sample.
SeenRows == [n \in 1..Len(seen) |-> RowsOf(seen[n].line.ts, seen[n].line.sample)]

\* As long as no group was cut short for the end, all are full; nothing but a
\* failure parts what was written and what was seen.
SinkInv ==
  command = "export" =>
    /\ buffer \in Seq(AnyRow) /\ groups \in Seq(Seq(AnyRow))
    /\ exit \in {Running, SUCCESS, FATAL, USAGE} /\ (pc # "done" => exit = Running)
    /\ footer \in BOOLEAN /\ (footer <=> exit = SUCCESS)
    /\ ~footer => \A n \in 1..Len(groups) : Len(groups[n]) = RowsPerGroup
    /\ footer => /\ buffer = <<>>
                 /\ \A n \in 1..Len(groups) : groups[n] # <<>>
                 /\ \A n \in 1..Len(groups)-1 : Len(groups[n]) = RowsPerGroup
    /\ exit \in {Running, SUCCESS} => FlattenSeq(groups) \o buffer = Exported

LEMMA RowsTyped ==
  ASSUME NEW line \in Fragments PROVE RowsOf(line.ts, line.sample) \in Seq(AnyRow)
<1>1. line.ts \in Int /\ line.sample \in Polled \cup Recorded
  BY DEF Fragments
<1>2. line.sample \in Seq(Entry)
  BY <1>1, LogAssumption
<1>3. Len(line.sample) \in Nat /\ \A n \in 1..Len(line.sample) : line.sample[n] \in Entry
  BY <1>2
<1>4. \A n \in 1..Len(line.sample) : Row(line.ts, line.sample[n]) \in AnyRow
  BY <1>1, <1>3 DEF AnyRow
<1> HIDE DEF AnyRow
<1> QED BY <1>3, <1>4 DEF RowsOf

LEMMA SeenRowsTyped ==
  ASSUME PassTyped PROVE SeenRows \in Seq(Seq(AnyRow)) /\ Len(SeenRows) = Len(seen)
<1> DEFINE rows(n) == RowsOf(seen[n].line.ts, seen[n].line.sample)
<1>1. Len(seen) \in Nat /\ \A n \in 1..Len(seen) : rows(n) \in Seq(AnyRow)
  BY SeenTyped, RowsTyped
<1>2. SeenRows = [n \in 1..Len(seen) |-> rows(n)]
  BY DEF SeenRows
<1> HIDE DEF rows
<1> QED BY <1>1, <1>2

\* The rows of one more sample: first those of the samples before.
LEMMA SeenRowsGrow ==
  ASSUME PassTyped, NEW new, new \in [day : Days, at : Nat, line : Fragments],
         seen' = Append(seen, new)
  PROVE  Exported' = Exported \o RowsOf(new.line.ts, new.line.sample)
<1> DEFINE R == RowsOf(new.line.ts, new.line.sample)
<1>1. R \in Seq(AnyRow)
  BY RowsTyped
<1>2. SeenRows \in Seq(Seq(AnyRow)) /\ Len(SeenRows) = Len(seen)
  BY SeenRowsTyped
<1>3. /\ Len(seen') = Len(seen) + 1 /\ Len(seen) \in Nat
      /\ seen'[Len(seen) + 1] = new /\ \A n \in 1..Len(seen) : seen'[n] = seen[n]
  <2> DEFINE P == [day : Days, at : Nat, line : Fragments]
  <2>1. new \in P /\ seen \in Seq(P)
    BY DEF PassTyped
  <2> HIDE DEF P
  <2> QED BY <2>1, AppendProperties
<1>4. SeenRows' = Append(SeenRows, R)
  <2> DEFINE rows(n) == RowsOf(seen'[n].line.ts, seen'[n].line.sample)
             T == Seq(AnyRow)
  <2>1. SeenRows' = [n \in 1..Len(seen) + 1 |-> rows(n)]
    BY <1>3 DEF SeenRows
  <2>2. \A n \in 1..Len(seen) : rows(n) = SeenRows[n]
    BY <1>3 DEF SeenRows
  <2>3. rows(Len(seen) + 1) = R
    BY <1>3
  <2> HIDE DEF rows, R, T
  <2>4. SeenRows \in Seq(T) /\ R \in T
    BY <1>1, <1>2 DEF T
  <2> DEFINE more == Append(SeenRows, R)
  <2>5. /\ more \in Seq(T) /\ Len(more) = Len(seen) + 1 /\ more[Len(seen) + 1] = R
        /\ \A n \in 1..Len(seen) : more[n] = SeenRows[n]
    BY <1>2, <2>4, AppendProperties
  <2> HIDE DEF more
  <2>6. \A n \in 1..Len(seen) + 1 : rows(n) = more[n]
    <3> TAKE n \in 1..Len(seen) + 1
    <3>1. n \in 1..Len(seen) \/ n = Len(seen) + 1
      BY <1>3
    <3> QED BY <2>2, <2>3, <2>5, <3>1
  <2>7. more = [n \in 1..Len(seen) + 1 |-> more[n]]
    BY <1>3, <2>5
  <2> QED BY <2>1, <2>6, <2>7 DEF more
<1>5. FlattenSeq(Append(SeenRows, R)) = FlattenSeq(SeenRows) \o R
  <2> HIDE DEF R
  <2> QED BY <1>1, <1>2, FlattenAppend
<1>6. Exported = FlattenSeq(SeenRows) /\ Exported' = FlattenSeq(SeenRows')
  BY DEF Exported, SeenRows
<1> QED BY <1>4, <1>5, <1>6

\* A sample is pushed: its rows follow those that were there.
LEMMA RowsPushed ==
  ASSUME NEW T, NEW g \in Seq(Seq(T)), NEW b \in Seq(T), NEW r \in Seq(T),
         \A n \in 1..Len(g) : Len(g[n]) = RowsPerGroup
  PROVE  /\ g \o FullGroups(b \o r) \in Seq(Seq(T)) /\ Rest(b \o r) \in Seq(T)
         /\ FlattenSeq(g \o FullGroups(b \o r)) \o Rest(b \o r) = (FlattenSeq(g) \o b) \o r
         /\ \A n \in 1..Len(g \o FullGroups(b \o r)) :
              Len((g \o FullGroups(b \o r))[n]) = RowsPerGroup
<1> DEFINE G == g \o FullGroups(b \o r)
           B == Rest(b \o r)
           rows == b \o r
           full == FullGroups(rows)
<1>1. rows \in Seq(T)
  OBVIOUS
<1> HIDE DEF rows
<1>2. /\ full \in Seq(Seq(T)) /\ Rest(rows) \in Seq(T)
      /\ FlattenSeq(full) \o Rest(rows) = rows
      /\ \A n \in 1..Len(full) : Len(full[n]) = RowsPerGroup
  BY <1>1, GroupsHoldRows
<1> HIDE DEF full
<1>3. G = g \o full /\ B = Rest(rows)
  BY DEF full, rows
<1> HIDE DEF G, B
<1>4. FlattenSeq(g) \in Seq(T) /\ FlattenSeq(full) \in Seq(T)
  BY <1>2, FlattenTyped
<1>5. FlattenSeq(G) = FlattenSeq(g) \o FlattenSeq(full)
  BY <1>2, <1>3, FlattenConcat
<1>6. FlattenSeq(G) \o B = FlattenSeq(g) \o rows
  <2> DEFINE x == FlattenSeq(g)
             y == FlattenSeq(full)
             z == Rest(rows)
  <2>1. x \in Seq(T) /\ y \in Seq(T) /\ z \in Seq(T)
    BY <1>2, <1>4
  <2>2. FlattenSeq(G) \o B = (x \o y) \o z /\ y \o z = rows
    BY <1>2, <1>3, <1>5
  <2> HIDE DEF x, y, z
  <2>3. (x \o y) \o z = x \o (y \o z)
    BY <2>1, Associates, SMTT(30)
  <2> QED BY <2>2, <2>3 DEF x
<1>7. FlattenSeq(g) \o (b \o r) = (FlattenSeq(g) \o b) \o r
  <2> DEFINE x == FlattenSeq(g)
  <2>1. x \in Seq(T)
    BY <1>4
  <2> HIDE DEF x
  <2>2. (x \o b) \o r = x \o (b \o r)
    BY <2>1, Associates, SMTT(30)
  <2> QED BY <2>2 DEF x
<1>8. G \in Seq(Seq(T)) /\ \A n \in 1..Len(G) : Len(G[n]) = RowsPerGroup
  <2> DEFINE S == Seq(T)
  <2>1. g \in Seq(S) /\ full \in Seq(S)
    BY <1>2
  <2> HIDE DEF S
  <2>2. G \in Seq(S) /\ \A n \in 1..Len(G) :
          \/ n \in 1..Len(g) /\ G[n] = g[n]
          \/ n - Len(g) \in 1..Len(full) /\ G[n] = full[n - Len(g)]
    BY <1>3, <2>1, AppendedTo
  <2> QED BY <1>2, <2>2 DEF S
<1> QED BY <1>2, <1>3, <1>6, <1>7, <1>8 DEF rows, G, B

LEMMA SamplePushed ==
  ASSUME FilesInv, PassInv, SinkInv, ExportSample
  PROVE  SinkInv'
<1> USE DEF FilesInv, PassInv
<1> DEFINE new == [day |-> reading.day, at |-> reading'.at, line |-> TheLine]
           r == RowsOf(TheLine.ts, TheLine.sample)
<1>1. /\ command = "export" /\ pc = "stream" /\ UNCHANGED <<command, pc, exit, footer>>
      /\ seen' = Append(seen, new)
      /\ groups' = groups \o FullGroups(buffer \o r) /\ buffer' = Rest(buffer \o r)
  BY DEF ExportSample, TakeSample
<1>2. TheLine \in Fragments /\ new \in [day : Days, at : Nat, line : Fragments]
  <2>1. reading # NoFile /\ Consume("sample", window) /\ UNCHANGED <<data, pc>>
    BY <1>1 DEF ExportSample, TakeSample, SampleLine, Consume, writerVars
  <2>2. /\ TheLine \in Fragments /\ reading'.day = reading.day
        /\ reading' \in [day : Days, at : Nat, replaced : BOOLEAN, held : Seq(Fragments)]
    BY <1>1, <2>1, HandleMoves
  <2> QED BY <2>2
<1>3. Exported' = Exported \o r
  <2>1. new.line = TheLine
    OBVIOUS
  <2> HIDE DEF new
  <2> QED BY <1>1, <1>2, <2>1, SeenRowsGrow
<1>4. r \in Seq(AnyRow)
  BY <1>2, RowsTyped
<1>5. /\ buffer \in Seq(AnyRow) /\ groups \in Seq(Seq(AnyRow)) /\ exit = Running /\ ~footer
      /\ \A n \in 1..Len(groups) : Len(groups[n]) = RowsPerGroup
      /\ FlattenSeq(groups) \o buffer = Exported
  BY <1>1 DEF SinkInv, Running, SUCCESS
<1> HIDE DEF r, new
<1>6. /\ groups' \in Seq(Seq(AnyRow)) /\ buffer' \in Seq(AnyRow)
      /\ FlattenSeq(groups') \o buffer' = (FlattenSeq(groups) \o buffer) \o r
      /\ \A n \in 1..Len(groups') : Len(groups'[n]) = RowsPerGroup
  <2>1. \A T : \A g \in Seq(Seq(T)), b \in Seq(T), rs \in Seq(T) :
          (\A n \in 1..Len(g) : Len(g[n]) = RowsPerGroup) =>
            /\ g \o FullGroups(b \o rs) \in Seq(Seq(T)) /\ Rest(b \o rs) \in Seq(T)
            /\ FlattenSeq(g \o FullGroups(b \o rs)) \o Rest(b \o rs) = (FlattenSeq(g) \o b) \o rs
            /\ \A n \in 1..Len(g \o FullGroups(b \o rs)) :
                 Len((g \o FullGroups(b \o rs))[n]) = RowsPerGroup
    BY RowsPushed
  <2>2. /\ groups \o FullGroups(buffer \o r) \in Seq(Seq(AnyRow)) /\ Rest(buffer \o r) \in Seq(AnyRow)
        /\ FlattenSeq(groups \o FullGroups(buffer \o r)) \o Rest(buffer \o r)
             = (FlattenSeq(groups) \o buffer) \o r
        /\ \A n \in 1..Len(groups \o FullGroups(buffer \o r)) :
             Len((groups \o FullGroups(buffer \o r))[n]) = RowsPerGroup
    <3>1. \A n \in 1..Len(groups) : Len(groups[n]) = RowsPerGroup
      BY <1>5, Zenon
    <3>2. r \in Seq(AnyRow) /\ buffer \in Seq(AnyRow) /\ groups \in Seq(Seq(AnyRow))
      BY <1>4, <1>5, Zenon
    <3> QED BY <2>1, <3>1, <3>2, SMTT(30)
  <2> QED BY <1>1, <2>2, Zenon
<1> QED BY <1>1, <1>3, <1>5, <1>6 DEF SinkInv, AnyRow, Running, SUCCESS

\* The end of the file.
LEMMA SinkCloses ==
  ASSUME SinkInv, Close
  PROVE  SinkInv'
<1>1. /\ command = "export" /\ pc = "stream" /\ pc' = "done" /\ UNCHANGED <<command, seen>>
      /\ Exported' = Exported
  BY DEF Close, Exits, UnchangedPass, Exported
<1>2. /\ buffer \in Seq(AnyRow) /\ groups \in Seq(Seq(AnyRow)) /\ exit = Running /\ ~footer
      /\ footer \in BOOLEAN
      /\ \A n \in 1..Len(groups) : Len(groups[n]) = RowsPerGroup
      /\ FlattenSeq(groups) \o buffer = Exported
  BY <1>1 DEF SinkInv, Running, SUCCESS
<1>3. CASE exit' = FATAL /\ UNCHANGED <<buffer, groups, footer>>
  BY <1>1, <1>2, <1>3 DEF SinkInv, Running, SUCCESS, FATAL, USAGE
<1>4. CASE exit' = SUCCESS /\ groups' = Flushed /\ buffer' = <<>> /\ footer' = TRUE
  <2>1. Len(groups) \in Nat /\ \A n \in 1..Len(groups) : groups[n] # <<>>
    <3>1. \A n \in 1..Len(groups) : Len(groups[n]) # Len(<<>>)
      BY <1>2, GroupAssumption
    <3> QED BY <1>2, <3>1
  <2>2. /\ groups' \in Seq(Seq(AnyRow)) /\ FlattenSeq(groups') \o <<>> = Exported
        /\ \A n \in 1..Len(groups') : groups'[n] # <<>>
        /\ \A n \in 1..Len(groups')-1 : Len(groups'[n]) = RowsPerGroup
    <3>0. FlattenSeq(groups) \in Seq(AnyRow)
      BY <1>2, FlattenTyped
    <3>1. CASE buffer = <<>>
      <4>1. groups' = groups
        BY <1>4, <3>1 DEF Flushed
      <4> QED BY <1>2, <2>1, <3>1, <4>1
    <3>2. CASE buffer # <<>>
      <4>1. groups' = Append(groups, buffer)
        BY <1>4, <3>2 DEF Flushed
      <4>2. FlattenSeq(groups') = FlattenSeq(groups) \o buffer
        BY <1>2, <4>1, FlattenAppend
      <4>3. FlattenSeq(groups') \o <<>> = Exported
        <5>1. FlattenSeq(groups) \o buffer \in Seq(AnyRow)
          <6> DEFINE a == FlattenSeq(groups)
          <6>1. a \in Seq(AnyRow)
            BY <3>0
          <6> HIDE DEF a
          <6>2. a \o buffer \in Seq(AnyRow)
            BY <1>2, <6>1
          <6> QED BY <6>2 DEF a
        <5> DEFINE x == FlattenSeq(groups) \o buffer
        <5>2. x \in Seq(AnyRow) /\ x = Exported /\ FlattenSeq(groups') = x
          BY <1>2, <4>2, <5>1
        <5> HIDE DEF x
        <5>3. x \o <<>> = x
          BY <5>2
        <5> QED BY <5>2, <5>3
      <4>4. /\ groups' \in Seq(Seq(AnyRow)) /\ Len(groups') = Len(groups) + 1
            /\ groups'[Len(groups) + 1] = buffer
            /\ \A n \in 1..Len(groups) : groups'[n] = groups[n]
        <5> DEFINE S == Seq(AnyRow)
        <5>1. groups \in Seq(S) /\ buffer \in S
          BY <1>2
        <5> HIDE DEF S
        <5>2. /\ groups' \in Seq(S) /\ Len(groups') = Len(groups) + 1
              /\ groups'[Len(groups) + 1] = buffer
              /\ \A n \in 1..Len(groups) : groups'[n] = groups[n]
          BY <4>1, <5>1, AppendProperties
        <5> QED BY <5>2 DEF S
      <4>5. \A n \in 1..Len(groups') : groups'[n] # <<>>
        <5> TAKE n \in 1..Len(groups')
        <5>1. n \in 1..Len(groups) \/ n = Len(groups) + 1
          BY <2>1, <4>4
        <5> QED BY <2>1, <3>2, <4>4, <5>1
      <4>6. \A n \in 1..Len(groups')-1 : Len(groups'[n]) = RowsPerGroup
        <5> TAKE n \in 1..Len(groups')-1
        <5>1. n \in 1..Len(groups)
          BY <2>1, <4>4
        <5> QED BY <1>2, <4>4, <5>1
      <4> QED BY <4>3, <4>4, <4>5, <4>6
    <3> QED BY <3>1, <3>2
  <2>3. <<>> \in Seq(AnyRow)
    OBVIOUS
  <2> QED BY <1>1, <1>4, <2>2, <2>3, Zenon DEF SinkInv, SUCCESS, Running
<1> QED BY <1>3, <1>4 DEF Close, Exits

\* What is no part of the sink leaves it as it is; a run may end with a failure.
LEMMA SinkRests ==
  ASSUME SinkInv, UNCHANGED <<command, exportVars>>,
         command = "export" => /\ UNCHANGED seen
                               /\ \/ UNCHANGED <<exit, pc>>
                                  \/ pc # "done" /\ pc' = "done" /\ exit' \in {FATAL, USAGE}
                                  \/ pc # "done" /\ pc' # "done" /\ exit' = exit
  PROVE  SinkInv'
<1> SUFFICES ASSUME command = "export" PROVE SinkInv'
  BY DEF SinkInv
<1>1. UNCHANGED <<buffer, groups, footer>> /\ Exported' = Exported
  BY DEF exportVars, Exported
<1>2. CASE UNCHANGED <<exit, pc>>
  BY <1>1, <1>2 DEF SinkInv
<1>3. CASE pc # "done" /\ pc' = "done" /\ exit' \in {FATAL, USAGE}
  BY <1>1, <1>3 DEF SinkInv, Running, SUCCESS, FATAL, USAGE
<1>4. CASE pc # "done" /\ pc' # "done" /\ exit' = exit
  BY <1>1, <1>4 DEF SinkInv
<1> QED BY <1>2, <1>3, <1>4

\* So goes every export, in every reachable state.
LEMMA SinkInvariant == Spec => []SinkInv
<1>1. Init => SinkInv
  <2> SUFFICES ASSUME Init PROVE SinkInv
    OBVIOUS
  <2>1. /\ buffer = <<>> /\ groups = <<>> /\ footer = FALSE /\ exit = Running /\ seen = <<>>
    BY DEF Init, ExportInit, ReaderInit
  <2>2. <<>> \in Seq(AnyRow) /\ <<>> \in Seq(Seq(AnyRow)) /\ <<>> \o <<>> = <<>> /\ Len(<<>>) = 0
    OBVIOUS
  <2>3. Exported = <<>>
    <3>1. [n \in 1..Len(seen) |-> RowsOf(seen[n].line.ts, seen[n].line.sample)] = <<>>
      BY <2>1
    <3> QED BY <2>2, <3>1 DEF Exported, FlattenSeq
  <2>4. FlattenSeq(groups) = <<>>
    BY <2>1, <2>2 DEF FlattenSeq
  <2>5. \A n \in 1..Len(groups) : Len(groups[n]) = RowsPerGroup
    BY <2>1
  <2>6. exit = Running /\ exit # SUCCESS /\ footer \in BOOLEAN /\ ~footer
    <3>1. exit = Running /\ Running # SUCCESS
      BY <2>1 DEF Running, SUCCESS
    <3>2. footer = FALSE
      BY <2>1, Zenon
    <3> QED BY <3>1, <3>2, Zenon
  <2>7. FlattenSeq(groups) \o buffer = Exported
    BY <2>1, <2>2, <2>3, <2>4
  <2> QED BY <2>1, <2>2, <2>5, <2>6, <2>7, Zenon DEF SinkInv
<1>2. ASSUME FilesInv, PassInv, SinkInv, [Next]_vars PROVE SinkInv'
  <2>1. CASE ReportStep /\ UNCHANGED exportVars
    <3>1. command = "report" /\ UNCHANGED command
      BY <2>1 DEF ReportStep, LoadConfig, ReportSelect, ReportReadOn, ReportSample, Emit, Select,
                  ReadOn, TakeSample
    <3> QED BY <1>2, <2>1, <3>1, SinkRests
  <2>2. CASE ExportStep
    <3>1. CASE ExportConfig
      BY <1>2, <3>1, SinkRests DEF ExportConfig, Exits, UnchangedPass
    <3>2. CASE ExportSelect
      BY <1>2, <3>2, SinkRests DEF ExportSelect, Select, Exits
    <3>3. CASE OpenOutput
      <4>1. UNCHANGED <<command, seen, buffer, groups, footer>> /\ command = "export"
        BY <3>3 DEF OpenOutput, UnchangedPass
      <4>2. Exported' = Exported
        BY <4>1 DEF Exported
      <4>3. pc = "open" /\ (\/ pc' = "done" /\ exit' = FATAL
                            \/ pc' # "done" /\ exit' = exit)
        BY <3>3 DEF OpenOutput, Exits
      <4> QED BY <1>2, <4>1, <4>2, <4>3 DEF SinkInv, Running, SUCCESS, FATAL, USAGE
    <3>4. CASE Guard
      <4>1. UNCHANGED <<command, seen, exportVars>> /\ command = "export" /\ pc = "guard"
        BY <3>4 DEF Guard, UnchangedPass
      <4>2. PICK denied \in {{}} \cup {{d} : d \in chosen} :
              LET judgement == Judgement(denied \cup (chosen \ files)) IN
              CASE judgement = "alias"    -> Exits(USAGE)
                [] judgement = "unknown"  -> Exits(FATAL)
                [] judgement = "distinct" -> pc' = "truncate" /\ UNCHANGED exit
        BY <3>4 DEF Guard
      <4> DEFINE judgement == Judgement(denied \cup (chosen \ files))
      <4>3. judgement \in {"alias", "unknown", "distinct"}
        BY DEF Judgement
      <4>4. Exits(USAGE) \/ Exits(FATAL) \/ (pc' = "truncate" /\ UNCHANGED exit)
        BY <4>2, <4>3, Zenon
      <4> QED BY <1>2, <4>1, <4>4, SinkRests DEF Exits
    <3>5. CASE Truncate
      BY <1>2, <3>5, SinkRests DEF Truncate, Exits, UnchangedPass
    <3>6. CASE ExportReadOn
      BY <1>2, <3>6, SinkRests DEF ExportReadOn, ReadOn
    <3>7. CASE ExportSample
      BY <1>2, <3>7, SamplePushed
    <3>8. CASE PushFails
      BY <1>2, <3>8, SinkRests DEF PushFails, Exits
    <3>9. CASE Close
      BY <1>2, <3>9, SinkCloses
    <3> QED BY <2>2, <3>1, <3>2, <3>3, <3>4, <3>5, <3>6, <3>7, <3>8, <3>9 DEF ExportStep
  <2>3. CASE UNCHANGED <<readerVars, exportVars>>
    BY <1>2, <2>3, SinkRests DEF readerVars
  <2>4. CASE Environment
    BY <1>2, <2>4, SinkRests DEF Environment
  <2> QED BY <1>2, <2>1, <2>2, <2>3, <2>4 DEF Next, Reconcile, vars
<1> QED BY <1>1, <1>2, FilesInvariant, PassInvariant, PTL DEF Spec

\* An export that succeeds holds a row for every reading of the samples it saw,
\* in order, in groups that are full but for the last, under a footer, and one
\* that fails has no footer: for every history, every size of a group and of a
\* sample, and whatever fails on the way.
THEOREM ExportIsComplete == Spec => []ExportComplete
<1>1. SinkInv => ExportComplete
  <2> SUFFICES ASSUME SinkInv, command = "export" PROVE ExportComplete
    BY DEF ExportComplete
  <2>1. Len(groups) \in Nat
    BY DEF SinkInv
  <2>2. \A n \in 1..Len(groups)-1 : Len(groups[n]) = RowsPerGroup
    BY <2>1 DEF SinkInv
  <2> QED BY <2>2 DEF SinkInv, ExportComplete
<1> QED BY <1>1, SinkInvariant, PTL

-----------------------------------------------------------------------------
(* Sorting. *)

\* A strict total order of the elements of S.
Orders(before, S) ==
  /\ \A x \in S : <<x, x>> \notin before
  /\ \A x, y, z \in S : <<x, y>> \in before /\ <<y, z>> \in before => <<x, z>> \in before
  /\ \A x, y \in S : x # y => <<x, y>> \in before \/ <<y, x>> \in before

\* What comes before an element.
Below(S, before, e) == {f \in S : <<f, e>> \in before}

\* Of two elements the later one has more before it.
LEMMA RanksRise ==
  ASSUME NEW S, IsFiniteSet(S), NEW R, Orders(R, S), NEW x \in S, NEW y \in S
  PROVE  /\ IsFiniteSet(Below(S, R, x)) /\ Cardinality(Below(S, R, x)) \in Nat
         /\ <<x, y>> \in R <=> Cardinality(Below(S, R, x)) < Cardinality(Below(S, R, y))
         /\ Cardinality(Below(S, R, x)) = Cardinality(Below(S, R, y)) => x = y
         /\ Cardinality(Below(S, R, x)) < Cardinality(S)
<1>1. ASSUME NEW z \in S
      PROVE  IsFiniteSet(Below(S, R, z)) /\ Cardinality(Below(S, R, z)) \in Nat
             /\ Cardinality(Below(S, R, z)) < Cardinality(S)
  <2>1. Below(S, R, z) \in SUBSET S /\ z \notin Below(S, R, z)
    BY DEF Below, Orders
  <2> QED BY <2>1, FS_Subset, FS_CardinalityType
<1>2. ASSUME NEW u \in S, NEW v \in S, <<u, v>> \in R
      PROVE  Cardinality(Below(S, R, u)) < Cardinality(Below(S, R, v))
  <2>1. Below(S, R, u) \in SUBSET Below(S, R, v)
    BY <1>2 DEF Below, Orders
  <2>2. u \in Below(S, R, v) /\ u \notin Below(S, R, u)
    BY <1>2 DEF Below, Orders
  <2> QED BY <1>1, <2>1, <2>2, FS_Subset
<1>3. x = y \/ <<x, y>> \in R \/ <<y, x>> \in R
  BY DEF Orders
<1> QED BY <1>1, <1>2, <1>3

\* Every place is taken: some element has exactly k before it.
LEMMA RanksFill ==
  ASSUME NEW S, IsFiniteSet(S), NEW R, Orders(R, S), NEW k \in 0..Cardinality(S) - 1
  PROVE  \E e \in S : Cardinality(Below(S, R, e)) = k
<1> DEFINE Rank(e) == Cardinality(Below(S, R, e))
           L == {e \in S : Rank(e) < k}
<1>1. \A e \in S : Rank(e) \in Nat
  BY RanksRise
<1>2. \A e, f \in S : (<<e, f>> \in R <=> Rank(e) < Rank(f)) /\ (Rank(e) = Rank(f) => e = f)
  BY RanksRise
<1>3. Cardinality(S) \in Nat /\ k \in Nat /\ k < Cardinality(S)
  BY FS_CardinalityType
<1>4. IsFiniteSet(L) /\ Cardinality(L) \in Nat /\ Cardinality(L) <= k
  <2>1. [e \in L |-> Rank(e)] \in Injection(L, 0..k-1)
    <3> DEFINE f == [e \in L |-> Rank(e)]
    <3> HIDE DEF Rank
    <3>1. \A e \in L : Rank(e) \in 0..k-1
      BY <1>1, <1>3
    <3>2. f \in [L -> 0..k-1]
      BY <3>1
    <3>3. \A d, e \in L : f[d] = f[e] => d = e
      BY <1>2
    <3> QED BY <3>2, <3>3 DEF Injection, IsInjective
  <2>2. IsFiniteSet(0..k-1) /\ Cardinality(0..k-1) = k
    <3>1. k - 1 \in Int /\ 0 \in Int /\ (IF 0 > k - 1 THEN 0 ELSE k - 1 - 0 + 1) = k
      BY <1>3
    <3> QED BY <3>1, FS_Interval
  <2> HIDE DEF L
  <2> QED BY <2>1, <2>2, FS_Injection, FS_CardinalityType
<1>5. \E e \in S : e \notin L
  BY <1>3, <1>4, FS_Subset DEF L
<1> DEFINE T == {Rank(e) : e \in S \ L}
<1>6. PICK e \in S \ L : \A f \in S \ L : Rank(e) <= Rank(f)
  <2>1. T \subseteq Nat /\ T # {}
    BY <1>1, <1>5
  <2>2. PICK n \in T : \A m \in T : n <= m
    BY <2>1, LeastNat
  <2> QED BY <2>2
<1>7. Below(S, R, e) \in SUBSET L
  <2> SUFFICES ASSUME NEW f \in Below(S, R, e) PROVE f \in L
    OBVIOUS
  <2>1. f \in S /\ <<f, e>> \in R
    BY DEF Below
  <2>2. Rank(f) < Rank(e)
    BY <1>2, <2>1
  <2> QED BY <1>1, <1>6, <2>1, <2>2
<1>8. Rank(e) <= Cardinality(L)
  BY <1>4, <1>7, FS_Subset
<1>9. ~(Rank(e) < k)
  BY <1>6
<1> QED BY <1>1, <1>3, <1>4, <1>6, <1>8, <1>9

\* The k elements of S, each before those that follow it.
Lists(s, k, S, before) ==
  /\ s \in [1..k -> S]
  /\ \A e \in S : \E n \in 1..k : s[n] = e
  /\ \A m, n \in 1..k : (<<s[m], s[n]>> \in before <=> m < n) /\ (s[m] = s[n] => m = n)

\* That is what Sorted yields.
LEMMA SortedIs ==
  ASSUME NEW S, IsFiniteSet(S), NEW R, Orders(R, S)
  PROVE  Cardinality(S) \in Nat /\ Lists(Sorted(S, R), Cardinality(S), S, R)
<1> DEFINE s == Sorted(S, R)
           Rank(e) == Cardinality(Below(S, R, e))
<1>1. Cardinality(S) \in Nat
  BY FS_CardinalityType
<1>2. ASSUME NEW n \in 1..Cardinality(S) PROVE s[n] \in S /\ Rank(s[n]) = n - 1
  <2>1. \E e \in S : Rank(e) = n - 1
    BY <1>1, RanksFill
  <2>2. s[n] = CHOOSE e \in S : Rank(e) = n - 1
    BY DEF Sorted, Below
  <2> HIDE DEF Rank, s
  <2> QED BY <2>1, <2>2
<1>3. ASSUME NEW e \in S PROVE \E n \in 1..Cardinality(S) : s[n] = e
  <2>1. Rank(e) \in Nat /\ Rank(e) < Cardinality(S)
    BY RanksRise
  <2> DEFINE n == Rank(e) + 1
  <2>2. n \in 1..Cardinality(S)
    BY <1>1, <2>1
  <2>3. s[n] \in S /\ Rank(s[n]) = Rank(e)
    BY <1>2, <2>1, <2>2
  <2>4. s[n] = e
    BY <2>3, RanksRise
  <2> QED BY <2>2, <2>4
<1>4. s \in [1..Cardinality(S) -> S]
  <2> DEFINE Pick(n) == CHOOSE e \in S : Cardinality({f \in S : <<f, e>> \in R}) = n - 1
  <2>1. s = [n \in 1..Cardinality(S) |-> Pick(n)]
    BY DEF Sorted
  <2> HIDE DEF s, Pick
  <2> QED BY <1>2, <2>1
<1>5. ASSUME NEW m \in 1..Cardinality(S), NEW n \in 1..Cardinality(S)
      PROVE  (<<s[m], s[n]>> \in R <=> m < n) /\ (s[m] = s[n] => m = n)
  <2>1. s[m] \in S /\ s[n] \in S /\ Rank(s[m]) = m - 1 /\ Rank(s[n]) = n - 1
    BY <1>2
  <2>2. <<s[m], s[n]>> \in R <=> Rank(s[m]) < Rank(s[n])
    BY <2>1, RanksRise
  <2> HIDE DEF s, Rank
  <2> QED BY <1>1, <2>1, <2>2
<1> HIDE DEF s
<1>6. Lists(s, Cardinality(S), S, R)
  BY <1>3, <1>4, <1>5 DEF Lists
<1> QED BY <1>1, <1>6 DEF s

\* A sequence of all elements of S, each before those that follow it, is what
\* Sorted yields.
LEMMA SortedFrom ==
  ASSUME NEW S, NEW R, NEW k \in Nat, NEW o, Lists(o, k, S, R)
  PROVE  IsFiniteSet(S) /\ Cardinality(S) = k /\ Orders(R, S) /\ Sorted(S, R) = o
<1> DEFINE Rank(e) == Cardinality(Below(S, R, e))
<1>0. /\ o \in [1..k -> S] /\ \A e \in S : \E n \in 1..k : o[n] = e
      /\ \A m, n \in 1..k : (<<o[m], o[n]>> \in R <=> m < n) /\ (o[m] = o[n] => m = n)
  BY DEF Lists
<1>1. IsFiniteSet(S) /\ Cardinality(S) = k
  <2>1. o \in Bijection(1..k, S)
    BY <1>0 DEF Bijection, Injection, Surjection, IsInjective
  <2>2. ExistsBijection(1..k, S)
    BY <2>1 DEF ExistsBijection
  <2> QED BY <2>2, FS_CountingElements, FS_NatBijection
<1>2. Orders(R, S)
  <2>1. \A x \in S : <<x, x>> \notin R
    BY <1>0
  <2>2. ASSUME NEW x \in S, NEW y \in S, NEW z \in S, <<x, y>> \in R, <<y, z>> \in R
        PROVE  <<x, z>> \in R
    <3>1. PICK a, b, c \in 1..k : o[a] = x /\ o[b] = y /\ o[c] = z
      BY <1>0
    <3>2. a < b /\ b < c
      BY <1>0, <2>2, <3>1
    <3>3. a < c
      BY <3>2
    <3> QED BY <1>0, <3>1, <3>3
  <2>3. ASSUME NEW x \in S, NEW y \in S, x # y PROVE <<x, y>> \in R \/ <<y, x>> \in R
    <3>1. PICK a, b \in 1..k : o[a] = x /\ o[b] = y
      BY <1>0
    <3>2. a < b \/ b < a
      BY <2>3, <3>1
    <3> QED BY <1>0, <3>1, <3>2
  <2> QED BY <2>1, <2>2, <2>3 DEF Orders
<1>3. ASSUME NEW n \in 1..k PROVE Rank(o[n]) = n - 1
  <2> DEFINE B == Below(S, R, o[n])
             q == [m \in 1..n-1 |-> o[m]]
  <2>1. B = {o[m] : m \in 1..n-1}
    <3>1. ASSUME NEW e \in B PROVE e \in {o[m] : m \in 1..n-1}
      <4>1. e \in S /\ <<e, o[n]>> \in R
        BY DEF Below
      <4>2. PICK m \in 1..k : o[m] = e
        BY <1>0, <4>1
      <4>3. m < n
        BY <1>0, <4>1, <4>2
      <4>4. m \in 1..n-1
        BY <4>3
      <4> QED BY <4>2, <4>4
    <3>2. ASSUME NEW m \in 1..n-1 PROVE o[m] \in B
      <4>1. m \in 1..k /\ m < n
        OBVIOUS
      <4> QED BY <1>0, <4>1 DEF Below
    <3> QED BY <3>1, <3>2
  <2>2. q \in Bijection(1..n-1, B)
    <3>1. \A m \in 1..n-1 : m \in 1..k
      OBVIOUS
    <3>2. q \in [1..n-1 -> B]
      BY <2>1
    <3>3. \A l, m \in 1..n-1 : q[l] = q[m] => l = m
      BY <1>0, <3>1
    <3>4. \A e \in B : \E m \in 1..n-1 : q[m] = e
      BY <2>1
    <3> HIDE DEF q, B
    <3>5. q \in Injection(1..n-1, B)
      BY <3>2, <3>3 DEF Injection, IsInjective
    <3>6. q \in Surjection(1..n-1, B)
      BY <3>2, <3>4 DEF Surjection
    <3> QED BY <3>5, <3>6 DEF Bijection
  <2>3. ExistsBijection(1..n-1, B) /\ n - 1 \in Nat
    BY <2>2 DEF ExistsBijection
  <2> QED BY <2>3, FS_CountingElements
<1>4. ASSUME NEW n \in 1..k PROVE Sorted(S, R)[n] = o[n]
  <2>1. Rank(Sorted(S, R)[n]) = n - 1 /\ Sorted(S, R)[n] \in S
    <3>1. Sorted(S, R)[n] = CHOOSE e \in S : Rank(e) = n - 1
      BY <1>1 DEF Sorted, Below
    <3>2. o[n] \in S
      BY <1>0
    <3> HIDE DEF Rank
    <3> QED BY <1>3, <3>1, <3>2
  <2>2. o[n] \in S
    BY <1>0
  <2>3. Rank(Sorted(S, R)[n]) = Rank(o[n])
    BY <1>3, <2>1
  <2>4. \A x, y \in S : Rank(x) = Rank(y) => x = y
    BY <1>1, <1>2, RanksRise
  <2> HIDE DEF Rank
  <2> QED BY <2>1, <2>2, <2>3, <2>4
<1>5. Sorted(S, R) = o
  <2> DEFINE Pick(n) == CHOOSE e \in S : Cardinality({f \in S : <<f, e>> \in R}) = n - 1
             s == Sorted(S, R)
  <2>1. s = [n \in 1..k |-> Pick(n)]
    BY <1>1 DEF Sorted
  <2>2. \A n \in 1..k : s[n] = o[n]
    BY <1>4
  <2> HIDE DEF s, Pick
  <2>3. s = o
    BY <1>0, <2>1, <2>2
  <2> QED BY <2>3 DEF s
<1> QED BY <1>1, <1>2, <1>5

\* Natural numbers are put in order by <.
LEMMA NumbersOrdered ==
  ASSUME NEW P \in SUBSET Int
  PROVE  Orders({p \in P \X P : p[1] < p[2]}, P)
BY DEF Orders

\* Places in order: o goes through all of P, upwards.
Enumerates(o, k, P) ==
  /\ o \in [1..k -> P]
  /\ \A p \in P : \E n \in 1..k : o[n] = p
  /\ \A m, n \in 1..k : m < n => o[m] < o[n]

\* What At yields: the elements at the places, in the order of the places.
LEMMA AtIs ==
  ASSUME NEW T, NEW seq \in Seq(T), NEW P \in SUBSET (1..Len(seq))
  PROVE  LET k == Cardinality(P) IN
         /\ IsFiniteSet(P) /\ k \in Nat /\ k <= Len(seq)
         /\ At(seq, P) \in Seq(T) /\ Len(At(seq, P)) = k
         /\ \E o : Enumerates(o, k, P) /\ \A n \in 1..k : At(seq, P)[n] = seq[o[n]]
<1> DEFINE R == {p \in P \X P : p[1] < p[2]}
           o == Sorted(P, R)
           k == Cardinality(P)
<1>1. IsFiniteSet(P) /\ k \in Nat /\ k <= Len(seq)
  <2>1. IsFiniteSet(1..Len(seq)) /\ Cardinality(1..Len(seq)) = Len(seq)
    <3>1. Len(seq) \in Int /\ 1 \in Int /\ (IF 1 > Len(seq) THEN 0 ELSE Len(seq) - 1 + 1) = Len(seq)
      OBVIOUS
    <3> QED BY <3>1, FS_Interval
  <2> QED BY <2>1, FS_Subset, FS_CardinalityType
<1>2. /\ o \in [1..k -> P]
      /\ \A e \in P : \E n \in 1..k : o[n] = e
      /\ \A m, n \in 1..k : <<o[m], o[n]>> \in R <=> m < n
  <2>1. P \in SUBSET Int
    <3> SUFFICES ASSUME NEW p \in P PROVE p \in Int
      OBVIOUS
    <3>1. p \in 1..Len(seq)
      OBVIOUS
    <3> QED BY <3>1
  <2>2. Orders(R, P)
    BY <2>1, NumbersOrdered
  <2> HIDE DEF R
  <2> QED BY <1>1, <2>2, SortedIs DEF Lists
<1>3. At(seq, P) = [n \in 1..k |-> seq[o[n]]]
  BY DEF At
<1>4. \A m, n \in 1..k : m < n => o[m] < o[n]
  <2> HIDE DEF o, k
  <2> QED BY <1>2
<1> HIDE DEF o, k, R
<1>5. Enumerates(o, k, P)
  BY <1>2, <1>4 DEF Enumerates
<1>6. ASSUME NEW n \in 1..k PROVE seq[o[n]] \in T
  <2>1. o[n] \in P
    BY <1>2
  <2>2. o[n] \in 1..Len(seq)
    BY <2>1
  <2> QED BY <2>2
<1>7. /\ At(seq, P) \in Seq(T) /\ Len(At(seq, P)) = k
      /\ \A n \in 1..k : At(seq, P)[n] = seq[o[n]]
  BY <1>1, <1>3, <1>6
<1> QED BY <1>1, <1>5, <1>7 DEF k

\* Whatever goes through the places upwards says what At yields.
LEMMA AtFrom ==
  ASSUME NEW T, NEW seq \in Seq(T), NEW P \in SUBSET (1..Len(seq)),
         NEW k \in Nat, NEW o, Enumerates(o, k, P)
  PROVE  /\ Cardinality(P) = k
         /\ At(seq, P) \in Seq(T) /\ Len(At(seq, P)) = k
         /\ \A n \in 1..k : At(seq, P)[n] = seq[o[n]]
<1> DEFINE R == {p \in P \X P : p[1] < p[2]}
<1>1. o \in [1..k -> P] /\ \A p \in P : \E n \in 1..k : o[n] = p
  BY DEF Enumerates
<1>2. ASSUME NEW m \in 1..k, NEW n \in 1..k
      PROVE  (<<o[m], o[n]>> \in R <=> m < n) /\ (o[m] = o[n] => m = n)
  <2>1. o[m] \in P /\ o[n] \in P
    BY <1>1
  <2>2. o[m] \in 1..Len(seq) /\ o[n] \in 1..Len(seq)
    BY <2>1
  <2>3. (m < n => o[m] < o[n]) /\ (n < m => o[n] < o[m])
    BY DEF Enumerates
  <2> QED BY <2>1, <2>2, <2>3
<1>3. Cardinality(P) = k /\ Sorted(P, R) = o
  <2> HIDE DEF R
  <2>1. \A m, n \in 1..k : (<<o[m], o[n]>> \in R <=> m < n) /\ (o[m] = o[n] => m = n)
    BY <1>2
  <2>2. Lists(o, k, P, R)
    BY <1>1, <2>1 DEF Lists
  <2> QED BY <2>2, SortedFrom
<1>4. At(seq, P) = [n \in 1..k |-> seq[o[n]]]
  BY <1>3 DEF At
<1>5. Cardinality(P) = k /\ At(seq, P) \in Seq(T) /\ Len(At(seq, P)) = Cardinality(P)
  BY <1>3, AtIs
<1> QED BY <1>4, <1>5

\* Two sequences of one length with the same elements.
LEMMA SameSequence ==
  ASSUME NEW S, NEW s \in Seq(S), NEW T, NEW t \in Seq(T), Len(s) = Len(t),
         \A n \in 1..Len(s) : s[n] = t[n]
  PROVE  s = t
OBVIOUS

\* At all places there is the whole sequence.
LEMMA AtAll ==
  ASSUME NEW T, NEW seq \in Seq(T)
  PROVE  At(seq, 1..Len(seq)) = seq
<1> DEFINE o == [n \in 1..Len(seq) |-> n]
           P == 1..Len(seq)
           k == Len(seq)
<1>1. Enumerates(o, k, P) /\ k \in Nat /\ P \in SUBSET (1..Len(seq))
  BY DEF Enumerates
<1> HIDE DEF o, k, P
<1>2. At(seq, P) \in Seq(T) /\ Len(At(seq, P)) = k /\ \A n \in 1..k : At(seq, P)[n] = seq[o[n]]
  BY <1>1, AtFrom
<1>3. At(seq, P) = seq
  BY <1>2, SameSequence DEF o, k
<1> QED BY <1>3 DEF P

\* The last element of At is the one at the last place.
LEMMA AtLast ==
  ASSUME NEW T, NEW seq \in Seq(T), NEW P \in SUBSET (1..Len(seq)),
         NEW p \in P, \A q \in P : q <= p
  PROVE  /\ At(seq, P) # <<>>
         /\ At(seq, P)[Len(At(seq, P))] = seq[p]
<1> DEFINE k == Cardinality(P)
<1>1. PICK o : /\ k \in Nat /\ Enumerates(o, k, P)
               /\ At(seq, P) \in Seq(T) /\ Len(At(seq, P)) = k
               /\ \A n \in 1..k : At(seq, P)[n] = seq[o[n]]
  BY AtIs
<1>2. PICK n \in 1..k : o[n] = p
  BY <1>1 DEF Enumerates
<1>3. ~(n < k)
  <2> SUFFICES ASSUME n < k PROVE FALSE
    OBVIOUS
  <2>1. k \in 1..k
    BY <1>1, <1>2
  <2>2. o[n] < o[k] /\ o[k] \in P
    BY <1>1, <2>1 DEF Enumerates
  <2>3. p < o[k] /\ o[k] <= p /\ p \in 1..Len(seq) /\ o[k] \in 1..Len(seq)
    BY <1>2, <2>2
  <2> QED BY <2>3
<1>4. n = k
  BY <1>1, <1>2, <1>3
<1> HIDE DEF k
<1> QED BY <1>1, <1>2, <1>4

\* Where At yields nothing, or yields something.
LEMMA AtEmpty ==
  ASSUME NEW T, NEW seq \in Seq(T), NEW P \in SUBSET (1..Len(seq))
  PROVE  At(seq, P) = <<>> <=> P = {}
<1>1. IsFiniteSet(P) /\ At(seq, P) \in Seq(T) /\ Len(At(seq, P)) = Cardinality(P)
  BY AtIs
<1>2. Cardinality(P) = 0 <=> P = {}
  BY <1>1, FS_EmptySet
<1> QED BY <1>1, <1>2

\* What RemoveAt leaves.
LEMMA RemovedAt ==
  ASSUME NEW T, NEW s \in Seq(T), NEW i \in 1..Len(s)
  PROVE  /\ RemoveAt(s, i) \in Seq(T) /\ Len(RemoveAt(s, i)) = Len(s) - 1
         /\ \A n \in 1..Len(s)-1 : RemoveAt(s, i)[n] = IF n < i THEN s[n] ELSE s[n+1]
<1> DEFINE u == SubSeq(s, 1, i-1)
           v == SubSeq(s, i+1, Len(s))
<1>1. /\ u \in Seq(T) /\ Len(u) = i - 1 /\ \A n \in 1..i-1 : u[n] = s[n]
      /\ v \in Seq(T) /\ Len(v) = Len(s) - i /\ \A n \in 1..Len(s)-i : v[n] = s[i+n]
  OBVIOUS
<1> HIDE DEF u, v
<1>2. RemoveAt(s, i) = u \o v
  BY DEF RemoveAt, u, v
<1>3. u \o v \in Seq(T) /\ Len(u \o v) = Len(s) - 1
  BY <1>1
<1>4. ASSUME NEW n \in 1..Len(s)-1 PROVE (u \o v)[n] = IF n < i THEN s[n] ELSE s[n+1]
  <2>1. CASE n < i
    BY <1>1, <2>1
  <2>2. CASE ~(n < i)
    <3>1. PICK m \in 1..Len(s)-i : n = (i-1) + m /\ i + m = n + 1
      <4>1. /\ n - (i-1) \in 1..Len(s)-i
            /\ n = (i-1) + (n - (i-1)) /\ i + (n - (i-1)) = n + 1
        BY <2>2
      <4> QED BY <4>1
    <3>2. (u \o v)[n] = v[m]
      BY <1>1, <3>1
    <3> QED BY <1>1, <2>2, <3>1, <3>2
  <2> QED BY <2>1, <2>2
<1> QED BY <1>2, <1>3, <1>4

\* Taking one element out of At is leaving out its place.
LEMMA AtRemove ==
  ASSUME NEW T, NEW seq \in Seq(T), NEW P \in SUBSET (1..Len(seq)), NEW o,
         Enumerates(o, Cardinality(P), P), NEW i \in 1..Cardinality(P)
  PROVE  RemoveAt(At(seq, P), i) = At(seq, P \ {o[i]})
<1> DEFINE k == Cardinality(P)
           a == At(seq, P)
           Q == P \ {o[i]}
           l == k - 1
           q == [n \in 1..l |-> IF n < i THEN o[n] ELSE o[n+1]]
<1>1. k \in Nat /\ i \in 1..k /\ Enumerates(o, k, P)
  BY AtIs
<1>2. a \in Seq(T) /\ Len(a) = k /\ \A n \in 1..k : a[n] = seq[o[n]]
  <2> HIDE DEF k
  <2> QED BY <1>1, AtFrom
<1> HIDE DEF a, k
<1>3. l \in Nat /\ \A n \in 1..l : n \in 1..k /\ n + 1 \in 1..k
  BY <1>1
<1>4. Enumerates(q, l, Q)
  <2>1. o \in [1..k -> P] /\ \A m, n \in 1..k : m < n => o[m] < o[n]
    BY <1>1 DEF Enumerates
  <2>2. ASSUME NEW n \in 1..k PROVE o[n] \in P /\ o[n] \in Int
    <3>1. o[n] \in P
      BY <2>1
    <3>2. o[n] \in 1..Len(seq)
      BY <3>1
    <3> QED BY <3>1, <3>2
  <2>3. \A m, n \in 1..k : o[m] = o[n] => m = n
    BY <1>1, <2>1, <2>2, SMTT(30)
  <2>5. q \in [1..l -> Q]
    <3>1. ASSUME NEW n \in 1..l
          PROVE  (IF n < i THEN o[n] ELSE o[n+1]) \in Q
      <4>1. CASE n < i
        BY <1>1, <1>3, <2>2, <2>3, <4>1
      <4>2. CASE ~(n < i)
        <5>1. n + 1 # i /\ n + 1 \in 1..k
          BY <1>1, <1>3, <4>2
        <5> QED BY <1>1, <2>2, <2>3, <4>2, <5>1
      <4> QED BY <4>1, <4>2
    <3> QED BY <3>1
  <2>6. ASSUME NEW p \in Q PROVE \E n \in 1..l : q[n] = p
    <3>1. PICK n \in 1..k : o[n] = p
      BY <1>1 DEF Enumerates
    <3>2. n # i
      BY <3>1
    <3>3. CASE n < i
      <4>1. n \in 1..l /\ q[n] = p
        BY <1>1, <3>1, <3>3
      <4> QED BY <4>1
    <3>4. CASE n > i
      <4>1. n - 1 \in 1..l /\ ~(n - 1 < i) /\ n - 1 + 1 = n
        BY <1>1, <3>1, <3>4
      <4>2. q[n-1] = p
        BY <3>1, <4>1
      <4> QED BY <4>1, <4>2
    <3> QED BY <1>1, <3>2, <3>3, <3>4
  <2>7. ASSUME NEW m \in 1..l, NEW n \in 1..l, m < n PROVE q[m] < q[n]
    <3>1. m \in 1..k /\ n \in 1..k /\ m + 1 \in 1..k /\ n + 1 \in 1..k
      BY <1>3
    <3>2. m < n + 1 /\ m + 1 < n + 1 /\ (n < i => m < i)
      BY <1>1, <2>7
    <3> QED BY <2>1, <2>7, <3>1, <3>2
  <2> QED BY <2>5, <2>6, <2>7 DEF Enumerates
<1>5. Q \in SUBSET (1..Len(seq))
  OBVIOUS
<1>6. /\ RemoveAt(a, i) \in Seq(T) /\ Len(RemoveAt(a, i)) = l
      /\ \A n \in 1..l : RemoveAt(a, i)[n] = IF n < i THEN a[n] ELSE a[n+1]
  <2>1. i \in 1..Len(a)
    BY <1>1, <1>2
  <2> QED BY <1>2, <2>1, RemovedAt
<1>7. ASSUME NEW n \in 1..l PROVE RemoveAt(a, i)[n] = seq[q[n]]
  BY <1>2, <1>3, <1>6
<1> HIDE DEF Q, l, q
<1>8. /\ At(seq, Q) \in Seq(T) /\ Len(At(seq, Q)) = l
      /\ \A n \in 1..l : At(seq, Q)[n] = seq[q[n]]
  BY <1>3, <1>4, <1>5, AtFrom
<1>9. RemoveAt(a, i) = At(seq, Q)
  BY <1>6, <1>7, <1>8, SameSequence
<1> QED BY <1>9 DEF a, Q

-----------------------------------------------------------------------------
(* Sums. *)

\* The partial sums of a sequence of numbers.
Adds(f, s, n) ==
  /\ f \in [0..n -> Int]
  /\ f = [i \in 0..n |-> IF i = 0 THEN 0 ELSE f[i-1] + s[i]]

\* Each partial sum is a number, and the one before it plus a number of the
\* sequence.
LEMMA AddsAt ==
  ASSUME NEW f, NEW s, NEW n \in Nat, Adds(f, s, n)
  PROVE  /\ f[0] = 0
         /\ \A i \in 0..n : f[i] \in Int
         /\ \A i \in 1..n : f[i] = f[i-1] + s[i]
<1>1. f = [i \in 0..n |-> IF i = 0 THEN 0 ELSE f[i-1] + s[i]] /\ f \in [0..n -> Int]
  BY DEF Adds
<1>2. \A i \in 0..n : f[i] = IF i = 0 THEN 0 ELSE f[i-1] + s[i]
  BY <1>1
<1>3. 0 \in 0..n /\ \A i \in 1..n : i \in 0..n /\ i # 0
  OBVIOUS
<1> QED BY <1>1, <1>2, <1>3

\* The partial sums exist: the recursion has a solution.
LEMMA AddsExists ==
  ASSUME NEW s \in Seq(Int), NEW n \in Nat, n <= Len(s)
  PROVE  \E f : Adds(f, s, n)
<1> DEFINE A == {m \in Nat : m <= Len(s) => \E f : Adds(f, s, m)}
<1>1. 0 \in A
  <2>1. Adds([i \in 0..0 |-> 0], s, 0)
    BY DEF Adds
  <2> QED BY <2>1
<1>2. ASSUME NEW m \in A PROVE m + 1 \in A
  <2> SUFFICES ASSUME m + 1 <= Len(s) PROVE \E f : Adds(f, s, m + 1)
    OBVIOUS
  <2>1. PICK f : Adds(f, s, m)
    OBVIOUS
  <2> DEFINE g == [i \in 0..m+1 |-> IF i = m + 1 THEN f[m] + s[m+1] ELSE f[i]]
  <2>2. f[0] = 0 /\ (\A i \in 0..m : f[i] \in Int) /\ \A i \in 1..m : f[i] = f[i-1] + s[i]
    BY <2>1, AddsAt
  <2>3. s[m+1] \in Int /\ m \in 0..m
    OBVIOUS
  <2>4. g \in [0..m+1 -> Int]
    BY <2>2, <2>3
  <2>5. ASSUME NEW i \in 0..m+1 PROVE g[i] = IF i = 0 THEN 0 ELSE g[i-1] + s[i]
    <3>1. CASE i = 0
      BY <2>2, <3>1
    <3>2. CASE i \in 1..m
      <4>1. i - 1 \in 0..m+1 /\ i - 1 # m + 1 /\ i # m + 1
        BY <3>2
      <4>2. g[i] = f[i] /\ g[i-1] = f[i-1]
        BY <4>1
      <4> QED BY <2>2, <3>2, <4>2
    <3>3. CASE i = m + 1
      <4>1. i - 1 = m /\ m \in 0..m+1 /\ m # m + 1 /\ i # 0
        BY <3>3
      <4>2. g[i] = f[m] + s[m+1] /\ g[m] = f[m]
        BY <3>3, <4>1
      <4> QED BY <3>3, <4>1, <4>2
    <3> QED BY <3>1, <3>2, <3>3
  <2> HIDE DEF g
  <2>6. g = [i \in 0..m+1 |-> IF i = 0 THEN 0 ELSE g[i-1] + s[i]]
    BY <2>4, <2>5
  <2>7. Adds(g, s, m + 1)
    BY <2>4, <2>6 DEF Adds
  <2> QED BY <2>7
<1> HIDE DEF A
<1>3. n \in A
  BY <1>1, <1>2, Induction DEF A
<1> QED BY <1>3 DEF A

\* What SumOf is, by partial sums.
LEMMA SumIs ==
  ASSUME NEW s \in Seq(Int)
  PROVE  \E f : Adds(f, s, Len(s)) /\ SumOf(s) = f[Len(s)]
<1> DEFINE P(f) == f = [i \in 0..Len(s) |-> IF i = 0 THEN 0 ELSE f[i-1] + s[i]]
           f == CHOOSE g : P(g)
<1>1. SumOf(s) = f[Len(s)]
  BY DEF SumOf
<1>2. PICK g : Adds(g, s, Len(s))
  BY AddsExists
<1>3. P(g)
  BY <1>2 DEF Adds
<1>4. P(f)
  BY <1>3
<1> HIDE DEF f
<1>5. f = g
  <2> DEFINE A == {m \in Nat : m <= Len(s) => f[m] = g[m]}
  <2>1. f[0] = 0 /\ g[0] = 0
    BY <1>3, <1>4
  <2>2. ASSUME NEW m \in A PROVE m + 1 \in A
    <3> SUFFICES ASSUME m + 1 <= Len(s) PROVE f[m+1] = g[m+1]
      OBVIOUS
    <3>1. m + 1 \in 0..Len(s) /\ m + 1 # 0 /\ m + 1 - 1 = m
      OBVIOUS
    <3>2. f[m] = g[m]
      OBVIOUS
    <3>3. f[m+1] = f[m] + s[m+1] /\ g[m+1] = g[m] + s[m+1]
      BY <1>3, <1>4, <3>1
    <3> QED BY <3>2, <3>3
  <2>3. 0 \in A
    BY <2>1
  <2> HIDE DEF A
  <2>4. \A m \in Nat : m \in A
    BY <2>2, <2>3, Induction DEF A
  <2>5. \A m \in 0..Len(s) : f[m] = g[m]
    BY <2>4 DEF A
  <2> QED BY <1>3, <1>4, <2>5
<1> QED BY <1>1, <1>2, <1>5

\* Partial sums do not see what comes later.
LEMMA AddsLocal ==
  ASSUME NEW s, NEW t, NEW f, NEW g, NEW m \in Nat, NEW n \in Nat, NEW k \in Nat, k <= m, k <= n,
         Adds(f, s, m), Adds(g, t, n), \A i \in 1..k : s[i] = t[i]
  PROVE  f[k] = g[k]
<1> DEFINE A == {i \in Nat : i <= k => f[i] = g[i]}
<1>1. /\ f[0] = 0 /\ \A i \in 1..m : f[i] = f[i-1] + s[i]
      /\ g[0] = 0 /\ \A i \in 1..n : g[i] = g[i-1] + t[i]
  BY AddsAt
<1>2. 0 \in A
  BY <1>1
<1>3. ASSUME NEW i \in A PROVE i + 1 \in A
  <2> SUFFICES ASSUME i + 1 <= k PROVE f[i+1] = g[i+1]
    OBVIOUS
  <2>1. i + 1 \in 1..m /\ i + 1 \in 1..n /\ i + 1 \in 1..k /\ i + 1 - 1 = i /\ f[i] = g[i]
    OBVIOUS
  <2> QED BY <1>1, <2>1
<1> HIDE DEF A
<1>4. k \in A
  BY <1>2, <1>3, Induction DEF A
<1> QED BY <1>4 DEF A

\* A sum is a number, and no less than zero if nothing in it is.
LEMMA SumTyped ==
  ASSUME NEW s \in Seq(Int)
  PROVE  SumOf(s) \in Int
<1>1. PICK f : Adds(f, s, Len(s)) /\ SumOf(s) = f[Len(s)]
  BY SumIs
<1>2. Len(s) \in Nat /\ Len(s) \in 0..Len(s)
  OBVIOUS
<1> QED BY <1>1, <1>2, AddsAt

\* The sum of nothing.
LEMMA SumEmpty == SumOf(<<>>) = 0
<1>1. <<>> \in Seq(Int) /\ Len(<<>>) = 0
  OBVIOUS
<1>2. PICK f : Adds(f, <<>>, 0) /\ SumOf(<<>>) = f[0]
  BY <1>1, SumIs
<1> QED BY <1>2, AddsAt

\* A sum by its last number.
LEMMA SumAppend ==
  ASSUME NEW s \in Seq(Int), NEW t \in Seq(Int), Len(t) = Len(s) + 1,
         \A i \in 1..Len(s) : t[i] = s[i]
  PROVE  SumOf(t) = SumOf(s) + t[Len(t)]
<1>1. PICK f : Adds(f, s, Len(s)) /\ SumOf(s) = f[Len(s)]
  BY SumIs
<1>2. PICK g : Adds(g, t, Len(t)) /\ SumOf(t) = g[Len(t)]
  BY SumIs
<1>3. PICK l \in Nat : l = Len(s)
  OBVIOUS
<1>4. Len(t) = l + 1 /\ l + 1 \in Nat
  BY <1>3
<1>5. Adds(f, s, l) /\ Adds(g, t, l + 1)
  BY <1>1, <1>2, <1>3, <1>4
<1>6. g[l + 1] = g[l] + t[l + 1]
  <2>1. l + 1 \in 1..l+1 /\ l + 1 - 1 = l
    BY <1>3
  <2>2. \A i \in 1..l+1 : g[i] = g[i-1] + t[i]
    <3>1. Adds(g, t, l + 1) /\ l + 1 \in Nat
      BY <1>4, <1>5
    <3> QED BY <3>1, AddsAt, ZenonT(60)
  <2> QED BY <2>1, <2>2
<1>7. \A i \in 1..l : s[i] = t[i]
  BY <1>3
<1>8. f[l] = g[l]
  <2>1. l <= l /\ l <= l + 1
    BY <1>3
  <2>2. Adds(f, s, l) /\ Adds(g, t, l + 1) /\ l + 1 \in Nat
    BY <1>4, <1>5
  <2> QED BY <1>7, <2>1, <2>2, AddsLocal
<1> QED BY <1>1, <1>2, <1>3, <1>4, <1>6, <1>8

\* Without one of its numbers a sum is less by that number.
LEMMA SumWithout ==
  ASSUME NEW s \in Seq(Int), NEW t \in Seq(Int), NEW p \in 1..Len(s), Len(s) = Len(t) + 1,
         \A i \in 1..Len(t) : t[i] = IF i < p THEN s[i] ELSE s[i+1]
  PROVE  SumOf(s) = SumOf(t) + s[p]
<1>1. PICK f : Adds(f, s, Len(s)) /\ SumOf(s) = f[Len(s)]
  BY SumIs
<1>2. PICK g : Adds(g, t, Len(t)) /\ SumOf(t) = g[Len(t)]
  BY SumIs
<1>3. PICK l \in Nat, m \in Nat : l = Len(s) /\ m = Len(t)
  OBVIOUS
<1>0. /\ l = m + 1 /\ p \in 1..l /\ p \in Int
      /\ \A i \in 1..m : t[i] = IF i < p THEN s[i] ELSE s[i+1]
      /\ \A i \in 1..l : s[i] \in Int
      /\ Adds(f, s, l) /\ Adds(g, t, m)
  BY <1>1, <1>2, <1>3
<1>4. /\ f[0] = 0 /\ (\A i \in 0..l : f[i] \in Int) /\ \A i \in 1..l : f[i] = f[i-1] + s[i]
      /\ g[0] = 0 /\ (\A i \in 0..m : g[i] \in Int) /\ \A i \in 1..m : g[i] = g[i-1] + t[i]
  <2>1. Adds(f, s, l) /\ l \in Nat
    BY <1>0
  <2>2. f[0] = 0 /\ (\A i \in 0..l : f[i] \in Int) /\ \A i \in 1..l : f[i] = f[i-1] + s[i]
    <3>1. f[0] = 0 /\ \A i \in 0..l : f[i] \in Int
      BY <2>1, AddsAt
    <3>2. \A i \in 1..l : f[i] = f[i-1] + s[i]
      BY ONLY <2>1, AddsAt
    <3> QED BY <3>1, <3>2
  <2>3. Adds(g, t, m) /\ m \in Nat
    BY <1>0
  <2>4. g[0] = 0 /\ (\A i \in 0..m : g[i] \in Int) /\ \A i \in 1..m : g[i] = g[i-1] + t[i]
    BY <2>3, AddsAt
  <2> QED BY <2>2, <2>4
<1>5. f[p-1] = g[p-1]
  <2>1. p - 1 \in Nat /\ p - 1 <= l /\ p - 1 <= m
    BY <1>0, <1>3
  <2>2. \A i \in 1..p-1 : s[i] = t[i]
    BY <1>0, <1>3
  <2> QED BY <1>0, <1>3, <2>1, <2>2, AddsLocal, SMTT(30)
<1> DEFINE A == {k \in Nat : p + k <= l => f[p+k] = g[p+k-1] + s[p]}
<1>6. 0 \in A
  BY <1>4, <1>5
<1>7. ASSUME NEW k \in A PROVE k + 1 \in A
  <2> SUFFICES ASSUME p + (k + 1) <= l PROVE f[p+(k+1)] = g[p+(k+1)-1] + s[p]
    OBVIOUS
  <2>1. f[p+k] = g[p+k-1] + s[p]
    BY <1>0, <1>3
  <2>2. p + k + 1 \in 1..l /\ p + k + 1 - 1 = p + k /\ p + (k+1) = p + k + 1
        /\ p + k \in 1..m /\ ~(p + k < p) /\ p + k - 1 \in 0..m /\ p + (k+1) - 1 = p + k
    BY <1>0, <1>3
  <2>3. f[p+k+1] = f[p+k] + s[p+k+1]
    BY <1>4, <2>2
  <2>4. g[p+k] = g[p+k-1] + t[p+k] /\ t[p+k] = s[p+k+1]
    BY <1>0, <1>4, <2>2
  <2>5. s[p] \in Int /\ s[p+k+1] \in Int /\ g[p+k-1] \in Int
    BY <1>0, <1>4, <2>2
  <2>6. f[p+k+1] = g[p+k] + s[p]
    BY <2>1, <2>3, <2>4, <2>5
  <2> QED BY <2>2, <2>6
<1>8. l - p \in Nat /\ p + (l - p) = l /\ p + (l - p) - 1 = m
  BY <1>0, <1>3
<1> HIDE DEF A
<1>9. l - p \in A
  BY <1>6, <1>7, <1>8, Induction DEF A
<1>10. f[l] = g[m] + s[p]
  <2>1. p + (l - p) <= l
    BY <1>0, <1>3
  <2> QED BY <1>8, <1>9, <2>1 DEF A
<1> QED BY <1>1, <1>2, <1>3, <1>10

\* Of natural numbers the sum is no less than any of them.
LEMMA SumNat ==
  ASSUME NEW s \in Seq(Nat)
  PROVE  SumOf(s) \in Nat
<1>0. s \in Seq(Int)
  OBVIOUS
<1>1. PICK f : Adds(f, s, Len(s)) /\ SumOf(s) = f[Len(s)]
  BY <1>0, SumIs
<1>2. Len(s) \in Nat
  OBVIOUS
<1>3. f[0] = 0 /\ \A i \in 1..Len(s) : f[i] = f[i-1] + s[i]
  BY <1>1, <1>2, AddsAt
<1> DEFINE A == {m \in Nat : m <= Len(s) => f[m] \in Nat}
<1>4. 0 \in A
  BY <1>3
<1>5. ASSUME NEW m \in A PROVE m + 1 \in A
  <2> SUFFICES ASSUME m + 1 <= Len(s) PROVE f[m+1] \in Nat
    OBVIOUS
  <2>1. m + 1 \in 1..Len(s) /\ m + 1 - 1 = m /\ f[m] \in Nat /\ s[m+1] \in Nat
    OBVIOUS
  <2> QED BY <1>3, <2>1
<1> HIDE DEF A
<1>6. Len(s) \in A
  BY <1>2, <1>4, <1>5, Induction DEF A
<1> QED BY <1>1, <1>6 DEF A
-----------------------------------------------------------------------------
(* Digits. *)

\* What is known of the quotient by a base.
LEMMA Quotient ==
  ASSUME NEW b \in Nat \ {0, 1}, NEW m \in Nat
  PROVE  /\ m \div b \in Nat /\ m \div b <= m /\ (m > 0 => m \div b < m)
         /\ m < b => m \div b = 0
         /\ \A n \in Nat : m <= n => m \div b <= n \div b
<1>1. ASSUME NEW k \in Nat
      PROVE k \div b \in Int /\ b * (k \div b) <= k /\ k < b * (k \div b) + b
  OBVIOUS
<1> DEFINE q == m \div b
<1>2. q \in Int /\ b * q <= m /\ m < b * q + b
  BY <1>1
<1> HIDE DEF q
<1>3. q >= 0
  <2> SUFFICES ASSUME q < 0 PROVE FALSE
    BY <1>2
  <2>1. q <= -1
    BY <1>2
  <2>2. b * q <= b * (-1)
    BY <1>2, <2>1
  <2>3. b * q + b <= 0
    BY <1>2, <2>2
  <2> QED BY <1>2, <2>3
<1>4. 2 * q <= b * q
  BY <1>2, <1>3
<1>5. q \in Nat /\ q <= m /\ (m > 0 => q < m)
  <2>1. 2 * q <= m
    <3>1. b * q \in Int
      BY <1>2
    <3> HIDE <1>1
    <3> QED BY <1>2, <1>4, <3>1
  <2> QED BY <1>2, <1>3, <2>1
<1>6. m < b => q = 0
  <2> SUFFICES ASSUME m < b, q >= 1 PROVE FALSE
    BY <1>2, <1>3
  <2>1. b * 1 <= b * q
    BY <1>2
  <2> QED BY <1>2, <2>1
<1>7. ASSUME NEW n \in Nat, m <= n PROVE q <= n \div b
  <2> DEFINE p == n \div b
  <2>1. p \in Int /\ b * p <= n /\ n < b * p + b
    BY <1>1
  <2> HIDE DEF p
  <2> SUFFICES ASSUME p < q PROVE FALSE
    BY <1>2, <2>1 DEF p
  <2>2. p + 1 <= q
    BY <1>2, <2>1
  <2>3. b * (p + 1) <= b * q
    BY <1>2, <2>1, <2>2
  <2>4. b * (p + 1) = b * p + b
    BY <2>1
  <2> QED BY <1>2, <1>7, <2>1, <2>3, <2>4
<1> QED BY <1>5, <1>6, <1>7 DEF q

\* How many digits each number up to n has.
Counts(d, n) ==
  /\ d \in [0..n -> Nat]
  /\ d = [m \in 0..n |-> IF m < NumberBase THEN 1 ELSE 1 + d[m \div NumberBase]]

\* The recursion has a solution.
LEMMA CountsExist ==
  ASSUME NEW n \in Nat
  PROVE  \E d : Counts(d, n)
<1> DEFINE B == NumberBase
           A == {k \in Nat : \E d : Counts(d, k)}
<1>0. B \in Nat \ {0, 1}
  BY DigestAssumption
<1>1. 0 \in A
  <2> DEFINE d == [m \in 0..0 |-> 1]
  <2>1. d \in [0..0 -> Nat]
    OBVIOUS
  <2>2. d = [m \in 0..0 |-> IF m < NumberBase THEN 1 ELSE 1 + d[m \div NumberBase]]
    BY <1>0
  <2> HIDE DEF d
  <2>3. Counts(d, 0)
    BY <2>1, <2>2 DEF Counts
  <2> QED BY <2>3
<1>2. ASSUME NEW k \in A PROVE k + 1 \in A
  <2>1. PICK d : Counts(d, k)
    OBVIOUS
  <2>2. /\ d \in [0..k -> Nat]
        /\ d = [m \in 0..k |-> IF m < B THEN 1 ELSE 1 + d[m \div B]]
    BY <2>1 DEF Counts
  <2> DEFINE g == [m \in 0..k+1 |-> IF m = k + 1 THEN IF m < B THEN 1 ELSE 1 + d[m \div B] ELSE d[m]]
  <2>3. ASSUME NEW m \in 0..k+1, ~(m < B)
        PROVE  m \div B \in 0..k /\ m \div B # k + 1
    <3>1. m \in Nat /\ m > 0 /\ k \in Nat
      BY <1>0, <2>3
    <3> HIDE DEF B
    <3>2. m \div B \in Nat /\ m \div B < m
      BY <1>0, <3>1, Quotient
    <3> QED BY <2>3, <3>1, <3>2
  <2>4. g \in [0..k+1 -> Nat]
    <3>1. ASSUME NEW m \in 0..k+1
          PROVE  (IF m = k + 1 THEN IF m < B THEN 1 ELSE 1 + d[m \div B] ELSE d[m]) \in Nat
      <4>1. CASE m = k + 1 /\ ~(m < B)
        <5>1. d[m \div B] \in Nat
          BY <2>2, <2>3, <4>1
        <5> QED BY <4>1, <5>1
      <4>2. CASE m = k + 1 /\ m < B
        BY <4>2
      <4>3. CASE m # k + 1
        <5>1. m \in 0..k
          BY <4>3
        <5> QED BY <2>2, <4>3, <5>1
      <4> QED BY <4>1, <4>2, <4>3
    <3> QED BY <3>1
  <2>5. ASSUME NEW m \in 0..k+1 PROVE g[m] = IF m < B THEN 1 ELSE 1 + g[m \div B]
    <3>1. ~(m < B) => g[m \div B] = d[m \div B]
      <4> SUFFICES ASSUME ~(m < B) PROVE g[m \div B] = d[m \div B]
        OBVIOUS
      <4>1. m \div B \in 0..k+1 /\ m \div B # k + 1
        BY <2>3
      <4> QED BY <4>1
    <3>2. CASE m = k + 1
      BY <3>1, <3>2
    <3>3. CASE m # k + 1
      <4>1. m \in 0..k
        BY <3>3
      <4>2. g[m] = d[m] /\ d[m] = IF m < B THEN 1 ELSE 1 + d[m \div B]
        BY <2>2, <3>3, <4>1
      <4> QED BY <3>1, <4>2
    <3> QED BY <3>2, <3>3
  <2> HIDE DEF g
  <2>6. g = [m \in 0..k+1 |-> IF m < B THEN 1 ELSE 1 + g[m \div B]]
    BY <2>4, <2>5
  <2>7. Counts(g, k + 1)
    BY <2>4, <2>6 DEF Counts
  <2> QED BY <2>7
<1> HIDE DEF A
<1>3. n \in A
  BY <1>1, <1>2, Induction DEF A
<1> QED BY <1>3 DEF A

\* What is counted does not depend on how far the counting goes.
LEMMA CountsLocal ==
  ASSUME NEW d, NEW e, NEW m \in Nat, NEW n \in Nat, NEW k \in Nat, k <= m, k <= n,
         d = [i \in 0..m |-> IF i < NumberBase THEN 1 ELSE 1 + d[i \div NumberBase]],
         e = [i \in 0..n |-> IF i < NumberBase THEN 1 ELSE 1 + e[i \div NumberBase]]
  PROVE  d[k] = e[k]
<1> DEFINE A == {i \in Nat : i <= m /\ i <= n /\ d[i] # e[i]}
<1> SUFFICES A = {}
  OBVIOUS
<1> SUFFICES ASSUME A # {} PROVE FALSE
  OBVIOUS
<1>1. PICK i \in A : \A j \in A : i <= j
  <2>1. A \subseteq Nat
    OBVIOUS
  <2> HIDE DEF A
  <2> QED BY <2>1, LeastNat
<1>2. i \in Nat /\ i <= m /\ i <= n /\ d[i] # e[i]
  OBVIOUS
<1>3. i \in 0..m /\ i \in 0..n
  BY <1>2
<1>4. /\ d[i] = IF i < NumberBase THEN 1 ELSE 1 + d[i \div NumberBase]
      /\ e[i] = IF i < NumberBase THEN 1 ELSE 1 + e[i \div NumberBase]
  BY <1>3
<1>5. ~(i < NumberBase)
  BY <1>2, <1>4
<1>6. NumberBase \in Nat \ {0, 1}
  BY DigestAssumption
<1>7. i \div NumberBase \in Nat /\ i \div NumberBase < i
  <2>1. i > 0
    BY <1>2, <1>5, <1>6
  <2> QED BY <1>2, <1>6, <2>1, Quotient
<1>8. i \div NumberBase \notin A
  <2> HIDE DEF A
  <2> QED BY <1>1, <1>2, <1>7
<1>9. d[i \div NumberBase] = e[i \div NumberBase]
  <2>1. i \div NumberBase <= m /\ i \div NumberBase <= n
    BY <1>2, <1>7
  <2> QED BY <1>7, <1>8, <2>1
<1> QED BY <1>2, <1>4, <1>5, <1>9

\* A number has one digit more than its quotient by the base.
LEMMA DigitsAre ==
  ASSUME NEW n \in Nat
  PROVE  /\ Digits(n) \in Nat \ {0}
         /\ Digits(n) = IF n < NumberBase THEN 1 ELSE 1 + Digits(n \div NumberBase)
<1> DEFINE P(d, k) == d = [m \in 0..k |-> IF m < NumberBase THEN 1 ELSE 1 + d[m \div NumberBase]]
           f(k) == CHOOSE d : P(d, k)
<1>1. ASSUME NEW k \in Nat PROVE P(f(k), k) /\ Digits(k) = f(k)[k] /\ Digits(k) \in Nat
  <2>1. Digits(k) = f(k)[k]
    BY DEF Digits
  <2>2. PICK e : Counts(e, k)
    BY CountsExist
  <2>3. P(e, k)
    BY <2>2 DEF Counts
  <2>4. P(f(k), k)
    BY <2>3
  <2> DEFINE g == f(k)
  <2>5. P(g, k)
    BY <2>4
  <2> HIDE DEF f, g
  <2>6. g[k] = e[k]
    <3>1. k <= k
      OBVIOUS
    <3> QED BY <2>3, <2>5, <3>1, CountsLocal
  <2>7. e[k] \in Nat
    <3>1. e \in [0..k -> Nat] /\ k \in 0..k
      BY <2>2 DEF Counts
    <3> QED BY <3>1
  <2> QED BY <2>1, <2>4, <2>6, <2>7 DEF g
<1> DEFINE g == f(n)
<1>2. P(g, n) /\ Digits(n) = g[n] /\ Digits(n) \in Nat
  BY <1>1
<1>3. g[n] = IF n < NumberBase THEN 1 ELSE 1 + g[n \div NumberBase]
  <2>1. n \in 0..n
    OBVIOUS
  <2> HIDE DEF f, g
  <2> QED BY <1>2, <2>1
<1>4. CASE n < NumberBase
  <2> HIDE DEF f, g, P
  <2> QED BY <1>2, <1>3, <1>4
<1>5. CASE ~(n < NumberBase)
  <2> DEFINE q == n \div NumberBase
             h == f(q)
  <2>1. NumberBase \in Nat \ {0, 1}
    BY DigestAssumption
  <2>2. q \in Nat /\ q <= n
    BY <2>1, Quotient
  <2> HIDE DEF q
  <2>3. P(h, q) /\ Digits(q) = h[q] /\ Digits(q) \in Nat
    BY <1>1, <2>2
  <2> HIDE DEF f, g, h
  <2>4. g[q] = h[q]
    <3>1. q <= q
      BY <2>2
    <3> QED BY <1>2, <2>2, <2>3, <3>1, CountsLocal
  <2> HIDE DEF P
  <2>5. g[n] = 1 + g[q]
    BY <1>3, <1>5 DEF q
  <2> QED BY <1>2, <1>5, <2>3, <2>4, <2>5 DEF q
<1> QED BY <1>4, <1>5

\* A larger number has no fewer digits.
LEMMA DigitsGrow ==
  ASSUME NEW m \in Nat, NEW n \in Nat, m <= n
  PROVE  Digits(m) <= Digits(n)
<1> DEFINE A == {i \in Nat : \E j \in Nat : i <= j /\ ~(Digits(i) <= Digits(j))}
<1> SUFFICES A = {}
  OBVIOUS
<1> SUFFICES ASSUME A # {} PROVE FALSE
  OBVIOUS
<1>1. PICK i \in A : \A k \in A : i <= k
  <2>1. A \subseteq Nat
    OBVIOUS
  <2> HIDE DEF A
  <2> QED BY <2>1, LeastNat
<1>2. PICK j \in Nat : i \in Nat /\ i <= j /\ ~(Digits(i) <= Digits(j))
  OBVIOUS
<1> DEFINE B == NumberBase
<1>3. B \in Nat \ {0, 1}
  BY DigestAssumption
<1>4. /\ Digits(i) \in Nat \ {0} /\ Digits(i) = IF i < B THEN 1 ELSE 1 + Digits(i \div B)
      /\ Digits(j) \in Nat \ {0} /\ Digits(j) = IF j < B THEN 1 ELSE 1 + Digits(j \div B)
  BY <1>2, DigitsAre
<1>5. ~(i < B)
  BY <1>2, <1>4
<1>6. ~(j < B)
  BY <1>2, <1>3, <1>5
<1>7. /\ i \div B \in Nat /\ i \div B < i /\ i \div B <= j \div B
      /\ j \div B \in Nat
  <2>1. i > 0
    BY <1>2, <1>3, <1>5
  <2> HIDE DEF B, A
  <2> QED BY <1>2, <1>3, <2>1, Quotient
<1>8. i \div B \notin A
  <2> HIDE DEF A, B
  <2> QED BY <1>1, <1>2, <1>7
<1>9. Digits(i \div B) <= Digits(j \div B)
  BY <1>7, <1>8
<1>10. Digits(i \div B) \in Nat /\ Digits(j \div B) \in Nat
  <2> HIDE DEF A, B
  <2> QED BY <1>7, DigitsAre
<1> HIDE DEF A, B
<1> QED BY <1>2, <1>4, <1>5, <1>6, <1>9, <1>10

-----------------------------------------------------------------------------
(* Dropping. *)

\* The gaps of a digest span a number of seconds.
Gaps(gaps, G) == gaps \in Seq(G) /\ \A g \in G : Seconds(g) \in Nat

\* The order in which gaps are dropped: by size, then by place.
BySize(gaps) ==
  {p \in (1..Len(gaps)) \X (1..Len(gaps)) : Smaller(gaps, p[1], p[2])}

\* The order of dropping is total.
LEMMA SizesOrder ==
  ASSUME NEW G, NEW gaps, Gaps(gaps, G)
  PROVE  /\ IsFiniteSet(1..Len(gaps)) /\ Cardinality(1..Len(gaps)) = Len(gaps)
         /\ Len(gaps) \in Nat
         /\ Orders(BySize(gaps), 1..Len(gaps))
         /\ \A n \in 1..Len(gaps) :
              DropRank(gaps, n) = Cardinality(Below(1..Len(gaps), BySize(gaps), n))
<1>1. gaps \in Seq(G) /\ \A g \in G : Seconds(g) \in Nat
  BY DEF Gaps
<1> DEFINE l == Len(gaps)
           N == 1..l
           R == BySize(gaps)
<1>2. l \in Nat /\ \A n \in N : n \in Int /\ Seconds(gaps[n]) \in Nat
  BY <1>1
<1>3. IsFiniteSet(N) /\ Cardinality(N) = l
  <2>1. l \in Int /\ 1 \in Int /\ (IF 1 > l THEN 0 ELSE l - 1 + 1) = l
    BY <1>2
  <2> QED BY <2>1, FS_Interval
<1>4. \A m, n \in N : <<m, n>> \in R <=>
        Seconds(gaps[m]) < Seconds(gaps[n]) \/ (Seconds(gaps[m]) = Seconds(gaps[n]) /\ m < n)
  BY DEF BySize, Smaller
<1>5. Orders(R, N)
  <2> DEFINE sec(n) == Seconds(gaps[n])
  <2> HIDE DEF N, R
  <2>1. \A n \in N : n \in Int /\ sec(n) \in Nat
    BY <1>2
  <2>2. \A m, n \in N : <<m, n>> \in R <=> sec(m) < sec(n) \/ (sec(m) = sec(n) /\ m < n)
    BY <1>4
  <2> HIDE DEF sec
  <2> QED BY <2>1, <2>2 DEF Orders
<1>6. ASSUME NEW n \in N PROVE DropRank(gaps, n) = Cardinality(Below(N, R, n))
  <2>1. Below(N, R, n) = {m \in N : Smaller(gaps, m, n)}
    BY DEF Below, BySize
  <2> QED BY <2>1 DEF DropRank
<1> QED BY <1>2, <1>3, <1>5, <1>6

\* The places left when the j smallest gaps are gone.
Left(gaps, j) == {n \in 1..Len(gaps) : DropRank(gaps, n) >= j}

\* One gap more goes: the smallest one left, the first of them.
LEMMA GapDrops ==
  ASSUME NEW G, NEW gaps, Gaps(gaps, G), NEW j \in 0..Len(gaps)-1
  PROVE  /\ At(gaps, Left(gaps, j)) # <<>>
         /\ RemoveAt(At(gaps, Left(gaps, j)), Smallest(At(gaps, Left(gaps, j))))
              = At(gaps, Left(gaps, j + 1))
<1> DEFINE P == Left(gaps, j)
           a == At(gaps, P)
           k == Cardinality(P)
           N == 1..Len(gaps)
           R == BySize(gaps)
           Rank(n) == DropRank(gaps, n)
<1>1. gaps \in Seq(G) /\ \A g \in G : Seconds(g) \in Nat
  BY DEF Gaps
<1>2. /\ IsFiniteSet(N) /\ Cardinality(N) = Len(gaps) /\ Len(gaps) \in Nat /\ Orders(R, N)
      /\ \A n \in N : Rank(n) = Cardinality(Below(N, R, n))
  BY SizesOrder
<1>3. PICK e \in N : Rank(e) = j
  <2>1. j \in 0..Cardinality(N)-1
    BY <1>2
  <2> HIDE DEF N, R
  <2>2. \E e \in N : Cardinality(Below(N, R, e)) = j
    BY <1>2, <2>1, RanksFill
  <2> QED BY <1>2, <2>2
<1>4. ASSUME NEW n \in N
      PROVE  /\ Rank(n) \in Nat
             /\ Rank(n) = j => n = e
             /\ Rank(n) > j => Smaller(gaps, e, n)
  <2>1. /\ Cardinality(Below(N, R, n)) \in Nat
        /\ <<e, n>> \in R <=> Cardinality(Below(N, R, e)) < Cardinality(Below(N, R, n))
        /\ Cardinality(Below(N, R, e)) = Cardinality(Below(N, R, n)) => e = n
    <3> HIDE DEF N, R
    <3> QED BY <1>2, RanksRise
  <2>2. Rank(n) = Cardinality(Below(N, R, n)) /\ Rank(e) = Cardinality(Below(N, R, e))
    BY <1>2
  <2>3. <<e, n>> \in R => Smaller(gaps, e, n)
    BY DEF BySize
  <2> HIDE DEF N, R, Rank
  <2> QED BY <1>3, <2>1, <2>2, <2>3
<1>5. P \in SUBSET N /\ e \in P /\ P \ {e} = Left(gaps, j + 1)
  <2>1. P = {n \in N : Rank(n) >= j} /\ Left(gaps, j + 1) = {n \in N : Rank(n) >= j + 1}
    BY DEF Left
  <2>2. j \in Int /\ j >= j
    OBVIOUS
  <2> HIDE DEF P, N, Rank
  <2>3. e \in P
    BY <1>3, <2>1, <2>2
  <2>4. ASSUME NEW n \in N PROVE Rank(n) >= j + 1 <=> Rank(n) >= j /\ n # e
    BY <1>3, <1>4, <2>2
  <2> QED BY <2>1, <2>3, <2>4
<1>6. PICK o : /\ k \in Nat /\ Enumerates(o, k, P)
               /\ a \in Seq(G) /\ Len(a) = k /\ \A n \in 1..k : a[n] = gaps[o[n]]
  <2> HIDE DEF P
  <2> QED BY <1>1, <1>5, AtIs
<1>7. PICK i \in 1..k : o[i] = e
  BY <1>5, <1>6 DEF Enumerates
<1>8. ASSUME NEW n \in 1..k, n # i PROVE Smaller(a, i, n)
  <2>1. o[n] \in P /\ (n < i => o[n] < o[i])
    BY <1>6, <1>7 DEF Enumerates
  <2>2. o[n] \in N /\ Rank(o[n]) >= j
    BY <2>1 DEF Left
  <2>3. o[n] # e
    <3>1. n < i \/ i < n
      BY <1>6, <1>8
    <3>2. o[n] < o[i] \/ o[i] < o[n]
      BY <1>6, <1>7, <3>1 DEF Enumerates
    <3>3. o[i] \in Int
      BY <1>7
    <3> QED BY <1>7, <3>2, <3>3
  <2>4. Rank(o[n]) > j
    <3> HIDE DEF N, Rank
    <3> QED BY <1>3, <1>4, <2>2, <2>3
  <2>5. Smaller(gaps, o[i], o[n])
    BY <1>4, <1>7, <2>2, <2>4
  <2>6. a[i] = gaps[o[i]] /\ a[n] = gaps[o[n]]
    BY <1>6
  <2>7. n < i => ~(o[i] < o[n])
    <3>1. o[i] \in Int /\ o[n] \in Int
      BY <1>7, <2>2
    <3> QED BY <2>1, <3>1
  <2>8. n < i \/ i < n
    BY <1>6, <1>8
  <2> HIDE DEF a, N, P, Rank
  <2> QED BY <2>5, <2>6, <2>7, <2>8 DEF Smaller
<1>9. Smallest(a) = i
  <2>1. \A m \in 1..Len(a) \ {i} : Smaller(a, i, m)
    BY <1>6, <1>8
  <2>2. i \in 1..Len(a)
    BY <1>6
  <2>3. ASSUME NEW n \in 1..Len(a), \A m \in 1..Len(a) \ {n} : Smaller(a, n, m) PROVE n = i
    <3> SUFFICES ASSUME n # i PROVE FALSE
      OBVIOUS
    <3>1. Smaller(a, n, i) /\ Smaller(a, i, n)
      BY <2>1, <2>2, <2>3
    <3>2. Seconds(a[n]) \in Nat /\ Seconds(a[i]) \in Nat /\ n \in Int /\ i \in Int
      BY <1>1, <1>6, <2>2
    <3> HIDE DEF a
    <3> QED BY <3>1, <3>2 DEF Smaller
  <2> HIDE DEF a
  <2> QED BY <2>1, <2>2, <2>3 DEF Smallest
<1>10. RemoveAt(a, i) = At(gaps, P \ {o[i]})
  <2> HIDE DEF P
  <2>1. gaps \in Seq(G) /\ P \in SUBSET (1..Len(gaps)) /\ Enumerates(o, Cardinality(P), P)
        /\ i \in 1..Cardinality(P)
    BY <1>1, <1>5, <1>6
  <2> QED BY ONLY <2>1, AtRemove
<1>11. a # <<>>
  <2> HIDE DEF P
  <2> QED BY <1>1, <1>5, AtEmpty
<1> QED BY <1>5, <1>7, <1>9, <1>10, <1>11

\* At the beginning all gaps are there, at the end none.
LEMMA GapsLeft ==
  ASSUME NEW G, NEW gaps, Gaps(gaps, G)
  PROVE  At(gaps, Left(gaps, 0)) = gaps /\ At(gaps, Left(gaps, Len(gaps))) = <<>>
<1> DEFINE N == 1..Len(gaps)
           R == BySize(gaps)
<1>1. gaps \in Seq(G) /\ Len(gaps) \in Nat
  BY DEF Gaps
<1>2. \A n \in N : DropRank(gaps, n) \in Nat /\ DropRank(gaps, n) < Len(gaps)
  <2>1. /\ IsFiniteSet(N) /\ Cardinality(N) = Len(gaps) /\ Orders(R, N)
        /\ \A n \in N : DropRank(gaps, n) = Cardinality(Below(N, R, n))
    BY SizesOrder
  <2> HIDE DEF N, R
  <2> QED BY <2>1, RanksRise
<1>3. Left(gaps, 0) = N
  BY <1>2 DEF Left
<1>4. Left(gaps, Len(gaps)) = {}
  BY <1>1, <1>2 DEF Left
<1>5. {} \in SUBSET N
  OBVIOUS
<1>6. At(gaps, {}) = <<>>
  BY <1>1, <1>5, AtEmpty
<1> QED BY <1>1, <1>3, <1>4, <1>6, AtAll

\* A view, and what its size is counted from.
Viewed(v, R, G, V) ==
  /\ v \in [rows : Seq(R), gaps : Seq(G), violations : Seq(V)]
  /\ \A r \in R : r.row.samples \in Nat
  /\ \A g \in G : Seconds(g) \in Nat
  /\ \A x \in V : x.seq \in Nat

\* The parts of a view, and how many items it has.
LEMMA ViewParts ==
  ASSUME NEW R, NEW G, NEW V, NEW v, Viewed(v, R, G, V)
  PROVE  /\ v.rows \in Seq(R) /\ v.gaps \in Seq(G) /\ v.violations \in Seq(V)
         /\ Len(v.rows) \in Nat /\ Len(v.gaps) \in Nat /\ Len(v.violations) \in Nat
         /\ Items(v) = Len(v.rows) + Len(v.gaps) + Len(v.violations) /\ Items(v) \in Nat
         /\ Gaps(v.gaps, G)
         /\ v = [rows |-> v.rows, gaps |-> v.gaps, violations |-> v.violations]
<1>1. v \in [rows : Seq(R), gaps : Seq(G), violations : Seq(V)]
  BY DEF Viewed
<1>2. v.rows \in Seq(R) /\ v.gaps \in Seq(G) /\ v.violations \in Seq(V)
  BY <1>1
<1>3. Len(v.rows) \in Nat /\ Len(v.gaps) \in Nat /\ Len(v.violations) \in Nat
  BY <1>2
<1>4. v = [rows |-> v.rows, gaps |-> v.gaps, violations |-> v.violations]
  BY <1>1
<1>5. Gaps(v.gaps, G)
  BY <1>2 DEF Gaps, Viewed
<1> QED BY <1>2, <1>3, <1>4, <1>5 DEF Items

\* The first or the last of a sequence goes.
LEMMA ShorterEnd ==
  ASSUME NEW T, NEW s \in Seq(T), NEW k \in 0..Len(s)-1
  PROVE  /\ SubSeq(s, 1, Len(s) - k) # <<>>
         /\ Front(SubSeq(s, 1, Len(s) - k)) = SubSeq(s, 1, Len(s) - (k + 1))
<1> DEFINE t == SubSeq(s, 1, Len(s) - k)
           u == SubSeq(s, 1, Len(s) - (k + 1))
<1>1. /\ t \in Seq(T) /\ Len(t) = Len(s) - k /\ \A n \in 1..Len(s)-k : t[n] = s[n]
      /\ u \in Seq(T) /\ Len(u) = Len(s) - (k+1) /\ \A n \in 1..Len(s)-(k+1) : u[n] = s[n]
  OBVIOUS
<1> HIDE DEF t, u
<1>2. Front(t) \in Seq(T) /\ Len(Front(t)) = Len(t) - 1 /\ \A n \in 1..Len(t)-1 : Front(t)[n] = t[n]
  <2>1. Len(t) \in Nat \ {0}
    BY <1>1
  <2>2. Front(t) = SubSeq(t, 1, Len(t) - 1)
    BY DEF Front
  <2> QED BY <1>1, <2>1, <2>2
<1>3. Front(t) = u
  <2>1. Len(Front(t)) = Len(u)
    BY <1>1, <1>2
  <2>2. ASSUME NEW n \in 1..Len(Front(t)) PROVE Front(t)[n] = u[n]
    <3>1. n \in 1..Len(t)-1 /\ n \in 1..Len(s)-k /\ n \in 1..Len(s)-(k+1)
      BY <1>1, <1>2
    <3> QED BY <1>1, <1>2, <3>1
  <2> QED BY <1>1, <1>2, <2>1, <2>2, SameSequence
<1>4. t # <<>>
  BY <1>1
<1> QED BY <1>3, <1>4 DEF t, u

\* The same at the other end.
LEMMA ShorterStart ==
  ASSUME NEW T, NEW s \in Seq(T), NEW k \in 0..Len(s)-1
  PROVE  /\ SubSeq(s, k + 1, Len(s)) # <<>>
         /\ Tail(SubSeq(s, k + 1, Len(s))) = SubSeq(s, k + 2, Len(s))
<1> DEFINE t == SubSeq(s, k + 1, Len(s))
           u == SubSeq(s, k + 2, Len(s))
<1>1. /\ t \in Seq(T) /\ Len(t) = Len(s) - k /\ \A n \in 1..Len(s)-k : t[n] = s[k+n]
      /\ u \in Seq(T) /\ Len(u) = Len(s) - (k+1) /\ \A n \in 1..Len(s)-(k+1) : u[n] = s[k+1+n]
  OBVIOUS
<1> HIDE DEF t, u
<1>2. t # <<>>
  BY <1>1
<1>3. Tail(t) \in Seq(T) /\ Len(Tail(t)) = Len(t) - 1 /\ \A n \in 1..Len(t)-1 : Tail(t)[n] = t[n+1]
  BY <1>1, <1>2
<1>4. Tail(t) = u
  <2>1. Len(Tail(t)) = Len(u)
    BY <1>1, <1>3
  <2>2. ASSUME NEW n \in 1..Len(Tail(t)) PROVE Tail(t)[n] = u[n]
    <3>1. n \in 1..Len(t)-1 /\ n + 1 \in 1..Len(s)-k /\ n \in 1..Len(s)-(k+1) /\ k + (n + 1) = k + 1 + n
      BY <1>1, <1>3
    <3> QED BY <1>1, <1>3, <3>1
  <2> QED BY <1>1, <1>3, <2>1, <2>2, SameSequence
<1> QED BY <1>2, <1>4 DEF t, u

\* How many items of each kind a view has.
Sized(view, r, g, v) ==
  Len(view.rows) = r /\ Len(view.gaps) = g /\ Len(view.violations) = v

\* A view without k items, by how many it has of each kind.
LEMMA DroppedBy ==
  ASSUME NEW view, NEW r, NEW g, NEW v, Sized(view, r, g, v), NEW k
  PROVE  LET a == Less(k, r)
             b == Less(k - a, g)
             c == Less(k - a - b, v)
         IN  Dropped(view, k) = [rows |-> SubSeq(view.rows, 1, r - a),
                                 gaps |-> At(view.gaps, Left(view.gaps, b)),
                                 violations |-> SubSeq(view.violations, c + 1, v)]
BY DEF Sized, Dropped, Left

\* All of it, and nothing of it.
LEMMA AllAndNothing ==
  ASSUME NEW R, NEW G, NEW V, NEW view, Viewed(view, R, G, V),
         NEW r, NEW g, NEW v, Sized(view, r, g, v)
  PROVE  /\ SubSeq(view.rows, 1, 0) = <<>> /\ SubSeq(view.rows, 1, r) = view.rows
         /\ SubSeq(view.violations, 1, v) = view.violations
         /\ At(view.gaps, Left(view.gaps, 0)) = view.gaps
         /\ At(view.gaps, Left(view.gaps, g)) = <<>>
<1>1. ASSUME NEW T, NEW s \in Seq(T) PROVE SubSeq(s, 1, 0) = <<>> /\ SubSeq(s, 1, Len(s)) = s
  OBVIOUS
<1>2. view.rows \in Seq(R) /\ view.violations \in Seq(V) /\ Gaps(view.gaps, G)
  BY ViewParts
<1>3. r = Len(view.rows) /\ g = Len(view.gaps) /\ v = Len(view.violations)
  BY DEF Sized
<1>4. At(view.gaps, Left(view.gaps, 0)) = view.gaps /\ At(view.gaps, Left(view.gaps, g)) = <<>>
  BY <1>2, <1>3, GapsLeft
<1> QED BY <1>1, <1>2, <1>3, <1>4

\* The item that goes is the last row, where there is one,
LEMMA DropsRow ==
  ASSUME NEW s, NEW g, NEW v, s # <<>>
  PROVE  DropOne([rows |-> s, gaps |-> g, violations |-> v])
           = [rows |-> Front(s), gaps |-> g, violations |-> v]
BY DEF DropOne

\* else the smallest gap,
LEMMA DropsGap ==
  ASSUME NEW a, NEW v, a # <<>>
  PROVE  DropOne([rows |-> <<>>, gaps |-> a, violations |-> v])
           = [rows |-> <<>>, gaps |-> RemoveAt(a, Smallest(a)), violations |-> v]
BY DEF DropOne

\* else the oldest violation.
LEMMA DropsViolation ==
  ASSUME NEW v
  PROVE  DropOne([rows |-> <<>>, gaps |-> <<>>, violations |-> v])
           = [rows |-> <<>>, gaps |-> <<>>, violations |-> Tail(v)]
BY DEF DropOne

\* Rows go first, from the tail,
LEMMA RowsDropped ==
  ASSUME NEW R, NEW G, NEW V, NEW view, Viewed(view, R, G, V),
         NEW r \in Nat, NEW g \in Nat, NEW v \in Nat, Sized(view, r, g, v),
         NEW k \in Nat, k <= r
  PROVE  Dropped(view, k) = [rows |-> SubSeq(view.rows, 1, r - k),
                             gaps |-> view.gaps, violations |-> view.violations]
<1> DEFINE a == Less(k, r)
           b == Less(k - a, g)
           c == Less(k - a - b, v)
<1>1. Dropped(view, k) = [rows |-> SubSeq(view.rows, 1, r - a),
                          gaps |-> At(view.gaps, Left(view.gaps, b)),
                          violations |-> SubSeq(view.violations, c + 1, v)]
  BY DroppedBy
<1>2. a = k /\ b = 0 /\ c = 0 /\ c + 1 = 1
  <2>1. a = k
    BY DEF Less
  <2> HIDE DEF a
  <2>2. b = 0
    BY <2>1 DEF Less
  <2> HIDE DEF b
  <2>3. c = 0
    BY <2>1, <2>2 DEF Less
  <2> QED BY <2>1, <2>2, <2>3
<1> HIDE DEF a, b, c
<1>3. At(view.gaps, Left(view.gaps, 0)) = view.gaps
      /\ SubSeq(view.violations, 1, v) = view.violations
  BY AllAndNothing
<1> QED BY ONLY <1>1, <1>2, <1>3

\* then gaps, the smallest first,
LEMMA GapsDropped ==
  ASSUME NEW R, NEW G, NEW V, NEW view, Viewed(view, R, G, V),
         NEW r \in Nat, NEW g \in Nat, NEW v \in Nat, Sized(view, r, g, v),
         NEW j \in Nat, j <= g, NEW k \in Nat, k = r + j
  PROVE  Dropped(view, k) = [rows |-> <<>>, gaps |-> At(view.gaps, Left(view.gaps, j)),
                             violations |-> view.violations]
<1> DEFINE a == Less(k, r)
           b == Less(k - a, g)
           c == Less(k - a - b, v)
<1>1. Dropped(view, k) = [rows |-> SubSeq(view.rows, 1, r - a),
                          gaps |-> At(view.gaps, Left(view.gaps, b)),
                          violations |-> SubSeq(view.violations, c + 1, v)]
  BY DroppedBy
<1>2. r - a = 0 /\ b = j /\ c = 0 /\ c + 1 = 1
  <2>1. a = r
    BY DEF Less
  <2> HIDE DEF a
  <2>2. b = j
    BY <2>1 DEF Less
  <2> HIDE DEF b
  <2>3. c = 0
    BY <2>1, <2>2 DEF Less
  <2> QED BY <2>1, <2>2, <2>3
<1> HIDE DEF a, b, c
<1>3. SubSeq(view.rows, 1, 0) = <<>> /\ SubSeq(view.violations, 1, v) = view.violations
  BY AllAndNothing
<1> QED BY ONLY <1>1, <1>2, <1>3

\* then violations, the oldest first.
LEMMA ViolationsDropped ==
  ASSUME NEW R, NEW G, NEW V, NEW view, Viewed(view, R, G, V),
         NEW r \in Nat, NEW g \in Nat, NEW v \in Nat, Sized(view, r, g, v),
         NEW k \in Nat, r + g <= k, k <= r + g + v
  PROVE  Dropped(view, k) = [rows |-> <<>>, gaps |-> <<>>,
                             violations |-> SubSeq(view.violations, k - r - g + 1, v)]
<1> DEFINE a == Less(k, r)
           b == Less(k - a, g)
           c == Less(k - a - b, v)
<1>1. Dropped(view, k) = [rows |-> SubSeq(view.rows, 1, r - a),
                          gaps |-> At(view.gaps, Left(view.gaps, b)),
                          violations |-> SubSeq(view.violations, c + 1, v)]
  BY DroppedBy
<1>2. r - a = 0 /\ b = g /\ c = k - r - g
  <2>1. a = r
    BY DEF Less
  <2> HIDE DEF a
  <2>2. b = g
    BY <2>1 DEF Less
  <2> HIDE DEF b
  <2>3. c = k - r - g
    BY <2>1, <2>2 DEF Less
  <2> QED BY <2>1, <2>2, <2>3
<1> HIDE DEF a, b, c
<1>3. SubSeq(view.rows, 1, 0) = <<>> /\ At(view.gaps, Left(view.gaps, g)) = <<>>
  BY AllAndNothing
<1> QED BY ONLY <1>1, <1>2, <1>3

\* A view has so many items.
LEMMA ViewSized ==
  ASSUME NEW R, NEW G, NEW V, NEW view, Viewed(view, R, G, V)
  PROVE  \E r \in Nat, g \in Nat, v \in Nat : Sized(view, r, g, v) /\ Items(view) = r + g + v
<1>1. /\ Len(view.rows) \in Nat /\ Len(view.gaps) \in Nat /\ Len(view.violations) \in Nat
      /\ Items(view) = Len(view.rows) + Len(view.gaps) + Len(view.violations)
  BY ViewParts
<1>2. Sized(view, Len(view.rows), Len(view.gaps), Len(view.violations))
  BY DEF Sized
<1> QED BY <1>1, <1>2

\* Dropping one more item is dropping one.
LEMMA DropsOne ==
  ASSUME NEW R, NEW G, NEW V, NEW view, Viewed(view, R, G, V), NEW k \in Nat, k < Items(view)
  PROVE  Dropped(view, k + 1) = DropOne(Dropped(view, k))
<1>1. PICK r \in Nat, g \in Nat, v \in Nat : Sized(view, r, g, v) /\ Items(view) = r + g + v
  BY ViewSized
<1>2. view.rows \in Seq(R) /\ view.violations \in Seq(V) /\ Gaps(view.gaps, G)
  BY ViewParts
<1>3. r = Len(view.rows) /\ g = Len(view.gaps) /\ v = Len(view.violations)
  BY <1>1 DEF Sized
<1>4. CASE k < r
  <2> DEFINE s == SubSeq(view.rows, 1, r - k)
             i == k + 1
  <2>1. k <= r /\ i \in Nat /\ i <= r /\ k \in 0..r-1
    BY <1>4
  <2>2. s # <<>> /\ Front(s) = SubSeq(view.rows, 1, r - (k + 1))
    BY <1>2, <1>3, <2>1, ShorterEnd
  <2> HIDE DEF s, i
  <2>3. Dropped(view, k) = [rows |-> s, gaps |-> view.gaps, violations |-> view.violations]
    <3>1. Dropped(view, k) = [rows |-> SubSeq(view.rows, 1, r - k), gaps |-> view.gaps,
                              violations |-> view.violations]
      BY <1>1, <2>1, RowsDropped
    <3> QED BY ONLY <3>1 DEF s
  <2>4. Dropped(view, i) = [rows |-> SubSeq(view.rows, 1, r - i), gaps |-> view.gaps,
                            violations |-> view.violations]
    BY <1>1, <2>1, RowsDropped
  <2>5. Dropped(view, k + 1) = [rows |-> Front(s), gaps |-> view.gaps, violations |-> view.violations]
    BY ONLY <2>2, <2>4 DEF i
  <2> QED BY ONLY <2>2, <2>3, <2>5, DropsRow
<1>5. CASE r <= k /\ k < r + g
  <2> DEFINE j == k - r
             i == j + 1
             a == At(view.gaps, Left(view.gaps, j))
  <2>1. j \in Nat /\ j <= g /\ j \in 0..g-1 /\ i \in Nat /\ i <= g /\ r + j = k /\ r + i = k + 1
    BY <1>5
  <2> HIDE DEF j
  <2>2. a # <<>> /\ RemoveAt(a, Smallest(a)) = At(view.gaps, Left(view.gaps, j + 1))
    BY <1>2, <1>3, <2>1, GapDrops
  <2> HIDE DEF i
  <2>3. Dropped(view, k) = [rows |-> <<>>, gaps |-> a, violations |-> view.violations]
    <3>1. k = r + j
      BY <2>1
    <3> QED BY ONLY Viewed(view, R, G, V), <1>1, <2>1, <3>1, GapsDropped, k \in Nat,
                    r \in Nat, g \in Nat, v \in Nat
  <2> DEFINE l == k + 1
  <2>4. l \in Nat /\ l = r + i
    BY <2>1
  <2> HIDE DEF l
  <2>6. Dropped(view, l) = [rows |-> <<>>, gaps |-> At(view.gaps, Left(view.gaps, i)),
                            violations |-> view.violations]
    BY ONLY Viewed(view, R, G, V), <1>1, <2>1, <2>4, GapsDropped,
            r \in Nat, g \in Nat, v \in Nat
  <2> HIDE DEF a
  <2>5. Dropped(view, k + 1) = [rows |-> <<>>, gaps |-> RemoveAt(a, Smallest(a)),
                                violations |-> view.violations]
    BY ONLY <2>2, <2>6 DEF i, l
  <2> QED BY ONLY <2>2, <2>3, <2>5, DropsGap
<1>6. CASE r + g <= k
  <2> DEFINE j == k - r - g
             t == SubSeq(view.violations, j + 1, v)
             l == k + 1
  <2>1. /\ j \in 0..v-1 /\ r + g <= k /\ k <= r + g + v
        /\ l \in Nat /\ r + g <= l /\ l <= r + g + v /\ l - r - g + 1 = j + 2
    BY <1>1, <1>6
  <2> HIDE DEF l
  <2>2. Tail(t) = SubSeq(view.violations, j + 2, v)
    <3> HIDE DEF j
    <3> QED BY <1>2, <1>3, <2>1, ShorterStart
  <2>3. Dropped(view, k) = [rows |-> <<>>, gaps |-> <<>>, violations |-> t]
    BY <1>1, <2>1, ViolationsDropped
  <2>4. Dropped(view, l) = [rows |-> <<>>, gaps |-> <<>>,
                            violations |-> SubSeq(view.violations, l - r - g + 1, v)]
    BY <1>1, <2>1, ViolationsDropped
  <2> HIDE DEF t, j
  <2>5. Dropped(view, k + 1) = [rows |-> <<>>, gaps |-> <<>>, violations |-> Tail(t)]
    BY ONLY <2>1, <2>2, <2>4 DEF l
  <2> QED BY ONLY <2>3, <2>5, DropsViolation
<1>7. k < r \/ (r <= k /\ k < r + g) \/ r + g <= k
  OBVIOUS
<1> QED BY <1>4, <1>5, <1>6, <1>7

\* Without drops there is the whole view.
LEMMA DropsNone ==
  ASSUME NEW R, NEW G, NEW V, NEW view, Viewed(view, R, G, V)
  PROVE  Dropped(view, 0) = view
<1>1. PICK r \in Nat, g \in Nat, v \in Nat : Sized(view, r, g, v)
  BY ViewSized
<1>2. 0 \in Nat /\ 0 <= r /\ r - 0 = r
  OBVIOUS
<1>3. Dropped(view, 0) = [rows |-> SubSeq(view.rows, 1, r - 0),
                          gaps |-> view.gaps, violations |-> view.violations]
  BY <1>1, <1>2, RowsDropped
<1>4. SubSeq(view.rows, 1, r) = view.rows
  BY <1>1, AllAndNothing
<1>5. view = [rows |-> view.rows, gaps |-> view.gaps, violations |-> view.violations]
  BY ViewParts
<1> QED BY ONLY <1>2, <1>3, <1>4, <1>5

-----------------------------------------------------------------------------
(* Sizes. *)

\* t is s without its p-th element.
Lacks(t, s, p) ==
  /\ p \in 1..Len(s) /\ Len(s) = Len(t) + 1
  /\ \A i \in 1..Len(t) : t[i] = IF i < p THEN s[i] ELSE s[i+1]

\* A list is no longer without one of its items.
LEMMA ListShrinks ==
  ASSUME NEW s \in Seq(Nat)
  PROVE  /\ ListSize(s) \in Nat
         /\ \A t \in Seq(Nat), p \in Nat : Lacks(t, s, p) => ListSize(t) <= ListSize(s)
<1>1. ASSUME NEW u \in Seq(Nat)
      PROVE  /\ Len(u) \in Nat /\ SumOf(u) \in Nat /\ Digits(Len(u)) \in Nat
             /\ ListSize(u) = Digits(Len(u)) + Len(u) + SumOf(u) /\ ListSize(u) \in Nat
  <2>1. Len(u) \in Nat
    OBVIOUS
  <2>2. SumOf(u) \in Nat
    BY SumNat
  <2>3. Digits(Len(u)) \in Nat
    BY <2>1, DigitsAre
  <2>4. ListSize(u) = Digits(Len(u)) + Len(u) + SumOf(u)
    BY DEF ListSize
  <2>5. Digits(Len(u)) + Len(u) + SumOf(u) \in Nat
    BY <2>1, <2>2, <2>3
  <2> QED BY <2>1, <2>2, <2>3, <2>4, <2>5
<1>2. ASSUME NEW t \in Seq(Nat), NEW p \in Nat, Lacks(t, s, p) PROVE ListSize(t) <= ListSize(s)
  <2>1. /\ p \in 1..Len(s) /\ Len(s) = Len(t) + 1
        /\ \A i \in 1..Len(t) : t[i] = IF i < p THEN s[i] ELSE s[i+1]
    BY <1>2 DEF Lacks
  <2>2. s \in Seq(Int) /\ t \in Seq(Int)
    OBVIOUS
  <2>3. SumOf(s) = SumOf(t) + s[p]
    BY <2>1, <2>2, SumWithout
  <2>4. s[p] \in Nat
    BY <2>1
  <2>5. Len(t) \in Nat /\ Len(s) \in Nat /\ Len(t) <= Len(s)
    BY <2>1
  <2>6. Digits(Len(t)) <= Digits(Len(s))
    BY <2>5, DigitsGrow
  <2>7. /\ ListSize(t) = Digits(Len(t)) + Len(t) + SumOf(t) /\ SumOf(t) \in Nat /\ Digits(Len(t)) \in Nat
        /\ ListSize(s) = Digits(Len(s)) + Len(s) + SumOf(s) /\ SumOf(s) \in Nat /\ Digits(Len(s)) \in Nat
    BY <1>1
  <2> QED BY <2>3, <2>4, <2>5, <2>6, <2>7, SMTT(30)
<1> QED BY <1>1, <1>2

\* What is taken out of a view.
LEMMA LacksFront ==
  ASSUME NEW T, NEW s \in Seq(T), s # <<>>
  PROVE  Front(s) \in Seq(T) /\ Lacks(Front(s), s, Len(s)) /\ Len(s) \in Nat
<1>1. Len(s) \in Nat /\ Len(s) > 0
  OBVIOUS
<1>2. Front(s) = SubSeq(s, 1, Len(s) - 1)
  BY DEF Front
<1>3. Front(s) \in Seq(T) /\ Len(Front(s)) = Len(s) - 1 /\ \A i \in 1..Len(s)-1 : Front(s)[i] = s[i]
  <2>0. Len(s) - 1 \in Nat /\ Len(s) - 1 <= Len(s)
    BY <1>1
  <2>1. PICK l \in Nat : l = Len(s) - 1 /\ l <= Len(s)
    BY ONLY <2>0
  <2> DEFINE u == SubSeq(s, 1, l)
  <2>2. u \in Seq(T) /\ Len(u) = l /\ \A i \in 1..l : u[i] = s[i]
    BY <2>1
  <2> HIDE DEF u
  <2>3. Front(s) = u
    BY <1>2, <2>1 DEF u
  <2> QED BY <2>1, <2>2, <2>3
<1>4. \A i \in 1..Len(Front(s)) : Front(s)[i] = IF i < Len(s) THEN s[i] ELSE s[i+1]
  BY <1>1, <1>3
<1> QED BY <1>1, <1>3, <1>4 DEF Lacks

\* A tail lacks the first element,
LEMMA LacksTail ==
  ASSUME NEW T, NEW s \in Seq(T), s # <<>>
  PROVE  Tail(s) \in Seq(T) /\ Lacks(Tail(s), s, 1)
<1>1. Len(s) \in Nat /\ Len(s) > 0
  OBVIOUS
<1>2. Tail(s) \in Seq(T) /\ Len(Tail(s)) = Len(s) - 1 /\ \A i \in 1..Len(s)-1 : Tail(s)[i] = s[i+1]
  OBVIOUS
<1>3. ASSUME NEW i \in 1..Len(Tail(s))
      PROVE  Tail(s)[i] = IF i < 1 THEN s[i] ELSE s[i+1]
  <2>1. i \in 1..Len(s)-1 /\ ~(i < 1)
    BY <1>1, <1>2
  <2> QED BY <1>2, <2>1
<1> QED BY <1>1, <1>2, <1>3 DEF Lacks

\* and RemoveAt leaves out the element at its place.
LEMMA LacksPlace ==
  ASSUME NEW T, NEW s \in Seq(T), NEW p \in 1..Len(s)
  PROVE  RemoveAt(s, p) \in Seq(T) /\ Lacks(RemoveAt(s, p), s, p)
BY RemovedAt DEF Lacks

\* There is a smallest gap, if there is one.
LEMMA SmallestIs ==
  ASSUME NEW G, NEW gaps, Gaps(gaps, G), gaps # <<>>
  PROVE  /\ Smallest(gaps) \in 1..Len(gaps)
         /\ \A m \in 1..Len(gaps) \ {Smallest(gaps)} : Smaller(gaps, Smallest(gaps), m)
<1> DEFINE N == 1..Len(gaps)
           R == BySize(gaps)
<1>1. gaps \in Seq(G) /\ \A g \in G : Seconds(g) \in Nat
  BY DEF Gaps
<1>2. /\ IsFiniteSet(N) /\ Cardinality(N) = Len(gaps) /\ Len(gaps) \in Nat /\ Orders(R, N)
  BY SizesOrder
<1>3. \E e \in N : Cardinality(Below(N, R, e)) = 0
  <2>1. 0 \in 0..Cardinality(N)-1
    BY <1>1, <1>2
  <2> HIDE DEF N, R
  <2> QED BY <1>2, <2>1, RanksFill
<1>4. PICK e \in N : Cardinality(Below(N, R, e)) = 0
  BY <1>3
<1>5. ASSUME NEW m \in N \ {e} PROVE Smaller(gaps, e, m)
  <2>1. /\ Cardinality(Below(N, R, m)) \in Nat
        /\ <<e, m>> \in R <=> Cardinality(Below(N, R, e)) < Cardinality(Below(N, R, m))
        /\ Cardinality(Below(N, R, e)) = Cardinality(Below(N, R, m)) => e = m
    <3>1. m \in N
      OBVIOUS
    <3> HIDE DEF N, R
    <3> QED BY <1>2, <3>1, RanksRise
  <2>2. <<e, m>> \in R
    <3> HIDE DEF N, R
    <3> QED BY <1>4, <2>1
  <2> QED BY <2>2 DEF BySize
<1> QED BY <1>5 DEF Smallest

\* Dropping an item leaves a view, and it is no longer.
LEMMA ViewShrinks ==
  ASSUME NEW R, NEW G, NEW V, NEW v, Viewed(v, R, G, V)
  PROVE  /\ Size(v) \in Int
         /\ Items(v) > 0 => /\ Viewed(DropOne(v), R, G, V)
                            /\ Size(DropOne(v)) <= Size(v)
                            /\ Items(DropOne(v)) = Items(v) - 1
<1> DEFINE rs(w) == [n \in 1..Len(w) |-> RowSize(w[n])]
           gs(w) == [n \in 1..Len(w) |-> GapSize(w[n])]
           vs(w) == [n \in 1..Len(w) |-> ViolationSize(w[n])]
<1>1. ASSUME NEW w \in Seq(R) PROVE rs(w) \in Seq(Nat) /\ Len(rs(w)) = Len(w)
  <2>1. ASSUME NEW n \in 1..Len(w) PROVE RowSize(w[n]) \in Nat
    <3>1. w[n].row.samples \in Nat
      BY DEF Viewed
    <3>2. Digits(w[n].row.samples) \in Nat
      BY <3>1, DigitsAre
    <3> QED BY <3>2 DEF RowSize
  <2>2. Len(w) \in Nat
    OBVIOUS
  <2> QED BY <2>1, <2>2
<1>2. ASSUME NEW w \in Seq(G) PROVE gs(w) \in Seq(Nat) /\ Len(gs(w)) = Len(w)
  <2>1. ASSUME NEW n \in 1..Len(w) PROVE GapSize(w[n]) \in Nat
    <3>1. Seconds(w[n]) \in Nat
      BY DEF Viewed
    <3>2. Digits(Seconds(w[n])) \in Nat
      BY <3>1, DigitsAre
    <3> QED BY <3>2 DEF GapSize
  <2>2. Len(w) \in Nat
    OBVIOUS
  <2> QED BY <2>1, <2>2
<1>3. ASSUME NEW w \in Seq(V) PROVE vs(w) \in Seq(Nat) /\ Len(vs(w)) = Len(w)
  <2>1. ASSUME NEW n \in 1..Len(w) PROVE ViolationSize(w[n]) \in Nat
    <3>1. w[n].seq \in Nat
      BY DEF Viewed
    <3>2. Digits(w[n].seq) \in Nat
      BY <3>1, DigitsAre
    <3> QED BY <3>2 DEF ViolationSize
  <2>2. Len(w) \in Nat
    OBVIOUS
  <2> QED BY <2>1, <2>2
<1>4. ASSUME NEW w \in Seq(R), NEW u \in Seq(R), NEW p \in Nat, Lacks(u, w, p)
      PROVE  ListSize(rs(u)) <= ListSize(rs(w))
  <2>1. Lacks(rs(u), rs(w), p)
    <3>1. ASSUME NEW i \in 1..Len(u) PROVE rs(u)[i] = IF i < p THEN rs(w)[i] ELSE rs(w)[i+1]
      <4>1. i \in 1..Len(w) /\ i + 1 \in 1..Len(w)
        BY <1>4 DEF Lacks
      <4> QED BY <1>4, <4>1 DEF Lacks
    <3>2. p \in 1..Len(w) /\ Len(w) = Len(u) + 1
      BY <1>4 DEF Lacks
    <3>3. Len(rs(u)) = Len(u) /\ Len(rs(w)) = Len(w)
      BY <1>1
    <3> HIDE DEF rs
    <3> QED BY <3>1, <3>2, <3>3 DEF Lacks
  <2>2. rs(u) \in Seq(Nat) /\ rs(w) \in Seq(Nat)
    BY <1>1
  <2> HIDE DEF rs
  <2> QED BY <2>1, <2>2, ListShrinks
<1>5. ASSUME NEW w \in Seq(G), NEW u \in Seq(G), NEW p \in Nat, Lacks(u, w, p)
      PROVE  ListSize(gs(u)) <= ListSize(gs(w))
  <2>1. Lacks(gs(u), gs(w), p)
    <3>1. ASSUME NEW i \in 1..Len(u) PROVE gs(u)[i] = IF i < p THEN gs(w)[i] ELSE gs(w)[i+1]
      <4>1. i \in 1..Len(w) /\ i + 1 \in 1..Len(w)
        BY <1>5 DEF Lacks
      <4> QED BY <1>5, <4>1 DEF Lacks
    <3>2. p \in 1..Len(w) /\ Len(w) = Len(u) + 1
      BY <1>5 DEF Lacks
    <3>3. Len(gs(u)) = Len(u) /\ Len(gs(w)) = Len(w)
      BY <1>2
    <3> HIDE DEF gs
    <3> QED BY <3>1, <3>2, <3>3 DEF Lacks
  <2>2. gs(u) \in Seq(Nat) /\ gs(w) \in Seq(Nat)
    BY <1>2
  <2> HIDE DEF gs
  <2> QED BY <2>1, <2>2, ListShrinks
<1>6. ASSUME NEW w \in Seq(V), NEW u \in Seq(V), NEW p \in Nat, Lacks(u, w, p)
      PROVE  ListSize(vs(u)) <= ListSize(vs(w))
  <2>1. Lacks(vs(u), vs(w), p)
    <3>1. ASSUME NEW i \in 1..Len(u) PROVE vs(u)[i] = IF i < p THEN vs(w)[i] ELSE vs(w)[i+1]
      <4>1. i \in 1..Len(w) /\ i + 1 \in 1..Len(w)
        BY <1>6 DEF Lacks
      <4> QED BY <1>6, <4>1 DEF Lacks
    <3>2. p \in 1..Len(w) /\ Len(w) = Len(u) + 1
      BY <1>6 DEF Lacks
    <3>3. Len(vs(u)) = Len(u) /\ Len(vs(w)) = Len(w)
      BY <1>3
    <3> HIDE DEF vs
    <3> QED BY <3>1, <3>2, <3>3 DEF Lacks
  <2>2. vs(u) \in Seq(Nat) /\ vs(w) \in Seq(Nat)
    BY <1>3
  <2> HIDE DEF vs
  <2> QED BY <2>1, <2>2, ListShrinks
<1>7. ASSUME NEW w, Viewed(w, R, G, V)
      PROVE  /\ Size(w) = ListSize(rs(w.rows)) + ListSize(gs(w.gaps)) + ListSize(vs(w.violations))
             /\ ListSize(rs(w.rows)) \in Nat /\ ListSize(gs(w.gaps)) \in Nat
             /\ ListSize(vs(w.violations)) \in Nat
  <2>1. w.rows \in Seq(R) /\ w.gaps \in Seq(G) /\ w.violations \in Seq(V)
    BY <1>7, ViewParts
  <2>2. rs(w.rows) \in Seq(Nat) /\ gs(w.gaps) \in Seq(Nat) /\ vs(w.violations) \in Seq(Nat)
    BY <1>1, <1>2, <1>3, <2>1
  <2>3. Size(w) = ListSize(rs(w.rows)) + ListSize(gs(w.gaps)) + ListSize(vs(w.violations))
    BY DEF Size
  <2> HIDE DEF rs, gs, vs
  <2> QED BY <2>2, <2>3, ListShrinks
<1> HIDE DEF rs, gs, vs
<1>8. ASSUME NEW r \in Seq(R), NEW g \in Seq(G), NEW x \in Seq(V),
             DropOne(v) = [rows |-> r, gaps |-> g, violations |-> x],
             ListSize(rs(r)) <= ListSize(rs(v.rows)), ListSize(gs(g)) <= ListSize(gs(v.gaps)),
             ListSize(vs(x)) <= ListSize(vs(v.violations)),
             Len(r) + Len(g) + Len(x) = Items(v) - 1
      PROVE  /\ Viewed(DropOne(v), R, G, V) /\ Size(DropOne(v)) <= Size(v)
             /\ Items(DropOne(v)) = Items(v) - 1
  <2> DEFINE w == DropOne(v)
  <2>1. w.rows = r /\ w.gaps = g /\ w.violations = x
    BY <1>8
  <2>2. w \in [rows : Seq(R), gaps : Seq(G), violations : Seq(V)]
    BY <1>8
  <2> HIDE DEF w
  <2>3. Viewed(w, R, G, V)
    BY <2>2 DEF Viewed
  <2>4. Items(w) = Items(v) - 1
    BY <1>8, <2>1 DEF Items
  <2>5. Size(w) <= Size(v)
    <3>1. /\ Size(w) = ListSize(rs(r)) + ListSize(gs(g)) + ListSize(vs(x))
          /\ ListSize(rs(r)) \in Nat /\ ListSize(gs(g)) \in Nat /\ ListSize(vs(x)) \in Nat
      BY <1>7, <2>1, <2>3
    <3>2. /\ Size(v) = ListSize(rs(v.rows)) + ListSize(gs(v.gaps)) + ListSize(vs(v.violations))
          /\ ListSize(rs(v.rows)) \in Nat /\ ListSize(gs(v.gaps)) \in Nat
          /\ ListSize(vs(v.violations)) \in Nat
      BY <1>7
    <3> QED BY <1>8, <3>1, <3>2
  <2> QED BY <2>3, <2>4, <2>5 DEF w
<1>9. /\ v.rows \in Seq(R) /\ v.gaps \in Seq(G) /\ v.violations \in Seq(V) /\ Gaps(v.gaps, G)
      /\ Len(v.rows) \in Nat /\ Len(v.gaps) \in Nat /\ Len(v.violations) \in Nat
      /\ Items(v) = Len(v.rows) + Len(v.gaps) + Len(v.violations)
      /\ v = [rows |-> v.rows, gaps |-> v.gaps, violations |-> v.violations]
  BY ViewParts
<1>10. /\ ListSize(rs(v.rows)) <= ListSize(rs(v.rows)) /\ ListSize(gs(v.gaps)) <= ListSize(gs(v.gaps))
       /\ ListSize(vs(v.violations)) <= ListSize(vs(v.violations)) /\ Size(v) \in Int
  BY <1>7
<1>11. ASSUME Items(v) > 0
       PROVE  /\ Viewed(DropOne(v), R, G, V) /\ Size(DropOne(v)) <= Size(v)
              /\ Items(DropOne(v)) = Items(v) - 1
  <2>1. CASE v.rows # <<>>
    <3>1. DropOne(v) = [rows |-> Front(v.rows), gaps |-> v.gaps, violations |-> v.violations]
      BY <1>9, <2>1, DropsRow
    <3>2. /\ Front(v.rows) \in Seq(R) /\ Lacks(Front(v.rows), v.rows, Len(v.rows))
          /\ ListSize(rs(Front(v.rows))) <= ListSize(rs(v.rows))
      BY <1>4, <1>9, <2>1, LacksFront
    <3>3. Len(Front(v.rows)) + Len(v.gaps) + Len(v.violations) = Items(v) - 1
      <4>1. Len(v.rows) = Len(Front(v.rows)) + 1 /\ Len(Front(v.rows)) \in Nat
        BY <3>2 DEF Lacks
      <4> QED BY <1>9, <4>1
    <3> QED BY <1>8, <1>9, <1>10, <3>1, <3>2, <3>3
  <2>2. CASE v.rows = <<>> /\ v.gaps # <<>>
    <3> DEFINE p == Smallest(v.gaps)
               u == RemoveAt(v.gaps, p)
    <3>1. DropOne(v) = [rows |-> v.rows, gaps |-> u, violations |-> v.violations]
      BY <1>9, <2>2, DropsGap
    <3>2. p \in 1..Len(v.gaps) /\ p \in Nat
      BY <1>9, <2>2, SmallestIs
    <3> HIDE DEF p
    <3>3. u \in Seq(G) /\ Lacks(u, v.gaps, p)
      BY <1>9, <3>2, LacksPlace
    <3> HIDE DEF u
    <3>4. ListSize(gs(u)) <= ListSize(gs(v.gaps))
      BY <1>5, <1>9, <3>2, <3>3
    <3>5. Len(v.rows) + Len(u) + Len(v.violations) = Items(v) - 1
      <4>1. Len(v.gaps) = Len(u) + 1 /\ Len(u) \in Nat
        BY <3>3 DEF Lacks
      <4> QED BY <1>9, <4>1
    <3> QED BY <1>8, <1>9, <1>10, <3>1, <3>3, <3>4, <3>5
  <2>3. CASE v.rows = <<>> /\ v.gaps = <<>>
    <3> DEFINE u == Tail(v.violations)
    <3>1. v.violations # <<>>
      <4>1. Len(<<>>) = 0
        OBVIOUS
      <4> QED BY <1>9, <1>11, <2>3, <4>1
    <3>2. DropOne(v) = [rows |-> v.rows, gaps |-> v.gaps, violations |-> u]
      BY <1>9, <2>3, DropsViolation
    <3>3. u \in Seq(V) /\ Lacks(u, v.violations, 1)
      BY <1>9, <3>1, LacksTail
    <3> HIDE DEF u
    <3>4. ListSize(vs(u)) <= ListSize(vs(v.violations))
      BY <1>6, <1>9, <3>3
    <3>5. Len(v.rows) + Len(v.gaps) + Len(u) = Items(v) - 1
      <4>1. Len(v.violations) = Len(u) + 1 /\ Len(u) \in Nat
        BY <3>3 DEF Lacks
      <4> QED BY <1>9, <4>1
    <3> QED BY <1>8, <1>9, <1>10, <3>2, <3>3, <3>4, <3>5
  <2> QED BY <2>1, <2>2, <2>3
<1> QED BY <1>10, <1>11

-----------------------------------------------------------------------------
(* Fitting. *)

\* Without k items the view fits.
Fits(view, limit, k) == Size(Dropped(view, k)) <= limit

\* What fits goes on fitting with more drops.
LEMMA FitsOn ==
  ASSUME NEW R, NEW G, NEW V, NEW view, Viewed(view, R, G, V), NEW limit \in Int
  PROVE  \A j, k \in 0..Items(view) : j <= k /\ Fits(view, limit, j) => Fits(view, limit, k)
<1> DEFINE n == Items(view)
           d(k) == Dropped(view, k)
<1>0. n \in Nat
  BY ViewParts
<1>1. \A k \in Nat : k < n => d(k + 1) = DropOne(d(k))
  BY DropsOne
<1>2. d(0) = view
  BY DropsNone
<1> HIDE DEF d
<1>3. \A k \in Nat : k <= n => Viewed(d(k), R, G, V) /\ Items(d(k)) = n - k
  <2> DEFINE A == {k \in Nat : k <= n => Viewed(d(k), R, G, V) /\ Items(d(k)) = n - k}
  <2>1. 0 \in A
    BY <1>0, <1>2
  <2>2. ASSUME NEW k \in A PROVE k + 1 \in A
    <3> SUFFICES ASSUME k + 1 <= n
                 PROVE  Viewed(d(k + 1), R, G, V) /\ Items(d(k + 1)) = n - (k + 1)
      OBVIOUS
    <3>1. k \in Nat /\ k < n /\ k <= n /\ n - k > 0
      BY <1>0
    <3>2. Viewed(d(k), R, G, V) /\ Items(d(k)) = n - k
      BY <3>1
    <3>3. d(k + 1) = DropOne(d(k))
      BY <1>1, <3>1
    <3> HIDE DEF n
    <3>4. Viewed(DropOne(d(k)), R, G, V) /\ Items(DropOne(d(k))) = n - k - 1
      BY <3>1, <3>2, ViewShrinks
    <3> QED BY <1>0, <3>1, <3>3, <3>4
  <2> HIDE DEF A
  <2>3. \A k \in Nat : k \in A
    BY <2>1, <2>2, Induction DEF A
  <2> QED BY <2>3 DEF A
<1>4. \A k \in Nat : k <= n => Size(d(k)) \in Int
  BY <1>3, ViewShrinks
<1>5. \A k \in Nat : k < n => Size(d(k + 1)) <= Size(d(k))
  <2> SUFFICES ASSUME NEW k \in Nat, k < n PROVE Size(d(k + 1)) <= Size(d(k))
    OBVIOUS
  <2>1. Viewed(d(k), R, G, V) /\ Items(d(k)) = n - k /\ n - k > 0
    BY <1>0, <1>3
  <2>2. Size(DropOne(d(k))) <= Size(d(k))
    BY <2>1, ViewShrinks
  <2> QED BY <1>1, <2>2
<1> HIDE DEF n
<1>6. ASSUME NEW j \in 0..n PROVE \A i \in Nat : j + i <= n => Size(d(j + i)) <= Size(d(j))
  <2> DEFINE A == {i \in Nat : j + i <= n => Size(d(j + i)) <= Size(d(j))}
  <2>0. j \in Nat /\ j <= n
    BY <1>0
  <2>1. 0 \in A
    <3>1. j + 0 = j /\ Size(d(j)) \in Int
      BY <1>4, <2>0
    <3> QED BY <3>1
  <2>2. ASSUME NEW i \in A PROVE i + 1 \in A
    <3> SUFFICES ASSUME j + (i + 1) <= n PROVE Size(d(j + (i + 1))) <= Size(d(j))
      OBVIOUS
    <3> DEFINE k == j + i
    <3>1. k \in Nat /\ k < n /\ j + (i + 1) = k + 1 /\ k + 1 \in Nat /\ k + 1 <= n /\ k <= n
      BY <1>0, <2>0
    <3>2. Size(d(k)) <= Size(d(j))
      BY <3>1
    <3> HIDE DEF k
    <3>3. Size(d(k + 1)) <= Size(d(k))
      BY <1>5, <3>1
    <3>4. Size(d(k + 1)) \in Int /\ Size(d(k)) \in Int /\ Size(d(j)) \in Int
      BY <1>4, <2>0, <3>1
    <3>5. Size(d(k + 1)) <= Size(d(j))
      BY <3>2, <3>3, <3>4
    <3> QED BY <3>1, <3>5
  <2> HIDE DEF A
  <2>3. \A i \in Nat : i \in A
    BY <2>1, <2>2, Induction DEF A
  <2> QED BY <2>3 DEF A
<1>7. ASSUME NEW j \in 0..n, NEW k \in 0..n, j <= k, Size(d(j)) <= limit
      PROVE  Size(d(k)) <= limit
  <2> DEFINE i == k - j
  <2>1. i \in Nat /\ j + i = k /\ j + i <= n /\ j \in Nat /\ k \in Nat /\ j <= n /\ k <= n
    BY <1>0, <1>7
  <2> HIDE DEF i
  <2>2. Size(d(k)) <= Size(d(j))
    BY <1>6, <2>1
  <2>3. Size(d(k)) \in Int /\ Size(d(j)) \in Int
    BY <1>4, <2>1
  <2> QED BY <1>7, <2>2, <2>3
<1> QED BY <1>7 DEF Fits, d, n

\* The first of some numbers that fits, or the last of them.
Least(view, limit, lo, hi, k) ==
  /\ k \in lo..hi
  /\ k = hi \/ Fits(view, limit, k)
  /\ \A j \in lo..k-1 : ~Fits(view, limit, j)

\* There is one such number, and one only.
LEMMA LeastIs ==
  ASSUME NEW view, NEW limit, NEW lo \in Nat, NEW hi \in Nat, lo <= hi
  PROVE  /\ \E k \in Nat : Least(view, limit, lo, hi, k)
         /\ \A j, k \in Nat : Least(view, limit, lo, hi, j) /\ Least(view, limit, lo, hi, k) => j = k
<1>1. \E k \in Nat : Least(view, limit, lo, hi, k)
  <2> DEFINE F == {k \in lo..hi : k = hi \/ Fits(view, limit, k)}
  <2>1. F \subseteq Nat /\ hi \in F
    OBVIOUS
  <2>2. PICK k \in F : \A j \in F : k <= j
    <3> HIDE DEF F
    <3> QED BY <2>1, LeastNat
  <2>3. k \in Nat /\ k \in lo..hi /\ (k = hi \/ Fits(view, limit, k))
    OBVIOUS
  <2>4. ASSUME NEW j \in lo..k-1 PROVE ~Fits(view, limit, j)
    <3>1. j \in lo..hi /\ ~(k <= j)
      BY <2>3
    <3>2. j \notin F
      <4> HIDE DEF F
      <4> QED BY <2>2, <3>1
    <3> QED BY <3>1, <3>2
  <2> QED BY <2>3, <2>4 DEF Least
<1>2. ASSUME NEW j \in Nat, NEW k \in Nat, Least(view, limit, lo, hi, j), Least(view, limit, lo, hi, k)
      PROVE  ~(j < k)
  <2> SUFFICES ASSUME j < k PROVE FALSE
    OBVIOUS
  <2>1. j \in lo..hi /\ (j = hi \/ Fits(view, limit, j)) /\ k \in lo..hi
        /\ \A i \in lo..k-1 : ~Fits(view, limit, i)
    BY <1>2 DEF Least
  <2>2. j \in lo..k-1 /\ j # hi
    BY <2>1
  <2> QED BY <2>1, <2>2
<1> QED BY <1>1, <1>2

\* Where the bisection cuts.
Middle(lo, hi) == lo + (hi - lo) \div 2

\* Both halves are smaller than the whole.
LEMMA MiddleBetween ==
  ASSUME NEW lo \in Nat, NEW hi \in Nat, lo < hi
  PROVE  Middle(lo, hi) \in Nat /\ lo <= Middle(lo, hi) /\ Middle(lo, hi) < hi
BY DEF Middle

\* One turn of the bisection.
LEMMA Halves ==
  ASSUME NEW view, NEW limit, NEW n \in Nat,
         \A j, k \in 0..n : j <= k /\ Fits(view, limit, j) => Fits(view, limit, k),
         NEW lo \in 1..n, NEW hi \in 1..n, lo < hi, NEW k \in Nat, NEW mid \in Nat,
         mid = Middle(lo, hi)
  PROVE  /\ Fits(view, limit, mid) /\ Least(view, limit, lo, mid, k) => Least(view, limit, lo, hi, k)
         /\ ~Fits(view, limit, mid) /\ Least(view, limit, mid + 1, hi, k) => Least(view, limit, lo, hi, k)
<1>1. lo <= mid /\ mid < hi
  BY MiddleBetween
<1>2. ASSUME Fits(view, limit, mid), Least(view, limit, lo, mid, k)
      PROVE  Least(view, limit, lo, hi, k)
  <2>1. k \in lo..mid /\ (k = mid \/ Fits(view, limit, k)) /\ \A j \in lo..k-1 : ~Fits(view, limit, j)
    BY <1>2 DEF Least
  <2>2. k \in lo..hi /\ Fits(view, limit, k)
    BY <1>1, <1>2, <2>1
  <2> QED BY <2>1, <2>2 DEF Least
<1>3. ASSUME ~Fits(view, limit, mid), Least(view, limit, mid + 1, hi, k)
      PROVE  Least(view, limit, lo, hi, k)
  <2>1. k \in mid+1..hi /\ (k = hi \/ Fits(view, limit, k)) /\ \A j \in mid+1..k-1 : ~Fits(view, limit, j)
    BY <1>3 DEF Least
  <2>2. k \in lo..hi
    BY <1>1, <2>1
  <2>3. ASSUME NEW j \in lo..k-1 PROVE ~Fits(view, limit, j)
    <3>1. CASE j <= mid
      <4>1. j \in 0..n /\ mid \in 0..n
        BY <1>1, <3>1
      <4> QED BY <1>3, <3>1, <4>1
    <3>2. CASE j > mid
      <4>1. j \in mid+1..k-1
        BY <2>1, <3>2
      <4> QED BY <2>1, <4>1
    <3> QED BY <3>1, <3>2
  <2> QED BY <2>1, <2>2, <2>3 DEF Least
<1> QED BY <1>2, <1>3

\* The function by which Fit bisects.
Searches(f, view, limit, n) ==
  f = [r \in (1..n) \X (1..n) |->
         IF r[1] >= r[2] THEN r[2]
         ELSE IF Fits(view, limit, Middle(r[1], r[2])) THEN f[<<r[1], Middle(r[1], r[2])>>]
                                                       ELSE f[<<Middle(r[1], r[2]) + 1, r[2]>>]]

\* What it is at a pair.
LEMMA SearchAt ==
  ASSUME NEW view, NEW limit, NEW n \in Nat, NEW f, Searches(f, view, limit, n),
         NEW lo \in 1..n, NEW hi \in 1..n
  PROVE  f[<<lo, hi>>] = IF lo >= hi THEN hi
                         ELSE IF Fits(view, limit, Middle(lo, hi)) THEN f[<<lo, Middle(lo, hi)>>]
                                                                   ELSE f[<<Middle(lo, hi) + 1, hi>>]
<1> DEFINE r == <<lo, hi>>
<1>1. r \in (1..n) \X (1..n) /\ r[1] = lo /\ r[2] = hi
  OBVIOUS
<1> HIDE DEF r
<1>2. f[r] = IF r[1] >= r[2] THEN r[2]
             ELSE IF Fits(view, limit, Middle(r[1], r[2])) THEN f[<<r[1], Middle(r[1], r[2])>>]
                                                           ELSE f[<<Middle(r[1], r[2]) + 1, r[2]>>]
  BY ONLY <1>1, Searches(f, view, limit, n) DEF Searches
<1>3. f[r] = IF lo >= hi THEN hi
             ELSE IF Fits(view, limit, Middle(lo, hi)) THEN f[<<lo, Middle(lo, hi)>>]
                                                       ELSE f[<<Middle(lo, hi) + 1, hi>>]
  BY ONLY <1>1, <1>2
<1> QED BY <1>3 DEF r

\* A range of one number holds what was looked for.
LEMMA SearchEnds ==
  ASSUME NEW view, NEW limit, NEW n \in Nat, NEW f, Searches(f, view, limit, n),
         NEW k \in 1..n
  PROVE  f[<<k, k>>] = k
<1>1. ASSUME NEW lo \in 1..n, NEW hi \in 1..n
      PROVE  f[<<lo, hi>>] = IF lo >= hi THEN hi
                        ELSE IF Fits(view, limit, Middle(lo, hi)) THEN f[<<lo, Middle(lo, hi)>>]
                                                                  ELSE f[<<Middle(lo, hi) + 1, hi>>]
  BY SearchAt
<1>2. f[<<k, k>>] = IF k >= k THEN k
                    ELSE IF Fits(view, limit, Middle(k, k)) THEN f[<<k, Middle(k, k)>>]
                                                            ELSE f[<<Middle(k, k) + 1, k>>]
  BY ONLY k \in 1..n, <1>1
<1>3. k >= k
  OBVIOUS
<1> QED BY ONLY <1>2, <1>3

\* What it finds.
LEMMA SearchFinds ==
  ASSUME NEW view, NEW limit, NEW n \in Nat,
         \A j, k \in 0..n : j <= k /\ Fits(view, limit, j) => Fits(view, limit, k),
         NEW f, Searches(f, view, limit, n)
  PROVE  \A lo, hi \in 1..n : lo <= hi => f[<<lo, hi>>] \in Nat /\ Least(view, limit, lo, hi, f[<<lo, hi>>])
<1> DEFINE OK(lo, hi) == f[<<lo, hi>>] \in Nat /\ Least(view, limit, lo, hi, f[<<lo, hi>>])
           A == {w \in Nat : \A lo, hi \in 1..n : lo <= hi /\ hi - lo <= w => OK(lo, hi)}
<1>1. ASSUME NEW lo \in 1..n, NEW hi \in 1..n, lo = hi PROVE OK(lo, hi)
  <2>1. f[<<lo, hi>>] = hi
    <3>1. f[<<lo, lo>>] = lo
      BY ONLY n \in Nat, Searches(f, view, limit, n), lo \in 1..n, SearchEnds
    <3> QED BY <1>1, <3>1
  <2>2. Least(view, limit, lo, hi, hi)
    BY <1>1 DEF Least
  <2> QED BY <2>1, <2>2
<1>2. 0 \in A
  <2> SUFFICES ASSUME NEW lo \in 1..n, NEW hi \in 1..n, lo <= hi, hi - lo <= 0 PROVE OK(lo, hi)
    OBVIOUS
  <2>1. lo = hi
    OBVIOUS
  <2> HIDE DEF OK
  <2> QED BY <1>1, <2>1
<1>3. ASSUME NEW w \in A PROVE w + 1 \in A
  <2> SUFFICES ASSUME NEW lo \in 1..n, NEW hi \in 1..n, lo < hi, hi - lo <= w + 1 PROVE OK(lo, hi)
    <3>1. \A lo, hi \in 1..n : lo <= hi => lo = hi \/ lo < hi
      OBVIOUS
    <3> HIDE DEF OK
    <3> QED BY <1>1, <3>1
  <2> DEFINE mid == Middle(lo, hi)
             k == f[<<lo, hi>>]
  <2>1. mid \in Nat /\ lo <= mid /\ mid < hi
    BY MiddleBetween
  <2>2. k = IF Fits(view, limit, mid) THEN f[<<lo, mid>>] ELSE f[<<mid + 1, hi>>]
    BY SearchAt
  <2>3. w \in Nat /\ \A a, b \in 1..n : a <= b /\ b - a <= w => OK(a, b)
    OBVIOUS
  <2> HIDE DEF mid, k
  <2>4. mid \in 1..n /\ mid + 1 \in 1..n /\ mid + 1 <= hi
    BY <2>1
  <2>5. CASE Fits(view, limit, mid)
    <3>1. OK(lo, mid)
      <4>1. mid - lo <= w
        BY <2>1, <2>3
      <4> HIDE DEF OK
      <4> QED BY <2>1, <2>3, <2>4, <4>1
    <3>2. k \in Nat /\ Least(view, limit, lo, mid, k)
      BY <2>2, <2>5, <3>1
    <3>3. Least(view, limit, lo, hi, k)
      BY <2>1, <2>5, <3>2, Halves DEF mid
    <3> QED BY <3>2, <3>3 DEF k
  <2>6. CASE ~Fits(view, limit, mid)
    <3>1. OK(mid + 1, hi)
      <4>1. hi - (mid + 1) <= w
        BY <2>1, <2>3
      <4> HIDE DEF OK
      <4> QED BY <2>3, <2>4, <4>1
    <3>2. k \in Nat /\ Least(view, limit, mid + 1, hi, k)
      BY <2>2, <2>6, <3>1
    <3>3. Least(view, limit, lo, hi, k)
      BY <2>1, <2>6, <3>2, Halves DEF mid
    <3> QED BY <3>2, <3>3 DEF k
  <2> QED BY <2>5, <2>6
<1>4. \A w \in Nat : w \in A
  <2> HIDE DEF A
  <2> QED BY <1>2, <1>3, Induction DEF A
<1>5. ASSUME NEW lo \in 1..n, NEW hi \in 1..n, lo <= hi PROVE OK(lo, hi)
  <2>1. hi - lo \in Nat /\ hi - lo <= hi - lo
    BY <1>5
  <2> HIDE DEF OK
  <2> QED BY <1>4, <1>5, <2>1
<1> QED BY <1>5

\* There is such a function.
LEMMA SearchExists ==
  ASSUME NEW view, NEW limit, NEW n \in Nat,
         \A j, k \in 0..n : j <= k /\ Fits(view, limit, j) => Fits(view, limit, k)
  PROVE  \E f : Searches(f, view, limit, n)
<1> DEFINE first(lo, hi) == CHOOSE k \in Nat : Least(view, limit, lo, hi, k)
           D == (1..n) \X (1..n)
           f == [r \in D |-> IF r[1] >= r[2] THEN r[2] ELSE first(r[1], r[2])]
<1>1. ASSUME NEW lo \in 1..n, NEW hi \in 1..n
      PROVE  f[<<lo, hi>>] = IF lo >= hi THEN hi ELSE first(lo, hi)
  <2> DEFINE r == <<lo, hi>>
  <2>1. r \in D /\ r[1] = lo /\ r[2] = hi
    OBVIOUS
  <2> HIDE DEF r, D, first
  <2>2. f[r] = IF r[1] >= r[2] THEN r[2] ELSE first(r[1], r[2])
    BY <2>1
  <2>3. f[r] = IF lo >= hi THEN hi ELSE first(lo, hi)
    BY ONLY <2>1, <2>2
  <2> QED BY <2>3 DEF r
<1>2. ASSUME NEW lo \in 1..n, NEW hi \in 1..n, lo <= hi
      PROVE  first(lo, hi) \in Nat /\ Least(view, limit, lo, hi, first(lo, hi))
  BY <1>2, LeastIs
<1> HIDE DEF f, first
<1>3. ASSUME NEW lo \in 1..n, NEW hi \in 1..n, lo <= hi
      PROVE  f[<<lo, hi>>] \in Nat /\ Least(view, limit, lo, hi, f[<<lo, hi>>])
  <2>1. CASE lo = hi
    BY <1>1, <2>1 DEF Least
  <2>2. CASE lo < hi
    BY <1>1, <1>2, <2>2
  <2> QED BY <1>3, <2>1, <2>2
<1>4. ASSUME NEW lo \in 1..n, NEW hi \in 1..n, lo < hi
      PROVE  f[<<lo, hi>>] = IF Fits(view, limit, Middle(lo, hi))
                               THEN f[<<lo, Middle(lo, hi)>>]
                               ELSE f[<<Middle(lo, hi) + 1, hi>>]
  <2> DEFINE mid == Middle(lo, hi)
             a == f[<<lo, mid>>]
             b == f[<<mid + 1, hi>>]
             c == f[<<lo, hi>>]
  <2>1. mid \in Nat /\ lo <= mid /\ mid < hi
    BY <1>4, MiddleBetween
  <2> HIDE DEF mid
  <2>2. mid \in 1..n /\ mid + 1 \in 1..n /\ mid + 1 <= hi
    BY <2>1
  <2>3. a \in Nat /\ Least(view, limit, lo, mid, a)
    BY <1>3, <2>1, <2>2
  <2>4. b \in Nat /\ Least(view, limit, mid + 1, hi, b)
    BY <1>3, <2>2
  <2>5. c \in Nat /\ Least(view, limit, lo, hi, c)
    BY <1>3, <1>4
  <2> HIDE DEF a, b, c
  <2>6. Fits(view, limit, mid) => Least(view, limit, lo, hi, a)
    BY <1>4, <2>1, <2>3, Halves DEF mid
  <2>7. ~Fits(view, limit, mid) => Least(view, limit, lo, hi, b)
    BY <1>4, <2>1, <2>4, Halves DEF mid
  <2>8. lo \in Nat /\ hi \in Nat /\ lo <= hi
    BY <1>4
  <2>9. c = IF Fits(view, limit, mid) THEN a ELSE b
    BY <2>3, <2>4, <2>5, <2>6, <2>7, <2>8, LeastIs
  <2> QED BY <2>9 DEF a, b, c, mid
<1>5. ASSUME NEW r \in D
      PROVE  f[r] = IF r[1] >= r[2] THEN r[2]
                    ELSE IF Fits(view, limit, Middle(r[1], r[2])) THEN f[<<r[1], Middle(r[1], r[2])>>]
                                                                  ELSE f[<<Middle(r[1], r[2]) + 1, r[2]>>]
  <2>1. PICK lo \in 1..n, hi \in 1..n : r = <<lo, hi>>
    OBVIOUS
  <2>2. r[1] = lo /\ r[2] = hi
    BY <2>1
  <2>3. CASE lo >= hi
    BY <1>1, <2>1, <2>2, <2>3
  <2>4. CASE lo < hi
    BY <1>4, <2>1, <2>2, <2>4
  <2> QED BY <2>3, <2>4
<1>6. f = [r \in D |-> IF r[1] >= r[2] THEN r[2]
                       ELSE IF Fits(view, limit, Middle(r[1], r[2]))
                              THEN f[<<r[1], Middle(r[1], r[2])>>]
                              ELSE f[<<Middle(r[1], r[2]) + 1, r[2]>>]]
  <2>1. f = [r \in D |-> f[r]]
    BY DEF f
  <2> HIDE DEF D
  <2> QED BY <1>5, <2>1
<1> QED BY <1>6 DEF Searches

\* What Fit does, by what its bisection finds.
LEMMA FitIs ==
  ASSUME NEW R, NEW G, NEW V, NEW view, Viewed(view, R, G, V), NEW limit \in Int
  PROVE  \/ /\ \A k \in 0..Items(view) : ~Fits(view, limit, k)
            /\ Fit(view, limit) = TooBig
         \/ \E k \in 0..Items(view) :
              /\ Fits(view, limit, k) /\ \A j \in 0..Items(view) : Fits(view, limit, j) => k <= j
              /\ Fit(view, limit) = Dropped(view, k)
<1> DEFINE n == Items(view)
           S(f) == Searches(f, view, limit, n)
           f == CHOOSE g : S(g)
<1>1. Fit(view, limit) = IF Fits(view, limit, 0) THEN Dropped(view, 0)
                         ELSE IF ~Fits(view, limit, n) THEN TooBig
                         ELSE Dropped(view, f[<<1, n>>])
  BY DEF Fit, Searches, Middle, Fits
<1>2. n \in Nat
  BY ViewParts
<1>3. \A j, k \in 0..n : j <= k /\ Fits(view, limit, j) => Fits(view, limit, k)
  BY FitsOn
<1> HIDE DEF n
<1>4. S(f)
  <2>1. \E g : S(g)
    BY <1>2, <1>3, SearchExists
  <2> QED BY <2>1
<1> HIDE DEF f
<1>5. CASE Fits(view, limit, 0)
  <2>1. 0 \in 0..n /\ \A j \in 0..n : 0 <= j
    BY <1>2
  <2>2. Fit(view, limit) = Dropped(view, 0)
    BY <1>1, <1>5
  <2> QED BY <1>5, <2>1, <2>2 DEF n
<1>6. CASE ~Fits(view, limit, n)
  <2>1. ASSUME NEW k \in 0..n PROVE ~Fits(view, limit, k)
    <3>1. n \in 0..n /\ k <= n
      BY <1>2
    <3> QED BY <1>3, <1>6, <3>1
  <2>2. ~Fits(view, limit, 0)
    <3>1. 0 \in 0..n
      BY <1>2
    <3> QED BY <2>1, <3>1
  <2>3. Fit(view, limit) = TooBig
    BY <1>1, <1>6, <2>2
  <2> QED BY <2>1, <2>3 DEF n
<1>7. CASE ~Fits(view, limit, 0) /\ Fits(view, limit, n)
  <2>1. n > 0
    BY <1>2, <1>7
  <2>2. 1 \in 1..n /\ n \in 1..n /\ 1 <= n
    BY <1>2, <2>1
  <2> DEFINE k == f[<<1, n>>]
  <2>3. k \in Nat /\ Least(view, limit, 1, n, k)
    BY <1>2, <1>3, <1>4, <2>2, SearchFinds
  <2> HIDE DEF k
  <2>4. k \in 1..n /\ Fits(view, limit, k) /\ \A j \in 1..k-1 : ~Fits(view, limit, j)
    BY <1>7, <2>3 DEF Least
  <2>5. ASSUME NEW j \in 0..n, Fits(view, limit, j) PROVE k <= j
    <3> SUFFICES ASSUME ~(k <= j) PROVE FALSE
      OBVIOUS
    <3>1. j # 0
      BY <1>7, <2>5
    <3>2. j \in 1..k-1
      BY <2>4, <3>1
    <3> QED BY <2>4, <2>5, <3>2
  <2>6. Fit(view, limit) = Dropped(view, k)
    BY <1>1, <1>7 DEF k
  <2>7. k \in 0..n
    BY <2>4
  <2> QED BY <2>4, <2>5, <2>6, <2>7 DEF n
<1> QED BY <1>5, <1>6, <1>7

\* The views after each drop, one at a time.
Drops(f, view) ==
  f = [k \in 0..Items(view) |-> IF k = 0 THEN view ELSE DropOne(f[k - 1])]

\* They exist, and are what Dropped says without recursion.
LEMMA DropsAre ==
  ASSUME NEW R, NEW G, NEW V, NEW view, Viewed(view, R, G, V)
  PROVE  /\ \E f : Drops(f, view)
         /\ \A f : Drops(f, view) => \A k \in 0..Items(view) : f[k] = Dropped(view, k)
<1> DEFINE n == Items(view)
           d(k) == Dropped(view, k)
           g == [k \in 0..n |-> d(k)]
<1>0. n \in Nat
  BY ViewParts
<1>1. d(0) = view /\ \A k \in Nat : k < n => d(k + 1) = DropOne(d(k))
  BY DropsNone, DropsOne
<1> HIDE DEF d
<1>2. ASSUME NEW k \in 0..n PROVE g[k] = IF k = 0 THEN view ELSE DropOne(g[k - 1])
  <2>1. CASE k = 0
    BY <1>1, <2>1
  <2>2. CASE k # 0
    <3> DEFINE j == k - 1
    <3>1. j \in Nat /\ j < n /\ j + 1 = k /\ j \in 0..n
      BY <1>0, <2>2
    <3> HIDE DEF j
    <3>2. g[k] = d(j + 1) /\ g[j] = d(j)
      BY <3>1
    <3>3. g[k] = DropOne(g[j])
      BY <1>1, <3>1, <3>2
    <3> QED BY <2>2, <3>3 DEF j
  <2> QED BY <2>1, <2>2
<1>3. g = [k \in 0..n |-> IF k = 0 THEN view ELSE DropOne(g[k - 1])]
  <2>1. g = [k \in 0..n |-> g[k]]
    OBVIOUS
  <2> HIDE DEF g, n
  <2> QED BY <1>2, <2>1
<1>4. Drops(g, view)
  BY <1>3 DEF Drops
<1>5. ASSUME NEW f, Drops(f, view) PROVE \A k \in 0..n : f[k] = d(k)
  <2>1. f = [k \in 0..n |-> IF k = 0 THEN view ELSE DropOne(f[k - 1])]
    BY <1>5 DEF Drops
  <2> HIDE DEF n
  <2> DEFINE A == {k \in Nat : k <= n => f[k] = d(k)}
  <2>2. 0 \in A
    <3>1. 0 \in 0..n
      BY <1>0
    <3>2. f[0] = view
      BY <2>1, <3>1
    <3> QED BY <1>1, <3>2
  <2>3. ASSUME NEW k \in A PROVE k + 1 \in A
    <3> SUFFICES ASSUME k + 1 <= n PROVE f[k + 1] = d(k + 1)
      OBVIOUS
    <3> DEFINE l == k + 1
    <3>1. k \in Nat /\ k < n /\ l \in 0..n /\ l # 0 /\ l - 1 = k /\ f[k] = d(k)
      BY <1>0
    <3> HIDE DEF l
    <3>2. f[l] = DropOne(f[l - 1])
      BY <2>1, <3>1
    <3>3. d(k + 1) = DropOne(d(k))
      BY <1>1, <3>1
    <3> QED BY <3>1, <3>2, <3>3 DEF l
  <2> HIDE DEF A
  <2>4. \A k \in Nat : k \in A
    BY <2>2, <2>3, Induction DEF A
  <2> QED BY <1>0, <2>4 DEF A
<1> QED BY <1>4, <1>5 DEF d

\* Bisecting finds what dropping one item at a time would.
LEMMA FitsLikeNaive ==
  ASSUME NEW R, NEW G, NEW V, NEW view, Viewed(view, R, G, V), NEW limit \in Int
  PROVE  Fit(view, limit) = NaiveFit(view, limit)
<1> DEFINE n == Items(view)
           D(f) == Drops(f, view)
           after == CHOOSE f : D(f)
           fitting == {k \in 0..n : Size(after[k]) <= limit}
           least == CHOOSE k \in fitting : \A j \in fitting : k <= j
<1>1. NaiveFit(view, limit) = IF fitting = {} THEN TooBig ELSE after[least]
  BY DEF NaiveFit, Drops
<1>2. D(after)
  <2>1. \E f : D(f)
    BY DropsAre
  <2> QED BY <2>1
<1>3. \A k \in 0..n : after[k] = Dropped(view, k)
  <2> HIDE DEF after
  <2> QED BY <1>2, DropsAre
<1> HIDE DEF after
<1>4. \A k \in 0..n : k \in fitting <=> Fits(view, limit, k)
  BY <1>3 DEF Fits
<1>5. fitting \subseteq 0..n
  OBVIOUS
<1> HIDE DEF fitting
<1>6. CASE (\A k \in 0..n : ~Fits(view, limit, k)) /\ Fit(view, limit) = TooBig
  BY <1>1, <1>4, <1>5, <1>6
<1>7. ASSUME NEW k \in 0..n, Fits(view, limit, k), \A j \in 0..n : Fits(view, limit, j) => k <= j,
             Fit(view, limit) = Dropped(view, k)
      PROVE  Fit(view, limit) = NaiveFit(view, limit)
  <2>1. k \in fitting /\ \A j \in fitting : k <= j
    BY <1>4, <1>5, <1>7
  <2>2. least \in fitting /\ \A j \in fitting : least <= j
    BY <2>1
  <2> HIDE DEF least
  <2>3. least = k
    <3>1. least <= k /\ k <= least
      BY <2>1, <2>2
    <3>2. least \in 0..n
      BY <1>5, <2>2
    <3> QED BY <3>1, <3>2
  <2>4. NaiveFit(view, limit) = after[k]
    BY <1>1, <2>1, <2>3
  <2> QED BY <1>3, <1>7, <2>4
<1>8. \/ (\A k \in 0..n : ~Fits(view, limit, k)) /\ Fit(view, limit) = TooBig
      \/ \E k \in 0..n : /\ Fits(view, limit, k) /\ \A j \in 0..n : Fits(view, limit, j) => k <= j
                         /\ Fit(view, limit) = Dropped(view, k)
  BY FitIs
<1> QED BY <1>6, <1>7, <1>8

-----------------------------------------------------------------------------
(* The ranking of the rows. *)

\* What is accumulated of a series: once a value was finite, so is the last.
RowStates ==
  {r \in [samples : Nat, nonFinite : Nat, sum : Int, min : Values, max : Values,
          first : Values, last : Values, inViolation : BOOLEAN] :
     r.first # NaN => r.last # NaN}

\* The movement is a number, the floor it is compared with positive.
LEMMA ScoreTyped ==
  ASSUME NEW r \in RowStates
  PROVE  Movement(r) \in Nat /\ Floor(r) \in Nat /\ Floor(r) > 0
<1>1. r.first # NaN => r.first \in Int /\ r.last \in Int
  BY NaNAssumption DEF RowStates, Values
<1>2. CASE r.first = NaN
  BY <1>2 DEF Movement, Floor
<1>3. CASE r.first # NaN
  <2>1. r.first \in Int /\ r.last \in Int
    BY <1>1, <1>3
  <2>2. Abs(r.first) \in Int /\ Abs(r.last) \in Int
    BY <2>1 DEF Abs
  <2>3. Floor(r) \in Nat /\ Floor(r) > 0
    BY <1>3, <2>2 DEF Floor, Larger
  <2>4. Movement(r) \in Nat
    BY <1>3, <2>1 DEF Movement, Abs
  <2> QED BY <2>3, <2>4
<1> QED BY <1>2, <1>3

\* A factor cancels.
LEMMA FactorCancels ==
  ASSUME NEW x \in Int, NEW y \in Int, NEW k \in Nat, k > 0
  PROVE  /\ x >= y => x * k >= y * k
         /\ x > y => x * k > y * k
         /\ x * k >= y * k => x >= y
         /\ x * k > y * k => x > y
OBVIOUS

\* Comparing fractions is transitive.
LEMMA FractionsCompare ==
  ASSUME NEW a \in Nat, NEW p \in Nat, p > 0, NEW b \in Nat, NEW q \in Nat, q > 0,
         NEW c \in Nat, NEW r \in Nat, r > 0,
         a * q >= b * p, b * r >= c * q
  PROVE  /\ a * r >= c * p
         /\ a * q > b * p \/ b * r > c * q => a * r > c * p
<1>1. /\ a * q \in Int /\ b * p \in Int /\ b * r \in Int /\ c * q \in Int
      /\ a * r \in Int /\ c * p \in Int
  OBVIOUS
<1>2. (a * q) * r >= (b * p) * r /\ (a * q > b * p => (a * q) * r > (b * p) * r)
  BY <1>1, FactorCancels
<1>3. (b * r) * p >= (c * q) * p /\ (b * r > c * q => (b * r) * p > (c * q) * p)
  BY <1>1, FactorCancels
<1>4. (b * p) * r = (b * r) * p /\ (a * q) * r = (a * r) * q /\ (c * q) * p = (c * p) * q
  OBVIOUS
<1> DEFINE x == (a * q) * r
           y == (b * p) * r
           z == (c * q) * p
<1>5. x \in Int /\ y \in Int /\ z \in Int
  OBVIOUS
<1>6. /\ x = (a * r) * q /\ z = (c * p) * q
      /\ x >= y /\ y >= z
      /\ (a * q > b * p => x > y) /\ (b * r > c * q => y > z)
  BY <1>2, <1>3, <1>4
<1> HIDE DEF x, y, z
<1>7. x >= z /\ (a * q > b * p \/ b * r > c * q => x > z)
  BY <1>5, <1>6
<1>8. (a * r) * q >= (c * p) * q => a * r >= c * p
  BY <1>1, FactorCancels
<1>9. (a * r) * q > (c * p) * q => a * r > c * p
  BY <1>1, FactorCancels
<1> QED BY <1>6, <1>7, <1>8, <1>9

\* So is the ranking by score, of which ties are the equivalences.
LEMMA ScoresCompare ==
  ASSUME NEW a \in RowStates, NEW b \in RowStates, NEW c \in RowStates,
         ~ScoresHigher(b, a), ~ScoresHigher(c, b)
  PROVE  /\ ~ScoresHigher(c, a)
         /\ ScoresHigher(a, b) \/ ScoresHigher(b, c) => ScoresHigher(a, c)
<1>1. /\ Movement(a) \in Nat /\ Floor(a) \in Nat /\ Floor(a) > 0
      /\ Movement(b) \in Nat /\ Floor(b) \in Nat /\ Floor(b) > 0
      /\ Movement(c) \in Nat /\ Floor(c) \in Nat /\ Floor(c) > 0
  BY ScoreTyped
<1> DEFINE m == Movement(a)  p == Floor(a)
           n == Movement(b)  q == Floor(b)
           o == Movement(c)  r == Floor(c)
<1>2. /\ m * q \in Int /\ n * p \in Int /\ n * r \in Int /\ o * q \in Int
      /\ m * r \in Int /\ o * p \in Int
  BY <1>1
<1>3. /\ ScoresHigher(b, a) <=> n * p > m * q
      /\ ScoresHigher(a, b) <=> m * q > n * p
      /\ ScoresHigher(c, b) <=> o * q > n * r
      /\ ScoresHigher(b, c) <=> n * r > o * q
      /\ ScoresHigher(c, a) <=> o * p > m * r
      /\ ScoresHigher(a, c) <=> m * r > o * p
  BY Zenon DEF ScoresHigher
<1> HIDE DEF m, n, o, p, q, r
<1>4. m * q >= n * p /\ n * r >= o * q
  BY <1>2, <1>3
<1>5. m * r >= o * p /\ (m * q > n * p \/ n * r > o * q => m * r > o * p)
  BY <1>1, <1>4, FractionsCompare DEF m, n, o, p, q, r
<1> QED BY <1>2, <1>3, <1>5

\* Nothing outscores what outscores it.
LEMMA ScoresOneWay ==
  ASSUME NEW a \in RowStates, NEW b \in RowStates, ScoresHigher(a, b)
  PROVE  ~ScoresHigher(b, a)
<1> DEFINE x == Movement(a) * Floor(b)
           y == Movement(b) * Floor(a)
<1>1. x \in Int /\ y \in Int
  BY ScoreTyped
<1>2. (ScoresHigher(a, b) <=> x > y) /\ (ScoresHigher(b, a) <=> y > x)
  BY Zenon DEF ScoresHigher
<1> HIDE DEF x, y
<1> QED BY <1>1, <1>2

\* The relation rank_rows sorts by.
Ranking(a, rows) == {p \in rows \X rows : RanksBefore(a, p[1], p[2])}

\* It is a total order: rows with a violation first, then by score, then by key.
LEMMA RanksOrder ==
  ASSUME NEW a, a.rows \in [Series -> RowStates], NEW rows \in SUBSET Series
  PROVE  Orders(Ranking(a, rows), rows)
<1> DEFINE Mine(s) == a.rows[s]
           In(s) == Mine(s).inViolation = TRUE
           Leads(s, t) == \/ ScoresHigher(Mine(s), Mine(t))
                          \/ (~ScoresHigher(Mine(t), Mine(s)) /\ KeyRank(s) < KeyRank(t))
<1>1. /\ \A s \in rows : Mine(s) \in RowStates /\ Mine(s).inViolation \in BOOLEAN /\ KeyRank(s) \in Nat
      /\ \A s, t \in rows : KeyRank(s) = KeyRank(t) => s = t
  BY RanksApart DEF RowStates
<1>2. ASSUME NEW s \in rows, NEW t \in rows
      PROVE  <<s, t>> \in Ranking(a, rows) <=>
                (In(s) /\ ~In(t)) \/ ((In(s) <=> In(t)) /\ Leads(s, t))
  <2>1. <<s, t>> \in Ranking(a, rows) <=> RanksBefore(a, s, t)
    BY DEF Ranking
  <2>2. Mine(s).inViolation \in BOOLEAN /\ Mine(t).inViolation \in BOOLEAN
    BY <1>1
  <2>3. CASE Mine(s).inViolation # Mine(t).inViolation
    <3>1. RanksBefore(a, s, t) <=> In(s)
      BY ONLY <2>2, <2>3 DEF RanksBefore, Mine, In
    <3>2. In(s) <=> ~In(t)
      BY ONLY <2>2, <2>3 DEF Mine, In
    <3> QED BY ONLY <2>1, <3>1, <3>2
  <2>4. CASE Mine(s).inViolation = Mine(t).inViolation
    <3>1. RanksBefore(a, s, t) <=> Leads(s, t)
      BY ONLY <2>2, <2>4 DEF RanksBefore, Mine, Leads
    <3>2. In(s) <=> In(t)
      BY ONLY <2>2, <2>4 DEF Mine, In
    <3> QED BY ONLY <2>1, <3>1, <3>2
  <2> QED BY <2>3, <2>4
<1> HIDE DEF In
<1>3. ASSUME NEW s \in rows, NEW t \in rows, Leads(s, t) PROVE ~Leads(t, s)
  BY <1>1, <1>3, ScoresOneWay
<1>4. ASSUME NEW s \in rows, NEW t \in rows, s # t PROVE Leads(s, t) \/ Leads(t, s)
  <2>1. KeyRank(s) \in Nat /\ KeyRank(t) \in Nat /\ KeyRank(s) # KeyRank(t)
    BY ONLY <1>1, <1>4, s \in rows, t \in rows
  <2> QED BY <2>1
<1>5. ASSUME
        NEW s \in rows, NEW t \in rows, NEW u \in rows, Leads(s, t), Leads(t, u)
      PROVE  Leads(s, u)
  <2>1. Mine(s) \in RowStates /\ Mine(t) \in RowStates /\ Mine(u) \in RowStates
    BY <1>1
  <2>2. ~ScoresHigher(Mine(t), Mine(s)) /\ ~ScoresHigher(Mine(u), Mine(t))
    BY <1>5, <2>1, ScoresOneWay
  <2>3. /\ ~ScoresHigher(Mine(u), Mine(s))
        /\ ScoresHigher(Mine(s), Mine(t)) \/ ScoresHigher(Mine(t), Mine(u)) => ScoresHigher(Mine(s), Mine(u))
    BY <2>1, <2>2, ScoresCompare
  <2>4. KeyRank(s) \in Nat /\ KeyRank(t) \in Nat /\ KeyRank(u) \in Nat
    BY <1>1
  <2> QED BY <1>5, <2>3, <2>4
<1> HIDE DEF Leads
<1>6. \A s \in rows : <<s, s>> \notin Ranking(a, rows)
  BY <1>2, <1>3
<1>7. ASSUME NEW s \in rows, NEW t \in rows, s # t
      PROVE  <<s, t>> \in Ranking(a, rows) \/ <<t, s>> \in Ranking(a, rows)
  <2>1. Leads(s, t) \/ Leads(t, s)
    BY <1>4, <1>7
  <2> QED BY <1>2, <2>1
<1>8. ASSUME NEW s \in rows, NEW t \in rows, NEW u \in rows,
             <<s, t>> \in Ranking(a, rows), <<t, u>> \in Ranking(a, rows)
      PROVE  <<s, u>> \in Ranking(a, rows)
  BY <1>2, <1>5, <1>8
<1> QED BY <1>6, <1>7, <1>8 DEF Orders

\* The series are finitely many.
LEMMA SeriesFinite == IsFiniteSet(Series)
<1> DEFINE n == Len(SeriesOrder)
           f == [i \in 1..n |-> SeriesOrder[i]]
<1>1. n \in Nat
  BY SeriesAssumption
<1>2. f \in Surjection(1..n, Series)
  <2>1. f \in [1..n -> Series]
    BY DEF Series
  <2>2. \A s \in Series : \E i \in 1..n : f[i] = s
    BY DEF Series
  <2> HIDE DEF f, n
  <2> QED BY <2>1, <2>2 DEF Surjection
<1>3. IsFiniteSet(1..n)
  BY <1>1, FS_Interval
<1> HIDE DEF f, n
<1> QED BY <1>2, <1>3, FS_Surjection

\* Those with a transition come first: as many as they are hold them all.
LEMMA ForcedFirst ==
  ASSUME NEW a, a.rows \in [Series -> RowStates], NEW rows \in SUBSET Series,
         NEW s \in Forced(a, rows)
  PROVE  /\ Cardinality(Forced(a, rows)) \in Nat
         /\ \E n \in 1..Cardinality(rows) :
              Sorted(rows, Ranking(a, rows))[n] = s /\ n <= Cardinality(Forced(a, rows))
<1> DEFINE R == Ranking(a, rows)
           ranked == Sorted(rows, R)
           c == Cardinality(rows)
           F == Forced(a, rows)
<1>1. IsFiniteSet(rows) /\ IsFiniteSet(F) /\ Cardinality(F) \in Nat
  <2>1. F \in SUBSET rows
    BY DEF Forced
  <2>2. IsFiniteSet(rows)
    BY SeriesFinite, FS_Subset
  <2> HIDE DEF F
  <2> QED BY <2>1, <2>2, FS_Subset, FS_CardinalityType
<1>2. c \in Nat /\ Lists(ranked, c, rows, R)
  BY <1>1, RanksOrder, SortedIs
<1>3. s \in rows /\ a.rows[s].inViolation
  BY DEF Forced
<1> HIDE DEF R, ranked, c
<1>4. PICK n \in 1..c : ranked[n] = s
  BY <1>2, <1>3 DEF Lists
<1>5. ASSUME NEW m \in 1..n PROVE m \in 1..c /\ ranked[m] \in F
  <2>1. m \in 1..c
    BY <1>2, <1>4
  <2>2. ranked[m] \in rows /\ (<<ranked[n], ranked[m]>> \in R <=> n < m)
    BY <1>2, <1>4, <2>1 DEF Lists
  <2>3. <<s, ranked[m]>> \notin R
    BY <1>4, <2>2
  <2>4. ~RanksBefore(a, s, ranked[m])
    BY <1>3, <2>2, <2>3 DEF R, Ranking
  <2>5. a.rows[s].inViolation \in BOOLEAN /\ a.rows[ranked[m]].inViolation \in BOOLEAN
    BY <1>3, <2>2 DEF RowStates
  <2>6. a.rows[ranked[m]].inViolation
    BY ONLY <1>3, <2>4, <2>5 DEF RanksBefore
  <2> QED BY <2>1, <2>2, <2>6 DEF Forced
<1> DEFINE f == [m \in 1..n |-> ranked[m]]
<1>6. f \in Injection(1..n, F)
  <2>1. f \in [1..n -> F]
    BY <1>5
  <2>2. \A i, j \in 1..n : f[i] = f[j] => i = j
    BY <1>2, <1>5 DEF Lists
  <2> HIDE DEF f
  <2> QED BY <2>1, <2>2 DEF Injection, IsInjective
<1>7. Cardinality(1..n) <= Cardinality(F)
  <2> HIDE DEF f, F
  <2> QED BY <1>1, <1>6, FS_Injection
<1>8. Cardinality(1..n) = n
  <2>1. 1 \in Int /\ n \in Int /\ (IF 1 > n THEN 0 ELSE n - 1 + 1) = n
    BY <1>2, <1>4
  <2> QED BY <2>1, FS_Interval
<1> QED BY <1>1, <1>4, <1>7, <1>8 DEF ranked, R, c

\* The rows of the digest: what they are, and that those with a transition are
\* among them, whatever --top is.
LEMMA ForcedShown ==
  ASSUME NEW a, a.rows \in [Series -> RowStates], NEW flt, NEW top \in Int
  PROVE  /\ ShownRows(a, flt, top) \in Seq([series : Series, row : RowStates])
         /\ \A s \in Seen(a) : RowPasses(s, flt) /\ a.rows[s].inViolation =>
              \E m \in 1..Len(ShownRows(a, flt, top)) : ShownRows(a, flt, top)[m].series = s
<1> DEFINE rows == {s \in Seen(a) : RowPasses(s, flt)}
           ranked == Sorted(rows, Ranking(a, rows))
           c == Cardinality(rows)
           n == Larger(Cardinality(Forced(a, rows)), top)
           m == IF n < c THEN n ELSE c
           shown == ShownRows(a, flt, top)
<1>1. rows \in SUBSET Series
  BY DEF Seen
<1>2. IsFiniteSet(rows) /\ Cardinality(Forced(a, rows)) \in Nat
  <2>1. IsFiniteSet(rows)
    BY <1>1, SeriesFinite, FS_Subset
  <2>2. Forced(a, rows) \in SUBSET rows
    BY DEF Forced
  <2> HIDE DEF rows
  <2> QED BY <2>1, <2>2, FS_Subset, FS_CardinalityType
<1>3. c \in Nat /\ Lists(ranked, c, rows, Ranking(a, rows))
  <2> HIDE DEF rows
  <2> QED BY <1>1, <1>2, RanksOrder, SortedIs
<1>4. n \in Nat /\ Cardinality(Forced(a, rows)) <= n
  <2>1. ASSUME NEW i \in Nat PROVE Larger(i, top) \in Nat /\ i <= Larger(i, top)
    BY DEF Larger
  <2> HIDE DEF rows
  <2> QED BY <1>2, <2>1
<1>5. shown = [i \in 1..Len(Take(ranked, n)) |->
                 [series |-> Take(ranked, n)[i], row |-> a.rows[Take(ranked, n)[i]]]]
  BY Zenon DEF ShownRows, Ranking
<1> HIDE DEF rows, ranked, c, n, shown
<1>6. ranked \in Seq(Series) /\ Len(ranked) = c
  BY <1>1, <1>3 DEF Lists
<1>7. m \in Nat /\ m <= c /\ m <= n
  BY <1>3, <1>4
<1>8. Take(ranked, n) = SubSeq(ranked, 1, m)
  BY <1>6 DEF Take
<1>9. /\ SubSeq(ranked, 1, m) \in Seq(Series) /\ Len(SubSeq(ranked, 1, m)) = m
      /\ \A i \in 1..m : SubSeq(ranked, 1, m)[i] = ranked[i]
  <2> HIDE DEF m
  <2>1. SubSeq(ranked, 1, m) = [i \in 1..m |-> ranked[i]]
    BY <1>3, <1>6, <1>7
  <2> QED BY <1>3, <1>6, <1>7, <2>1
<1> HIDE DEF m
<1>10. shown = [i \in 1..m |-> [series |-> ranked[i], row |-> a.rows[ranked[i]]]]
  BY <1>5, <1>8, <1>9
<1>11. shown \in Seq([series : Series, row : RowStates]) /\ Len(shown) = m
  <2>1. \A i \in 1..m : ranked[i] \in Series
    BY <1>3, <1>6, <1>7
  <2>2. \A i \in 1..m : [series |-> ranked[i], row |-> a.rows[ranked[i]]] \in [series : Series, row : RowStates]
    BY <2>1
  <2> DEFINE T == [series : Series, row : RowStates]
             Item(i) == [series |-> ranked[i], row |-> a.rows[ranked[i]]]
  <2>3. \A i \in 1..m : Item(i) \in T
    BY <2>2
  <2>4. shown = [i \in 1..m |-> Item(i)]
    BY <1>10
  <2> HIDE DEF T, Item
  <2>5. shown \in Seq(T) /\ Len(shown) = m
    BY <1>7, <2>3, <2>4
  <2> QED BY <2>5 DEF T
<1>12. ASSUME NEW s \in Seen(a), RowPasses(s, flt), a.rows[s].inViolation
       PROVE  \E i \in 1..m : shown[i].series = s
  <2>1. s \in Forced(a, rows)
    BY <1>12 DEF Forced, rows
  <2>2. PICK i \in 1..c : ranked[i] = s /\ i <= Cardinality(Forced(a, rows))
    BY <1>1, <2>1, ForcedFirst DEF c, ranked
  <2>3. i \in 1..m
    BY <1>2, <1>3, <1>4, <1>7, <2>2 DEF m
  <2> QED BY <1>10, <2>2, <2>3
<1> QED BY <1>11, <1>12 DEF shown

\* A value enters its row.
LEMMA RowFolded ==
  ASSUME NEW r \in RowStates, NEW x \in Values
  PROVE  /\ FoldRow(r, x) \in RowStates
         /\ FoldRow(r, x).samples = r.samples + 1
         /\ FoldRow(r, x).inViolation = r.inViolation
<1>1. x = NaN \/ x \in Int
  BY DEF Values
<1>2. r.sum \in Int /\ NaN \in Values /\ NaN \notin Int
  BY NaNAssumption DEF RowStates, Values
<1>3. /\ r \in [samples : Nat, nonFinite : Nat, sum : Int, min : Values, max : Values,
                first : Values, last : Values, inViolation : BOOLEAN]
      /\ r.first # NaN => r.last # NaN
      /\ r.samples \in Nat /\ r.nonFinite \in Nat /\ r.sum \in Int /\ r.min \in Values
      /\ r.max \in Values /\ r.first \in Values /\ r.last \in Values /\ r.inViolation \in BOOLEAN
  BY DEF RowStates
<1>4. CASE x = NaN
  <2>1. FoldRow(r, x) = [r EXCEPT !.samples = @ + 1, !.nonFinite = @ + 1]
    BY <1>4 DEF FoldRow
  <2>2. FoldRow(r, x) = [samples |-> r.samples + 1, nonFinite |-> r.nonFinite + 1, sum |-> r.sum,
                         min |-> r.min, max |-> r.max, first |-> r.first, last |-> r.last,
                         inViolation |-> r.inViolation]
    BY <1>3, <2>1
  <2> QED BY <1>3, <2>2 DEF RowStates
<1>5. CASE x # NaN
  <2>1. x \in Int /\ r.sum + x \in Int /\ x \in Values
    BY <1>1, <1>2, <1>5
  <2> DEFINE low   == IF r.min = NaN \/ x < r.min THEN x ELSE r.min
             high  == IF r.max = NaN \/ x > r.max THEN x ELSE r.max
             first == IF r.first = NaN THEN x ELSE r.first
  <2>2. low \in Values /\ high \in Values /\ first \in Values
    BY <2>1 DEF RowStates
  <2>3. FoldRow(r, x) = [r EXCEPT !.samples = @ + 1, !.sum = @ + x, !.min = low, !.max = high,
                                  !.first = first, !.last = x]
    BY <1>5 DEF FoldRow
  <2> HIDE DEF low, high, first
  <2>4. FoldRow(r, x) = [samples |-> r.samples + 1, nonFinite |-> r.nonFinite, sum |-> r.sum + x,
                         min |-> low, max |-> high, first |-> first, last |-> x,
                         inViolation |-> r.inViolation]
    BY <1>3, <2>3
  <2> QED BY <1>5, <1>3, <2>1, <2>2, <2>4 DEF RowStates
<1> QED BY <1>4, <1>5

\* A row nothing has entered yet.
LEMMA RowFresh == NewRow \in RowStates /\ NewRow.samples = 0
BY DEF NewRow, RowStates, Values

-----------------------------------------------------------------------------
(* One tick of a report: the engine never meets a source that is gone. *)

\* No source alert is up.
SourcesRest == \A i \in SourceRules : ~source[i].fired

\* What a report can announce.
Announcements == [rule : RuleIds, series : Series, state : {"fired", "cleared"}, samples : Nat]

\* The alerts are finitely many, and so are the transitions of a tick, each of
\* a series of the sample or one met before.
LEMMA TickAnnounces ==
  ASSUME EngineTyped, SourcesRest, NEW sample \in Seq(Entry), ObserveSample(sample)
  PROVE  /\ EngineTyped' /\ SourcesRest'
         /\ IsFiniteSet(out') /\ out' \subseteq Announcements
         /\ \A t \in out' : \E k \in Keys :
              t.series = k[2] /\ (InSample(sample, k[2]) \/ series[k].known)
         /\ \A k \in Keys : series'[k].known => series[k].known \/ InSample(sample, k[2])
<1>1. Observes
  BY DEF Observes
<1>2. ASSUME NEW i \in SourceRules
      PROVE  SourceEvent(i, "Recovers").state = "none" /\ ~source'[i].fired
  <2>1. ~source[i].fired
    BY DEF SourcesRest
  <2>2. SourceEvent(i, "Recovers") = NoEvent
    BY <2>1 DEF SourceEvent, GateEvent
  <2>3. source[i] \in Gate
    BY DEF EngineTyped
  <2>4. source'[i] = Recover(source[i])
    BY DEF ObserveSample, StepSource, Apply
  <2> QED BY <2>1, <2>2, <2>3, <2>4 DEF NoEvent, Recover, Gate
<1>3. SourceTransitions("Recovers") = {}
  BY <1>2 DEF SourceTransitions, Announcing, Transition
<1>4. out' = {t \in {Transition(k[1], k[2], SeriesEvent(k, sample)) : k \in Keys} : t.state # "none"}
  BY <1>3 DEF ObserveSample, SampleTransitions, Announcing
<1>5. ASSUME NEW k \in Keys, SeriesEvent(k, sample).state # "none"
      PROVE  /\ Transition(k[1], k[2], SeriesEvent(k, sample)) \in Announcements
             /\ InSample(sample, k[2]) \/ series[k].known
  <2>1. series[k].gate \in Gate /\ Rules[k[1]].for \in Nat \ {0} /\ k[1] \in RuleIds /\ k[2] \in Series
    BY RuleTyped DEF EngineTyped, SeriesState
  <2>2. /\ SeriesEvent(k, sample).state \in {"none", "fired", "cleared"}
        /\ SeriesEvent(k, sample).samples \in Nat
    BY <2>1, EventTyped DEF SeriesEvent
  <2>3. ASSUME ~InSample(sample, k[2]), ~series[k].known PROVE FALSE
    <3>1. SeriesEvent(k, sample) = NoEvent
      BY <2>3 DEF SeriesEvent, AbsentVerdict, GateEvent
    <3> QED BY <1>5, <3>1 DEF NoEvent
  <2> QED BY <1>5, <2>1, <2>2, <2>3 DEF Transition, Announcements
<1>6. /\ out' \subseteq Announcements
      /\ \A t \in out' : \E k \in Keys :
           t.series = k[2] /\ (InSample(sample, k[2]) \/ series[k].known)
  BY <1>4, <1>5 DEF Transition
<1>7. IsFiniteSet(Keys)
  <2>1. Len(Rules) \in Nat
    BY RulesAssumption
  <2>2. IsFiniteSet(RuleIds)
    BY <2>1, FS_Interval DEF RuleIds
  <2>3. IsFiniteSet(RuleIds \X Series)
    BY <2>2, SeriesFinite, FS_Product
  <2>4. Keys \in SUBSET (RuleIds \X Series)
    BY DEF Keys
  <2> QED BY <2>3, <2>4, FS_Subset
<1>8. IsFiniteSet(out')
  <2> DEFINE f == [k \in Keys |-> Transition(k[1], k[2], SeriesEvent(k, sample))]
             T == {f[k] : k \in Keys}
  <2>1. f \in Surjection(Keys, T)
    BY DEF Surjection
  <2>2. out' \in SUBSET T
    BY <1>4
  <2> HIDE DEF T, f
  <2>3. IsFiniteSet(T)
    BY <1>7, <2>1, FS_Surjection
  <2> QED BY <2>2, <2>3, FS_Subset
<1>9. \A k \in Keys : series'[k].known => series[k].known \/ InSample(sample, k[2])
  BY DEF ObserveSample, Absent
<1>10. EngineTyped'
  BY <1>1, ObserveTyped
<1> QED BY <1>2, <1>6, <1>8, <1>9, <1>10 DEF SourcesRest

\* The transitions of a tick are ordered.
LEMMA TickOrders ==
  ASSUME EngineTyped, SourcesRest, NEW sample \in Seq(Entry), ObserveSample(sample)
  PROVE  Orders({p \in out' \X out' : Precedes(sample, p[1], p[2])}, out')
<1> DEFINE R == {p \in out' \X out' : Precedes(sample, p[1], p[2])}
<1>1. Observes /\ out' \subseteq Announcements
  BY TickAnnounces DEF Observes
<1>2. \A t, u \in out' : <<t, u>> \in R <=> Precedes(sample, t, u)
  OBVIOUS
<1>3. \A t \in out' : t.rule \in Nat /\ t.series \in Series
  BY <1>1 DEF Announcements, RuleIds
<1>4. \A s \in Series : InSample(sample, s) => FirstOf(sample, s) \in Nat
  BY FirstOccurs
<1>5. \A s \in Series : KeyRank(s) \in Nat
  BY RanksApart
<1> HIDE DEF R
<1>6. ASSUME NEW t \in out' PROVE <<t, t>> \notin R
  <2>1. ~Precedes(sample, t, t)
    BY <1>3, <1>4, <1>5 DEF Precedes
  <2> QED BY <1>2, <2>1
<1>7. ASSUME NEW t \in out', NEW u \in out', t # u PROVE <<t, u>> \in R \/ <<u, t>> \in R
  <2>1. Precedes(sample, t, u) \/ Precedes(sample, u, t)
    BY <1>1, <1>3, <1>7, OrderDecided
  <2> QED BY <1>2, <2>1
<1>8. ASSUME NEW t \in out', NEW u \in out', NEW v \in out', <<t, u>> \in R, <<u, v>> \in R
      PROVE  <<t, v>> \in R
  <2>1. Precedes(sample, t, u) /\ Precedes(sample, u, v)
    BY <1>2, <1>8
  <2>2. Precedes(sample, t, v)
    <3>1. t.rule \in Nat /\ u.rule \in Nat /\ v.rule \in Nat
      BY <1>3
    <3>2. CASE t.rule = u.rule /\ u.rule = v.rule
      <4>1. /\ InSample(sample, t.series) => FirstOf(sample, t.series) \in Nat
            /\ InSample(sample, u.series) => FirstOf(sample, u.series) \in Nat
            /\ InSample(sample, v.series) => FirstOf(sample, v.series) \in Nat
            /\ KeyRank(t.series) \in Nat /\ KeyRank(u.series) \in Nat /\ KeyRank(v.series) \in Nat
        BY <1>3, <1>4, <1>5
      <4> QED BY <2>1, <3>2, <4>1 DEF Precedes
    <3>3. CASE ~(t.rule = u.rule /\ u.rule = v.rule)
      <4>1. t.rule < v.rule
        BY <2>1, <3>1, <3>3 DEF Precedes
      <4> QED BY <4>1 DEF Precedes
    <3> QED BY <3>2, <3>3
  <2> QED BY <1>2, <2>2
<1> QED BY <1>6, <1>7, <1>8 DEF Orders, R

-----------------------------------------------------------------------------
(* The newest of a list, and the places of a list that pass. *)

\* What Newest keeps: as much as the cap allows, from the end.
LEMMA NewestIs ==
  ASSUME NEW T, NEW s \in Seq(T)
  PROVE  /\ Newest(s) \in Seq(T) /\ Len(Newest(s)) = Less(ViolationCap, Len(s))
         /\ \A n \in 1..Len(Newest(s)) : Newest(s)[n] = s[Len(s) - Len(Newest(s)) + n]
<1> DEFINE from == Larger(1, Len(s) - ViolationCap + 1)
<1>1. PICK l \in Nat : l = Len(s)
  OBVIOUS
<1>2. PICK c \in Nat : c = Less(ViolationCap, l)
  BY <1>1, CapAssumption DEF Less
<1>3. from = l - c + 1 /\ c <= l
  <2>1. from = Larger(1, l - ViolationCap + 1)
    BY <1>1
  <2>2. ViolationCap \in Nat /\ ViolationCap > 0
    BY CapAssumption
  <2> HIDE DEF from
  <2> QED BY ONLY <1>2, <2>1, <2>2, l \in Nat, c \in Nat DEF Less, Larger
<1>4. Newest(s) = SubSeq(s, from, l)
  BY <1>1 DEF Newest
<1> HIDE DEF from
<1>5. SubSeq(s, from, l) = [n \in 1..c |-> s[l - c + n]]
  BY <1>1, <1>3
<1>6. \A n \in 1..c : s[l - c + n] \in T
  BY <1>1, <1>3
<1>7. Newest(s) \in Seq(T) /\ Len(Newest(s)) = c
  BY <1>4, <1>5, <1>6
<1> QED BY <1>1, <1>2, <1>4, <1>5, <1>7

\* The items of two sequences one after the other.
LEMMA Joined ==
  ASSUME NEW T, NEW s \in Seq(T), NEW t \in Seq(T),
         NEW m \in Nat, Len(s) = m, NEW n \in Nat, Len(t) = n
  PROVE  /\ s \o t \in Seq(T) /\ Len(s \o t) = m + n
         /\ \A i \in 1..m + n : (s \o t)[i] = IF i <= m THEN s[i] ELSE t[i - m]
OBVIOUS

\* The newest of the newest and more are the newest of all.
LEMMA NewestJoined ==
  ASSUME NEW T, NEW s \in Seq(T), NEW t \in Seq(T)
  PROVE  Newest(Newest(s) \o t) = Newest(s \o t)
<1>1. PICK a \in Seq(T) : a = Newest(s)
  BY NewestIs
<1>2. PICK m \in Nat, n \in Nat, k \in Nat : Len(s) = m /\ Len(t) = n /\ Len(a) = k
  OBVIOUS
<1>3. k = Less(ViolationCap, m) /\ \A i \in 1..k : a[i] = s[m - k + i]
  BY <1>1, <1>2, NewestIs
<1>4. PICK x \in Seq(T) :
        /\ x = a \o t /\ Len(x) = k + n
        /\ \A i \in 1..k + n : x[i] = IF i <= k THEN a[i] ELSE t[i - k]
  <2>1. /\ a \o t \in Seq(T) /\ Len(a \o t) = k + n
        /\ \A i \in 1..k + n : (a \o t)[i] = IF i <= k THEN a[i] ELSE t[i - k]
    BY ONLY <1>2, a \in Seq(T), s \in Seq(T), t \in Seq(T), m \in Nat, n \in Nat, k \in Nat
  <2> QED BY ONLY <2>1
<1>5. PICK y \in Seq(T) :
        /\ y = s \o t /\ Len(y) = m + n
        /\ \A i \in 1..m + n : y[i] = IF i <= m THEN s[i] ELSE t[i - m]
  <2>1. /\ s \o t \in Seq(T) /\ Len(s \o t) = m + n
        /\ \A i \in 1..m + n : (s \o t)[i] = IF i <= m THEN s[i] ELSE t[i - m]
    BY ONLY <1>2, a \in Seq(T), s \in Seq(T), t \in Seq(T), m \in Nat, n \in Nat, k \in Nat, SMTT(30)
  <2> QED BY ONLY <2>1
<1>6. PICK b \in Seq(T) :
        /\ b = Newest(x) /\ Len(b) = Less(ViolationCap, k + n)
        /\ \A i \in 1..Len(b) : b[i] = x[k + n - Len(b) + i]
  <2>1. /\ Newest(x) \in Seq(T) /\ Len(Newest(x)) = Less(ViolationCap, Len(x))
        /\ \A i \in 1..Len(Newest(x)) : Newest(x)[i] = x[Len(x) - Len(Newest(x)) + i]
    BY ONLY x \in Seq(T), NewestIs
  <2>2. PICK l \in Nat : l = Len(x) /\ l = k + n
    BY <1>4
  <2>3. PICK e \in Seq(T) : e = Newest(x)
    BY ONLY <2>1
  <2>4. Len(e) = Less(ViolationCap, l) /\ \A i \in 1..Len(e) : e[i] = x[l - Len(e) + i]
    BY ONLY <2>1, <2>2, <2>3
  <2>5. l = k + n
    BY ONLY <2>2
  <2>6. Len(e) = Less(ViolationCap, k + n) /\ \A i \in 1..Len(e) : e[i] = x[k + n - Len(e) + i]
    BY ONLY <2>4, <2>5, SMTT(30)
  <2> QED BY ONLY <2>3, <2>6, ZenonT(30)
<1>7. PICK c \in Seq(T) :
        /\ c = Newest(y) /\ Len(c) = Less(ViolationCap, m + n)
        /\ \A i \in 1..Len(c) : c[i] = y[m + n - Len(c) + i]
  <2>1. /\ Newest(y) \in Seq(T) /\ Len(Newest(y)) = Less(ViolationCap, Len(y))
        /\ \A i \in 1..Len(Newest(y)) : Newest(y)[i] = y[Len(y) - Len(Newest(y)) + i]
    BY ONLY y \in Seq(T), NewestIs
  <2>2. PICK l \in Nat : l = Len(y) /\ l = m + n
    BY <1>5
  <2>3. PICK e \in Seq(T) : e = Newest(y)
    BY ONLY <2>1
  <2>4. Len(e) = Less(ViolationCap, l) /\ \A i \in 1..Len(e) : e[i] = y[l - Len(e) + i]
    BY ONLY <2>1, <2>2, <2>3
  <2>5. l = m + n
    BY ONLY <2>2
  <2>6. Len(e) = Less(ViolationCap, m + n) /\ \A i \in 1..Len(e) : e[i] = y[m + n - Len(e) + i]
    BY ONLY <2>4, <2>5, SMTT(30)
  <2> QED BY ONLY <2>3, <2>6, ZenonT(30)
<1>8. PICK l \in Nat : l = Len(b) /\ l <= k + n /\ l <= m + n
  <2>1. ViolationCap \in Nat /\ ViolationCap > 0
    BY CapAssumption
  <2> DEFINE z == Less(ViolationCap, k + n)
  <2>2. z \in Nat /\ z <= k + n /\ z <= m + n
    BY ONLY <1>3, <2>1, m \in Nat, n \in Nat, k \in Nat DEF Less, z
  <2> QED BY <1>6, <2>2
<1>9. Len(c) = l
  BY <1>3, <1>6, <1>7, <1>8, CapAssumption DEF Less
<1>10. ASSUME NEW i \in 1..l PROVE b[i] = c[i]
  <2>1. b[i] = x[k + n - l + i] /\ c[i] = y[m + n - l + i]
    BY <1>6, <1>7, <1>8, <1>9
  <2>2. k <= m
    BY <1>3, CapAssumption DEF Less
  <2>3. PICK p \in 1..k + n : p = k + n - l + i
    <3>1. k + n - l + i \in 1..k + n
      BY <1>8
    <3> QED BY <3>1
  <2>4. PICK q \in 1..m + n : q = m + n - l + i
    <3>1. m + n - l + i \in 1..m + n
      BY <1>8
    <3> QED BY <3>1
  <2>5. q = p + (m - k)
    BY <2>3, <2>4
  <2>6. CASE p <= k
    <3>1. q <= m /\ q = m - k + p
      BY <2>5, <2>6
    <3>2. x[p] = a[p] /\ y[q] = s[q]
      BY <1>4, <1>5, <2>6, <3>1
    <3>3. a[p] = s[m - k + p]
      <4>1. p \in 1..k
        BY <2>6
      <4> QED BY <1>3, <4>1
    <3> QED BY <2>1, <2>3, <2>4, <3>1, <3>2, <3>3
  <2>7. CASE p > k
    <3>1. ~(p <= k) /\ ~(q <= m) /\ p - k = q - m
      BY <2>5, <2>7
    <3>2. x[p] = t[p - k] /\ y[q] = t[q - m]
      BY <1>4, <1>5, <3>1
    <3> QED BY <2>1, <2>3, <2>4, <3>1, <3>2
  <2> QED BY <2>6, <2>7
<1>11. b = c
  BY <1>6, <1>7, <1>8, <1>9, <1>10, SameSequence
<1> QED BY <1>1, <1>4, <1>5, <1>6, <1>7, <1>11

\* The sequence tail is the end of seq, d places on, and has Q of its places P.
Ends(seq, P, tail, Q, d) ==
  /\ P \subseteq 1..Len(seq) /\ Q \subseteq 1..Len(tail)
  /\ d \in Nat /\ Len(seq) = d + Len(tail)
  /\ \A n \in 1..Len(tail) : n \in Q <=> n + d \in P

\* So the elements of tail at Q are the last ones of those of seq at P.
EndsToo(seq, P, tail, Q, d) ==
  \E e \in Nat :
    /\ Len(At(seq, P)) = e + Len(At(tail, Q))
    /\ \A n \in 1..Len(At(tail, Q)) : \E q \in Q :
         At(tail, Q)[n] = tail[q] /\ At(seq, P)[e + n] = seq[q + d]

\* Taking the places that pass commutes with cutting off a beginning.
LEMMA AtSuffix ==
  ASSUME NEW T, NEW seq \in Seq(T), NEW P, NEW U, NEW tail \in Seq(U), NEW Q, NEW d,
         Ends(seq, P, tail, Q, d)
  PROVE  EndsToo(seq, P, tail, Q, d)
<1> SUFFICES ASSUME P \in SUBSET (1..Len(seq)), Q \in SUBSET (1..Len(tail)),
                    d \in Nat, Len(seq) = d + Len(tail),
                    \A n \in 1..Len(tail) : n \in Q <=> n + d \in P
             PROVE  EndsToo(seq, P, tail, Q, d)
  BY DEF Ends
<1> DEFINE k == Cardinality(P)
<1>1. k \in Nat /\ Len(At(seq, P)) = k
  BY AtIs
<1>2. PICK o : Enumerates(o, k, P) /\ \A n \in 1..k : At(seq, P)[n] = seq[o[n]]
  BY AtIs
<1> HIDE DEF k
<1>3. /\ \A n \in 1..k : o[n] \in P /\ o[n] \in Nat
      /\ \A p \in P : \E n \in 1..k : o[n] = p
      /\ \A m, n \in 1..k : m < n => o[m] < o[n]
  <2>1. /\ \A n \in 1..k : o[n] \in P
        /\ \A p \in P : \E n \in 1..k : o[n] = p
        /\ \A m, n \in 1..k : m < n => o[m] < o[n]
    BY <1>2 DEF Enumerates
  <2>2. \A p \in P : p \in Nat
    OBVIOUS
  <2> QED BY <2>1, <2>2
<1> DEFINE S == {i \in Nat : i <= k /\ \A n \in 1..k : n > i => o[n] > d}
<1>4. PICK e \in S : \A i \in S : e <= i
  <2>1. S \subseteq Nat /\ k \in S
    BY <1>1
  <2> HIDE DEF S
  <2> QED BY <2>1, LeastNat
<1>5. e \in Nat /\ e <= k /\ \A n \in 1..k : n > e => o[n] > d
  BY <1>4
<1>6. \A n \in 1..k : n <= e => o[n] <= d
  <2> SUFFICES ASSUME NEW n \in 1..k, n <= e, o[n] > d PROVE FALSE
    BY <1>3
  <2>1. PICK i \in Nat : i = n - 1
    OBVIOUS
  <2>2. \A m \in 1..k : m > i => o[m] > d
    <3> SUFFICES ASSUME NEW m \in 1..k, m > i PROVE o[m] > d
      OBVIOUS
    <3>1. m = n \/ n < m
      BY <2>1
    <3>2. o[m] \in Nat /\ o[n] \in Nat /\ (n < m => o[n] < o[m])
      BY <1>3
    <3> QED BY <3>1, <3>2
  <2>3. i \in S
    BY <2>1, <2>2, <1>1
  <2>4. e <= i
    BY <1>4, <2>3
  <2> QED BY <2>1, <2>4, <1>5
<1> HIDE DEF S
<1>7. PICK j \in Nat : k = e + j
  <2>1. k - e \in Nat /\ k = e + (k - e)
    BY <1>1, <1>5
  <2> QED BY <2>1
<1>8. PICK l \in Nat : l = Len(tail) /\ Len(seq) = d + l
  OBVIOUS
<1> DEFINE q == [n \in 1..j |-> o[e + n] - d]
<1>9. ASSUME NEW n \in 1..j PROVE q[n] \in Q /\ q[n] + d = o[e + n]
  <2>1. PICK m \in 1..k : m = e + n
    BY <1>5, <1>7
  <2>2. o[m] \in P /\ o[m] > d
    BY <1>3, <1>5, <2>1
  <2>3. o[m] \in 1..d + l
    BY <1>8, <2>2
  <2>4. PICK x \in 1..l : x = o[m] - d
    BY <1>8, <2>2, <2>3
  <2>5. x + d = o[m]
    BY <2>3, <2>4
  <2>6. x \in Q
    BY <1>8, <2>2, <2>5
  <2> QED BY <2>1, <2>4, <2>5, <2>6
<1>10. Enumerates(q, j, Q)
  <2>1. q \in [1..j -> Q]
    BY <1>9
  <2>2. ASSUME NEW p \in Q PROVE \E n \in 1..j : q[n] = p
    <3>1. p \in Nat /\ p > 0 /\ p + d \in P
      BY <1>8
    <3>2. PICK m \in 1..k : o[m] = p + d
      BY <1>3, <3>1
    <3>3. m > e
      BY <1>5, <1>6, <3>1, <3>2
    <3>4. PICK n \in 1..j : m = e + n
      <4>1. m - e \in 1..j /\ m = e + (m - e)
        BY <1>5, <1>7, <3>3
      <4> QED BY <4>1
    <3>5. q[n] = p + d - d
      BY <3>2, <3>4
    <3> QED BY <3>1, <3>5
  <2>3. ASSUME NEW m \in 1..j, NEW n \in 1..j, m < n PROVE q[m] < q[n]
    <3>1. PICK x \in 1..k, y \in 1..k : x = e + m /\ y = e + n /\ x < y
      BY <1>5, <1>7, <2>3
    <3>2. o[x] \in Nat /\ o[y] \in Nat /\ o[x] < o[y]
      BY <1>3, <3>1
    <3> QED BY <3>1, <3>2
  <2> HIDE DEF q
  <2> QED BY <2>1, <2>2, <2>3 DEF Enumerates
<1>11. /\ Len(At(tail, Q)) = j
       /\ \A n \in 1..j : At(tail, Q)[n] = tail[q[n]]
  <2> HIDE DEF q
  <2> QED BY <1>10, AtFrom
<1> HIDE DEF q
<1>12. ASSUME NEW n \in 1..j
       PROVE  At(tail, Q)[n] = tail[q[n]] /\ At(seq, P)[e + n] = seq[q[n] + d]
  <2>1. PICK m \in 1..k : m = e + n
    BY <1>5, <1>7
  <2>2. At(seq, P)[m] = seq[o[m]]
    BY <1>2
  <2> QED BY <1>9, <1>11, <2>1, <2>2
<1>13. Len(At(seq, P)) = e + Len(At(tail, Q))
  BY <1>1, <1>7, <1>11
<1>14. \A n \in 1..Len(At(tail, Q)) : \E p \in Q :
         At(tail, Q)[n] = tail[p] /\ At(seq, P)[e + n] = seq[p + d]
  BY <1>9, <1>11, <1>12
<1> QED BY <1>5, <1>13, <1>14 DEF EndsToo

\* Two lists one after the other have as many passing places as both.
LEMMA PassingJoined ==
  ASSUME NEW T, NEW s \in Seq(T), NEW t \in Seq(T), NEW flt, NEW a
  PROVE  /\ IsFiniteSet(Passing(s, flt, a)) /\ Cardinality(Passing(s, flt, a)) \in Nat
         /\ Cardinality(Passing(s \o t, flt, a))
              = Cardinality(Passing(s, flt, a)) + Cardinality(Passing(t, flt, a))
<1> DEFINE P == Passing(s, flt, a)
           Q == Passing(t, flt, a)
           R == Passing(s \o t, flt, a)
<1>1. PICK m \in Nat, n \in Nat : Len(s) = m /\ Len(t) = n
  OBVIOUS
<1>2. P \in SUBSET (1..m) /\ Q \in SUBSET (1..n)
  BY <1>1 DEF Passing
<1>3. IsFiniteSet(P) /\ IsFiniteSet(Q) /\ Cardinality(P) \in Nat /\ Cardinality(Q) \in Nat
  <2> HIDE DEF P, Q
  <2>1. IsFiniteSet(1..m) /\ IsFiniteSet(1..n)
    BY FS_Interval
  <2> QED BY <1>2, <2>1, FS_Subset, FS_CardinalityType
<1> DEFINE D == {m + q : q \in Q}
<1>4. /\ s \o t \in Seq(T) /\ Len(s \o t) = m + n
      /\ \A i \in 1..m + n : (s \o t)[i] = IF i <= m THEN s[i] ELSE t[i - m]
  BY <1>1
<1>5. R = P \cup D
  <2>1. \A i \in 1..m : i \in R <=> i \in P
    BY <1>1, <1>4 DEF Passing
  <2>2. \A i \in 1..n : m + i \in R <=> i \in Q
    <3> SUFFICES ASSUME NEW i \in 1..n PROVE m + i \in R <=> i \in Q
      OBVIOUS
    <3>1. PICK j \in 1..m + n : j = m + i /\ ~(j <= m) /\ j - m = i
      OBVIOUS
    <3>2. (s \o t)[j] = t[i]
      BY <1>4, <3>1
    <3> QED BY <1>1, <1>4, <3>1, <3>2 DEF Passing
  <2>3. R \subseteq 1..m + n
    BY <1>4 DEF Passing
  <2>4. \A i \in 1..m + n : i \in 1..m \/ (i - m \in 1..n /\ i = m + (i - m))
    OBVIOUS
  <2> HIDE DEF P, Q, R
  <2>5. ASSUME NEW i \in R PROVE i \in P \cup D
    BY <2>1, <2>2, <2>3, <2>4
  <2>6. ASSUME NEW i \in P \cup D PROVE i \in R
    BY <1>2, <2>1, <2>2
  <2> QED BY <2>5, <2>6
<1>6. IsFiniteSet(D) /\ Cardinality(D) = Cardinality(Q)
  <2> DEFINE f == [q \in Q |-> m + q]
  <2> HIDE DEF Q
  <2>1. f \in Bijection(Q, D)
    <3>1. \A q \in Q : q \in Nat
      BY <1>2
    <3>2. f \in [Q -> D] /\ (\A x, y \in Q : f[x] = f[y] => x = y) /\ (\A x \in D : \E y \in Q : f[y] = x)
      BY <3>1
    <3> QED BY <3>2 DEF Bijection, Injection, Surjection, IsInjective
  <2> HIDE DEF f, D
  <2> QED BY <1>3, <2>1, FS_Bijection DEF ExistsBijection
<1>7. P \cap D = {}
  BY <1>2
<1> HIDE DEF P, Q, R, D
<1>8. Cardinality(R) = Cardinality(P) + Cardinality(Q)
  <2>1. Cardinality(P \cup D) = Cardinality(P) + Cardinality(D) - Cardinality(P \cap D)
    BY <1>3, <1>6, FS_Union
  <2>2. Cardinality(P \cap D) = 0
    BY <1>7, FS_EmptySet
  <2> QED BY <1>3, <1>5, <1>6, <2>1, <2>2
<1> QED BY <1>3, <1>8 DEF P, Q, R

-----------------------------------------------------------------------------
(* The ladder of the instants: those later than all before them. *)

\* A rung: an instant later than all before it.
Rises(t, n) == n \in 1..Len(t) /\ \A m \in 1..n-1 : t[m] < t[n]

\* From one rung to the next.
Climbs(t, n, m) ==
  /\ Rises(t, n) /\ Rises(t, m) /\ n < m
  /\ \A k \in Nat : n < k /\ k < m => ~Rises(t, k)

\* The highest rung.
Top(t, p) == (\E n \in 1..Len(t) : Rises(t, n) /\ t[n] = p) /\ \A m \in 1..Len(t) : t[m] <= p

\* The holes wider than w.
Wide(t, w) ==
  {h \in [from : Int, to : Int] :
     Extent(h) > w /\ \E n, m \in 1..Len(t) : Climbs(t, n, m) /\ h.from = t[n] /\ h.to = t[m]}

\* One more instant changes no rung but adds one if it is the latest.
LEMMA RungsKept ==
  ASSUME NEW t \in Seq(Int), NEW x \in Int, NEW u, u = Append(t, x),
         NEW l \in Nat, l = Len(t)
  PROVE  /\ u \in Seq(Int) /\ Len(u) = l + 1 /\ u[l + 1] = x
         /\ \A n \in 1..l : u[n] = t[n] /\ t[n] \in Int /\ (Rises(u, n) <=> Rises(t, n))
         /\ Rises(u, l + 1) <=> \A m \in 1..l : t[m] < x
         /\ \A n : Rises(u, n) => n \in 1..l \/ n = l + 1
<1>1. /\ u \in Seq(Int) /\ Len(u) = l + 1 /\ u[l + 1] = x
      /\ \A n \in 1..l : u[n] = t[n] /\ t[n] \in Int
  OBVIOUS
<1>2. ASSUME NEW n \in 1..l PROVE Rises(u, n) <=> Rises(t, n)
  BY <1>1 DEF Rises
<1>3. Rises(u, l + 1) <=> \A m \in 1..l : t[m] < x
  <2>1. \A m : m \in 1..(l + 1)-1 <=> m \in 1..l
    OBVIOUS
  <2>2. l + 1 \in 1..Len(u)
    BY <1>1
  <2> QED BY ONLY <1>1, <2>1, <2>2 DEF Rises
<1>4. \A n : Rises(u, n) => n \in 1..l \/ n = l + 1
  BY <1>1 DEF Rises
<1> QED BY <1>1, <1>2, <1>3, <1>4

\* A step between rungs that were there stays one.
LEMMA ClimbsKept ==
  ASSUME NEW t \in Seq(Int), NEW x \in Int, NEW u, u = Append(t, x),
         NEW n \in 1..Len(t), NEW m \in 1..Len(t)
  PROVE  Climbs(u, n, m) <=> Climbs(t, n, m)
<1>1. PICK l \in Nat : l = Len(t)
  OBVIOUS
<1>2. \A k \in 1..l : Rises(u, k) <=> Rises(t, k)
  BY <1>1, RungsKept
<1>3. n \in 1..l /\ m \in 1..l
  BY <1>1
<1>4. \A k \in Nat : n < k /\ k < m => k \in 1..l
  BY <1>3
<1> QED BY ONLY <1>2, <1>3, <1>4 DEF Climbs

\* An instant that is not the latest makes no hole.
LEMMA LateIsNoHole ==
  ASSUME NEW t \in Seq(Int), NEW x \in Int, NEW p \in Int, Top(t, p), x <= p, NEW w
  PROVE  Wide(Append(t, x), w) = Wide(t, w) /\ Top(Append(t, x), p)
<1>0. PICK u \in Seq(Int) : u = Append(t, x)
  <2>1. Append(t, x) \in Seq(Int)
    OBVIOUS
  <2> QED BY <2>1
<1>1. PICK l \in Nat : l = Len(t) /\ u = Append(t, x)
  BY <1>0
<1>2. /\ Len(u) = l + 1 /\ u[l + 1] = x
      /\ \A n \in 1..l : u[n] = t[n] /\ t[n] \in Int /\ (Rises(u, n) <=> Rises(t, n))
      /\ Rises(u, l + 1) <=> \A m \in 1..l : t[m] < x
  <2>1. Len(u) = l + 1 /\ u[l + 1] = x
    BY <1>1, RungsKept
  <2>2. \A n \in 1..l : u[n] = t[n] /\ t[n] \in Int /\ (Rises(u, n) <=> Rises(t, n))
    BY <1>1, RungsKept, ZenonT(60)
  <2>3. Rises(u, l + 1) <=> \A m \in 1..l : t[m] < x
    BY <1>1, RungsKept
  <2> QED BY ONLY <2>1, <2>2, <2>3
<1>3. PICK r \in 1..l : Rises(t, r) /\ t[r] = p
  BY <1>1 DEF Top
<1>4. ~Rises(u, l + 1)
  BY <1>2, <1>3
<1>5. Top(u, p)
  <2>1. \A m \in 1..l + 1 : m \in 1..l \/ m = l + 1
    OBVIOUS
  <2>2. \A m \in 1..l : t[m] <= p
    BY <1>1 DEF Top
  <2>3. \A m \in 1..l + 1 : u[m] <= p
    BY <1>2, <2>1, <2>2
  <2>4. r \in 1..l + 1 /\ Rises(u, r) /\ u[r] = p
    BY <1>2, <1>3
  <2> QED BY <1>2, <2>3, <2>4 DEF Top
<1>6. \A n, m \in 1..l : Climbs(u, n, m) <=> Climbs(t, n, m)
  BY <1>1, ClimbsKept
<1>7. \A n, m \in 1..l + 1 : Climbs(u, n, m) => n \in 1..l /\ m \in 1..l
  <2>1. \A n, m : Climbs(u, n, m) => n # l + 1 /\ m # l + 1
    BY <1>4 DEF Climbs
  <2>2. \A n \in 1..l + 1 : n # l + 1 => n \in 1..l
    OBVIOUS
  <2> QED BY <2>1, <2>2
<1>8. \A h \in [from : Int, to : Int] :
        (\E n, m \in 1..l + 1 : Climbs(u, n, m) /\ h.from = u[n] /\ h.to = u[m])
          <=> \E n, m \in 1..l : Climbs(t, n, m) /\ h.from = t[n] /\ h.to = t[m]
  <2>1. \A n \in 1..l : n \in 1..l + 1
    OBVIOUS
  <2> QED BY ONLY <1>2, <1>6, <1>7, <2>1
<1>9. Wide(u, w) = Wide(t, w)
  <2> DEFINE U(h) == \E n, m \in 1..l + 1 : Climbs(u, n, m) /\ h.from = u[n] /\ h.to = u[m]
             V(h) == \E n, m \in 1..l : Climbs(t, n, m) /\ h.from = t[n] /\ h.to = t[m]
  <2>1. Wide(u, w) = {h \in [from : Int, to : Int] : Extent(h) > w /\ U(h)}
    BY <1>2 DEF Wide
  <2>2. Wide(t, w) = {h \in [from : Int, to : Int] : Extent(h) > w /\ V(h)}
    BY <1>1 DEF Wide
  <2>3. \A h \in [from : Int, to : Int] : U(h) <=> V(h)
    BY <1>8
  <2> HIDE DEF U, V
  <2> QED BY <2>1, <2>2, <2>3
<1> QED BY <1>1, <1>5, <1>9

\* The latest instant makes a hole after the one that was the latest before.
LEMMA LatestIsStep ==
  ASSUME NEW t \in Seq(Int), NEW x \in Int, NEW p \in Int, Top(t, p), x > p, NEW w
  PROVE  /\ Top(Append(t, x), x)
         /\ Wide(Append(t, x), w)
              = IF x - p > w THEN Wide(t, w) \cup {[from |-> p, to |-> x]} ELSE Wide(t, w)
<1>0. PICK u \in Seq(Int) : u = Append(t, x)
  <2>1. Append(t, x) \in Seq(Int)
    OBVIOUS
  <2> QED BY <2>1
<1>1. PICK l \in Nat : l = Len(t) /\ u = Append(t, x)
  BY <1>0
<1>2. /\ Len(u) = l + 1 /\ u[l + 1] = x
      /\ \A n \in 1..l : u[n] = t[n] /\ t[n] \in Int /\ (Rises(u, n) <=> Rises(t, n))
      /\ Rises(u, l + 1) <=> \A m \in 1..l : t[m] < x
      /\ \A n : Rises(u, n) => n \in 1..l \/ n = l + 1
  <2>1. Len(u) = l + 1 /\ u[l + 1] = x
    BY <1>1, RungsKept
  <2>2. \A n \in 1..l : u[n] = t[n] /\ t[n] \in Int /\ (Rises(u, n) <=> Rises(t, n))
    BY <1>1, RungsKept, ZenonT(60)
  <2>3. Rises(u, l + 1) <=> \A m \in 1..l : t[m] < x
    BY <1>1, RungsKept
  <2>4. \A n : Rises(u, n) => n \in 1..l \/ n = l + 1
    BY <1>1, RungsKept
  <2> QED BY ONLY <2>1, <2>2, <2>3, <2>4
<1>3. PICK r \in 1..l : Rises(t, r) /\ t[r] = p
  BY <1>1 DEF Top
<1>4. \A m \in 1..l : t[m] <= p
  BY <1>1 DEF Top
<1>5. Rises(u, l + 1)
  BY <1>2, <1>4
<1>6. Top(u, x)
  <2>1. \A m \in 1..l + 1 : m \in 1..l \/ m = l + 1
    OBVIOUS
  <2>2. \A m \in 1..l + 1 : u[m] <= x
    BY <1>2, <1>4, <2>1
  <2>3. l + 1 \in 1..l + 1
    OBVIOUS
  <2> QED BY <1>2, <1>5, <2>2, <2>3 DEF Top
<1>7. ASSUME NEW k \in Nat, r < k, k < l + 1 PROVE ~Rises(u, k)
  <2>1. k \in 1..l /\ r \in 1..k-1
    BY <1>7
  <2>2. t[k] <= t[r] /\ t[k] \in Int /\ t[r] \in Int
    BY <1>2, <1>3, <1>4, <2>1
  <2>3. ~Rises(t, k)
    BY <2>1, <2>2 DEF Rises
  <2> QED BY <1>2, <2>1, <2>3
<1>8. ASSUME NEW n PROVE Climbs(u, n, l + 1) <=> n = r
  <2>1. Climbs(u, r, l + 1)
    BY <1>2, <1>3, <1>5, <1>7 DEF Climbs
  <2>2. ASSUME Climbs(u, n, l + 1), n # r PROVE FALSE
    <3>1. n \in 1..l
      <4>1. n < l + 1 /\ Rises(u, n)
        BY <2>2 DEF Climbs
      <4> QED BY <1>2, <4>1
    <3>2. n < r \/ r < n
      BY <2>2, <3>1
    <3>3. CASE n < r
      BY <1>2, <1>3, <2>2, <3>3 DEF Climbs
    <3>4. CASE r < n
      BY <1>7, <2>2, <3>1, <3>4 DEF Climbs
    <3> QED BY <3>2, <3>3, <3>4
  <2> QED BY <2>1, <2>2
<1>9. \A n, m \in 1..l : Climbs(u, n, m) <=> Climbs(t, n, m)
  BY <1>1, ClimbsKept
<1>10. ASSUME NEW n \in 1..l + 1, NEW m \in 1..l + 1, Climbs(u, n, m)
       PROVE  n \in 1..l /\ (m \in 1..l \/ m = l + 1)
  <2>1. n < m
    BY <1>10 DEF Climbs
  <2> QED BY <2>1
<1>11. ASSUME NEW h \in [from : Int, to : Int]
       PROVE  (\E n, m \in 1..l + 1 : Climbs(u, n, m) /\ h.from = u[n] /\ h.to = u[m])
                <=> \/ \E n, m \in 1..l : Climbs(t, n, m) /\ h.from = t[n] /\ h.to = t[m]
                    \/ h = [from |-> p, to |-> x]
  <2>1. h = [from |-> p, to |-> x] <=> h.from = u[r] /\ h.to = u[l + 1]
    BY <1>2, <1>3
  <2>2. l + 1 \in 1..l + 1 /\ \A n \in 1..l : n \in 1..l + 1
    OBVIOUS
  <2>3. ASSUME NEW n \in 1..l + 1, NEW m \in 1..l + 1,
               Climbs(u, n, m), h.from = u[n], h.to = u[m]
        PROVE  \/ \E i, j \in 1..l : Climbs(t, i, j) /\ h.from = t[i] /\ h.to = t[j]
               \/ h = [from |-> p, to |-> x]
    BY <1>2, <1>8, <1>9, <1>10, <2>1, <2>3
  <2>4. ASSUME NEW n \in 1..l, NEW m \in 1..l, Climbs(t, n, m), h.from = t[n], h.to = t[m]
        PROVE  \E i, j \in 1..l + 1 : Climbs(u, i, j) /\ h.from = u[i] /\ h.to = u[j]
    BY <1>2, <1>9, <2>2, <2>4
  <2>5. ASSUME h = [from |-> p, to |-> x]
        PROVE  \E i, j \in 1..l + 1 : Climbs(u, i, j) /\ h.from = u[i] /\ h.to = u[j]
    BY <1>3, <1>8, <2>1, <2>2, <2>5
  <2> QED BY <2>3, <2>4, <2>5
<1>12. [from |-> p, to |-> x] \in [from : Int, to : Int] /\ Extent([from |-> p, to |-> x]) = x - p
  BY DEF Extent
<1>13. ASSUME NEW h
       PROVE  h \in Wide(u, w) <=> \/ h \in Wide(t, w)
                                   \/ x - p > w /\ h = [from |-> p, to |-> x]
  <2> DEFINE U(g) == \E n, m \in 1..l + 1 : Climbs(u, n, m) /\ g.from = u[n] /\ g.to = u[m]
             V(g) == \E n, m \in 1..l : Climbs(t, n, m) /\ g.from = t[n] /\ g.to = t[m]
  <2>1. Wide(u, w) = {g \in [from : Int, to : Int] : Extent(g) > w /\ U(g)}
    BY <1>2 DEF Wide
  <2>2. Wide(t, w) = {g \in [from : Int, to : Int] : Extent(g) > w /\ V(g)}
    BY <1>1 DEF Wide
  <2>3. h \in [from : Int, to : Int] => (U(h) <=> V(h) \/ h = [from |-> p, to |-> x])
    BY <1>11
  <2> HIDE DEF U, V
  <2> QED BY <1>12, <2>1, <2>2, <2>3
<1>14. Wide(u, w) = IF x - p > w THEN Wide(t, w) \cup {[from |-> p, to |-> x]} ELSE Wide(t, w)
  BY <1>13
<1> QED BY <1>1, <1>6, <1>14

\* A single instant makes no hole.
LEMMA FirstIsNoHole ==
  ASSUME NEW x \in Int, NEW w
  PROVE  Wide(Append(<<>>, x), w) = {} /\ Top(Append(<<>>, x), x)
<1>1. PICK u \in Seq(Int) : u = Append(<<>>, x)
  <2>1. Append(<<>>, x) \in Seq(Int)
    OBVIOUS
  <2> QED BY <2>1
<1>2. Len(u) = 1 /\ u[1] = x
  BY <1>1
<1>3. Rises(u, 1) /\ \A n, m \in 1..1 : ~Climbs(u, n, m)
  BY <1>2 DEF Rises, Climbs
<1>4. Wide(u, w) = {}
  BY <1>2, <1>3 DEF Wide
<1>5. Top(u, x)
  BY <1>2, <1>3 DEF Top
<1> QED BY <1>1, <1>4, <1>5

-----------------------------------------------------------------------------
(* The list of the gaps. *)

\* From one instant to a later one.
Spans == {g \in [from : Int, to : Int] : g.from < g.to}

\* The lengths of spans are whole numbers of seconds.
LEMMA SecondsTyped ==
  \A g \in Spans : Extent(g) \in Nat /\ Seconds(g) \in Nat
<1> TAKE g \in Spans
<1>1. Extent(g) \in Nat
  BY DEF Spans, Extent
<1> QED BY <1>1, WholeSecondsIs DEF Seconds

\* The gaps of a list.
ListedGaps(gaps) == {gaps[n] : n \in 1..Len(gaps)}

\* The list is in order of time and holds the largest of the holes, of which it
\* knows the number.
Keeps(gaps, n, holes) ==
  /\ gaps \in Seq(Spans)
  /\ holes \subseteq Spans /\ IsFiniteSet(holes) /\ n = Cardinality(holes)
  /\ ListedGaps(gaps) \subseteq holes
  /\ Len(gaps) = Less(MaxGaps, n)
  /\ \A i, j \in 1..Len(gaps) : i < j => gaps[i].to <= gaps[j].from
  /\ \A g \in ListedGaps(gaps), h \in holes \ ListedGaps(gaps) : Seconds(g) >= Seconds(h)

\* The parts of which Keeps is made.
LEMMA KeepsIf ==
  ASSUME NEW gaps \in Seq(Spans), NEW holes, NEW n, NEW l \in Nat, Len(gaps) = l,
         holes \subseteq Spans, IsFiniteSet(holes), Cardinality(holes) = n,
         ListedGaps(gaps) \subseteq holes, l = Less(MaxGaps, n),
         \A i, j \in 1..l : i < j => gaps[i].to <= gaps[j].from,
         \A g \in ListedGaps(gaps), h \in holes \ ListedGaps(gaps) : Seconds(g) >= Seconds(h)
  PROVE  Keeps(gaps, n, holes)
BY DEF Keeps

\* What is in order of time is listed once.
LEMMA ListedOnce ==
  ASSUME NEW gaps \in Seq(Spans),
         \A i, j \in 1..Len(gaps) : i < j => gaps[i].to <= gaps[j].from
  PROVE  /\ IsFiniteSet(ListedGaps(gaps)) /\ Cardinality(ListedGaps(gaps)) = Len(gaps)
         /\ \A i, j \in 1..Len(gaps) : gaps[i] = gaps[j] => i = j
<1> DEFINE L == ListedGaps(gaps)
<1>1. PICK l \in Nat : l = Len(gaps)
  OBVIOUS
<1>2. \A i \in 1..l : gaps[i] \in Spans /\ gaps[i].from \in Int /\ gaps[i].to \in Int
                      /\ gaps[i].from < gaps[i].to
  BY <1>1 DEF Spans
<1>3. \A i, j \in 1..l : gaps[i] = gaps[j] => i = j
  <2> SUFFICES ASSUME NEW i \in 1..l, NEW j \in 1..l, gaps[i] = gaps[j], i # j PROVE FALSE
    OBVIOUS
  <2>1. i < j \/ j < i
    OBVIOUS
  <2> QED BY <1>1, <1>2, <2>1
<1> DEFINE f == [i \in 1..l |-> gaps[i]]
<1>4. f \in Bijection(1..l, L)
  <2>1. f \in [1..l -> L] /\ \A x \in L : \E i \in 1..l : f[i] = x
    BY <1>1 DEF ListedGaps
  <2>2. \A i, j \in 1..l : f[i] = f[j] => i = j
    BY <1>3
  <2> QED BY <2>1, <2>2 DEF Bijection, Injection, Surjection, IsInjective
<1> HIDE DEF f, L
<1>5. IsFiniteSet(1..l) /\ Cardinality(1..l) = IF 1 > l THEN 0 ELSE l - 1 + 1
  BY FS_Interval
<1>6. Cardinality(1..l) = l
  BY <1>5
<1>7. IsFiniteSet(L) /\ Cardinality(L) = l
  BY <1>4, <1>5, <1>6, FS_Bijection DEF ExistsBijection
<1> QED BY <1>1, <1>3, <1>7 DEF L

\* A hole after all others is listed, instead of the smallest if need be, or
\* is as small as all that are.
LEMMA Pushed ==
  ASSUME NEW gaps, NEW n, NEW holes, Keeps(gaps, n, holes),
         NEW g \in Spans, \A h \in holes : h.to <= g.from
  PROVE  Keeps(PushGap(gaps, g), n + 1, holes \cup {g})
<1> DEFINE L == ListedGaps(gaps)
           H == holes \cup {g}
           new == PushGap(gaps, g)
<1>1. /\ gaps \in Seq(Spans)
      /\ holes \subseteq Spans /\ IsFiniteSet(holes) /\ n = Cardinality(holes)
      /\ L \subseteq holes /\ Len(gaps) = Less(MaxGaps, n)
      /\ \A i, j \in 1..Len(gaps) : i < j => gaps[i].to <= gaps[j].from
      /\ \A x \in L, h \in holes \ L : Seconds(x) >= Seconds(h)
  BY DEF Keeps
<1>2. PICK l \in Nat, top \in Nat : l = Len(gaps) /\ top = MaxGaps /\ top > 0
  BY <1>1, DigestAssumption
<1>3. n \in Nat
  BY <1>1, FS_CardinalityType
<1>4. \A i \in 1..l : gaps[i] \in L /\ gaps[i] \in Spans
  BY <1>1, <1>2 DEF ListedGaps
<1>5. \A x \in Spans : /\ x.from \in Int /\ x.to \in Int /\ x.from < x.to
                       /\ Seconds(x) \in Nat
  BY SecondsTyped DEF Spans
<1>6. g \notin holes
  BY <1>1, <1>5
<1>7. /\ H \subseteq Spans /\ IsFiniteSet(H) /\ Cardinality(H) = n + 1
  BY <1>1, <1>3, <1>6, FS_AddElement
<1>8. IsFiniteSet(L) /\ Cardinality(L) = l
  BY <1>1, <1>2, ListedOnce
<1> HIDE DEF H
<1>9. CASE l < top
  <2>1. new = Append(gaps, g)
    BY <1>2, <1>9 DEF PushGap
  <2>2. l = n
    BY <1>1, <1>2, <1>3, <1>9 DEF Less
  <2>3. L = holes
    <3> HIDE DEF L
    <3> QED BY <1>1, <1>8, <2>2, FS_Subset
  <2>4. /\ new \in Seq(Spans) /\ Len(new) = l + 1
        /\ \A i \in 1..l + 1 : new[i] = IF i <= l THEN gaps[i] ELSE g
    BY <1>1, <1>2, <2>1
  <2> HIDE DEF new
  <2>5. ListedGaps(new) = H
    <3>1. ASSUME NEW i \in 1..l + 1 PROVE new[i] \in H
      <4>1. i \in 1..l \/ ~(i <= l)
        OBVIOUS
      <4> QED BY <1>4, <2>3, <2>4, <4>1 DEF H
    <3>2. ASSUME NEW x \in H PROVE \E i \in 1..l + 1 : new[i] = x
      <4>1. x \in L \/ x = g
        BY <2>3 DEF H
      <4>2. CASE x = g
        <5>1. l + 1 \in 1..l + 1 /\ ~(l + 1 <= l)
          OBVIOUS
        <5> QED BY <2>4, <4>2, <5>1
      <4>3. CASE x \in L
        <5>1. PICK i \in 1..l : gaps[i] = x
          BY <1>2, <4>3 DEF ListedGaps
        <5>2. i \in 1..l + 1 /\ i <= l
          OBVIOUS
        <5> QED BY <2>4, <5>1, <5>2
      <4> QED BY <4>1, <4>2, <4>3
    <3> QED BY <2>4, <3>1, <3>2 DEF ListedGaps
  <2>6. Len(new) = Less(MaxGaps, n + 1)
    BY <1>2, <1>9, <2>2, <2>4 DEF Less
  <2>7. ASSUME NEW i \in 1..l + 1, NEW j \in 1..l + 1, i < j PROVE new[i].to <= new[j].from
    <3>1. i \in 1..l /\ (j \in 1..l \/ ~(j <= l))
      BY <2>7
    <3>2. CASE j \in 1..l
      BY <1>1, <1>2, <2>4, <2>7, <3>1, <3>2
    <3>3. CASE ~(j <= l)
      <4>1. new[j] = g /\ new[i] = gaps[i]
        BY <2>4, <3>1, <3>3
      <4> QED BY <1>1, <1>4, <3>1, <4>1
    <3> QED BY <3>1, <3>2, <3>3
  <2>8. /\ ListedGaps(new) \subseteq H
        /\ \A x \in ListedGaps(new), h \in H \ ListedGaps(new) : Seconds(x) >= Seconds(h)
    BY <2>5
  <2>9. PICK k \in Nat : k = l + 1
    OBVIOUS
  <2>10. Keeps(new, n + 1, H)
    BY <1>7, <2>4, <2>6, <2>7, <2>8, <2>9, KeepsIf
  <2> QED BY <2>10 DEF new, H
<1>10. CASE ~(l < top)
  <2>1. l = top /\ top <= n
    BY <1>1, <1>2, <1>3, <1>10 DEF Less
  <2>2. PICK s \in 1..l : /\ s = Smallest(gaps)
                          /\ \A i \in 1..l \ {s} : Smaller(gaps, s, i)
    <3>1. Gaps(gaps, Spans) /\ gaps # <<>>
      BY <1>1, <1>2, <1>5, <2>1 DEF Gaps
    <3> QED BY <1>2, <3>1, SmallestIs
  <2>3. \A x \in L : Seconds(gaps[s]) <= Seconds(x)
    <3>1. ASSUME NEW i \in 1..l PROVE Seconds(gaps[s]) <= Seconds(gaps[i])
      <4>1. Seconds(gaps[s]) \in Nat /\ Seconds(gaps[i]) \in Nat
        BY <1>4, <1>5
      <4>2. CASE i = s
        BY <4>1, <4>2
      <4>3. CASE i # s
        <5>1. Smaller(gaps, s, i)
          BY <2>2, <4>3
        <5> QED BY <4>1, <5>1 DEF Smaller
      <4> QED BY <4>2, <4>3
    <3> QED BY <1>2, <3>1 DEF ListedGaps
  <2>4. Less(MaxGaps, n + 1) = l
    BY <1>2, <1>3, <2>1 DEF Less
  <2>5. CASE Seconds(g) > Seconds(gaps[s])
    <3> DEFINE left == RemoveAt(gaps, s)
    <3>1. new = Append(left, g)
      BY <1>2, <2>1, <2>2, <2>5 DEF PushGap
    <3>2. PICK k \in Nat : k + 1 = l
      BY <2>2
    <3>3. /\ left \in Seq(Spans) /\ Len(left) = k
          /\ \A i \in 1..k : left[i] = IF i < s THEN gaps[i] ELSE gaps[i+1]
      <4>1. s \in 1..Len(gaps)
        BY <1>2
      <4>2. /\ left \in Seq(Spans) /\ Len(left) = Len(gaps) - 1
            /\ \A i \in 1..Len(gaps)-1 : left[i] = IF i < s THEN gaps[i] ELSE gaps[i+1]
        BY <1>1, <4>1, RemovedAt
      <4>3. Len(gaps) - 1 = k
        BY <1>2, <3>2
      <4> HIDE DEF left
      <4> QED BY <4>2, <4>3
    <3> HIDE DEF left
    <3>4. /\ new \in Seq(Spans) /\ Len(new) = l
          /\ \A i \in 1..k : new[i] = IF i < s THEN gaps[i] ELSE gaps[i+1]
          /\ new[l] = g
      BY <3>1, <3>2, <3>3
    <3> HIDE DEF new
    <3>5. ListedGaps(new) = (L \ {gaps[s]}) \cup {g}
      <4>1. ASSUME NEW i \in 1..k PROVE new[i] \in L \ {gaps[s]}
        <5>1. PICK j \in 1..l : new[i] = gaps[j] /\ j # s
          <6>1. i \in 1..l /\ i + 1 \in 1..l
            BY <3>2
          <6>2. CASE i < s
            BY <3>4, <6>1, <6>2
          <6>3. CASE ~(i < s)
            <7>1. i + 1 # s /\ new[i] = gaps[i + 1]
              BY <3>4, <6>3
            <7> QED BY <6>1, <7>1
          <6> QED BY <6>2, <6>3
        <5>2. gaps[j] # gaps[s]
          BY <1>1, <1>2, <5>1, ListedOnce
        <5> QED BY <1>4, <5>1, <5>2
      <4>2. ASSUME NEW x \in L, x # gaps[s] PROVE \E i \in 1..l : new[i] = x
        <5>1. PICK j \in 1..l : gaps[j] = x /\ j # s
          BY <1>2, <4>2 DEF ListedGaps
        <5>2. CASE j < s
          <6>1. j \in 1..k
            BY <3>2, <5>2
          <6> QED BY <3>4, <5>1, <5>2, <6>1
        <5>3. CASE s < j
          <6>1. PICK i \in 1..k : i + 1 = j /\ ~(i < s)
            <7>1. j - 1 \in 1..k /\ (j - 1) + 1 = j /\ ~(j - 1 < s)
              BY <3>2, <5>3
            <7> QED BY <7>1
          <6>2. i \in 1..l /\ new[i] = gaps[i + 1]
            BY <3>2, <3>4, <6>1
          <6> QED BY <5>1, <6>1, <6>2
        <5> QED BY <5>1, <5>2, <5>3
      <4>3. l \in 1..l /\ \A i \in 1..l : i \in 1..k \/ i = l
        BY <3>2
      <4>4. ASSUME NEW i \in 1..l PROVE new[i] \in (L \ {gaps[s]}) \cup {g}
        BY <3>4, <4>1, <4>3
      <4>5. ASSUME NEW x \in (L \ {gaps[s]}) \cup {g} PROVE \E i \in 1..l : new[i] = x
        BY <3>4, <4>2, <4>3
      <4>6. ListedGaps(new) = {new[i] : i \in 1..l}
        BY <3>4 DEF ListedGaps
      <4> HIDE DEF L
      <4> QED BY ONLY <4>4, <4>5, <4>6
    <3>6. ListedGaps(new) \subseteq H
      BY <1>1, <3>5 DEF H
    <3>7. ASSUME NEW i \in 1..l, NEW j \in 1..l, i < j PROVE new[i].to <= new[j].from
      <4>1. i \in 1..k /\ (j \in 1..k \/ j = l)
        BY <3>2, <3>7
      <4>2. PICK x \in 1..l : new[i] = gaps[x] /\ x = IF i < s THEN i ELSE i + 1
        <5>1. i \in 1..l /\ i + 1 \in 1..l
          BY <3>2, <4>1
        <5> QED BY <3>4, <4>1, <5>1
      <4>3. CASE j = l
        BY <1>1, <1>4, <3>4, <4>2, <4>3
      <4>4. CASE j \in 1..k
        <5>1. PICK y \in 1..l : new[j] = gaps[y] /\ y = IF j < s THEN j ELSE j + 1
          <6>1. j \in 1..l /\ j + 1 \in 1..l
            BY <3>2, <4>4
          <6> QED BY <3>4, <4>4, <6>1
        <5>2. x < y
          BY <3>7, <4>2, <5>1
        <5> QED BY <1>1, <1>2, <4>2, <5>1, <5>2
      <4> QED BY <4>1, <4>3, <4>4
    <3>8. ASSUME NEW x \in ListedGaps(new), NEW h \in H \ ListedGaps(new)
          PROVE  Seconds(x) >= Seconds(h)
      <4>1. h = gaps[s] \/ h \in holes \ L
        BY <3>5 DEF H
      <4>2. x = g \/ x \in L
        BY <3>5
      <4>3. gaps[s] \in L /\ Seconds(gaps[s]) \in Nat /\ Seconds(g) \in Nat
        BY <1>4, <1>5
      <4>4. Seconds(h) \in Nat /\ Seconds(x) \in Nat
        BY <1>1, <1>5, <4>1, <4>2, <4>3
      <4>5. Seconds(h) <= Seconds(gaps[s])
        BY <1>1, <4>1, <4>3, <4>4
      <4>6. Seconds(gaps[s]) <= Seconds(x)
        BY <2>3, <2>5, <4>2, <4>3
      <4> QED BY ONLY <4>3, <4>4, <4>5, <4>6
    <3>9. Keeps(new, n + 1, H)
      BY <1>7, <2>4, <3>4, <3>6, <3>7, <3>8, KeepsIf
    <3> QED BY <3>9 DEF new, H
  <2>6. CASE ~(Seconds(g) > Seconds(gaps[s]))
    <3>1. new = gaps
      BY <1>2, <2>1, <2>2, <2>6 DEF PushGap
    <3>2. L \subseteq H
      BY <1>1 DEF H
    <3>3. ASSUME NEW x \in L, NEW h \in H \ L PROVE Seconds(x) >= Seconds(h)
      <4>1. h = g \/ h \in holes \ L
        BY DEF H
      <4>2. Seconds(g) \in Nat /\ Seconds(x) \in Nat /\ Seconds(gaps[s]) \in Nat
        BY <1>1, <1>4, <1>5
      <4>3. CASE h = g
        BY <2>3, <2>6, <4>2, <4>3
      <4>4. CASE h \in holes \ L
        BY <1>1, <4>4
      <4> QED BY <4>1, <4>3, <4>4
    <3>4. Keeps(gaps, n + 1, H)
      <4> HIDE DEF L
      <4>1. \A i, j \in 1..l : i < j => gaps[i].to <= gaps[j].from
        BY <1>1, <1>2
      <4> QED BY <1>1, <1>2, <1>7, <2>4, <3>2, <3>3, <4>1, KeepsIf DEF L
    <3> QED BY <3>1, <3>4 DEF H
  <2> QED BY <2>5, <2>6
<1> QED BY <1>9, <1>10 DEF H

-----------------------------------------------------------------------------
(* What the aggregator holds after some samples. *)

\* What an aggregator holds.
Aggregates ==
  [samples : Nat, first : Int \cup {NoInstant}, last : Int \cup {NoInstant},
   prev : Int \cup {NoInstant}, gaps : Seq(Spans), gapsTotal : Nat, rows : [Series -> RowStates]]

\* Of samples at the instants t.
Summary(a, t, w) ==
  /\ a \in Aggregates
  /\ a.samples = Len(t)
  /\ t = <<>> => a.prev = NoInstant
  /\ t # <<>> => a.last = t[Len(t)] /\ a.prev \in Int /\ Top(t, a.prev)
  /\ Keeps(a.gaps, a.gapsTotal, Wide(t, w))
  /\ \A h \in Wide(t, w) : h.to <= a.prev

\* Before the first sample there is nothing.
LEMMA NothingSummed ==
  ASSUME NEW w
  PROVE  Summary(NewAggregator, <<>>, w) /\ Wide(<<>>, w) = {}
<1>1. Wide(<<>>, w) = {}
  <2>1. Len(<<>>) = 0
    OBVIOUS
  <2> QED BY <2>1 DEF Wide
<1>2. NewAggregator \in Aggregates
  <2>1. <<>> \in Seq(Spans)
    OBVIOUS
  <2>2. [s \in Series |-> NewRow] \in [Series -> RowStates]
    BY RowFresh
  <2> QED BY <2>1, <2>2 DEF NewAggregator, Aggregates
<1>3. Keeps(<<>>, 0, {})
  <2>1. <<>> \in Seq(Spans) /\ Len(<<>>) = 0 /\ ListedGaps(<<>>) = {}
    BY DEF ListedGaps
  <2>2. Less(MaxGaps, 0) = 0
    BY DigestAssumption DEF Less
  <2> QED BY <2>1, <2>2, FS_EmptySet DEF Keeps
<1> QED BY <1>1, <1>2, <1>3 DEF Summary, NewAggregator

\* The rows after one more sample.
LEMMA RowsObserved ==
  ASSUME NEW rows \in [Series -> RowStates], NEW sample \in Seq(Entry), NEW after,
         after = [s \in Series |-> IF InSample(sample, s) THEN FoldRow(rows[s], ReadingOf(sample, s).value)
                                                          ELSE rows[s]]
  PROVE  /\ after \in [Series -> RowStates]
         /\ \A s \in Series :
              /\ after[s].inViolation = rows[s].inViolation
              /\ after[s].samples > 0 <=> rows[s].samples > 0 \/ InSample(sample, s)
<1> SUFFICES ASSUME NEW s \in Series
             PROVE  /\ after[s] \in RowStates
                    /\ after[s].inViolation = rows[s].inViolation
                    /\ after[s].samples > 0 <=> rows[s].samples > 0 \/ InSample(sample, s)
  OBVIOUS
<1>1. rows[s] \in RowStates /\ rows[s].samples \in Nat
  BY DEF RowStates
<1>2. CASE InSample(sample, s)
  <2>1. ReadingOf(sample, s).value \in Values
    BY <1>2, ReadingTyped, ReadingsAssumption DEF Metric
  <2>2. after[s] = FoldRow(rows[s], ReadingOf(sample, s).value)
    BY <1>2
  <2>3. /\ after[s] \in RowStates
        /\ after[s].samples = rows[s].samples + 1
        /\ after[s].inViolation = rows[s].inViolation
    BY <1>1, <2>1, <2>2, RowFolded
  <2> QED BY ONLY <1>1, <1>2, <2>3
<1>3. CASE ~InSample(sample, s)
  <2>1. after[s] = rows[s]
    BY <1>3
  <2> QED BY <1>1, <1>3, <2>1
<1> QED BY <1>2, <1>3

\* A sample at instant x is added (Aggregator::observe).
LEMMA Observed ==
  ASSUME NEW a, NEW t \in Seq(Int), NEW i \in Nat, NEW w, w = i * GapMultiplier * Second, Summary(a, t, w),
         NEW x \in Int, NEW sample \in Seq(Entry), NEW b, b = Observe(a, i, x, sample)
  PROVE  /\ Summary(b, Append(t, x), w)
         /\ \A s \in Series : /\ b.rows[s].inViolation = a.rows[s].inViolation
                              /\ s \in Seen(b) <=> s \in Seen(a) \/ InSample(sample, s)
<1> DEFINE rows == [s \in Series |-> IF InSample(sample, s) THEN FoldRow(a.rows[s], ReadingOf(sample, s).value)
                                                            ELSE a.rows[s]]
           gap == IsGap(a, i, x)
           first == IF a.first = NoInstant THEN x ELSE a.first
           gaps == IF gap THEN PushGap(a.gaps, [from |-> a.prev, to |-> x]) ELSE a.gaps
           n == IF gap THEN a.gapsTotal + 1 ELSE a.gapsTotal
           u == Append(t, x)
<1>1. /\ a \in Aggregates /\ a.samples = Len(t)
      /\ t = <<>> => a.prev = NoInstant
      /\ t # <<>> => a.prev \in Int /\ Top(t, a.prev)
      /\ Keeps(a.gaps, a.gapsTotal, Wide(t, w))
      /\ \A h \in Wide(t, w) : h.to <= a.prev
  BY DEF Summary
<1>2. b = [samples |-> a.samples + 1, first |-> first, last |-> x, prev |-> Baseline(a, x),
           gaps |-> gaps, gapsTotal |-> n, rows |-> rows]
  BY <1>1 DEF Observe, Aggregates
<1>3. w \in Nat
  <2>1. PICK m \in Nat : m = i * GapMultiplier
    BY DigestAssumption
  <2> QED BY <2>1, SecondAssumption
<1>4. rows \in [Series -> RowStates] /\ \A s \in Series :
        /\ rows[s].inViolation = a.rows[s].inViolation
        /\ rows[s].samples > 0 <=> a.rows[s].samples > 0 \/ InSample(sample, s)
  <2>1. a.rows \in [Series -> RowStates]
    BY <1>1 DEF Aggregates
  <2> QED BY <2>1, RowsObserved
<1>5. u \in Seq(Int) /\ u # <<>> /\ Len(u) = Len(t) + 1 /\ u[Len(u)] = x /\ Len(t) \in Nat
  <2>1. u \in Seq(Int) /\ Len(u) = Len(t) + 1 /\ u[Len(t) + 1] = x /\ Len(t) \in Nat
    OBVIOUS
  <2> HIDE DEF u
  <2>2. u # <<>>
    BY <2>1
  <2> QED BY <2>1, <2>2
<1>6. /\ Baseline(a, x) \in Int /\ Top(u, Baseline(a, x))
      /\ Keeps(gaps, n, Wide(u, w))
      /\ \A h \in Wide(u, w) : h.to <= Baseline(a, x)
  <2>1. CASE t = <<>>
    <3>1. Baseline(a, x) = x /\ ~gap
      BY <1>1, <2>1 DEF Baseline, IsGap
    <3>2. Wide(u, w) = {} /\ Top(u, x)
      BY <2>1, FirstIsNoHole
    <3>3. Wide(t, w) = {}
      BY <2>1, NothingSummed
    <3> QED BY <1>1, <3>1, <3>2, <3>3
  <2>2. CASE t # <<>> /\ x <= a.prev
    <3>1. a.prev \in Int /\ a.prev # NoInstant /\ Top(t, a.prev)
      BY <1>1, <2>2, DigestAssumption
    <3>2. Baseline(a, x) = a.prev /\ ~gap
      BY <1>3, <2>2, <3>1 DEF Baseline, IsGap
    <3>3. Wide(u, w) = Wide(t, w) /\ Top(u, a.prev)
      BY <2>2, <3>1, LateIsNoHole
    <3> QED BY <1>1, <3>1, <3>2, <3>3
  <2>3. CASE t # <<>> /\ ~(x <= a.prev)
    <3>1. PICK p \in Int : p = a.prev /\ p # NoInstant /\ Top(t, p) /\ x > p
      <4>1. a.prev \in Int
        BY <1>1, <2>3
      <4> QED BY <1>1, <2>3, <4>1, DigestAssumption
    <3>2. Baseline(a, x) = x
      BY <3>1 DEF Baseline
    <3>3. gap <=> x - p > w
      BY <3>1 DEF IsGap
    <3> DEFINE g == [from |-> p, to |-> x]
    <3>4. /\ Top(u, x)
          /\ Wide(u, w) = IF x - p > w THEN Wide(t, w) \cup {g} ELSE Wide(t, w)
      BY <3>1, LatestIsStep, ZenonT(60)
    <3>5. g \in Spans /\ g.from = p /\ g.to = x
      BY <3>1 DEF Spans
    <3>6. \A h \in Wide(t, w) : h.to <= g.from /\ h.to <= x
      <4>1. \A h \in Wide(t, w) : h.to \in Int
        BY DEF Wide
      <4> QED BY <1>1, <3>1, <3>5, <4>1
    <3> HIDE DEF g
    <3>7. CASE x - p > w
      <4>1. gaps = PushGap(a.gaps, g) /\ n = a.gapsTotal + 1
        BY <3>1, <3>3, <3>7 DEF g
      <4>2. Keeps(gaps, n, Wide(t, w) \cup {g})
        <5> HIDE DEF gaps, n
        <5> QED BY <1>1, <3>5, <3>6, <4>1, Pushed
      <4>3. Wide(u, w) = Wide(t, w) \cup {g}
        BY <3>4, <3>7
      <4> HIDE DEF gaps, n, u
      <4>4. \A h \in Wide(u, w) : h.to <= x
        BY <3>5, <3>6, <4>3
      <4> QED BY <3>2, <3>4, <4>2, <4>3, <4>4
    <3>8. CASE ~(x - p > w)
      <4>1. gaps = a.gaps /\ n = a.gapsTotal /\ Wide(u, w) = Wide(t, w)
        BY <3>3, <3>4, <3>8
      <4> HIDE DEF gaps, n, u
      <4> QED BY <1>1, <3>2, <3>4, <3>6, <4>1
    <3> QED BY <3>7, <3>8
  <2> QED BY <2>1, <2>2, <2>3
<1> HIDE DEF rows, gap, first, gaps, n, u
<1>7. gaps \in Seq(Spans) /\ n \in Nat
  BY <1>6, FS_CardinalityType DEF Keeps
<1>8. first \in Int \cup {NoInstant}
  BY <1>1 DEF first, Aggregates
<1>9. a.samples + 1 = Len(u) /\ Len(u) \in Nat
  BY <1>1, <1>5
<1>10. b \in Aggregates
  BY <1>2, <1>4, <1>6, <1>7, <1>8, <1>9 DEF Aggregates
<1>11. Summary(b, u, w)
  BY <1>2, <1>5, <1>6, <1>9, <1>10 DEF Summary
<1>12. \A s \in Series : /\ b.rows[s].inViolation = a.rows[s].inViolation
                         /\ s \in Seen(b) <=> s \in Seen(a) \/ InSample(sample, s)
  BY <1>2, <1>4 DEF Seen
<1> QED BY <1>11, <1>12 DEF u

\* Marking the series of the transitions changes nothing else
\* (mark_in_violation).
LEMMA Marked ==
  ASSUME NEW a, NEW t, NEW w, Summary(a, t, w), NEW ts, NEW b, b = Mark(a, ts)
  PROVE  /\ Summary(b, t, w) /\ Seen(b) = Seen(a)
         /\ \A s \in Series : b.rows[s].inViolation = TRUE
              <=> a.rows[s].inViolation = TRUE \/ \E x \in ts : x.series = s
<1> DEFINE Mine(s) == [a.rows[s] EXCEPT !.inViolation = @ \/ \E x \in ts : x.series = s]
           rows == [s \in Series |-> Mine(s)]
<1>1. a \in Aggregates
  BY DEF Summary
<1>2. b = [a EXCEPT !.rows = rows]
  BY DEF Mark
<1>3. ASSUME NEW s \in Series
      PROVE  /\ Mine(s) \in RowStates /\ Mine(s).samples = a.rows[s].samples
             /\ Mine(s).inViolation = TRUE <=> a.rows[s].inViolation = TRUE \/ \E x \in ts : x.series = s
  <2>1. a.rows[s] \in RowStates
    BY <1>1 DEF Aggregates
  <2>2. PICK v \in BOOLEAN : v <=> a.rows[s].inViolation = TRUE \/ \E x \in ts : x.series = s
    OBVIOUS
  <2>3. a.rows[s].inViolation \in BOOLEAN
    BY <2>1 DEF RowStates
  <2>4. (a.rows[s].inViolation \/ \E x \in ts : x.series = s) = v
    BY <2>2, <2>3
  <2>5. Mine(s) = [a.rows[s] EXCEPT !.inViolation = v]
    BY <2>4
  <2> HIDE DEF Mine
  <2> QED BY <2>1, <2>2, <2>5 DEF RowStates
<1> HIDE DEF Mine
<1>4. rows \in [Series -> RowStates]
  BY <1>3
<1>5. /\ b \in Aggregates /\ b.rows = rows
      /\ b.samples = a.samples /\ b.last = a.last /\ b.prev = a.prev
      /\ b.gaps = a.gaps /\ b.gapsTotal = a.gapsTotal
  <2> HIDE DEF rows
  <2> QED BY <1>1, <1>2, <1>4 DEF Aggregates
<1>6. Summary(b, t, w)
  BY <1>5 DEF Summary
<1>7. Seen(b) = Seen(a)
  BY <1>3, <1>5, ZenonT(60) DEF Seen
<1> QED BY <1>3, <1>5, <1>6, <1>7

-----------------------------------------------------------------------------
(* The transitions of a tick, in order and stamped. *)

\* A transition and the instant of its sample.
Stamped == [transition : Announcements, ts : Int]

\* The transitions of a tick with the instant of its sample.
Stamp(ordered, x) == [n \in 1..Len(ordered) |-> [transition |-> ordered[n], ts |-> x]]

\* The transitions of S, each once, with the instant x.
Stamps(stamped, S, x) ==
  /\ stamped \in Seq(Stamped)
  /\ \A n \in 1..Len(stamped) : stamped[n].transition \in S /\ stamped[n].ts = x
  /\ \A m, n \in 1..Len(stamped) : stamped[m].transition = stamped[n].transition => m = n
  /\ \A e \in S : \E n \in 1..Len(stamped) : stamped[n].transition = e

\* The transitions of S are all stamped, once.
LEMMA StampedIs ==
  ASSUME NEW S, S \subseteq Announcements, IsFiniteSet(S), NEW R, Orders(R, S), NEW x \in Int,
         NEW ordered, ordered = Sorted(S, R), NEW stamped, stamped = Stamp(ordered, x)
  PROVE  Stamps(stamped, S, x)
<1>1. PICK k \in Nat : k = Cardinality(S) /\ Lists(ordered, k, S, R)
  BY SortedIs
<1>2. /\ ordered \in [1..k -> S] /\ Len(ordered) = k
      /\ \A e \in S : \E n \in 1..k : ordered[n] = e
      /\ \A m, n \in 1..k : ordered[m] = ordered[n] => m = n
  <2>1. /\ ordered \in [1..k -> S]
        /\ \A e \in S : \E n \in 1..k : ordered[n] = e
        /\ \A m, n \in 1..k : ordered[m] = ordered[n] => m = n
    BY <1>1 DEF Lists
  <2>2. ordered \in Seq(S) /\ Len(ordered) = k
    BY <2>1
  <2> QED BY <2>1, <2>2
<1>3. \A n \in 1..k : stamped[n] = [transition |-> ordered[n], ts |-> x]
                   /\ ordered[n] \in S
                   /\ [transition |-> ordered[n], ts |-> x] \in Stamped
  BY <1>2 DEF Stamp, Stamped
<1>4. stamped \in [1..k -> Stamped]
  BY <1>2, <1>3 DEF Stamp
<1>5. stamped \in Seq(Stamped) /\ Len(stamped) = k
  BY <1>4
<1>6. /\ \A n \in 1..k : stamped[n].transition \in S /\ stamped[n].ts = x
      /\ \A m, n \in 1..k : stamped[m].transition = stamped[n].transition => m = n
      /\ \A e \in S : \E n \in 1..k : stamped[n].transition = e
  <2>1. ASSUME NEW n \in 1..k PROVE stamped[n].transition = ordered[n] /\ stamped[n].ts = x
    <3>1. stamped[n] = [transition |-> ordered[n], ts |-> x]
      BY <1>3
    <3> QED BY ONLY <3>1
  <2> QED BY <1>2, <1>3, <2>1
<1> QED BY <1>5, <1>6 DEF Stamps

\* As many of the stamped transitions pass as of the transitions.
LEMMA StampedPass ==
  ASSUME NEW stamped, NEW S, NEW x, Stamps(stamped, S, x), NEW flt, NEW a,
         NEW Q, Q = {t \in S : ViolationPasses(t, flt, a)}
  PROVE  Cardinality(Passing(stamped, flt, a)) = Cardinality(Q)
<1> DEFINE P == Passing(stamped, flt, a)
           f == [n \in P |-> stamped[n].transition]
           Ok(t) == ViolationPasses(t, flt, a)
<1>1. PICK k \in Nat :
        /\ k = Len(stamped)
        /\ \A n \in 1..k : stamped[n].transition \in S
        /\ \A m, n \in 1..k : stamped[m].transition = stamped[n].transition => m = n
        /\ \A e \in S : \E n \in 1..k : stamped[n].transition = e
  BY DEF Stamps
<1>2. P = {n \in 1..k : Ok(stamped[n].transition)} /\ Q = {t \in S : Ok(t)}
  BY <1>1 DEF Passing
<1> HIDE DEF Ok, P
<1>3. f \in [P -> Q] /\ (\A t \in Q : \E n \in P : f[n] = t) /\ \A m, n \in P : f[m] = f[n] => m = n
  <2>1. \A n \in P : n \in 1..k /\ stamped[n].transition \in Q
    BY <1>1, <1>2
  <2>2. ASSUME NEW t \in Q PROVE \E n \in P : stamped[n].transition = t
    <3>1. t \in S /\ Ok(t)
      BY <1>2
    <3>2. PICK n \in 1..k : stamped[n].transition = t
      BY <1>1, <3>1
    <3> QED BY <1>2, <3>1, <3>2
  <2>3. \A m, n \in P : stamped[m].transition = stamped[n].transition => m = n
    BY <1>1, <2>1
  <2> QED BY ONLY <2>1, <2>2, <2>3
<1>4. f \in Bijection(P, Q)
  <2> HIDE DEF f
  <2> QED BY <1>3 DEF Bijection, Injection, Surjection, IsInjective
<1>5. IsFiniteSet(P)
  <2>1. IsFiniteSet(1..k) /\ P \in SUBSET (1..k)
    BY <1>2, FS_Interval
  <2> QED BY <2>1, FS_Subset
<1> HIDE DEF f
<1>6. Cardinality(Q) = Cardinality(P)
  BY <1>4, <1>5, FS_Bijection DEF ExistsBijection
<1> QED BY <1>6 DEF P

-----------------------------------------------------------------------------
(* What a report has accumulated, and what it keeps of the transitions. *)

\* The instants of the samples a report has seen.
Times == [n \in 1..Len(seen) |-> Instant(n)]

\* The aggregator holds what those samples amount to.
Accumulated ==
  /\ interval \in Nat \ {0}
  /\ Summary(agg, Times, interval * GapMultiplier * Second)

\* The list is the newest of the transitions there were, each of a series the
\* aggregator has marked, and the count is of all that pass the filter.
Retained ==
  /\ EngineTyped /\ SourcesRest
  /\ \A k \in Keys : series[k].known => k[2] \in Seen(agg)
  /\ derived \in Seq(Stamped)
  /\ \A n \in 1..Len(derived) :
       LET s == derived[n].transition.series IN s \in Seen(agg) /\ agg.rows[s].inViolation = TRUE
  /\ kept = Newest(derived)
  /\ total = Cardinality(Passing(derived, filter, agg))

\* Only the series seen matter to what passes.
LEMMA PassesAlike ==
  ASSUME NEW t, NEW flt, NEW a, NEW b, t.series \in Seen(a) <=> t.series \in Seen(b)
  PROVE  ViolationPasses(t, flt, a) <=> ViolationPasses(t, flt, b)
BY DEF ViolationPasses

\* The transitions of a tick of a report: none without rules.
LEMMA ReportTick ==
  ASSUME EngineTyped, SourcesRest, NEW sample \in Seq(Entry),
         IF rules = <<>> THEN out' = {} /\ UNCHANGED <<series, source>> ELSE ObserveSample(sample)
  PROVE  /\ EngineTyped' /\ SourcesRest'
         /\ IsFiniteSet(out') /\ out' \subseteq Announcements
         /\ Orders({p \in out' \X out' : Precedes(sample, p[1], p[2])}, out')
         /\ \A t \in out' : \E k \in Keys :
              t.series = k[2] /\ (InSample(sample, k[2]) \/ series[k].known)
         /\ \A k \in Keys : series'[k].known => series[k].known \/ InSample(sample, k[2])
<1>1. CASE rules = <<>>
  <2>1. out' = {} /\ series' = series /\ source' = source
    BY <1>1
  <2>2. Orders({p \in out' \X out' : Precedes(sample, p[1], p[2])}, out')
    BY <2>1 DEF Orders
  <2> QED BY <2>1, <2>2, FS_EmptySet DEF EngineTyped, SourcesRest
<1>2. CASE rules # <<>>
  <2>1. ObserveSample(sample)
    BY <1>2
  <2> QED BY <2>1, TickAnnounces, TickOrders
<1> QED BY <1>1, <1>2

\* A sample goes into the digest.
LEMMA DigestedOn ==
  ASSUME Accumulated, Retained, NEW sample \in Seq(Entry), NEW x \in Int,
         Digested(sample, x), UNCHANGED <<interval, request>>,
         NEW t \in Seq(Int), t = Times, Times' = Append(t, x)
  PROVE  Accumulated' /\ Retained'
<1> DEFINE w == interval * GapMultiplier * Second
           observed == Observe(agg, interval, x, sample)
           R == {p \in out' \X out' : Precedes(sample, p[1], p[2])}
           ordered == Sorted(out', R)
           stamped == [n \in 1..Len(ordered) |-> [transition |-> ordered[n], ts |-> x]]
           new == agg'
<1>1. /\ IF rules = <<>> THEN out' = {} /\ UNCHANGED <<series, source>> ELSE ObserveSample(sample)
      /\ agg' = Mark(observed, out')
      /\ total' = total + Counted(out', observed)
      /\ kept' = Newest(kept \o stamped)
      /\ derived' = derived \o stamped
  BY DEF Digested
<1>2. /\ EngineTyped' /\ SourcesRest'
      /\ IsFiniteSet(out') /\ out' \subseteq Announcements /\ Orders(R, out')
      /\ \A o \in out' : \E k \in Keys :
           o.series = k[2] /\ (InSample(sample, k[2]) \/ series[k].known)
      /\ \A k \in Keys : series'[k].known => series[k].known \/ InSample(sample, k[2])
  BY <1>1, ReportTick DEF Retained
<1>3. /\ interval \in Nat /\ Summary(agg, t, w)
  BY DEF Accumulated
<1>4. /\ Summary(observed, Append(t, x), w)
      /\ \A s \in Series : /\ observed.rows[s].inViolation = agg.rows[s].inViolation
                           /\ s \in Seen(observed) <=> s \in Seen(agg) \/ InSample(sample, s)
  <2> HIDE DEF w
  <2> QED BY <1>3, Observed DEF w
<1>5. /\ Summary(new, Append(t, x), w) /\ Seen(new) = Seen(observed)
      /\ \A s \in Series : new.rows[s].inViolation = TRUE
           <=> observed.rows[s].inViolation = TRUE \/ \E o \in out' : o.series = s
  <2>1. PICK b : b = Mark(observed, out') /\ b = new
    BY <1>1
  <2> HIDE DEF observed, w, new
  <2>2. /\ Summary(b, Append(t, x), w) /\ Seen(b) = Seen(observed)
        /\ \A s \in Series : b.rows[s].inViolation = TRUE
             <=> observed.rows[s].inViolation = TRUE \/ \E o \in out' : o.series = s
    BY <1>4, <2>1, Marked, ZenonT(60)
  <2> QED BY <2>1, <2>2
<1>6. /\ stamped \in Seq(Stamped)
      /\ \A n \in 1..Len(stamped) : stamped[n].transition \in out' /\ stamped[n].ts = x
      /\ Cardinality(Passing(stamped, filter, new))
           = Cardinality({o \in out' : ViolationPasses(o, filter, new)})
  <2>1. PICK S, r : /\ S = out' /\ S \subseteq Announcements /\ IsFiniteSet(S)
                     /\ r = R /\ Orders(r, S)
    BY <1>2
  <2>2. PICK o : o = Sorted(S, r) /\ o = ordered
    BY <2>1
  <2>3. PICK q : q = Stamp(o, x) /\ q = stamped
    BY <2>2 DEF Stamp
  <2>4. PICK a, flt : a = new /\ flt = filter
    OBVIOUS
  <2>5. PICK Q : Q = {e \in S : ViolationPasses(e, flt, a)}
    OBVIOUS
  <2> HIDE DEF R, new, ordered, stamped
  <2>6. Stamps(q, S, x)
    BY ONLY <2>1, <2>2, <2>3, x \in Int, StampedIs
  <2>7. Cardinality(Passing(q, flt, a)) = Cardinality(Q)
    BY ONLY <2>5, <2>6, StampedPass
  <2>8. q \in Seq(Stamped) /\ \A n \in 1..Len(q) : q[n].transition \in S /\ q[n].ts = x
    BY ONLY <2>6 DEF Stamps
  <2> QED BY <2>1, <2>3, <2>4, <2>5, <2>7, <2>8
<1> HIDE DEF stamped, ordered, R, observed, w
<1>7. Accumulated'
  BY <1>3, <1>5 DEF Accumulated, w
<1>8. \A k \in Keys : k[2] \in Series
  BY DEF Keys
<1>9. \A s \in Series : s \in Seen(new) <=> s \in Seen(agg) \/ InSample(sample, s)
  BY <1>4, <1>5
<1>10. \A k \in Keys : series'[k].known => k[2] \in Seen(new)
  BY <1>2, <1>8, <1>9 DEF Retained
<1>11. stamped \in Seq(Stamped) /\ derived \in Seq(Stamped)
  BY <1>6 DEF Retained
<1>12. PICK m \in Nat, l \in Nat : m = Len(derived) /\ l = Len(stamped)
  BY <1>11
<1>13. /\ derived' \in Seq(Stamped) /\ Len(derived') = m + l
       /\ \A i \in 1..m + l : derived'[i] = IF i <= m THEN derived[i] ELSE stamped[i - m]
  <2>1. /\ derived \o stamped \in Seq(Stamped) /\ Len(derived \o stamped) = m + l
        /\ \A i \in 1..m + l : (derived \o stamped)[i] = IF i <= m THEN derived[i] ELSE stamped[i - m]
    BY ONLY <1>11, <1>12, m \in Nat, l \in Nat
  <2> QED BY <1>1, <2>1
<1>14. \A i \in 1..m : derived[i].transition.series \in Seen(agg)
                    /\ derived[i].transition.series \in Series
                    /\ agg.rows[derived[i].transition.series].inViolation = TRUE
  <2>1. \A i \in 1..m : derived[i] \in Stamped
    BY <1>11, <1>12
  <2>2. \A i \in 1..m : derived[i].transition.series \in Series
    BY <2>1 DEF Stamped, Announcements
  <2> QED BY <1>12, <2>2 DEF Retained
<1>15. \A i \in 1..l : stamped[i].transition \in out' /\ stamped[i].transition.series \in Series
  <2>1. \A i \in 1..l : stamped[i].transition \in out'
    BY <1>6, <1>12
  <2> QED BY <1>2, <2>1 DEF Announcements
<1>16. ASSUME NEW o \in out'
       PROVE  o.series \in Seen(new) /\ new.rows[o.series].inViolation = TRUE /\ o.series \in Seen(observed)
  <2>1. PICK k \in Keys : o.series = k[2] /\ (InSample(sample, k[2]) \/ series[k].known)
    BY <1>2
  <2>2. k[2] \in Seen(new)
    BY <1>8, <1>9, <2>1 DEF Retained
  <2>3. new.rows[o.series].inViolation = TRUE
    BY <1>5, <1>8, <2>1
  <2> QED BY <1>5, <2>1, <2>2, <2>3
<1>17. ASSUME NEW i \in 1..m + l
       PROVE  LET s == derived'[i].transition.series IN s \in Seen(new) /\ new.rows[s].inViolation = TRUE
  <2>1. CASE i <= m
    <3>1. i \in 1..m /\ derived'[i] = derived[i]
      BY <1>13, <2>1
    <3> QED BY <1>4, <1>5, <1>9, <1>14, <3>1
  <2>2. CASE ~(i <= m)
    <3>1. i - m \in 1..l /\ derived'[i] = stamped[i - m]
      BY <1>13, <2>2
    <3> QED BY <1>15, <1>16, <3>1
  <2> QED BY <2>1, <2>2
<1>18. kept' = Newest(derived')
  BY <1>1, <1>11, NewestJoined DEF Retained
<1>19. total' = Cardinality(Passing(derived', filter, new))
  <2>1. /\ Cardinality(Passing(derived, filter, new)) \in Nat
        /\ Cardinality(Passing(derived', filter, new))
             = Cardinality(Passing(derived, filter, new)) + Cardinality(Passing(stamped, filter, new))
    <3> HIDE DEF new
    <3> QED BY <1>1, <1>11, PassingJoined
  <2>2. Passing(derived, filter, new) = Passing(derived, filter, agg)
    <3>1. \A i \in 1..m : ViolationPasses(derived[i].transition, filter, new)
                            <=> ViolationPasses(derived[i].transition, filter, agg)
      BY <1>9, <1>14, PassesAlike
    <3> QED BY <1>12, <3>1 DEF Passing
  <2>3. {o \in out' : ViolationPasses(o, filter, new)} = {o \in out' : ViolationPasses(o, filter, observed)}
    BY <1>16, PassesAlike
  <2>4. Counted(out', observed) = Cardinality({o \in out' : ViolationPasses(o, filter, observed)})
    BY DEF Counted
  <2> QED BY <1>1, <1>6, <2>1, <2>2, <2>3, <2>4 DEF Retained
<1>20. Retained'
  <2>1. filter' = filter
    BY DEF filter
  <2> QED BY <1>2, <1>10, <1>13, <1>17, <1>18, <1>19, <2>1 DEF Retained
<1> QED BY <1>7, <1>20

-----------------------------------------------------------------------------
(* The report as a whole. *)

\* They are numbers, one for each sample.
LEMMA TimesAre ==
  ASSUME PassTyped
  PROVE  /\ Times \in Seq(Int) /\ Len(Times) = Len(seen) /\ Len(seen) \in Nat
         /\ \A n \in 1..Len(seen) : Times[n] = Instant(n) /\ Instant(n) \in Int
<1>1. PICK l \in Nat : l = Len(seen)
  BY SeenTyped
<1>2. \A n \in 1..l : Instant(n) \in Int
  BY <1>1, SeenTyped DEF Instant, Fragments
<1>3. Times \in [1..l -> Int]
  BY <1>1, <1>2 DEF Times
<1>4. Times \in Seq(Int) /\ Len(Times) = l
  BY <1>3
<1> QED BY <1>1, <1>2, <1>4 DEF Times

\* The holes of the log are the wide steps of the instants.
LEMMA HolesAre ==
  ASSUME PassTyped PROVE Holes = Wide(Times, interval * GapMultiplier * Second)
<1>1. PICK t \in Seq(Int), l \in Nat :
        /\ t = Times /\ l = Len(seen) /\ Len(t) = l
        /\ \A n \in 1..l : t[n] = Instant(n) /\ Instant(n) \in Int
  BY TimesAre
<1>2. \A n \in 1..l : n \in Ladder <=> Rises(t, n)
  <2> SUFFICES ASSUME NEW n \in 1..l PROVE n \in Ladder <=> Rises(t, n)
    OBVIOUS
  <2>1. \A m \in 1..n-1 : m \in 1..l
    OBVIOUS
  <2>2. n \in Ladder <=> \A m \in 1..n-1 : Instant(m) < Instant(n)
    BY <1>1 DEF Ladder
  <2> QED BY <1>1, <2>1, <2>2 DEF Rises
<1>3. Ladder \subseteq 1..l /\ \A n : Rises(t, n) => n \in 1..l
  BY <1>1 DEF Ladder, Rises
<1>4. \A n, m \in 1..l : n \in Ladder /\ m \in Rung(n) <=> Climbs(t, n, m)
  <2> SUFFICES ASSUME NEW n \in 1..l, NEW m \in 1..l
               PROVE  n \in Ladder /\ m \in Rung(n) <=> Climbs(t, n, m)
    OBVIOUS
  <2>1. m \in Rung(n) <=> m \in Ladder /\ m > n /\ \A k \in Ladder : k > n => m <= k
    BY DEF Rung
  <2>2. (\A k \in Ladder : k > n => m <= k) <=> \A k \in Nat : n < k /\ k < m => ~Rises(t, k)
    BY <1>2, <1>3
  <2> QED BY <1>2, <2>1, <2>2 DEF Climbs
<1>5. \A n, m : Climbs(t, n, m) => n \in 1..l /\ m \in 1..l
  BY <1>3 DEF Climbs
<1>6. \A n, m : n \in Ladder /\ m \in Rung(n) => n \in 1..l /\ m \in 1..l
  BY <1>3 DEF Rung
<1>7. ASSUME NEW h
      PROVE  h \in Steps <=> \E n, m \in 1..l : Climbs(t, n, m) /\ h = [from |-> t[n], to |-> t[m]]
  <2>1. h \in Steps <=> \E n \in Ladder : \E m \in Rung(n) : h = [from |-> Instant(n), to |-> Instant(m)]
    BY DEF Steps
  <2> QED BY <1>1, <1>4, <1>6, <2>1
<1>8. \A h : h \in Steps <=>
        h \in [from : Int, to : Int] /\ \E n, m \in 1..l : Climbs(t, n, m) /\ h.from = t[n] /\ h.to = t[m]
  <2> SUFFICES ASSUME NEW h
               PROVE  h \in Steps <=>
                        /\ h \in [from : Int, to : Int]
                        /\ \E n, m \in 1..l : Climbs(t, n, m) /\ h.from = t[n] /\ h.to = t[m]
    OBVIOUS
  <2>1. \A n, m \in 1..l : h = [from |-> t[n], to |-> t[m]]
          <=> h \in [from : Int, to : Int] /\ h.from = t[n] /\ h.to = t[m]
    <3>1. \A n \in 1..l : t[n] \in Int
      BY <1>1
    <3> QED BY <3>1
  <2> QED BY <1>7, <2>1
<1>9. ASSUME NEW h PROVE h \in Holes <=> h \in Wide(t, interval * GapMultiplier * Second)
  <2>1. h \in Holes <=> h \in Steps /\ Extent(h) > interval * GapMultiplier * Second
    BY DEF Holes
  <2>2. h \in Wide(t, interval * GapMultiplier * Second) <=>
          /\ h \in [from : Int, to : Int]
          /\ Extent(h) > interval * GapMultiplier * Second
          /\ \E n, m \in 1..l : Climbs(t, n, m) /\ h.from = t[n] /\ h.to = t[m]
    BY <1>1 DEF Wide
  <2> QED BY <1>8, <2>1, <2>2
<1> QED BY <1>1, <1>9

-----------------------------------------------------------------------------
(* The invariant of the report. *)

\* The view the digest is cut from.
FullView ==
  [rows       |-> ShownRows(agg, filter, filter.top),
   gaps       |-> agg.gaps,
   violations |-> ShownViolations(agg, filter, kept)]

\* The digest is printed at the end of the pass, and nothing is cut but for size.
Emitted ==
  /\ digest # NoDigest =>
       /\ command = "report" /\ pc = "done" /\ window \in [since : Int, until : Int]
       /\ digest = [full |-> FullView, shown |-> Fit(FullView, filter.limit)]
  /\ command = "report" /\ exit = SUCCESS =>
       digest # NoDigest /\ pc = "done" /\ digest.shown # TooBig

\* What the reconciliation said, it said of this digest.
Concluded ==
  reconciled # NotYet =>
    /\ command = "report" /\ pc = "done" /\ exit = SUCCESS
    /\ reconciled # Refused =>
         /\ reconciled.incident \in Incidents /\ reconciled.now \in Instants
         /\ reconciled.verdict = Judged(reconciled.incident, Fresh(reconciled.now))
         /\ reconciled.health = Health(Fresh(reconciled.now))

\* What holds of report and reconcile in every reachable state.
ReportInv == (command = "report" => Accumulated /\ Retained) /\ Emitted /\ Concluded

\* It holds at the start,
LEMMA ReportStarts == Init => ReportInv
<1> SUFFICES ASSUME Init PROVE ReportInv
  OBVIOUS
<1>1. /\ seen = <<>> /\ exit = Running /\ digest = NoDigest /\ reconciled = NotYet
      /\ series = FreshSeries /\ source = FreshSource /\ interval = DefaultInterval
      /\ agg = NewAggregator /\ kept = <<>> /\ total = 0 /\ derived = <<>>
  BY DEF Init, ReaderInit, ReportInit, ReconcileInit
<1>2. Times = <<>>
  BY <1>1 DEF Times
<1>3. Accumulated
  BY <1>1, <1>2, NothingSummed, IntervalAssumption DEF Accumulated
<1>4. EngineTyped
  BY <1>1, FreshEngine
<1>5. SourcesRest /\ \A k \in Keys : ~series[k].known
  BY <1>1 DEF SourcesRest, FreshSource, FreshSeries, Quiet, Unseen
<1>6. Len(<<>>) = 0 /\ <<>> \in Seq(Stamped)
  OBVIOUS
<1>7. Newest(<<>>) = <<>>
  <2>1. ViolationCap \in Nat \ {0}
    BY CapAssumption
  <2>2. Larger(1, 0 - ViolationCap + 1) = 1
    BY <2>1 DEF Larger
  <2>3. SubSeq(<<>>, 1, 0) = <<>>
    OBVIOUS
  <2> QED BY <1>6, <2>2, <2>3 DEF Newest
<1>8. Passing(<<>>, filter, agg) = {}
  BY <1>6 DEF Passing
<1>9. Retained
  BY <1>1, <1>4, <1>5, <1>6, <1>7, <1>8, FS_EmptySet DEF Retained
<1>10. Emitted
  BY <1>1 DEF Emitted, Running, SUCCESS
<1>11. Concluded
  BY <1>1 DEF Concluded
<1> QED BY <1>3, <1>9, <1>10, <1>11 DEF ReportInv

\* What leaves the pass and the report alone leaves what they hold.
LEMMA ReportRests ==
  ASSUME ReportInv, UNCHANGED <<command, request, seen, reportVars>>
  PROVE  command' = "report" => Accumulated' /\ Retained'
<1> SUFFICES ASSUME command = "report" PROVE Accumulated' /\ Retained'
  OBVIOUS
<1>1. Accumulated /\ Retained
  BY DEF ReportInv
<1>2. Times' = Times /\ filter' = filter
  BY DEF Times, Instant, filter
<1>3. Accumulated'
  BY <1>1, <1>2 DEF Accumulated, reportVars
<1>4. Retained'
  BY <1>1, <1>2 DEF Retained, EngineTyped, SourcesRest, reportVars
<1> QED BY <1>3, <1>4

\* The interval of a config is a positive number.
LEMMA IntervalTyped ==
  ASSUME NEW docs \in ConfigFiles, NEW path \in DOMAIN docs
  PROVE  Lenient(docs[path]).interval_seconds \in Nat \ {0}
<1>1. PICK value : /\ value = Get(docs[path].general, "interval_seconds")
                   /\ value.type = "integer" => value.int \in Int
  BY IntervalAssumption
<1>2. AsInt(value, DefaultInterval, 1) \in Nat \ {0}
  BY <1>1, IntervalAssumption DEF AsInt
<1>3. FromToml(docs[path]).interval_seconds = AsInt(value, DefaultInterval, 1)
  BY <1>1 DEF FromToml
<1> QED BY <1>2, <1>3, IntervalAssumption DEF Lenient, Default

-----------------------------------------------------------------------------
(* The steps of the report. *)

\* Nothing that leaves its parts alone changes a digest that was printed,
LEMMA EmittedRests ==
  ASSUME Emitted, UNCHANGED <<command, request, digest>>,
         \/ UNCHANGED <<pc, exit, window, agg, kept>>
         \/ pc # "done" /\ (exit' = exit \/ exit' # SUCCESS)
         \/ command # "report"
  PROVE  Emitted'
<1>1. CASE digest = NoDigest
  <2>1. command = "report" => exit # SUCCESS
    BY <1>1 DEF Emitted
  <2> QED BY <1>1, <2>1 DEF Emitted
<1>2. CASE digest # NoDigest
  <2>1. /\ command = "report" /\ pc = "done" /\ window \in [since : Int, until : Int]
        /\ digest = [full |-> FullView, shown |-> Fit(FullView, filter.limit)]
    BY <1>2 DEF Emitted
  <2>2. UNCHANGED <<pc, exit, window, agg, kept>>
    BY <2>1
  <2>3. FullView' = FullView /\ filter' = filter
    BY <2>2 DEF FullView, filter
  <2>4. command' = "report" /\ exit' = SUCCESS => digest' # NoDigest /\ pc' = "done" /\ digest'.shown # TooBig
    BY <2>2 DEF Emitted
  <2> QED BY <2>1, <2>2, <2>3, <2>4 DEF Emitted
<1> QED BY <1>1, <1>2

\* and what was concluded.
LEMMA ConcludedRests ==
  ASSUME Concluded, UNCHANGED <<command, reconciled>>,
         \/ UNCHANGED <<pc, exit, window, agg, interval, digest>>
         \/ pc # "done"
         \/ command # "report"
  PROVE  Concluded'
<1>1. CASE reconciled = NotYet
  BY <1>1 DEF Concluded
<1>2. CASE reconciled # NotYet
  <2>1. UNCHANGED <<pc, exit, window, agg, interval, digest>>
    BY <1>2 DEF Concluded
  <2>3. Fresh(reconciled.now)' = Fresh(reconciled.now)
    BY <2>1 DEF Fresh
  <2>4. Judged(reconciled.incident, Fresh(reconciled.now))' = Judged(reconciled.incident, Fresh(reconciled.now))
    BY <2>1, <2>3 DEF Judged, Fresh
  <2>5. Health(Fresh(reconciled.now))' = Health(Fresh(reconciled.now))
    BY <2>1, <2>3 DEF Health, Fresh, WithinDensity, WindowSeconds
  <2> QED BY <1>2, <2>1, <2>4, <2>5 DEF Concluded
<1> QED BY <1>1, <1>2

\* What is no part of the report.
LEMMA ReportApart ==
  ASSUME ReportInv, UNCHANGED <<command, request, seen, reportVars, reconciled>>,
         \/ UNCHANGED <<pc, exit, window>>
         \/ pc # "done" /\ (exit' = exit \/ exit' # SUCCESS)
         \/ command # "report"
  PROVE  ReportInv'
<1>1. command' = "report" => Accumulated' /\ Retained'
  BY ReportRests
<1>2. Emitted' /\ Concluded'
  BY EmittedRests, ConcludedRests DEF ReportInv, reportVars
<1> QED BY <1>1, <1>2 DEF ReportInv

\* No more do the steps of export, which is another command.
LEMMA ExportApart ==
  ASSUME ReportInv, ExportStep, UNCHANGED <<reportVars, reconciled>>
  PROVE  ReportInv'
<1>1. command # "report" /\ UNCHANGED <<command, request>>
  BY DEF ExportStep, ExportConfig, ExportSelect, OpenOutput, Guard, Truncate, ExportReadOn, ExportSample,
         PushFails, Close, UnchangedPass, Select, ReadOn, TakeSample
<1>2. Emitted' /\ Concluded'
  BY <1>1, EmittedRests, ConcludedRests DEF ReportInv, reportVars
<1> QED BY <1>1, <1>2 DEF ReportInv

\* Before the first sample the interval does not matter.
LEMMA NothingWide ==
  ASSUME NEW a, NEW t, t = <<>>, NEW v, NEW w, Summary(a, t, w)
  PROVE  Summary(a, t, v)
BY NothingSummed DEF Summary

\* The config is loaded, or is not, before there is a sample.
LEMMA ConfigLoaded ==
  ASSUME ReportInv, PassTyped, LoadConfig, UNCHANGED reconciled
  PROVE  ReportInv'
<1>1. /\ command = "report" /\ pc = "config" /\ seen = <<>>
      /\ UNCHANGED <<command, request, seen, series, source, agg, kept, total, derived, digest>>
  BY DEF LoadConfig, PassTyped
<1>2. interval' \in Nat \ {0} /\ exit' \in {exit, FATAL, USAGE}
  <2>1. interval \in Nat \ {0}
    BY <1>1 DEF ReportInv, Accumulated
  <2>2. PICK docs \in ConfigFiles, explicit \in {Unset, "given"} :
          LET path == ConfigPath(explicit, "config.toml", DOMAIN docs) IN
          \/ interval' = interval /\ exit' \in {exit, FATAL, USAGE}
          \/ path # Unset /\ interval' = Lenient(docs[path]).interval_seconds /\ exit' = exit
    BY DEF LoadConfig, Exits
  <2>3. ConfigPath(explicit, "config.toml", DOMAIN docs) # Unset =>
          ConfigPath(explicit, "config.toml", DOMAIN docs) \in DOMAIN docs
    BY DEF ConfigPath
  <2> QED BY <2>1, <2>2, <2>3, IntervalTyped
<1>3. Accumulated /\ Retained
  BY <1>1 DEF ReportInv
<1>4. Times = <<>> /\ Times' = <<>>
  BY <1>1 DEF Times
<1>5. Accumulated'
  <2>1. Summary(agg, <<>>, interval' * GapMultiplier * Second)
    BY <1>3, <1>4, NothingWide DEF Accumulated
  <2> QED BY <1>1, <1>2, <1>4, <2>1 DEF Accumulated
<1>6. Retained'
  BY <1>1, <1>3 DEF Retained, EngineTyped, SourcesRest, filter
<1>7. Emitted' /\ Concluded'
  BY <1>1, <1>2, EmittedRests, ConcludedRests DEF ReportInv, FATAL, USAGE, SUCCESS
<1> QED BY <1>5, <1>6, <1>7 DEF ReportInv

\* A sample of the window is digested, and is the next instant.
LEMMA SampleDigested ==
  ASSUME ReportInv, Stored, Held, PassTyped, ReportSample, UNCHANGED reconciled
  PROVE  ReportInv'
<1>1. /\ command = "report" /\ pc = "stream" /\ SampleLine(window)
      /\ seen' = Append(seen, [day |-> reading.day, at |-> reading'.at, line |-> TheLine])
      /\ UNCHANGED <<command, request, pc, exit, window, interval, digest>>
      /\ Digested(TheLine.sample, TheLine.ts)
  BY DEF ReportSample, TakeSample
<1>2. reading # NoFile /\ ~AtEnd
  BY <1>1 DEF SampleLine, Consume
<1>3. TheLine \in Fragments
  BY <1>2, NextLine
<1>4. PICK x \in Int, sample \in Seq(Entry) : x = TheLine.ts /\ sample = TheLine.sample
  BY <1>3, LogAssumption DEF Fragments
<1>5. PICK l \in Nat : l = Len(seen)
  BY SeenTyped
<1>6. PICK t \in Seq(Int) : t = Times /\ Len(t) = l /\ \A n \in 1..l : t[n] = Instant(n)
  BY <1>5, TimesAre
<1>7. Times' = Append(t, x)
  <2> DEFINE new == [day |-> reading.day, at |-> reading'.at, line |-> TheLine]
  <2>1. new.line.ts = x
    BY <1>4
  <2>2. PICK P : seen \in Seq(P)
    BY DEF PassTyped
  <2> HIDE DEF new
  <2>3. /\ Len(seen') = l + 1 /\ seen'[l + 1] = new
        /\ \A n \in 1..l : seen'[n] = seen[n]
    BY <1>1, <1>5, <2>2 DEF new
  <2>4. \A n \in 1..l + 1 : seen'[n].line.ts = IF n <= l THEN t[n] ELSE x
    BY <1>6, <2>1, <2>3 DEF Instant
  <2>5. Times' = [n \in 1..l + 1 |-> IF n <= l THEN t[n] ELSE x]
    BY <2>3, <2>4 DEF Times, Instant
  <2>6. Append(t, x) = [n \in 1..l + 1 |-> IF n <= l THEN t[n] ELSE x]
    <3> DEFINE g == [n \in 1..l + 1 |-> IF n <= l THEN t[n] ELSE x]
    <3>1. \A n \in 1..l + 1 : g[n] \in Int /\ g[n] = IF n <= l THEN t[n] ELSE x
      BY <1>6
    <3>2. g \in Seq(Int) /\ Len(g) = l + 1
      BY <3>1
    <3>3. /\ Append(t, x) \in Seq(Int) /\ Len(Append(t, x)) = l + 1
          /\ \A n \in 1..l + 1 : Append(t, x)[n] = IF n <= l THEN t[n] ELSE x
      BY <1>6
    <3> HIDE DEF g
    <3>4. Append(t, x) = g
      BY <3>1, <3>2, <3>3, SameSequence
    <3> QED BY <3>4 DEF g
  <2> QED BY <2>5, <2>6
<1>8. Accumulated' /\ Retained'
  BY <1>1, <1>4, <1>6, <1>7, DigestedOn DEF ReportInv
<1>9. Emitted' /\ Concluded'
  BY <1>1, EmittedRests, ConcludedRests DEF ReportInv
<1> QED BY <1>1, <1>8, <1>9 DEF ReportInv

\* The digest is printed, as it is or fitted, or is too big.
LEMMA DigestEmitted ==
  ASSUME ReportInv, PassTyped, Emit, UNCHANGED reconciled
  PROVE  ReportInv'
<1>1. /\ command = "report" /\ pc = "stream"
      /\ UNCHANGED <<command, request, seen, window, series, source, interval, agg, kept, total, derived>>
  BY DEF Emit
<1>2. Accumulated /\ Retained
  BY <1>1 DEF ReportInv
<1>3. Times' = Times /\ filter' = filter /\ FullView' = FullView
  BY <1>1 DEF Times, Instant, filter, FullView
<1>4. Accumulated'
  BY <1>1, <1>2, <1>3 DEF Accumulated
<1>5. Retained'
  BY <1>1, <1>2, <1>3 DEF Retained, EngineTyped, SourcesRest
<1>6. PICK shown : shown = Fit(FullView, filter.limit)
  OBVIOUS
<1>7. /\ digest' = [full |-> FullView, shown |-> shown]
      /\ pc' = "done" /\ exit' = IF shown = TooBig THEN USAGE ELSE SUCCESS
  BY <1>6 DEF Emit, Exits, FullView
<1>8. exit' = SUCCESS => digest'.shown # TooBig
  BY <1>7 DEF USAGE, SUCCESS
<1>9. Emitted'
  <2>1. window' \in [since : Int, until : Int]
    BY <1>1 DEF PassTyped, Active
  <2> QED BY <1>1, <1>3, <1>6, <1>7, <1>8, <2>1 DEF Emitted, NoDigest
<1>10. Concluded'
  BY <1>1, ConcludedRests DEF ReportInv
<1> QED BY <1>1, <1>4, <1>5, <1>9, <1>10 DEF ReportInv

\* An incident is judged on the digest that was printed.
LEMMA IncidentJudged ==
  ASSUME ReportInv, Reconcile
  PROVE  ReportInv'
<1>1. /\ command = "report" /\ pc = "done" /\ exit = SUCCESS
      /\ UNCHANGED <<command, request, seen, pc, exit, window, reportVars>>
  BY DEF Reconcile, readerVars
<1>2. Accumulated' /\ Retained'
  BY <1>1, ReportRests
<1>3. Emitted'
  BY <1>1, EmittedRests DEF ReportInv, reportVars
<1>4. Concluded'
  <2>1. PICK incident \in Incidents, now \in {t \in Instants : t >= clock} :
          reconciled' =
            IF WindowSeconds <= 0 THEN Refused
            ELSE [incident |-> incident, now |-> now,
                  verdict |-> Judged(incident, Fresh(now)), health |-> Health(Fresh(now))]
    BY DEF Reconcile
  <2>2. CASE WindowSeconds <= 0
    BY <1>1, <2>1, <2>2 DEF Concluded
  <2>3. CASE ~(WindowSeconds <= 0)
    <3>1. PICK verdict, health : verdict = Judged(incident, Fresh(now)) /\ health = Health(Fresh(now))
      OBVIOUS
    <3>2. reconciled' = [incident |-> incident, now |-> now, verdict |-> verdict, health |-> health]
      BY <2>1, <2>3, <3>1
    <3>3. reconciled'.incident = incident /\ reconciled'.now = now
          /\ reconciled'.verdict = verdict /\ reconciled'.health = health
      BY <3>2
    <3>4. UNCHANGED <<window, agg, interval, digest>>
      BY <1>1 DEF reportVars
    <3>5. Fresh(reconciled.now)' = Fresh(now)
      BY <3>3, <3>4 DEF Fresh
    <3>6. Judged(reconciled.incident, Fresh(reconciled.now))' = verdict
      BY <3>1, <3>3, <3>4, <3>5 DEF Judged, Fresh
    <3>7. Health(Fresh(reconciled.now))' = health
      BY <3>1, <3>3, <3>4, <3>5 DEF Health, Fresh, WithinDensity, WindowSeconds
    <3> QED BY <1>1, <2>3, <3>3, <3>6, <3>7 DEF Concluded
  <2> QED BY <2>2, <2>3
<1> QED BY <1>2, <1>3, <1>4 DEF ReportInv

\* The report and the reconciliation are what they should be in every reachable
\* state, whatever the logger and the clock do meanwhile.
LEMMA ReportInvariant == Spec => []ReportInv
<1>1. Init => ReportInv
  BY ReportStarts
<1>2. ASSUME FilesInv, PassInv, ReportInv, [Next]_vars PROVE ReportInv'
  <2>0. Stored /\ Held /\ PassTyped
    BY <1>2 DEF FilesInv, PassInv
  <2>1. CASE ReportStep /\ UNCHANGED <<writerVars, exportVars, reconciled>>
    <3>1. CASE LoadConfig
      BY <1>2, <2>0, <2>1, <3>1, ConfigLoaded
    <3>2. CASE ReportSelect
      <4>1. /\ pc = "window" /\ exit' \in {exit, USAGE}
            /\ UNCHANGED <<command, request, seen, reportVars, reconciled>>
        <5>1. UNCHANGED digest
          BY <2>1, <3>2 DEF ReportSelect, ReportStep
        <5> QED BY <2>1, <3>2, <5>1 DEF ReportSelect, Select, Exits, reportVars
      <4> QED BY <1>2, <4>1, ReportApart DEF USAGE, SUCCESS
    <3>3. CASE ReportReadOn
      BY <1>2, <2>1, <3>3, ReportApart DEF ReportReadOn, ReadOn
    <3>4. CASE ReportSample
      BY <1>2, <2>0, <2>1, <3>4, SampleDigested
    <3>5. CASE Emit
      BY <1>2, <2>0, <2>1, <3>5, DigestEmitted
    <3> QED BY <2>1, <3>1, <3>2, <3>3, <3>4, <3>5 DEF ReportStep
  <2>2. CASE ExportStep /\ UNCHANGED <<reportVars, reconciled>>
    BY <1>2, <2>2, ExportApart
  <2>3. CASE Reconcile
    BY <1>2, <2>3, IncidentJudged
  <2>4. CASE Environment
    BY <1>2, <2>4, ReportApart DEF Environment
  <2>5. CASE UNCHANGED vars
    BY <1>2, <2>5, ReportApart DEF vars, readerVars
  <2> QED BY <1>2, <2>1, <2>2, <2>3, <2>4, <2>5 DEF Next
<1> QED BY <1>1, <1>2, FilesInvariant, PassInvariant, PTL DEF Spec

-----------------------------------------------------------------------------
(* The gaps. *)

\* Of the holes in the log (steps from one latest instant to the next that are
\* wider than the interval allows) the digest counts all and lists, in order of
\* time, the largest: as many as MAX_GAPS allows. For every log, every interval,
\* clocks set back included, and every cap (Aggregator::observe, push_gap).
THEOREM GapsListedAreLargest == Spec => []GapsAreLargest
<1>1. PassInv /\ ReportInv => GapsAreLargest
  <2> SUFFICES ASSUME PassInv, ReportInv, command = "report", seen # <<>> PROVE GapsAreLargest
    BY DEF GapsAreLargest
  <2>1. PICK t, w : t = Times /\ w = interval * GapMultiplier * Second /\ Summary(agg, t, w)
    BY DEF ReportInv, Accumulated
  <2>2. Holes = Wide(t, w)
    BY <2>1, HolesAre DEF PassInv
  <2>3. Keeps(agg.gaps, agg.gapsTotal, Holes)
    BY <2>1, <2>2 DEF Summary
  <2>4. PICK l \in Nat : l = Len(agg.gaps)
    BY <2>3 DEF Keeps
  <2>5. \A n \in 2..l : agg.gaps[n-1].to <= agg.gaps[n].from
    <3>1. \A i, j \in 1..l : i < j => agg.gaps[i].to <= agg.gaps[j].from
      BY <2>3, <2>4 DEF Keeps
    <3>2. \A n \in 2..l : n-1 \in 1..l /\ n \in 1..l /\ n-1 < n
      OBVIOUS
    <3> QED BY <3>1, <3>2
  <2>6. /\ agg.gapsTotal = Cardinality(Holes)
        /\ ListedGaps(agg.gaps) \subseteq Holes
        /\ Len(agg.gaps) = Less(MaxGaps, agg.gapsTotal)
        /\ \A g \in ListedGaps(agg.gaps), h \in Holes \ ListedGaps(agg.gaps) : Seconds(g) >= Seconds(h)
    BY <2>3 DEF Keeps
  <2>7. {agg.gaps[n] : n \in 1..Len(agg.gaps)} = ListedGaps(agg.gaps)
    BY DEF ListedGaps
  <2> QED BY <2>4, <2>5, <2>6, <2>7 DEF GapsAreLargest
<1> QED BY <1>1, PassInvariant, ReportInvariant, PTL

-----------------------------------------------------------------------------
(* The violations. *)

\* The transitions as the digest lists them.
Numbered == [seq : Nat, transition : Announcements, ts : Int]

\* A list says the same as the last ones of another.
Latest(listed, passing) ==
  \E e \in Nat :
    /\ Len(passing) = e + Len(listed)
    /\ \A n \in 1..Len(listed) : /\ listed[n].transition = passing[e + n].transition
                                 /\ listed[n].ts = passing[e + n].ts

\* The digest lists the latest of the transitions that pass.
LEMMA ViolationsShown ==
  ASSUME NEW all \in Seq(Stamped), NEW few, few = Newest(all), NEW flt, NEW a,
         NEW listed, listed = ShownViolations(a, flt, few),
         NEW passing, passing = At(all, Passing(all, flt, a))
  PROVE  /\ passing \in Seq(Stamped) /\ Len(passing) = Cardinality(Passing(all, flt, a))
         /\ listed \in Seq(Numbered)
         /\ Latest(listed, passing)
<1>1. PICK l \in Nat, m \in Nat :
        /\ l = Len(all) /\ m = Len(few) /\ m <= l /\ few \in Seq(Stamped)
        /\ \A n \in 1..m : few[n] = all[l - m + n]
  <2>1. /\ few \in Seq(Stamped) /\ Len(few) = Less(ViolationCap, Len(all))
        /\ \A n \in 1..Len(few) : few[n] = all[Len(all) - Len(few) + n]
    BY NewestIs
  <2>2. Less(ViolationCap, Len(all)) <= Len(all)
    BY CapAssumption DEF Less
  <2>3. Len(all) \in Nat /\ Len(few) \in Nat
    BY <2>1
  <2> QED BY ONLY few = Newest(all), <2>1, <2>2, <2>3
<1>2. PICK P : P = Passing(all, flt, a)
  OBVIOUS
<1>3. PICK Q : Q = Passing(few, flt, a)
  OBVIOUS
<1>4. PICK numbered :
        numbered = [n \in 1..m |-> [seq |-> n, transition |-> few[n].transition, ts |-> few[n].ts]]
  OBVIOUS
<1>5. \A n \in 1..m : /\ numbered[n] = [seq |-> n, transition |-> few[n].transition, ts |-> few[n].ts]
                      /\ numbered[n].transition = few[n].transition /\ numbered[n].ts = few[n].ts
                      /\ numbered[n] \in Numbered
  <2>1. \A n \in 1..m : few[n] \in Stamped
    BY <1>1
  <2>2. \A n \in 1..m : few[n].transition \in Announcements /\ few[n].ts \in Int
    BY <2>1 DEF Stamped
  <2> QED BY <1>4, <2>2 DEF Numbered
<1>6. numbered \in Seq(Numbered) /\ Len(numbered) = m
  <2>1. numbered \in [1..m -> Numbered]
    BY <1>4, <1>5
  <2> QED BY <2>1
<1>7. P \in SUBSET (1..l) /\ Q \in SUBSET (1..m)
  BY <1>1, <1>2, <1>3 DEF Passing
<1>8. \A n \in 1..m : n \in Q <=> n + (l - m) \in P
  <2> SUFFICES ASSUME NEW n \in 1..m PROVE n \in Q <=> n + (l - m) \in P
    OBVIOUS
  <2>1. few[n] = all[n + (l - m)] /\ n + (l - m) \in 1..l
    <3>1. l - m + n = n + (l - m)
      OBVIOUS
    <3>2. few[n] = all[l - m + n] /\ l - m + n \in 1..l
      BY ONLY <1>1, n \in 1..m, l \in Nat, m \in Nat
    <3> QED BY ONLY <3>1, <3>2
  <2>2. n \in Q <=> ViolationPasses(few[n].transition, flt, a)
    BY <1>1, <1>3 DEF Passing
  <2>3. n + (l - m) \in P <=> ViolationPasses(all[n + (l - m)].transition, flt, a)
    BY <1>1, <1>2, <2>1 DEF Passing
  <2> QED BY <2>1, <2>2, <2>3
<1>9. listed = At(numbered, Q)
  BY <1>1, <1>3, <1>4 DEF ShownViolations
<1>10. passing = At(all, P)
  BY <1>2
<1>11. PICK d \in Nat : d = l - m /\ l = d + m
  BY <1>1
<1>12. PICK e \in Nat :
         /\ Len(passing) = e + Len(listed)
         /\ \A n \in 1..Len(listed) : \E q \in Q :
              listed[n] = numbered[q] /\ passing[e + n] = all[q + d]
  <2>1. Ends(all, P, numbered, Q, d)
    BY ONLY <1>1, <1>6, <1>7, <1>8, <1>11 DEF Ends
  <2>2. EndsToo(all, P, numbered, Q, d)
    BY ONLY all \in Seq(Stamped), <1>6, <2>1, AtSuffix
  <2> QED BY ONLY <1>9, <1>10, <2>2 DEF EndsToo
<1>13. /\ passing \in Seq(Stamped) /\ Len(passing) = Cardinality(P)
       /\ listed \in Seq(Numbered)
  BY <1>1, <1>6, <1>7, <1>9, <1>10, AtIs
<1>14. \A n \in 1..Len(listed) : /\ listed[n].transition = passing[e + n].transition
                                 /\ listed[n].ts = passing[e + n].ts
  <2> SUFFICES ASSUME NEW n \in 1..Len(listed)
               PROVE  /\ listed[n].transition = passing[e + n].transition
                      /\ listed[n].ts = passing[e + n].ts
    OBVIOUS
  <2>1. PICK q \in Q : listed[n] = numbered[q] /\ passing[e + n] = all[q + d]
    BY <1>12
  <2>2. q \in 1..m /\ q \in Int
    BY <1>7
  <2>3. few[q] = all[q + d]
    <3>1. l - m + q = q + d
      BY <1>11, <2>2
    <3> QED BY <1>1, <2>2, <3>1
  <2> QED BY <1>5, <2>1, <2>2, <2>3, ZenonT(60)
<1> QED BY <1>2, <1>12, <1>13, <1>14 DEF Latest

-----------------------------------------------------------------------------
(* The digest. *)

\* A row as the digest shows it.
ShownRow == [series : Series, row : RowStates]

\* The numbers of the command line.
LEMMA ShowTyped ==
  ASSUME Stored PROVE filter.limit \in Int /\ filter.top \in Int
BY ShowAssumption DEF Stored, filter

\* The digest before fitting is a view, of which the sizes can be counted.
LEMMA FullIsView ==
  ASSUME Stored, PassTyped, Accumulated, Retained
  PROVE  Viewed(FullView, ShownRow, Spans, Numbered)
<1>1. agg.rows \in [Series -> RowStates] /\ agg.gaps \in Seq(Spans)
  BY DEF Accumulated, Summary, Aggregates
<1>2. filter.top \in Int
  BY ShowTyped
<1>3. PICK rows : rows = ShownRows(agg, filter, filter.top) /\ rows \in Seq(ShownRow)
  BY <1>1, <1>2, ForcedShown DEF ShownRow
<1>4. PICK listed : listed = ShownViolations(agg, filter, kept) /\ listed \in Seq(Numbered)
  BY ViolationsShown DEF Retained
<1>5. FullView = [rows |-> rows, gaps |-> agg.gaps, violations |-> listed]
  BY <1>3, <1>4 DEF FullView
<1>6. FullView \in [rows : Seq(ShownRow), gaps : Seq(Spans), violations : Seq(Numbered)]
  BY <1>1, <1>3, <1>4, <1>5
<1>7. \A r \in ShownRow : r.row.samples \in Nat
  BY DEF ShownRow, RowStates
<1>8. \A g \in Spans : Seconds(g) \in Nat
  BY SecondsTyped
<1>9. \A x \in Numbered : x.seq \in Nat
  BY DEF Numbered
<1> QED BY <1>6, <1>7, <1>8, <1>9 DEF Viewed

\* The digest that is printed is the largest that fits: dropping the last row,
\* then the smallest gap, then the oldest violation, one at a time until it
\* fits, would have left the same, and would have failed where this fails. For
\* every digest and every --max-bytes (Assembled::fit, which bisects).
THEOREM FittingIsNaive == Spec => []FitIsNaive
<1>1. Stored /\ PassTyped /\ ReportInv => FitIsNaive
  <2> SUFFICES ASSUME Stored, PassTyped, ReportInv, digest # NoDigest
               PROVE  digest.shown = NaiveFit(digest.full, filter.limit)
    BY DEF FitIsNaive
  <2>1. /\ command = "report"
        /\ digest = [full |-> FullView, shown |-> Fit(FullView, filter.limit)]
    BY DEF ReportInv, Emitted
  <2>2. PICK view, limit : view = FullView /\ limit = filter.limit /\ limit \in Int
    BY ShowTyped
  <2>3. Viewed(view, ShownRow, Spans, Numbered)
    BY <2>1, <2>2, FullIsView DEF ReportInv
  <2>4. Fit(view, limit) = NaiveFit(view, limit)
    BY <2>2, <2>3, FitsLikeNaive
  <2>5. digest = [full |-> view, shown |-> Fit(view, limit)]
    BY <2>1, <2>2
  <2> QED BY <2>2, <2>4, <2>5
<1>2. FilesInv /\ PassInv => Stored /\ PassTyped
  BY DEF FilesInv, PassInv
<1> QED BY <1>1, <1>2, FilesInvariant, PassInvariant, ReportInvariant, PTL

\* No cap hides a violation: the count is of all the transitions that pass the
\* filter, those listed are the latest of them, in order and with their
\* instants, and every series that passes and had one is among the rows,
\* whatever --top is. For every log, every set of rules, filter and cap
\* (digest.rs, rank_rows).
THEOREM NoViolationIsHidden == Spec => []ViolationsExact
<1>1. Stored /\ ReportInv => ViolationsExact
  <2> SUFFICES ASSUME Stored, ReportInv, command = "report" PROVE ViolationsExact
    BY DEF ViolationsExact
  <2>1. Accumulated /\ Retained
    BY DEF ReportInv
  <2>2. PICK passing : passing = At(derived, Passing(derived, filter, agg))
    OBVIOUS
  <2>3. PICK few : few = kept /\ few = Newest(derived)
    BY <2>1 DEF Retained
  <2>4. PICK shown : shown = ShownViolations(agg, filter, few)
    OBVIOUS
  <2>5. PICK all \in Seq(Stamped) : all = derived
    BY <2>1 DEF Retained
  <2>6. /\ passing \in Seq(Stamped) /\ Len(passing) = Cardinality(Passing(derived, filter, agg))
        /\ shown \in Seq(Numbered) /\ Latest(shown, passing)
    BY ONLY <2>2, <2>3, <2>4, <2>5, all \in Seq(Stamped), ViolationsShown
  <2>7. total = Len(passing)
    BY <2>1, <2>6 DEF Retained
  <2>8. ASSUME digest # NoDigest, NEW listed, listed = digest.full.violations,
               NEW rows, rows = digest.full.rows
        PROVE  /\ \A n \in 1..Len(listed) :
                    /\ listed[n].transition = passing[Len(passing) - Len(listed) + n].transition
                    /\ listed[n].ts = passing[Len(passing) - Len(listed) + n].ts
               /\ \A n \in 1..Len(derived) :
                    LET s == derived[n].transition.series IN
                    s \in Seen(agg) /\ RowPasses(s, filter) =>
                      \E m \in 1..Len(rows) : rows[m].series = s
    <3>1. digest = [full |-> FullView, shown |-> Fit(FullView, filter.limit)]
      BY <2>8 DEF ReportInv, Emitted
    <3>2. listed = shown /\ rows = ShownRows(agg, filter, filter.top)
      BY <2>3, <2>4, <2>8, <3>1 DEF FullView
    <3>3. PICK e \in Nat, l \in Nat :
            /\ l = Len(listed) /\ Len(passing) = e + l
            /\ \A n \in 1..l : /\ listed[n].transition = passing[e + n].transition
                               /\ listed[n].ts = passing[e + n].ts
      <4>1. listed \in Seq(Numbered) /\ Latest(listed, passing)
        BY <2>6, <3>2
      <4>2. Len(listed) \in Nat
        BY <4>1
      <4> QED BY ONLY <4>1, <4>2 DEF Latest
    <3>4. \A n \in 1..l : Len(passing) - l + n = e + n
      BY <3>3
    <3>5. agg.rows \in [Series -> RowStates] /\ filter.top \in Int
      BY <2>1, ShowTyped DEF Accumulated, Summary, Aggregates
    <3>6. \A s \in Seen(agg) : RowPasses(s, filter) /\ agg.rows[s].inViolation =>
            \E m \in 1..Len(rows) : rows[m].series = s
      BY <3>2, <3>5, ForcedShown
    <3>7. \A n \in 1..Len(derived) : agg.rows[derived[n].transition.series].inViolation = TRUE
      BY <2>1 DEF Retained
    <3> QED BY <3>3, <3>4, <3>6, <3>7
  <2> QED BY <2>2, <2>7, <2>8, ZenonT(60) DEF ViolationsExact
<1>2. FilesInv => Stored
  BY DEF FilesInv
<1> QED BY <1>1, <1>2, FilesInvariant, ReportInvariant, PTL

-----------------------------------------------------------------------------
(* How long the log is blind. *)

\* The instants of the first m gaps.
Blinded(gaps, m) == UNION {gaps[n].from+1 .. gaps[n].to : n \in 1..m}

\* Gaps in order of time do not overlap: their lengths add up, but for less than
\* a second of each.
LEMMA BlindAdds ==
  ASSUME NEW gaps \in Seq(Spans), NEW l \in Nat, l = Len(gaps),
         \A i, j \in 1..l : i < j => gaps[i].to <= gaps[j].from
  PROVE  /\ Blind(gaps) \in Int /\ Cardinality(Blinded(gaps, l)) \in Nat
         /\ Cardinality(Blinded(gaps, l)) <= Second * Blind(gaps) + l * (Second - 1)
<1> DEFINE Lengths(m) == [n \in 1..m |-> Seconds(gaps[n])]
           A == {m \in Nat : m <= l =>
                   /\ IsFiniteSet(Blinded(gaps, m)) /\ SumOf(Lengths(m)) \in Int
                   /\ Cardinality(Blinded(gaps, m)) <= Second * SumOf(Lengths(m)) + m * (Second - 1)}
<1>1. PICK u \in Nat : u = Second
  BY SecondAssumption
<1>2. \A n \in 1..l : /\ gaps[n].from \in Int /\ gaps[n].to \in Int /\ gaps[n].from < gaps[n].to
                      /\ Seconds(gaps[n]) \in Int
  <2>1. \A n \in 1..l : gaps[n] \in Spans
    OBVIOUS
  <2> QED BY <2>1, SecondsTyped DEF Spans
<1>3. ASSUME NEW n \in 1..l
      PROVE  /\ u * Seconds(gaps[n]) \in Int
             /\ gaps[n].to - gaps[n].from <= u * Seconds(gaps[n]) + (u - 1)
  <2>1. PICK e \in Int : e = gaps[n].to - gaps[n].from
    BY <1>2
  <2>2. Seconds(gaps[n]) = WholeSeconds(e)
    BY <2>1 DEF Seconds, Extent
  <2>3. PICK q \in Int : q = WholeSeconds(e) /\ Second * q \in Int /\ e < Second * q + Second
    BY WholeSecondsIs
  <2> QED BY ONLY <1>1, <2>1, <2>2, <2>3
<1>4. \A m \in Nat : m <= l => /\ Lengths(m) \in Seq(Int) /\ Len(Lengths(m)) = m
                               /\ \A n \in 1..m : Lengths(m)[n] = Seconds(gaps[n])
  <2> SUFFICES ASSUME NEW m \in Nat, m <= l
               PROVE  /\ Lengths(m) \in Seq(Int) /\ Len(Lengths(m)) = m
                      /\ \A n \in 1..m : Lengths(m)[n] = Seconds(gaps[n])
    OBVIOUS
  <2>1. Lengths(m) \in [1..m -> Int]
    BY <1>2
  <2> QED BY <2>1
<1>5. 0 \in A
  <2>1. Blinded(gaps, 0) = {}
    BY DEF Blinded
  <2>2. Lengths(0) = <<>>
    OBVIOUS
  <2>3. IsFiniteSet(Blinded(gaps, 0)) /\ Cardinality(Blinded(gaps, 0)) = 0
    BY <2>1, FS_EmptySet
  <2>4. SumOf(Lengths(0)) = 0
    BY <2>2, SumEmpty
  <2>5. Second * 0 + 0 * (Second - 1) = 0
    BY SecondAssumption
  <2> QED BY <2>3, <2>4, <2>5
<1>6. ASSUME NEW m \in A PROVE m + 1 \in A
  <2> SUFFICES ASSUME m + 1 <= l
               PROVE  /\ IsFiniteSet(Blinded(gaps, m + 1)) /\ SumOf(Lengths(m + 1)) \in Int
                      /\ Cardinality(Blinded(gaps, m + 1))
                           <= Second * SumOf(Lengths(m + 1)) + (m + 1) * (Second - 1)
    OBVIOUS
  <2>1. PICK D : D = gaps[m + 1].from+1 .. gaps[m + 1].to
    OBVIOUS
  <2>2. PICK B : B = Blinded(gaps, m)
    OBVIOUS
  <2>3. PICK z \in Int : /\ z = SumOf(Lengths(m)) /\ IsFiniteSet(B)
                         /\ Cardinality(B) <= u * z + m * (u - 1)
    <3>1. /\ IsFiniteSet(Blinded(gaps, m)) /\ SumOf(Lengths(m)) \in Int
          /\ Cardinality(Blinded(gaps, m)) <= Second * SumOf(Lengths(m)) + m * (Second - 1)
      <4> HIDE DEF Lengths
      <4> QED OBVIOUS
    <3> QED BY ONLY <1>1, <2>2, <3>1
  <2>4. Blinded(gaps, m + 1) = B \cup D
    <3>1. \A x : x \in Blinded(gaps, m + 1) <=> \E n \in 1..m+1 : x \in gaps[n].from+1 .. gaps[n].to
      BY DEF Blinded
    <3>2. \A x : x \in B <=> \E n \in 1..m : x \in gaps[n].from+1 .. gaps[n].to
      BY <2>2 DEF Blinded
    <3>3. \A n : n \in 1..m+1 <=> n \in 1..m \/ n = m + 1
      OBVIOUS
    <3> QED BY ONLY <2>1, <3>1, <3>2, <3>3
  <2>5. B \cap D = {}
    <3> SUFFICES ASSUME NEW x \in B, x \in D PROVE FALSE
      OBVIOUS
    <3>1. PICK n \in 1..m : x \in gaps[n].from+1 .. gaps[n].to
      BY <2>2 DEF Blinded
    <3>2. n \in 1..l /\ m + 1 \in 1..l /\ n < m + 1
      OBVIOUS
    <3>3. gaps[n].to <= gaps[m + 1].from
      BY <3>2
    <3> QED BY <1>2, <2>1, <3>1, <3>2, <3>3
  <2>6. PICK q \in Int : /\ q = Seconds(gaps[m + 1]) /\ u * q \in Int
                         /\ IsFiniteSet(D) /\ Cardinality(D) <= u * q + (u - 1)
    <3>1. m + 1 \in 1..l
      OBVIOUS
    <3>2. PICK a \in Int, b \in Int, q \in Int :
            /\ a = gaps[m + 1].from + 1 /\ b = gaps[m + 1].to /\ a <= b
            /\ q = Seconds(gaps[m + 1]) /\ u * q \in Int /\ b - a + 1 <= u * q + (u - 1)
      <4>1. PICK p \in Int, b \in Int, q \in Int :
              p = gaps[m + 1].from /\ b = gaps[m + 1].to /\ p < b /\ q = Seconds(gaps[m + 1])
        BY <1>2, <3>1
      <4>2. u * q \in Int /\ b - p <= u * q + (u - 1)
        BY <1>3, <3>1, <4>1
      <4>3. PICK a \in Int : a = p + 1
        BY ONLY <4>1
      <4>4. a = gaps[m + 1].from + 1
        BY ONLY <4>1, <4>3
      <4>5. PICK r \in Int : r = u * q + (u - 1)
        BY ONLY <1>1, <4>2
      <4>6. a <= b /\ b - a + 1 <= r
        <5>1. p < b /\ b - p <= r
          BY <4>1, <4>2, <4>5
        <5>2. p \in Int /\ b \in Int /\ a \in Int /\ r \in Int /\ a = p + 1
          BY ONLY <4>1, <4>3, <4>5
        <5> QED BY ONLY <5>1, <5>2
      <4> QED BY <4>1, <4>2, <4>3, <4>4, <4>5, <4>6
    <3>3. IsFiniteSet(a..b) /\ Cardinality(a..b) = IF a > b THEN 0 ELSE b - a + 1
      BY FS_Interval
    <3>4. D = a..b
      BY <2>1, <3>2
    <3>5. ~(a > b)
      BY <3>2
    <3> QED BY ONLY <3>2, <3>3, <3>4, <3>5
  <2>7. Cardinality(B \cup D) = Cardinality(B) + Cardinality(D) /\ IsFiniteSet(B \cup D)
    <3>1. Cardinality(B \cap D) = 0
      BY <2>5, FS_EmptySet
    <3>2. IsFiniteSet(B) /\ IsFiniteSet(D)
      BY <2>3, <2>6
    <3>3. Cardinality(B) \in Nat /\ Cardinality(D) \in Nat
      BY <3>2, FS_CardinalityType
    <3>4. /\ IsFiniteSet(B \cup D)
          /\ Cardinality(B \cup D) = Cardinality(B) + Cardinality(D) - Cardinality(B \cap D)
      BY ONLY <3>2, FS_Union
    <3> QED BY ONLY <3>1, <3>3, <3>4
  <2>8. SumOf(Lengths(m + 1)) = SumOf(Lengths(m)) + Seconds(gaps[m + 1])
    <3>1. PICK s, t : s = Lengths(m) /\ t = Lengths(m + 1)
      OBVIOUS
    <3>2. /\ s \in Seq(Int) /\ Len(s) = m /\ \A n \in 1..m : s[n] = Seconds(gaps[n])
          /\ t \in Seq(Int) /\ Len(t) = m + 1 /\ \A n \in 1..m + 1 : t[n] = Seconds(gaps[n])
      BY <1>4, <3>1, SMTT(30)
    <3> HIDE DEF Lengths
    <3>3. Len(t) = Len(s) + 1 /\ \A i \in 1..Len(s) : t[i] = s[i]
      BY <3>2
    <3>4. SumOf(t) = SumOf(s) + t[Len(t)]
      BY ONLY <3>2, <3>3, SumAppend
    <3>5. t[Len(t)] = Seconds(gaps[m + 1])
      BY <3>2
    <3> QED BY <3>1, <3>4, <3>5
  <2>9. PICK v \in Nat, w \in Nat, x \in Nat :
          /\ v = Cardinality(B) /\ w = Cardinality(D) /\ x = Cardinality(B \cup D) /\ x = v + w
    <3>1. IsFiniteSet(B) /\ IsFiniteSet(D)
      BY <2>3, <2>6
    <3> QED BY ONLY <2>7, <3>1, FS_CardinalityType
  <2>10. x <= u * (z + q) + (m + 1) * (u - 1)
    <3>1. v <= u * z + m * (u - 1) /\ w <= u * q + (u - 1)
      BY ONLY <2>3, <2>6, <2>9
    <3>2. /\ u * (z + q) = u * z + u * q
          /\ (u - 1) * (m + 1) = (u - 1) * m + (u - 1) * 1
          /\ (u - 1) * (m + 1) = (m + 1) * (u - 1) /\ (u - 1) * m = m * (u - 1)
      BY ONLY <1>1, <2>3, <2>6, m \in Nat, Distributes
    <3>3. u * z \in Int /\ u * q \in Int /\ m * (u - 1) \in Int /\ (u - 1) * 1 = u - 1
      BY ONLY <1>1, <2>3, <2>6, m \in Nat
    <3> QED BY ONLY <2>9, <3>1, <3>2, <3>3
  <2>11. SumOf(Lengths(m + 1)) = z + q /\ z + q \in Int
    BY <2>3, <2>6, <2>8
  <2> QED BY <1>1, <2>4, <2>7, <2>9, <2>10, <2>11
<1>7. Blind(gaps) = SumOf(Lengths(l))
  BY DEF Blind
<1> HIDE DEF A
<1>8. l \in A
  <2>1. A \in SUBSET Nat
    BY DEF A
  <2> QED BY <1>5, <1>6, <2>1, Induction
<1> HIDE DEF Lengths
<1>9. /\ IsFiniteSet(Blinded(gaps, l)) /\ SumOf(Lengths(l)) \in Int
      /\ Cardinality(Blinded(gaps, l)) <= Second * SumOf(Lengths(l)) + l * (Second - 1)
  BY <1>8 DEF A
<1> QED BY <1>7, <1>9, FS_CardinalityType

\* If all holes are listed, the seconds that are listed are what the log is
\* blind, but for what they leave out.
LEMMA BlindIs ==
  ASSUME NEW gaps \in Seq(Spans),
         \A i, j \in 1..Len(gaps) : i < j => gaps[i].to <= gaps[j].from,
         Holes = ListedGaps(gaps)
  PROVE  Blind(gaps) \in Int /\ BlindTime - LeftOut \in Int /\ BlindTime - LeftOut <= Second * Blind(gaps)
<1>1. PICK l \in Nat : l = Len(gaps)
  OBVIOUS
<1>2. PICK z \in Int, x \in Nat, u \in Nat :
        /\ z = Blind(gaps) /\ x = Cardinality(Blinded(gaps, l)) /\ u = Second
        /\ x <= u * z + l * (u - 1)
  BY <1>1, BlindAdds, SecondAssumption
<1>3. \A y : y \in UNION {h.from+1 .. h.to : h \in Holes} <=> y \in Blinded(gaps, l)
  BY <1>1 DEF Blinded, ListedGaps
<1>4. UNION {h.from+1 .. h.to : h \in Holes} = Blinded(gaps, l)
  BY <1>3
<1>5. BlindTime = x
  BY <1>2, <1>4 DEF BlindTime
<1>6. Cardinality(Holes) = l
  BY <1>1, ListedOnce
<1>7. LeftOut = l * (u - 1)
  BY <1>2, <1>6 DEF LeftOut
<1>8. u * z \in Int /\ l * (u - 1) \in Int
  OBVIOUS
<1> QED BY ONLY <1>2, <1>5, <1>7, <1>8

\* What is within the limit in whole seconds is so in instants.
LEMMA SecondsSuffice ==
  ASSUME NEW time \in Int, NEW blind \in Int, NEW whole \in Int, NEW length \in Int,
         NEW u \in Nat, NEW num \in Nat, NEW den \in Nat,
         time <= u * blind, u * whole <= length, blind * den <= num * whole
  PROVE  time * den <= num * length
<1>1. den * time <= den * (u * blind)
  BY FactorKeeps
<1>2. u * (blind * den) <= u * (num * whole)
  BY FactorKeeps
<1>3. num * (u * whole) <= num * length
  BY FactorKeeps
<1>4. /\ time * den = den * time
      /\ den * (u * blind) = u * (blind * den)
      /\ u * (num * whole) = num * (u * whole)
  OBVIOUS
<1>5. /\ den * time \in Int /\ u * (blind * den) \in Int
      /\ num * (u * whole) \in Int /\ num * length \in Int
  OBVIOUS
<1> QED BY ONLY <1>1, <1>2, <1>3, <1>4, <1>5

-----------------------------------------------------------------------------
(* What fitting leaves of the lists. *)

\* A sequence is the end of another.
Trailing(short, long) ==
  \E d \in Nat :
    /\ Len(long) = d + Len(short)
    /\ \A n \in 1..Len(short) : short[n] = long[d + n]

\* Of the gaps some are left, of the violations the last ones.
Cut(view, shown) ==
  /\ \E j \in Nat : shown.gaps = At(view.gaps, Left(view.gaps, j))
  /\ Trailing(shown.violations, view.violations)

\* A sequence is the end of itself.
LEMMA TrailsItself ==
  ASSUME NEW T, NEW s \in Seq(T) PROVE Trailing(s, s)
<1>1. Len(s) \in Nat /\ Len(s) = 0 + Len(s) /\ \A n \in 1..Len(s) : s[n] = s[0 + n]
  OBVIOUS
<1> QED BY <1>1 DEF Trailing

\* Dropping any number of items leaves a cut,
LEMMA ViewCuts ==
  ASSUME NEW R, NEW G, NEW V, NEW view, Viewed(view, R, G, V),
         NEW r \in Nat, NEW g \in Nat, NEW v \in Nat, Sized(view, r, g, v),
         NEW k \in Nat, k <= r + g + v
  PROVE  Dropped(view, k).violations \in Seq(V) /\ Cut(view, Dropped(view, k))
<1>1. view.gaps \in Seq(G) /\ view.violations \in Seq(V) /\ Gaps(view.gaps, G)
  BY ViewParts
<1>2. r = Len(view.rows) /\ g = Len(view.gaps) /\ v = Len(view.violations)
  BY DEF Sized
<1>4. Trailing(view.violations, view.violations)
  BY <1>1, TrailsItself
<1>5. CASE k <= r
  <2>1. Dropped(view, k) = [rows |-> SubSeq(view.rows, 1, r - k),
                            gaps |-> view.gaps, violations |-> view.violations]
    BY <1>5, RowsDropped
  <2>2. view.gaps = At(view.gaps, Left(view.gaps, 0))
    BY <1>1, GapsLeft
  <2>3. Dropped(view, k).gaps = view.gaps /\ Dropped(view, k).violations = view.violations
    BY <2>1
  <2> QED BY <1>1, <1>4, <2>2, <2>3 DEF Cut
<1>6. CASE r <= k /\ k <= r + g
  <2>1. PICK j \in Nat : j <= g /\ k = r + j
    <3>1. k - r \in Nat /\ k - r <= g /\ k = r + (k - r)
      BY <1>6
    <3> QED BY <3>1
  <2>2. Dropped(view, k) = [rows |-> <<>>, gaps |-> At(view.gaps, Left(view.gaps, j)),
                            violations |-> view.violations]
    BY <2>1, GapsDropped
  <2>3. /\ Dropped(view, k).gaps = At(view.gaps, Left(view.gaps, j))
        /\ Dropped(view, k).violations = view.violations
    BY <2>2
  <2> QED BY <1>1, <1>4, <2>3 DEF Cut
<1>7. CASE r + g <= k
  <2>1. PICK c \in Nat, m \in Nat : c = k - r - g /\ c + m = v
    <3>1. k - r - g \in Nat /\ v - (k - r - g) \in Nat /\ (k - r - g) + (v - (k - r - g)) = v
      BY <1>7
    <3> QED BY <3>1
  <2>2. Dropped(view, k) = [rows |-> <<>>, gaps |-> <<>>,
                            violations |-> SubSeq(view.violations, k - r - g + 1, v)]
    BY <1>7, ViolationsDropped
  <2>3. PICK s : s = SubSeq(view.violations, c + 1, v)
    OBVIOUS
  <2>4. /\ Dropped(view, k).gaps = <<>> /\ Dropped(view, k).violations = s
    BY <2>1, <2>2, <2>3
  <2>5. s \in Seq(V) /\ Len(s) = m /\ \A n \in 1..m : s[n] = view.violations[c + n]
    <3>1. PICK t \in Seq(V) : t = view.violations /\ Len(t) = c + m
      BY <1>1, <1>2, <2>1
    <3>2. s = SubSeq(t, c + 1, c + m)
      BY <2>1, <2>3, <3>1
    <3>3. s \in Seq(V) /\ Len(s) = m /\ \A n \in 1..m : s[n] = t[c + n]
      BY ONLY <3>1, <3>2, t \in Seq(V), c \in Nat, m \in Nat
    <3> QED BY <3>1, <3>3
  <2>6. Trailing(s, view.violations)
    BY <1>2, <2>1, <2>5 DEF Trailing
  <2>7. At(view.gaps, Left(view.gaps, g)) = <<>>
    BY <1>1, <1>2, GapsLeft
  <2> QED BY <2>4, <2>5, <2>6, <2>7 DEF Cut
<1> QED BY <1>5, <1>6, <1>7

\* whatever the sizes of the parts,
LEMMA DroppedCuts ==
  ASSUME NEW R, NEW G, NEW V, NEW view, Viewed(view, R, G, V), NEW k \in Nat, k <= Items(view)
  PROVE  Dropped(view, k).violations \in Seq(V) /\ Cut(view, Dropped(view, k))
<1>1. PICK r \in Nat, g \in Nat, v \in Nat : Sized(view, r, g, v) /\ Items(view) = r + g + v
  BY ViewSized
<1> QED BY <1>1, ViewCuts

\* and so does fitting.
LEMMA FittedCuts ==
  ASSUME NEW R, NEW G, NEW V, NEW view, Viewed(view, R, G, V), NEW limit \in Int,
         NEW shown, shown = Fit(view, limit), shown # TooBig
  PROVE  shown.violations \in Seq(V) /\ Cut(view, shown)
<1>1. PICK k \in 0..Items(view) : Fit(view, limit) = Dropped(view, k)
  BY FitIs
<1>2. k \in Nat /\ k <= Items(view)
  BY ViewParts
<1> QED BY <1>1, <1>2, DroppedCuts

-----------------------------------------------------------------------------
(* The last word about a rule. *)

\* The end of the latest is the latest.
LEMMA LatestStill ==
  ASSUME NEW short \in Seq(Numbered), NEW long \in Seq(Numbered), Trailing(short, long),
         NEW passing, Latest(long, passing)
  PROVE  Latest(short, passing)
<1>1. PICK d \in Nat, m \in Nat : m = Len(short) /\ Len(long) = d + m
                                   /\ \A n \in 1..m : short[n] = long[d + n]
  <2>1. Len(short) \in Nat
    OBVIOUS
  <2> QED BY ONLY Trailing(short, long), <2>1 DEF Trailing
<1>2. PICK e \in Nat : /\ Len(passing) = e + Len(long)
                       /\ \A n \in 1..Len(long) : /\ long[n].transition = passing[e + n].transition
                                                  /\ long[n].ts = passing[e + n].ts
  BY DEF Latest
<1>3. PICK x \in Nat : x = e + d
  OBVIOUS
<1>4. Len(passing) = x + m
  BY <1>1, <1>2, <1>3
<1>5. ASSUME NEW n \in 1..m
      PROVE  short[n].transition = passing[x + n].transition /\ short[n].ts = passing[x + n].ts
  <2>1. PICK i \in Nat : i = d + n /\ i \in 1..Len(long)
    BY <1>1
  <2>2. e + i = x + n
    BY <1>3, <2>1
  <2>3. short[n] = long[i]
    BY <1>1, <2>1
  <2> QED BY <1>2, <2>1, <2>2, <2>3
<1> QED BY <1>1, <1>4, <1>5 DEF Latest

\* The places of a rule in a list.
Of(list, rule) == {n \in 1..Len(list) : list[n].transition.rule = rule}

\* What was said last of a rule in the end of a story was said last in all of it.
LEMMA LastWord ==
  ASSUME NEW short \in Seq(Numbered), NEW long \in Seq(Stamped), Latest(short, long), NEW rule,
         OfRule(short, rule) # <<>>
  PROVE  /\ OfRule(long, rule) # <<>>
         /\ Last(OfRule(long, rule)) \in Stamped
         /\ Last(OfRule(long, rule)).transition = Last(OfRule(short, rule)).transition
         /\ Last(OfRule(long, rule)).ts = Last(OfRule(short, rule)).ts
<1>1. PICK m \in Nat, l \in Nat : m = Len(short) /\ l = Len(long)
  OBVIOUS
<1>2. PICK e \in Nat : /\ l = e + m
                       /\ \A n \in 1..m : /\ short[n].transition = long[e + n].transition
                                          /\ short[n].ts = long[e + n].ts
  BY <1>1 DEF Latest
<1>3. PICK P : P = Of(short, rule)
  OBVIOUS
<1>4. PICK Q : Q = Of(long, rule)
  OBVIOUS
<1>5. P \in SUBSET (1..m) /\ Q \in SUBSET (1..l)
  BY <1>1, <1>3, <1>4 DEF Of
<1>6. OfRule(short, rule) = At(short, P) /\ OfRule(long, rule) = At(long, Q)
  BY <1>3, <1>4 DEF OfRule, Of
<1>7. P # {}
  BY <1>1, <1>5, <1>6, AtEmpty
<1>8. PICK p \in P : \A q \in P : q <= p
  <2> DEFINE D == {i \in Nat : i <= m /\ m - i \in P}
  <2>1. D # {}
    <3>1. PICK q \in P : TRUE
      BY <1>7
    <3>2. q \in 1..m /\ m - q \in Nat /\ m - (m - q) = q
      BY <1>5
    <3>3. m - q \in D
      BY <3>2
    <3> QED BY <3>3
  <2>2. D \subseteq Nat
    OBVIOUS
  <2>3. PICK i \in D : \A j \in D : i <= j
    <3> HIDE DEF D
    <3> QED BY <2>1, <2>2, LeastNat
  <2>4. m - i \in P /\ i \in Nat
    BY <2>3
  <2>5. ASSUME NEW q \in P PROVE q <= m - i
    <3>1. q \in 1..m /\ m - q \in Nat /\ m - q <= m /\ m - (m - q) = q
      BY <1>5
    <3>2. m - q \in D
      BY <3>1
    <3>3. i <= m - q
      BY <2>3, <3>2
    <3> QED BY <2>4, <3>1, <3>3
  <2> QED BY <2>4, <2>5
<1>9. p \in 1..m /\ short[p].transition.rule = rule
  BY <1>1, <1>3, <1>5 DEF Of
<1>10. PICK x \in Nat : x = e + p
  BY <1>9
<1>11. x \in 1..l /\ long[x].transition = short[p].transition /\ long[x].ts = short[p].ts
  BY <1>2, <1>9, <1>10
<1>12. x \in Q
  BY <1>1, <1>4, <1>9, <1>11 DEF Of
<1>13. ASSUME NEW y \in Q PROVE y <= x
  <2> SUFFICES ASSUME y > x PROVE FALSE
    BY <1>5
  <2>1. y \in 1..l /\ long[y].transition.rule = rule
    BY <1>1, <1>4, <1>5 DEF Of
  <2>2. PICK n \in 1..m : y = e + n /\ n > p
    <3>1. y - e \in 1..m /\ y = e + (y - e) /\ y - e > p
      BY <1>2, <1>9, <1>10, <2>1
    <3> QED BY <3>1
  <2>3. short[n].transition.rule = rule
    BY <1>2, <2>1, <2>2
  <2>4. n \in P
    BY <1>1, <1>3, <2>3 DEF Of
  <2> QED BY <1>8, <1>9, <2>2, <2>4
<1>14. /\ At(short, P) # <<>> /\ At(short, P)[Len(At(short, P))] = short[p]
  BY <1>1, <1>5, <1>8, AtLast
<1>15. /\ At(long, Q) # <<>> /\ At(long, Q)[Len(At(long, Q))] = long[x]
  BY <1>1, <1>5, <1>12, <1>13, AtLast
<1>16. long[x] \in Stamped
  BY <1>1, <1>11
<1> QED BY <1>6, <1>11, <1>14, <1>15, <1>16 DEF Last

-----------------------------------------------------------------------------
(* The verdicts. *)

\* A digest of a successful report is a cut of what there was to show.
LEMMA ShownIsCut ==
  ASSUME Stored, PassTyped, ReportInv, command = "report", exit = SUCCESS
  PROVE  /\ digest.shown.violations \in Seq(Numbered) /\ Cut(FullView, digest.shown)
         /\ window \in [since : Int, until : Int]
<1>1. /\ digest # NoDigest /\ digest.shown # TooBig
      /\ digest = [full |-> FullView, shown |-> Fit(FullView, filter.limit)]
      /\ window \in [since : Int, until : Int]
  BY DEF ReportInv, Emitted
<1>2. PICK view, limit, shown : view = FullView /\ limit = filter.limit /\ shown = digest.shown
  OBVIOUS
<1>3. limit \in Int /\ Viewed(view, ShownRow, Spans, Numbered)
  BY <1>2, ShowTyped, FullIsView DEF ReportInv
<1>4. shown = Fit(view, limit) /\ shown # TooBig
  BY <1>1, <1>2
<1>5. shown.violations \in Seq(Numbered) /\ Cut(view, shown)
  BY ONLY <1>3, <1>4, FittedCuts
<1> QED BY <1>1, <1>2, <1>5

\* The log was alive at the end of its window.
LEMMA FreshIsAlive ==
  ASSUME PassTyped, ReportInv, command = "report", NEW now \in Int,
         window \in [since : Int, until : Int], Fresh(now)
  PROVE  AliveAtTheEnd /\ now \in window.until .. window.until + MaxAge * Second
<1>1. PICK u \in Int : u = window.until
  OBVIOUS
<1>2. /\ now - u \in 0..MaxAge * Second /\ agg.samples > 0
      /\ u - agg.last \in 0..interval * FreshMultiple * Second
  BY <1>1 DEF Fresh
<1>3. PICK t \in Seq(Int), l \in Nat :
        t = Times /\ l = Len(seen) /\ Len(t) = l /\ \A n \in 1..l : t[n] = Instant(n)
  BY TimesAre
<1>4. PICK w : w = interval * GapMultiplier * Second /\ Summary(agg, t, w)
  BY <1>3 DEF ReportInv, Accumulated
<1>5. agg.samples = l /\ l > 0 /\ agg.last = t[l]
  <2>1. agg.samples = l
    BY <1>3, <1>4 DEF Summary
  <2>2. l > 0
    BY <1>2, <2>1
  <2>3. t # <<>>
    BY <1>3, <2>2
  <2> QED BY <1>3, <1>4, <2>1, <2>2, <2>3 DEF Summary
<1>6. window.until - Instant(l) <= interval * FreshMultiple * Second
  BY <1>1, <1>2, <1>3, <1>5
<1>7. AliveAtTheEnd
  BY <1>3, <1>5, <1>6 DEF AliveAtTheEnd
<1>8. now \in u .. u + MaxAge * Second
  <2>1. PICK age \in Int : age = MaxAge * Second
    BY ReconcileAssumption, SecondAssumption
  <2> QED BY <1>2, <2>1
<1> QED BY <1>1, <1>7, <1>8

\* A recovery is the last word of the whole log on its rule.
LEMMA RecoveryIsEarned ==
  ASSUME PassTyped, Stored, ReportInv, command = "report", exit = SUCCESS,
         NEW incident \in Incidents, NEW fresh, Judged(incident, fresh) = "recovered"
  PROVE  LET story == Story(incident.rule) IN
         /\ fresh
         /\ story # <<>>
         /\ Last(story).transition.state = "cleared"
         /\ Last(story).ts > incident.evidence
<1>1. PICK all, few : all \in Seq(Stamped) /\ all = derived /\ few = kept /\ few = Newest(all)
  BY DEF ReportInv, Retained
<1>2. PICK long, full, short, rule :
        /\ long = At(all, Passing(all, filter, agg))
        /\ full = ShownViolations(agg, filter, few)
        /\ short = digest.shown.violations
        /\ rule = incident.rule
  OBVIOUS
<1>3. long \in Seq(Stamped) /\ full \in Seq(Numbered) /\ Latest(full, long)
  BY ONLY <1>1, <1>2, ViolationsShown
<1>4. short \in Seq(Numbered) /\ Trailing(short, full)
  <2>1. FullView.violations = full
    BY <1>1, <1>2 DEF FullView
  <2> QED BY <1>2, <2>1, ShownIsCut DEF Cut
<1>5. Latest(short, long)
  BY ONLY <1>3, <1>4, LatestStill
<1>6. PICK mine : mine = OfRule(short, rule)
  OBVIOUS
<1>7. /\ fresh /\ mine # <<>>
      /\ Last(mine).transition.state # "fired"
      /\ incident.evidence # NoInstant
      /\ ~(Last(mine).ts <= incident.evidence)
  BY <1>2, <1>6 DEF Judged
<1>8. /\ OfRule(long, rule) # <<>>
      /\ Last(OfRule(long, rule)) \in Stamped
      /\ Last(OfRule(long, rule)).transition = Last(mine).transition
      /\ Last(OfRule(long, rule)).ts = Last(mine).ts
  BY ONLY <1>3, <1>4, <1>5, <1>6, <1>7, LastWord
<1>9. PICK story : story = OfRule(long, rule) /\ story = Story(incident.rule)
  BY <1>1, <1>2 DEF Story
<1>10. PICK last \in Stamped : last = Last(story)
  BY <1>8, <1>9
<1>11. last.ts \in Int /\ last.transition.state \in {"fired", "cleared"}
  BY DEF Stamped, Announcements
<1>12. incident.evidence \in Int
  BY <1>7, ReconcileAssumption
<1> QED BY <1>7, <1>8, <1>9, <1>10, <1>11, <1>12

\* A log that is certified has no other holes than those listed.
LEMMA CertificateIsEarned ==
  ASSUME PassTyped, Stored, ReportInv, command = "report", exit = SUCCESS,
         NEW fresh, Health(fresh) = "ok", window \in [since : Int, until : Int]
  PROVE  /\ fresh
         /\ \A h \in Holes : Extent(h) < (MaxSingleGap + 1) * Second
         /\ Tolerable(BlindTime - LeftOut)
<1>1. PICK gaps : gaps = digest.shown.gaps
  OBVIOUS
<1>2. /\ fresh
      /\ \A n \in 1..Len(gaps) : Seconds(gaps[n]) <= MaxSingleGap
      /\ WithinDensity(Blind(gaps))
      /\ Len(gaps) = agg.gapsTotal
  BY <1>1 DEF Health
<1>3. PICK listed, holes, n : /\ listed = agg.gaps /\ holes = Holes /\ n = agg.gapsTotal
                              /\ Keeps(listed, n, holes)
  <2>1. PICK t, w : t = Times /\ w = interval * GapMultiplier * Second /\ Summary(agg, t, w)
    BY DEF ReportInv, Accumulated
  <2>2. Holes = Wide(t, w)
    BY <2>1, HolesAre
  <2> QED BY <2>1, <2>2 DEF Summary
<1>4. /\ listed \in Seq(Spans) /\ IsFiniteSet(holes) /\ n = Cardinality(holes)
      /\ \A i \in 1..Len(listed) : listed[i] \in holes
      /\ \A i, j \in 1..Len(listed) : i < j => listed[i].to <= listed[j].from
  BY <1>3 DEF Keeps, ListedGaps
<1>5. PICK j \in Nat : gaps = At(listed, Left(listed, j))
  <2>1. FullView.gaps = listed
    BY <1>3 DEF FullView
  <2> QED BY <1>1, <2>1, ShownIsCut DEF Cut
<1>6. PICK P \in SUBSET (1..Len(listed)) : P = Left(listed, j)
  BY DEF Left
<1>7. PICK k, o : /\ k \in Nat /\ gaps \in Seq(Spans) /\ Len(gaps) = k
                  /\ Enumerates(o, k, P) /\ \A i \in 1..k : gaps[i] = listed[o[i]]
  BY <1>4, <1>5, <1>6, AtIs
<1>8. \A i \in 1..k : o[i] \in 1..Len(listed)
  BY <1>7 DEF Enumerates
<1>9. \A i, m \in 1..k : i < m => gaps[i].to <= gaps[m].from
  <2> SUFFICES ASSUME NEW i \in 1..k, NEW m \in 1..k, i < m PROVE gaps[i].to <= gaps[m].from
    OBVIOUS
  <2>1. o[i] < o[m] /\ o[i] \in 1..Len(listed) /\ o[m] \in 1..Len(listed)
    BY <1>7, <1>8 DEF Enumerates
  <2>2. listed[o[i]].to <= listed[o[m]].from
    BY <1>4, <2>1
  <2> QED BY <1>7, <2>2
<1>10. ListedGaps(gaps) \in SUBSET holes
  BY <1>4, <1>7, <1>8 DEF ListedGaps
<1>11. Cardinality(ListedGaps(gaps)) = k
  BY <1>7, <1>9, ListedOnce
<1>12. ListedGaps(gaps) = holes
  BY <1>2, <1>3, <1>4, <1>7, <1>10, <1>11, FS_Subset
<1>13. Tolerable(BlindTime - LeftOut)
  <2>1. PICK time \in Int, blind \in Int :
          time = BlindTime - LeftOut /\ blind = Blind(gaps) /\ time <= Second * blind
    BY <1>3, <1>7, <1>9, <1>12, BlindIs
  <2>2. PICK length \in Int : length = window.until - window.since
    OBVIOUS
  <2>3. PICK whole \in Int : whole = WindowSeconds /\ Second * whole <= length
    BY <2>2, WholeSecondsIs DEF WindowSeconds
  <2>4. PICK num \in Nat, den \in Nat : num = Density.num /\ den = Density.den
    BY ReconcileAssumption
  <2>5. blind * den <= num * whole
    BY <1>2, <2>1, <2>3, <2>4 DEF WithinDensity
  <2>6. PICK u \in Nat : u = Second
    BY SecondAssumption
  <2>7. time * den <= num * length
    BY <2>1, <2>3, <2>5, <2>6, SecondsSuffice
  <2> QED BY <2>1, <2>2, <2>4, <2>7 DEF Tolerable
<1>14. \A h \in Holes : Extent(h) < (MaxSingleGap + 1) * Second
  <2> SUFFICES ASSUME NEW h \in Holes PROVE Extent(h) < (MaxSingleGap + 1) * Second
    OBVIOUS
  <2>1. PICK i \in 1..Len(gaps) : h = gaps[i]
    BY <1>3, <1>12 DEF ListedGaps
  <2>2. h \in Spans
    BY <1>7, <2>1
  <2>3. PICK e \in Int, q \in Int, u \in Nat, m \in Nat :
          /\ e = Extent(h) /\ q = Seconds(h) /\ u = Second /\ m = MaxSingleGap
          /\ e < u * q + u /\ q <= m
    <3>1. PICK e \in Int : e = Extent(h)
      BY <2>2 DEF Spans, Extent
    <3>2. Seconds(h) = WholeSeconds(e)
      BY <3>1 DEF Seconds
    <3>3. Seconds(h) <= MaxSingleGap
      BY <1>2, <2>1
    <3> QED BY <3>1, <3>2, <3>3, WholeSecondsIs, SecondAssumption, ReconcileAssumption
  <2>4. u * q <= u * m
    BY <2>3, FactorKeeps
  <2>5. (m + 1) * u = u * m + u /\ u * q \in Int /\ u * m \in Int
    OBVIOUS
  <2>6. e < (m + 1) * u
    BY ONLY <2>3, <2>4, <2>5
  <2> QED BY <2>3, <2>6
<1> QED BY <1>2, <1>13, <1>14

\* An incident is closed, and a log certified, only for a reason that lies in
\* the whole log and not just in the digest that fitted: the last word on the
\* rule is an all-clear after the last evidence of the incident; no hole is a
\* whole second wider than allowed, and all holes together are not wider, once
\* the part of a second is taken off each that its whole seconds leave out; and
\* the log was alive at the end of a window that is not over for long. For every
\* log, filter, cap, moment and unit of time (reconcile_incidents.py).
THEOREM VerdictsAreSound == Spec => []VerdictsAreEarned
<1>1. Stored /\ PassTyped /\ ReportInv => VerdictsAreEarned
  <2> SUFFICES ASSUME Stored, PassTyped, ReportInv PROVE VerdictsAreEarned
    OBVIOUS
  <2>1. CASE reconciled = NotYet \/ reconciled = Refused
    <3>1. reconciled.verdict # "recovered" /\ reconciled.health # "ok"
      BY <2>1 DEF NotYet, Refused
    <3> QED BY <3>1 DEF VerdictsAreEarned
  <2>2. CASE reconciled # NotYet /\ reconciled # Refused
    <3>1. /\ command = "report" /\ exit = SUCCESS
          /\ reconciled.incident \in Incidents /\ reconciled.now \in Int
          /\ reconciled.verdict = Judged(reconciled.incident, Fresh(reconciled.now))
          /\ reconciled.health = Health(Fresh(reconciled.now))
      BY <2>2, TimeAssumption DEF ReportInv, Concluded
    <3>2. PICK incident, now, fresh :
            /\ incident \in Incidents /\ incident = reconciled.incident
            /\ now \in Int /\ now = reconciled.now /\ fresh = Fresh(now)
      BY <3>1
    <3>3. window \in [since : Int, until : Int]
      BY <3>1, ShownIsCut
    <3>4. fresh => AliveAtTheEnd /\ now \in window.until .. window.until + MaxAge * Second
      BY <3>1, <3>2, <3>3, FreshIsAlive
    <3>5. ASSUME reconciled.verdict = "recovered"
          PROVE  LET story == Story(incident.rule) IN
                 /\ fresh
                 /\ story # <<>>
                 /\ Last(story).transition.state = "cleared"
                 /\ Last(story).ts > incident.evidence
      <4>1. Judged(incident, fresh) = "recovered"
        BY <3>1, <3>2, <3>5
      <4> QED BY <3>1, <3>2, <4>1, RecoveryIsEarned
    <3>6. ASSUME reconciled.health = "ok"
          PROVE  /\ fresh
                 /\ \A h \in Holes : Extent(h) < (MaxSingleGap + 1) * Second
                 /\ Tolerable(BlindTime - LeftOut)
      <4>1. Health(fresh) = "ok"
        BY <3>1, <3>2, <3>6
      <4> QED BY <3>1, <3>3, <4>1, CertificateIsEarned
    <3> QED BY <3>2, <3>4, <3>5, <3>6 DEF VerdictsAreEarned
  <2> QED BY <2>1, <2>2
<1>2. FilesInv /\ PassInv => Stored /\ PassTyped
  BY DEF FilesInv, PassInv
<1> QED BY <1>1, <1>2, FilesInvariant, PassInvariant, ReportInvariant, PTL
==============================================================================
