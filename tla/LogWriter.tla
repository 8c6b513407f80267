----------------------------- MODULE LogWriter -------------------------------
(***************************************************************************)
(* The writer of the daily log files (logger.rs: LogWriter) and the        *)
(* directory it shares with the readers.  A file is named after the day a  *)
(* record was written, in the time zone of the writer; the first record of *)
(* another day closes the file, opens that day's and prunes the files that *)
(* are older than the retention.                                           *)
(*                                                                         *)
(* Instants are integers, DayLength of them a day.  What a file holds is a *)
(* sequence of fragments, one per write that left bytes; a write cut short *)
(* leaves a fragment that does not end its line.  Fragments the writer did *)
(* not write come from earlier loggers and by-hand edits: their form says  *)
(* how a reader sees them (Replay).                                        *)
(***************************************************************************)
EXTENDS Integers, Sequences, FiniteSetsExt

CONSTANTS
  DayLength,    \* instants in a day
  LastDay,      \* bound: the days 0..LastDay
  Instants,     \* bound: the values of the clock explored
  MaxFragments, \* bound: the fragments of all files together
  Worlds,       \* the starts explored: [data, zones, retention, clock]: what the files
                \* hold, by day; <<writer, reader>>, the offsets of the two from UTC;
                \* retention_days; the time
  Polled,       \* what a poll of the sensors can yield
  Recorded,     \* what the fragments of earlier loggers and by-hand edits hold
  NoDay         \* no current date

Days == 0..LastDay

ASSUME TimeAssumption ==
  /\ DayLength \in Nat \ {0} /\ LastDay \in Nat
  /\ Instants \subseteq Int /\ NoDay \notin Int
  /\ \A w \in Worlds : w.zones \in Int \X Int /\ w.retention \in Int /\ w.clock \in Int

\* The civil date of an instant in a zone.
DayOf(instant, zone) == (instant + zone) \div DayLength

Fragment(form, instant, sample, ends) ==
  [form |-> form, ts |-> instant, sample |-> sample, ends |-> ends]

Forms == {"json", "python", "foreign", "nonrecord", "garbage", "oversized", "blank"}

Fragments == [form : Forms, ts : Int, sample : Polled \cup Recorded, ends : BOOLEAN]

\* The history is laid out by the zone of the writer, like everything else, and
\* the days it can write on have their place.
ASSUME WorldsAssumption ==
  \A w \in Worlds :
    /\ w.data \in [Days -> Seq(Fragments)]
    /\ \A d \in Days : \A n \in 1..Len(w.data[d]) : DayOf(w.data[d][n].ts, w.zones[1]) = d
    /\ \A instant \in Instants \cup {w.clock} : DayOf(instant, w.zones[1]) \in Days

VARIABLES
  clock,      \* the wall clock
  zones,      \* the zones of this exploration
  retention,  \* retention_days
  files,      \* the days whose file is in the directory
  data,       \* by day, the fragments of the file (kept for a reader that holds it open)
  writer,     \* the LogWriter of the running logger
  firstDay,   \* history: the day of the first record this logger tried to write
  stuck       \* history: old files the last pruning left, or that were made since

writerVars == <<clock, zones, retention, files, data, writer, firstDay, stuck>>

Today == DayOf(clock, zones[1])

Stopped == [running |-> FALSE, date |-> NoDay, open |-> FALSE]

WriterInit ==
  /\ \E w \in Worlds :
       /\ zones = w.zones
       /\ retention = w.retention
       /\ clock = w.clock
       /\ data = w.data
       /\ files = {d \in Days : w.data[d] # <<>>}
  /\ writer = Stopped
  /\ firstDay = NoDay
  /\ stuck = {}

\* cleanup_old_files: strictly older than the cutoff; 0 switches pruning off.
Expired(today) == IF retention <= 0 THEN {} ELSE {d \in files : d < today - retention}

\* A removal that fails leaves the file and nothing else.
Cleanup(today, present) ==
  \E kept \in {{}, Expired(today)} :
    /\ files' = present \ (Expired(today) \ kept)
    /\ stuck' = kept

\* LogWriter::new, when the logger starts.
StartLogger ==
  /\ ~writer.running
  /\ writer' = [Stopped EXCEPT !.running = TRUE]
  /\ firstDay' = NoDay
  /\ Cleanup(Today, files)
  /\ UNCHANGED <<clock, zones, retention, data>>

\* The logger is stopped or killed.
StopLogger ==
  /\ writer.running
  /\ writer' = Stopped
  /\ firstDay' = NoDay
  /\ UNCHANGED <<clock, zones, retention, files, data, stuck>>

\* What one write_all leaves behind: the line, nothing, or a part of it; a
\* part may be the whole record without its line ending.
Writes(sample) ==
  {<<Fragment("json", clock, sample, TRUE)>>, <<>>,
   <<Fragment("garbage", clock, sample, FALSE)>>, <<Fragment("json", clock, sample, FALSE)>>}

First(day) == IF firstDay = NoDay THEN day ELSE firstDay

\* Seeded fault: a file that is open is taken for today's.
FileIsCurrentAny == writer.open

FileIsCurrent == writer.date = Today /\ writer.open

\* write_record on the file that is open: one write.
Append1(sample) ==
  /\ writer.running /\ FileIsCurrent
  /\ \E w \in Writes(sample) : data' = [data EXCEPT ![writer.date] = @ \o w]
  /\ UNCHANGED <<clock, zones, retention, files, writer, firstDay, stuck>>

\* Seeded fault: retention runs only when a file was open.
RolledOverOpen == writer.open

RolledOver == writer.date # NoDay

\* ensure_file on another day (or after a failure), and the write.
Rotate(sample) ==
  /\ writer.running /\ ~FileIsCurrent
  /\ writer' = [writer EXCEPT !.date = Today, !.open = TRUE]
  /\ firstDay' = First(Today)
  /\ LET found == IF Today \in files THEN data[Today] ELSE <<>>
     IN  \E w \in Writes(sample) : data' = [data EXCEPT ![Today] = found \o w]
  /\ IF RolledOver
       THEN Cleanup(Today, files \cup {Today})
       ELSE files' = files \cup {Today} /\ UNCHANGED stuck
  /\ UNCHANGED <<clock, zones, retention>>

\* The day's file cannot be opened: the record is dropped with a warning, and
\* the date is already today's.
RotateFails ==
  /\ writer.running /\ ~FileIsCurrent
  /\ writer' = [writer EXCEPT !.date = Today, !.open = FALSE]
  /\ firstDay' = First(Today)
  /\ UNCHANGED <<clock, zones, retention, files, data, stuck>>

\* The wall clock moves on, or is set back.
Tick ==
  /\ clock' \in Instants \ {clock}
  /\ UNCHANGED <<zones, retention, files, data, writer, firstDay, stuck>>

\* Bound: the directory has room for one more fragment.
Room == MapThenSumSet(LAMBDA d : Len(data[d]), Days) < MaxFragments

LoggerStep ==
  \/ StartLogger
  \/ StopLogger
  \/ \E sample \in Polled : Room /\ (Append1(sample) \/ Rotate(sample))
  \/ RotateFails

-----------------------------------------------------------------------------

\* A record lies in the file of the day it was written on, also when the file
\* of a new day could not be opened or the clock was set back over midnight
\* (ensure_file).  The readers find records by that name alone.
RecordsInTheirDay ==
  \A d \in Days : \A n \in 1..Len(data[d]) : DayOf(data[d][n].ts, zones[1]) = d

\* Once a logger writes on another day than its first, no file older than the
\* retention is left but those that could not be removed, even if the first
\* attempt to open the new day's file failed ("re-run retention on each daily
\* rollover", ensure_file).
RolloverPurges ==
  (writer.open /\ writer.date # firstDay) =>
     \A d \in files \ stuck : retention > 0 => d >= writer.date - retention
=============================================================================
