------------------------------- MODULE Replay --------------------------------
(***************************************************************************)
(* Reading daily files back (replay.rs, and the selection of the files in  *)
(* digest.rs), while the logger goes on writing and pruning them.          *)
(*                                                                         *)
(* A line is what lies between two line ends: one fragment, or several     *)
(* glued together after a write that was cut short.  The form of a         *)
(* fragment says how a reader sees it:                                     *)
(*   json       a record as the logger writes it                           *)
(*   python     a record with bare NaN tokens, which strict JSON rejects   *)
(*   foreign    a record with another key order or encoding                *)
(*   nonrecord  JSON with the usual first key that is no sensor record     *)
(*   garbage    anything that is no JSON; also the beginning of a record   *)
(*   oversized  longer than the cap      blank   white space only          *)
(***************************************************************************)
EXTENDS LogWriter, SequencesExt

CONSTANT NoWindow   \* watch --replay reads without a window

VARIABLES
  pending,   \* the days whose files are still to be opened, the earliest first
  reading,   \* the open file: its day, how many of its fragments are consumed, and what
             \* it holds once its name denotes another file
  skipped,   \* skipped_lines
  opened     \* opened_files

replayVars == <<pending, reading, skipped, opened>>

Open(d) == [day |-> d, at |-> 0, replaced |-> FALSE, held |-> <<>>]

NoFile == Open(NoDay)

ReplayInit == pending = {} /\ reading = NoFile /\ skipped = 0 /\ opened = 0

-----------------------------------------------------------------------------

\* Seeded fault: the range of days is not padded.
CandidateDaysExact(window) ==
  {d \in files : DayOf(window.since, zones[2]) <= d /\ d <= DayOf(window.until, zones[2])}

\* candidate_files: the dates of the window as the reader sees them, and a day
\* more on either side, for a writer in another zone.
CandidateDays(window) ==
  {d \in files : DayOf(window.since, zones[2]) - 1 <= d /\ d <= DayOf(window.until, zones[2]) + 1}

\* from_files, with_window: nothing is opened yet.
FromFiles(days) ==
  /\ pending' = days
  /\ reading' = NoFile
  /\ skipped' = 0
  /\ opened' = 0

-----------------------------------------------------------------------------
(* One line. *)

\* read_line_bounded: the fragments up to the next line end, or up to the end
\* of the file as it is now.
EndOfLine(fragments, at) ==
  LET ends == {n \in at+1..Len(fragments) : fragments[n].ends}
  IN  IF ends = {} THEN Len(fragments) ELSE Min(ends)

\* Fragments glued to one line are no JSON.
LineOf(fragments, at) ==
  LET end == EndOfLine(fragments, at)
  IN  IF end = at + 1 THEN fragments[end] ELSE [fragments[end] EXCEPT !.form = "garbage"]

InWindow(instant, window) ==
  window = NoWindow \/ (window.since <= instant /\ instant <= window.until)

\* leading_timestamp: the line begins like a record of the loggers.
HasLeadingTimestamp(line) == line.form \in {"json", "python", "nonrecord", "garbage"}

IsJson(line) == line.form \in {"json", "foreign", "nonrecord"}

\* Seeded fault: whatever begins with a time out of the window is dropped.
ElidedUnread(line, window) ==
  HasLeadingTimestamp(line) /\ ~InWindow(line.ts, window)

\* The precheck: an out-of-window line is dropped unread if it is JSON at all.
Elided(line, window) ==
  HasLeadingTimestamp(line) /\ ~InWindow(line.ts, window) /\ IsJson(line)

\* parse_line: strictly, else with the bare tokens replaced by null.
Parses(line) == line.form \in {"json", "foreign"} \/ line.form = "python"

Outcome(line, window) ==
  CASE line.form = "oversized" -> "skip"
    [] line.form = "blank"     -> "silent"
    [] Elided(line, window)    -> "silent"
    [] Parses(line)            -> "sample"
    [] OTHER                   -> "skip"

-----------------------------------------------------------------------------
(* next_tick, one turn of its loop a step.  What a sample does is up to the *)
(* command that reads it.                                                   *)

NextFile ==
  /\ reading = NoFile
  /\ pending # {}
  /\ pending' = pending \ {Min(pending)}
  /\ \/ Min(pending) \in files /\ opened' = opened + 1 /\ reading' = Open(Min(pending))
     \/ UNCHANGED <<opened, reading>>    \* gone, or it cannot be opened
  /\ UNCHANGED skipped

\* The end of the file, or a read error: the file is left.
EndFile ==
  /\ reading # NoFile
  /\ reading' = NoFile
  /\ UNCHANGED <<pending, skipped, opened>>

\* A file that was pruned stays what it is for the handle that is open.
Content == IF reading.replaced THEN reading.held ELSE data[reading.day]

KeepHandle ==
  reading' = IF reading.day \in files' \ files
               THEN [reading EXCEPT !.replaced = TRUE, !.held = Content]
               ELSE reading

AtEnd == reading # NoFile /\ reading.at = Len(Content)

TheLine == LineOf(Content, reading.at)

Consume(outcome, window) ==
  /\ reading # NoFile /\ ~AtEnd
  /\ Outcome(TheLine, window) = outcome
  /\ reading' = [reading EXCEPT !.at = EndOfLine(Content, @)]
  /\ UNCHANGED <<pending, opened>>

SkipLine(window)   == Consume("skip", window) /\ skipped' = skipped + 1
SilentLine(window) == Consume("silent", window) /\ UNCHANGED skipped
SampleLine(window) == Consume("sample", window) /\ UNCHANGED skipped

AllRead == reading = NoFile /\ pending = {}
=============================================================================
