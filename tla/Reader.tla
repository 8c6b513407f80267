------------------------------- MODULE Reader --------------------------------
(***************************************************************************)
(* What `report` and `export` have in common (report.rs and export.rs: run;*)
(* the window parsing of digest.rs): the window is resolved in the zone of *)
(* the reader, the files that may hold a part of it are selected, and      *)
(* their lines are streamed, while the logger writes and prunes.           *)
(***************************************************************************)
EXTENDS Replay, Config, TimeUnits

CONSTANTS
  Requests,    \* the command lines explored: [since, until, last] and, for
               \* Report, what to show; for Export, what --out denotes
  MaxSeconds,  \* the largest i64
  Earliest     \* the earliest instant that can be represented

Bad     == NoWindow   \* what cannot be parsed
SUCCESS == 0
FATAL   == 1
USAGE   == 2
Running == 99         \* no exit code yet

\* A time on the command line, and a duration.
When     == [form : {"instant", "local", "date", "bad"}, at : Int]
Duration == Seq([count : Nat, unit : {"s", "d"}])

ASSUME RequestsAssumption ==
  \A r \in Requests :
    /\ r.until \in When \cup {Unset} /\ r.since \in When \cup {Unset}
    /\ r.last \in Duration

\* A day is a number of seconds.
ASSUME DayAssumption == DayLength % Second = 0

ASSUME NoWindowAssumption == NoWindow \notin [since : Int, until : Int] \cup Int

\* The names of the files follow the zone of the writer; candidate_files pads
\* the days of the window for zones up to a day apart.
ASSUME ZonesAssumption ==
  \A w \in Worlds : w.zones[1] - w.zones[2] \in -DayLength..DayLength

VARIABLES
  command,  \* "report" or "export"
  request,  \* its arguments
  pc,       \* where its run is
  window,   \* the resolved window
  exit,     \* the exit code
  chosen,   \* history: the days whose files were selected
  start,    \* history: what each file held then
  changed,  \* history: the days whose file was written to or made anew since
  lost,     \* history: files that could not be opened or read to their end
  seen      \* history: the lines of the samples taken into account, in order, and their places

readerVars == <<command, request, pc, window, exit, chosen, start, changed, lost, seen>>

-----------------------------------------------------------------------------
(* The time arguments. *)

\* parse_duration_secs: a count of seconds, or a sum of counted units.  Every
\* product and sum is checked; zero is refused.
UnitSeconds(unit) == IF unit = "d" THEN WholeSeconds(DayLength) ELSE 1

DurationSecs(d) ==
  LET Total[n \in 0..Len(d)] ==
        IF n = 0 THEN 0 ELSE Total[n-1] + d[n].count * UnitSeconds(d[n].unit)
      total == Total[Len(d)]
  IN  IF d = <<>> \/ total > MaxSeconds \/ total = 0 THEN Bad ELSE total

\* parse_when: an instant, a local time, or a day (its first or last instant).
ParseWhen(when, zone, edge) ==
  CASE when.form = "instant" -> when.at
    [] when.form = "local"   -> when.at - zone
    [] when.form = "date"    -> IF edge = "start" THEN when.at * DayLength - zone
                                ELSE (when.at + 1) * DayLength - zone - 1
    [] OTHER                 -> Bad

Until(args) == IF args.until = Unset THEN clock ELSE ParseWhen(args.until, zones[2], "end")

Since(args, until) ==
  IF args.since # Unset THEN ParseWhen(args.since, zones[2], "start")
  ELSE LET secs == DurationSecs(args.last)
       IN  IF secs = Bad THEN Bad
           ELSE IF until - secs * Second < Earliest THEN Bad ELSE until - secs * Second

\* A time that does not parse, and an empty window, are usage errors.
WindowOf(args) ==
  LET until == Until(args) IN
  IF until = Bad THEN Bad
  ELSE LET since == Since(args, until)
       IN  IF since = Bad THEN Bad
           ELSE IF since > until THEN Bad
           ELSE [since |-> since, until |-> until]

-----------------------------------------------------------------------------

ReaderInit ==
  /\ ReplayInit
  /\ command \in {"report", "export"}
  /\ request \in Requests
  /\ pc = "config" /\ window = NoWindow /\ exit = Running
  /\ chosen = {} /\ changed = {} /\ lost = {} /\ seen = <<>>
  /\ start = [d \in Days |-> <<>>]

Exits(code) == pc' = "done" /\ exit' = code

\* The window is resolved and the files are selected, before anything else is
\* opened.
Select(next) ==
  /\ pc = "window"
  /\ LET w == WindowOf(request) IN
     IF w = Bad THEN Exits(USAGE) /\ UNCHANGED <<window, chosen, start, replayVars>>
     ELSE /\ pc' = next
          /\ window' = w
          /\ chosen' = CandidateDays(w)
          /\ start' = [d \in Days |-> IF d \in files THEN data[d] ELSE <<>>]
          /\ FromFiles(chosen')
          /\ UNCHANGED exit
  /\ UNCHANGED <<command, request, changed, lost, seen>>

\* Lines that yield no sample for the command: skipped, dropped unread, or
\* parsed and then found to lie outside the window.
Outside == ~InWindow(TheLine.ts, window)

\* Whether the file that was opened is the one that was selected.
Same(d) == d # NoDay /\ IsPrefix(start[d], data[d])

\* Bound: one file at most is lost while it is still in the directory.
OneFailure == Cardinality(lost' \cap files) <= 1

ReadOn ==
  /\ pc = "stream"
  /\ \/ NextFile /\ lost' = IF Same(reading'.day) THEN lost ELSE lost \cup {Min(pending)}
     \/ EndFile  /\ lost' = IF AtEnd THEN lost ELSE lost \cup {reading.day}
     \/ SkipLine(window) /\ UNCHANGED lost
     \/ SilentLine(window) /\ UNCHANGED lost
     \/ SampleLine(window) /\ Outside /\ UNCHANGED lost
  /\ OneFailure
  /\ UNCHANGED <<command, request, pc, window, exit, chosen, start, changed, seen>>

\* A sample of the window is taken into account.
TakeSample ==
  /\ pc = "stream"
  /\ SampleLine(window)
  /\ ~Outside
  /\ seen' = Append(seen, [day |-> reading.day, at |-> reading'.at, line |-> TheLine])
  /\ UNCHANGED <<command, request, pc, window, exit, chosen, start, changed, lost>>

-----------------------------------------------------------------------------

\* The lines of a file as it was selected: where they end, and their form.
LineEnds(d) == {n \in 1..Len(start[d]) : start[d][n].ends \/ n = Len(start[d])}
Whole(d, n) == n = 1 \/ start[d][n-1].ends
FormAt(d, n) == IF Whole(d, n) THEN start[d][n].form ELSE "garbage"

Inside(line) == window.since <= line.ts /\ line.ts <= window.until

\* The places of the fragments in the files of some days.
Places(days) == UNION {[day : {d}, at : 1..Len(start[d])] : d \in days}

\* The records of the window that were on disk when the files were selected.
Promised ==
  {p \in Places(Days \ lost) :
     /\ start[p.day][p.at].ends
     /\ FormAt(p.day, p.at) \in {"json", "python", "foreign"}
     /\ Inside(start[p.day][p.at])}

Later(p, q) == p.day < q.day \/ (p.day = q.day /\ p.at < q.at)

\* What the count of skipped lines must be, if nothing was written meanwhile.
Unreadable ==
  {p \in Places(chosen) :
     /\ p.at \in LineEnds(p.day)
     /\ \/ FormAt(p.day, p.at) \in {"garbage", "oversized"}
        \/ FormAt(p.day, p.at) = "nonrecord" /\ Inside(start[p.day][p.at])}

Undisturbed == lost = {} /\ chosen \cap changed = {}

\* A finished pass has seen every record of the window that was on disk when
\* it began, in any file it could read to the end, once and in file order, and
\* nothing outside the window; its count of skipped lines is exact.  The file
\* names follow the writer's zone and the window the reader's (candidate_files),
\* and lines out of the window are dropped unread (next_tick).
WindowCovered ==
  pc = "stream" /\ AllRead =>
    /\ \A p \in Promised : \E n \in 1..Len(seen) :
         seen[n] = [day |-> p.day, at |-> p.at, line |-> start[p.day][p.at]]
    /\ \A n \in 1..Len(seen) : Inside(seen[n].line)
    /\ \A n \in 2..Len(seen) : Later(seen[n-1], seen[n])
    /\ Undisturbed => skipped = Cardinality(Unreadable)
=============================================================================
