------------------------------- MODULE Export --------------------------------
(***************************************************************************)
(* `sensorwatch export` (export.rs): the readings of a window as rows of a *)
(* Parquet file.  The input files are selected before the output is        *)
(* opened, and an output that already exists is compared with them before  *)
(* it is truncated: --out may name a log by another path or a hard link.   *)
(*                                                                         *)
(* While export runs the logger writes and prunes; each file operation is  *)
(* a step.                                                                 *)
(***************************************************************************)
EXTENDS Reader

CONSTANTS
  RowsPerGroup,  \* ROWS_PER_ROW_GROUP, 100 000 in the code
  Null           \* the value of a row without one

ASSUME GroupAssumption == RowsPerGroup \in Nat \ {0}

\* An output: whether it exists, and the day whose log it is, if any: by the
\* log's own path (or a symlink to it), or by a hard link.
Output == [exists : BOOLEAN, day : Days \cup {NoDay}, link : {"path", "hard", "none"}]

ASSUME OutputsAssumption ==
  \A r \in Requests : r.out \in Output /\ (r.out.link = "path" => r.out.day \in Days)

output == request.out

VARIABLES
  created,   \* the output did not exist when it was opened
  buffer,    \* rows of the group being filled
  groups,    \* row groups written
  footer     \* the Parquet footer is written

exportVars == <<created, buffer, groups, footer>>

ExportInit ==
  /\ created = FALSE
  /\ buffer = <<>> /\ groups = <<>> /\ footer = FALSE

\* A log under its own path exists as long as the log does.
Exists(o) == IF o.link = "path" THEN o.day \in files ELSE o.exists

UnchangedPass == UNCHANGED <<command, request, window, chosen, start, changed, seen, replayVars>>

\* The config is read for log_dir alone; here broken syntax is an error.
ExportConfig ==
  /\ command = "export" /\ pc = "config"
  /\ \/ pc' = "window" /\ UNCHANGED exit
     \/ Exits(FATAL)
     \/ Exits(USAGE)
  /\ UnchangedPass
  /\ UNCHANGED <<lost, exportVars, writerVars>>

ExportSelect ==
  /\ command = "export"
  /\ Select("open")
  /\ UNCHANGED <<exportVars, writerVars>>

\* create_new, else an open that does not truncate; either may fail.  A symlink
\* whose target is gone exists by its own name: the target is made anew, and the
\* guard judges it all the same.
OpenOutput ==
  /\ command = "export" /\ pc = "open"
  /\ \/ Exits(FATAL) /\ UNCHANGED <<created, files, data>>
     \/ /\ \/ Exists(output) /\ pc' = "guard"
           \/ ~Exists(output) /\ pc' = "truncate"
           \/ ~Exists(output) /\ output.link = "path" /\ pc' = "guard"
        /\ created' = ~Exists(output)
        /\ files' = IF output.link = "path" THEN files \cup {output.day} ELSE files
        /\ data' = [d \in Days |-> IF d \in files' \ files THEN <<>> ELSE data[d]]
        /\ UNCHANGED exit
  /\ stuck' = stuck \cup (files' \ files)
  /\ UnchangedPass
  /\ UNCHANGED <<lost, buffer, groups, footer>>
  /\ UNCHANGED <<clock, zones, retention, writer, firstDay>>

\* Seeded fault: only the paths are compared.
JudgementByPath(unverifiable) ==
  IF output.link = "path" /\ output.day \in chosen \cap files THEN "alias" ELSE "distinct"

\* aliases_selected_input: the inputs in order, each by path and then by file
\* identity; an identity that cannot be obtained ends the comparison.
Judgement(unverifiable) ==
  LET hits == {d \in chosen : d \in unverifiable \/ d = output.day} IN
  IF hits = {} THEN "distinct"
  ELSE IF Min(hits) = output.day
            /\ (output.day \notin unverifiable \/ (output.link = "path" /\ output.day \in files))
    THEN "alias"
  ELSE "unknown"

\* Inputs that are gone cannot be verified, and others may not be readable.
Guard ==
  /\ command = "export" /\ pc = "guard"
  /\ \E denied \in {{}} \cup {{d} : d \in chosen} :
       LET judgement == Judgement(denied \cup (chosen \ files)) IN
       CASE judgement = "alias"    -> Exits(USAGE)
         [] judgement = "unknown"  -> Exits(FATAL)
         [] judgement = "distinct" -> pc' = "truncate" /\ UNCHANGED exit
  /\ UnchangedPass
  /\ UNCHANGED <<lost, exportVars, writerVars>>

\* set_len(0) through the handle, and the Parquet header; either may fail.
Truncate ==
  /\ command = "export" /\ pc = "truncate"
  /\ \/ Exits(FATAL) /\ UNCHANGED <<data, lost>>
     \/ /\ \/ pc' = "stream" /\ UNCHANGED exit
           \/ Exits(FATAL)
        /\ data' = [d \in Days |-> IF d = output.day THEN <<>> ELSE data[d]]
        /\ lost' = lost \cup ({output.day} \cap Days)
  /\ UnchangedPass
  /\ UNCHANGED <<exportVars, clock, zones, retention, files, writer, firstDay, stuck>>

ExportReadOn ==
  /\ command = "export"
  /\ ReadOn
  /\ UNCHANGED <<exportVars, writerVars>>

-----------------------------------------------------------------------------
(* The sink. *)

\* A reading as a row: only a finite value is present.
Row(instant, entry) ==
  [ts |-> instant, series |-> entry.series,
   value |-> IF entry.reading.value \in Int THEN entry.reading.value ELSE Null]

RowsOf(instant, sample) == [n \in 1..Len(sample) |-> Row(instant, sample[n])]

\* push: a buffer that is full becomes a row group.  The rows of one sample,
\* after those that wait in the buffer, cut into full groups and a rest.
FullGroups(rows) ==
  [n \in 1..(Len(rows) \div RowsPerGroup) |->
     SubSeq(rows, (n - 1) * RowsPerGroup + 1, n * RowsPerGroup)]

Rest(rows) == SubSeq(rows, (Len(rows) \div RowsPerGroup) * RowsPerGroup + 1, Len(rows))

\* A sample is pushed row by row; a write that fails ends the run.
ExportSample ==
  /\ command = "export"
  /\ TakeSample
  /\ LET rows == buffer \o RowsOf(TheLine.ts, TheLine.sample) IN
     /\ buffer' = Rest(rows)
     /\ groups' = groups \o FullGroups(rows)
  /\ UNCHANGED <<output, created, footer, writerVars>>

PushFails ==
  /\ command = "export" /\ pc = "stream"
  /\ SampleLine(window) /\ ~Outside
  /\ Len(buffer) + Len(TheLine.sample) >= RowsPerGroup
  /\ Exits(FATAL)
  /\ UNCHANGED <<command, request, window, chosen, start, changed, lost, seen, exportVars, writerVars>>

\* Seeded fault: the last rows stay in the buffer.
FlushedNot == groups

\* close: the last rows make a group of their own.
Flushed == IF buffer = <<>> THEN groups ELSE Append(groups, buffer)

Close ==
  /\ command = "export" /\ pc = "stream" /\ AllRead
  /\ \/ /\ groups' = Flushed
        /\ buffer' = <<>>
        /\ footer' = TRUE
        /\ Exits(SUCCESS)
     \/ Exits(FATAL) /\ UNCHANGED <<buffer, groups, footer>>
  /\ UnchangedPass
  /\ UNCHANGED <<lost, created, writerVars>>

ExportStep ==
  \/ ExportConfig
  \/ ExportSelect
  \/ OpenOutput
  \/ Guard
  \/ Truncate
  \/ ExportReadOn
  \/ ExportSample
  \/ PushFails
  \/ Close

-----------------------------------------------------------------------------

\* The logs that were selected as inputs are only ever appended to: export
\* truncates none of them, under whichever name or link --out denotes it, also
\* if the logger prunes one meanwhile or one cannot be verified (export.rs:
\* run, aliases_selected_input).  A file made anew where a selected log was
\* pruned is another file; one that export itself made it does not compare.
HistoryKept ==
  [][\A d \in chosen :
       \/ IsPrefix(data[d], data'[d])
       \/ d \in files' \ files
       \/ created /\ d = output.day]_<<data, files>>

\* An export that succeeds holds every reading of the samples it saw, one row
\* each and in order, in groups that are full but for the last, under a
\* footer; one that fails has no footer, so that no reader takes it for
\* complete (ParquetSink).
Exported ==
  FlattenSeq([n \in 1..Len(seen) |-> RowsOf(seen[n].line.ts, seen[n].line.sample)])

ExportComplete ==
  command = "export" =>
    /\ exit \in {Running, SUCCESS} => FlattenSeq(groups) \o buffer = Exported
    /\ footer <=> exit = SUCCESS
    /\ footer => buffer = <<>> /\ \A n \in 1..Len(groups) : groups[n] # <<>>
    /\ \A n \in 1..Len(groups)-1 : Len(groups[n]) = RowsPerGroup
=============================================================================
