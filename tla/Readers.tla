------------------------------- MODULE Readers -------------------------------
(***************************************************************************)
(* One run of `report` or `export` over a log directory, while the logger  *)
(* starts, writes, rotates, prunes and dies, and the clock moves; and the  *)
(* reconciliation of an open incident with the digest.                     *)
(***************************************************************************)
EXTENDS Reconcile, Export

\* What is polled and what was logged are readings of the series of this machine.
ASSUME LogAssumption == Polled \cup Recorded \subseteq Seq(Entry)

vars == <<writerVars, readerVars, replayVars, reportVars, exportVars, reconciled>>

Init ==
  /\ WriterInit
  /\ ReaderInit
  /\ ReportInit
  /\ ExportInit
  /\ ReconcileInit

\* Bound: the logger and the clock move from the selection of the files to the
\* end of the command; what came before is the state the command starts in.
Environment ==
  /\ pc \notin {"config", "window", "done"}
  /\ LoggerStep \/ Tick
  /\ KeepHandle
  /\ changed' = changed \cup {d \in Days : data'[d] # data[d] \/ d \in files' \ files}
  /\ UNCHANGED <<command, request, pc, window, exit, chosen, start, lost, seen>>
  /\ UNCHANGED <<pending, skipped, opened, reportVars, exportVars, reconciled>>

Next ==
  \/ ReportStep /\ UNCHANGED <<writerVars, exportVars, reconciled>>
  \/ ExportStep /\ UNCHANGED <<reportVars, reconciled>>
  \/ Reconcile /\ UNCHANGED <<writerVars, exportVars>>
  \/ Environment

Spec == Init /\ [][Next]_vars
=============================================================================
