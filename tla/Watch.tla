------------------------------- MODULE Watch ---------------------------------
(***************************************************************************)
(* The watch process (watch.rs, event.rs): how a transition becomes a      *)
(* numbered event in the durable sinks, in both modes, with a crash        *)
(* possible at every step and every disk write able to fail.               *)
(*                                                                         *)
(* Transitions are numbered in the order the engine returns them, over all *)
(* the runs of the process; what they say is RuleEngine's concern.  The    *)
(* state directory and the sinks survive a crash, the process memory does  *)
(* not.  Every rename is atomic and every write may leave a torn file.  A  *)
(* crash is that of the process: the code never syncs, so a power failure  *)
(* that reorders renames is outside what it promises and outside this      *)
(* model.                                                                  *)
(***************************************************************************)
EXTENDS Integers, FiniteSets

CONSTANTS
  SeqMax,    \* u64::MAX
  Missing, Corrupt,   \* watch.seq absent, or not a decimal integer
  MaxSeen,   \* bound: transitions explored
  MaxBatch,  \* bound: transitions of one tick
  MaxFaults  \* bound: crashes and failed writes explored

ASSUME SeqAssumption ==
  /\ SeqMax \in Nat \ {0}
  /\ Missing \notin Int
  /\ Corrupt \notin Int
ASSUME BoundAssumption == MaxSeen \in Nat /\ MaxBatch \in Nat /\ MaxFaults \in Nat

VARIABLES
  mode,      \* the command line: what the runs were asked for
  seqFile,   \* watch.seq: the last number used, Missing or Corrupt
  seqTmp,    \* watch.seq.tmp: a number, or Missing; a torn file is Corrupt
  sinks,     \* the events a reader finds in a sink, durable or printed
  tail,      \* how the daily event file ends: "whole", or inside a line, "torn"
  pc,        \* where the process stands, "down" when it does not run
  last,      \* SeqStore.last
  cur,       \* the number reserved for the transition being emitted
  next,      \* the next transition of the current tick to emit
  seen,      \* transitions returned by the engine so far
  shutdown,  \* the flag the signal handler sets
  expired,   \* the one-shot deadline has passed
  exit,      \* the exit code of the run that ended last, 0 before the first
  base,      \* history: the last number used before the first run
  faults     \* history: crashes, failed reads and failed writes so far

disk    == <<seqFile, seqTmp, sinks, tail>>
process == <<pc, last, cur, next, shutdown, expired>>
vars    == <<mode, seqFile, seqTmp, sinks, tail, pc, last, cur, next, seen, shutdown, expired, exit, base, faults>>

\* --follow or one-shot, the live source or --replay, --timeout, --spool-dir;
\* the deadline is only looked at in a live one-shot run.
Modes ==
  {m \in [follow : BOOLEAN, live : BOOLEAN, timed : BOOLEAN, spooling : BOOLEAN] :
     m.timed => m.live /\ ~m.follow}

Follow   == mode.follow
Live     == mode.live
Timed    == mode.timed
Spooling == mode.spooling

\* Exit codes (exit.rs); println! panics on a closed stdout, which exits 101.
SUCCESS     == 0
FATAL       == 1
EVENT_FIRED == 10
PANIC       == 101
INTERRUPTED == 130
KILLED      == 137

\* The number watch.seq stands for: a missing file starts at 0.
Used == IF seqFile = Missing THEN 0 ELSE seqFile

Steps == {"top", "reserve", "commit", "log", "spool", "publish", "print", "pace"}
Seqs  == 1..SeqMax
Event(sink) == [sink |-> sink, seq |-> cur, id |-> next]

Fault == faults < MaxFaults /\ faults' = faults + 1

Exit(code) == pc' = "down" /\ exit' = code
Goto(step) == pc' = step /\ UNCHANGED exit

-----------------------------------------------------------------------------
(* Start and the head of the loop. *)

\* Seeded fault: a counter that does not parse starts again at 0.
StartAfresh ==
  /\ pc = "down"
  /\ Goto("top") /\ last' = IF seqFile = Corrupt THEN 0 ELSE Used
  /\ shutdown' = FALSE
  /\ expired' = FALSE
  /\ UNCHANGED <<disk, cur, next, seen, faults>>

\* Seeded fault: every run counts from 0.
StartFromZero ==
  /\ pc = "down"
  /\ IF seqFile = Corrupt THEN Exit(FATAL) /\ UNCHANGED last
     ELSE Goto("top") /\ last' = 0
  /\ shutdown' = FALSE
  /\ expired' = FALSE
  /\ UNCHANGED <<disk, cur, next, seen, faults>>

\* run: install the shutdown handler, then SeqStore::open, then the mode.
Start ==
  /\ pc = "down"
  /\ IF seqFile = Corrupt THEN Exit(FATAL) /\ UNCHANGED last
     ELSE Goto("top") /\ last' = Used
  /\ shutdown' = FALSE
  /\ expired' = FALSE
  /\ UNCHANGED <<disk, cur, next, seen, faults>>

\* A preparation that fails: the directories, the read of watch.seq.
StartFails ==
  /\ pc = "down"
  /\ Fault
  /\ Exit(FATAL)
  /\ UNCHANGED <<disk, last, cur, next, seen, shutdown, expired>>

TimedOut == expired /\ Timed

ExitInterrupted ==
  /\ pc \in {"top", "pace"}
  /\ shutdown
  /\ pc = "pace" => Live
  /\ Exit(INTERRUPTED)
  /\ UNCHANGED <<disk, last, cur, next, seen, shutdown, expired, faults>>

\* At the head the flag is looked at first; in the pacing the deadline is.
ExitTimedOut ==
  /\ pc \in {"top", "pace"}
  /\ pc = "top" => ~shutdown
  /\ TimedOut
  /\ Exit(SUCCESS)
  /\ UNCHANGED <<disk, last, cur, next, seen, shutdown, expired, faults>>

ExitExhausted ==
  /\ pc = "top" /\ ~shutdown /\ ~Live
  /\ Exit(SUCCESS)
  /\ UNCHANGED <<disk, last, cur, next, seen, shutdown, expired, faults>>

\* One tick through the engine; the batch is what it returned.
Poll ==
  /\ pc = "top" /\ ~shutdown /\ ~TimedOut
  /\ \E n \in 0..MaxBatch :
       /\ seen + n <= MaxSeen
       /\ seen' = seen + n
       /\ Goto(IF n = 0 THEN "pace" ELSE "reserve")
  /\ next' = seen + 1
  /\ UNCHANGED <<disk, last, cur, shutdown, expired, faults>>

-----------------------------------------------------------------------------
(* SeqStore::next: refuse to wrap, write the sibling, rename it over. *)

ReserveExhausted ==
  /\ pc = "reserve" /\ last = SeqMax
  /\ Exit(FATAL)
  /\ UNCHANGED <<disk, last, cur, next, seen, shutdown, expired, faults>>

\* Seeded fault: the counter wraps at its limit.
ReserveWraps ==
  /\ pc = "reserve"
  /\ seqTmp' = (last + 1) % (SeqMax + 1)
  /\ Goto("commit")
  /\ UNCHANGED <<seqFile, sinks, tail, last, cur, next, seen, shutdown, expired, faults>>

Reserve ==
  /\ pc = "reserve" /\ last < SeqMax
  /\ seqTmp' = last + 1
  /\ Goto("commit")
  /\ UNCHANGED <<seqFile, sinks, tail, last, cur, next, seen, shutdown, expired, faults>>

\* Seeded fault: one-shot mode prints before it spools, and exits.
CommitPrints ==
  /\ pc = "commit"
  /\ seqFile' = seqTmp
  /\ seqTmp' = Missing
  /\ last' = last + 1
  /\ cur' = last + 1
  /\ Goto(IF Follow THEN "log" ELSE "print")
  /\ UNCHANGED <<sinks, tail, next, seen, shutdown, expired, faults>>

Commit ==
  /\ pc = "commit"
  /\ seqFile' = seqTmp
  /\ seqTmp' = Missing
  /\ last' = last + 1
  /\ cur' = last + 1
  /\ Goto(IF Follow THEN "log" ELSE "spool")
  /\ UNCHANGED <<sinks, tail, next, seen, shutdown, expired, faults>>

\* Seeded fault: a failed rename is retried without end.
SeqRetries ==
  /\ pc = "commit"
  /\ Goto("reserve")
  /\ UNCHANGED <<seqFile, seqTmp, sinks, tail, last, cur, next, seen, shutdown, expired, faults>>

\* A failed write leaves the old file or a torn one; a failed rename, both.
SeqFails ==
  /\ pc \in {"reserve", "commit"}
  /\ pc = "reserve" => last < SeqMax
  /\ Fault
  /\ seqTmp' \in IF pc = "reserve" THEN {seqTmp, Corrupt} ELSE {seqTmp}
  /\ Exit(FATAL)
  /\ UNCHANGED <<seqFile, sinks, tail, last, cur, next, seen, shutdown, expired>>

-----------------------------------------------------------------------------
(* The sinks.  A failed log or spool write is warned about and swallowed. *)

AfterEvent == IF next < seen THEN "reserve" ELSE "pace"

\* After the spool: one-shot prints, follow takes the next transition.
AfterSpool ==
  IF Follow THEN Goto(AfterEvent) /\ next' = next + 1
            ELSE Goto("print") /\ UNCHANGED next

\* A failed append may leave part of the line; the next record completes that
\* line and is lost with it, unless the day has turned and it opens a new file.
LogEvent ==
  /\ pc = "log"
  /\ \/ /\ \/ sinks' = sinks \cup {Event("log")}
           \/ tail = "torn" /\ UNCHANGED sinks
        /\ tail' = "whole"
        /\ UNCHANGED faults
     \/ /\ Fault
        /\ tail' \in {tail, "torn"}
        /\ UNCHANGED sinks
  /\ Goto("spool")
  /\ UNCHANGED <<seqFile, seqTmp, last, cur, next, seen, shutdown, expired>>

\* Seeded fault: the spool is skipped although there is one.
SkipSpoolAnyway ==
  /\ pc = "spool"
  /\ AfterSpool
  /\ UNCHANGED <<disk, last, cur, seen, shutdown, expired, faults>>

SkipSpool ==
  /\ pc = "spool" /\ ~Spooling
  /\ AfterSpool
  /\ UNCHANGED <<disk, last, cur, seen, shutdown, expired, faults>>

\* The staging file never matches *.json: no reader sees it, torn or whole.
StageSpool ==
  /\ pc = "spool" /\ Spooling
  /\ \/ Goto("publish") /\ UNCHANGED <<next, faults>>
     \/ Fault /\ AfterSpool
  /\ UNCHANGED <<disk, last, cur, seen, shutdown, expired>>

PublishSpool ==
  /\ pc = "publish"
  /\ \/ sinks' = sinks \cup {Event("spool")} /\ UNCHANGED faults
     \/ Fault /\ UNCHANGED sinks
  /\ AfterSpool
  /\ UNCHANGED <<seqFile, seqTmp, tail, last, cur, seen, shutdown, expired>>

PrintEvent ==
  /\ pc = "print"
  /\ \/ Exit(EVENT_FIRED) /\ sinks' = sinks \cup {Event("stdout")} /\ UNCHANGED faults
     \/ Exit(PANIC) /\ Fault /\ UNCHANGED sinks
  /\ UNCHANGED <<seqFile, seqTmp, tail, last, cur, next, seen, shutdown, expired>>

\* The wait ran its time (live) or there is none (replay).
Paced ==
  /\ pc = "pace"
  /\ Live => ~shutdown /\ ~TimedOut
  /\ Goto("top")
  /\ UNCHANGED <<disk, last, cur, next, seen, shutdown, expired, faults>>

-----------------------------------------------------------------------------
(* The environment. *)

Signal ==
  /\ pc # "down" /\ ~shutdown
  /\ shutdown' = TRUE
  /\ UNCHANGED <<disk, pc, last, cur, next, seen, expired, exit, faults>>

DeadlinePasses ==
  /\ pc # "down" /\ ~expired /\ Timed
  /\ expired' = TRUE
  /\ UNCHANGED <<disk, pc, last, cur, next, seen, shutdown, exit, faults>>

\* A crash may leave the write in progress torn.
Crash ==
  /\ pc # "down"
  /\ Fault
  /\ pc' = "down"
  /\ exit' = KILLED
  /\ seqTmp' \in IF pc = "reserve" THEN {seqTmp, Corrupt} ELSE {seqTmp}
  /\ tail' \in IF pc = "log" THEN {tail, "torn"} ELSE {tail}
  /\ UNCHANGED <<seqFile, sinks, last, cur, next, seen, shutdown, expired>>

-----------------------------------------------------------------------------

Init ==
  /\ mode \in Modes
  /\ seqFile \in {Missing, Corrupt} \cup 0..SeqMax
  /\ seqTmp \in {Missing, Corrupt}
  /\ sinks = {}
  /\ tail = "whole"
  /\ pc = "down"
  /\ last = 0 /\ cur = 0 /\ next = 1 /\ seen = 0
  /\ shutdown = FALSE /\ expired = FALSE
  /\ exit = SUCCESS
  /\ base = Used
  /\ faults = 0

Step ==
  /\ \/ ExitInterrupted \/ ExitTimedOut \/ ExitExhausted \/ Poll
     \/ ReserveExhausted \/ Reserve \/ Commit \/ SeqFails
     \/ LogEvent \/ SkipSpool \/ StageSpool \/ PublishSpool \/ PrintEvent \/ Paced
  /\ UNCHANGED <<mode, base>>

Environment ==
  /\ Start \/ StartFails \/ Signal \/ DeadlinePasses \/ Crash
  /\ UNCHANGED <<mode, base>>

Next == Step \/ Environment

Spec == Init /\ [][Next]_vars

\* A running process keeps running: its loop is never blocked for ever.
FairSpec == Spec /\ WF_vars(Step)
-----------------------------------------------------------------------------

\* The type invariant.
TypeOK ==
  /\ mode \in Modes
  /\ seqFile \in {Missing, Corrupt} \cup 0..SeqMax
  /\ seqTmp \in {Missing, Corrupt} \cup 1..SeqMax
  /\ sinks \subseteq [sink : {"log", "spool", "stdout"}, seq : Seqs, id : Nat \ {0}]
  /\ tail \in {"whole", "torn"}
  /\ pc \in Steps \cup {"down"}
  /\ last \in 0..SeqMax
  /\ cur \in 0..SeqMax
  /\ next \in Nat \ {0}
  /\ seen \in Nat
  /\ shutdown \in BOOLEAN
  /\ expired \in BOOLEAN
  /\ exit \in {SUCCESS, FATAL, EVENT_FIRED, PANIC, INTERRUPTED, KILLED}
  /\ faults \in Nat

\* "A crash here only skips a seq, never reuses one": over all runs, crashes
\* and failed writes, one number names one transition in every sink, so the
\* ack cursor of an agent never confuses two (event.rs, SeqStore).  The order of
\* the numbers, OrderPreserved, implies it.
NumberNeverReused == \A e, f \in sinks : e.seq = f.seq => e.id = f.id

\* Persist before emit: no sink shows a number that watch.seq does not cover,
\* so a restart can never hand it out again.
PersistedFirst == \A e \in sinks : seqFile \in Seqs /\ e.seq <= seqFile

\* Numbers follow the order of the transitions, across restarts too: a
\* cleared event always has a larger number than the fired one it answers.
OrderPreserved == \A e, f \in sinks : e.id < f.id => e.seq < f.seq

\* Why those three hold: the memory of a running process agrees with
\* watch.seq, and what is in the sinks is older than the transition being
\* emitted or is that transition under its own number.
Emitting == {"log", "spool", "publish", "print"}

NumbersAgree ==
  /\ pc # "down" => seqFile # Corrupt /\ last = Used
  /\ pc = "commit" => last < SeqMax /\ seqTmp = last + 1
  /\ pc \in Emitting => cur = last /\ cur # 0
  /\ pc \in Emitting \cup {"reserve", "commit"} => next <= seen
  /\ \A e \in sinks :
       /\ e.id <= seen
       /\ pc \in {"reserve", "commit"} => e.id < next
       /\ pc \in Emitting => e.id <= next /\ (e.id = next <=> e.seq = cur)

\* Every number missing from a sink (the one being emitted aside).
MissingFrom(sink) == {n \in base+1..Used : ~\E e \in sinks : e.sink = sink /\ e.seq = n}
InFlight == IF pc \in Emitting THEN 1 ELSE 0

\* "One write_all per record: no torn lines", and a dropped line is warned
\* about (logger.rs): no event is missing from the daily file without a fault
\* of its own.
EveryDropWarned ==
  Follow /\ seqFile # Corrupt => Cardinality(MissingFrom("log")) <= faults + InFlight

\* "A lost write leaves a visible gap", and only a lost write: every number
\* missing from a sink is paid for by a crash or a failed write.  A spool file
\* is lost to one fault; a failed append to the daily file costs at most its own
\* event and the next.  And nothing the engine returned goes without a number,
\* save for a fault or the counter at its limit.
FollowAccounted ==
  Follow /\ seqFile # Corrupt =>
    /\ Spooling => Cardinality(MissingFrom("spool")) <= faults + InFlight
    /\ Cardinality(MissingFrom("log")) <= 2 * faults + InFlight - IF tail = "torn" THEN 1 ELSE 0
    /\ faults = 0 /\ seqFile # SeqMax =>
         \A id \in 1..seen :
           id < next \/ pc \in {"top", "pace", "down"} => \E e \in sinks : e.sink = "log" /\ e.id = id

\* One-shot: exit code 10 is given exactly by a run that printed its event,
\* and without a fault the printed event is in the spool as well.
FiredExit ==
  /\ pc = "down" /\ exit = EVENT_FIRED => [sink |-> "stdout", seq |-> cur, id |-> next] \in sinks
  /\ \A e \in sinks :
       e.sink = "stdout" /\ Spooling /\ faults = 0 => [e EXCEPT !.sink = "spool"] \in sinks

\* A failed preparation or a refused number never costs the counter: it only
\* moves by one, from the number it had, and never restarts at 0.
CounterSteps ==
  [][seqFile' # seqFile => seqFile # Corrupt /\ seqFile' = Used + 1]_vars

\* An interrupt or the deadline ends the run, whatever the engine returns in
\* the meantime (the head of the loop and the pacing wait).
StopsWhenAsked == (pc # "down" /\ (shutdown \/ TimedOut)) ~> pc = "down"
=============================================================================
