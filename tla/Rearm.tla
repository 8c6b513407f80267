-------------------------------- MODULE Rearm ---------------------------------
(***************************************************************************)
(* A supervisor that runs one-shot `watch` again and again (watch.rs:      *)
(* run, run_one_shot; "One-shot re-arm semantics" of                       *)
(* docs/agent-monitoring.md).  Every run has a fresh engine, polls until   *)
(* its first Fired transition or its deadline, and ends.                   *)
(*                                                                         *)
(* No step counts the history, so the runs are unbounded: what a persisting *)
(* condition eventually causes is a liveness property of this module.      *)
(* Numbers, sinks, signals and crashes are in Watch.                       *)
(***************************************************************************)
EXTENDS Engine

CONSTANTS
  Deadline,   \* the polls a --timeout leaves time for, 0 without --timeout
  MaxPolls,   \* bound: polls are counted up to this number
  None        \* no alert

ASSUME PollsAssumption == Deadline \in Nat /\ MaxPolls \in Nat /\ Deadline <= MaxPolls

\* The bound does not cut a debounce short.
ASSUME DebounceAssumption == \A i \in RuleIds : Rules[i].for <= MaxPolls

VARIABLES
  running,  \* a watch process runs
  polls,    \* the polls of this run, counted up to MaxPolls
  exit,     \* the exit code of the last run
  emitted,  \* the alert whose Fired event ended the last run, or None
  shown,    \* history: the last tick polled
  ongoing   \* history: the alerts emitted whose condition has lasted since

vars == <<series, source, out, running, polls, exit, emitted, shown, ongoing>>

EVENT_FIRED == 10
HEARTBEAT   == 0

\* The transition run_one_shot takes: the first Fired one of the tick.
Fired(transitions) == {t \in transitions : t.state = "fired"}

TakenFirst(tick, transitions) ==
  CHOOSE t \in Fired(transitions) :
    \A u \in Fired(transitions) \ {t} :
      IF tick = Unavailable THEN t.rule < u.rule ELSE Precedes(tick, t, u)

(***************************************************************************)
(* Whether a tick shows the condition of an emitted alert still present:   *)
(* the value still violates, the whole reading still repeats, the series   *)
(* is still absent, the source is still gone.                              *)
(***************************************************************************)
StillShows(k, tick) ==
  LET rule == Rules[k[1]] IN
  CASE rule.kind = "source"    -> tick = Unavailable
    [] rule.kind = "missing"   -> tick # Unavailable /\ ~InSample(tick, k[2])
    [] rule.kind = "threshold" ->
         /\ tick # Unavailable
         /\ InSample(tick, k[2])
         /\ LET x == ReadingOf(tick, k[2])[rule.metric]
            IN  x # NaN /\ Compare(rule.op, x, rule.threshold)
    [] rule.kind = "stale"     ->
         /\ tick # Unavailable /\ shown # Unavailable
         /\ InSample(tick, k[2]) /\ InSample(shown, k[2])
         /\ ReadingOf(tick, k[2]) = ReadingOf(shown, k[2])
    [] OTHER                   -> FALSE

-----------------------------------------------------------------------------

Init ==
  /\ series = FreshSeries
  /\ source = FreshSource
  /\ out = {}
  /\ running = FALSE
  /\ polls = 0
  /\ exit = HEARTBEAT
  /\ emitted = None
  /\ shown = Unavailable
  /\ ongoing = {}

\* Seeded fault: the next run inherits the engine of the last one.
ArmKeeps ==
  /\ ~running
  /\ running' = TRUE
  /\ out' = {}
  /\ polls' = 0
  /\ emitted' = None
  /\ UNCHANGED <<series, source, exit, shown, ongoing>>

\* The supervisor starts watch again: Engine::new, a new deadline.
Arm ==
  /\ ~running
  /\ running' = TRUE
  /\ series' = FreshSeries
  /\ source' = FreshSource
  /\ out' = {}
  /\ polls' = 0
  /\ emitted' = None
  /\ UNCHANGED <<exit, shown, ongoing>>

\* Seeded fault: the deadline may cut off the last poll.
TimeOutEarly ==
  /\ running
  /\ Deadline # 0 /\ polls + 1 >= Deadline
  /\ running' = FALSE
  /\ exit' = HEARTBEAT
  /\ UNCHANGED <<series, source, out, polls, emitted, shown, ongoing>>

\* The deadline at the head of the loop or in the pacing: "all quiet".
TimeOut ==
  /\ running
  /\ Deadline # 0 /\ polls >= Deadline
  /\ running' = FALSE
  /\ exit' = HEARTBEAT
  /\ UNCHANGED <<series, source, out, polls, emitted, shown, ongoing>>

\* Seeded fault: a source-unavailable alert does not end the run.
DispatchSamples(tick) ==
  IF tick = Unavailable \/ Fired(out') = {}
    THEN UNCHANGED <<running, exit, emitted>>
    ELSE LET t == TakenFirst(tick, out') IN
         /\ running' = FALSE
         /\ exit' = EVENT_FIRED
         /\ emitted' = <<t.rule, t.series>>

\* Seeded fault: a fired run reports a heartbeat.
DispatchQuietly(tick) ==
  IF Fired(out') = {}
    THEN UNCHANGED <<running, exit, emitted>>
    ELSE LET t == TakenFirst(tick, out') IN
         /\ running' = FALSE
         /\ exit' = HEARTBEAT
         /\ emitted' = <<t.rule, t.series>>

\* What run_one_shot does with the transitions of a tick.
Dispatch(tick) ==
  IF Fired(out') = {}
    THEN UNCHANGED <<running, exit, emitted>>
    ELSE LET t == TakenFirst(tick, out') IN
         /\ running' = FALSE
         /\ exit' = EVENT_FIRED
         /\ emitted' = <<t.rule, t.series>>

\* One poll: the engine observes the tick, the first Fired one ends the run.
Poll(tick) ==
  /\ running
  /\ Deadline # 0 => polls < Deadline
  /\ IF tick = Unavailable THEN ObserveUnavailable ELSE ObserveSample(tick)
  /\ Dispatch(tick)
  /\ polls' = IF polls < MaxPolls THEN polls + 1 ELSE polls
  /\ shown' = tick
  /\ ongoing' = {k \in ongoing : StillShows(k, tick)} \cup ({emitted'} \ {None})

Next == Arm \/ TimeOut \/ \E tick \in Ticks : Poll(tick)

Spec == Init /\ [][Next]_vars

\* The supervisor always re-arms and a running process always gets on.
FairSpec == Spec /\ WF_vars(Next)

-----------------------------------------------------------------------------

\* The type invariant.
TypeOK ==
  /\ series \in [Keys -> SeriesState(Readings, Values)]
  /\ source \in [SourceRules -> Gate]
  /\ running \in BOOLEAN
  /\ polls \in 0..MaxPolls
  /\ exit \in {HEARTBEAT, EVENT_FIRED}
  /\ emitted \in AlertKeys \cup {None}
  /\ shown \in Ticks
  /\ ongoing \subseteq AlertKeys

\* "A fresh engine only clears after firing, and we exit on the fire": a
\* running one-shot process never holds a fired gate, so it never drops a
\* Cleared transition (watch.rs, run_one_shot).
NeverHoldsFired == running => OpenAlerts = {} /\ \A t \in out : t.state = "fired"

\* Exit 0 is "all quiet": a run that timed out leaves nothing fired, and a run
\* that exits 10 names an alert its engine holds open (watch.rs).
\* Debouncing is per process: no run emits an alert before it polled
\* for_samples times itself, so a blip per run never adds up to an event.
ExitIsEarned ==
  /\ ~running =>
       /\ exit = HEARTBEAT => OpenAlerts = {}
       /\ exit = EVENT_FIRED => emitted \in OpenAlerts
  /\ emitted # None => polls >= Rules[emitted[1]].for

\* "A condition that is still present re-fires within for_samples samples"
\* (docs/agent-monitoring.md) for a level or an outage: no run polls that often
\* under a lasting condition without ending, whatever else fires first.  A
\* stale rule takes one sample more, its baseline (evaluate_stale); a missing
\* rule does not re-fire at all.
Baseline(kind) == IF kind = "stale" THEN 1 ELSE 0

RefiresInTime ==
  running => \A k \in ongoing :
    LET rule == Rules[k[1]] IN
    rule.kind # "missing" => polls < rule.for + Baseline(rule.kind)

\* An alert whose condition lasts, alone, is emitted over and over, through any
\* number of runs and heartbeats, provided the deadline leaves a run the time to
\* fire; again except for a missing rule.
CanFire(rule) ==
  rule.kind # "missing" /\ (Deadline = 0 \/ rule.for + Baseline(rule.kind) <= Deadline)

SoleConditionKeepsProducing ==
  \A k \in AlertKeys :
    CanFire(Rules[k[1]]) => (<>[](ongoing = {k}) => []<>(emitted = k))

\* "A persisting problem thus keeps producing events rather than firing once
\* and going silent" (docs/agent-monitoring.md): under a condition that lasts
\* for ever, the alert is emitted over and over.
KeepsProducing ==
  \A k \in AlertKeys : <>[](k \in ongoing) => []<>(emitted = k)
=============================================================================
