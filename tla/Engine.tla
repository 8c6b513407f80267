------------------------------- MODULE Engine ---------------------------------
(***************************************************************************)
(* The rule engine (engine.rs: Engine::observe): the per-(rule x series)   *)
(* state and what one tick does to it.  RuleEngine runs it over a history  *)
(* of ticks, Rearm inside a process that restarts.                         *)
(*                                                                         *)
(* The current tick stands for tick_index and last_seen_tick, which the    *)
(* code only uses to mark what the current sample contains.                *)
(***************************************************************************)
EXTENDS TickStream

VARIABLES
  series,  \* Engine.states[i].series, Unseen standing for "no entry"
  source,  \* Engine.states[i].source, the gates of source-unavailable rules
  out      \* the transitions the last tick returned

-----------------------------------------------------------------------------
(* The events of one tick, computed from the state before it. *)

SeriesEvent(k, sample) ==
  LET rule == Rules[k[1]]
      s    == series[k]
      verdict == IF InSample(sample, k[2])
                   THEN PresentVerdict(rule, s, ReadingOf(sample, k[2]))
                   ELSE AbsentVerdict(rule, s)
  IN  GateEvent(s.gate, verdict, rule.for)

SourceEvent(i, verdict) == GateEvent(source[i], verdict, Rules[i].for)

Announcing(transitions) == {t \in transitions : t.state # "none"}

SourceTransitions(verdict) ==
  Announcing({Transition(i, NoSeries, SourceEvent(i, verdict)) : i \in SourceRules})

\* Seeded fault: the recovery of the source is not announced.
SampleTransitionsOnly(sample) ==
  Announcing({Transition(k[1], k[2], SeriesEvent(k, sample)) : k \in Keys})

SampleTransitions(sample) ==
  Announcing({Transition(k[1], k[2], SeriesEvent(k, sample)) : k \in Keys})
    \cup SourceTransitions("Recovers")

StepSource(verdict) ==
  source' = [i \in SourceRules |-> Apply(source[i], verdict, Rules[i].for)]

-----------------------------------------------------------------------------

\* Engine::new: nothing seen, nothing fired.
FreshSeries == [k \in Keys |-> Unseen]
FreshSource == [i \in SourceRules |-> Quiet]

\* Only source-unavailable rules observe these ticks; the others are frozen.
ObserveUnavailable ==
  /\ StepSource("Violates")
  /\ out' = SourceTransitions("Violates")
  /\ UNCHANGED series

\* Any sample recovers the source; every series is judged as present or absent.
ObserveSample(sample) ==
  /\ StepSource("Recovers")
  /\ series' = [k \in Keys |->
                  IF InSample(sample, k[2])
                    THEN Present(Rules[k[1]], series[k], ReadingOf(sample, k[2]))
                    ELSE Absent(Rules[k[1]], series[k])]
  /\ out' = SampleTransitions(sample)

GateOf(k) == IF k \in Keys THEN series[k].gate ELSE source[k[1]]

OpenAlerts == {k \in AlertKeys : GateOf(k).fired}

\* A step announces an alert as fired when it opens, cleared when it closes.
Announced(state, k) == \E t \in out : t.rule = k[1] /\ t.series = k[2] /\ t.state = state

AnnouncesEdges(k) ==
  /\ Announced("fired", k)' <=> k \in OpenAlerts' \ OpenAlerts
  /\ Announced("cleared", k)' <=> k \in OpenAlerts \ OpenAlerts'
=============================================================================
