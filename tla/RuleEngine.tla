----------------------------- MODULE RuleEngine ------------------------------
(***************************************************************************)
(* The rule engine over a bounded history of ticks, and what is true of    *)
(* it.  The history is a history variable: no action reads it except for   *)
(* its length, the bound of the exploration.                               *)
(***************************************************************************)
EXTENDS Engine

CONSTANT MaxTicks   \* the longest history explored

VARIABLE hist       \* history: the ticks observed so far

vars == <<series, source, out, hist>>

Init ==
  /\ series = FreshSeries
  /\ source = FreshSource
  /\ out = {}
  /\ hist = <<>>

Remember(tick) == Len(hist) < MaxTicks /\ hist' = Append(hist, tick)

Next ==
  \/ Remember(Unavailable) /\ ObserveUnavailable
  \/ \E sample \in Samples : Remember(sample) /\ ObserveSample(sample)

Spec == Init /\ [][Next]_vars

-----------------------------------------------------------------------------

Transitions ==
  [rule : RuleIds, series : Series \cup {NoSeries}, state : {"fired", "cleared"}, samples : Nat]

\* The type invariant.
TypeOK ==
  /\ series \in [Keys -> SeriesState(Readings, Values)]
  /\ source \in [SourceRules -> Gate]
  /\ out \subseteq Transitions
  /\ hist \in Seq(Ticks)

\* A gate's counters agree with its state: unfired, the streak is still short
\* of for_samples and no episode is counted; fired, the episode holds at least
\* the debounce lead-in (Gate::apply, the payload count of Cleared).
GateConsistent(g, for) ==
  IF g.fired THEN g.total >= for ELSE g.streak < for /\ g.total = 0

GatesConsistent ==
  /\ \A k \in Keys : GateConsistent(series[k].gate, Rules[k[1]].for)
  /\ \A i \in SourceRules : GateConsistent(source[i], Rules[i].for)

\* "A false all-clear because data vanished would be worse than silence": an
\* alert of a value or stale rule closes only on a sample that shows the
\* series, a threshold alert only on a number past its clear level; a missing
\* alert only on the series' return (the module documentation of engine.rs).
RecoveredBy(rule, s, sample) ==
  /\ sample # Unavailable
  /\ InSample(sample, s)
  /\ rule.kind = "threshold" =>
       LET x == ReadingOf(sample, s)[rule.metric]
       IN  x # NaN /\ ~Compare(rule.op, x, rule.clear) /\ ~Compare(rule.op, x, rule.threshold)

NoFalseAllClear ==
  [][\A k \in Keys :
       series[k].gate.fired /\ ~series'[k].gate.fired
         => RecoveredBy(Rules[k[1]], k[2], hist'[Len(hist')])]_vars

\* What a tick announces is exactly how the set of open alerts changed: per
\* alert, fired and cleared alternate, and no transition is lost or doubled.
\* (Watch and the incident files pair the two by rule and series.)
AnnouncesChanges == [][\A k \in AlertKeys : AnnouncesEdges(k)]_vars

\* The order of the transitions of a tick is total: replaying the same ticks
\* numbers the events the same way (the determinism promised by engine.rs).
OrderTotal ==
  \A e, f \in out :
    e # f => LET tick == hist[Len(hist)] IN
             IF tick = Unavailable THEN e.rule # f.rule
             ELSE Precedes(tick, e, f) # Precedes(tick, f, e)

\* The engine implements the history-based specification of alert episodes.
Episodes == INSTANCE AlertEpisodes WITH open <- OpenAlerts, announced <- out

ImplementsEpisodes == Episodes!Spec
=============================================================================
