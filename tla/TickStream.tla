----------------------------- MODULE TickStream ------------------------------
(***************************************************************************)
(* What the engine is fed (source.rs, rules.rs): the validated rules and   *)
(* the ticks a source can yield.  Shared by the engine and by the abstract *)
(* specification of what the engine promises.                              *)
(*                                                                         *)
(* A tick is Unavailable ("polled and had nothing") or a sample: the       *)
(* sequence of the readings seen, in snapshot order.  A sample may repeat  *)
(* a series; the first occurrence wins.                                    *)
(***************************************************************************)
EXTENDS EngineSteps

CONSTANTS
  Rules,        \* the rules in declaration order, a sequence
  SeriesOrder,  \* the series in key order, a sequence without repetition
  Readings,     \* the readings a series can show
  Samples,      \* the samples the source can yield
  Unavailable   \* the tick of a source that is gone

Series  == {SeriesOrder[n] : n \in 1..Len(SeriesOrder)}
RuleIds == 1..Len(Rules)
Values  == Int \cup {NaN}
Entry   == [series : Series, reading : Readings]
Ticks   == Samples \cup {Unavailable}

ASSUME RulesAssumption ==
  /\ Rules \in Seq([kind : RuleKind, covers : SUBSET Series,
                                metric : Metric, op : Op, threshold : Int,
                                clear : Int, window : Nat, for : Nat])
  /\ \A i \in RuleIds : ValidRule(Rules[i], Series)
ASSUME SeriesAssumption ==
  /\ SeriesOrder \in Seq(Series)
  /\ \A m, n \in 1..Len(SeriesOrder) : SeriesOrder[m] = SeriesOrder[n] => m = n
ASSUME ReadingsAssumption ==
  /\ NoBaseline \notin Readings
  /\ \A r \in Readings : \A m \in Metric : r[m] \in Values
ASSUME SamplesAssumption == Unavailable \notin Samples /\ Samples \subseteq Seq(Entry)

SourceRules == {i \in RuleIds : Rules[i].kind = "source"}
Keys == {k \in RuleIds \X Series : Rules[k[1]].kind # "source" /\ k[2] \in Rules[k[1]].covers}

\* Where a series stands in a sample: its first occurrence.
Occurrences(tick, s) == {n \in 1..Len(tick) : tick[n].series = s}
InSample(tick, s) == Occurrences(tick, s) # {}
FirstOf(tick, s) ==
  CHOOSE n \in Occurrences(tick, s) : \A m \in Occurrences(tick, s) : n <= m
ReadingOf(tick, s) == tick[FirstOf(tick, s)].reading

(***************************************************************************)
(* A transition names its rule, its series (NoSeries for a source rule),   *)
(* the new state and the sample count of the payload.                      *)
(***************************************************************************)
NoSeries == "none"
Transition(i, s, event) ==
  [rule |-> i, series |-> s, state |-> event.state, samples |-> event.samples]

\* Everything that can raise an alert.
AlertKeys == Keys \cup (SourceRules \X {NoSeries})

KeyRank(s) == CHOOSE n \in 1..Len(SeriesOrder) : SeriesOrder[n] = s

\* Seeded fault: the absent series of a tick come in no order.
PrecedesPresent(tick, e, f) ==
  \/ e.rule < f.rule
  \/ /\ e.rule = f.rule
     /\ InSample(tick, e.series)
     /\ InSample(tick, f.series) => FirstOf(tick, e.series) < FirstOf(tick, f.series)

\* The order within a tick: by rule; within a rule the present series in
\* sample order, then the absent ones in key order.
Precedes(tick, e, f) ==
  \/ e.rule < f.rule
  \/ /\ e.rule = f.rule
     /\ InSample(tick, e.series)
     /\ InSample(tick, f.series) => FirstOf(tick, e.series) < FirstOf(tick, f.series)
  \/ /\ e.rule = f.rule
     /\ ~InSample(tick, e.series)
     /\ ~InSample(tick, f.series)
     /\ KeyRank(e.series) < KeyRank(f.series)
=============================================================================
