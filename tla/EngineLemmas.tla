---------------------------- MODULE EngineLemmas -----------------------------
(***************************************************************************)
(* Lemmas about one tick of the engine, for every rule set, series and     *)
(* reading, shared by the proofs of RuleEngine and of Rearm.               *)
(***************************************************************************)
EXTENDS Engine, WellFoundedInduction, TLAPS

EngineTyped ==
  /\ series \in [Keys -> SeriesState(Readings, Values)]
  /\ source \in [SourceRules -> Gate]

Observes == ObserveUnavailable \/ \E sample \in Seq(Entry) : ObserveSample(sample)

-----------------------------------------------------------------------------
(* The gate. *)

\* Applying a verdict keeps a gate a gate (Gate::apply).
LEMMA ApplyTyped ==
  ASSUME NEW g \in Gate, NEW v, NEW for \in Nat \ {0}
  PROVE  Apply(g, v, for) \in Gate
BY DEF Apply, Violate, Recover, Unevaluable, Quiet, Gate

\* Only the verdict Recovers ends an episode.
LEMMA OnlyRecoversClears ==
  ASSUME NEW g \in Gate, NEW v, NEW for \in Nat \ {0}, g.fired, ~Apply(g, v, for).fired
  PROVE  v = "Recovers"
BY DEF Apply, Violate, Recover, Unevaluable, Quiet, Gate

\* The event of a gate carries a count, and a known state unless it is none.
LEMMA EventTyped ==
  ASSUME NEW g \in Gate, NEW v, NEW for \in Nat \ {0}
  PROVE  /\ GateEvent(g, v, for).state \in {"none", "fired", "cleared"}
         /\ GateEvent(g, v, for).samples \in Nat
BY DEF GateEvent, NoEvent, Gate

\* The event announces exactly the change of the gate.
LEMMA EventIsEdge ==
  ASSUME NEW g \in Gate, NEW v, NEW for \in Nat \ {0}
  PROVE  LET e == GateEvent(g, v, for)
             h == Apply(g, v, for)
         IN  /\ e.state = "fired" <=> ~g.fired /\ h.fired
             /\ e.state = "cleared" <=> g.fired /\ ~h.fired
BY DEF GateEvent, NoEvent, Apply, Violate, Recover, Unevaluable, Quiet, Gate

-----------------------------------------------------------------------------
(* One series under one rule. *)

\* A nonempty set of natural numbers has a least element.
LEMMA LeastNat ==
  ASSUME NEW S, S \subseteq Nat, S # {}
  PROVE  \E n \in S : \A m \in S : n <= m
<1> DEFINE R == OpToRel(<, Nat)
<1>1. IsWellFoundedOn(R, Nat)
  BY NatLessThanWellFounded, Zenon
<1>2. \A x, y \in Nat : <<x, y>> \in R <=> x < y
  BY DEF OpToRel
<1> HIDE DEF R
<1>3. \E n \in S : \A m \in S : <<m, n>> \notin R
  BY <1>1, WFMin, Zenon
<1>4. PICK n \in S : \A m \in S : <<m, n>> \notin R
  BY <1>3
<1>5. \A m \in S : n <= m
  <2>1. SUFFICES ASSUME NEW m \in S PROVE n <= m
    OBVIOUS
  <2>2. m \in Nat /\ n \in Nat
    OBVIOUS
  <2>3. ~(m < n)
    BY <1>2, <1>4, <2>2, Zenon
  <2> QED BY <2>2, <2>3
<1> QED BY <1>5

\* A validated rule has its fields in their ranges.
LEMMA RuleTyped ==
  ASSUME NEW k \in Keys
  PROVE  /\ k[1] \in RuleIds
         /\ k[2] \in Series
         /\ Rules[k[1]].for \in Nat \ {0}
         /\ Rules[k[1]].metric \in Metric
         /\ Rules[k[1]].window \in Nat \ {0, 1}
         /\ Rules[k[1]].op \in Op
         /\ Rules[k[1]].threshold \in Int
         /\ Rules[k[1]].clear \in Int
         /\ Rules[k[1]].op \in {"gt", "ge"} => Rules[k[1]].clear <= Rules[k[1]].threshold
         /\ Rules[k[1]].op \in {"lt", "le"} => Rules[k[1]].clear >= Rules[k[1]].threshold
BY RulesAssumption DEF Keys, ValidRule

\* The first occurrence of a series in a sample is one of its occurrences.
LEMMA FirstOccurs ==
  ASSUME NEW sample \in Seq(Entry), NEW s, InSample(sample, s)
  PROVE  FirstOf(sample, s) \in 1..Len(sample) /\ sample[FirstOf(sample, s)].series = s
<1>1. Occurrences(sample, s) \subseteq Nat /\ Occurrences(sample, s) # {}
  BY DEF InSample, Occurrences
<1>2. \E n \in Occurrences(sample, s) : \A m \in Occurrences(sample, s) : n <= m
  BY <1>1, LeastNat
<1>3. FirstOf(sample, s) \in Occurrences(sample, s)
  BY <1>2 DEF FirstOf
<1> QED BY <1>3 DEF Occurrences

\* The reading a sample shows for a series in it is one of the readings.
LEMMA ReadingTyped ==
  ASSUME NEW sample \in Seq(Entry), NEW s \in Series, InSample(sample, s)
  PROVE  ReadingOf(sample, s) \in Readings
<1>1. sample[FirstOf(sample, s)] \in Entry
  BY FirstOccurs
<1> QED BY <1>1 DEF ReadingOf, Entry

\* The key order tells series apart.
LEMMA RanksApart ==
  ASSUME NEW r \in Series, NEW s \in Series
  PROVE  /\ KeyRank(s) \in Nat
         /\ KeyRank(r) = KeyRank(s) => r = s
<1>1. ASSUME NEW q \in Series
      PROVE  KeyRank(q) \in 1..Len(SeriesOrder) /\ SeriesOrder[KeyRank(q)] = q
  BY <1>1 DEF KeyRank, Series
<1> QED BY <1>1, SeriesAssumption

\* Judging a reading keeps the series state in its type (the three
\* evaluate_ functions).
LEMMA PresentTyped ==
  ASSUME NEW k \in Keys, NEW s \in SeriesState(Readings, Values), NEW r \in Readings
  PROVE  Present(Rules[k[1]], s, r) \in SeriesState(Readings, Values)
<1> DEFINE rule == Rules[k[1]]
           x    == r[rule.metric]
<1>1. rule.for \in Nat \ {0} /\ rule.metric \in Metric
  BY RuleTyped
<1>2. Apply(s.gate, PresentVerdict(rule, s, r), rule.for) \in Gate
  BY <1>1, ApplyTyped DEF SeriesState
<1>3. x \in Values
  BY <1>1, ReadingsAssumption
<1>4. s.window \in Seq(Values)
  BY DEF SeriesState
<1>5. rule.window \in Nat \ {0, 1}
  BY RuleTyped
<1>6. Slide(s.window, x, rule.window - 1) \in Seq(Values)
  <2> HIDE DEF x
  <2>1. CASE Len(s.window) = rule.window - 1
    <3>1. Tail(s.window) \in Seq(Values)
      BY <1>4, <1>5, <2>1
    <3> QED BY <1>3, <2>1, <3>1 DEF Slide
  <2>2. CASE Len(s.window) # rule.window - 1
    BY <1>3, <1>4, <2>2 DEF Slide
  <2> QED BY <2>1, <2>2
<1> HIDE DEF x
<1> QED BY <1>2, <1>4, <1>6 DEF Present, SeriesState, x

\* An absent series keeps its state in its type.
LEMMA AbsentTyped ==
  ASSUME NEW k \in Keys, NEW s \in SeriesState(Readings, Values)
  PROVE  Absent(Rules[k[1]], s) \in SeriesState(Readings, Values)
<1> DEFINE rule == Rules[k[1]]
<1>1. Apply(s.gate, "Violates", rule.for) \in Gate
  BY RuleTyped, ApplyTyped DEF SeriesState
<1>2. [s.gate EXCEPT !.streak = 0] \in Gate
  BY DEF SeriesState, Gate
<1>3. <<>> \in Seq(Values)
  OBVIOUS
<1> QED BY <1>1, <1>2, <1>3 DEF Absent, SeriesState

\* A source alert and a series alert never share a key.
LEMMA KeysDisjoint ==
  ASSUME NEW i \in SourceRules
  PROVE  /\ <<i, NoSeries>> \notin Keys
         /\ i \in RuleIds
         /\ Rules[i].for \in Nat \ {0}
BY RulesAssumption DEF Keys, SourceRules, ValidRule

-----------------------------------------------------------------------------
(* One tick. *)

\* A fresh engine is well typed and holds nothing fired.
LEMMA FreshEngine ==
  ASSUME series = FreshSeries, source = FreshSource
  PROVE  EngineTyped /\ OpenAlerts = {}
<1>1. Unseen \in SeriesState(Readings, Values) /\ Quiet \in Gate
  BY DEF Unseen, Quiet, Gate, SeriesState
<1>2. EngineTyped
  BY <1>1 DEF EngineTyped, FreshSeries, FreshSource
<1>3. ASSUME NEW k \in AlertKeys PROVE ~GateOf(k).fired
  BY DEF AlertKeys, GateOf, FreshSeries, FreshSource, Unseen, Quiet
<1> QED BY <1>2, <1>3 DEF OpenAlerts

\* A tick keeps the engine state in its type.
LEMMA ObserveTyped ==
  ASSUME EngineTyped, Observes
  PROVE  EngineTyped'
<1>1. ASSUME NEW v, StepSource(v) PROVE source' \in [SourceRules -> Gate]
  <2>1. \A i \in SourceRules : source[i] \in Gate /\ Rules[i].for \in Nat \ {0}
    BY RulesAssumption DEF EngineTyped, SourceRules, ValidRule
  <2> QED BY <1>1, <2>1, ApplyTyped DEF StepSource
<1>2. CASE ObserveUnavailable
  BY <1>1, <1>2 DEF EngineTyped, ObserveUnavailable
<1>3. ASSUME NEW sample \in Seq(Entry), ObserveSample(sample) PROVE EngineTyped'
  <2>1. ASSUME NEW k \in Keys PROVE series'[k] \in SeriesState(Readings, Values)
    <3>1. series[k] \in SeriesState(Readings, Values) /\ k[2] \in Series
      BY RuleTyped DEF EngineTyped
    <3>2. CASE InSample(sample, k[2])
      BY <1>3, <3>1, <3>2, ReadingTyped, PresentTyped DEF ObserveSample
    <3>3. CASE ~InSample(sample, k[2])
      BY <1>3, <3>1, <3>3, AbsentTyped DEF ObserveSample
    <3> QED BY <3>2, <3>3
  <2>2. series' \in [Keys -> SeriesState(Readings, Values)]
    BY <1>3, <2>1 DEF ObserveSample
  <2>3. source' \in [SourceRules -> Gate]
    BY <1>1, <1>3 DEF ObserveSample
  <2> QED BY <2>2, <2>3 DEF EngineTyped
<1> QED BY <1>2, <1>3 DEF Observes

\* A transition names an alert, and says that it fired or that it cleared.
LEMMA TransitionsNameAlerts ==
  ASSUME EngineTyped, Observes, NEW t \in out'
  PROVE  <<t.rule, t.series>> \in AlertKeys /\ t.state \in {"fired", "cleared"}
<1>1. ASSUME NEW i \in SourceRules, NEW v
      PROVE  SourceEvent(i, v).state \in {"none", "fired", "cleared"}
  <2>1. source[i] \in Gate /\ Rules[i].for \in Nat \ {0}
    BY KeysDisjoint DEF EngineTyped
  <2> QED BY <2>1, EventTyped DEF SourceEvent
<1>2. ASSUME NEW k \in Keys, NEW sample
      PROVE  SeriesEvent(k, sample).state \in {"none", "fired", "cleared"}
  <2>1. series[k].gate \in Gate /\ Rules[k[1]].for \in Nat \ {0}
    BY RuleTyped DEF EngineTyped, SeriesState
  <2> QED BY <2>1, EventTyped DEF SeriesEvent
<1>3. ASSUME NEW v, t \in SourceTransitions(v)
      PROVE  <<t.rule, t.series>> \in AlertKeys /\ t.state \in {"fired", "cleared"}
  BY <1>1, <1>3 DEF SourceTransitions, Announcing, Transition, AlertKeys
<1>4. ASSUME NEW sample, t \in SampleTransitions(sample)
      PROVE  <<t.rule, t.series>> \in AlertKeys /\ t.state \in {"fired", "cleared"}
  <2>1. CASE t \in SourceTransitions("Recovers")
    BY <1>3, <2>1
  <2>2. CASE t \notin SourceTransitions("Recovers")
    <3>1. PICK k \in Keys : t = Transition(k[1], k[2], SeriesEvent(k, sample)) /\ t.state # "none"
      BY <1>4, <2>2 DEF SampleTransitions, Announcing
    <3>2. t.state \in {"fired", "cleared"}
      BY <1>2, <3>1 DEF Transition
    <3>3. <<t.rule, t.series>> = k
      BY <3>1 DEF Transition, Keys
    <3> QED BY <3>2, <3>3 DEF AlertKeys
  <2> QED BY <2>1, <2>2
<1> QED BY <1>3, <1>4 DEF Observes, ObserveUnavailable, ObserveSample

\* The transitions of a tick are exactly the alerts that opened and closed.
LEMMA ObserveAnnounces ==
  ASSUME EngineTyped, Observes, NEW k \in AlertKeys
  PROVE  AnnouncesEdges(k)
<1>1. /\ k \in OpenAlerts <=> GateOf(k).fired
      /\ k \in OpenAlerts' <=> GateOf(k)'.fired
  BY DEF OpenAlerts
<1>2. ASSUME k \in SourceRules \X {NoSeries}, NEW v, StepSource(v),
             \A t : t \in out' /\ t.rule = k[1] <=>
                   t \in SourceTransitions(v) /\ t.rule = k[1]
      PROVE  AnnouncesEdges(k)
  <2> DEFINE e == SourceEvent(k[1], v)
  <2>1. k = <<k[1], NoSeries>> /\ k[1] \in SourceRules /\ k \notin Keys
    BY <1>2, KeysDisjoint
  <2>2. source[k[1]] \in Gate /\ Rules[k[1]].for \in Nat \ {0}
    BY <2>1, KeysDisjoint DEF EngineTyped
  <2>3. /\ e.state = "fired" <=> ~GateOf(k).fired /\ GateOf(k)'.fired
        /\ e.state = "cleared" <=> GateOf(k).fired /\ ~GateOf(k)'.fired
    BY <1>2, <2>1, <2>2, EventIsEdge DEF GateOf, SourceEvent, StepSource
  <2>4. \A t : t \in SourceTransitions(v) /\ t.rule = k[1]
                <=> t = Transition(k[1], NoSeries, e) /\ e.state # "none"
    BY <2>1 DEF SourceTransitions, Announcing, Transition
  <2> HIDE DEF e
  <2>5. \A state : Announced(state, k)' <=> \E t : t \in SourceTransitions(v) /\ t.rule = k[1]
                                                 /\ t.series = k[2] /\ t.state = state
    BY <1>2 DEF Announced
  <2>6. Transition(k[1], NoSeries, e).series = k[2] /\ Transition(k[1], NoSeries, e).state = e.state
    BY <2>1 DEF Transition
  <2>7. \A state \in {"fired", "cleared"} : Announced(state, k)' <=> e.state = state
    BY <2>4, <2>5, <2>6
  <2> QED BY <1>1, <2>3, <2>7 DEF AnnouncesEdges
<1>3. CASE ObserveUnavailable
  <2>1. CASE k \in Keys
    <3>1. \A state : ~Announced(state, k)'
      BY <1>3, <2>1 DEF ObserveUnavailable, SourceTransitions, Announcing, Transition,
                        Announced, Keys, SourceRules
    <3> QED BY <1>3, <2>1, <3>1 DEF AnnouncesEdges, ObserveUnavailable, OpenAlerts, GateOf
  <2>2. CASE k \in SourceRules \X {NoSeries}
    BY <1>2, <1>3, <2>2 DEF ObserveUnavailable
  <2> QED BY <2>1, <2>2 DEF AlertKeys
<1>4. ASSUME NEW sample \in Seq(Entry), ObserveSample(sample) PROVE AnnouncesEdges(k)
  <2>1. CASE k \in Keys
    <3> DEFINE e == SeriesEvent(k, sample)
    <3>1. series[k].gate \in Gate /\ Rules[k[1]].for \in Nat \ {0}
      BY <2>1, RuleTyped DEF EngineTyped, SeriesState
    <3>2. \A state \in {"fired", "cleared"} : Announced(state, k)' <=> e.state = state
      <4>1. \A j \in Keys : j[1] = k[1] /\ j[2] = k[2] => j = k
        BY <2>1 DEF Keys
      <4>2. k[1] \notin SourceRules
        BY <2>1 DEF Keys, SourceRules
      <4>3. \A t : t \in SampleTransitions(sample) /\ t.rule = k[1] /\ t.series = k[2]
                    <=> t = Transition(k[1], k[2], e) /\ e.state # "none"
        BY <2>1, <4>1, <4>2 DEF SampleTransitions, SourceTransitions, Announcing, Transition
      <4> HIDE DEF e
      <4>4. \A state : Announced(state, k)'
              <=> \E t : t \in SampleTransitions(sample) /\ t.rule = k[1]
                         /\ t.series = k[2] /\ t.state = state
        BY <1>4 DEF ObserveSample, Announced
      <4>5. Transition(k[1], k[2], e).state = e.state
        BY DEF Transition
      <4> QED BY <4>3, <4>4, <4>5
    <3> DEFINE v == IF InSample(sample, k[2])
                      THEN PresentVerdict(Rules[k[1]], series[k], ReadingOf(sample, k[2]))
                      ELSE AbsentVerdict(Rules[k[1]], series[k])
    <3>3. GateOf(k)'.fired = Apply(series[k].gate, v, Rules[k[1]].for).fired
      <4>1. CASE InSample(sample, k[2])
        BY <1>4, <2>1, <4>1 DEF ObserveSample, GateOf, Present
      <4>2. CASE ~InSample(sample, k[2])
        BY <1>4, <2>1, <3>1, <4>2 DEF ObserveSample, GateOf, Absent, AbsentVerdict, Apply,
                                     EngineTyped, SeriesState, Gate
      <4> QED BY <4>1, <4>2
    <3>4. e = GateEvent(series[k].gate, v, Rules[k[1]].for)
      BY DEF SeriesEvent
    <3> HIDE DEF v, e
    <3>5. /\ e.state = "fired" <=> ~GateOf(k).fired /\ GateOf(k)'.fired
          /\ e.state = "cleared" <=> GateOf(k).fired /\ ~GateOf(k)'.fired
      BY <2>1, <3>1, <3>3, <3>4, EventIsEdge DEF GateOf
    <3> QED BY <1>1, <3>2, <3>5 DEF AnnouncesEdges
  <2>2. CASE k \in SourceRules \X {NoSeries}
    <3>1. \A j \in Keys : j[1] # k[1]
      BY <2>2 DEF Keys, SourceRules
    <3> QED BY <1>2, <1>4, <2>2, <3>1 DEF ObserveSample, SampleTransitions, Announcing, Transition
  <2> QED BY <2>1, <2>2 DEF AlertKeys
<1> QED BY <1>3, <1>4 DEF Observes

\* In a tick a gate judges once, keeps its streak's reset, or stays as it is.
LEMMA GateMoves ==
  ASSUME EngineTyped, Observes, NEW k \in AlertKeys
  PROVE  /\ GateOf(k) \in Gate /\ Rules[k[1]].for \in Nat \ {0} /\ k[1] \in RuleIds
         /\ \/ \E v : GateOf(k)' = Apply(GateOf(k), v, Rules[k[1]].for)
            \/ GateOf(k)' = [GateOf(k) EXCEPT !.streak = 0]
            \/ GateOf(k)' = GateOf(k)
<1>1. CASE k \in Keys
  <2>1. series[k] \in SeriesState(Readings, Values)
    BY <1>1 DEF EngineTyped
  <2>2. series[k].gate \in Gate
    BY <2>1 DEF SeriesState
  <2>3. CASE ObserveUnavailable
    BY <1>1, <2>2, <2>3, RuleTyped DEF ObserveUnavailable, GateOf
  <2>4. ASSUME NEW sample \in Seq(Entry), ObserveSample(sample), InSample(sample, k[2])
        PROVE  \E v : series'[k].gate = Apply(series[k].gate, v, Rules[k[1]].for)
    BY <1>1, <2>4 DEF ObserveSample, Present
  <2>5. ASSUME NEW sample \in Seq(Entry), ObserveSample(sample), ~InSample(sample, k[2])
        PROVE  \/ \E v : series'[k].gate = Apply(series[k].gate, v, Rules[k[1]].for)
               \/ series'[k].gate = [series[k].gate EXCEPT !.streak = 0]
               \/ series'[k].gate = series[k].gate
    <3>1. series'[k] = Absent(Rules[k[1]], series[k])
      BY <1>1, <2>5 DEF ObserveSample
    <3> QED BY <2>1, <3>1 DEF Absent, SeriesState
  <2> QED BY <1>1, <2>2, <2>3, <2>4, <2>5, RuleTyped DEF Observes, GateOf
<1>2. CASE k \in SourceRules \X {NoSeries}
  <2>1. k = <<k[1], NoSeries>> /\ k[1] \in SourceRules /\ k \notin Keys
    BY <1>2, KeysDisjoint
  <2>2. source[k[1]] \in Gate
    BY <2>1 DEF EngineTyped
  <2>3. \E v : source'[k[1]] = Apply(source[k[1]], v, Rules[k[1]].for)
    BY <2>1 DEF Observes, ObserveUnavailable, ObserveSample, StepSource
  <2> QED BY <2>1, <2>2, <2>3, KeysDisjoint DEF GateOf
<1> QED BY <1>1, <1>2 DEF AlertKeys

\* Of one rule and series a tick announces at most one transition, and of one
\* rule more than one only on its series.
LEMMA OneEach ==
  ASSUME Observes, NEW t \in out', NEW u \in out', t.rule = u.rule, t # u
  PROVE  /\ ~ObserveUnavailable
         /\ t.series \in Series /\ u.series \in Series /\ t.series # u.series
<1>1. ASSUME NEW v, t \in SourceTransitions(v), u \in SourceTransitions(v) PROVE FALSE
  BY <1>1 DEF SourceTransitions, Announcing, Transition
<1>2. ~ObserveUnavailable
  BY <1>1 DEF ObserveUnavailable
<1>3. PICK sample \in Seq(Entry) : ObserveSample(sample)
  BY <1>2 DEF Observes
<1>4. ASSUME NEW e \in out'
      PROVE  \/ e \in SourceTransitions("Recovers") /\ e.rule \in SourceRules
             \/ /\ <<e.rule, e.series>> \in Keys
                /\ e = Transition(e.rule, e.series, SeriesEvent(<<e.rule, e.series>>, sample))
  <2>1. CASE e \in SourceTransitions("Recovers")
    BY <2>1 DEF SourceTransitions, Announcing, Transition
  <2>2. CASE e \notin SourceTransitions("Recovers")
    <3>1. PICK k \in Keys : e = Transition(k[1], k[2], SeriesEvent(k, sample))
      BY <1>3, <2>2 DEF ObserveSample, SampleTransitions, Announcing
    <3>2. e.rule = k[1] /\ e.series = k[2] /\ k = <<k[1], k[2]>>
      BY <3>1 DEF Transition, Keys
    <3> QED BY <3>1, <3>2
  <2> QED BY <2>1, <2>2
<1>5. \A e \in out' : <<e.rule, e.series>> \in Keys => e.rule \notin SourceRules /\ e.series \in Series
  BY DEF Keys, SourceRules
<1> QED BY <1>1, <1>2, <1>4, <1>5

\* The order of two transitions of a sample is decided, and not both ways.
LEMMA OrderDecided ==
  ASSUME Observes, NEW sample \in Seq(Entry), NEW t \in out', NEW u \in out', t # u,
         t.rule \in Nat, u.rule \in Nat
  PROVE  Precedes(sample, t, u) <=> ~Precedes(sample, u, t)
<1>1. CASE t.rule # u.rule
  BY <1>1 DEF Precedes
<1>2. CASE t.rule = u.rule
  <2>1. t.series \in Series /\ u.series \in Series /\ t.series # u.series
    BY <1>2, OneEach
  <2>2. CASE InSample(sample, t.series) /\ InSample(sample, u.series)
    <3>1. /\ FirstOf(sample, t.series) \in Nat /\ FirstOf(sample, u.series) \in Nat
          /\ FirstOf(sample, t.series) # FirstOf(sample, u.series)
      BY <2>1, <2>2, FirstOccurs
    <3> QED BY <1>2, <2>2, <3>1 DEF Precedes
  <2>3. CASE ~InSample(sample, t.series) /\ ~InSample(sample, u.series)
    <3>1. /\ KeyRank(t.series) \in Nat /\ KeyRank(u.series) \in Nat
          /\ KeyRank(t.series) # KeyRank(u.series)
      BY <2>1, RanksApart
    <3> QED BY <1>2, <2>3, <3>1 DEF Precedes
  <2>4. CASE InSample(sample, t.series) /\ ~InSample(sample, u.series)
    BY <1>2, <2>4 DEF Precedes
  <2>5. CASE ~InSample(sample, t.series) /\ InSample(sample, u.series)
    BY <1>2, <2>5 DEF Precedes
  <2> QED BY <2>2, <2>3, <2>4, <2>5
<1> QED BY <1>1, <1>2
=============================================================================
