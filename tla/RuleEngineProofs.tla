-------------------------- MODULE RuleEngineProofs ---------------------------
(***************************************************************************)
(* Proofs about RuleEngine, for every rule set, series, reading and bound. *)
(***************************************************************************)
EXTENDS RuleEngine, EngineLemmas, FiniteSetTheorems

-----------------------------------------------------------------------------
(* Type correctness. *)

\* The transitions of a tick are well formed.
LEMMA SourceTransitionsTyped ==
  ASSUME TypeOK, NEW v
  PROVE  SourceTransitions(v) \subseteq Transitions
<1>1. SUFFICES ASSUME NEW i \in SourceRules, SourceEvent(i, v).state # "none"
              PROVE  Transition(i, NoSeries, SourceEvent(i, v)) \in Transitions
  BY DEF SourceTransitions, Announcing, Transition
<1>2. source[i] \in Gate /\ Rules[i].for \in Nat \ {0} /\ i \in RuleIds
  BY RulesAssumption DEF TypeOK, SourceRules, ValidRule
<1>3. /\ SourceEvent(i, v).state \in {"none", "fired", "cleared"}
      /\ SourceEvent(i, v).samples \in Nat
  BY <1>2, EventTyped DEF SourceEvent
<1> QED BY <1>1, <1>2, <1>3 DEF Transition, Transitions

LEMMA SampleTransitionsTyped ==
  ASSUME TypeOK, NEW sample
  PROVE  SampleTransitions(sample) \subseteq Transitions
<1>1. SUFFICES ASSUME NEW k \in Keys, SeriesEvent(k, sample).state # "none"
              PROVE  Transition(k[1], k[2], SeriesEvent(k, sample)) \in Transitions
  BY SourceTransitionsTyped DEF SampleTransitions, Announcing, Transition
<1>2. series[k].gate \in Gate
  BY DEF TypeOK, SeriesState
<1>3. /\ SeriesEvent(k, sample).state \in {"none", "fired", "cleared"}
      /\ SeriesEvent(k, sample).samples \in Nat
  BY <1>2, RuleTyped, EventTyped DEF SeriesEvent
<1> QED BY <1>1, <1>3, RuleTyped DEF Transition, Transitions

\* Every reachable state of the engine is well typed.
THEOREM TypeCorrect == Spec => []TypeOK
<1> USE DEF EngineTyped
<1>1. Init => TypeOK
  BY FreshEngine DEF Init, TypeOK
<1>2. TypeOK /\ [Next]_vars => TypeOK'
  <2> SUFFICES ASSUME TypeOK, [Next]_vars PROVE TypeOK'
    OBVIOUS
  <2>1. CASE UNCHANGED vars
    BY <2>1 DEF TypeOK, vars
  <2>2. CASE Next
    <3>1. EngineTyped'
      BY <2>2, ObserveTyped, SamplesAssumption DEF TypeOK, Next, Observes
    <3>2. hist' \in Seq(Ticks)
      BY <2>2, SMTT(30) DEF TypeOK, Next, Remember, Ticks
    <3>3. out' \subseteq Transitions
      BY <2>2, SourceTransitionsTyped, SampleTransitionsTyped DEF Next, ObserveUnavailable, ObserveSample
    <3> QED BY <3>1, <3>2, <3>3 DEF TypeOK
  <2> QED BY <2>1, <2>2
<1> QED BY <1>1, <1>2, PTL DEF Spec

-----------------------------------------------------------------------------
(* The counters of the gates. *)

\* Applying a verdict keeps a gate's counters consistent with its state.
LEMMA ApplyConsistent ==
  ASSUME NEW g \in Gate, NEW v, NEW for \in Nat \ {0}, GateConsistent(g, for)
  PROVE  GateConsistent(Apply(g, v, for), for)
BY DEF Apply, Violate, Recover, Unevaluable, Quiet, Gate, GateConsistent

\* In every reachable state a gate that has not fired has a streak shorter
\* than for_samples, and one that has fired counts at least that many
\* violating samples, the number a Cleared payload reports.
THEOREM CountersConsistent == Spec => []GatesConsistent
<1>1. Init => GatesConsistent
  <2> SUFFICES ASSUME Init PROVE GatesConsistent
    OBVIOUS
  <2>1. ASSUME NEW for \in Nat \ {0} PROVE GateConsistent(Quiet, for)
    BY DEF GateConsistent, Quiet
  <2>2. \A i \in SourceRules : Rules[i].for \in Nat \ {0}
    BY RulesAssumption DEF SourceRules, ValidRule
  <2>3. \A k \in Keys : GateConsistent(series[k].gate, Rules[k[1]].for)
    BY <2>1, RuleTyped DEF Init, FreshSeries, Unseen
  <2> QED BY <2>1, <2>2, <2>3 DEF Init, FreshSource, GatesConsistent
<1>2. TypeOK /\ GatesConsistent /\ [Next]_vars => GatesConsistent'
  <2> SUFFICES ASSUME TypeOK, GatesConsistent, [Next]_vars PROVE GatesConsistent'
    OBVIOUS
  <2>1. ASSUME NEW v, StepSource(v)
        PROVE  \A i \in SourceRules : GateConsistent(source'[i], Rules[i].for)
    <3>1. \A i \in SourceRules : source[i] \in Gate /\ Rules[i].for \in Nat \ {0}
      BY RulesAssumption DEF TypeOK, SourceRules, ValidRule
    <3> QED BY <2>1, <3>1, ApplyConsistent DEF StepSource, GatesConsistent
  <2>2. CASE Remember(Unavailable) /\ ObserveUnavailable
    BY <2>1, <2>2 DEF ObserveUnavailable, GatesConsistent
  <2>3. ASSUME NEW sample \in Samples, Remember(sample), ObserveSample(sample) PROVE GatesConsistent'
    <3>1. ASSUME NEW k \in Keys PROVE GateConsistent(series'[k].gate, Rules[k[1]].for)
      <4> DEFINE g == series[k].gate
                 for == Rules[k[1]].for
      <4>1. g \in Gate /\ for \in Nat \ {0} /\ GateConsistent(g, for)
        BY RuleTyped DEF TypeOK, SeriesState, GatesConsistent
      <4>2. \A v : GateConsistent(Apply(g, v, for), for)
        BY <4>1, ApplyConsistent
      <4>3. GateConsistent([g EXCEPT !.streak = 0], for)
        BY <4>1 DEF GateConsistent, Gate
      <4>4. CASE InSample(sample, k[2])
        BY <2>3, <4>2, <4>4 DEF ObserveSample, Present
      <4>5. CASE ~InSample(sample, k[2])
        BY <2>3, <4>1, <4>2, <4>3, <4>5 DEF ObserveSample, Absent, TypeOK, SeriesState
      <4> QED BY <4>4, <4>5
    <3> QED BY <2>1, <2>3, <3>1 DEF ObserveSample, GatesConsistent
  <2>4. CASE UNCHANGED vars
    BY <2>4 DEF vars, GatesConsistent
  <2> QED BY <2>2, <2>3, <2>4 DEF Next
<1> QED BY <1>1, <1>2, TypeCorrect, PTL DEF Spec

-----------------------------------------------------------------------------
(* The alerts and their transitions. *)

\* An open alert on a series closes only on a sample that recovers it: a
\* sample of the series, and for a threshold rule a number past its clear
\* level; no absence, NaN or outage ever announces an all-clear.
THEOREM AllClearIsReal == Spec => NoFalseAllClear
<1> DEFINE Closes(k) == series[k].gate.fired /\ ~series'[k].gate.fired
           Real == \A k \in Keys : Closes(k) => RecoveredBy(Rules[k[1]], k[2], hist'[Len(hist')])
<1>1. TypeOK /\ [Next]_vars => [Real]_vars
  <2> SUFFICES ASSUME TypeOK, Next, NEW k \in Keys, Closes(k)
               PROVE  RecoveredBy(Rules[k[1]], k[2], hist'[Len(hist')])
    BY DEF vars
  <2>1. PICK sample \in Samples : Remember(sample) /\ ObserveSample(sample)
    BY DEF Next, ObserveUnavailable
  <2>2. hist'[Len(hist')] = sample
    BY <2>1 DEF Remember, TypeOK
  <2>3. sample # Unavailable
    BY SamplesAssumption
  <2> DEFINE g == series[k].gate
             rule == Rules[k[1]]
  <2>4. g \in Gate /\ g.fired /\ rule.for \in Nat \ {0}
    BY RuleTyped DEF TypeOK, SeriesState
  <2>5. InSample(sample, k[2])
    <3> SUFFICES ASSUME ~InSample(sample, k[2]) PROVE FALSE
      OBVIOUS
    <3>1. series'[k] = Absent(rule, series[k])
      BY <2>1 DEF ObserveSample
    <3>2. Absent(rule, series[k]).gate.fired
      BY <2>4, OnlyRecoversClears DEF Absent, TypeOK, SeriesState, Gate
    <3> QED BY <3>1, <3>2
  <2>6. ASSUME rule.kind = "threshold"
        PROVE  LET x == ReadingOf(sample, k[2])[rule.metric]
               IN  x # NaN /\ ~Compare(rule.op, x, rule.clear) /\ ~Compare(rule.op, x, rule.threshold)
    <3> DEFINE r == ReadingOf(sample, k[2])
               x == r[rule.metric]
    <3>1. series'[k].gate = Apply(g, PresentVerdict(rule, series[k], r), rule.for)
      BY <2>1, <2>5 DEF ObserveSample, Present
    <3>2. PresentVerdict(rule, series[k], r) = "Recovers"
      BY <2>4, <3>1, OnlyRecoversClears
    <3>3. ValueVerdict(rule, g, x) = "Recovers"
      BY <2>6, <3>2 DEF PresentVerdict
    <3>4. x # NaN /\ ~Compare(rule.op, x, rule.clear)
      BY <2>4, <3>3 DEF ValueVerdict
    <3>5. x \in Int
      BY <2>5, <3>4, RuleTyped, ReadingTyped, ReadingsAssumption, SamplesAssumption DEF Values
    <3> HIDE DEF x
    <3>6. ~Compare(rule.op, x, rule.threshold)
      BY <3>4, <3>5, RuleTyped DEF Compare
    <3> QED BY <3>4, <3>6 DEF x
  <2> QED BY <2>2, <2>3, <2>5, <2>6 DEF RecoveredBy
<1> QED BY <1>1, TypeCorrect, PTL DEF Spec, NoFalseAllClear

\* The transitions of a tick are exactly the alerts that opened and closed.
THEOREM TransitionsAreEdges == Spec => AnnouncesChanges
<1>1. TypeOK /\ [Next]_vars => [\A k \in AlertKeys : AnnouncesEdges(k)]_vars
  BY ObserveAnnounces, SamplesAssumption DEF Next, Observes, TypeOK, EngineTyped
<1> QED BY <1>1, TypeCorrect, PTL DEF Spec, AnnouncesChanges

\* Two transitions of a tick come in one order, whatever the sample repeats and
\* whatever is absent, so the same ticks number the same events.
THEOREM OrderIsTotal == Spec => []OrderTotal
<1>1. Init => OrderTotal
  BY DEF Init, OrderTotal
<1>2. TypeOK /\ TypeOK' /\ OrderTotal /\ [Next]_vars => OrderTotal'
  <2> SUFFICES ASSUME TypeOK, TypeOK', OrderTotal, [Next]_vars PROVE OrderTotal'
    OBVIOUS
  <2>1. ASSUME NEW e \in out' PROVE e.rule \in Nat
    BY DEF TypeOK, Transitions, RuleIds
  <2>2. CASE Remember(Unavailable) /\ ObserveUnavailable
    <3>1. hist'[Len(hist')] = Unavailable
      BY <2>2 DEF Remember, TypeOK
    <3>2. \A e, f \in out' : e # f => e.rule # f.rule
      BY <2>2, OneEach DEF Observes
    <3> QED BY <3>1, <3>2 DEF OrderTotal
  <2>3. ASSUME NEW sample \in Samples, Remember(sample), ObserveSample(sample) PROVE OrderTotal'
    <3>1. hist'[Len(hist')] = sample /\ sample # Unavailable
      BY <2>3, SamplesAssumption DEF Remember, TypeOK
    <3>2. ASSUME NEW e \in out', NEW f \in out', e # f
          PROVE  Precedes(sample, e, f) # Precedes(sample, f, e)
      <4>1. Precedes(sample, e, f) <=> ~Precedes(sample, f, e)
        BY <2>1, <2>3, <3>2, OrderDecided, SamplesAssumption DEF Observes
      <4>2. Precedes(sample, e, f) \in BOOLEAN /\ Precedes(sample, f, e) \in BOOLEAN
        BY DEF Precedes
      <4> QED BY <4>1, <4>2
    <3> QED BY <3>1, <3>2 DEF OrderTotal
  <2>4. CASE UNCHANGED vars
    BY <2>4 DEF vars, OrderTotal
  <2> QED BY <2>2, <2>3, <2>4 DEF Next
<1> QED BY <1>1, <1>2, TypeCorrect, PTL DEF Spec

-----------------------------------------------------------------------------
(* The history operators of AlertEpisodes. *)

\* The abstract specification reads the rules and the samples the engine reads.
LEMMA SameStream ==
  /\ Episodes!AlertKeys = AlertKeys /\ Episodes!Ticks = Ticks
  /\ \A t, s : /\ Episodes!InSample(t, s) <=> InSample(t, s)
               /\ Episodes!ReadingOf(t, s) = ReadingOf(t, s)
  /\ \A op, x, y : Episodes!Compare(op, x, y) <=> Compare(op, x, y)
  /\ \A x, y : Episodes!Delta(x, y) = Delta(x, y)
  /\ \A S : Episodes!Cardinality(S) = Cardinality(S)
<1>1. Episodes!AlertKeys = AlertKeys /\ Episodes!Ticks = Ticks
  BY DEF Episodes!AlertKeys, AlertKeys, Episodes!Keys, Keys, Episodes!SourceRules, SourceRules,
         Episodes!RuleIds, RuleIds, Episodes!Series, Series, Episodes!NoSeries, NoSeries,
         Episodes!Ticks, Ticks
<1>2. ASSUME NEW t, NEW s
      PROVE  /\ Episodes!InSample(t, s) <=> InSample(t, s)
             /\ Episodes!ReadingOf(t, s) = ReadingOf(t, s)
  BY DEF Episodes!InSample, InSample, Episodes!ReadingOf, ReadingOf, Episodes!FirstOf, FirstOf,
         Episodes!Occurrences, Occurrences
<1>3. ASSUME NEW op, NEW x, NEW y
      PROVE  /\ Episodes!Compare(op, x, y) <=> Compare(op, x, y)
             /\ Episodes!Delta(x, y) = Delta(x, y)
  BY DEF Episodes!Compare, Compare, Episodes!Delta, Delta
<1>4. ASSUME NEW S PROVE Episodes!Cardinality(S) = Cardinality(S)
  BY DEF Episodes!Cardinality, Cardinality
<1> QED BY <1>1, <1>2, <1>3, <1>4

\* What the history says of its first n ticks does not change when it grows.
LEMMA PastIsFixed ==
  ASSUME NEW i, NEW s, NEW h, NEW g, NEW n \in Nat, \A j \in 1..n : g[j] = h[j]
  PROVE  /\ \A j \in 1..n : /\ Episodes!Visible(i, g, j) <=> Episodes!Visible(i, h, j)
                            /\ Episodes!SeenAt(s, g, j) <=> Episodes!SeenAt(s, h, j)
         /\ \A m : Episodes!SamplesIn(g, m, n) \cap (1..n) = Episodes!SamplesIn(h, m, n) \cap (1..n)
         /\ \A b : Episodes!BackFrom(s, g, n, b) = Episodes!BackFrom(s, h, n, b)
         /\ n > 0 => /\ Episodes!ViolatesAt(i, s, g, n) <=> Episodes!ViolatesAt(i, s, h, n)
                     /\ Episodes!RecoversAt(i, s, g, n) <=> Episodes!RecoversAt(i, s, h, n)
<1>1. \A j \in 1..n : /\ Episodes!SeesSample(g, j) <=> Episodes!SeesSample(h, j)
                      /\ Episodes!Visible(i, g, j) <=> Episodes!Visible(i, h, j)
                      /\ Episodes!SeenAt(s, g, j) <=> Episodes!SeenAt(s, h, j)
  BY DEF Episodes!SeesSample, Episodes!Visible, Episodes!SeenAt
<1>2. \A m : Episodes!SamplesIn(g, m, n) \cap (1..n) = Episodes!SamplesIn(h, m, n) \cap (1..n)
  BY <1>1 DEF Episodes!SamplesIn
<1>3. ASSUME NEW m \in 1..n
      PROVE  /\ Episodes!SamplesIn(g, m, n) = Episodes!SamplesIn(h, m, n)
             /\ Episodes!Unbroken(s, g, m, n) <=> Episodes!Unbroken(s, h, m, n)
  <2>1. Episodes!SamplesIn(g, m, n) = Episodes!SamplesIn(h, m, n)
    BY <1>1 DEF Episodes!SamplesIn
  <2>2. \A j \in Episodes!SamplesIn(h, m, n) : g[j] = h[j]
    BY DEF Episodes!SamplesIn
  <2> QED BY <2>1, <2>2 DEF Episodes!Unbroken
<1>4. ASSUME NEW b PROVE Episodes!BackFrom(s, g, n, b) = Episodes!BackFrom(s, h, n, b)
  BY <1>1, <1>3 DEF Episodes!BackFrom
<1>5. ASSUME n > 0
      PROVE  /\ Episodes!ViolatesAt(i, s, g, n) <=> Episodes!ViolatesAt(i, s, h, n)
             /\ Episodes!RecoversAt(i, s, g, n) <=> Episodes!RecoversAt(i, s, h, n)
  <2>1. n \in 1..n /\ g[n] = h[n]
    BY <1>5
  <2>2. \A b : \A m \in Episodes!BackFrom(s, h, n, b) : g[m] = h[m]
    BY DEF Episodes!BackFrom
  <2>3. /\ Episodes!Repeats(s, g, n) <=> Episodes!Repeats(s, h, n)
        /\ Episodes!Changes(s, g, n) <=> Episodes!Changes(s, h, n)
    BY <1>1, <1>4, <2>1, <2>2 DEF Episodes!Repeats, Episodes!Changes
  <2>4. ASSUME NEW rule PROVE Episodes!ComparedAt(rule, s, g, n) = Episodes!ComparedAt(rule, s, h, n)
    <3> DEFINE Past(f, m) == Episodes!Delta(Episodes!MetricAt(rule, s, f, n), Episodes!MetricAt(rule, s, f, m))
               Pasts(f) == {Past(f, m) : m \in Episodes!BackFrom(s, f, n, rule.window - 1)}
    <3>1. Episodes!MetricAt(rule, s, g, n) = Episodes!MetricAt(rule, s, h, n)
      BY <2>1 DEF Episodes!MetricAt
    <3>2. \A m \in Episodes!BackFrom(s, h, n, rule.window - 1) : Past(g, m) = Past(h, m)
      BY <2>2, <3>1 DEF Episodes!MetricAt
    <3>3. Pasts(g) = Pasts(h)
      <4> HIDE DEF Past
      <4> QED BY <1>4, <3>2
    <3>4. \A f : Episodes!ComparedAt(rule, s, f, n) =
                  IF ~Episodes!SeenAt(s, f, n) THEN {}
                  ELSE IF rule.kind = "threshold" THEN {Episodes!MetricAt(rule, s, f, n)}
                  ELSE Pasts(f)
      BY DEF Episodes!ComparedAt
    <3> HIDE DEF Pasts
    <3> QED BY <1>1, <2>1, <3>1, <3>3, <3>4
  <2>5. (\E m \in 1..n : Episodes!SeenAt(s, g, m)) <=> (\E m \in 1..n : Episodes!SeenAt(s, h, m))
    BY <1>1
  <2> QED BY <1>1, <2>1, <2>3, <2>4, <2>5 DEF Episodes!ViolatesAt, Episodes!RecoversAt
<1> QED BY <1>1, <1>2, <1>4, <1>5

\* The samples of a stretch of ticks are finitely many.
LEMMA SamplesFinite ==
  ASSUME NEW h, NEW m \in Int, NEW n \in Int
  PROVE  /\ IsFiniteSet(Episodes!SamplesIn(h, m, n))
         /\ Cardinality(Episodes!SamplesIn(h, m, n)) \in Nat
<1>1. IsFiniteSet(m..n)
  BY FS_Interval
<1>2. IsFiniteSet(Episodes!SamplesIn(h, m, n))
  BY <1>1, FS_Subset DEF Episodes!SamplesIn
<1> QED BY <1>2, FS_CardinalityType

\* There is at most one tick `b` samples back.
LEMMA BackOnce ==
  ASSUME NEW s, NEW h, NEW n \in Nat, NEW b,
         NEW l \in Episodes!BackFrom(s, h, n, b), NEW m \in Episodes!BackFrom(s, h, n, b)
  PROVE  l = m
<1>1. ASSUME NEW p \in Episodes!BackFrom(s, h, n, b), NEW q \in Episodes!BackFrom(s, h, n, b), p < q
      PROVE  FALSE
  <2> DEFINE P == Episodes!SamplesIn(h, p, n)
             Q == Episodes!SamplesIn(h, q, n)
  <2>1. /\ p \in 1..n /\ q \in 1..n /\ Episodes!SeenAt(s, h, p)
        /\ Episodes!Cardinality(P) = b + 1 /\ Episodes!Cardinality(Q) = b + 1
    BY DEF Episodes!BackFrom
  <2>2. Cardinality(P) = Cardinality(Q)
    BY <2>1, SameStream
  <2>3. Q \subseteq P /\ p \in P /\ p \notin Q
    BY <1>1, <2>1 DEF Episodes!SamplesIn, Episodes!SeenAt
  <2>4. IsFiniteSet(P)
    BY <2>1, SamplesFinite
  <2> HIDE DEF P, Q
  <2> QED BY <2>2, <2>3, <2>4, FS_Subset
<1>2. l \in Nat /\ m \in Nat
  BY DEF Episodes!BackFrom
<1> QED BY <1>1, <1>2

\* A tick the source cannot fill leaves the samples behind it where they were.
LEMMA BackUnavailable ==
  ASSUME NEW s, NEW h, NEW g, NEW n \in Nat, NEW b,
         \A j \in 1..n : g[j] = h[j], g[n+1] = Unavailable
  PROVE  Episodes!BackFrom(s, g, n+1, b) = Episodes!BackFrom(s, h, n, b)
<1>1. ASSUME NEW m \in 1..n
      PROVE  /\ Episodes!SamplesIn(g, m, n+1) = Episodes!SamplesIn(h, m, n)
             /\ Episodes!SeenAt(s, g, m) <=> Episodes!SeenAt(s, h, m)
             /\ Episodes!Unbroken(s, g, m, n+1) <=> Episodes!Unbroken(s, h, m, n)
  <2>1. Episodes!SamplesIn(g, m, n+1) = Episodes!SamplesIn(h, m, n)
    BY DEF Episodes!SamplesIn, Episodes!SeesSample
  <2>2. \A j \in Episodes!SamplesIn(h, m, n) : g[j] = h[j]
    BY DEF Episodes!SamplesIn
  <2> QED BY <2>1, <2>2 DEF Episodes!Unbroken, Episodes!SeenAt, Episodes!SeesSample
<1>2. ~Episodes!SeenAt(s, g, n+1)
  BY DEF Episodes!SeenAt, Episodes!SeesSample
<1>3. \A m \in 1..n+1 : m \in 1..n \/ m = n+1
  OBVIOUS
<1> QED BY <1>1, <1>2, <1>3 DEF Episodes!BackFrom

\* A sample without the series cuts it off from what came before.
LEMMA BackAbsent ==
  ASSUME NEW s, NEW g, NEW n \in Nat, NEW b,
         g[n+1] # Unavailable, ~InSample(g[n+1], s)
  PROVE  Episodes!BackFrom(s, g, n+1, b) = {}
<1>1. ~Episodes!InSample(g[n+1], s)
  BY SameStream
<1>2. \A m \in 1..n+1 : n+1 \in Episodes!SamplesIn(g, m, n+1)
  BY DEF Episodes!SamplesIn, Episodes!SeesSample
<1> QED BY <1>1, <1>2 DEF Episodes!BackFrom, Episodes!Unbroken

\* A sample with the series moves everything behind it one back.
LEMMA BackPresent ==
  ASSUME NEW s, NEW h, NEW g, NEW n \in Nat,
         \A j \in 1..n : g[j] = h[j], g[n+1] # Unavailable, InSample(g[n+1], s)
  PROVE  /\ n+1 \in Episodes!BackFrom(s, g, n+1, 0)
         /\ \A b \in Nat : Episodes!BackFrom(s, g, n+1, b+1) = Episodes!BackFrom(s, h, n, b)
<1>1. Episodes!InSample(g[n+1], s) /\ Episodes!SeesSample(g, n+1) /\ Episodes!SeenAt(s, g, n+1)
  BY SameStream DEF Episodes!SeesSample, Episodes!SeenAt
<1>2. /\ Episodes!SamplesIn(g, n+1, n+1) = {n+1}
      /\ Episodes!Unbroken(s, g, n+1, n+1)
      /\ Episodes!Cardinality(Episodes!SamplesIn(g, n+1, n+1)) = 1
  <2>1. Episodes!SamplesIn(g, n+1, n+1) = {n+1}
    BY <1>1 DEF Episodes!SamplesIn
  <2>2. Cardinality({n+1}) = 1
    BY FS_Singleton
  <2> QED BY <1>1, <2>1, <2>2, SameStream DEF Episodes!Unbroken
<1>3. n+1 \in Episodes!BackFrom(s, g, n+1, 0)
  BY <1>1, <1>2 DEF Episodes!BackFrom
<1>4. ASSUME NEW m \in 1..n
      PROVE  /\ Episodes!SeenAt(s, g, m) <=> Episodes!SeenAt(s, h, m)
             /\ Episodes!Unbroken(s, g, m, n+1) <=> Episodes!Unbroken(s, h, m, n)
             /\ Episodes!Cardinality(Episodes!SamplesIn(g, m, n+1))
                  = Episodes!Cardinality(Episodes!SamplesIn(h, m, n)) + 1
             /\ Episodes!Cardinality(Episodes!SamplesIn(h, m, n)) \in Nat
  <2> DEFINE S == Episodes!SamplesIn(h, m, n)
  <2>1. Episodes!SamplesIn(g, m, n+1) = S \cup {n+1}
    BY <1>1 DEF Episodes!SamplesIn, Episodes!SeesSample
  <2>2. \A j \in S : g[j] = h[j] /\ j # n+1
    BY DEF Episodes!SamplesIn
  <2>3. IsFiniteSet(S) /\ Cardinality(S) \in Nat
    BY SamplesFinite
  <2>4. Cardinality(S \cup {n+1}) = Cardinality(S) + 1
    BY <2>2, <2>3, FS_AddElement
  <2>5. Episodes!SeenAt(s, g, m) <=> Episodes!SeenAt(s, h, m)
    BY DEF Episodes!SeenAt, Episodes!SeesSample
  <2>6. Episodes!Unbroken(s, g, m, n+1) <=> Episodes!Unbroken(s, h, m, n)
    BY <1>1, <2>1, <2>2 DEF Episodes!Unbroken
  <2> HIDE DEF S
  <2> QED BY <2>1, <2>3, <2>4, <2>5, <2>6, SameStream DEF S
<1>5. ASSUME NEW b \in Nat, NEW m
      PROVE  m \in Episodes!BackFrom(s, g, n+1, b+1) <=> m \in Episodes!BackFrom(s, h, n, b)
  <2>1. CASE m \in 1..n
    <3>1. m \in 1..n+1
      BY <2>1
    <3>2. \A c \in Nat : c + 1 = b + 1 + 1 <=> c = b + 1
      OBVIOUS
    <3> QED BY <1>4, <2>1, <3>1, <3>2 DEF Episodes!BackFrom
  <2>2. CASE m = n+1
    BY <1>2, <2>2 DEF Episodes!BackFrom
  <2>3. CASE m \notin 1..n+1
    BY <2>3 DEF Episodes!BackFrom
  <2> QED BY <2>1, <2>2, <2>3
<1> QED BY <1>3, <1>5

-----------------------------------------------------------------------------
(* What a gate tells of the history. *)

\* The visible ticks at the end of the history that violate without a break.
Trail(i, s, h, n) ==
  {j \in 1..n : /\ Episodes!Visible(i, h, j)
                /\ \A l \in j..n : Episodes!Visible(i, h, l) => Episodes!ViolatesAt(i, s, h, l)}

ViolatingAfter(i, s, h, m, n) == {j \in m+1..n : Episodes!ViolatesAt(i, s, h, j)}

\* A gate is fired when a run has ended since the last recovery, and counts the
\* violations from its first run on; unfired, its streak is the trail.
GateTells(gate, i, s, h, n) ==
  LET runs == Episodes!RunsSince(i, s, h, n) IN
  IF gate.fired
    THEN \E fire \in runs :
           /\ \A m \in runs : fire <= m
           /\ gate.total = Rules[i].for + Cardinality(ViolatingAfter(i, s, h, fire, n))
    ELSE runs = {} /\ gate.streak = Cardinality(Trail(i, s, h, n))

\* A gate moves as the last tick of the history says.
Judged(gate, after, i, s, h, n) ==
  LET violates == Episodes!ViolatesAt(i, s, h, n)
      recovers == Episodes!RecoversAt(i, s, h, n)
      visible  == Episodes!Visible(i, h, n)
  IN  /\ violates => visible /\ ~recovers
      /\ recovers => visible
      /\ ~visible => after = gate
      /\ violates => after = Violate(gate, Rules[i].for)
      /\ visible /\ ~violates =>
           IF ~gate.fired THEN ~after.fired /\ after.streak = 0
           ELSE IF recovers THEN after = Quiet
           ELSE after.fired /\ after.total = gate.total

\* A trail is finite.
LEMMA TrailFinite ==
  ASSUME NEW i, NEW s, NEW h, NEW n \in Nat
  PROVE  IsFiniteSet(Trail(i, s, h, n)) /\ Cardinality(Trail(i, s, h, n)) \in Nat
<1>1. IsFiniteSet(1..n)
  BY FS_Interval
<1>2. IsFiniteSet(Trail(i, s, h, n))
  BY <1>1, FS_Subset DEF Trail
<1> QED BY <1>2, FS_CardinalityType

\* A tick extends the trail, breaks it, or is not seen.
LEMMA TrailMoves ==
  ASSUME NEW i, NEW s, NEW h, NEW g, NEW n \in Nat, \A j \in 1..n : g[j] = h[j]
  PROVE  LET violates == Episodes!ViolatesAt(i, s, g, n+1)
             visible  == Episodes!Visible(i, g, n+1)
         IN  /\ ~visible => Trail(i, s, g, n+1) = Trail(i, s, h, n)
             /\ visible /\ violates => Trail(i, s, g, n+1) = Trail(i, s, h, n) \cup {n+1}
             /\ visible /\ ~violates => Trail(i, s, g, n+1) = {}
<1>1. ASSUME NEW j \in 1..n
      PROVE  /\ Episodes!Visible(i, g, j) <=> Episodes!Visible(i, h, j)
             /\ Episodes!ViolatesAt(i, s, g, j) <=> Episodes!ViolatesAt(i, s, h, j)
  BY PastIsFixed, SMTT(30)
<1>2. \A m \in 1..n+1 : \A j \in m..n+1 : j \in 1..n+1 /\ (j \in m..n \/ j = n+1)
  OBVIOUS
<1>3. \A m \in 1..n+1 : n+1 \in m..n+1
  OBVIOUS
<1>4. \A m \in 1..n : \A j \in m..n : j \in 1..n /\ j \in m..n+1
  OBVIOUS
<1>5. \A m \in 1..n+1 : m \in 1..n \/ m = n+1
  OBVIOUS
<1>6. CASE ~Episodes!Visible(i, g, n+1)
  BY <1>1, <1>2, <1>4, <1>5, <1>6 DEF Trail
<1>7. CASE Episodes!Visible(i, g, n+1) /\ Episodes!ViolatesAt(i, s, g, n+1)
  BY <1>1, <1>2, <1>4, <1>5, <1>7 DEF Trail
<1>8. CASE Episodes!Visible(i, g, n+1) /\ ~Episodes!ViolatesAt(i, s, g, n+1)
  BY <1>3, <1>8 DEF Trail
<1> QED BY <1>6, <1>7, <1>8

\* A run ends at a tick exactly when the trail it extends is then for_samples
\* long, as long as no run had ended on that trail before.
LEMMA RunEndsWithTrail ==
  ASSUME NEW i, NEW s, NEW h, NEW n \in Nat \ {0}, Rules[i].for \in Nat,
         Episodes!Visible(i, h, n), Episodes!ViolatesAt(i, s, h, n),
         Cardinality(Trail(i, s, h, n)) <= Rules[i].for
  PROVE  Episodes!RunEndsAt(i, s, h, n) <=> Cardinality(Trail(i, s, h, n)) = Rules[i].for
<1> DEFINE trail == Trail(i, s, h, n)
           Run(m) == {j \in m..n : Episodes!Visible(i, h, j)}
<1>1. IsFiniteSet(trail) /\ Cardinality(trail) \in Nat /\ Cardinality(trail) <= Rules[i].for
  BY TrailFinite
<1>2. Episodes!RunEndsAt(i, s, h, n) <=>
        \E m \in 1..n : /\ n \in Run(m)
                        /\ Cardinality(Run(m)) = Rules[i].for
                        /\ \A j \in Run(m) : Episodes!ViolatesAt(i, s, h, j)
  BY SameStream DEF Episodes!RunEndsAt
<1>3. ASSUME NEW m \in 1..n, Cardinality(Run(m)) = Rules[i].for,
             \A j \in Run(m) : Episodes!ViolatesAt(i, s, h, j)
      PROVE  Cardinality(trail) = Rules[i].for
  <2>1. Run(m) \subseteq trail
    BY <1>3 DEF Trail
  <2> HIDE DEF trail, Run
  <2>2. Cardinality(Run(m)) <= Cardinality(trail)
    BY <1>1, <2>1, FS_Subset
  <2> QED BY <1>1, <1>3, <2>2
<1>4. ASSUME Cardinality(trail) = Rules[i].for
      PROVE  Episodes!RunEndsAt(i, s, h, n)
  <2>1. n \in trail /\ trail \subseteq 1..n
    BY DEF Trail
  <2>2. PICK m \in trail : \A j \in trail : m <= j
    BY <2>1, LeastNat
  <2>3. Run(m) = trail
    BY <2>1, <2>2 DEF Trail
  <2>4. \A j \in trail : Episodes!ViolatesAt(i, s, h, j)
    BY DEF Trail
  <2> HIDE DEF trail, Run
  <2> QED BY <1>2, <1>4, <2>1, <2>2, <2>3, <2>4
<1> HIDE DEF trail, Run
<1> QED BY <1>2, <1>3, <1>4 DEF trail

\* The runs that have ended do not change when the history grows.
LEMMA RunsAreFixed ==
  ASSUME NEW i, NEW s, NEW h, NEW g, NEW n \in Nat, \A j \in 1..n : g[j] = h[j]
  PROVE  \A j \in 1..n : Episodes!RunEndsAt(i, s, g, j) <=> Episodes!RunEndsAt(i, s, h, j)
<1>1. ASSUME NEW j \in 1..n
      PROVE  /\ Episodes!Visible(i, g, j) <=> Episodes!Visible(i, h, j)
             /\ Episodes!ViolatesAt(i, s, g, j) <=> Episodes!ViolatesAt(i, s, h, j)
  BY PastIsFixed, SMTT(30)
<1>2. ASSUME NEW j \in 1..n, NEW m \in 1..j
      PROVE  {l \in m..j : Episodes!Visible(i, g, l)} = {l \in m..j : Episodes!Visible(i, h, l)}
  BY <1>1
<1>3. \A j \in 1..n : \A m \in 1..j : \A l \in m..j : l \in 1..n
  OBVIOUS
<1> QED BY <1>1, <1>2, <1>3 DEF Episodes!RunEndsAt

\* The runs since the last recovery: a recovery ends them all, any other tick
\* keeps them, and a tick that ends a run adds it.
LEMMA RunsMove ==
  ASSUME NEW i, NEW s, NEW h, NEW g, NEW n \in Nat, \A j \in 1..n : g[j] = h[j]
  PROVE  LET ends     == Episodes!RunEndsAt(i, s, g, n+1)
             recovers == Episodes!RecoversAt(i, s, g, n+1)
             before   == Episodes!RunsSince(i, s, h, n)
             after    == Episodes!RunsSince(i, s, g, n+1)
         IN  /\ before \subseteq 1..n /\ after \subseteq 1..n+1
             /\ ends => Episodes!Visible(i, g, n+1) /\ Episodes!ViolatesAt(i, s, g, n+1)
             /\ recovers => after \subseteq {n+1}
             /\ ~recovers => after \ {n+1} = before
             /\ n+1 \in after <=> ends
<1>1. ASSUME NEW j \in 1..n
      PROVE  /\ Episodes!RunEndsAt(i, s, g, j) <=> Episodes!RunEndsAt(i, s, h, j)
             /\ Episodes!RecoversAt(i, s, g, j) <=> Episodes!RecoversAt(i, s, h, j)
  <2>1. \A l \in 1..j : g[l] = h[l]
    OBVIOUS
  <2>2. Episodes!RecoversAt(i, s, g, j) <=> Episodes!RecoversAt(i, s, h, j)
    BY <2>1, PastIsFixed
  <2> QED BY <2>2, RunsAreFixed
<1>2. \A m \in 1..n+1 : m = n+1 \/ (m \in 1..n /\ n+1 \in m+1..n+1)
  OBVIOUS
<1>3. \A m \in 1..n : \A j \in m+1..n : j \in 1..n /\ j \in m+1..n+1
  OBVIOUS
<1>4. \A m \in 1..n : \A j \in m+1..n+1 : j = n+1 \/ j \in m+1..n
  OBVIOUS
<1>5. n+1 \in 1..n+1 /\ n+1 \notin 1..n /\ \A j \in n+1+1..n+1 : FALSE
  OBVIOUS
<1>6. Episodes!RunEndsAt(i, s, g, n+1)
        => Episodes!Visible(i, g, n+1) /\ Episodes!ViolatesAt(i, s, g, n+1)
  BY DEF Episodes!RunEndsAt
<1>7. /\ Episodes!RunsSince(i, s, h, n) \subseteq 1..n
      /\ Episodes!RunsSince(i, s, g, n+1) \subseteq 1..n+1
  BY DEF Episodes!RunsSince
<1>8. Episodes!RecoversAt(i, s, g, n+1) => Episodes!RunsSince(i, s, g, n+1) \subseteq {n+1}
  BY <1>2 DEF Episodes!RunsSince
<1>9. ASSUME ~Episodes!RecoversAt(i, s, g, n+1), NEW m \in 1..n
      PROVE  m \in Episodes!RunsSince(i, s, g, n+1) <=> m \in Episodes!RunsSince(i, s, h, n)
  <2>1. m \in 1..n+1
    OBVIOUS
  <2> QED BY <1>1, <1>3, <1>4, <1>9, <2>1 DEF Episodes!RunsSince
<1>10. ~Episodes!RecoversAt(i, s, g, n+1)
         => Episodes!RunsSince(i, s, g, n+1) \ {n+1} = Episodes!RunsSince(i, s, h, n)
  BY <1>2, <1>5, <1>7, <1>9
<1>11. n+1 \in Episodes!RunsSince(i, s, g, n+1) <=> Episodes!RunEndsAt(i, s, g, n+1)
  BY <1>5 DEF Episodes!RunsSince
<1> QED BY <1>6, <1>7, <1>8, <1>10, <1>11

\* A tick adds itself to the violations after a run, when it violates.
LEMMA ViolatingMoves ==
  ASSUME NEW i, NEW s, NEW h, NEW g, NEW n \in Nat, \A j \in 1..n : g[j] = h[j], NEW m \in 1..n
  PROVE  LET before == Cardinality(ViolatingAfter(i, s, h, m, n))
             after  == Cardinality(ViolatingAfter(i, s, g, m, n+1))
         IN  /\ before \in Nat
             /\ after = IF Episodes!ViolatesAt(i, s, g, n+1) THEN before + 1 ELSE before
<1>1. \A j \in 1..n : Episodes!ViolatesAt(i, s, g, j) <=> Episodes!ViolatesAt(i, s, h, j)
  BY PastIsFixed
<1>2. \A j \in m+1..n : j \in 1..n /\ j \in m+1..n+1 /\ j # n+1
  OBVIOUS
<1>3. \A j \in m+1..n+1 : j = n+1 \/ j \in m+1..n
  OBVIOUS
<1>4. n+1 \in m+1..n+1
  OBVIOUS
<1> DEFINE V == ViolatingAfter(i, s, h, m, n)
<1>5. IsFiniteSet(V) /\ Cardinality(V) \in Nat /\ n+1 \notin V
  <2>1. IsFiniteSet(m+1..n)
    BY FS_Interval
  <2>2. IsFiniteSet(V)
    BY <2>1, FS_Subset DEF ViolatingAfter
  <2> QED BY <1>2, <2>2, FS_CardinalityType DEF ViolatingAfter
<1>6. ViolatingAfter(i, s, g, m, n+1) = IF Episodes!ViolatesAt(i, s, g, n+1) THEN V \cup {n+1} ELSE V
  BY <1>1, <1>2, <1>3, <1>4 DEF ViolatingAfter
<1> HIDE DEF V
<1>7. Cardinality(V \cup {n+1}) = Cardinality(V) + 1
  BY <1>5, FS_AddElement
<1> QED BY <1>5, <1>6, <1>7 DEF V

\* A gate that moves as the tick says goes on telling the history.
LEMMA GateKeepsTelling ==
  ASSUME NEW gate \in Gate, NEW after \in Gate, NEW i, NEW s, NEW h, NEW g, NEW n \in Nat,
         \A j \in 1..n : g[j] = h[j], Rules[i].for \in Nat \ {0},
         GateConsistent(gate, Rules[i].for),
         GateTells(gate, i, s, h, n), Judged(gate, after, i, s, g, n+1)
  PROVE  GateTells(after, i, s, g, n+1)
<1> DEFINE for      == Rules[i].for
           violates == Episodes!ViolatesAt(i, s, g, n+1)
           recovers == Episodes!RecoversAt(i, s, g, n+1)
           visible  == Episodes!Visible(i, g, n+1)
           ends     == Episodes!RunEndsAt(i, s, g, n+1)
           old      == Episodes!RunsSince(i, s, h, n)
           new      == Episodes!RunsSince(i, s, g, n+1)
<1>1. /\ old \subseteq 1..n /\ new \subseteq 1..n+1
      /\ ends => visible /\ violates
      /\ recovers => new \subseteq {n+1}
      /\ ~recovers => new \ {n+1} = old
      /\ n+1 \in new <=> ends
  BY RunsMove
<1>2. /\ violates => visible /\ ~recovers
      /\ recovers => visible
      /\ ~visible => after = gate
      /\ violates => after = Violate(gate, for)
      /\ visible /\ ~violates =>
           IF ~gate.fired THEN ~after.fired /\ after.streak = 0
           ELSE IF recovers THEN after = Quiet
           ELSE after.fired /\ after.total = gate.total
  BY DEF Judged
<1>3. CASE gate.fired /\ ~recovers
  <2>1. PICK fire \in old : /\ \A m \in old : fire <= m
                            /\ gate.total = for + Cardinality(ViolatingAfter(i, s, h, fire, n))
    BY <1>3 DEF GateTells
  <2>2. fire \in new /\ \A m \in new : fire <= m
    BY <1>1, <1>3, <2>1
  <2>3. after.fired /\ after.total = IF violates THEN gate.total + 1 ELSE gate.total
    BY <1>2, <1>3 DEF Violate, Gate
  <2>4. LET b == Cardinality(ViolatingAfter(i, s, h, fire, n))
            a == Cardinality(ViolatingAfter(i, s, g, fire, n+1))
        IN  b \in Nat /\ a = IF violates THEN b + 1 ELSE b
    BY <1>1, <2>1, ViolatingMoves
  <2>5. after.total = for + Cardinality(ViolatingAfter(i, s, g, fire, n+1))
    BY <2>1, <2>3, <2>4
  <2> QED BY <2>2, <2>3, <2>5 DEF GateTells
<1>4. CASE gate.fired /\ recovers
  <2>1. new = {}
    BY <1>1, <1>2, <1>4
  <2>2. after = Quiet /\ visible /\ ~violates
    BY <1>2, <1>4
  <2>3. Trail(i, s, g, n+1) = {}
    BY <2>2, TrailMoves
  <2> QED BY <2>1, <2>2, <2>3, FS_EmptySet DEF GateTells, Quiet
<1>5. CASE ~gate.fired
  <2>1. old = {} /\ gate.streak = Cardinality(Trail(i, s, h, n)) /\ gate.streak < for
    BY <1>5 DEF GateTells, GateConsistent
  <2>2. CASE ~visible
    <3>1. new = {}
      BY <1>1, <1>2, <2>1, <2>2
    <3> QED BY <1>2, <1>5, <2>1, <2>2, <3>1, TrailMoves DEF GateTells
  <2>3. CASE visible /\ ~violates
    <3>1. new = {}
      BY <1>1, <2>1, <2>3
    <3>2. Trail(i, s, g, n+1) = {}
      BY <2>3, TrailMoves
    <3> QED BY <1>2, <1>5, <2>3, <3>1, <3>2, FS_EmptySet DEF GateTells
  <2>4. CASE visible /\ violates
    <3> DEFINE trail == Trail(i, s, g, n+1)
    <3>1. Cardinality(trail) = gate.streak + 1
      <4>1. trail = Trail(i, s, h, n) \cup {n+1}
        BY <2>4, TrailMoves
      <4>2. n+1 \notin Trail(i, s, h, n)
        BY DEF Trail
      <4> QED BY <2>1, <4>1, <4>2, TrailFinite, FS_AddElement
    <3>2. gate.streak + 1 <= for /\ after = Violate(gate, for) /\ new = IF ends THEN {n+1} ELSE {}
      BY <1>1, <1>2, <2>1, <2>4 DEF Gate
    <3>3. ends <=> gate.streak + 1 = for
      BY <2>4, <3>1, <3>2, RunEndsWithTrail
    <3>4. CASE ends
      <4>1. after.fired /\ after.total = for
        BY <1>5, <3>2, <3>3, <3>4 DEF Violate
      <4>2. ViolatingAfter(i, s, g, n+1, n+1) = {}
        BY DEF ViolatingAfter
      <4>3. for = for + Cardinality(ViolatingAfter(i, s, g, n+1, n+1))
        BY <4>2, FS_EmptySet
      <4> QED BY <3>2, <3>4, <4>1, <4>3 DEF GateTells
    <3>5. CASE ~ends
      BY <1>5, <3>1, <3>2, <3>3, <3>5 DEF GateTells, Violate, Gate
    <3> QED BY <3>4, <3>5
  <2> QED BY <2>2, <2>3, <2>4
<1> QED BY <1>3, <1>4, <1>5

-----------------------------------------------------------------------------
(* What a series entry tells of the history. *)

\* An entry exists when the series was ever seen.  The baseline of a stale rule
\* is the reading one sample back, the window of a rate rule the metric one,
\* two, ... samples back, as far as the series was never absent; while they are
\* short of what the rule compares with, no streak runs.
SeriesTells(e, rule, s, h, n) ==
  LET kept == Len(e.window)
      wanted == rule.window - 1
      Back(b) == Episodes!BackFrom(s, h, n, b)
  IN
  /\ IF e.known THEN \E m \in 1..n : Episodes!SeenAt(s, h, m)
     ELSE e = Unseen /\ \A m \in 1..n : ~Episodes!SeenAt(s, h, m)
  /\ rule.kind = "stale" =>
       IF e.baseline = NoBaseline THEN Back(0) = {} /\ e.gate.streak = 0
       ELSE \E m \in Back(0) : ReadingOf(h[m], s) = e.baseline
  /\ rule.kind = "rate" =>
       /\ kept <= wanted
       /\ \A b \in 0..kept-1 : \E m \in Back(b) : ReadingOf(h[m], s)[rule.metric] = e.window[kept - b]
       /\ kept < wanted => e.gate.streak = 0 /\ \A b \in Nat : b >= kept => Back(b) = {}

\* What a tick makes of an entry.
Moved(rule, e, tick, s) ==
  IF tick = Unavailable THEN e
  ELSE IF InSample(tick, s) THEN Present(rule, e, ReadingOf(tick, s))
  ELSE Absent(rule, e)

\* The verdicts of the history on its last tick, in terms of what came before.
LEMMA TickJudged ==
  ASSUME NEW k \in Keys, NEW h, NEW g, NEW n \in Nat, \A j \in 1..n : g[j] = h[j]
  PROVE  LET i == k[1]
             s == k[2]
             tick == g[n+1]
             rule == Rules[i]
             Metr(sample) == ReadingOf(sample, s)[rule.metric]
             violates == Episodes!ViolatesAt(i, s, g, n+1)
             recovers == Episodes!RecoversAt(i, s, g, n+1)
             visible  == Episodes!Visible(i, g, n+1)
         IN
         /\ visible <=> tick # Unavailable
         /\ tick = Unavailable => ~violates /\ ~recovers
         /\ tick # Unavailable /\ ~InSample(tick, s) =>
              /\ ~recovers
              /\ violates <=> rule.kind = "missing" /\ \E m \in 1..n : Episodes!SeenAt(s, h, m)
         /\ tick # Unavailable /\ InSample(tick, s) =>
              /\ rule.kind = "missing" => ~violates /\ recovers
              /\ rule.kind = "stale" =>
                   LET Back == Episodes!BackFrom(s, h, n, 0) IN
                   /\ violates <=> \E m \in Back : ReadingOf(h[m], s) = ReadingOf(tick, s)
                   /\ recovers <=> \E m \in Back : ReadingOf(h[m], s) # ReadingOf(tick, s)
              /\ rule.kind = "threshold" =>
                   LET x == Metr(tick) IN
                   /\ violates <=> x # NaN /\ Compare(rule.op, x, rule.threshold)
                   /\ recovers <=> x # NaN /\ ~Compare(rule.op, x, rule.clear)
              /\ rule.kind = "rate" =>
                   LET Back == Episodes!BackFrom(s, h, n, rule.window - 2)
                       Rate(m) == Delta(Metr(tick), Metr(h[m]))
                   IN
                   /\ violates <=> \E m \in Back : Rate(m) # NaN /\ Compare(rule.op, Rate(m), rule.threshold)
                   /\ recovers <=> \E m \in Back : Rate(m) # NaN /\ ~Compare(rule.op, Rate(m), rule.clear)
<1> DEFINE i == k[1]
           s == k[2]
           tick == g[n+1]
           rule == Rules[i]
           Metr(sample) == ReadingOf(sample, s)[rule.metric]
<1>1. rule.kind \in RuleKind \ {"source"} /\ rule.window \in Nat \ {0, 1}
  BY RulesAssumption DEF Keys, ValidRule
<1>2. /\ Episodes!SeesSample(g, n+1) <=> tick # Unavailable
      /\ Episodes!SeenAt(s, g, n+1) <=> tick # Unavailable /\ InSample(tick, s)
      /\ Episodes!InSample(tick, s) <=> InSample(tick, s)
  BY SameStream DEF Episodes!SeesSample, Episodes!SeenAt
<1>3. Episodes!Visible(i, g, n+1) <=> tick # Unavailable
  BY <1>1, <1>2 DEF Episodes!Visible
<1>4. ASSUME ~Episodes!SeenAt(s, g, n+1)
      PROVE  /\ \A r : Episodes!ComparedAt(r, s, g, n+1) = {}
             /\ ~Episodes!Repeats(s, g, n+1) /\ ~Episodes!Changes(s, g, n+1)
  BY <1>4 DEF Episodes!ComparedAt, Episodes!Repeats, Episodes!Changes
<1>5. CASE tick = Unavailable
  BY <1>1, <1>2, <1>3, <1>4, <1>5 DEF Episodes!ViolatesAt, Episodes!RecoversAt
<1>6. CASE tick # Unavailable /\ ~InSample(tick, s)
  <2>1. (\E m \in 1..n+1 : Episodes!SeenAt(s, g, m)) <=> (\E m \in 1..n : Episodes!SeenAt(s, h, m))
    <3>1. \A m \in 1..n+1 : m \in 1..n \/ m = n+1
      OBVIOUS
    <3>2. \A m \in 1..n : Episodes!SeenAt(s, g, m) <=> Episodes!SeenAt(s, h, m)
      BY PastIsFixed
    <3>3. \A m \in 1..n : m \in 1..n+1
      OBVIOUS
    <3> QED BY <1>2, <1>6, <3>1, <3>2, <3>3
  <2> QED BY <1>1, <1>2, <1>3, <1>4, <1>6, <2>1 DEF Episodes!ViolatesAt, Episodes!RecoversAt
<1>7. CASE tick # Unavailable /\ InSample(tick, s)
  <2>1. CASE rule.kind = "missing"
    BY <1>2, <1>3, <1>7, <2>1 DEF Episodes!ViolatesAt, Episodes!RecoversAt
  <2>2. CASE rule.kind = "stale"
    <3>1. Episodes!BackFrom(s, g, n+1, 1) = Episodes!BackFrom(s, h, n, 0)
      <4>1. \A b \in Nat : Episodes!BackFrom(s, g, n+1, b+1) = Episodes!BackFrom(s, h, n, b)
        BY <1>7, BackPresent
      <4>2. 0 \in Nat /\ 0 + 1 = 1
        OBVIOUS
      <4> QED BY <4>1, <4>2
    <3>2. \A m \in Episodes!BackFrom(s, h, n, 0) : g[m] = h[m]
      BY DEF Episodes!BackFrom
    <3> QED BY <1>2, <1>3, <1>7, <2>2, <3>1, <3>2, SameStream
            DEF Episodes!ViolatesAt, Episodes!RecoversAt, Episodes!Repeats, Episodes!Changes
  <2>3. CASE rule.kind = "threshold"
    <3>1. Episodes!ComparedAt(rule, s, g, n+1) = {Metr(tick)}
      BY <1>2, <1>7, <2>3, SameStream DEF Episodes!ComparedAt, Episodes!MetricAt
    <3> HIDE DEF Metr
    <3> QED BY <1>3, <1>7, <2>3, <3>1, SameStream DEF Episodes!ViolatesAt, Episodes!RecoversAt, Metr
  <2>4. CASE rule.kind = "rate"
    <3> DEFINE Back == Episodes!BackFrom(s, h, n, rule.window - 2)
               Rate(m) == Delta(Metr(tick), Metr(h[m]))
    <3>1. Episodes!BackFrom(s, g, n+1, rule.window - 1) = Back
      <4>1. rule.window - 2 \in Nat /\ rule.window - 2 + 1 = rule.window - 1
        BY <1>1
      <4>2. \A b \in Nat : Episodes!BackFrom(s, g, n+1, b+1) = Episodes!BackFrom(s, h, n, b)
        BY <1>7, BackPresent
      <4> QED BY <4>1, <4>2
    <3>2. \A m \in Back : Episodes!Delta(Episodes!MetricAt(rule, s, g, n+1), Episodes!MetricAt(rule, s, g, m)) = Rate(m)
      BY SameStream DEF Episodes!BackFrom, Episodes!MetricAt
    <3>3. Episodes!ComparedAt(rule, s, g, n+1) = {Rate(m) : m \in Back}
      <4> DEFINE Past(m) == Episodes!Delta(Episodes!MetricAt(rule, s, g, n+1), Episodes!MetricAt(rule, s, g, m))
      <4>1. Episodes!ComparedAt(rule, s, g, n+1) = {Past(m) : m \in Episodes!BackFrom(s, g, n+1, rule.window - 1)}
        BY <1>2, <1>7, <2>4 DEF Episodes!ComparedAt
      <4>2. \A m \in Back : Past(m) = Rate(m)
        BY <3>2
      <4> HIDE DEF Past, Back, Rate
      <4> QED BY <3>1, <4>1, <4>2
    <3> HIDE DEF Rate, Back
    <3>4. /\ Episodes!ViolatesAt(i, s, g, n+1) <=>
               \E m \in Back : Rate(m) # NaN /\ Compare(rule.op, Rate(m), rule.threshold)
          /\ Episodes!RecoversAt(i, s, g, n+1) <=>
               \E m \in Back : Rate(m) # NaN /\ ~Compare(rule.op, Rate(m), rule.clear)
      BY <2>4, <3>3, SameStream DEF Episodes!ViolatesAt, Episodes!RecoversAt
    <3> QED BY <1>3, <1>7, <2>4, <3>4 DEF Rate, Back
  <2> QED BY <1>1, <2>1, <2>2, <2>3, <2>4 DEF RuleKind
<1> QED BY <1>5, <1>6, <1>7

\* The verdict on a value agrees with the threshold and the clear level.
LEMMA ValueJudged ==
  ASSUME NEW k \in Keys, NEW gate \in Gate, NEW x \in Values
  PROVE  LET rule     == Rules[k[1]]
             violates == x # NaN /\ Compare(rule.op, x, rule.threshold)
             recovers == x # NaN /\ ~Compare(rule.op, x, rule.clear)
             verdict  == ValueVerdict(rule, gate, x)
         IN  /\ violates => ~recovers /\ verdict = "Violates"
             /\ ~violates /\ ~gate.fired => verdict \in {"NaN", "Recovers"}
             /\ ~violates /\ gate.fired => verdict \in IF recovers THEN {"Recovers"} ELSE {"NaN", "Holds"}
<1> DEFINE rule == Rules[k[1]]
<1>1. /\ rule.op \in Op /\ rule.threshold \in Int /\ rule.clear \in Int
      /\ rule.op \in {"gt", "ge"} => rule.clear <= rule.threshold
      /\ rule.op \in {"lt", "le"} => rule.clear >= rule.threshold
  BY RuleTyped
<1> HIDE DEF rule
<1>2. CASE x = NaN
  BY <1>2 DEF ValueVerdict, rule
<1>3. CASE x # NaN
  <2>1. x \in Int
    BY <1>3 DEF Values
  <2>2. Compare(rule.op, x, rule.threshold) => Compare(rule.op, x, rule.clear)
    BY <1>1, <2>1 DEF Compare, Op
  <2> QED BY <1>3, <2>2 DEF ValueVerdict, rule
<1> QED BY <1>2, <1>3

\* The gate of an entry moves as the tick says.
LEMMA EntryJudged ==
  ASSUME NEW k \in Keys, NEW e \in SeriesState(Readings, Values), NEW h, NEW g, NEW n \in Nat,
         \A j \in 1..n : g[j] = h[j], \A j \in 1..n+1 : g[j] \in Ticks,
         SeriesTells(e, Rules[k[1]], k[2], h, n)
  PROVE  Judged(e.gate, Moved(Rules[k[1]], e, g[n+1], k[2]).gate, k[1], k[2], g, n+1)
<1> DEFINE i == k[1]
           s == k[2]
           tick == g[n+1]
           rule == Rules[i]
           after == Moved(rule, e, tick, s).gate
           violates == Episodes!ViolatesAt(i, s, g, n+1)
           recovers == Episodes!RecoversAt(i, s, g, n+1)
           visible  == Episodes!Visible(i, g, n+1)
<1>1. /\ rule.kind \in RuleKind \ {"source"} /\ rule.for \in Nat \ {0}
      /\ rule.window \in Nat \ {0, 1} /\ rule.metric \in Metric /\ s \in Series
  BY RulesAssumption DEF Keys, ValidRule
<1>2. e.gate \in Gate /\ e.window \in Seq(Values)
  BY DEF SeriesState
<1>3. tick \in Ticks
  OBVIOUS
<1>4. visible <=> tick # Unavailable
  BY TickJudged
<1>5. CASE tick = Unavailable
  <2>1. ~violates /\ ~recovers
    BY <1>5, TickJudged
  <2> QED BY <1>4, <1>5, <2>1 DEF Judged, Moved
<1>6. CASE tick # Unavailable /\ ~InSample(tick, s)
  <2>1. /\ ~recovers
        /\ violates <=> rule.kind = "missing" /\ \E m \in 1..n : Episodes!SeenAt(s, h, m)
    BY <1>6, TickJudged
  <2>2. /\ e.known <=> \E m \in 1..n : Episodes!SeenAt(s, h, m)
        /\ ~e.known => e = Unseen
    BY DEF SeriesTells
  <2>3. Moved(rule, e, tick, s) = Absent(rule, e)
    BY <1>6 DEF Moved
  <2>4. CASE ~e.known
    BY <1>4, <1>6, <2>1, <2>2, <2>3, <2>4 DEF Judged, Absent, Unseen, Quiet
  <2>5. CASE e.known /\ rule.kind = "missing"
    <3>1. after = Violate(e.gate, rule.for)
      BY <2>3, <2>5 DEF Absent, Apply, SeriesState
    <3> QED BY <1>4, <1>6, <2>1, <2>2, <2>5, <3>1 DEF Judged
  <2>6. CASE e.known /\ rule.kind # "missing"
    <3>1. after = [e.gate EXCEPT !.streak = 0]
      BY <2>3, <2>6 DEF Absent, SeriesState
    <3> QED BY <1>2, <1>4, <1>6, <2>1, <2>6, <3>1 DEF Judged, Gate
  <2> QED BY <2>4, <2>5, <2>6
<1>7. CASE tick # Unavailable /\ InSample(tick, s)
  <2> DEFINE r == ReadingOf(tick, s)
             verdict == PresentVerdict(rule, e, r)
  <2>1. after = Apply(e.gate, verdict, rule.for)
    BY <1>7 DEF Moved, Present
  <2>2. r \in Readings /\ r[rule.metric] \in Values
    BY <1>1, <1>3, <1>7, ReadingTyped, ReadingsAssumption, SamplesAssumption DEF Ticks
  <2>3. SUFFICES
          /\ violates => ~recovers /\ verdict = "Violates"
          /\ ~violates /\ ~e.gate.fired =>
               verdict \in {"NaN", "Recovers"} \/ (e.gate.streak = 0 /\ verdict = "None")
          /\ ~violates /\ e.gate.fired =>
               verdict \in IF recovers THEN {"Recovers"} ELSE {"NaN", "Holds", "None"}
    <3> HIDE DEF verdict
    <3> QED BY <1>2, <1>4, <1>7, <2>1, <2>3
            DEF Judged, Apply, Violate, Recover, Unevaluable, Quiet, Gate
  <2>4. CASE rule.kind = "missing"
    BY <1>7, <2>4, TickJudged DEF PresentVerdict
  <2>5. CASE rule.kind = "stale"
    <3> DEFINE Back == Episodes!BackFrom(s, h, n, 0)
    <3>1. /\ violates <=> \E m \in Back : ReadingOf(h[m], s) = r
          /\ recovers <=> \E m \in Back : ReadingOf(h[m], s) # r
      BY <1>7, <2>5, TickJudged, ZenonT(60)
    <3>2. verdict = StaleVerdict(e, r)
      BY <2>5 DEF PresentVerdict
    <3>3. IF e.baseline = NoBaseline THEN Back = {} /\ e.gate.streak = 0
          ELSE \E m \in Back : ReadingOf(h[m], s) = e.baseline
      BY <2>5 DEF SeriesTells
    <3>4. \A l, m \in Back : l = m
      BY BackOnce
    <3> HIDE DEF Back, verdict, violates, recovers, r
    <3> QED BY <3>1, <3>2, <3>3, <3>4 DEF StaleVerdict
  <2>6. CASE rule.kind = "threshold"
    <3> DEFINE x == r[rule.metric]
    <3>1. /\ violates <=> x # NaN /\ Compare(rule.op, x, rule.threshold)
          /\ recovers <=> x # NaN /\ ~Compare(rule.op, x, rule.clear)
      BY <1>7, <2>6, TickJudged
    <3>2. verdict = ValueVerdict(rule, e.gate, x)
      BY <2>6 DEF PresentVerdict
    <3> HIDE DEF verdict, violates, recovers, r
    <3> QED BY <1>2, <2>2, <3>1, <3>2, ValueJudged
  <2>7. CASE rule.kind = "rate"
    <3> DEFINE wanted == rule.window - 1
               kept == Len(e.window)
               Back(b) == Episodes!BackFrom(s, h, n, b)
               Rate(m) == Delta(r[rule.metric], ReadingOf(h[m], s)[rule.metric])
    <3>1. /\ violates <=> \E m \in Back(rule.window - 2) :
                             Rate(m) # NaN /\ Compare(rule.op, Rate(m), rule.threshold)
          /\ recovers <=> \E m \in Back(rule.window - 2) :
                             Rate(m) # NaN /\ ~Compare(rule.op, Rate(m), rule.clear)
      BY <1>7, <2>7, TickJudged
    <3>2. verdict = RateVerdict(rule, e, r)
      BY <2>7 DEF PresentVerdict
    <3>3. /\ kept <= wanted
          /\ \A b \in 0..kept-1 : \E m \in Back(b) : ReadingOf(h[m], s)[rule.metric] = e.window[kept - b]
          /\ kept < wanted => e.gate.streak = 0 /\ \A b \in Nat : b >= kept => Back(b) = {}
      BY <2>7 DEF SeriesTells
    <3>4. kept \in Nat /\ wanted \in Nat \ {0} /\ rule.window - 2 = wanted - 1
      BY <1>1, <1>2
    <3>5. CASE kept < wanted
      <4>1. Back(wanted - 1) = {}
        BY <3>3, <3>4, <3>5
      <4>2. verdict = "None"
        BY <3>2, <3>4, <3>5 DEF RateVerdict
      <4> HIDE DEF verdict, violates, recovers, Back, Rate
      <4> QED BY <3>1, <3>3, <3>4, <3>5, <4>1, <4>2
    <3>6. CASE kept = wanted
      <4>1. PICK m \in Back(wanted - 1) : ReadingOf(h[m], s)[rule.metric] = Head(e.window)
        <5>1. wanted - 1 \in 0..kept-1 /\ kept - (wanted - 1) = 1
          <6> HIDE DEF wanted, kept
          <6> QED BY <3>4, <3>6
        <5>2. \E m \in Back(wanted - 1) : ReadingOf(h[m], s)[rule.metric] = e.window[1]
          BY <3>3, <5>1
        <5>3. e.window[1] = Head(e.window)
          BY <1>2, <3>4, <3>6
        <5> QED BY <5>2, <5>3
      <4>2. \A l \in Back(wanted - 1) : l = m
        BY BackOnce
      <4> DEFINE x == Delta(r[rule.metric], Head(e.window))
      <4>3. x \in Values
        <5>1. Len(e.window) \in Nat \ {0}
          BY <3>4, <3>6
        <5>2. 1 \in 1..Len(e.window) /\ Head(e.window) = e.window[1]
          BY <1>2, <5>1
        <5>3. Head(e.window) \in Values
          BY <1>2, <5>2
        <5> QED BY <2>2, <5>3 DEF Delta, Values
      <4>4. Rate(m) = x
        BY <4>1
      <4>5. verdict = ValueVerdict(rule, e.gate, x)
        BY <3>2, <3>6 DEF RateVerdict
      <4> HIDE DEF x, Rate, Back, verdict, violates, recovers
      <4>6. /\ violates <=> x # NaN /\ Compare(rule.op, x, rule.threshold)
            /\ recovers <=> x # NaN /\ ~Compare(rule.op, x, rule.clear)
        BY <3>1, <3>4, <4>1, <4>2, <4>4
      <4> QED BY <1>2, <4>3, <4>5, <4>6, ValueJudged
    <3> QED BY <3>3, <3>4, <3>5, <3>6
  <2> QED BY <1>1, <2>4, <2>5, <2>6, <2>7 DEF RuleKind
<1> QED BY <1>5, <1>6, <1>7

\* A slid window drops its oldest value when full and ends in the new one.
LEMMA SlideTells ==
  ASSUME NEW w \in Seq(Values), NEW x \in Values, NEW width \in Nat \ {0}, Len(w) <= width
  PROVE  LET v == Slide(w, x, width) IN
         /\ Len(v) = IF Len(w) = width THEN width ELSE Len(w) + 1
         /\ v[Len(v)] = x
         /\ \A b \in 1..Len(v)-1 : b - 1 \in 0..Len(w)-1 /\ v[Len(v) - b] = w[Len(w) - (b - 1)]
<1>1. CASE Len(w) = width
  <2> DEFINE u == Tail(w)
  <2>1. u \in Seq(Values) /\ Len(u) = width - 1 /\ \A j \in 1..width-1 : u[j] = w[j+1]
    BY <1>1
  <2>2. Slide(w, x, width) = Append(u, x)
    BY <1>1 DEF Slide
  <2> HIDE DEF u
  <2>3. /\ Len(Append(u, x)) = width /\ Append(u, x)[width] = x
        /\ \A j \in 1..width-1 : Append(u, x)[j] = u[j]
    BY <2>1
  <2>4. \A b \in 1..width-1 : /\ width - b \in 1..width-1 /\ b - 1 \in 0..width-1
                              /\ width - b + 1 = width - (b - 1)
    OBVIOUS
  <2> DEFINE v == Append(u, x)
  <2> HIDE DEF v
  <2>5. Len(v) = width /\ v[width] = x /\ \A j \in 1..width-1 : v[j] = w[j+1]
    BY <2>1, <2>3 DEF v
  <2>6. \A b \in 1..width-1 : b - 1 \in 0..width-1 /\ v[width - b] = w[width - (b - 1)]
    BY <2>4, <2>5
  <2> QED BY <1>1, <2>2, <2>5, <2>6 DEF v
<1>2. CASE Len(w) # width
  <2>1. Slide(w, x, width) = Append(w, x)
    BY <1>2 DEF Slide
  <2>2. /\ Len(Append(w, x)) = Len(w) + 1 /\ Append(w, x)[Len(w) + 1] = x
        /\ \A j \in 1..Len(w) : Append(w, x)[j] = w[j]
    OBVIOUS
  <2>3. Len(w) \in Nat
    OBVIOUS
  <2>4. \A b \in 1..Len(w) : /\ Len(w) + 1 - b \in 1..Len(w) /\ b - 1 \in 0..Len(w)-1
                             /\ Len(w) + 1 - b = Len(w) - (b - 1)
    BY <2>3
  <2> QED BY <1>2, <2>1, <2>2, <2>3, <2>4
<1> QED BY <1>1, <1>2

\* An entry goes on telling the history, whatever the tick.
LEMMA EntryKeepsTelling ==
  ASSUME NEW k \in Keys, NEW e \in SeriesState(Readings, Values), NEW h, NEW g, NEW n \in Nat,
         \A j \in 1..n : g[j] = h[j], \A j \in 1..n+1 : g[j] \in Ticks,
         SeriesTells(e, Rules[k[1]], k[2], h, n)
  PROVE  SeriesTells(Moved(Rules[k[1]], e, g[n+1], k[2]), Rules[k[1]], k[2], g, n+1)
<1> DEFINE s == k[2]
           tick == g[n+1]
           rule == Rules[k[1]]
           f == Moved(rule, e, tick, s)
           Back(b) == Episodes!BackFrom(s, h, n, b)
           Behind(b) == Episodes!BackFrom(s, g, n+1, b)
           wanted == rule.window - 1
<1>1. /\ rule.kind \in RuleKind \ {"source"} /\ rule.window \in Nat \ {0, 1}
      /\ rule.metric \in Metric /\ s \in Series /\ wanted \in Nat \ {0}
  <2>1. /\ rule.kind \in RuleKind \ {"source"} /\ rule.window \in Nat \ {0, 1}
        /\ rule.metric \in Metric /\ s \in Series
    BY RulesAssumption DEF Keys, ValidRule
  <2> HIDE DEF rule
  <2> QED BY <2>1
<1>2. e.gate \in Gate /\ e.window \in Seq(Values) /\ Len(e.window) \in Nat
  BY DEF SeriesState
<1>3. tick \in Ticks
  OBVIOUS
<1>4. /\ IF e.known THEN \E m \in 1..n : Episodes!SeenAt(s, h, m)
         ELSE e = Unseen /\ \A m \in 1..n : ~Episodes!SeenAt(s, h, m)
      /\ rule.kind = "stale" =>
           IF e.baseline = NoBaseline THEN Back(0) = {} /\ e.gate.streak = 0
           ELSE \E m \in Back(0) : ReadingOf(h[m], s) = e.baseline
      /\ rule.kind = "rate" =>
           /\ Len(e.window) <= wanted
           /\ \A b \in 0..Len(e.window)-1 :
                \E m \in Back(b) : ReadingOf(h[m], s)[rule.metric] = e.window[Len(e.window) - b]
           /\ Len(e.window) < wanted => e.gate.streak = 0 /\ \A b \in Nat : b >= Len(e.window) => Back(b) = {}
  BY DEF SeriesTells
<1>5. SUFFICES
      /\ IF f.known THEN \E m \in 1..n+1 : Episodes!SeenAt(s, g, m)
         ELSE f = Unseen /\ \A m \in 1..n+1 : ~Episodes!SeenAt(s, g, m)
      /\ rule.kind = "stale" =>
           IF f.baseline = NoBaseline THEN Behind(0) = {} /\ f.gate.streak = 0
           ELSE \E m \in Behind(0) : ReadingOf(g[m], s) = f.baseline
      /\ rule.kind = "rate" =>
           /\ Len(f.window) <= wanted
           /\ \A b \in 0..Len(f.window)-1 :
                \E m \in Behind(b) : ReadingOf(g[m], s)[rule.metric] = f.window[Len(f.window) - b]
           /\ Len(f.window) < wanted => f.gate.streak = 0 /\ \A b \in Nat : b >= Len(f.window) => Behind(b) = {}
  BY <1>5 DEF SeriesTells
<1>6. /\ \A m \in 1..n : m \in 1..n+1
      /\ \A m \in 1..n+1 : m \in 1..n \/ m = n+1
      /\ n+1 \in 1..n+1
  OBVIOUS
<1>7. \A m \in 1..n : Episodes!SeenAt(s, g, m) <=> Episodes!SeenAt(s, h, m)
  BY PastIsFixed
<1>8. Episodes!SeenAt(s, g, n+1) <=> tick # Unavailable /\ InSample(tick, s)
  BY SameStream DEF Episodes!SeesSample, Episodes!SeenAt
<1>9. \A b : \A m \in Back(b) : g[m] = h[m]
  BY DEF Episodes!BackFrom
<1>10. CASE tick = Unavailable
  <2>1. f = e
    BY <1>10 DEF Moved
  <2>2. \A b : Behind(b) = Back(b)
    BY <1>10, BackUnavailable
  <2> HIDE DEF Back, Behind, f, tick, s, rule
  <2> QED BY <1>4, <1>6, <1>7, <1>8, <1>9, <1>10, <2>1, <2>2, SMTT(30)
<1>11. CASE tick # Unavailable /\ ~InSample(tick, s)
  <2>1. f = Absent(rule, e)
    BY <1>11 DEF Moved
  <2>2. \A b : Behind(b) = {}
    BY <1>11, BackAbsent
  <2>3. f.known = e.known /\ (~e.known => f = e)
    BY <2>1 DEF Absent, SeriesState
  <2>4. rule.kind # "missing" => f.baseline = NoBaseline /\ f.gate.streak = 0 /\ f.window = <<>>
    BY <1>2, <1>4, <2>1 DEF Absent, SeriesState, Gate, Unseen, Quiet
  <2>5. Len(<<>>) = 0 /\ \A b \in 0..0-1 : FALSE
    OBVIOUS
  <2> HIDE DEF Back, Behind, f, tick, s, rule, wanted
  <2>6. \A w : w = <<>> => Len(w) = 0
    BY <2>5
  <2> QED BY <1>1, <1>4, <1>6, <1>7, <1>8, <1>11, <2>2, <2>3, <2>4, <2>5, <2>6
<1>12. CASE tick # Unavailable /\ InSample(tick, s)
  <2> DEFINE r == ReadingOf(tick, s)
             x == r[rule.metric]
  <2>1. f = Present(rule, e, r)
    BY <1>12 DEF Moved
  <2>2. r \in Readings /\ x \in Values /\ r # NoBaseline
    BY <1>1, <1>3, <1>12, ReadingTyped, ReadingsAssumption, SamplesAssumption DEF Ticks
  <2>3. n+1 \in Behind(0) /\ \A b \in Nat : Behind(b+1) = Back(b)
    <3>1. n+1 \in Episodes!BackFrom(s, g, n+1, 0)
      BY <1>12, BackPresent
    <3>2. \A b \in Nat : Episodes!BackFrom(s, g, n+1, b+1) = Episodes!BackFrom(s, h, n, b)
      BY <1>12, BackPresent, SMTT(30)
    <3> QED BY <3>1, <3>2
  <2>4. f.known /\ \E m \in 1..n+1 : Episodes!SeenAt(s, g, m)
    BY <1>6, <1>8, <1>12, <2>1 DEF Present
  <2>5. ASSUME rule.kind = "stale"
        PROVE  f.baseline # NoBaseline /\ \E m \in Behind(0) : ReadingOf(g[m], s) = f.baseline
    BY <2>1, <2>2, <2>3, <2>5 DEF Present
  <2>6. ASSUME rule.kind = "rate"
        PROVE  /\ Len(f.window) <= wanted
               /\ \A b \in 0..Len(f.window)-1 :
                    \E m \in Behind(b) : ReadingOf(g[m], s)[rule.metric] = f.window[Len(f.window) - b]
               /\ Len(f.window) < wanted => f.gate.streak = 0 /\ \A b \in Nat : b >= Len(f.window) => Behind(b) = {}
    <3> DEFINE w == e.window
               v == f.window
    <3>1. v = Slide(w, x, wanted) /\ f.gate = Apply(e.gate, RateVerdict(rule, e, r), rule.for)
      BY <2>1, <2>6 DEF Present, PresentVerdict
    <3>2. w \in Seq(Values) /\ Len(w) \in Nat /\ Len(w) <= wanted
      BY <1>2, <1>4, <2>6
    <3>3. /\ Len(v) = IF Len(w) = wanted THEN wanted ELSE Len(w) + 1
          /\ v[Len(v)] = x
          /\ \A b \in 1..Len(v)-1 : b - 1 \in 0..Len(w)-1 /\ v[Len(v) - b] = w[Len(w) - (b - 1)]
      <4>1. wanted \in Nat \ {0} /\ x \in Values
        BY <1>1, <2>2
      <4> HIDE DEF w, v, x, wanted
      <4>2. LET u == Slide(w, x, wanted) IN
            /\ Len(u) = IF Len(w) = wanted THEN wanted ELSE Len(w) + 1
            /\ u[Len(u)] = x
            /\ \A b \in 1..Len(u)-1 : b - 1 \in 0..Len(w)-1 /\ u[Len(u) - b] = w[Len(w) - (b - 1)]
        BY <3>2, <4>1, SlideTells, ZenonT(60)
      <4> QED BY <3>1, <4>2
    <3>4. \A b \in 0..Len(w)-1 : \E m \in Back(b) : ReadingOf(h[m], s)[rule.metric] = w[Len(w) - b]
      BY <1>4, <2>6
    <3>5. Len(w) < wanted => e.gate.streak = 0 /\ \A b \in Nat : b >= Len(w) => Back(b) = {}
      BY <1>4, <2>6
    <3>6. Len(w) < wanted => f.gate = e.gate
      BY <3>1 DEF RateVerdict, Apply
    <3>7. x = ReadingOf(g[n+1], s)[rule.metric]
      OBVIOUS
    <3> HIDE DEF w, v, x, Back, Behind, wanted, r, s, rule, f, tick
    <3>8. Len(v) \in Nat /\ Len(v) <= wanted
      BY <1>1, <3>2, <3>3
    <3>9. ASSUME NEW b \in 0..Len(v)-1
          PROVE  \E m \in Behind(b) : ReadingOf(g[m], s)[rule.metric] = v[Len(v) - b]
      <4>1. CASE b = 0
        <5>1. Len(v) - b = Len(v)
          BY <3>8, <4>1
        <5> QED BY <2>3, <3>3, <3>7, <4>1, <5>1
      <4>2. CASE b # 0
        <5>1. b \in 1..Len(v)-1 /\ b - 1 \in Nat /\ b - 1 + 1 = b
          BY <3>8, <4>2
        <5>2. b - 1 \in 0..Len(w)-1 /\ v[Len(v) - b] = w[Len(w) - (b - 1)]
          BY <3>3, <5>1
        <5>3. PICK m \in Back(b - 1) : ReadingOf(h[m], s)[rule.metric] = w[Len(w) - (b - 1)]
          BY <3>4, <5>2
        <5>4. Behind(b) = Back(b - 1)
          BY <2>3, <5>1
        <5> QED BY <1>9, <5>2, <5>3, <5>4
      <4> QED BY <4>1, <4>2
    <3>10. ASSUME Len(v) < wanted
           PROVE  f.gate.streak = 0 /\ \A b \in Nat : b >= Len(v) => Behind(b) = {}
      <4>1. Len(w) < wanted /\ Len(v) = Len(w) + 1
        BY <1>1, <3>2, <3>3, <3>10
      <4>2. ASSUME NEW b \in Nat, b >= Len(v) PROVE Behind(b) = {}
        <5>1. b - 1 \in Nat /\ b - 1 >= Len(w) /\ b - 1 + 1 = b
          BY <3>2, <4>1, <4>2
        <5>2. Back(b - 1) = {}
          BY <3>5, <4>1, <5>1
        <5> QED BY <2>3, <5>1, <5>2
      <4> QED BY <3>5, <3>6, <4>1, <4>2
    <3> QED BY <3>8, <3>9, <3>10 DEF v
  <2> HIDE DEF Back, Behind, f, tick, s, rule, wanted
  <2> QED BY <2>4, <2>5, <2>6
<1> QED BY <1>10, <1>11, <1>12

-----------------------------------------------------------------------------
(* The refinement. *)

\* The engine's memory tells the history: the invariant of the refinement.
Tells ==
  /\ \A k \in Keys : SeriesTells(series[k], Rules[k[1]], k[2], hist, Len(hist))
  /\ \A k \in AlertKeys : GateTells(GateOf(k), k[1], k[2], hist, Len(hist))

\* Nothing observed, nothing to tell.
LEMMA FreshTells == Init => Tells
<1> SUFFICES ASSUME Init PROVE Tells
  OBVIOUS
<1>1. Len(hist) = 0 /\ 1..0 = {}
  BY DEF Init
<1>2. ASSUME NEW k \in Keys PROVE SeriesTells(series[k], Rules[k[1]], k[2], hist, Len(hist))
  <2>1. series[k] = Unseen /\ Rules[k[1]].window \in Nat \ {0, 1}
    BY RuleTyped DEF Init, FreshSeries
  <2>2. \A s, b : Episodes!BackFrom(s, hist, 0, b) = {}
    BY <1>1 DEF Episodes!BackFrom
  <2>3. Len(Unseen.window) = 0 /\ \A b \in 0..0-1 : FALSE
    BY DEF Unseen
  <2>4. ~Unseen.known /\ Unseen.baseline = NoBaseline /\ Unseen.gate.streak = 0
    BY DEF Unseen, Quiet
  <2> QED BY <1>1, <2>1, <2>2, <2>3, <2>4 DEF SeriesTells
<1>3. ASSUME NEW k \in AlertKeys PROVE GateTells(GateOf(k), k[1], k[2], hist, Len(hist))
  <2>1. GateOf(k) = Quiet
    BY DEF AlertKeys, GateOf, Init, FreshSeries, FreshSource, Unseen
  <2>2. \A i, s : Episodes!RunsSince(i, s, hist, 0) = {} /\ Trail(i, s, hist, 0) = {}
    BY <1>1 DEF Episodes!RunsSince, Trail
  <2> QED BY <1>1, <2>1, <2>2, FS_EmptySet DEF GateTells, Quiet
<1> QED BY <1>2, <1>3 DEF Tells

\* A step observes one tick and moves every gate and every entry by it.
LEMMA StepMoves ==
  ASSUME TypeOK, Next
  PROVE  \E tick \in Ticks :
           /\ Len(hist) < MaxTicks /\ hist' = Append(hist, tick)
           /\ \A k \in Keys : series'[k] = Moved(Rules[k[1]], series[k], tick, k[2])
           /\ \A i \in SourceRules :
                source'[i] = Apply(source[i], IF tick = Unavailable THEN "Violates" ELSE "Recovers", Rules[i].for)
<1>1. CASE Remember(Unavailable) /\ ObserveUnavailable
  BY <1>1 DEF Remember, ObserveUnavailable, StepSource, Moved, Ticks
<1>2. ASSUME NEW sample \in Samples, Remember(sample), ObserveSample(sample)
      PROVE  /\ sample \in Ticks /\ Len(hist) < MaxTicks /\ hist' = Append(hist, sample)
             /\ \A k \in Keys : series'[k] = Moved(Rules[k[1]], series[k], sample, k[2])
             /\ \A i \in SourceRules :
                  source'[i] = Apply(source[i], IF sample = Unavailable THEN "Violates" ELSE "Recovers", Rules[i].for)
  BY <1>2, SamplesAssumption DEF Remember, ObserveSample, StepSource, Moved, Ticks
<1> QED BY <1>1, <1>2 DEF Next

\* Every step keeps the engine's memory true to the history.
LEMMA StepTells ==
  ASSUME TypeOK, GatesConsistent, Tells, Next
  PROVE  Tells'
<1>1. PICK tick \in Ticks :
        /\ hist' = Append(hist, tick)
        /\ \A k \in Keys : series'[k] = Moved(Rules[k[1]], series[k], tick, k[2])
        /\ \A i \in SourceRules :
             source'[i] = Apply(source[i], IF tick = Unavailable THEN "Violates" ELSE "Recovers", Rules[i].for)
  BY StepMoves
<1> DEFINE h == hist
           g == hist'
           n == Len(hist)
<1>2. /\ n \in Nat /\ Len(g) = n+1 /\ g[n+1] = tick
      /\ \A j \in 1..n : g[j] = h[j]
      /\ \A j \in 1..n+1 : g[j] \in Ticks
  <2>1. hist \in Seq(Ticks)
    BY DEF TypeOK
  <2> QED BY <1>1, <2>1
<1> HIDE DEF h, g, n
<1>3. ASSUME NEW k \in Keys
      PROVE  /\ SeriesTells(series'[k], Rules[k[1]], k[2], g, n+1)
             /\ Judged(series[k].gate, series'[k].gate, k[1], k[2], g, n+1)
  <2>1. series[k] \in SeriesState(Readings, Values) /\ SeriesTells(series[k], Rules[k[1]], k[2], h, n)
    BY DEF TypeOK, Tells, h, n
  <2>2. series'[k] = Moved(Rules[k[1]], series[k], g[n+1], k[2])
    BY <1>1, <1>2
  <2> DEFINE e == series[k]
  <2> HIDE DEF e
  <2>3. SeriesTells(Moved(Rules[k[1]], e, g[n+1], k[2]), Rules[k[1]], k[2], g, n+1)
    BY <1>2, <2>1, EntryKeepsTelling DEF e
  <2>4. Judged(e.gate, Moved(Rules[k[1]], e, g[n+1], k[2]).gate, k[1], k[2], g, n+1)
    BY <1>2, <2>1, EntryJudged DEF e
  <2> QED BY <2>2, <2>3, <2>4 DEF e
<1>4. ASSUME NEW i \in SourceRules
      PROVE  Judged(source[i], source'[i], i, NoSeries, g, n+1)
  <2>1. Rules[i].kind = "source" /\ source[i] \in Gate
    BY DEF SourceRules, TypeOK
  <2>2. /\ Episodes!Visible(i, g, n+1)
        /\ Episodes!ViolatesAt(i, NoSeries, g, n+1) <=> tick = Unavailable
        /\ Episodes!RecoversAt(i, NoSeries, g, n+1) <=> tick # Unavailable
    BY <1>2, <2>1 DEF Episodes!Visible, Episodes!ViolatesAt, Episodes!RecoversAt, Episodes!SeesSample
  <2>3. source'[i] = IF tick = Unavailable THEN Violate(source[i], Rules[i].for) ELSE Recover(source[i])
    BY <1>1 DEF Apply
  <2> QED BY <2>1, <2>2, <2>3 DEF Judged, Recover, Quiet, Gate
<1>5. ASSUME NEW k \in AlertKeys
      PROVE  GateTells(GateOf(k)', k[1], k[2], g, n+1)
  <2>1. Judged(GateOf(k), GateOf(k)', k[1], k[2], g, n+1)
    <3>1. CASE k \in Keys
      BY <1>3, <3>1 DEF GateOf
    <3>2. CASE k \in SourceRules \X {NoSeries}
      <4>1. k[1] \in SourceRules /\ k[2] = NoSeries /\ k \notin Keys
        BY <3>2, KeysDisjoint
      <4> QED BY <1>4, <4>1 DEF GateOf
    <3> QED BY <3>1, <3>2 DEF AlertKeys
  <2>2. GateOf(k) \in Gate /\ GateOf(k)' \in Gate /\ Rules[k[1]].for \in Nat \ {0}
    <3>1. EngineTyped /\ Observes
      BY SamplesAssumption DEF TypeOK, EngineTyped, Next, Observes
    <3>2. EngineTyped'
      BY <3>1, ObserveTyped
    <3>3. GateOf(k) \in Gate /\ Rules[k[1]].for \in Nat \ {0}
      BY <3>1, GateMoves
    <3>4. GateOf(k)' \in Gate
      BY <3>2, KeysDisjoint DEF AlertKeys, GateOf, EngineTyped, SeriesState
    <3> QED BY <3>3, <3>4
  <2>3. GateConsistent(GateOf(k), Rules[k[1]].for)
    BY KeysDisjoint DEF GatesConsistent, GateOf, AlertKeys
  <2>4. GateTells(GateOf(k), k[1], k[2], h, n)
    BY DEF Tells, h, n
  <2> QED BY <1>2, <2>1, <2>2, <2>3, <2>4, GateKeepsTelling
<1>6. Len(hist') = n+1 /\ hist' = g
  BY <1>2 DEF g
<1> QED BY <1>3, <1>5, <1>6 DEF Tells

\* The sample counts of the transitions: for_samples of the rule when an alert
\* fires, the total of its gate when it clears.
LEMMA TransitionSamples ==
  ASSUME TypeOK, Next, NEW t \in out'
  PROVE  t.samples = IF t.state = "fired" THEN Rules[t.rule].for ELSE GateOf(<<t.rule, t.series>>).total
<1>1. ASSUME NEW gate, NEW v, NEW for, GateEvent(gate, v, for).state # "none"
      PROVE  LET e == GateEvent(gate, v, for) IN
             e.samples = IF e.state = "fired" THEN for ELSE gate.total
  BY <1>1 DEF GateEvent, NoEvent
<1>2. ASSUME NEW v, t \in SourceTransitions(v)
      PROVE  t.samples = IF t.state = "fired" THEN Rules[t.rule].for ELSE GateOf(<<t.rule, t.series>>).total
  <2>1. PICK i \in SourceRules : t = Transition(i, NoSeries, SourceEvent(i, v)) /\ t.state # "none"
    BY <1>2 DEF SourceTransitions, Announcing
  <2>2. t.rule = i /\ t.series = NoSeries /\ t.state = SourceEvent(i, v).state /\ t.samples = SourceEvent(i, v).samples
    BY <2>1 DEF Transition
  <2>3. GateOf(<<i, NoSeries>>) = source[i]
    BY KeysDisjoint DEF GateOf
  <2> QED BY <1>1, <2>1, <2>2, <2>3 DEF SourceEvent
<1>3. ASSUME NEW sample, NEW k \in Keys, t = Transition(k[1], k[2], SeriesEvent(k, sample)), t.state # "none"
      PROVE  t.samples = IF t.state = "fired" THEN Rules[t.rule].for ELSE GateOf(<<t.rule, t.series>>).total
  <2>1. /\ t.rule = k[1] /\ t.series = k[2] /\ k = <<k[1], k[2]>>
        /\ t.state = SeriesEvent(k, sample).state /\ t.samples = SeriesEvent(k, sample).samples
    BY <1>3 DEF Transition, Keys
  <2>2. GateOf(k) = series[k].gate
    BY DEF GateOf
  <2> QED BY <1>1, <1>3, <2>1, <2>2, SMTT(30) DEF SeriesEvent
<1>4. CASE ObserveUnavailable
  BY <1>2, <1>4 DEF ObserveUnavailable
<1>5. ASSUME NEW sample \in Samples, ObserveSample(sample), t \notin SourceTransitions("Recovers")
      PROVE  \E k \in Keys : t = Transition(k[1], k[2], SeriesEvent(k, sample)) /\ t.state # "none"
  BY <1>5 DEF ObserveSample, SampleTransitions, Announcing
<1> QED BY <1>2, <1>3, <1>4, <1>5 DEF Next

\* The total of a fired gate is the total of the episode.
LEMMA TotalTold ==
  ASSUME Tells, NEW k \in AlertKeys, GateOf(k).fired
  PROVE  GateOf(k).total = Episodes!EpisodeTotal(k[1], k[2], hist, Len(hist))
<1> DEFINE runs == Episodes!RunsSince(k[1], k[2], hist, Len(hist))
<1>1. PICK fire \in runs :
        /\ \A m \in runs : fire <= m
        /\ GateOf(k).total = Rules[k[1]].for + Cardinality(ViolatingAfter(k[1], k[2], hist, fire, Len(hist)))
  BY DEF Tells, GateTells
<1>2. \A m \in runs : m \in Int
  BY DEF Episodes!RunsSince
<1>3. (CHOOSE m \in runs : \A j \in runs : m <= j) = fire
  <2> HIDE DEF runs
  <2>1. \A m \in runs : (\A j \in runs : m <= j) => m = fire
    BY <1>1, <1>2
  <2> QED BY <1>1, <2>1
<1> HIDE DEF runs
<1>4. Episodes!EpisodeTotal(k[1], k[2], hist, Len(hist))
        = Rules[k[1]].for + Episodes!Cardinality(ViolatingAfter(k[1], k[2], hist, fire, Len(hist)))
  BY <1>3 DEF Episodes!EpisodeTotal, ViolatingAfter, runs
<1> QED BY <1>1, <1>4, SameStream

\* A step of the engine is a step of the abstract specification.
LEMMA StepImplements ==
  ASSUME TypeOK, TypeOK', Tells, Tells', Next
  PROVE  Episodes!Next
<1>1. PICK tick \in Ticks : Len(hist) < MaxTicks /\ hist' = Append(hist, tick)
  BY StepMoves
<1>2. EngineTyped /\ Observes
  BY SamplesAssumption DEF TypeOK, EngineTyped, Next, Observes
<1>3. OpenAlerts' = Episodes!OpenKeys(hist')
  <2>1. \A k \in AlertKeys : GateOf(k)'.fired <=> Episodes!OpenAt(k[1], k[2], hist', Len(hist'))
    BY DEF Tells, GateTells, Episodes!OpenAt
  <2> QED BY <2>1, SameStream DEF OpenAlerts, Episodes!OpenKeys
<1> DEFINE opened == OpenAlerts' \ OpenAlerts
           closed == OpenAlerts \ OpenAlerts'
<1>4. \A k \in AlertKeys :
        /\ Episodes!Fires(k) = [rule |-> k[1], series |-> k[2], state |-> "fired", samples |-> Rules[k[1]].for]
        /\ k \in closed => Episodes!Clears(k, hist)
             = [rule |-> k[1], series |-> k[2], state |-> "cleared", samples |-> GateOf(k).total]
  BY TotalTold DEF Episodes!Fires, Episodes!Clears, Episodes!Transition, OpenAlerts
<1>5. \A k \in AlertKeys : /\ Announced("fired", k)' <=> k \in opened
                           /\ Announced("cleared", k)' <=> k \in closed
  BY <1>2, ObserveAnnounces DEF AnnouncesEdges
<1>6. ASSUME NEW t \in out'
      PROVE  /\ <<t.rule, t.series>> \in AlertKeys /\ t.state \in {"fired", "cleared"}
             /\ t.samples = IF t.state = "fired" THEN Rules[t.rule].for ELSE GateOf(<<t.rule, t.series>>).total
             /\ t = [rule |-> t.rule, series |-> t.series, state |-> t.state, samples |-> t.samples]
  <2>1. t \in Transitions
    BY DEF TypeOK
  <2>2. t = [rule |-> t.rule, series |-> t.series, state |-> t.state, samples |-> t.samples]
    BY <2>1 DEF Transitions
  <2> QED BY <1>2, <2>2, TransitionsNameAlerts, TransitionSamples
<1>7. opened \subseteq AlertKeys /\ closed \subseteq AlertKeys
  BY DEF OpenAlerts
<1>8. \A k \in AlertKeys : k = <<k[1], k[2]>>
  BY DEF AlertKeys, Keys
<1>9. ASSUME NEW t \in out'
      PROVE  t \in {Episodes!Fires(k) : k \in opened} \cup {Episodes!Clears(k, hist) : k \in closed}
  <2> DEFINE k == <<t.rule, t.series>>
  <2>1. k \in AlertKeys /\ k[1] = t.rule /\ k[2] = t.series
    BY <1>6
  <2>2. Announced(t.state, k)'
    BY DEF Announced
  <2> HIDE DEF opened, closed
  <2>3. CASE t.state = "fired"
    <3>1. k \in opened
      BY <1>5, <2>1, <2>2, <2>3
    <3>2. t = Episodes!Fires(k)
      BY <1>4, <1>6, <2>1, <2>3
    <3> QED BY <3>1, <3>2
  <2>4. CASE t.state = "cleared"
    <3>1. k \in closed
      BY <1>5, <2>1, <2>2, <2>4
    <3>2. t = Episodes!Clears(k, hist)
      BY <1>4, <1>6, <2>1, <2>4, <3>1
    <3> QED BY <3>1, <3>2
  <2> QED BY <1>6, <2>3, <2>4
<1>10. ASSUME NEW k \in opened PROVE Episodes!Fires(k) \in out'
  <2>1. PICK t \in out' : t.rule = k[1] /\ t.series = k[2] /\ t.state = "fired"
    BY <1>5, <1>7 DEF Announced
  <2>2. t.samples = Rules[k[1]].for
    BY <1>6, <2>1
  <2>3. t = Episodes!Fires(k)
    BY <1>4, <1>6, <1>7, <2>1, <2>2
  <2> QED BY <2>1, <2>3
<1>11. ASSUME NEW k \in closed PROVE Episodes!Clears(k, hist) \in out'
  <2>1. PICK t \in out' : t.rule = k[1] /\ t.series = k[2] /\ t.state = "cleared"
    BY <1>5, <1>7 DEF Announced
  <2>2. t.samples = GateOf(k).total
    BY <1>6, <1>7, <1>8, <2>1
  <2>3. t = Episodes!Clears(k, hist)
    BY <1>4, <1>6, <1>7, <2>1, <2>2
  <2> QED BY <2>1, <2>3
<1>12. out' = {Episodes!Fires(k) : k \in opened} \cup {Episodes!Clears(k, hist) : k \in closed}
  <2> HIDE DEF opened, closed
  <2> QED BY <1>9, <1>10, <1>11
<1>13. Episodes!Observe(tick)
  BY <1>1, <1>3, <1>12 DEF Episodes!Observe
<1> QED BY <1>13, SameStream DEF Episodes!Next

\* The engine implements the specification of alert episodes: its counters,
\* baselines and windows open and announce exactly what the history says.
THEOREM EngineImplementsEpisodes == Spec => ImplementsEpisodes
<1>1. Init => Episodes!Init
  BY FreshEngine DEF Init, Episodes!Init
<1>2. Init => Tells
  BY FreshTells
<1>3. TypeOK /\ TypeOK' /\ GatesConsistent /\ Tells /\ [Next]_vars => Tells'
  <2>1. UNCHANGED vars /\ Tells => Tells'
    BY DEF vars, Tells, GateOf
  <2> QED BY <2>1, StepTells
<1>4. TypeOK /\ TypeOK' /\ Tells /\ Tells' /\ [Next]_vars => [Episodes!Next]_(Episodes!vars)
  <2>1. UNCHANGED vars => UNCHANGED Episodes!vars
    BY DEF vars, Episodes!vars, OpenAlerts, GateOf
  <2> QED BY <2>1, StepImplements
<1> QED BY <1>1, <1>2, <1>3, <1>4, TypeCorrect, CountersConsistent, PTL DEF Spec, ImplementsEpisodes, Episodes!Spec
=============================================================================
