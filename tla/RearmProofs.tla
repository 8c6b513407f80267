----------------------------- MODULE RearmProofs ------------------------------
(***************************************************************************)
(* Proofs about re-armed one-shot runs, for every rule set, every source   *)
(* and every deadline.                                                     *)
(***************************************************************************)
EXTENDS Rearm, EngineLemmas

\* A run begins with nothing fired, and ends with the first thing that fires.
LEMMA HoldsNothing ==
  ASSUME EngineTyped, NeverHoldsFired, [Next]_vars
  PROVE  EngineTyped' /\ NeverHoldsFired'
<1>1. CASE Arm
  <2>1. EngineTyped' /\ OpenAlerts' = {}
    <3>1. Unseen \in SeriesState(Readings, Values) /\ Quiet \in Gate
      BY DEF Unseen, Quiet, Gate, SeriesState
    <3>2. EngineTyped'
      BY <1>1, <3>1 DEF Arm, EngineTyped, FreshSeries, FreshSource
    <3>3. ASSUME NEW k \in AlertKeys PROVE ~GateOf(k)'.fired
      BY <1>1 DEF Arm, AlertKeys, GateOf, FreshSeries, FreshSource, Unseen, Quiet
    <3> QED BY <3>2, <3>3 DEF OpenAlerts
  <2> QED BY <1>1, <2>1 DEF Arm, NeverHoldsFired
<1>2. CASE TimeOut
  BY <1>2 DEF TimeOut, EngineTyped, NeverHoldsFired
<1>3. ASSUME NEW tick \in Ticks, Poll(tick) PROVE EngineTyped' /\ NeverHoldsFired'
  <2>1. Observes
    BY <1>3, SamplesAssumption DEF Poll, Observes, Ticks
  <2>2. EngineTyped'
    BY <2>1, ObserveTyped
  <2>3. \A k \in AlertKeys : AnnouncesEdges(k)
    BY <2>1, ObserveAnnounces
  <2>4. OpenAlerts = {}
    BY <1>3 DEF Poll, NeverHoldsFired
  <2>5. ASSUME NEW t \in out' PROVE t.state = "fired"
    <3>1. <<t.rule, t.series>> \in AlertKeys /\ t.state \in {"fired", "cleared"}
      BY <2>1, TransitionsNameAlerts
    <3>2. ~Announced("cleared", <<t.rule, t.series>>)'
      BY <2>3, <2>4, <3>1 DEF AnnouncesEdges
    <3> QED BY <3>1, <3>2 DEF Announced
  <2>6. ASSUME running' PROVE OpenAlerts' = {}
    <3>1. Fired(out') = {}
      BY <1>3, <2>6 DEF Poll, Dispatch
    <3>2. ASSUME NEW k \in OpenAlerts' PROVE FALSE
      <4>1. k \in AlertKeys
        BY DEF OpenAlerts
      <4>2. Announced("fired", k)'
        BY <2>3, <2>4, <4>1 DEF AnnouncesEdges
      <4> QED BY <3>1, <4>2 DEF Announced, Fired
    <3> QED BY <3>2
  <2> QED BY <2>2, <2>5, <2>6 DEF NeverHoldsFired
<1>4. CASE UNCHANGED vars
  BY <1>4 DEF vars, EngineTyped, NeverHoldsFired, OpenAlerts, GateOf
<1> QED BY <1>1, <1>2, <1>3, <1>4 DEF Next

\* A running one-shot process holds nothing fired, so none of its transitions
\* is a Cleared one that it would drop (the comment in run_one_shot).
THEOREM NothingDropped == Spec => []NeverHoldsFired
<1> DEFINE Held == EngineTyped /\ NeverHoldsFired
<1>1. Init => Held
  BY FreshEngine DEF Init, NeverHoldsFired
<1>2. Held /\ [Next]_vars => Held'
  BY HoldsNothing
<1>3. Held => NeverHoldsFired
  OBVIOUS
<1> QED BY <1>1, <1>2, <1>3, PTL DEF Spec

-----------------------------------------------------------------------------
(* The transition a run takes. *)

\* If anything fired, the first fired transition of the tick exists
\* (transitions.iter().find in run_one_shot).
LEMMA FirstIsTaken ==
  ASSUME EngineTyped, NEW tick \in Ticks,
         IF tick = Unavailable THEN ObserveUnavailable ELSE ObserveSample(tick),
         Fired(out') # {}
  PROVE  TakenFirst(tick, out') \in Fired(out')
<1> DEFINE F == Fired(out')
           Before(t, u) == IF tick = Unavailable THEN t.rule < u.rule ELSE Precedes(tick, t, u)
<1>1. Observes /\ F \subseteq out'
  BY SamplesAssumption DEF Observes, Ticks, Fired
<1>2. ASSUME NEW t \in F PROVE t.rule \in Nat
  <2>1. <<t.rule, t.series>> \in AlertKeys
    BY <1>1, TransitionsNameAlerts
  <2> QED BY <2>1 DEF AlertKeys, Keys, SourceRules, RuleIds
<1>3. PICK i \in {t.rule : t \in F} : \A j \in {t.rule : t \in F} : i <= j
  <2>1. {t.rule : t \in F} \subseteq Nat /\ {t.rule : t \in F} # {}
    BY <1>2
  <2> HIDE DEF F
  <2> QED BY <2>1, LeastNat
<1> DEFINE G == {t \in F : t.rule = i}
<1> HIDE DEF F
<1>4. G # {} /\ \A t \in G : t \in F /\ t.rule = i
  BY <1>3
<1>5. ASSUME NEW t \in G, NEW u \in F, u \notin G PROVE Before(t, u)
  <2>1. t.rule = i /\ u.rule # i /\ i <= u.rule /\ i \in Nat /\ u.rule \in Nat
    BY <1>2, <1>3, <1>4, <1>5
  <2> QED BY <2>1 DEF Precedes
<1>6. SUFFICES \E t \in G : \A u \in G \ {t} : Before(t, u)
  <2>1. \E t \in F : \A u \in F \ {t} : Before(t, u)
    BY <1>4, <1>5, <1>6
  <2> QED BY <2>1 DEF TakenFirst, F
<1> HIDE DEF G
<1>7. CASE tick = Unavailable
  <2>1. \A t, u \in G : t = u
    BY <1>1, <1>4, <1>7, OneEach
  <2> QED BY <1>4, <2>1
<1>8. CASE tick # Unavailable
  <2>1. tick \in Samples
    BY <1>8 DEF Ticks
  <2>2. \A t, u \in G : t # u => /\ t.series \in Series /\ u.series \in Series
                                 /\ t.series # u.series
    BY <1>1, <1>4, OneEach
  <2>3. CASE \A t, u \in G : t = u
    BY <1>4, <2>3
  <2>4. CASE \E t, u \in G : t # u
    <3>1. \A t \in G : t.series \in Series
      BY <2>2, <2>4
    <3> DEFINE H == {t \in G : InSample(tick, t.series)}
    <3>2. CASE H # {}
      <4>1. {FirstOf(tick, t.series) : t \in H} \subseteq Nat
        BY <2>1, FirstOccurs, SamplesAssumption
      <4>2. PICK n \in {FirstOf(tick, t.series) : t \in H} :
              \A m \in {FirstOf(tick, t.series) : t \in H} : n <= m
        BY <3>2, <4>1, LeastNat, ZenonT(60)
      <4>3. PICK t \in H : n = FirstOf(tick, t.series)
        BY <4>2
      <4>4. ASSUME NEW u \in G \ {t} PROVE Precedes(tick, t, u)
        <5>1. t.rule = u.rule /\ InSample(tick, t.series) /\ t.series # u.series
          BY <1>4, <2>2, <4>3, <4>4
        <5>2. ASSUME InSample(tick, u.series)
              PROVE  FirstOf(tick, t.series) < FirstOf(tick, u.series)
          <6>1. /\ FirstOf(tick, t.series) \in Nat /\ FirstOf(tick, u.series) \in Nat
                /\ FirstOf(tick, t.series) # FirstOf(tick, u.series)
            BY <2>1, <5>1, <5>2, FirstOccurs, SamplesAssumption
          <6>2. FirstOf(tick, t.series) <= FirstOf(tick, u.series)
            BY <4>2, <4>3, <4>4, <5>2
          <6> QED BY <6>1, <6>2
        <5> QED BY <5>1, <5>2 DEF Precedes
      <4> QED BY <1>8, <4>3, <4>4
    <3>3. CASE H = {}
      <4>1. {KeyRank(t.series) : t \in G} \subseteq Nat
        BY <3>1, RanksApart
      <4>2. PICK n \in {KeyRank(t.series) : t \in G} :
              \A m \in {KeyRank(t.series) : t \in G} : n <= m
        BY <1>4, <4>1, LeastNat
      <4>3. PICK t \in G : n = KeyRank(t.series)
        BY <4>2
      <4>4. ASSUME NEW u \in G \ {t} PROVE Precedes(tick, t, u)
        <5>1. t.rule = u.rule /\ t.series # u.series /\ t.series \in Series /\ u.series \in Series
          BY <1>4, <2>2, <4>3, <4>4
        <5>2. ~InSample(tick, t.series) /\ ~InSample(tick, u.series)
          BY <3>3, <4>3, <4>4
        <5>3. /\ KeyRank(t.series) \in Nat /\ KeyRank(u.series) \in Nat
              /\ KeyRank(t.series) # KeyRank(u.series)
          BY <5>1, RanksApart
        <5>4. KeyRank(t.series) <= KeyRank(u.series)
          BY <4>2, <4>3, <4>4
        <5> QED BY <5>1, <5>2, <5>3, <5>4 DEF Precedes
      <4> QED BY <1>8, <4>3, <4>4
    <3> QED BY <3>2, <3>3
  <2> QED BY <2>3, <2>4
<1> QED BY <1>7, <1>8

-----------------------------------------------------------------------------
(* The polls of a run and the streaks of its gates. *)

\* How often a gate was violated in a row under an alert whose condition has
\* lasted for all the polls of the run; a stale rule lags by its baseline.
Lasted(k) ==
  LET rule == Rules[k[1]] IN
  /\ rule.kind \in {"threshold", "source"} => polls <= GateOf(k).streak
  /\ rule.kind = "stale" => /\ polls <= GateOf(k).streak + 1
                            /\ polls # 0 => series[k].baseline = ReadingOf(shown, k[2])
  /\ rule.kind = "rate" => polls = 0

\* No gate of a running process counts more than its own polls.
InTime(k) ==
  /\ GateOf(k).streak < Rules[k[1]].for
  /\ polls # MaxPolls => GateOf(k).streak <= polls

Typed ==
  /\ EngineTyped
  /\ running \in BOOLEAN
  /\ polls \in 0..MaxPolls
  /\ exit \in {HEARTBEAT, EVENT_FIRED}
  /\ emitted \in AlertKeys \cup {None}
  /\ ongoing \subseteq AlertKeys

RunAgrees ==
  running =>
    /\ emitted = None
    /\ \A k \in AlertKeys : InTime(k)
    /\ \A k \in ongoing : Lasted(k)

IInv == Typed /\ NeverHoldsFired /\ RunAgrees /\ ExitIsEarned

\* What one judgement does to an unfired gate.
LEMMA ApplyMoves ==
  ASSUME NEW g \in Gate, NEW v, NEW for \in Nat \ {0}, ~g.fired, g.streak < for
  PROVE  LET h == Apply(g, v, for)
         IN  /\ h.streak \in Nat
             /\ h.streak <= g.streak + 1
             /\ h.fired => for = g.streak + 1
             /\ ~h.fired => h.streak < for
BY DEF Apply, Violate, Recover, Unevaluable, Quiet, Gate

\* What one tick does to the gate of an alert that is not open.
LEMMA StreakMoves ==
  ASSUME EngineTyped, Observes, NEW k \in AlertKeys, ~GateOf(k).fired,
         GateOf(k).streak < Rules[k[1]].for
  PROVE  /\ GateOf(k).streak \in Nat /\ GateOf(k)'.streak \in Nat
         /\ Rules[k[1]].for \in Nat \ {0}
         /\ GateOf(k)'.streak <= GateOf(k).streak + 1
         /\ GateOf(k)'.fired => Rules[k[1]].for = GateOf(k).streak + 1
         /\ ~GateOf(k)'.fired => GateOf(k)'.streak < Rules[k[1]].for
<1> DEFINE g == GateOf(k)
           h == GateOf(k)'
           for == Rules[k[1]].for
<1>1. /\ g \in Gate /\ for \in Nat \ {0}
      /\ \/ \E v : h = Apply(g, v, for)
         \/ h = [g EXCEPT !.streak = 0]
         \/ h = g
  BY GateMoves
<1>2. ~g.fired /\ g.streak < for
  OBVIOUS
<1> SUFFICES /\ g.streak \in Nat /\ h.streak \in Nat
             /\ h.streak <= g.streak + 1
             /\ h.fired => for = g.streak + 1
             /\ ~h.fired => h.streak < for
  BY <1>1
<1> HIDE DEF g, h, for
<1>3. CASE \E v : h = Apply(g, v, for)
  <2>1. g.streak \in Nat
    BY <1>1 DEF Gate
  <2> QED BY <1>1, <1>2, <1>3, <2>1, ApplyMoves
<1>4. CASE h = [g EXCEPT !.streak = 0] \/ h = g
  BY <1>1, <1>2, <1>4 DEF Gate
<1> QED BY <1>1, <1>3, <1>4

\* A violating verdict that does not fire the gate counts.
LEMMA ViolationCounts ==
  ASSUME NEW g \in Gate, NEW for \in Nat \ {0}, ~g.fired,
         ~Apply(g, "Violates", for).fired
  PROVE  Apply(g, "Violates", for).streak = g.streak + 1
BY DEF Apply, Violate, Gate

\* A condition that lasts through a poll which ends nothing is counted by the
\* gate of its alert.
LEMMA LastingCounts ==
  ASSUME IInv, NEW tick \in Ticks, Poll(tick), running', NEW k \in ongoing'
  PROVE  Lasted(k)'
<1> DEFINE rule == Rules[k[1]]
<1>1. k \in ongoing /\ StillShows(k, tick) /\ k \in AlertKeys
  <2>1. emitted' = None
    BY DEF Poll, Dispatch, IInv, RunAgrees
  <2> QED BY <2>1 DEF Poll, IInv, Typed
<1>2. Lasted(k) /\ ~GateOf(k).fired /\ EngineTyped
  BY <1>1 DEF IInv, RunAgrees, Poll, NeverHoldsFired, OpenAlerts, Typed
<1>3. Observes
  BY SamplesAssumption DEF Poll, Observes, Ticks
<1>4. ~GateOf(k)'.fired
  <2>1. NeverHoldsFired'
    BY HoldsNothing DEF IInv, Typed, Next
  <2> QED BY <1>1, <2>1 DEF NeverHoldsFired, OpenAlerts
<1>5. /\ GateOf(k) \in Gate /\ rule.for \in Nat \ {0} /\ k[1] \in RuleIds
      /\ polls \in Nat /\ polls' \in Nat /\ polls' <= polls + 1
  BY <1>1, <1>2, <1>3, GateMoves, PollsAssumption DEF Poll, IInv, Typed
<1>6. GateOf(k).streak \in Nat
  BY <1>5 DEF Gate
<1>7. rule.kind \in RuleKind
  BY <1>5, RulesAssumption DEF ValidRule
<1>8. CASE rule.kind = "source"
  <2>1. k \notin Keys /\ k[1] \in SourceRules
    BY <1>5, <1>8 DEF Keys, SourceRules
  <2>2. tick = Unavailable
    BY <1>1, <1>8 DEF StillShows
  <2>3. source' = [i \in SourceRules |-> Apply(source[i], "Violates", Rules[i].for)]
    BY <2>2 DEF Poll, ObserveUnavailable, StepSource
  <2>4. GateOf(k)' = Apply(GateOf(k), "Violates", rule.for)
    BY <2>1, <2>3 DEF GateOf
  <2>5. GateOf(k)'.streak = GateOf(k).streak + 1
    BY <1>2, <1>4, <1>5, <2>4, ViolationCounts
  <2>6. polls <= GateOf(k).streak
    BY <1>2, <1>8 DEF Lasted
  <2>7. polls' <= GateOf(k)'.streak
    BY <1>5, <1>6, <2>5, <2>6
  <2> QED BY <1>8, <2>7 DEF Lasted
<1>9. CASE rule.kind = "threshold"
  <2> DEFINE r == ReadingOf(tick, k[2])
  <2>1. k \in Keys
    BY <1>1, <1>9 DEF AlertKeys, SourceRules
  <2>2. /\ tick # Unavailable /\ InSample(tick, k[2])
        /\ r[rule.metric] # NaN /\ Compare(rule.op, r[rule.metric], rule.threshold)
    BY <1>1, <1>9 DEF StillShows
  <2>3. series'[k] = Present(rule, series[k], r)
    BY <2>1, <2>2 DEF Poll, ObserveSample
  <2>4. PresentVerdict(rule, series[k], r) = "Violates"
    BY <1>2, <1>9, <2>1, <2>2 DEF PresentVerdict, ValueVerdict, GateOf
  <2>5. GateOf(k)' = Apply(GateOf(k), "Violates", rule.for)
    BY <2>1, <2>3, <2>4 DEF GateOf, Present
  <2>6. GateOf(k)'.streak = GateOf(k).streak + 1
    BY <1>2, <1>4, <1>5, <2>5, ViolationCounts
  <2>7. polls <= GateOf(k).streak
    BY <1>2, <1>9 DEF Lasted
  <2>8. polls' <= GateOf(k)'.streak
    BY <1>5, <1>6, <2>6, <2>7
  <2> QED BY <1>9, <2>8 DEF Lasted
<1>10. CASE rule.kind = "stale"
  <2> DEFINE r == ReadingOf(tick, k[2])
  <2>1. k \in Keys
    BY <1>1, <1>10 DEF AlertKeys, SourceRules
  <2>2. /\ tick # Unavailable /\ InSample(tick, k[2]) /\ tick \in Samples
        /\ r = ReadingOf(shown, k[2])
    BY <1>1, <1>10 DEF StillShows, Ticks
  <2>3. series'[k] = Present(rule, series[k], r)
    BY <2>1, <2>2 DEF Poll, ObserveSample
  <2>4. series'[k].baseline = r /\ shown' = tick
    BY <1>10, <2>3 DEF Present, Poll
  <2>5. polls' <= GateOf(k)'.streak + 1
    <3>1. GateOf(k)'.streak \in Nat
      BY <1>1, <1>2, <1>3, ObserveTyped DEF EngineTyped, GateOf, AlertKeys, SeriesState, Gate
    <3>2. CASE polls = 0
      BY <1>5, <3>1, <3>2
    <3>3. CASE polls # 0
      <4>1. series[k].baseline = r /\ polls <= GateOf(k).streak + 1
        BY <1>2, <1>10, <2>2, <3>3 DEF Lasted
      <4>2. r # NoBaseline
        BY <2>1, <2>2, RuleTyped, ReadingTyped, ReadingsAssumption, SamplesAssumption
      <4>3. PresentVerdict(rule, series[k], r) = "Violates"
        BY <1>10, <4>1, <4>2 DEF PresentVerdict, StaleVerdict
      <4>4. GateOf(k)' = Apply(GateOf(k), "Violates", rule.for)
        BY <2>1, <2>3, <4>3 DEF GateOf, Present
      <4>5. GateOf(k)'.streak = GateOf(k).streak + 1
        BY <1>2, <1>4, <1>5, <4>4, ViolationCounts
      <4> QED BY <1>5, <1>6, <4>1, <4>5
    <3> QED BY <3>2, <3>3
  <2> QED BY <1>10, <2>4, <2>5 DEF Lasted
<1>11. CASE rule.kind = "rate"
  BY <1>1, <1>11 DEF StillShows
<1>12. CASE rule.kind = "missing"
  BY <1>12 DEF Lasted
<1> QED BY <1>7, <1>8, <1>9, <1>10, <1>11, <1>12 DEF RuleKind

\* A poll keeps the streaks of a run below its polls, and a run that ends on an
\* alert has polled for its whole debounce.
LEMMA PollKeeps ==
  ASSUME IInv, NEW tick \in Ticks, Poll(tick)
  PROVE  Typed' /\ RunAgrees' /\ ExitIsEarned'
<1>1. running /\ emitted = None /\ OpenAlerts = {} /\ EngineTyped /\ Observes
  BY SamplesAssumption DEF Poll, Observes, Ticks, IInv, Typed, RunAgrees, NeverHoldsFired
<1>2. EngineTyped' /\ NeverHoldsFired'
  BY HoldsNothing DEF IInv, Typed, Next
<1>3. /\ polls \in 0..MaxPolls /\ polls' \in 0..MaxPolls /\ MaxPolls \in Nat
      /\ polls' = IF polls < MaxPolls THEN polls + 1 ELSE polls
  BY PollsAssumption DEF Poll, IInv, Typed
<1>4. ASSUME NEW k \in AlertKeys
      PROVE  /\ GateOf(k)'.streak \in Nat /\ Rules[k[1]].for \in Nat
             /\ polls' # MaxPolls => GateOf(k)'.streak <= polls'
             /\ ~GateOf(k)'.fired => GateOf(k)'.streak < Rules[k[1]].for
             /\ GateOf(k)'.fired => Rules[k[1]].for <= polls'
  <2>1. ~GateOf(k).fired /\ InTime(k)
    BY <1>1 DEF OpenAlerts, IInv, RunAgrees
  <2>2. /\ GateOf(k).streak \in Nat /\ GateOf(k)'.streak \in Nat
        /\ Rules[k[1]].for \in Nat \ {0}
        /\ GateOf(k)'.streak <= GateOf(k).streak + 1
        /\ GateOf(k)'.fired => Rules[k[1]].for = GateOf(k).streak + 1
        /\ ~GateOf(k)'.fired => GateOf(k)'.streak < Rules[k[1]].for
    BY <1>1, <2>1, StreakMoves DEF InTime
  <2>3. Rules[k[1]].for <= MaxPolls
    BY <1>1, GateMoves, DebounceAssumption
  <2>4. polls # MaxPolls => GateOf(k).streak <= polls
    BY <2>1 DEF InTime
  <2> QED BY <1>3, <2>2, <2>3, <2>4
<1>5. CASE Fired(out') = {}
  <2>1. running' = running /\ exit' = exit /\ emitted' = emitted
    BY <1>5 DEF Poll, Dispatch
  <2>2. ongoing' \subseteq ongoing
    BY <1>1, <2>1 DEF Poll
  <2>3. Typed'
    BY <1>1, <1>2, <1>3, <2>1, <2>2 DEF IInv, Typed
  <2>4. \A k \in AlertKeys : InTime(k)'
    BY <1>1, <1>2, <1>4, <2>1 DEF NeverHoldsFired, OpenAlerts, InTime
  <2>5. \A k \in ongoing' : Lasted(k)'
    BY <1>1, <2>1, LastingCounts
  <2>6. ExitIsEarned'
    BY <1>1, <2>1 DEF ExitIsEarned
  <2> QED BY <1>1, <2>1, <2>3, <2>4, <2>5, <2>6 DEF RunAgrees
<1>6. CASE Fired(out') # {}
  <2>1. PICK t \in out' : t = TakenFirst(tick, out') /\ t.state = "fired"
    BY <1>1, <1>6, FirstIsTaken DEF Poll, Fired
  <2>2. PICK k \in AlertKeys : k = <<t.rule, t.series>>
    BY <1>1, TransitionsNameAlerts
  <2>3. running' = FALSE /\ exit' = EVENT_FIRED /\ emitted' = k
    BY <1>6, <2>1, <2>2 DEF Poll, Dispatch
  <2>4. k \in OpenAlerts' /\ GateOf(k)'.fired
    <3>1. AnnouncesEdges(k)
      BY <1>1, ObserveAnnounces
    <3>2. Announced("fired", k)'
      BY <2>1, <2>2 DEF Announced
    <3> QED BY <3>1, <3>2 DEF AnnouncesEdges, OpenAlerts
  <2>5. ongoing' \subseteq AlertKeys
    BY <2>3 DEF Poll, IInv, Typed
  <2>6. Typed'
    BY <1>2, <1>3, <2>3, <2>5 DEF Typed
  <2>7. Rules[k[1]].for \in Nat /\ Rules[k[1]].for <= polls'
    BY <1>4, <2>4
  <2>8. polls' >= Rules[k[1]].for
    BY <1>3, <2>7
  <2>9. ExitIsEarned'
    BY <2>3, <2>4, <2>8 DEF ExitIsEarned, EVENT_FIRED, HEARTBEAT
  <2> QED BY <2>3, <2>6, <2>9 DEF RunAgrees
<1> QED BY <1>5, <1>6

\* The inductive invariant of the re-armed runs holds in every reachable state.
THEOREM RunsInvariant == Spec => []IInv
<1>1. Init => IInv
  <2> SUFFICES ASSUME Init PROVE IInv
    OBVIOUS
  <2>1. EngineTyped /\ OpenAlerts = {}
    BY FreshEngine DEF Init
  <2>2. Typed
    <3>1. polls \in 0..MaxPolls
      BY PollsAssumption DEF Init
    <3>2. running \in BOOLEAN
      BY DEF Init
    <3> QED BY <2>1, <3>1, <3>2 DEF Init, Typed
  <2>3. NeverHoldsFired /\ RunAgrees
    BY DEF Init, NeverHoldsFired, RunAgrees
  <2>4. ExitIsEarned
    BY <2>1 DEF Init, ExitIsEarned, EVENT_FIRED, HEARTBEAT
  <2> QED BY <2>2, <2>3, <2>4 DEF IInv
<1>2. IInv /\ [Next]_vars => IInv'
  <2> SUFFICES ASSUME IInv, [Next]_vars PROVE IInv'
    OBVIOUS
  <2>1. EngineTyped' /\ NeverHoldsFired'
    BY HoldsNothing DEF IInv, Typed
  <2>2. CASE Arm
    <3>1. Typed'
      BY <2>1, <2>2, PollsAssumption DEF Arm, IInv, Typed
    <3>2. ASSUME NEW k \in AlertKeys PROVE InTime(k)' /\ Lasted(k)'
      <4>1. GateOf(k)' = Quiet
        BY <2>2 DEF Arm, AlertKeys, GateOf, FreshSeries, FreshSource, Unseen
      <4>2. Rules[k[1]].for \in Nat \ {0}
        BY RuleTyped, KeysDisjoint DEF AlertKeys
      <4>3. polls' = 0
        BY <2>2 DEF Arm
      <4> QED BY <4>1, <4>2, <4>3 DEF InTime, Lasted, Quiet
    <3>3. running' /\ emitted' = None /\ ongoing' = ongoing /\ ongoing \subseteq AlertKeys
      BY <2>2 DEF Arm, IInv, Typed
    <3> QED BY <2>1, <3>1, <3>2, <3>3 DEF IInv, RunAgrees, ExitIsEarned
  <2>3. CASE TimeOut
    <3>1. OpenAlerts' = {} /\ emitted' = None
      <4>1. OpenAlerts = {} /\ emitted = None
        BY <2>3 DEF TimeOut, IInv, NeverHoldsFired, RunAgrees
      <4> QED BY <2>3, <4>1 DEF TimeOut, OpenAlerts, GateOf
    <3>2. Typed'
      BY <2>1, <2>3 DEF TimeOut, IInv, Typed
    <3> QED BY <2>1, <2>3, <3>1, <3>2 DEF TimeOut, IInv, RunAgrees, ExitIsEarned,
                                          EVENT_FIRED, HEARTBEAT
  <2>4. ASSUME NEW tick \in Ticks, Poll(tick) PROVE IInv'
    BY <2>1, <2>4, PollKeeps DEF IInv
  <2>5. CASE UNCHANGED vars
    <3>1. \A k \in AlertKeys : (InTime(k) => InTime(k)') /\ (Lasted(k) => Lasted(k)')
      BY <2>5 DEF vars, InTime, Lasted, GateOf
    <3>2. OpenAlerts' = OpenAlerts
      BY <2>5 DEF vars, OpenAlerts, GateOf
    <3> QED BY <2>1, <2>5, <3>1, <3>2 DEF vars, IInv, Typed, RunAgrees, ExitIsEarned
  <2> QED BY <2>2, <2>3, <2>4, <2>5 DEF Next
<1> QED BY <1>1, <1>2, PTL DEF Spec

\* A heartbeat leaves nothing fired, exit 10 names an alert its engine holds
\* open, and no run emits one before it polled for the whole debounce itself,
\* for every rule set, every source and every deadline.
THEOREM ExitsAreEarned == Spec => []ExitIsEarned
<1>1. IInv => ExitIsEarned
  BY DEF IInv
<1> QED BY <1>1, RunsInvariant, PTL

\* No run polls on for the debounce of an alert whose condition lasts from the
\* event before: it has ended by then, whatever else fires first.
THEOREM LastingRefires == Spec => []RefiresInTime
<1>1. IInv => RefiresInTime
  <2> SUFFICES ASSUME IInv, running, NEW k \in ongoing, Rules[k[1]].kind # "missing"
               PROVE  polls < Rules[k[1]].for + Baseline(Rules[k[1]].kind)
    BY DEF RefiresInTime
  <2>1. k \in AlertKeys /\ InTime(k) /\ Lasted(k) /\ polls \in Nat
    BY DEF IInv, Typed, RunAgrees
  <2>2. GateOf(k).streak \in Nat
    BY <2>1 DEF IInv, Typed, EngineTyped, GateOf, AlertKeys, SeriesState, Gate
  <2>3. Rules[k[1]].for \in Nat \ {0} /\ Rules[k[1]].kind \in RuleKind
    <3>1. k[1] \in RuleIds
      BY <2>1 DEF AlertKeys, Keys, SourceRules
    <3> QED BY <3>1, RulesAssumption DEF ValidRule
  <2> QED BY <2>1, <2>2, <2>3 DEF InTime, Lasted, Baseline, RuleKind
<1> QED BY <1>1, RunsInvariant, PTL
=============================================================================
