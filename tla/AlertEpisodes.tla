---------------------------- MODULE AlertEpisodes ----------------------------
(***************************************************************************)
(* What the rule engine promises, stated over the whole history of ticks   *)
(* and with no counter, window or baseline: which alerts are open after a  *)
(* history, and which transitions its last tick announces.                 *)
(*                                                                         *)
(* From the module documentation of engine.rs: a rule fires when its       *)
(* condition held on for_samples consecutive ticks it observes; a NaN or   *)
(* an absence breaks a streak and never clears; an Unavailable tick is     *)
(* invisible to every rule but the source-unavailable ones; only a sample  *)
(* on the recovery side of the clear level closes an alert.                *)
(***************************************************************************)
EXTENDS TickStream, FiniteSets

CONSTANT MaxTicks   \* the longest history explored

VARIABLES
  hist,       \* the ticks observed so far
  open,       \* the alerts that are open: <<rule, series>>
  announced   \* the transitions of the last tick

vars == <<hist, open, announced>>

SeesSample(h, n) == h[n] # Unavailable
Visible(i, h, n) == Rules[i].kind = "source" \/ SeesSample(h, n)
SeenAt(s, h, n)  == SeesSample(h, n) /\ InSample(h[n], s)

\* The samples in m..n, and whether the series is in all of them.
SamplesIn(h, m, n) == {j \in m..n : SeesSample(h, j)}
Unbroken(s, h, m, n) == \A j \in SamplesIn(h, m, n) : InSample(h[j], s)

\* The tick `back` samples before n, when the series was never absent between.
BackFrom(s, h, n, back) ==
  {m \in 1..n : /\ SeenAt(s, h, m)
                /\ Unbroken(s, h, m, n)
                /\ Cardinality(SamplesIn(h, m, n)) = back + 1}

MetricAt(rule, s, h, n) == ReadingOf(h[n], s)[rule.metric]

\* The compared value of a value rule at tick n: none (the empty set), or one.
ComparedAt(rule, s, h, n) ==
  IF ~SeenAt(s, h, n) THEN {}
  ELSE IF rule.kind = "threshold" THEN {MetricAt(rule, s, h, n)}
  ELSE {Delta(MetricAt(rule, s, h, n), MetricAt(rule, s, h, m)) :
          m \in BackFrom(s, h, n, rule.window - 1)}

Repeats(s, h, n) ==
  SeenAt(s, h, n) /\ \E m \in BackFrom(s, h, n, 1) : ReadingOf(h[m], s) = ReadingOf(h[n], s)
Changes(s, h, n) ==
  SeenAt(s, h, n) /\ \E m \in BackFrom(s, h, n, 1) : ReadingOf(h[m], s) # ReadingOf(h[n], s)

ViolatesAt(i, s, h, n) ==
  LET rule == Rules[i] IN
  \/ rule.kind = "source"  /\ ~SeesSample(h, n)
  \/ /\ rule.kind = "missing"
     /\ SeesSample(h, n) /\ ~InSample(h[n], s)
     /\ \E m \in 1..n : SeenAt(s, h, m)
  \/ rule.kind = "stale"   /\ Repeats(s, h, n)
  \/ /\ rule.kind \in {"threshold", "rate"}
     /\ \E x \in ComparedAt(rule, s, h, n) : x # NaN /\ Compare(rule.op, x, rule.threshold)

RecoversAt(i, s, h, n) ==
  LET rule == Rules[i] IN
  \/ rule.kind = "source"  /\ SeesSample(h, n)
  \/ rule.kind = "missing" /\ SeenAt(s, h, n)
  \/ rule.kind = "stale"   /\ Changes(s, h, n)
  \/ /\ rule.kind \in {"threshold", "rate"}
     /\ \E x \in ComparedAt(rule, s, h, n) : x # NaN /\ ~Compare(rule.op, x, rule.clear)

\* for_samples consecutive visible ticks ending at n, violating all of them.
RunEndsAt(i, s, h, n) ==
  \E m \in 1..n :
    LET run == {j \in m..n : Visible(i, h, j)} IN
    /\ n \in run
    /\ Cardinality(run) = Rules[i].for
    /\ \A j \in run : ViolatesAt(i, s, h, j)

\* The runs since the last recovery at or before n.
RunsSince(i, s, h, n) ==
  {m \in 1..n : RunEndsAt(i, s, h, m) /\ \A j \in m+1..n : ~RecoversAt(i, s, h, j)}

OpenAt(i, s, h, n) == RunsSince(i, s, h, n) # {}

\* Every violating tick of the episode open at n, debounce lead-in included.
EpisodeTotal(i, s, h, n) ==
  LET fire == CHOOSE m \in RunsSince(i, s, h, n) : \A j \in RunsSince(i, s, h, n) : m <= j
  IN  Rules[i].for + Cardinality({j \in fire+1..n : ViolatesAt(i, s, h, j)})

OpenKeys(h) == {k \in AlertKeys : OpenAt(k[1], k[2], h, Len(h))}

Fires(k) == Transition(k[1], k[2], [state |-> "fired", samples |-> Rules[k[1]].for])
Clears(k, h) ==
  Transition(k[1], k[2], [state |-> "cleared", samples |-> EpisodeTotal(k[1], k[2], h, Len(h))])

-----------------------------------------------------------------------------

Init == hist = <<>> /\ open = {} /\ announced = {}

Observe(tick) ==
  /\ Len(hist) < MaxTicks
  /\ hist' = Append(hist, tick)
  /\ open' = OpenKeys(hist')
  /\ announced' = {Fires(k) : k \in open' \ open} \cup {Clears(k, hist) : k \in open \ open'}

Next == \E tick \in Ticks : Observe(tick)

Spec == Init /\ [][Next]_vars
=============================================================================
