---------------------------- MODULE MCRuleEngine -----------------------------
(***************************************************************************)
(* Instances of RuleEngine for TLC.                                        *)
(***************************************************************************)
EXTENDS RuleEngine

Rule(kind, covers, metric, op, threshold, clear, window, for) ==
  [kind |-> kind, covers |-> covers, metric |-> metric, op |-> op,
   threshold |-> threshold, clear |-> clear, window |-> window, for |-> for]

Shows(x) == [value |-> x, avg |-> x]
Drifts   == [value |-> 2, avg |-> 1]   \* the same value as Shows(2), another average

(* One series under one rule of every kind, debounced by two samples; the  *)
(* threshold rule has a hysteresis band, the rate rule looks two back.     *)
KindsOrder == <<"vcore">>
KindsRules ==
  << Rule("threshold", {"vcore"}, "value", "gt", 1, 0, 2, 2),
     Rule("rate",      {"vcore"}, "avg",   "ge", 1, 1, 3, 2),
     Rule("stale",     {"vcore"}, "value", "gt", 0, 0, 2, 2),
     Rule("missing",   {"vcore"}, "value", "gt", 0, 0, 2, 2),
     Rule("source",    {},        "value", "gt", 0, 0, 2, 2) >>
KindsReadings == {Shows(x) : x \in {0, 1, 2, NaN}} \cup {Drifts}
KindsSamples  == {<<>>} \cup {<<[series |-> "vcore", reading |-> r]>> : r \in KindsReadings}

(* Two series, samples in either order and with a repeated series, rules   *)
(* that fire on several series in one tick.                                *)
PairOrder == <<"cpu", "gpu">>
PairRules ==
  << Rule("missing",   {"cpu", "gpu"}, "value", "gt", 0, 0, 2, 1),
     Rule("threshold", {"cpu", "gpu"}, "value", "lt", 1, 2, 2, 1),
     Rule("source",    {},             "value", "gt", 0, 0, 2, 1),
     Rule("stale",     {"gpu"},        "value", "gt", 0, 0, 2, 1) >>
PairReadings == {Shows(0), Shows(2)}
PairEntry(s, r) == [series |-> s, reading |-> r]
PairSamples ==
  {<<>>}
    \cup {<<PairEntry(s, r)>> : s \in {"cpu", "gpu"}, r \in PairReadings}
    \cup {<<PairEntry("cpu", r), PairEntry("gpu", q)>> : r, q \in PairReadings}
    \cup {<<PairEntry("gpu", r), PairEntry("cpu", q)>> : r, q \in PairReadings}
    \cup {<<PairEntry("cpu", r), PairEntry("cpu", q)>> : r, q \in PairReadings}
=============================================================================
