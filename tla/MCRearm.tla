------------------------------- MODULE MCRearm --------------------------------
(***************************************************************************)
(* Instances of Rearm for TLC.                                             *)
(***************************************************************************)
EXTENDS Rearm

Rule(kind, covers, for) ==
  [kind |-> kind, covers |-> covers, metric |-> "value", op |-> "gt",
   threshold |-> 0, clear |-> 0, window |-> 2, for |-> for]

Shows(x)  == [value |-> x, avg |-> x]
OneSeries == <<"vcore">>
TwoSeries == <<"cpu", "gpu">>

OneReadings == {Shows(0), Shows(1)}
OneSamples  == {<<>>} \cup {<<[series |-> "vcore", reading |-> r]>> : r \in OneReadings}

TwoReadings == {Shows(x) : x \in {0, 1, NaN}}
TwoSamples  ==
  {<<[series |-> "cpu", reading |-> r], [series |-> "gpu", reading |-> q]>> :
     r, q \in TwoReadings}
MixedSamples == {<<>>} \cup TwoSamples \cup
  {<<[series |-> s, reading |-> r]>> : s \in {"cpu", "gpu"}, r \in TwoReadings}

\* A rule of every kind on two series.
MixedRules   == <<Rule("missing", {"cpu", "gpu"}, 2), Rule("stale", {"gpu"}, 3),
                  Rule("rate", {"cpu", "gpu"}, 2), Rule("source", {}, 3),
                  Rule("threshold", {"cpu"}, 3)>>
\* A series that leaves.
MissingRules == <<Rule("missing", {"vcore"}, 2)>>
\* Two rules whose conditions can be present together.
TwoRules     == <<Rule("threshold", {"cpu"}, 1), Rule("threshold", {"gpu"}, 2)>>
=============================================================================
