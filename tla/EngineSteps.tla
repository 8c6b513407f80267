----------------------------- MODULE EngineSteps -----------------------------
(***************************************************************************)
(* The pure part of the rule engine (engine.rs): the debounce/hysteresis   *)
(* gate, the evaluation of one reading by each kind of rule, and what the  *)
(* absence of a series does.  No variables: RuleEngine steps these         *)
(* operators over a stream of ticks, Rearm inside a restarting process.    *)
(*                                                                         *)
(* A value is an integer or NaN.  A reading is the record of the metrics a *)
(* rule can select; the code has four (value, min, max, avg), and since    *)
(* only "the selected one" and "all of them are unchanged" are ever asked, *)
(* two are enough here.                                                    *)
(***************************************************************************)
EXTENDS Integers, Sequences

CONSTANTS
  NaN,         \* the unevaluable value, equal to itself (the code compares bits)
  NoBaseline   \* stale: no previous reading

ASSUME NaNAssumption == NaN \notin Int

Metric   == {"value", "avg"}
Op       == {"gt", "ge", "lt", "le"}
Verdict  == {"Violates", "Recovers", "Holds", "NaN", "None"}
RuleKind == {"threshold", "rate", "stale", "missing", "source"}

Compare(op, a, b) ==
  \/ op = "gt" /\ a > b
  \/ op = "ge" /\ a >= b
  \/ op = "lt" /\ a < b
  \/ op = "le" /\ a <= b

(***************************************************************************)
(* A validated rule: the clear level is on the recovery side of the        *)
(* threshold, the debounce count is positive, a window holds two samples.  *)
(* A rule without `clear` has clear = threshold (clear_level).             *)
(***************************************************************************)
ValidRule(r, series) ==
  /\ r.kind \in RuleKind
  /\ r.covers \subseteq series
  /\ r.for \in Nat \ {0}
  /\ r.metric \in Metric
  /\ r.op \in Op
  /\ r.threshold \in Int
  /\ r.clear \in Int
  /\ r.window \in Nat \ {0, 1}
  /\ r.op \in {"gt", "ge"} => r.clear <= r.threshold
  /\ r.op \in {"lt", "le"} => r.clear >= r.threshold

-----------------------------------------------------------------------------
(* The gate. *)

Gate == [fired : BOOLEAN, streak : Nat, total : Nat]

Quiet == [fired |-> FALSE, streak |-> 0, total |-> 0]

\* A violating sample: a fired gate counts it, an unfired one debounces it.
Violate(g, for) ==
  IF g.fired THEN [g EXCEPT !.total = @ + 1]
  ELSE IF g.streak + 1 = for THEN [fired |-> TRUE, streak |-> for, total |-> for]
  ELSE [g EXCEPT !.streak = @ + 1]

\* A recovered sample: ends the episode, or the streak that led to none.
Recover(g) == IF g.fired THEN Quiet ELSE [g EXCEPT !.streak = 0]

\* Seeded fault: a NaN sample closes the episode.
UnevaluableClears(g) == Quiet

\* A NaN sample resets an unfired streak and never clears.
Unevaluable(g) == IF g.fired THEN g ELSE [g EXCEPT !.streak = 0]

Apply(g, verdict, for) ==
  CASE verdict = "Violates" -> Violate(g, for)
    [] verdict = "Recovers" -> Recover(g)
    [] verdict = "NaN"      -> Unevaluable(g)
    [] OTHER                -> g

\* The transition that applying the verdict announces, and its sample count.
NoEvent == [state |-> "none", samples |-> 0]

\* Seeded fault: a cleared event counts the debounce lead-in only.
GateEventLeadIn(g, verdict, for) ==
  IF verdict = "Violates" /\ ~g.fired /\ g.streak + 1 = for
    THEN [state |-> "fired", samples |-> for]
  ELSE IF verdict = "Recovers" /\ g.fired
    THEN [state |-> "cleared", samples |-> g.streak]
  ELSE NoEvent

GateEvent(g, verdict, for) ==
  IF verdict = "Violates" /\ ~g.fired /\ g.streak + 1 = for
    THEN [state |-> "fired", samples |-> for]
  ELSE IF verdict = "Recovers" /\ g.fired
    THEN [state |-> "cleared", samples |-> g.total]
  ELSE NoEvent

-----------------------------------------------------------------------------
(* One series under one rule. *)

SeriesState(Readings, Values) ==
  [known    : BOOLEAN,
   gate     : Gate,
   baseline : Readings \cup {NoBaseline},
   window   : Seq(Values)]

Unseen == [known |-> FALSE, gate |-> Quiet, baseline |-> NoBaseline, window |-> <<>>]

\* The three-way verdict against threshold and clear level; a fired gate
\* between the two holds silently.
ValueVerdict(rule, g, x) ==
  IF x = NaN THEN "NaN"
  ELSE IF g.fired /\ ~Compare(rule.op, x, rule.clear) THEN "Recovers"
  ELSE IF Compare(rule.op, x, rule.threshold) THEN "Violates"
  ELSE IF g.fired THEN "Holds"
  ELSE "Recovers"

Delta(x, y) == IF x = NaN \/ y = NaN THEN NaN ELSE x - y

\* Rate: the delta to the oldest of the window - 1 remembered values, once
\* there are that many.
RateVerdict(rule, s, r) ==
  IF Len(s.window) = rule.window - 1
    THEN ValueVerdict(rule, s.gate, Delta(r[rule.metric], Head(s.window)))
    ELSE "None"

\* Stale: the whole reading repeats; the first one only sets the baseline.
StaleVerdict(s, r) ==
  IF s.baseline = NoBaseline THEN "None"
  ELSE IF s.baseline = r THEN "Violates" ELSE "Recovers"

PresentVerdict(rule, s, r) ==
  CASE rule.kind = "threshold" -> ValueVerdict(rule, s.gate, r[rule.metric])
    [] rule.kind = "rate"      -> RateVerdict(rule, s, r)
    [] rule.kind = "stale"     -> StaleVerdict(s, r)
    [] OTHER                   -> "Recovers"

Slide(window, x, width) ==
  IF Len(window) = width THEN Append(Tail(window), x) ELSE Append(window, x)

\* The series is in the sample: judge the reading and remember it.
Present(rule, s, r) ==
  [known    |-> TRUE,
   gate     |-> Apply(s.gate, PresentVerdict(rule, s, r), rule.for),
   baseline |-> IF rule.kind = "stale" THEN r ELSE s.baseline,
   window   |-> IF rule.kind = "rate"
                  THEN Slide(s.window, r[rule.metric], rule.window - 1)
                  ELSE s.window]

\* A series never seen has no entry.  For a missing rule absence is the
\* violation; for the others a discontinuity that resets but never clears.
AbsentVerdict(rule, s) ==
  IF s.known /\ rule.kind = "missing" THEN "Violates" ELSE "None"

\* Seeded fault: a streak goes on across an absence.
AbsentKeepsStreak(rule, s) ==
  IF ~s.known THEN s
  ELSE IF rule.kind = "missing"
    THEN [s EXCEPT !.gate = Apply(@, "Violates", rule.for)]
  ELSE [s EXCEPT !.baseline = NoBaseline, !.window = <<>>]

Absent(rule, s) ==
  IF ~s.known THEN s
  ELSE IF rule.kind = "missing"
    THEN [s EXCEPT !.gate = Apply(@, "Violates", rule.for)]
  ELSE [s EXCEPT !.gate.streak = 0, !.baseline = NoBaseline, !.window = <<>>]
=============================================================================
