------------------------------ MODULE RuleDoc --------------------------------
(***************************************************************************)
(* The strict side of a config document (rules.rs): every [[rules]] entry  *)
(* is validated, every complaint is reported, and a set with one complaint *)
(* is no set at all.  What comes out are the rules EngineSteps evaluates.  *)
(*                                                                         *)
(* A raw entry is a record of optional fields (Unset).  Entries that serde *)
(* rejects (unknown keys, wrong types, unknown enum values) make the whole *)
(* document unparsable: rulesOk of the document.                           *)
(***************************************************************************)
EXTENDS EngineSteps, Config

CONSTANT MaxSamples   \* 1 000 000 in the code

ASSUME MaxSamplesAssumption == MaxSamples \in Nat \ {0}

\* What serde lets through as an entry: enumerations hold one of their values,
\* numbers are numbers.
IsEntry(raw) ==
  /\ raw.kind \in RuleKind \cup {Unset}
  /\ raw.metric \in Metric \cup {Unset}
  /\ raw.op \in Op \cup {Unset}

ValueBased(kind) == kind \in {"threshold", "rate"}

IsSet(x)   == x # Unset
Finite(x)  == x \in Int
Names(raw) == {raw.sensor, raw.reading}
Written(raw) == {f \in {"sensor", "reading", "type"} : IsSet(raw[f])}

\* A recovered sample can never also violate: clear is on the other side.
RecoverySide(op, threshold, clear) ==
  IF op \in {"gt", "ge"} THEN clear <= threshold ELSE clear >= threshold

\* The checks that do not need the kind; they run before it is looked at.
PlainComplaints(raw) ==
  [name   |-> raw.name \in {Unset, Blank},
   blank  |-> Blank \in Names(raw),
   label  |-> raw.type = Blank,
   finite |-> \E x \in {raw.threshold, raw.clear} : IsSet(x) /\ ~Finite(x),
   clear  |-> /\ IsSet(raw.op) /\ Finite(raw.threshold) /\ Finite(raw.clear)
              /\ ~RecoverySide(raw.op, raw.threshold, raw.clear),
   count  |-> IsSet(raw.for_samples) /\ raw.for_samples \notin 1..MaxSamples,
   kind   |-> ~IsSet(raw.kind)]

\* Seeded fault: a window of one sample passes.
KindComplaintsWindow(raw) ==
  [scope  |-> \/ ValueBased(raw.kind) /\ Written(raw) = {}
              \/ raw.kind = "source" /\ Written(raw) # {},
   fields |-> IF ValueBased(raw.kind) THEN ~IsSet(raw.op) \/ ~IsSet(raw.threshold)
              ELSE \E f \in {"op", "threshold", "clear", "metric"} : IsSet(raw[f]),
   window |-> IF raw.kind = "rate" THEN raw.window_samples \notin 1..MaxSamples
              ELSE IsSet(raw.window_samples)]

\* The checks of a kind: scope, required and forbidden fields, the window.
KindComplaints(raw) ==
  [scope  |-> \/ ValueBased(raw.kind) /\ Written(raw) = {}
              \/ raw.kind = "source" /\ Written(raw) # {},
   fields |-> IF ValueBased(raw.kind) THEN ~IsSet(raw.op) \/ ~IsSet(raw.threshold)
              ELSE \E f \in {"op", "threshold", "clear", "metric"} : IsSet(raw[f]),
   window |-> IF raw.kind = "rate" THEN raw.window_samples \notin 2..MaxSamples
              ELSE IsSet(raw.window_samples)]

Raised(complaints) == {c \in DOMAIN complaints : complaints[c]}

Complaints(raw) ==
  Raised(PlainComplaints(raw))
    \cup IF IsSet(raw.kind) THEN Raised(KindComplaints(raw)) ELSE {}

\* A field with its default.
Or(x, default) == IF IsSet(x) THEN x ELSE default

\* Matcher::matches: every pattern that is set occurs in the series' name.
Covers(raw, series) ==
  {s \in series : \A f \in Written(raw) : Occurs(s, raw[f])}

\* The rule the engine gets.  Without `clear` it clears at the threshold; the
\* fields a kind does not use hold values that are never read.
Validated(raw, series) ==
  LET threshold == Or(raw.threshold, 0) IN
  [kind      |-> raw.kind,
   covers    |-> IF raw.kind = "source" THEN {} ELSE Covers(raw, series),
   metric    |-> Or(raw.metric, "value"),
   op        |-> Or(raw.op, "gt"),
   threshold |-> threshold,
   clear     |-> Or(raw.clear, threshold),
   window    |-> Or(raw.window_samples, 2),
   for       |-> Or(raw.for_samples, 1)]

\* Duplicates are looked for among the entries that validated.
Duplicates(raws) ==
  {n \in 1..Len(raws) : /\ Complaints(raws[n]) = {}
                        /\ \E m \in 1..(n-1) : Complaints(raws[m]) = {} /\ raws[m].name = raws[n].name}

\* RuleSet::from_toml_str; a document without rules is an empty set.
RulesAccepted(doc) ==
  /\ doc.syntax /\ doc.rulesOk
  /\ \A n \in 1..Len(doc.rules) : Complaints(doc.rules[n]) = {}
  /\ Duplicates(doc.rules) = {}

RuleSet(doc, series) == [n \in 1..Len(doc.rules) |-> Validated(doc.rules[n], series)]
=============================================================================
