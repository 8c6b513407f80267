------------------------------- MODULE Report --------------------------------
(***************************************************************************)
(* `sensorwatch report` (report.rs: run; digest.rs: emit): one pass over   *)
(* the window that aggregates every sample, derives the rule transitions   *)
(* again with a fresh engine, and prints a digest of limited size.         *)
(***************************************************************************)
EXTENDS Reader, Digest, Engine, RuleDoc

CONSTANTS
  ConfigFiles,   \* what may lie at the config paths: functions from paths to documents
  ViolationCap   \* VIOLATION_CAP, 512 in the code

ASSUME ConfigAssumption ==
  \A docs \in ConfigFiles : \A path \in DOMAIN docs :
    LET entries == docs[path].rules IN
    Len(entries) \in Nat /\ \A n \in 1..Len(entries) : IsEntry(entries[n])

\* The interval is a positive number: TOML integers are numbers, and one that
\* is too small is replaced by the default (AsInt).
ASSUME IntervalAssumption ==
  /\ DefaultInterval \in Nat \ {0}
  /\ \A docs \in ConfigFiles : \A path \in DOMAIN docs :
       LET value == Get(docs[path].general, "interval_seconds") IN
       value.type = "integer" => value.int \in Int

ASSUME CapAssumption == ViolationCap \in Nat \ {0}

\* --top and --max-bytes are counts.
ASSUME ShowAssumption == \A r \in Requests : r.show.top \in Nat /\ r.show.limit \in Nat

VARIABLES
  rules,     \* the rules of this run, Rules or none
  interval,  \* interval_seconds
  agg,       \* the Aggregator
  kept,      \* the retained transitions, each with the instant of its sample
  total,     \* violations_total
  digest,    \* what was printed, or None, with the view it was cut from
  derived    \* history: all transitions of the pass, in order

reportVars == <<series, source, out, rules, interval, agg, kept, total, digest, derived>>

\* The display filter, --top and --max-bytes: [match, type, top, limit].
filter == request.show

NoDigest == [full |-> TooBig, shown |-> TooBig]

ReportInit ==
  /\ series = FreshSeries /\ source = FreshSource /\ out = {}
  /\ rules = <<>> /\ interval = DefaultInterval
  /\ agg = NewAggregator
  /\ kept = <<>> /\ total = 0 /\ derived = <<>>
  /\ digest = NoDigest

\* The config: a missing one means no rules and the default interval, one that
\* cannot be read is fatal, bad rules are a usage error.
LoadConfig ==
  /\ command = "report" /\ pc = "config"
  /\ \E docs \in ConfigFiles, explicit \in {Unset, "given"} :
       LET path == ConfigPath(explicit, "config.toml", DOMAIN docs) IN
       IF path = Unset
         THEN pc' = "window" /\ UNCHANGED <<exit, rules, interval>>
       ELSE IF ~docs[path].readable
         THEN Exits(FATAL) /\ UNCHANGED <<rules, interval>>
       ELSE IF ~RulesAccepted(docs[path])
         THEN Exits(USAGE) /\ UNCHANGED <<rules, interval>>
       ELSE /\ pc' = "window"
            /\ rules' = RuleSet(docs[path], Series)
            /\ interval' = Lenient(docs[path]).interval_seconds
            /\ UNCHANGED exit
  /\ UNCHANGED <<command, request, window, chosen, start, changed, lost, seen, replayVars>>
  /\ UNCHANGED <<series, source, out, agg, kept, total, digest, derived>>

\* The window of the command line.
ReportSelect ==
  /\ command = "report"
  /\ Select("stream")
  /\ UNCHANGED <<series, source, out, rules, interval, agg, kept, total, digest, derived>>

ReportReadOn == command = "report" /\ ReadOn /\ UNCHANGED reportVars

\* Seeded fault: a full list takes no more.
Oldest(seq) == SubSeq(seq, 1, Less(Len(seq), ViolationCap))

Newest(seq) == SubSeq(seq, Larger(1, Len(seq) - ViolationCap + 1), Len(seq))

\* Seeded fault: only the transitions that find room are counted.
CountedRetained(transitions, a) ==
  IF Len(kept) = ViolationCap THEN 0
  ELSE Cardinality({t \in transitions : ViolationPasses(t, filter, a)})

Counted(transitions, a) == Cardinality({t \in transitions : ViolationPasses(t, filter, a)})

\* The engine sees the sample if there are rules; a series is marked and a
\* transition counted before the cap drops the oldest retained ones.
Digested(sample, instant) ==
  LET observed == Observe(agg, interval, instant, sample)
      ordered  == Sorted(out', {p \in out' \X out' : Precedes(sample, p[1], p[2])})
      stamped  == [n \in 1..Len(ordered) |-> [transition |-> ordered[n], ts |-> instant]]
  IN  /\ IF rules = <<>> THEN out' = {} /\ UNCHANGED <<series, source>> ELSE ObserveSample(sample)
      /\ agg' = Mark(observed, out')
      /\ total' = total + Counted(out', observed)
      /\ kept' = Newest(kept \o stamped)
      /\ derived' = derived \o stamped

ReportSample ==
  /\ command = "report"
  /\ TakeSample
  /\ Digested(TheLine.sample, TheLine.ts)
  /\ UNCHANGED <<rules, interval, digest>>

\* emit: rank, cut to --top, fit to --max-bytes, print.
Emit ==
  /\ command = "report" /\ pc = "stream" /\ AllRead
  /\ LET full  == [rows       |-> ShownRows(agg, filter, filter.top),
                   gaps       |-> agg.gaps,
                   violations |-> ShownViolations(agg, filter, kept)]
         shown == Fit(full, filter.limit)
     IN  /\ digest' = [full |-> full, shown |-> shown]
         /\ Exits(IF shown = TooBig THEN USAGE ELSE SUCCESS)
  /\ UNCHANGED <<command, request, window, chosen, start, changed, lost, seen, replayVars>>
  /\ UNCHANGED <<series, source, out, rules, interval, agg, kept, total, derived>>

ReportStep ==
  \/ LoadConfig
  \/ ReportSelect
  \/ ReportReadOn
  \/ ReportSample
  \/ Emit

-----------------------------------------------------------------------------

\* The instants of the samples taken into account, and the ladder of those
\* that are later than all before them.
Instant(n) == seen[n].line.ts
Ladder == {n \in 1..Len(seen) : \A m \in 1..n-1 : Instant(m) < Instant(n)}
Rung(n) == {m \in Ladder : m > n /\ \A k \in Ladder : k > n => m <= k}

\* The true holes: from a rung of the ladder to the next, if they are further
\* apart than the multiple of the interval.
Steps == UNION {{[from |-> Instant(n), to |-> Instant(m)] : m \in Rung(n)} : n \in Ladder}
Holes == {h \in Steps : Extent(h) > interval * GapMultiplier * Second}

\* The digest lists the largest of the holes in the record, compared by whole
\* seconds, in order of time, and their number is exact: a late or repeated
\* record neither makes a hole nor reports one twice, and a full list drops the
\* smallest (Aggregator::observe, push_gap).
GapsAreLargest ==
  command = "report" /\ seen # <<>> =>
    LET listed == {agg.gaps[n] : n \in 1..Len(agg.gaps)} IN
    /\ agg.gapsTotal = Cardinality(Holes)
    /\ listed \subseteq Holes
    /\ Len(agg.gaps) = Less(MaxGaps, agg.gapsTotal)
    /\ \A n \in 2..Len(agg.gaps) : agg.gaps[n-1].to <= agg.gaps[n].from
    /\ \A g \in listed, h \in Holes \ listed : Seconds(g) >= Seconds(h)

\* What is printed is what dropping one item at a time would have left: the
\* bisection finds the fewest drops that fit (fit, against naive_fit).
FitIsNaive ==
  digest # NoDigest => digest.shown = NaiveFit(digest.full, filter.limit)

\* No cap hides a violation: the total counts every transition of the pass the
\* filter lets through, the digest lists the latest of them, and every series
\* that had one keeps its place above --top (report.rs: run, emit).
ViolationsExact ==
  command = "report" =>
    LET passing == At(derived, Passing(derived, filter, agg))
        listed  == digest.full.violations
    IN  /\ total = Len(passing)
        /\ digest # NoDigest =>
             /\ \A n \in 1..Len(listed) :
                  LET v == passing[Len(passing) - Len(listed) + n] IN
                  listed[n].transition = v.transition /\ listed[n].ts = v.ts
             /\ \A n \in 1..Len(derived) :
                  LET s == derived[n].transition.series IN
                  s \in Seen(agg) /\ RowPasses(s, filter) =>
                    \E m \in 1..Len(digest.full.rows) : digest.full.rows[m].series = s

\* A config that is accepted gives the engine rules it can evaluate: debounce
\* counts and windows in range, a clear level a violating value cannot meet,
\* and a name for each (validate; the engine divides and indexes by these).
RulesAreValid ==
  \A n \in 1..Len(rules) : ValidRule(rules[n], Series) /\ rules[n].for <= MaxSamples
=============================================================================
