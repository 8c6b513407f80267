------------------------------- MODULE Digest --------------------------------
(***************************************************************************)
(* The pure part of `report` (digest.rs): what one pass over the samples   *)
(* of a window accumulates, and how the digest is ranked, cut and fitted   *)
(* to a size.  No variables: Report steps these operators.                 *)
(*                                                                         *)
(* Instants are integers; the size of a text is a sum over what it lists,  *)
(* and only the sum matters to the fitting.                                *)
(***************************************************************************)
EXTENDS TickStream, Config, TimeUnits, SequencesExt

CONSTANTS
  GapMultiplier,  \* GAP_INTERVAL_MULTIPLIER, 3 in the code
  MaxGaps,        \* MAX_GAPS, 1024 in the code
  NumberBase,     \* the base numbers are written in, 10
  NoInstant       \* no timestamp

ASSUME DigestAssumption ==
  /\ MaxGaps \in Nat \ {0} /\ GapMultiplier \in Nat
  /\ NumberBase \in Nat \ {0, 1}
  /\ NoInstant \notin Int

-----------------------------------------------------------------------------
(* Sorting and summing. *)

\* The elements of S from the first to the last, under a strict total order.
Sorted(S, before) ==
  [n \in 1..Cardinality(S) |->
     CHOOSE e \in S : Cardinality({f \in S : <<f, e>> \in before}) = n - 1]

\* The elements of a sequence at some of its places, in order.
At(seq, places) ==
  LET order == Sorted(places, {p \in places \X places : p[1] < p[2]})
  IN  [n \in 1..Cardinality(places) |-> seq[order[n]]]

SumOf(numbers) ==
  LET upTo[n \in 0..Len(numbers)] == IF n = 0 THEN 0 ELSE upTo[n-1] + numbers[n]
  IN  upTo[Len(numbers)]

-----------------------------------------------------------------------------
(* Aggregation. *)

\* SeriesAgg::new; NaN stands for "no finite value yet".
NewRow ==
  [samples |-> 0, nonFinite |-> 0, sum |-> 0, min |-> NaN, max |-> NaN,
   first |-> NaN, last |-> NaN, inViolation |-> FALSE]

\* SeriesAgg::observe: only finite values enter an extreme.
FoldRow(row, x) ==
  IF x = NaN THEN [row EXCEPT !.samples = @ + 1, !.nonFinite = @ + 1]
  ELSE [row EXCEPT
    !.samples = @ + 1,
    !.sum     = @ + x,
    !.min     = IF @ = NaN \/ x < @ THEN x ELSE @,
    !.max     = IF @ = NaN \/ x > @ THEN x ELSE @,
    !.first   = IF @ = NaN THEN x ELSE @,
    !.last    = x]

NewAggregator ==
  [samples |-> 0, first |-> NoInstant, last |-> NoInstant, prev |-> NoInstant,
   gaps |-> <<>>, gapsTotal |-> 0, rows |-> [s \in Series |-> NewRow]]

Seen(agg) == {s \in Series : agg.rows[s].samples > 0}

Extent(gap) == gap.to - gap.from

\* Gap.seconds: the list of gaps is ranked, shown and summed up by these.
Seconds(gap) == WholeSeconds(Extent(gap))

\* The first of the smallest gaps.
Smaller(gaps, m, n) ==
  \/ Seconds(gaps[m]) < Seconds(gaps[n])
  \/ Seconds(gaps[m]) = Seconds(gaps[n]) /\ m < n

Smallest(gaps) ==
  CHOOSE n \in 1..Len(gaps) : \A m \in 1..Len(gaps) \ {n} : Smaller(gaps, n, m)

\* Seeded fault: a full list replaces its oldest gap.
PushGapOldest(gaps, gap) ==
  IF Len(gaps) < MaxGaps THEN Append(gaps, gap)
  ELSE IF Seconds(gap) > Seconds(gaps[1]) THEN Append(Tail(gaps), gap)
  ELSE gaps

\* push_gap: a full list lets its smallest gap go for a larger one.
PushGap(gaps, gap) ==
  IF Len(gaps) < MaxGaps THEN Append(gaps, gap)
  ELSE IF Seconds(gap) > Seconds(gaps[Smallest(gaps)])
    THEN Append(RemoveAt(gaps, Smallest(gaps)), gap)
  ELSE gaps

IsGap(agg, interval, instant) ==
  agg.prev # NoInstant /\ instant - agg.prev > interval * GapMultiplier * Second

\* The baseline is the latest sample in order: a stale one does not move it.
Baseline(agg, instant) ==
  IF agg.prev = NoInstant \/ instant > agg.prev THEN instant ELSE agg.prev

\* Aggregator::observe; of a series repeated in a sample the first counts.
Observe(agg, interval, instant, sample) ==
  LET gap == IsGap(agg, interval, instant) IN
  [agg EXCEPT
    !.samples   = @ + 1,
    !.first     = IF @ = NoInstant THEN instant ELSE @,
    !.last      = instant,
    !.prev      = Baseline(agg, instant),
    !.gaps      = IF gap THEN PushGap(@, [from |-> agg.prev, to |-> instant]) ELSE @,
    !.gapsTotal = IF gap THEN @ + 1 ELSE @,
    !.rows      = [s \in Series |->
                     IF InSample(sample, s) THEN FoldRow(@[s], ReadingOf(sample, s).value)
                                            ELSE @[s]]]

\* mark_in_violation, of the series of all transitions of a tick.
Mark(agg, transitions) ==
  [agg EXCEPT !.rows = [s \in Series |->
    [agg.rows[s] EXCEPT !.inViolation = @ \/ \E t \in transitions : t.series = s]]]

-----------------------------------------------------------------------------
(* The display filters: --match (any of the patterns) and --type. *)

Matches(name, filter) == filter.match = {} \/ \E p \in filter.match : Occurs(name, p)

RowPasses(s, filter) ==
  Matches(s, filter) /\ (filter.type # Unset => Occurs(s, filter.type))

\* A transition without a series in the window fails any --type.
ViolationPasses(t, filter, agg) ==
  /\ Matches(t.series, filter)
  /\ filter.type # Unset => t.series \in Seen(agg) /\ Occurs(t.series, filter.type)

\* Where a list of transitions has one that passes.
Passing(transitions, filter, agg) ==
  {n \in 1..Len(transitions) : ViolationPasses(transitions[n].transition, filter, agg)}

-----------------------------------------------------------------------------
(* Ranking. *)

Abs(x) == IF x < 0 THEN -x ELSE x
Larger(a, b) == IF a > b THEN a ELSE b

\* ReadingRow::score, as a fraction: the movement over the window, relative to
\* the larger end, and to one at least.
Movement(row) == IF row.first = NaN THEN 0 ELSE Abs(row.last - row.first)
Floor(row)    == IF row.first = NaN THEN 1 ELSE Larger(1, Larger(Abs(row.first), Abs(row.last)))
ScoresHigher(a, b) == Movement(a) * Floor(b) > Movement(b) * Floor(a)

\* rank_rows: series with a transition first, then movement, then the key.
RanksBefore(agg, s, t) ==
  LET a == agg.rows[s] b == agg.rows[t] IN
  IF a.inViolation # b.inViolation THEN a.inViolation
  ELSE ScoresHigher(a, b) \/ (~ScoresHigher(b, a) /\ KeyRank(s) < KeyRank(t))

Forced(agg, rows) == {s \in rows : agg.rows[s].inViolation}

Take(seq, n) == SubSeq(seq, 1, IF n < Len(seq) THEN n ELSE Len(seq))

\* emit: --top caps the movers, never the series with a transition.
ShownRows(agg, filter, top) ==
  LET rows   == {s \in Seen(agg) : RowPasses(s, filter)}
      ranked == Sorted(rows, {p \in rows \X rows : RanksBefore(agg, p[1], p[2])})
      kept   == Take(ranked, Larger(Cardinality(Forced(agg, rows)), top))
  IN  [n \in 1..Len(kept) |-> [series |-> kept[n], row |-> agg.rows[kept[n]]]]

\* The retained transitions are numbered before the filter hides some.
ShownViolations(agg, filter, transitions) ==
  LET numbered == [n \in 1..Len(transitions) |->
                     [seq |-> n, transition |-> transitions[n].transition, ts |-> transitions[n].ts]]
  IN  At(numbered, Passing(transitions, filter, agg))

-----------------------------------------------------------------------------
(* Fitting the size.  A view is what the digest lists: [rows, gaps,        *)
(* violations], three sequences.                                           *)

Digits(n) ==
  LET digits[m \in 0..n] == IF m < NumberBase THEN 1 ELSE 1 + digits[m \div NumberBase]
  IN  digits[n]

RowSize(r)       == 2 + Digits(r.row.samples)
GapSize(g)       == 1 + Digits(Seconds(g))
ViolationSize(v) == 2 + Digits(v.seq)

\* A list of n > 0 items has n - 1 separators between two brackets, and its
\* length is shown as a count.
ListSize(sizes) == Digits(Len(sizes)) + Len(sizes) + SumOf(sizes)

\* The length of the rendered view, its "shown" counts included.
Size(view) ==
  ListSize([n \in 1..Len(view.rows) |-> RowSize(view.rows[n])])
    + ListSize([n \in 1..Len(view.gaps) |-> GapSize(view.gaps[n])])
    + ListSize([n \in 1..Len(view.violations) |-> ViolationSize(view.violations[n])])

Items(view) == Len(view.rows) + Len(view.gaps) + Len(view.violations)

\* gap_drop_rank: the place of a gap in the order of dropping.
\* Seeded fault: of equal gaps the newest goes first.
DropRankNewest(gaps, n) ==
  Cardinality({m \in 1..Len(gaps) : \/ Seconds(gaps[m]) < Seconds(gaps[n])
                                    \/ Seconds(gaps[m]) = Seconds(gaps[n]) /\ m > n})

DropRank(gaps, n) ==
  Cardinality({m \in 1..Len(gaps) : Smaller(gaps, m, n)})

Less(a, b) == IF a < b THEN a ELSE b

\* render_at: the view without the first k items in the order of dropping:
\* rows from the tail, then the smallest gaps, then violations from the front.
Dropped(view, k) ==
  LET rows       == Less(k, Len(view.rows))
      gaps       == Less(k - rows, Len(view.gaps))
      violations == Less(k - rows - gaps, Len(view.violations))
  IN  [rows       |-> SubSeq(view.rows, 1, Len(view.rows) - rows),
       gaps       |-> At(view.gaps, {n \in 1..Len(view.gaps) : DropRank(view.gaps, n) >= gaps}),
       violations |-> SubSeq(view.violations, violations + 1, Len(view.violations))]

TooBig == [rows |-> <<>>, gaps |-> <<>>, violations |-> <<>>, error |-> TRUE]

\* fit: all of it, or after the fewest drops, found by bisection; an error if
\* even the bare counts are too long.
Fit(view, maxBytes) ==
  LET n == Items(view)
      Fits(k) == Size(Dropped(view, k)) <= maxBytes
      search[r \in (1..n) \X (1..n)] ==
        IF r[1] >= r[2] THEN r[2]
        ELSE LET mid == r[1] + (r[2] - r[1]) \div 2
             IN  IF Fits(mid) THEN search[<<r[1], mid>>] ELSE search[<<mid + 1, r[2]>>]
  IN  IF Fits(0) THEN Dropped(view, 0)
      ELSE IF ~Fits(n) THEN TooBig
      ELSE Dropped(view, search[<<1, n>>])

-----------------------------------------------------------------------------
(* The test oracle of the fitting, one item at a time (naive_fit). *)

DropOne(view) ==
  IF view.rows # <<>> THEN [view EXCEPT !.rows = Front(@)]
  ELSE IF view.gaps # <<>> THEN [view EXCEPT !.gaps = RemoveAt(@, Smallest(@))]
  ELSE [view EXCEPT !.violations = Tail(@)]

NaiveFit(view, maxBytes) ==
  LET after[k \in 0..Items(view)] == IF k = 0 THEN view ELSE DropOne(after[k - 1])
      fitting == {k \in 0..Items(view) : Size(after[k]) <= maxBytes}
  IN  IF fitting = {} THEN TooBig ELSE after[CHOOSE k \in fitting : \A j \in fitting : k <= j]
=============================================================================
