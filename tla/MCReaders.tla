----------------------------- MODULE MCReaders -------------------------------
(***************************************************************************)
(* An instance of Readers for TLC: four days of two seconds and four       *)
(* instants, a writer and a reader up to a day apart, two histories of     *)
(* which each form of line is a part.                                      *)
(***************************************************************************)
EXTENDS Readers

(* Two series; cpu crosses its threshold, gpu comes and goes. *)
MCSeriesOrder == <<"cpu", "gpu">>
Shows(x) == [value |-> x, avg |-> 0]
Of(s, x) == [series |-> s, reading |-> Shows(x)]
MCReadings == {Shows(x) : x \in {0, 1, 3, NaN}}
Hot    == <<Of("cpu", 3), Of("gpu", 1), Of("cpu", 0)>>
Cold   == <<Of("cpu", 0)>>
Python == <<Of("cpu", NaN), Of("gpu", 1)>>
MCSamples == {Hot, Cold, Python}

MCRules ==
  << [kind |-> "threshold", covers |-> {"cpu"}, metric |-> "value", op |-> "gt",
      threshold |-> 1, clear |-> 0, window |-> 2, for |-> 1],
     [kind |-> "missing", covers |-> {"gpu"}, metric |-> "value", op |-> "gt",
      threshold |-> 0, clear |-> 0, window |-> 2, for |-> 1] >>

MCOccurs(name, pattern) == <<name, pattern>> \in {<<"cpu", "cpu">>, <<"gpu", "gpu">>, <<"cpu", "temp">>}

(* Config documents. *)
Int1(n) == [type |-> "integer", int |-> n]
NoTable == [type |-> "absent"]
Table(keys) == [type |-> "table", keys |-> keys]
Raw(name, kind, sensor, op, threshold, clear, for, width) ==
  [name |-> name, kind |-> kind, sensor |-> sensor, reading |-> Unset, type |-> Unset,
   metric |-> Unset, op |-> op, threshold |-> threshold, clear |-> clear,
   for_samples |-> for, window_samples |-> width]
RawHot     == Raw("hot", "threshold", "temp", "gt", 1, 0, Unset, Unset)
RawMissing == Raw("gone", "missing", "gpu", Unset, Unset, Unset, 1, Unset)
Doc(seconds, entries) ==
  [readable |-> TRUE, syntax |-> TRUE, rulesOk |-> TRUE, sensors |-> NoTable,
   general |-> Table("interval_seconds" :> seconds), rules |-> entries]
Good == Doc(Int1(1), <<RawHot, RawMissing>>)
BadDocs ==
  {[Good EXCEPT !.readable = FALSE], [Good EXCEPT !.syntax = FALSE],
   [Good EXCEPT !.rulesOk = FALSE],
   Doc(Int1(1), <<RawHot, [RawMissing EXCEPT !.name = "hot"]>>)}
    \cup {Doc(Int1(1), <<r, RawMissing>>) :
            r \in {[RawHot EXCEPT !.name = Blank], [RawHot EXCEPT !.sensor = Unset],
                   [RawHot EXCEPT !.clear = 2], [RawHot EXCEPT !.threshold = NaN],
                   [RawHot EXCEPT !.for_samples = 0], [RawHot EXCEPT !.kind = Unset],
                   [RawHot EXCEPT !.op = Unset], [RawHot EXCEPT !.window_samples = 2],
                   Raw("rate", "rate", "cpu", "gt", 1, 0, 1, 1),
                   Raw("src", "source", "cpu", Unset, Unset, Unset, 1, Unset)}}
MCConfigFiles ==
  {<<>>} \cup {"given" :> d : d \in BadDocs}
    \cup {"given" :> Good, "config.toml" :> Doc(Int1(0), <<>>)}

(* Histories. *)
Line(form, instant, sample) == Fragment(form, instant, sample, TRUE)
Torn(instant, sample) == Fragment("garbage", instant, sample, FALSE)
Late ==
  << Line("json", 1, Hot), Line("json", 5, Hot), Line("foreign", 8, Cold),
     Line("json", 6, Hot), Torn(8, Cold), Line("json", 12, Hot) >>
Foreign ==
  << Line("python", 3, Python), Line("blank", 3, <<>>), Line("garbage", 6, <<>>),
     Line("oversized", 6, Cold), Line("python", 8, Python), Line("nonrecord", 9, <<>>) >>

(* Time arguments. *)
At1(form, n) == [form |-> form, at |-> n]
Display(patterns, type, top, limit) ==
  [match |-> patterns, type |-> type, top |-> top, limit |-> limit]
Out(exists, day, link) == [exists |-> exists, day |-> day, link |-> link]
Request(since, until, last, view, target) ==
  [since |-> since, until |-> until, last |-> last, show |-> view, out |-> target]
Secs(n) == <<[count |-> n, unit |-> "s"]>>
DayAnd2 == <<[count |-> 1, unit |-> "d"], [count |-> 2, unit |-> "s"]>>
All == Display({}, Unset, 1, 21)
New == Out(FALSE, NoDay, "none")
MCRequests ==
  { Request(Unset, Unset, DayAnd2, All, New),
    Request(At1("date", 1), At1("date", 1), Secs(1), Display({"gpu"}, Unset, 0, 11), Out(TRUE, NoDay, "none")),
    Request(At1("date", 0), At1("date", 2), Secs(1), Display({}, "temp", 0, 14), Out(TRUE, 1, "hard")),
    Request(At1("instant", 5), At1("local", 11), Secs(1), Display({}, Unset, 0, 20), Out(TRUE, 1, "path")),
    Request(At1("instant", 4), At1("local", 7), Secs(1), All, New),
    Request(Unset, Unset, Secs(1), Display({}, Unset, 1, 2), New),
    Request(At1("instant", 5), At1("instant", 5), Secs(1), All, New),
    Request(Unset, At1("bad", 0), Secs(1), All, New), Request(Unset, Unset, Secs(0), All, New),
    Request(Unset, Unset, Secs(100), All, New), Request(Unset, At1("instant", 2), Secs(9), All, New),
    Request(At1("instant", 6), At1("instant", 5), Secs(1), All, New) }

\* Incidents of either rule and of one that is gone; with an unordered record,
\* nothing recorded in the window, an event within it, and one after it.
MCIncidents ==
  {[rule |-> 1, evidence |-> e] : e \in {NoInstant, 0, 5}}
    \cup {[rule |-> 2, evidence |-> e] : e \in {5, 12}} \cup {[rule |-> 3, evidence |-> 0]}
MCDensity == [num |-> 2, den |-> 3]

MCInstants == {7, 12}
MCEarliest == -6
MCPolled == {Cold}
MCRecorded == MCSamples \cup {<<>>}
OfDay(history, zone, d) ==
  LET Here(f) == DayOf(f.ts, zone) = d IN SelectSeq(history, Here)
World(history, mine, yours, days) ==
  [data |-> [d \in Days |-> OfDay(history, mine, d)], zones |-> <<mine, yours>>, retention |-> days, clock |-> 7]
MCWorlds == {World(Late, 3, -1, 1), World(Foreign, -1, 3, 0)}
=============================================================================
