------------------------------ MODULE Reconcile ------------------------------
(***************************************************************************)
(* Closing incidents from a digest (reconcile_incidents.py): the digest of *)
(* a `report` run is read later, for an incident that may have recorded    *)
(* newer events meanwhile, and decides whether the incident recovered and  *)
(* whether the log can be relied on.                                       *)
(*                                                                         *)
(* One incident is enough: each is judged for itself.  An incident is the  *)
(* rule it is about and the instant of its newest recorded event, or       *)
(* NoInstant when its record cannot be ordered.                            *)
(***************************************************************************)
EXTENDS Report

CONSTANTS
  Incidents,      \* the open incidents explored: [rule, evidence]
  MaxAge,         \* DIGEST_MAX_AGE_SECONDS, 600 in the code
  FreshMultiple,  \* FRESHNESS_INTERVAL_MULTIPLE, 3
  Density,        \* GAP_DENSITY_THRESHOLD as a fraction [num, den], 1/10
  MaxSingleGap    \* SINGLE_GAP_MAX_SECONDS, 900

\* The instants a record is compared by are numbers, and so are the limits.
ASSUME ReconcileAssumption ==
  /\ \A incident \in Incidents : incident.evidence \in Int \cup {NoInstant}
  /\ MaxAge \in Nat /\ FreshMultiple \in Nat /\ MaxSingleGap \in Nat
  /\ Density.num \in Nat /\ Density.den \in Nat \ {0}

VARIABLE reconciled  \* what the script printed, NotYet, or Refused (exit 2)

NotYet  == [verdict |-> "none", health |-> "none"]
Refused == [verdict |-> "usage", health |-> "none"]

ReconcileInit == reconciled = NotYet

\* _check_freshness: the digest is of this wake, and the log was alive at the
\* end of its window.
Fresh(now) ==
  LET age == now - window.until
      lag == window.until - agg.last
  IN  /\ age \in 0 .. MaxAge * Second
      /\ agg.samples > 0
      /\ lag \in 0 .. interval * FreshMultiple * Second

Blind(gaps) == SumOf([n \in 1..Len(gaps) |-> Seconds(gaps[n])])

\* _window_seconds: whole seconds, like the lengths of the gaps.
WindowSeconds == WholeSeconds(window.until - window.since)

WithinDensity(seconds) == seconds * Density.den <= Density.num * WindowSeconds

\* Seeded fault: the gaps that were dropped to fit the size are not missed.
HealthOfShown(fresh) ==
  LET gaps == digest.shown.gaps IN
  IF /\ fresh
     /\ \A n \in 1..Len(gaps) : Seconds(gaps[n]) <= MaxSingleGap
     /\ WithinDensity(Blind(gaps))
    THEN "ok" ELSE "degraded"

\* _logger_health: what the listed gaps show, if all of them are listed.
Health(fresh) ==
  LET gaps == digest.shown.gaps IN
  IF /\ fresh
     /\ \A n \in 1..Len(gaps) : Seconds(gaps[n]) <= MaxSingleGap
     /\ WithinDensity(Blind(gaps))
     /\ Len(gaps) = agg.gapsTotal
    THEN "ok" ELSE "degraded"

OfRule(violations, rule) ==
  At(violations, {n \in 1..Len(violations) : violations[n].transition.rule = rule})

\* The latest transition listed for the rule wins, and a clear has to be newer
\* than all the incident recorded.
Judged(incident, fresh) ==
  LET mine == OfRule(digest.shown.violations, incident.rule) IN
  IF ~fresh \/ mine = <<>> THEN "indeterminate"
  ELSE IF Last(mine).transition.state = "fired" THEN "still-firing"
  ELSE IF incident.evidence = NoInstant THEN "indeterminate"
  ELSE IF Last(mine).ts <= incident.evidence THEN "indeterminate"
  ELSE "recovered"

\* run, on a saved digest, any time after the report; a window of less than a
\* second is refused.  A recovered incident is closed (open_incident.py --close).
Reconcile ==
  /\ command = "report" /\ pc = "done" /\ exit = SUCCESS
  /\ reconciled = NotYet
  /\ \E incident \in Incidents, now \in {t \in Instants : t >= clock} :
       reconciled' =
         IF WindowSeconds <= 0 THEN Refused
         ELSE [incident |-> incident, now |-> now,
               verdict |-> Judged(incident, Fresh(now)), health |-> Health(Fresh(now))]
  /\ UNCHANGED <<readerVars, replayVars, reportVars>>

-----------------------------------------------------------------------------

\* What the log says, whatever the caps and the size limit left of it.
Story(rule) == OfRule(At(derived, Passing(derived, filter, agg)), rule)

\* How long the log of the window is blind: the instants that lie in a hole.
\* What of it the whole seconds of the gaps may leave out is less than a second
\* of every hole.
BlindTime == Cardinality(UNION {h.from+1 .. h.to : h \in Holes})
LeftOut   == Cardinality(Holes) * (Second - 1)

\* A time of so many instants is not too much of the window.
Tolerable(instants) ==
  instants * Density.den <= Density.num * (window.until - window.since)

AliveAtTheEnd ==
  \E n \in 1..Len(seen) : window.until - Instant(n) <= interval * FreshMultiple * Second

\* An incident is closed only if the last thing the whole log of the window
\* says about its rule is a recovery, later than everything the incident has
\* recorded up to now, in a log that was alive at the end of a window that has
\* just passed; and a log is certified only if all its holes between samples,
\* listed or not, are as small and as few as the thresholds say, but for the
\* part of a second each may be longer than its whole seconds.  The digest is
\* older than the incident, and its lists were capped and cut
\* (reconcile_incidents.py: "the last shown match for a rule IS that rule's
\* latest transition").
VerdictsAreEarned ==
  /\ reconciled.verdict = "recovered" =>
       LET story == Story(reconciled.incident.rule) IN
       /\ story # <<>>
       /\ Last(story).transition.state = "cleared"
       /\ Last(story).ts > reconciled.incident.evidence
       /\ reconciled.now \in window.until .. window.until + MaxAge * Second
       /\ AliveAtTheEnd
  /\ reconciled.health = "ok" =>
       /\ \A h \in Holes : Extent(h) < (MaxSingleGap + 1) * Second
       /\ Tolerable(BlindTime - LeftOut)
       /\ AliveAtTheEnd
=============================================================================
