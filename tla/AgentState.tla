----------------------------- MODULE AgentState -------------------------------
(***************************************************************************)
(* The agent's durable state (ack_event.py, open_incident.py, _state.py):  *)
(* a spooled event is recorded in the journal and in an incident file, and *)
(* then acknowledged in the cursor and moved, by scripts that may die      *)
(* between any two disk writes.  The agent drains the spool in ascending   *)
(* order of seq after every restart, one event at a time.                  *)
(*                                                                         *)
(* An event is its seq, which is what its id is unique by.  Writes are     *)
(* atomic (write_text_atomic); a journal line is appended in one write.    *)
(* Times are left out: whether an incident is still snoozed is a choice.   *)
(***************************************************************************)
EXTENDS Integers, FiniteSets, Sequences

CONSTANTS
  Rules,       \* the rule names
  Slug,        \* the file name of a rule (slugify)
  Severities,  \* the severities a rule is configured with, by rank
  RingCap,     \* ACKED_IDS_CAP
  LineCap,     \* event lines an open incident file has room for
  MaxSeq,      \* bound: events explored
  MaxFaults,   \* bound: crashes and restored files explored
  None         \* no file

ASSUME SlugAssumption == DOMAIN Slug = Rules /\ None \notin Rules
ASSUME CapAssumption ==
  /\ RingCap \in Nat \ {0}
  /\ LineCap \in Nat \ {0}
  /\ DOMAIN Severities = Rules /\ \A r \in Rules : Severities[r] \subseteq Nat
  /\ MaxSeq \in Nat
  /\ MaxFaults \in Nat

VARIABLES
  events,   \* history: the spooled events, by seq
  pending,  \* spool/pending/*.json
  acked,    \* spool/acked/*.json
  last,     \* cursor.json: last_acked_seq
  ring,     \* cursor.json: acked_ids_recent
  journal,  \* the journal: <<action, seq>>
  noted,    \* the events noted in an incident without a new investigation
  open,     \* incidents/open/<slug>.md
  closed,   \* incidents/closed/<slug>.md, or <slug>-<seq>.md for seq > 0
  pc,       \* where the agent stands
  ev,       \* the event it processes
  restored, \* history: the acknowledged events put back into pending/
  faults    \* history: crashes and restored files so far

spool == <<pending, acked>>
cursor == <<last, ring>>
incidents == <<open, closed>>
vars == <<events, pending, acked, last, ring, journal, noted, open, closed, pc, ev, restored, faults>>

Slugs == {Slug[r] : r \in Rules}
Files == Slugs \X (0..MaxSeq)

\* Seeded fault: all events go to the incident of the first one.
FileOfFirst(s) == Slug[events[1].rule]

File(s) == Slug[events[s].rule]

Event == [rule : Rules, state : {"fired", "cleared"}, severity : Nat]

\* `seen` is a history field: every event the file ever counted.
Incident ==
  [rule : Rules, severity : Nat, status : {"open", "closed"},
   lines : Seq(1..MaxSeq), count : Nat, seen : SUBSET (1..MaxSeq)]

ASSUME NoneAssumption == None \notin Incident

Lower(a, b) == IF a < b THEN a ELSE b
Higher(a, b) == IF a < b THEN b ELSE a

\* The severity of an incident is raised, never lowered.
Ratchet(old, new) == Higher(old, new)

In(s, list) == \E n \in 1..Len(list) : list[n] = s

\* A list without its n oldest members.
DropOldest(list, n) == SubSeq(list, n + 1, Len(list))

\* Seeded fault: the trim spares not even the newest line.
TrimAll(lines, room) ==
  IF Len(lines) <= room THEN lines ELSE DropOldest(lines, Len(lines) - room + 1)

\* _trim_to_cap: over the cap, the oldest event lines go, one more of them to
\* pay for the marker, and never the newest.
Trim(lines, room) ==
  IF Len(lines) <= room THEN lines
  ELSE DropOldest(lines, Lower(Len(lines) - 1, Len(lines) - room + 1))

Goto(step) == pc' = step /\ UNCHANGED <<events, ev, faults>>

-----------------------------------------------------------------------------
(* The watcher, and the agent's dispatch (SKILL.md). *)

\* The watcher spools the next event.  A rule fires again after a restart; it
\* clears only after it fired (RuleEngine), under the severity it fired with.
LastOf(r) == {s \in 1..Len(events) : /\ events[s].rule = r
                                     /\ \A t \in s+1..Len(events) : events[t].rule # r}

Spooled(r, state, severity) ==
  /\ Len(events) < MaxSeq
  /\ state = "cleared" =>
       \E s \in LastOf(r) : events[s].state = "fired" /\ events[s].severity = severity
  /\ events' = Append(events, [rule |-> r, state |-> state, severity |-> severity])
  /\ pending' = pending \cup {Len(events) + 1}
  /\ UNCHANGED <<acked, cursor, journal, noted, incidents, pc, ev, faults>>

Lowest(s) == s \in pending /\ \A t \in pending : s <= t

\* Dedup against the cursor and the open incident first, then by state.
Take ==
  /\ pc = "idle"
  /\ \E s \in pending :
       /\ Lowest(s)
       /\ ev' = s
       /\ \/ In(s, ring) /\ pc' = "ack" /\ UNCHANGED noted
          \/ /\ ~In(s, ring) /\ events[s].state = "fired" /\ open[File(s)] # None
             /\ pc' = "ack" /\ noted' = noted \cup {s}
          \/ /\ ~In(s, ring)
             /\ pc' = IF events[s].state = "fired" THEN "open" ELSE "close"
             /\ UNCHANGED noted
  /\ UNCHANGED <<events, spool, cursor, journal, incidents, faults>>

-----------------------------------------------------------------------------
(* open_incident.py *)

\* The journal comes first; a benign event is recorded nowhere else.
OpenJournal ==
  /\ pc = "open"
  /\ journal' = journal \cup {<<"open", ev>>}
  /\ \E classification \in {"benign", "anomaly", "incident"} :
       Goto(IF classification = "benign" THEN "ack" ELSE "write")
  /\ UNCHANGED <<spool, cursor, noted, incidents>>

\* A new file, or the open one with the event appended, its count raised and
\* its severity never lowered; a file that has the event keeps its events.
OpenWrite ==
  /\ pc = "write"
  /\ LET f == File(ev)
         e == events[ev]
         old == open[f]
         new == IF old = None
                  THEN [rule |-> e.rule, severity |-> e.severity, status |-> "open",
                        lines |-> <<ev>>, count |-> 1, seen |-> {ev}]
                ELSE IF In(ev, old.lines)
                  THEN [old EXCEPT !.lines = Trim(@, LineCap)]
                ELSE [old EXCEPT !.severity = Ratchet(@, e.severity),
                                 !.lines = Trim(Append(@, ev), LineCap),
                                 !.count = @ + 1,
                                 !.seen = @ \cup {ev}]
     IN  open' = [open EXCEPT ![f] = new]
  /\ Goto("ack")
  /\ UNCHANGED <<spool, cursor, journal, noted, closed>>

\* Seeded fault: a close without an open incident is not journalled.
CloseJournalQuiet ==
  /\ pc = "close"
  /\ journal' = IF open[File(ev)] = None THEN journal ELSE journal \cup {<<"close", ev>>}
  /\ Goto(IF open[File(ev)] = None THEN "ack" ELSE "out")
  /\ UNCHANGED <<spool, cursor, noted, incidents>>

CloseJournal ==
  /\ pc = "close"
  /\ journal' = journal \cup {<<"close", ev>>}
  /\ Goto(IF open[File(ev)] = None THEN "ack" ELSE "out")
  /\ UNCHANGED <<spool, cursor, noted, incidents>>

\* Seeded fault: the closed file of an earlier incident is overwritten.
ClosedPathPlain(s) == <<File(s), 0>>

ClosedPath(s) == <<File(s), IF closed[<<File(s), 0>>] = None THEN 0 ELSE s>>

\* Seeded fault: the file is copied, and stays in open/.
CloseMoveCopies ==
  /\ pc = "out"
  /\ closed' = [closed EXCEPT ![ClosedPath(ev)] = open[File(ev)]]
  /\ Goto("edit")
  /\ UNCHANGED <<spool, cursor, journal, noted, open>>

\* Out of open/ first, by a rename.
CloseMove ==
  /\ pc = "out"
  /\ closed' = [closed EXCEPT ![ClosedPath(ev)] = open[File(ev)]]
  /\ open' = [open EXCEPT ![File(ev)] = None]
  /\ Goto("edit")
  /\ UNCHANGED <<spool, cursor, journal, noted>>

\* The path the move chose: the suffixed one is only used by this event.
MovedTo(s) == <<File(s), IF closed[<<File(s), s>>] = None THEN 0 ELSE s>>

\* Then the edit in closed/: status, the clearing event and its count.  The
\* closed header and the closing note take two lines.
CloseEdit ==
  /\ pc = "edit"
  /\ LET old == closed[MovedTo(ev)]
         new == [old EXCEPT !.status = "closed",
                            !.lines = Trim(Append(@, ev), LineCap - 2),
                            !.count = @ + 1,
                            !.seen = @ \cup {ev}]
     IN  closed' = [closed EXCEPT ![MovedTo(ev)] = new]
  /\ Goto("ack")
  /\ UNCHANGED <<spool, cursor, journal, noted, open>>

-----------------------------------------------------------------------------
(* ack_event.py *)

\* Seeded fault: a redelivered event is deleted instead of moved.
AckDedupedDrops ==
  /\ pc = "ack"
  /\ In(ev, ring) \/ ev \in acked
  /\ pending' = pending \ {ev}
  /\ Goto("idle")
  /\ UNCHANGED <<acked, cursor, journal, noted, incidents>>

\* Seeded fault: the interrupted move of an event in the ring is not resumed.
AckDedupedByFile ==
  /\ pc = "ack"
  /\ ev \in acked
  /\ pending' = pending \ {ev}
  /\ Goto("idle")
  /\ UNCHANGED <<acked, cursor, journal, noted, incidents>>

\* Already in the ring or in acked/: finish the interrupted move, or drop the
\* duplicate.
AckDeduped ==
  /\ pc = "ack"
  /\ In(ev, ring) \/ ev \in acked
  /\ pending' = pending \ {ev}
  /\ acked' = acked \cup {ev}
  /\ Goto("idle")
  /\ UNCHANGED <<cursor, journal, noted, incidents>>

\* Seeded fault: neither the ring nor acked/ is looked at.
AckJournalAlways ==
  /\ pc = "ack"
  /\ journal' = journal \cup {<<"ack", ev>>}
  /\ Goto("cursor")
  /\ UNCHANGED <<spool, cursor, noted, incidents>>

AckJournal ==
  /\ pc = "ack"
  /\ ~In(ev, ring) /\ ev \notin acked
  /\ journal' = journal \cup {<<"ack", ev>>}
  /\ Goto("cursor")
  /\ UNCHANGED <<spool, cursor, noted, incidents>>

\* The high-water mark never goes back; the ring drops its oldest members.
AckCursor ==
  /\ pc = "cursor"
  /\ last' = Higher(ev, last)
  /\ ring' = LET grown == Append(ring, ev)
             IN  DropOldest(grown, Higher(0, Len(grown) - RingCap))
  /\ Goto("move")
  /\ UNCHANGED <<spool, journal, noted, incidents>>

AckMove ==
  /\ pc = "move"
  /\ pending' = pending \ {ev}
  /\ acked' = acked \cup {ev}
  /\ Goto("idle")
  /\ UNCHANGED <<cursor, journal, noted, incidents>>

-----------------------------------------------------------------------------
(* The environment. *)

\* The agent or its script dies: what is on disk stays.
Crash ==
  /\ pc # "idle" /\ faults < MaxFaults
  /\ pc' = "idle"
  /\ faults' = faults + 1
  /\ UNCHANGED <<events, spool, cursor, journal, noted, incidents, ev>>

\* Someone puts a copy of an acknowledged file back into pending/.
Restore ==
  /\ faults < MaxFaults
  /\ \E s \in acked : pending' = pending \cup {s} /\ restored' = restored \cup {s}
  /\ faults' = faults + 1
  /\ UNCHANGED <<events, acked, cursor, journal, noted, incidents, pc, ev>>

-----------------------------------------------------------------------------

Init ==
  /\ events = <<>>
  /\ pending = {} /\ acked = {}
  /\ last = 0 /\ ring = <<>>
  /\ journal = {} /\ noted = {}
  /\ open = [f \in Slugs |-> None]
  /\ closed = [f \in Files |-> None]
  /\ pc = "idle" /\ ev = 0
  /\ restored = {}
  /\ faults = 0

Agent ==
  \/ Take
  \/ OpenJournal \/ OpenWrite
  \/ CloseJournal \/ CloseMove \/ CloseEdit
  \/ AckDeduped \/ AckJournal \/ AckCursor \/ AckMove

Watcher ==
  \E r \in Rules, state \in {"fired", "cleared"} : \E severity \in Severities[r] :
    Spooled(r, state, severity)

Next ==
  \/ (Agent \/ Watcher \/ Crash) /\ UNCHANGED restored
  \/ Restore

Spec == Init /\ [][Next]_vars

\* The agent is started again after a crash and gets on with the spool.
FairSpec == Spec /\ WF_vars(Agent /\ UNCHANGED restored)
-----------------------------------------------------------------------------

Steps == {"idle", "open", "write", "close", "out", "edit", "ack", "cursor", "move"}

\* The type invariant.
TypeOK ==
  /\ events \in Seq(Event) /\ Len(events) <= MaxSeq
  /\ pending \subseteq 1..Len(events)
  /\ acked \subseteq 1..Len(events)
  /\ last \in 0..MaxSeq
  /\ ring \in Seq(1..MaxSeq) /\ Len(ring) <= RingCap
  /\ journal \subseteq {"open", "close", "ack"} \X (1..MaxSeq)
  /\ noted \subseteq 1..MaxSeq
  /\ open \in [Slugs -> Incident \cup {None}]
  /\ closed \in [Files -> Incident \cup {None}]
  /\ pc \in Steps
  /\ ev \in 0..Len(events)
  /\ restored \subseteq 1..MaxSeq
  /\ faults \in Nat
  /\ pc # "idle" => ev # 0

OpenFiles == {open[f] : f \in Slugs} \ {None}
AllFiles  == OpenFiles \cup ({closed[f] : f \in Files} \ {None})

\* At-least-once: no event ever leaves the spool, whatever dies when.
NothingLost == pending \cup acked = 1..Len(events)

\* Record before acknowledge: what the cursor or acked/ shows as done is in
\* the journal under what was done about it, or noted in its open incident;
\* and what an incident file shows is in the journal.
Journaled(s) == <<"open", s>> \in journal \/ <<"close", s>> \in journal

RecordedFirst ==
  /\ \A s \in 1..MaxSeq : In(s, ring) \/ s \in acked => Journaled(s) \/ s \in noted
  /\ \A i \in AllFiles : \A s \in i.seen : Journaled(s)

\* A redelivered event never enters the cursor's ring twice, and acked/ never
\* runs ahead of the high-water mark.
AckedOnce ==
  /\ \A m, n \in 1..Len(ring) : ring[m] = ring[n] => m = n
  /\ \A s \in acked : s <= last

\* The count of an incident is the number of distinct events it was given,
\* although its oldest lines are trimmed and events are redelivered: the count
\* is what raises the tier of an escalation (--persistence-events).  Only an
\* event put back after its line was trimmed is counted again.
\* The severity of an open incident is the highest of its fired events': the
\* combination tier counts open critical files by it.
SeverityOf(i) == {events[s].severity : s \in {t \in i.seen : events[t].state = "fired"}}

IncidentTellsItsEvents ==
  /\ \A i \in AllFiles : i.seen \cap restored = {} => i.count = Cardinality(i.seen)
  /\ \A i \in OpenFiles : i.severity \in SeverityOf(i) /\ \A v \in SeverityOf(i) : v <= i.severity

\* No phantom: once the cleared event that ends a rule's episode is
\* acknowledged, the rule has no incident in open/, unless someone put an
\* older event back.
NoPhantom ==
  \A r \in Rules : \A s \in LastOf(r) :
    s \in acked /\ events[s].state = "cleared" /\ open[Slug[r]] # None
      => open[Slug[r]].seen \cap restored # {}

\* "Two distinct rules never collide into one incident": an incident only ever
\* holds events of its own rule (_state.py, slugify).
OneRulePerIncident == \A i \in AllFiles : \A s \in i.seen : events[s].rule = i.rule

\* The high-water mark never goes back, and no file of closed/ is lost or
\* overwritten by another incident, unless events were put back: the one that
\* made it, once the ring has forgotten it, or an older one of the incident that
\* replaces it (CloseMove; open_incident.py takes the suffixed path as it finds
\* it).
NothingForgotten ==
  [][/\ last' >= last
     /\ \A f \in Files : closed[f] # None =>
          /\ closed'[f] # None
          /\ \/ closed[f].seen \subseteq closed'[f].seen
             \/ f[2] \in restored
             \/ closed'[f].seen \cap restored # {}]_vars

\* Every spooled event is acknowledged at last.
EventuallyAcked == \A s \in 1..MaxSeq : s \in pending ~> s \notin pending
=============================================================================
