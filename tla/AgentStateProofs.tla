-------------------------- MODULE AgentStateProofs ---------------------------
(***************************************************************************)
(* Proofs about the agent's durable state, for every set of rules, every   *)
(* slug, every cap and every number of events and crashes.                 *)
(***************************************************************************)
EXTENDS AgentState, FiniteSetTheorems, TLAPS

\* Where the agent stands says what it has already written.
StepsAgree ==
  /\ pc \in {"ack", "cursor", "move"} => Journaled(ev) \/ ev \in noted
  /\ pc \in {"write", "out", "edit"} => Journaled(ev)
  /\ pc = "out" => open[File(ev)] # None
  /\ pc = "edit" => closed[MovedTo(ev)] # None
  /\ \A f \in Slugs, s \in 1..MaxSeq : closed[<<f, s>>] # None => closed[<<f, 0>>] # None

\* The inductive invariant.
IInv == TypeOK /\ NothingLost /\ RecordedFirst /\ StepsAgree

\* An event has a slug, and a path in closed/.
LEMMA FileTyped ==
  ASSUME TypeOK, pc # "idle"
  PROVE  /\ ev \in 1..Len(events) /\ ev \in 1..MaxSeq
         /\ events[ev] \in Event
         /\ File(ev) \in Slugs
         /\ ClosedPath(ev) \in Files /\ MovedTo(ev) \in Files
<1>1. ev \in 1..Len(events) /\ ev \in 1..MaxSeq
  BY CapAssumption DEF TypeOK
<1>2. events[ev] \in Event
  BY <1>1 DEF TypeOK
<1>3. File(ev) \in Slugs
  BY <1>2 DEF File, Slugs, Event
<1>4. 0 \in 0..MaxSeq /\ ev \in 0..MaxSeq
  BY <1>1, CapAssumption
<1>5. ClosedPath(ev) \in {<<File(ev), 0>>, <<File(ev), ev>>}
  BY DEF ClosedPath
<1>6. MovedTo(ev) \in {<<File(ev), 0>>, <<File(ev), ev>>}
  BY DEF MovedTo
<1>7. <<File(ev), 0>> \in Files /\ <<File(ev), ev>> \in Files
  BY <1>3, <1>4, Zenon DEF Files
<1> QED BY <1>1, <1>2, <1>3, <1>5, <1>6, <1>7

\* Dropping from a list, or trimming one, leaves a list of its members.
LEMMA DropTyped ==
  ASSUME NEW S, NEW list \in Seq(S), NEW n \in 0..Len(list)
  PROVE  /\ DropOldest(list, n) \in Seq(S)
         /\ Len(DropOldest(list, n)) = Len(list) - n
         /\ \A x : In(x, DropOldest(list, n)) => In(x, list)
BY SMTT(30) DEF DropOldest, In

LEMMA AppendTyped ==
  ASSUME NEW S, NEW list \in Seq(S), NEW x \in S
  PROVE  /\ Append(list, x) \in Seq(S)
         /\ Len(Append(list, x)) = Len(list) + 1
         /\ \A y : In(y, Append(list, x)) => In(y, list) \/ y = x
<1>1. Append(list, x) \in Seq(S) /\ Len(Append(list, x)) = Len(list) + 1
  OBVIOUS
<1>2. \A y : In(y, Append(list, x)) => In(y, list) \/ y = x
  BY DEF In
<1> QED BY <1>1, <1>2

LEMMA TrimTyped ==
  ASSUME NEW S, NEW lines \in Seq(S), Len(lines) # 0, NEW room \in Int
  PROVE  Trim(lines, room) \in Seq(S)
<1>1. Lower(Len(lines) - 1, Len(lines) - room + 1) \in 0..Len(lines) \/ Len(lines) <= room
  BY DEF Lower
<1> QED BY <1>1, DropTyped DEF Trim
-----------------------------------------------------------------------------
(* Type correctness. *)

\* The edit of a close leaves an incident where the move put it.
LEMMA EditTyped ==
  ASSUME IInv, CloseEdit
  PROVE  \E new \in Incident : /\ closed' = [closed EXCEPT ![MovedTo(ev)] = new]
                               /\ closed' \in [Files -> Incident \cup {None}]
<1> USE CapAssumption
<1> DEFINE old == closed[MovedTo(ev)]
           new == [old EXCEPT !.status = "closed",
                              !.lines = Trim(Append(@, ev), LineCap - 2),
                              !.count = @ + 1,
                              !.seen = @ \cup {ev}]
<1>1. ev \in 1..MaxSeq /\ MovedTo(ev) \in Files
  BY FileTyped DEF CloseEdit, IInv
<1>2. old \in Incident
  BY <1>1 DEF CloseEdit, IInv, TypeOK, StepsAgree
<1>3. Append(old.lines, ev) \in Seq(1..MaxSeq) /\ Len(Append(old.lines, ev)) # 0
  <2>1. old.lines \in Seq(1..MaxSeq)
    BY <1>2 DEF Incident
  <2> HIDE DEF old
  <2> QED BY <1>1, <2>1, AppendTyped
<1>4. Trim(Append(old.lines, ev), LineCap - 2) \in Seq(1..MaxSeq)
  BY <1>3, LineCap - 2 \in Int, TrimTyped
<1>5. old.seen \cup {ev} \in SUBSET (1..MaxSeq) /\ old.count + 1 \in Nat
  BY <1>1, <1>2 DEF Incident
<1>6. new \in Incident
  BY <1>2, <1>4, <1>5 DEF Incident
<1>7. closed' = [closed EXCEPT ![MovedTo(ev)] = new]
  BY DEF CloseEdit
<1> HIDE DEF new
<1>8. closed' \in [Files -> Incident \cup {None}]
  BY <1>6, <1>7 DEF IInv, TypeOK
<1> QED BY <1>6, <1>7, <1>8

LEMMA TypeStep ==
  ASSUME IInv, [Next]_vars
  PROVE  TypeOK'
<1> USE CapAssumption
<1> USE DEF IInv, TypeOK, spool, cursor, incidents, Goto, Steps
<1>0. restored' \subseteq 1..MaxSeq /\ faults' \in Nat
  <2>1. CASE Restore
    <3>1. acked \subseteq 1..MaxSeq
      OBVIOUS
    <3> QED BY <2>1, <3>1 DEF Restore
  <2>2. CASE UNCHANGED restored /\ faults' \in {faults, faults + 1}
    BY <2>2
  <2> QED BY <2>1, <2>2 DEF Next, Agent, Watcher, Spooled, Take, OpenJournal, OpenWrite, CloseJournal,
                            CloseMove, CloseEdit, AckDeduped, AckJournal, AckCursor, AckMove, Crash, vars
<1> USE <1>0
<1>1. CASE Watcher
  <2> SUFFICES ASSUME NEW r \in Rules, NEW state \in {"fired", "cleared"}, NEW severity \in Severities[r],
                      Spooled(r, state, severity)
               PROVE  TypeOK'
    BY <1>1 DEF Watcher
  <2>1. [rule |-> r, state |-> state, severity |-> severity] \in Event
    BY DEF Event
  <2>2. events' \in Seq(Event) /\ Len(events') = Len(events) + 1 /\ Len(events') <= MaxSeq
    BY <2>1 DEF Spooled
  <2>a. pending' = pending \cup {Len(events) + 1} /\ acked' = acked
    BY DEF Spooled
  <2>3. pending' \subseteq 1..Len(events') /\ acked' \subseteq 1..Len(events')
    <3> DEFINE m == Len(events)
               n == Len(events')
    <3>1. m \in Nat /\ n = m + 1 /\ pending \subseteq 1..m /\ acked \subseteq 1..m
      BY <2>2
    <3> HIDE DEF m, n
    <3>2. m + 1 \in 1..n /\ 1..m \subseteq 1..n
      BY <3>1
    <3> QED BY <2>a, <3>1, <3>2 DEF m, n
  <2>4. ev' \in 0..Len(events') /\ (pc' # "idle" => ev' # 0)
    BY <2>2 DEF Spooled
  <2> QED BY <2>2, <2>3, <2>4 DEF Spooled
<1>2. CASE Take
  <2>1. /\ ev' \in pending /\ pc' \in {"ack", "open", "close"}
        /\ noted' \in {noted, noted \cup {ev'}}
        /\ UNCHANGED <<events, pending, acked, last, ring, journal, open, closed>>
    BY <1>2 DEF Take, Lowest
  <2>2. ev' \in 1..Len(events) /\ ev' \in 1..MaxSeq
    BY <2>1
  <2> QED BY <2>1, <2>2
<1>3. CASE OpenJournal \/ CloseJournal \/ AckJournal
  <2>1. ev \in 1..MaxSeq
    BY <1>3, FileTyped DEF OpenJournal, CloseJournal, AckJournal
  <2>2. journal' \subseteq {"open", "close", "ack"} \X (1..MaxSeq)
    BY <1>3, <2>1 DEF OpenJournal, CloseJournal, AckJournal
  <2>3. pc' \in Steps /\ pc # "idle"
    BY <1>3 DEF OpenJournal, CloseJournal, AckJournal
  <2> QED BY <1>3, <2>2, <2>3 DEF OpenJournal, CloseJournal, AckJournal
<1>4. CASE OpenWrite
  <2> DEFINE f == File(ev)
             e == events[ev]
             old == open[f]
  <2>1. /\ ev \in 1..MaxSeq /\ e \in Event /\ f \in Slugs /\ old \in Incident \cup {None}
    BY <1>4, FileTyped DEF OpenWrite
  <2>2. \E new \in Incident : open' = [open EXCEPT ![f] = new]
    <3> DEFINE n0 == [rule |-> e.rule, severity |-> e.severity, status |-> "open",
                      lines |-> <<ev>>, count |-> 1, seen |-> {ev}]
               n1 == [old EXCEPT !.lines = Trim(@, LineCap)]
               n2 == [old EXCEPT !.severity = Ratchet(@, e.severity),
                                 !.lines = Trim(Append(@, ev), LineCap),
                                 !.count = @ + 1,
                                 !.seen = @ \cup {ev}]
    <3>1. n0 \in Incident
      BY <2>1 DEF Incident, Event
    <3>2. ASSUME old # None, In(ev, old.lines) PROVE n1 \in Incident
      <4>1. old \in Incident /\ old.lines \in Seq(1..MaxSeq) /\ Len(old.lines) # 0
        BY <2>1, <3>2, SMTT(30) DEF Incident, In
      <4>2. Trim(old.lines, LineCap) \in Seq(1..MaxSeq)
        BY <4>1, LineCap \in Int, TrimTyped
      <4> QED BY <4>1, <4>2 DEF Incident
    <3>3. ASSUME old # None PROVE n2 \in Incident
      <4>1. old \in Incident /\ old.lines \in Seq(1..MaxSeq)
        BY <2>1, <3>3 DEF Incident
      <4>2. Append(old.lines, ev) \in Seq(1..MaxSeq) /\ Len(Append(old.lines, ev)) # 0
        BY <2>1, <4>1, AppendTyped
      <4>3. Trim(Append(old.lines, ev), LineCap) \in Seq(1..MaxSeq)
        BY <4>2, LineCap \in Int, TrimTyped
      <4>4. Ratchet(old.severity, e.severity) \in Nat
        BY <2>1, <4>1 DEF Ratchet, Higher, Incident, Event
      <4>5. old.seen \cup {ev} \in SUBSET (1..MaxSeq) /\ old.count + 1 \in Nat
        BY <2>1, <4>1 DEF Incident
      <4> QED BY <4>1, <4>3, <4>4, <4>5 DEF Incident
    <3>4. open' = [open EXCEPT ![f] = IF old = None THEN n0 ELSE IF In(ev, old.lines) THEN n1 ELSE n2]
      BY <1>4 DEF OpenWrite
    <3> HIDE DEF n0, n1, n2
    <3> QED BY <3>1, <3>2, <3>3, <3>4
  <2>3. open' \in [Slugs -> Incident \cup {None}]
    BY <2>1, <2>2
  <2> QED BY <1>4, <2>3 DEF OpenWrite
<1>5. CASE CloseMove
  <2>1. File(ev) \in Slugs /\ ClosedPath(ev) \in Files
    BY <1>5, FileTyped DEF CloseMove
  <2>2. open[File(ev)] \in Incident \cup {None}
    BY <2>1
  <2>3. closed' \in [Files -> Incident \cup {None}] /\ open' \in [Slugs -> Incident \cup {None}]
    BY <1>5, <2>1, <2>2 DEF CloseMove
  <2> QED BY <1>5, <2>3 DEF CloseMove
<1>6. CASE CloseEdit
  <2>1. closed' \in [Files -> Incident \cup {None}]
    BY <1>6, EditTyped
  <2> QED BY <1>6, <2>1 DEF CloseEdit
<1>7. CASE AckDeduped \/ AckMove
  <2>1. ev \in 1..Len(events)
    BY <1>7, FileTyped DEF AckDeduped, AckMove
  <2> QED BY <1>7, <2>1 DEF AckDeduped, AckMove
<1>8. CASE AckCursor
  <2> DEFINE grown == Append(ring, ev)
             n == Higher(0, Len(grown) - RingCap)
  <2>1. ev \in 1..MaxSeq
    BY <1>8, FileTyped DEF AckCursor
  <2>2. grown \in Seq(1..MaxSeq) /\ Len(grown) = Len(ring) + 1
    BY <2>1
  <2>3. n \in 0..Len(grown) /\ Len(grown) - n <= RingCap
    BY <2>2 DEF Higher
  <2>4. ring' = DropOldest(grown, n)
    BY <1>8 DEF AckCursor
  <2> HIDE DEF grown, n
  <2>5. ring' \in Seq(1..MaxSeq) /\ Len(ring') <= RingCap
    BY <2>2, <2>3, <2>4, DropTyped
  <2>6. last' \in 0..MaxSeq
    BY <1>8, <2>1 DEF AckCursor, Higher
  <2> QED BY <1>8, <2>5, <2>6 DEF AckCursor
<1>9. CASE Crash \/ Restore
  BY <1>9 DEF Crash, Restore
<1>10. CASE UNCHANGED vars
  BY <1>10 DEF vars
<1> QED BY <1>1, <1>2, <1>3, <1>4, <1>5, <1>6, <1>7, <1>8, <1>9, <1>10 DEF Next, Agent
-----------------------------------------------------------------------------
(* The spool and the journal. *)

\* No step takes an event out of the spool.
LEMMA SpoolStep ==
  ASSUME IInv, [Next]_vars
  PROVE  NothingLost'
<1> USE DEF IInv, NothingLost, spool, Goto
<1>1. CASE Watcher
  <2>1. PICK e : events' = Append(events, e) /\ pending' = pending \cup {Len(events) + 1} /\ acked' = acked
    BY <1>1 DEF Watcher, Spooled
  <2>2. Len(events') = Len(events) + 1 /\ Len(events) \in Nat
    BY <2>1 DEF TypeOK
  <2>3. 1..Len(events') = (1..Len(events)) \cup {Len(events) + 1}
    BY <2>2
  <2> QED BY <2>1, <2>3
<1>2. CASE AckDeduped \/ AckMove
  <2>1. ev \in 1..Len(events)
    BY <1>2, FileTyped DEF AckDeduped, AckMove
  <2>2. pending' \cup acked' = pending \cup acked /\ events' = events
    BY <1>2, <2>1 DEF AckDeduped, AckMove
  <2> QED BY <2>2
<1>3. CASE Restore
  <2>1. pending' \cup acked' = pending \cup acked /\ events' = events
    BY <1>3 DEF Restore
  <2> QED BY <2>1
<1>4. CASE Take \/ OpenJournal \/ OpenWrite \/ CloseJournal \/ CloseMove \/ CloseEdit
           \/ AckJournal \/ AckCursor \/ Crash \/ UNCHANGED vars
  <2>1. UNCHANGED <<events, pending, acked>>
    BY <1>4 DEF Take, OpenJournal, OpenWrite, CloseJournal, CloseMove, CloseEdit, AckJournal,
                AckCursor, Crash, vars
  <2> QED BY <2>1
<1> QED BY <1>1, <1>2, <1>3, <1>4 DEF Next, Agent

\* The journal and the notes only grow.
LEMMA JournalGrows ==
  ASSUME [Next]_vars
  PROVE  journal \subseteq journal' /\ noted \subseteq noted'
BY DEF Next, Agent, Watcher, Spooled, Take, OpenJournal, OpenWrite, CloseJournal, CloseMove, CloseEdit,
       AckDeduped, AckJournal, AckCursor, AckMove, Crash, Restore, vars

\* What the cursor and acked/ gain in a step is the event at hand.
LEMMA AckedGains ==
  ASSUME IInv, [Next]_vars, NEW s \in 1..MaxSeq, In(s, ring') \/ s \in acked'
  PROVE  In(s, ring) \/ s \in acked \/ (s = ev /\ pc \in {"ack", "cursor", "move"})
<1> USE DEF spool, cursor
<1>1. CASE AckCursor
  <2>1. ev \in 1..MaxSeq /\ ring \in Seq(1..MaxSeq) /\ RingCap \in Nat
    BY <1>1, FileTyped, CapAssumption DEF AckCursor, IInv, TypeOK
  <2> DEFINE grown == Append(ring, ev)
             n == Higher(0, Len(grown) - RingCap)
  <2>2. grown \in Seq(1..MaxSeq) /\ (In(s, grown) => In(s, ring) \/ s = ev)
    BY <2>1, AppendTyped
  <2>3. n \in 0..Len(grown)
    BY <2>1, <2>2 DEF Higher
  <2>4. ring' = DropOldest(grown, n) /\ acked' = acked
    BY <1>1 DEF AckCursor
  <2> HIDE DEF grown, n
  <2>5. In(s, ring') => In(s, grown)
    BY <2>2, <2>3, <2>4, DropTyped
  <2> QED BY <1>1, <2>2, <2>4, <2>5 DEF AckCursor
<1>2. CASE AckDeduped \/ AckMove
  BY <1>2 DEF AckDeduped, AckMove
<1>3. CASE ~AckCursor /\ ~AckDeduped /\ ~AckMove
  <2>1. UNCHANGED <<ring, acked>>
    BY <1>3 DEF Next, Agent, Watcher, Spooled, Take, OpenJournal, OpenWrite, CloseJournal, CloseMove,
                CloseEdit, AckJournal, Crash, Restore, vars
  <2> QED BY <2>1
<1> QED BY <1>1, <1>2, <1>3

\* A write opens the file with the event, or leaves in it what was there and,
\* unless it was, the event.
LEMMA WriteAdds ==
  ASSUME IInv, OpenWrite
  PROVE  LET old == open[File(ev)] IN
         \E new : /\ open' = [open EXCEPT ![File(ev)] = new]
                 /\ \/ old = None /\ new.seen = {ev} /\ new.rule = events[ev].rule
                    \/ /\ old # None /\ new.seen \in {old.seen, old.seen \cup {ev}}
                       /\ new.rule = old.rule
<1> DEFINE old == open[File(ev)]
           e == events[ev]
           n0 == [rule |-> e.rule, severity |-> e.severity, status |-> "open",
                  lines |-> <<ev>>, count |-> 1, seen |-> {ev}]
           n1 == [old EXCEPT !.lines = Trim(@, LineCap)]
           n2 == [old EXCEPT !.severity = Ratchet(@, e.severity),
                             !.lines = Trim(Append(@, ev), LineCap),
                             !.count = @ + 1,
                             !.seen = @ \cup {ev}]
<1>1. open' = [open EXCEPT ![File(ev)] = IF old = None THEN n0 ELSE IF In(ev, old.lines) THEN n1 ELSE n2]
  BY DEF OpenWrite
<1>2. old # None => old \in Incident
  BY FileTyped DEF OpenWrite, IInv, TypeOK
<1>3. /\ n0.seen = {ev} /\ n0.rule = e.rule
      /\ old # None => /\ n1.seen = old.seen /\ n2.seen = old.seen \cup {ev}
                       /\ n1.rule = old.rule /\ n2.rule = old.rule
  BY <1>2 DEF Incident
<1> HIDE DEF n0, n1, n2, old
<1>4. \E new : /\ open' = [open EXCEPT ![File(ev)] = new]
              /\ \/ old = None /\ new.seen = {ev} /\ new.rule = events[ev].rule
                 \/ /\ old # None /\ new.seen \in {old.seen, old.seen \cup {ev}}
                    /\ new.rule = old.rule
  <2> WITNESS IF old = None THEN n0 ELSE IF In(ev, old.lines) THEN n1 ELSE n2
  <2> QED BY <1>1, <1>3
<1> QED BY <1>4 DEF old

\* What the incident files gain in a step is the event at hand.
LEMMA FilesGain ==
  ASSUME IInv, [Next]_vars, NEW i \in AllFiles', NEW s \in i.seen
  PROVE  (\E j \in AllFiles : s \in j.seen) \/ (s = ev /\ pc \in {"write", "edit"})
<1> USE DEF incidents, AllFiles, OpenFiles
<1>1. CASE OpenWrite
  <2> DEFINE old == open[File(ev)]
  <2>1. \E new : /\ open' = [open EXCEPT ![File(ev)] = new]
                 /\ new.seen = {ev} \/ (old # None /\ new.seen \in {old.seen, old.seen \cup {ev}})
    BY <1>1, WriteAdds
  <2>2. closed' = closed /\ pc = "write" /\ open \in [Slugs -> Incident \cup {None}] /\ File(ev) \in Slugs
    BY <1>1, FileTyped DEF OpenWrite, IInv, TypeOK
  <2> QED BY <2>1, <2>2
<1>2. CASE CloseMove
  <2>1. /\ open' = [open EXCEPT ![File(ev)] = None]
        /\ closed' = [closed EXCEPT ![ClosedPath(ev)] = open[File(ev)]]
        /\ File(ev) \in Slugs
    BY <1>2, FileTyped DEF CloseMove, IInv
  <2>2. open \in [Slugs -> Incident \cup {None}] /\ closed \in [Files -> Incident \cup {None}]
    BY DEF IInv, TypeOK
  <2> QED BY <2>1, <2>2
<1>3. CASE CloseEdit
  <2> DEFINE old == closed[MovedTo(ev)]
             new == [old EXCEPT !.status = "closed",
                                !.lines = Trim(Append(@, ev), LineCap - 2),
                                !.count = @ + 1,
                                !.seen = @ \cup {ev}]
  <2>1. /\ closed' = [closed EXCEPT ![MovedTo(ev)] = new] /\ open' = open
        /\ MovedTo(ev) \in Files /\ pc = "edit"
    BY <1>3, FileTyped DEF CloseEdit, IInv
  <2>2. old \in Incident /\ old # None
    BY <2>1 DEF IInv, TypeOK, StepsAgree
  <2>3. new.seen = old.seen \cup {ev}
    BY <2>2 DEF Incident
  <2>4. closed \in [Files -> Incident \cup {None}]
    BY DEF IInv, TypeOK
  <2> HIDE DEF new
  <2> QED BY <2>1, <2>2, <2>3, <2>4
<1>4. CASE ~OpenWrite /\ ~CloseMove /\ ~CloseEdit
  <2>1. UNCHANGED <<open, closed>>
    BY <1>4 DEF Next, Agent, Watcher, Spooled, Take, OpenJournal, CloseJournal, AckDeduped, AckJournal,
                AckCursor, AckMove, Crash, Restore, vars
  <2> QED BY <2>1
<1> QED BY <1>1, <1>2, <1>3, <1>4

\* A step keeps the record ahead of the acknowledgment.
LEMMA RecordedStep ==
  ASSUME IInv, [Next]_vars
  PROVE  RecordedFirst'
<1>1. \A s : (Journaled(s) => Journaled(s)') /\ (s \in noted => s \in noted')
  BY JournalGrows DEF Journaled
<1>2. ASSUME NEW s \in 1..MaxSeq, In(s, ring') \/ s \in acked'
      PROVE  Journaled(s)' \/ s \in noted'
  BY <1>1, <1>2, AckedGains DEF IInv, RecordedFirst, StepsAgree
<1>3. ASSUME NEW i \in AllFiles', NEW s \in i.seen
      PROVE  Journaled(s)'
  BY <1>1, FilesGain DEF IInv, RecordedFirst, StepsAgree
<1> QED BY <1>2, <1>3 DEF RecordedFirst

\* A step keeps what the agent's position says.
LEMMA AgreeStep ==
  ASSUME IInv, [Next]_vars
  PROVE  StepsAgree'
<1> USE DEF spool, cursor, incidents, Goto
<1>1. \A s : (Journaled(s) => Journaled(s)') /\ (s \in noted => s \in noted')
  BY JournalGrows DEF Journaled
<1>2. open \in [Slugs -> Incident \cup {None}] /\ closed \in [Files -> Incident \cup {None}]
  BY DEF IInv, TypeOK
<1>3. CASE Watcher
  <2>1. PICK e : events' = Append(events, e) /\ UNCHANGED <<journal, noted, open, closed, pc, ev>>
    BY <1>3 DEF Watcher, Spooled
  <2>2. pc # "idle" => events'[ev] = events[ev]
    BY <2>1, FileTyped DEF IInv, TypeOK
  <2> QED BY <2>1, <2>2 DEF IInv, StepsAgree, Journaled, File, MovedTo
<1>4. CASE Take
  <2>1. PICK s \in pending :
          /\ ev' = s
          /\ \/ In(s, ring) /\ pc' = "ack"
             \/ pc' = "ack" /\ s \in noted'
             \/ pc' \in {"open", "close"}
    BY <1>4 DEF Take, Lowest
  <2>2. s \in 1..MaxSeq /\ UNCHANGED <<journal, open, closed>>
    BY <1>4, CapAssumption DEF Take, IInv, TypeOK
  <2>3. pc' = "ack" => Journaled(ev)' \/ ev' \in noted'
    BY <1>1, <2>1, <2>2 DEF IInv, RecordedFirst
  <2>4. pc' \in {"ack", "open", "close"}
    BY <2>1
  <2> QED BY <2>2, <2>3, <2>4 DEF IInv, StepsAgree
<1>5. CASE OpenJournal \/ CloseJournal
  <2>1. /\ UNCHANGED <<events, open, closed, ev>>
        /\ pc' \in {"ack", "write", "out"}
        /\ pc' = "out" => open[File(ev)] # None
        /\ <<"open", ev>> \in journal' \/ <<"close", ev>> \in journal'
    BY <1>5 DEF OpenJournal, CloseJournal
  <2> QED BY <2>1 DEF IInv, StepsAgree, Journaled, File
<1>6. CASE OpenWrite
  <2>1. pc = "write" /\ pc' = "ack" /\ UNCHANGED <<closed, journal, noted, ev>>
    BY <1>6 DEF OpenWrite
  <2> QED BY <2>1 DEF IInv, StepsAgree, Journaled
<1>7. CASE CloseMove
  <2>1. /\ pc = "out" /\ pc' = "edit" /\ UNCHANGED <<events, journal, noted, ev>>
        /\ closed' = [closed EXCEPT ![ClosedPath(ev)] = open[File(ev)]]
    BY <1>7 DEF CloseMove
  <2> DEFINE plain == <<File(ev), 0>>
             own   == <<File(ev), ev>>
  <2>2. /\ ev \in 1..MaxSeq /\ File(ev) \in Slugs
        /\ plain \in Files /\ own \in Files /\ plain # own
        /\ open[File(ev)] # None
    <3>1. ev \in 1..MaxSeq /\ File(ev) \in Slugs /\ open[File(ev)] # None
      BY <2>1, FileTyped DEF IInv, StepsAgree
    <3>2. ev # 0 /\ 0 \in 0..MaxSeq /\ ev \in 0..MaxSeq
      BY <3>1, CapAssumption
    <3>3. plain \in Files /\ own \in Files
      BY <3>1, <3>2, Zenon DEF Files
    <3> QED BY <3>1, <3>2, <3>3
  <2>3. closed[own] # None => closed[plain] # None
    BY <2>2 DEF IInv, StepsAgree
  <2>4. ClosedPath(ev) = IF closed[plain] = None THEN plain ELSE own
    BY DEF ClosedPath
  <2>5. closed'[MovedTo(ev)'] # None
    <3>1. MovedTo(ev)' = IF closed'[own] = None THEN plain ELSE own
      BY <2>1 DEF MovedTo, File
    <3> QED BY <1>2, <2>1, <2>2, <2>3, <2>4, <3>1
  <2>6. ASSUME NEW f \in Slugs, NEW s \in 1..MaxSeq, closed'[<<f, s>>] # None
        PROVE  closed'[<<f, 0>>] # None
    <3>1. <<f, s>> \in Files /\ <<f, 0>> \in Files /\ s # 0
      BY CapAssumption DEF Files
    <3>2. CASE closed[<<f, 0>>] # None
      BY <1>2, <2>1, <2>2, <2>4, <3>1, <3>2
    <3>3. CASE closed[<<f, 0>>] = None
      <4>1. closed[<<f, s>>] = None
        BY <3>3 DEF IInv, StepsAgree
      <4>2. <<f, s>> = ClosedPath(ev)
        BY <1>2, <2>1, <2>6, <3>1, <4>1
      <4> QED BY <2>2, <2>4, <3>1, <3>3, <4>2
    <3> QED BY <3>2, <3>3
  <2> QED BY <1>1, <2>1, <2>5, <2>6 DEF IInv, StepsAgree
<1>8. CASE CloseEdit
  <2>1. pc = "edit" /\ pc' = "ack" /\ UNCHANGED <<journal, noted, open, ev>>
    BY <1>8 DEF CloseEdit
  <2>2. \A f \in Files : (closed'[f] # None) <=> (closed[f] # None)
    <3> DEFINE old == closed[MovedTo(ev)]
    <3>1. MovedTo(ev) \in Files /\ old # None
      BY <2>1, FileTyped DEF IInv, StepsAgree
    <3>2. PICK new \in Incident : closed' = [closed EXCEPT ![MovedTo(ev)] = new]
      BY <1>8, EditTyped
    <3>3. new # None
      BY NoneAssumption
    <3> QED BY <1>2, <3>1, <3>2, <3>3
  <2>3. \A f \in Slugs, s \in 1..MaxSeq : <<f, s>> \in Files /\ <<f, 0>> \in Files
    BY CapAssumption DEF Files
  <2> QED BY <2>1, <2>2, <2>3 DEF IInv, StepsAgree, Journaled
<1>9. CASE AckDeduped \/ AckMove \/ Crash \/ Restore \/ UNCHANGED vars
  <2>1. UNCHANGED <<events, journal, noted, open, closed, ev>> /\ pc' \in {"idle", pc}
    BY <1>9 DEF AckDeduped, AckMove, Crash, Restore, vars
  <2> QED BY <2>1 DEF IInv, StepsAgree, Journaled, File, MovedTo
<1>10. CASE AckJournal \/ AckCursor
  <2>1. /\ UNCHANGED <<events, noted, open, closed, ev>>
        /\ pc \in {"ack", "cursor"} /\ pc' \in {"cursor", "move"}
    BY <1>10 DEF AckJournal, AckCursor
  <2> QED BY <1>1, <2>1 DEF IInv, StepsAgree
<1> QED BY <1>3, <1>4, <1>5, <1>6, <1>7, <1>8, <1>9, <1>10 DEF Next, Agent

\* The inductive invariant holds in every reachable state.
THEOREM StateInvariant == Spec => []IInv
<1>1. Init => IInv
  <2> SUFFICES ASSUME Init PROVE IInv
    OBVIOUS
  <2>1. TypeOK
    BY CapAssumption DEF Init, TypeOK, Steps
  <2>2. NothingLost
    BY DEF Init, NothingLost
  <2>3. RecordedFirst
    BY DEF Init, RecordedFirst, In, AllFiles, OpenFiles
  <2>4. StepsAgree
    BY CapAssumption DEF Init, StepsAgree, Files
  <2> QED BY <2>1, <2>2, <2>3, <2>4 DEF IInv
<1>2. IInv /\ [Next]_vars => IInv'
  BY TypeStep, SpoolStep, RecordedStep, AgreeStep DEF IInv
<1> QED BY <1>1, <1>2, PTL DEF Spec

\* Every reachable state is well typed.
THEOREM TypeCorrect == Spec => []TypeOK
<1>1. IInv => TypeOK
  BY DEF IInv
<1> QED BY <1>1, StateInvariant, PTL

\* At-least-once: an event that was spooled is in the spool or acknowledged,
\* whatever dies when.
THEOREM NoEventLost == Spec => []NothingLost
<1>1. IInv => NothingLost
  BY DEF IInv
<1> QED BY <1>1, StateInvariant, PTL

\* Record before acknowledge, over every crash and redelivery.
THEOREM RecordsFirst == Spec => []RecordedFirst
<1>1. IInv => RecordedFirst
  BY DEF IInv
<1> QED BY <1>1, StateInvariant, PTL

-----------------------------------------------------------------------------
(* The cursor. *)

\* Dropping from a list without repetition, or appending what it does not
\* hold, leaves none.
Distinct(list) == \A m, n \in 1..Len(list) : list[m] = list[n] => m = n

LEMMA DropDistinct ==
  ASSUME NEW S, NEW list \in Seq(S), NEW n \in 0..Len(list), Distinct(list)
  PROVE  Distinct(DropOldest(list, n))
<1> DEFINE rest == DropOldest(list, n)
<1>1. Len(rest) = Len(list) - n /\ \A k \in 1..Len(rest) : rest[k] = list[k + n]
  BY DEF DropOldest
<1>2. ASSUME NEW j \in 1..Len(rest), NEW k \in 1..Len(rest), rest[j] = rest[k]
      PROVE  j = k
  <2>1. j + n \in 1..Len(list) /\ k + n \in 1..Len(list)
    BY <1>1
  <2>2. list[j + n] = list[k + n]
    BY <1>1, <1>2
  <2>3. j + n = k + n
    BY <2>1, <2>2 DEF Distinct
  <2> QED BY <2>3
<1> HIDE DEF rest
<1>3. Distinct(rest)
  BY <1>2 DEF Distinct
<1> QED BY <1>3 DEF rest

LEMMA AppendDistinct ==
  ASSUME NEW S, NEW list \in Seq(S), NEW x \in S, Distinct(list), ~In(x, list)
  PROVE  Distinct(Append(list, x))
<1> DEFINE grown == Append(list, x)
<1>1. /\ Len(grown) = Len(list) + 1 /\ Len(list) \in Nat
      /\ \A k \in 1..Len(list) : grown[k] = list[k] /\ grown[k] # x
      /\ grown[Len(list) + 1] = x
  BY DEF In
<1> HIDE DEF grown
<1>2. Distinct(grown)
  BY <1>1 DEF Distinct
<1> QED BY <1>2 DEF grown

\* The ring and acked/ stay below the high-water mark, and the process that is
\* about to write the cursor has looked into the ring.
CursorAgrees ==
  /\ AckedOnce
  /\ \A s \in 1..MaxSeq : In(s, ring) => s <= last
  /\ pc = "cursor" => ~In(ev, ring)
  /\ pc = "move" => ev <= last

LEMMA CursorStep ==
  ASSUME IInv, CursorAgrees, [Next]_vars
  PROVE  CursorAgrees'
<1> USE DEF spool, cursor, incidents, Goto
<1>0. last \in Nat /\ ring \in Seq(1..MaxSeq)
  BY CapAssumption DEF IInv, TypeOK
<1>1. CASE AckCursor
  <2> DEFINE grown == Append(ring, ev)
             n == Higher(0, Len(grown) - RingCap)
  <2>1. ev \in 1..MaxSeq /\ pc = "cursor" /\ pc' = "move" /\ UNCHANGED <<acked, ev>>
    BY <1>1, FileTyped DEF AckCursor, IInv
  <2>2. ~In(ev, ring) /\ Distinct(ring)
    BY <2>1 DEF CursorAgrees, AckedOnce, Distinct
  <2>3. grown \in Seq(1..MaxSeq) /\ Distinct(grown)
    <3>1. grown \in Seq(1..MaxSeq)
      BY <1>0, <2>1
    <3>2. Distinct(grown)
      BY <1>0, <2>1, <2>2, AppendDistinct
    <3> QED BY <3>1, <3>2
  <2>4. n \in 0..Len(grown) /\ ring' = DropOldest(grown, n)
    BY <1>0, <1>1, <2>3, CapAssumption DEF AckCursor, Higher
  <2>5. \A s : In(s, grown) => In(s, ring) \/ s = ev
    BY <1>0, <2>1, AppendTyped
  <2> HIDE DEF grown, n
  <2>6. Distinct(ring') /\ \A s : In(s, ring') => In(s, grown)
    BY <2>3, <2>4, DropDistinct, DropTyped
  <2>7. last' \in Nat /\ last <= last' /\ ev <= last'
    BY <1>0, <1>1, <2>1 DEF AckCursor, Higher
  <2>8. \A s \in acked : s \in Nat /\ s <= last
    BY DEF CursorAgrees, AckedOnce, IInv, TypeOK
  <2>9. \A s \in 1..MaxSeq : In(s, ring') => s <= last'
    BY <1>0, <2>1, <2>5, <2>6, <2>7 DEF CursorAgrees
  <2>10. \A s \in acked' : s <= last'
    BY <1>0, <2>1, <2>7, <2>8
  <2> QED BY <2>1, <2>6, <2>7, <2>9, <2>10 DEF CursorAgrees, AckedOnce, Distinct
<1>2. CASE AckDeduped \/ AckMove
  <2>1. /\ ev \in 1..MaxSeq /\ UNCHANGED <<last, ring, ev>> /\ acked' = acked \cup {ev}
        /\ In(ev, ring) \/ ev \in acked \/ pc = "move"
        /\ pc' = "idle"
    BY <1>2, FileTyped DEF AckDeduped, AckMove, IInv
  <2>2. ev <= last
    BY <2>1 DEF CursorAgrees, AckedOnce
  <2> QED BY <2>1, <2>2 DEF CursorAgrees, AckedOnce, In
<1>3. CASE AckJournal
  <2>1. ~In(ev, ring) /\ UNCHANGED <<acked, last, ring, ev>> /\ pc' = "cursor"
    BY <1>3 DEF AckJournal
  <2> QED BY <2>1 DEF CursorAgrees, AckedOnce, In
<1>4. CASE Take \/ OpenJournal \/ OpenWrite \/ CloseJournal \/ CloseMove \/ CloseEdit \/ Crash
  <2>1. UNCHANGED <<acked, last, ring>> /\ pc' \notin {"cursor", "move"}
    BY <1>4 DEF Take, OpenJournal, OpenWrite, CloseJournal, CloseMove, CloseEdit, Crash
  <2> QED BY <2>1 DEF CursorAgrees, AckedOnce, In
<1>5. CASE Watcher \/ Restore \/ UNCHANGED vars
  <2>1. UNCHANGED <<acked, last, ring, pc, ev>>
    BY <1>5 DEF Watcher, Spooled, Restore, vars
  <2> QED BY <2>1 DEF CursorAgrees, AckedOnce, In
<1> QED BY <1>1, <1>2, <1>3, <1>4, <1>5 DEF Next, Agent

\* A redelivered event never takes a second place in the ring, so the ring
\* covers as many events as it has places, and acked/ never runs ahead of the
\* high-water mark: for every ring, and however often a script dies between
\* the cursor and the move.
THEOREM AckedOnlyOnce == Spec => []AckedOnce
<1>1. Init => CursorAgrees
  BY DEF Init, CursorAgrees, AckedOnce, In
<1>2. IInv /\ CursorAgrees /\ [Next]_vars => CursorAgrees'
  BY CursorStep
<1>3. CursorAgrees => AckedOnce
  BY DEF CursorAgrees
<1> QED BY <1>1, <1>2, <1>3, StateInvariant, PTL DEF Spec

-----------------------------------------------------------------------------
(* No phantom. *)

\* The events the agent is through with, as far as open/ is concerned.
Done(s) == s \in acked \/ In(s, ring) \/ (s = ev /\ pc \in {"edit", "ack", "cursor", "move"})

\* The spool is drained in order: what is pending below an event that is done,
\* or at hand, was put back.
InOrder ==
  /\ \A s \in 1..MaxSeq : In(s, ring) => s \in 1..Len(events)
  /\ pc # "idle" => ev \in pending /\ \A t \in pending : t < ev => t \in restored
  /\ pc \in {"open", "write"} => events[ev].state = "fired"
  /\ \A t \in pending, s \in 1..Len(events) : Done(s) /\ t < s => t \in restored

\* NoPhantom for the events that are done, acknowledged or not yet.
NoneLeftOpen ==
  \A r \in Rules : \A s \in LastOf(r) :
    Done(s) /\ events[s].state = "cleared" /\ open[Slug[r]] # None
      => open[Slug[r]].seen \cap restored # {}

\* In a step the agent is through with at most the event at hand.
LEMMA DoneGains ==
  ASSUME IInv, [Next]_vars, NEW s \in 1..MaxSeq, Done(s)'
  PROVE  Done(s) \/ (s = ev' /\ pc' \in {"edit", "ack"})
<1>1. CASE pc' \in {"edit", "ack"} /\ s = ev'
  BY <1>1
<1>2. CASE s = ev' /\ pc' \in {"cursor", "move"}
  BY <1>2 DEF Next, Agent, Watcher, Spooled, Take, OpenJournal, OpenWrite, CloseJournal, CloseMove,
              CloseEdit, AckDeduped, AckJournal, AckCursor, AckMove, Crash, Restore, vars, Goto, Done
<1>3. CASE In(s, ring') \/ s \in acked'
  BY <1>3, AckedGains DEF Done
<1> QED BY <1>1, <1>2, <1>3 DEF Done, In

LEMMA OrderStep ==
  ASSUME IInv, InOrder, [Next]_vars
  PROVE  InOrder'
<1> USE DEF spool, cursor, incidents, Goto
<1>0. /\ Len(events) \in Nat /\ Len(events) <= MaxSeq /\ MaxSeq \in Nat /\ events \in Seq(Event)
      /\ acked \subseteq 1..Len(events) /\ pending \subseteq 1..Len(events) /\ ev \in 0..Len(events)
  BY CapAssumption DEF IInv, TypeOK
<1>1. CASE Watcher
  <2>1. PICK e : /\ events' = Append(events, e) /\ pending' = pending \cup {Len(events) + 1}
                 /\ UNCHANGED <<acked, ring, pc, ev>>
    BY <1>1 DEF Watcher, Spooled
  <2>2. UNCHANGED restored
    BY <1>1 DEF Next, Watcher, Spooled, Restore, vars
  <2>3. /\ Len(events') = Len(events) + 1 /\ Len(events') <= MaxSeq
        /\ \A n \in 1..Len(events) : events'[n] = events[n]
    BY <1>0, <2>1, TypeStep DEF TypeOK
  <2>4. \A s : (Done(s)' <=> Done(s)) /\ (In(s, ring') <=> In(s, ring))
    BY <2>1 DEF Done, In
  <2>5. ASSUME NEW t \in pending', NEW s \in 1..Len(events'), Done(s), t < s
        PROVE  t \in restored
    <3>0. s \in 1..MaxSeq /\ ev \in 0..Len(events)
      BY <1>0, <2>3
    <3>1. s \in 1..Len(events)
      BY <1>0, <2>5, <3>0 DEF InOrder, Done
    <3>2. t \in pending
      BY <1>0, <2>1, <2>5, <3>1
    <3> QED BY <2>5, <3>1, <3>2 DEF InOrder
  <2>6. pc' # "idle" => ev' \in pending' /\ \A t \in pending' : t < ev' => t \in restored
    <3> SUFFICES ASSUME pc # "idle" PROVE ev \in pending /\ \A t \in pending' : t < ev => t \in restored
      BY <2>1
    <3>1. ev < Len(events) + 1
      BY <1>0
    <3>2. \A t \in pending' : t \in pending \/ t = Len(events) + 1
      BY <2>1
    <3>3. ~(Len(events) + 1 < ev)
      BY <1>0
    <3> QED BY <3>2, <3>3 DEF InOrder
  <2>7. pc' \in {"open", "write"} => events'[ev'].state = "fired"
    BY <2>1, <2>3, FileTyped DEF InOrder, IInv
  <2>8. \A s \in 1..MaxSeq : In(s, ring') => s \in 1..Len(events')
    BY <1>0, <2>3, <2>4 DEF InOrder
  <2> QED BY <2>2, <2>4, <2>5, <2>6, <2>7, <2>8 DEF InOrder
<1>2. CASE Restore
  <2>1. PICK s \in acked : pending' = pending \cup {s} /\ restored' = restored \cup {s}
    BY <1>2 DEF Restore
  <2>2. UNCHANGED <<events, acked, ring, pc, ev>>
    BY <1>2 DEF Restore
  <2> QED BY <2>1, <2>2 DEF InOrder, Done, In
<1>3. CASE Take
  <2>1. PICK s \in pending :
          /\ Lowest(s) /\ ev' = s
          /\ pc' \in {"ack", "open", "close"} /\ (pc' = "open" => events[s].state = "fired")
    BY <1>3 DEF Take
  <2>2. UNCHANGED <<events, pending, acked, ring>>
    BY <1>3 DEF Take
  <2>3. \A t \in pending : ~(t < ev')
    BY <1>0, <2>1 DEF Lowest
  <2>4. ASSUME NEW t \in pending', NEW n \in 1..Len(events'), Done(n)', t < n
        PROVE  t \in restored'
    <3>0. UNCHANGED restored
      BY <1>3 DEF Next, Take, Restore, vars
    <3>1. Done(n)
      BY <1>0, <2>2, <2>3, <2>4, DoneGains
    <3> QED BY <2>2, <2>4, <3>0, <3>1 DEF InOrder
  <2>5. \A n \in 1..MaxSeq : In(n, ring') => n \in 1..Len(events')
    BY <2>2 DEF InOrder, In
  <2> QED BY <2>1, <2>2, <2>3, <2>4, <2>5 DEF InOrder
<1>4. CASE OpenJournal \/ OpenWrite \/ CloseJournal \/ CloseMove \/ CloseEdit \/ AckJournal \/ AckCursor
           \/ AckDeduped \/ AckMove \/ Crash \/ UNCHANGED vars
  <2>1. UNCHANGED <<events, ev>> /\ pending' \subseteq pending /\ restored \subseteq restored'
    BY <1>4 DEF OpenJournal, OpenWrite, CloseJournal, CloseMove, CloseEdit, AckJournal, AckCursor,
                AckDeduped, AckMove, Crash, vars, Next, Restore
  <2>2. pc' # "idle" => pc # "idle" /\ pending' = pending
    BY <1>4 DEF OpenJournal, OpenWrite, CloseJournal, CloseMove, CloseEdit, AckJournal, AckCursor,
                AckDeduped, AckMove, Crash, vars
  <2>3. pc' \in {"open", "write"} => pc \in {"open", "write"}
    BY <1>4 DEF OpenJournal, OpenWrite, CloseJournal, CloseMove, CloseEdit, AckJournal, AckCursor,
                AckDeduped, AckMove, Crash, vars
  <2>4. ASSUME NEW t \in pending', NEW n \in 1..Len(events'), Done(n)', t < n
        PROVE  t \in restored'
    <3>1. n \in 1..MaxSeq /\ t \in pending /\ n \in 1..Len(events)
      BY <1>0, <2>1
    <3>2. Done(n) \/ (n = ev /\ pc # "idle")
      BY <2>1, <2>2, <2>4, <3>1, DoneGains
    <3> QED BY <2>1, <2>4, <3>1, <3>2 DEF InOrder
  <2>5. ASSUME NEW n \in 1..MaxSeq, In(n, ring') PROVE n \in 1..Len(events')
    <3>1. In(n, ring) \/ n \in acked \/ n = ev
      BY <2>5, AckedGains
    <3> QED BY <1>0, <2>1, <3>1 DEF InOrder
  <2> QED BY <2>1, <2>2, <2>3, <2>4, <2>5 DEF InOrder
<1> QED BY <1>1, <1>2, <1>3, <1>4 DEF Next, Agent

LEMMA PhantomStep ==
  ASSUME \A q, r \in Rules : Slug[q] = Slug[r] => q = r,
         IInv, InOrder, NoneLeftOpen, [Next]_vars
  PROVE  NoneLeftOpen'
<1> USE DEF spool, cursor, incidents, Goto
<1>0. /\ Len(events) \in Nat /\ Len(events) <= MaxSeq /\ MaxSeq \in Nat /\ events \in Seq(Event)
      /\ acked \subseteq 1..Len(events) /\ ev \in 0..Len(events)
      /\ open \in [Slugs -> Incident \cup {None}]
  BY CapAssumption DEF IInv, TypeOK
<1>r. restored \subseteq restored'
  BY DEF Next, Restore, vars
<1> SUFFICES ASSUME NEW r \in Rules, NEW s \in LastOf(r)', Done(s)', events'[s].state = "cleared",
                    open'[Slug[r]] # None
             PROVE  open'[Slug[r]].seen \cap restored' # {}
  BY DEF NoneLeftOpen
<1>f. Slug[r] \in Slugs
  BY DEF Slugs
<1>1. CASE Watcher
  <2>1. PICK e : events' = Append(events, e) /\ UNCHANGED <<acked, ring, pc, ev, open>>
    BY <1>1 DEF Watcher, Spooled
  <2>2. /\ Len(events') = Len(events) + 1 /\ Len(events') <= MaxSeq
        /\ \A n \in 1..Len(events) : events'[n] = events[n]
    BY <1>0, <2>1, TypeStep DEF TypeOK
  <2>3. Done(s) /\ s \in 1..Len(events') /\ s \in 1..MaxSeq
    BY <1>0, <2>1, <2>2 DEF Done, In, LastOf
  <2>4. s \in 1..Len(events)
    BY <1>0, <2>3 DEF InOrder, Done
  <2>5. s \in LastOf(r) /\ events[s].state = "cleared"
    <3>1. \A t \in s+1..Len(events) : t \in s+1..Len(events') /\ t \in 1..Len(events)
      BY <1>0, <2>2, <2>4
    <3> QED BY <2>2, <2>4, <3>1 DEF LastOf
  <2> QED BY <1>r, <2>1, <2>3, <2>5 DEF NoneLeftOpen
<1>2. CASE ~Watcher
  <2>1. UNCHANGED events
    BY <1>2 DEF Next, Agent, Take, OpenJournal, OpenWrite, CloseJournal, CloseMove,
                CloseEdit, AckDeduped, AckJournal, AckCursor, AckMove, Crash, Restore, vars
  <2>2. s \in LastOf(r) /\ s \in 1..Len(events) /\ s \in 1..MaxSeq /\ events[s].rule = r
    BY <1>0, <2>1 DEF LastOf
  <2>3. CASE OpenWrite
    <3>1. pc = "write" /\ pc' = "ack" /\ UNCHANGED <<ev, acked, ring>>
      BY <2>3 DEF OpenWrite
    <3>2. events[ev].state = "fired" /\ ev \in pending /\ ev \in 1..Len(events)
      BY <3>1, FileTyped DEF InOrder, IInv
    <3>3. Done(s) /\ s # ev
      BY <2>1, <3>1, <3>2 DEF Done, In
    <3>4. PICK new : /\ open' = [open EXCEPT ![File(ev)] = new]
                     /\ \/ new.seen = {ev}
                        \/ /\ open[File(ev)] # None
                           /\ new.seen \in {open[File(ev)].seen, open[File(ev)].seen \cup {ev}}
      BY <2>3, WriteAdds
    <3>5. CASE Slug[r] = File(ev)
      <4>0. events[ev] \in Event
        BY <1>0, <3>2
      <4>1. events[ev].rule = r
        BY <3>5, <4>0 DEF File, Event
      <4>2. ev < s
        <5>1. ~(ev \in s+1..Len(events))
          BY <2>2, <4>1 DEF LastOf
        <5> QED BY <1>0, <2>2, <3>2, <3>3, <5>1
      <4>3. ev \in restored
        BY <2>2, <3>2, <3>3, <4>2 DEF InOrder
      <4>4. open'[Slug[r]] = new
        BY <1>0, <1>f, <3>4, <3>5
      <4>5. open[File(ev)] # None => open[File(ev)].seen \cap restored # {}
        BY <2>1, <2>2, <3>3, <3>5 DEF NoneLeftOpen
      <4> QED BY <1>r, <3>4, <4>3, <4>4, <4>5
    <3>6. CASE Slug[r] # File(ev)
      <4>1. open'[Slug[r]] = open[Slug[r]]
        BY <3>4, <3>6, <1>0, <1>f
      <4> QED BY <1>r, <2>1, <2>2, <3>3, <4>1 DEF NoneLeftOpen
    <3> QED BY <3>5, <3>6
  <2>4. CASE CloseMove
    <3>1. open' = [open EXCEPT ![File(ev)] = None] /\ ev' = ev
      BY <2>4 DEF CloseMove
    <3>2. Slug[r] # File(ev) /\ open'[Slug[r]] = open[Slug[r]]
      BY <1>0, <1>f, <3>1
    <3>3. s # ev
      BY <2>2, <3>2 DEF File
    <3>4. Done(s)
      BY <2>2, <3>1, <3>3, DoneGains
    <3> QED BY <1>r, <2>1, <2>2, <3>2, <3>4 DEF NoneLeftOpen
  <2>5. CASE ~OpenWrite /\ ~CloseMove
    <3>1. UNCHANGED open
      BY <1>2, <2>5 DEF Next, Agent, Take, OpenJournal, CloseJournal, CloseEdit, AckDeduped,
                        AckJournal, AckCursor, AckMove, Crash, Restore, vars
    <3>2. Done(s)
      <4>1. CASE Take
        <5>1. PICK t \in pending :
                /\ ev' = t
                /\ pc' # "edit"
                /\ pc' = "ack" => In(t, ring) \/ events[t].state = "fired"
          BY <4>1 DEF Take
        <5> QED BY <2>1, <2>2, <5>1, DoneGains DEF Done
      <4>2. CASE OpenJournal
        <5>1. pc = "open" /\ ev' = ev
          BY <4>2 DEF OpenJournal
        <5>2. events[ev].state = "fired"
          BY <5>1 DEF InOrder
        <5> QED BY <2>1, <2>2, <5>1, <5>2, DoneGains
      <4>3. CASE CloseJournal
        <5>1. ev' = ev /\ (pc' \in {"edit", "ack"} => open[File(ev)] = None)
          BY <4>3 DEF CloseJournal
        <5> QED BY <2>2, <3>1, <5>1, DoneGains DEF File
      <4>4. CASE CloseEdit
        BY <2>2, <4>4, DoneGains DEF CloseEdit, Done
      <4>5. CASE pc' \notin {"edit", "ack"} \/ UNCHANGED <<pc, ev>>
        BY <2>2, <4>5, DoneGains DEF Done
      <4> QED BY <1>2, <2>5, <4>1, <4>2, <4>3, <4>4, <4>5
              DEF Next, Agent, AckDeduped, AckJournal, AckCursor, AckMove, Crash, Restore, vars
    <3> QED BY <1>r, <2>1, <2>2, <3>1, <3>2 DEF NoneLeftOpen
  <2> QED BY <2>3, <2>4, <2>5
<1> QED BY <1>1, <1>2

\* No phantom incidents, whatever dies when: where rules have slugs of their
\* own, the acknowledged recovery of a rule leaves it no open incident.
THEOREM NoPhantomLeft ==
  ASSUME \A q, r \in Rules : Slug[q] = Slug[r] => q = r
  PROVE  Spec => []NoPhantom
<1>1. Init => InOrder /\ NoneLeftOpen
  BY DEF Init, InOrder, NoneLeftOpen, LastOf, In
<1>2. IInv /\ InOrder /\ NoneLeftOpen /\ [Next]_vars => InOrder' /\ NoneLeftOpen'
  BY OrderStep, PhantomStep
<1>3. NoneLeftOpen => NoPhantom
  BY DEF NoneLeftOpen, NoPhantom, Done
<1> QED BY <1>1, <1>2, <1>3, StateInvariant, PTL DEF Spec

-----------------------------------------------------------------------------
(* Whose events a file holds. *)

OfSlug(i, f) == Slug[i.rule] = f /\ \A s \in i.seen : s \in 1..Len(events) /\ Slug[events[s].rule] = f

\* Every incident holds events of its slug, which is as much as a file name
\* can keep apart.
OwnFiles ==
  /\ \A f \in Slugs : open[f] # None => OfSlug(open[f], f)
  /\ \A g \in Files : closed[g] # None => OfSlug(closed[g], g[1])

LEMMA OwnStep ==
  ASSUME IInv, OwnFiles, [Next]_vars
  PROVE  OwnFiles'
<1> USE DEF spool, cursor, incidents, Goto
<1>0. /\ Len(events) \in Nat /\ Len(events) <= MaxSeq /\ MaxSeq \in Nat /\ events \in Seq(Event)
      /\ open \in [Slugs -> Incident \cup {None}] /\ closed \in [Files -> Incident \cup {None}]
  BY CapAssumption DEF IInv, TypeOK
<1>1. CASE Watcher
  <2>1. PICK e : events' = Append(events, e) /\ UNCHANGED <<open, closed>>
    BY <1>1 DEF Watcher, Spooled
  <2>2. Len(events') = Len(events) + 1 /\ \A n \in 1..Len(events) : events'[n] = events[n]
    BY <1>0, <2>1
  <2>3. \A n \in 1..Len(events) : n \in 1..Len(events')
    BY <1>0, <2>2
  <2>4. \A i, f : OfSlug(i, f) => OfSlug(i, f)'
    BY <2>2, <2>3 DEF OfSlug
  <2> QED BY <2>1, <2>4 DEF OwnFiles
<1>2. CASE ~Watcher
  <2>1. UNCHANGED events
    BY <1>2 DEF Next, Agent, Take, OpenJournal, OpenWrite, CloseJournal, CloseMove,
                CloseEdit, AckDeduped, AckJournal, AckCursor, AckMove, Crash, Restore, vars
  <2>2. \A i, f : OfSlug(i, f)' <=> OfSlug(i, f)
    BY <2>1 DEF OfSlug
  <2>e. pc # "idle" => ev \in 1..Len(events) /\ File(ev) \in Slugs /\ Slug[events[ev].rule] = File(ev)
    BY FileTyped DEF IInv, File
  <2>3. CASE OpenWrite
    <3>1. PICK new : /\ open' = [open EXCEPT ![File(ev)] = new]
                     /\ \/ open[File(ev)] = None /\ new.seen = {ev} /\ new.rule = events[ev].rule
                        \/ /\ open[File(ev)] # None
                           /\ new.seen \in {open[File(ev)].seen, open[File(ev)].seen \cup {ev}}
                           /\ new.rule = open[File(ev)].rule
      BY <2>3, WriteAdds
    <3>2. pc # "idle" /\ UNCHANGED closed
      BY <2>3 DEF OpenWrite
    <3>3. OfSlug(new, File(ev))
      BY <2>e, <3>1, <3>2 DEF OwnFiles, OfSlug
    <3>4. ASSUME NEW f \in Slugs, open'[f] # None PROVE OfSlug(open'[f], f)
      BY <1>0, <2>e, <3>1, <3>2, <3>3, <3>4 DEF OwnFiles
    <3> QED BY <2>2, <3>2, <3>4 DEF OwnFiles
  <2>4. CASE CloseMove
    <3>1. /\ pc # "idle"
          /\ closed' = [closed EXCEPT ![ClosedPath(ev)] = open[File(ev)]]
          /\ open' = [open EXCEPT ![File(ev)] = None]
      BY <2>4 DEF CloseMove
    <3>2. ClosedPath(ev) \in Files /\ ClosedPath(ev)[1] = File(ev)
      BY <3>1, FileTyped DEF IInv, ClosedPath
    <3>3. \A f \in Slugs : open'[f] # None => open'[f] = open[f]
      BY <1>0, <2>e, <3>1
    <3>4. ASSUME NEW g \in Files, closed'[g] # None PROVE OfSlug(closed'[g], g[1])
      BY <1>0, <2>e, <3>1, <3>2, <3>4 DEF OwnFiles
    <3> QED BY <2>2, <3>3, <3>4 DEF OwnFiles
  <2>5. CASE CloseEdit
    <3> DEFINE old == closed[MovedTo(ev)]
               new == [old EXCEPT !.status = "closed",
                                  !.lines = Trim(Append(@, ev), LineCap - 2),
                                  !.count = @ + 1,
                                  !.seen = @ \cup {ev}]
    <3>1. pc # "idle" /\ UNCHANGED open /\ closed' = [closed EXCEPT ![MovedTo(ev)] = new]
      BY <2>5 DEF CloseEdit
    <3>2. MovedTo(ev) \in Files /\ MovedTo(ev)[1] = File(ev) /\ old # None
      BY <2>5, <3>1, FileTyped DEF IInv, MovedTo, CloseEdit, StepsAgree
    <3>3. new.seen = old.seen \cup {ev} /\ new.rule = old.rule
      BY <1>0, <3>2 DEF Incident
    <3>4. OfSlug(old, File(ev))
      BY <3>2 DEF OwnFiles
    <3> HIDE DEF new, old
    <3>5. OfSlug(new, File(ev))
      BY <2>e, <3>1, <3>3, <3>4 DEF OfSlug
    <3>6. ASSUME NEW g \in Files, closed'[g] # None PROVE OfSlug(closed'[g], g[1])
      BY <1>0, <3>1, <3>2, <3>5, <3>6 DEF OwnFiles
    <3> QED BY <2>2, <3>1, <3>6 DEF OwnFiles
  <2>6. CASE ~OpenWrite /\ ~CloseMove /\ ~CloseEdit
    <3>1. UNCHANGED <<open, closed>>
      BY <1>2, <2>6 DEF Next, Agent, Take, OpenJournal, CloseJournal, AckDeduped,
                        AckJournal, AckCursor, AckMove, Crash, Restore, vars
    <3> QED BY <2>2, <3>1 DEF OwnFiles
  <2> QED BY <2>3, <2>4, <2>5, <2>6
<1> QED BY <1>1, <1>2

\* What slugify promises holds exactly as far as slugs differ: with slugs of
\* their own, no two rules share an incident.  (Run AgentSlugs shows that two
\* legal names may have one slug.)
THEOREM OneRulePerFile ==
  ASSUME \A q, r \in Rules : Slug[q] = Slug[r] => q = r
  PROVE  Spec => []OneRulePerIncident
<1>1. Init => OwnFiles
  BY DEF Init, OwnFiles
<1>2. IInv /\ OwnFiles /\ [Next]_vars => OwnFiles'
  BY OwnStep
<1>3. IInv /\ OwnFiles => OneRulePerIncident
  <2> SUFFICES ASSUME IInv, OwnFiles, NEW i \in AllFiles, NEW s \in i.seen
               PROVE  events[s].rule = i.rule
    BY DEF OneRulePerIncident
  <2>1. PICK f : OfSlug(i, f)
    BY DEF AllFiles, OpenFiles, OwnFiles
  <2>2. i \in Incident
    BY DEF AllFiles, OpenFiles, IInv, TypeOK
  <2>3. s \in 1..Len(events) /\ events \in Seq(Event)
    BY <2>1 DEF OfSlug, IInv, TypeOK
  <2>4. i.rule \in Rules /\ events[s].rule \in Rules
    <3>1. events[s] \in Event
      BY <2>3
    <3> QED BY <2>2, <3>1 DEF Incident, Event
  <2> QED BY <2>1, <2>4 DEF OfSlug
<1> QED BY <1>1, <1>2, <1>3, StateInvariant, PTL DEF Spec

-----------------------------------------------------------------------------
(* What an incident tells of its events. *)

\* The journal follows the order of the spool: what is pending below an event
\* that was recorded was put back.
JournalOrder ==
  /\ \A s \in 1..MaxSeq : Journaled(s) => s \in 1..Len(events)
  /\ \A t \in pending, s \in 1..Len(events) : Journaled(s) /\ t < s => t \in restored

Counted(i) == i.seen \cap restored = {} => i.count = Cardinality(i.seen)

\* An event that will be delivered again still has its line.
Kept(i) == i.seen \cap restored = {} => \A s \in i.seen \cap pending : In(s, i.lines)

Ranked(i) ==
  /\ \A s \in i.seen : events[s].state = "fired" /\ events[s].severity <= i.severity
  /\ \E s \in i.seen : events[s].severity = i.severity

OpenTells(i) == Len(i.lines) <= LineCap /\ Counted(i) /\ Kept(i) /\ Ranked(i)

TellsInv ==
  /\ pc \in {"close", "out", "edit"} => events[ev].state # "fired"
  /\ \A f \in Slugs : open[f] # None => OpenTells(open[f])
  /\ \A g \in Files : closed[g] # None => Counted(closed[g])
  /\ pc = "edit" => \A s \in closed[MovedTo(ev)].seen : events[s].state = "fired"

\* In a step the journal gains at most the event at hand.
LEMMA JournalGains ==
  ASSUME [Next]_vars, NEW s, Journaled(s)'
  PROVE  Journaled(s) \/ (s = ev /\ pc # "idle")
<1>1. CASE OpenJournal \/ CloseJournal \/ AckJournal
  BY <1>1 DEF OpenJournal, CloseJournal, AckJournal, Journaled
<1>2. CASE ~(OpenJournal \/ CloseJournal \/ AckJournal)
  <2>1. UNCHANGED journal
    BY <1>2 DEF Next, Agent, Watcher, Spooled, Take, OpenWrite, CloseMove, CloseEdit, AckDeduped,
                AckCursor, AckMove, Crash, Restore, vars
  <2> QED BY <2>1 DEF Journaled
<1> QED BY <1>1, <1>2

LEMMA JournalStep ==
  ASSUME IInv, InOrder, JournalOrder, [Next]_vars
  PROVE  JournalOrder'
<1> USE DEF spool, cursor, incidents, Goto
<1>0. /\ Len(events) \in Nat /\ Len(events) <= MaxSeq /\ MaxSeq \in Nat /\ events \in Seq(Event)
      /\ acked \subseteq 1..Len(events) /\ pending \subseteq 1..Len(events)
  BY CapAssumption DEF IInv, TypeOK
<1>1. ASSUME NEW s \in 1..MaxSeq, Journaled(s)'
      PROVE  s \in 1..Len(events) /\ \A t \in pending : t < s => t \in restored
  <2>1. CASE Journaled(s)
    BY <1>1, <2>1 DEF JournalOrder
  <2>2. CASE s = ev /\ pc # "idle"
    BY <2>2, FileTyped DEF IInv, InOrder
  <2> QED BY <1>1, <2>1, <2>2, JournalGains
<1>2. CASE Watcher
  <2>1. PICK e : events' = Append(events, e) /\ pending' = pending \cup {Len(events) + 1}
    BY <1>2 DEF Watcher, Spooled
  <2>2. UNCHANGED restored
    BY <1>2 DEF Next, Watcher, Spooled, Restore, vars
  <2>3. Len(events') = Len(events) + 1 /\ Len(events') <= MaxSeq
    BY <1>0, <1>2, <2>1, TypeStep DEF TypeOK
  <2>4. \A s \in 1..Len(events') : s \in 1..MaxSeq
    BY <1>0, <2>3
  <2>5. \A s \in 1..MaxSeq : Journaled(s)' => s \in 1..Len(events')
    BY <1>0, <1>1, <2>3
  <2>6. ASSUME NEW t \in pending', NEW s \in 1..Len(events'), Journaled(s)', t < s
        PROVE  t \in restored'
    <3>1. s \in 1..Len(events)
      BY <1>1, <2>4, <2>6
    <3>2. t \in pending
      BY <1>0, <2>1, <2>6, <3>1
    <3> QED BY <1>1, <2>2, <2>4, <2>6, <3>2
  <2> QED BY <2>5, <2>6 DEF JournalOrder
<1>3. CASE ~Watcher
  <2>1. UNCHANGED events /\ \A t \in pending' : t \in pending \/ t \in restored'
    BY <1>3 DEF Next, Agent, Take, OpenJournal, OpenWrite, CloseJournal, CloseMove, CloseEdit, AckDeduped,
                AckJournal, AckCursor, AckMove, Crash, Restore, vars, spool
  <2>2. restored \subseteq restored' /\ \A s \in 1..Len(events) : s \in 1..MaxSeq
    BY <1>0 DEF Next, Restore, vars
  <2> QED BY <1>1, <2>1, <2>2 DEF JournalOrder
<1> QED BY <1>2, <1>3

\* A trim spares the newest line, and makes the list fit.
LEMMA TrimFits ==
  ASSUME NEW S, NEW lines \in Seq(S), Len(lines) # 0, NEW room \in Nat \ {0}
  PROVE  Len(Trim(lines, room)) <= room
<1>1. CASE Len(lines) <= room
  BY <1>1 DEF Trim
<1>2. CASE ~(Len(lines) <= room)
  <2> DEFINE n == Lower(Len(lines) - 1, Len(lines) - room + 1)
  <2>1. n \in 0..Len(lines) /\ Len(lines) - n <= room
    BY <1>2 DEF Lower
  <2>2. Trim(lines, room) = DropOldest(lines, n)
    BY <1>2 DEF Trim
  <2> HIDE DEF n
  <2> QED BY <2>1, <2>2, DropTyped
<1> QED BY <1>1, <1>2

LEMMA NewestKept ==
  ASSUME NEW S, NEW list \in Seq(S), NEW x \in S, NEW room \in Int
  PROVE  In(x, Trim(Append(list, x), room))
<1> DEFINE grown == Append(list, x)
           n == Lower(Len(grown) - 1, Len(grown) - room + 1)
<1>1. grown \in Seq(S) /\ Len(grown) \in Nat \ {0} /\ grown[Len(grown)] = x
  OBVIOUS
<1> HIDE DEF grown
<1>2. CASE Len(grown) <= room
  BY <1>1, <1>2 DEF Trim, In, grown
<1>3. CASE ~(Len(grown) <= room)
  <2>1. n \in 0..Len(grown)-1
    BY <1>1, <1>3 DEF Lower
  <2>2. Trim(grown, room) = DropOldest(grown, n)
    BY <1>3 DEF Trim
  <2> HIDE DEF n
  <2>3. /\ Len(DropOldest(grown, n)) = Len(grown) - n
        /\ \A k \in 1..Len(grown)-n : DropOldest(grown, n)[k] = grown[k + n]
    BY <1>1, <2>1 DEF DropOldest
  <2>4. Len(grown) - n \in 1..Len(DropOldest(grown, n))
    BY <1>1, <2>1, <2>3
  <2>5. DropOldest(grown, n)[Len(grown) - n] = x
    <3>1. DropOldest(grown, n)[Len(grown) - n] = grown[(Len(grown) - n) + n]
      BY <1>1, <2>1, <2>3, <2>4
    <3>2. (Len(grown) - n) + n = Len(grown)
      BY <1>1, <2>1
    <3> QED BY <1>1, <3>1, <3>2
  <2> QED BY <2>2, <2>4, <2>5 DEF In, grown
<1> QED BY <1>2, <1>3

\* One event more, one count more.
LEMMA OneMoreCounted ==
  ASSUME NEW T \in SUBSET (1..MaxSeq), NEW x, x \notin T
  PROVE  Cardinality(T \cup {x}) = Cardinality(T) + 1
<1>1. IsFiniteSet(T)
  <2>1. IsFiniteSet(1..MaxSeq)
    <3>1. 1 \in Int /\ MaxSeq \in Int
      BY CapAssumption
    <3> QED BY <3>1, FS_Interval
  <2> QED BY <2>1, FS_Subset
<1> QED BY <1>1, FS_AddElement, Zenon

\* Whatever a write leaves in an incident file tells of its events.
LEMMA WriteTells ==
  ASSUME IInv, InOrder, JournalOrder, TellsInv, OpenWrite
  PROVE  \E new : open' = [open EXCEPT ![File(ev)] = new] /\ OpenTells(new)
<1> DEFINE f == File(ev)
           e == events[ev]
           old == open[f]
           n0 == [rule |-> e.rule, severity |-> e.severity, status |-> "open",
                  lines |-> <<ev>>, count |-> 1, seen |-> {ev}]
           n1 == [old EXCEPT !.lines = Trim(@, LineCap)]
           n2 == [old EXCEPT !.severity = Ratchet(@, e.severity),
                             !.lines = Trim(Append(@, ev), LineCap),
                             !.count = @ + 1,
                             !.seen = @ \cup {ev}]
<1>1. /\ ev \in 1..MaxSeq /\ ev \in 1..Len(events) /\ e \in Event /\ f \in Slugs
      /\ old \in Incident \cup {None}
      /\ pc = "write" /\ ev \in pending /\ e.state = "fired" /\ Journaled(ev)
  BY FileTyped DEF OpenWrite, IInv, TypeOK, InOrder, StepsAgree
<1>2. LineCap \in Nat \ {0} /\ LineCap \in Int
  BY CapAssumption
<1>3. open' = [open EXCEPT ![f] = IF old = None THEN n0 ELSE IF In(ev, old.lines) THEN n1 ELSE n2]
  BY DEF OpenWrite
<1>4. OpenTells(n0)
  <2>1. /\ n0.lines = <<ev>> /\ n0.seen = {ev} /\ n0.count = 1 /\ n0.severity = e.severity
        /\ e.severity \in Nat
    BY <1>1 DEF Event
  <2> HIDE DEF n0
  <2>2. Len(n0.lines) <= LineCap /\ In(ev, n0.lines)
    BY <1>2, <2>1 DEF In
  <2>3. Counted(n0)
    BY <2>1, FS_Singleton DEF Counted
  <2>4. Ranked(n0)
    BY <1>1, <2>1 DEF Ranked
  <2> QED BY <2>1, <2>2, <2>3, <2>4 DEF OpenTells, Kept
<1>5. ASSUME old # None PROVE (In(ev, old.lines) => OpenTells(n1)) /\ (~In(ev, old.lines) => OpenTells(n2))
  <2>1. /\ old \in Incident /\ old.lines \in Seq(1..MaxSeq) /\ old.seen \in SUBSET (1..MaxSeq)
        /\ old.severity \in Nat /\ e.severity \in Nat
    BY <1>1, <1>5 DEF Incident, Event
  <2>2. OpenTells(old)
    BY <1>1, <1>5 DEF TellsInv
  <2>3. old \in AllFiles
    BY <1>1, <1>5 DEF AllFiles, OpenFiles
  <2>4. \A s \in old.seen : Journaled(s) /\ s \in 1..Len(events) /\ s \in 1..MaxSeq
    BY <2>1, <2>3 DEF IInv, RecordedFirst, JournalOrder
  \* Nothing the file has seen waits in the spool but the event itself.
  <2>5. ASSUME ev \notin restored, NEW s \in old.seen \cap pending, s \notin restored
        PROVE  s = ev
    <3>1. s \in 1..Len(events)
      BY <2>4, <2>5
    <3>2. ~(s < ev)
      BY <1>1, <2>5 DEF JournalOrder
    <3>3. ~(ev < s)
      BY <1>1, <2>4, <2>5, <3>1 DEF JournalOrder
    <3> QED BY <1>1, <3>1, <3>2, <3>3
  <2>6. ASSUME In(ev, old.lines) PROVE OpenTells(n1)
    <3>1. n1.seen = old.seen /\ n1.count = old.count /\ n1.severity = old.severity
          /\ n1.lines = Trim(old.lines, LineCap)
      BY <2>1 DEF Incident
    <3>2. n1.lines = old.lines
      BY <2>2, <3>1 DEF Trim, OpenTells
    <3> HIDE DEF n1
    <3> QED BY <2>2, <3>1, <3>2 DEF OpenTells, Counted, Kept, Ranked
  <2>7. ASSUME ~In(ev, old.lines) PROVE OpenTells(n2)
    <3>1. /\ n2.seen = old.seen \cup {ev} /\ n2.count = old.count + 1
          /\ n2.severity = Ratchet(old.severity, e.severity)
          /\ n2.lines = Trim(Append(old.lines, ev), LineCap)
      BY <2>1 DEF Incident
    <3> HIDE DEF n2, old
    <3>2. Len(n2.lines) <= LineCap /\ In(ev, n2.lines)
      <4>1. Append(old.lines, ev) \in Seq(1..MaxSeq) /\ Len(Append(old.lines, ev)) # 0
        BY <1>1, <2>1, AppendTyped
      <4>2. Len(n2.lines) <= LineCap
        BY <1>2, <3>1, <4>1, TrimFits
      <4>3. In(ev, Trim(Append(old.lines, ev), LineCap))
        BY <1>1, <1>2, <2>1, NewestKept
      <4> QED BY <3>1, <4>2, <4>3
    <3>3. Counted(n2)
      <4> SUFFICES ASSUME n2.seen \cap restored = {} PROVE n2.count = Cardinality(n2.seen)
        BY DEF Counted
      <4>1. old.seen \cap restored = {}
        BY <3>1
      <4>2. ev \notin old.seen
        BY <1>1, <2>2, <2>7, <4>1 DEF OpenTells, Kept
      <4>3. old.count = Cardinality(old.seen)
        BY <2>2, <4>1 DEF OpenTells, Counted
      <4> QED BY <1>1, <2>1, <3>1, <4>2, <4>3, OneMoreCounted
    <3>4. Kept(n2)
      BY <2>5, <3>1, <3>2 DEF Kept
    <3>5. Ranked(n2)
      <4>1. /\ n2.severity \in {old.severity, e.severity}
            /\ old.severity <= n2.severity /\ e.severity <= n2.severity
        BY <2>1, <3>1 DEF Ratchet, Higher
      <4>2. \A s \in old.seen : events[s].severity \in Nat
        <5>1. \A s \in old.seen : events[s] \in Event
          BY <2>4 DEF IInv, TypeOK
        <5> QED BY <5>1 DEF Event
      <4> QED BY <1>1, <2>1, <2>2, <3>1, <4>1, <4>2 DEF Ranked, OpenTells
    <3> QED BY <3>2, <3>3, <3>4, <3>5 DEF OpenTells
  <2> QED BY <2>6, <2>7
<1> HIDE DEF n0, n1, n2, old
<1>6. OpenTells(IF old = None THEN n0 ELSE IF In(ev, old.lines) THEN n1 ELSE n2)
  BY <1>4, <1>5
<1> QED BY <1>3, <1>6

LEMMA TellsStep ==
  ASSUME IInv, InOrder, JournalOrder, TellsInv, [Next]_vars
  PROVE  TellsInv'
<1> USE DEF spool, cursor, incidents, Goto
<1>0. /\ Len(events) \in Nat /\ Len(events) <= MaxSeq /\ MaxSeq \in Nat /\ events \in Seq(Event)
      /\ pending \subseteq 1..Len(events)
      /\ open \in [Slugs -> Incident \cup {None}] /\ closed \in [Files -> Incident \cup {None}]
  BY CapAssumption DEF IInv, TypeOK
<1>r. restored \subseteq restored' /\ \A t \in pending' : t \in pending \/ t \in restored' \/ t = Len(events) + 1
  BY DEF Next, Agent, Watcher, Spooled, Take, OpenJournal, OpenWrite, CloseJournal, CloseMove, CloseEdit,
         AckDeduped, AckJournal, AckCursor, AckMove, Crash, Restore, vars
<1>s. \A i \in AllFiles : \A s \in i.seen : s \in 1..Len(events)
  <2>1. \A i \in AllFiles : i \in Incident
    BY <1>0 DEF AllFiles, OpenFiles
  <2> QED BY <2>1 DEF IInv, RecordedFirst, JournalOrder, Incident
<1>e. \A s \in 1..Len(events) : events'[s] = events[s]
  <2>1. UNCHANGED events \/ \E e : events' = Append(events, e)
    BY DEF Next, Agent, Watcher, Spooled, Take, OpenJournal, OpenWrite, CloseJournal, CloseMove, CloseEdit,
           AckDeduped, AckJournal, AckCursor, AckMove, Crash, Restore, vars
  <2> QED BY <1>0, <2>1
\* What a file told it goes on to tell while the file stays as it is.
<1>c. \A i : Counted(i) => Counted(i)'
  BY <1>r DEF Counted
<1>o. \A i \in AllFiles : OpenTells(i) => OpenTells(i)'
  <2> SUFFICES ASSUME NEW i \in AllFiles, OpenTells(i) PROVE OpenTells(i)'
    OBVIOUS
  <2>1. \A s \in i.seen : s \in 1..Len(events) /\ s # Len(events) + 1
    BY <1>0, <1>s
  <2>2. Kept(i)'
    BY <1>r, <2>1 DEF OpenTells, Kept
  <2>3. Ranked(i)'
    BY <1>e, <2>1 DEF OpenTells, Ranked
  <2> QED BY <1>c, <2>2, <2>3 DEF OpenTells
<1>f. \A f \in Slugs : open[f] # None => open[f] \in AllFiles
  BY DEF AllFiles, OpenFiles
<1>p. pc # "idle" => ev \in 1..Len(events) /\ File(ev) \in Slugs /\ ClosedPath(ev) \in Files /\ MovedTo(ev) \in Files
  BY FileTyped DEF IInv
<1>1. CASE OpenWrite
  <2>1. /\ UNCHANGED <<events, pending, restored, closed, ev>> /\ pc = "write" /\ pc' = "ack"
    BY <1>1 DEF OpenWrite, Next, Restore, vars
  <2>2. PICK new : open' = [open EXCEPT ![File(ev)] = new] /\ OpenTells(new)
    BY <1>1, WriteTells
  <2>3. OpenTells(new)'
    BY <2>1, <2>2 DEF OpenTells, Counted, Kept, Ranked
  <2>4. ASSUME NEW f \in Slugs, NEW i, i = open'[f], i # None PROVE OpenTells(i)'
    <3>1. CASE f = File(ev)
      BY <1>0, <1>p, <2>1, <2>2, <2>3, <2>4, <3>1
    <3>2. CASE f # File(ev)
      <4>1. open'[f] = open[f]
        BY <1>0, <2>2, <3>2
      <4> QED BY <1>f, <1>o, <2>4, <4>1 DEF TellsInv
    <3> QED BY <3>1, <3>2
  <2> QED BY <1>c, <2>1, <2>4 DEF TellsInv
<1>2. CASE CloseMove
  <2>1. /\ UNCHANGED <<events, ev>> /\ pc = "out" /\ pc' = "edit"
        /\ closed' = [closed EXCEPT ![ClosedPath(ev)] = open[File(ev)]]
        /\ open' = [open EXCEPT ![File(ev)] = None]
        /\ open[File(ev)] # None
    BY <1>2 DEF CloseMove, IInv, StepsAgree
  <2>2. OpenTells(open[File(ev)])
    BY <1>p, <2>1 DEF TellsInv
  <2>3. closed'[MovedTo(ev)'] = open[File(ev)]
    <3> DEFINE plain == <<File(ev), 0>>
               own   == <<File(ev), ev>>
    <3>1. plain \in Files /\ own \in Files /\ plain # own
      <4>1. ev # 0 /\ 0 \in 0..MaxSeq /\ ev \in 0..MaxSeq
        BY <1>0, <1>p, <2>1
      <4> QED BY <1>p, <2>1, <4>1, Zenon DEF Files
    <3>2. closed[own] # None => closed[plain] # None
      <4>1. ev \in 1..MaxSeq /\ File(ev) \in Slugs
        BY <1>0, <1>p, <2>1
      <4> QED BY <4>1 DEF IInv, StepsAgree
    <3>3. ClosedPath(ev) = IF closed[plain] = None THEN plain ELSE own
      BY DEF ClosedPath
    <3>4. MovedTo(ev)' = IF closed'[own] = None THEN plain ELSE own
      BY <2>1 DEF MovedTo, File
    <3> QED BY <1>0, <2>1, <3>1, <3>2, <3>3, <3>4
  <2>4. \A s \in closed'[MovedTo(ev)'].seen : events'[s].state = "fired"
    BY <2>1, <2>2, <2>3 DEF OpenTells, Ranked
  <2>5. ASSUME NEW f \in Slugs, NEW i, i = open'[f], i # None PROVE OpenTells(i)'
    <3>1. open'[f] = open[f]
      BY <1>0, <1>p, <2>1, <2>5
    <3> QED BY <1>f, <1>o, <2>5, <3>1 DEF TellsInv
  <2>6. ASSUME NEW g \in Files, NEW i, i = closed'[g], i # None PROVE Counted(i)'
    <3>1. closed'[g] = closed[g] \/ closed'[g] = open[File(ev)]
      BY <1>0, <2>1
    <3>2. Counted(i)
      BY <2>2, <2>6, <3>1 DEF TellsInv, OpenTells
    <3> QED BY <1>r, <3>2 DEF Counted
  <2>7. events'[ev'].state # "fired"
    BY <2>1 DEF TellsInv
  <2> QED BY <2>1, <2>4, <2>5, <2>6, <2>7 DEF TellsInv
<1>3. CASE CloseEdit
  <2> DEFINE old == closed[MovedTo(ev)]
             new == [old EXCEPT !.status = "closed",
                                !.lines = Trim(Append(@, ev), LineCap - 2),
                                !.count = @ + 1,
                                !.seen = @ \cup {ev}]
  <2>1. /\ pc = "edit" /\ pc' = "ack" /\ UNCHANGED <<open, events>>
        /\ closed' = [closed EXCEPT ![MovedTo(ev)] = new]
        /\ old # None
    BY <1>3 DEF CloseEdit, IInv, StepsAgree
  <2>2. old \in Incident
    BY <1>0, <1>p, <2>1
  <2>3. new.seen = old.seen \cup {ev} /\ new.count = old.count + 1 /\ old.seen \in SUBSET (1..MaxSeq)
    BY <2>2 DEF Incident
  <2>4. ev \notin old.seen
    BY <2>1 DEF TellsInv
  <2>5. Counted(old)
    BY <1>p, <2>1 DEF TellsInv
  <2> HIDE DEF new, old
  <2>6. Counted(new)
    BY <2>3, <2>4, <2>5, OneMoreCounted DEF Counted
  <2>7. ASSUME NEW g \in Files, NEW i, i = closed'[g], i # None PROVE Counted(i)'
    <3>1. closed'[g] = closed[g] \/ closed'[g] = new
      BY <1>0, <2>1
    <3>2. Counted(i)
      BY <2>6, <2>7, <3>1 DEF TellsInv
    <3> QED BY <1>r, <3>2 DEF Counted
  <2> QED BY <1>f, <1>o, <2>1, <2>7 DEF TellsInv
<1>4. CASE ~OpenWrite /\ ~CloseMove /\ ~CloseEdit
  <2>1. UNCHANGED <<open, closed>>
    BY <1>4 DEF Next, Agent, Watcher, Spooled, Take, OpenJournal, CloseJournal, AckDeduped, AckJournal,
                AckCursor, AckMove, Crash, Restore, vars
  <2>2. pc' = "edit" => UNCHANGED <<pc, ev>>
    BY <1>4 DEF Next, Agent, Watcher, Spooled, Take, OpenJournal, CloseJournal, AckDeduped, AckJournal,
                AckCursor, AckMove, Crash, Restore, vars
  <2>3. pc' \in {"close", "out", "edit"} => events'[ev'].state # "fired"
    <3>1. CASE Take
      <4>1. PICK s \in pending : ev' = s /\ (pc' \in {"close", "out", "edit"} => events[s].state # "fired")
        BY <3>1 DEF Take
      <4> QED BY <1>0, <1>e, <4>1
    <3>2. CASE ~Take
      <4>1. pc' \in {"close", "out", "edit"} => pc \in {"close", "out", "edit"} /\ UNCHANGED ev
        BY <1>4, <3>2 DEF Next, Agent, Watcher, Spooled, OpenJournal, CloseJournal, AckDeduped, AckJournal,
                          AckCursor, AckMove, Crash, Restore, vars
      <4> QED BY <1>e, <1>p, <4>1 DEF TellsInv
    <3> QED BY <3>1, <3>2
  <2>4. pc' = "edit" => \A s \in closed'[MovedTo(ev)'].seen : events'[s].state = "fired"
    <3> SUFFICES ASSUME pc' = "edit", NEW s \in closed'[MovedTo(ev)'].seen PROVE events'[s].state = "fired"
      OBVIOUS
    <3>1. pc = "edit" /\ UNCHANGED ev
      BY <2>2
    <3>2. MovedTo(ev)' = MovedTo(ev)
      BY <1>e, <1>p, <2>1, <3>1 DEF MovedTo, File
    <3>3. closed[MovedTo(ev)] \in AllFiles
      BY <1>p, <3>1 DEF IInv, StepsAgree, AllFiles
    <3>4. s \in 1..Len(events)
      BY <1>s, <2>1, <3>2, <3>3
    <3> QED BY <1>e, <2>1, <3>1, <3>2, <3>4 DEF TellsInv
  <2> QED BY <1>c, <1>f, <1>o, <2>1, <2>3, <2>4 DEF TellsInv
<1> QED BY <1>1, <1>2, <1>3, <1>4

\* The count and the severity that escalations are decided on are those of the
\* events, however often a script dies between the incident file and the
\* acknowledgment, and although the file forgets its oldest lines.
THEOREM CountsAreTrue == Spec => []IncidentTellsItsEvents
<1>1. Init => InOrder /\ JournalOrder /\ TellsInv
  BY DEF Init, InOrder, In, JournalOrder, Journaled, TellsInv
<1>2. IInv /\ InOrder /\ JournalOrder /\ TellsInv /\ [Next]_vars => InOrder' /\ JournalOrder' /\ TellsInv'
  BY OrderStep, JournalStep, TellsStep
<1>3. TellsInv => IncidentTellsItsEvents
  <2> SUFFICES ASSUME TellsInv PROVE IncidentTellsItsEvents
    OBVIOUS
  <2>1. ASSUME NEW i \in AllFiles PROVE Counted(i)
    BY <2>1 DEF TellsInv, OpenTells, AllFiles, OpenFiles
  <2>2. ASSUME NEW i \in OpenFiles PROVE Ranked(i)
    BY <2>2 DEF TellsInv, OpenTells, OpenFiles
  <2>3. ASSUME NEW i \in OpenFiles
        PROVE  i.severity \in SeverityOf(i) /\ \A v \in SeverityOf(i) : v <= i.severity
    <3>1. PICK s \in i.seen : events[s].severity = i.severity
      BY <2>2, <2>3 DEF Ranked
    <3> QED BY <2>2, <2>3, <3>1 DEF Ranked, SeverityOf
  <2> QED BY <2>1, <2>3 DEF IncidentTellsItsEvents, Counted
<1> QED BY <1>1, <1>2, <1>3, StateInvariant, PTL DEF Spec

-----------------------------------------------------------------------------
(* The files of closed/. *)

\* A suffixed file was made by a recovery that the journal shows; while that
\* recovery waits to be delivered again, whatever its rule has in open/ counts
\* an event that was put back.
Suffixed(f, s) ==
  /\ Journaled(s) /\ events[s].state # "fired"
  /\ s \in pending /\ open[f] # None => s \in restored \/ open[f].seen \cap restored # {}

SuffixInv == \A f \in Slugs, s \in 1..MaxSeq : closed[<<f, s>>] # None => Suffixed(f, s)

LEMMA SuffixStep ==
  ASSUME IInv, InOrder, JournalOrder, TellsInv, SuffixInv, [Next]_vars
  PROVE  SuffixInv'
<1> USE DEF spool, cursor, incidents, Goto
<1>0. /\ Len(events) \in Nat /\ Len(events) <= MaxSeq /\ MaxSeq \in Nat /\ events \in Seq(Event)
      /\ pending \subseteq 1..Len(events)
      /\ open \in [Slugs -> Incident \cup {None}] /\ closed \in [Files -> Incident \cup {None}]
  BY CapAssumption DEF IInv, TypeOK
<1> SUFFICES ASSUME NEW f \in Slugs, NEW s \in 1..MaxSeq, closed'[<<f, s>>] # None
             PROVE  Suffixed(f, s)'
  BY DEF SuffixInv
<1>f. <<f, s>> \in Files
  BY CapAssumption DEF Files
<1>r. restored \subseteq restored' /\ (Journaled(s) => Journaled(s)')
  BY JournalGrows DEF Journaled, Next, Restore, vars
<1>p. pc # "idle" => ev \in 1..MaxSeq /\ ev \in 1..Len(events) /\ File(ev) \in Slugs /\ MovedTo(ev) \in Files
  BY FileTyped DEF IInv
<1>w. closed[<<f, s>>] # None => Suffixed(f, s) /\ s \in 1..Len(events)
  BY DEF SuffixInv, Suffixed, JournalOrder
<1>1. CASE Watcher
  <2>1. PICK e : events' = Append(events, e) /\ pending' = pending \cup {Len(events) + 1}
                 /\ UNCHANGED <<open, closed>>
    BY <1>1 DEF Watcher, Spooled
  <2>2. s \in 1..Len(events) /\ events'[s] = events[s] /\ s # Len(events) + 1
    BY <1>0, <1>w, <2>1
  <2> QED BY <1>r, <1>w, <2>1, <2>2 DEF Suffixed
<1>2. CASE OpenWrite
  <2>1. /\ UNCHANGED <<events, pending, restored, closed, journal>> /\ pc = "write"
    BY <1>2 DEF OpenWrite, Next, Restore, vars
  <2>2. PICK new : /\ open' = [open EXCEPT ![File(ev)] = new]
                   /\ \/ open[File(ev)] = None /\ new.seen = {ev}
                      \/ open[File(ev)] # None /\ new.seen \in {open[File(ev)].seen, open[File(ev)].seen \cup {ev}}
    BY <1>2, WriteAdds
  <2>3. Suffixed(f, s) /\ s \in 1..Len(events)
    BY <1>w, <2>1
  <2>4. ASSUME f = File(ev), s \in pending, s \notin restored PROVE ev \in restored
    <3>1. events[ev].state = "fired" /\ ev \in pending
      BY <2>1 DEF InOrder
    <3>2. s # ev
      BY <2>3, <3>1 DEF Suffixed
    <3>3. ~(s < ev)
      BY <2>1, <2>4 DEF InOrder
    <3>4. ev < s
      BY <1>p, <2>1, <3>2, <3>3
    <3> QED BY <2>3, <3>1, <3>4 DEF Suffixed, JournalOrder
  <2>5. ASSUME f = File(ev), s \in pending, s \notin restored PROVE new.seen \cap restored # {}
    <3>1. ev \in restored
      BY <2>4, <2>5
    <3>2. open[File(ev)] # None => open[File(ev)].seen \cap restored # {}
      BY <2>3, <2>5 DEF Suffixed
    <3> QED BY <2>2, <3>1, <3>2
  <2>6. open'[f] = IF f = File(ev) THEN new ELSE open[f]
    BY <1>0, <1>p, <2>1, <2>2
  <2> QED BY <1>r, <2>1, <2>3, <2>5, <2>6 DEF Suffixed
<1>3. CASE CloseMove
  <2>1. /\ pc = "out" /\ UNCHANGED <<events, pending, restored>>
        /\ closed' = [closed EXCEPT ![ClosedPath(ev)] = open[File(ev)]]
        /\ open' = [open EXCEPT ![File(ev)] = None]
    BY <1>3 DEF CloseMove, Next, Restore, vars
  <2>2. CASE closed[<<f, s>>] # None
    <3>1. open'[f] # None => open'[f] = open[f]
      BY <1>0, <1>p, <2>1
    <3> QED BY <1>r, <1>w, <2>1, <2>2, <3>1 DEF Suffixed
  <2>3. CASE closed[<<f, s>>] = None
    <3>1. <<f, s>> = ClosedPath(ev)
      BY <1>0, <1>f, <2>1, <2>3
    <3>2. f = File(ev) /\ s = ev
      BY <1>p, <2>1, <3>1 DEF ClosedPath
    <3>3. Journaled(s) /\ events[s].state # "fired"
      BY <2>1, <3>2 DEF IInv, StepsAgree, TellsInv
    <3>4. open'[f] = None
      BY <1>0, <1>p, <2>1, <3>2
    <3> QED BY <1>r, <2>1, <3>3, <3>4 DEF Suffixed
  <2> QED BY <2>2, <2>3
<1>4. CASE CloseEdit
  <2>1. /\ pc = "edit" /\ UNCHANGED <<events, pending, restored, open>>
        /\ closed[MovedTo(ev)] # None
    BY <1>4 DEF CloseEdit, Next, Restore, vars, IInv, StepsAgree
  <2>2. closed[<<f, s>>] # None
    <3>1. PICK new \in Incident : closed' = [closed EXCEPT ![MovedTo(ev)] = new]
      BY <1>4, EditTyped
    <3> QED BY <1>0, <1>f, <2>1, <3>1
  <2> QED BY <1>r, <1>w, <2>1, <2>2 DEF Suffixed
<1>5. CASE ~Watcher /\ ~OpenWrite /\ ~CloseMove /\ ~CloseEdit
  <2>1. /\ UNCHANGED <<events, open, closed>>
        /\ \A t \in pending' : t \in pending \/ t \in restored'
    BY <1>5 DEF Next, Agent, Take, OpenJournal, CloseJournal, AckDeduped, AckJournal,
                AckCursor, AckMove, Crash, Restore, vars
  <2> QED BY <1>r, <1>w, <2>1 DEF Suffixed
<1> QED BY <1>1, <1>2, <1>3, <1>4, <1>5

\* The high-water mark never goes back, and no closed incident is overwritten
\* by another that has nothing to do with an event put back, however many
\* scripts die.
THEOREM NothingIsForgotten == Spec => NothingForgotten
<1> DEFINE Inv == IInv /\ InOrder /\ JournalOrder /\ TellsInv /\ SuffixInv
<1>1. Init => InOrder /\ JournalOrder /\ TellsInv /\ SuffixInv
  <2>1. \A f \in Slugs, s \in 1..MaxSeq : <<f, s>> \in Files
    BY CapAssumption DEF Files
  <2> QED BY <2>1 DEF Init, InOrder, In, JournalOrder, Journaled, TellsInv, SuffixInv
<1>2. Inv /\ [Next]_vars => InOrder' /\ JournalOrder' /\ TellsInv' /\ SuffixInv'
  BY OrderStep, JournalStep, TellsStep, SuffixStep
<1>3. Inv /\ [Next]_vars =>
        [/\ last' >= last
         /\ \A f \in Files : closed[f] # None =>
              /\ closed'[f] # None
              /\ \/ closed[f].seen \subseteq closed'[f].seen
                 \/ f[2] \in restored
                 \/ closed'[f].seen \cap restored # {}]_vars
  <2> SUFFICES ASSUME Inv, [Next]_vars
               PROVE  /\ last' >= last
                      /\ \A f \in Files : closed[f] # None =>
                           /\ closed'[f] # None
                           /\ \/ closed[f].seen \subseteq closed'[f].seen
                              \/ f[2] \in restored
                              \/ closed'[f].seen \cap restored # {}
    OBVIOUS
  <2> USE DEF spool, cursor, incidents, Goto
  <2>0. /\ closed \in [Files -> Incident \cup {None}] /\ last \in 0..MaxSeq /\ MaxSeq \in Nat
        /\ pc # "idle" => /\ ev \in 1..MaxSeq /\ File(ev) \in Slugs
                          /\ ClosedPath(ev) \in Files /\ MovedTo(ev) \in Files
    BY CapAssumption, FileTyped DEF IInv, TypeOK
  <2>1. last' >= last
    <3>1. CASE AckCursor
      BY <2>0, <3>1 DEF AckCursor, Higher
    <3>2. CASE ~AckCursor
      <4>1. UNCHANGED last
        BY <3>2 DEF Next, Agent, Watcher, Spooled, Take, OpenJournal, OpenWrite, CloseJournal, CloseMove,
                    CloseEdit, AckDeduped, AckJournal, AckMove, Crash, Restore, vars
      <4> QED BY <2>0, <4>1
    <3> QED BY <3>1, <3>2
  <2> SUFFICES ASSUME NEW f \in Files, closed[f] # None
               PROVE  /\ closed'[f] # None
                      /\ \/ closed[f].seen \subseteq closed'[f].seen
                         \/ f[2] \in restored
                         \/ closed'[f].seen \cap restored # {}
    BY <2>1
  <2>2. CASE CloseMove
    <3>1. /\ pc = "out" /\ open[File(ev)] # None
          /\ closed' = [closed EXCEPT ![ClosedPath(ev)] = open[File(ev)]]
      BY <2>2 DEF CloseMove, IInv, StepsAgree
    <3>2. CASE f = ClosedPath(ev)
      <4>1. f = <<File(ev), ev>>
        BY <3>2 DEF ClosedPath
      <4>2. ev \in pending
        BY <3>1 DEF InOrder
      <4>3. ev \in restored \/ open[File(ev)].seen \cap restored # {}
        BY <2>0, <3>1, <4>1, <4>2 DEF SuffixInv, Suffixed
      <4>4. closed'[f] = open[File(ev)]
        BY <2>0, <3>1, <3>2
      <4> QED BY <3>1, <4>1, <4>3, <4>4
    <3>3. CASE f # ClosedPath(ev)
      BY <2>0, <3>1, <3>3
    <3> QED BY <3>2, <3>3
  <2>3. CASE CloseEdit
    <3> DEFINE old == closed[MovedTo(ev)]
               new == [old EXCEPT !.status = "closed",
                                  !.lines = Trim(Append(@, ev), LineCap - 2),
                                  !.count = @ + 1,
                                  !.seen = @ \cup {ev}]
    <3>1. pc = "edit" /\ closed' = [closed EXCEPT ![MovedTo(ev)] = new] /\ old # None
      BY <2>3 DEF CloseEdit, IInv, StepsAgree
    <3>2. old \in Incident
      BY <2>0, <3>1
    <3>3. new.seen = old.seen \cup {ev}
      BY <3>2 DEF Incident
    <3>4. closed'[f] # None
      <4>1. PICK n \in Incident : closed' = [closed EXCEPT ![MovedTo(ev)] = n]
        BY <2>3, EditTyped
      <4> QED BY <2>0, <3>1, <4>1, NoneAssumption
    <3> HIDE DEF new
    <3> QED BY <2>0, <3>1, <3>3, <3>4
  <2>4. CASE ~CloseMove /\ ~CloseEdit
    <3>1. UNCHANGED closed
      BY <2>4 DEF Next, Agent, Watcher, Spooled, Take, OpenJournal, OpenWrite, CloseJournal, AckDeduped,
                  AckJournal, AckCursor, AckMove, Crash, Restore, vars
    <3> QED BY <3>1
  <2> QED BY <2>2, <2>3, <2>4
<1> QED BY <1>1, <1>2, <1>3, StateInvariant, PTL DEF Spec, NothingForgotten
=============================================================================
