------------------------------ MODULE Escalation ------------------------------
(***************************************************************************)
(* Escalation and notification (escalation_gate.py, notify.py): two        *)
(* processes over one ledger, escalation.json.  The gate decides whether   *)
(* an event may notify; notify.py delivers on the channels the severity is *)
(* routed to and, if one of them took it, spends the cooldown of the rule  *)
(* and a slot of the day.  Either may die between two of its steps, and    *)
(* the event is then handled again.                                        *)
(*                                                                         *)
(* The scripts are run one after the other (SKILL.md, "Serial dispatch"),  *)
(* so the gate, which writes nothing but the ledger that anything reads,   *)
(* is one step.  Times are hours of one time zone, and --now never goes    *)
(* back from one event to the next.  The draft of an issue, the notes the  *)
(* gate makes in ledger and journal, and the digest the agent sends for    *)
(* batched events decide nothing and are left out.                         *)
(***************************************************************************)
EXTENDS Integers, Sequences, FiniteSets

CONSTANTS
  Rules,      \* the rule names
  Channels,   \* the delivery adapters
  Routed,     \* the channels a severity is routed to, in order
  Cooldown,   \* --cooldown-hours
  DailyCap,   \* --daily-cap
  DayLength,  \* hours of a day
  Never,      \* a rule without last_notified
  MaxTime,    \* bound: the hours explored
  MaxNotices, \* bound: the notices explored
  MaxFaults   \* bound: crashes and lost answers explored

Severities == {"info", "warning", "critical"}

ASSUME RoutedAssumption == Routed \in [Severities -> Seq(Channels)]
ASSUME LimitAssumption ==
  /\ Cooldown \in Nat
  /\ DailyCap \in Nat \ {0}
  /\ DayLength \in Nat \ {0}
  /\ Never \notin Int
  /\ MaxTime \in Nat /\ MaxNotices \in Nat /\ MaxFaults \in Nat

VARIABLES
  clock,    \* the time
  ledger,   \* escalation.json
  journal,  \* the "notify" lines that show a delivery: <<rule, time>>
  notices,  \* history: what people received; `kept` once the ledger has it
  gated,    \* history: the event the gate held back last, Allowed if none
  pc,       \* where notify.py stands, "idle" when no script runs
  job,      \* the memory of the script that runs
  faults    \* history: crashes and lost answers so far

vars == <<clock, ledger, journal, notices, gated, pc, job, faults>>

Day(t) == t \div DayLength

Ledger == [date : Nat, count : Nat, notified : [Rules -> Nat \cup {Never}]]
NoLedger == [date |-> 0, count |-> 0, notified |-> [r \in Rules |-> Never]]

\* What notify.py holds: --rule, --severity, --now, the ledger as loaded, the
\* channels still to be tried (`forced`: by --adapter), whether one reported
\* success and, as history, whether one delivered.
Job == [rule : Rules \cup {Never}, severity : Severities \cup {Never}, at : Nat, esc : Ledger,
        todo : Seq(Channels), forced : BOOLEAN, anyOk : BOOLEAN, arrived : BOOLEAN]
Blank == [rule |-> Never, severity |-> Never, at |-> 0, esc |-> NoLedger,
          todo |-> <<>>, forced |-> FALSE, anyOk |-> FALSE, arrived |-> FALSE]
Allowed == [rule |-> Never, at |-> 0, decision |-> "allow"]

\* Seeded fault: a new day forgets the cooldowns as well.
RollOverForgets(l, day) ==
  IF l.date = day THEN l
  ELSE [date |-> day, count |-> 0, notified |-> [r \in Rules |-> Never]]

\* The first of the gate and the delivery to see a new date resets the count.
RollOver(l, day) == IF l.date = day THEN l ELSE [l EXCEPT !.date = day, !.count = 0]

-----------------------------------------------------------------------------
(* escalation_gate.py *)

\* The tier ladder; `others` says that another rule has an open critical.
Tier(sev, state, persistence, others) ==
  IF state = "cleared" \/ sev = "info" THEN 0
  ELSE IF sev = "warning" THEN IF persistence >= 3 THEN 2 ELSE 1
  ELSE IF others THEN 4
  ELSE IF persistence >= 3 THEN 3 ELSE 2

CoolingDown(l, r, t) == l.notified[r] # Never /\ t - l.notified[r] < Cooldown

Today(l, t) == IF l.date = Day(t) THEN l.count ELSE 0

\* Seeded fault: the count of another day is held against this one.
DecisionAnyDay(l, r, tier, t) ==
  IF tier <= 1 THEN "allow"
  ELSE IF CoolingDown(l, r, t) THEN "suppress"
  ELSE IF l.count >= DailyCap THEN "batch"
  ELSE "allow"

Decision(l, r, tier, t) ==
  IF tier <= 1 THEN "allow"
  ELSE IF CoolingDown(l, r, t) THEN "suppress"
  ELSE IF Today(l, t) >= DailyCap THEN "batch"
  ELSE "allow"

\* Seeded fault: the gate arms the cooldown of what it lets through.
CommittedArms(l, r, decision) ==
  [RollOver(l, Day(clock)) EXCEPT !.notified[r] = IF decision = "allow" THEN clock ELSE @]

\* What --commit saves.
Committed(l, r, decision) == RollOver(l, Day(clock))

\* The gate for an event; the agent runs notify.py if it says "allow" at a
\* tier that notifies.
Gate(r, sev, state, persistence, others, commit) ==
  LET tier == Tier(sev, state, persistence, others)
      decision == Decision(ledger, r, tier, clock)
  IN  /\ pc = "idle"
      /\ gated' = IF decision = "allow" THEN Allowed
                  ELSE [rule |-> r, at |-> clock, decision |-> decision]
      /\ ledger' = IF commit THEN Committed(ledger, r, decision) ELSE ledger
      /\ IF decision = "allow" /\ tier >= 2
           THEN /\ pc' = "load"
                /\ job' = [Blank EXCEPT !.rule = r, !.severity = sev, !.at = clock]
           ELSE UNCHANGED <<pc, job>>
      /\ UNCHANGED <<clock, journal, notices, faults>>

-----------------------------------------------------------------------------
(* notify.py *)

\* Before any side effect the ledger is loaded; --now is that of the gate or
\* the present, --adapter forces one channel, and a severity routed to no
\* channel is muted.
Load ==
  /\ pc = "load"
  /\ Len(notices) < MaxNotices
  /\ \E forced \in BOOLEAN :
     \E todo \in IF forced THEN {<<c>> : c \in Channels} ELSE {Routed[job.severity]} :
     \E now \in {job.at, clock} :
       /\ job' = [job EXCEPT !.at = now, !.esc = ledger, !.todo = todo, !.forced = forced]
       /\ pc' = IF todo = <<>> THEN "journal" ELSE "deliver"
  /\ UNCHANGED <<clock, ledger, journal, notices, gated, faults>>

\* A notice arrives; the other channels of the same run add nothing to it.
Arrives ==
  notices' = IF job.arrived THEN notices
             ELSE Append(notices, [rule |-> job.rule, at |-> job.at, kept |-> FALSE])

Exit == pc' = "idle" /\ job' = Blank

\* After a channel: the next one, or the journal; a forced channel that fails
\* ends the script at once.
AfterChannel(ok, arrived) ==
  IF job.forced /\ ~ok THEN Exit
  ELSE /\ job' = [job EXCEPT !.todo = Tail(@), !.anyOk = @ \/ ok, !.arrived = @ \/ arrived]
       /\ pc' = IF Len(job.todo) > 1 THEN "deliver" ELSE "journal"

ChannelOk ==
  /\ pc = "deliver"
  /\ Arrives
  /\ AfterChannel(TRUE, TRUE)
  /\ UNCHANGED <<clock, ledger, journal, gated, faults>>

ChannelFails ==
  /\ pc = "deliver"
  /\ AfterChannel(FALSE, FALSE)
  /\ UNCHANGED <<clock, ledger, journal, notices, gated, faults>>

\* The channel took the notice and its answer was lost: a failure to the
\* script, a notice to whom it was for.
AnswerLost ==
  /\ pc = "deliver" /\ faults < MaxFaults
  /\ faults' = faults + 1
  /\ Arrives
  /\ AfterChannel(FALSE, TRUE)
  /\ UNCHANGED <<clock, ledger, journal, gated>>

\* The outcomes of all channels are journalled, a total failure and a muted
\* severity too (those lines are left out of `journal`).
Journal ==
  /\ pc = "journal"
  /\ IF job.anyOk
       THEN /\ journal' = journal \cup {<<job.rule, job.at>>}
            /\ pc' = "record"
            /\ job' = job
       ELSE journal' = journal /\ Exit
  /\ UNCHANGED <<clock, ledger, notices, gated, faults>>

\* Seeded fault: the count goes on over midnight.
RecordedNoRollOver(l, r, t) == [l EXCEPT !.notified[r] = t, !.count = @ + 1]

\* _record_delivery
Recorded(l, r, t) ==
  [date     |-> Day(t),
   count    |-> RollOver(l, Day(t)).count + 1,
   notified |-> [RollOver(l, Day(t)).notified EXCEPT ![r] = t]]

Record ==
  /\ pc = "record"
  /\ ledger' = Recorded(job.esc, job.rule, job.at)
  /\ notices' = [n \in 1..Len(notices) |->
                   IF n = Len(notices) THEN [notices[n] EXCEPT !.kept = TRUE] ELSE notices[n]]
  /\ Exit
  /\ UNCHANGED <<clock, journal, gated, faults>>

-----------------------------------------------------------------------------

TimePasses ==
  /\ clock < MaxTime
  /\ clock' = clock + 1
  /\ UNCHANGED <<ledger, journal, notices, gated, pc, job, faults>>

\* A script dies, or the agent before it ran notify.py.
Crash ==
  /\ pc # "idle" /\ faults < MaxFaults
  /\ faults' = faults + 1
  /\ Exit
  /\ UNCHANGED <<clock, ledger, journal, notices, gated>>

Init ==
  /\ clock = 0
  /\ ledger = NoLedger
  /\ journal = {}
  /\ notices = <<>>
  /\ gated = Allowed
  /\ pc = "idle"
  /\ job = Blank
  /\ faults = 0

Next ==
  \/ \E r \in Rules, sev \in Severities, state \in {"fired", "cleared"},
        persistence \in {1, 3}, others \in BOOLEAN, commit \in BOOLEAN :
       Gate(r, sev, state, persistence, others, commit)
  \/ Load \/ ChannelOk \/ ChannelFails \/ AnswerLost \/ Journal \/ Record
  \/ TimePasses \/ Crash

Spec == Init /\ [][Next]_vars
-----------------------------------------------------------------------------

Steps == {"idle", "load", "deliver", "journal", "record"}

\* The type invariant; no time in the ledger is ahead of the clock.
TypeOK ==
  /\ clock \in Nat
  /\ ledger \in Ledger
  /\ \A r \in Rules : ledger.notified[r] # Never => ledger.notified[r] <= clock
  /\ journal \subseteq Rules \X Nat
  /\ notices \in Seq([rule : Rules, at : Nat, kept : BOOLEAN])
  /\ gated \in {Allowed} \cup [rule : Rules, at : Nat, decision : {"suppress", "batch"}]
  /\ pc \in Steps
  /\ job \in Job
  /\ job.at <= clock
  /\ pc # "idle" => job.rule \in Rules
  /\ faults \in Nat

\* "No delivery, no cooldown": a cooldown in the ledger is that of a notice
\* somebody received and that the journal shows (escalation_gate.py, notify.py).
NoDeliveryNoCooldown ==
  \A r \in Rules : ledger.notified[r] # Never =>
    /\ \E n \in 1..Len(notices) : notices[n].rule = r /\ notices[n].at = ledger.notified[r]
    /\ <<r, ledger.notified[r]>> \in journal

\* The notices the ledger knows of, by day.
KeptOn(day) == {n \in 1..Len(notices) : notices[n].kept /\ Day(notices[n].at) = day}

\* "A crash before delivery cannot suppress the redelivery": an event is held
\* back only while its rule has a notice younger than the cooldown, or on a
\* day whose cap is used up.
SilenceIsEarned ==
  /\ gated.decision = "suppress" =>
       \E n \in 1..Len(notices) :
         /\ notices[n].rule = gated.rule
         /\ notices[n].at <= gated.at /\ gated.at - notices[n].at < Cooldown
  /\ gated.decision = "batch" => Cardinality(KeptOn(Day(gated.at))) >= DailyCap

\* "The tier-2 cooldown applies": after a notice the ledger knows of, the rule
\* is quiet for the cooldown; only a crash before the record or a lost answer
\* lets two notices come close.
CooldownHolds ==
  \A m, n \in 1..Len(notices) :
    m < n /\ notices[m].rule = notices[n].rule /\ notices[m].kept
      => notices[n].at - notices[m].at >= Cooldown

\* The daily cap: the count of the ledger is that of the notices of its date,
\* whichever of the two scripts saw the new date first, and of the notices the
\* ledger knows of no day has more than the cap, although the gate may decide
\* before midnight and notify.py deliver after it.
QuotaHolds ==
  /\ ledger.count = Cardinality(KeptOn(ledger.date))
  /\ \A n \in 1..Len(notices) : Cardinality(KeptOn(Day(notices[n].at))) <= DailyCap
=============================================================================
