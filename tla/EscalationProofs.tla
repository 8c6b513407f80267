--------------------------- MODULE EscalationProofs ---------------------------
(***************************************************************************)
(* Proofs about Escalation, for every set of rules, routing table and      *)
(* limits: no cooldown without a delivery, the cooldown between two        *)
(* notices of a rule, the daily cap, and that no event is held back        *)
(* without cause.  They hold across crashes and lost answers, because of   *)
(* what is true of the script in flight: nobody else writes the ledger, it *)
(* knows the notice it delivered, and it was let through by the gate.      *)
(***************************************************************************)
EXTENDS Escalation, SequenceTheorems, FiniteSetTheorems, TLAPS

Kept(r) == {m \in 1..Len(notices) : notices[m].kept /\ notices[m].rule = r}

\* The script that runs works on the ledger as it is, and still has a channel
\* to try while it delivers.
HoldsTheLedger ==
  /\ pc # "idle" => job.severity \in Severities
  /\ pc \in {"deliver", "journal", "record"} => job.esc = ledger
  /\ pc = "deliver" => job.todo # <<>>
  /\ pc = "load" => ~job.arrived

\* What it delivered is the last notice, not yet kept; it gets to the record
\* only after the journal shows the delivery.
KnowsItsNotice ==
  /\ job.anyOk => job.arrived
  /\ job.arrived =>
       /\ Len(notices) > 0
       /\ notices[Len(notices)].rule = job.rule
       /\ notices[Len(notices)].at = job.at
       /\ ~notices[Len(notices)].kept
  /\ pc = "record" => job.anyOk /\ <<job.rule, job.at>> \in journal

\* The ledger has the last kept notice of every rule.
LedgerIsLast ==
  \A r \in Rules : \A m \in Kept(r) :
    ledger.notified[r] # Never /\ notices[m].at <= ledger.notified[r]

\* The script that runs was let through.
LetThrough ==
  pc # "idle" => \A m \in Kept(job.rule) : job.at - notices[m].at >= Cooldown

IInv ==
  /\ TypeOK
  /\ NoDeliveryNoCooldown
  /\ HoldsTheLedger
  /\ KnowsItsNotice
  /\ LedgerIsLast
  /\ LetThrough
  /\ CooldownHolds
-----------------------------------------------------------------------------

Notice == [rule : Rules, at : Nat, kept : BOOLEAN]

\* Turning the date leaves the cooldowns alone.
LEMMA RollOverTyped ==
  ASSUME NEW l \in Ledger, NEW day \in Nat
  PROVE  RollOver(l, day) \in Ledger /\ RollOver(l, day).notified = l.notified
  BY DEF RollOver, Ledger

LEMMA RecordedTyped ==
  ASSUME NEW l \in Ledger, NEW r \in Rules, NEW t \in Nat
  PROVE  /\ Recorded(l, r, t) \in Ledger
         /\ Recorded(l, r, t).notified = [l.notified EXCEPT ![r] = t]
  <1>1. Day(t) \in Nat
    BY LimitAssumption DEF Day
  <1>2. RollOver(l, Day(t)) \in Ledger /\ RollOver(l, Day(t)).notified = l.notified
    BY <1>1, RollOverTyped
  <1>3. [l.notified EXCEPT ![r] = t] \in [Rules -> Nat \cup {Never}]
    BY DEF Ledger
  <1> QED BY <1>1, <1>2, <1>3 DEF Recorded, Ledger

LEMMA InitHolds == Init => IInv
  <1> SUFFICES ASSUME Init PROVE IInv
    OBVIOUS
  <1>1. NoLedger \in Ledger /\ \A r \in Rules : NoLedger.notified[r] = Never
    BY DEF NoLedger, Ledger
  <1>2. Blank \in Job
    BY <1>1 DEF Blank, Job
  <1>3. Blank.at = 0 /\ Blank.anyOk = FALSE /\ Blank.arrived = FALSE
    BY DEF Blank
  <1>4. TypeOK
    BY <1>1, <1>2, <1>3 DEF Init, TypeOK, Steps
  <1> QED BY <1>1, <1>3, <1>4 DEF Init, IInv, NoDeliveryNoCooldown, HoldsTheLedger, KnowsItsNotice,
                LedgerIsLast, LetThrough, Kept, CooldownHolds

LEMMA GateKeeps ==
  ASSUME IInv, NEW r \in Rules, NEW sev \in Severities, NEW state \in {"fired", "cleared"},
         NEW persistence \in {1, 3}, NEW others \in BOOLEAN, NEW commit \in BOOLEAN,
         Gate(r, sev, state, persistence, others, commit)
  PROVE  IInv'
  <1> DEFINE tier == Tier(sev, state, persistence, others)
             decision == Decision(ledger, r, tier, clock)
  <1>1. ledger' \in Ledger /\ ledger'.notified = ledger.notified
    <2>1. Day(clock) \in Nat
      <3>1. clock \in Nat
        BY DEF IInv, TypeOK
      <3> QED BY <3>1, LimitAssumption DEF Day
    <2> QED BY <2>1, RollOverTyped DEF Gate, Committed, IInv, TypeOK
  <1>2. decision \in {"allow", "suppress", "batch"}
    BY DEF Decision
  <1>3. job.at <= clock /\ job \in Job /\ pc = "idle"
    BY DEF IInv, TypeOK, Gate
  <1>4. CASE decision = "allow" /\ tier >= 2
    <2>1. job' = [Blank EXCEPT !.rule = r, !.severity = sev, !.at = clock] /\ pc' = "load"
      BY <1>4 DEF Gate
    <2>2. /\ job' \in Job /\ job'.at = clock /\ job'.rule = r /\ job'.severity = sev
          /\ job'.anyOk = FALSE /\ job'.arrived = FALSE
      <3>1. NoLedger \in Ledger
        BY DEF NoLedger, Ledger
      <3>2. job' = [rule |-> r, severity |-> sev, at |-> clock, esc |-> NoLedger, todo |-> <<>>,
                    forced |-> FALSE, anyOk |-> FALSE, arrived |-> FALSE]
        BY <2>1 DEF Blank
      <3>3. clock \in Nat
        BY DEF IInv, TypeOK
      <3> QED BY <3>1, <3>2, <3>3 DEF Job
    <2>3. \A m \in Kept(r) : clock - notices[m].at >= Cooldown
      <3>1. ~CoolingDown(ledger, r, clock)
        <4>1. ~(tier <= 1)
          <5>1. tier \in Int
            BY DEF Tier
          <5> QED BY <5>1, <1>4
        <4> QED BY <1>4, <4>1 DEF Decision
      <3> SUFFICES ASSUME NEW m \in Kept(r) PROVE clock - notices[m].at >= Cooldown
        OBVIOUS
      <3>2. ledger.notified[r] # Never /\ notices[m].at <= ledger.notified[r]
        BY DEF IInv, LedgerIsLast
      <3>3. ledger.notified[r] \in Nat /\ notices[m].at \in Nat /\ clock \in Nat
        <4>1. ledger \in Ledger /\ clock \in Nat /\ m \in 1..Len(notices)
          BY DEF IInv, TypeOK, Kept
        <4>2. notices \in Seq(Notice)
          BY DEF IInv, TypeOK, Notice
        <4>3. notices[m] \in Notice
          BY <4>1, <4>2
        <4> QED BY <3>2, <4>1, <4>3 DEF Ledger, Notice
      <3> QED BY <3>1, <3>2, <3>3, LimitAssumption DEF CoolingDown
    <2>4. TypeOK'
      BY <1>1, <1>2, <1>4, <2>1, <2>2 DEF IInv, TypeOK, Gate, Steps, Allowed
    <2> QED BY <1>1, <2>1, <2>2, <2>3, <2>4
            DEF IInv, Gate, NoDeliveryNoCooldown, HoldsTheLedger, KnowsItsNotice, LedgerIsLast,
                LetThrough, Kept, CooldownHolds
  <1>5. CASE ~(decision = "allow" /\ tier >= 2)
    <2>1. pc' = "idle" /\ job' = job
      BY <1>3, <1>5 DEF Gate
    <2>2. gated' \in {Allowed} \cup [rule : Rules, at : Nat, decision : {"suppress", "batch"}]
      BY <1>2 DEF Gate, IInv, TypeOK
    <2>3. TypeOK'
      BY <1>1, <2>1, <2>2 DEF IInv, TypeOK, Gate, Steps
    <2> QED BY <1>1, <1>3, <2>1, <2>3
            DEF IInv, Gate, NoDeliveryNoCooldown, HoldsTheLedger, KnowsItsNotice, LedgerIsLast,
                LetThrough, Kept, CooldownHolds
  <1> QED BY <1>4, <1>5

LEMMA LoadKeeps == IInv /\ Load => IInv'
  <1> SUFFICES ASSUME IInv, Load PROVE IInv'
    OBVIOUS
  <1>1. PICK forced \in BOOLEAN, todo \in Seq(Channels), now \in {job.at, clock} :
          /\ job' = [job EXCEPT !.at = now, !.esc = ledger, !.todo = todo, !.forced = forced]
          /\ pc' = IF todo = <<>> THEN "journal" ELSE "deliver"
    <2>1. PICK forced \in BOOLEAN :
            \E todo \in IF forced THEN {<<c>> : c \in Channels} ELSE {Routed[job.severity]} :
            \E now \in {job.at, clock} :
              /\ job' = [job EXCEPT !.at = now, !.esc = ledger, !.todo = todo, !.forced = forced]
              /\ pc' = IF todo = <<>> THEN "journal" ELSE "deliver"
      BY DEF Load
    <2>2. Routed[job.severity] \in Seq(Channels)
      BY RoutedAssumption DEF Load, IInv, HoldsTheLedger
    <2>3. \A c \in Channels : <<c>> \in Seq(Channels)
      OBVIOUS
    <2>4. \A todo \in (IF forced THEN {<<c>> : c \in Channels} ELSE {Routed[job.severity]}) :
            todo \in Seq(Channels)
      BY <2>2, <2>3
    <2> QED BY <2>1, <2>4
  <1>2. /\ job' \in Job /\ job'.at = now /\ job'.esc = ledger /\ job'.todo = todo
        /\ job'.rule = job.rule /\ job'.severity = job.severity
        /\ job'.anyOk = job.anyOk /\ job'.arrived = job.arrived
    BY <1>1 DEF IInv, TypeOK, Job
  <1>3. ~job.arrived /\ ~job.anyOk
    BY DEF Load, IInv, HoldsTheLedger, KnowsItsNotice
  <1>4. TypeOK'
    BY <1>1, <1>2 DEF IInv, TypeOK, Load, Steps
  <1>5. LetThrough'
    <2> SUFFICES ASSUME NEW m \in Kept(job.rule) PROVE now - notices[m].at >= Cooldown
      BY <1>1, <1>2 DEF Load, LetThrough, Kept
    <2>1. job.at - notices[m].at >= Cooldown
      BY DEF Load, IInv, LetThrough
    <2>2. m \in 1..Len(notices) /\ notices \in Seq(Notice) /\ job.at \in Nat /\ clock \in Nat
      BY DEF Kept, IInv, TypeOK, Notice, Job
    <2>3. notices[m] \in Notice
      BY <2>2
    <2>4. now >= job.at /\ now \in Nat /\ notices[m].at \in Nat
      BY <2>2, <2>3 DEF Notice, IInv, TypeOK
    <2> QED BY <2>1, <2>2, <2>4, LimitAssumption
  <1> QED BY <1>1, <1>2, <1>3, <1>4, <1>5
          DEF IInv, Load, NoDeliveryNoCooldown, HoldsTheLedger, KnowsItsNotice, LedgerIsLast,
              Kept, CooldownHolds

LEMMA ArrivesTyped ==
  ASSUME IInv, pc = "deliver", Arrives
  PROVE  /\ notices' \in Seq(Notice)
         /\ Len(notices') >= Len(notices)
         /\ \A n \in 1..Len(notices) : notices'[n] = notices[n]
         /\ Len(notices') > 0 /\ notices'[Len(notices')].rule = job.rule
         /\ notices'[Len(notices')].at = job.at /\ ~notices'[Len(notices')].kept
         /\ job.arrived => notices' = notices
         /\ ~job.arrived => Len(notices') = Len(notices) + 1
  <1>1. notices \in Seq(Notice)
    BY DEF IInv, TypeOK, Notice
  <1>2. CASE job.arrived
    BY <1>1, <1>2 DEF Arrives, IInv, KnowsItsNotice
  <1>3. CASE ~job.arrived
    <2> DEFINE new == [rule |-> job.rule, at |-> job.at, kept |-> FALSE]
    <2>1. new \in Notice
      BY DEF IInv, TypeOK, Job, Notice
    <2>2. notices' = Append(notices, new)
      BY <1>3 DEF Arrives
    <2>3. new.rule = job.rule /\ new.at = job.at /\ ~new.kept
      OBVIOUS
    <2> HIDE DEF new
    <2> QED BY <1>1, <1>3, <2>1, <2>2, <2>3
  <1> QED BY <1>2, <1>3

LEMMA ArrivesKeeps ==
  ASSUME IInv, pc = "deliver", Arrives, UNCHANGED <<clock, ledger, journal>>
  PROVE  /\ NoDeliveryNoCooldown'
         /\ \A r \in Rules : Kept(r)' = Kept(r)
         /\ LedgerIsLast'
         /\ CooldownHolds'
  <1> USE ArrivesTyped
  <1>1. NoDeliveryNoCooldown'
    <2> SUFFICES ASSUME NEW r \in Rules, ledger.notified[r] # Never
                 PROVE  /\ \E n \in 1..Len(notices') :
                             notices'[n].rule = r /\ notices'[n].at = ledger.notified[r]
                        /\ <<r, ledger.notified[r]>> \in journal
      BY DEF NoDeliveryNoCooldown
    <2>1. PICK n \in 1..Len(notices) : notices[n].rule = r /\ notices[n].at = ledger.notified[r]
      BY DEF IInv, NoDeliveryNoCooldown
    <2>2. n \in 1..Len(notices') /\ notices'[n] = notices[n]
      OBVIOUS
    <2> QED BY <2>1, <2>2 DEF IInv, NoDeliveryNoCooldown
  <1>2. \A r \in Rules : Kept(r)' = Kept(r)
    BY DEF Kept
  <1>3. LedgerIsLast'
    BY <1>2 DEF IInv, LedgerIsLast, Kept
  <1>4. CooldownHolds'
    <2> SUFFICES ASSUME NEW m \in 1..Len(notices'), NEW n \in 1..Len(notices'),
                        m < n, notices'[m].rule = notices'[n].rule, notices'[m].kept
                 PROVE  notices'[n].at - notices'[m].at >= Cooldown
      BY DEF CooldownHolds
    <2>1. m \in 1..Len(notices) /\ notices'[m] = notices[m]
      OBVIOUS
    <2>2. CASE n \in 1..Len(notices)
      BY <2>1, <2>2 DEF IInv, CooldownHolds
    <2>3. CASE n \notin 1..Len(notices)
      <3>1. notices'[n].rule = job.rule /\ notices'[n].at = job.at
        BY <2>3
      <3>2. m \in Kept(job.rule)
        BY <2>1, <3>1 DEF Kept
      <3> QED BY <2>1, <3>1, <3>2 DEF IInv, LetThrough
    <2> QED BY <2>2, <2>3
  <1> QED BY <1>1, <1>2, <1>3, <1>4
\* A script that ends leaves nothing behind that the invariant speaks of.
LEMMA BlankTyped ==
  /\ Blank \in Job /\ Blank.at = 0 /\ Blank.anyOk = FALSE /\ Blank.arrived = FALSE
  <1>1. NoLedger \in Ledger
    BY DEF NoLedger, Ledger
  <1> QED BY <1>1 DEF Blank, Job

LEMMA AfterChannelTyped ==
  ASSUME IInv, pc = "deliver", NEW ok \in BOOLEAN, NEW arrived \in BOOLEAN, AfterChannel(ok, arrived)
  PROVE  /\ job' \in Job /\ job'.at <= clock
         /\ \/ pc' = "idle" /\ job' = Blank
            \/ /\ pc' \in {"deliver", "journal"}
               /\ job'.rule = job.rule /\ job'.severity = job.severity
               /\ job'.at = job.at /\ job'.esc = job.esc
               /\ job'.anyOk = (job.anyOk \/ ok) /\ job'.arrived = (job.arrived \/ arrived)
               /\ pc' = "deliver" => job'.todo # <<>>
  <1>1. CASE job.forced /\ ~ok
    BY <1>1, BlankTyped DEF AfterChannel, Exit, IInv, TypeOK
  <1>2. CASE ~(job.forced /\ ~ok)
    <2>1. /\ job' = [job EXCEPT !.todo = Tail(@), !.anyOk = @ \/ ok, !.arrived = @ \/ arrived]
          /\ pc' = IF Len(job.todo) > 1 THEN "deliver" ELSE "journal"
      BY <1>2 DEF AfterChannel
    <2>2. job \in Job /\ job.todo # <<>> /\ job.at <= clock
      BY DEF IInv, TypeOK, HoldsTheLedger
    <2>3. job.todo \in Seq(Channels) /\ job.anyOk \in BOOLEAN /\ job.arrived \in BOOLEAN
      BY <2>2 DEF Job
    <2>4. Tail(job.todo) \in Seq(Channels) /\ (Len(job.todo) > 1 => Tail(job.todo) # <<>>)
      <3> DEFINE todo == job.todo
                 rest == Tail(todo)
      <3>1. todo \in Seq(Channels) /\ todo # <<>>
        BY <2>2, <2>3
      <3> HIDE DEF todo
      <3>2. rest \in Seq(Channels) /\ Len(rest) = Len(todo) - 1
        BY <3>1, HeadTailProperties, Zenon
      <3> HIDE DEF rest
      <3>3. Len(todo) > 1 => rest # <<>>
        BY <3>1, <3>2
      <3> QED BY <3>2, <3>3 DEF todo, rest
    <2>5. (job.anyOk \/ ok) \in BOOLEAN /\ (job.arrived \/ arrived) \in BOOLEAN
      OBVIOUS
    <2> DEFINE left == Tail(job.todo)
               reported == job.anyOk \/ ok
               received == job.arrived \/ arrived
    <2>6. job' = [job EXCEPT !.todo = left, !.anyOk = reported, !.arrived = received]
      BY <2>1
    <2>7. reported \in BOOLEAN /\ received \in BOOLEAN /\ left \in Seq(Channels)
      BY <2>4, <2>5
    <2>8. /\ job' \in Job /\ job'.rule = job.rule /\ job'.severity = job.severity
          /\ job'.at = job.at /\ job'.esc = job.esc /\ job'.todo = left
          /\ job'.anyOk = reported /\ job'.arrived = received
      <3> HIDE DEF left, reported, received
      <3> QED BY <2>2, <2>6, <2>7 DEF Job
    <2> QED BY <2>1, <2>2, <2>4, <2>8
  <1> QED BY <1>1, <1>2

LEMMA DeliveryKeeps ==
  ASSUME IInv, pc = "deliver", Arrives, NEW ok \in BOOLEAN, AfterChannel(ok, TRUE),
         UNCHANGED <<clock, ledger, journal, gated>>, faults' \in Nat
  PROVE  IInv'
  <1>1. /\ job' \in Job /\ job'.at <= clock
        /\ \/ pc' = "idle" /\ job' = Blank
           \/ /\ pc' \in {"deliver", "journal"}
              /\ job'.rule = job.rule /\ job'.severity = job.severity
              /\ job'.at = job.at /\ job'.esc = job.esc
              /\ job'.anyOk = (job.anyOk \/ ok) /\ job'.arrived = (job.arrived \/ TRUE)
              /\ pc' = "deliver" => job'.todo # <<>>
    BY AfterChannelTyped
  <1>2. /\ NoDeliveryNoCooldown' /\ LedgerIsLast' /\ CooldownHolds'
        /\ \A r \in Rules : Kept(r)' = Kept(r)
    BY ArrivesKeeps
  <1>3. notices' \in Seq(Notice) /\ \A n \in 1..Len(notices) : notices'[n] = notices[n]
    BY ArrivesTyped
  <1>4. TypeOK'
    BY <1>1, <1>3 DEF IInv, TypeOK, Steps, Notice
  <1>5. HoldsTheLedger'
    BY <1>1 DEF IInv, HoldsTheLedger
  <1>6. KnowsItsNotice'
    BY <1>1, ArrivesTyped, BlankTyped DEF IInv, KnowsItsNotice
  <1>7. LetThrough'
    <2>1. CASE pc' = "idle"
      BY <2>1 DEF LetThrough
    <2>2. CASE pc' \in {"deliver", "journal"}
      <3>1. job'.rule = job.rule /\ job'.at = job.at /\ job.rule \in Rules
        BY <1>1, <2>2 DEF IInv, TypeOK
      <3>2. Kept(job.rule)' = Kept(job.rule)
        BY <1>1, <2>2, <1>2, <3>1 DEF Kept
      <3> QED BY <2>2, <1>3, <3>1, <3>2 DEF IInv, LetThrough, Kept
    <2> QED BY <1>1, <2>1, <2>2
  <1> QED BY <1>2, <1>4, <1>5, <1>6, <1>7 DEF IInv

LEMMA ChannelOkKeeps == IInv /\ ChannelOk => IInv'
  <1> SUFFICES ASSUME IInv, ChannelOk PROVE IInv'
    OBVIOUS
  <1>1. /\ pc = "deliver" /\ Arrives /\ AfterChannel(TRUE, TRUE)
        /\ UNCHANGED <<clock, ledger, journal, gated, faults>>
    BY DEF ChannelOk
  <1>2. faults' \in Nat
    BY <1>1 DEF IInv, TypeOK
  <1> QED BY <1>1, <1>2, DeliveryKeeps

LEMMA AnswerLostKeeps == IInv /\ AnswerLost => IInv'
  <1> SUFFICES ASSUME IInv, AnswerLost PROVE IInv'
    OBVIOUS
  <1>1. /\ pc = "deliver" /\ Arrives /\ AfterChannel(FALSE, TRUE)
        /\ UNCHANGED <<clock, ledger, journal, gated>> /\ faults' = faults + 1
    BY DEF AnswerLost
  <1>2. faults' \in Nat
    BY <1>1 DEF IInv, TypeOK
  <1> QED BY <1>1, <1>2, DeliveryKeeps

LEMMA ChannelFailsKeeps == IInv /\ ChannelFails => IInv'
  <1> SUFFICES ASSUME IInv, ChannelFails PROVE IInv'
    OBVIOUS
  <1>1. /\ pc = "deliver" /\ AfterChannel(FALSE, FALSE)
        /\ UNCHANGED <<clock, ledger, journal, notices, gated, faults>>
    BY DEF ChannelFails
  <1>2. /\ job' \in Job /\ job'.at <= clock
        /\ \/ pc' = "idle" /\ job' = Blank
           \/ /\ pc' \in {"deliver", "journal"}
              /\ job'.rule = job.rule /\ job'.severity = job.severity
              /\ job'.at = job.at /\ job'.esc = job.esc
              /\ job'.anyOk = (job.anyOk \/ FALSE) /\ job'.arrived = (job.arrived \/ FALSE)
              /\ pc' = "deliver" => job'.todo # <<>>
    BY <1>1, AfterChannelTyped
  <1>3. TypeOK'
    BY <1>1, <1>2 DEF IInv, TypeOK, Steps
  <1>4. CASE pc' = "idle" /\ job' = Blank
    BY <1>1, <1>3, <1>4, BlankTyped
       DEF IInv, NoDeliveryNoCooldown, HoldsTheLedger, KnowsItsNotice, LedgerIsLast, LetThrough,
           Kept, CooldownHolds
  <1>5. CASE pc' \in {"deliver", "journal"}
    <2>1. /\ job'.rule = job.rule /\ job'.severity = job.severity /\ job'.at = job.at
          /\ job'.esc = job.esc /\ job'.arrived = (job.arrived \/ FALSE)
          /\ job'.anyOk = (job.anyOk \/ FALSE) /\ (pc' = "deliver" => job'.todo # <<>>)
      BY <1>2, <1>5
    <2>2. HoldsTheLedger'
      BY <1>1, <1>5, <2>1 DEF IInv, HoldsTheLedger
    <2>3. KnowsItsNotice'
      BY <1>1, <1>5, <2>1 DEF IInv, KnowsItsNotice
    <2>4. LetThrough'
      BY <1>1, <1>5, <2>1 DEF IInv, LetThrough, Kept
    <2>5. NoDeliveryNoCooldown' /\ LedgerIsLast' /\ CooldownHolds'
      BY <1>1 DEF IInv, NoDeliveryNoCooldown, LedgerIsLast, Kept, CooldownHolds
    <2> QED BY <1>3, <2>2, <2>3, <2>4, <2>5 DEF IInv
  <1> QED BY <1>2, <1>4, <1>5

LEMMA JournalKeeps == IInv /\ Journal => IInv'
  <1> SUFFICES ASSUME IInv, Journal PROVE IInv'
    OBVIOUS
  <1>1. /\ pc = "journal" /\ UNCHANGED <<clock, ledger, notices, gated, faults>>
        /\ \/ journal' = journal \cup {<<job.rule, job.at>>} /\ pc' = "record" /\ job' = job /\ job.anyOk
           \/ journal' = journal /\ pc' = "idle" /\ job' = Blank
    BY DEF Journal, Exit
  <1>2. job \in Job /\ job.at \in Nat /\ job.rule \in Rules
    BY <1>1 DEF IInv, TypeOK, Job
  <1>3. TypeOK'
    BY <1>1, <1>2, BlankTyped DEF IInv, TypeOK, Steps
  <1> QED BY <1>1, <1>3, BlankTyped
          DEF IInv, NoDeliveryNoCooldown, HoldsTheLedger, KnowsItsNotice, LedgerIsLast, LetThrough,
              Kept, CooldownHolds

LEMMA RecordKeeps == IInv /\ Record => IInv'
  <1> SUFFICES ASSUME IInv, Record PROVE IInv'
    OBVIOUS
  <1> DEFINE last == Len(notices)
  <1>1. /\ pc = "record" /\ pc' = "idle" /\ job' = Blank
        /\ ledger' = Recorded(job.esc, job.rule, job.at)
        /\ UNCHANGED <<clock, journal, gated, faults>>
    BY DEF Record, Exit
  <1>2. /\ job.esc = ledger /\ job.rule \in Rules /\ job.at \in Nat /\ job.at <= clock
        /\ job.arrived /\ <<job.rule, job.at>> \in journal /\ ledger \in Ledger /\ clock \in Nat
    BY <1>1 DEF IInv, TypeOK, HoldsTheLedger, KnowsItsNotice, Job
  <1>3. /\ last \in 1..Len(notices)
        /\ notices[last].rule = job.rule /\ notices[last].at = job.at /\ ~notices[last].kept
    BY <1>2 DEF IInv, KnowsItsNotice, TypeOK
  <1>4. notices \in Seq(Notice)
    BY DEF IInv, TypeOK, Notice
  <1>5. /\ notices' \in Seq(Notice) /\ Len(notices') = Len(notices)
        /\ \A n \in 1..Len(notices) :
             /\ notices'[n].rule = notices[n].rule /\ notices'[n].at = notices[n].at
             /\ n # last => notices'[n] = notices[n]
    <2> DEFINE new(n) == IF n = last THEN [notices[n] EXCEPT !.kept = TRUE] ELSE notices[n]
    <2>1. \A n \in 1..last : new(n) \in Notice /\ new(n).rule = notices[n].rule /\ new(n).at = notices[n].at
      <3> SUFFICES ASSUME NEW n \in 1..last
                   PROVE  new(n) \in Notice /\ new(n).rule = notices[n].rule /\ new(n).at = notices[n].at
        OBVIOUS
      <3>1. notices[n] \in Notice
        BY <1>4
      <3> QED BY <3>1 DEF Notice
    <2>2. notices' = [n \in 1..last |-> new(n)]
      BY DEF Record
    <2>3. \A n \in 1..last : n # last => new(n) = notices[n]
      OBVIOUS
    <2>4. last \in Nat
      BY <1>4
    <2> HIDE DEF new
    <2> QED BY <2>1, <2>2, <2>3, <2>4
  <1>6. ledger' \in Ledger /\ ledger'.notified = [ledger.notified EXCEPT ![job.rule] = job.at]
    BY <1>1, <1>2, RecordedTyped
  <1>7. \A r \in Rules : ledger'.notified[r] = IF r = job.rule THEN job.at ELSE ledger.notified[r]
    BY <1>2, <1>6 DEF Ledger
  <1>8. TypeOK'
    BY <1>1, <1>2, <1>5, <1>6, <1>7, BlankTyped DEF IInv, TypeOK, Steps, Notice
  <1>9. NoDeliveryNoCooldown'
    <2> SUFFICES ASSUME NEW r \in Rules, ledger'.notified[r] # Never
                 PROVE  /\ \E n \in 1..Len(notices') :
                             notices'[n].rule = r /\ notices'[n].at = ledger'.notified[r]
                        /\ <<r, ledger'.notified[r]>> \in journal'
      BY DEF NoDeliveryNoCooldown
    <2>1. CASE r = job.rule
      BY <1>1, <1>2, <1>3, <1>5, <1>7, <2>1
    <2>2. CASE r # job.rule
      BY <1>1, <1>5, <1>7, <2>2 DEF IInv, NoDeliveryNoCooldown
    <2> QED BY <2>1, <2>2
  <1>10. LedgerIsLast'
    <2> SUFFICES ASSUME NEW r \in Rules, NEW m \in Kept(r)'
                 PROVE  ledger'.notified[r] # Never /\ notices'[m].at <= ledger'.notified[r]
      BY DEF LedgerIsLast
    <2>1. m \in 1..Len(notices) /\ notices'[m].rule = r /\ notices'[m].kept
      BY <1>5 DEF Kept
    <2>2. notices[m].at = notices'[m].at /\ notices[m].at \in Nat
      <3>1. notices[m] \in Notice
        BY <1>4, <2>1
      <3> QED BY <1>5, <2>1, <3>1 DEF Notice
    <2>3. m # last => m \in Kept(r)
      BY <1>5, <2>1 DEF Kept
    <2>4. CASE r = job.rule /\ m = last
      BY <1>2, <1>3, <1>7, <2>2, <2>4, LimitAssumption
    <2>5. CASE r = job.rule /\ m # last
      <3>1. job.at - notices[m].at >= Cooldown
        BY <1>1, <2>3, <2>5 DEF IInv, LetThrough
      <3> QED BY <1>2, <1>7, <2>2, <2>5, <3>1, LimitAssumption
    <2>6. CASE r # job.rule
      <3>1. m # last
        BY <1>3, <1>5, <2>1, <2>6
      <3> QED BY <1>7, <2>2, <2>3, <2>6, <3>1 DEF IInv, LedgerIsLast
    <2> QED BY <2>4, <2>5, <2>6
  <1>11. CooldownHolds'
    <2> SUFFICES ASSUME NEW m \in 1..Len(notices'), NEW n \in 1..Len(notices'),
                        m < n, notices'[m].rule = notices'[n].rule, notices'[m].kept
                 PROVE  notices'[n].at - notices'[m].at >= Cooldown
      BY DEF CooldownHolds
    <2>1. m # last
      BY <1>3, <1>5
    <2> QED BY <1>5, <2>1 DEF IInv, CooldownHolds
  <1>12. HoldsTheLedger' /\ KnowsItsNotice' /\ LetThrough'
    BY <1>1, BlankTyped DEF HoldsTheLedger, KnowsItsNotice, LetThrough
  <1> QED BY <1>8, <1>9, <1>10, <1>11, <1>12 DEF IInv

LEMMA TimePassesKeeps == IInv /\ TimePasses => IInv'
  <1> SUFFICES ASSUME IInv, TimePasses PROVE IInv'
    OBVIOUS
  <1>1. clock \in Nat /\ clock' = clock + 1 /\ UNCHANGED <<ledger, journal, notices, gated, pc, job, faults>>
    BY DEF TimePasses, IInv, TypeOK
  <1>2. ledger \in Ledger /\ job \in Job /\ notices \in Seq(Notice)
    BY DEF IInv, TypeOK, Notice
  <1>3. TypeOK'
    BY <1>1, <1>2 DEF IInv, TypeOK, Ledger, Job
  <1> QED BY <1>1, <1>3
          DEF IInv, NoDeliveryNoCooldown, HoldsTheLedger, KnowsItsNotice, LedgerIsLast, LetThrough,
              Kept, CooldownHolds

LEMMA CrashKeeps == IInv /\ Crash => IInv'
  <1> SUFFICES ASSUME IInv, Crash PROVE IInv'
    OBVIOUS
  <1>1. /\ pc' = "idle" /\ job' = Blank /\ faults' = faults + 1
        /\ UNCHANGED <<clock, ledger, journal, notices, gated>>
    BY DEF Crash, Exit
  <1>2. TypeOK'
    BY <1>1, BlankTyped DEF IInv, TypeOK, Steps
  <1> QED BY <1>1, <1>2, BlankTyped
          DEF IInv, NoDeliveryNoCooldown, HoldsTheLedger, KnowsItsNotice, LedgerIsLast, LetThrough,
              Kept, CooldownHolds

LEMMA NextKeeps == IInv /\ [Next]_vars => IInv'
  <1> SUFFICES ASSUME IInv, [Next]_vars PROVE IInv'
    OBVIOUS
  <1>1. ASSUME NEW r \in Rules, NEW sev \in Severities, NEW state \in {"fired", "cleared"},
               NEW persistence \in {1, 3}, NEW others \in BOOLEAN, NEW commit \in BOOLEAN,
               Gate(r, sev, state, persistence, others, commit)
        PROVE  IInv'
    BY <1>1, GateKeeps
  <1>2. CASE Load
    BY <1>2, LoadKeeps
  <1>3. CASE ChannelOk \/ ChannelFails \/ AnswerLost
    BY <1>3, ChannelOkKeeps, ChannelFailsKeeps, AnswerLostKeeps
  <1>4. CASE Journal \/ Record
    BY <1>4, JournalKeeps, RecordKeeps
  <1>5. CASE TimePasses \/ Crash
    BY <1>5, TimePassesKeeps, CrashKeeps
  <1>6. CASE UNCHANGED vars
    BY <1>6 DEF vars, IInv, TypeOK, NoDeliveryNoCooldown, HoldsTheLedger, KnowsItsNotice,
                LedgerIsLast, LetThrough, Kept, CooldownHolds
  <1> QED BY <1>1, <1>2, <1>3, <1>4, <1>5, <1>6 DEF Next

LEMMA Invariant == Spec => []IInv
  BY InitHolds, NextKeeps, PTL DEF Spec

-----------------------------------------------------------------------------

\* No delivery, no cooldown: whatever dies, fails or answers too late, a
\* cooldown in the ledger is that of a notice somebody received.
THEOREM CooldownNeedsDelivery == Spec => []NoDeliveryNoCooldown
  <1>1. IInv => NoDeliveryNoCooldown
    BY DEF IInv
  <1> QED BY <1>1, Invariant, PTL

\* After a notice that reached the ledger its rule is quiet for the cooldown,
\* although the gate that decides and the script that delivers read the
\* ledger and the clock at different times.
THEOREM CooldownIsKept == Spec => []CooldownHolds
  <1>1. IInv => CooldownHolds
    BY DEF IInv
  <1> QED BY <1>1, Invariant, PTL

-----------------------------------------------------------------------------
(* The days. *)

\* A later hour is on no earlier day.
LEMMA DayMonotone ==
  ASSUME NEW s \in Nat, NEW t \in Nat, s <= t
  PROVE  Day(s) \in Nat /\ Day(t) \in Nat /\ Day(s) <= Day(t)
  BY LimitAssumption DEF Day

\* The ledger is never dated ahead: not of the clock, not of the script that
\* runs, and no kept notice is of a later day.
DaysInOrder ==
  /\ ledger.date <= Day(clock)
  /\ pc # "idle" => ledger.date <= Day(job.at)
  /\ \A n \in 1..Len(notices) : notices[n].kept => Day(notices[n].at) <= ledger.date

\* The script that runs has a slot of its day left.
HasASlot == pc # "idle" => Today(ledger, job.at) < DailyCap

CountIsKept == ledger.count = Cardinality(KeptOn(ledger.date))

CapHolds == \A day \in Nat : Cardinality(KeptOn(day)) <= DailyCap

QInv == DaysInOrder /\ HasASlot /\ CountIsKept /\ CapHolds /\ SilenceIsEarned

\* A notice is one, and it has a day.
LEMMA NoticeTyped ==
  ASSUME TypeOK, NEW n \in 1..Len(notices)
  PROVE  notices[n] \in Notice /\ Day(notices[n].at) \in Nat
  <1>1. notices \in Seq(Notice)
    BY DEF TypeOK, Notice
  <1>2. notices[n] \in Notice
    BY <1>1
  <1> QED BY <1>2, DayMonotone, SMTT(30) DEF Notice

\* The kept notices of a day are finitely many.
LEMMA KeptFinite ==
  ASSUME TypeOK, NEW day
  PROVE  IsFiniteSet(KeptOn(day)) /\ Cardinality(KeptOn(day)) \in Nat
  <1>1. Len(notices) \in Nat
    BY DEF TypeOK
  <1>2. IsFiniteSet(1..Len(notices))
    BY <1>1, FS_Interval
  <1>3. IsFiniteSet(KeptOn(day))
    BY <1>2, FS_Subset DEF KeptOn
  <1> QED BY <1>3, FS_CardinalityType

\* What the gate saves turns the date forward, and a new date has no count.
LEMMA TurnedDate ==
  ASSUME TypeOK, DaysInOrder, CountIsKept, NEW l, l \in {ledger, RollOver(ledger, Day(clock))}
  PROVE  /\ l.date \in Nat /\ ledger.date <= l.date /\ l.date <= Day(clock)
         /\ l.count = Cardinality(KeptOn(l.date))
         /\ \A t : Day(t) = Day(clock) => Today(l, t) = Today(ledger, clock)
         /\ l.notified = ledger.notified
  <1>1. ledger \in Ledger /\ clock \in Nat /\ Day(clock) \in Nat
    BY DayMonotone DEF TypeOK
  <1>2. CASE l = ledger
    BY <1>1, <1>2 DEF DaysInOrder, CountIsKept, Ledger, Today
  <1>3. CASE l # ledger
    <2>1. l = [ledger EXCEPT !.date = Day(clock), !.count = 0] /\ ledger.date # Day(clock)
      BY <1>3 DEF RollOver
    <2>2. l.date = Day(clock) /\ l.count = 0 /\ l.notified = ledger.notified /\ ledger.date < Day(clock)
      BY <1>1, <2>1 DEF Ledger, DaysInOrder
    <2>3. KeptOn(Day(clock)) = {}
      <3> SUFFICES ASSUME NEW n \in 1..Len(notices), notices[n].kept PROVE Day(notices[n].at) # Day(clock)
        BY DEF KeptOn
      <3>1. Day(notices[n].at) <= ledger.date
        BY DEF DaysInOrder
      <3>2. Day(notices[n].at) \in Nat
        <4> QED BY NoticeTyped
      <3> QED BY <1>1, <2>2, <3>1, <3>2 DEF Ledger
    <2> QED BY <1>1, <2>2, <2>3, FS_EmptySet DEF Ledger, Today
  <1> QED BY <1>2, <1>3

LEMMA GateQuota ==
  ASSUME IInv, QInv, NEW r \in Rules, NEW sev \in Severities, NEW state \in {"fired", "cleared"},
         NEW persistence \in {1, 3}, NEW others \in BOOLEAN, NEW commit \in BOOLEAN,
         Gate(r, sev, state, persistence, others, commit)
  PROVE  QInv'
  <1> DEFINE tier == Tier(sev, state, persistence, others)
             decision == Decision(ledger, r, tier, clock)
  <1> USE DEF IInv, QInv
  <1>1. /\ ledger'.date \in Nat /\ ledger.date <= ledger'.date /\ ledger'.date <= Day(clock)
        /\ ledger'.count = Cardinality(KeptOn(ledger'.date))
        /\ \A t : Day(t) = Day(clock) => Today(ledger', t) = Today(ledger, clock)
    BY TurnedDate DEF Gate, Committed
  <1>2. UNCHANGED <<clock, notices>> /\ \A day : KeptOn(day)' = KeptOn(day)
    BY DEF Gate, KeptOn
  <1>3. CountIsKept' /\ CapHolds'
    BY <1>1, <1>2 DEF CountIsKept, CapHolds
  <1>4. clock \in Nat /\ Day(clock) \in Nat /\ ledger.date \in Nat
    BY DayMonotone, SMTT(30) DEF TypeOK, Ledger
  <1>5. \A n \in 1..Len(notices) : notices[n].kept => Day(notices[n].at) <= ledger'.date
    <2> SUFFICES ASSUME NEW n \in 1..Len(notices), notices[n].kept PROVE Day(notices[n].at) <= ledger'.date
      OBVIOUS
    <2>2. Day(notices[n].at) \in Nat
      BY NoticeTyped
    <2> QED BY <1>1, <1>4, <2>2 DEF DaysInOrder
  <1>6. DaysInOrder' /\ HasASlot'
    <2>1. CASE decision = "allow" /\ tier >= 2
      <3>1. pc' = "load" /\ job'.at = clock
        BY <2>1 DEF Gate, Blank
      <3>2. Today(ledger, clock) < DailyCap
        <4>1. ~(tier <= 1)
          <5>1. tier \in Int
            BY DEF Tier
          <5> QED BY <2>1, <5>1
        <4>2. ~(Today(ledger, clock) >= DailyCap)
          BY <2>1, <4>1 DEF Decision
        <4>3. Today(ledger, clock) \in Nat
          BY DEF Today, TypeOK, Ledger
        <4> QED BY <4>2, <4>3, LimitAssumption
      <3> QED BY <1>1, <1>2, <1>5, <3>1, <3>2 DEF DaysInOrder, HasASlot
    <2>2. CASE ~(decision = "allow" /\ tier >= 2)
      <3>1. pc' = "idle"
        BY <2>2 DEF Gate
      <3> QED BY <1>1, <1>2, <1>5, <3>1 DEF DaysInOrder, HasASlot
    <2> QED BY <2>1, <2>2
  <1>7. SilenceIsEarned'
    <2>1. gated' = IF decision = "allow" THEN Allowed ELSE [rule |-> r, at |-> clock, decision |-> decision]
      BY DEF Gate
    <2>2. CASE decision = "suppress"
      <3>1. ledger.notified[r] # Never /\ clock - ledger.notified[r] < Cooldown
        BY <2>2 DEF Decision, CoolingDown
      <3>2. ledger.notified[r] <= clock
        BY <3>1 DEF TypeOK
      <3>3. PICK n \in 1..Len(notices) : notices[n].rule = r /\ notices[n].at = ledger.notified[r]
        BY <3>1 DEF NoDeliveryNoCooldown
      <3>4. gated'.rule = r /\ gated'.at = clock /\ gated'.decision = "suppress"
        BY <2>1, <2>2
      <3> QED BY <1>2, <3>1, <3>2, <3>3, <3>4 DEF SilenceIsEarned
    <2>3. CASE decision = "batch"
      <3>1. Today(ledger, clock) >= DailyCap
        BY <2>3 DEF Decision
      <3>2. ledger.date = Day(clock) /\ ledger.count >= DailyCap
        BY <3>1, LimitAssumption DEF Today
      <3>3. gated'.at = clock /\ gated'.decision = "batch"
        BY <2>1, <2>3
      <3> QED BY <1>2, <3>2, <3>3 DEF SilenceIsEarned, CountIsKept
    <2>4. CASE decision = "allow"
      BY <2>1, <2>4 DEF SilenceIsEarned, Allowed
    <2> QED BY <2>2, <2>3, <2>4 DEF Decision
  <1> QED BY <1>3, <1>6, <1>7

\* A step that keeps the ledger, the decision of the gate and, with what the
\* ledger knows of them, the notices, keeps the quota; the script that runs, if
\* any, must still have its slot.
LEMMA LedgerKeptQuota ==
  ASSUME IInv, IInv', QInv, UNCHANGED <<ledger, gated>>, clock <= clock',
         Len(notices) <= Len(notices'),
         \A n \in 1..Len(notices) : notices'[n] = notices[n],
         \A n \in 1..Len(notices') : notices'[n].kept => n \in 1..Len(notices),
         pc' # "idle" => pc # "idle" /\ job.at <= job'.at
  PROVE  QInv'
  <1> USE DEF IInv, QInv
  <1>1. \A day : KeptOn(day)' = KeptOn(day)
    <2>1. Len(notices) \in Nat /\ Len(notices') \in Nat
      BY DEF TypeOK
    <2>2. \A n \in 1..Len(notices) : n \in 1..Len(notices')
      BY <2>1
    <2> QED BY <2>2 DEF KeptOn
  <1>2. CountIsKept' /\ CapHolds'
    BY <1>1 DEF CountIsKept, CapHolds
  <1>3. clock \in Nat /\ clock' \in Nat /\ ledger \in Ledger /\ job \in Job /\ job' \in Job
    BY DEF TypeOK
  <1>4. Day(clock) \in Nat /\ Day(clock') \in Nat /\ Day(clock) <= Day(clock')
    BY <1>3, DayMonotone
  <1>5. pc' # "idle" => /\ Day(job.at) \in Nat /\ Day(job'.at) \in Nat /\ Day(job.at) <= Day(job'.at)
                        /\ ledger.date <= Day(job.at)
    BY <1>3, DayMonotone DEF Job, DaysInOrder
  <1>6. DaysInOrder'
    BY <1>3, <1>4, <1>5, SMTT(30) DEF DaysInOrder, Ledger
  <1>7. HasASlot'
    BY <1>3, <1>5, LimitAssumption DEF HasASlot, Today, Ledger
  <1>8. SilenceIsEarned'
    <2>1. \A n \in 1..Len(notices) : n \in 1..Len(notices') /\ notices'[n] = notices[n]
      BY DEF TypeOK
    <2> QED BY <1>1, <2>1 DEF SilenceIsEarned
  <1> QED BY <1>2, <1>6, <1>7, <1>8

\* The record adds the last notice to those of its day, on the slot that the
\* script was let through with.
LEMMA RecordQuota ==
  ASSUME IInv, IInv', QInv, Record
  PROVE  QInv'
  <1> DEFINE last == Len(notices)
             today == Day(job.at)
  <1> USE DEF IInv, QInv
  <1>1. /\ pc = "record" /\ pc' = "idle"
        /\ ledger' = Recorded(ledger, job.rule, job.at)
        /\ UNCHANGED <<clock, gated>>
    BY DEF Record, Exit, HoldsTheLedger
  <1>2. /\ job.at \in Nat /\ job.at <= clock /\ clock \in Nat /\ ledger \in Ledger /\ job.rule \in Rules
    BY <1>1 DEF TypeOK, Job
  <1>3. /\ last \in 1..Len(notices) /\ last \in Nat
        /\ notices[last].at = job.at /\ ~notices[last].kept
    BY <1>1 DEF KnowsItsNotice, TypeOK
  <1>4. today \in Nat /\ Day(clock) \in Nat /\ today <= Day(clock) /\ ledger.date <= today
        /\ ledger.date \in Nat /\ ledger.count \in Nat
    BY <1>1, <1>2, DayMonotone DEF DaysInOrder, Ledger
  <1>5. /\ Len(notices') = last
        /\ \A n \in 1..last :
             /\ notices'[n].rule = notices[n].rule /\ notices'[n].at = notices[n].at
             /\ notices'[n].kept <=> notices[n].kept \/ n = last
    <2> DEFINE new(n) == IF n = last THEN [notices[n] EXCEPT !.kept = TRUE] ELSE notices[n]
    <2>1. ASSUME NEW n \in 1..last
          PROVE  /\ new(n).rule = notices[n].rule /\ new(n).at = notices[n].at
                 /\ new(n).kept <=> notices[n].kept \/ n = last
      <3> QED BY NoticeTyped DEF Notice
    <2>2. notices' = [n \in 1..last |-> new(n)]
      BY DEF Record
    <2> HIDE DEF new
    <2>3. Len(notices') = last
      BY <1>3, <2>2
    <2> QED BY <2>1, <2>2, <2>3
  <1>6. \A day : KeptOn(day)' = IF day = today THEN KeptOn(day) \cup {last} ELSE KeptOn(day)
    BY <1>3, <1>5 DEF KeptOn
  <1>7. /\ ledger'.date = today
        /\ ledger'.count = (IF ledger.date = today THEN ledger.count ELSE 0) + 1
    BY <1>1, <1>2 DEF Recorded, RollOver, Ledger
  <1>8. /\ \A day : IsFiniteSet(KeptOn(day)) /\ Cardinality(KeptOn(day)) \in Nat
        /\ Cardinality(KeptOn(today) \cup {last}) = Cardinality(KeptOn(today)) + 1
    <2>1. last \notin KeptOn(today)
      BY <1>3 DEF KeptOn
    <2> QED BY <2>1, KeptFinite, FS_AddElement
  <1>9. Cardinality(KeptOn(today)) = IF ledger.date = today THEN ledger.count ELSE 0
    <2>1. CASE ledger.date = today
      BY <2>1 DEF CountIsKept
    <2>2. CASE ledger.date # today
      <3>1. KeptOn(today) = {}
        <4> SUFFICES ASSUME NEW n \in 1..Len(notices), notices[n].kept PROVE Day(notices[n].at) # today
          BY DEF KeptOn
        <4>2. Day(notices[n].at) \in Nat /\ Day(notices[n].at) <= ledger.date
          BY NoticeTyped DEF DaysInOrder
        <4> HIDE DEF today
        <4> QED BY <1>4, <2>2, <4>2
      <3> QED BY <2>2, <3>1, FS_EmptySet
    <2> QED BY <2>1, <2>2
  <1> HIDE DEF today, last
  <1>10. Cardinality(KeptOn(today)) < DailyCap
    BY <1>1, <1>9, LimitAssumption DEF HasASlot, Today, today
  <1>11. CountIsKept'
    BY <1>6, <1>7, <1>8, <1>9 DEF CountIsKept
  <1>12. CapHolds'
    BY <1>6, <1>8, <1>10, LimitAssumption DEF CapHolds
  <1>13. DaysInOrder'
    <2>1. ASSUME NEW n \in 1..last, notices'[n].kept PROVE Day(notices'[n].at) <= today
      <3>1. CASE n = last
        BY <1>3, <1>4, <1>5, <3>1 DEF today
      <3>2. CASE n # last
        <4>1. notices[n].kept /\ notices'[n].at = notices[n].at /\ n \in 1..Len(notices)
          BY <1>5, <2>1, <3>2 DEF last
        <4>3. Day(notices[n].at) \in Nat /\ Day(notices[n].at) <= ledger.date
          BY <4>1, NoticeTyped DEF DaysInOrder
        <4> QED BY <1>4, <4>1, <4>3
      <3> QED BY <3>1, <3>2
    <2> QED BY <1>1, <1>4, <1>5, <1>7, <2>1 DEF DaysInOrder
  <1>14. HasASlot'
    BY <1>1 DEF HasASlot
  <1>15. SilenceIsEarned'
    <2>1. ASSUME NEW day, Cardinality(KeptOn(day)) >= DailyCap
          PROVE  Cardinality(KeptOn(day))' >= DailyCap
      <3>1. CASE day = today
        <4>1. Cardinality(KeptOn(day))' = Cardinality(KeptOn(day)) + 1
          BY <1>6, <1>8, <3>1
        <4>2. Cardinality(KeptOn(day)) \in Nat
          BY <1>8
        <4> QED BY <2>1, <4>1, <4>2, LimitAssumption
      <3>2. CASE day # today
        BY <1>6, <2>1, <3>2
      <3> QED BY <3>1, <3>2
    <2>2. gated.decision = "batch" => Cardinality(KeptOn(Day(gated.at)))' >= DailyCap
      BY <1>1, <2>1 DEF SilenceIsEarned
    <2>3. \A n \in 1..Len(notices) : /\ n \in 1..Len(notices')
                                     /\ notices'[n].rule = notices[n].rule /\ notices'[n].at = notices[n].at
      BY <1>5 DEF last
    <2> QED BY <1>1, <2>2, <2>3 DEF SilenceIsEarned
  <1> QED BY <1>11, <1>12, <1>13, <1>14, <1>15

LEMMA NextQuota == IInv /\ IInv' /\ QInv /\ [Next]_vars => QInv'
  <1> SUFFICES ASSUME IInv, IInv', QInv, [Next]_vars PROVE QInv'
    OBVIOUS
  <1>1. notices \in Seq(Notice) /\ Len(notices) \in Nat /\ clock \in Nat /\ job.at \in Nat
        /\ job.at <= clock
    BY DEF IInv, TypeOK, Notice, Job
  <1>2. ASSUME NEW r \in Rules, NEW sev \in Severities, NEW state \in {"fired", "cleared"},
               NEW persistence \in {1, 3}, NEW others \in BOOLEAN, NEW commit \in BOOLEAN,
               Gate(r, sev, state, persistence, others, commit)
        PROVE  QInv'
    BY <1>2, GateQuota
  <1>3. CASE Record
    BY <1>3, RecordQuota
  <1>4. CASE Load
    <2>1. UNCHANGED <<clock, ledger, notices, gated>> /\ pc # "idle"
      BY <1>4 DEF Load
    <2>2. job'.at \in {job.at, clock}
      <3>1. job \in Job
        BY DEF IInv, TypeOK
      <3> QED BY <1>4, <3>1 DEF Load, Job
    <2> QED BY <1>1, <2>1, <2>2, LedgerKeptQuota
  <1>5. CASE Journal \/ TimePasses \/ Crash \/ UNCHANGED vars
    <2>1. UNCHANGED <<ledger, notices, gated>> /\ clock <= clock'
      BY <1>1, <1>5 DEF Journal, TimePasses, Crash, vars
    <2>2. pc' # "idle" => pc # "idle" /\ job' = job
      BY <1>5 DEF Journal, TimePasses, Crash, Exit, vars
    <2> QED BY <1>1, <2>1, <2>2, LedgerKeptQuota
  <1>6. ASSUME pc = "deliver", NEW ok \in BOOLEAN, NEW arrived \in BOOLEAN, AfterChannel(ok, arrived)
        PROVE  pc' # "idle" => job'.at = job.at
    BY <1>6, AfterChannelTyped
  <1>7. CASE ChannelFails
    <2>1. UNCHANGED <<clock, ledger, notices, gated>> /\ pc # "idle" /\ (pc' # "idle" => job'.at = job.at)
      BY <1>6, <1>7 DEF ChannelFails
    <2> QED BY <1>1, <2>1, LedgerKeptQuota
  <1>8. CASE ChannelOk \/ AnswerLost
    <2>1. /\ UNCHANGED <<clock, ledger, gated>> /\ pc = "deliver" /\ Arrives
          /\ pc' # "idle" => job'.at = job.at
      BY <1>6, <1>8 DEF ChannelOk, AnswerLost
    <2>2. /\ notices' \in Seq(Notice) /\ Len(notices') >= Len(notices)
          /\ \A n \in 1..Len(notices) : notices'[n] = notices[n]
          /\ ~notices'[Len(notices')].kept
          /\ Len(notices') = Len(notices) \/ Len(notices') = Len(notices) + 1
      BY <2>1, ArrivesTyped
    <2>3. \A n \in 1..Len(notices') : n \in 1..Len(notices) \/ n = Len(notices')
      BY <1>1, <2>2
    <2> QED BY <1>1, <2>1, <2>2, <2>3, LedgerKeptQuota
  <1> QED BY <1>2, <1>3, <1>4, <1>5, <1>7, <1>8 DEF Next

LEMMA InitQuota == Init => QInv
  <1> SUFFICES ASSUME Init PROVE QInv
    OBVIOUS
  <1>1. \A day : KeptOn(day) = {}
    BY DEF Init, KeptOn
  <1>2. \A day : Cardinality(KeptOn(day)) = 0
    BY <1>1, FS_EmptySet
  <1>3. Day(0) \in Nat
    BY DayMonotone
  <1> QED BY <1>2, <1>3, LimitAssumption
          DEF Init, QInv, DaysInOrder, HasASlot, CountIsKept, CapHolds, SilenceIsEarned, NoLedger, Allowed

LEMMA QuotaInvariant == Spec => []QInv
  BY InitQuota, NextQuota, Invariant, PTL DEF Spec

\* The daily cap: the count of the ledger is that of the kept notices of its
\* date, whichever script saw the new date first, and no day has more kept
\* notices than the cap, also when the gate decides before midnight and
\* notify.py delivers after it.
THEOREM QuotaIsKept == Spec => []QuotaHolds
  <1>1. IInv /\ QInv => QuotaHolds
    <2> SUFFICES ASSUME IInv, QInv, NEW n \in 1..Len(notices)
                 PROVE  Cardinality(KeptOn(Day(notices[n].at))) <= DailyCap
      BY DEF QuotaHolds, QInv, CountIsKept
    <2>2. Day(notices[n].at) \in Nat
      BY NoticeTyped DEF IInv
    <2> QED BY <2>2 DEF QInv, CapHolds
  <1> QED BY <1>1, Invariant, QuotaInvariant, PTL

\* No event is held back without cause: not by a cooldown no notice of its rule
\* explains, and not by a cap its day has not used up.
THEOREM SilenceHasACause == Spec => []SilenceIsEarned
  <1>1. QInv => SilenceIsEarned
    BY DEF QInv
  <1> QED BY <1>1, QuotaInvariant, PTL
=============================================================================
