----------------------------- MODULE WatchProofs ------------------------------
(***************************************************************************)
(* Proofs about the watch process, for every bound, mode and width of the  *)
(* counter.  The three results about numbers rest on one inductive         *)
(* invariant: watch.seq covers every number in a sink, the memory of a     *)
(* running process agrees with watch.seq, and the number being emitted is  *)
(* newer than every other.                                                 *)
(***************************************************************************)
EXTENDS Watch, FiniteSetTheorems, TLAPS

\* Used is a number whenever watch.seq can be parsed.
LEMMA UsedTyped ==
  ASSUME TypeOK, seqFile # Corrupt
  PROVE  Used \in 0..SeqMax
BY SeqAssumption DEF TypeOK, Used

\* The inductive invariant.
IInv ==
  /\ TypeOK
  /\ NumbersAgree
  /\ PersistedFirst
  /\ NumberNeverReused
  /\ OrderPreserved

\* A step that leaves the sinks, watch.seq and the memory alone, and does not
\* move into the reservation or the emission, keeps the invariant.
LEMMA QuietStep ==
  ASSUME IInv, TypeOK',
         UNCHANGED <<seqFile, sinks, last, cur>>, seen' >= seen,
         (pc' = pc /\ UNCHANGED <<seqTmp, next, seen>>) \/ pc' \in {"top", "pace", "down"},
         pc' # "down" => pc # "down"
  PROVE  IInv'
<1>1. NumbersAgree'
  BY DEF IInv, NumbersAgree, TypeOK, Used, Emitting
<1> QED BY <1>1 DEF IInv, PersistedFirst, NumberNeverReused, OrderPreserved

\* Emitting the current transition under the current number keeps it.
LEMMA EmitStep ==
  ASSUME IInv, TypeOK', NEW sink, pc \in Emitting,
         sinks' \in {sinks, sinks \cup {Event(sink)}},
         UNCHANGED <<seqFile, last, cur, seen>>,
         \/ pc' \in {"spool", "publish", "print"} /\ next' = next
         \/ pc' = "reserve" /\ next < seen /\ next' = next + 1
         \/ pc' \in {"pace", "down"}
  PROVE  IInv'
<1> DEFINE new == Event(sink)
<1>1. /\ new.seq = cur /\ new.id = next
      /\ cur \in Seqs /\ next \in Nat \ {0} /\ seen \in Nat /\ next <= seen
      /\ seqFile \in Seqs /\ cur = seqFile
  BY SeqAssumption DEF IInv, TypeOK, NumbersAgree, Event, Seqs, Used, Emitting
<1>2. \A e \in sinks : e.seq \in Nat /\ e.id \in Nat
  BY DEF IInv, TypeOK, Seqs
<1>3. \A e \in sinks : e.id <= next /\ (e.id = next <=> e.seq = cur) /\ e.seq <= seqFile
  BY DEF IInv, NumbersAgree, PersistedFirst
<1> HIDE DEF new
<1>4. \A e \in sinks' : e \in sinks \/ e = new
  BY DEF new
<1>5. \A e \in sinks' :
        /\ e.seq \in Nat /\ e.id \in Nat /\ e.id <= next /\ e.seq <= seqFile
        /\ (e.id = next <=> e.seq = cur)
  BY <1>1, <1>2, <1>3, <1>4, SeqAssumption DEF Seqs
<1>6. NumbersAgree'
  BY <1>1, <1>5 DEF IInv, NumbersAgree, Used, Emitting
<1>7. PersistedFirst'
  BY <1>1, <1>5 DEF PersistedFirst
<1>8. NumberNeverReused'
  BY <1>1, <1>4, <1>5 DEF IInv, NumberNeverReused
<1>9. OrderPreserved'
  <2> SUFFICES ASSUME NEW e \in sinks', NEW f \in sinks', e.id < f.id PROVE e.seq < f.seq
    BY DEF OrderPreserved
  <2>1. CASE f = new
    BY <1>1, <1>5, <2>1
  <2>2. CASE f # new
    <3>1. f \in sinks /\ e \in sinks
      BY <1>1, <1>4, <1>5, <2>2
    <3> QED BY <3>1 DEF IInv, OrderPreserved
  <2> QED BY <2>1, <2>2
<1> QED BY <1>6, <1>7, <1>8, <1>9 DEF IInv

\* The inductive invariant holds in every reachable state.
THEOREM NumbersInvariant == Spec => []IInv
<1> USE SeqAssumption, BoundAssumption
<1>1. Init => IInv
  <2>0. Init => shutdown \in BOOLEAN /\ expired \in BOOLEAN
    BY DEF Init
  <2>1. Init => TypeOK
    BY <2>0 DEF Init, TypeOK, SUCCESS, Seqs
  <2> QED BY <2>1 DEF Init, IInv, NumbersAgree, PersistedFirst, NumberNeverReused, OrderPreserved,
                      Emitting
<1>2. IInv /\ [Next]_vars => IInv'
  <2> SUFFICES ASSUME IInv, [Next]_vars PROVE IInv'
    OBVIOUS
  <2> USE DEF disk, Exit, Goto
  <2>0. TypeOK'
    <3> USE DEF TypeOK, Fault, Steps, SUCCESS, FATAL, EVENT_FIRED, PANIC, INTERRUPTED, KILLED
    <3>0. mode' \in Modes
      BY DEF IInv, Next, Step, Environment, vars
    <3>a. CASE Start
      <4>1. shutdown' \in BOOLEAN /\ expired' \in BOOLEAN
        BY <3>a DEF IInv, Start
      <4> QED BY <3>0, <3>a, <4>1, UsedTyped DEF IInv, Start
    <3>b. CASE StartFails \/ Signal \/ DeadlinePasses \/ Crash
      <4>1. shutdown' \in BOOLEAN /\ expired' \in BOOLEAN
        BY <3>b DEF IInv, StartFails, Signal, DeadlinePasses, Crash
      <4> QED BY <3>0, <3>b, <4>1 DEF IInv, StartFails, Signal, DeadlinePasses, Crash
    <3>2. CASE ExitInterrupted \/ ExitTimedOut \/ ExitExhausted \/ Poll
      BY <3>0, <3>2 DEF IInv, ExitInterrupted, ExitTimedOut, ExitExhausted, Poll
    <3>3. CASE ReserveExhausted \/ Reserve \/ Commit \/ SeqFails
      <4>1. shutdown' \in BOOLEAN /\ expired' \in BOOLEAN
        BY <3>3 DEF IInv, ReserveExhausted, Reserve, Commit, SeqFails
      <4> QED BY <3>0, <3>3, <4>1 DEF IInv, NumbersAgree, ReserveExhausted, Reserve, Commit, SeqFails
    <3>4. ASSUME NEW sink \in {"log", "spool", "stdout"}, pc \in Emitting
          PROVE  sinks \cup {Event(sink)} \subseteq [sink : {"log", "spool", "stdout"}, seq : Seqs, id : Nat \ {0}]
      BY <3>4 DEF IInv, NumbersAgree, Event, Seqs
    <3>5. CASE LogEvent \/ SkipSpool \/ StageSpool \/ PublishSpool \/ PrintEvent \/ Paced
      <4>1. shutdown' \in BOOLEAN /\ expired' \in BOOLEAN
        BY <3>5 DEF IInv, LogEvent, SkipSpool, StageSpool, PublishSpool, PrintEvent, Paced, AfterSpool
      <4> QED BY <3>0, <3>4, <3>5, <4>1 DEF IInv, LogEvent, SkipSpool, StageSpool, PublishSpool, PrintEvent, Paced, AfterSpool,
                        AfterEvent, Emitting
    <3>6. CASE UNCHANGED vars
      BY <3>0, <3>6 DEF IInv, vars
    <3> QED BY <3>a, <3>b, <3>2, <3>3, <3>5, <3>6 DEF Next, Step, Environment
  <2>1. CASE Start
    <3>1. NumbersAgree'
      BY <2>1, <2>0 DEF Start, IInv, NumbersAgree, TypeOK, Used, Emitting, FATAL
    <3> QED BY <2>0, <2>1, <3>1 DEF Start, IInv, PersistedFirst, NumberNeverReused, OrderPreserved
  <2>2. CASE StartFails \/ Signal \/ DeadlinePasses \/ Crash
    BY <2>0, <2>2, QuietStep DEF StartFails, Signal, DeadlinePasses, Crash, IInv, TypeOK
  <2>3. CASE ExitInterrupted \/ ExitTimedOut \/ ExitExhausted \/ ReserveExhausted \/ Paced
    BY <2>0, <2>3, QuietStep DEF ExitInterrupted, ExitTimedOut, ExitExhausted, ReserveExhausted, Paced,
                                 IInv, TypeOK
  <2>4. CASE Poll
    <3>1. NumbersAgree'
      BY <2>4, <2>0 DEF Poll, IInv, NumbersAgree, TypeOK, Used, Emitting, Seqs
    <3> QED BY <2>0, <2>4, <3>1 DEF Poll, IInv, PersistedFirst, NumberNeverReused, OrderPreserved
  <2>5. CASE Reserve
    <3>1. NumbersAgree'
      BY <2>5, <2>0 DEF Reserve, IInv, NumbersAgree, TypeOK, Used, Emitting
    <3> QED BY <2>0, <2>5, <3>1 DEF Reserve, IInv, PersistedFirst, NumberNeverReused, OrderPreserved
  <2>6. CASE Commit
    <3>1. /\ seqFile' = last + 1 /\ seqFile' \in Seqs /\ cur' = last + 1 /\ last' = last + 1
          /\ last = Used /\ next <= seen
      BY <2>6 DEF Commit, IInv, NumbersAgree, TypeOK, Seqs
    <3>2. \A e \in sinks : e.seq \in Nat /\ e.id \in Nat /\ e.seq < seqFile' /\ e.id < next
      BY <2>6, <3>1 DEF Commit, IInv, NumbersAgree, PersistedFirst, TypeOK, Seqs, Used
    <3>3. NumbersAgree'
      BY <2>6, <2>0, <3>1, <3>2 DEF Commit, IInv, NumbersAgree, TypeOK, Used, Emitting, Seqs
    <3>4. PersistedFirst'
      BY <2>6, <3>1, <3>2 DEF Commit, PersistedFirst, Seqs
    <3> QED BY <2>0, <2>6, <3>3, <3>4 DEF Commit, IInv, NumberNeverReused, OrderPreserved
  <2>7. CASE SeqFails
    BY <2>0, <2>7, QuietStep DEF SeqFails, IInv, TypeOK
  <2>8. CASE LogEvent
    BY <2>0, <2>8, EmitStep DEF LogEvent, Emitting
  <2>9. CASE SkipSpool
    BY <2>0, <2>9, EmitStep DEF SkipSpool, AfterSpool, AfterEvent, Emitting
  <2>10. CASE StageSpool
    BY <2>0, <2>10, EmitStep DEF StageSpool, AfterSpool, AfterEvent, Emitting
  <2>11. CASE PublishSpool
    BY <2>0, <2>11, EmitStep DEF PublishSpool, AfterSpool, AfterEvent, Emitting
  <2>12. CASE PrintEvent
    BY <2>0, <2>12, EmitStep DEF PrintEvent, Emitting
  <2>13. CASE UNCHANGED vars
    BY <2>0, <2>13 DEF vars, IInv, NumbersAgree, PersistedFirst, NumberNeverReused, OrderPreserved, Used
  <2> QED BY <2>1, <2>2, <2>3, <2>4, <2>5, <2>6, <2>7, <2>8, <2>9, <2>10, <2>11, <2>12, <2>13
          DEF Next, Step, Environment
<1> QED BY <1>1, <1>2, PTL DEF Spec

\* Every reachable state is well typed.
THEOREM TypeCorrect == Spec => []TypeOK
<1>1. IInv => TypeOK
  BY DEF IInv
<1> QED BY <1>1, NumbersInvariant, PTL

\* One number never names two transitions, over all runs, crashes and failed
\* writes of the process.
THEOREM NumbersUnique == Spec => []NumberNeverReused
<1>1. IInv => NumberNeverReused
  BY DEF IInv
<1> QED BY <1>1, NumbersInvariant, PTL

\* No sink ever shows a number that watch.seq does not cover.
THEOREM NumbersPersisted == Spec => []PersistedFirst
<1>1. IInv => PersistedFirst
  BY DEF IInv
<1> QED BY <1>1, NumbersInvariant, PTL

\* Numbers are in the order of the transitions, across restarts.
THEOREM NumbersOrdered == Spec => []OrderPreserved
<1>1. IInv => OrderPreserved
  BY DEF IInv
<1> QED BY <1>1, NumbersInvariant, PTL

\* watch.seq only ever moves up by one, from a number it could read.
THEOREM CounterMonotonic == Spec => CounterSteps
<1>1. IInv /\ [Next]_vars => [seqFile' # seqFile => seqFile # Corrupt /\ seqFile' = Used + 1]_vars
  BY DEF IInv, NumbersAgree, Next, Step, Environment, Start, StartFails, Signal, DeadlinePasses, Crash,
         ExitInterrupted, ExitTimedOut, ExitExhausted, Poll, ReserveExhausted, Reserve, Commit, SeqFails,
         LogEvent, SkipSpool, StageSpool, PublishSpool, PrintEvent, Paced, disk, vars
<1> QED BY <1>1, NumbersInvariant, PTL DEF Spec, CounterSteps

-----------------------------------------------------------------------------
(* One-shot exits. *)

\* Whoever is about to print has spooled, unless something failed.
SpooledBeforePrint ==
  pc = "print" /\ Spooling /\ faults = 0 => Event("spool") \in sinks

\* A step that adds nothing for stdout, ends no run with EVENT_FIRED and does
\* not come to the print leaves both as they are.
LEMMA SilentStep ==
  ASSUME FiredExit, faults \in Nat, faults' \in {faults, faults + 1}, mode' = mode,
         sinks \subseteq sinks',
         \A e \in sinks' \ sinks : e.sink # "stdout",
         \/ pc' # "down" \/ exit' # EVENT_FIRED
         \/ UNCHANGED <<pc, exit, cur, next>>
  PROVE  FiredExit'
<1>1. \A e \in sinks' : e.sink = "stdout" => e \in sinks
  OBVIOUS
<1>2. faults' = 0 => faults = 0
  OBVIOUS
<1>3. Spooling' = Spooling
  BY DEF Spooling
<1>4. \A e \in sinks' :
        e.sink = "stdout" /\ Spooling' /\ faults' = 0 => [e EXCEPT !.sink = "spool"] \in sinks'
  BY <1>1, <1>2, <1>3 DEF FiredExit
<1>5. pc' = "down" /\ exit' = EVENT_FIRED => [sink |-> "stdout", seq |-> cur', id |-> next'] \in sinks'
  BY DEF FiredExit
<1> QED BY <1>4, <1>5 DEF FiredExit

\* Exit code 10 tells the truth in every mode and after any history: the event
\* was printed, and without a fault it was spooled before.
THEOREM FiredExitIsTrue == Spec => []FiredExit
<1> USE BoundAssumption
<1> DEFINE Inv == FiredExit /\ SpooledBeforePrint
<1>1. Init => Inv
  BY DEF Init, FiredExit, SpooledBeforePrint, SUCCESS, EVENT_FIRED
<1>2. TypeOK /\ Inv /\ [Next]_vars => Inv'
  <2> SUFFICES ASSUME TypeOK, Inv, [Next]_vars PROVE Inv'
    OBVIOUS
  <2> USE DEF disk, Exit, Goto, Fault, SUCCESS, FATAL, EVENT_FIRED, PANIC, INTERRUPTED, KILLED
  <2>0. mode' = mode /\ faults \in Nat /\ Spooling' = Spooling
    BY DEF Next, Step, Environment, vars, TypeOK, Spooling
  <2>1. CASE PrintEvent
    <3>1. SpooledBeforePrint'
      BY <2>1 DEF PrintEvent, SpooledBeforePrint
    <3>2. CASE UNCHANGED sinks /\ exit' = PANIC
      BY <2>0, <2>1, <3>1, <3>2, SilentStep DEF PrintEvent
    <3>3. CASE sinks' = sinks \cup {Event("stdout")} /\ UNCHANGED faults
      <4>1. Event("stdout") = [sink |-> "stdout", seq |-> cur', id |-> next']
        BY <2>1 DEF PrintEvent, Event
      <4>2. [Event("stdout") EXCEPT !.sink = "spool"] = Event("spool")
        BY DEF Event
      <4>3. Spooling /\ faults = 0 => Event("spool") \in sinks
        BY <2>1 DEF PrintEvent, SpooledBeforePrint
      <4>4. \A e \in sinks' : e.sink = "stdout" /\ Spooling' /\ faults' = 0
                              => [e EXCEPT !.sink = "spool"] \in sinks'
        BY <2>0, <3>3, <4>2, <4>3 DEF FiredExit
      <4> QED BY <3>1, <3>3, <4>1, <4>4 DEF FiredExit
    <3> QED BY <2>1, <3>2, <3>3 DEF PrintEvent
  <2>2. CASE LogEvent
    <3>1. \A e \in sinks' \ sinks : e.sink # "stdout"
      BY <2>2 DEF LogEvent, Event
    <3>2. FiredExit'
      BY <2>0, <2>2, <3>1, SilentStep DEF LogEvent
    <3> QED BY <2>2, <3>2 DEF LogEvent, SpooledBeforePrint
  <2>3. CASE SkipSpool \/ StageSpool
    <3>1. FiredExit'
      BY <2>0, <2>3, SilentStep DEF SkipSpool, StageSpool, AfterSpool, AfterEvent
    <3> QED BY <2>0, <2>3, <3>1 DEF SkipSpool, StageSpool, AfterSpool, AfterEvent, SpooledBeforePrint
  <2>4. CASE PublishSpool
    <3>1. \A e \in sinks' \ sinks : e.sink # "stdout"
      BY <2>4 DEF PublishSpool, Event
    <3>2. FiredExit'
      BY <2>0, <2>4, <3>1, SilentStep DEF PublishSpool, AfterSpool, AfterEvent
    <3>3. SpooledBeforePrint'
      <4>1. CASE sinks' = sinks \cup {Event("spool")} /\ UNCHANGED faults /\ next' = next
        BY <2>4, <4>1 DEF PublishSpool, SpooledBeforePrint, Event
      <4>2. CASE faults' = faults + 1
        BY <2>0, <4>2 DEF SpooledBeforePrint
      <4>3. CASE pc' # "print"
        BY <4>3 DEF SpooledBeforePrint
      <4> QED BY <2>4, <4>1, <4>2, <4>3 DEF PublishSpool, AfterSpool, AfterEvent
    <3> QED BY <3>2, <3>3
  <2>5. CASE Signal \/ DeadlinePasses \/ UNCHANGED vars
    BY <2>0, <2>5 DEF Signal, DeadlinePasses, vars, FiredExit, SpooledBeforePrint, Event
  <2>6. CASE \/ Start \/ StartFails \/ Crash
             \/ ExitInterrupted \/ ExitTimedOut \/ ExitExhausted \/ Poll
             \/ ReserveExhausted \/ Reserve \/ Commit \/ SeqFails \/ Paced
    <3>1. sinks' = sinks /\ faults' \in {faults, faults + 1}
          /\ pc' # "print" /\ (pc' # "down" \/ exit' # EVENT_FIRED)
      BY <2>6 DEF Start, StartFails, Crash, ExitInterrupted, ExitTimedOut, ExitExhausted, Poll,
                  ReserveExhausted, Reserve, Commit, SeqFails, Paced
    <3> QED BY <2>0, <3>1, SilentStep DEF SpooledBeforePrint
  <2> QED BY <2>1, <2>2, <2>3, <2>4, <2>5, <2>6 DEF Next, Step, Environment
<1>3. Inv => FiredExit
  OBVIOUS
<1> QED BY <1>1, <1>2, <1>3, TypeCorrect, PTL DEF Spec

-----------------------------------------------------------------------------
(* No event of a sink goes missing without a fault that paid for it. *)

\* The numbers a sink has lost for good: missing, and no longer awaited.
Lost(sink) ==
  {n \in MissingFrom(sink) :
     ~(n = cur /\ pc \in IF sink = "log" THEN {"log"} ELSE {"log", "spool", "publish"})}

\* A daily file that ends inside a line will cost one more event.
Torn == IF tail = "torn" THEN 1 ELSE 0

\* Everything the engine returned and the loop is done with is in the log.
AllLogged ==
  \A id \in 1..seen :
    \/ id < next \/ pc \in {"top", "pace", "down"}
    \/ id = next /\ pc \in {"spool", "publish"}
    => \E e \in sinks : e.sink = "log" /\ e.id = id

\* The strengthening: the loss that is final, sink by sink.
LossIsPaid ==
  /\ seqFile # Corrupt => base \in Nat /\ base <= Used
  /\ Follow => pc # "print"
  /\ Follow /\ seqFile # Corrupt =>
       /\ Spooling => Cardinality(Lost("spool")) <= faults
       /\ Cardinality(Lost("log")) + Torn <= 2 * faults
       /\ faults = 0 /\ seqFile # SeqMax => AllLogged

\* The missing numbers are finitely many.
LEMMA MissingFinite ==
  ASSUME TypeOK, seqFile # Corrupt, base \in Nat, NEW sink
  PROVE  /\ IsFiniteSet(MissingFrom(sink)) /\ Cardinality(MissingFrom(sink)) \in Nat
         /\ IsFiniteSet(Lost(sink)) /\ Cardinality(Lost(sink)) \in Nat
<1>1. Used \in Int
  BY UsedTyped
<1>2. IsFiniteSet(base+1..Used)
  BY <1>1, FS_Interval
<1>3. IsFiniteSet(MissingFrom(sink))
  BY <1>2, FS_Subset DEF MissingFrom
<1>4. IsFiniteSet(Lost(sink))
  BY <1>3, FS_Subset DEF Lost
<1> QED BY <1>3, <1>4, FS_CardinalityType

\* A set with at most one more member has at most one more element.
LEMMA AtMostOneMore ==
  ASSUME NEW S, IsFiniteSet(S), NEW x, NEW T, T \subseteq S \cup {x}
  PROVE  IsFiniteSet(T) /\ Cardinality(T) \in Nat /\ Cardinality(S) \in Nat
         /\ Cardinality(T) <= Cardinality(S) + 1
<1>1. IsFiniteSet(S \cup {x}) /\ Cardinality(S \cup {x}) <= Cardinality(S) + 1
  <2>1. Cardinality(S) \in Nat
    BY FS_CardinalityType
  <2>2. IsFiniteSet(S \cup {x}) /\ Cardinality(S \cup {x}) \in {Cardinality(S), Cardinality(S) + 1}
    <3>1. CASE x \in S
      <4>1. S \cup {x} = S
        BY <3>1
      <4> QED BY <4>1
    <3>2. CASE x \notin S
      BY <3>2, FS_AddElement, Zenon
    <3> QED BY <3>1, <3>2
  <2> QED BY <2>1, <2>2
<1>2. IsFiniteSet(T) /\ Cardinality(T) <= Cardinality(S \cup {x})
  BY <1>1, FS_Subset
<1> QED BY <1>1, <1>2, FS_CardinalityType

\* A step that ends no emission and leaves watch.seq alone loses nothing.
LEMMA NothingLost ==
  ASSUME TypeOK, LossIsPaid, seqFile # Corrupt, UNCHANGED <<seqFile, base>>, NEW sink,
         Lost(sink)' \subseteq Lost(sink)
  PROVE  Cardinality(Lost(sink)') <= Cardinality(Lost(sink)) /\ Cardinality(Lost(sink)') \in Nat
         /\ Cardinality(Lost(sink)) \in Nat
<1>1. IsFiniteSet(Lost(sink))
  BY MissingFinite DEF LossIsPaid
<1> QED BY <1>1, FS_Subset, FS_CardinalityType

\* No step costs a sink more than the number being emitted.
LEMMA OneLost ==
  ASSUME TypeOK, LossIsPaid, seqFile # Corrupt, UNCHANGED <<seqFile, base, cur>>, NEW sink,
         sinks \subseteq sinks'
  PROVE  Cardinality(Lost(sink)') <= Cardinality(Lost(sink)) + 1 /\ Cardinality(Lost(sink)') \in Nat
         /\ Cardinality(Lost(sink)) \in Nat
<1>1. IsFiniteSet(Lost(sink))
  BY MissingFinite DEF LossIsPaid
<1>2. Lost(sink)' \subseteq Lost(sink) \cup {cur}
  BY DEF Lost, MissingFrom, Used
<1> QED BY <1>1, <1>2, AtMostOneMore

\* What the property says of the numbers follows from the strengthening.
LEMMA PaidIsAccounted ==
  ASSUME TypeOK, LossIsPaid
  PROVE  FollowAccounted
<1> SUFFICES ASSUME Follow, seqFile # Corrupt
             PROVE /\ Spooling => Cardinality(MissingFrom("spool")) <= faults + InFlight
                   /\ Cardinality(MissingFrom("log"))
                        <= 2 * faults + InFlight - IF tail = "torn" THEN 1 ELSE 0
                   /\ faults = 0 /\ seqFile # SeqMax =>
                        \A id \in 1..seen :
                          id < next \/ pc \in {"top", "pace", "down"}
                            => \E e \in sinks : e.sink = "log" /\ e.id = id
  BY DEF FollowAccounted
<1>1. ASSUME NEW sink
      PROVE  Cardinality(MissingFrom(sink)) <= Cardinality(Lost(sink)) + InFlight
             /\ Cardinality(MissingFrom(sink)) \in Nat /\ Cardinality(Lost(sink)) \in Nat
  <2>1. IsFiniteSet(Lost(sink)) /\ Cardinality(MissingFrom(sink)) \in Nat /\ Cardinality(Lost(sink)) \in Nat
    BY MissingFinite DEF LossIsPaid
  <2>2. CASE pc \in Emitting
    <3>1. MissingFrom(sink) \subseteq Lost(sink) \cup {cur}
      BY DEF Lost
    <3> QED BY <2>1, <2>2, <3>1, AtMostOneMore DEF InFlight
  <2>3. CASE pc \notin Emitting
    <3>1. MissingFrom(sink) = Lost(sink)
      BY <2>3 DEF Lost, Emitting
    <3> QED BY <2>1, <2>3, <3>1 DEF InFlight
  <2> QED BY <2>2, <2>3
<1>2. faults \in Nat /\ InFlight \in Nat
  BY DEF TypeOK, InFlight
<1>3. Cardinality(MissingFrom("log")) <= 2 * faults + InFlight - IF tail = "torn" THEN 1 ELSE 0
  <2>1. Cardinality(Lost("log")) + Torn <= 2 * faults
    BY DEF LossIsPaid
  <2> QED BY <1>1, <1>2, <2>1 DEF Torn
<1>4. Spooling => Cardinality(MissingFrom("spool")) <= faults + InFlight
  BY <1>1, <1>2 DEF LossIsPaid
<1> QED BY <1>3, <1>4 DEF LossIsPaid, AllLogged

\* In --follow mode every number missing from a sink is paid for by a fault, and
\* without a fault every transition is logged: for any number of runs, crashes
\* and failed writes.
THEOREM LossIsAccounted == Spec => []FollowAccounted
<1> USE SeqAssumption, BoundAssumption
<1>1. Init => LossIsPaid
  <2> SUFFICES ASSUME Init PROVE LossIsPaid
    OBVIOUS
  <2>1. seqFile # Corrupt => base \in Nat /\ base = Used
    BY DEF Init, Used
  <2>2. ASSUME seqFile # Corrupt, NEW sink PROVE Lost(sink) = {}
    BY <2>1, <2>2 DEF Lost, MissingFrom
  <2> QED BY <2>1, <2>2, FS_EmptySet DEF Init, LossIsPaid, AllLogged, Torn
<1>2. IInv /\ IInv' /\ LossIsPaid /\ [Next]_vars => LossIsPaid'
  <2> SUFFICES ASSUME IInv, IInv', LossIsPaid, [Next]_vars PROVE LossIsPaid'
    OBVIOUS
  <2> USE DEF disk, Exit, Goto
  <2>0. /\ mode' = mode /\ base' = base /\ Follow' = Follow /\ Spooling' = Spooling
        /\ TypeOK /\ TypeOK' /\ faults \in Nat /\ faults' \in Nat /\ faults <= faults'
        /\ NumbersAgree
    BY DEF IInv, Next, Step, Environment, vars, TypeOK, Spooling, Follow, Fault,
           Start, StartFails, Signal, DeadlinePasses, Crash,
           ExitInterrupted, ExitTimedOut, ExitExhausted, Poll, ReserveExhausted, Reserve, Commit, SeqFails,
           LogEvent, SkipSpool, StageSpool, PublishSpool, PrintEvent, Paced
  <2>1. seqFile' # Corrupt => seqFile # Corrupt /\ base' \in Nat /\ base' <= Used'
    <3> SUFFICES ASSUME seqFile' # Corrupt
                 PROVE  seqFile # Corrupt /\ base' \in Nat /\ base' <= Used'
      OBVIOUS
    <3>1. CASE Commit
      BY <2>0, <3>1, UsedTyped DEF Commit, NumbersAgree, LossIsPaid, Used, TypeOK
    <3>2. CASE seqFile' = seqFile
      BY <2>0, <3>2 DEF LossIsPaid, Used
    <3> QED BY <3>1, <3>2 DEF Next, Step, Environment, vars,
               Start, StartFails, Signal, DeadlinePasses, Crash,
               ExitInterrupted, ExitTimedOut, ExitExhausted, Poll, ReserveExhausted, Reserve, SeqFails,
               LogEvent, SkipSpool, StageSpool, PublishSpool, PrintEvent, Paced
  <2>2. Follow' => pc' # "print"
    BY <2>0 DEF LossIsPaid, Next, Step, Environment, vars, AfterSpool, AfterEvent,
               Start, StartFails, Signal, DeadlinePasses, Crash,
               ExitInterrupted, ExitTimedOut, ExitExhausted, Poll, ReserveExhausted, Reserve, Commit, SeqFails,
               LogEvent, SkipSpool, StageSpool, PublishSpool, PrintEvent, Paced
  <2> SUFFICES ASSUME Follow, seqFile' # Corrupt
               PROVE /\ Spooling => Cardinality(Lost("spool")') <= faults'
                     /\ Cardinality(Lost("log")') + Torn' <= 2 * faults'
                     /\ faults' = 0 /\ seqFile' # SeqMax => AllLogged'
    BY <2>0, <2>1, <2>2 DEF LossIsPaid
  <2>3. /\ seqFile # Corrupt /\ base \in Nat
        /\ Spooling => Cardinality(Lost("spool")) <= faults
        /\ Cardinality(Lost("log")) + Torn <= 2 * faults
        /\ faults = 0 /\ seqFile # SeqMax => AllLogged
        /\ pc # "print"
    BY <2>1 DEF LossIsPaid
  <2>4. ASSUME NEW sink PROVE Cardinality(Lost(sink)) \in Nat
    BY <2>0, <2>3, MissingFinite
  <2>5. Torn \in {0, 1} /\ Torn' \in {0, 1}
    BY DEF Torn
  <2>6. next \in Nat /\ seen \in Nat /\ next' \in Nat /\ seen' \in Nat
    BY <2>0 DEF TypeOK
  \* The steps that end no emission.
  <2>7. ASSUME UNCHANGED <<seqFile, sinks, tail>>, pc \notin Emitting \/ UNCHANGED <<pc, cur>>,
               faults' = 0 /\ seqFile # SeqMax /\ AllLogged => AllLogged'
        PROVE  /\ Spooling => Cardinality(Lost("spool")') <= faults'
               /\ Cardinality(Lost("log")') + Torn' <= 2 * faults'
               /\ faults' = 0 /\ seqFile' # SeqMax => AllLogged'
    <3>1. Lost("spool")' \subseteq Lost("spool") /\ Lost("log")' \subseteq Lost("log")
      BY <2>0, <2>7 DEF Lost, MissingFrom, Used, Emitting
    <3>2. /\ Cardinality(Lost("spool")') <= Cardinality(Lost("spool")) /\ Cardinality(Lost("spool")') \in Nat
          /\ Cardinality(Lost("log")') <= Cardinality(Lost("log")) /\ Cardinality(Lost("log")') \in Nat
      BY <2>0, <2>3, <2>7, <3>1, NothingLost
    <3>3. Torn' = Torn
      BY <2>7 DEF Torn
    <3> HIDE DEF Torn
    <3>4. faults' = 0 => faults = 0
      BY <2>0
    <3> QED BY <2>0, <2>3, <2>4, <2>5, <2>7, <3>2, <3>3, <3>4
  <2>8. CASE \/ Start \/ Signal \/ DeadlinePasses \/ UNCHANGED vars
             \/ ExitInterrupted \/ ExitTimedOut \/ ExitExhausted \/ Reserve \/ Paced
    <3>1. UNCHANGED <<seqFile, sinks, tail>> /\ (pc \notin Emitting \/ UNCHANGED <<pc, cur>>)
      BY <2>8 DEF Start, Signal, DeadlinePasses, vars, ExitInterrupted, ExitTimedOut, ExitExhausted,
                  Reserve, Paced, Emitting
    <3>2. AllLogged => AllLogged'
      BY <2>8 DEF AllLogged, Start, Signal, DeadlinePasses, vars, ExitInterrupted, ExitTimedOut,
                  ExitExhausted, Reserve, Paced
    <3> QED BY <2>7, <3>1, <3>2
  <2>9. CASE StartFails \/ SeqFails
    <3>1. UNCHANGED <<seqFile, sinks, tail>> /\ (pc \notin Emitting \/ UNCHANGED <<pc, cur>>) /\ faults' # 0
      BY <2>0, <2>9 DEF StartFails, SeqFails, Emitting, Fault
    <3> QED BY <2>7, <3>1
  <2>10. CASE ReserveExhausted
    <3>1. UNCHANGED <<seqFile, sinks, tail>> /\ pc \notin Emitting
      BY <2>10 DEF ReserveExhausted, Emitting
    <3>2. seqFile = SeqMax
      BY <2>0, <2>10 DEF ReserveExhausted, NumbersAgree, Used
    <3> QED BY <2>7, <3>1, <3>2
  <2>11. CASE Poll
    <3>1. UNCHANGED <<seqFile, sinks, tail>> /\ pc \notin Emitting
      BY <2>11 DEF Poll, Emitting
    <3>2. AllLogged => AllLogged'
      BY <2>6, <2>11 DEF Poll, AllLogged
    <3> QED BY <2>7, <3>1, <3>2
  <2>12. CASE Commit
    <3>1. UNCHANGED <<sinks, tail, faults, next, seen>> /\ pc = "commit" /\ pc' = "log"
      BY <2>2, <2>12 DEF Commit
    <3>2. seqFile' = last + 1 /\ cur' = last + 1 /\ Used' = last + 1 /\ last = Used /\ last \in Nat
      BY <2>0, <2>12 DEF Commit, NumbersAgree, Used, TypeOK
    <3>3. ASSUME NEW sink PROVE Lost(sink)' \subseteq Lost(sink)
      BY <2>0, <2>3, <3>1, <3>2 DEF Lost, MissingFrom
    <3>4. ASSUME NEW sink
          PROVE  Cardinality(Lost(sink)') <= Cardinality(Lost(sink)) /\ Cardinality(Lost(sink)') \in Nat
      BY <2>0, <2>3, <3>3, MissingFinite, FS_Subset, FS_CardinalityType
    <3>5. seqFile # SeqMax
      BY <2>0, <2>12 DEF Commit, NumbersAgree, Used
    <3>6. AllLogged => AllLogged'
      BY <3>1 DEF AllLogged
    <3>7. Torn' = Torn
      BY <3>1 DEF Torn
    <3> QED BY <2>0, <2>3, <2>4, <2>5, <3>1, <3>4, <3>5, <3>6, <3>7
  \* The steps of an emission, and the crash that ends one.
  <2>13. CASE LogEvent
    <3>1. /\ UNCHANGED <<seqFile, cur, next, seen, base>> /\ pc = "log" /\ pc' = "spool"
          /\ sinks \subseteq sinks'
      BY <2>0, <2>13 DEF LogEvent
    <3>2. Lost("spool")' \subseteq Lost("spool")
      BY <3>1 DEF Lost, MissingFrom, Used
    <3>3. Cardinality(Lost("spool")') <= Cardinality(Lost("spool")) /\ Cardinality(Lost("spool")') \in Nat
      BY <2>0, <2>3, <3>1, <3>2, NothingLost
    <3>4. Cardinality(Lost("log")') <= Cardinality(Lost("log")) + 1 /\ Cardinality(Lost("log")') \in Nat
      BY <2>0, <2>3, <3>1, OneLost
    <3>5. CASE sinks' = sinks \cup {Event("log")} /\ tail' = "whole" /\ faults' = faults
      <4>0. Event("log") \in sinks' /\ Event("log").sink = "log" /\ Event("log").seq = cur
            /\ Event("log").id = next
        BY <3>5 DEF Event
      <4>1. Lost("log")' \subseteq Lost("log")
        BY <3>1, <4>0 DEF Lost, MissingFrom, Used
      <4>2. Cardinality(Lost("log")') <= Cardinality(Lost("log"))
        BY <2>0, <2>3, <3>1, <4>1, NothingLost
      <4>3. Torn' = 0
        BY <3>5 DEF Torn
      <4>4. AllLogged => AllLogged'
        BY <3>1, <4>0 DEF AllLogged
      <4>5. Cardinality(Lost("log")') + Torn' <= 2 * faults'
        BY <2>0, <2>3, <2>4, <2>5, <3>4, <3>5, <4>2, <4>3
      <4>6. faults' = 0 /\ seqFile' # SeqMax => AllLogged'
        BY <2>3, <3>1, <3>5, <4>4
      <4> QED BY <2>0, <2>3, <2>4, <3>3, <3>5, <4>5, <4>6
    <3>6. CASE tail = "torn" /\ tail' = "whole" /\ faults' = faults
      <4>1. Torn = 1 /\ Torn' = 0
        BY <3>6 DEF Torn
      <4>2. faults # 0
        BY <2>0, <2>3, <2>4, <4>1
      <4> QED BY <2>0, <2>3, <2>4, <3>3, <3>4, <3>6, <4>1, <4>2
    <3>7. CASE faults' = faults + 1
      BY <2>0, <2>3, <2>4, <2>5, <3>3, <3>4, <3>7
    <3> QED BY <2>13, <3>5, <3>6, <3>7 DEF LogEvent, Fault
  \* Leaving the spool step for the next transition or the pacing.
  <2>14. ASSUME pc \in {"spool", "publish"}, AfterSpool, UNCHANGED <<seqFile, cur, seen, tail>>,
                sinks \subseteq sinks'
         PROVE  /\ Lost("log")' \subseteq Lost("log")
                /\ AllLogged => AllLogged'
    <3>1. pc' \in {"reserve", "pace"} /\ next' = next + 1
          /\ (pc' = "reserve" \/ next >= seen)
      BY <2>6, <2>14 DEF AfterSpool, AfterEvent
    <3>2. Lost("log")' \subseteq Lost("log")
      BY <2>0, <2>14, <3>1 DEF Lost, MissingFrom, Used
    <3>3. AllLogged => AllLogged'
      <4> SUFFICES ASSUME AllLogged, NEW id \in 1..seen', id < next' \/ pc' = "pace"
                   PROVE  \E e \in sinks' : e.sink = "log" /\ e.id = id
        BY <3>1 DEF AllLogged
      <4>1. id \in 1..seen /\ (id < next \/ id = next)
        BY <2>6, <2>14, <3>1
      <4> QED BY <2>14, <4>1 DEF AllLogged
    <3> QED BY <3>2, <3>3
  <2>15. CASE SkipSpool \/ StageSpool \/ PublishSpool
    <3>1. /\ UNCHANGED <<seqFile, cur, seen, tail, base>> /\ sinks \subseteq sinks'
          /\ pc \in {"spool", "publish"}
      BY <2>0, <2>15 DEF SkipSpool, StageSpool, PublishSpool
    <3>2. Torn' = Torn
      BY <3>1 DEF Torn
    <3>3. Lost("log")' \subseteq Lost("log") /\ (AllLogged => AllLogged')
      <4>1. CASE AfterSpool
        BY <2>14, <3>1, <4>1
      <4>2. CASE pc' = "publish" /\ next' = next
        BY <3>1, <4>2 DEF Lost, MissingFrom, Used, AllLogged
      <4> QED BY <2>15, <4>1, <4>2 DEF SkipSpool, StageSpool, PublishSpool
    <3>4. Cardinality(Lost("log")') <= Cardinality(Lost("log")) /\ Cardinality(Lost("log")') \in Nat
      BY <2>0, <2>3, <3>1, <3>3, NothingLost
    <3>5. Cardinality(Lost("spool")') <= Cardinality(Lost("spool")) + 1 /\ Cardinality(Lost("spool")') \in Nat
      BY <2>0, <2>3, <3>1, OneLost
    <3>6. Spooling => Cardinality(Lost("spool")') <= faults'
      <4>1. CASE ~Spooling
        BY <4>1
      <4>2. CASE faults' = faults + 1
        BY <2>0, <2>3, <2>4, <3>5, <4>2
      <4>3. CASE pc' = "publish"
        <5>1. Lost("spool")' \subseteq Lost("spool")
          BY <3>1, <4>3 DEF Lost, MissingFrom, Used
        <5> QED BY <2>0, <2>3, <2>4, <3>1, <5>1, NothingLost
      <4>4. CASE sinks' = sinks \cup {Event("spool")}
        <5>0. Event("spool") \in sinks' /\ Event("spool").sink = "spool" /\ Event("spool").seq = cur
          BY <4>4 DEF Event
        <5>1. Lost("spool")' \subseteq Lost("spool")
          BY <3>1, <5>0 DEF Lost, MissingFrom, Used
        <5> QED BY <2>0, <2>3, <2>4, <3>1, <5>1, NothingLost
      <4> QED BY <2>15, <4>1, <4>2, <4>3, <4>4 DEF SkipSpool, StageSpool, PublishSpool, Fault
    <3>7. faults' = 0 => faults = 0
      BY <2>0
    <3> QED BY <2>0, <2>3, <2>4, <2>5, <3>1, <3>2, <3>3, <3>4, <3>6, <3>7
  <2>16. CASE PrintEvent
    BY <2>3, <2>16 DEF PrintEvent
  <2>17. CASE Crash
    <3>1. /\ UNCHANGED <<seqFile, cur, sinks, base>> /\ faults' = faults + 1 /\ sinks \subseteq sinks'
      BY <2>0, <2>17 DEF Crash, Fault
    <3>2. ASSUME NEW sink
          PROVE  Cardinality(Lost(sink)') <= Cardinality(Lost(sink)) + 1 /\ Cardinality(Lost(sink)') \in Nat
      BY <2>0, <2>3, <3>1, OneLost
    <3>3. CASE tail' = tail
      <4>1. Torn' = Torn
        BY <3>3 DEF Torn
      <4> QED BY <2>0, <2>3, <2>4, <2>5, <3>1, <3>2, <4>1
    <3>4. CASE tail' = "torn"
      <4> QED BY <2>0, <2>3, <2>4, <2>5, <3>1, <3>2
    <3> QED BY <2>17, <3>3, <3>4 DEF Crash
  <2> QED BY <2>8, <2>9, <2>10, <2>11, <2>12, <2>13, <2>15, <2>16, <2>17 DEF Next, Step, Environment
<1>3. TypeOK /\ LossIsPaid => FollowAccounted
  BY PaidIsAccounted
<1> QED BY <1>1, <1>2, <1>3, NumbersInvariant, TypeCorrect, PTL DEF Spec
=============================================================================
