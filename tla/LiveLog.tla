-------------------------------- MODULE LiveLog --------------------------------
(***************************************************************************)
(* The commands that poll the sensors: `log` (logger.rs: run, run_loop),   *)
(* `snapshot`, and the live source of `watch` (source.rs).  The logger     *)
(* polls, hands what its filter lets through to the LogWriter, and sleeps  *)
(* on a condition variable until the interval is over or the signal        *)
(* handler, a thread of its own, has set the shutdown flag.                *)
(***************************************************************************)
EXTENDS Collect, Config

CONSTANTS
  Commands,  \* the commands explored: [caller, docs, needle], docs what lies at the
             \* config paths, needle = [type, match] what `snapshot` is asked for
  Horizon    \* the longest interval whose deadline Instant can represent

VARIABLES
  caller,    \* "log", "snapshot" or "watch"
  config,    \* the configuration of `log`
  needle,    \* the filter of `snapshot`
  pc,        \* where the main thread is
  warned,    \* hwinfo_warned
  output,    \* what the last poll led to: entries to write or print, or a tick
  flag,      \* the shutdown flag
  mutex,     \* who holds its mutex: "main" or nobody
  handler    \* where the signal handler is

loopVars == <<caller, config, needle, pc, warned, output, flag, mutex, handler>>
vars == <<hwinfo, pollVars, loopVars>>

Nothing == [kind |-> "nothing"]

Init ==
  /\ CollectInit
  /\ \E c \in Commands :
       /\ caller = c.caller
       /\ config = Load("given", "config.toml", c.docs)
       /\ needle = c.needle
  /\ pc = IF caller = "log" THEN "top" ELSE "poll"
  /\ warned = FALSE
  /\ output = Nothing
  /\ flag = FALSE /\ mutex = "nobody" /\ handler = "waiting"

-----------------------------------------------------------------------------
(* The main thread. *)

Free == mutex = "nobody"

\* stop_requested: the flag is read under the lock, before every poll.
StopRequested ==
  /\ caller = "log" /\ pc = "top" /\ Free
  /\ pc' = IF flag THEN "exited" ELSE "poll"
  /\ UNCHANGED <<hwinfo, pollVars, caller, config, needle, warned, output, flag, mutex, handler>>

Poll ==
  /\ pc = "poll"
  /\ Begin \/ CollectStep
  /\ UNCHANGED loopVars

Failing == "error" \in DOMAIN result

Selected == SelectSeq(result.readings, LAMBDA r : SensorMatches(config, r.sensor))

\* filter, of snapshot: by type, and by a text in either name.
Printed ==
  LET Wanted(r) ==
        /\ needle.type # Unset => r.kind = needle.type
        /\ needle.match # Unset =>
             Occurs(r.sensor, needle.match) \/ Occurs(r.reading, needle.match)
  IN  SelectSeq(result.readings, Wanted)

\* The deadline of an absurd interval overflows: there is none.
HasDeadline == config.interval_seconds <= Horizon

\* run_loop: what the filter leaves is written, if it leaves anything; the
\* first failure of all is warned of, and every failure is retried.
Log ==
  /\ caller = "log" /\ pc = "poll" /\ Retire
  /\ output' = IF Failing \/ Selected = <<>> THEN Nothing ELSE [kind |-> "record", entries |-> Selected]
  /\ warned' = (warned \/ Failing)
  /\ pc' = "lock"
  /\ UNCHANGED <<caller, config, needle, flag, mutex, handler>>

\* snapshot: the readings that match are printed; a failure is fatal.
Snapshot ==
  /\ caller = "snapshot" /\ pc = "poll" /\ Retire
  /\ output' = IF Failing THEN Nothing ELSE [kind |-> "array", entries |-> Printed]
  /\ pc' = "exited"
  /\ UNCHANGED <<caller, config, needle, warned, flag, mutex, handler>>

\* LiveSource::next_tick: every failure becomes a tick of its own.
NextTick ==
  /\ caller = "watch" /\ pc = "poll" /\ Retire
  /\ output' = IF Failing THEN [kind |-> "unavailable"]
               ELSE [kind |-> "sample", entries |-> result.readings]
  /\ pc' = "exited"
  /\ UNCHANGED <<caller, config, needle, warned, flag, mutex, handler>>

\* wait_for_shutdown, with the lock: the flag is read again after every wake,
\* whatever the cause.
Waiting(next, owner) ==
  /\ pc' = next /\ mutex' = owner
  /\ UNCHANGED <<hwinfo, pollVars, caller, config, needle, warned, output, flag, handler>>

Lock  == pc = "lock" /\ Free /\ Waiting("test", "main")
Stop  == pc = "test" /\ flag /\ Waiting("exited", "nobody")
Due   == pc = "test" /\ ~flag /\ HasDeadline /\ Waiting("top", "nobody")
Sleep == pc = "test" /\ ~flag /\ Waiting("sleep", "main")

\* Condvar::wait: the lock is given up and the thread waits, in one step.
Release == pc = "sleep" /\ Waiting("asleep", "nobody")

Timeout  == pc = "asleep" /\ HasDeadline /\ Waiting("lock", mutex)
Spurious == pc = "asleep" /\ Waiting("lock", mutex)

Main ==
  \/ StopRequested
  \/ Poll
  \/ Log
  \/ Snapshot
  \/ NextTick
  \/ Lock
  \/ Stop
  \/ Due
  \/ Sleep
  \/ Release
  \/ Timeout

-----------------------------------------------------------------------------
(* The signal handler (install_shutdown_handler). *)

\* One signal; `log` and `watch` install the handler, and here only `log` waits.
Signal ==
  /\ caller = "log" /\ handler = "waiting"
  /\ handler' = "lock"
  /\ UNCHANGED <<hwinfo, pollVars, caller, config, needle, pc, warned, output, flag, mutex>>

\* Seeded fault: the flag is set without the lock.
MayRaiseAlways == TRUE

MayRaise == Free

Raise ==
  /\ handler = "lock" /\ MayRaise
  /\ flag' = TRUE
  /\ handler' = "notify"
  /\ UNCHANGED <<hwinfo, pollVars, caller, config, needle, pc, warned, output, mutex>>

\* notify_all wakes who is asleep now, and is lost on everyone else.
Notify ==
  /\ handler = "notify"
  /\ handler' = "done"
  /\ pc' = IF pc = "asleep" THEN "lock" ELSE pc
  /\ UNCHANGED <<hwinfo, pollVars, caller, config, needle, warned, output, flag, mutex>>

-----------------------------------------------------------------------------

Next ==
  \/ Main
  \/ Spurious
  \/ Signal
  \/ Raise
  \/ Notify
  \/ Hwinfo /\ UNCHANGED loopVars

\* The threads run, and a deadline that can be reached is reached.  The handler
\* gets the lock in the end: the logger leaves it free for whole intervals.
\* Nothing is assumed of HWiNFO, of the signal or of spurious wake-ups.
Fairness == WF_vars(Main) /\ SF_vars(Raise) /\ WF_vars(Notify)

Spec == Init /\ [][Next]_vars /\ Fairness

-----------------------------------------------------------------------------

\* The logger stops once it is told to, also when the signal comes between the
\* test of the flag and the wait, when the interval has no end, and while the
\* sensors fail ("sleep until shutdown", wait_for_shutdown).
StopsOnSignal == (handler = "lock") ~> (pc = "exited")
=============================================================================
