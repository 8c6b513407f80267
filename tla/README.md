# sensorwatch: the TLA+ development

Specifications, model-checking configurations and machine-checked proofs for
sensorwatch (`src/`): a C library that reads the HWiNFO shared memory, a Rust
command line that logs, watches and reports on it, and the Python scripts with
which an agent handles the events. Three paths are modelled: from the shared
memory to a log line; from a sample to a closed incident; and from the log back
to a digest, an export, and the decision to close an incident.

```
 HWiNFO --> session, copy, parse --> log: daily files --> report: digest --> reconcile
            SharedMemory, Collect    LogWriter, LiveLog   Replay, Report     Reconcile
                    |                                     export: rows          |
                    | tick                                Export                |
                    v                                                           v
                rule engine --> watch process --> watch.seq, events_*.jsonl,  closes an
                Engine          Watch             spool/pending/, stdout      incident
                    ^               |                     |
                    |           exit code                 v
                 Rearm  <-- supervisor             agent scripts: cursor, journal, incidents
                (fresh engine per run)             AgentState, Escalation
```

## 1. Inventory

For every component: the state it keeps, its operations, what is hard about it,
and what makes it correct. `PROJECT.json` lists the hazards line by line.

**Rule engine** (`rust/sensorwatch-cli/src/engine.rs`, `rules.rs`, `source.rs`).
*State*: per rule and series a gate (fired, streak, total), the last reading of
a stale rule, the window of a rate rule; per source rule one gate.
*Operations*: `Engine::new`, `observe` of a sample or of an unavailable tick.
*Hard*: debounce, hysteresis, NaN, a series that vanishes and the outage of the
source interact, each with a reset rule of its own; several series transition in
one tick and the order becomes the numbering. *Correct when*: an alert opens
exactly after `for_samples` consecutive violations and closes only on evidence
of recovery; transitions are the edges of the open alerts, in a total order.

**Config and rules** (`config.rs`, `rules.rs`). No state. *Operations*: the
lenient reading of a document (every command) and the strict one of its rules.
*Hard*: two dozen checks of optional fields, some of which depend on the kind;
`report`, `watch`, `export` and `log` answer the same mistake differently.
*Correct when*: an accepted rule is one the engine can evaluate.

**watch process** (`watch.rs`, `event.rs`, `exit.rs`). *State*: `watch.seq` and
its sibling `watch.seq.tmp`, the daily event file, the spool, stdout; in memory
the last number, the shutdown flag, the deadline. *Operations*: start, poll,
reserve a number, emit to each sink, wait, exit. *Hard*: a crash or a failed
write between any two of them, a signal or the deadline at any moment, a counter
at `u64::MAX` or unreadable. *Correct when*: no number is used twice, numbers
follow the order of the transitions over all restarts, a gap has a cause, and
the exit code tells the truth.

**One-shot supervisor** (outside the repository; `docs/agent-monitoring.md`,
`watch.rs: run_one_shot`). *State*: none but what a run leaves behind. *Hard*:
every run has a fresh engine, so what needs a history longer than a run is lost.
*Correct when*: no debounce leaks from run to run, nothing that fired is dropped
silently, and a lasting condition keeps producing events.

**Agent event handling** (`skills/sensorwatch-monitor/scripts/ack_event.py`,
`open_incident.py`, `_state.py`). *State*: `spool/pending`, `spool/acked`, the
cursor (high-water mark and a ring of recent ids), the journal,
`incidents/open`, `incidents/closed`. *Operations*: dispatch, open or update an
incident, close it, acknowledge: two to four disk writes each. *Hard*: the agent
dies between two writes and the event is redelivered; ring and incident file
have caps; rules share files through their slugs. *Correct when*: no event is
lost, none is acknowledged before it is recorded, none is counted twice, and a
recovered rule leaves no open incident.

**Escalation and notification** (`escalation_gate.py`, `notify.py`). *State*:
`escalation.json` (per-rule `last_notified`, the count of the day). *Hard*: the
gate and the delivery are two processes over one ledger, a channel may fail, a
crash may fall between delivery and record, midnight between both. *Correct
when*: no delivery, no cooldown; the daily cap holds; an undelivered notice is
tried again.

**Log writer** (`logger.rs`, `jsonl.rs`). *State*: the open daily file and its
date; the shutdown flag, its mutex and its condition variable. *Operations*:
poll, append, rotate, delete old files, wait, stop. *Hard*: a short write, a
rollover that fails half way, a clock set back over midnight, a wake-up between
the test and the wait. *Correct when*: a record is in the file of its day,
retention is caught up after a failed rollover, and a signal always ends it.

**Replay source** (`replay.rs`). *State*: the files still to be opened, the
place in the open one, two counters. *Operations*: select the files of a window,
read a line, judge it. *Hard*: file names follow the writer's time zone and the
window the reader's; the logger writes and prunes meanwhile; lines are dropped
unread by a precheck that a full parse must agree with; torn writes glue lines
together. *Correct when*: a pass sees every record of the window that was on
disk, once, and counts exactly what it could not read.

**Report digest** (`digest.rs`, `report.rs`). *State*: the aggregator (per
series extremes, gaps and their number), a bounded list of transitions.
*Operations*: observe, mark, rank, cut, fit, print. *Hard*: samples out of
order, full lists, lengths that lose their fractions, a bisection that must agree
with dropping one item at a time although the order of dropping is over three lists. *Correct when*: the listed
gaps are the largest, totals stay exact under every cap, and `fit` drops as
little as it can.

**Reconcile** (`reconcile_incidents.py`). No state of its own: it closes
incidents from a digest. *Hard*: the digest is older than the events the
incident may have got meanwhile, and its lists were capped and cut. *Correct
when*: only a rule whose latest transition is a recovery, later than all the
incident recorded, is closed, and a blind log is not certified, as far as lengths
that were cut down to whole seconds can tell.

**Export and snapshot commands** (`export.rs`, `snapshot.rs`).
*State*: the output file, its row groups, the buffer. *Hard*: `--out` may name a
log that is an input, by another path or a hard link, and the log may be pruned
between the comparison and the truncation; an export may fail half way. *Correct
when*: no input is truncated, and an output with a footer is complete.

**C core** (`src/sw_parse.c`, `sw_session.c`, `sw_snapshot.c`, `sw_string.c`)
and its **wrappers** (`rust/sensorwatch`, `cpp`). *State*: a mapping, a view, a
session; a copy of the memory and what is parsed from it. *Hard*: products and
sums of untrusted header words at the width of `size_t`, memory that another
process writes during the copy, cleanup on every error path. *Correct when*: the
parser stays inside its copy and nothing is leaked or released twice.

**Agent bookkeeping** (`state_summary.py`, `heartbeat.py`, `init_state.py`) and
the **Python package** (the older logger that the Rust one mirrors): listed for
completeness, see section 6.

## 2. Modules and how they correspond to the code

| module | role | code |
|---|---|---|
| `EngineSteps` | the gate, the verdicts, what presence and absence do: operators only | `engine.rs` 142-204, 273-346, 368-466; `rules.rs` |
| `TickStream` | rules, series, samples, transitions and their order | `source.rs`, `rules.rs`, `engine.rs` 259-346 |
| `Engine` | the variables of `Engine` and one step of `observe` | `engine.rs` 206-348 |
| `RuleEngine` | `Engine` over a bounded history of ticks, and its properties | |
| `AlertEpisodes` | *abstract*: which alerts are open after a history of ticks, with no counter | module documentation of `engine.rs` |
| `Rearm` | `Engine` inside one-shot runs that are started again for ever | `watch.rs` 216-288 |
| `Watch` | numbering, sinks, exits, crashes and failed writes | `watch.rs`, `event.rs`, `logger.rs` 294-314 |
| `AgentState` | every disk write of the agent's scripts | `ack_event.py`, `open_incident.py` |
| `Escalation` | the gate's decision, delivery channel by channel, journal and record | `escalation_gate.py`, `notify.py` 546-665 |
| `Config` | the lenient reading of a config document, its lookup, the sensor filter: operators only | `config.rs` |
| `RuleDoc` | the strict reading of its rules, check by check: operators only | `rules.rs` 26-454 |
| `SharedMemory` | the header checks and what is read of an image, at the width of `size_t`: operators only | `sw_parse.c`, `sw_internal.h` |
| `Collect` | one poll: session, copy, parse, snapshot, with a ledger of what is held; HWiNFO beside it | `sw_session.c`, `sw_parse.c`, `sensorwatch/src/lib.rs` |
| `LiveLog` | the loops of `log`, `snapshot` and the live source of `watch`, the shutdown wait, the signal handler | `logger.rs` 51-246, `snapshot.rs`, `source.rs` |
| `LogWriter` | the daily files: append, rotation, retention, and the wall clock | `logger.rs` 247-395 |
| `Replay` | the selection of files, the line reader and the judgement of a line | `replay.rs`, `digest.rs` 181-218 |
| `Reader` | time arguments, the window, and the pass that `report` and `export` share | `digest.rs` 50-179, `report.rs` 51-224, `export.rs` |
| `TimeUnits` | instants, and the whole seconds that lengths are cut down to | `digest.rs` 383-394, `reconcile_incidents.py` 193-200 |
| `Digest` | aggregation, filters, ranking, sizes, the fitting: operators only | `digest.rs` |
| `Report` | the run of `report`: config, pass, a fresh engine, the printed digest | `report.rs` |
| `Export` | the run of `export`: the alias guard, the file operations, the row groups | `export.rs` |
| `Reconcile` | the decision about an incident from the digest that `Report` printed | `reconcile_incidents.py` |
| `Readers` | the composition of the last eight with a logger that runs beside them | |
| `EngineLemmas`, `RuleEngineProofs`, `RearmProofs`, `WatchProofs`, `AgentStateProofs`, `EscalationProofs`, `LiveLogProofs`, `ReadersProofs` | lemmas, theorems and proofs | |
| `MCRuleEngine`, `MCRearm`, `MCAgentState`, `MCEscalation`, `MCLiveLog`, `MCReaders` | instances for TLC | |

*Composition.* `RuleEngine`, `Rearm` and `Report` compose with the same
`Engine`: the first bounds the history, the second the number of polls of a run
and nothing else, so that liveness can be stated, and the third feeds it the
samples of a log. `LiveLog` is `Collect` under the three commands that poll.
`Readers` is one run of `report` or `export` (`Report`, `Export`, over `Reader`
and `Replay`) beside a `LogWriter` that starts, writes, rotates, prunes, dies
and is started again, and `Reconcile` after it. `Watch` takes the transitions of
a tick as a number (how many), because what they say is the engine's concern;
`AgentState` takes them as `fired` and `cleared` events of a rule, which is what
the spool file holds.

*Reading the models.* A variable has the name of the field or file it stands for
and its comment says which. In `Engine` the record `Unseen` stands for a series
without an entry in the map, and the current tick for `tick_index` and
`last_seen_tick`, which the code only uses to mark the series of the current
sample. In `Watch` one step is one system call: the write of `watch.seq.tmp`,
its rename, the append to the daily file, the write of the staging file, its
rename, the line on stdout; `pc` names the next one. In `AgentState` likewise,
one step per journal line, atomic file replacement or rename. `MovedTo` is the
path that `CloseMove` chose: a suffixed name is only ever made by the event
that carries it, so the choice can be read back. In `Escalation` one step is one
channel, the journal line, or the ledger's replacement; the gate is one step,
because nothing but its ledger write is read by anybody and the scripts are run
one after the other (`SKILL.md`, "Serial dispatch"). `job` is the memory of the
running `notify.py`, `esc` in it the ledger as loaded; `notices` and `gated` are
history: what people received, and whom the gate last held back.

A log file is a sequence of *fragments*, one per write that left bytes. A write
that was cut short leaves a fragment that does not end its line, so the next one
is glued to it, and `LineOf` is what a reader sees of both. The *form* of a
fragment says how the reader judges it: `json`, `python` (with bare NaN tokens,
of the older logger), `foreign` (a record without the leading time stamp the
precheck looks for), `nonrecord`, `garbage`, `oversized`, `blank`. `files` are
the names in the directory; `data` outlives a removal, as the content does for a
reader that has the file open. In `Reader` the history variables `chosen`,
`start`, `changed`, `lost` and `seen` say what was promised and what was
delivered: `start` is what the selected files held, `changed` the days whose file
was written to or made anew since, `seen` the lines that were taken. `pending` is
the set of the days still to be read, the earliest of which is opened next. A handle
outlives the name of its file: when the logger prunes the file that is being read
and later makes another under that name, the reader goes on with the old content
(`KeepHandle`).

In `Collect` each call that acquires or releases something is a step with its
failure beside it, and the copy is taken in two steps with HWiNFO writing header
and tables in two of its own; `held` counts what is held of each resource. The
words of the image are scaled down: a header of seven words, sensors of at least
two, entries of at least five, and sizes that wrap above `SizeMax` as `size_t`
does on a 32-bit build.

*Data that is abstracted.* A value is an integer or `NaN` (the infinities
compare like large integers). A reading has two metrics instead of four: the
code asks for "the selected one" and for "all are unchanged". A rule covers a
set of series, which is what the substring matcher yields; which pattern occurs
in which name is a relation, `Occurs`. An event is its number, an incident of
`AgentState` its event lines, its header fields and nothing else; times are left
out of it, so that a snooze never hides an event. In `Escalation` times are
hours of one time zone and `--now` does not go back from event to event. In
`Readers` a day is `DayLength` instants and a zone an offset; a second is `Second`
instants, so that time stamps have fractions as those of the loggers do, while
intervals, limits and durations are in seconds and the lengths of gaps and windows
are cut down to whole ones (`WholeSeconds`). An incident of
`Reconcile` is the rule it is about and the time of its newest evidence; each
incident is judged for itself, so one is enough, and `--dry-run` is left out.
The size of a digest is a sum over what it lists, with the digits of the counts
in it, because only that makes the fitting hard. Text, units and formatting are
left out. A sort is specified by what it yields: `Sorted` puts at place `n` the
element with `n - 1` elements before it, under an order that the proofs show to
be total; `At` takes the elements at some places of a sequence, which is how a
filter, the capped list of transitions and the gaps that survive the fitting are
written.

*The environment.* A crash is the death of the process, at any step; the write
in progress may be torn. The code syncs nothing, so an ordering that only a
power failure could produce is outside the model. A disk write may fail. The
signal and the deadline may come at any step. The agent (`Take`, `Spooled`,
`Restore`) is modelled from `SKILL.md`: lowest number first, deduplication
before dispatch, one event at a time. HWiNFO is modelled from what the parser
has to expect of it: it starts, exits and writes at any time. The wall clock
moves and may be set back over midnight.

## 3. What TLC checks

| run | instance | shows |
|---|---|---|
| `EngineKinds` | one series, one rule of every kind, `for = 2`, a hysteresis band, a window of 3, NaN, absence, outage, an average that drifts under a constant value; all histories of 6 ticks | no false all-clear (`NoFalseAllClear`), and the counters compute what the history-based specification says (`ImplementsEpisodes`) |
| `EnginePair` | two series in either order, repeated or absent, four rules; all histories of 4 ticks | the order of transitions is total (`OrderTotal`), transitions are edges (`AnnouncesChanges`), and the refinement again where several series transition at once |
| `Watch` | all ten modes, every initial `watch.seq` (absent, unreadable, 0 to the limit 4), 3 transitions in batches of up to 2, 2 faults | a number is on disk before it is used (`PersistedFirst`), numbers follow the transitions over restarts (`OrderPreserved`, `CounterSteps`), every gap is paid for (`FollowAccounted`), exit 10 is true (`FiredExit`), a signal or the deadline ends the run (`StopsWhenAsked`) |
| `WatchTorn` | the same | **violated**: see findings |
| `Rearm` | five rules, one of each kind, on two series; 4 polls per run, no bound on the runs | nothing dropped (`NeverHoldsFired`), honest exits and no leaked debounce (`ExitIsEarned`), re-firing in time and for ever (`RefiresInTime`, `SoleConditionKeepsProducing`) |
| `RearmMissing`, `RearmMasked` | a missing rule; two threshold rules | **violated**: see findings |
| `Agent` | two rules, a ring of two and incident files of one line, 4 events, one crash or restored file | at-least-once (`NothingLost`), record first (`RecordedFirst`), counted once (`AckedOnce`, `IncidentTellsItsEvents`), no phantom (`NoPhantom`), nothing overwritten (`NothingForgotten`), progress (`EventuallyAcked`) |
| `AgentSlugs` | two rule names with one slug | **violated**: see findings |
| `Escalation` | three rules, two channels or one forced or none, cooldown 3 h, cap 2, days of 2 h, 5 h, 4 notices, one crash or lost answer | no delivery no cooldown (`NoDeliveryNoCooldown`), no silence without a notice (`SilenceIsEarned`), cooldown and quota hold (`CooldownHolds`, `QuotaHolds`) |
| `LiveLog` | four commands, every call of a poll failing at will; two valid layouts and ten images that fail one check each; HWiNFO writing, exiting and restarting; one signal | nothing leaks (`HandlesBalanced`), no read leaves the copy (`ReadsInBounds`), an undisturbed copy is exact (`UntornIsExact`), a signal at any moment ends the logger (`StopsOnSignal`) |
| `Readers` | two time zones and retentions, two histories with every form of line, seven good and five bad time arguments, fourteen broken config documents beside a good one and none, six incidents | records lie in their day (`RecordsInTheirDay`), retention survives a failed rollover (`RolloverPurges`), a pass covers its window (`WindowCovered`), the digest is exact under its caps (`GapsAreLargest`, `ViolationsExact`, `FitIsNaive`), accepted rules are valid (`RulesAreValid`), an export is complete or has no footer (`ExportComplete`), no input is truncated (`HistoryKept`), an incident is closed and the log certified only on what the whole window says (`VerdictsAreEarned`) |

*Bounds.* `MaxTicks = 6` is the debounce (2), an episode, its end and a second
debounce, with one tick to spare; the deepest behaviour (three samples of a
window, two violations, a recovery) takes 6. Four ticks are enough for two
series to fire, vanish and return in different orders. In `Watch` three
transitions give a batch after a batch and a number before and after any fault,
two faults give a crash during the recovery from another, and a counter limit of
4 is reached from most initial values. `MaxPolls` equals the deadline, so polls
are never cut off. In `Agent` four events are open, close, open, close of one
rule, or two rules interleaved; the caps are small enough that eviction and
trimming happen in most behaviours. In `Escalation` the cooldown outlasts a day,
three rules exceed a cap of two on one day, and five hours reach the third day
and a second notice of a rule; the rules are symmetric, which is sound because
the run checks invariants only.

In `LiveLog` sizes wrap above 63, so a product or a sum of the small header
words can wrap to zero, and one broken image does each; the two valid layouts
put their tables elsewhere, so that a mixed copy differs from both; a copy is
interrupted once, at word 5, between the words of the header; `Horizon` lies
between the two intervals explored, so that one of them has no deadline.

In `Readers` a day has two seconds of two instants each, so that a hole may be half a
second longer than its length says, and there are four days; the clock is on
one of two that follow each other; the writer's zone is ahead of the reader's in one world
(retention one day) and behind in the other (no pruning). The log starts with
six fragments and has room for a seventh, written while a reader reads. The
lists hold two gaps, two transitions and two rows, and the digest limits are
such that nothing fits, something fits, or all. The limit of the density, two
thirds, lies between the share of the window that a hole of three instants takes in
seconds (one of two) and in truth (three of four). The logger and the clock move
between the selection of the files and the end of the command: what came before
is the state the command starts in. One file at most is lost while it is still
in the directory. Every bound is a named CONSTANT or a definition with "Bound"
in its comment.

*Fairness.* `Watch`: weak fairness of `Step`, the process's own steps: no step
waits for anything but the pacing, whose wait is bounded. Start, signals, the
deadline and faults are not fair. `Rearm`: weak fairness of `Next`: the
supervisor starts another run and a run polls; which tick it sees is free.
`Agent`: weak fairness of the agent's steps: it is started again after a crash.
In all three a fault is bounded, so fairness is only used where the system is
left alone long enough. `LiveLog`: weak fairness of the main thread and of the
notification, strong fairness of the handler's taking of the lock, since the
logger leaves the lock free for whole intervals; a deadline that can be reached
is reached; nothing is assumed of HWiNFO, the signal or spurious wake-ups.

*Deadlock* is checked in `Watch`, `Rearm` and `LiveLog` (where HWiNFO can always
move: that the threads do not block each other is what `StopsOnSignal` shows). `Agent` and
`Escalation` may stop when the spool is drained and the bounds are used up, the
engine runs end with their history, and `Readers` with its command.

*Seeded faults.* Operators whose comment begins "Seeded fault" are not used by
any specification: each is a plausible bug in the definition that follows it
(a debounce off by one, a counter kept in memory, a journal line left out, a
product that wraps, a full list that drops its oldest entry), recorded in
`PROJECT.json` with the property that catches it.

## 4. What is proved

The theorems hold for every value of the constants (any rules, series, readings
and samples; any counter width, caps and bounds; any image and any width of
`size_t`) under the assumptions the modules name:

* engine: validated rules (`RulesAssumption`), no duplicate in the key order
  (`SeriesAssumption`), readings that are numbers or NaN and no `NoBaseline`
  (`ReadingsAssumption`), samples that are sequences of readings
  (`SamplesAssumption`), NaN is no number (`NaNAssumption`);
* `Rearm`: a deadline no run polls past (`PollsAssumption`) and debounce counts
  a run can reach (`DebounceAssumption`);
* `Watch`: a positive counter limit and bounds that are numbers
  (`SeqAssumption`, `BoundAssumption`);
* `AgentState`: a slug for every rule, positive caps, `None` is no incident
  (`SlugAssumption`, `CapAssumption`, `NoneAssumption`);
* `Escalation`: a routing table of sequences of channels, a positive cap and day
  (`RoutedAssumption`, `LimitAssumption`);
* `LiveLog`: sizes and caps that are numbers, with room for a header
  (`MemoryAssumption`), images that are stretches of numbers
  (`ImagesAssumption`), copies interrupted within the header (`CutsAssumption`);
* `LiveLog` also: what an image means is read off its words (`MeansAssumption`);
* `Readers`: typed clocks, zones and retentions (`TimeAssumption`), logs that
  begin with records in the files of their days and days enough for every
  instant (`WorldsAssumption`), outputs of the shape `Export` knows
  (`OutputsAssumption`), config entries as serde lets them through
  (`ConfigAssumption`), a positive count limit (`MaxSamplesAssumption`);
* `Readers` also: times and durations on the command line of the shapes the parsers
  know (`RequestsAssumption`), no window is not a window (`NoWindowAssumption`), the
  zones of the logger and of the reader at most a day apart, which is what the
  padding of `candidate_files` covers (`ZonesAssumption`), sequences of readings
  (`LogAssumption`), at least one row for a group (`GroupAssumption`);
* the digest: a positive cap of the gaps, a base to write numbers in and a `NoInstant`
  that is no instant (`DigestAssumption`), TOML integers that are numbers and a
  positive default interval (`IntervalAssumption`), a positive cap of the transitions
  (`CapAssumption`), `--top` and `--max-bytes` that are counts (`ShowAssumption`), an
  incident whose evidence has a time or none, and limits that are numbers
  (`ReconcileAssumption`);
* the units of time: a second of at least one instant (`SecondAssumption`), days of
  whole seconds (`DayAssumption`).

TLC evaluates all of them on every instance. No theorem needs another axiom; two
have a hypothesis, that slugs differ.

| theorem | statement | argument |
|---|---|---|
| `RuleEngineProofs!TypeCorrect` | `Spec => []TypeOK` | each verdict keeps a gate a gate (`ApplyTyped`), presence and absence keep a series state (`PresentTyped`, `AbsentTyped`) |
| `RuleEngineProofs!CountersConsistent` | `[]GatesConsistent` | `ApplyConsistent`: every verdict keeps `streak < for` unfired, `total >= for` fired; with types it is inductive |
| `RuleEngineProofs!AllClearIsReal` | `NoFalseAllClear` | only the verdict "Recovers" clears (`OnlyRecoversClears`), and no absence or NaN yields it |
| `RuleEngineProofs!TransitionsAreEdges` | `AnnouncesChanges` | `EventIsEdge` for one gate, `KeysDisjoint` so that one transition names one alert |
| `RuleEngineProofs!OrderIsTotal` | `[]OrderTotal` | two transitions of a tick differ in rule or series, and the key order has no duplicate |
| `RuleEngineProofs!EngineImplementsEpisodes` | `ImplementsEpisodes` | `Tells`: what every counter says of the history, below |
| `WatchProofs!TypeCorrect`, `NumbersUnique`, `NumbersPersisted`, `NumbersOrdered`, `CounterMonotonic` | `TypeOK`, `NumberNeverReused`, `PersistedFirst`, `OrderPreserved`, `CounterSteps` | one inductive invariant, below |
| `WatchProofs!FiredExitIsTrue` | `[]FiredExit` | with `SpooledBeforePrint`: at the step that prints, the staged file has been renamed or a fault was counted |
| `WatchProofs!LossIsAccounted` | `[]FollowAccounted` | `LossIsPaid`: one more missing number needs one more fault, by cardinalities |
| `RearmProofs!NothingDropped` | `[]NeverHoldsFired` | types and the edges of a poll: nothing is open before it, so what it announces is `fired`, and any such transition ends the run |
| `RearmProofs!ExitsAreEarned`, `LastingRefires` | `ExitIsEarned`, `RefiresInTime` | one inductive invariant, below |
| `AgentStateProofs!TypeCorrect`, `NoEventLost`, `RecordsFirst` | `TypeOK`, `NothingLost`, `RecordedFirst` | one inductive invariant, below |
| `AgentStateProofs!AckedOnlyOnce` | `[]AckedOnce` | the ring is without duplicates because `AckCursor` asks first; an event is moved only under the high-water mark |
| `AgentStateProofs!NoPhantomLeft` | injective slugs `=> []NoPhantom` | `InOrder` (events are taken lowest first, so a recovery comes after what it ends) and `NoneLeftOpen`, per `pc` |
| `AgentStateProofs!OneRulePerFile` | injective slugs `=> []OneRulePerIncident` | a file only gains events of its slug; `AgentSlugs` shows that the hypothesis is needed |
| `AgentStateProofs!CountsAreTrue` | `[]IncidentTellsItsEvents` | `JournalOrder`, `TellsInv`, below |
| `AgentStateProofs!NothingIsForgotten` | `NothingForgotten` | `SuffixInv`: a suffixed file was made by its event, which then is noted or was put back |
| `EscalationProofs!QuotaIsKept`, `SilenceHasACause` | `QuotaHolds`, `SilenceIsEarned` | `QInv`, below |
| `EscalationProofs!CooldownNeedsDelivery`, `CooldownIsKept` | `NoDeliveryNoCooldown`, `CooldownHolds` | one inductive invariant, below |
| `LiveLogProofs!NothingLeaks`, `ParserStaysInside` | `HandlesBalanced`, `ReadsInBounds` | one inductive invariant, below |
| `LiveLogProofs!UntornCopyIsExact` | `[]UntornIsExact` | `Untorn`: a copy that no write met is a prefix of one image; `ParserIsExact`: parsing it yields what it means |
| `LiveLogProofs!WakeupReachesLogger` | `[]NoWakeupLost`: the logger never sleeps under a set flag whose notification is out | the flag is only set while the lock is free, and between the test and the sleep the logger holds it |
| `ReadersProofs!RolloverPrunes` | `[]RolloverPurges` | `DatesAgree`: the date is set even by a failed rollover, so a logger that opens a file on another day than its first prunes |
| `ReadersProofs!RecordsLieInTheirDay` | `[]RecordsInTheirDay` | `FilesInv`: an append goes to the file of today, which is the day of its time stamp |
| `ReadersProofs!InputsAreKept` | `HistoryKept` | `InputsSafe`: what is about to be truncated is no selected log, or `export` made it |
| `ReadersProofs!WindowIsCovered` | `[]WindowCovered` | `PassInv`: what a pass owes at every step, below |
| `ReadersProofs!ExportIsComplete` | `[]ExportComplete` | `SinkInv`, below: what is on disk and what is buffered are together the rows of the samples seen |
| `ReadersProofs!GapsListedAreLargest` | `[]GapsAreLargest` | `ReportInv`, below: the list keeps the largest holes (`Pushed`), and a new one is always the latest (`LatestIsStep`) |
| `ReadersProofs!NoViolationIsHidden` | `[]ViolationsExact` | `ReportInv`: the list is the newest of all transitions (`NewestJoined`), the count that of those that pass; `ForcedShown` for the rows |
| `ReadersProofs!FittingIsNaive` | `[]FitIsNaive` | `FitsOn`: what fits still fits with one item less, so the bisection finds the least number of drops, below |
| `ReadersProofs!VerdictsAreSound` | `[]VerdictsAreEarned` | what the digest kept is a `Cut` of what there was, so its last word on a rule is the last word (`LastWord`), and if all holes are listed their lengths add up to the blind time, but for less than a second of each (`WholeSecondsIs`, `BlindIs`), so the limits hold in instants too (`SecondsSuffice`) |
| `ReadersProofs!AcceptedRulesAreValid` | `[]RulesAreValid` | `Uncomplained` reads off what each check that is silent says, `NoComplaintIsValid` puts the rule together |

*Why `Watch` needs a strengthening.* `NumberNeverReused` alone is not inductive:
a state in which `watch.seq` is behind a number already printed satisfies it and
the next reservation breaks it. The invariant adds that `watch.seq` covers every
number in a sink (`PersistedFirst`), that order is preserved, and
`NumbersAgree`: the memory of a running process equals the file, the number
being emitted is that of the file, and every event in a sink is older than the
transition at hand or is that transition under that number. `QuietStep` and
`EmitStep` are the two kinds of steps; every action is an instance of one, save
`Start`, `Poll`, `Reserve` and `Commit`. The run does not check
`NumberNeverReused`, which `OrderPreserved` implies.

*Why `Rearm` needs one.* That an alert needs `for` polls of its own run is a
statement about the streak, which the properties do not mention. `RunAgrees`
bounds it: unfired, a streak is at most the number of polls of the run
(`InTime`), and under a condition that has lasted since the run began it is no
less, one less for the baseline of a stale rule (`Lasted`). Both directions
break off when a gate fires, which `NeverHoldsFired` says ends the run.

*Why `AgentState` needs one.* That an acknowledged event is journalled follows
only if the steps that acknowledge it know that it was: `StepsAgree` says for
every `pc` what has already been written, that the incident to be moved exists,
and that the file just moved can be found again (a suffixed closed file only
exists beside the plain one). `AckedGains` and `FilesGain` bound what one step
can add to the cursor and to the incident files by the event at hand.

*Why `Escalation` needs one.* `CooldownHolds` speaks of notices, the code of the
ledger. `LedgerIsLast` ties them: the ledger holds the last recorded notice of
every rule. What the gate found is then carried by the running script
(`LetThrough`), and `HoldsTheLedger` says that the ledger it loaded is still the
one on disk when it saves. `KnowsItsNotice` lets the record mark the right
notice and gives `NoDeliveryNoCooldown` its witness. There is one lemma per
action.

*Why `LiveLog` needs one.* `HandlesBalanced` says nothing of the middle of a
poll. `Ledger` does: at every step exactly `HeldAt(step)` is held, so each
failure has its list of what to release. That the parser stays inside its copy
needs `Sound` (between the check of the header and the last read the header is
one that was accepted, over words that are numbers) and `Mapped` (the mapping
keeps its size while HWiNFO writes). The arithmetic is in `ElementInTable`
and `AcceptedReads`: where the checks accept, no product and no sum wraps.

*Why the refinement needs one.* `AlertEpisodes` computes from the whole history
what the engine keeps in counters. `Tells` says for every gate what its counters
are of the history: the streak is the number of violating ticks since the last
that was none (`Trail`, a set of ticks, so that the streak is a cardinality), a
fired gate's total that of the violations since it fired, the last value the one of
the newest sample with the series, the slots of a window its newest values. `PastIsFixed` and `RunsAreFixed` say that a longer history
does not change what was said of the earlier one, and there is a lemma per kind of
rule for the tick at hand. `StepImplements` then compares one step of both.

*Why `FollowAccounted` needs one.* What is missing at the end was lost at some
step. `LossIsPaid` bounds, at every `pc`, the numbers a sink has lost for good (not
those still in flight) by the faults so far; a torn tail counts as one more, since
it will cost the next line.

*Why the counts of an incident need one.* An event that is dispatched twice is
counted once because its line is still in the file, and a line is only trimmed if
newer ones follow. `JournalOrder` says that whatever is pending below a recorded
event was put back; `TellsInv` that an event which may be delivered again still has
its line, and that count and severity are those of all the incident was given.

*Why the quota needs one.* `CapHolds` alone says nothing when midnight falls between
the gate and the delivery. `HasASlot` does: the script that runs has a slot of its own
day left in the ledger, whose count starts again when it turns a day; `CountIsKept`
makes the count the number of recorded notices of its date, and `DaysInOrder` keeps
the ledger from being ahead of the clock, or a notice of the ledger.

*Why `HistoryKept` needs one.* The guard compares names when it runs, the truncation
comes later, and the logger prunes and makes files between the two. What survives is
`InputsSafe`: the output is none of the days that were *selected*, whatever has become
of their files, unless it did not exist and `export` made it.

*Why `WindowCovered` needs one.* It speaks only of the end of a pass. `PassInv`
says at every step what is already owed: a day that was not selected holds no record
of the window (`Padded`, from `FilesInv` and the arithmetic of `DaysAround`); an open
handle still begins with what was selected, even when its name is gone (`Follows`);
files and lines are taken in turn (`InTurn`); every place that was promised and is
behind the reader has been taken (`Delivered`); and the count of skipped lines is the
number of unreadable places behind it (`Tallied`). A line may be several fragments,
so `LineFollows` shows that consuming one passes exactly one line end. The
attempt to prove it changed the model: a file pruned and made anew with equal
content used to pass for undisturbed, which is why `changed` is kept.

*Why `ExportComplete` needs one.* The footer is only written at the end, while rows
have been buffered and written group by group. `SinkInv` says that groups are full
until the end and that the rows on disk followed by the buffer are those of the
samples seen (`FlattenConcat`, `GroupsHoldRows`). What it says of the recursive
`FlattenSeq`, and of the sum of the durations, is shown by induction over the
numbers, as a fact about a set: a set that has every number whose predecessors it
has is all of `Nat` (`Induction`).

*Why the digest needs one.* Its properties compare the aggregator, which saw one
sample at a time and keeps a capped list, with the whole log. `Accumulated` says what
the one holds of the other: `prev_ts` is the highest rung of the ladder of instants
(`Top`: a clock set back adds no rung), the list is in order of time and holds the
largest of the holes between rungs (`Keeps`), and their number is exact. A sample adds
a rung, and perhaps the latest hole, or changes nothing (`LatestIsStep`, `LateIsNoHole`).
`Retained` says that the capped list of transitions is the newest of all, that the
count is of all that pass the filter *now*, although it was made before later series
were seen (`PassesAlike`, `RowsObserved`: a series that had a transition has been
seen), and that their series are marked. `Emitted` and `Concluded` tie the printed
digest, and the verdict about it, to that state. Together with `PassInv` they are
inductive (`ReportInvariant`), with one lemma per step.

*Why the bisection finds what dropping one item at a time would.* `Dropped(view, k)` is
defined by counts, `DropOne` by the item that goes. `DropsOne` shows that one more drop
is one application of `DropOne`, for rows, for gaps (the one left over with the least
rank is the smallest, `AtRemove`) and for violations. `ViewShrinks` shows that a view with
an item less is no longer than before, although the counters in it change their digits
(`DigitsGrow`). So fitting is monotone (`FitsOn`), a half of the range can be
discarded (`Halves`), and what the recursive search returns is the least number that
fits, by induction over the width of the range.

What is said of the recursive functions (the partial sums, the digits, the search, the
views after each drop) is shown as for `ExportComplete`: a recursion is given a solution
by induction, two solutions agree, so the function that CHOOSE picks is it.

Each of these invariants was checked by TLC on the instance of its run (and, for the
agent, with two faults) before it was proved, but for `ReportInv`, which speaks of
sets of sequences that TLC does not enumerate; the four properties it was made for
were.

*Only model-checked.* Liveness (`StopsWhenAsked`, `SoleConditionKeepsProducing`,
`EventuallyAcked`, `StopsOnSignal`), which is beyond the prover. Every safety
property that a passing run checks is proved.

## 5. Findings

Each is a run that TLC refutes; `PROJECT.json` quotes the lines.

* `RearmMissing`: a lasting absence is reported once. The next run has a fresh
  engine, to which the absent series is unknown, and an unknown series is never
  missing. The documentation says a persisting problem keeps producing events.
* `RearmMasked`: of two lasting conditions the one with the shorter debounce
  ends every run first; the other one is reported once and then never again.
* `AgentSlugs`: two legal rule names with one slug share an incident file, so a
  recovery of one closes the other; a comment says they never collide.
* `WatchTorn`: an append that fails half way leaves part of a line and the file
  open; the next event, written with success, is glued to it. Two events are
  missing for one warning; a comment says "no torn lines".

Limits that the passing properties state, or stay clear of, rather than hide:

* A stale rule re-fires after `for_samples + 1` samples, since the first only
  sets the baseline (`RefiresInTime`).
* An acknowledged event that someone puts back into `pending/` after its line
  was trimmed is counted again, or opens a new incident
  (`IncidentTellsItsEvents`, `NoPhantom`). A recovery that is put back after the
  ring forgot it closes again, and takes the suffixed path of `closed/` as it finds
  it (`open_incident.py:164-168`): it replaces the file it made the first time, with
  the incident that is open now. An older event put back can do so for another file.
  `NothingForgotten` names both and says that nothing else is ever replaced. An
  earlier form of it claimed more, and held on its instance only because of the
  bounds; the attempt to prove it found this.
* A notice that went out is not covered by the cooldown if the script died
  before the record or the channel's answer was lost: `CooldownHolds` and
  `QuotaHolds` count the notices the ledger knows of.
* A window is padded by one day on either side (`digest.rs:181-188`), which
  covers zones less than a day apart; `WindowCovered` is checked and proved
  within that (`ZonesAssumption`). Real offsets may differ by up to 26 hours.
* The first write after a start on a later day does not prune
  (`RolloverPurges` begins with the second day of a logger); `StartLogger` does.
* A log that is pruned between the selection and the opening lets `--out`
  create its path anew, and a file that `export` made is not compared with the
  inputs (`export.rs`: "a file that did not exist cannot alias a selected input"),
  unless `--out` is a symlink to it, which exists by its own name and is compared.
  If the clock is then set back to that day, a logger that writes into the new file
  before `export` truncates it loses the record. `HistoryKept` excepts it by name,
  and says that no other input is ever truncated.
* A hard link to a log that is pruned and made anew while `export` runs still names
  the old content; the model does not distinguish the two.
* On the instance of `Readers` no pruned file is made anew, because the two instants
  of its clock leave no such day; instances that do so were explored by hand, and
  `RecordsInTheirDay` and `HistoryKept` are proved for every clock.
* Lines out of the window that are JSON but no record are not counted as
  skipped; `WindowCovered` says which lines are.
* "The latest transition wins" is in the order of the file and per rule. A clock
  set back makes `violations[]` not chronological, so an incident may be closed
  by a recovery older than a fire of the same log; a rule of several series, or
  a digest cut by `--match` or `--type`, may close while another series fires.
  `VerdictsAreEarned` speaks of the order of the file and of what the filter
  lets through.
* A log that is blind for a little more than the limit is certified. The digest cuts
  every gap down to whole seconds (`digest.rs:393`) before the script sums the
  lengths and compares them (`reconcile_incidents.py:263-289`). With the time stamps of
  the loggers, which have microseconds, a hole of 900.9 s passes the limit of 900 s,
  and at an interval of one second holes of 3.9 s count for 3 s. A comment says that
  the raw ratio is compared because "rounding first would read a just-over-threshold
  density (e.g. 0.10004) as ok" (`reconcile_incidents.py:273-274`); the ratio is of
  lengths that were rounded before. `VerdictsAreEarned` therefore promises less: no
  hole of a certified log is a whole second over the limit, and the holes are within
  the limit of the density once less than a second is taken off each. It promises no
  more than the code keeps: without `LeftOut`, TLC refutes it on the instance of
  `Readers`, with a log that is blind for three of the four instants of its window,
  in one hole that counts for one of two seconds, under the limit of two thirds.
  `GapsAreLargest` compares the gaps by whole seconds, as the code does.
* The health of the logger looks at holes between samples; the one between the
  start of the window and the first sample is not among them. `SKILL.md` says
  "degraded when the log was blind for >10% of the window".
* The close of `reconcile` uses the numbers of the digest, which begin at one in
  every digest (`report.rs:26`), so a suffixed closed file may be replaced by a
  later heartbeat (`open_incident.py:164-168`).

## 6. What is not modelled, and the plan

In this order:

1. `Escalation`: time stamps with offsets of their own (the date of the ledger
   flips with the offset of `--now`, `_state.py:145`), and the issue draft.
2. The close of `Reconcile` composed with the disk writes of `AgentState`, with
   the numbers a digest gives.
3. The decoding of text in `sw_string.c` and the two-call accessors of
   `sw_snapshot.c`; sharing a session between threads in the wrappers.
4. Proofs: what a digest says of each row (`first`, `last`, extremes and sums over
   the whole log), and that a verdict outlives a later event once 2 is modelled.

Left out: the *C++ wrapper*, which forwards to the calls `Collect` models; the
*Python package*, which the Rust command line replaces and whose logs `Replay`
reads as a form of line; the *agent bookkeeping* (`state_summary.py` reads,
`heartbeat.py` counts, `init_state.py` makes the empty state that `AgentState`
and `Escalation` start from); export and snapshot formatting, TOML and JSON
parsing, the text of notices and incidents; and the agent's judgement (what is
benign, when to snooze), which appears as a free choice.
