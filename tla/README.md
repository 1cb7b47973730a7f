# Verification of `rinnai_touch`

TLA+ models of the Home Assistant integration for Rinnai Touch / Brivis
modules (`custom_components/rinnai_touch/`), of its passive capture probe
(`scripts/rinnai_probe.py`) and of the sanitiser that turns captures into
fixtures (`scripts/sanitise_rinnai_capture.py`), the TLC runs that check them,
and TLAPS proofs of every safety property the passing runs check. `PROJECT.json` lists the components,
the runs, the mutants, the lines every definition stands for, the hazards, the findings and the theorems.

Everything runs in one asyncio event loop. A task is switched only at an
`await`, so an action of a model is always *the code one task runs from one
await to the next*, or one synchronous callback of the loop. This is where the
concurrency of the program is: not inside those pieces, but in the order in which
they come.

## 1. The system

| Component | Source | State it keeps | Operations | Hard behaviour |
|---|---|---|---|---|
| TCP client: supervisor | `client.py` | `_state`, `_stopping`, `_run_task`, `_writer`, `_open_session` | `start()`, `stop()`, `_run`, `_read_session`, `_close_writer`, `_set_state` | `stop()` from another task, from a callback of the supervisor itself, during any await; cancellation in a `finally`; two calls at once |
| TCP client: timing | `client.py`, `const.py` | `delay_index`, `idle_anchor`, `_idle_recycled` | connect timeout, idle recycle, back-off, floor after a recycle | a read that times out against a chunk that arrives; flags of one attempt surviving into the next |
| TCP client: forensics | `client.py` | the tracker of a session, `_sessions_without_frame`, `_warned_classification` | begin, track a chunk, first valid frame, finish | attempts that end at any await; an outage that spans stops and restarts |
| Frame parser | `protocol.py` | the buffer and its counters | `feed()` | chunks cut anywhere, truncated frames, garbage, the cap |
| Status model | `models.py` | latest copy of each group, latched observations | `apply()`, snapshot | partial frames, mode changes, order inside a frame |
| Coordinator | `coordinator.py` | last frame's time, announced freshness, one stale timer, shutdown flag | snapshot and connection callbacks, timer, shutdown | a timer that is early, late or cancelled in the same turn |
| Entities | `entity.py`, `binary_sensor.py`, `sensor.py` | the state last written | availability, values, `async_update` | a written state that outlives its truth |
| Config flow | `config_flow.py` | one flow per open form | `async_step_user`, `_async_validate_input` | a check before an await and a creation after it; deadline against first frame |
| Entry lifecycle | `__init__.py` | `entry.runtime_data`, the stop listener | set-up, unload, stop of Home Assistant | set-up or unload that fails half way; two shutdowns that overlap |
| Capture probe | `scripts/rinnai_probe.py` | raw file, byte count, outcome | `run_capture`, `main` | interrupts, resets, a disk that refuses |
| Sanitiser | `scripts/sanitise_rinnai_capture.py` | three output files | `analyse_capture`, `sanitise_payload`, `build_fixture_files`, `main` | what it lets through; files of two runs beside each other |
| Constants, translations, manifest | `const.py`, `strings.json`, ... | none | none | none |

How they interact. The coordinator owns one client: it calls `start()` when the
entry is set up and `stop()` at unload or when Home Assistant stops. The client's
supervisor task reads chunks, gives them to the parser, the frames to the status
model, and awaits the callbacks it was given for every snapshot and every
connection event; the coordinator is the only listener and returns at once, but
the client's documentation allows a listener to call `stop()` from any callback.
The coordinator notifies its entities, which evaluate their availability *when
they write their state*. A config flow makes a client of its own, stopped before
the user gets an answer. The probe shares the parser and nothing else.

What makes each correct:

- *client*: one supervisor and one connection; nothing left open; `stop()` settles
  in `STOPPED`; the supervisor ends only when told to; every attempt is summarised
  once; listeners see the states in their order;
- *timing*: retries are paced exactly as the schedule says; a session is recycled
  if and only if it was silent for the limit;
- *forensics*: one WARNING per outage and per change of its cause;
- *parser*: exactly the genuine frames come out, whatever the chunks and whatever
  lies between; bounded buffer; termination;
- *status model*: latched observations are what the frames ever said, current
  values are of the active mode only;
- *coordinator*: entities never stay available on old data, nor become
  unavailable on fresh data; one timer; silence after a shutdown;
- *config flow*: one attempt, one answer, nothing left behind, entries only for
  modules that sent a valid frame;
- *entry*: from set-up to shutdown a client that is trying to be connected, afterwards none,
  however set-up, unload and stop overlap or fail;
- *probe*: summary and exit code tell what is in the raw file;
- *sanitiser*: a fixture depends on nothing private; the exit codes tell whether the files on disk
  belong together.

## 2. The modules

| Module | Models | Checked by | Proved in |
|---|---|---|---|
| `ConnectionLifecycle` | abstract: what the client promises its owner | as a property of `TcpClient` | its safety in `TcpClientProofs` |
| `TcpClient` | supervisor, `start()`, `stop()`, callbacks | `client_one_owner`, `client_any_callback`, `stop_in_failed`, `connect_crashes` | `TcpClientProofs` |
| `ReconnectTiming` | time in the client | `timing` | `ReconnectTimingProofs` |
| `SessionForensics` | summaries and warnings of the client | `forensics` | `SessionForensicsProofs` |
| `FrameParser` | `feed()` | `parser` | `FrameParserProofs` |
| `StatusModel` | `apply()` and the snapshot | `status_model` | `StatusModelProofs` |
| `Coordinator` | freshness, timer, shutdown, what entities show | `integration` | `IntegrationProofs` |
| `Integration` | the life of an entry: `Coordinator` and `TcpClient` composed | `integration` | `IntegrationProofs` |
| `ConfigFlow` | concurrent flows with their clients | `config_flow`, `config_flow_duplicate` | `ConfigFlowProofs` |
| `CaptureProbe` | the probe | `capture_pipeline` | `CapturePipelineProofs` |
| `Redaction` | the rules of the sanitiser, as functions | `capture_pipeline` | `CapturePipelineProofs` |
| `Sanitiser` | its `main()`: what it refuses and writes | `capture_pipeline` | `CapturePipelineProofs` |
| `CapturePipeline` | probe and sanitiser composed | `capture_pipeline` | `CapturePipelineProofs` |

The `MC...` modules give a specification its small instance. Definitions named
`...Slip` are plausible mistakes (a dropped guard, a missing reset, a swapped
order) that replace the definition after them to show that each property would
notice; no specification uses them.

**TcpClient.** `pc[t]` is the await a supervisor is suspended at; `call[a]` is how
far the `start()` or `stop()` of a task has come, and supervisors have one too,
because a listener may call `stop()` from the callback the supervisor awaits.
`cancelled` holds tasks whose `CancelledError` is not delivered yet; `Unwind` is
its delivery at whatever await the task has reached, with both `finally` blocks of
`_run`. `Launch`/`StartCall`/`StartResumes` are `start()`,
`StopCall`/`StopJoins`/`StopEnds` `stop()` from outside, `StopFromCallback` the
re-entrant one. A published state that equals the current one calls nobody, as in
`_set_state`. Frames are only counted; connects may be accepted, refused
(`OSError` or timeout) or crash with any other exception.

**ReconnectTiming** takes over what `TcpClient` abstracts: a clock, the anchor of
the idle limit, the index into the schedule, the recycle flag. It has one
supervisor, which `TcpClientProofs` shows to be the case for one owner, and
`IntegrationProofs` for the integration until it shuts down. `silence`, `ended`, `streak` and `slept` are history variables: the
properties compare the code's account (`delayIndex`, `idleRecycled`, ...) with them.

**SessionForensics** has the tracker as a record, the outage counters, and auxiliary
variables for what a reader of the log should have been told. An exception that
the connect is not expected to raise ends as a "stopped" summary, as in the code, and
`OutageIsWarned` excuses that attempt (section 6).

**FrameParser** fixes the bytes of the connection in advance and makes everything a
position in them, so that a frame is an interval and "exactly the genuine frames"
is an equation. Each iteration of the extraction loop is an action. Bytes are
reduced to the kinds the parser tells apart, JSON to the empty array and an array
of one object with one key. A candidate is judged by functions of the bytes received (`TryCandidate(Received, i)`),
so that the same functions say of the whole stream which frames are genuine in it (`Framed`).

**StatusModel** folds frames item by item as `apply()` does. `history` is an auxiliary variable, the items of
all frames so far; the properties are stated over it, without the fold.

**Coordinator** counts ages and timers from now. `shown` is what the entities wrote
last: connectivity, freshness and a reading, one kind of entity each. They write when
they are added, when they are notified, and when `homeassistant.update_entity` asks
them to (`UpdateEntity`), shut down or not; a freshness that changes with the clock
alone changes nothing shown. `Follows` is the order of the states
the client publishes, as `ConnectionLifecycle` has it.

**Integration** composes them. The coordinator's handlers do not suspend, so what a step of
the client publishes is handled in that very step (`Handled`): the step that sets
`state` runs `HandleConnectionEvent`, the one that goes on to the next frame runs
`HandleSnapshot`, and a handler whose guard is set does nothing (`Ignored`). While a
callback is awaited no other task can run (`Idle`). `SetUp` .. `Unloaded` follow
`__init__.py` from await to await; `StopEvent`, `Halt` and `Halted` are the listener of
EVENT_HOMEASSISTANT_STOP. The client's own invariants for one owner do not apply here, since the unload
and the stop listener may both call `stop()`.

**ConfigFlow** reduces the client to the stages `TcpClient` and `ReconnectTiming`
establish, and lets several flows interleave at every await. **CaptureProbe** follows
`run_capture()` from await to await, with the interrupts `main()` turns into 3; a request for help ends
in a stage of its own (`helped`), since it exits with 0 as well.

**Redaction** takes a payload as the sequence of its leaves, each with its full path; values are
members of one small set per kind the sanitiser tells apart, and a value that is replaced
becomes a pair of what replaces it and what that depends on (a zone, an order of
keys). `Told` and `Public` say what a fixture is allowed to depend on. **Sanitiser** is
`main()` between its exits, each output file a write the disk may refuse before or
after it was truncated. It may be run again and again with the same two directories: `files` says
of each file which run wrote to it last and whether it is complete, and `told` is a history variable, the
exit code of the last run that changed any. A request for help is a run too (`Help`), which exits with 0 and
changes nothing. **CapturePipeline** hands the sanitiser any capture that fits
into the bytes the probe wrote.

## 3. The runs

Passing runs:

- **client_one_owner**: one owner that starts and stops at any moment, and listeners
  that stop from the callbacks where that is safe (CONNECTED, snapshot,
  RECONNECTING). The client settles in `STOPPED` without a connection
  (`StopSettles`), its supervisor
  ends only when told to, nothing new is begun while stopping, and it implements
  `ConnectionLifecycle` with its liveness (`Lifecycle`).
- **client_any_callback**: the same owner, `stop()` from *any* callback, connects that
  raise anything. Never two supervisors, no connection that `_writer` does not refer to, the
  slot never refers to an ended task, one summary per attempt, and every
  call returns (`CallsReturn`).
- **timing**: back-off, floor and recycle, and that silence is left, over every order of failures,
  silences, noise, empty and status frames.
- **forensics**: four attempts, two stops, every split of the greeting.
- **parser**: every stream of up to three segments out of three genuine frames and ten
  kinds of garbage, in chunks of 1, 4, 7 or 13 bytes: `ExactlyTheSent`, and every iteration of the
  extraction loop consumes something (`LoopAdvances`). `StreamsAreFramed` makes TLC check that these
  streams satisfy the hypothesis of the theorem on `ExactlyTheSent`.
- **status_model**: every sequence of up to four groups in frames of none, one, two or three, out of a
  small vocabulary.
- **integration**: one entry with its client and its coordinator. What the coordinator promises
  alone holds with the real client under it (`OneTimer`, `ShownExpires`, `FreshIsShown`,
  `NoBusyRecheck`, `ShutdownIsSilent`, `SilenceIsAnnounced`), because the composition implements
  `Coordinator` (`CoordinatorLife`). The entry has a live client exactly while it should
  (`LoadedIsRunning`, `UnloadedIsQuiet`), nothing is heard after a shutdown began
  (`ShutdownIsUnheard`), and every shutdown ends with everything stopped, also when unload and the stop
  of Home Assistant overlap (`ShutdownsFinish`).
- **config_flow**: two flows and two targets, a module that accepts, refuses, drops or
  stays silent, a client that dies without a word, a loop that is up to three ticks late.
- **capture_pipeline**: four bytes in chunks of one or two, two interrupts, a disk that refuses any
  write, a stream that ends or breaks; then the sanitiser on any capture of up to
  two frames, with or without one to verify against. Summary and exit code of the probe
  agree with the raw file (`SummaryAgreesWithRaw`, `ExitCodeIsEarned`), the probe ends
  (`CaptureEnds`), two captures that differ only in private values give the same fixtures
  (`FixtureTellsNothing`), and between runs of the sanitiser its files are complete and of one run exactly if the
  last run that changed any said 0 (`ExitTellsTheFiles`). An exit code of 0 alone does not say that, since help
  has it too, and neither do 2 and 3, which leave mixed files as mixed as they were.

Runs that find a violation, each a disagreement of the code with what the
repository says of it (section 6): **stop_in_failed**, **connect_crashes**,
**config_flow_duplicate**.

Bounds and why they suffice:

- `TcpClient`: two supervisors and two sockets. A supervisor is reused once it has
  ended, so lives follow each other without a bound; a third overlapping
  one would need a second owner. Chunks complete 0, 1 or 2 frames: none, the
  last, and one with another behind it. No counter is bounded, so the state
  space is complete.
- `ReconnectTiming`: a schedule 1, 2, 4 with a floor of 2 puts delays below, at and above
  the floor and has a last step; the loop may be one tick late. `sinceAnchor` and
  `streak` are capped where the code no longer tells values apart.
- `Integration`: threshold 4, floor 2, one tick early or late; ages beyond the deadline are
  alike. Two readings tell a new frame from a repeated one. One supervisor, because an entry
  starts its client once (`IntegrationProofs` shows it for any number); two sockets, so that a
  leaked one would be seen beside the next. A reload is the life of another entry and shares nothing
  with this one.
- `FrameParser`: two digits instead of the real header width, a cap of 12, which is the
  longest genuine frame: the cap bites on every longer remainder. Three
  segments give garbage before, between and behind frames, and two pieces
  of garbage in a row.
- `StatusModel`: four items (`MaxItems`) are what a mode change and the return from it need, with the
  group that is current before and after; zone B is never mentioned and shows that zones do not leak.
- `SessionForensics`: four attempts fit a warning, a change of cause, a recovery and
  the next outage.
- `ConfigFlow`: a deadline of one tick, the no-retry delay in the code's ratio to it
  (four times), a lag of three, so that a loop that is late enough does reach a retry.
- `CapturePipeline`: duration 3, connect timeout 1, four bytes, which are two frames of two. Two runs of the
  sanitiser (`MaxRuns`): one that leaves the files mixed, and one that changes nothing or repairs them. The
  captures (`MCCapturePipeline`) have for every rule of redaction a frame that meets it and one with another
  private value in the same place; a second frame makes the choice of the richest payload and
  the structure of all payloads differ.

`CHECK_DEADLOCK FALSE` is set where the system really may stop: the frames, attempts or
flows of the run are used up, or the tools have exited. The client, the entry, the
timing and the parser (which idles once the stream is over) are checked for deadlock.

## 4. Fairness

Liveness is assumed only of the event loop: a task that is ready is resumed,
a timer or timeout that is due fires, the clock goes on, a callback that was awaited
returns (the coordinator's are synchronous), and closing a writer ends. A connect
ends because `asyncio.wait_for` bounds it. Nothing is assumed of the
module (it may never send a byte, and a read need not end), of the user, of the
owner, or of the disk. In particular `Lifecycle` promises an attempt after every
back-off and an end of every stopped life, not a connection.

Weak fairness is enough everywhere but for one action: `Halt`, the first step of the task that
runs the stop listener, is disabled whenever the client is inside a callback, and may be so
again and again. A ready task is in the loop's queue once and for all and
is run in its turn between two callbacks, which strong fairness says. Home Assistant is not assumed to set up, unload
or stop anything, and the sanitiser, which waits for nothing, runs on.

## 5. What is proved

All theorems hold for every value of the constants that satisfies the named
assumptions (`TasksAreDistinct`, `CallbacksExist`, `OutcomesExist`,
`ChunksAreCounts`; `DelaysGiven`, `LimitsGiven`; `Thresholds`, `LoopTiming`,
`Markers`, `ReadingsAreValues`; `EntryTasks`; `StreamsGiven`, `SizesGiven`; `PayloadsAreLists`, `ModesAreCodes`,
`NoneIsNoStatus`; `CausesAreNames`, `BytesAreNumbers`; `TimesAreCounts`; `TimesArePositive`, `ChunksAreSizes`;
`KindsAreDistinct`, `CapturesAreFrames`, `ZonesHaveKeys`, `NoneIsNoCapture`; `NoneIsNothing`).
They say what the constants are and,
for the coordinator, that the loop runs timers less early than the recheck floor.

- `TcpClientProofs`. `ClientTypeOK` needs no further assumption. The other theorems have one task that
  owns the client (`Callers = {o}`), as the coordinator does. `OneSupervisor` is
  not inductive: a supervisor may exist outside the slot while `stop()` waits for it.
  `OwnerInv` says which supervisor may be alive in each stage of the owner's call, that
  a deregistered one is cancelled, and where `_writer` may be set; it is inductive
  for *any* re-entrant stops and any outcome of a connect. From it follow
  `SingleOwnerOneSupervisor`, `SingleOwnerNothingLeaks` (also at most one connection) and
  `SingleOwnerSlotIsLive`; with one supervisor at a time, `SingleOwnerSummarises` follows step by step.
  `SupervisorsSurvive` needs no owner, but that a connect raises only what `_run` expects
  (`connect_crashes` shows why).
  `SingleOwnerStopSettles` adds `SettledInv` (what a supervisor may still be doing after
  `stop()` returned) and the hypothesis that no listener stops the client from the
  CONNECTING or CONNECTION_FAILED callback; `stop_in_failed` shows that it is needed.
  `SingleOwnerBeginsNothing` combines the two invariants: while the client is stopping every
  supervisor is cancelled or winds down (`StoppingWindsDown`), and neither opens a connection
  or reads.
  `SingleOwnerLives` is the refinement without its fairness: under the mapping of `Lifecycle` every step
  is a step of `ConnectionLifecycle` or a stutter (`LifeSafety`), with the hypotheses of the last two and
  that connects do not crash (the latter would end a life nobody stopped). `LifeInv` adds to the
  two invariants what was published last: while nobody stops the client it tells where its
  supervisor is.
- `ReconnectTimingProofs`. `TimingInv` ties the code's account to the history: the index is
  the number of attempts since the last status frame, the anchor's age is the
  silence, and the flag is set exactly between a recycle and the next attempt.
  `BackoffIsPaced`, `RecycleIsExact` and `RecycleIsNoError` follow, for every schedule,
  limit, floor and lateness of the loop.
- `FrameParserProofs`. For every stream, chunking, cap and header length: positions and
  counters stay in range, the buffer stays within its cap, frames never overlap and
  keep their order, and every iteration of the loop but the last consumes
  bytes, so that `feed()` returns. `ExactlyTheSentIsReturned` has the hypothesis `Framed` of every stream: its genuine
  frames fit into the buffer, do not overlap, and are all that decodes in the stream *as a whole*. The parser never sees the
  whole; the proof is that it need not. The scan of what has been received is the
  beginning of the scan of the stream (`ScanOfPrefix`, by induction over positions), so a candidate that is judged
  a frame or invalid is judged so for good, and a genuine frame is "incomplete" until its last byte arrives and a frame
  from then on (`CandidatePrefix`). With `ExactInv` (the frames returned are the first of the
  genuine ones, and no other has lost a byte) it follows that an abandoned candidate was none (`OnlyGenuine`, `ReturnsNext`), and that
  the cap never cuts into a frame that is still arriving.
- `StatusModelProofs`. `ModelInv` says that the model is what the items of its life say (`Said`): every field is given
  by a set or by the last item of a kind in `history`, not by the fold. One item keeps this whatever the item is, and the items
  of a frame follow by induction over the fold (a set of naturals that is not empty
  has a least element, so there is no first item that breaks it). `ObservationsOnlyAddUp` and `ReadingsAreOfTheActiveMode`
  read the snapshot off it, for every vocabulary of modes, zones, capabilities and frames, without the bound `MaxItems` in
  the argument. `OrderDoesNotMatter` is the action property: the different groups of a
  frame, taken in the opposite order, give the same snapshot.
- `IntegrationProofs`, first the coordinator alone. `TimerInv` bounds when the one timer runs out relative to the age of the data.
  `ExactlyOneTimer` and `AvailabilityExpires` follow, for every threshold, floor and timing of
  the loop. `FreshDataIsShown` is inductive beside it, since every write of an entity shows
  what is true then. `ShutdownSilences` uses both: an entity that is asked to write after the shutdown finds
  the connection it showed. `ChecksAreSpaced` has the hypothesis that
  the loop is not so early that a timer for the whole threshold is due at once.

  Then the entry. `EntryInv`: the guard of the coordinator is set exactly once a shutdown has
  begun, and until then nobody stops the client (`Undisturbed`), so that what was
  published last tells where its only supervisor is (`Tells`) and is what the coordinator
  heard last. After the shutdown nothing needs to be known of the client, because its
  callbacks are ignored: this is why the two overlapping shutdowns do no harm. Every step is then one of
  `Coordinator` or a stutter, and the fairness is the same (`EntryDrivesCoordinator`), so the theorems about
  `Coordinator` hold in the whole (`EntryKeepsPromises`), for any number of
  supervisors, sockets and frames, and connects that crash. `ShutdownsAreUnheard` and, where connects do not crash, `LoadedEntriesRun` follow too.

  `UnloadedEntriesAreQuiet` does have to follow the client through both shutdowns, with an invariant of
  its own, `QuietInv`. Until a shutdown begins at most one supervisor is alive, in the slot, and only it
  has a connection (`Reading`); from then on every supervisor is cancelled or done, and a
  connection is open only while one of the two calls still has it to close (`Quitting`). It holds also when connects crash.
- `SessionForensicsProofs`. `ForensicsInv` adds to the two properties that a session with a valid
  frame leaves no outage behind, that a session being closed has its reason, and that
  a cause is remembered exactly during an outage. `OutagesAreWarned` and
  `SummariesNameTheCause` follow, for every set of causes and across every stop and restart.
  `BannersAreSplitSafe` rests on `BannerInv`: the tracker holds the first bytes of the session, up to the length of the
  greeting, however the chunks cut it, and nothing of an earlier session.
- `ConfigFlowProofs`. `FlowInv` adds that a client lives only while its flow validates or stops it, that
  it has waited no longer than the validation is old (so a retry, which waits for the
  no-retry delay, is as late), and that a flow on its way to an entry has received a frame. `ValidationsTryOnce`, `ClientsEndWithTheFlow` and
  `EntriesStandForModules` follow, for any number of flows, any deadline and lateness.
- `CapturePipelineProofs`. `ProbeInv` ties every stage of the probe to the resources it holds and the byte count to
  the raw file. `SummariesAgree`, `ExitCodesAreEarned` and `ProbeLeavesNothing` follow,
  for every stream, duration and interrupt. `SanitiserInv` does the same for the sanitiser: what it has decided so far and
  which files it has written or spoiled, against those of earlier runs; `ExitCodesTellTheFiles` follows, for any
  number of runs. Both hold in the composition
  (`PipelineInvariant`), since neither tool changes what the other reads while it runs. `FixturesTellNothing` is
  non-interference: two captures that agree in what is public give the same fixture. It goes leaf by leaf (what replaces
  a value depends on `Told` of the leaf only) and then by payload and stream, for every set of captures,
  values and keys.

The strengthenings are inductive where the properties are not. TLC has checked each of them on the instance of its
component's run; they are no property of a run, since a run would only repeat the step (`OwnerInv`, `SettledInv`,
`LifeInv`, `TimingInv`, `ExactInv`, `ModelInv`, `TimerInv`, `EntryInv`, `QuietInv`, `FlowInv`, `ProbeInv`, `SanitiserInv`,
`ForensicsInv`, `BannerInv`). The same holds of `FramesInOrder` in
`FrameParser`, of `SilenceIsBounded` in `ReconnectTiming` and of the type invariants that are part of
them.

Only model-checked: the liveness (`CallsReturn`, `SilenceIsLeft`, `SilenceIsAnnounced`,
`ShutdownsFinish`, `EverySubmissionIsAnswered`, `CaptureEnds`, and the fairness of `Lifecycle`), which TLAPS does not prove. Also without a proof are the safety properties outside their hypotheses, where TLC
shows how far they hold: with `stop()` from *any* callback `client_any_callback` checks on its
instance what the theorems say for every instance with one owner.

## 6. Disagreements between the code and what it says

Three are runs of their own:

1. **stop_in_failed** - `client.py:424-425` says `stop()` leaves the client in `STOPPED`. Called
   from the CONNECTION_FAILED callback it returns in `STOPPED`, and `_run` then publishes
   RECONNECTING (`client.py:513`) and stays there through the sleep.
2. **connect_crashes** - `client.py:455-456` says `_run` exits only through `stop()`. An
   exception of `open_connection` other than `OSError` and `TimeoutError` (a host name that
   IDNA cannot encode) ends it in CONNECTING; nobody restarts it.
3. **config_flow_duplicate** - `config_flow.py:23-25` describes duplicate prevention by a check
   before the socket is opened. Two flows for one module both pass it during each
   other's validation, and both create an entry.

Others TLC shows when the constants of a run are changed:

- two tasks that call `start()` (`Starters = {a, b}`, no `Stoppers`, three supervisors) violate
  `OneSupervisor`: both wait for a winding-down supervisor and both launch one (`client.py:415`);
  one task that starts while another one's `stop()` waits (`Starters = {a}`,
  `Stoppers = {b}`) violates `OneSupervisor` and `OneConnection`, because `stop()` frees the slot first
  (`client.py:440`). The integration starts its client once and never again, and does neither;
- `"onConnecting"` in `ReentrantStops` violates `NothingNewAfterStop` and `StopSettles`: the connection is
  still opened after a `stop()` from that callback (`client.py:465`);
- `Genuine <- NestedToo` in `FrameParser.cfg` makes `StreamsAreFramed` false and, with that assumption left out,
  violates `ExactlyTheSent`: a chunk that ends inside a frame
  whose *text* looks like a frame makes the parser give the frame up, without any
  corruption (`protocol.py:252` against `protocol.py:51-56`).

And seen in the models without a property of their own:

- *client*: after a `stop()` from a snapshot callback the remaining frames of the chunk are still
  published (`client.py:590`); an attempt that a connect's unexpected exception breaks is
  summarised as "stopped" and not counted as part of the outage (`client.py:501`);
- *status model*: it outlives connections, while `models.py:82-84` speaks of "this connection's
  stream"; a group retained from an earlier spell of a mode is the current one again when its mode
  returns without it (`models.py:360`);
- *entry*: when the forwarding to the platforms fails, the client that was already started is stopped by
  nothing in the integration (`__init__.py:60`; `LoadedIsRunning` says that it runs on); after a
  shutdown the connectivity entity keeps its last value, since STOPPED is no longer heard
  (`coordinator.py:236`);
- *probe*: an interrupt during its connect exits with 3 without a summary, and a
  reset during the capture with 1 and without one (`rinnai_probe.py:351`, `:445`); a read that fails with
  ETIMEDOUT, which is a TimeoutError, is summarised as "duration_elapsed" (`:354`);
- *sanitiser*: `top_level_groups` and `zone_letters` of the metadata come from all payloads while the
  stream holds the richest one only (`sanitise_rinnai_capture.py:371`); a group name is checked only in
  the payload that is sanitised (`:320`), so that one outside the allow-list in another payload reaches the
  metadata, where the docstring (`:12-14`) has any such shape raise an error; a measured
  temperature that is no number (a flag, a time) passes `_sanitise_value` and is then an
  uncaught ValueError of `int(raw)` (`:398`), exit code 1; a zone whose name is `Y` or `N` keeps it, since the
  flags are allowed everywhere; when the disk refuses the metadata or the report, the report of an earlier run stays
  beside the new stream (`:503-507`, `:547`), and nothing but the exit code 1 of that run says so.

## 7. Not modelled, and why

- **Constants, translations, manifest**: data without behaviour. The timing constants are parameters of
  the models.
- **Home Assistant** itself appears as the environment of `Integration`: in which order it calls, that a
  removed stop listener is not called, and that unloading the platforms removes their entities. What it does
  to an entry whose set-up failed is not in the repository; both outcomes are allowed (`ForwardFails`).
- **A reload** is the end of one entry's life and the beginning of another's; they share no state.
- In the modelled components: sequence numbers and the grammar of JSON in the parser;
  exceptions of `json.loads` other than JSONDecodeError, which the client and not the parser contains
  (`client.py:621`); set points, schedules and the details of faults in the status model; byte
  counts, durations and texts in the forensics; the normalisation of the form; the
  difference between the errors a form shows; the counters and timestamps of the coordinator; names and
  identities of the entities.
- In the sanitiser: a payload has one group per item and no empty groups; values of other JSON types
  (all rejected) count as unapproved text; the counts in the report are left out; an interrupt of the process, and
  runs with different directories, are not modelled. The raw file is parsed
  by `FrameParser`, so captures are given as frames.
- **Two clients on one module** (a flow validating while an entry is connected) are not composed: nothing in
  the repository says what the module does with a second connection.

## 8. Plan

1. `StatusLink`: client, status model and coordinator composed, with a reconnect in the middle of a mode change.
2. Proofs: what remains true of the client when two tasks own it (the findings of section 6 say what does not), and of
   `ConnectionLifecycle` when a connect may crash.
3. Larger instances where time allows: three flows, five attempts of forensics.
