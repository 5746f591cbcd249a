# BenchMesh in TLA+

BenchMesh connects laboratory instruments (power supplies, meters, generators,
loads) over serial, USB and network links to one server with a web interface.
Its Rust code (`src/crates/`) has one thread per instrument, a server whose
handlers run concurrently, a sampler that records readings once a second, and an
executor that runs automation flows which switch real outputs.  This directory
models the parts whose behaviour depends on what those do at the same time,
checks them with TLC on small instances, and proves most of their safety
properties with TLAPS for every instance.

    tlc -workers 2 -config DeviceThread_safety.cfg MCDeviceThread.tla
    tlapm DeviceThreadProofs.tla

`PROJECT.json` lists the runs, the source lines every definition stands for, the
hazards of the code and the disagreements found.

## 1. The system

All paths below are under `src/`; `bm-server` stands for
`src/crates/bm-server/src`, and so on.

| Part | State | Operations | Talks to |
| --- | --- | --- | --- |
| Device thread (`bm-driver/actor.rs`) | the link, parked or not, silent polls, last presence seen; a request counter shared with its callers | connect, get, set, poll, backoff, park, presence check, end | callers by a channel and one reply channel per request; registry by events |
| Device registry and `Devices` (`bm-server/devices.rs`) | entry per instrument: connected, status, parked, presence, reason; one handle per thread | apply an event, start, stop (joins), mark parked | device threads, every reader of the state |
| Parking and configuration (`bm-server/lib.rs`, `config.rs`) | the configuration, its file, `config_lock` | park and unpark, add, edit, delete, replace all | `Devices`, the run's lock, SCPI listeners |
| Automation executor (`bm-server/automation/exec.rs`) | the current run, its abort count and prompt notification; steps, variables, energised outputs, recording | start, abort, resume; every kind of step; cleanup; safe state | device threads (set, get), registry (readings), recordings |
| Flow language (`automation/flow.rs`, `vocab.rs`) | none | parse, static check, expressions | executor |
| Flow and settings files (`automation/store.rs`, `mod.rs`) | one file per flow | list, create, put, delete | file system |
| Recordings (`bm-server/recordings.rs`, `bm-store`) | a SQLite database; a broadcast channel; the sampler's tick | create, pause, resume, stop, delete, series, tick, announce, snapshot, data | registry (values), clients by a socket |
| Protocol engine (`bm-driver/engine.rs`, `framing`, `modbus`, `parse`, `expr`, `status`) | poll schedule, silent polls | exchange with retries and drain, get, set, poll, identify | transports |
| Remote access (`bm-server/remote/`) | settings, passwords, sessions, rate limiter, one TLS listener | settings, passwords, sign in and out, gate | configuration file, listener |
| Virtual SCPI instruments (`bm-server/scpi/`) | settings with a port per device, one listener per device | update, sync, one session per connection | device threads |
| Updater, start at login (`bm-server/system/`) | the updater's phase; files of the installation | check, download, verify, swap, start entry | release server, file system |
| Detect (`bm-server/detect.rs`) | the ports being probed | probe definitions on a port, give up | transports |
| Start and shutdown (`bm-server/run.rs`) | none of its own | start what is configured, stop in order | everything |
| MCP, assistant, community (`mcp.rs`, `ai.rs`, `community.rs`) | caches only | adapt requests to the operations above | the API |
| Transports, device definitions, wire log, metrics | ports; parsed YAML; bounded logs | open, read, write, presence; validate | operating system |
| Desktop app, `bm-probe`, web interface | windows; none; view of the state | | the API |

### What is hard in it

* **A request outlives its caller.**  `DeviceClient::send` waits for a bounded
  time and gives up, the request stays in the channel and is carried out later.
  A caller that was told "timeout" does not know what the instrument did; one that
  was told "refused" must be able to rely on it.
* **The thread is reached in four different waits** (serving, backoff, parked,
  connecting), and each handles requests, park, unpark and stop in code of its
  own.  A parked instrument belongs to somebody else: nothing may be sent to it.
* **Three records of one fact.**  Whether an instrument is parked is in the
  configuration, in the registry and in the thread, changed at different moments,
  one of them undone when the configuration cannot be saved.
* **Readings have an age.**  A poll samples the instrument at one time, and the
  registry stamps it at another; a flow that reads after a set needs a sample
  that was taken after it.
* **Outputs must be off after a failure.**  The executor has to know which
  outputs it switched on, although its sets can fail after they took effect.
* **Aborts, continues and timeouts come at any time**: before a wait, in it, after
  it, in the cleanup, and twice.
* **The database is read and written in several calls per operation**, by
  handlers and by the sampler; ids of deleted rows are given again.
* **Clients are slow.**  The broadcast channel drops messages, and snapshots are
  read while changes go on.
* **Restarts.**  Recordings left running are closed at the next start; parked
  instruments are parked again.

### What makes each part correct

* *Device thread and parking*: a parked instrument is left alone; requests are
  settled once and never carried out after they were refused; the session is
  ended on the instrument before the thread ends; stop never hangs; registry,
  configuration and thread agree once all requests are settled.
* *Executor*: outputs known to be on are off after a failure or an abort; the
  cleanup runs to its end; prompts pass only with a continue; readings are newer
  than the changes before them; an aborted run ends.
* *Recordings*: a sample belongs to the signal and the time its series claims;
  stop is final; a client ends up showing what is stored.
* *Engine*: a reply belongs to the command it was read for; retries do not set
  twice.  *Remote access*: no session outlives the password or the setting that
  allowed it; the listener is the one of the last settings.  *SCPI*: a device keeps
  its port; listeners are those of the settings.  *Updater*: there is always an
  executable under the name that is started; an installation is not lost to a
  check.  *Configuration*: no run starts on a parked instrument and none is
  parked or replaced under a run.

## 2. Modules

| Module | Models | Kind |
| --- | --- | --- |
| `InstrumentService` | what a device thread promises its callers | abstract specification |
| `DeviceThread` | `actor.rs`, the callers, `Registry::apply`, `Devices::stop`, `set_parked` | component; refines `InstrumentService` |
| `Definition` | `bm-devicedef`: schema, merging, validation | functions and predicates |
| `Engine` | `bm-driver/engine.rs` and what it calls | component; extends `Definition` |
| `Framing` | `framing.rs`: chunks of bytes to one reply | algorithm with a reference definition |
| `FlowLanguage` | `automation/flow.rs`, `vocab.rs`, and `exec.rs` step by step | parser and check, against the executor |
| `FlowRun` | `automation/exec.rs` with several instruments' threads | component |
| `Recordings` | `recordings.rs`, `bm-store` | component with one client |
| `SeriesRange` | `bm-store` `Store::range`: reduction of samples | algorithm with a reference property |
| `ScpiPorts` | `scpi/mod.rs`: settings, ports, listeners | component |
| `Bench` | `lib.rs`, `config.rs`, `Devices`, `Runner` as one system | composition; extends `ScpiPorts` |
| `ScpiSession` | `scpi/session.rs`, `dialect.rs` | component |
| `RemoteAccess` | `remote/`: settings, passwords, listener, sessions, limiter | component |
| `Ports` | `bm-transport` locks and identities, `detect.rs` | component |
| `Updates` | `system/update.rs`, restart and shut down, `headless.rs` | component |
| `Autostart` | `system/autostart.rs` | component, three operating systems |
| `FlowFiles` | `automation/store.rs` `Flows` | component with crashes |
| `Assistant` | `SettingsFile`, `assist.rs` | component |
| `Mcp` | `mcp.rs` | component |
| `MCDeviceThread`, `MCEngine`, `MCFlowLanguage`, `MCFlowRun`, `MCRecordings`, `MCBench`, `MCRemoteAccess` | | instances for TLC |
| `MCServices` | | extends the services' modules, which share no state; one of them takes steps per behaviour |
| `DeviceThreadProofs`, `EngineProofs`, `FlowRunProofs`, `RecordingsProofs`, `BenchProofs`, `RemoteAccessProofs`, `FlowLanguageProofs` | | theorems about the module they are named for |
| `ServicesProofs` | | theorems about `Ports`, `Updates`, `ScpiSession`, `FlowFiles`, `Assistant`, `Mcp`, `SeriesRange`, `Autostart` and `Framing` |

An operator that is marked "Mutant of" a definition is a plausible mistake in
that definition's code; no specification uses it.  `PROJECT.json` names, for every
property of a run, the one that property detects.

A module takes one point of view, and leaves to another what is decided there: an
engine operation is an outcome in `DeviceThread` and a stack of exchanges in
`Engine`, whose replies are framed byte by byte in `Framing`; a run is a sequence
of steps in `FlowRun`, a document that is walked in `FlowLanguage`, and a state in
`Mcp`, `Bench` and `Updates`; a device is a thread in `DeviceThread` and an entry with
a port in `Bench`.

### DeviceThread

`pc` is where the thread is in `run()`: `connect`, `serve`, `busy` (in
`engine.get` or `engine.set`), `closing` (`engine.disconnect`), `backoff` and
`parked` (the two callers of `wait()`), `presence` (the check in `park()`),
`unparking` and `stopped`.  `queue` is its channel.  `stage` follows a request from
its caller (`begun`) through the channel (`queued`) and the engine (`taken`) to
`done`, `told` is what its caller returned with, and `carried` has the requests the
instrument may have seen.  `reg` is the registry's entry, `handle` is
`Devices::stop`, and `entry` the configuration entry with the value
`set_parked` would put back.

Each action is a step between two points where another thread can do something:
`CountRequest` and `Send` are separate because `DeviceClient::send` raises the
counter before the message is in the channel; `ServeTake` and `Finish` because
callers give up in between; `ServeEnd` and `ClosePark` because `on_disconnect`
talks to the instrument; `ParkedControl` and `Unpark` because the answer is sent
before the event.  `Mark`, then `Send` or `SaveFails`, are `set_parked`, one at a time
because of `config_lock`, which is free when the caller was told, and also when its client
hung up (`HangUp`, `Unlocked`): the handler is dropped where it awaits its blocking task, the
lock with it, and the task sends all the same, whenever it comes to it.  A request that is marked
meanwhile may be sent first, which `overtaken` remembers.  `ThreadEnds` drops the channel with
what is in it, which is how the callers of queued requests learn of it.

Abstracted: an engine operation is its outcome (`ok`, `error`, or an `io` error that
ends the session) and whether the instrument may have been touched; readings are
reduced to whether any are shown; backoff times and metrics are left out, except
the queue counter.

### FlowRun

A flow is the sequence of steps its executor takes, at most `MaxSteps` for setup
and main part and `MaxCleanup` for the cleanup, each of any kind.  `phase` is what
the executor waits for, `run` what the API shows; `aborts`, `woken` and `permit`
are `Run.abort` and the two sides of the `Notify` behind `Run.resume` (a waiter that
was woken, a permit stored for the next one).  `energized`, `target`, `owned` are the
fields of `Exec`.  Instruments have one output each, a channel `chan`, and a thread
that serves sets and polls.  A poll has two steps: `PollBegins` samples the outputs
(all of them: instruments on one bench are wired together, so a meter sees the
supply), `PollEnds` applies the sample to the registry.  `reading[d].fresh` says
that it was applied after `Exec.last_set`.

`Halt` is the way every early end goes: it ends the main part and starts the cleanup, or
ends one cleanup step, or, after the second abort, all of it.  The executor's checks
(`Exec::check`) are guards where the code has them: before each step, at the end of sleeps
and reads, and not after the last step.  At the end `safe_state` goes through what is
energised: an output whose safe value is known is set to it (`Secure`), one for which the
vocabulary has none is left with a warning (`LeaveOn`).  `Restart(d)` is an edit of the
instrument's entry during the run, which drops its thread with its queue.

`sentOn`, `late`, `unsafe`, `credit` and `granted` are history: outputs the run was told
it switched on, outputs with a set whose answer was an error, outputs whose safe
value could not be written or is not known, and the continues that were accepted.

Abstracted: values, variables and expressions, loops and branches (they only
decide which steps follow), and the log.  The several store calls of `start_with`
are two booleans, created and successful, and one by one in `Recordings`.

### Recordings

The store is one connection behind a mutex, so one call is one step.  A handler
changes the store, reads the row (`ReadRow`), reads its series in another call
(`ReadSeries`) and publishes (`Publish`); the sampler looks up what is due and reads
the registry (`Tick`), then writes and publishes (`Insert`).  `start_with` is a creation whose
series are added one by one before it announces anything (`StartWith`).  A request may also end
between its change and the announcement (`EndUnannounced`): its client hangs up, which drops the
handler where it awaits; a read fails; `start_with` cannot add a series.  `missed` has the
recordings of which the last change was lost like this.  A client subscribes,
reads a snapshot in two kinds of calls (`SnapshotRows`, `SnapshotSeries`) and
follows messages; one that the channel overtook (`lagged`) reads a new snapshot.
`Restart` is the end of the server in any state followed by `close_orphans`.

A sample is the series it was written to, its second, and the signal it was read
from: enough to see that it is in the wrong series.  Time is in whole seconds,
rounded up: `clock` is the second that began last, and a request that read its time
in it carries `clock`, or `clock + 1` when the next second began while it
waited for the connection (`Stamps`).

Abstracted: labels, units, renaming (`PATCH` with no effect on the rest), data ranges
and exports, and the values themselves.

### Definition and Engine

`Definition` has the schema of a device definition as predicates (`IsDevice`,
`IsCommand`, `IsBinding`), what `extends` and the links merge (`Extends`,
`ForTransport`), and the validator (`Accepted`, from `StepOk`, `CommandOk`, `PollOk`,
`OperationOk`).  A template is its placeholders, an expression the variables it
reads; numeric ranges, units and labels are left out.

`Engine` carries a definition out.  `call` is the operation of the device's thread and
`todo` a stack of what is left of it: a command puts its requirements, its preparations and
its computed parameters before itself (`Require`, `Queries`, `Run`).  `Send` writes a
command, `Arrive` is the instrument, which answers in order but in its own time; `Receive`,
`TimeOut` and `LinkLost` are the ways `exchange_inner` ends.  What a command fails with
before anything is written depends on its arguments and on what they may be written as
(`RenderErrors`, `Texts`).  `Drain` discards what is on the line after an error and what
comes before the line has been idle for `drain_idle_ms`; an answer that is still on its way
then comes later and is marked (`Strayed`), with those that the next commands get behind it.
A reading is the command and channel whose answer it came from, which is what `OwnReadings`
compares.  `Poll` to `Count` are one poll with its groups and the count of silent ones;
`quiet` is what that count is compared with, the polls in a row that heard nothing and kept
nothing.  `Depth` counts the commands in progress, each of which is a call of `Engine::run`
in the code; more than `MaxDepth` of them overflow the thread's stack, which shows as
`overflow`.  Only a definition whose commands refer to each other in a circle gets there.

### Framing and SeriesRange

Two loops that were written out because what they compute is easily wrong at the
edges.  `Framing` is given a reply's framing and the bytes an instrument sends, and
reads them in chunks cut anywhere (`Push`) until the line is silent (`FramerFinish`).
`RepliesWhole` compares the outcome with `Content`, which looks at the bytes as a
whole and writes a block, its length digit by digit by division (`WrittenAs`), instead of
parsing one.  `SeriesRange` reduces the rows of
a query to the extremes of equal intervals in one pass (`SameBucket`, `NewBucket`,
`FlushLast`); `PeaksSurvive` asks for what the doc comment promises, without buckets.

### FlowLanguage

A document is the list of its steps in document order, as `Flow::walk` goes through them, and
a step says how many of those after it are in its body and how many in its else branch
(`IsDocument`); so depth is not bounded by the model, and what the check knows at a step is
written down without going through the steps before it one by one (`KnownAt`, `KnownTo`: what
earlier steps assign, and `iteration` inside a loop).  `Parsed` and `Valid` are `flow::parse` and
`validate`, `Energizing` the list for arming.  `Start` to `PartOver` execute an accepted document as
`Exec` does, with every outcome that an expression, a reading or a set can have (`Applied`: what
is on once a setter was sent; `Asked`: what the getter that confirms it, or reads, switches on):
`todo` is the stack of `run_steps` calls and loops in progress.  The question is whether what was
checked before a run is enough for it: `FlowRun` takes steps in any order and
does not look at variables; here nothing else happens at the same time.

### ScpiPorts and Bench

`sync()` and `update()` of the SCPI settings are steps under different locks, so `ScpiPorts`
has an action for each (`SyncIds`, `SyncAssign`, `SyncListen`; `UpdateCopy`, `UpdateSave`,
`UpdateReplace`).  New devices take the lowest free ports from the base up to `LastPort`,
and those that come after it have none (`Assigned`).  `Bench` says who calls them.  A
configuration request takes `config_lock` (`Take`), changes and saves (`Add`, `Update`,
`Delete`, `Replace`, `Mark`), stops and starts threads one by one (`StopOne`, `StartOne`)
and syncs (`HandlerSync`).  Parking marks, saves (`SaveMark`) and waits until the thread was
told (`Told`).  A client that hangs up drops its handler where that awaits, with its lock
(`HangUp`): between the stops and the starts, and before the thread was told.  A flow is
checked without a lock (`CheckFlow`) and started under the runner's (`StartRun`), the lock
that also guards the question whether a device may be parked (`MayPark`).  An entry is
whether it is parked and whether a thread can be started for it.

### RemoteAccess

A request of the app changes the settings, saves them, ends sessions, closes and opens the
listener, each in a step of its own because no lock is held over them; a sign-in asks the
limiter (`CheckLimit`), waits for a slot (`TakeSlot`), is verified with copies of the hashes
(`Wrong`, `Right`) and creates a session.  A listener may not open, for want of a
certificate or because the port stays in use (`Open`): then there is none, and `error` is
shown instead.  Clients hang up while a password is hashed (`GiveUp`) or verified
(`HangUp`), the two places where a handler can be dropped before it changed anything.  A
hash is the password it belongs to.  `mixed`, `unsaved` and `late` mark what the properties
except: two requests in progress at once, a save that failed, a session created from a hash
that was changed in between.  What a session may request (`scope.rs`), TLS and address
checks are functions of one request and left out, as is signing out, which removes one
session.

### The services

Each is a specification of its own (`UpdatesSpec`, `PortsSpec`, and so on), with names that
do not clash, so that one module can extend them all: `MCServices` to check them,
`ServicesProofs` to prove things about them.

* **`Updates`**: checks, downloads and installations are tasks that set one phase; an
  installation moves files in steps that may fail, and the process may be killed
  between any two of them.  Five kinds of installation (AppImage, macOS, Windows,
  package, source).  A download fails when its file cannot be created, in the transfer, in the
  verification or in the rename (`DownloadFails`), and a check whose client hung up leaves the
  phase it set (`CheckDropped`).
* **`Ports`**: ports are listed once and opened later; instruments are plugged in and
  pulled out at any moment.  A configured device looks for its instrument by location,
  serial number or path and checks its identify reply; one that was configured by its port
  alone (`ByPort`) opens that, whatever is there (`Attempts`).  Detect probes what is not
  configured, gives up probes that do not return, and skips what is parked, by identity or
  because the first entry on the port is (`Naming`, `FirstOf`).
* **`ScpiSession`**: program messages of a client, unit by unit, with the error queue; the
  dialect's resolution of headers (`Resolve`) is compared with the list it offers.
* **`Autostart`**: the entry that systemd, launchd or the Run key keeps, with the quoting
  of each.  What those systems read back is modelled beside it, from their rules.
* **`FlowFiles`**: a save is a temporary file, a write and a rename; two requests, errors
  and kills in between.  A file that cannot be read counts as none (`Get`), also when a new id is
  chosen (`NewId`), which `unread` remembers.
* **`Assistant`**: the settings with a key, a model and an address per provider, and a
  conversation that goes on over several requests.
* **`Mcp`**: batches of tool calls with their access levels, beside a page that starts and
  continues runs.

## 3. Runs

Deadlock checking is off where the system really stops: a thread ends with the
stop of its device, a run ends and no other follows, and at the bounds nothing more
is asked for.  What must not stop is stated as a liveness property instead.  The
engine's runs check for deadlock.

### Properties that hold

* **`device_safety`** (2,641,184 states): a set, two park requests and an unpark in any
  order, with callers that give up, clients that hang up, saves that fail, a stop at any
  time and a link that fails at any time.  `QuietWhileParked`: from the answer to a park
  request to the answer to an unpark request no link and no session is open.
  `PendingExact`: the unsigned counter never wraps.  `RegistryTruthful` and `LastWordWins`:
  the registry shows what is there, and thread, registry and configuration agree once all is
  settled, also when saving failed, callers gave up or clients hung up, as long as no
  request was sent before one that was marked earlier.  `KeepsContract`: all of it
  implements `InstrumentService`.
* **`device_liveness`** (251,720 states): `EveryRequestSettles`, `StopJoins`, `ParkIsShown`,
  with a set, a park and an unpark.
* **`flow`** (414,934 states): two runs after each other on a supply.  `SafeAfterFailure`:
  outputs a run was told it switched on are off once it failed or was aborted, unless it
  logged that it could not (the safe value of the supply is known in the first run and not
  in the second); `sentOn` records successful sets only, the sets without a success are the
  matter of `flow_late_set`.  `CleanupComplete`: only a second abort cuts the cleanup short.
  `PromptsNeedContinue`: no more prompts pass than continues were accepted.
  `OwnReadingCurrent`: a fresh reading of the instrument that was set shows the set.
  `AbortEndsRun`: an aborted run ends unless its cleanup asks the user; aborted twice, it
  ends in any case.
* **`recordings_safety`** (5,697,011 states): two handlers, the sampler, a client, restarts,
  requests that end before they announced.  `SamplesBelong`, `StopIsFinal`: a tick that
  found a series due writes nothing that a stop, a deletion or an end in between excludes.
  `ClientFollows`: a client that has received everything shows the store, from whatever
  moment it connected, also after the channel dropped messages, provided no two changes are
  announced at the same time; except for recordings of which a change was never announced,
  until the next one is.
* **`bench_safety`** (1,282,069 states): two configuration requests, a `PUT /scpi`, a flow,
  saves and starts that fail, a client that hangs up, a restart.  `RunningIsSaved`: a crash
  between any two steps never leaves a device that the next start would not bring back as it
  runs.  `NoneParkedUnderRun`: the check for a run and the check for parked devices exclude
  each other although the entries are changed under another lock.  Both hold as long as no
  client has hung up: a handler that is dropped between its stops and its starts can leave
  two threads of one device, and the second may be parked while the run check looks at the
  first.  That takes three requests.  `ListenersFollow`: at rest the listeners are those of
  the settings, and every device that runs has a port, unless there are none left from the
  base on.
* **`remote_safety`** (3,333,885 states): two changes of settings or passwords, two
  sign-ins, ports that cannot be listened on, clients that hang up, time, restarts.
  `SettingsFollowed`: at rest the one listener is that of the settings, or none is open and
  an error is shown, never an old one.  `SessionsCurrent`, and `FailuresBounded`: the
  limiter's count is exceeded by at most the tries that were already checked.
* **`engine_safety`** (2,865,803 states): twenty-three definitions (what the engine carries
  out, what the validator refuses, and its known gaps) with an instrument that answers late,
  garbled or not at all, and links that end.  `DefinitionErrorsKnown`: nothing the validator
  accepts fails for being inconsistent, or never ends, but for `KnownGap`.  `OwnReadings`: a
  reading comes from its own command and channel if the definition drains and reads no
  silence as a value, and no answer took longer than its timeout and the drain together.
  `SilenceCounted`: `silent_polls` is never less than the number of polls in a row that
  heard nothing, so an instrument that is gone is given up; polls do not count here in which
  a cached reading, or a silence that is a value, passed for an answer.
* **`flow_language`** (73,868 states): every pair of small steps, loops in branches, sweeps,
  with wrong documents among them.  `AcceptedFlowsRun` and `UnarmedStaysOff`, with what the
  check does not see stated in them.
* **`services`** (2,689,553 states): one of nine services per behaviour.  `ProgramSurvives`
  and `StagedIsWhole` of the updater; `OwnInstrument`, `OneConversation` and
  `ParkedNotProbed` of the ports; `ErrorsNotLost` and `HelpIsTrue` of a SCPI session;
  `AnswersHold` of starting with the computer; `FlowsKept` of the flow files (creating a
  flow replaces none whose file could be read); `RequestsMatch` of the assistant;
  `RepliesWhole` of framing; `PeaksSurvive` of plots; `ConfirmedMeansDone` of MCP.

### Bounds

| Run | Bound | Value | Why it is enough |
| --- | --- | --- | --- |
| device | `Requests` | 4 (safety), 3 (liveness), each sent once | one request in each of: the thread, the channel, the caller; parking twice, and unparking between |
| device, engine | `MaxSilent` | 2 (a parameter of the code) | one silent poll that keeps the session, one that ends it |
| flow | `MaxSteps`, `MaxCleanup` | 2, 1 | a set and what follows it: a read, a failing step, a second set; prompts twice; a cleanup step that fails, prompts or sets |
| flow | `MaxRuns` | 2 | what one run leaves (late sets, permits, polls) meets the next |
| flow | `MaxContinues` | 2 | one continue consumed, one stored |
| recordings | `MaxId`, `MaxTicks`, `MaxOps` | 2, 2, 4 | two recordings or series and one more id given again; a sample before and after a change; create, series, a change, one more |
| recordings | `Capacity` | 1 (1024 in the code) | the smallest channel drops at the second message |
| flow | `SafeKnown` | first run, not the second | an output that can be made safe, and one for which the vocabulary has no safe value |
| bench | devices, handlers, `Bases`, `LastPort` | 2, 2, {1, 2}, 2 (65,535 in the code) | a request under way and one waiting; two devices that may take each other's port; from base 2 one port for both |
| bench | `MaxOps`, `MaxOthers`, `MaxRuns` | 2, 1, 1 | two changes; a `PUT /scpi` or a client that hangs up; a run |
| remote | requests, sign-ins, `MaxOps`, `MaxTime` | 2, 2, 4, 2 | a change overtaken by a change; a sign-in overtaken by both; a minute that passes |
| remote | `FreeTries`, `GlobalPerMinute`, `Slots`, `MaxSessions` | 2, 2, 1, 1 (5, 30, 2, 64 in the code) | each limit is reached and exceeded |
| engine | `MaxLine`, `MaxGarbled`, `MaxDepth` | 2, 1, 4 | two late answers; one malformed one; as many commands as a definition has here: a circle overflows, nothing else does |
| flow_language | documents; `MaxPoints` | pairs of about 70 steps; 3 | a variable set in every kind of body and read after it; one sweep over the limit |
| services | updater | 1 release, 1 check, 2 downloads, 2 faults, 1 kill | a second download at the same file; each step of an installation failing or killed; a second failure, after which `ProgramSurvives` promises nothing |
| services | ports | 3 equal instruments, 2 ports, 2 entries, 3 plugs; the second entry by its port alone in one of the two benches | an entry's own port taken by another instrument, replugged in between; two entries that name one port |
| services | SCPI | 2 errors (20 in the code), 2 units | one error more than fits |
| services | start at login | 2 requests, 3 in all, 2 mishaps; words up to 2 characters | every character next to every other; a request that fails half way, and the next |
| services | flow files | 3 documents of one name, 3 saves, 1 kill or error | two requests for one id, and a third |
| services | assistant; MCP | 4 changes, 1 kill; 2 clients, 6 batches, 2 runs | switch, type, switch back; a run that replaces another |
| services | framing | 8 framings; all streams of 5 bytes of four values and 6 of three; prefix 2 (64 in the code) | a header cut anywhere, an empty payload, a prefix one too long |
| services | series | up to 5 rows in 7 seconds, 3 values; 2 to 4 points | rows at both sides of each boundary; an interval without a row |

Handlers, requests, passwords, paths and locations are interchangeable where a run
takes them as symmetry sets, and so are the two park requests of `device_safety`; no liveness is
checked there.

### Fairness

* `DeviceThread`: weak fairness of `ThreadStep`: a thread is scheduled, every wait
  has a timeout, every exchange a deadline.  Strong fairness of `WaitTakes`:
  `recv_timeout` returns a message that is in the channel rather than the timeout,
  so a thread that keeps coming back to `wait()` takes it; weak fairness would let the
  timeout win forever.  Weak fairness of `Send` or `SaveFails`, and of `Joined`: a
  handler that began goes on.  Nothing is assumed of connections, polls or which
  outcome an operation has: the link may fail for ever.
* `FlowRun`: weak fairness of `ExecStep` only, the executor's own task.  Its waits are
  bounded, except a prompt.  Instruments may never answer and users may never come
  back: `AbortEndsRun` needs neither.
* The other specifications state no fairness: their properties are about what is never
  the case.

### Where code and documentation disagree

Three disagreements have a run of their own, which ends with a counterexample.

* **`flow_late_set`** (`FailedRunIsOff`): the head of `exec.rs` and `AUTOMATION.md:95-96` promise
  that a failed run puts every output it switched on back.  `do_set` returns before
  it notes the output when the set reports an error, and a set that timed out may be
  carried out, even after the run ended.
* **`engine_late_reply`** (`LateReplyDiscarded`): `DEVICE_DSL.md:79` says a late reply never
  lands on the next command of a definition that drains.  Silence is a complete empty
  line in the modes `idle` and `message`, so nothing is drained after it, and a command
  that reads it as "no value" leaves its late answer to the next one.
* **`update_under_flow`** (`UpdateSparesFlows`): a comment in `system/mod.rs:185` says a flow is
  never stopped from under.  Whether one runs is looked at when the request comes in; the
  download behind it takes minutes, and what stops the server then does not look again.

Others are stated in the modules, under "what the docs say, and the code does not do"
or in the conditions of a property, and have no run of their own.

*Devices and configuration.*  `ParkedLeftAlone` (`PARKING.md:3`): when the client of a park
request hangs up before the thread was told (`lib.rs:653`), an unpark request may be sent
first, or the other way round, and the thread then connects an instrument whose entry says
parked.  `PresenceKept` (`PARKING.md:19`): `mark_parked(true)` after a failed save does not
restore the presence that `mark_parked(false)` cleared.  A failed save marks an entry back
as parked although a run was started meanwhile (`lib.rs:648-649`).  An edit whose thread
cannot be started vanishes from `config.yaml` with the next save.  A client that hangs up
releases `config_lock` while its stops, its starts or its request to the thread go on.
`PortsStay` (`SCPI.md:25-26`): an edited instrument may lose its SCPI port, because `sync()`
of another request does not see it between stop and start.  Polls run only when the channel
is empty, so a caller that always has a request queued keeps readings from being refreshed.

*Flows.*  `ReadReflectsSets` (`AUTOMATION.md:92-93`): a reading's age is when it was applied; the
meter's poll may have sampled before the supply was switched.  `PromptPausesForUser`: a
continue that meets an abort, or a second one, is stored by `Notify` and passes the next
prompt.  `TimeoutEndsMain` (`AUTOMATION.md:44`): a waiting prompt does not look at `timeout_s`.
`RecordingsEnd` (`AUTOMATION.md:63`): when a later call of `start_with` fails, the recording stays
and the run does not know its id.  Two aborts before the cleanup skip it; a stop step in the
cleanup only ends that step.  `fresh_field` spins once `timeout_s` has passed
(`exec.rs:468`).  `opspec.rs:11` looks at the first command of a setter only.  The check counts a
variable as set after a branch, a loop or a step that did not set it.  A `?` in a condition
leaves `iteration` as the loop had it.

*Recordings.*  A change whose request ended before it announced, because its client hung up or
`start_with` could not add a series, is not shown to clients until the next change of that recording
(`missed`).  `SkipsDeleted`: the id of a deleted series is given again, and the tick's
sample lands in the new series.  Two changes announced at once may be published in the
other order (`raced`).  The stop time is read before the request waits for the connection.
`range` with less than two points would return two; callers ask for ten at least.

*Definitions.*  Accepted, and not carried out (`KnownGap`): formats `wire.rs` cannot render,
a link with a framing of its own that lacks the Modbus part, a Modbus value that is a
string, a word of an enum that is no number (`wire.rs:65-68`) or computed by `from`; an
`identify` command, or a command with the name of a variable (`ch`, `state`), that takes an
argument; steps of `before` and of a setter that do not pass all that their command takes;
and cycles of `before`, `requires` and `from` that are longer than one command.  An answer
that takes longer than its timeout and the drain after it is read as the next command's
(`Strayed`).  `bits` up to 63 shifts by 64.  A setter whose reply times out leaves the stale
reading in the cache.

*Remote access.*  Two changes at once may leave a listener nobody knows, or two equal
passwords.  A password verified with the old hash makes a session after the change.
Settings that cannot be saved are used all the same, and end no session.  A request that
passed the gate is carried out after its session ended, and an open WebSocket outlives its
session until something prunes (`REMOTE_ACCESS.md:69`).

*System.*  Two overlapping checks let two downloads open one file.  An AppImage that can neither
put the new program in place nor the old one back, two failed operations, removes the one it has
kept at its next update: `ProgramSurvives` is about one failure.  Requests to enable and to
disable the start at login leave a link to a removed unit when they overlap, a write that was cut
short counts as enabled, and on Windows every failing query counts as "not there".  Equal
interfaces are told apart by the serial number of the identify reply only.

*Files and AI clients.*  `NewIdIsNew` (`store.rs:102`): a flow whose file exists and cannot
be read counts as none (`store.rs:80`), so a new flow may get its id and replace it.  Two
new flows of one name created at once get one id; the file of an id is shared while two
requests write it; a delete during a save brings the flow back.  `SettingsTab.tsx:112` saves
an address without saying for which provider.  `wait_run` takes the state of a run that
replaced its own for its own.  A SCPI message whose unit does not parse answers nothing
where `SCPI.md:67` promises an empty field.

## 4. Proofs

Eight modules have theorems, each `Spec => []P` or `Spec => P` for every value of the
constants: any number of requests, instruments, signals, devices, sign-ins or ports, every
set of definitions, and every bound.

| Module | Theorem | Says |
| --- | --- | --- |
| `DeviceThreadProofs` | `TypeCorrect` | `TypeOK` |
| | `CounterExact` | `PendingExact` |
| | `ParkedIsQuiet` | `QuietWhileParked` |
| | `StopReleases` | `StopReleasesSession` |
| | `RefusedIsSafe` | `RefusedNeverCarried` |
| | `RemovalIsFinal` | `RemovedStaysRemoved` |
| | `RegistryIsTruthful` | `RegistryTruthful` |
| | `LastWordCounts` | `LastWordWins` |
| | `ThreadKeepsContract` | `KeepsContract`: the thread implements `InstrumentService` |
| `EngineProofs` | `OnlyKnownGapsFail` | `DefinitionErrorsKnown`: also that only a circle of commands overflows the stack |
| | `ReadingsAreOwn` | `OwnReadings` |
| | `SilenceIsCounted` | `SilenceCounted` |
| `FlowRunProofs` | `RunTypes` | `TypeOK` |
| | `FailedRunsAreSafe` | `SafeAfterFailure` |
| | `CleanupsRun` | `CleanupComplete` |
| | `PromptsArePaidFor` | `PromptsNeedContinue` |
| | `ReadingsAreCurrent` | `OwnReadingCurrent` |
| `RecordingsProofs` | `SamplesAreOwned` | `SamplesBelong` |
| | `StoppedIsFinal` | `StopIsFinal` |
| | `ClientCatchesUp` | `ClientFollows` |
| `BenchProofs` | `RunsAreSaved` | `RunningIsSaved` |
| | `ParkedOrUsed` | `NoneParkedUnderRun` |
| | `ListensAtRest` | `ListenersFollow` |
| | `OnePortEach` | `PortsDistinct`: no two instruments have one port, also after a client hung up |
| `RemoteAccessProofs` | `ListenerFollows` | `SettingsFollowed` |
| | `ChangesEndSessions` | `SessionsCurrent` |
| | `FailuresAreLimited` | `FailuresBounded` |
| `FlowLanguageProofs` | `AcceptedFlowsAlwaysRun` | `AcceptedFlowsRun` |
| | `UnarmedAlwaysStaysOff` | `UnarmedStaysOff` |
| `ServicesProofs` | `OneAtATime` | `OneConversation` of `Ports` |
| | `ParkedIsLeftAlone` | `ParkedNotProbed` |
| | `OwnIsConnected` | `OwnInstrument` |
| | `ProgramStays` | `ProgramSurvives` of `Updates` |
| | `StagedStaysWhole` | `StagedIsWhole` |
| | `OverflowIsTold` | `ErrorsNotLost` of `ScpiSession` |
| | `HelpIsHonest` | `HelpIsTrue`, if no operation is named like a channel (`ch1`) or `fetc` |
| | `FlowsAreKept` | `FlowsKept` of `FlowFiles` |
| | `RequestsAreOwn` | `RequestsMatch` of `Assistant` |
| | `ConfirmedIsDone` | `ConfirmedMeansDone` of `Mcp` |
| | `PeaksAreKept` | `PeaksSurvive` of `SeriesRange` |
| | `AnswersAreTrue` | `AnswersHold` of `Autostart`, if the system reads back the command as it was written |
| | `RepliesAreWhole` | `RepliesWhole` of `Framing` |

### Assumptions

They are named next to the constants, and TLC evaluates them in every run that extends the
module.  `DeviceThread`: `Requests` is finite and `KindOf` assigns each a kind, `Stop` is
none of them, and `MaxSilent` is a positive number (the code's default is 3, and zero would
end every session at its first poll).  `FlowRun`: the instruments are finitely many,
`SafeKnown` says for each run which outputs have a safe value, and the bounds are numbers.
`Recordings`: intervals and the channel's capacity are positive.  `Bench`: the lists that
replace a configuration are configurations, and the tasks are told apart; bases are ports,
from 1 to the last.  `RemoteAccess`: limits are positive, the sign-ins are finitely many,
and no password is the absence of one.  `Definition` and `Engine`: the names of commands and
parameters are finitely many, and a definition has the shape that `serde` gives it
(`IsDevice`); whether it is accepted is decided by the model's `Accepted`, not assumed.  A
definition has no more commands than fit in the stack at once (`StackAssumption`): the
largest that is shipped has 70 (`devices/owon_dge.yaml`), and a device's thread has the
default stack of 2 MiB.  `FlowLanguage`: a document is a walk of nested steps
(`IsDocument`), and only a step with an expression reads variables; operations are queried,
configure or energize; a sweep may have a point.  `Ports`: the ports are finitely many,
every device was configured for an instrument (also one that is known by its port alone),
and no two interfaces of one chip have the same USB serial number.  `Updates`: versions are
numbers.  `ScpiSession`: the error queue has room for one; a class has a channel or more,
and a code that is none of the common commands' words (three capital letters,
`validate.rs:84`).  `FlowFiles`: the numbers that make an id free are numbers.  `Assistant`:
a page sends a key for the provider it shows (`SettingsTab.tsx:83`); an address may come
without one.  `SeriesRange`: rows come in the order of their time, as the query orders them,
and a plot asks for two points or more.  `Autostart`: the systems are those the code knows.
`Framing`: what is sent are bytes, and a framing has the fields of `Reply` and `RxFraming`.

### The inductive invariants

None of the properties is inductive.  Every module has its own strengthening, a conjunction
of named parts that `Init` implies, every action preserves, and the theorems follow from.
The lemmas have one step per action, and under it one per part the action can disturb.

* **`DeviceThreadProofs`.**  That nothing is sent while parked depends on where the thread
  is, so `LinkInv` says at which places it owns a link and at which the last answered
  request can be a park.  That the counter does not wrap depends on a message being in the
  channel once, and on its request being counted, so `QueueInv` says that what is queued is
  in stage `queued` and occurs once, and `CurrentInv` what the thread has in its hands.
  That a refused request is not carried out depends on a request being settled once
  (`CarryInv`); that a removed entry stays away depends on the thread having ended before it
  was removed (`JoinInv`).  Callers give up on a park and send the next request, so several
  may be queued.  `Want` is the entry without the one request that is not sent yet and may
  be taken back; `OrderInv` says that the last request in the channel that parks or unparks,
  or else the place of the thread, agrees with it.  `ShownInv` says where the registry may
  lag behind the entry, `ConnectedInv` when it shows a link, `BegunInv` that one request at
  most is between its mark and its message, unless one has overtaken another, and `StopInv`
  that the thread does not end unasked.  The refinement's mapping takes each request to new,
  pending (queued or taken) or settled, and forgets the queue, the waits and the reconnects.
  The end of the thread has to settle all that is pending; this needs that a request that
  was taken is in the thread's hands (`TakenInv`).
* **`EngineProofs`.**  `TaskInv` says what the stack may hold: tasks for commands the
  definition has (`Sound`, which the validator's checks imply), reading and storing in a
  poll only, and right before every reading to be stored the task that gives it.  Then an
  inconsistency can come from a command with a gap only (`GapInv`), and a task has all the
  arguments its command takes unless a step of the definition lacks some (`FitInv`).  An
  answer that was counted was heard or kept, and so was a good reading that is about to be
  stored (`SilentInv`), so a poll that heard and kept nothing counts as silent (`CountInv`);
  and what is on a line that is drained after every error is the one answer the engine waits
  for, or came too late for a drain (`LineInv`), so what is read is the answer to what was
  sent, or marked (`ReadInv`).  A poll pushes the tasks of all readings at once; that they
  have the right shape is an induction over the readings.  That only circles overflow is a
  count: each command in progress was called by the one below it (`Nested` in `DepthInv`),
  so if more are in progress than the definition has, one is in progress twice, and what
  lies between is a circle (`DeepIsCircular`).
* **`FlowRunProofs`.**  `SafeInv` follows each output that was switched on: it is still in
  the list of energised outputs, or `safe_state`'s set of it is queued last, failed, or has
  been carried out and nothing is queued behind it.  `OwnInv` says that the queue of an
  instrument the run has set is empty unless a set is on its way, which is what makes a
  fresh reading a true one; sets that timed out and may still be waiting (`late`) are apart
  in both.  `NotifyInv` counts what a wake-up, delivered or stored, was paid with;
  `CleanupInv` says when the end of the cleanup is decided, `PhaseInv` what the run shows in
  each phase.
* **`RecordingsProofs`.**  A tick writes what it read some time before.  `BatchInv` says what
  is true of the values it still holds while series end, recordings are deleted and ids are
  given again; `SeriesInv` and `SamplesInv` what is true of the rows.  A client shows what
  it fetched and what it was told since.  `AnnounceInv` says which requests still have
  something to announce, and `FollowInv` that for every other recording whose last change
  was announced either what the client shows, after all the messages it has yet to receive,
  is the row, or it will fetch again.
* **`BenchProofs`.**  As long as no client has hung up, only the request that holds
  `config_lock` is in progress (`LockInv`), and `WorkInv` says for each of its steps how far
  the file and the threads are apart.  `EditInv` says that what it may start under a run
  counts as edited, `CalmTypes` that no device has two threads.  That ports differ is kept
  by every copy of the settings, those a task has in hand included (`PortTypes`); a free
  port is given as long as one is left from the base on.  `SyncInv` says at which step of a
  sync each task is, and that the settings and the listeners are behind what runs only while
  the task that is to bring them up to date has not come to it (`AppliedInv`).
* **`RemoteAccessProofs`.**  `FollowInv` says at which step of a change the file, the
  listener and the error that is shown are behind the settings, if changes do not overlap
  (`AloneInv`); `SessionInv` that a session that is no longer current has a change in
  progress that will end it.  `LimitInv` counts the failures of the last minute together
  with the sign-ins that have passed the limiter and may yet fail; failures older than a
  minute are dropped from the front of an ordered list, and where the minute begins is a
  least number.
* **`FlowLanguageProofs`.**  What a run started with never loses its value, so a variable
  that is missing is one the check found in a step before (`CheckedInv`: what was checked
  before the start stays true).  Except for `iteration`, which goes away when a loop is
  left: `TaskInv` says where the loops are in the stack of tasks (`Nest`): a step that is
  written in a loop has one under it, every loop but the innermost task has begun a pass,
  and one inside another remembers that `iteration` had a value; `IterationInv` that it has
  one while a loop is between two passes or in one.  What is switched on was set by a step
  of the document, and none of those is in the list for arming if the run was not armed.
* **`ServicesProofs`.**
  *Ports.*  `HoldInv` says that a port has one holder at most, a
  device, a probe, or an abandoned probe; with an instrument being on one port (`AtInv`) no
  two conversations meet.  `FitInv` says that what a session tries was listed as fitting,
  and that what it is connected to passed the check of the identify reply; `ProbeInv` that a
  port being probed was not configured when the ports were listed; `ParkInv` that what is
  parked, or was when the job read it, has no connection, so that an entry with a port only
  can be found on its port.
  *Updates.*  `WholeInv` says for each place of an installation
  which of the two programs starts, as long as one operation at most has failed;
  `OneTaskInv` that without overlapping checks one task at most is under way, and which
  phase it has, so what it verified is still what is on the disk.
  *ScpiSession.*  Every step
  adds one error, drops all, tells the first, or leaves them (`ErrorStep`), and each of the
  four keeps what the queue's end says.  That the help is true follows from the vocabulary
  alone: `Takes` says how the parser takes a header apart, and the headers of the four
  shapes that are listed are taken apart into what they were put together from.  The code
  nowhere refuses an operation that is named like a channel, and the parser would take such
  a name for one: hence the theorem's premise (`Plain`), which every bundled vocabulary
  satisfies.
  *FlowFiles.*  `IdInv` is about an id that two requests never wrote at once: its
  file is whole and what was answered, its temporary file belongs to its one request, and a
  new flow's id is still free when the
  rename comes, unless it was taken because its file could not be read.
  *Assistant.*  Every copy of the
  settings, the one on the disk, the one being saved and those conversations hold, has each
  provider's key under that provider (`AllOwn`).
  *Mcp.*  A call that waits, unless its run
  was replaced, waits for the current one (`WaitsForOwn`), and a run that shows as finished
  was counted (`FinishedCounts`).
  *SeriesRange.*  `SeriesInv` says what the points so far and
  the interval in hand hold of the rows that were looked at: the intervals come in order,
  each row is covered by the points or by the extremes in hand, and no interval gave more
  than two points.
  *Autostart.*  `Reached` says what the entry is at each step of a request
  that no other one overlapped, on each system; `ToldInv` that an answer stands while no
  request is under way.
  *Framing.*  While a reply is awaited the framer holds all that was
  heard, but the text before a block, of which it has dropped no hash and at most what the
  limit allows (`Kept`), and what it holds is no reply yet (`FramingInv`).  So it stops at
  the first moment at which the bytes are a reply, whatever the chunks (`CompletedWhole`).
  Parsing and writing a length go through the same numbers in opposite directions
  (`IsValue`, `IsQuotients`), and a reply that will be there cannot be taken for malformed
  before, since a header that parses now is the header later (`BlockNotMissed`).

### Only model-checked

Liveness, which needs ENABLED and is out of the prover's reach (`EveryRequestSettles`,
`StopJoins`, `ParkIsShown`, `AbortEndsRun`).  And the premise of `AnswersAreTrue`, that a word
that is quoted reads as it was: it is a statement about a parser that folds over characters
with a state of its own for each system.

The library's theorems of induction take an operator, which no prover here can
instantiate.  The proof modules use induction over sets of numbers instead (`Induction`, `Least`),
which is enough for counters, for what is put together from a sequence, and for a number
that is read or written digit by digit.

## 5. What is not modelled, and what is left

The modules were written in the order of what a mistake would cost: the thread that owns
an instrument, the executor that switches outputs, what is stored, then the bench as a
whole, the protocol engine with its definitions, remote access, and the services.

Not modelled, with the reasons:

* numbers: parsing of replies, unit conversions, expressions and status representations
  (`parse.rs`, `expr.rs`, `status.rs`) are translations with replay tests of their own;
  here an answer has a shape, and an expression the variables it reads;
* TLS, password hashing, address checks and `scope.rs`: libraries, and functions of one request;
* VXI-11, USBTMC and the enumeration of ports: the operating system, visible here as
  outcomes; the bundled device definitions: data;
* the wire log and metrics: nothing depends on them but the queue counter, which is modelled;
* community status, the AI reference and the API description: a cached download and text;
* exports and renaming of recordings: reads, and changes of a label;
* the desktop window, `bm-probe`, and the web interface beyond the client of `Recordings`.

The order in which a shutdown ends the parts among each other, and the composition of
several device threads with a run beyond `FlowRun`, are left to a later version.
