# A formal model of rdkservices

`rdkservices` is a collection of some seventy plugins for the Thunder framework on
set-top boxes and TVs. Each plugin is a shared library with its own threads, its own
JSON-RPC methods and its own events; the framework loads and unloads them. Most plugins
forward calls to a device library and keep no state worth a model. The others are small
concurrent systems: a worker thread, a callback thread of some bus or media library, JSON-RPC
threads and a framework thread that share flags under one or more mutexes. This directory
holds TLA+ models of those, the TLC configurations that check them on small instances, and
TLAPS proofs for every instance.

`PROJECT.json` lists every component of the repository with its status, every run, every
definition with the source lines it models, the hazards of the code with the properties
that cover them, and the theorems.

## 1. Inventory

The plugins with a protocol of their own, by how much of it there is. "Hard" is what a test
would hardly reach.

| component | state | operations and actors | hard | what makes it correct |
|---|---|---|---|---|
| MaintenanceManager | status, type, task bits, task map, abort flag, worker thread, Internet and device-context flags, record file | worker `task_execution_thread`, IARM handler, `startMaintenance`, `stopMaintenance`, `setMaintenanceMode`, Internet and device-context events, (de)initialisation | a mutex held across a join, a condition variable without predicate, scripts that report at any time or never, aborts that fail, offline boots | one cycle at a time, tasks only in a started cycle, the boot cycle first, COMPLETE only when all succeeded, every cycle ends |
| LocationSync | probe state, retry counter, parsed location, connection | `Probe`, `Received`, `Send`, `Dispatch` on the timer, `Stop`, network and state-change callbacks | callbacks of the socket while a call changes the state, an unsigned counter that is decremented in two places, IPv6 then IPv4 | the probe ends, a location is reported once, the counter never wraps |
| TextToSpeech | speech queue, pipeline flags, current speech | API calls (`speak`, `cancel`, `pause`, `resume`), the GStreamer thread, the bus callback | condition variables shared by several conditions, flags written without their mutex, cancel between dequeue and play | one speech at a time, one terminal event for each speech that started, shutdown ends |
| SystemAudioPlayer | per-player pipeline, buffer queue, web socket | play, stop, pause, resume, the buffer thread, socket callbacks | queue at its limit, close of a socket while playing | as TextToSpeech |
| Analytics | two event queues, time and configuration flags, SQLite table, batch and retry count of the uploader | `SendEvent`, `SetTimeReady`, the action loops of the implementation and of the back end, the uploader's state machine, SiftConfig's thread | events before the configuration or the time is known, a removal by id range while rows are added, queries and posts that fail, the process killed between an answer and the removal | no event written twice, no row removed unanswered, every answered row removed, every stored event uploaded |
| PersistentStore | SQLite table with time to live and a size limit | set, get, delete, flush, reactivation | limit reached in the middle of a transaction, expiry while the clock is not yet set | limits hold, a value is read until it expires |
| Monitor | restart windows per observed plugin | probes, (de)activation notifications | restart counter at its limit, notification of the plugin's own restart | at most so many restarts in a window |
| Timer | list of timers, their state | start, cancel, suspend, resume, expiry on a GLib loop | expiry racing a cancel | one expiry per period, none after cancel |
| HdmiCecSink (ARC) | ARC state, binary semaphore, request timer, power, CEC and connection flags | `setupARCRouting`, power and hot-plug events, CEC messages, timer thread, routing thread, `setEnabled`, `Deinitialize` | six threads write one state and test it without its mutex; a timer that stops itself after its callback; a wait without a bound | what is written is told to the audio device, a request never outlives its timer |
| HdmiCecSink (devices), HdmiCecSource | device table, polling state | CEC callbacks, polling thread | device that vanishes in mid-poll | the table follows the bus |
| Miracast | session states of source and sink | P2P and RTSP controllers on message queues | timeouts racing messages | the session reaches its end state |
| XCast, WebBridge, Messenger, SharedStorage, UsbAccess, Telemetry, SystemMode, WifiManager, NetworkManager | small registries and worker threads | see PROJECT.json | callbacks under a mutex, stop racing a worker | see PROJECT.json |
| the remaining plugins | the device library's | forwarded calls | nothing of their own | not modelled |

Interactions. A plugin meets the others over JSON-RPC (MaintenanceManager asks Network,
SecManager and AuthService; SharedStorage calls PersistentStore and CloudStore; Monitor
restarts whom it observes), over the IARM bus (events in, scripts out) and through device
libraries. Nothing but the framework's lifecycle is shared by all of them, so each model has
its own environment and no module composes two plugins. What is composed are the parts of a
plugin: `MaintenanceMode` on top of `MaintenanceManager`, and `Analytics` from the thread of the
implementation, `SiftBackend`, `SiftUploader` and the `LocalStore` that the last two share.

## 2. Plan

Done in this order; the rest is the order of the work that follows.

1. `MaintenanceManager`: the cycle, `MaintenanceCycle` as its abstract specification,
   `MaintenanceMode` on top, proofs of the invariants and of the refinement. **Done.**
2. `TTSSpeaker`: the queue, the GStreamer thread and the bus thread of TextToSpeech,
   `SpeechTurns` as its abstract specification, proofs of the invariants and of the
   refinement. **Done.** The registration of clients and the fallback download are left.
3. `Analytics`: `LocalStore`, `SiftUploader`, `SiftBackend` and their composition, with
   `EventDelivery` as the abstract specification, proofs of the invariants, of the order of events
   and of the refinement. **Done.** The threads that gather the configuration are left.
4. `HdmiCecSinkArc`: the Audio Return Channel, proofs of the invariants. **Done.**
5. The safety core of what is promised to end, which TLAPS can reach where it cannot reach the liveness
   itself: nobody waits in vain in a maintenance cycle (`SomebodyToWaitFor`), and no wakeup is lost in the speaker
   (`AsleepMeansNothingToDo`). **Done.**
6. `LocationSync`: the probe (states, `Dispatch` and `Received` racing over `_infoCarrier`, the
   unsigned `_retries`). Abstract specification: one answer per probe.
7. `SystemAudioPlayer` (buffer queue and player states), `PersistentStore`, `Monitor` and `Timer`
   (data structures with limits), the device table of `HdmiCecSink`, `Miracast`.

The modules are written to be proved about: parameters are CONSTANTS with named assumptions,
every handler is one action (or one action per critical section where another thread can
come between), invariants are conjunctions of named parts, and there is no RECURSIVE operator.

## 3. MaintenanceManager

### The code

`MaintenanceManager.cpp` runs maintenance cycles: after boot one *unsolicited* cycle with all
tasks, then one *solicited* cycle per `startMaintenance()`. A cycle is a worker thread,
`m_thread`, that starts one script after another and waits on the condition variable
`task_thread` for each to be over; scripts report by IARM events to `iarmEventHandler()`,
which marks the task in `g_task_status`, wakes the worker, and ends the cycle when all tasks
are marked: it joins the worker and posts the final status. `stopMaintenance()` and
`Deinitialize()` kill the running script, wake and join the worker and post MAINTENANCE_ERROR.

### The model

`MaintenanceManager.tla` has one variable per member (the declaration names it) and one action
per handler. Where a thread can be overtaken in the middle of a function, the function is
several actions:

- the worker is a program counter `wpc` over the places of `task_execution_thread()` and of
  the functions it calls (`W...` actions, in the order of the code);
- `m_statusMutex` is held across `m_thread.join()` in three places. `statusMutex` names the
  holder while it is joining, and the handler is an action up to the join
  (`StartMaintenance`, `StopMaintenance`, `TaskEnded` and the other events by
  `CheckCompleted`) and one after it (`StartJoined`, `StopJoined`, `EndCycle`), enabled by
  `Joined`. Every other critical section is one step guarded by the mutex being free;
- `m_callMutex` is given up by the worker only in `wait()`: `callMutex`;
- the condition variable remembers nothing: `Notified` moves a worker that waits and no other.

`net` holds the four flags of the Internet and device-context events. `scripts` counts the
live instances of each script: the cycle starts them, `startCriticalTasks()` starts them
outside any cycle, and a kill may come too late or miss. What a script is worth is its
terminal event, one of `Outcomes`; the parameters of `checkNetwork()`,
`checkActivatedStatus()`, `knowWhoAmI()` answers and the outcomes are chosen freely.
Left out: the contents of the records (only the parity of the completion-time writes is kept),
the mode strings, the timestamps, log lines, the JSON-RPC queries, which change nothing, and the start
time and the settings of a device context, which are only passed on.

`Env` names what the environment does beyond running scripts: calls (`start`, `stop`,
`deinit`), the informational events, `die` (a script ends without an event), and `early`:
calls and events also come while the worker is not yet where they expect it. Without `early`
a script reports only after the worker has reached its `wait()` and a call waits for the
worker to have begun; that is how things go when scripts take seconds, and the runs that show
what happens otherwise include it.

`MaintenanceMode.tla` extends it with `setMaintenanceMode()`, in two steps since the status is
read without `m_statusMutex`, and with the record file, which survives a restart.

`MaintenanceCycle.tla` is the abstract specification: a status, whether somebody is working at
the tasks, and the tasks that succeeded. `CycleSpec` in `MaintenanceManager` is its
instance under the mapping `status <- notifyStatus`, `working <- wpc` at a task place,
`succeeded <- taskStatus.success`.

### Properties

- `TasksOnlyWhileStarted`: from the announcement of a cycle to the end of its worker the status
  is MAINTENANCE_STARTED. An event, a stop or a failed network check that posted a
  status before the worker was gone would break it, and let a second worker in.
- `BootCycleFirst`: the cycle's type and `g_unsolicited_complete` agree as long as a worker
  is active.
- `FinishedMeansQuiescent`: a cycle reported COMPLETE or INCOMPLETE has no worker left.
- `CycleSpec`: the refinement, in particular COMPLETE only when every task of *this* cycle
  succeeded, although late events of aborted cycles and of `startCriticalTasks()` count.
- `ModeFrozenDuringTasks`: from the first task on only the firmware-upgrade RFC changes the mode.
- `SomebodyToWaitFor`: a worker that waits has a script of its own task to wait for and nobody joins it
  meanwhile; a worker that is through has left a script, or the handler that took the last event, to end the
  cycle. It is what the liveness below rests on, as an invariant, and what a `wait()` without a predicate
  puts at risk.
- `StartedCycleEnds`, `BootEnds`: a started cycle ends; a client is let in after boot.

### Runs

| run | instance | shows |
|---|---|---|
| `mm_calls` | no network retry, one instance of a script, all calls, new start times, `early`, `die`, both task lists | the safety properties |
| `mm_whoami` | ENABLE_WHOAMI, start and stop, in-progress events, `early` | the same when MAINTENANCE_STARTED is posted late, and the refinement |
| `mode_live` | SUPPRESS_MAINTENANCE, two network retries, starts, new start times, mode requests, fair | the mode keeps its types and is frozen from the first task on; whoever waits has somebody to wait for; every started cycle ends, boot ends, with both task lists, offline boots and mode requests at any time |
| `mm_join` (violation) | two starts | `startMaintenance()` joins a worker that needs the mutex it holds |
| `mm_lost_wakeup` (violation) | one cycle, `early`, fair | an event before `wait()` leaves the cycle STARTED for ever |

`mm_calls` and `mode_live` take the SUPPRESS_MAINTENANCE build because it contains the other one:
its activation check, which sets the short task list, may also find nothing and go on as
the plain build does. `CycleSpec` is not true of it (see Proofs), so it is checked in `mm_whoami`
and proved for the plain build too.

Bounds. One live instance per script is enough for a late event to be mistaken for the next
cycle's, since an instance survives the cycle that started it; more instances only repeat that. No network
retry in `mm_calls` and `mm_whoami`: a retry changes nothing but the counter, whose bound `TypeOK` states; `mode_live` has two. Its two
mode requests are one that is accepted in full and one whose opt-out fails it after the mode has been
set. The number of cycles, of calls, of requests and of restarts is not bounded. Deadlock is not
checked: the plugin may stop for good when a script dies, and does so in the runs that show a
join that never returns.

Fairness (`Fairness`). The worker's steps and the three joiners are threads the operating system schedules, so
each is weakly fair once enabled. A running script reports in the end: that is what the
scripts are for, and `mode_live` has no `die`. Nobody owes the worker a spurious wakeup, nor the
system a call, a retry or an Internet event. No liveness is claimed for the ENABLE_WHOAMI build,
whose boot cycle waits for SecManager and for a device context without a bound, nor for `stop`:
its join, under `m_statusMutex`, may wait for a worker that waits for that mutex or for a notification that has passed. The
model contains this, but no property is about it (`mm_join` shows such a join with start).
`ModeFairSpec` adds that a request that was checked goes on to its writes, and that the worker gets
`m_callMutex` at last: requests may come for ever, and a weakly fair worker could then always
find the mutex taken. That is the one strong fairness assumption here; it is about a mutex, which
the operating system does not refuse to a waiting thread for ever.

### Proofs

`MaintenanceManagerProofs.tla` proves, for every build, bound and environment:
`TypeCorrect`, `TasksRunStarted`, `BootComesFirst` and `FinishedIsQuiescent`. None of the three
invariants is inductive. The inductive invariant `IInv` adds to the types what the
status is at each place of the worker (`PlaceInv`: a worker at its checks has announced itself
or has put it off, in which case the status is still IDLE; one past the offline exit left ERROR
behind), that a thread is joinable exactly when the worker is somewhere (`ThreadInv`: so that a
join that returns means no worker), and that a start in progress is for a solicited cycle
after boot (`StartInv`). One lemma per group of actions (worker, events, calls) shows that a step preserves it.

`MaintenanceRefinement.tla` proves `CycleImplemented`: `Spec => CycleSpec` when
`WhoAmI \/ ~Suppress`. Beyond `IInv` it needs that the status the handler is about
to post was earned and still is (`EndInv`), which holds because nobody writes `g_task_status`
while the handler holds `m_statusMutex`. In the remaining build the worker does so
(`WSkipFirmware`, a read and a write without the mutex), and a completion can be lost or
a COMPLETE unearned: the theorem's hypothesis is needed, and the refinement is not claimed there.

`MaintenanceAwaits.tla` proves `NobodyWaitsInVain`: `Spec => []SomebodyToWaitFor`, for every build and every number of
retries and instances, under the hypothesis `Undisturbed`: `Env` has no `stop`, `deinit`, `die` or `early`. The
hypothesis is needed, and is what `mode_live` assumes: an early event is the finding of `mm_lost_wakeup`, a script
that dies leaves the worker waiting, and what a stop has not killed reports to the next cycle. What remains is not quiet: starts, new start
times, progress reports, aborted downloads that wake the worker from another task's wait, spurious wakeups, offline boots and
scripts that `startCriticalTasks()` runs outside the cycle. The inductive invariant `AInv` adds to `IInv`:

- `ListInv`: the worker's list ends with LOGUPLOAD and holds every task that is not complete;
- `LaunchedInv`: each task it has launched is complete, or its script is to report and its event will be taken;
- `LastInv`: LOGUPLOAD is run by the worker alone and once. So as long as the worker has yet to reach it the cycle is not
  complete, and nobody joins a worker that waits;
- `HeardInv`: when all tasks are complete and the handler is not yet ending the cycle, the script of a launched task is
  still to report, so an event that ends the cycle is still to come;
- `IndexInv` and `NoAbort` say where in its list the worker is, and that only a start or the last event holds `m_statusMutex`.

`MaintenanceModeProofs.tla` proves `ModeTypes` and `ModeIsFrozen` of `ModeSpec`, and carries over what is proved of
the cycle to the plugin with its mode requests: `ModeKeepsCycle` (the three invariants), `ModeNobodyWaitsInVain` and
`ModeCycleImplemented` (the refinement). A step of
`MaintenanceMode` is one of the cycle or leaves the cycle's variables but the mutex alone, so `IInv` is kept
(`CycleUndisturbed`). What freezes the mode is `RequestInv`: a request that found no cycle still
holds `m_callMutex`, and the worker cannot have got past the place where it takes that mutex. The status
it read may be stale by then; the place of the worker is not.

The proofs assume only the three ASSUMEs of `MaintenanceManager` about its constants, and the one of
`MaintenanceMode` about the requests.
Liveness is model-checked only: TLAPS has no ENABLED.

## 4. TTSSpeaker

### The code

`TTSSpeaker.cpp` speaks the texts that `TextToSpeechImplementation` hands it, through
`TTSManager`, under `_adminLock`. A new `speak()` pre-empts: it cancels the speech that is
spoken, empties the queue and queues its own text. A thread, `GStreamerThreadFunc()`, waits on
`m_condition` for a text, for a change of the wanted pipeline or for the end; it builds and
destroys the pipeline, takes a text from the queue, plays it, waits for it to be over (EOS, an error,
a flush or a timeout), and reports one of `OnSpeechComplete`, `OnSpeechInterrupted`, `OnNetworkError`
and `OnPlaybackError`. A third thread runs `handleMessage()` for the messages of the pipeline's
bus: EOS and errors set flags and notify, a state change calls the client back (started, resumed,
paused) for the current speech. `m_queueMutex` covers the queue, `m_stateMutex`
`m_isSpeaking` and the callbacks of the bus thread, and most flags have no mutex at all.

### The model

`TTSSpeaker.tla` has one variable per member. Its threads:

- the GStreamer thread is a program counter `pc` over the places of `GStreamerThreadFunc()`,
  `speakText()`, `play()` and `waitForAudioToFinishTimeout()` (`T...` actions);
- the client is one thread, since `_adminLock` serialises the calls; `client` is the rest of
  its call. `speak()` is four steps (test, flush, clear the queue, queue the text), as its
  critical sections are; `pause()`, `resume()`, `cancelSpeech()` and `enableTTS()` are two, because they test
  and write without a mutex;
- the bus thread takes a message, handles an EOS or an error in one step and a state change in
  two: `telling` is the speech whose callback it makes, and stands for `m_stateMutex`;
- the pipeline gets where it was told to go, ends or fails when it likes (`stream`, with the
  messages it has posted). `gst_element_set_state(NULL)` drops the messages that were not taken.

`m_queueMutex` is held for one list operation at a time, which is one step anyway. It shows
at a single place: between the predicate of the wait for text and the sleep (`pc = "blocking"`)
nobody who takes the mutex can come, and `cancelSpeech()`, the bus thread and the destructor,
which notify without it, can. A notification moves a thread that sleeps and is otherwise
forgotten (`Notified`).

`Create` is `createPipeline()` with all outcomes: TTS disabled meanwhile, a failure, a success,
and a success whose `resetPipeline()` finds an old error and builds another one, which may fail.
A wrong step of the code that ends the process (front of an empty list, a callback of a NULL
speech, elements of a destroyed pipeline) is `Crash`; nothing is claimed after it.

`Init` is the speaker right after its construction, with `enableTTS()` of the stored
configuration still under way. `m_pipelinetype`, which no constructor initialises, has either value.

Left out: the configuration and voices, what an access list contains, the fallback text's download,
the registration of clients and the worker-pool jobs that carry events to them, the queries,
durations and positions, and a construction that fails in one element only (a failure is one
outcome).

`SpeechTurns.tla` is the abstract specification: speeches get ids in order; one at a time has
its turn; nobody has a turn after a later speech had one; a turn ends with one terminal event.
`TurnsSpec` is its instance where the turn is the speech that was dequeued (`data`) and has
no terminal event yet.

### Properties

- `TurnsSpec`: the refinement. No speech ends twice or without its turn, none is overtaken and comes
  back, although flushes, errors, a missing pipeline and the second attempt at a local
  end point interrupt a speech at any place.
- `CallbackSpeechAlive`: a callback of the bus thread belongs to the speech at its turn, and the end
  of the speech waits for it. `play()` clears `m_currentSpeech` without the mutex; that the callback
  is not made for the next speech depends on `setSpeakingState()` alone.
- `LatestNotLost`: the newest speech is queued, at its turn or has had it, although
  `speak()` has three critical sections and a racing thread takes from the queue between them.
- `AsleepMeansNothingToDo`: no wakeup is lost. The thread does not sleep, nor is it between its predicate and the
  sleep, with a text queued or a pipeline to build or let go. Whoever brings it a text or a new wish takes
  `m_queueMutex`, and those who notify without it bring nothing that this wait is for.
- `LatestSpeechEnds`: one condition variable and `notify_one()` serve text, pipeline, EOS, error and
  shutdown, and the failure counter stops retries; still the newest speech ends with an event.
- `DisabledReleases`: a disabled speaker lets the pipeline go.
- `NoEmptyDequeue` fails: a `speak()` can empty the queue between the wait for text, which
  releases `m_queueMutex`, and `dequeueData()`, which takes the front without a test.

### Runs

| run | instance | shows |
|---|---|---|
| `tts` | two speeches, one other call, a local end point, fair | types, callbacks, the newest speech is kept and ends, no lost wakeup, the refinement; disabling releases the pipeline |
| `tts_dequeue` (violation) | no local end point | the dequeue of an empty list |

Bounds. `MaxSpeeches = 2`: every race in this code is between a speech and the one that
pre-empts it, and the queue never holds more than one text (`QueueInv`, proved). `MaxCalls` bounds
the calls other than `speak()`: one call meets both speeches at every place, which includes a cancel of
the speech after the one it was meant for, disabling, and each way to interrupt. Pairs of other calls
(pause and resume, disable and enable) are covered by the theorems, which hold for any number of them.
`MaxFailures = 1` is the default of `MAX_PIPELINE_FAILURE_THRESHOLD`. Deadlock is not
checked: the calls are used up, and a destroyed speaker stops.

Fairness (`Fairness`). A call in progress goes on, and the GStreamer thread and the bus thread
are scheduled, each weakly fair; the wait for audio has a timeout in the code
unless the speech is paused, so its end needs no message. No client owes a call. The liveness
properties exempt a paused speaker (no timeout, by design), a crash, and a speaker that is
destroyed: the destructor notifies without `m_queueMutex`, its notification can be lost, and
`join()` then waits for ever. That is listed as a hazard without a property, as no text of the
repository promises otherwise.

### Proofs

`TTSSpeakerProofs.tla` proves, for every number of speeches and calls, every failure threshold, and
with or without a local end point: `SpeakerTypeCorrect`, `CallbacksHaveTheirSpeech`,
`LatestIsKept` and the refinement `TurnsImplemented`. The inductive invariant `IInv` adds to the types and
the properties:

- `TurnInv`: `data` is a speech without an event exactly at the places of a turn, and no later
  speech has had one;
- `QueueInv`: the queue holds at most one speech, later than the one at its turn and, while a
  `speak()` is under way, earlier than the one being asked for. It is what makes the dequeued
  speech new, which the refinement needs, and what makes `LatestNotLost` survive a dequeue;
- `SpeechInv`: `m_isSpeaking` and `m_currentSpeech` follow the thread. It is what makes the
  speech of a callback the one at its turn.

A lemma per actor shows that its steps keep the types, and one that they keep the rest; the
steps of the thread that touch neither queue nor speech share `MoveInv`. `NoWakeupIsLost` proves
`AsleepMeansNothingToDo`, which is inductive with the types: a client's step to something new finds the thread asleep and
wakes it, since `m_queueMutex` keeps it off the way there. It leaves out a destroyed speaker (`run`): the destructor
notifies without the mutex, and that wakeup can be lost. The only assumption is
`SpeakerAssumption`. The two liveness properties are model-checked only.

## 5. Analytics

### The code

A client's event passes three threads and a file. `AnalyticsImplementation::SendEvent()` queues
it; the implementation's `ActionLoop()` hands it to the back end, or, when it has no epoch time and the
system time is not known yet, keeps it until `SetTimeReady()`. `SiftBackend::ActionLoop()`
opens the store and makes the uploader as soon as their configuration is known, keeps events while the
configuration is not valid, and writes the others to an SQLite table. `SiftUploader::Run()` waits for a
random time, collects a batch (a query for the place and number of the latest rows, then one
for the rows), posts it until the end point answers, and removes the rows by a range of ids computed from
the batch's first id and its size. The back end is a static object: it survives the plugin's deactivation.

### The model

- `LocalStore.tla`: the table. Ids are never reused, so `rows` is a set of ids and `data` says which event each id ever
  had; every query is one step, as `DatabaseConnection` runs one at a time.
- `SiftUploader.tla`: the uploader's states and the places of `Run()` are `upc`. Each query may fail; a
  post is answered for good (200, 400) or not. `stop` ends waits, and `Run()` at one place only.
- `SiftBackend.tla`: a turn of `ActionLoop()` is the part under `mQueueMutex` (`Take`, with
  `MakeParts`) and what it does with the action (`ActSend`, `FlushOne` per queued event, `FlushEnd`,
  `ActShutdown`). `Take` offers "populate" only where the wait has a timeout.
- `Analytics.tla`: the implementation's thread, the plugin's activation and deactivation, the
  orderly end of the process, and `Restart`: the process was killed at any point and starts again with
  the file as it was.

`answered`, `repeatable` and `crowded` are history: the rows the end point has dealt with, those of them whose
removal failed or was cut short, and whether there ever were more rows than the limit.

Left out: what events contain and the JSON around them, durations, and `SiftConfig`'s threads, of which only
the verdicts remain (`config`: attributes known or not, the end point known), changing at any time.

`EventDelivery.tla` is the abstract specification: an event is with the client, in memory, in the store or
answered, moves forward only, is lost only from memory and is written once. `DeliverySpec` is its instance under `PlaceOf`.

### Properties

- `KeptUntilAnswered`: a row leaves the table only after a post with its event was answered.
  The removal gets a place and a number, while events are added and rows may be left around the batch.
- `DeletedWithinLimit`: an answered row leaves the table unless an accident kept it, as long
  as there never were more rows than the limit. Beyond it a batch may have a gap of ids, the range then falls
  short, and its last rows are posted again: the hypothesis is the code's own limit, not a convenience.
- `UndatedKeepOrder`: events without an epoch time reach the back end's queue in the order in which they were sent,
  although some wait in a queue of their own and others come while that one is emptied. Dated events overtake
  them by design; behind the back end's queue the code keeps no order (a flush waits, a send does not).
- `DeliverySpec`: the refinement, over failures, shutdowns and restarts.
- `StoredIsAnswered`: every stored event is answered, also one outside the window of the latest rows.
- `NothingWaitsForTime`: once the time is ready, no event waits for it, in either queue.
- `UploaderStops`: the destructor's join returns, although a stop does not end the posts.
- `QueuedIsWritten` fails: events queued for want of a configuration are flushed by a turn without an
  action only, and there is none when the configuration became valid in the turn of another event.

### Runs

| run | instance | shows |
|---|---|---|
| `analytics_safe` | three events, one with a time; limit 2, batches of two; two activations, one restart | the safety properties, the order and the refinement |
| `analytics_live` | two events, one with a time; limit 1, batches of one, one retry; fair | the liveness properties |
| `analytics_queue` (violation) | two events with a time, fair, inserts of queued events too | queued events stay in memory |

Bounds. Three rows and a limit of two are the smallest instance with an event outside the window, a batch
that grows between its two queries, a row left over on either side of a batch, and a gap. Two activations
and one restart make an activation in a process that kept its back end and one in a new process. Retries do not matter
to safety (`analytics_safe` has none, so a failed post is repeated at once). The theorems have no bounds.
Deadlock is not checked: the process may have ended for good.

Fairness (`Fairness`). The three threads are weakly fair. Strong fairness says that what may fail does not fail for ever:
the two queries of a batch, the removal and the end point's answer. Nobody owes an event,
a configuration, a time or a restart. `QueuedIsWritten` is checked under `FairFlushSpec`, which adds that
the insert of a queued event does not fail for ever, so that its violation is not a failing database.

### Proofs

`AnalyticsProofs.tla` proves for any number of events, activations and restarts, any limit, batch
size and number of retries: `AnalyticsTypes`, `NothingDeletedUnanswered` and `AnsweredIsDeleted`. The
inductive invariant `IInv` adds to the types and the two properties

- `BatchInv`: from the collection of a batch to its removal, the range of ids that will be removed holds no row but the
  batch's, and ends no later than the last id handed out, so that no later row falls into it;
- `LimitInv`: as long as rows never exceeded the limit, they are the latest ids without a gap and the uploader is at the
  first of them; hence a batch is an interval and the range reaches its end.

That the range fits rests on a fact about finite sets (the ids in an interval are at most as many as the interval is
long), from the library's theorems on cardinality.

`AnalyticsDelivery.tla` follows the events:

- `EventsAreInOnePlace`: the invariant `OnePlace`. An event is in one of the five places in memory (the two queues of the
  implementation, the back end's queue, its hand and its queue of waiting events), there once, and in none of them when it is in the store; only
  events that were sent are anywhere. Each step moves one event from the head of a place to the end of another, which one lemma
  about `Append` and one about `Tail` describe.
- `DeliveryImplemented`: `Spec => DeliverySpec`. With `OnePlace`, `PlaceOf` never says "twice" (`NeverTwice`), and a
  step is a send, a write, an answer, a loss from memory (shutdown, a failed insert, the end of the process) or a
  stutter of `EventDelivery`; `LoseImage`, `SendImage`, `WriteImage` and `AnswerImage` map each.
- `UndatedEventsKeepOrder`: `UndatedKeepOrder` is inductive with `WaitInv` (no event waits when the time is ready, but while
  the queue is being emptied) and `OnePlace` (a new event is newer than all that are queued).

The assumptions are `LimitAssumption`, `UploaderAssumption` and `AnalyticsAssumption`. Liveness is model-checked only.

## 6. HdmiCecSink: the Audio Return Channel

### The code

`m_currentArcRoutingState` is written by a client (`setupARCRouting`), by power and hot-plug events, by the audio
device's messages (`Process_InitiateArc`, `Process_TerminateArc`, `Process_SetSystemAudioMode_msg`), by the three-second
timer of a request, and by `CECDisable()` and `Deinitialize()`. After most writes
a binary semaphore is released; `threadArcRouting()` takes it, reads the state and sends the message that belongs to
it. `m_arcRoutingStateMutex` guards single writes and the routing thread's read; the tests before a write have no mutex.

### The model

`HdmiCecSinkArc.tla` splits each operation wherever another thread may come in between: `pc` holds the place of the client's
thread, of the IARM and CEC threads, of the one in `setEnabled()` or `Deinitialize()` and of `TpTimer`'s; `rpc` that of the
routing thread. `stopArc()`, for instance, is a check, a write, a signal and the start of the timer
(`StopCheck`, `RequestWrite`, `RequestSignal`, then `IsActive`, `TimerStop`, `TimerStart`), the same steps whoever calls it.
`CECDisable()` closes the connection after it has cleared `cecEnableStatus`, so messages may still come in between (`Connected`).

`TpTimer` has no mutex, and its operations are split too. `if (isActive()) stop();` has three callers: a request that is about
to start the timer, an answer, and `Timed()` after the callback of a single-shot timer; `back` says where the thread
goes on. `stop()` is a `Revoke()` and then `m_isActive = false` (`TimerStop`), `start()` a `Revoke()`, a `Schedule()` and
`m_isActive = true` (`TimerStart`). So two threads may both schedule the job (`jobs` counts), a timer may be scheduled
without being active, and then an answer leaves it running and it expires later; and the tail of an expiry revokes a
timer that has been started again. `Revoke()` and `Schedule()` of the framework's timer are single steps (they are external),
`Revoke()` removes every scheduled instance of the job and does not wait for one that runs.

`reported` and `untimed` are history: whether the routing thread has acted on the state since it was written, and
whether the timer of the standing request was revoked by somebody else.
Left out: the events to DisplaySettings and `m_arcstarting`, which chooses one of them, the text of the
messages, and everything of HdmiCecSink that does not touch ARC.

### Properties

- `TypeOK`: the types; in particular the semaphore, which four threads release, counts to one.
- `NoStateForgotten`, `StateIsReported`: the semaphore counts to one and the state is read after it, so several writes are
  one signal; still a state that stands is acted upon. "terminated" is exempt: the timer, a hot-plug event and
  `CECDisable()` write it without a signal.
- `RequestIsTimed`, `RequestEnds`: a request has its timer, and ends, but in two cases in which the timer was
  revoked by another: an InitiateArc that finds the power off, and the tail of the previous expiry. Both are
  in the model (`untimed`), and the properties say that there is no third, whatever steps of `start()` and
  `stop()` fall between each other.
- `DisableEnds` fails: `CECDisable()` waits for ARC_TERMINATED without a bound and counts on the timer. In the run's trace ARC
  is initiated, `Deinitialize()` requests its termination and waits, and an InitiateArc message with the power on
  stops the timer and writes ARC_INITIATED. The test of `cecSettingEnabled` in `Process_InitiateArc()` does not help, as
  `Deinitialize()` leaves it true.

### Runs

| run | instance | shows |
|---|---|---|
| `arc_races` | any three calls, events and messages, fair | the properties but `DisableEnds` |
| `arc_disable` (violation) | `Deinitialize()` and InitiateArc messages, fair | `CECDisable()` never returns |

Bounds. `MaxOps = 3` lets a request, an answer and a third party meet at every step of each other, of the timer and of
the routing thread: each of the two exceptions needs two. The theorems hold for any number.
`Env` says which calls, events and messages come: all in `arc_races`; in `arc_disable` only those that the finding is about, so
that no other cause (the tail of an expiry can undo the wait as well) takes its place in the trace.
One `setEnabled()` or `Deinitialize()` at a time: they hold `m_enableMutex`. Deadlock is not checked: no more may come.
The two liveness properties are about the last of the requests and of the writes: finitely many come.

Fairness. Each thread goes on with what it has begun, the timer expires and the routing thread runs, each weakly fair.
Nobody has to call, and no message or answer has to come.

### Proofs

`HdmiCecSinkArcProofs.tla` proves `ArcTypes`, `NothingForgotten` and `RequestsAreTimed` for any number and any kinds of operations.
`ArcTypes` gives the other two the types, among them that `stop()` returns to one of its callers, without which a thread
could leave the timer's code anywhere. `NoStateForgotten` is then inductive by cases on who is between a write and its
signal, `RequestIsTimed` by cases on who is between the signal and the `Schedule()` or between an answer's `Revoke()` and
its write (`AtTimer`). The assumptions are `MaxOpsAssumption` and `EnvAssumption`. The two liveness properties are
model-checked only.

## 7. Not modelled

`PROJECT.json` gives the reason per plugin. Most forward calls and events of a library and have no state whose order could go wrong; what could be said
about them is said by their code. Some have protocols of their own and are the rest of the plan (section 2): LocationSync,
SystemAudioPlayer, PersistentStore, Monitor, Timer, the device table and polling thread of HdmiCecSink, HdmiCecSource and Miracast.

Of the four plugins that are modelled: the JSON-RPC queries of MaintenanceManager, which change nothing; of TextToSpeech,
Analytics and HdmiCecSink the parts named above. TLAPS does not reach liveness under
fairness, nor ENABLED: those properties are checked by TLC on the instances of the runs.
