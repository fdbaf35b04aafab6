# JS8Call: a TLA+ model

This directory specifies the program's own core. Of the Android program: the transmit
engine (`core/src/engine`, `core/src/tx`), the audio output that drives it, the receive
scheduler beside it, the creation and destruction of the engine with its threads,
the service that keys the radio around it (`JS8EngineService.kt`), the queue of the
user interface in front of it (`MainActivity.kt`, `TransmitViewModel.kt`) and the
assembly of what is received. Of the Qt desktop program it was ported from: rig
control (`TransceiverBase.cpp`, `PollingTransceiver.cpp`,
`EmulateSplitTransceiver.cpp`, `Configuration.cpp`) and the loops that repeat CQ
and heartbeat (`TxLoop.cpp`). Vendored libraries are left aside.

Run a model with `tlc -config X.cfg M`, check the proofs with
`tlapm M.tla` for M = `TxEngineProofs`, `PttControlProofs`, `TxQueueProofs`,
`DecodeScheduleProofs`, `MsgAssemblyProofs`, `EngineLifecycleProofs`, `RigControlProofs` and
`TxLoopProofs` (`PttControlProofs` takes about seven minutes, the others one or two).

## 1. The system

A foreground service (`JS8EngineService`) owns one native engine
(`JS8Engine.kt` -> JNI -> `Js8EngineImpl`), one radio (rigctld, Hamlib, RTS line,
TruSDX or QMX) and the conversation logic. The user interface sends it intents
and receives broadcasts. The threads are

- the **main looper**: intents, engine callbacks that were posted to it, the
  transmit monitor, heartbeat timer, replies of rig commands, `stopEngine`;
- **Js8Tx**, a handler thread: the user's messages, rig commands, teardown;
- the **output thread** (the pump, or Oboe's callback): pulls transmit samples;
- the **capture thread**: submits audio and schedules decodes;
- the **decode** and **spectrum** workers of the engine, the worker of its scheduler;
- start-up workers and reader threads of the radios.

The desktop program has one thread of the user interface and one for the
transceiver object; calls and signals between them are queued by Qt.

| component | state | operations | interacts by | what makes it correct |
|---|---|---|---|---|
| Transmit engine (`engine.cpp` 196-346, 734-888; `modulator.cpp`) | frame queue, tuning, active, ready gate, output flag; modulator state, silence left, position | transmit_message, transmit_frame, start_tune, stop_transmit, set_tx_ready, getters, one sample | `tx_mutex_`, atomics, output thread | no leftovers between sessions, frame order, a session has an output, calls return, sessions end |
| Pump output (`js8_engine_jni.cpp` 108-207) | running flag, thread | start, stop (join), loop | callback into the engine | one thread at a time |
| PTT control (`JS8EngineService.kt` 147-217, 2715-2886) | generation, asserted/desired/pending, failures, completion, flags of the monitor | monitor run, request, command, failure, start of a monitor | `pttStateLock`, posts between two loopers, engine getters | one command at a time, no audio without PTT, PTT released, one truthful report per message |
| Stop of the service (1480-1598) | rig transports, engine handle | stopEngine, queued teardown | removes and posts on Js8Tx | PTT is released whatever was queued |
| UI queue (`TransmitViewModel.kt`, `MainActivity.kt`) | queue sorted by priority, TX state | queue, send head, react to reports, leave and return | intents, broadcasts | none forgotten, none sent twice, the state shown is true |
| Receive scheduler (`engine.cpp` 133-194, 408-732) | ring position, window per submode, enabled set, drift | submit_capture, set_submodes, set_time_drift_ms | atomics | every cycle decoded exactly once and in time, windows complete, no drift lost |
| Lifecycle (`JS8Engine.kt` 255-288, `js8_engine_jni.cpp` 490-641, `engine.cpp` 58-90, 1094-1211) | handle, read/write lock, handler, worker queues and stop flags | create, close, destroy, calls, callbacks | locks, condition variables, joins | nothing is used after its end, a stop waits only for who was told to end and is awake, no worker sleeps on its work |
| Audio capture and SCO (`JS8AudioHelper.kt` 89-327, service 1846-1968) | capture thread, device, two tokens | start, stop (join), switch, wait for SCO, silence check | delayed posts to the main looper | one capture feeds the engine; a stale post changes nothing |
| Start of the service (460-910) | start generation, in-progress flags | start, resume, fail, stop | workers that answer late | a stale answer changes nothing |
| MSG assembly and relay (2898-3070, 3149-3537, 3694) | buffers per frequency | frame arrives, clean up, forward | decode callbacks | a message is delivered once, whole, or dropped |
| Heartbeat, time sync (1629-1672, 2345-2507) | next time, moving average | schedule, send, apply drift | timer, decode callbacks | never over a running transmission; drift converges |
| Radios (`TruSdxSerialSession`, `QmxCatSession`, `RigCtlClient`, Hamlib) | link, parser, waiting reply | open, setPtt, read loop | threads and links that break | PTT and data do not mix; a reply meets its request |
| Serial bridges | buffers | open, read, retry | one native registration | a stale callback changes nothing |
| Desktop rig control (`TransceiverBase.cpp`, `PollingTransceiver.cpp`, `EmulateSplitTransceiver.cpp`, `Configuration.cpp` 3490-3727, `mainwindow.cpp` 7732-7813) | wanted, real, expected and last signalled state, command number, cache, the window's picture | start, set, stop, poll, open and close, key and release | queued calls and signals, CAT commands that fail | the rig is not left keyed, the picture becomes true, split holds, audio only into a keyed rig |
| Desktop loops (`TxLoop.cpp`, `DriftingDateTime.cpp`) | next activity, timer, period, submode, delay, drift | press, trigger, drift, submode, delay | signals of one thread | one loop at a time, always with a wake-up, on slots, no period skipped |
| Rest of the desktop program | windows, settings, sockets, sound | | | not modelled |

`PROJECT.json` lists every component, those that are left out with the reason,
and the hazards, each at its line.

## 2. Modules

| module | models | extends / uses |
|---|---|---|
| `TxSession` | the **abstract** transmit session: `phase` (idle, gap, far, near, active), frames waiting, ready gate; what a driver may call and how the session goes on | |
| `TxEngine` | the engine's transmit side with modulator, pump and several calling threads | INSTANCE of `TxSession` (refinement) |
| `TxEngineProofs` | theorems about `TxEngine` | `TxEngine`, TLAPS |
| `MCTxEngine` | instance for TLC | `TxEngine` |
| `PttControl` | monitor, rig commands, messages, failure, stop | `TxSession`, used as its engine |
| `PttControlProofs` | theorems about `PttControl` | `PttControl`, TLAPS |
| `MCPttControl` | instance for TLC | `PttControl` |
| `TxQueue` | the queue of the user interface over intents, broadcasts and the service | |
| `TxQueueProofs` | theorems about `TxQueue` | `TxQueue`, TLAPS |
| `MCTxQueue` | instance for TLC | `TxQueue` |
| `DecodeSchedule` | the receive scheduler: ring, windows, enabled submodes, drift | |
| `DecodeScheduleProofs` | theorems about `DecodeSchedule` | `DecodeSchedule`, TLAPS |
| `MCDecodeSchedule` | instance for TLC | `DecodeSchedule` |
| `MsgAssembly` | received frames put together to messages and relayed texts, over stations that send them | |
| `MsgAssemblyProofs` | theorems about `MsgAssembly` | `MsgAssembly`, TLAPS |
| `MCMsgAssembly` | instance for TLC | `MsgAssembly` |
| `EngineLifecycle` | creation, use and destruction of engines, with capture, SCO, workers and scheduler | |
| `EngineLifecycleProofs` | theorems about `EngineLifecycle` | `EngineLifecycle`, TLAPS |
| `MCEngineLifecycle` | instance for TLC | `EngineLifecycle` |
| `RigControl` | the desktop's transceiver, the cache and numbers in front of it and the window's use of both | |
| `RigControlProofs` | theorems about `RigControl` | `RigControl`, TLAPS |
| `MCRigControl` | instances for TLC | `RigControl` |
| `TxLoop` | the two loops and the drifting clock | |
| `TxLoopProofs` | theorems about `TxLoop` | `TxLoop`, TLAPS |
| `MCTxLoop` | instance for TLC | `TxLoop` |

### TxSession
Its variables are what the three getters of `engine.hpp` show. `Submit`, `Tune`,
`Cancel`, `SetReady` are the calls; `Approach`, `SlotBegins`, `FrameEnds`,
`NextFrame`, `SessionEnds` the progress made by pulling samples. It is both what
`TxEngine` implements and the engine that `PttControl` drives, so a result about
`PttControl` is about the service over the real engine's interface.

### TxEngine
Variables carry the names of the C++ fields (comments in the module). Each
caller has a program counter: `submit` (the critical section), `output` / `start`
/ `record` (start_tx_output, **outside** the lock: read the flag, start the
output, write the flag), `stop` / `halt` / `join` (stop_transmit, **holding**
the lock until the pump is joined). The pump alternates `check` and `fill`;
`fill` needs the lock. Data abstracted: waveform, resampling, gain, the content
of frames (a frame is its request and index). One unit of silence and of a frame
is one sample call; buffers of 192 samples only restrict the interleavings.

`aborted` is C++'s `std::terminate`: `PumpAudioOutput::start` assigns its thread
while an earlier one, halted and not yet joined, is still joinable. It is
reachable (a start between `running_ = false` and the join). The behaviours that
go on are the ones in which that did not happen.

### PttControl
Two threads with a program counter each. A step ends at every point where the
other thread can see a difference: a `synchronized (pttStateLock)` section, an
engine call, a post. Merged on purpose: `startTxMonitor`'s remove, section and
post (nothing on the other thread separates them except the running monitor,
which is another step anyway), the three getter reads of the monitor, `stopEngine`'s
plain field writes. `postDelayed` is a count of posted monitors (`monitorPosted`),
without delay: anything may overtake it. A rig command answers or fails;
`link` is the connected flag of the radio in use. `OutputMayFail` over-approximates
the output that is refused after two starts at once (section 3). Not counted: QUEUED and STARTED
broadcasts, setTransmitMode (a CAT command before a message), logging.
A second `startEngine` in the same service instance is not modelled yet; a second
`stopEngine` is, because the service always makes two (`ACTION_STOP` or `onTaskRemoved`,
then `onDestroy`). `dropped` is a history variable: a stop has removed the
release that an earlier one had queued on Js8Tx. `crashed` is a call of a closed engine on Js8Tx, where `JS8Engine` throws and
nothing catches.

### TxQueue
The user interface keeps the messages (`queue`, sorted by priority) and a state
(`txState`); the service keeps none of them. `tasks` are the intents on their way
to `handleTransmitMessage`, `inbox` the broadcasts on their way back:
`LocalBroadcastManager` executes them in order on the main looper, after the
step that made them, and to no one if `onStop` has unregistered the receivers
(`Leave`). `lost` records that this happened, or that the audio capture did not
start. What happens below is as coarse as the queue can tell: a message
replaces the session (`Replaces`), it is announced and the monitor is started
(two steps, since the other thread may come between), and the monitor turns
session and audio into STARTED, QUEUED, FINISHED and FAILED. A run of the
monitor is one step and there is one chain of it (section 3 says what
two chains do), `releasing` is the completion that waits for the release of
PTT, and a new message drops it, as `startTxMonitor` does. That every
transmission is reported in the end is not assumed but checked in `PttControl`
(`EndIsReported`, with a radio that refuses commands and a link that is lost). `stopEngine` removes some or all of the waiting intents:
what had not yet got to Js8Tx is handled later and finds no engine.

`Init` is a running engine with the activity on the screen. The station has a
callsign (without one `handleTransmitMessage` only shows a warning). Nobody
is told of a heartbeat that is refused.

### DecodeSchedule
The capture thread is one process: `BeginAlignment` and `AlignRing` are the two
reads of the drift in `align_ring_to_clock`, `Receive` appends a buffer and
enters `schedule_decodes`, which looks at one schedule per step (`Consider`,
`PassOver`), because it reads `enabled_submodes_` once per schedule; `FinishPass`
stores `k0_`. `Consider` is `isDecodeReady`, reset and
division included. Other threads change the enabled set (`SetSubmodes`) and the
drift, in the two steps in which `set_time_drift_ms` can be overtaken
(`SetDrift`, `AskForAlignment`). Because an alignment reads the drift twice, a
window cut in the same call may carry a drift it was not aligned with;
`DriftSettled` says that it lasts no longer than the request that caused it.

Abstracted: samples (only how many were captured since the alignment, `fresh`),
the clock (an alignment puts the ring anywhere), the queue to the decode worker,
spectrum and logs. A submode is its index in
`schedules_`. `phase`, `fresh`, `last` and `missed` are history variables for the
properties. `ScheduleAssumption` is what the table of submodes and the audio
helper give: 60 s are a multiple of each period, and a buffer (at most 4096
frames, `JS8AudioHelper.kt` 237-243) is shorter than the rest of a cycle after
its message (at least 10464 samples, submode I at 12 kHz). With a larger buffer
the ring could wrap from before the end of a window, which would be lost.

### MsgAssembly
`onDecoded` posts one task per frame to the main looper, which calls
`handleRelayFrame` and then `maybeHandleIncomingMessage`; `Decoded` is both, in
one step, since they share no state. Each keeps its buffers in a Kotlin
`mutableMapOf`, which iterates in the order of insertion and keeps the place of a
key whose value is replaced: here a sequence. A frame is its transmission, index,
frequency and kind; the sender of a data frame, and the transmission of any
frame, are in the model for the properties, the handlers look at the frequency only.
`MsgAtOnce` .. `MsgIgnores` and `RelayBegins` .. `RelayIgnores` are the returns
of the two functions.

The stations (`Begin`, `Arrives`, `GetsLost`, `NextCycle`) are not in the code:
each sends at most one frame in a cycle, and every one of them is heard in it or
lost. Time is counted in cycles of 30 s, the longest (submode.cpp), so the 60 s
and 90 s of the buffers are two and three cycles; shorter submodes only age more
slowly. Abstracted: the parsing of a command, words and blanks; a message to another
station or group, which both handlers skip; the user's switch for relaying and
the callsign (both are set). A checksum is what it is for: it is right if the text is that of one
relayed transmission (`Valid`), collisions left aside. Where a text goes
(`sendRelayMessage`, the answers to a relayed query, the automatic ACK) is one
entry of `relayed` or `delivered`; what the service does when it is transmitting
at that time is in `TxQueue` (`SendOwn`).

### EngineLifecycle
The main looper is one process: `main.pc` is where `stopEngine`, a change of device
or a restart of the capture has got to. Between two of its labels another thread
can see a difference: the join of the capture, the read lock of `stop`, the write
lock of `close` (fair, so a waiting writer keeps new readers out: `Readable`), the
second stop, the two workers (flag and queue under the mutex, then the join), the
handler, the output and the scheduler, which are members of the native object and go in
the reverse order of their declaration (flag, notification, join), the memory. A captured buffer
is `Record`, `SubmitAudio` (the lock and the check of the handle) and `Submitted`,
which queues for any of the workers; what `submit_capture` decides is
`DecodeSchedule`'s matter.

Main looper and Js8Tx both transmit (`Callers`, `call`). Of a transmission the model
has what concerns the output, as in `TxEngine`: its critical section and the look at
`tx_output_started_`, the start without `tx_mutex_`, the record of its result,
and after a refusal `stop_transmit`. That one halts the output only if the flag is set
(`StopTransmit`), and joins the pump with the mutex held (`JoinOutput`), so it may wait
for ever; `JS8Engine.stop` and `js8_engine_destroy` go through the same call. `output` is
the flag, the `running_` and the thread of the newest engine's output and who holds the
mutex in a join; `quiet` is a history variable, the flag was cleared over a running output by a start
that was refused. The output's destructor halts and joins it without the flag
(`StopPump`, `JoinPump`). A pump that takes samples from an engine already destroyed is undefined
behaviour, which `OutputStoppedFirst` finds; the behaviours that go on are the ones in which
it went unnoticed. As in `TxEngine`, `aborted` is `std::terminate`, and the Oboe output is not
modelled.

`worker[e][w].queued` says that the queue is not empty;
a condition variable is the label `wait`, left by a notification or spuriously.
A delayed post with an old token returns at once, so advancing a token takes
the posts away (`Others`). Java's callbacks only log and post to the main looper
and call nothing back. With a TruSDX there is no capture, which is the case of one
that is refused. A call that throws on Js8Tx ends that thread (`thrown`).

### RigControl
Two threads with a queue each way: `calls` holds the queued slots of the
transceivers (start, set, stop), `signals` their updates and failures. A slot runs
to its end on its thread, so it is one step; within it CAT commands are carried out
one after another by operators over a *context* (the object, the rig, the signals
emitted, whether an exception is under way), and `bad` chooses the commands that
fail, with or without effect on the rig. An exception skips what follows, runs the
destructor of `may_update` (`UpdateComplete`) and ends in `Offline`, as in C++. `objects` grows:
an old object is only told to stop, and its queue may hold more before that. What was
queued before a disconnection is still delivered; what is emitted after it
goes nowhere. On the window's thread `Qsy`, `MoveOffset`, `Reopen`, `Key`, `StopTx`,
`StopTx2` and `HandleSignal` are whole handlers; `guiUpdate`'s clock is abstracted,
so a transmission may begin and end at any time and `pttReleaseTimer` expire at any.

Abstracted: the mode (left alone by every command), calibration (values map to themselves),
resolution, `hold_ptt` (off), the receive monitor (on, so `setRig` sends). A `Split`
that is not emulated by the program is not modelled: with `Split = FALSE` the rig is
simplex. `RigControl` holds no fairness: every question it asks is one of safety.

### TxLoop
All on one thread: a step is a slot with what its signals call, in the order of
the connections (`DriftChanged` of CQ before HB, the others the other way round). The
button of a loop is in while the loop runs, `Press` and `Release` are its toggles and
the stop button. `Restarted` reads the system clock where `OnTimer` reads the drifting
one: `currentMSecsSinceEpoch` is a static function of `QDateTime`, also
when it is called on an object. `skewed` and `last` are history variables: a timer
set from the system clock under a drift, and the previous activity of the same
schedule. Every slot divides the offered periods and every delay is shorter (the
exceptions of `onModeChange` and `onTxDelayChange` are out of reach of the
settings), which is `TxLoopAssumption`; it also bounds how late a timer is (`Late`)
by the shortest period: a computer that sleeps over an activity is not modelled. The
catching up of `onTimer` then happens only after a start under a drift, which
`EveryPeriod` exempts: how far it goes is bounded by `OneWakes` alone. The trigger
itself, a message put into the window, changes nothing here.

## 3. Runs

| run | question | answer |
|---|---|---|
| `tx_engine` (78,546 states) | do two threads and the pump keep frames ordered, outputs running, and behave as `TxSession`? does every session end once the gate stays open? | yes |
| `tx_stop_returns` | does `stop_transmit` return? | **no**: it joins the pump with the lock the pump waits for |
| `ptt_control` (167,333 states) | one command at a time; gate open only with PTT; failure releases; FINISHED means released; bounded retries; with a radio that refuses to key or to release, a link that is lost and an output that does not start: is every transmission reported as finished or failed in the end? | yes |
| `ptt_stop` (205,804 states) | with a radio that obeys, two messages, a heartbeat and two stops: at rest after the stops, is PTT released? and after each session? | yes, but for a release that the second stop removed |
| `decode_schedule` (1,374,344 states) | is each cycle decoded once, in time, and within the decoder's room? with two threads that set the drift: is the last one always applied, and does an alignment spoil one window at most? is an enabled submode decoded for ever? | yes; the room for a submode that is not passed over |
| `tx_queue` (608,612 states) | is no message left with nothing under way that sends it? is the queue worked off once refusals end? | yes, apart from a stop of the engine during a transmission and broadcasts nobody received |
| `tx_queue_idle` | is nothing sent while the user interface knows of a transmission? | **no**: a second message turns its state from TRANSMITTING to QUEUED, and the message on the air is sent again |
| `msg_assembly` (266,112 states) | is a message shown, and a relayed text passed on, under the right sender, and no frame used twice? is what is received whole handed over whole? | yes, for stations further apart than the tolerance |
| `engine_lifecycle` (1,067,985 states) | is anything used after its end, whoever starts and stops the output meanwhile? is there one capture, whatever old posts arrive? is a worker awake while something is queued for it? has everybody whom a stop of the engine waits for been told to end, and is awake? | nothing but an output whose flag a refused start cleared (`quiet`); yes; yes; yes, except that the scheduler may miss its wake-up (`LostWakeUp`), that the output is joined while it waits for the mutex (`JoinStuck`), or that the process was ended by a thread assigned before its join |
| `rig_control` (958,052 states) | is a rig nobody controls left keyed? does the window show the rig once all is quiet? does split keep the transmit frequency? does audio start only into a keyed rig? | yes, unless the rig refused a release, or its dial was turned (split), or the newest transceiver is offline (audio) |
| `rig_silent_carrier` | does a keyed transmission get its audio? | **no**: keyed again while the answer to the release is under way, that answer is dropped and no rise of PTT is seen |
| `tx_loop` (505,808 states) | one loop at a time, with a wake-up in reach? triggers on slots, one period apart? | yes, except that the first trigger after a start under a drift is off its slot |

Reachable in the models, without a run of their own. Seven are stated by definitions
that are kept in the modules and that TLC refutes when they are added to a
configuration:

- `QuietRequestAccepted` (`TxEngine`): two callers in `start_tx_output` at once find
  `tx_output_started_` false, the second start of the pump is refused, and its result
  clears the flag over a running output (`engine.cpp` 735-752). Every later transmission is
  refused, and no later stop stops that output.
- `OutputStoppedFirst` (`EngineLifecycle`) follows that to the end of the engine:
  `stop_transmit` stops the output only if the flag is set (`engine.cpp` 326), so the two calls
  of `JS8Engine.stop` and `js8_engine_destroy` stop nothing, the engine is reset
  (`js8_engine_jni.cpp` 619) and the pump calls `fill_` (177) into it until the destructor of the
  output. The comment at 614-615 says "Stop engine first". `NothingDangles` excepts this output.
- `EveryStopReleasesPtt` (`PttControl`), with a radio that obeys and a link that lasts:
  `ACTION_STOP` calls `stopEngine` and `stopSelf` (282-283), `onTaskRemoved` does the same (342-343),
  and `onDestroy` calls `stopEngine` again (336). The first call gives the rig to a teardown it posts
  on Js8Tx (1554); if a command keeps that thread, the second call removes the teardown (1503) and
  posts one that finds no radio (1522): PTT stays on, although the comment at 1510-1512 says
  that the rig's teardown belongs on that handler. `StopReleasesPtt` says that nothing else keeps it on.
- `OneTerminalReport` (`PttControl`): `startTxMonitor` on Js8Tx removes and posts the
  monitor while the main looper runs it and posts it again (2716, 210-216): two chains,
  and each reports FINISHED for the same message.
- `FinishedMeansSent` (`PttControl`): `failTransmitForPtt` decides for its generation
  under the lock and stops the engine after it (2873, 2878); a message submitted
  in between is cut and reported as FINISHED.
- `AudioIntoKeyed` (`RigControl`) without `rig.refused`, with two troubles on `rig_control`:
  a poll fails, and the release in `shutdown` takes effect but throws, so `actual_.ptt` and
  `requested_.ptt` stay true in an object that is offline (`TransceiverBase.cpp` 142-167); a `set`
  still in its queue brings it online again, finds PTT already requested and does not key
  (55-70, 111-121), and its update, queued before the failure closed the rig, starts audio into a
  rig that is not keyed. The property therefore excepts a refused release.
- `OnSlot` (`TxLoop`): `onTxLoopPeriodChangeStart` takes the system clock for the drifting
  one (`TxLoop.cpp` 160, 167), so the first trigger after it is off by the drift.

Without a property because nothing in the repository promises otherwise: `FINISHED` takes the head off a queue whose head need not be
the message that was sent (a heartbeat's `FINISHED` takes one too); a stop of the
engine in the middle of a transmission, and a `FINISHED` that arrives while the
activity is not on the screen, leave the user interface in TRANSMITTING, where it
sends nothing more; a submode that was switched off and on again hands over
windows up to the length of the ring (`legacy_decoder.cpp` 2432 asserts one
cycle), which `WindowFits` exempts and the application, which never switches
submodes, does not meet. The checksum of a MSG is
cut off and not looked at, so a message with a lost frame in the middle, or with the
data frames of a plain text that follows a broken message on the same frequency, is
delivered and acknowledged as if it were complete
(`JS8EngineService.kt` 3047-3066; a relayed text without a valid checksum is
dropped unless its command frame carried text); and two stations nearer than the tolerance
have their frames mixed. `RightSender` and `WholeIsHandedOver` speak about
stations that keep apart (`Alone`), and the second about what was received whole.
A call of an engine that Js8Tx read from the field before it was closed throws
where nothing catches (`JS8Engine.kt` 272). On the desktop, the cache of
`Configuration` takes every update, also one whose number is old, so a frequency the
user has just chosen may be taken back by the next command; a dial turned while
nothing was commanded is not corrected when the rig is keyed; `pttReleaseTimer` of an
ended transmission may release the one that follows (`mainwindow.cpp` 4986); and with
`hold_ptt`, which is not modelled, every update that is passed on starts the audio.

**Bounds.** `tx_engine`: two callers (the service has two threads that transmit:
main and Js8Tx), two requests, messages of one or two frames (one is the last
frame, two has one to follow), slots two or three units away on both sides of
`Lead`, frames of two units. A stop is not bounded. `ptt_control`: one message
and one heartbeat give two generations, so a stale command, completion or
monitor of the first meets the second; messages of one frame; one retry is the code's constant.
`ptt_stop`: two messages of two frames, a heartbeat and two stops, which is what a service makes in its life.
`MaxReplies` bounds how many replies wait while the
monitor overtakes them. `decode_schedule`: submodes with three
and with two cycles in the ring (a window of the old phase survives an alignment
only with three), whose windows end in the middle, at the end and at the wrap;
buffers of one sample meet each position, and the first position is free;
two changes of the enabled set (off and on again); two threads set the drift
once each, or one of them twice. Larger buffers are left to the proofs, which
hold for all of them. `tx_queue`: a
message of the user and an answer of higher priority that overtakes it, frames
one or two, two of the events that need not happen (heartbeat, failure, stop,
switch of the audio device, leaving the screen) in any combination, two waiting
broadcasts (a step that makes two may exceed it). `tx_queue_idle` needs two
messages of the user and nothing else. `msg_assembly`: two stations, one of
which drifts by 4 Hz (decoded within the tolerance of either buffer), the other
just out of reach of the wider one; two transmissions, of one station or of both at once, of
up to three data frames, so that one takes longer than the 60 s without being
given up; two lost frames, so the end of one transmission and the beginning of
the next may both be missing. Three transmissions with two data frames and
one loss (2,289,389 states) hold too. `engine_lifecycle`: two engines, so that
posts, calls and captures of the first meet the second; one change of device or
restart of a silent capture, which is what is needed for a stale post; transmissions and stops
by either caller are not bounded. `rig_control`:
two frequencies and one transmit frequency, so the transmit frequency is not moved while
the rig is keyed; two objects (an old one that still runs
beside the new one); one command, one transmission and one trouble, a refused CAT
command or a turned dial, at any place; two polls to stabilize (three in the
code: more only withhold longer); two waiting signals. `rig_silent_carrier` needs two
transmissions and nothing else. `tx_loop`: slots of 3 and 6, periods of 6 and 12, a
drift inside a slot, one back and one longer than a period, timers one unit late at most, a
clock that runs for one and a half of the longer periods after the start. In `tx_engine`, `ptt_*`,
`tx_queue*`, `engine_lifecycle`, `rig_*` and `tx_loop` deadlock is not checked:
once the bounded requests or the time are used up nothing is left to do.

**Fairness.** Weak fairness of each caller and of the pump: threads are
scheduled. In `PttControl` weak fairness of what a thread does inside one message
and of Js8Tx, strong fairness of the monitor and the replies, because the looper
serves its queue in order and a posted message is not overtaken for ever; strong
fairness of the engine's progress, which is the pump pulling samples: a frame
keeps its place while the gate is closed, so it ends also when PTT is lost and
gained again and again. In `TxQueue` weak fairness of both threads, of the
playing of a session and of the end of a started audio capture (it starts, or
fails within the bound of events). In
`DecodeSchedule` weak fairness of the capture thread (audio keeps arriving) and
of the end of `set_time_drift_ms`. `EngineLifecycle` and `RigControl` ask questions of safety
only and state no fairness: `StopNeverStuck` says of each thread that the main looper joins that it
has been told to end, is not asleep and does not wait for the main looper, so that a few steps of
its own end it. The user, heartbeats, stops, link losses and
failures are not fair.

## 4. Proofs

`TxEngineProofs`, for all callers, message lengths, slots and bounds, from
`TxEngineAssumption` only:

- `TypeCorrect`: `Spec => []TypeOK`, inductive by itself.
- `IdleIsAlwaysClean`: `Spec => []IdleIsClean`, inductive over `TypeOK`.
- `InductiveInvariant`: `Spec => []IInv`. `AcceptedHasOutput` and
  `FlagImpliesOutput` are not inductive: between the three unlocked steps of
  `start_tx_output` the flag, the running output and the pump thread disagree.
  `IInv` adds the handshake: who holds the lock is between `halt` and `join`,
  only the one who joins has a halted output, a caller about to record success
  leaves a running output behind, and so on. TLC checked it before the proof.
- `AcceptedAlwaysHasOutput`, `FlagAlwaysBacked` follow from it.
- `EngineImplementsSession`: `Spec => ImplementsSession`, by showing that the
  initial state maps to `SessionInit` and each action of the engine to an action
  of the session or to a stutter (`SessionStep`).
- `FramesInOrder`: `Spec => FrameOrder`, an action property, from the invariant `Ordered`: what waits
  in `tx_queue_` continues the frame on the air, one index after the other
  (`QueueContinues`), and in a session the modulator rests only at the end of a frame
  (`RestsWhenSent`), so that `start_next_frame_locked`, which the pump calls when the modulator is idle, never
  cuts a frame short.

`PttControlProofs`, for any number of messages, heartbeats, replies, stops, link changes and
refusals, from the assumption on the bounds only:

- `Invariance`: `Spec => []IInv`, a conjunction of named parts, with one lemma per action and in
  it one step per part. None of the properties is inductive. `CommandsCounted` says that
  `rigPttCommandPending` is set while a command is posted, running or about to repeat; it needs
  `StopPhases` (where `stopEngine` is and what it has cleared), because only `stopEngine` takes
  posts away. `GateKept` says who may have the gate open and what is about to close it,
  `LinkFirst` that a command is posted only for a radio that was linked; `Generations` and
  `Budget` bound what the threads carry along by the counters; `FailureGoesOn`, `Completions` and
  `ReleaseComes` follow a failure, a completion and a release over both threads.
- `TypeCorrect`, `OneCommandAtATime`, `NoAudioWithoutPtt` follow from it. `FailureReleases`
  is proved over the invariant (`FailedReleasesKept`), `FinishedOnlyWhenReleased` is an action
  property: each step that says FINISHED is looked at in its own case.
- `StopsReleasePtt`: `~RigMayFail /\ ~LinkMayDrop => (Spec => []StopReleasesPtt)`, for any
  number of stops. Its hypotheses are the configuration of `ptt_stop`: a radio that refuses, or
  whose link is gone, cannot be released. `ReleaseComes` says that from the moment the first
  stop has posted its teardown, a radio that is keyed, or that the command under way may key,
  has a release waiting, or a later stop has removed it (`dropped`): the one way to leave it
  keyed, which `EveryStopReleasesPtt` denies and TLC finds (section 3).

`TxQueueProofs`, for any finite set of messages, priorities, frames and events, from
`QueueAssumption` only:

- `MostUrgentFirst`: `Spec => []Sorted`, which is also why `Inserted`, the position behind those as
  urgent, is what `sortByDescending` makes of a queue with one new message at its end.
- `NoMessageIsForgotten`: `Spec => []NothingForgotten`. What is under way may be a broadcast
  that changes the state and says nothing more: `Parts` adds that
  while the user interface transmits the end is still to be broadcast (`EndComes`), that a QUEUED which waits is
  followed by something else (`QueuedIsFollowed`), `RunsUntilStopped` that a session belongs to a running
  engine, `AudioHasFrames` that it goes on, and `Distinct` that a message waits in one place.
  The steps are sorted by what they broadcast for what they take away (`OneSignalSaid`, `NoSignalSaid`,
  `Excused`); only `Deliver` has a proof of its own.
- `TypeCorrect` bounds the queue by the number of messages, which needs `Distinct`.

`DecodeScheduleProofs`, for every ring, set of submodes, periods, buffer sizes,
drifts and threads, from `ScheduleAssumption` only:

- Lemmas of arithmetic first: the cycle found by the two divisions of
  `isDecodeReady` contains the position (`CycleByDivision`, `CycleStart`), a cycle
  that begins before the end of the ring ends in it (`NextOnGrid`), a buffer moves
  the position over the end of the ring at most once (`Advanced`).
- `InductiveInvariant`: `Spec => []IInv`. None of the properties is inductive. For
  each submode `IInv` says that its window begins on the grid and the next one
  follows (`OnCycle`), that it is not complete while the one before it is, at the
  position at which the schedule was last looked at (`Pending`), and that it
  follows the previous window, with enough audio captured since the alignment
  (`Follows`). In the middle of a call the schedules already seen are at the new
  position and the others at the old one (`SeenAt`, `Reached`). The key lemma is
  `ResetAtWrap`: a schedule with a previous window is reset only when the ring
  wraps, and then its window is at the very end of the ring. TLC checked `IInv`
  on the instance of `decode_schedule`, and with larger buffers, before it was proved.
- `TypeCorrect`, `WindowsAlwaysFit`, `NothingEverWaits`, `EachCycleExactlyOnce`,
  `WindowsAlwaysWhole` follow from it.
- `DriftAlwaysSettles`: `Spec => []DriftSettled`, from an invariant of its own.

`MsgAssemblyProofs`, for any stations, frequencies, tolerances, time-outs, lengths,
transmissions and losses, from `AssemblyAssumption` only:

- Both handlers keep their map alike, so `Good(buffers, texts, tolerance, past, own)` says of one map
  what holds: its types and one buffer per key; each frame in a buffer or text was on the air
  (`Past`) and, if the sender it names is alone, is that sender's (`Own`); the buffer of
  such a station has one of its frequencies as key; no frame is in two places. Each operation
  on the map keeps `Good`, shown once for any tolerance: what is cleaned, closed or only grows
  older is some of what there was (`SomeAreGood`), what is opened or continued has one buffer changed by one
  frame that is new (`ChangedIsGood`), and what is completed moves to the texts (`CompletedIsGood`).
  `NearIsOwn` is where distance matters: a frame found near the key of a station that is alone is its own.
- `MsgKeepsGood` and `RelayKeepsGood` put the operations together as the two functions do; `PastGrows`
  shows that the frame on the air was never there before. `IInv` is `Good` for both handlers, with the
  types of the stations.
- `TypeCorrect`, `ShowsTheSender`, `NoFrameTwice` follow from it.
- `WholeIsHandedOn`: `Spec => WholeIsHandedOver`, an action property, from the stronger invariant `WholeInv`. It adds
  `Kept`, for each handler and each station that is alone: there is one buffer at most at its
  frequencies (`Sole`), and in the middle of a transmission of which nothing was lost
  (`Midway`), that buffer names the station, holds what it has sent so far (`SoFar`) and is a cycle old at most
  (`Holding`). A command frame keeps `Sole` because it takes the place of the buffer it finds
  (`OpenedIsSole`); frames of others touch another buffer (`HandledElsewhere`); the clean-up leaves it (`FreshIsKept`)
  because a time-out is a cycle or more, which the assumption on the constants says: 60 and 90 s
  against 30 s for the longest cycle. Stations that are no more than a tolerance apart are outside the
  property, as the handlers cannot tell them apart. TLC checked `WholeInv` on the instance of
  `msg_assembly` before it was proved.

`EngineLifecycleProofs`, for any number of engines, changes of the device and restarts of
the capture, from `EngineLifecycleAssumption` only:

- `InductiveInvariant`: `Spec => []IInv`, of two halves. `LifeInv` says stage by stage of the
  main looper what an engine still has (`Staged`: its handle up to `close`, a worker up to its
  join, the handler while a worker may be there, nothing once it has left the field), that
  Js8Tx is in a call only in the engine of the field while it is open (`Called`), that there is one capture
  thread at most, which feeds that engine and is joined before the end begins (`Captured`), and that a
  post waiting for SCO stands for a capture that is not there (`Posted`). `EndMoves`
  carries what all steps of the end have in common, `ThreadMoves` what all steps of the other
  threads have.
- `OutputInv` is the other half: which calls there are at each stage (`Calling`: at most
  the main looper's own once the engine is closed); that a running output has its flag set,
  or a caller about to set it, or lost it to a refused start (`quiet`), and that who holds the mutex has
  halted the output and joins it (`Held`); and that after the second stop a thread is left
  only if it is `quiet`, and none after the output's destructor (`Late`). It needs both halves: that
  no caller starts the output again after the second stop follows from the lock of `close`. TLC checked
  both before they were proved.
- `TypeCorrect`, `NothingEverDangles`, `OnlyOneCapture` follow from it.
- `StopInvariant`: `Spec => []StopInv`, over the first. A worker is awake while something is queued
  and once it was told to stop; it is told before it is joined and not before the last capture
  was joined, so that nothing is queued for it afterwards (`Alert`, `Due`); the capture that is joined
  records no more (`Told`), the scheduler that is joined does not run (`Shut`). TLC checked it before the proof.
  `WorkersStayAwake` follows from it, and with the handshake of the mutex in `OutputInv`
  `StoppingNeverSticks`.

`RigControlProofs`, for any frequencies, objects, commands, transmissions, polls and CAT
commands refused before or after they took effect, from `RigControlAssumption` only:

- The code of a slot is followed command by command: each function of a context keeps
  its type and `Calm` (a keyed rig is held by the object of the slot or by another one, or
  has refused its release). `ShutdownSound` is the key lemma: it needs that no exception is
  under way when `shutdown` is called, or the release would be skipped, which holds because
  each handler clears the exception first. `Controlled` carries through `set` that an
  object which is not online has thrown, so that nothing after a failed `startup` keys.
- The functions of the window keep `GuiSound` (calls go to objects there are, with numbers
  there were) and take no object offline (`Follows`).
- `InductiveInvariant`: `Spec => []IInv`, the types of the state and of both queues, and
  `NobodyKeyed`; `TypeCorrect` and `NobodyLeftKeyed` follow from it.
- `CallsInOrder`: `Spec => []OrderInv`, the second invariant. What a slot does to the rig depends on
  which slots ran before it, so `OrderInv` begins with the queue of calls (`Queued`):
  ordered by object and by number, every object given up has its `stop` behind all its
  other calls, a `start` is the first call of an object, and the object in use is the next one
  called. So one object at most is not as it was made, and the rig obeys
  that one. Of it `OrderInv` says that it does not take PTT for set when it is not (`Honest`) and
  that its requests are what the rig does (`Tracked`); of the rig, that it transmits on the
  transmit frequency (`Tuned`); of the updates, that none answers a call that still waits (`Heard`)
  and that one which answers the last command tells of PTT only if the rig is keyed
  (`Confirmed`); and unless a failure is on its way, that an object that waits for nothing has told its
  state, and that the last update, or the window if there is none, tells that (`Answered`).
- A slot and a poll are followed once more for it, command by command (`Fair`, `Steady`, `Told`);
  `CallOutcome` and `PollOutcome` put together what a call and a poll end with. The functions of
  the window keep `Queued` (`GuiQueued`), and what they append only makes the rest weaker (`Grows`).
- `SplitIsKept`, `RigIsShown` and `AudioIsKeyed` follow from it. TLC checked the parts of
  `OrderInv` on the instance of `rig_control` before it was proved; the weaker form of
  `AudioIntoKeyed` above was found then.

`TxLoopProofs`, for every submode, slot, period, delay, drift (also longer than a
period, also negative) and lateness below a period, from `TxLoopAssumption` only:

- `InductiveInvariant`: `Spec => []IInv`. Of an active loop `IInv` says that its
  activity is at a slot and one period after the previous one (`Scheduled`), and that
  its timer belongs to that activity by the drifting clock or, if skewed, by the system
  clock, and is not missed (`Aimed`). A timer expires less than a period late, so an unskewed loop never catches up; `Plans` shows it and, for a skewed one,
  that what it catches up to is at a slot and ahead by a period at most. A drift is told to
  the loops one after the other: in between, the one not told yet is aimed by the old drift,
  so `DriftAims` speaks of one loop and `DriftSound` joins the two. TLC checked `IInv`
  on the instance of `tx_loop` before it was proved.
- `TypeCorrect`, `OneLoopWakes`, `TriggersOnSlot`, `TriggersEveryPeriod` follow from it.

`IdleIsClean`, `FlagImpliesOutput` and `NothingWaits` are proved and no longer
checked by a run of their own; they hold on the instances too.

Only model-checked: the liveness properties `EndIsReported`, `PttReleased`, `SessionsEnd`,
`QueueDrains` and `DecodedAgain`, which are out of the prover's reach. Every other property of a passing run is proved.

## 5. Plan

Every safety and action property that a run checks is proved; what is left is what is not modelled yet, each with its
proof after its run.

Modules, in this order: `ServiceStart` (start generation, late workers, restart, a radio
variable beside the service's belief), `TimeSync` (heartbeat), `TruSdxSession` (parser
and PTT), an Oboe output under `TxEngine`, serial bridges, PSK Reporter's batch queue,
the settings of the desktop program (a second connected transceiver after a change of
calibration, `Configuration.cpp` 3482).

## 6. Not modelled

Signal processing, varicode tables, widgets, settings, plain I/O and vendored
code stay out: they have no control state for a model checker to explore.
