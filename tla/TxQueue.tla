------------------------------- MODULE TxQueue -------------------------------
(***************************************************************************)
(* The transmit queue of the user interface (TransmitViewModel,            *)
(* MainActivity) over the service that sends its messages.                 *)
(*                                                                         *)
(* The user interface sends the head of its queue as an intent, the        *)
(* service hands it to the engine on Js8Tx, the monitor on the main looper *)
(* watches the session and broadcasts its state, and the user interface    *)
(* reacts to the broadcast.  Broadcasts are executed in order on the main  *)
(* looper, later than they are made.                                       *)
(*                                                                         *)
(* Of the engine the two getters of TxSession are kept that the monitor    *)
(* turns into states: is there a session, is there audio.  Of the PTT      *)
(* control its result: a session may fail, its release takes a while and   *)
(* may fail.  A run of the monitor is one step, and there is one chain of  *)
(* it.  The station has a callsign.                                        *)
(***************************************************************************)
EXTENDS Naturals, Sequences, FiniteSets

CONSTANTS
  Messages,      \* what is to be sent
  Replies,       \* those of them that the service asks for
  Priority,      \* priority of each message
  MaxFrames,     \* bound: frames of a message
  MaxEvents,     \* bound: own messages, failures, stops, device changes, leaves
  MaxPending     \* bound: broadcasts that wait while others are made

States == {"QUEUED", "STARTED", "FINISHED", "FAILED"}
Signals == States \union {"PROCESS", "RUNNING"}

\* Finitely many messages, none of which is taken for anything else.
ASSUME QueueAssumption ==
  /\ IsFiniteSet(Messages) /\ Replies \subseteq Messages
  /\ Messages \intersect (Signals \union {"own", "none"}) = {}
  /\ Priority \in [Messages -> Nat]
  /\ MaxFrames \in Nat \ {0} /\ MaxEvents \in Nat /\ MaxPending \in Nat \ {0}

VARIABLES
  \* TransmitViewModel
  queue,      \* txQueue
  txState,    \* _txState
  \* LocalBroadcastManager
  inbox,      \* broadcasts that wait for the main looper
  foreground, \* the receivers of MainActivity are registered
  \* JS8EngineService
  running,    \* engine is not null
  starting,   \* the audio capture is being started
  tasks,      \* intents to transmit, up to handleTransmitMessage on Js8Tx
  pc,         \* what the two threads are doing
  monitor,    \* txMonitorActive, with the posted txMonitorRunnable
  wasAudio,   \* txMonitorWasAudioActive
  seen,       \* txSessionActive
  releasing,  \* the release of PTT that will report this transmission
  \* Js8EngineImpl
  session,    \* what is being sent
  frames,     \* frames still to be sent
  audio,      \* is_transmitting_audio
  offered,    \* messages that were queued
  events,     \* the other events so far
  stopped,    \* the engine was stopped
  lost        \* not in the code: a broadcast had no receiver, or was not made

uiVars      == <<queue, txState>>
serviceVars == <<running, starting, monitor, wasAudio, seen, releasing>>
engineVars  == <<session, frames, audio>>
boundVars   == <<offered, events, stopped>>
busVars     == <<inbox, lost>>
vars == <<uiVars, busVars, foreground, serviceVars, tasks, pc, engineVars, boundVars>>

None == "none"    \* no session
Own == "own"      \* a heartbeat or a relayed message
Main == "main"
Js8Tx == "js8tx"

Broadcasts == Signals \union Replies

\* Each message waits at most once.
TypeOK ==
  /\ queue \in Seq(Messages) /\ Len(queue) <= Cardinality(Messages)
  /\ txState \in {"IDLE", "QUEUED", "TRANSMITTING"}
  /\ inbox \in Seq(Broadcasts) /\ foreground \in BOOLEAN
  /\ running \in BOOLEAN /\ starting \in BOOLEAN
  /\ tasks \in Seq(Messages)
  /\ pc \in [{Main, Js8Tx} -> {"idle", "announce", "monitor"}]
  /\ monitor \in BOOLEAN /\ wasAudio \in BOOLEAN /\ seen \in BOOLEAN
  /\ releasing \in BOOLEAN
  /\ session \in Messages \union {Own, None}
  /\ frames \in 0 .. MaxFrames /\ audio \in BOOLEAN
  /\ offered \subseteq Messages
  /\ events \in 0 .. MaxEvents /\ stopped \in BOOLEAN
  /\ lost \in BOOLEAN

\* The activity is on the screen, the engine runs, nothing was sent yet.
Init ==
  /\ queue = <<>> /\ txState = "IDLE"
  /\ inbox = <<>> /\ foreground = TRUE
  /\ running = TRUE /\ starting = FALSE
  /\ tasks = <<>>
  /\ pc = [t \in {Main, Js8Tx} |-> "idle"]
  /\ monitor = FALSE /\ wasAudio = FALSE /\ seen = FALSE /\ releasing = FALSE
  /\ session = None /\ frames = 0 /\ audio = FALSE
  /\ offered = {} /\ events = 0 /\ stopped = FALSE
  /\ lost = FALSE

\* LocalBroadcastManager.sendBroadcast: without a receiver it does nothing.
Broadcast(items) ==
  \/ foreground /\ inbox' = inbox \o items /\ UNCHANGED lost
  \/ ~foreground /\ lost' = TRUE /\ UNCHANGED inbox

\* The main looper is not yet busy with more broadcasts than the bound.
CanBroadcast == Len(inbox) < MaxPending

\* One of the events that may happen MaxEvents times.
Event == events < MaxEvents /\ events' = events + 1

Goto(t, label) == pc' = [pc EXCEPT ![t] = label]

-----------------------------------------------------------------------------
(* TransmitViewModel and MainActivity, on the main looper.                 *)

\* add and sortByDescending, which is stable: the new message goes behind those
\* that are at least as urgent, the first of a queue that is sorted already.
Inserted(m) ==
  LET n == Cardinality({i \in DOMAIN queue : Priority[queue[i]] >= Priority[m]})
  IN  SubSeq(queue, 1, n) \o <<m>> \o SubSeq(queue, n + 1, Len(queue))

\* queueMessage.
QueueMessage(m) ==
  /\ queue' = Inserted(m)
  /\ txState' = "QUEUED"

\* processNextTxIfIdle, on what the handler has left of queue and state.
ProcessNextTxIfIdle ==
  tasks' = IF txState' # "TRANSMITTING" /\ queue' # <<>>
             THEN Append(tasks, Head(queue')) ELSE tasks

\* The user queues a message: queueMessage and ACTION_PROCESS_TX_QUEUE.
UserQueues(m) ==
  /\ CanBroadcast
  /\ pc[Main] = "idle" /\ foreground
  /\ m \in Messages \ (Replies \union offered)
  /\ offered' = offered \union {m}
  /\ QueueMessage(m)
  /\ Broadcast(<<"PROCESS">>)
  /\ UNCHANGED <<foreground, serviceVars, tasks, pc, engineVars, events, stopped>>

\* broadcastQueueTx: an automatic answer to a received message.
ServiceQueues(m) ==
  /\ CanBroadcast
  /\ running
  /\ m \in Replies \ offered
  /\ offered' = offered \union {m}
  /\ Broadcast(<<m>>)
  /\ UNCHANGED <<uiVars, foreground, serviceVars, tasks, pc, engineVars, events, stopped>>

StateOf(waiting) == IF waiting = <<>> THEN "IDLE" ELSE "QUEUED"

KeepsHead == UNCHANGED queue  \* mutation: the finished message stays

RemovesHead == queue' = IF queue = <<>> THEN queue ELSE Tail(queue)

\* mutation: the failed message is queued once more
RequeuesHead == queue' = IF queue = <<>> THEN queue ELSE Append(queue, Head(queue))

RetriesHead == UNCHANGED queue

\* transmissionComplete and transmissionFailed; then the next item.
TransmissionEnds(item) ==
  /\ item \in {"FINISHED", "FAILED"}
  /\ IF item = "FINISHED" THEN RemovesHead ELSE RetriesHead
  /\ txState' = StateOf(queue')
  /\ ProcessNextTxIfIdle

\* The receivers of MainActivity.
Receive(item) ==
  \/ TransmissionEnds(item)
  \/ item = "QUEUED" /\ txState' = "QUEUED" /\ UNCHANGED <<queue, tasks>>
  \/ item = "STARTED" /\ txState' = "TRANSMITTING" /\ UNCHANGED <<queue, tasks>>
  \/ item \in {"PROCESS", "RUNNING"} /\ UNCHANGED <<queue, txState>> /\ ProcessNextTxIfIdle
  \/ item \in Replies /\ QueueMessage(item) /\ ProcessNextTxIfIdle

Deliver ==
  /\ pc[Main] = "idle" /\ inbox # <<>>
  /\ inbox' = Tail(inbox) /\ UNCHANGED lost
  /\ Receive(Head(inbox))
  /\ UNCHANGED <<foreground, serviceVars, pc, engineVars, boundVars>>

\* onStop unregisters the receivers, with the broadcasts that wait for them.
Leave ==
  /\ pc[Main] = "idle" /\ foreground /\ Event
  /\ foreground' = FALSE /\ inbox' = <<>>
  /\ lost' = (lost \/ inbox # <<>>)
  /\ UNCHANGED <<uiVars, serviceVars, tasks, pc, engineVars, offered, stopped>>

\* onStart, after the view model has survived.
Return ==
  /\ pc[Main] = "idle" /\ ~foreground
  /\ foreground' = TRUE
  /\ UNCHANGED <<uiVars, busVars, serviceVars, tasks, pc, engineVars, boundVars>>

-----------------------------------------------------------------------------
(* JS8EngineService: a message on Js8Tx, automatic traffic on the main     *)
(* looper.                                                                 *)

\* The engine takes a message, in place of whatever it was sending.
Replaces(m) ==
  /\ session' = m
  /\ frames' \in 1 .. MaxFrames
  /\ audio' = FALSE

\* What the engine may leave behind when it refuses one.
Refuses ==
  /\ Event
  /\ \/ UNCHANGED engineVars
     \/ session' = None /\ frames' = 0 /\ audio' = FALSE

NextTask == pc[Js8Tx] = "idle" /\ tasks # <<>> /\ tasks' = Tail(tasks)

\* handleTransmitMessage; without an engine it only complains.
HandleTransmitMessage ==
  /\ CanBroadcast
  /\ NextTask
  /\ \/ /\ ~running
        /\ UNCHANGED <<pc, engineVars, busVars, events>>
     \/ /\ running
        /\ Replaces(Head(tasks))
        /\ Goto(Js8Tx, "announce")
        /\ UNCHANGED <<busVars, events>>
     \/ /\ running
        /\ Refuses
        /\ Broadcast(<<"FAILED">>)
        /\ UNCHANGED pc
  /\ UNCHANGED <<uiVars, foreground, serviceVars, offered, stopped>>

\* sendHeartbeat and sendRelayMessage: isTransmitActive is what the monitor
\* last saw.  Of a refusal nobody is told.
SendOwn ==
  /\ CanBroadcast
  /\ pc[Main] = "idle" /\ running /\ ~seen /\ Event
  /\ \/ Replaces(Own) /\ Goto(Main, "announce")
     \/ Refuses /\ UNCHANGED pc
  /\ UNCHANGED <<uiVars, busVars, foreground, serviceVars, tasks, offered, stopped>>

Announce(t) ==
  /\ pc[t] = "announce"
  /\ Broadcast(<<"QUEUED">>)
  /\ Goto(t, "monitor")
  /\ UNCHANGED <<uiVars, foreground, serviceVars, tasks, engineVars, boundVars>>

\* startTxMonitor: a new generation, for which nobody waits for a release.
StartTxMonitor(t) ==
  /\ pc[t] = "monitor"
  /\ monitor' = TRUE /\ wasAudio' = FALSE /\ releasing' = FALSE
  /\ Goto(t, "idle")
  /\ UNCHANGED <<uiVars, busVars, foreground, running, starting, seen, tasks, engineVars,
                 boundVars>>

-----------------------------------------------------------------------------
(* txMonitorRunnable and the PTT control behind it, on the main looper.    *)

MonitorRuns ==
  /\ CanBroadcast
  /\ pc[Main] = "idle" /\ monitor
  /\ UNCHANGED <<uiVars, foreground, running, starting, tasks, pc, boundVars>>

MonitorWithoutEngine ==
  /\ MonitorRuns
  /\ ~running
  /\ monitor' = FALSE
  /\ UNCHANGED <<busVars, wasAudio, seen, releasing, engineVars>>

MonitorAfterSession ==
  /\ MonitorRuns
  /\ running /\ session = None
  /\ monitor' = FALSE /\ wasAudio' = FALSE /\ seen' = FALSE
  /\ releasing' = TRUE
  /\ UNCHANGED <<busVars, engineVars>>

MonitorDuringSession ==
  /\ MonitorRuns
  /\ running /\ session # None
  /\ seen' = TRUE /\ wasAudio' = audio
  /\ \/ audio /\ ~wasAudio /\ Broadcast(<<"STARTED">>)
     \/ ~audio /\ wasAudio /\ Broadcast(<<"QUEUED">>)
     \/ audio = wasAudio /\ ~seen /\ UNCHANGED busVars
  /\ UNCHANGED <<monitor, releasing, engineVars>>

ReportsNothing == UNCHANGED busVars  \* mutation: a failed transmission is not reported

ReportsFailure == Broadcast(<<"FAILED">>)

\* failTransmitForPtt: no PTT, or no link to the radio.
FailTransmit ==
  /\ CanBroadcast
  /\ pc[Main] = "idle" /\ monitor /\ running /\ session # None /\ Event
  /\ monitor' = FALSE /\ wasAudio' = FALSE /\ seen' = FALSE /\ releasing' = FALSE
  /\ session' = None /\ frames' = 0 /\ audio' = FALSE
  /\ ReportsFailure
  /\ UNCHANGED <<uiVars, foreground, running, starting, tasks, pc, offered, stopped>>

\* The completion of the release after a session.
ReportEnd ==
  /\ CanBroadcast
  /\ pc[Main] = "idle" /\ releasing
  /\ releasing' = FALSE
  /\ \/ Broadcast(<<"FINISHED">>) /\ UNCHANGED events
     \/ Event /\ ReportsFailure
  /\ UNCHANGED <<uiVars, foreground, running, starting, monitor, wasAudio, seen, tasks, pc,
                 engineVars, offered, stopped>>

-----------------------------------------------------------------------------
(* The engine plays the session, frame by frame.                           *)

AudioBegins ==
  /\ session # None /\ ~audio /\ frames > 0
  /\ audio' = TRUE
  /\ UNCHANGED <<session, frames>>

FrameEnds ==
  /\ audio
  /\ audio' = FALSE /\ frames' = frames - 1
  /\ UNCHANGED session

SessionEnds ==
  /\ session # None /\ ~audio /\ frames = 0
  /\ session' = None
  /\ UNCHANGED <<frames, audio>>

EngineProgress ==
  /\ AudioBegins \/ FrameEnds \/ SessionEnds
  /\ UNCHANGED <<uiVars, busVars, foreground, serviceVars, tasks, pc, boundVars>>

-----------------------------------------------------------------------------
(* Start and stop of the engine.                                           *)

\* stopEngine removes what waits on Js8Tx; an intent that has not got there
\* is handled later.
StopEngine ==
  /\ pc[Main] = "idle" /\ running /\ Event
  /\ stopped' = TRUE
  /\ running' = FALSE /\ starting' = FALSE
  /\ monitor' = FALSE /\ releasing' = FALSE
  /\ session' = None /\ frames' = 0 /\ audio' = FALSE
  /\ \E removed \in 0 .. Len(tasks) : tasks' = SubSeq(tasks, removed + 1, Len(tasks))
  /\ UNCHANGED <<uiVars, busVars, foreground, wasAudio, seen, pc, offered>>

\* startEngine; a new instance of the service begins with new fields.
StartEngine ==
  /\ pc[Main] = "idle" /\ ~running
  /\ running' = TRUE /\ starting' = TRUE
  /\ seen' \in {seen, FALSE} /\ wasAudio' \in {wasAudio, FALSE}
  /\ UNCHANGED <<uiVars, busVars, foreground, monitor, releasing, tasks, pc, engineVars,
                 boundVars>>

\* The audio capture runs: STATE_RUNNING and broadcastProcessTxQueue.
AudioRuns ==
  /\ CanBroadcast
  /\ pc[Main] = "idle" /\ starting
  /\ starting' = FALSE
  /\ Broadcast(<<"RUNNING", "PROCESS">>)
  /\ UNCHANGED <<uiVars, foreground, running, monitor, wasAudio, seen, releasing, tasks, pc,
                 engineVars, boundVars>>

\* It does not: an error is shown, and the queue is not processed.
AudioFails ==
  /\ pc[Main] = "idle" /\ starting /\ Event
  /\ starting' = FALSE /\ lost' = TRUE
  /\ UNCHANGED <<uiVars, inbox, foreground, running, monitor, wasAudio, seen, releasing, tasks,
                 pc, engineVars, offered, stopped>>

\* Another audio device is chosen while the engine runs.
SwitchAudioDevice ==
  /\ pc[Main] = "idle" /\ running /\ ~starting /\ Event
  /\ starting' = TRUE
  /\ UNCHANGED <<uiVars, busVars, foreground, running, monitor, wasAudio, seen, releasing,
                 tasks, pc, engineVars, offered, stopped>>

-----------------------------------------------------------------------------
Monitor == MonitorWithoutEngine \/ MonitorAfterSession \/ MonitorDuringSession

SendStep == \E t \in {Main, Js8Tx} : Announce(t) \/ StartTxMonitor(t)

Next ==
  \/ \E m \in Messages : UserQueues(m) \/ ServiceQueues(m)
  \/ Deliver \/ Leave \/ Return
  \/ HandleTransmitMessage \/ SendOwn \/ SendStep
  \/ Monitor \/ FailTransmit \/ ReportEnd
  \/ EngineProgress
  \/ StopEngine \/ StartEngine \/ AudioRuns \/ AudioFails \/ SwitchAudioDevice

Spec == Init /\ [][Next]_vars

\* Both threads go on, the audio output plays, and an audio capture that was
\* started runs.  The user, the band, failures and stops are free.
FairSpec ==
  /\ Spec
  /\ WF_vars(Deliver) /\ WF_vars(HandleTransmitMessage) /\ WF_vars(SendStep)
  /\ WF_vars(Monitor) /\ WF_vars(ReportEnd)
  /\ WF_vars(EngineProgress) /\ WF_vars(AudioRuns)

-----------------------------------------------------------------------------
(* Properties.                                                             *)

\* Something that will make processNextTxIfIdle look at the queue again.
UnderWay ==
  \/ tasks # <<>>
  \/ \E i \in 1 .. Len(inbox) :
       inbox[i] \in {"PROCESS", "RUNNING", "FINISHED", "FAILED"} \union Replies
  \/ \E t \in {Main, Js8Tx} : pc[t] # "idle"
  \/ monitor \/ releasing \/ starting

\* The engine was stopped in the middle of a transmission: no state was
\* broadcast for its end, and processNextTxIfIdle waits for one.
StillTransmitting == stopped /\ txState = "TRANSMITTING"

\* No message is left in the queue with nothing under way that will send it,
\* unless a broadcast was lost while the activity was not on the screen, or
\* the audio capture did not start.
NothingForgotten ==
  running /\ ~lost /\ queue # <<>> => UnderWay \/ StillTransmitting

\* Once nothing is queued any more and refusals have an end, the queue is
\* worked off.
QueueDrains ==
  <>[](queue = <<>> \/ ~running \/ lost \/ StillTransmitting)

\* MainActivity.kt:251 "Process the next message in the TX queue if not
\* currently transmitting": none is sent while there is audio on the air of
\* which the user interface has been told.
SendsOnlyWhenIdle ==
  [][Len(tasks') > Len(tasks)
       => ~(audio /\ wasAudio /\ \A i \in 1 .. Len(inbox) : inbox[i] # "STARTED")]_vars
=============================================================================
