------------------------------ MODULE PttControl ------------------------------
(***************************************************************************)
(* Push-to-talk control of JS8EngineService.kt: the transmit monitor on    *)
(* the main looper, the rig commands and the user's messages on the Js8Tx  *)
(* handler thread, and the shutdown of stopEngine.  The engine they drive  *)
(* is TxSession, whose variables and calls are used here directly.         *)
(*                                                                         *)
(* A step is what happens between two points where the other thread can    *)
(* see a difference: a synchronized (pttStateLock) section, a call of the  *)
(* engine, a post to the other thread.                                     *)
(*                                                                         *)
(* postDelayed(txMonitorRunnable, 25 or 250 ms) may be overtaken by other  *)
(* messages of the main looper: the posted instances are a count, and any  *)
(* message may run before them.                                            *)
(***************************************************************************)
EXTENDS TxSession, Sequences, FiniteSets

CONSTANTS
  HasRig,        \* rigControlMode is not "none"
  RigMayFail,    \* a rig command may fail on a link that is up
  LinkMayDrop,   \* the rig link may be lost
  OutputMayFail, \* the audio output may refuse a message during a session
  Retries,       \* PTT_COMMAND_RETRIES
  MaxSends,      \* bound: messages of the user
  MaxHeartbeats, \* bound: heartbeats and relayed messages
  MaxStops,      \* bound: calls of stopEngine
  MaxReplies     \* bound: replies that wait while the monitor overtakes them

ASSUME PttAssumption ==
  /\ MaxFrames \in Nat \ {0}
  /\ HasRig \in BOOLEAN /\ RigMayFail \in BOOLEAN /\ LinkMayDrop \in BOOLEAN
  /\ OutputMayFail \in BOOLEAN
  /\ Retries \in Nat /\ MaxSends \in Nat /\ MaxHeartbeats \in Nat /\ MaxStops \in Nat
  /\ MaxReplies \in Nat \ {0}

VARIABLES
  engine,        \* the field engine and its native handle: open, closed or null
  mode,          \* isRigPttRequired
  link,          \* the rig link; isRigControlConnected is link = "up"
  \* guarded by pttStateLock
  gen,           \* txPttGeneration
  asserted,      \* rigPttAsserted
  desired,       \* rigPttDesired
  desiredGen,    \* rigPttDesiredGeneration
  pending,       \* rigPttCommandPending
  failures,      \* rigPttFailureCount
  completion,    \* rigPttCompletion: the generation it closes over, 0 for null
  shuttingDown,  \* pttShuttingDown
  pttFailed,     \* txPttFailed
  \* the monitor
  monitorPosted, \* instances of txMonitorRunnable in the main looper
  monitorActive, \* txMonitorActive
  wasAudio,      \* txMonitorWasAudioActive
  txBusy,        \* txSessionActive || txAudioActive
  \* the two threads
  pc,            \* what each thread is doing
  mon,           \* locals of the monitor: generation, audioActive, rigConnected
  req,           \* locals of requestRigPtt: enabled, completion, where to go on
  mainQueue,     \* replies runRigPttCommand posted to the main looper
  txTasks,       \* runnables posted to Js8Tx
  cmd,           \* locals of runRigPttCommand before its result
  out,           \* and after it
  \* the world and what was said to it
  sends, heartbeats, stops,
  dropped,       \* history: a stop removed the release that an earlier stop had queued
  crashed,       \* a closed engine was called on a thread nobody catches for
  told,          \* FINISHED and FAILED reports made for each generation
  lastReport,    \* the last of them since the newest transmission began
  cut            \* the newest message was cancelled before its end

lockVars  == <<gen, asserted, desired, desiredGen, pending, failures, completion,
               shuttingDown, pttFailed>>
monVars   == <<monitorPosted, monitorActive, wasAudio, txBusy>>
localVars == <<mon, req>>
cmdVars   == <<cmd, out>>
rigVars   == <<engine, mode, link>>
countVars == <<sends, heartbeats, stops, dropped>>
saidVars  == <<told, lastReport>>
vars == <<sessionVars, rigVars, lockVars, monVars, pc, localVars, mainQueue, txTasks,
          cmdVars, countVars, crashed, saidVars, cut>>

Main == "main"
Js8Tx == "js8tx"
Gens == 0 .. MaxSends + MaxHeartbeats + MaxStops

MainLabels == {"idle", "unlinked", "close", "lock", "grant", "post", "check", "hold",
               "edge", "repost", "fail", "failstop", "failgate", "prepare", "submit",
               "accepted", "stop2", "stop3", "stop4", "stop5", "stop6"}
TxLabels == {"idle", "prepare", "submit", "accepted", "rig", "result", "apply"}

Control == [main : MainLabels, js8tx : TxLabels]
Task == {"send", "ptt", "release", "close"}
Reply == [done : Gens, ok : BOOLEAN, failGen : Gens]
MonitorLocals == [gen : Gens, audio : BOOLEAN, linked : BOOLEAN]
RequestLocals == [on : BOOLEAN, done : Gens, next : {"idle", "edge", "repost"}]
Command == [on : BOOLEAN, gen : Gens, linked : BOOLEAN, ok : BOOLEAN]
Outcome == [gate : {"keep", "open", "close"}, done : Gens, ok : BOOLEAN,
            failGen : Gens, again : BOOLEAN]

NoMon == [gen |-> 0, audio |-> FALSE, linked |-> FALSE]
NoReq == [on |-> FALSE, done |-> 0, next |-> "idle"]
NoCmd == [on |-> FALSE, gen |-> 0, linked |-> FALSE, ok |-> FALSE]
NoOut == [gate |-> "keep", done |-> 0, ok |-> FALSE, failGen |-> 0, again |-> FALSE]

TypeOK ==
  /\ SessionTypeOK
  /\ engine \in {"open", "closed", "null"}
  /\ mode \in BOOLEAN
  /\ link \in {"none", "opening", "up", "lost"}
  /\ gen \in Gens /\ desiredGen \in Gens /\ completion \in Gens
  /\ asserted \in BOOLEAN /\ desired \in BOOLEAN /\ pending \in BOOLEAN
  /\ failures \in 0 .. Retries + 1
  /\ shuttingDown \in BOOLEAN /\ pttFailed \in BOOLEAN
  /\ monitorPosted \in Nat
  /\ monitorActive \in BOOLEAN /\ wasAudio \in BOOLEAN /\ txBusy \in BOOLEAN
  /\ pc \in Control
  /\ mon \in MonitorLocals /\ req \in RequestLocals
  /\ mainQueue \in Seq(Reply)
  /\ txTasks \in Seq(Task)
  /\ cmd \in Command /\ out \in Outcome
  /\ sends \in 0 .. MaxSends /\ heartbeats \in 0 .. MaxHeartbeats
  /\ stops \in 0 .. MaxStops /\ dropped \in BOOLEAN
  /\ crashed \in BOOLEAN /\ cut \in BOOLEAN
  /\ told \in [Gens -> Nat]
  /\ lastReport \in {"none", "finished", "failed"}

\* The service after a successful startEngine; network and serial links may
\* still be opening.
Init ==
  /\ SessionInit
  /\ engine = "open" /\ mode = HasRig
  /\ link \in IF HasRig THEN {"opening", "up"} ELSE {"none"}
  /\ gen = 0 /\ asserted = FALSE /\ desired = FALSE /\ desiredGen = 0
  /\ pending = FALSE /\ failures = 0 /\ completion = 0
  /\ shuttingDown = FALSE /\ pttFailed = FALSE
  /\ monitorPosted = 0 /\ monitorActive = FALSE /\ wasAudio = FALSE /\ txBusy = FALSE
  /\ pc = [main |-> "idle", js8tx |-> "idle"]
  /\ mon = NoMon /\ req = NoReq /\ cmd = NoCmd /\ out = NoOut
  /\ mainQueue = <<>> /\ txTasks = <<>>
  /\ sends = 0 /\ heartbeats = 0 /\ stops = 0 /\ dropped = FALSE
  /\ crashed = FALSE /\ told = [g \in Gens |-> 0] /\ lastReport = "none" /\ cut = FALSE

Goto(t, label) == pc' = [pc EXCEPT ![t] = label]
Linked == link = "up"

\* How many of these runnables wait on Js8Tx.
Waiting(tasks, task) == Cardinality({i \in DOMAIN tasks : tasks[i] = task})

\* broadcastTxState of a terminal state on behalf of generation g.
Report(g, state) ==
  /\ told' = [told EXCEPT ![g] = @ + 1]
  /\ lastReport' = state

\* The completion of a release: silent when its generation is over (or when
\* there is none, g = 0).
Complete(g, ok) ==
  IF g # 0 /\ g = gen
    THEN Report(g, IF ok THEN "finished" ELSE "failed")
    ELSE UNCHANGED saidVars

-----------------------------------------------------------------------------
(* txMonitorRunnable.  The three getters are read in one step: what they    *)
(* may show when the session moves between the reads, it also shows later.  *)

MonitorRuns ==
  /\ pc[Main] = "idle" /\ monitorPosted > 0 /\ Len(mainQueue) < MaxReplies
  /\ monitorPosted' = monitorPosted - 1
  /\ UNCHANGED <<sessionVars, rigVars, lockVars, mainQueue, txTasks, cmdVars, countVars,
                 crashed, saidVars, cut>>

\* What the runnable reads first.
Sampled == mon' = [gen |-> gen, audio |-> TransmittingAudio, linked |-> Linked]

MonitorWithoutEngine ==
  /\ MonitorRuns
  /\ engine # "open"
  /\ monitorActive' = FALSE
  /\ UNCHANGED <<wasAudio, txBusy, pc, localVars>>

\* The session is over: release PTT and report when that is done.
MonitorAfterSession ==
  /\ MonitorRuns
  /\ engine = "open" /\ ~Transmitting
  /\ Sampled
  /\ monitorActive' = FALSE /\ wasAudio' = FALSE /\ txBusy' = FALSE
  /\ IF Linked
       THEN Goto(Main, "close") /\ req' = [on |-> FALSE, done |-> gen, next |-> "idle"]
       ELSE Goto(Main, "unlinked") /\ UNCHANGED req

MonitorDuringSession ==
  /\ MonitorRuns
  /\ engine = "open" /\ Transmitting
  /\ Sampled
  /\ txBusy' = TRUE
  /\ UNCHANGED <<monitorActive, wasAudio>>

MonitorWithoutLink ==
  /\ MonitorDuringSession
  /\ mode /\ ~Linked
  /\ Goto(Main, "fail")
  /\ UNCHANGED req

\* Audio is due within the lead time, or held back by the gate.
KeyingDue == Linked /\ ~TransmittingAudio /\ AudioDue

MonitorKeys ==
  /\ MonitorDuringSession
  /\ KeyingDue
  /\ Goto(Main, "lock")
  /\ req' = [on |-> TRUE, done |-> 0, next |-> "edge"]

MonitorWatches ==
  /\ MonitorDuringSession
  /\ ~(mode /\ ~Linked)
  /\ ~KeyingDue
  /\ Goto(Main, IF TransmittingAudio /\ Linked THEN "check" ELSE "edge")
  /\ UNCHANGED req

\* Without a rig there is nothing to release.
ReportUnlinked ==
  /\ pc[Main] = "unlinked"
  /\ Complete(mon.gen, TRUE)
  /\ Goto(Main, "idle")
  /\ mon' = NoMon
  /\ UNCHANGED <<sessionVars, rigVars, lockVars, monVars, req, mainQueue, txTasks, cmdVars,
                 countVars, crashed, cut>>

PttReady == mon.gen = gen /\ asserted /\ desired /\ ~pending

\* Audio is on the air: isRigPttReady.
CheckPtt ==
  /\ pc[Main] = "check"
  /\ Goto(Main, IF PttReady THEN "edge" ELSE "hold")
  /\ UNCHANGED <<sessionVars, rigVars, lockVars, monVars, localVars, mainQueue, txTasks,
                 cmdVars, countVars, crashed, saidVars, cut>>

\* mutation: the monitor does not post itself again
RestOnly ==
  /\ UNCHANGED monitorPosted
  /\ Goto(Main, "idle")
  /\ mon' = NoMon /\ req' = NoReq

\* postDelayed(this) at the end of a run of the monitor.
RepostAndRest ==
  /\ monitorPosted' = monitorPosted + 1
  /\ Goto(Main, "idle")
  /\ mon' = NoMon /\ req' = NoReq

\* Audio without PTT is held back.
HoldAudio ==
  /\ pc[Main] = "hold"
  /\ SetReady(FALSE)
  /\ RepostAndRest
  /\ UNCHANGED <<rigVars, lockVars, monitorActive, wasAudio, txBusy, mainQueue, txTasks,
                 cmdVars, countVars, crashed, saidVars, cut>>

\* Audio begins, goes on or pauses between two frames.
Edge ==
  /\ pc[Main] = "edge"
  /\ wasAudio' = mon.audio
  /\ IF ~mon.audio /\ wasAudio /\ mon.linked
       THEN /\ Goto(Main, "close")
            /\ req' = [on |-> FALSE, done |-> 0, next |-> "repost"]
            /\ UNCHANGED <<mon, monitorPosted>>
       ELSE RepostAndRest
  /\ UNCHANGED <<sessionVars, rigVars, lockVars, monitorActive, txBusy, mainQueue, txTasks,
                 cmdVars, countVars, crashed, saidVars, cut>>

Repost ==
  /\ pc[Main] = "repost"
  /\ RepostAndRest
  /\ UNCHANGED <<sessionVars, rigVars, lockVars, monitorActive, wasAudio, txBusy, mainQueue,
                 txTasks, cmdVars, countVars, crashed, saidVars, cut>>

Monitor ==
  \/ MonitorWithoutEngine \/ MonitorAfterSession
  \/ MonitorWithoutLink \/ MonitorKeys \/ MonitorWatches

-----------------------------------------------------------------------------
(* requestRigPtt, called by the monitor with its generation.               *)

\* A release closes the gate before anything else.
CloseGate ==
  /\ pc[Main] = "close"
  /\ SetReady(FALSE)
  /\ Goto(Main, "lock")
  /\ UNCHANGED <<rigVars, lockVars, monVars, localVars, mainQueue, txTasks, cmdVars,
                 countVars, crashed, saidVars, cut>>

\* The caller returns to where it was.
Return ==
  /\ Goto(Main, req.next)
  /\ req' = NoReq
  /\ mon' = IF req.next = "idle" THEN NoMon ELSE mon

CanScheduleIgnoresPending == TRUE  \* mutation: no test of rigPttCommandPending

\* Only one command is ever under way.
CanSchedule == ~pending

\* The synchronized section.
RequestSection ==
  /\ pc[Main] = "lock"
  /\ IF mon.gen # gen \/ (pttFailed /\ req.on)
       THEN Return /\ UNCHANGED lockVars
       ELSE LET done == IF req.done # 0 THEN req.done ELSE completion IN
            /\ desired' = req.on /\ desiredGen' = gen
            /\ failures' = IF desired # req.on \/ desiredGen # gen THEN 0 ELSE failures
            /\ UNCHANGED <<gen, asserted, shuttingDown, pttFailed>>
            /\ \/ /\ ~CanSchedule
                  /\ completion' = done
                  /\ Return
                  /\ UNCHANGED pending
               \/ /\ CanSchedule /\ asserted = req.on
                  /\ completion' = 0
                  /\ req' = [req EXCEPT !.done = done]
                  /\ Goto(Main, "grant")
                  /\ UNCHANGED <<pending, mon>>
               \/ /\ CanSchedule /\ asserted # req.on
                  /\ completion' = done
                  /\ pending' = TRUE
                  /\ Goto(Main, "post")
                  /\ UNCHANGED <<req, mon>>
  /\ UNCHANGED <<sessionVars, rigVars, monVars, mainQueue, txTasks, cmdVars, countVars,
                 crashed, saidVars, cut>>

\* PTT is already as wanted: open the gate, run the completion.
Grant ==
  /\ pc[Main] = "grant"
  /\ IF req.on THEN SetReady(TRUE) ELSE UNCHANGED sessionVars
  /\ Complete(req.done, TRUE)
  /\ Return
  /\ UNCHANGED <<rigVars, lockVars, monVars, mainQueue, txTasks, cmdVars, countVars,
                 crashed, cut>>

PostCommand ==
  /\ pc[Main] = "post"
  /\ txTasks' = Append(txTasks, "ptt")
  /\ Return
  /\ UNCHANGED <<sessionVars, rigVars, lockVars, monVars, mainQueue, cmdVars, countVars,
                 crashed, saidVars, cut>>

-----------------------------------------------------------------------------
(* failTransmitForPtt, on the main looper.                                 *)

FailReleasesNothing == UNCHANGED <<pending, txTasks>>  \* mutation: no release posted

\* A radio that is keyed is released, unless a command is under way: its
\* result will see that PTT is no longer desired.
FailReleases ==
  IF ~pending /\ asserted
    THEN pending' = TRUE /\ txTasks' = Append(txTasks, "ptt")
    ELSE UNCHANGED <<pending, txTasks>>

FailSection ==
  /\ pc[Main] = "fail"
  /\ IF mon.gen # gen \/ pttFailed
       THEN /\ Goto(Main, "idle")
            /\ mon' = NoMon
            /\ UNCHANGED <<lockVars, txTasks>>
       ELSE /\ pttFailed' = TRUE
            /\ desired' = FALSE /\ desiredGen' = gen
            /\ failures' = 0 /\ completion' = 0
            /\ FailReleases
            /\ Goto(Main, "failstop")
            /\ UNCHANGED <<gen, asserted, shuttingDown, mon>>
  /\ UNCHANGED <<sessionVars, rigVars, monVars, req, mainQueue, cmdVars, countVars, crashed,
                 saidVars, cut>>

\* removeCallbacks(txMonitorRunnable) and stopTransmit, whatever session and
\* monitor there are by now.
FailStops ==
  /\ pc[Main] = "failstop"
  /\ monitorActive' = FALSE /\ monitorPosted' = 0
  /\ Cancel
  /\ cut' = (cut \/ Transmitting)
  /\ Goto(Main, "failgate")
  /\ UNCHANGED <<rigVars, lockVars, wasAudio, txBusy, localVars, mainQueue, txTasks, cmdVars,
                 countVars, crashed, saidVars>>

FailureUnsaid == UNCHANGED saidVars  \* mutation: a failed transmission is not reported

FailureSaid == Report(mon.gen, "failed")

FailReports ==
  /\ pc[Main] = "failgate"
  /\ txBusy' = FALSE /\ wasAudio' = FALSE
  /\ SetReady(FALSE)
  /\ FailureSaid
  /\ Goto(Main, "idle")
  /\ mon' = NoMon
  /\ UNCHANGED <<rigVars, lockVars, monitorPosted, monitorActive, req, mainQueue, txTasks,
                 cmdVars, countVars, crashed, cut>>

-----------------------------------------------------------------------------
(* Transmissions: handleTransmitMessage on Js8Tx, sendHeartbeat and         *)
(* sendRelayMessage on the main looper.                                    *)

\* onStartCommand posts the user's message to Js8Tx.
UserSends ==
  /\ pc[Main] = "idle" /\ sends < MaxSends
  /\ sends' = sends + 1
  /\ txTasks' = Append(txTasks, "send")
  /\ UNCHANGED <<sessionVars, rigVars, lockVars, monVars, pc, localVars, mainQueue, cmdVars,
                 heartbeats, stops, dropped, crashed, saidVars, cut>>

HandleMessage ==
  /\ pc[Js8Tx] = "idle" /\ txTasks # <<>> /\ Head(txTasks) = "send"
  /\ txTasks' = Tail(txTasks)
  /\ Goto(Js8Tx, IF engine = "null" THEN "idle" ELSE "prepare")
  /\ UNCHANGED <<sessionVars, rigVars, lockVars, monVars, localVars, mainQueue, cmdVars,
                 countVars, crashed, saidVars, cut>>

\* Automatic traffic gives way to what the monitor last saw in progress.
SendHeartbeat ==
  /\ pc[Main] = "idle" /\ heartbeats < MaxHeartbeats
  /\ engine = "open" /\ ~txBusy
  /\ heartbeats' = heartbeats + 1
  /\ Goto(Main, "prepare")
  /\ UNCHANGED <<sessionVars, rigVars, lockVars, monVars, localVars, mainQueue, txTasks,
                 cmdVars, sends, stops, dropped, crashed, saidVars, cut>>

\* A call of setTransmitReady or transmitMessage on a closed engine throws.
Crash ==
  /\ engine # "open"
  /\ crashed' = TRUE
  /\ UNCHANGED <<sessionVars, rigVars, lockVars, monVars, pc, localVars, mainQueue, txTasks,
                 cmdVars, countVars, saidVars, cut>>

GateWhenPreparedOpen == TRUE  \* mutation: the gate is opened for every message

\* A message that needs PTT is prepared with its gate closed.
GateWhenPrepared == ~mode

PrepareEngine(t) ==
  /\ pc[t] = "prepare"
  /\ \/ /\ engine = "open"
        /\ SetReady(GateWhenPrepared)
        /\ Goto(t, "submit")
        /\ UNCHANGED <<rigVars, lockVars, monVars, localVars, mainQueue, txTasks, cmdVars,
                       countVars, crashed, saidVars, cut>>
     \/ Crash

\* transmitMessage is accepted, is rejected without a trace (no frames, or no
\* output for a first session), or ends the session of an earlier message
\* because the output that plays it refuses to start again.  The FAILED that a
\* rejection broadcasts is about no generation and is not counted in told.
TransmitMessage(t) ==
  /\ pc[t] = "submit"
  /\ \/ /\ engine = "open"
        /\ \/ /\ \E n \in 1 .. MaxFrames : Submit(n)
              /\ cut' = FALSE
              /\ Goto(t, "accepted")
           \/ /\ UNCHANGED <<sessionVars, cut>>
              /\ Goto(t, "idle")
           \/ /\ OutputMayFail /\ Transmitting
              /\ Cancel
              /\ cut' = TRUE
              /\ Goto(t, "idle")
        /\ UNCHANGED <<rigVars, lockVars, monVars, localVars, mainQueue, txTasks, cmdVars,
                       countVars, crashed, saidVars>>
     \/ Crash

\* startTxMonitor.  Its removeCallbacks, its synchronized section and its post
\* are one step: only the section concerns the other thread's other steps.
StartTxMonitor(t) ==
  /\ pc[t] = "accepted"
  /\ monitorActive' = TRUE /\ wasAudio' = FALSE
  /\ monitorPosted' = 1
  /\ gen' = gen + 1 /\ desiredGen' = gen + 1
  /\ desired' = asserted
  /\ failures' = 0 /\ completion' = 0
  /\ shuttingDown' = FALSE /\ pttFailed' = FALSE
  /\ lastReport' = "none"
  /\ Goto(t, "idle")
  /\ UNCHANGED <<sessionVars, rigVars, asserted, pending, txBusy, localVars, mainQueue,
                 txTasks, cmdVars, countVars, crashed, told, cut>>

SendStep(t) == PrepareEngine(t) \/ TransmitMessage(t) \/ StartTxMonitor(t)

-----------------------------------------------------------------------------
(* runRigPttCommand, on Js8Tx.                                             *)

CommandBegins ==
  /\ pc[Js8Tx] = "idle" /\ txTasks # <<>> /\ Head(txTasks) = "ptt"
  /\ txTasks' = Tail(txTasks)
  /\ cmd' = [on |-> desired, gen |-> desiredGen, linked |-> Linked, ok |-> FALSE]
  /\ Goto(Js8Tx, "rig")
  /\ UNCHANGED <<sessionVars, rigVars, lockVars, monVars, localVars, mainQueue, out,
                 countVars, crashed, saidVars, cut>>

\* setRigPtt returns.  A stop in the meantime leaves the command its transport.
RigAnswers ==
  /\ pc[Js8Tx] = "rig"
  /\ \/ /\ cmd.linked /\ link # "lost"
        /\ cmd' = [cmd EXCEPT !.ok = TRUE]
     \/ /\ RigMayFail \/ ~cmd.linked \/ link = "lost"
        /\ UNCHANGED cmd
  /\ Goto(Js8Tx, "result")
  /\ UNCHANGED <<sessionVars, rigVars, lockVars, monVars, localVars, mainQueue, txTasks, out,
                 countVars, crashed, saidVars, cut>>

\* PTT is now as the radio said.
AssertedNow == IF cmd.ok THEN cmd.on ELSE asserted

\* setTransmitReady after the command: open only for a request that is still
\* the current one.
GateAfter ==
  CASE shuttingDown -> "close"
    [] ~shuttingDown /\ ~cmd.ok -> "keep"
    [] OTHER -> IF cmd.on /\ desired /\ cmd.gen = gen THEN "open" ELSE "close"

StillDesired == cmd.on = desired /\ cmd.gen = desiredGen

Settles(done, ok, failGen) ==
  /\ pending' = FALSE
  /\ out' = [gate |-> GateAfter, done |-> done, ok |-> ok, failGen |-> failGen,
             again |-> FALSE]

Repeats ==
  /\ pending' = TRUE
  /\ out' = [gate |-> GateAfter, done |-> 0, ok |-> FALSE, failGen |-> 0, again |-> TRUE]

RetryForever == TRUE  \* mutation: no limit on failed commands

MayRetry == failures < Retries

\* PTT changed its target while the command was under way.
TargetMissedIgnored == FALSE  \* mutation: no comparison with rigPttDesired

TargetMissed == AssertedNow # desired

ResultSection ==
  /\ pc[Js8Tx] = "result"
  /\ asserted' = AssertedNow
  /\ \/ /\ shuttingDown
        /\ failures' = IF cmd.ok THEN 0 ELSE failures
        /\ completion' = 0
        /\ Settles(0, FALSE, 0)
        /\ UNCHANGED desired
     \/ /\ ~shuttingDown /\ ~cmd.ok /\ StillDesired
        /\ failures' = failures + 1
        /\ \/ /\ MayRetry
              /\ Repeats
              /\ UNCHANGED <<completion, desired>>
           \/ /\ ~MayRetry
              /\ Settles(completion, FALSE, IF cmd.on THEN cmd.gen ELSE 0)
              /\ completion' = 0
              /\ desired' = asserted
     \/ /\ ~shuttingDown /\ (cmd.ok \/ ~StillDesired)
        /\ failures' = IF cmd.ok THEN 0 ELSE failures
        /\ UNCHANGED desired
        /\ \/ /\ TargetMissed
              /\ Repeats
              /\ UNCHANGED completion
           \/ /\ ~TargetMissed /\ desiredGen = gen
              /\ completion' = 0
              /\ Settles(completion, TRUE, 0)
           \/ /\ ~TargetMissed /\ desiredGen # gen
              /\ Settles(0, FALSE, 0)
              /\ UNCHANGED completion
  /\ Goto(Js8Tx, "apply")
  /\ cmd' = NoCmd
  /\ UNCHANGED <<sessionVars, rigVars, gen, desiredGen, shuttingDown, pttFailed, monVars,
                 localVars, mainQueue, txTasks, countVars, crashed, saidVars, cut>>

\* After the lock is released: the gate, the reply to the main looper, the
\* next command.
ApplyResult ==
  /\ pc[Js8Tx] = "apply"
  /\ \/ /\ out.gate = "keep" \/ engine # "closed"
        /\ IF out.gate # "keep" /\ engine = "open"
             THEN SetReady(out.gate = "open")
             ELSE UNCHANGED sessionVars
        /\ mainQueue' = IF out.done # 0 \/ out.failGen # 0
                          THEN Append(mainQueue, [done |-> out.done, ok |-> out.ok,
                                                  failGen |-> out.failGen])
                          ELSE mainQueue
        /\ txTasks' = IF out.again THEN Append(txTasks, "ptt") ELSE txTasks
        /\ out' = NoOut
        /\ Goto(Js8Tx, "idle")
        /\ UNCHANGED <<rigVars, lockVars, monVars, localVars, cmd, countVars, crashed,
                       saidVars, cut>>
     \/ /\ out.gate # "keep"
        /\ engine = "closed"
        /\ Crash

\* The reply on the main looper: the completion, then the failure.
HandleReply ==
  /\ pc[Main] = "idle" /\ mainQueue # <<>>
  /\ mainQueue' = Tail(mainQueue)
  /\ LET reply == Head(mainQueue) IN
       /\ Complete(reply.done, reply.ok)
       /\ IF reply.failGen # 0
            THEN Goto(Main, "fail") /\ mon' = [NoMon EXCEPT !.gen = reply.failGen]
            ELSE UNCHANGED <<pc, mon>>
  /\ UNCHANGED <<sessionVars, rigVars, lockVars, monVars, req, txTasks, cmdVars, countVars,
                 crashed, cut>>

-----------------------------------------------------------------------------
(* stopEngine, on the main looper: ACTION_STOP or a removed task, and again *)
(* from onDestroy.                                                         *)

Stop ==
  /\ pc[Main] = "idle" /\ stops < MaxStops
  /\ stops' = stops + 1
  /\ gen' = gen + 1 /\ desiredGen' = gen + 1
  /\ desired' = asserted
  /\ failures' = 0 /\ completion' = 0
  /\ shuttingDown' = TRUE /\ pttFailed' = FALSE
  /\ Goto(Main, "stop2")
  /\ UNCHANGED <<sessionVars, rigVars, asserted, pending, monVars, localVars, mainQueue,
                 txTasks, cmdVars, sends, heartbeats, dropped, crashed, saidVars, cut>>

\* The gate, the monitor, and every runnable that waits on Js8Tx.
StopHandlers ==
  /\ pc[Main] = "stop2"
  /\ IF engine = "open" THEN SetReady(FALSE) ELSE UNCHANGED sessionVars
  /\ monitorPosted' = IF monitorActive THEN 0 ELSE monitorPosted
  /\ monitorActive' = FALSE
  /\ txTasks' = <<>>
  /\ dropped' = (dropped \/ Waiting(txTasks, "release") > 0)
  /\ Goto(Main, "stop3")
  /\ UNCHANGED <<rigVars, lockVars, wasAudio, txBusy, localVars, mainQueue, cmdVars, sends,
                 heartbeats, stops, crashed, saidVars, cut>>

StopSection ==
  /\ pc[Main] = "stop3"
  /\ desired' = FALSE /\ desiredGen' = gen
  /\ pending' = FALSE /\ completion' = 0
  /\ Goto(Main, "stop4")
  /\ UNCHANGED <<sessionVars, rigVars, gen, asserted, failures, shuttingDown, pttFailed,
                 monVars, localVars, mainQueue, txTasks, cmdVars, countVars, crashed,
                 saidVars, cut>>

TeardownTaskKeepsPtt == "close"  \* mutation: the transports are closed, PTT is not released

\* What the teardown has to do with the radio.
TeardownTask == IF Linked THEN "release" ELSE "close"

\* The rig is taken from the service and given to its teardown.
StopRig ==
  /\ pc[Main] = "stop4"
  /\ link' = "none" /\ mode' = FALSE
  /\ txTasks' = Append(txTasks, TeardownTask)
  /\ Goto(Main, "stop5")
  /\ UNCHANGED <<sessionVars, engine, lockVars, monVars, localVars, mainQueue, cmdVars,
                 countVars, crashed, saidVars, cut>>

\* close() and then the assignment of null, which other threads may see apart.
StopNative ==
  /\ pc[Main] = "stop5"
  /\ IF engine = "null"
       THEN Goto(Main, "idle") /\ UNCHANGED <<engine, sessionVars>>
       ELSE engine' = "closed" /\ Goto(Main, "stop6") /\ Cancel
  /\ UNCHANGED <<mode, link, lockVars, monVars, localVars, mainQueue, txTasks, cmdVars,
                 countVars, crashed, saidVars, cut>>

StopForgets ==
  /\ pc[Main] = "stop6"
  /\ engine' = "null"
  /\ Goto(Main, "idle")
  /\ UNCHANGED <<sessionVars, mode, link, lockVars, monVars, localVars, mainQueue, txTasks,
                 cmdVars, countVars, crashed, saidVars, cut>>

\* The teardown on Js8Tx.
Teardown ==
  /\ pc[Js8Tx] = "idle" /\ txTasks # <<>> /\ Head(txTasks) \in {"release", "close"}
  /\ txTasks' = Tail(txTasks)
  /\ \/ Head(txTasks) = "release" /\ asserted' = FALSE
     \/ (Head(txTasks) = "close" \/ RigMayFail) /\ UNCHANGED asserted
  /\ UNCHANGED <<sessionVars, rigVars, gen, desired, desiredGen, pending, failures, completion,
                 shuttingDown, pttFailed, monVars, pc, localVars, mainQueue, cmdVars,
                 countVars, crashed, saidVars, cut>>

-----------------------------------------------------------------------------
\* The asynchronous start of the rig control succeeds.
LinkOpens ==
  /\ link = "opening"
  /\ link' = "up"
  /\ UNCHANGED <<sessionVars, engine, mode, lockVars, monVars, pc, localVars, mainQueue,
                 txTasks, cmdVars, countVars, crashed, saidVars, cut>>

\* onIoError of a serial session: the connected flag is cleared, nothing else.
LinkDrops ==
  /\ LinkMayDrop /\ link = "up"
  /\ link' = "lost"
  /\ UNCHANGED <<sessionVars, engine, mode, lockVars, monVars, pc, localVars, mainQueue,
                 txTasks, cmdVars, countVars, crashed, saidVars, cut>>

\* The audio output plays the session.
EngineProgress ==
  /\ engine = "open"
  /\ Progress
  /\ UNCHANGED <<rigVars, lockVars, monVars, pc, localVars, mainQueue, txTasks, cmdVars,
                 countVars, crashed, saidVars, cut>>

\* What the main looper goes on with inside one message.
MainStep ==
  \/ ReportUnlinked \/ CheckPtt \/ HoldAudio \/ Edge \/ Repost
  \/ CloseGate \/ RequestSection \/ Grant \/ PostCommand
  \/ FailSection \/ FailStops \/ FailReports
  \/ SendStep(Main)
  \/ StopHandlers \/ StopSection \/ StopRig \/ StopNative \/ StopForgets

Js8TxStep ==
  \/ HandleMessage \/ SendStep(Js8Tx)
  \/ CommandBegins \/ RigAnswers \/ ResultSection \/ ApplyResult
  \/ Teardown

Next ==
  /\ ~crashed
  /\ \/ Monitor \/ HandleReply \/ MainStep \/ Js8TxStep
     \/ UserSends \/ SendHeartbeat \/ Stop
     \/ LinkOpens \/ LinkDrops \/ EngineProgress

Spec == Init /\ [][Next]_vars

\* Both threads go on while they have something to do, the looper serves the
\* monitor and the replies in turn (its queue is first come, first served),
\* and the audio output pulls samples: a frame keeps its place while the gate
\* is closed, so it ends if the gate is opened again and again.
FairSpec ==
  /\ Spec
  /\ WF_vars(~crashed /\ MainStep)
  /\ WF_vars(~crashed /\ Js8TxStep)
  /\ SF_vars(~crashed /\ Monitor)
  /\ SF_vars(~crashed /\ HandleReply)
  /\ SF_vars(~crashed /\ EngineProgress)

-----------------------------------------------------------------------------
(* Properties.                                                             *)

Count(bool) == IF bool THEN 1 ELSE 0

\* The commands about to be posted, posted, running or about to repeat themselves.
UnderWay ==
  Count(pc[Main] = "post")
  + Count(pc[Js8Tx] \in {"rig", "result"})
  + Count(pc[Js8Tx] = "apply" /\ out.again)
  + Waiting(txTasks, "ptt")

\* rigPttCommandPending is the truth: until the service is stopped it is set
\* exactly while one runRigPttCommand is posted, running, about to repeat
\* itself or about to be posted, and there is never a second one to race it.
OneCommand == stops = 0 => UnderWay = Count(pending)

\* No audio without PTT: while a radio has to be keyed, a session finds the
\* ready gate open only if PTT was asserted, or if the thread that has just
\* released PTT is about to close it.
GateHonest ==
  engine = "open" /\ mode /\ ready /\ Transmitting =>
    asserted \/ (pc[Js8Tx] = "apply" /\ out.gate = "close")

\* A transmission that failed does not leave the radio keyed: a release is
\* under way, or the radio has refused it as often as the service tries.
FailedReleases ==
  pttFailed /\ asserted => pending \/ failures > Retries

\* FINISHED is said only when PTT has been released (the link still there).
FinishedIsReleased ==
  [][told' # told /\ lastReport' = "finished" /\ Linked => ~asserted]_vars

\* Once a stop is through and Js8Tx has nothing left to do, PTT is released, whatever
\* command was running when it came: but for a release that a further stop took away
\* before Js8Tx came to it.  The service always stops twice: at ACTION_STOP or when its
\* task is removed, and in onDestroy.
StopReleasesPtt ==
  stops > 0 /\ engine = "null" /\ pc[Main] = "idle" /\ pc[Js8Tx] = "idle" /\ txTasks = <<>>
    => ~asserted \/ dropped

\* The same without the exception.  The second stop breaks it (README, section 3).
EveryStopReleasesPtt ==
  stops > 0 /\ engine = "null" /\ pc[Main] = "idle" /\ pc[Js8Tx] = "idle" /\ txTasks = <<>>
    => ~asserted

\* With a radio that obeys, PTT is released after every session: by the monitor, by a
\* changed target, or by a stop whose release no further stop took away.
PttReleased ==
  (asserted /\ ~Transmitting) ~> (~asserted \/ Transmitting \/ dropped \/ crashed)

\* After a transmission has begun FINISHED or FAILED is broadcast, whatever becomes of
\* its PTT commands: the radio refuses to key or to release, the link is lost, the next
\* message comes in between.  The user interface, which waits for one of the two,
\* never waits in vain (TxQueue relies on it).
EndIsReported ==
  (gen > 0 /\ lastReport = "none" /\ stops = 0) ~> (lastReport # "none" \/ stops > 0 \/ crashed)

\* A transmission ends once: the UI takes one message off its queue for it.  Two
\* chains of the monitor break it (README, section 3).
OneTerminalReport == \A g \in Gens : told[g] <= 1

\* FINISHED is said of a message that was sent to its end.  A failure that stops
\* the next message breaks it (README, section 3).
FinishedMeansSent ==
  [][told' # told /\ lastReport' = "finished" => ~cut]_vars
=============================================================================
