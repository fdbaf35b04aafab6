--------------------------- MODULE EngineLifecycle ---------------------------
(***************************************************************************)
(* The life of a native engine on Android.  The main looper creates and    *)
(* destroys engines (JS8EngineService.kt, JS8Engine.kt, js8_engine_jni.cpp)*)
(* while other threads use them: the capture of JS8AudioHelper.kt, Js8Tx,  *)
(* the two workers of engine.cpp, the audio output and the worker of       *)
(* scheduler_android.cpp.  Their calls go through a fair read-write lock,  *)
(* which closing takes to withdraw the handle; the destruction follows     *)
(* outside of it and joins the threads of the engine one after another.    *)
(* Two threads transmit, the main looper and Js8Tx; of a transmission the  *)
(* model has what concerns the output, the rest is TxEngine's matter.      *)
(***************************************************************************)
EXTENDS Naturals, FiniteSets, SequencesExt

CONSTANTS MaxEngines,  \* bound: engines created
          MaxChanges   \* bound: changes of the device, restarts of a silent capture

EngineLifecycleAssumption ==
    MaxEngines \in Nat \ {0} /\ MaxChanges \in Nat
ASSUME EngineLifecycleAssumption

Engines == 1..MaxEngines
Workers == {"decode", "spectrum"}
Callers == {"main", "tx"}  \* the threads that transmit

VARIABLES
    main,     \* the main looper: where stopEngine or a change of device is
    engine,   \* the field engine of the service; 0 is null
    made,     \* engines created so far
    native,   \* per engine: its objects, handle and scheduler
    call,     \* per caller: where its call of transmit_message or stop_transmit is
    output,   \* of the newest engine: tx_output_started_, the output's running_ and
              \* thread, who keeps tx_mutex_ while it joins; what went wrong with them
    worker,   \* per engine: the decode and the spectrum worker
    captures, \* the capture threads, in the order of their creation
    helper,   \* audioHelper: the newest capture thread or 0
    tx,       \* Js8Tx with the engine it has read from the field
    sco,      \* the selected device is a SCO device
    posts,    \* delayed posts of waitForScoActive and of the silence check whose
              \* token is current; one with an older token returns at once
    count     \* changes of the device and restarts of the capture

vars == <<main, engine, made, native, call, output, worker, captures, helper, tx, sco,
          posts, count>>

\* quiet: running, but the flag was cleared by a start that was refused (history);
\* aborted: std::terminate was called.
NoOutput == [flag |-> FALSE, on |-> FALSE, pump |-> "none", holder |-> "free",
             quiet |-> FALSE, aborted |-> FALSE]

Init ==
    /\ main = [pc |-> "idle", then |-> "stop"]
    /\ engine = 0 /\ made = 0 /\ helper = 0
    /\ native = [e \in Engines |->
         [life |-> "none", handle |-> FALSE, handler |-> FALSE, running |-> FALSE,
          scheduler |-> "none"]]
    /\ call = [c \in Callers |-> "out"] /\ output = NoOutput
    /\ worker = [e \in Engines |-> [w \in Workers |->
         [pc |-> "none", stop |-> FALSE, queued |-> FALSE]]]
    /\ captures = <<>>
    /\ tx = [pc |-> "idle", engine |-> 0]
    /\ sco = FALSE /\ posts = {}
    /\ count = 0

-----------------------------------------------------------------------------
\* Mutant: advancing the token of the silence check alone.
OnlyOthers(kinds) == {p \in posts : p.kind # "silence"}

\* The posts that remain current when the tokens of some kinds are advanced.
Others(kinds) == {p \in posts : p.kind \notin kinds}

Post(kind, e) == [kind |-> kind, engine |-> e]

\* The main looper is between two messages.
Idle == main.pc = "idle" /\ call["main"] = "out"

CallVars == <<call, output>>

\* startAudioCaptureInternal: the device may refuse.  A capture from a SCO device is
\* watched for silence, by a new check.  The wait for SCO, if there was one, is over.
StartCapture(e) ==
    \/ /\ captures' = Append(captures, [engine |-> e, recording |-> TRUE, pc |-> "loop"])
       /\ helper' = Len(captures) + 1
       /\ posts' = (posts \ {Post("wait", e)}) \cup (IF sco THEN {Post("silence", e)} ELSE {})
    \/ helper' = 0 /\ posts' = posts \ {Post("wait", e)} /\ UNCHANGED captures

\* waitForScoActive: SCO is not active yet and a post will ask again.
AwaitSco(e) ==
    posts' = posts \cup {Post("wait", e)} /\ helper' = 0 /\ UNCHANGED captures

\* stopCapture up to its join.
StopCapture ==
    captures' = [i \in DOMAIN captures |->
        IF i = helper THEN [captures[i] EXCEPT !.recording = FALSE] ELSE captures[i]]

\* startEngine, js8_engine_create, the constructor of the engine: everything is made
\* and started on the main looper.
StartEngine ==
    /\ Idle /\ engine = 0 /\ made < MaxEngines
    /\ engine' = made + 1 /\ made' = made + 1
    /\ native' = [native EXCEPT ![made + 1] =
         [life |-> "live", handle |-> TRUE, handler |-> TRUE, running |-> TRUE,
          scheduler |-> "check"]]
    /\ output' = NoOutput
    /\ worker' = [worker EXCEPT ![made + 1] = [w \in Workers |->
         [pc |-> "check", stop |-> FALSE, queued |-> FALSE]]]
    /\ sco' \in BOOLEAN
    /\ main' = [pc |-> "capture", then |-> "idle"]
    /\ posts' = Others({"wait", "silence"})
    /\ UNCHANGED <<call, captures, helper, tx, count>>

Capture ==
    /\ main.pc = "capture"
    /\ main' = [pc |-> "idle", then |-> "idle"]
    /\ StartCapture(engine) \/ (sco /\ AwaitSco(engine))
    /\ UNCHANGED <<engine, made, native, worker, tx, sco, count, CallVars>>

\* switchAudioDevice.
SwitchDevice ==
    /\ Idle /\ count < MaxChanges
    /\ sco' \in BOOLEAN
    /\ posts' = Others({"wait", "silence"})
    /\ count' = count + 1
    /\ IF engine = 0 THEN UNCHANGED <<main, captures>>
       ELSE main' = [pc |-> "join", then |-> "capture"] /\ StopCapture
    /\ UNCHANGED <<engine, made, native, worker, helper, tx, CallVars>>

\* A post of waitForScoActive that starts the capture: SCO is active or the attempts
\* are used up.
ScoPost(p) ==
    /\ Idle /\ p.kind = "wait"
    /\ StartCapture(p.engine)
    /\ UNCHANGED <<main, engine, made, native, worker, tx, sco, count, CallVars>>

\* A silence check that finds silence: restartAudioCaptureForSco.
SilencePost(p) ==
    /\ Idle /\ p.kind = "silence" /\ helper # 0 /\ count < MaxChanges
    /\ count' = count + 1
    /\ posts' = Others({"wait", "silence"})
    /\ StopCapture
    /\ main' = [pc |-> "join", then |-> "capture"]
    /\ UNCHANGED <<engine, made, native, worker, helper, tx, sco, CallVars>>

\* stopEngine, up to the join of the capture.
StopEngine ==
    /\ Idle /\ engine # 0
    /\ posts' = Others({"wait", "silence"})
    /\ StopCapture
    /\ main' = [pc |-> "join", then |-> "stop"]
    /\ UNCHANGED <<engine, made, native, worker, helper, tx, sco, count, CallVars>>

\* Mutant: the field still names the helper that has ended.
JoinCaptureKeepsHelper ==
    /\ main.pc = "join"
    /\ IF helper = 0 THEN UNCHANGED captures
       ELSE captures[helper].pc = "done" /\ captures' = RemoveAt(captures, helper)
    /\ main' = [pc |-> main.then, then |-> "idle"]
    /\ UNCHANGED <<engine, made, helper, native, worker, tx, sco, posts, count, CallVars>>

\* The join in stopCapture.
JoinCapture ==
    /\ main.pc = "join"
    /\ IF helper = 0 THEN UNCHANGED captures
       ELSE captures[helper].pc = "done" /\ captures' = RemoveAt(captures, helper)
    /\ helper' = 0
    /\ main' = [pc |-> main.then, then |-> "idle"]
    /\ UNCHANGED <<engine, made, native, worker, tx, sco, posts, count, CallVars>>

-----------------------------------------------------------------------------
(***************************************************************************)
(* start_tx_output and stop_transmit, by either caller.  The first runs    *)
(* without tx_mutex_, the second joins the output's thread with it.        *)
(***************************************************************************)
CallGoes(c, from, to) == call[c] = from /\ call' = [call EXCEPT ![c] = to]

KeptByCalls == <<main, engine, made, native, worker, captures, helper, tx, sco, posts,
                 count>>

\* The critical section of a transmission; then tx_output_started_ is read.
Transmit(c) ==
    /\ CallGoes(c, "in", IF output.flag THEN "out" ELSE "start")
    /\ output.holder = "free"
    /\ UNCHANGED output /\ UNCHANGED KeptByCalls

\* PumpAudioOutput::start: refused while it runs; a thread that was halted and not
\* joined yet must not be replaced.
StartOutput(c) ==
    /\ CallGoes(c, "start", IF output.on THEN "refused" ELSE "started")
    /\ output' = IF output.on THEN output
                 ELSE IF output.pump = "none"
                      THEN [output EXCEPT !.on = TRUE, !.pump = "check"]
                      ELSE [output EXCEPT !.aborted = TRUE]
    /\ UNCHANGED KeptByCalls

\* tx_output_started_ = ok; a transmission that was refused stops everything.
RecordOutput(c) ==
    /\ \/ /\ CallGoes(c, "started", "out")
          /\ output' = [output EXCEPT !.flag = TRUE, !.quiet = FALSE]
       \/ /\ CallGoes(c, "refused", "stop")
          /\ output' = [output EXCEPT !.flag = FALSE, !.quiet = output.on]
    /\ UNCHANGED KeptByCalls

\* stop_transmit up to the join: the output is stopped only if the flag is set.
StopTransmit(c) ==
    /\ CallGoes(c, "stop", IF output.flag THEN "join" ELSE "out")
    /\ output.holder = "free"
    /\ output' = IF output.flag THEN [output EXCEPT !.on = FALSE, !.holder = c] ELSE output
    /\ UNCHANGED KeptByCalls

JoinOutput(c) ==
    /\ CallGoes(c, "join", "out") /\ output.pump \in {"none", "exited"}
    /\ output' = [output EXCEPT !.flag = FALSE, !.pump = "none", !.holder = "free"]
    /\ UNCHANGED KeptByCalls

CallStep(c) ==
    Transmit(c) \/ StartOutput(c) \/ RecordOutput(c) \/ StopTransmit(c) \/ JoinOutput(c)

\* pump_loop: fill_ takes samples from the engine, under its tx_mutex_.
Pump ==
    /\ \/ /\ output.pump = "check"
          /\ output' = [output EXCEPT !.pump = IF output.on THEN "fill" ELSE "exited"]
       \/ /\ output.pump = "fill" /\ output.holder = "free"
          /\ output' = [output EXCEPT !.pump = "check"]
    /\ UNCHANGED call /\ UNCHANGED KeptByCalls

\* The main looper transmits (a heartbeat, an answer) or stops a transmission.
MainCalls ==
    /\ Idle /\ engine # 0
    /\ \E to \in {"in", "stop"} : call' = [call EXCEPT !["main"] = to]
    /\ UNCHANGED output /\ UNCHANGED KeptByCalls

-----------------------------------------------------------------------------
(***************************************************************************)
(* The end of an engine, step by step of the main looper.                  *)
(***************************************************************************)
InCall(e) == (tx.pc = "in" /\ tx.engine = e)
             \/ \E i \in DOMAIN captures : captures[i].pc = "in" /\ captures[i].engine = e

\* The read lock is free for a new reader: no writer holds it or waits for it.
Readable(e) == ~(main.pc = "close" /\ call["main"] = "out" /\ engine = e)

Goes(from, to) ==
    main.pc = from /\ call["main"] = "out" /\ main' = [main EXCEPT !.pc = to]

KeptByMain == <<made, captures, helper, tx, sco, posts, count>>

\* stop_transmit is called by the main looper.
MainStopsTransmit == call' = [call EXCEPT !["main"] = "stop"]

\* JS8Engine.stop, under the read lock.
StopCall ==
    /\ Goes("stop", "close") /\ MainStopsTransmit
    /\ UNCHANGED <<native, engine, worker, output>> /\ UNCHANGED KeptByMain

\* JS8Engine.close: with the write lock, no call is under way.
Close ==
    /\ Goes("close", "destroy") /\ ~InCall(engine)
    /\ native' = [native EXCEPT ![engine].handle = FALSE]
    /\ UNCHANGED <<engine, worker, CallVars>> /\ UNCHANGED KeptByMain

\* Mutant: the engine has been stopped before, so it is not stopped again.
DestroyUnstopped ==
    /\ Goes("destroy", "decode")
    /\ UNCHANGED <<native, engine, worker, CallVars>> /\ UNCHANGED KeptByMain

\* js8_engine_destroy stops the engine: a call may have started the output again.
Destroy ==
    /\ Goes("destroy", "decode") /\ MainStopsTransmit
    /\ UNCHANGED <<native, engine, worker, output>> /\ UNCHANGED KeptByMain

\* What a notification makes of a worker.
Notified(w) == [w EXCEPT !.pc = IF @ = "wait" THEN "check" ELSE @]

\* Mutant: the stop flag is set and nobody notified.
StoppedQuietly(w) == [w EXCEPT !.stop = TRUE, !.queued = FALSE]

\* The flag is set and the queue cleared under the mutex of the worker.
Stopped(w) == Notified([w EXCEPT !.stop = TRUE, !.queued = FALSE])

\* stop_decode_worker and stop_spectrum_worker, in the order of the destructor.
StopWorker(w, join) ==
    /\ Goes(w, join)
    /\ worker' = [worker EXCEPT ![engine][w] = Stopped(@)]
    /\ UNCHANGED <<engine, native, CallVars>> /\ UNCHANGED KeptByMain

JoinWorker(w, join, next) ==
    /\ Goes(join, next) /\ worker[engine][w].pc = "done"
    /\ native' = [native EXCEPT ![engine].life = IF w = "spectrum" THEN "reset" ELSE @]
    /\ UNCHANGED <<engine, worker, CallVars>> /\ UNCHANGED KeptByMain

\* The reference to the callback handler is deleted.
DeleteHandler ==
    /\ Goes("handler", "output")
    /\ native' = [native EXCEPT ![engine].handler = FALSE]
    /\ UNCHANGED <<engine, worker, CallVars>> /\ UNCHANGED KeptByMain

\* The destructor of the output, the next member that has a thread: it stops itself,
\* and joins, without the flag and the mutex of the engine; a thread that was halted and
\* not joined must not be destroyed.
StopPump ==
    /\ Goes("output", "joinOutput")
    /\ output' = [output EXCEPT !.on = FALSE,
                     !.aborted = ~output.on /\ output.pump # "none"]
    /\ UNCHANGED <<engine, native, worker, call>> /\ UNCHANGED KeptByMain

JoinPump ==
    /\ Goes("joinOutput", "scheduler") /\ output.pump \in {"none", "exited"}
    /\ output' = [output EXCEPT !.pump = "none"]
    /\ UNCHANGED <<engine, native, worker, call>> /\ UNCHANGED KeptByMain

\* The destructor of ThreadScheduler: the flag is set without the mutex.
StopScheduler ==
    /\ Goes("scheduler", "notify")
    /\ native' = [native EXCEPT ![engine].running = FALSE]
    /\ UNCHANGED <<engine, worker, CallVars>> /\ UNCHANGED KeptByMain

NotifyScheduler ==
    /\ Goes("notify", "delete")
    /\ native' = [native EXCEPT ![engine].scheduler = IF @ = "wait" THEN "check" ELSE @]
    /\ UNCHANGED <<engine, worker, CallVars>> /\ UNCHANGED KeptByMain

\* The scheduler has been joined: the memory is freed and the field cleared.
Delete ==
    /\ Goes("delete", "idle") /\ native[engine].scheduler = "done"
    /\ native' = [native EXCEPT ![engine].life = "freed"]
    /\ engine' = 0
    /\ UNCHANGED <<worker, CallVars>> /\ UNCHANGED KeptByMain

MainStep ==
    \/ Capture \/ JoinCapture \/ StopCall \/ Close \/ Destroy
    \/ StopWorker("decode", "joinDecode") \/ JoinWorker("decode", "joinDecode", "spectrum")
    \/ StopWorker("spectrum", "joinSpectrum") \/ JoinWorker("spectrum", "joinSpectrum", "handler")
    \/ DeleteHandler \/ StopPump \/ JoinPump \/ StopScheduler \/ NotifyScheduler \/ Delete

-----------------------------------------------------------------------------
(***************************************************************************)
(* The other threads.                                                      *)
(***************************************************************************)
KeptByThreads == <<main, engine, made, output, helper, sco, posts, count>>

CaptureGoes(i, from, to) ==
    /\ captures[i].pc = from
    /\ captures' = [captures EXCEPT ![i].pc = to]

\* recordLoop: it ends when it is told to or when the device fails.
Record(i) ==
    /\ \/ captures[i].recording /\ CaptureGoes(i, "loop", "call")
       \/ CaptureGoes(i, "loop", "done")
    /\ UNCHANGED <<native, call, worker, tx>> /\ UNCHANGED KeptByThreads

\* withNativeHandle: the read lock, and an exception if the engine was closed.
SubmitAudio(i) ==
    LET e == captures[i].engine
    IN /\ Readable(e)
       /\ CaptureGoes(i, "call", IF native[e].handle THEN "in" ELSE "thrown")
       /\ UNCHANGED <<native, call, worker, tx>> /\ UNCHANGED KeptByThreads

\* Mutant: what is queued is not announced.
QueuedQuietly(w) == [w EXCEPT !.queued = TRUE]

\* enqueue_decode and enqueue_spectrum: queued under the mutex, then notify_one.
Queued(w) == Notified([w EXCEPT !.queued = TRUE])

\* submit_capture: samples for the spectrum, for a decode, for both or for none.
Submitted(i) ==
    /\ CaptureGoes(i, "in", "loop")
    /\ \E for \in SUBSET Workers :
         worker' = [worker EXCEPT ![captures[i].engine] =
             [w \in Workers |-> IF w \in for THEN Queued(@[w]) ELSE @[w]]]
    /\ UNCHANGED <<native, call, tx>> /\ UNCHANGED KeptByThreads

\* decode_worker_loop and spectrum_worker_loop: the wait with its predicate.
Check(e, w) ==
    /\ worker[e][w].pc = "check"
    /\ worker' = [worker EXCEPT ![e][w] =
         IF @.stop THEN [@ EXCEPT !.pc = "done"]
         ELSE IF @.queued THEN [@ EXCEPT !.queued = FALSE, !.pc = "emit"]
         ELSE [@ EXCEPT !.pc = "wait"]]
    /\ UNCHANGED <<native, call, captures, tx>> /\ UNCHANGED KeptByThreads

\* The work and its events, through event_callback to the handler.
Emit(e, w) ==
    /\ worker[e][w].pc = "emit"
    /\ worker' = [worker EXCEPT ![e][w].pc = "check"]
    /\ UNCHANGED <<native, call, captures, tx>> /\ UNCHANGED KeptByThreads

\* Js8Tx reads the field of the service and calls the engine later: it transmits or does
\* something else.
TxReads ==
    /\ tx.pc = "idle" /\ engine # 0
    /\ tx' = [pc |-> "read", engine |-> engine]
    /\ UNCHANGED <<native, call, worker, captures>> /\ UNCHANGED KeptByThreads

TxCalls ==
    /\ tx.pc = "read" /\ Readable(tx.engine)
    /\ \/ /\ native[tx.engine].handle
          /\ tx' = [tx EXCEPT !.pc = "in"]
          /\ \E to \in {"in", "out"} : call' = [call EXCEPT !["tx"] = to]
       \/ /\ ~native[tx.engine].handle
          /\ tx' = [tx EXCEPT !.pc = "thrown"]
          /\ UNCHANGED call
    /\ UNCHANGED <<native, worker, captures>> /\ UNCHANGED KeptByThreads

TxReturns ==
    /\ tx.pc = "in" /\ call["tx"] = "out"
    /\ tx' = [pc |-> "idle", engine |-> 0]
    /\ UNCHANGED <<native, call, worker, captures>> /\ UNCHANGED KeptByThreads

\* ThreadScheduler::worker_thread without a timer: nobody in the engine sets one.
\* The predicate is evaluated before the thread waits.
SchedulerStep(e) ==
    /\ \/ /\ native[e].scheduler = "check"
          /\ native' = [native EXCEPT ![e].scheduler =
                            IF native[e].running THEN "decided" ELSE "done"]
       \/ /\ native[e].scheduler = "decided"
          /\ native' = [native EXCEPT ![e].scheduler = "wait"]
    /\ UNCHANGED <<call, worker, captures, tx>> /\ UNCHANGED KeptByThreads

\* Condition variables wake up without a reason.
Spurious(e) ==
    /\ \/ /\ native[e].scheduler = "wait"
          /\ native' = [native EXCEPT ![e].scheduler = "check"]
          /\ UNCHANGED worker
       \/ \E w \in Workers :
          /\ worker[e][w].pc = "wait"
          /\ worker' = [worker EXCEPT ![e][w].pc = "check"]
          /\ UNCHANGED native
    /\ UNCHANGED <<call, captures, tx>> /\ UNCHANGED KeptByThreads

CaptureStep(i) == Record(i) \/ SubmitAudio(i) \/ Submitted(i)
TxStep == TxCalls \/ TxReturns
WorkerStep(e, w) == Check(e, w) \/ Emit(e, w)

Next ==
    /\ ~output.aborted
    /\ \/ StartEngine \/ StopEngine \/ SwitchDevice \/ MainCalls \/ MainStep
       \/ TxReads \/ TxStep \/ Pump
       \/ \E c \in Callers : CallStep(c)
       \/ \E p \in posts : ScoPost(p) \/ SilencePost(p)
       \/ \E i \in DOMAIN captures : CaptureStep(i)
       \/ \E e \in Engines : SchedulerStep(e) \/ Spurious(e)
       \/ \E e \in Engines, w \in Workers : WorkerStep(e, w)

MaxCaptures == MaxEngines + MaxChanges

Spec == Init /\ [][Next]_vars

-----------------------------------------------------------------------------
\* Type correctness.
TypeOK ==
    /\ main.then \in {"idle", "capture", "stop"}
    /\ engine \in 0..made /\ made \in 0..MaxEngines /\ helper \in 0..Len(captures)
    /\ native \in [Engines -> [life : {"none", "live", "reset", "freed"},
         handle : BOOLEAN, handler : BOOLEAN, running : BOOLEAN,
         scheduler : {"none", "check", "decided", "wait", "done"}]]
    /\ call \in [Callers -> {"out", "in", "start", "started", "refused", "stop", "join"}]
    /\ output \in [flag : BOOLEAN, on : BOOLEAN, pump : {"none", "check", "fill", "exited"},
         holder : Callers \cup {"free"}, quiet : BOOLEAN, aborted : BOOLEAN]
    /\ worker \in [Engines -> [Workers -> [stop : BOOLEAN, queued : BOOLEAN,
         pc : {"none", "check", "wait", "emit", "done"}]]]
    /\ \A i \in DOMAIN captures : captures[i].engine \in Engines
    /\ tx.pc \in {"idle", "read", "in", "thrown"} /\ Len(captures) <= MaxCaptures

\* The engine is there with all it calls.
Alive(e) == e # 0 /\ native[e].life = "live" /\ native[e].handler

\* Nothing is used after its end: a thread in a native call or a worker has a live
\* engine, a worker that emits has the callback handler, the output has the engine
\* it takes its samples from, the scheduler its memory; and no capture calls an
\* engine that was closed: the exception is caught nowhere and would end the app.
\* But for an output that the engine believes not to be started (OutputStoppedFirst).
NothingDangles ==
    /\ \A i \in DOMAIN captures : captures[i].pc # "thrown"
    /\ \A e \in Engines :
          /\ InCall(e) => native[e].life = "live"
          /\ \A w \in Workers : worker[e][w].pc \notin {"none", "done"} => Alive(e)
          /\ native[e].scheduler \notin {"none", "done"} => native[e].life # "freed"
    /\ output.pump # "none" => Alive(engine) \/ output.quiet
    /\ \A c \in Callers : call[c] # "out" => Alive(engine)

\* "Stop engine first" (js8_engine_destroy): the engine is not destroyed while the
\* output takes samples from it.
OutputStoppedFirst == output.pump = "fill" => Alive(engine)

\* One capture at a time feeds the engine, whatever waits for SCO and checks of
\* silence were posted before the device was changed or the engine restarted.
OneCapture ==
    Cardinality({i \in DOMAIN captures : captures[i].pc # "done"}) <= 1

\* The notification of ThreadScheduler came after the predicate and before the wait.
LostWakeUp ==
    main.pc = "delete" /\ native[engine].scheduler = "wait" /\ ~native[engine].running

\* stop_transmit joins a thread that waits for the mutex the caller keeps.
JoinStuck == output.holder # "free" /\ output.pump = "fill"

\* A call that waits for tx_mutex_, or joins, waits for an output that was told to end
\* and is on its way to see it.
CallsEnd ==
    \A c \in Callers :
        call[c] = "join" \/ (call[c] \in {"in", "stop"} /\ output.holder # "free")
            => ~output.on /\ output.pump \in {"check", "exited"}

\* The thread has been told to end and is awake.
CaptureEnds(i) ==
    \/ captures[i].pc = "done"
    \/ /\ ~captures[i].recording /\ captures[i].pc # "thrown"
       /\ captures[i].pc = "call" => Readable(captures[i].engine)
WorkerEnds(w) == worker[engine][w].stop /\ worker[engine][w].pc \notin {"none", "wait"}

\* Stopping the engine comes to an end: whomever the main looper joins or locks out has
\* been told to end, is awake and waits for nobody who waits for the main looper, except
\* for the scheduler whose wake-up is lost and an output that is joined while it waits
\* for the mutex (the deadlock of StopReturns in TxEngine), by either caller.
StopNeverStuck ==
    ~output.aborted /\ ~JoinStuck /\ ~LostWakeUp =>
        /\ CallsEnd
        /\ main.pc = "join" /\ helper # 0 => CaptureEnds(helper)
        /\ main.pc = "close" /\ call["main"] = "out" /\ InCall(engine) => tx.pc = "in"
        /\ main.pc = "joinDecode" => WorkerEnds("decode")
        /\ main.pc = "joinSpectrum" => WorkerEnds("spectrum")
        /\ main.pc = "joinOutput" => ~output.on /\ output.holder = "free"
        /\ main.pc = "delete" => ~native[engine].running

\* A worker never sleeps on its work: it is awake as long as something is queued,
\* whether it came after the predicate and before the wait, while it emitted, or while
\* the engine is being stopped; and its end leaves nothing behind.
WorkersAwake ==
    \A e \in Engines, w \in Workers :
        worker[e][w].queued => worker[e][w].pc \in {"check", "emit"}
=============================================================================
