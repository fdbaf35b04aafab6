------------------------------- MODULE TxEngine -------------------------------
(***************************************************************************)
(* The transmit side of core/src/engine/engine.cpp with the modulator of   *)
(* core/src/tx/modulator.cpp and the pump output of                        *)
(* adapters/android/jni/js8_engine_jni.cpp: several threads of the service *)
(* call transmit_message, start_tune, stop_transmit and set_tx_ready while *)
(* the pump thread pulls audio.                                            *)
(*                                                                         *)
(* tx_mutex_ guards the queue, the settings and the modulator.             *)
(* start_tx_output runs WITHOUT it, and stop_transmit stops the output,    *)
(* joining the pump thread, WHILE holding it; both are kept as they are.   *)
(*                                                                         *)
(* One unit of silent and ic is one call of next_tx_sample_locked; the     *)
(* pump renders one unit each time it takes tx_mutex_ (a real buffer holds *)
(* 192 samples, so every interleaving of buffers is one of units).         *)
(***************************************************************************)
EXTENDS Naturals, Sequences

CONSTANTS
  Callers,        \* threads of the service that call the engine
  MaxFrames,      \* bound: frames of the longest message
  MaxRequests,    \* bound: no request begins once this many were accepted
  SlotWaits,      \* the silent units Modulator::start may compute
  FrameLen,       \* units of one modulated frame
  Lead            \* silent units that count as "PTT lead time"

\* Every start waits: the shortest start delay is 100 ms, so silent_frames_
\* is never as small as one unit.
ASSUME TxEngineAssumption ==
  /\ "free" \notin Callers
  /\ MaxFrames \in Nat \ {0}
  /\ MaxRequests \in Nat
  /\ SlotWaits \subseteq Nat \ {0, 1} /\ SlotWaits # {}
  /\ FrameLen \in Nat \ {0}
  /\ Lead \in Nat \ {0}

VARIABLES
  \* Js8EngineImpl
  txMutex,        \* tx_mutex_: the caller that keeps it across steps, or Free
  txQueue,        \* tx_queue_: the frames still to be modulated
  tuning,         \* tx_settings_.tuning
  txActive,       \* tx_active_
  txReady,        \* tx_ready_
  outputStarted,  \* tx_output_started_, written without the lock
  \* Modulator
  modState,       \* state_
  silent,         \* silent_frames_
  ic,             \* ic_; not counted while tuning, where it decides nothing
  loaded,         \* the frame whose tones_ the modulator holds
  \* PumpAudioOutput
  running,        \* running_
  pumpPc,         \* where its worker_ thread is; "none" when not joinable
  \* the callers
  pc,             \* where each caller is
  req,            \* frames of its request, 0 for a tuning tone
  startOk,        \* what AudioOutput::start returned to it
  issued,         \* requests accepted under the lock: the id of the newest
  aborted         \* std::terminate was called

engineVars == <<txMutex, txQueue, tuning, txActive, txReady>>
modVars    == <<modState, silent, ic, loaded>>
pumpVars   == <<running, pumpPc>>
callVars   == <<pc, req, startOk>>
vars == <<engineVars, outputStarted, modVars, pumpVars, callVars, issued, aborted>>

Free == "free"
Frame == [req : Nat, idx : 0 .. MaxFrames]
NoFrame == [req |-> 0, idx |-> 0]

TypeOK ==
  /\ txMutex \in Callers \cup {Free}
  /\ txQueue \in Seq(Frame) /\ Len(txQueue) < MaxFrames
  /\ tuning \in BOOLEAN /\ txActive \in BOOLEAN /\ txReady \in BOOLEAN
  /\ outputStarted \in BOOLEAN
  /\ modState \in {"Idle", "Synchronizing", "Active"}
  /\ silent \in Nat
  /\ ic \in 0 .. FrameLen
  /\ loaded \in Frame
  /\ running \in BOOLEAN
  /\ pumpPc \in {"none", "check", "fill", "exited"}
  /\ pc \in [Callers -> {"rest", "submit", "output", "start", "record",
                         "stop", "halt", "join"}]
  /\ req \in [Callers -> 0 .. MaxFrames]
  /\ startOk \in [Callers -> BOOLEAN]
  /\ issued \in Nat
  /\ aborted \in BOOLEAN

Init ==
  /\ txMutex = Free /\ txQueue = <<>> /\ tuning = FALSE
  /\ txActive = FALSE /\ txReady = TRUE /\ outputStarted = FALSE
  /\ modState = "Idle" /\ silent = 0 /\ ic = 0 /\ loaded = NoFrame
  /\ running = FALSE /\ pumpPc = "none"
  /\ pc = [c \in Callers |-> "rest"]
  /\ req = [c \in Callers |-> 0]
  /\ startOk = [c \in Callers |-> FALSE]
  /\ issued = 0
  /\ aborted = FALSE

Goto(c, label) == pc' = [pc EXCEPT ![c] = label]

-----------------------------------------------------------------------------
(* Modulator.  Both operators assign the modulator's variables.            *)

\* Modulator::start with a frame: wait for the slot.
ModulatorStart(frame) ==
  /\ loaded' = frame
  /\ ic' = 0
  /\ \E w \in SlotWaits : silent' = w
  /\ modState' = "Synchronizing"

\* Modulator::start with the tuning flag: no slot to wait for.
ModulatorTune ==
  /\ loaded' = NoFrame
  /\ ic' = 0
  /\ silent' = 0
  /\ modState' = "Active"

ModulatorStop ==
  /\ modState' = "Idle"
  /\ silent' = 0
  /\ ic' = 0
  /\ UNCHANGED loaded

FrameSentLate == ic = FrameLen + 1  \* mutation: > for >=

FrameSent == ic = FrameLen

\* Modulator::next_sample in the states Synchronizing and Active.
NextSample ==
  \/ /\ modState = "Synchronizing"
     /\ silent' = silent - 1
     /\ modState' = IF silent = 1 THEN "Active" ELSE modState
     /\ UNCHANGED <<ic, loaded>>
  \/ /\ modState = "Active" /\ tuning
     /\ UNCHANGED modVars
  \/ /\ modState = "Active" /\ ~tuning /\ ~FrameSent
     /\ ic' = ic + 1
     /\ UNCHANGED <<modState, silent, loaded>>
  \/ /\ modState = "Active" /\ ~tuning /\ FrameSent
     /\ modState' = "Idle"
     /\ UNCHANGED <<silent, ic, loaded>>

-----------------------------------------------------------------------------
(* Requests.                                                               *)

FramesOf(id, n) == [i \in 1 .. n |-> [req |-> id, idx |-> i]]

QueueAppended(built) == txQueue \o built  \* mutation: no tx_queue_.clear()

\* The queue a message leaves behind: its own frames, the old ones dropped.
QueueReplaced(built) == built

\* A service thread calls transmit_message or transmit_frame (n frames built
\* outside the lock) or start_tune (n = 0).
Request(c, n) ==
  /\ pc[c] = "rest"
  /\ issued < MaxRequests
  /\ req' = [req EXCEPT ![c] = n]
  /\ Goto(c, "submit")
  /\ UNCHANGED <<engineVars, outputStarted, modVars, pumpVars, startOk, issued, aborted>>

\* The critical section of transmit_message: the whole queue is replaced and
\* its first frame goes to the modulator.
SubmitMessage(c) ==
  /\ pc[c] = "submit" /\ req[c] > 0
  /\ txMutex = Free
  /\ issued' = issued + 1
  /\ LET built == FramesOf(issued + 1, req[c]) IN
       /\ txQueue' = Tail(QueueReplaced(built))
       /\ ModulatorStart(Head(QueueReplaced(built)))
  /\ tuning' = FALSE
  /\ txActive' = TRUE
  /\ Goto(c, "output")
  /\ UNCHANGED <<txMutex, txReady, outputStarted, pumpVars, req, startOk, aborted>>

\* The critical section of start_tune.
SubmitTune(c) ==
  /\ pc[c] = "submit" /\ req[c] = 0
  /\ txMutex = Free
  /\ issued' = issued + 1
  /\ txQueue' = <<>>
  /\ ModulatorTune
  /\ tuning' = TRUE
  /\ txActive' = TRUE
  /\ Goto(c, "output")
  /\ UNCHANGED <<txMutex, txReady, outputStarted, pumpVars, req, startOk, aborted>>

\* start_tx_output reads tx_output_started_; if it is set the request is done.
CheckOutput(c) ==
  /\ pc[c] = "output"
  /\ Goto(c, IF outputStarted THEN "rest" ELSE "start")
  /\ UNCHANGED <<engineVars, outputStarted, modVars, pumpVars, req, startOk, issued, aborted>>

\* PumpAudioOutput::start.  Assigning worker_ while the previous thread has
\* not been joined ends the process.
StartOutput(c) ==
  /\ pc[c] = "start"
  /\ Goto(c, "record")
  /\ startOk' = [startOk EXCEPT ![c] = ~running]
  /\ \/ /\ running
        /\ UNCHANGED <<pumpVars, aborted>>
     \/ /\ ~running /\ pumpPc = "none"
        /\ running' = TRUE
        /\ pumpPc' = "check"
        /\ UNCHANGED aborted
     \/ /\ ~running /\ pumpPc # "none"
        /\ running' = TRUE
        /\ aborted' = TRUE
        /\ UNCHANGED pumpPc
  /\ UNCHANGED <<engineVars, outputStarted, modVars, req, issued>>

\* tx_output_started_ = ok; a failed start makes the request stop everything.
RecordOutput(c) ==
  /\ pc[c] = "record"
  /\ outputStarted' = startOk[c]
  /\ Goto(c, IF startOk[c] THEN "rest" ELSE "stop")
  /\ UNCHANGED <<engineVars, modVars, pumpVars, req, startOk, issued, aborted>>

-----------------------------------------------------------------------------
(* stop_transmit.                                                          *)

CallStop(c) ==
  /\ pc[c] = "rest"
  /\ Goto(c, "stop")
  /\ UNCHANGED <<engineVars, outputStarted, modVars, pumpVars, req, startOk, issued, aborted>>

\* Up to the call of audio_out->stop(), for which the lock is kept.
StopTransmit(c) ==
  /\ pc[c] = "stop"
  /\ txMutex = Free
  /\ txActive' = FALSE
  /\ txQueue' = <<>>
  /\ tuning' = FALSE
  /\ ModulatorStop
  /\ IF outputStarted THEN Goto(c, "halt") /\ txMutex' = c
                      ELSE Goto(c, "rest") /\ UNCHANGED txMutex
  /\ UNCHANGED <<txReady, outputStarted, pumpVars, req, startOk, issued, aborted>>

\* PumpAudioOutput::stop tells its thread to leave.  Its early return for an
\* output that does not run is never taken here: the flag was set, so it runs
\* (FlagImpliesOutput).
HaltOutput(c) ==
  /\ pc[c] = "halt"
  /\ running' = FALSE
  /\ Goto(c, "join")
  /\ UNCHANGED <<engineVars, outputStarted, modVars, pumpPc, req, startOk, issued, aborted>>

\* worker_.join() returns, tx_output_started_ becomes flag, the lock is released.
Joined(c, flag) ==
  /\ pc[c] = "join"
  /\ pumpPc \in {"none", "exited"}
  /\ pumpPc' = "none"
  /\ outputStarted' = flag
  /\ txMutex' = Free
  /\ Goto(c, "rest")
  /\ UNCHANGED <<txQueue, tuning, txActive, txReady, modVars, running, req, startOk,
                 issued, aborted>>

JoinOutputKeepsFlag(c) == Joined(c, outputStarted)  \* mutation: flag not cleared

JoinOutput(c) == Joined(c, FALSE)

\* set_tx_ready is one atomic store, callable at any time.
SetTxReady(b) ==
  /\ txReady' = b
  /\ UNCHANGED <<txMutex, txQueue, tuning, txActive, outputStarted, modVars, pumpVars,
                 callVars, issued, aborted>>

-----------------------------------------------------------------------------
(* The pump thread.                                                        *)

\* The top of pump_loop.
PumpCheck ==
  /\ pumpPc = "check"
  /\ pumpPc' = IF running THEN "fill" ELSE "exited"
  /\ UNCHANGED <<engineVars, outputStarted, modVars, running, callVars, issued, aborted>>

\* render_tx_audio for one unit: next_tx_sample_locked under tx_mutex_.
Render(step) ==
  /\ pumpPc = "fill"
  /\ txMutex = Free
  /\ pumpPc' = "check"
  /\ step
  /\ UNCHANGED <<txMutex, tuning, txReady, outputStarted, running, callVars, issued, aborted>>

GateIgnored == FALSE  \* mutation: tx_ready_ is not tested

\* The test of tx_ready_ in next_tx_sample_locked.
GateHolds == modState = "Active" /\ ~txReady

\* No session, or the gate holds an active modulator: silence.
Silence ==
  /\ ~txActive \/ GateHolds
  /\ UNCHANGED <<txActive, txQueue, modVars>>

\* The modulator has finished its frame and another one waits.  The code goes
\* on to draw the first silent sample of the new frame: SlotWaits counts it in.
StartNextFrame ==
  /\ txActive /\ modState = "Idle" /\ txQueue # <<>>
  /\ ModulatorStart(Head(txQueue))
  /\ txQueue' = Tail(txQueue)
  /\ UNCHANGED txActive

LastFrameSent == txActive /\ modState = "Idle" /\ txQueue = <<>> /\ ~tuning

EndSessionKeepsActive ==  \* mutation: tx_active_ stays set
  LastFrameSent /\ UNCHANGED <<txActive, txQueue, modVars>>

EndSession ==
  /\ LastFrameSent
  /\ txActive' = FALSE
  /\ UNCHANGED <<txQueue, modVars>>

Sample ==
  /\ txActive
  /\ ~GateHolds
  /\ NextSample
  /\ UNCHANGED <<txActive, txQueue>>

Pump ==
  \/ PumpCheck
  \/ Render(Silence)
  \/ Render(StartNextFrame)
  \/ Render(EndSession)
  \/ Render(Sample)

-----------------------------------------------------------------------------
\* What a caller goes on with once it has entered a call.
CallStep(c) ==
  \/ SubmitMessage(c) \/ SubmitTune(c)
  \/ CheckOutput(c) \/ StartOutput(c) \/ RecordOutput(c)
  \/ StopTransmit(c) \/ HaltOutput(c) \/ JoinOutput(c)

Next ==
  /\ ~aborted
  /\ \/ \E c \in Callers, n \in 0 .. MaxFrames : Request(c, n)
     \/ \E c \in Callers : CallStop(c)
     \/ \E c \in Callers : CallStep(c)
     \/ \E b \in BOOLEAN : SetTxReady(b)
     \/ Pump

Spec == Init /\ [][Next]_vars

\* Threads that are not blocked go on: the operating system schedules them.
FairSpec ==
  /\ Spec
  /\ WF_vars(~aborted /\ Pump)
  /\ \A c \in Callers : WF_vars(~aborted /\ CallStep(c))

-----------------------------------------------------------------------------
(* Properties.                                                             *)

\* No session, nothing left behind: once tx_active_ is false, by whatever
\* path, the queue is empty and the modulator idle, so the next session
\* cannot begin with a frame of an earlier one.
IdleIsClean ==
  ~txActive => txQueue = <<>> /\ modState = "Idle" /\ ~tuning

\* An accepted transmission has an output to be played on: while a session is
\* active and no caller is still inside start_tx_output, the pump is running,
\* whatever stop_transmit and start_tx_output did to each other.
AcceptedHasOutput ==
  \/ ~txActive
  \/ aborted
  \/ \E c \in Callers : pc[c] \in {"output", "start", "record"}
  \/ running

\* The flag start_tx_output trusts is never ahead of the output: when it is
\* set the pump runs, except while the stop that will clear it is under way.
FlagImpliesOutput ==
  outputStarted => running \/ aborted \/ \E c \in Callers : pc[c] = "join"

\* On the air, frames follow the order of the newest request: the modulator is
\* given the next frame of its message only after the one before was sent to
\* its last sample, and otherwise the first frame of a newer request.
FrameOrder ==
  [][loaded' # loaded /\ loaded' # NoFrame =>
       \/ /\ loaded'.req = loaded.req
          /\ loaded'.idx = loaded.idx + 1
          /\ ic = FrameLen
       \/ /\ loaded'.req = issued'
          /\ issued' = issued + 1
          /\ loaded'.idx = 1]_vars

\* With the gate left open a session comes to its end (or is replaced by a
\* tuning tone, or the process is gone): no frame is left waiting.
SessionsEnd ==
  <>[]txReady => ((txActive /\ ~tuning) ~> (~txActive \/ tuning \/ aborted))

\* stop_transmit returns, as every caller of it takes for granted.
StopReturns ==
  \A c \in Callers : (pc[c] = "stop") ~> (pc[c] = "rest" \/ aborted)

\* While every thread is between calls, the next request will get its output:
\* start_tx_output finds its flag set or an output it can start.  Two callers in
\* start_tx_output at once break it (README, section 3).
QuietRequestAccepted ==
  (\A c \in Callers : pc[c] = "rest") => outputStarted \/ ~running

-----------------------------------------------------------------------------
(* The engine implements TxSession.                                        *)

SessionPhase ==
  IF ~txActive THEN "idle"
  ELSE IF modState = "Idle" THEN "gap"
  ELSE IF modState = "Active" THEN "active"
  ELSE IF silent <= Lead THEN "near" ELSE "far"

Session == INSTANCE TxSession WITH
  phase <- SessionPhase, frames <- Len(txQueue), ready <- txReady

\* Every step of the engine is a step of the session it promises.
ImplementsSession == Session!SessionSpec
=============================================================================
