--------------------------- MODULE TxEngineProofs ---------------------------
(***************************************************************************)
(* Theorems about TxEngine: type correctness, IdleIsClean,                 *)
(* AcceptedHasOutput, FlagImpliesOutput, FrameOrder and the refinement of  *)
(* TxSession, for every number of callers, frames, requests and slots.     *)
(*                                                                         *)
(* The argument needs to know who may be between the two writes that       *)
(* start_tx_output and stop_transmit make without a common lock.  Handshake *)
(* says it: at most one caller is between a successful start and the flag, *)
(* and then nobody is stopping; whoever stops the output holds tx_mutex_   *)
(* and has already ended the session.                                      *)
(***************************************************************************)
EXTENDS TxEngine, SequenceTheorems, TLAPS

Stopping(c)  == pc[c] \in {"halt", "join"}
Recording(c) == pc[c] = "record" /\ startOk[c]

\* tx_mutex_ is kept across steps exactly by the caller that stops the output.
MutexHolder == \A c \in Callers : Stopping(c) <=> txMutex = c

\* The session is ended before the output is stopped.
StopAfterSession == \A c \in Callers : Stopping(c) => ~txActive

\* Nobody else touches the output between a successful start and its flag.
StartExclusive ==
  \A c \in Callers : Recording(c) =>
    /\ running /\ ~outputStarted
    /\ \A d \in Callers : Recording(d) => d = c
    /\ \A d \in Callers : ~Stopping(d)

\* running_ follows the two halves of PumpAudioOutput::stop.
StopHalves ==
  /\ \A c \in Callers : pc[c] = "halt" => running
  /\ \A c \in Callers : pc[c] = "join" => ~running

FlagBacked == outputStarted => running \/ \E c \in Callers : pc[c] = "join"

\* worker_ is joinable exactly while the pump runs or is being joined.
WorkerJoinable ==
  pumpPc = "none" <=> ~running /\ \A c \in Callers : pc[c] # "join"

\* An active session has its output, or a caller that is about to see to it.
SessionServed ==
  txActive => running \/ \E c \in Callers : pc[c] \in {"output", "start"}

Handshake ==
  /\ MutexHolder
  /\ StopAfterSession
  /\ StartExclusive
  /\ StopHalves
  /\ FlagBacked
  /\ WorkerJoinable
  /\ SessionServed

SlotAhead == modState = "Synchronizing" => silent > 0

IInv ==
  /\ TypeOK
  /\ SlotAhead
  /\ IdleIsClean
  /\ aborted \/ Handshake

-----------------------------------------------------------------------------
(* Sequences of frames.                                                    *)

\* The frames built for a request are a queue of as many frames as it has.
LEMMA FramesOfType ==
  ASSUME NEW id \in Nat, NEW n \in 1 .. MaxFrames
  PROVE  /\ FramesOf(id, n) \in Seq(Frame)
         /\ Len(FramesOf(id, n)) = n
         /\ Head(FramesOf(id, n)) \in Frame
         /\ Tail(FramesOf(id, n)) \in Seq(Frame)
         /\ Len(Tail(FramesOf(id, n))) = n - 1
<1> DEFINE q == FramesOf(id, n)
<1>1. \A i \in 1 .. n : [req |-> id, idx |-> i] \in Frame
  BY TxEngineAssumption DEF Frame
<1>2. q \in Seq(Frame) /\ Len(q) = n
  BY <1>1 DEF FramesOf
<1>3. q # <<>>
  BY <1>2, EmptySeq
<1> QED
  BY <1>2, <1>3, HeadTailProperties

\* ModulatorStart keeps the modulator's variables in their types.
LEMMA ModulatorStartType ==
  ASSUME NEW frame \in Frame, ModulatorStart(frame)
  PROVE  /\ modState' = "Synchronizing"
         /\ silent' \in Nat /\ silent' > 1
         /\ ic' \in 0 .. FrameLen
         /\ loaded' \in Frame
BY TxEngineAssumption DEF ModulatorStart

-----------------------------------------------------------------------------
(* Types.                                                                  *)

LEMMA InitInv == Init => IInv
<1> SUFFICES ASSUME Init PROVE IInv
  OBVIOUS
<1>1. TypeOK
  <2>1. txQueue \in Seq(Frame) /\ Len(txQueue) < MaxFrames
    BY EmptySeq, TxEngineAssumption DEF Init
  <2>2. loaded \in Frame
    BY TxEngineAssumption DEF Init, Frame, NoFrame
  <2>3. /\ txMutex = Free /\ tuning = FALSE /\ txActive = FALSE /\ txReady = TRUE
        /\ outputStarted = FALSE /\ modState = "Idle" /\ silent = 0 /\ ic \in 0 .. FrameLen
        /\ running = FALSE /\ pumpPc = "none" /\ issued = 0 /\ aborted = FALSE
    BY TxEngineAssumption DEF Init
  <2>4. /\ pc \in [Callers -> {"rest", "submit", "output", "start", "record",
                               "stop", "halt", "join"}]
        /\ req \in [Callers -> 0 .. MaxFrames]
        /\ startOk \in [Callers -> BOOLEAN]
    BY TxEngineAssumption DEF Init
  <2> QED
    BY <2>1, <2>2, <2>3, <2>4 DEF TypeOK
<1>2. SlotAhead /\ IdleIsClean
  BY DEF Init, SlotAhead, IdleIsClean
<1>3. Handshake
  BY TxEngineAssumption DEF Init, Handshake, MutexHolder, StopAfterSession, StartExclusive,
     StopHalves, FlagBacked, WorkerJoinable, SessionServed, Stopping, Recording, Free
<1> QED
  BY <1>1, <1>2, <1>3 DEF IInv

LEMMA TypeStep ==
  ASSUME TypeOK, SlotAhead, [Next]_vars
  PROVE  TypeOK' /\ SlotAhead'
<1> USE DEF TypeOK, SlotAhead, Goto, engineVars, modVars, pumpVars, callVars
<1>1. CASE UNCHANGED vars
  BY <1>1 DEF vars
<1>2. ASSUME NEW c \in Callers, NEW n \in 0 .. MaxFrames, Request(c, n)
      PROVE  TypeOK' /\ SlotAhead'
  BY <1>2 DEF Request
<1>3. ASSUME NEW c \in Callers, CallStop(c)
      PROVE  TypeOK' /\ SlotAhead'
  BY <1>3 DEF CallStop
<1>4. ASSUME NEW c \in Callers, CallStep(c)
      PROVE  TypeOK' /\ SlotAhead'
  <2>1. CASE SubmitMessage(c)
    <3> DEFINE q == FramesOf(issued + 1, req[c])
    <3>1. req[c] \in 1 .. MaxFrames /\ issued + 1 \in Nat
      BY <2>1 DEF SubmitMessage
    <3>2. Head(q) \in Frame /\ Tail(q) \in Seq(Frame) /\ Len(Tail(q)) = req[c] - 1
      BY <3>1, FramesOfType
    <3>3. txQueue' = Tail(q) /\ ModulatorStart(Head(q))
      BY <2>1 DEF SubmitMessage, QueueReplaced
    <3>4. /\ modState' = "Synchronizing" /\ silent' \in Nat /\ silent' > 1
          /\ ic' \in 0 .. FrameLen /\ loaded' \in Frame
      BY <3>2, <3>3, ModulatorStartType
    <3>5. txQueue' \in Seq(Frame) /\ Len(txQueue') < MaxFrames
      BY <3>1, <3>2, <3>3, TxEngineAssumption
    <3>6. issued' \in Nat
      BY <2>1 DEF SubmitMessage
    <3>7. pc' \in [Callers -> {"rest", "submit", "output", "start", "record",
                              "stop", "halt", "join"}]
      BY <2>1 DEF SubmitMessage
    <3>8. /\ txMutex' \in Callers \cup {Free}
          /\ tuning' \in BOOLEAN /\ txActive' \in BOOLEAN /\ txReady' \in BOOLEAN
          /\ outputStarted' \in BOOLEAN /\ running' \in BOOLEAN /\ aborted' \in BOOLEAN
          /\ pumpPc' \in {"none", "check", "fill", "exited"}
          /\ req' \in [Callers -> 0 .. MaxFrames] /\ startOk' \in [Callers -> BOOLEAN]
      BY <2>1 DEF SubmitMessage
    <3> HIDE DEF q
    <3> QED
      BY <3>4, <3>5, <3>6, <3>7, <3>8
  <2>2. CASE SubmitTune(c)
    <3>1. txQueue' \in Seq(Frame) /\ Len(txQueue') < MaxFrames
      BY <2>2, EmptySeq, TxEngineAssumption DEF SubmitTune
    <3>2. /\ modState' = "Active" /\ silent' = 0 /\ ic' \in 0 .. FrameLen
          /\ loaded' \in Frame
      BY <2>2, TxEngineAssumption DEF SubmitTune, ModulatorTune, NoFrame, Frame
    <3> QED
      BY <2>2, <3>1, <3>2 DEF SubmitTune
  <2>3. CASE CheckOutput(c)
    BY <2>3 DEF CheckOutput
  <2>4. CASE StartOutput(c)
    <3>1. pc' \in [Callers -> {"rest", "submit", "output", "start", "record",
                              "stop", "halt", "join"}]
      BY <2>4 DEF StartOutput
    <3>2. startOk' \in [Callers -> BOOLEAN]
      BY <2>4 DEF StartOutput
    <3>3. /\ running' \in BOOLEAN /\ aborted' \in BOOLEAN
          /\ pumpPc' \in {"none", "check", "fill", "exited"}
      BY <2>4 DEF StartOutput
    <3>4. UNCHANGED <<engineVars, outputStarted, modVars, req, issued>>
      BY <2>4 DEF StartOutput
    <3> QED
      BY <3>1, <3>2, <3>3, <3>4
  <2>5. CASE RecordOutput(c)
    BY <2>5 DEF RecordOutput
  <2>6. CASE StopTransmit(c)
    <3>1. txQueue' \in Seq(Frame) /\ Len(txQueue') < MaxFrames
      BY <2>6, EmptySeq, TxEngineAssumption DEF StopTransmit
    <3>2. /\ modState' = "Idle" /\ silent' = 0 /\ ic' \in 0 .. FrameLen
          /\ loaded' \in Frame
      BY <2>6, TxEngineAssumption DEF StopTransmit, ModulatorStop
    <3>3. txMutex' \in Callers \cup {Free} /\ pc' \in [Callers -> {"rest", "submit",
            "output", "start", "record", "stop", "halt", "join"}]
      BY <2>6 DEF StopTransmit
    <3>4. /\ tuning' = FALSE /\ txActive' = FALSE
          /\ UNCHANGED <<txReady, outputStarted, pumpVars, req, startOk, issued, aborted>>
      BY <2>6 DEF StopTransmit
    <3> QED
      BY <3>1, <3>2, <3>3, <3>4
  <2>7. CASE HaltOutput(c)
    BY <2>7 DEF HaltOutput
  <2>8. CASE JoinOutput(c)
    BY <2>8 DEF JoinOutput, Joined
  <2> QED
    BY <1>4, <2>1, <2>2, <2>3, <2>4, <2>5, <2>6, <2>7, <2>8 DEF CallStep
<1>5. ASSUME NEW b \in BOOLEAN, SetTxReady(b)
      PROVE  TypeOK' /\ SlotAhead'
  BY <1>5 DEF SetTxReady
<1>6. CASE Pump
  <2>1. CASE PumpCheck
    BY <2>1 DEF PumpCheck
  <2>2. CASE Render(Silence)
    BY <2>2 DEF Render, Silence
  <2>3. CASE Render(StartNextFrame)
    <3>1. Head(txQueue) \in Frame /\ Tail(txQueue) \in Seq(Frame)
          /\ Len(Tail(txQueue)) = Len(txQueue) - 1
      BY <2>3, HeadTailProperties DEF Render, StartNextFrame
    <3>2. txQueue' = Tail(txQueue) /\ ModulatorStart(Head(txQueue))
      BY <2>3 DEF Render, StartNextFrame
    <3>3. /\ modState' = "Synchronizing" /\ silent' \in Nat /\ silent' > 1
          /\ ic' \in 0 .. FrameLen /\ loaded' \in Frame
      BY <3>1, <3>2, ModulatorStartType
    <3>4. txQueue' \in Seq(Frame) /\ Len(txQueue') < MaxFrames
      BY <3>1, <3>2, TxEngineAssumption, LenProperties
    <3> QED
      BY <2>3, <3>3, <3>4 DEF Render, StartNextFrame
  <2>4. CASE Render(EndSession)
    BY <2>4 DEF Render, EndSession
  <2>5. CASE Render(Sample)
    <3>1. /\ modState' \in {"Idle", "Synchronizing", "Active"}
          /\ silent' \in Nat /\ (modState' = "Synchronizing" => silent' > 0)
          /\ ic' \in 0 .. FrameLen /\ loaded' = loaded
      BY <2>5, TxEngineAssumption DEF Render, Sample, NextSample, FrameSent
    <3> QED
      BY <2>5, <3>1 DEF Render, Sample
  <2> QED
    BY <1>6, <2>1, <2>2, <2>3, <2>4, <2>5 DEF Pump
<1> QED
  BY <1>1, <1>2, <1>3, <1>4, <1>5, <1>6 DEF Next

\* TypeOK holds in every reachable state.
THEOREM TypeCorrect == Spec => []TypeOK
<1>1. Init => TypeOK /\ SlotAhead
  BY InitInv DEF IInv
<1>2. TypeOK /\ SlotAhead /\ [Next]_vars => (TypeOK /\ SlotAhead)'
  BY TypeStep
<1> QED
  BY <1>1, <1>2, PTL DEF Spec

-----------------------------------------------------------------------------
(* A session that is over leaves nothing behind.                           *)

LEMMA CleanStep ==
  ASSUME TypeOK, IdleIsClean, [Next]_vars
  PROVE  IdleIsClean'
<1> USE DEF IdleIsClean, engineVars, modVars
<1>1. CASE UNCHANGED vars
  BY <1>1 DEF vars
<1>2. ASSUME NEW c \in Callers, NEW n \in 0 .. MaxFrames, Request(c, n)
      PROVE  IdleIsClean'
  BY <1>2 DEF Request
<1>3. ASSUME NEW c \in Callers, CallStop(c)
      PROVE  IdleIsClean'
  BY <1>3 DEF CallStop
<1>4. ASSUME NEW c \in Callers, CallStep(c)
      PROVE  IdleIsClean'
  <2>1. CASE SubmitMessage(c) \/ SubmitTune(c)
    BY <2>1 DEF SubmitMessage, SubmitTune
  <2>2. CASE CheckOutput(c) \/ StartOutput(c) \/ RecordOutput(c)
    BY <2>2 DEF CheckOutput, StartOutput, RecordOutput
  <2>3. CASE StopTransmit(c)
    BY <2>3 DEF StopTransmit, ModulatorStop
  <2>4. CASE HaltOutput(c) \/ JoinOutput(c)
    BY <2>4 DEF HaltOutput, JoinOutput, Joined
  <2> QED
    BY <1>4, <2>1, <2>2, <2>3, <2>4 DEF CallStep
<1>5. ASSUME NEW b \in BOOLEAN, SetTxReady(b)
      PROVE  IdleIsClean'
  BY <1>5 DEF SetTxReady
<1>6. CASE Pump
  <2>1. CASE PumpCheck \/ Render(Silence)
    BY <2>1 DEF PumpCheck, Render, Silence
  <2>2. CASE Render(StartNextFrame) \/ Render(Sample)
    BY <2>2 DEF Render, StartNextFrame, Sample
  <2>3. CASE Render(EndSession)
    BY <2>3 DEF Render, EndSession, LastFrameSent
  <2> QED
    BY <1>6, <2>1, <2>2, <2>3 DEF Pump
<1> QED
  BY <1>1, <1>2, <1>3, <1>4, <1>5, <1>6 DEF Next

\* Whatever ends a session, the queue and the modulator are left empty.
THEOREM IdleIsAlwaysClean == Spec => []IdleIsClean
<1>1. Init => TypeOK /\ SlotAhead /\ IdleIsClean
  BY InitInv DEF IInv
<1>2. TypeOK /\ SlotAhead /\ IdleIsClean /\ [Next]_vars
        => (TypeOK /\ SlotAhead /\ IdleIsClean)'
  BY TypeStep, CleanStep
<1> QED
  BY <1>1, <1>2, PTL DEF Spec

-----------------------------------------------------------------------------
(* The handshake of start_tx_output and stop_transmit.                     *)

LEMMA HandshakeStep ==
  ASSUME TypeOK, Handshake, Next
  PROVE  aborted' \/ Handshake'
<1> USE DEF TypeOK, Goto, engineVars, modVars, pumpVars, callVars, Stopping, Recording
<1> USE DEF Handshake, MutexHolder, StopAfterSession, StartExclusive, StopHalves,
            FlagBacked, WorkerJoinable, SessionServed
<1>1. ASSUME NEW c \in Callers, NEW n \in 0 .. MaxFrames, Request(c, n)
      PROVE  Handshake'
  BY <1>1 DEF Request
<1>2. ASSUME NEW c \in Callers, CallStop(c)
      PROVE  Handshake'
  BY <1>2 DEF CallStop
<1>3. ASSUME NEW c \in Callers, SubmitMessage(c) \/ SubmitTune(c)
      PROVE  Handshake'
  BY <1>3, TxEngineAssumption DEF SubmitMessage, SubmitTune, Free
<1>4. ASSUME NEW c \in Callers, CheckOutput(c)
      PROVE  Handshake'
  BY <1>4 DEF CheckOutput
<1>5. ASSUME NEW c \in Callers, StartOutput(c)
      PROVE  aborted' \/ Handshake'
  BY <1>5 DEF StartOutput
<1>6. ASSUME NEW c \in Callers, RecordOutput(c)
      PROVE  Handshake'
  BY <1>6 DEF RecordOutput
<1>7. ASSUME NEW c \in Callers, StopTransmit(c)
      PROVE  Handshake'
  BY <1>7, TxEngineAssumption DEF StopTransmit, Free
<1>8. ASSUME NEW c \in Callers, HaltOutput(c)
      PROVE  Handshake'
  BY <1>8 DEF HaltOutput
<1>9. ASSUME NEW c \in Callers, JoinOutput(c)
      PROVE  Handshake'
  BY <1>9, TxEngineAssumption DEF JoinOutput, Joined, Free
<1>10. ASSUME NEW b \in BOOLEAN, SetTxReady(b)
       PROVE  Handshake'
  BY <1>10 DEF SetTxReady
<1>11. ASSUME Pump
       PROVE  Handshake'
  <2>1. CASE PumpCheck
    BY <2>1 DEF PumpCheck
  <2>2. CASE Render(Silence) \/ Render(StartNextFrame) \/ Render(EndSession) \/ Render(Sample)
    BY <2>2 DEF Render, Silence, StartNextFrame, EndSession, Sample
  <2> QED
    BY <1>11, <2>1, <2>2 DEF Pump
<1> QED
  BY <1>1, <1>2, <1>3, <1>4, <1>5, <1>6, <1>7, <1>8, <1>9, <1>10, <1>11 DEF Next, CallStep

LEMMA InvStep == IInv /\ [Next]_vars => IInv'
<1> SUFFICES ASSUME IInv, [Next]_vars PROVE IInv'
  OBVIOUS
<1>1. TypeOK' /\ SlotAhead'
  BY TypeStep DEF IInv
<1>2. IdleIsClean'
  BY CleanStep DEF IInv
<1>3. aborted' \/ Handshake'
  <2>1. CASE UNCHANGED vars
    BY <2>1 DEF IInv, vars, engineVars, modVars, pumpVars, callVars, Handshake, MutexHolder,
       StopAfterSession, StartExclusive, StopHalves, FlagBacked, WorkerJoinable,
       SessionServed, Stopping, Recording
  <2>2. CASE Next
    BY <2>2, HandshakeStep DEF IInv, Next
  <2> QED
    BY <2>1, <2>2
<1> QED
  BY <1>1, <1>2, <1>3 DEF IInv

THEOREM InductiveInvariant == Spec => []IInv
<1> QED
  BY InitInv, InvStep, PTL DEF Spec

\* No interleaving of requests, stops and the pump leaves an accepted
\* transmission without a running output once its caller has returned.
THEOREM AcceptedAlwaysHasOutput == Spec => []AcceptedHasOutput
<1>1. IInv => AcceptedHasOutput
  BY DEF IInv, Handshake, SessionServed, AcceptedHasOutput
<1> QED
  BY <1>1, InductiveInvariant, PTL

\* tx_output_started_ never claims an output that is not running, except in
\* the join that is about to clear it.
THEOREM FlagAlwaysBacked == Spec => []FlagImpliesOutput
<1>1. IInv => FlagImpliesOutput
  BY DEF IInv, Handshake, FlagBacked, FlagImpliesOutput
<1> QED
  BY <1>1, InductiveInvariant, PTL

-----------------------------------------------------------------------------
(* The order of the frames.                                                *)

\* What waits continues the frame on the air, one index after the other, ...
QueueContinues ==
  \A i \in DOMAIN txQueue : txQueue[i] = [req |-> loaded.req, idx |-> loaded.idx + i]

\* ... and in a session the modulator rests only at the end of a frame.
RestsWhenSent == txActive /\ modState = "Idle" => FrameSent

Ordered == QueueContinues /\ RestsWhenSent

LEMMA OrderedInitially == Init => Ordered
BY DEF Init, Ordered, QueueContinues, RestsWhenSent

\* The rest of a new message continues its first frame.
LEMMA MessageContinues ==
  ASSUME NEW id \in Nat, NEW n \in 1 .. MaxFrames
  PROVE  LET q == FramesOf(id, n) IN
         /\ Head(q) = [req |-> id, idx |-> 1]
         /\ \A i \in DOMAIN Tail(q) : Tail(q)[i] = [req |-> id, idx |-> 1 + i]
<1> DEFINE q == FramesOf(id, n)
<1>1. q \in Seq(Frame) /\ Len(q) = n /\ n \in Nat \ {0}
  BY FramesOfType, TxEngineAssumption
<1>2. \A i \in 1 .. n : q[i] = [req |-> id, idx |-> i]
  BY DEF FramesOf
<1> HIDE DEF q
<1>3. q # <<>> /\ Head(q) = q[1]
  BY <1>1
<1>4. /\ DOMAIN Tail(q) = 1 .. n - 1
      /\ \A i \in 1 .. n - 1 : Tail(q)[i] = q[i + 1]
  BY <1>1, <1>3
<1>5. \A i \in 1 .. n - 1 : Tail(q)[i] = [req |-> id, idx |-> 1 + i]
  BY <1>1, <1>2, <1>4
<1>6. Head(q) = [req |-> id, idx |-> 1]
  BY <1>1, <1>2, <1>3
<1> QED
  BY <1>4, <1>5, <1>6 DEF q

\* So does the rest of a queue, once its head is on the air.
LEMMA TailContinues ==
  ASSUME TypeOK, QueueContinues, txQueue # <<>>
  PROVE  LET f == Head(txQueue) IN
         /\ f = [req |-> loaded.req, idx |-> loaded.idx + 1]
         /\ \A i \in DOMAIN Tail(txQueue) :
              Tail(txQueue)[i] = [req |-> f.req, idx |-> f.idx + i]
<1>1. txQueue \in Seq(Frame) /\ loaded.idx \in Nat
  BY TxEngineAssumption DEF TypeOK, Frame
<1>2. Head(txQueue) = [req |-> loaded.req, idx |-> loaded.idx + 1]
  BY <1>1 DEF QueueContinues
<1>3. \A i \in DOMAIN Tail(txQueue) :
        i \in Nat /\ i + 1 \in DOMAIN txQueue /\ Tail(txQueue)[i] = txQueue[i + 1]
  BY <1>1
<1>4. ASSUME NEW i \in DOMAIN Tail(txQueue)
      PROVE  Tail(txQueue)[i] = [req |-> loaded.req, idx |-> (loaded.idx + 1) + i]
  <2>1. Tail(txQueue)[i] = [req |-> loaded.req, idx |-> loaded.idx + (i + 1)]
    BY <1>3 DEF QueueContinues
  <2>2. loaded.idx + (i + 1) = (loaded.idx + 1) + i
    BY <1>1, <1>3
  <2> QED
    BY <2>1, <2>2
<1> QED
  BY <1>2, <1>4

FrameStep ==
  loaded' # loaded /\ loaded' # NoFrame =>
    \/ loaded'.req = loaded.req /\ loaded'.idx = loaded.idx + 1 /\ ic = FrameLen
    \/ loaded'.req = issued' /\ issued' = issued + 1 /\ loaded'.idx = 1

LEMMA OrderStep ==
  ASSUME IInv, Ordered, [Next]_vars
  PROVE  Ordered' /\ FrameStep
<1> USE DEF Ordered, engineVars, modVars
<1>1. ASSUME UNCHANGED <<txQueue, txActive, loaded, modState, ic>>
      PROVE  Ordered' /\ FrameStep
  BY <1>1 DEF QueueContinues, RestsWhenSent, FrameSent, FrameStep
<1>2. ASSUME NEW c \in Callers, SubmitMessage(c)
      PROVE  Ordered' /\ FrameStep
  <2> DEFINE q == FramesOf(issued + 1, req[c])
  <2>1. req[c] \in 1 .. MaxFrames /\ issued + 1 \in Nat
    BY <1>2 DEF SubmitMessage, IInv, TypeOK
  <2>2. /\ txQueue' = Tail(q) /\ loaded' = Head(q) /\ issued' = issued + 1
        /\ modState' = "Synchronizing"
    BY <1>2 DEF SubmitMessage, QueueReplaced, ModulatorStart
  <2>3. /\ Head(q) = [req |-> issued + 1, idx |-> 1]
        /\ \A i \in DOMAIN Tail(q) : Tail(q)[i] = [req |-> issued + 1, idx |-> 1 + i]
    BY <2>1, MessageContinues
  <2> HIDE DEF q
  <2> QED
    BY <2>2, <2>3 DEF QueueContinues, RestsWhenSent, FrameStep
<1>3. ASSUME NEW c \in Callers, SubmitTune(c) \/ StopTransmit(c)
      PROVE  Ordered' /\ FrameStep
  <2>1. txQueue' = <<>> /\ (loaded' = NoFrame \/ loaded' = loaded)
    BY <1>3 DEF SubmitTune, StopTransmit, ModulatorTune, ModulatorStop
  <2>2. modState' = "Active" \/ ~txActive'
    BY <1>3 DEF SubmitTune, StopTransmit, ModulatorTune
  <2> QED
    BY <2>1, <2>2 DEF QueueContinues, RestsWhenSent, FrameStep
<1>4. ASSUME NEW c \in Callers,
             \/ CheckOutput(c) \/ StartOutput(c) \/ RecordOutput(c)
             \/ HaltOutput(c) \/ JoinOutput(c) \/ CallStop(c)
             \/ \E n \in 0 .. MaxFrames : Request(c, n)
      PROVE  Ordered' /\ FrameStep
  BY <1>1, <1>4 DEF CheckOutput, StartOutput, RecordOutput, HaltOutput, JoinOutput, Joined,
     CallStop, Request
<1>5. CASE Pump
  <2>1. CASE PumpCheck \/ Render(Silence)
    BY <1>1, <2>1 DEF PumpCheck, Render, Silence
  <2>2. CASE Render(StartNextFrame)
    <3>1. /\ txActive /\ modState = "Idle" /\ txQueue # <<>>
          /\ txQueue' = Tail(txQueue) /\ loaded' = Head(txQueue)
          /\ modState' = "Synchronizing"
      BY <2>2 DEF Render, StartNextFrame, ModulatorStart
    <3>2. ic = FrameLen
      BY <3>1 DEF RestsWhenSent, FrameSent
    <3>3. /\ loaded' = [req |-> loaded.req, idx |-> loaded.idx + 1]
          /\ \A i \in DOMAIN Tail(txQueue) :
               Tail(txQueue)[i] = [req |-> loaded'.req, idx |-> loaded'.idx + i]
      BY <3>1, TailContinues DEF IInv
    <3> QED
      BY <3>1, <3>2, <3>3 DEF QueueContinues, RestsWhenSent, FrameStep
  <2>3. CASE Render(EndSession)
    BY <2>3 DEF Render, EndSession, QueueContinues, RestsWhenSent, FrameStep
  <2>4. CASE Render(Sample)
    BY <2>4 DEF Render, Sample, NextSample, FrameSent, QueueContinues, RestsWhenSent, FrameStep
  <2> QED
    BY <1>5, <2>1, <2>2, <2>3, <2>4 DEF Pump
<1>6. CASE UNCHANGED vars
  BY <1>1, <1>6 DEF vars
<1>7. ASSUME NEW b \in BOOLEAN, SetTxReady(b)
      PROVE  Ordered' /\ FrameStep
  BY <1>1, <1>7 DEF SetTxReady
<1>8. ASSUME NEW c \in Callers, CallStep(c)
      PROVE  Ordered' /\ FrameStep
  BY <1>2, <1>3, <1>4, <1>8 DEF CallStep
<1> QED
  BY <1>4, <1>5, <1>6, <1>7, <1>8 DEF Next

\* However requests and stops fall between the samples, the modulator gets the next
\* frame of its message after the last sample of the one before, or the first frame
\* of a newer request.
THEOREM FramesInOrder == Spec => FrameOrder
<1> DEFINE A == loaded' # loaded /\ loaded' # NoFrame =>
                  \/ /\ loaded'.req = loaded.req
                     /\ loaded'.idx = loaded.idx + 1
                     /\ ic = FrameLen
                  \/ /\ loaded'.req = issued'
                     /\ issued' = issued + 1
                     /\ loaded'.idx = 1
<1>1. IInv /\ Ordered /\ [Next]_vars => Ordered'
  BY OrderStep
<1>2. IInv /\ Ordered /\ [Next]_vars => [A]_vars
  BY OrderStep DEF FrameStep
<1> QED
  BY <1>1, <1>2, OrderedInitially, InductiveInvariant, PTL DEF Spec, FrameOrder

-----------------------------------------------------------------------------
(* The engine implements TxSession.                                        *)

LEMMA SessionInitially == Init => Session!SessionInit
BY EmptySeq DEF Init, Session!SessionInit, SessionPhase

\* A frame given to the modulator has its slot ahead of it.
LEMMA PhaseOfStart ==
  ASSUME NEW frame, ModulatorStart(frame), txActive'
  PROVE  SessionPhase' \in {"far", "near"}
BY DEF ModulatorStart, SessionPhase

LEMMA SessionStep ==
  ASSUME IInv, IInv', [Next]_vars
  PROVE  [Session!SessionNext]_Session!sessionVars
<1> USE DEF Session!sessionVars
<1> DEFINE Still == UNCHANGED <<SessionPhase, Len(txQueue), txReady>>
<1>1. ASSUME UNCHANGED <<engineVars, modVars>> PROVE Still
  BY <1>1 DEF engineVars, modVars, SessionPhase
<1>2. CASE UNCHANGED vars
  BY <1>1, <1>2 DEF vars
<1>3. ASSUME NEW c \in Callers, NEW n \in 0 .. MaxFrames, Request(c, n) \/ CallStop(c)
      PROVE  Still
  BY <1>1, <1>3 DEF Request, CallStop
<1>4. ASSUME NEW c \in Callers, SubmitMessage(c)
      PROVE  Session!Submit(req[c])
  <2> DEFINE q == FramesOf(issued + 1, req[c])
  <2>1. req[c] \in 1 .. MaxFrames /\ issued + 1 \in Nat
    BY <1>4 DEF SubmitMessage, IInv, TypeOK
  <2>2. Len(Tail(q)) = req[c] - 1
    BY <2>1, FramesOfType
  <2>3. txQueue' = Tail(q) /\ ModulatorStart(Head(q)) /\ txActive' /\ txReady' = txReady
    BY <1>4 DEF SubmitMessage, QueueReplaced
  <2>4. SessionPhase' \in {"far", "near"}
    BY <2>3, PhaseOfStart
  <2> QED
    BY <2>2, <2>3, <2>4 DEF Session!Submit
<1>5. ASSUME NEW c \in Callers, SubmitTune(c)
      PROVE  Session!Tune
  BY <1>5, EmptySeq DEF SubmitTune, ModulatorTune, SessionPhase, Session!Tune
<1>6. ASSUME NEW c \in Callers, CheckOutput(c) \/ StartOutput(c) \/ RecordOutput(c) \/ HaltOutput(c)
      PROVE  Still
  BY <1>1, <1>6 DEF CheckOutput, StartOutput, RecordOutput, HaltOutput
<1>7. ASSUME NEW c \in Callers, StopTransmit(c)
      PROVE  Session!Cancel
  BY <1>7, EmptySeq DEF StopTransmit, SessionPhase, Session!Cancel
<1>8. ASSUME NEW c \in Callers, JoinOutput(c)
      PROVE  Still
  BY <1>8 DEF JoinOutput, Joined, modVars, SessionPhase
<1>9. ASSUME NEW b \in BOOLEAN, SetTxReady(b)
      PROVE  Session!SetReady(b)
  BY <1>9 DEF SetTxReady, modVars, SessionPhase, Session!SetReady
<1>10. CASE Pump
  <2>1. CASE PumpCheck
    BY <1>1, <2>1 DEF PumpCheck
  <2>2. CASE Render(Silence)
    BY <2>2 DEF Render, Silence, modVars, SessionPhase
  <2>3. CASE Render(StartNextFrame)
    <3>1. Len(txQueue) > 0 /\ Len(txQueue') = Len(txQueue) - 1
      BY <2>3, HeadTailProperties, EmptySeq DEF Render, StartNextFrame, IInv, TypeOK
    <3>2. SessionPhase = "gap" /\ SessionPhase' \in {"far", "near"} /\ txReady' = txReady
      BY <2>3, PhaseOfStart DEF Render, StartNextFrame, SessionPhase
    <3>3. Session!NextFrame
      BY <3>1, <3>2 DEF Session!NextFrame
    <3> QED
      BY <3>3 DEF Session!SessionNext, Session!Progress
  <2>4. CASE Render(EndSession)
    <3>1. Session!SessionEnds
      BY <2>4, EmptySeq DEF Render, EndSession, LastFrameSent, SessionPhase,
         Session!SessionEnds
    <3> QED
      BY <3>1 DEF Session!SessionNext, Session!Progress
  <2>5. CASE Render(Sample)
    <3> USE DEF Render, Sample, SessionPhase
    <3>1. CASE modState = "Synchronizing"
      <4>1. silent \in Nat /\ silent > 0 /\ Lead \in Nat \ {0}
        BY <3>1, TxEngineAssumption DEF IInv, TypeOK, SlotAhead
      <4>2. silent' = silent - 1 /\ modState' = IF silent = 1 THEN "Active" ELSE modState
        BY <2>5, <3>1 DEF NextSample
      <4>3. txActive /\ txActive' /\ txQueue' = txQueue /\ txReady' = txReady
        BY <2>5
      <4>4. Session!SlotBegins \/ Session!Approach \/ Still
        BY <3>1, <4>1, <4>2, <4>3 DEF Session!SlotBegins, Session!Approach
      <4> QED
        BY <4>4 DEF Session!SessionNext, Session!Progress
    <3>2. CASE modState = "Active"
      <4>1. Session!FrameEnds \/ Still
        BY <2>5, <3>2 DEF NextSample, modVars, GateHolds, Session!FrameEnds
      <4> QED
        BY <4>1 DEF Session!SessionNext, Session!Progress
    <3> QED
      BY <2>5, <3>1, <3>2 DEF NextSample
  <2> QED
    BY <1>10, <2>1, <2>2, <2>3, <2>4, <2>5 DEF Pump
<1>11. ASSUME NEW c \in Callers, CallStep(c)
       PROVE  Session!SessionNext \/ Still
  <2>1. SubmitMessage(c) => req[c] \in 1 .. MaxFrames
    BY DEF SubmitMessage, IInv, TypeOK
  <2>2. SubmitMessage(c) => Session!SessionNext
    BY <1>4, <2>1 DEF Session!SessionNext, Session!Drive
  <2>3. SubmitTune(c) \/ StopTransmit(c) => Session!SessionNext
    BY <1>5, <1>7 DEF Session!SessionNext, Session!Drive
  <2> QED
    BY <1>6, <1>8, <1>11, <2>2, <2>3 DEF CallStep
<1>12. ASSUME NEW b \in BOOLEAN, SetTxReady(b)
       PROVE  Session!SessionNext
  BY <1>9, <1>12 DEF Session!SessionNext, Session!Drive
<1>13. CASE Next
  <2>1. CASE \E c \in Callers, n \in 0 .. MaxFrames : Request(c, n)
    BY <1>3, <2>1
  <2>2. CASE \E c \in Callers : CallStop(c) \/ CallStep(c)
    BY <1>3, <1>11, <2>2, TxEngineAssumption
  <2>3. CASE \E b \in BOOLEAN : SetTxReady(b)
    BY <1>12, <2>3
  <2> QED
    BY <1>10, <1>13, <2>1, <2>2, <2>3 DEF Next
<1> QED
  BY <1>2, <1>13

\* Whatever the threads do to each other, the driver sees the session that
\* TxSession promises.
THEOREM EngineImplementsSession == Spec => ImplementsSession
<1>1. IInv /\ IInv' /\ [Next]_vars => [Session!SessionNext]_Session!sessionVars
  BY SessionStep
<1> QED
  BY <1>1, SessionInitially, InductiveInvariant, PTL
     DEF Spec, ImplementsSession, Session!SessionSpec
=============================================================================
