------------------------------ MODULE TxSession ------------------------------
(***************************************************************************)
(* What the transmit side of Js8EngineImpl promises to the code that       *)
(* drives it (JS8EngineService): a session is accepted, waits for its slot *)
(* boundary, is modulated while the ready gate is open, goes on with its   *)
(* next frame and ends by itself.  TxEngine implements this specification; *)
(* PttControl is written on top of it.                                     *)
(*                                                                         *)
(* The three getters of engine.hpp read exactly this state:                *)
(*   is_transmitting               phase # "idle"                          *)
(*   is_transmitting_audio         phase = "active" and ready              *)
(*   tx_milliseconds_until_audio   -1 in "idle" and "gap", 0 in "active",  *)
(*                                 within the PTT lead time in "near",     *)
(*                                 more than it in "far"                   *)
(***************************************************************************)
EXTENDS Naturals

CONSTANT MaxFrames      \* bound: the frames of the longest message

VARIABLES
  phase,      \* where the session is, as the getters show it
  frames,     \* frames still waiting in tx_queue_
  ready       \* tx_ready_: modulation may reach the output

sessionVars == <<phase, frames, ready>>

Phase == {"idle", "gap", "far", "near", "active"}

SessionTypeOK ==
  /\ phase \in Phase
  /\ frames \in 0 .. MaxFrames
  /\ ready \in BOOLEAN

\* A new engine has no session and an open gate.
SessionInit ==
  /\ phase = "idle"
  /\ frames = 0
  /\ ready = TRUE

Transmitting      == phase # "idle"
TransmittingAudio == phase = "active" /\ ready
AudioDue          == phase \in {"near", "active"}

-----------------------------------------------------------------------------
(* The calls of the driver.                                                *)

\* A message of n frames replaces whatever was being sent.
Submit(n) ==
  /\ phase' \in {"far", "near"}
  /\ frames' = n - 1
  /\ UNCHANGED ready

\* A tuning tone has no slot to wait for.
Tune ==
  /\ phase' = "active"
  /\ frames' = 0
  /\ UNCHANGED ready

Cancel ==
  /\ phase' = "idle"
  /\ frames' = 0
  /\ UNCHANGED ready

SetReady(b) ==
  /\ ready' = b
  /\ UNCHANGED <<phase, frames>>

-----------------------------------------------------------------------------
(* The progress the audio output makes by pulling samples.                 *)

Approach ==
  /\ phase = "far"
  /\ phase' = "near"
  /\ UNCHANGED <<frames, ready>>

SlotBegins ==
  /\ phase = "near"
  /\ phase' = "active"
  /\ UNCHANGED <<frames, ready>>

\* Only an open gate lets a frame come to its end.
FrameEnds ==
  /\ phase = "active"
  /\ ready
  /\ phase' = "gap"
  /\ UNCHANGED <<frames, ready>>

NextFrame ==
  /\ phase = "gap"
  /\ frames > 0
  /\ phase' \in {"far", "near"}
  /\ frames' = frames - 1
  /\ UNCHANGED ready

SessionEnds ==
  /\ phase = "gap"
  /\ frames = 0
  /\ phase' = "idle"
  /\ UNCHANGED <<frames, ready>>

Progress == Approach \/ SlotBegins \/ FrameEnds \/ NextFrame \/ SessionEnds

Drive ==
  \/ \E n \in 1 .. MaxFrames : Submit(n)
  \/ Tune
  \/ Cancel
  \/ \E b \in BOOLEAN : SetReady(b)

SessionNext == Progress \/ Drive

SessionSpec == SessionInit /\ [][SessionNext]_sessionVars
=============================================================================
