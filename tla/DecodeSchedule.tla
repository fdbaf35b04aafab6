---------------------------- MODULE DecodeSchedule ----------------------------
(***************************************************************************)
(* The receive scheduler of engine.cpp.  The capture thread appends audio  *)
(* to a ring of one minute and cuts decode windows out of it, one per      *)
(* cycle of each submode; other threads change the enabled submodes and    *)
(* the clock drift, and a new drift makes the capture thread align the     *)
(* ring again.                                                             *)
(*                                                                         *)
(* A submode is its index in schedules_.  The clock is not modelled: an    *)
(* alignment may put the ring at any position.  Of the audio only its age  *)
(* is kept (fresh: how much of it was captured since the alignment).       *)
(* on_event is always set by the JNI bridge, start_offset_samples is 0.    *)
(***************************************************************************)
EXTENDS Integers, Sequences

CONSTANTS
  Ring,       \* samples of the ring: kJs8NtMax * kJs8RxSampleRate
  Count,      \* number of schedules
  Period,     \* period_samples of each submode
  Needed,     \* samples_needed of each submode
  Chunks,     \* sizes of the captured buffers
  Drifts,     \* values of the clock drift
  Setters,    \* threads that set it
  MaxDrifts,  \* bound: calls of set_time_drift_ms
  MaxSwitches \* bound: calls of set_submodes

Submodes == 1 .. Count

\* The cycles tile the ring; the audio of a message ends before its cycle
\* does, by more than one buffer of the capture thread.
ASSUME ScheduleAssumption ==
  /\ Ring \in Nat \ {0} /\ Count \in Nat \ {0}
  /\ Period \in [Submodes -> Nat \ {0}] /\ Needed \in [Submodes -> Nat \ {0}]
  /\ Chunks \subseteq Nat \ {0}
  /\ \A s \in Submodes :
       /\ \E cycles \in 1 .. Ring : Ring = cycles * Period[s]
       /\ Needed[s] <= Period[s]
       /\ \A n \in Chunks : Needed[s] + n <= Period[s]
  /\ Drifts # {}
  /\ MaxDrifts \in Nat /\ MaxSwitches \in Nat

VARIABLES
  pc,        \* what the capture thread is doing
  at,        \* the schedule it looks at next
  kin,       \* params.kin: position in the ring
  k0,        \* k0_: the position at the previous call
  current,   \* current_decode_start of each schedule, or -1
  next,      \* next_decode_start, or -1
  ready,     \* params.nsubmodes: submodes with a window in this call
  window,    \* params.kpos and ksz
  enabled,   \* enabled_submodes_
  drift,     \* time_drift_ms_
  realign,   \* drift_realign_pending_
  ringDrift, \* ring_drift_ms_
  setter,    \* where each thread is in set_time_drift_ms
  drifts, switches,
  \* not in the code
  phase,     \* the drift that the position of the ring contains
  fresh,     \* samples captured since the alignment, at most Ring
  last,      \* start of the previous window, -1 after an alignment or a pass over
  missed     \* submodes that were passed over since their window was set

ringVars  == <<kin, k0, current, next, ringDrift, phase>>
passVars  == <<at, ready, window>>
driftVars == <<drift, realign, setter, drifts>>
ghostVars == <<fresh, last, missed>>
vars == <<pc, ringVars, passVars, enabled, switches, driftVars, ghostVars>>

Positions == 0 .. Ring - 1

TypeOK ==
  /\ pc \in {"idle", "align", "append", "schedule"}
  /\ at \in 1 .. Count + 1
  /\ kin \in Positions /\ k0 \in Positions
  /\ current \in [Submodes -> -1 .. Ring]
  /\ next \in [Submodes -> -1 .. 2 * Ring]
  /\ ready \subseteq Submodes
  /\ window \in [Submodes -> [start : Positions, size : Nat]]
  /\ enabled \subseteq Submodes
  /\ drift \in Drifts /\ realign \in BOOLEAN /\ ringDrift \in Drifts /\ phase \in Drifts
  /\ setter \in [Setters -> {"out", "changed"}]
  /\ drifts \in 0 .. MaxDrifts /\ switches \in 0 .. MaxSwitches
  /\ fresh \in 0 .. Ring
  /\ last \in [Submodes -> -1 .. Ring - 1]
  /\ missed \subseteq Submodes

Unset == [s \in Submodes |-> -1]

\* The engine after its construction, which aligns the ring.
Init ==
  /\ pc = "idle" /\ at = 1
  /\ kin \in Positions /\ k0 = kin
  /\ current = Unset /\ next = Unset
  /\ ready = {} /\ window = [s \in Submodes |-> [start |-> 0, size |-> 0]]
  /\ drift \in Drifts /\ ringDrift = drift /\ phase = drift
  /\ enabled = Submodes
  /\ realign = FALSE /\ setter = [t \in Setters |-> "out"]
  /\ drifts = 0 /\ switches = 0
  /\ fresh = 0 /\ last = Unset /\ missed = {}

-----------------------------------------------------------------------------
(* The other threads.                                                      *)

SetSubmodes(S) ==
  /\ switches < MaxSwitches
  /\ switches' = switches + 1
  /\ enabled' = S
  /\ UNCHANGED <<pc, ringVars, passVars, driftVars, ghostVars>>

\* set_time_drift_ms publishes the drift before it asks for the alignment.
SetDrift(t, d) ==
  /\ setter[t] = "out" /\ drifts < MaxDrifts
  /\ drifts' = drifts + 1
  /\ drift' = d
  /\ setter' = [setter EXCEPT ![t] = IF d = drift THEN "out" ELSE "changed"]
  /\ UNCHANGED <<pc, ringVars, passVars, enabled, switches, realign, ghostVars>>

AskForAlignment(t) ==
  /\ setter[t] = "changed"
  /\ realign' = TRUE
  /\ setter' = [setter EXCEPT ![t] = "out"]
  /\ UNCHANGED <<pc, ringVars, passVars, enabled, switches, drift, drifts, ghostVars>>

-----------------------------------------------------------------------------
(* submit_capture: an alignment if one is due, then the samples.           *)

\* align_ring_to_clock notes the drift ...
BeginAlignment ==
  /\ pc = "idle" /\ realign
  /\ realign' = FALSE
  /\ ringDrift' = drift
  /\ pc' = "align"
  /\ UNCHANGED <<kin, k0, current, next, phase, passVars, enabled, switches, drift, setter,
                 drifts, ghostVars>>

KeepWindows == UNCHANGED <<current, next>>  \* mutation: the schedules are not reset

\* Every schedule finds its window again in the new phase.
ForgetWindows == current' = Unset /\ next' = Unset

ForgetRequest == realign' = FALSE  \* mutation: the flag is cleared at the end

\* An alignment that is asked for meanwhile will be made.
KeepRequest == UNCHANGED realign

\* ... and reads it once more with the clock.
AlignRing(position) ==
  /\ pc = "align"
  /\ phase' = drift
  /\ kin' = position /\ k0' = position
  /\ ForgetWindows
  /\ KeepRequest
  /\ fresh' = 0 /\ last' = Unset /\ missed' = {}
  /\ pc' = "append"
  /\ UNCHANGED <<ringDrift, passVars, enabled, switches, drift, setter, drifts>>

CapturedSince(n) == IF fresh + n < Ring THEN fresh + n ELSE Ring

AdvanceNoWrap(n) == kin + n  \* mutation: the ring does not wrap

Advance(n) == (kin + n) % Ring

Receive(n) ==
  /\ pc = "append" \/ (pc = "idle" /\ ~realign)
  /\ kin' = Advance(n)
  /\ fresh' = CapturedSince(n)
  /\ ready' = {}
  /\ at' = 1
  /\ pc' = "schedule"
  /\ UNCHANGED <<k0, current, next, ringDrift, phase, window, enabled, switches,
                 driftVars, last, missed>>

-----------------------------------------------------------------------------
(* isDecodeReady.                                                          *)

Distance(a, b) == IF a < b THEN b - a ELSE a - b

\* The position is before the window, and not only by the tail of its
\* predecessor (a position is never below the 0 of std::max).
DeadAir(s) == kin < current[s] /\ kin < current[s] - Period[s] + Needed[s]

MustResetOnce(s) == current[s] = -1 \/ next[s] = -1  \* mutation: only at the beginning

MustReset(s) ==
  \/ DeadAir(s)
  \/ kin < k0
  \/ Distance(kin, k0) > Period[s]
  \/ current[s] = -1
  \/ next[s] = -1

CurrentCycle(s) == (kin \div Period[s]) % (Ring \div Period[s])

\* The window of this call, after a reset to the cycle of the position.
Start(s) == IF MustReset(s) THEN CurrentCycle(s) * Period[s] ELSE current[s]
Following(s) == IF MustReset(s) THEN Start(s) + Period[s] ELSE next[s]

IsReady(s) == Start(s) + Needed[s] <= kin

Size(s) == IF kin - Start(s) < Needed[s] THEN Needed[s] ELSE kin - Start(s)

StaysInPlace(s) ==  \* mutation: the window does not advance
  /\ current' = [current EXCEPT ![s] = Start(s)]
  /\ next' = [next EXCEPT ![s] = Following(s)]

Advances(s) ==
  /\ current' = [current EXCEPT ![s] = Following(s)]
  /\ next' = [next EXCEPT ![s] = Following(s) + Period[s]]

CutWindow(s) ==
  /\ window' = [window EXCEPT ![s] = [start |-> Start(s) % Ring, size |-> Size(s)]]
  /\ ready' = ready \union {s}
  /\ Advances(s)

KeepWindow(s) ==
  /\ current' = [current EXCEPT ![s] = Start(s)]
  /\ next' = [next EXCEPT ![s] = Following(s)]
  /\ UNCHANGED <<window, ready>>

-----------------------------------------------------------------------------
(* schedule_decodes: one schedule after the other.                         *)

LookAt(s) ==
  /\ pc = "schedule" /\ at = s
  /\ at' = at + 1
  /\ UNCHANGED <<pc, kin, k0, ringDrift, phase, enabled, switches, driftVars, fresh>>

Consider(s) ==
  /\ LookAt(s)
  /\ s \in enabled
  /\ IF IsReady(s) THEN CutWindow(s) ELSE KeepWindow(s)
  /\ missed' = IF MustReset(s) THEN missed \ {s} ELSE missed
  /\ last' = IF IsReady(s) /\ s \notin missed'
               THEN [last EXCEPT ![s] = Start(s)] ELSE last

\* A disabled submode keeps its window.
PassOver(s) ==
  /\ LookAt(s)
  /\ s \notin enabled
  /\ missed' = IF current[s] = -1 THEN missed ELSE missed \union {s}
  /\ last' = [last EXCEPT ![s] = -1]
  /\ UNCHANGED <<current, next, window, ready>>

FinishPass ==
  /\ pc = "schedule" /\ at = Count + 1
  /\ k0' = kin
  /\ pc' = "idle"
  /\ UNCHANGED <<kin, current, next, ringDrift, phase, at, ready, window, enabled, switches,
                 driftVars, ghostVars>>

Capture ==
  \/ BeginAlignment
  \/ \E position \in Positions : AlignRing(position)
  \/ \E n \in Chunks : Receive(n)
  \/ \E s \in Submodes : Consider(s) \/ PassOver(s)
  \/ FinishPass

Next ==
  \/ Capture
  \/ \E S \in SUBSET Submodes : SetSubmodes(S)
  \/ \E t \in Setters : AskForAlignment(t) \/ \E d \in Drifts : SetDrift(t, d)

Spec == Init /\ [][Next]_vars

\* The capture thread keeps reading, a caller finishes its call.
FairSpec ==
  /\ Spec
  /\ WF_vars(Capture)
  /\ \A t \in Setters : WF_vars(AskForAlignment(t))

-----------------------------------------------------------------------------
(* Properties.                                                             *)

\* A submode gets a window in this step.
IsCut(s) == s \in ready' \ ready

\* As long as a submode is not passed over and the ring is not aligned, its
\* windows are one cycle apart, also where the ring wraps: isDecodeReady
\* decodes no cycle twice and skips none.
EachCycleOnce ==
  [][\A s \in Submodes : IsCut(s) /\ last[s] # -1
       => window'[s].start = (last[s] + Period[s]) % Ring]_vars

\* After an alignment only the first window of a submode holds audio from
\* before it: in every later one all samples are in their place.
WholeWindows ==
  [][\A s \in Submodes : IsCut(s) /\ last[s] # -1 => window'[s].size <= fresh]_vars

\* A submode that was enabled all the time hands the decoder at most one
\* cycle of samples, what its buffer has room for.
WindowFits ==
  pc = "schedule" => \A s \in ready \ missed : window[s].size <= Period[s]

\* schedule_decodes leaves no window behind that is complete: a message is
\* decoded with the buffer that completes it.
NothingWaits ==
  pc = "idle" => \A s \in enabled \ missed :
                   current[s] # -1 => kin < current[s] + Needed[s]

\* When no drift is being set and no alignment is asked for, the ring is
\* aligned with the newest drift: none of set_time_drift_ms is lost, whatever
\* thread overtakes another.
DriftSettled ==
  pc = "idle" /\ ~realign /\ (\A t \in Setters : setter[t] = "out")
    => ringDrift = drift /\ phase = drift

\* A submode that stays enabled is decoded again and again.
DecodedAgain ==
  \A s \in Submodes : <>[](s \in enabled) => []<>(s \in ready)
=============================================================================
