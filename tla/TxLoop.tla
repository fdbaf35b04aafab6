------------------------------- MODULE TxLoop -------------------------------
(***************************************************************************)
(* The two loops of the desktop program that call CQ and send heartbeats   *)
(* by themselves (TxLoop.cpp), the clock with a drift that they follow     *)
(* (DriftingDateTime.cpp) and the connections that let only one of them    *)
(* run (mainwindow.cpp 668-688).  A loop plans its next activity, sets a   *)
(* timer to be a transmit delay early, and when it expires asks for a      *)
(* transmission and plans the next.  All of it runs on one thread: a step  *)
(* is a slot with everything that its signals call.                        *)
(***************************************************************************)
EXTENDS Integers

CONSTANTS Modes,    \* submodes
          Slot,     \* [Modes -> length of a transmit slot]
          Periods,  \* repetition periods the buttons offer
          Delays,   \* transmit delays
          Drifts,   \* values of the drift
          Late,     \* bound: how late a timer may expire
          MaxTime   \* bound: end of the system clock

\* Periods are whole minutes (mainwindow.cpp 6324-6342), of which every slot is
\* a divisor (submode.cpp); a delay is shorter than a period by MAX_TX_DELAY_MS.
\* A timer is late by milliseconds, less than a period.
TxLoopAssumption ==
    /\ Slot \in [Modes -> Nat \ {0}]
    /\ Periods \subseteq Nat \ {0} /\ Periods # {}
    /\ Delays \subseteq Nat
    /\ Drifts \subseteq Int /\ 0 \in Drifts
    /\ Late \in Nat /\ MaxTime \in Nat
    /\ \A p \in Periods :
         /\ \A m \in Modes : Slot[m] <= p /\ p % Slot[m] = 0
         /\ \A d \in Delays : d < p
         /\ Late < p
ASSUME TxLoopAssumption

Loops == {"HB", "CQ"}
NoTime == -1    \* the clock of the model starts at 0

VARIABLES
    clock,  \* system time
    drift,  \* driftMS: the program's clock is clock + drift
    loop    \* the two TxLoop objects

vars == <<clock, drift, loop>>

\* Fields of a loop: active, next (m_next_activity), delay (m_tx_delay_ms), mode
\* (m_submode), period (m_loop_period_ms), timer (the system time at which
\* m_next_activity_timer expires).  For the properties: skewed is true if the
\* timer was set from the system clock while the drift was not zero, and last
\* is the activity that was triggered before this one on the same schedule.
Init ==
    /\ clock \in 0..(CHOOSE p \in Periods : TRUE)
    /\ drift \in Drifts
    /\ \E m \in Modes, d \in Delays, p \in Periods :
         loop = [l \in Loops |->
                   [active |-> FALSE, next |-> clock + drift, delay |-> d,
                    mode |-> m, period |-> p, timer |-> NoTime,
                    skewed |-> FALSE, last |-> NoTime]]

\* Mutant: the distance to the slot, not its time.
RoundsBelow(t, s) == IF t % s = 0 THEN t ELSE (t % s) - s

RoundUp(t, s) == IF t % s = 0 THEN t ELSE t + s - (t % s)

\* onLoopCancel.
Cancelled(lp) ==
    [lp EXCEPT !.active = FALSE, !.timer = NoTime, !.skewed = FALSE, !.last = NoTime]

\* The signal nextActivityChanged of loop l: it cancels the other loop.
Announced(ls, l) ==
    [x \in Loops |-> IF x = l THEN ls[x] ELSE Cancelled(ls[x])]

\* Mutant: only a change of the activity is announced.
RestartedUnannounced(ls, l, p, d) ==
    LET lp    == ls[l]
        start == RoundUp(clock + p, Slot[lp.mode])
        new   == [ls EXCEPT ![l] = [lp EXCEPT !.active = TRUE, !.period = p,
                                      !.next = start, !.timer = start - lp.delay,
                                      !.skewed = (d # 0), !.last = NoTime]]
    IN IF start # lp.next THEN Announced(new, l) ELSE new

\* onTxLoopPeriodChangeStart under drift d.  currentMSecsSinceEpoch is a static
\* function of QDateTime: called on an object it still is the system clock, both
\* for "now" and for what the new start is compared with.
Restarted(ls, l, p, d) ==
    LET lp    == ls[l]
        start == RoundUp(clock + p, Slot[lp.mode])
        new   == [ls EXCEPT ![l] = [lp EXCEPT !.active = TRUE, !.period = p,
                                      !.next = start,
                                      !.timer = clock + (start - clock - lp.delay),
                                      !.skewed = (d # 0), !.last = NoTime]]
    IN IF ~lp.active \/ start # clock THEN Announced(new, l) ELSE new

\* Mutant: a timer that still lies ahead is left as it is.
DriftIgnored(ls, l, d) ==
    LET lp == ls[l]
    IN IF ~lp.active \/ clock + d < lp.next - lp.delay THEN ls
       ELSE Restarted(ls, l, lp.period, d)

\* onDriftChange.
DriftChanged(ls, l, d) ==
    LET lp   == ls[l]
        now  == clock + d
        push == lp.next - lp.delay
    IN IF ~lp.active THEN ls
       ELSE IF now < push /\ push < now + lp.period
       THEN [ls EXCEPT ![l].timer = clock + (push - now), ![l].skewed = FALSE]
       ELSE Restarted(ls, l, lp.period, d)

\* onModeChange.
ModeChanged(ls, l, m) ==
    LET new == [ls EXCEPT ![l].mode = m]
    IN IF ls[l].mode = m THEN ls
       ELSE IF ls[l].active THEN Restarted(new, l, ls[l].period, drift)
       ELSE new

\* onTxDelayChange.
DelayChanged(ls, l, d) ==
    LET new == [ls EXCEPT ![l].delay = d]
    IN IF ls[l].delay = d THEN ls
       ELSE IF ls[l].active THEN Restarted(new, l, ls[l].period, drift)
       ELSE new

\* Mutant: the period is counted from the expiry of the timer.
PlansFromNow(lp, now) == RoundUp(now + lp.period, Slot[lp.mode])

\* The activity onTimer plans after the one that is due, never in the past.
Planned(lp, now) ==
    LET raw  == lp.next + lp.period
        next == raw - (raw % Slot[lp.mode])
    IN IF next - lp.delay < now
       THEN next + ((now - (next - lp.delay)) \div lp.period + 1) * lp.period
       ELSE next

-----------------------------------------------------------------------------
\* The button of a loop is pressed, with an interval: it is out (the loop not
\* active) before; the other way round it cancels.
Press(l, p) ==
    /\ ~loop[l].active
    /\ loop' = Restarted(loop, l, p, drift)
    /\ UNCHANGED <<clock, drift>>

Release(l) ==
    /\ loop[l].active
    /\ loop' = [loop EXCEPT ![l] = Cancelled(@)]
    /\ UNCHANGED <<clock, drift>>

\* A timer expires, at its time or late.
OnTimer(l) ==
    LET lp   == loop[l]
        now  == clock + drift
        next == Planned(lp, now)
    IN /\ lp.active /\ lp.timer # NoTime /\ lp.timer <= clock
       /\ loop' = Announced([loop EXCEPT ![l] =
                    [lp EXCEPT !.next = next,
                       !.timer = clock + (next - now - lp.delay),
                       !.skewed = FALSE,
                       !.last = IF lp.skewed THEN NoTime ELSE lp.next]], l)
       /\ UNCHANGED <<clock, drift>>

\* setDrift: the signal driftChanged reaches the loops in the order in which
\* they were connected, as do the new submode and the new delay.
SetDrift(d) ==
    /\ d # drift
    /\ drift' = d
    /\ loop' = DriftChanged(DriftChanged(loop, "CQ", d), "HB", d)
    /\ UNCHANGED clock

SetSubmode(m) ==
    /\ loop' = ModeChanged(ModeChanged(loop, "HB", m), "CQ", m)
    /\ UNCHANGED <<clock, drift>>

SetTxDelay(d) ==
    /\ loop' = DelayChanged(DelayChanged(loop, "HB", d), "CQ", d)
    /\ UNCHANGED <<clock, drift>>

\* Time passes; no timer stays expired for longer than Late.
Tick ==
    /\ clock < MaxTime
    /\ \A l \in Loops : loop[l].timer # NoTime => clock < loop[l].timer + Late
    /\ clock' = clock + 1
    /\ UNCHANGED <<drift, loop>>

Next ==
    \/ Tick
    \/ \E l \in Loops : \/ \E p \in Periods : Press(l, p)
                        \/ Release(l)
                        \/ OnTimer(l)
    \/ \E d \in Drifts : SetDrift(d)
    \/ \E m \in Modes : SetSubmode(m)
    \/ \E d \in Delays : SetTxDelay(d)

Spec == Init /\ [][Next]_vars

-----------------------------------------------------------------------------
\* Type correctness.
LoopRecord ==
    [active : BOOLEAN, next : Int, delay : Delays, mode : Modes, period : Periods,
     timer : Nat \cup {NoTime}, skewed : BOOLEAN, last : Nat \cup {NoTime}]
TypeOK ==
    /\ clock \in Nat
    /\ drift \in Drifts
    /\ loop \in [Loops -> LoopRecord]

Distance(n) == IF n < 0 THEN -n ELSE n

\* Of the two loops one at most is active (mainwindow.cpp 674-675: "disable HB loop
\* while CQ loop runs and vice versa"), whatever restarts them.  That one has a
\* wake-up, not missed and no later than a period, a slot and the drift from now;
\* the other has none.
OneWakes ==
    /\ ~(loop["HB"].active /\ loop["CQ"].active)
    /\ \A l \in Loops : LET lp == loop[l] IN
         IF lp.active
         THEN /\ clock <= lp.timer + Late
              /\ lp.timer <= clock + lp.period + Slot[lp.mode] + Distance(drift)
         ELSE lp.timer = NoTime

\* A trigger comes within the lateness of the timer of the beginning of a slot
\* of the drifting clock, less the delay.
AtSlot(lp) == (clock + drift + lp.delay) % Slot[lp.mode] <= Late

\* Every trigger is at a slot, except the first after a start under a drift.
OnSlotOnceAimed == [][\A l \in Loops :
    OnTimer(l) /\ ~loop[l].skewed => AtSlot(loop[l])]_vars

\* TxLoop.h 17: "This class knows no other time than what DriftingDateTime tells
\* it", and TxLoop.cpp 41: "Make sure that we start when a node slot starts".  A
\* start under a drift breaks it (README, section 3).
OnSlot == [][\A l \in Loops : OnTimer(l) => AtSlot(loop[l])]_vars

\* Consecutive triggers of one schedule are one period apart: no activity is
\* skipped and none is repeated, whatever the drift was set to in between.
EveryPeriod == [][\A l \in Loops :
    OnTimer(l) /\ loop[l].last # NoTime
        => loop[l].next = loop[l].last + loop[l].period]_vars
=============================================================================
