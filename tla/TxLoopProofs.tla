---------------------------- MODULE TxLoopProofs ----------------------------
(* Theorems about the loops, for every clock, drift, period, slot, delay and *)
(* lateness of the timers.                                                   *)
EXTENDS TxLoop, TLAPS

-----------------------------------------------------------------------------
(* Arithmetic of slots.                                                      *)

LEMMA Division ==
  ASSUME NEW x \in Nat, NEW s \in Nat \ {0}
  PROVE  /\ x % s \in Nat /\ x % s < s /\ x % s <= x
         /\ \E q \in Nat : x - (x % s) = q * s
<1>1. x \div s \in Nat /\ x = (x \div s) * s + (x % s)  BY SMT
<1>2. x % s \in Nat /\ x % s < s  BY SMT
<1>3. (x \div s) * s \in Nat  BY <1>1
<1>4. x % s <= x /\ x - (x % s) = (x \div s) * s  BY <1>1, <1>2, <1>3
<1>5. \E q \in Nat : x - (x % s) = q * s  BY <1>1, <1>4
<1>. QED BY <1>2, <1>4, <1>5

LEMMA MultipleRemainder ==
  ASSUME NEW q \in Nat, NEW s \in Nat \ {0}
  PROVE  (q * s) % s = 0
  BY SMT

\* What lies behind a slot by e leaves e at most.
LEMMA OffMultiple ==
  ASSUME NEW q \in Nat, NEW s \in Nat \ {0}, NEW e \in Nat
  PROVE  (q * s + e) % s <= e
<1>1. CASE e < s
  <2>1. (q * s + e) % s = e  BY <1>1, SMT
  <2>. QED BY <2>1
<1>2. CASE e >= s
  <2>1. q * s + e \in Nat  OBVIOUS
  <2>2. (q * s + e) % s < s /\ (q * s + e) % s \in Nat  BY <2>1, Division
  <2>. QED BY <1>2, <2>2
<1>. QED BY <1>1, <1>2

LEMMA AsMultiple ==
  ASSUME NEW x \in Nat, NEW s \in Nat \ {0}, x % s = 0
  PROVE  \E q \in Nat : x = q * s
<1>1. PICK q \in Nat : x - (x % s) = q * s  BY Division
<1>. QED BY <1>1

LEMMA SumOfMultiples ==
  ASSUME NEW x \in Nat, NEW y \in Nat, NEW s \in Nat \ {0}, x % s = 0, y % s = 0
  PROVE  (x + y) % s = 0
<1>1. PICK q \in Nat : x = q * s  BY AsMultiple
<1>2. PICK r \in Nat : y = r * s  BY AsMultiple
<1>3. x + y = (q + r) * s  BY <1>1, <1>2
<1>4. q + r \in Nat  OBVIOUS
<1>. QED BY <1>3, <1>4, MultipleRemainder

LEMMA MultipleOfMultiple ==
  ASSUME NEW k \in Nat, NEW p \in Nat, NEW s \in Nat \ {0}, p % s = 0
  PROVE  k * p \in Nat /\ (k * p) % s = 0
<1>1. PICK q \in Nat : p = q * s  BY AsMultiple
<1>2. k * p = (k * q) * s  BY <1>1
<1>3. k * q \in Nat /\ k * p \in Nat  OBVIOUS
<1>. QED BY <1>2, <1>3, MultipleRemainder

\* The next multiple is ahead by less than one.
LEMMA RoundsUp ==
  ASSUME NEW t \in Nat, NEW s \in Nat \ {0}
  PROVE  /\ RoundUp(t, s) \in Nat /\ t <= RoundUp(t, s) /\ RoundUp(t, s) < t + s
         /\ RoundUp(t, s) % s = 0
<1>1. CASE t % s = 0  BY <1>1 DEF RoundUp
<1>2. CASE t % s # 0
  <2>1. PICK q \in Nat : t - (t % s) = q * s  BY Division
  <2>2. t % s \in Nat /\ t % s < s  BY Division
  <2>3. RoundUp(t, s) = q * s + s /\ RoundUp(t, s) = t + (s - (t % s))
    BY <1>2, <2>1, <2>2 DEF RoundUp
  <2>4. q * s + s = (q + 1) * s /\ q + 1 \in Nat  OBVIOUS
  <2>5. ((q + 1) * s) % s = 0  BY <2>4, MultipleRemainder
  <2>. QED BY <1>2, <2>2, <2>3, <2>4, <2>5
<1>. QED BY <1>1, <1>2

-----------------------------------------------------------------------------
(* What the assumption gives.                                                *)
LEMMA Constants ==
  /\ Delays \subseteq Nat /\ Drifts \subseteq Int /\ Late \in Nat
  /\ Periods \subseteq Nat \ {0} /\ Periods # {}
  /\ \A m \in Modes : Slot[m] \in Nat \ {0}
  BY TxLoopAssumption DEF TxLoopAssumption

LEMMA OfPeriods ==
  ASSUME NEW p \in Periods
  PROVE  /\ p \in Nat \ {0} /\ Late < p
         /\ \A d \in Delays : d \in Nat /\ d < p
         /\ \A m \in Modes : Slot[m] <= p /\ p % Slot[m] = 0
  BY TxLoopAssumption DEF TxLoopAssumption

-----------------------------------------------------------------------------
(* The invariant.  Of an active loop, its activity is at a slot and follows  *)
(* the previous one, and its timer is set for it: by the drifting clock or,  *)
(* if skewed, by the system clock.                                           *)
Scheduled(lp) ==
  IF lp.active
  THEN /\ lp.next \in Nat /\ lp.next % Slot[lp.mode] = 0
       /\ lp.last # NoTime => lp.next = lp.last + lp.period
  ELSE lp.timer = NoTime

Aimed(lp, c, d) ==
  lp.active =>
    /\ lp.timer \in Nat
    /\ lp.timer = lp.next - lp.delay - (IF lp.skewed THEN 0 ELSE d)
    /\ c <= lp.timer + Late
    /\ lp.timer <= c + lp.period + Slot[lp.mode] + Distance(d)

OneActive(ls) == ~(ls["HB"].active /\ ls["CQ"].active)

Sound(ls, c, d) ==
  /\ ls \in [Loops -> LoopRecord]
  /\ \A l \in Loops : Scheduled(ls[l]) /\ Aimed(ls[l], c, d)
  /\ OneActive(ls)

IInv == clock \in Nat /\ drift \in Drifts /\ Sound(loop, clock, drift)

LEMMA Cancelling ==
  ASSUME NEW lp \in LoopRecord
  PROVE  /\ Cancelled(lp) \in LoopRecord
         /\ ~Cancelled(lp).active /\ Cancelled(lp).timer = NoTime
  BY DEF Cancelled, LoopRecord, NoTime

LEMMA Distances ==
  ASSUME NEW d \in Int
  PROVE  Distance(d) \in Nat /\ d <= Distance(d) /\ -d <= Distance(d)
  BY DEF Distance

\* What a restart makes of the loop itself: it is active and aimed.
LEMMA RestartAims ==
  ASSUME clock \in Nat, NEW ls \in [Loops -> LoopRecord], NEW l \in Loops,
         NEW p \in Periods, NEW d \in Int
  PROVE  LET r == Restarted(ls, l, p, d)
         IN  /\ r \in [Loops -> LoopRecord]
             /\ r[l].active /\ Scheduled(r[l]) /\ Aimed(r[l], clock, d)
             /\ \A x \in Loops \ {l} : r[x] = Cancelled(ls[x])
<1>. DEFINE lp    == ls[l]
            start == RoundUp(clock + p, Slot[lp.mode])
            made  == [lp EXCEPT !.active = TRUE, !.period = p, !.next = start,
                                !.timer = clock + (start - clock - lp.delay),
                                !.skewed = (d # 0), !.last = NoTime]
            new   == [ls EXCEPT ![l] = made]
<1>1. /\ lp \in LoopRecord /\ lp.mode \in Modes /\ lp.delay \in Delays
  BY DEF LoopRecord
<1>2. /\ p \in Nat \ {0} /\ Late < p /\ Late \in Nat
      /\ lp.delay \in Nat /\ lp.delay < p /\ Slot[lp.mode] \in Nat \ {0}
  BY <1>1, OfPeriods, Constants
<1>3. /\ start \in Nat /\ clock + p <= start /\ start < clock + p + Slot[lp.mode]
      /\ start % Slot[lp.mode] = 0
  <2>1. clock + p \in Nat  BY <1>2
  <2>. HIDE DEF lp
  <2>. QED BY <2>1, <1>2, RoundsUp
<1>4. Restarted(ls, l, p, d) = Announced(new, l)
  <2>1. start # clock
    <3>. HIDE DEF start
    <3>. QED BY <1>2, <1>3
  <2>. QED BY <2>1 DEF Restarted
<1>5. /\ made.active /\ made.period = p /\ made.next = start /\ made.last = NoTime
      /\ made.timer = clock + (start - clock - lp.delay) /\ made.skewed = (d # 0)
      /\ made.delay = lp.delay /\ made.mode = lp.mode
  BY <1>1 DEF LoopRecord
<1>6. clock + (start - clock - lp.delay) = start - lp.delay /\ start - lp.delay \in Nat
  <2>. HIDE DEF start, lp
  <2>. QED BY <1>2, <1>3
<1>7. made \in LoopRecord
  <2>1. start \in Int /\ clock + (start - clock - lp.delay) \in Nat  BY <1>3, <1>6
  <2>. HIDE DEF start
  <2>. QED BY <2>1, <1>1 DEF LoopRecord
<1>8. Scheduled(made)  BY <1>3, <1>5 DEF Scheduled
<1>9. Aimed(made, clock, d)
  <2>1. made.timer = start - lp.delay  BY <1>5, <1>6
  <2>2. (IF made.skewed THEN 0 ELSE d) = 0
    <3>1. CASE d = 0  BY <3>1
    <3>2. CASE d # 0  BY <3>2, <1>5
    <3>. QED BY <3>1, <3>2
  <2>3. Distance(d) \in Nat  BY Distances
  <2>4. /\ start - lp.delay = start - lp.delay - 0
        /\ clock <= start - lp.delay + Late
        /\ start - lp.delay <= clock + p + Slot[lp.mode] + Distance(d)
    <3>. HIDE DEF start, lp
    <3>. QED BY <1>2, <1>3, <2>3
  <2>. HIDE DEF made, start, lp
  <2>. QED BY <1>5, <1>6, <2>1, <2>2, <2>4 DEF Aimed
<1>10. new \in [Loops -> LoopRecord] /\ new[l] = made
  <2>. HIDE DEF made
  <2>. QED BY <1>7
<1>11. \A x \in Loops : Announced(new, l)[x] = IF x = l THEN made ELSE Cancelled(ls[x])
  <2>. HIDE DEF made
  <2>. QED BY <1>10 DEF Announced
<1>12. Announced(new, l) \in [Loops -> LoopRecord]
  <2>1. \A x \in Loops : (IF x = l THEN new[x] ELSE Cancelled(new[x])) \in LoopRecord
    <3>. HIDE DEF new
    <3>. QED BY <1>10, Cancelling
  <2>. HIDE DEF new
  <2>. QED BY <2>1 DEF Announced
<1>. HIDE DEF made, new
<1>. QED BY <1>4, <1>8, <1>9, <1>11, <1>12, <1>5

\* A loop without a timer needs no aim.
LEMMA Idle ==
  ASSUME NEW lp, ~lp.active, lp.timer = NoTime, NEW c, NEW d
  PROVE  Scheduled(lp) /\ Aimed(lp, c, d)
  BY DEF Scheduled, Aimed

\* And of both loops: the other one is cancelled.
LEMMA RestartSound ==
  ASSUME clock \in Nat, NEW ls \in [Loops -> LoopRecord], NEW l \in Loops,
         NEW p \in Periods, NEW d \in Int
  PROVE  Sound(Restarted(ls, l, p, d), clock, d)
<1>. DEFINE r == Restarted(ls, l, p, d)
<1>1. /\ r \in [Loops -> LoopRecord]
      /\ r[l].active /\ Scheduled(r[l]) /\ Aimed(r[l], clock, d)
      /\ \A x \in Loops \ {l} : r[x] = Cancelled(ls[x])
  BY RestartAims
<1>. HIDE DEF r
<1>2. \A x \in Loops \ {l} : ~r[x].active /\ r[x].timer = NoTime
  BY <1>1, Cancelling
<1>3. \A x \in Loops : Scheduled(r[x]) /\ Aimed(r[x], clock, d)
  BY <1>1, <1>2, Idle
<1>4. OneActive(r)  BY <1>2 DEF OneActive, Loops
<1>. QED BY <1>1, <1>3, <1>4 DEF Sound, r

-----------------------------------------------------------------------------
(* What a handler makes of the loops.                                        *)

\* A new drift aims the loop it is told to, and leaves the other one as it is
\* or cancels it.
LEMMA DriftAims ==
  ASSUME clock \in Nat, NEW ls \in [Loops -> LoopRecord], NEW l \in Loops,
         \A x \in Loops : Scheduled(ls[x]), OneActive(ls), NEW d \in Int
  PROVE  LET r == DriftChanged(ls, l, d)
         IN  IF ls[l].active THEN Sound(r, clock, d) ELSE r = ls
<1>. DEFINE lp   == ls[l]
            push == lp.next - lp.delay
            now  == clock + d
            r    == DriftChanged(ls, l, d)
            aim  == clock + (push - now)
            made == [lp EXCEPT !.timer = aim, !.skewed = FALSE]
<1>1. CASE ~lp.active  BY <1>1 DEF DriftChanged
<1>2. CASE lp.active /\ ~(now < push /\ push < now + lp.period)
  <2>1. r = Restarted(ls, l, lp.period, d)  BY <1>2 DEF DriftChanged
  <2>2. lp.period \in Periods  BY DEF LoopRecord
  <2>3. Sound(Restarted(ls, l, lp.period, d), clock, d)  BY <2>2, RestartSound
  <2>. QED BY <1>2, <2>1, <2>3
<1>3. CASE lp.active /\ now < push /\ push < now + lp.period
  <2>1. r = [ls EXCEPT ![l] = made]
    <3>1. r = [ls EXCEPT ![l].timer = aim, ![l].skewed = FALSE]
      BY <1>3 DEF DriftChanged
    <3>. QED BY <3>1 DEF LoopRecord
  <2>2. /\ lp \in LoopRecord /\ lp.period \in Periods /\ lp.delay \in Delays
        /\ lp.mode \in Modes /\ lp.next \in Nat
    BY <1>3 DEF LoopRecord, Scheduled
  <2>3. /\ lp.delay \in Nat /\ lp.period \in Nat /\ Slot[lp.mode] \in Nat
        /\ Late \in Nat /\ Distance(d) \in Nat
    BY <2>2, Constants, Distances
  <2>4. /\ aim \in Nat /\ aim = lp.next - lp.delay - d
        /\ clock <= aim + Late /\ aim <= clock + lp.period + Slot[lp.mode] + Distance(d)
    <3>. HIDE DEF lp
    <3>. QED BY <1>3, <2>2, <2>3
  <2>5. /\ made.active /\ made.timer = aim /\ ~made.skewed
        /\ made.next = lp.next /\ made.delay = lp.delay /\ made.mode = lp.mode
        /\ made.period = lp.period /\ made.last = lp.last
    <3>. HIDE DEF aim
    <3>. QED BY <1>3 DEF LoopRecord
  <2>6. made \in LoopRecord
    <3>. HIDE DEF aim
    <3>. QED BY <2>2, <2>4 DEF LoopRecord
  <2>7. Scheduled(made) /\ Aimed(made, clock, d)
    <3>1. Scheduled(lp)  OBVIOUS
    <3>. HIDE DEF made, aim, lp
    <3>. QED BY <1>3, <3>1, <2>4, <2>5 DEF Scheduled, Aimed
  <2>8. \A x \in Loops \ {l} : r[x] = ls[x] /\ ~ls[x].active /\ ls[x].timer = NoTime
    <3>1. \A x \in Loops \ {l} : ~ls[x].active
      BY <1>3 DEF OneActive, Loops
    <3>2. \A x \in Loops \ {l} : ls[x].timer = NoTime
      BY <3>1 DEF Scheduled
    <3>. HIDE DEF made
    <3>. QED BY <2>1, <3>1, <3>2
  <2>9. r \in [Loops -> LoopRecord] /\ r[l] = made
    <3>. HIDE DEF made
    <3>. QED BY <2>1, <2>6
  <2>10. \A x \in Loops : Scheduled(r[x]) /\ Aimed(r[x], clock, d)
    <3>. HIDE DEF r, made
    <3>. QED BY <2>7, <2>8, <2>9, Idle
  <2>11. OneActive(r)
    <3>. HIDE DEF r, made
    <3>. QED BY <2>8 DEF OneActive, Loops
  <2>. HIDE DEF made
  <2>. QED BY <1>3, <2>9, <2>10, <2>11 DEF Sound
<1>. HIDE DEF r
<1>. QED BY <1>1, <1>2, <1>3 DEF r

\* So after both were told of it, all is aimed at the new drift.
LEMMA DriftSound ==
  ASSUME clock \in Nat, NEW c, NEW e, Sound(loop, c, e), NEW d \in Int
  PROVE  Sound(DriftChanged(DriftChanged(loop, "CQ", d), "HB", d), clock, d)
<1>. DEFINE one == DriftChanged(loop, "CQ", d)
            two == DriftChanged(one, "HB", d)
<1>0. "CQ" \in Loops /\ "HB" \in Loops  BY DEF Loops
<1>1. /\ loop \in [Loops -> LoopRecord] /\ OneActive(loop)
      /\ \A x \in Loops : Scheduled(loop[x])
  BY DEF Sound
<1>2. IF loop["CQ"].active THEN Sound(one, clock, d) ELSE one = loop
  BY <1>0, <1>1, DriftAims
<1>3. /\ one \in [Loops -> LoopRecord] /\ OneActive(one)
      /\ \A x \in Loops : Scheduled(one[x])
  <2>. HIDE DEF one
  <2>. QED BY <1>1, <1>2 DEF Sound
<1>4. IF one["HB"].active THEN Sound(two, clock, d) ELSE two = one
  <2>. HIDE DEF one
  <2>. QED BY <1>0, <1>3, DriftAims
<1>. HIDE DEF one, two
<1>5. CASE one["HB"].active  BY <1>4, <1>5 DEF one, two
<1>6. CASE ~one["HB"].active /\ loop["CQ"].active  BY <1>2, <1>4, <1>6 DEF one, two
<1>7. CASE ~one["HB"].active /\ ~loop["CQ"].active
  <2>1. two = loop  BY <1>2, <1>4, <1>7
  <2>2. \A x \in Loops : ~loop[x].active /\ loop[x].timer = NoTime
    <3>1. \A x \in Loops : ~loop[x].active  BY <1>2, <1>7 DEF Loops
    <3>. QED BY <1>1, <3>1 DEF Scheduled
  <2>3. \A x \in Loops : Scheduled(loop[x]) /\ Aimed(loop[x], clock, d)
    BY <2>2, Idle
  <2>4. Sound(loop, clock, d)  BY <1>1, <2>3 DEF Sound
  <2>. QED BY <2>1, <2>4 DEF one, two
<1>. QED BY <1>5, <1>6, <1>7

LEMMA ModeSound ==
  ASSUME clock \in Nat, drift \in Int, NEW ls, Sound(ls, clock, drift),
         NEW l \in Loops, NEW m \in Modes
  PROVE  Sound(ModeChanged(ls, l, m), clock, drift)
<1>. DEFINE lp   == ls[l]
            made == [lp EXCEPT !.mode = m]
            new  == [ls EXCEPT ![l] = made]
<1>1. ls \in [Loops -> LoopRecord] /\ lp \in LoopRecord /\ lp.period \in Periods
  BY DEF Sound, LoopRecord
<1>2. made \in LoopRecord /\ made.active = lp.active /\ made.timer = lp.timer
  BY <1>1 DEF LoopRecord
<1>3. new \in [Loops -> LoopRecord] /\ new = [ls EXCEPT ![l].mode = m]
      /\ new[l] = made /\ \A x \in Loops \ {l} : new[x] = ls[x]
  <2>1. new = [ls EXCEPT ![l].mode = m]  OBVIOUS
  <2>. HIDE DEF made
  <2>. QED BY <1>1, <1>2, <2>1 DEF made
<1>4. CASE lp.mode = m  BY <1>4 DEF ModeChanged
<1>5. CASE lp.mode # m /\ lp.active
  <2>1. ModeChanged(ls, l, m) = Restarted(new, l, lp.period, drift)
    BY <1>5, <1>3 DEF ModeChanged
  <2>2. new \in [Loops -> LoopRecord] /\ lp.period \in Periods  BY <1>1, <1>3
  <2>. HIDE DEF new, made, lp
  <2>3. Sound(Restarted(new, l, lp.period, drift), clock, drift)
    BY <2>2, RestartSound
  <2>. QED BY <2>1, <2>3
<1>6. CASE lp.mode # m /\ ~lp.active
  <2>1. ModeChanged(ls, l, m) = new  BY <1>6, <1>3 DEF ModeChanged
  <2>2. ~made.active /\ made.timer = NoTime
    BY <1>2, <1>6 DEF Sound, Scheduled
  <2>. HIDE DEF new, made, lp
  <2>3. Sound(new, clock, drift)
    <3>1. \A x \in Loops : Scheduled(new[x]) /\ Aimed(new[x], clock, drift)
      BY <1>3, <2>2, Idle DEF Sound
    <3>2. OneActive(new)  BY <1>3, <2>2 DEF Sound, OneActive, Loops
    <3>. QED BY <1>3, <3>1, <3>2 DEF Sound
  <2>. QED BY <2>1, <2>3
<1>. QED BY <1>4, <1>5, <1>6

LEMMA DelaySound ==
  ASSUME clock \in Nat, drift \in Int, NEW ls, Sound(ls, clock, drift),
         NEW l \in Loops, NEW d \in Delays
  PROVE  Sound(DelayChanged(ls, l, d), clock, drift)
<1>. DEFINE lp   == ls[l]
            made == [lp EXCEPT !.delay = d]
            new  == [ls EXCEPT ![l] = made]
<1>1. ls \in [Loops -> LoopRecord] /\ lp \in LoopRecord /\ lp.period \in Periods
  BY DEF Sound, LoopRecord
<1>2. made \in LoopRecord /\ made.active = lp.active /\ made.timer = lp.timer
  BY <1>1 DEF LoopRecord
<1>3. new \in [Loops -> LoopRecord] /\ new = [ls EXCEPT ![l].delay = d]
      /\ new[l] = made /\ \A x \in Loops \ {l} : new[x] = ls[x]
  <2>1. new = [ls EXCEPT ![l].delay = d]  OBVIOUS
  <2>. HIDE DEF made
  <2>. QED BY <1>1, <1>2, <2>1 DEF made
<1>4. CASE lp.delay = d  BY <1>4 DEF DelayChanged
<1>5. CASE lp.delay # d /\ lp.active
  <2>1. DelayChanged(ls, l, d) = Restarted(new, l, lp.period, drift)
    BY <1>5, <1>3 DEF DelayChanged
  <2>2. new \in [Loops -> LoopRecord] /\ lp.period \in Periods  BY <1>1, <1>3
  <2>. HIDE DEF new, made, lp
  <2>3. Sound(Restarted(new, l, lp.period, drift), clock, drift)
    BY <2>2, RestartSound
  <2>. QED BY <2>1, <2>3
<1>6. CASE lp.delay # d /\ ~lp.active
  <2>1. DelayChanged(ls, l, d) = new  BY <1>6, <1>3 DEF DelayChanged
  <2>2. ~made.active /\ made.timer = NoTime
    BY <1>2, <1>6 DEF Sound, Scheduled
  <2>. HIDE DEF new, made, lp
  <2>3. Sound(new, clock, drift)
    <3>1. \A x \in Loops : Scheduled(new[x]) /\ Aimed(new[x], clock, drift)
      BY <1>3, <2>2, Idle DEF Sound
    <3>2. OneActive(new)  BY <1>3, <2>2 DEF Sound, OneActive, Loops
    <3>. QED BY <1>3, <3>1, <3>2 DEF Sound
  <2>. QED BY <2>1, <2>3
<1>. QED BY <1>4, <1>5, <1>6

\* The activity that is planned is at a slot and not in the past.  It is the
\* next one of the schedule if that is still possible.
LEMMA Plans ==
  ASSUME NEW lp \in LoopRecord, lp.active, Scheduled(lp), NEW now \in Int,
         NEW e \in Nat, lp.next - lp.delay <= now + e
  PROVE  /\ Planned(lp, now) \in Nat /\ Planned(lp, now) % Slot[lp.mode] = 0
         /\ now <= Planned(lp, now) - lp.delay
         /\ Planned(lp, now) - lp.delay <= now + lp.period + e
         /\ now <= lp.next + lp.period - lp.delay
              => Planned(lp, now) = lp.next + lp.period
<1>. DEFINE s    == Slot[lp.mode]
            p    == lp.period
            next == lp.next + p
            a    == now - (next - lp.delay)
            q    == a \div p
<1>1. /\ lp.mode \in Modes /\ p \in Periods /\ lp.delay \in Delays /\ lp.next \in Nat
      /\ lp.next % s = 0
  BY DEF LoopRecord, Scheduled
<1>2. s \in Nat \ {0} /\ p \in Nat \ {0} /\ p % s = 0 /\ lp.delay \in Nat
  BY <1>1, Constants, OfPeriods
<1>. HIDE DEF s, p
<1>3. next \in Nat /\ next % s = 0  BY <1>1, <1>2, SumOfMultiples
<1>4. next - (next % s) = next
  <2>. HIDE DEF next
  <2>. QED BY <1>3
<1>5. Planned(lp, now) = IF a > 0 THEN next + (q + 1) * p ELSE next
  <2>1. Planned(lp, now) = IF next - lp.delay < now THEN next + (q + 1) * p ELSE next
    <3>. HIDE DEF next
    <3>. QED BY <1>4 DEF Planned, next, s, p
  <2>2. next - lp.delay < now <=> a > 0
    <3>. HIDE DEF next
    <3>. QED BY <1>2, <1>3
  <2>. HIDE DEF next, a, q
  <2>. QED BY <2>1, <2>2
<1>6. CASE a > 0
  <2>1. a \in Nat  BY <1>1, <1>2, <1>6
  <2>2. q \in Nat /\ q * p <= a /\ a < (q + 1) * p /\ (q + 1) * p = q * p + p
    <3>. HIDE DEF a
    <3>1. q \in Nat /\ a = q * p + (a % p)  BY <1>2, <2>1, SMT
    <3>2. a % p \in Nat /\ a % p < p  BY <1>2, <2>1, Division
    <3>. HIDE DEF q
    <3>3. q * p \in Nat /\ (q + 1) * p = q * p + p  BY <1>2, <3>1
    <3>. QED BY <1>2, <2>1, <3>1, <3>2, <3>3
  <2>3. (q + 1) * p \in Nat /\ ((q + 1) * p) % s = 0
    <3>1. q + 1 \in Nat  BY <2>2
    <3>. HIDE DEF q
    <3>. QED BY <3>1, <1>2, MultipleOfMultiple
  <2>. HIDE DEF q
  <2>4. q * p \in Int  BY <1>2, <2>2
  <2>. DEFINE jump == (q + 1) * p
  <2>5. Planned(lp, now) = next + jump  BY <1>5, <1>6
  <2>6. Planned(lp, now) \in Nat /\ Planned(lp, now) % s = 0
    <3>1. jump \in Nat /\ jump % s = 0  BY <2>3
    <3>. HIDE DEF next, jump
    <3>2. (next + jump) % s = 0  BY <1>3, <1>2, <3>1, SumOfMultiples
    <3>. QED BY <1>3, <2>5, <3>1, <3>2
  <2>7. jump \in Nat /\ a < jump /\ jump <= a + p  BY <1>2, <2>1, <2>2, <2>4
  <2>8. Planned(lp, now) = lp.next + p + jump  BY <2>5
  <2>. HIDE DEF jump
  <2>9. /\ now <= Planned(lp, now) - lp.delay
        /\ Planned(lp, now) - lp.delay <= now + p
    BY <1>1, <1>2, <2>7, <2>8
  <2>10. now + p <= now + p + e  BY <1>2
  <2>11. ~(now <= lp.next + p - lp.delay)  BY <1>1, <1>2, <1>6
  <2>12. Planned(lp, now) - lp.delay <= now + p + e
    BY <1>2, <2>6, <2>9, <2>10
  <2>. QED BY <2>6, <2>9, <2>11, <2>12 DEF s, p
<1>7. CASE ~(a > 0)
  <2>1. Planned(lp, now) = next  BY <1>5, <1>7
  <2>2. now <= next - lp.delay /\ next - lp.delay <= now + p + e
    <3>1. lp.next - lp.delay <= now + e  OBVIOUS
    <3>. QED BY <3>1, <1>1, <1>2, <1>7
  <2>. QED BY <1>3, <2>1, <2>2 DEF s, p
<1>. QED BY <1>6, <1>7

-----------------------------------------------------------------------------
(* Steps.                                                                    *)

LEMMA InitSound == Init => IInv
<1>. SUFFICES ASSUME Init PROVE IInv
  OBVIOUS
<1>1. (CHOOSE p \in Periods : TRUE) \in Nat  BY Constants
<1>2. clock \in Nat /\ drift \in Drifts /\ drift \in Int
  BY <1>1, Constants DEF Init
<1>3. PICK m \in Modes, d \in Delays, p \in Periods :
        loop = [l \in Loops |->
                  [active |-> FALSE, next |-> clock + drift, delay |-> d,
                   mode |-> m, period |-> p, timer |-> NoTime,
                   skewed |-> FALSE, last |-> NoTime]]
  BY DEF Init
<1>4. loop \in [Loops -> LoopRecord]  BY <1>2, <1>3 DEF LoopRecord
<1>5. \A l \in Loops : ~loop[l].active /\ loop[l].timer = NoTime  BY <1>3
<1>6. \A l \in Loops : Scheduled(loop[l]) /\ Aimed(loop[l], clock, drift)
  BY <1>5, Idle
<1>7. OneActive(loop)  BY <1>5 DEF OneActive, Loops
<1>. QED BY <1>2, <1>4, <1>6, <1>7 DEF IInv, Sound

\* The timer expires: the loop is aimed at the activity it plans.
LEMMA TimerSound ==
  ASSUME IInv, NEW l \in Loops, OnTimer(l)
  PROVE  Sound(loop', clock, drift)
<1>. DEFINE lp   == loop[l]
            now  == clock + drift
            next == Planned(lp, now)
            aim  == clock + (next - now - lp.delay)
            past == IF lp.skewed THEN NoTime ELSE lp.next
            made == [lp EXCEPT !.next = next, !.timer = aim, !.skewed = FALSE,
                               !.last = past]
            new  == [loop EXCEPT ![l] = made]
<1>1. /\ clock \in Nat /\ drift \in Int /\ loop \in [Loops -> LoopRecord]
      /\ lp \in LoopRecord /\ Scheduled(lp) /\ Aimed(lp, clock, drift) /\ OneActive(loop)
  BY Constants DEF IInv, Sound
<1>2. lp.active /\ lp.timer <= clock /\ loop' = Announced(new, l)
  BY DEF OnTimer
<1>3. /\ lp.mode \in Modes /\ lp.period \in Periods /\ lp.delay \in Delays
      /\ lp.next \in Nat /\ lp.next % Slot[lp.mode] = 0
  BY <1>1, <1>2 DEF LoopRecord, Scheduled
<1>4. /\ Slot[lp.mode] \in Nat \ {0} /\ lp.period \in Nat \ {0} /\ lp.delay \in Nat
      /\ Late \in Nat /\ Late < lp.period /\ Distance(drift) \in Nat
      /\ -drift <= Distance(drift)
  BY <1>1, <1>3, Constants, OfPeriods, Distances
<1>5. /\ lp.timer \in Nat /\ clock <= lp.timer + Late
      /\ lp.skewed => lp.timer = lp.next - lp.delay
      /\ ~lp.skewed => lp.timer = lp.next - lp.delay - drift
  BY <1>1, <1>2, <1>3, <1>4 DEF Aimed
<1>. HIDE DEF lp
<1>6. lp.next - lp.delay <= now + Distance(drift)
  BY <1>1, <1>2, <1>3, <1>4, <1>5
<1>7. ~lp.skewed => now <= lp.next + lp.period - lp.delay
  BY <1>1, <1>3, <1>4, <1>5
<1>8. /\ next \in Nat /\ next % Slot[lp.mode] = 0
      /\ now <= next - lp.delay /\ next - lp.delay <= now + lp.period + Distance(drift)
      /\ ~lp.skewed => next = lp.next + lp.period
  <2>1. now \in Int  BY <1>1
  <2>. HIDE DEF now
  <2>. QED BY <2>1, <1>1, <1>2, <1>4, <1>6, <1>7, Plans
<1>9. /\ aim \in Nat /\ aim = next - lp.delay - drift
      /\ clock <= aim + Late
      /\ aim <= clock + lp.period + Slot[lp.mode] + Distance(drift)
  <2>. HIDE DEF next
  <2>. QED BY <1>1, <1>3, <1>4, <1>8
<1>. HIDE DEF aim, next
<1>10. /\ made \in LoopRecord /\ made.active /\ made.timer = aim /\ ~made.skewed
       /\ made.next = next /\ made.delay = lp.delay /\ made.mode = lp.mode
       /\ made.period = lp.period
       /\ made.last = past
  <2>1. lp \in LoopRecord /\ lp.active /\ next \in Nat /\ aim \in Nat /\ lp.next \in Nat
    BY <1>1, <1>2, <1>3, <1>8, <1>9
  <2>2. past \in Nat \cup {NoTime}  BY <2>1
  <2>. HIDE DEF past
  <2>3. /\ made.active = lp.active /\ made.timer = aim /\ made.skewed = FALSE
        /\ made.next = next /\ made.delay = lp.delay /\ made.mode = lp.mode
        /\ made.period = lp.period /\ made.last = past
    BY <2>1 DEF LoopRecord
  <2>4. made \in LoopRecord
    <3>1. next \in Int  BY <2>1
    <3>. QED BY <2>1, <2>2, <3>1 DEF LoopRecord
  <2>. HIDE DEF made
  <2>. QED BY <2>1, <2>3, <2>4
<1>. HIDE DEF made
<1>11. Scheduled(made)
  <2>1. CASE lp.skewed  BY <2>1, <1>8, <1>10 DEF Scheduled
  <2>2. CASE ~lp.skewed  BY <2>2, <1>8, <1>10 DEF Scheduled
  <2>. QED BY <2>1, <2>2
<1>12. Aimed(made, clock, drift)  BY <1>9, <1>10 DEF Aimed
<1>13. new \in [Loops -> LoopRecord] /\ new[l] = made
       /\ \A x \in Loops \ {l} : new[x] = loop[x]
  BY <1>1, <1>10
<1>. HIDE DEF new
<1>14. \A x \in Loops : loop'[x] = IF x = l THEN made ELSE Cancelled(loop[x])
  BY <1>2, <1>13 DEF Announced
<1>15. loop' \in [Loops -> LoopRecord]
  <2>1. \A x \in Loops : (IF x = l THEN new[x] ELSE Cancelled(new[x])) \in LoopRecord
    BY <1>13, Cancelling
  <2>. QED BY <1>2, <2>1 DEF Announced
<1>16. \A x \in Loops \ {l} : ~loop'[x].active /\ loop'[x].timer = NoTime
  BY <1>1, <1>14, Cancelling
<1>17. \A x \in Loops : Scheduled(loop'[x]) /\ Aimed(loop'[x], clock, drift)
  BY <1>11, <1>12, <1>14, <1>16, Idle
<1>18. OneActive(loop')  BY <1>16 DEF OneActive, Loops
<1>. QED BY <1>15, <1>17, <1>18 DEF Sound

\* Time passes, but no timer stays expired.
LEMMA TickSound ==
  ASSUME IInv, Tick
  PROVE  Sound(loop, clock + 1, drift)
<1>1. /\ clock \in Nat /\ drift \in Int /\ loop \in [Loops -> LoopRecord]
      /\ \A l \in Loops : Scheduled(loop[l]) /\ Aimed(loop[l], clock, drift)
      /\ OneActive(loop)
  BY Constants DEF IInv, Sound
<1>2. ASSUME NEW l \in Loops PROVE Aimed(loop[l], clock + 1, drift)
  <2>. DEFINE lp == loop[l]
  <2>1. CASE ~lp.active  BY <2>1 DEF Aimed
  <2>2. CASE lp.active
    <3>1. /\ lp.timer \in Nat
          /\ lp.timer = lp.next - lp.delay - (IF lp.skewed THEN 0 ELSE drift)
          /\ lp.timer <= clock + lp.period + Slot[lp.mode] + Distance(drift)
      BY <1>1, <2>2 DEF Aimed
    <3>2. lp.timer # NoTime  BY <3>1 DEF NoTime
    <3>3. clock < lp.timer + Late  BY <3>2 DEF Tick
    <3>4. /\ lp.period \in Nat /\ Slot[lp.mode] \in Nat /\ Distance(drift) \in Nat
          /\ Late \in Nat
      BY <1>1, Constants, Distances DEF LoopRecord
    <3>. HIDE DEF lp
    <3>5. /\ clock + 1 <= lp.timer + Late
          /\ lp.timer <= clock + 1 + lp.period + Slot[lp.mode] + Distance(drift)
      BY <1>1, <3>1, <3>3, <3>4
    <3>6. Aimed(lp, clock + 1, drift)  BY <3>1, <3>5 DEF Aimed
    <3>. QED BY <3>6 DEF lp
  <2>. QED BY <2>1, <2>2
<1>. QED BY <1>1, <1>2 DEF Sound

LEMMA ReleaseSound ==
  ASSUME IInv, NEW l \in Loops, Release(l)
  PROVE  Sound(loop', clock, drift)
<1>1. /\ loop \in [Loops -> LoopRecord] /\ OneActive(loop)
      /\ \A x \in Loops : Scheduled(loop[x]) /\ Aimed(loop[x], clock, drift)
  BY DEF IInv, Sound
<1>2. \A x \in Loops : loop'[x] = IF x = l THEN Cancelled(loop[x]) ELSE loop[x]
  BY <1>1 DEF Release
<1>3. loop' \in [Loops -> LoopRecord]
  <2>1. Cancelled(loop[l]) \in LoopRecord  BY <1>1, Cancelling
  <2>. QED BY <1>1, <2>1 DEF Release
<1>4. ~loop'[l].active /\ loop'[l].timer = NoTime  BY <1>1, <1>2, Cancelling
<1>5. \A x \in Loops : Scheduled(loop'[x]) /\ Aimed(loop'[x], clock, drift)
  BY <1>1, <1>2, <1>4, Idle
<1>6. OneActive(loop')  BY <1>1, <1>2, <1>4 DEF OneActive, Loops
<1>. QED BY <1>3, <1>5, <1>6 DEF Sound

\* Every step keeps the invariant.
LEMMA NextSound == IInv /\ [Next]_vars => IInv'
<1>. SUFFICES ASSUME IInv, [Next]_vars PROVE IInv'
  OBVIOUS
<1>1. clock \in Nat /\ drift \in Drifts /\ drift \in Int /\ Sound(loop, clock, drift)
  BY Constants DEF IInv
<1>2. loop \in [Loops -> LoopRecord]  BY <1>1 DEF Sound
<1>. SUFFICES clock' \in Nat /\ drift' \in Drifts /\ Sound(loop', clock', drift')
  BY DEF IInv, Sound, OneActive
<1>3. CASE Tick
  <2>1. clock' = clock + 1 /\ drift' = drift /\ loop' = loop  BY <1>3 DEF Tick
  <2>. QED BY <1>1, <1>3, <2>1, TickSound
<1>4. ASSUME NEW l \in Loops, NEW p \in Periods, Press(l, p)
      PROVE  clock' \in Nat /\ drift' \in Drifts /\ Sound(loop', clock', drift')
  <2>1. clock' = clock /\ drift' = drift /\ loop' = Restarted(loop, l, p, drift)
    BY <1>4 DEF Press
  <2>. QED BY <1>1, <1>2, <2>1, RestartSound
<1>5. ASSUME NEW l \in Loops, Release(l)
      PROVE  clock' \in Nat /\ drift' \in Drifts /\ Sound(loop', clock', drift')
  <2>1. clock' = clock /\ drift' = drift  BY <1>5 DEF Release
  <2>. QED BY <1>1, <1>5, <2>1, ReleaseSound
<1>6. ASSUME NEW l \in Loops, OnTimer(l)
      PROVE  clock' \in Nat /\ drift' \in Drifts /\ Sound(loop', clock', drift')
  <2>1. clock' = clock /\ drift' = drift  BY <1>6 DEF OnTimer
  <2>. QED BY <1>1, <1>6, <2>1, TimerSound
<1>7. ASSUME NEW d \in Drifts, SetDrift(d)
      PROVE  clock' \in Nat /\ drift' \in Drifts /\ Sound(loop', clock', drift')
  <2>1. /\ clock' = clock /\ drift' = d
        /\ loop' = DriftChanged(DriftChanged(loop, "CQ", d), "HB", d)
    BY <1>7 DEF SetDrift
  <2>2. d \in Int  BY Constants
  <2>3. Sound(DriftChanged(DriftChanged(loop, "CQ", d), "HB", d), clock, d)
    BY <1>1, <2>2, DriftSound
  <2>. QED BY <1>1, <2>1, <2>3
<1>8. ASSUME NEW m \in Modes, SetSubmode(m)
      PROVE  clock' \in Nat /\ drift' \in Drifts /\ Sound(loop', clock', drift')
  <2>. DEFINE hb == ModeChanged(loop, "HB", m)
  <2>1. clock' = clock /\ drift' = drift /\ loop' = ModeChanged(hb, "CQ", m)
    BY <1>8 DEF SetSubmode
  <2>2. Sound(hb, clock, drift)  BY <1>1, ModeSound DEF Loops
  <2>. HIDE DEF hb
  <2>3. Sound(ModeChanged(hb, "CQ", m), clock, drift)
    BY <1>1, <2>2, ModeSound DEF Loops
  <2>. QED BY <1>1, <2>1, <2>3
<1>9. ASSUME NEW d \in Delays, SetTxDelay(d)
      PROVE  clock' \in Nat /\ drift' \in Drifts /\ Sound(loop', clock', drift')
  <2>. DEFINE hb == DelayChanged(loop, "HB", d)
  <2>1. clock' = clock /\ drift' = drift /\ loop' = DelayChanged(hb, "CQ", d)
    BY <1>9 DEF SetTxDelay
  <2>2. Sound(hb, clock, drift)  BY <1>1, DelaySound DEF Loops
  <2>. HIDE DEF hb
  <2>3. Sound(DelayChanged(hb, "CQ", d), clock, drift)
    BY <1>1, <2>2, DelaySound DEF Loops
  <2>. QED BY <1>1, <2>1, <2>3
<1>10. CASE UNCHANGED vars  BY <1>1, <1>10 DEF vars
<1>. QED BY <1>3, <1>4, <1>5, <1>6, <1>7, <1>8, <1>9, <1>10 DEF Next

-----------------------------------------------------------------------------
(* What the loops promise.                                                   *)

\* IInv is inductive: the timer of an active loop always belongs to its activity
\* (TxLoop.cpp 29-68, 101-143).
THEOREM InductiveInvariant == Spec => []IInv
<1>1. Init => IInv  BY InitSound
<1>2. IInv /\ [Next]_vars => IInv'  BY NextSound
<1>. QED BY <1>1, <1>2, PTL DEF Spec

\* The fields of both loops keep their types; in particular no timer of an active
\* loop is set for a time before the clock's zero.
THEOREM TypeCorrect == Spec => []TypeOK
<1>1. IInv => TypeOK  BY DEF IInv, Sound, TypeOK
<1>. QED BY <1>1, InductiveInvariant, PTL

\* One loop at most is active, and that one has a wake-up that is neither missed
\* nor far away (mainwindow.cpp 668-688, TxLoop.cpp 126-143).
THEOREM OneLoopWakes == Spec => []OneWakes
<1>1. IInv => OneWakes
  <2>. SUFFICES ASSUME IInv PROVE OneWakes
    OBVIOUS
  <2>1. ~(loop["HB"].active /\ loop["CQ"].active)
    BY DEF IInv, Sound, OneActive
  <2>2. ASSUME NEW l \in Loops
        PROVE  IF loop[l].active
               THEN /\ clock <= loop[l].timer + Late
                    /\ loop[l].timer <= clock + loop[l].period + Slot[loop[l].mode]
                                                 + Distance(drift)
               ELSE loop[l].timer = NoTime
    <3>1. Scheduled(loop[l]) /\ Aimed(loop[l], clock, drift)  BY DEF IInv, Sound
    <3>2. CASE loop[l].active  BY <3>1, <3>2 DEF Aimed
    <3>3. CASE ~loop[l].active  BY <3>1, <3>3 DEF Scheduled
    <3>. QED BY <3>2, <3>3
  <2>. QED BY <2>1, <2>2 DEF OneWakes
<1>. QED BY <1>1, InductiveInvariant, PTL

\* A trigger is at a slot of the drifting clock, unless the timer was set by the
\* system clock under a drift (TxLoop.cpp 29-68).
THEOREM TriggersOnSlot == Spec => OnSlotOnceAimed
<1>1. IInv /\ [Next]_vars =>
        [\A l \in Loops : OnTimer(l) /\ ~loop[l].skewed => AtSlot(loop[l])]_vars
  <2>. SUFFICES ASSUME IInv, NEW l \in Loops, OnTimer(l), ~loop[l].skewed
                PROVE  AtSlot(loop[l])
    OBVIOUS
  <2>. DEFINE lp == loop[l]
  <2>1. /\ clock \in Nat /\ drift \in Int /\ lp \in LoopRecord
        /\ Scheduled(lp) /\ Aimed(lp, clock, drift)
        /\ lp.active /\ lp.timer <= clock
    BY Constants DEF IInv, Sound, OnTimer
  <2>2. /\ lp.delay \in Nat /\ Slot[lp.mode] \in Nat \ {0} /\ Late \in Nat
    BY <2>1, Constants DEF LoopRecord
  <2>3. /\ lp.next \in Nat /\ lp.next % Slot[lp.mode] = 0 /\ lp.timer \in Nat
        /\ clock <= lp.timer + Late /\ lp.timer = lp.next - lp.delay - drift
    <3>1. ~lp.skewed  OBVIOUS
    <3>. HIDE DEF lp
    <3>. QED BY <2>1, <2>2, <3>1 DEF Scheduled, Aimed
  <2>. DEFINE e == clock - lp.timer
  <2>4. e \in Nat /\ e <= Late /\ clock + drift + lp.delay = lp.next + e
    <3>. HIDE DEF lp
    <3>. QED BY <2>1, <2>2, <2>3
  <2>. HIDE DEF lp, e
  <2>5. PICK q \in Nat : lp.next = q * Slot[lp.mode]  BY <2>2, <2>3, AsMultiple
  <2>6. (q * Slot[lp.mode] + e) % Slot[lp.mode] <= e  BY <2>2, <2>4, OffMultiple
  <2>7. clock + drift + lp.delay = q * Slot[lp.mode] + e  BY <2>4, <2>5
  <2>8. (q * Slot[lp.mode] + e) % Slot[lp.mode] <= Late
    <3>1. (q * Slot[lp.mode] + e) % Slot[lp.mode] \in Nat
      <4>1. q * Slot[lp.mode] + e \in Nat  BY <2>2, <2>4
      <4>. QED BY <2>2, <4>1, Division
    <3>. QED BY <2>2, <2>4, <2>6, <3>1
  <2>9. AtSlot(lp)  BY <2>7, <2>8 DEF AtSlot
  <2>. QED BY <2>9 DEF lp
<1>. QED BY <1>1, InductiveInvariant, PTL DEF Spec, OnSlotOnceAimed

\* Consecutive triggers of a schedule are one period apart (TxLoop.cpp 101-124).
THEOREM TriggersEveryPeriod == Spec => EveryPeriod
<1>1. IInv /\ [Next]_vars =>
        [\A l \in Loops : OnTimer(l) /\ loop[l].last # NoTime
           => loop[l].next = loop[l].last + loop[l].period]_vars
  <2>. SUFFICES ASSUME IInv, NEW l \in Loops, OnTimer(l), loop[l].last # NoTime
                PROVE  loop[l].next = loop[l].last + loop[l].period
    OBVIOUS
  <2>1. loop[l].active /\ Scheduled(loop[l])  BY DEF OnTimer, IInv, Sound
  <2>. QED BY <2>1 DEF Scheduled
<1>. QED BY <1>1, InductiveInvariant, PTL DEF Spec, EveryPeriod
=============================================================================
