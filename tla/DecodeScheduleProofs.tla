------------------------- MODULE DecodeScheduleProofs -------------------------
(* Theorems about the receive scheduler, for every ring, set of submodes,    *)
(* buffer size and number of calls.                                          *)
EXTENDS DecodeSchedule, TLAPS

-----------------------------------------------------------------------------
(* Arithmetic of the ring.                                                 *)

\* The cycle a position is in begins before it and ends after it.
LEMMA CycleOfPosition ==
  ASSUME NEW k \in Nat, NEW p \in Nat \ {0}
  PROVE  /\ k \div p \in Nat
         /\ (k \div p) * p <= k
         /\ k < (k \div p) * p + p
  BY SMT

\* A cycle that begins before another begins ends before it begins.
LEMMA CyclesApart ==
  ASSUME NEW a \in Nat, NEW b \in Nat, NEW p \in Nat \ {0}, a * p < b * p
  PROVE  a < b /\ a * p + p <= b * p
<1>1. a < b
  <2>1. SUFFICES ASSUME b <= a PROVE FALSE OBVIOUS
  <2>2. PICK d \in Nat : a = b + d  BY <2>1
  <2>3. a * p = b * p + d * p BY <2>2
  <2>. QED BY <2>3
<1>2. PICK d \in Nat : b = a + 1 + d BY <1>1
<1>3. b * p = a * p + p + d * p BY <1>2
<1>. QED BY <1>1, <1>3

LEMMA SmallRemainder ==
  ASSUME NEW a \in Nat, NEW n \in Nat \ {0}, a < n
  PROVE  a % n = a
  OBVIOUS

LEMMA WrappedRemainder ==
  ASSUME NEW a \in Nat, NEW n \in Nat \ {0}, a < n
  PROVE  (a + n) % n = a
  OBVIOUS

LEMMA ExactQuotient ==
  ASSUME NEW c \in Nat, NEW p \in Nat \ {0}
  PROVE  (c * p) \div p = c
  OBVIOUS

LEMMA NextMultiple ==
  ASSUME NEW q \in Nat, NEW p \in Nat
  PROVE  (q + 1) * p = q * p + p
  OBVIOUS

LEMMA AtLeastOnce ==
  ASSUME NEW c \in Nat \ {0}, NEW p \in Nat
  PROVE  p <= c * p
<1>1. PICK d \in Nat : c = d + 1  OBVIOUS
<1>2. c * p = d * p + p  BY <1>1
<1>3. d * p \in Nat  OBVIOUS
<1>4. p \in Nat  OBVIOUS
<1>. QED BY <1>2, <1>3, <1>4

\* The cycle of a position, found with the two divisions of isDecodeReady.
LEMMA CycleByDivision ==
  ASSUME NEW k \in Nat, NEW p \in Nat \ {0}, NEW c \in Nat \ {0}, k < c * p
  PROVE  LET q == (k \div p) % ((c * p) \div p)
         IN  q \in Nat /\ q * p <= k /\ k < q * p + p
<1>. DEFINE q == k \div p
<1>1. q \in Nat /\ q * p <= k /\ k < q * p + p  BY CycleOfPosition
<1>2. q < c
  <2>1. q * p < c * p
    <3>1. q * p \in Nat /\ c * p \in Nat  BY <1>1
    <3>. QED BY <1>1, <3>1
  <2>. QED BY <1>1, <2>1, CyclesApart
<1>3. (c * p) \div p = c  BY ExactQuotient
<1>4. q % c = q  BY <1>1, <1>2, SmallRemainder
<1>. QED BY <1>1, <1>3, <1>4

-----------------------------------------------------------------------------
(* The same about one submode.                                             *)

\* x is the beginning of a cycle of p samples, or the end of the ring.
OnGrid(x, p) == x \in 0 .. Ring /\ \E q \in Nat : x = q * p

\* What the assumption on the constants gives for one submode.
LEMMA Parameters ==
  ASSUME NEW s \in Submodes
  PROVE  /\ Ring \in Nat \ {0} /\ Period[s] \in Nat \ {0} /\ Needed[s] \in Nat \ {0}
         /\ Needed[s] <= Period[s] /\ Period[s] <= Ring
         /\ \A n \in Chunks : n \in Nat \ {0} /\ Needed[s] + n <= Period[s]
<1>1. /\ Ring \in Nat \ {0} /\ Chunks \subseteq Nat \ {0}
      /\ Period \in [Submodes -> Nat \ {0}] /\ Needed \in [Submodes -> Nat \ {0}]
  BY ScheduleAssumption
<1>2. Needed[s] <= Period[s] /\ \A n \in Chunks : Needed[s] + n <= Period[s]
  BY ScheduleAssumption
<1>3. PICK c \in 1 .. Ring : Ring = c * Period[s]  BY ScheduleAssumption
<1>4. c \in Nat \ {0} /\ Period[s] \in Nat  BY <1>1
<1>5. Period[s] <= c * Period[s]  BY <1>4, AtLeastOnce
<1>. QED BY <1>1, <1>2, <1>3, <1>5

LEMMA Tiling ==
  ASSUME NEW s \in Submodes
  PROVE  \E c \in Nat \ {0} : Ring = c * Period[s]
<1>1. PICK c \in 1 .. Ring : Ring = c * Period[s]  BY ScheduleAssumption
<1>2. Ring \in Nat  BY Parameters
<1>3. c \in Nat \ {0}  BY <1>2
<1>. QED BY <1>1, <1>3

LEMMA Indices ==
  ASSUME NEW s \in Submodes
  PROVE  s \in Int /\ 1 <= s /\ s <= Count /\ Count \in Nat
<1>1. Count \in Nat  BY ScheduleAssumption
<1>. QED BY <1>1 DEF Submodes

LEMMA NextOnGrid ==
  ASSUME NEW s \in Submodes, NEW x, OnGrid(x, Period[s]), x < Ring
  PROVE  OnGrid(x + Period[s], Period[s])
<1>. DEFINE p == Period[s]
<1>1. PICK q \in Nat : x = q * p  BY DEF OnGrid
<1>2. PICK c \in Nat \ {0} : Ring = c * p  BY Tiling
<1>3. p \in Nat \ {0}  BY Parameters
<1>4. x \in 0 .. Ring /\ Ring \in Nat  BY Parameters DEF OnGrid
<1>. HIDE DEF p
<1>5. q * p < c * p  BY <1>1, <1>2
<1>6. q * p + p <= c * p  BY <1>2, <1>3, <1>5, CyclesApart
<1>7. (q + 1) * p = q * p + p  BY <1>3, NextMultiple
<1>8. x + p \in 0 .. Ring  BY <1>1, <1>2, <1>3, <1>4, <1>6
<1>9. x + p = (q + 1) * p /\ q + 1 \in Nat  BY <1>1, <1>7
<1>10. OnGrid(x + p, p)  BY <1>8, <1>9 DEF OnGrid
<1>. QED BY <1>10 DEF p

\* A reset finds the beginning of the cycle that contains the position.
LEMMA CycleStart ==
  ASSUME NEW s \in Submodes, kin \in Positions
  PROVE  LET x == CurrentCycle(s) * Period[s]
         IN  OnGrid(x, Period[s]) /\ x <= kin /\ kin < x + Period[s]
<1>. DEFINE p == Period[s]
            q == (kin \div p) % (Ring \div p)
<1>1. PICK c \in Nat \ {0} : Ring = c * p  BY Tiling
<1>2. kin \in Nat /\ p \in Nat \ {0} /\ kin < Ring  BY Parameters DEF Positions
<1>3. CurrentCycle(s) = q  BY DEF CurrentCycle
<1>. HIDE DEF p
<1>4. q \in Nat /\ q * p <= kin /\ kin < q * p + p
  <2>. DEFINE r == (kin \div p) % ((c * p) \div p)
  <2>1. kin < c * p  BY <1>1, <1>2
  <2>2. r \in Nat /\ r * p <= kin /\ kin < r * p + p  BY <1>2, <2>1, CycleByDivision
  <2>3. q = r  BY <1>1
  <2>. QED BY <2>2, <2>3
<1>5. q * p \in Nat  BY <1>2, <1>4
<1>. HIDE DEF q
<1>6. q * p \in 0 .. Ring  BY <1>2, <1>4, <1>5, Parameters
<1>. QED BY <1>3, <1>4, <1>6 DEF OnGrid, p

LEMMA GridRange ==
  ASSUME NEW x, NEW p, OnGrid(x, p)
  PROVE  x \in 0 .. Ring
  BY DEF OnGrid

\* The only cycle that begins before the first one ends is the first.
LEMMA FirstOnGrid ==
  ASSUME NEW s \in Submodes, NEW x, OnGrid(x, Period[s]), x < Period[s]
  PROVE  x = 0
<1>. DEFINE p == Period[s]
<1>1. PICK q \in Nat : x = q * p  BY DEF OnGrid
<1>2. p \in Nat  BY Parameters
<1>3. x < p OBVIOUS
<1>. HIDE DEF p
<1>4. CASE q = 0  BY <1>1, <1>2, <1>4
<1>5. CASE q # 0
  <2>1. p <= q * p  BY <1>2, <1>5, AtLeastOnce
  <2>. QED BY <1>1, <1>2, <1>3, <2>1
<1>. QED BY <1>4, <1>5

-----------------------------------------------------------------------------
(* The inductive invariant.                                                *)

\* The position as if the ring had not wrapped in this call.
Unwrapped == IF kin < k0 THEN kin + Ring ELSE kin

\* schedule_decodes has yet to look at s.
NotSeen(s) == pc = "schedule" /\ at <= s

\* The position at which the schedule of s was last brought up to date, and
\* the one it has to be brought up to.
SeenAt(s) == IF NotSeen(s) THEN k0 ELSE kin
Reached(s) == IF NotSeen(s) THEN Unwrapped ELSE kin

\* Between two calls the position moves by one buffer.
Moves ==
  /\ pc # "schedule" => kin = k0
  /\ \A s \in Submodes : Unwrapped + Needed[s] <= k0 + Period[s]
  /\ pc = "schedule" => \A s \in ready : s < at

\* A window begins on the grid and the next one follows it.
OnCycle(s) ==
  \/ current[s] = -1 /\ next[s] = -1
  \/ OnGrid(current[s], Period[s]) /\ next[s] = current[s] + Period[s]

\* The window is not complete, and the one before it is.
Pending(s) ==
  s \notin missed /\ current[s] # -1 =>
    /\ current[s] + Needed[s] <= SeenAt(s) + Period[s]
    /\ SeenAt(s) < current[s] + Needed[s]

\* The window follows the previous one, and what was captured since the
\* alignment reaches back to its beginning.
Follows(s) ==
  last[s] # -1 =>
    /\ s \notin missed /\ current[s] # -1
    /\ \/ current[s] = last[s] + Period[s]
       \/ current[s] = 0 /\ last[s] + Period[s] = Ring
    /\ Reached(s) - current[s] <= fresh

ScheduleInv(s) == OnCycle(s) /\ Pending(s) /\ Follows(s)

IInv ==
  /\ TypeOK
  /\ Moves
  /\ \A s \in Submodes : ScheduleInv(s)
  /\ WindowFits

-----------------------------------------------------------------------------
(* isDecodeReady on a schedule that satisfies the invariant.               *)

\* What the type invariant says of the numbers of one submode.
LEMMA Numbers ==
  ASSUME TypeOK, NEW s \in Submodes
  PROVE  /\ kin \in Int /\ 0 <= kin /\ kin < Ring
         /\ k0 \in Int /\ 0 <= k0 /\ k0 < Ring
         /\ current[s] \in Int /\ -1 <= current[s] /\ current[s] <= Ring
         /\ next[s] \in Int
         /\ last[s] \in Int /\ -1 <= last[s] /\ last[s] < Ring
         /\ fresh \in Int /\ 0 <= fresh /\ fresh <= Ring
<1>1. Ring \in Nat \ {0}  BY Parameters
<1>. QED BY <1>1 DEF TypeOK, Positions

\* After a reset the window is the cycle of the position.
LEMMA StartAfterReset ==
  ASSUME TypeOK, NEW s \in Submodes, MustReset(s)
  PROVE  /\ OnGrid(Start(s), Period[s])
         /\ Following(s) = Start(s) + Period[s]
         /\ Start(s) <= kin /\ kin < Start(s) + Period[s]
<1>1. kin \in Positions  BY DEF TypeOK
<1>2. Start(s) = CurrentCycle(s) * Period[s]  BY DEF Start
<1>3. /\ OnGrid(Start(s), Period[s])
      /\ Start(s) <= kin /\ kin < Start(s) + Period[s]
  BY <1>1, <1>2, CycleStart
<1>. QED BY <1>3 DEF Following

\* Without a reset the window is the one that was set.
LEMMA StartWithoutReset ==
  ASSUME TypeOK, NEW s \in Submodes, OnCycle(s), ~MustReset(s)
  PROVE  /\ OnGrid(Start(s), Period[s])
         /\ Following(s) = Start(s) + Period[s]
         /\ Start(s) = current[s] /\ current[s] # -1 /\ k0 <= kin
<1>1. current[s] # -1 /\ next[s] # -1 /\ ~(kin < k0)  BY DEF MustReset
<1>2. k0 <= kin  BY <1>1, Numbers
<1>. QED BY <1>1, <1>2 DEF OnCycle, Start, Following

\* Either way the window begins on the grid; a window that is ready lies in
\* the ring, and so does the beginning of the one after it.
LEMMA StartOnGrid ==
  ASSUME TypeOK, NEW s \in Submodes, OnCycle(s)
  PROVE  /\ OnGrid(Start(s), Period[s])
         /\ Following(s) = Start(s) + Period[s]
         /\ Start(s) \in Nat /\ Start(s) <= Ring
         /\ IsReady(s) => /\ Start(s) < Ring
                          /\ OnGrid(Start(s) + Period[s], Period[s])
                          /\ Size(s) = kin - Start(s)
<1>1. OnGrid(Start(s), Period[s]) /\ Following(s) = Start(s) + Period[s]
  BY StartAfterReset, StartWithoutReset
<1>2. Start(s) \in Nat /\ Start(s) <= Ring  BY <1>1, GridRange, Parameters
<1>3. ASSUME IsReady(s)
      PROVE  Start(s) < Ring /\ Size(s) = kin - Start(s)
  BY <1>2, <1>3, Numbers, Parameters DEF IsReady, Size
<1>4. IsReady(s) => OnGrid(Start(s) + Period[s], Period[s])
  BY <1>1, <1>3, NextOnGrid
<1>. QED BY <1>1, <1>2, <1>3, <1>4

\* A schedule that was not passed over is at most one cycle behind.
LEMMA StartInReach ==
  ASSUME TypeOK, Moves, NEW s \in Submodes, ScheduleInv(s), NotSeen(s),
         s \notin missed \/ MustReset(s)
  PROVE  kin < Start(s) + Period[s] /\ Start(s) + Needed[s] <= kin + Period[s]
<1>1. CASE MustReset(s)
  BY <1>1, StartAfterReset, Numbers, Parameters, GridRange
<1>2. CASE ~MustReset(s)
  <2>1. Start(s) = current[s] /\ current[s] # -1 /\ k0 <= kin
    BY <1>2, StartWithoutReset DEF ScheduleInv
  <2>2. current[s] + Needed[s] <= k0 + Period[s] /\ k0 < current[s] + Needed[s]
    BY <1>2, <2>1 DEF ScheduleInv, Pending, SeenAt
  <2>3. kin + Needed[s] <= k0 + Period[s]
    BY <2>1, Numbers DEF Moves, Unwrapped
  <2>. QED BY <2>1, <2>2, <2>3, Numbers, Parameters
<1>. QED BY <1>1, <1>2

\* A schedule with a previous window is reset only when the ring wraps, and
\* then the previous window was the last of the ring.
LEMMA ResetAtWrap ==
  ASSUME TypeOK, Moves, NEW s \in Submodes, ScheduleInv(s), NotSeen(s),
         last[s] # -1, MustReset(s)
  PROVE  kin < k0 /\ Start(s) = 0 /\ current[s] = Ring /\ last[s] + Period[s] = Ring
<1>1. /\ s \notin missed /\ current[s] # -1
      /\ \/ current[s] = last[s] + Period[s]
         \/ current[s] = 0 /\ last[s] + Period[s] = Ring
  BY DEF ScheduleInv, Follows
<1>2. current[s] + Needed[s] <= k0 + Period[s] /\ k0 < current[s] + Needed[s]
  BY <1>1 DEF ScheduleInv, Pending, SeenAt
<1>3. OnGrid(current[s], Period[s]) /\ next[s] = current[s] + Period[s]
  BY <1>1 DEF ScheduleInv, OnCycle
<1>4. kin < k0
  <2>1. SUFFICES ASSUME k0 <= kin PROVE FALSE  BY Numbers
  <2>2. kin + Needed[s] <= k0 + Period[s]  BY <2>1, Numbers DEF Moves, Unwrapped
  <2>3. ~DeadAir(s)  BY <1>2, <2>1, Numbers, Parameters DEF DeadAir
  <2>4. Distance(kin, k0) <= Period[s]
    BY <2>1, <2>2, Numbers, Parameters DEF Distance
  <2>5. next[s] # -1  BY <1>1, <1>3, Numbers, Parameters
  <2>. QED BY <1>1, <2>1, <2>3, <2>4, <2>5, Numbers, Parameters DEF MustReset, Distance
<1>5. kin + Ring + Needed[s] <= k0 + Period[s]  BY <1>4 DEF Moves, Unwrapped
<1>6. current[s] = Ring
  <2>1. SUFFICES ASSUME current[s] < Ring PROVE FALSE  BY Numbers, Parameters
  <2>2. current[s] + Period[s] <= Ring
    BY <1>3, <2>1, NextOnGrid, GridRange, Numbers, Parameters
  <2>. QED BY <1>2, <1>5, <2>2, Numbers, Parameters
<1>7. Start(s) = 0
  <2>1. OnGrid(Start(s), Period[s]) /\ Start(s) <= kin  BY StartAfterReset
  <2>2. kin < Period[s]  BY <1>5, Numbers, Parameters
  <2>3. Start(s) \in Nat  BY <2>1, GridRange, Parameters
  <2>4. Start(s) < Period[s]  BY <2>1, <2>2, <2>3, Numbers, Parameters
  <2>. QED BY <2>1, <2>4, FirstOnGrid
<1>. QED BY <1>1, <1>4, <1>6, <1>7, Parameters

\* The window follows the previous one, and no audio in it is older than the
\* alignment.
LEMMA StartFollows ==
  ASSUME TypeOK, Moves, NEW s \in Submodes, ScheduleInv(s), NotSeen(s), last[s] # -1
  PROVE  /\ \/ Start(s) = last[s] + Period[s]
            \/ Start(s) = 0 /\ last[s] + Period[s] = Ring
         /\ kin - Start(s) <= fresh
<1>1. /\ \/ current[s] = last[s] + Period[s]
         \/ current[s] = 0 /\ last[s] + Period[s] = Ring
      /\ Unwrapped - current[s] <= fresh
  BY DEF ScheduleInv, Follows, Reached
<1>2. CASE MustReset(s)
  <2>1. kin < k0 /\ Start(s) = 0 /\ current[s] = Ring /\ last[s] + Period[s] = Ring
    BY <1>2, ResetAtWrap
  <2>. QED BY <1>1, <2>1, Numbers, Parameters DEF Unwrapped
<1>3. CASE ~MustReset(s)
  <2>1. Start(s) = current[s] /\ k0 <= kin
    BY <1>3, StartWithoutReset DEF ScheduleInv
  <2>. QED BY <1>1, <2>1, Numbers DEF Unwrapped
<1>. QED BY <1>2, <1>3

-----------------------------------------------------------------------------
(* The steps.                                                              *)

\* A constructed engine has no window yet.
LEMMA InitIInv == Init => IInv
<1>. SUFFICES ASSUME Init PROVE IInv  OBVIOUS
<1>1. Ring \in Nat \ {0} /\ Count \in Nat \ {0} /\ MaxDrifts \in Nat /\ MaxSwitches \in Nat
  BY ScheduleAssumption
<1>2. TypeOK
  <2>1. 0 \in Positions /\ kin \in Positions  BY <1>1 DEF Init, Positions
  <2>2. at \in 1 .. Count + 1 /\ fresh \in 0 .. Ring  BY <1>1 DEF Init
  <2>3. Unset \in [Submodes -> -1 .. Ring] /\ Unset \in [Submodes -> -1 .. 2 * Ring]
        /\ Unset \in [Submodes -> -1 .. Ring - 1]
    BY <1>1 DEF Unset
  <2>4. window \in [Submodes -> [start : Positions, size : Nat]]  BY <2>1 DEF Init
  <2>5. drifts \in 0 .. MaxDrifts /\ switches \in 0 .. MaxSwitches  BY <1>1 DEF Init
  <2>6. setter \in [Setters -> {"out", "changed"}]  BY DEF Init
  <2>. QED BY <2>1, <2>2, <2>3, <2>4, <2>5, <2>6 DEF Init, TypeOK
<1>3. Moves  BY Numbers, <1>2, Parameters DEF Init, Moves, Unwrapped
<1>4. ASSUME NEW s \in Submodes PROVE ScheduleInv(s)
  BY DEF Init, Unset, ScheduleInv, OnCycle, Pending, Follows
<1>5. WindowFits  BY DEF Init, WindowFits
<1>. QED BY <1>2, <1>3, <1>4, <1>5 DEF IInv

\* What the invariant of a submode speaks of.
scheduleVars == <<pc, at, kin, k0, current, next, ready, window, fresh, last, missed>>

\* A step that leaves the ring and the windows alone keeps the invariant.
LEMMA RingUntouched ==
  ASSUME IInv, UNCHANGED scheduleVars, TypeOK'
  PROVE  IInv'
<1>1. Moves'  BY DEF IInv, scheduleVars, Moves, Unwrapped
<1>2. ASSUME NEW s \in Submodes PROVE ScheduleInv(s)'
  <2>1. ScheduleInv(s)  BY DEF IInv
  <2>. QED BY <2>1 DEF scheduleVars, ScheduleInv, OnCycle, Pending, Follows, SeenAt,
                       Reached, NotSeen, Unwrapped, OnGrid
<1>3. WindowFits'  BY DEF IInv, scheduleVars, WindowFits
<1>. QED BY <1>1, <1>2, <1>3 DEF IInv

LEMMA BeginAlignmentKeepsIInv ==
  ASSUME IInv, BeginAlignment
  PROVE  IInv'
<1>1. TypeOK /\ Moves /\ WindowFits  BY DEF IInv
<1>2. TypeOK'  BY <1>1 DEF TypeOK, BeginAlignment, passVars, ghostVars
<1>3. Moves'
  BY <1>1, Parameters DEF Moves, Unwrapped, BeginAlignment, passVars, ghostVars
<1>4. ASSUME NEW s \in Submodes PROVE ScheduleInv(s)'
  <2>1. ScheduleInv(s)  BY DEF IInv
  <2>. QED BY <2>1 DEF BeginAlignment, passVars, ghostVars, ScheduleInv, OnCycle, Pending,
                       Follows, SeenAt, Reached, NotSeen, Unwrapped, OnGrid
<1>5. WindowFits'  BY DEF WindowFits, BeginAlignment
<1>. QED BY <1>2, <1>3, <1>4, <1>5 DEF IInv

LEMMA AlignRingKeepsIInv ==
  ASSUME IInv, NEW position \in Positions, AlignRing(position)
  PROVE  IInv'
<1>1. TypeOK /\ Ring \in Nat \ {0}  BY ScheduleAssumption DEF IInv
<1>2. TypeOK'
  BY <1>1 DEF TypeOK, AlignRing, ForgetWindows, KeepRequest, Unset, passVars, Positions
<1>3. Moves'
  <2>1. kin' = position /\ k0' = position /\ pc' = "append"  BY DEF AlignRing
  <2>2. position \in Int  BY <1>1 DEF Positions
  <2>. QED BY <2>1, <2>2, Parameters DEF Moves, Unwrapped
<1>4. ASSUME NEW s \in Submodes PROVE ScheduleInv(s)'
  BY DEF AlignRing, ForgetWindows, Unset, ScheduleInv, OnCycle, Pending, Follows
<1>5. WindowFits'  BY DEF WindowFits, AlignRing
<1>. QED BY <1>2, <1>3, <1>4, <1>5 DEF IInv

\* A buffer moves the position by its size, over the end of the ring if need be.
LEMMA Advanced ==
  ASSUME TypeOK, NEW n \in Chunks
  PROVE  /\ n \in Nat \ {0} /\ n < Ring
         /\ Advance(n) \in Positions
         /\ Advance(n) = IF kin + n < Ring THEN kin + n ELSE kin + n - Ring
<1>1. PICK s \in Submodes : TRUE
  <2>1. Count \in Nat \ {0}  BY ScheduleAssumption
  <2>2. 1 \in Submodes  BY <2>1 DEF Submodes
  <2>. QED BY <2>2
<1>2. n \in Nat \ {0} /\ n < Ring /\ Ring \in Nat \ {0}  BY <1>1, Parameters
<1>3. kin \in Nat /\ kin < Ring  BY <1>1, Numbers
<1>4. CASE kin + n < Ring
  <2>1. (kin + n) % Ring = kin + n  BY <1>2, <1>3, <1>4, SmallRemainder
  <2>. QED BY <1>2, <1>3, <1>4, <2>1 DEF Advance, Positions
<1>5. CASE ~(kin + n < Ring)
  <2>. DEFINE a == kin + n - Ring
  <2>1. a \in Nat /\ a < Ring /\ kin + n = a + Ring  BY <1>2, <1>3, <1>5
  <2>2. (a + Ring) % Ring = a  BY <1>2, <2>1, WrappedRemainder
  <2>3. Advance(n) = a  BY <2>1, <2>2 DEF Advance
  <2>. QED BY <1>2, <1>5, <2>1, <2>3 DEF Positions
<1>. QED BY <1>4, <1>5

LEMMA ReceiveKeepsIInv ==
  ASSUME IInv, NEW n \in Chunks, Receive(n)
  PROVE  IInv'
<1>1. TypeOK /\ Moves  BY DEF IInv
<1>2. /\ n \in Nat \ {0} /\ n < Ring
      /\ kin' \in Positions
      /\ kin' = IF kin + n < Ring THEN kin + n ELSE kin + n - Ring
  BY <1>1, Advanced DEF Receive
<1>3. /\ pc' = "schedule" /\ at' = 1 /\ ready' = {}
      /\ kin = k0 /\ k0' = k0 /\ current' = current /\ next' = next
      /\ last' = last /\ missed' = missed
      /\ fresh' = IF fresh + n < Ring THEN fresh + n ELSE Ring
  BY <1>1 DEF Receive, CapturedSince, Moves
<1>4. Ring \in Nat \ {0} /\ Count \in Nat \ {0}  BY ScheduleAssumption
<1>5. kin \in Int /\ 0 <= kin /\ kin < Ring /\ fresh \in Int /\ 0 <= fresh /\ fresh <= Ring
  BY <1>1, <1>4 DEF TypeOK, Positions
<1>6. fresh' \in 0 .. Ring /\ at' \in 1 .. Count + 1  BY <1>2, <1>3, <1>4, <1>5
<1>7. TypeOK'  BY <1>1, <1>2, <1>3, <1>6 DEF TypeOK, Receive, driftVars
<1>8. Unwrapped' = kin + n  BY <1>2, <1>3, <1>4, <1>5 DEF Unwrapped
<1>9. Moves'  BY <1>2, <1>3, <1>5, <1>8, Parameters DEF Moves
<1>10. ASSUME NEW s \in Submodes PROVE ScheduleInv(s)'
  <2>1. ScheduleInv(s) /\ SeenAt(s) = kin /\ Reached(s) = kin
    BY DEF IInv, Receive, SeenAt, Reached, NotSeen
  <2>2. NotSeen(s)'  BY <1>3 DEF NotSeen, Submodes
  <2>3. SeenAt(s)' = kin /\ Reached(s)' = kin + n
    BY <1>3, <1>8, <2>2 DEF SeenAt, Reached
  <2>4. OnCycle(s)'  BY <1>3, <2>1 DEF ScheduleInv, OnCycle, OnGrid
  <2>5. Pending(s)'  BY <1>3, <2>1, <2>3 DEF ScheduleInv, Pending
  <2>6. Follows(s)'
    <3>1. ASSUME last[s] # -1
          PROVE  kin + n - current[s] <= fresh'
      <4>1. s \notin missed /\ current[s] # -1 /\ kin - current[s] <= fresh
        BY <2>1, <3>1 DEF ScheduleInv, Follows
      <4>2. kin < current[s] + Needed[s]  BY <2>1, <4>1 DEF ScheduleInv, Pending
      <4>3. kin + n - current[s] <= fresh + n  BY <1>1, <1>2, <4>1, Numbers
      <4>4. kin + n - current[s] <= Ring  BY <1>1, <1>2, <4>2, Numbers, Parameters
      <4>. QED BY <1>3, <4>3, <4>4
    <3>2. Follows(s)  BY <2>1 DEF ScheduleInv
    <3>3. Reached(s)' - current'[s] = kin + n - current[s]
      BY <1>1, <1>2, <1>3, <2>3, Numbers
    <3>. QED BY <1>3, <3>1, <3>2, <3>3 DEF Follows
  <2>. QED BY <2>4, <2>5, <2>6 DEF ScheduleInv
<1>11. WindowFits'  BY <1>3 DEF WindowFits
<1>. QED BY <1>7, <1>9, <1>10, <1>11 DEF IInv

\* What looking at one schedule leaves to the others.
LEMMA OthersUntouched ==
  ASSUME IInv, NEW s \in Submodes, LookAt(s), NEW t \in Submodes, t # s,
         current'[t] = current[t], next'[t] = next[t], last'[t] = last[t],
         t \in missed' <=> t \in missed
  PROVE  ScheduleInv(t)'
<1>1. ScheduleInv(t)  BY DEF IInv
<1>2. /\ pc = "schedule" /\ pc' = pc /\ at = s /\ at' = at + 1
      /\ kin' = kin /\ k0' = k0 /\ fresh' = fresh
  BY DEF LookAt
<1>3. NotSeen(t)' <=> NotSeen(t)
  <2>1. s \in Int /\ t \in Int  BY Indices
  <2>. QED BY <1>2, <2>1 DEF NotSeen
<1>4. SeenAt(t)' = SeenAt(t) /\ Reached(t)' = Reached(t)
  BY <1>2, <1>3 DEF SeenAt, Reached, Unwrapped
<1>5. OnCycle(t)'  BY <1>1 DEF ScheduleInv, OnCycle, OnGrid
<1>6. Pending(t)'  BY <1>1, <1>4 DEF ScheduleInv, Pending
<1>7. Follows(t)'  BY <1>1, <1>2, <1>4 DEF ScheduleInv, Follows
<1>. QED BY <1>5, <1>6, <1>7 DEF ScheduleInv

\* The schedule that was looked at is up to date.
LEMMA Seen ==
  ASSUME TypeOK, NEW s \in Submodes, LookAt(s)
  PROVE  /\ NotSeen(s) /\ ~NotSeen(s)'
         /\ SeenAt(s)' = kin /\ Reached(s)' = kin
         /\ at' \in 1 .. Count + 1
<1>1. s \in Int /\ 1 <= s /\ s <= Count /\ Count \in Nat
  BY Indices
<1>2. pc = "schedule" /\ pc' = pc /\ at = s /\ at' = at + 1 /\ kin' = kin  BY DEF LookAt
<1>3. NotSeen(s) /\ ~NotSeen(s)'  BY <1>1, <1>2 DEF NotSeen
<1>. QED BY <1>1, <1>2, <1>3 DEF SeenAt, Reached

\* Both ways of looking at a schedule keep what does not concern windows.
LEMMA LookAtKeepsMoves ==
  ASSUME IInv, NEW s \in Submodes, LookAt(s), ready' \subseteq ready \union {s}
  PROVE  Moves'
<1>1. Moves  BY DEF IInv
<1>2. /\ pc = "schedule" /\ pc' = pc /\ at = s /\ at' = at + 1 /\ kin' = kin /\ k0' = k0
  BY DEF LookAt
<1>3. s \in Int  BY Indices
<1>4. ASSUME NEW t \in Submodes, t \in ready' PROVE t < at'
  <2>1. t \in Int  BY Indices
  <2>. QED BY <1>1, <1>2, <1>3, <1>4, <2>1 DEF Moves
<1>5. Unwrapped' = Unwrapped  BY <1>2 DEF Unwrapped
<1>6. ready' \subseteq Submodes  BY DEF IInv, TypeOK
<1>. QED BY <1>1, <1>2, <1>4, <1>5, <1>6 DEF Moves

LEMMA PassOverKeepsIInv ==
  ASSUME IInv, NEW s \in Submodes, PassOver(s)
  PROVE  IInv'
<1>1. TypeOK /\ Moves /\ ScheduleInv(s) /\ WindowFits  BY DEF IInv
<1>2. LookAt(s) /\ current' = current /\ next' = next /\ window' = window /\ ready' = ready
  BY DEF PassOver
<1>3. last' = [last EXCEPT ![s] = -1]
      /\ missed' = IF current[s] = -1 THEN missed ELSE missed \union {s}
  BY DEF PassOver
<1>4. Ring \in Nat \ {0}  BY ScheduleAssumption
<1>5. last' \in [Submodes -> -1 .. Ring - 1] /\ last'[s] = -1 /\ missed' \subseteq Submodes
  BY <1>1, <1>3, <1>4 DEF TypeOK
<1>6. TypeOK'
  BY <1>1, <1>2, <1>5, Seen DEF TypeOK, LookAt, driftVars
<1>7. Moves'  BY <1>2, LookAtKeepsMoves
<1>8. ASSUME NEW t \in Submodes PROVE ScheduleInv(t)'
  <2>1. CASE t # s
    <3>1. last'[t] = last[t] /\ (t \in missed' <=> t \in missed)
      BY <1>1, <1>3, <2>1 DEF TypeOK
    <3>. QED BY <1>2, <2>1, <3>1, OthersUntouched
  <2>2. CASE t = s
    <3>1. OnCycle(s)'  BY <1>1, <1>2 DEF ScheduleInv, OnCycle, OnGrid
    <3>2. Pending(s)'  BY <1>2, <1>3 DEF Pending
    <3>3. Follows(s)'  BY <1>5 DEF Follows
    <3>. QED BY <2>2, <3>1, <3>2, <3>3 DEF ScheduleInv
  <2>. QED BY <2>1, <2>2
<1>9. WindowFits'
  <2>1. pc = "schedule" /\ missed \subseteq missed'  BY <1>2, <1>3 DEF LookAt
  <2>. QED BY <1>1, <1>2, <2>1 DEF WindowFits
<1>. QED BY <1>6, <1>7, <1>8, <1>9 DEF IInv

\* isDecodeReady on one schedule.
LEMMA ConsiderKeepsIInv ==
  ASSUME IInv, NEW s \in Submodes, Consider(s)
  PROVE  IInv'
<1>1. TypeOK /\ Moves /\ ScheduleInv(s) /\ WindowFits  BY DEF IInv
<1>2. /\ LookAt(s)
      /\ missed' = IF MustReset(s) THEN missed \ {s} ELSE missed
      /\ last' = IF IsReady(s) /\ s \notin missed'
                   THEN [last EXCEPT ![s] = Start(s)] ELSE last
  BY DEF Consider
<1>3. Ring \in Nat \ {0}  BY ScheduleAssumption
<1>4. /\ OnGrid(Start(s), Period[s])
      /\ Following(s) = Start(s) + Period[s]
      /\ Start(s) \in Nat /\ Start(s) <= Ring
      /\ IsReady(s) => /\ Start(s) < Ring
                       /\ OnGrid(Start(s) + Period[s], Period[s])
                       /\ Size(s) = kin - Start(s)
  BY <1>1, StartOnGrid DEF ScheduleInv
<1>5. NotSeen(s) /\ SeenAt(s)' = kin /\ Reached(s)' = kin /\ at' \in 1 .. Count + 1
  BY <1>1, <1>2, Seen
<1>6. s \notin missed' =>
        kin < Start(s) + Period[s] /\ Start(s) + Needed[s] <= kin + Period[s]
  BY <1>1, <1>2, <1>5, StartInReach
<1>7. missed' \subseteq Submodes
      /\ \A t \in Submodes : t # s => (t \in missed' <=> t \in missed)
  BY <1>1, <1>2 DEF TypeOK
<1>8. CASE IsReady(s)
  <2>1. /\ current' = [current EXCEPT ![s] = Start(s) + Period[s]]
        /\ next' = [next EXCEPT ![s] = Start(s) + Period[s] + Period[s]]
        /\ window' = [window EXCEPT ![s] = [start |-> Start(s) % Ring, size |-> Size(s)]]
        /\ ready' = ready \union {s}
    BY <1>4, <1>8 DEF Consider, CutWindow, Advances
  <2>2. Start(s) % Ring = Start(s)  BY <1>3, <1>4, <1>8, SmallRemainder
  <2>3. Start(s) + Period[s] \in 0 .. Ring  BY <1>4, <1>8, GridRange
  <2>4. Start(s) + Needed[s] <= kin  BY <1>8 DEF IsReady
  <2>5. Size(s) \in Nat /\ Size(s) = kin - Start(s)
    BY <1>1, <1>4, <1>8, <2>4, Numbers, Parameters
  <2>6. current' \in [Submodes -> -1 .. Ring] /\ next' \in [Submodes -> -1 .. 2 * Ring]
    <3>1. Start(s) + Period[s] \in -1 .. Ring  BY <1>3, <2>3
    <3>2. Start(s) + Period[s] + Period[s] \in -1 .. 2 * Ring
      BY <1>3, <1>4, <2>3, Parameters
    <3>. QED BY <1>1, <2>1, <3>1, <3>2 DEF TypeOK
  <2>7. window' \in [Submodes -> [start : Positions, size : Nat]]
    <3>1. Start(s) % Ring \in Positions  BY <1>3, <1>4, <1>8, <2>2 DEF Positions
    <3>. QED BY <1>1, <2>1, <2>5, <3>1 DEF TypeOK
  <2>8. last' \in [Submodes -> -1 .. Ring - 1]
    <3>1. Start(s) \in -1 .. Ring - 1  BY <1>3, <1>4, <1>8
    <3>. QED BY <1>1, <1>2, <3>1 DEF TypeOK
  <2>9. ready' \subseteq Submodes  BY <1>1, <2>1 DEF TypeOK
  <2>10. TypeOK'
    BY <1>1, <1>2, <1>5, <1>7, <2>6, <2>7, <2>8, <2>9 DEF TypeOK, LookAt, driftVars
  <2>11. Moves'  BY <1>2, <2>1, LookAtKeepsMoves
  <2>12. ASSUME NEW t \in Submodes PROVE ScheduleInv(t)'
    <3>1. CASE t # s
      <4>1. current'[t] = current[t] /\ next'[t] = next[t] /\ last'[t] = last[t]
        BY <1>1, <1>2, <2>1, <3>1 DEF TypeOK
      <4>. QED BY <1>2, <1>7, <3>1, <4>1, OthersUntouched
    <3>2. CASE t = s
      <4>1. /\ current'[s] = Start(s) + Period[s]
            /\ next'[s] = Start(s) + Period[s] + Period[s]
        BY <1>1, <2>1 DEF TypeOK
      <4>2. last'[s] = IF s \notin missed' THEN Start(s) ELSE last[s]
        BY <1>1, <1>2, <1>8 DEF TypeOK
      <4>3. OnCycle(s)'  BY <1>4, <1>8, <4>1 DEF OnCycle, OnGrid
      <4>4. Pending(s)'
        <5>1. s \notin missed' =>
                /\ Start(s) + Period[s] + Needed[s] <= kin + Period[s]
                /\ kin < Start(s) + Period[s] + Needed[s]
          BY <1>1, <1>4, <1>6, <2>4, Numbers, Parameters
        <5>. QED BY <1>5, <4>1, <5>1 DEF Pending
      <4>5. Follows(s)'
        <5>1. CASE s \in missed'
          <6>1. last[s] = -1  BY <1>1, <1>2, <5>1 DEF ScheduleInv, Follows
          <6>. QED BY <4>2, <5>1, <6>1 DEF Follows
        <5>2. CASE s \notin missed'
          <6>1. kin - (Start(s) + Period[s]) <= fresh /\ Start(s) + Period[s] # -1
            BY <1>1, <1>4, <1>6, <5>2, Numbers, Parameters
          <6>2. fresh' = fresh  BY <1>2 DEF LookAt
          <6>. QED BY <1>5, <4>1, <4>2, <5>2, <6>1, <6>2 DEF Follows
        <5>. QED BY <5>1, <5>2
      <4>. QED BY <3>2, <4>3, <4>4, <4>5 DEF ScheduleInv
    <3>. QED BY <3>1, <3>2
  <2>13. WindowFits'
    <3>. SUFFICES ASSUME NEW t \in ready', t \notin missed'
         PROVE  window'[t].size <= Period[t]
      BY DEF WindowFits
    <3>1. CASE t = s
      <4>1. window'[s].size = kin - Start(s)  BY <1>1, <2>1, <2>5 DEF TypeOK
      <4>2. kin - Start(s) <= Period[s]
        BY <1>1, <1>4, <1>6, <3>1, Numbers, Parameters
      <4>. QED BY <3>1, <4>1, <4>2
    <3>2. CASE t # s
      <4>1. t \in ready /\ t \in Submodes /\ t \notin missed
        BY <1>1, <1>7, <2>1, <3>2 DEF TypeOK
      <4>2. window'[t] = window[t]  BY <1>1, <2>1, <3>2, <4>1 DEF TypeOK
      <4>. QED BY <1>1, <1>2, <4>1, <4>2 DEF WindowFits, LookAt
    <3>. QED BY <3>1, <3>2
  <2>. QED BY <2>10, <2>11, <2>12, <2>13 DEF IInv
<1>9. CASE ~IsReady(s)
  <2>1. /\ current' = [current EXCEPT ![s] = Start(s)]
        /\ next' = [next EXCEPT ![s] = Start(s) + Period[s]]
        /\ window' = window /\ ready' = ready /\ last' = last
    BY <1>2, <1>4, <1>9 DEF Consider, KeepWindow
  <2>2. kin < Start(s) + Needed[s]  BY <1>1, <1>4, <1>9, Numbers, Parameters DEF IsReady
  <2>3. current' \in [Submodes -> -1 .. Ring] /\ next' \in [Submodes -> -1 .. 2 * Ring]
    <3>1. Start(s) \in -1 .. Ring  BY <1>3, <1>4
    <3>2. Start(s) + Period[s] \in -1 .. 2 * Ring  BY <1>3, <1>4, Parameters
    <3>. QED BY <1>1, <2>1, <3>1, <3>2 DEF TypeOK
  <2>4. TypeOK'
    BY <1>1, <1>2, <1>5, <1>7, <2>1, <2>3 DEF TypeOK, LookAt, driftVars
  <2>5. Moves'  BY <1>2, <2>1, LookAtKeepsMoves
  <2>6. ASSUME NEW t \in Submodes PROVE ScheduleInv(t)'
    <3>1. CASE t # s
      <4>1. current'[t] = current[t] /\ next'[t] = next[t] /\ last'[t] = last[t]
        BY <1>1, <2>1, <3>1 DEF TypeOK
      <4>. QED BY <1>2, <1>7, <3>1, <4>1, OthersUntouched
    <3>2. CASE t = s
      <4>1. current'[s] = Start(s) /\ next'[s] = Start(s) + Period[s] /\ last'[s] = last[s]
        BY <1>1, <2>1 DEF TypeOK
      <4>2. OnCycle(s)'  BY <1>4, <4>1 DEF OnCycle, OnGrid
      <4>3. Pending(s)'  BY <1>5, <1>6, <2>2, <4>1 DEF Pending
      <4>4. Follows(s)'
        <5>1. ASSUME last[s] # -1
              PROVE  /\ s \notin missed' /\ Start(s) # -1
                     /\ \/ Start(s) = last[s] + Period[s]
                        \/ Start(s) = 0 /\ last[s] + Period[s] = Ring
                     /\ kin - Start(s) <= fresh
          <6>1. s \notin missed  BY <1>1, <5>1 DEF ScheduleInv, Follows
          <6>2. s \notin missed'  BY <1>2, <6>1
          <6>. QED BY <1>1, <1>4, <1>5, <5>1, <6>2, StartFollows
        <5>2. fresh' = fresh  BY <1>2 DEF LookAt
        <5>. QED BY <1>5, <4>1, <5>1, <5>2 DEF Follows
      <4>. QED BY <3>2, <4>2, <4>3, <4>4 DEF ScheduleInv
    <3>. QED BY <3>1, <3>2
  <2>7. WindowFits'
    <3>. SUFFICES ASSUME NEW t \in ready', t \notin missed'
         PROVE  window'[t].size <= Period[t]
      BY DEF WindowFits
    <3>1. t \in ready /\ t \in Submodes /\ t # s
      <4>1. pc = "schedule" /\ at = s  BY <1>2 DEF LookAt
      <4>2. s \in Int  BY Indices
      <4>. QED BY <1>1, <2>1, <4>1, <4>2 DEF TypeOK, Moves
    <3>. QED BY <1>1, <1>2, <1>7, <2>1, <3>1 DEF WindowFits, LookAt
  <2>. QED BY <2>4, <2>5, <2>6, <2>7 DEF IInv
<1>. QED BY <1>8, <1>9

LEMMA FinishPassKeepsIInv ==
  ASSUME IInv, FinishPass
  PROVE  IInv'
<1>1. TypeOK  BY DEF IInv
<1>2. /\ pc = "schedule" /\ pc' = "idle" /\ at = Count + 1 /\ k0' = kin /\ kin' = kin
      /\ current' = current /\ next' = next /\ last' = last /\ missed' = missed
      /\ fresh' = fresh
  BY DEF FinishPass, ghostVars
<1>4. TypeOK'  BY <1>1, <1>2 DEF TypeOK, FinishPass, driftVars
<1>5. Moves'
  <2>1. ASSUME NEW s \in Submodes PROVE kin + Needed[s] <= kin + Period[s]
    BY <1>1, Numbers, Parameters
  <2>2. ASSUME NEW s \in Submodes PROVE Unwrapped' = kin
    BY <1>1, <1>2, Numbers DEF Unwrapped
  <2>. QED BY <1>2, <2>1, <2>2 DEF Moves
<1>6. ASSUME NEW s \in Submodes PROVE ScheduleInv(s)'
  <2>1. ScheduleInv(s)  BY DEF IInv
  <2>2. ~NotSeen(s) /\ ~NotSeen(s)'
    <3>1. s \in Int /\ s <= Count /\ Count \in Nat  BY Indices
    <3>. QED BY <1>2, <3>1 DEF NotSeen
  <2>3. SeenAt(s)' = SeenAt(s) /\ Reached(s)' = Reached(s)
    BY <1>2, <2>2 DEF SeenAt, Reached
  <2>4. OnCycle(s)'  BY <1>2, <2>1 DEF ScheduleInv, OnCycle, OnGrid
  <2>5. Pending(s)'  BY <1>2, <2>1, <2>3 DEF ScheduleInv, Pending
  <2>6. Follows(s)'  BY <1>2, <2>1, <2>3 DEF ScheduleInv, Follows
  <2>. QED BY <2>4, <2>5, <2>6 DEF ScheduleInv
<1>7. WindowFits'  BY <1>2 DEF WindowFits
<1>. QED BY <1>4, <1>5, <1>6, <1>7 DEF IInv

-----------------------------------------------------------------------------
(* The theorems.                                                           *)

LEMMA StepKeepsIInv == IInv /\ [Next]_vars => IInv'
<1>. SUFFICES ASSUME IInv, [Next]_vars PROVE IInv'  OBVIOUS
<1>1. CASE BeginAlignment  BY <1>1, BeginAlignmentKeepsIInv
<1>2. CASE \E position \in Positions : AlignRing(position)  BY <1>2, AlignRingKeepsIInv
<1>3. CASE \E n \in Chunks : Receive(n)  BY <1>3, ReceiveKeepsIInv
<1>4. CASE \E s \in Submodes : Consider(s) \/ PassOver(s)
  BY <1>4, ConsiderKeepsIInv, PassOverKeepsIInv
<1>5. CASE FinishPass  BY <1>5, FinishPassKeepsIInv
<1>6. CASE \E S \in SUBSET Submodes : SetSubmodes(S)
  <2>1. PICK S \in SUBSET Submodes : SetSubmodes(S)  BY <1>6
  <2>2. UNCHANGED scheduleVars
    BY <2>1 DEF SetSubmodes, scheduleVars, ringVars, passVars, ghostVars
  <2>3. MaxSwitches \in Nat  BY ScheduleAssumption
  <2>4. TypeOK'
    BY <2>1, <2>3 DEF IInv, TypeOK, SetSubmodes, ringVars, passVars, driftVars, ghostVars
  <2>. QED BY <2>2, <2>4, RingUntouched
<1>7. CASE \E t \in Setters : AskForAlignment(t)
  <2>1. PICK t \in Setters : AskForAlignment(t)  BY <1>7
  <2>2. UNCHANGED scheduleVars
    BY <2>1 DEF AskForAlignment, scheduleVars, ringVars, passVars, ghostVars
  <2>3. TypeOK'
    BY <2>1 DEF IInv, TypeOK, AskForAlignment, ringVars, passVars, ghostVars
  <2>. QED BY <2>2, <2>3, RingUntouched
<1>8. CASE \E t \in Setters, d \in Drifts : SetDrift(t, d)
  <2>1. PICK t \in Setters, d \in Drifts : SetDrift(t, d)  BY <1>8
  <2>2. UNCHANGED scheduleVars
    BY <2>1 DEF SetDrift, scheduleVars, ringVars, passVars, ghostVars
  <2>3. MaxDrifts \in Nat  BY ScheduleAssumption
  <2>4. TypeOK'
    BY <2>1, <2>3 DEF IInv, TypeOK, SetDrift, ringVars, passVars, ghostVars
  <2>. QED BY <2>2, <2>4, RingUntouched
<1>9. CASE UNCHANGED vars
  <2>1. UNCHANGED scheduleVars
    BY <1>9 DEF vars, scheduleVars, ringVars, passVars, ghostVars
  <2>2. TypeOK'
    BY <1>9 DEF IInv, TypeOK, vars, ringVars, passVars, driftVars, ghostVars
  <2>. QED BY <2>1, <2>2, RingUntouched
<1>. QED BY <1>1, <1>2, <1>3, <1>4, <1>5, <1>6, <1>7, <1>8, <1>9 DEF Next, Capture

\* The invariant of the receive scheduler: every window begins on the grid of
\* its submode and follows the previous one, and no complete window waits.
THEOREM InductiveInvariant == Spec => []IInv
<1>1. Init => IInv  BY InitIInv
<1>2. IInv /\ [Next]_vars => IInv'  BY StepKeepsIInv
<1>. QED BY <1>1, <1>2, PTL DEF Spec

\* Every variable of the scheduler keeps its type; above all the ring
\* position stays in the ring and no window begins outside of it.
THEOREM TypeCorrect == Spec => []TypeOK
<1>1. IInv => TypeOK  BY DEF IInv
<1>. QED BY <1>1, InductiveInvariant, PTL

\* A submode that was not passed over never hands the decoder more than one
\* cycle of samples.
THEOREM WindowsAlwaysFit == Spec => []WindowFits
<1>1. IInv => WindowFits  BY DEF IInv
<1>. QED BY <1>1, InductiveInvariant, PTL

\* schedule_decodes leaves no complete window behind.
THEOREM NothingEverWaits == Spec => []NothingWaits
<1>1. IInv => NothingWaits
  <2>. SUFFICES ASSUME IInv, pc = "idle", NEW s \in enabled \ missed, current[s] # -1
       PROVE  kin < current[s] + Needed[s]
    BY DEF NothingWaits
  <2>1. s \in Submodes  BY DEF IInv, TypeOK
  <2>2. Pending(s) /\ SeenAt(s) = kin
    BY <2>1 DEF IInv, ScheduleInv, SeenAt, NotSeen
  <2>. QED BY <2>2 DEF Pending
<1>. QED BY <1>1, InductiveInvariant, PTL

\* Only isDecodeReady cuts a window, and only of a schedule it has not looked
\* at in this call.
LEMMA CutByConsider ==
  ASSUME IInv, [Next]_vars, NEW s \in Submodes, IsCut(s)
  PROVE  Consider(s) /\ IsReady(s) /\ NotSeen(s)
<1>1. s \in ready' /\ s \notin ready  BY DEF IsCut
<1>2. ready' # ready  BY <1>1
<1>3. PICK t \in Submodes : Consider(t) \/ PassOver(t)
  BY <1>1, <1>2 DEF Next, Capture, vars, BeginAlignment, AlignRing, Receive, FinishPass,
     SetSubmodes, SetDrift, AskForAlignment, passVars
<1>4. Consider(t) /\ IsReady(t) /\ t = s
  BY <1>1, <1>3 DEF Consider, PassOver, KeepWindow, CutWindow
<1>5. NotSeen(s)  BY <1>4, Seen DEF Consider, IInv
<1>. QED BY <1>4, <1>5

\* The windows of a submode are one cycle apart, whatever buffers arrive and
\* wherever the ring wraps.
THEOREM EachCycleExactlyOnce == Spec => EachCycleOnce
<1>1. ASSUME IInv, [Next]_vars, NEW s \in Submodes, IsCut(s), last[s] # -1
      PROVE  window'[s].start = (last[s] + Period[s]) % Ring
  <2>1. Consider(s) /\ IsReady(s) /\ NotSeen(s)  BY <1>1, CutByConsider
  <2>2. TypeOK /\ Moves /\ ScheduleInv(s)  BY <1>1 DEF IInv
  <2>3. window'[s].start = Start(s) % Ring
    BY <2>1, <2>2 DEF Consider, CutWindow, TypeOK
  <2>4. \/ Start(s) = last[s] + Period[s]
        \/ Start(s) = 0 /\ last[s] + Period[s] = Ring
    BY <1>1, <2>1, <2>2, StartFollows
  <2>5. CASE Start(s) = last[s] + Period[s]  BY <2>3, <2>5
  <2>6. CASE Start(s) = 0 /\ last[s] + Period[s] = Ring
    <3>1. Ring \in Nat \ {0}  BY Parameters
    <3>2. 0 % Ring = 0 /\ (0 + Ring) % Ring = 0
      BY <3>1, SmallRemainder, WrappedRemainder
    <3>. QED BY <2>3, <2>6, <3>1, <3>2
  <2>. QED BY <2>4, <2>5, <2>6
<1>2. IInv /\ [Next]_vars =>
        [\A s \in Submodes : IsCut(s) /\ last[s] # -1
           => window'[s].start = (last[s] + Period[s]) % Ring]_vars
  BY <1>1
<1>. QED BY <1>2, InductiveInvariant, PTL DEF Spec, EachCycleOnce

\* After an alignment only the first window of a submode may hold older audio.
THEOREM WindowsAlwaysWhole == Spec => WholeWindows
<1>1. ASSUME IInv, [Next]_vars, NEW s \in Submodes, IsCut(s), last[s] # -1
      PROVE  window'[s].size <= fresh
  <2>1. Consider(s) /\ IsReady(s) /\ NotSeen(s)  BY <1>1, CutByConsider
  <2>2. TypeOK /\ Moves /\ ScheduleInv(s)  BY <1>1 DEF IInv
  <2>3. window'[s].size = Size(s)  BY <2>1, <2>2 DEF Consider, CutWindow, TypeOK
  <2>4. Size(s) = kin - Start(s)  BY <2>1, <2>2, StartOnGrid DEF ScheduleInv
  <2>. QED BY <1>1, <2>1, <2>2, <2>3, <2>4, StartFollows
<1>2. IInv /\ [Next]_vars =>
        [\A s \in Submodes : IsCut(s) /\ last[s] # -1 => window'[s].size <= fresh]_vars
  BY <1>1
<1>. QED BY <1>2, InductiveInvariant, PTL DEF Spec, WholeWindows

\* The ring is aligned with the newest drift, or a thread is about to ask for
\* an alignment, or one was asked for, or one is being made.
DriftInv ==
  ~realign /\ (\A t \in Setters : setter[t] = "out") =>
    ringDrift = drift /\ (pc = "align" \/ phase = drift)

\* No call of set_time_drift_ms is lost, whatever thread overtakes another.
THEOREM DriftAlwaysSettles == Spec => []DriftSettled
<1>1. Init => DriftInv  BY DEF Init, DriftInv
<1>2. TypeOK /\ DriftInv /\ [Next]_vars => DriftInv'
  <2>. SUFFICES ASSUME TypeOK, DriftInv, [Next]_vars PROVE DriftInv'  OBVIOUS
  <2>1. CASE BeginAlignment  BY <2>1 DEF BeginAlignment, DriftInv
  <2>2. CASE \E position \in Positions : AlignRing(position)
    BY <2>2 DEF AlignRing, KeepRequest, DriftInv
  <2>3. CASE \E n \in Chunks : Receive(n)  BY <2>3 DEF Receive, driftVars, DriftInv
  <2>4. CASE \E s \in Submodes : Consider(s) \/ PassOver(s)
    BY <2>4 DEF Consider, PassOver, LookAt, driftVars, DriftInv
  <2>5. CASE FinishPass  BY <2>5 DEF FinishPass, driftVars, DriftInv
  <2>6. CASE \E S \in SUBSET Submodes : SetSubmodes(S)
    BY <2>6 DEF SetSubmodes, ringVars, driftVars, DriftInv
  <2>7. CASE \E t \in Setters : AskForAlignment(t)
    BY <2>7 DEF AskForAlignment, DriftInv
  <2>8. CASE \E t \in Setters, d \in Drifts : SetDrift(t, d)
    <3>1. PICK t \in Setters, d \in Drifts : SetDrift(t, d)  BY <2>8
    <3>2. CASE d = drift
      <4>1. setter' = setter  BY <3>1, <3>2 DEF SetDrift, TypeOK
      <4>. QED BY <3>1, <3>2, <4>1 DEF SetDrift, ringVars, DriftInv
    <3>3. CASE d # drift
      <4>1. setter'[t] = "changed"  BY <3>1, <3>3 DEF SetDrift, TypeOK
      <4>. QED BY <4>1 DEF DriftInv
    <3>. QED BY <3>2, <3>3
  <2>9. CASE UNCHANGED vars  BY <2>9 DEF vars, ringVars, driftVars, DriftInv
  <2>. QED BY <2>1, <2>2, <2>3, <2>4, <2>5, <2>6, <2>7, <2>8, <2>9 DEF Next, Capture
<1>3. DriftInv => DriftSettled  BY DEF DriftInv, DriftSettled
<1>. QED BY <1>1, <1>2, <1>3, TypeCorrect, PTL DEF Spec
=============================================================================
