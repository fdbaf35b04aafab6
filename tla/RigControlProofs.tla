-------------------------- MODULE RigControlProofs --------------------------
(* Theorems about rig control, for any frequencies, any number of objects,   *)
(* commands and transmissions, and a rig that refuses any of its commands.   *)
EXTENDS RigControl, SequenceTheorems, TLAPS

-----------------------------------------------------------------------------
(* Types.  k is the number of the last command.                              *)
ObjectRecord(k) ==
  [requested : State, actual : State, last : State, seq : 0..k, next : State,
   signalled : State, retries : 0..PollsToStabilize, timer : BOOLEAN, asked : State]

RigRecord ==
  [freq : Freqs \cup {TxFreq}, keyed : BOOLEAN, refused : BOOLEAN, dialled : BOOLEAN]

Signal == [kind : {"update"}, seq : Nat, state : State] \cup [kind : {"failure"}]

ContextRecord(k) ==
  [o : ObjectRecord(k), rig : RigRecord, out : Seq(Signal), n : Nat,
   thrown : BOOLEAN, bad : SUBSET (1..4), took : BOOLEAN]

LEMMA Constants ==
  /\ Freqs \subseteq Nat \ {0} /\ FirstFreq \in Freqs /\ TxFreq \in Nat \ {0}
  /\ Split \in BOOLEAN /\ PollsToStabilize \in Nat \ {0}
  BY RigControlAssumption DEF RigControlAssumption

LEMMA NoStateType == NoState \in State
  BY DEF NoState, State, Frequency

LEMMA NewObjectType ==
  ASSUME NEW k \in Nat
  PROVE  NewObject \in ObjectRecord(k)
  BY NoStateType, Constants DEF NewObject, ObjectRecord

-----------------------------------------------------------------------------
(* A keyed rig is under control: by the object of the context, or by another *)
(* one (elsewhere), unless it refused its release.                           *)
Calm(c, elsewhere) ==
  c.rig.keyed => c.rig.refused \/ c.o.requested.online \/ elsewhere

LEMMA CommandSound ==
  ASSUME NEW k \in Nat, NEW c \in ContextRecord(k), NEW r \in RigRecord
  PROVE  LET d == Command(c, r)
         IN  /\ d \in ContextRecord(k) /\ d.o = c.o
             /\ c.thrown => d = c
             /\ ~d.thrown => ~c.thrown /\ d.rig = r
             /\ d.rig = r \/ d.rig = c.rig
<1>. DEFINE next   == c.n + 1
            after  == IF c.took THEN r ELSE c.rig
            failed == [c EXCEPT !.n = next, !.thrown = TRUE, !.rig = after]
            done   == [c EXCEPT !.n = next, !.rig = r]
<1>0. /\ next \in Nat /\ after \in RigRecord /\ (after = r \/ after = c.rig)
      /\ failed = [c EXCEPT !.n = @ + 1, !.thrown = TRUE, !.rig = IF c.took THEN r ELSE @]
      /\ done = [c EXCEPT !.n = @ + 1, !.rig = r]
  BY DEF ContextRecord
<1>1. /\ done \in ContextRecord(k) /\ done.o = c.o /\ done.rig = r /\ done.thrown = c.thrown
  <2>. HIDE DEF next
  <2>. QED BY <1>0 DEF ContextRecord
<1>2. /\ failed \in ContextRecord(k) /\ failed.o = c.o /\ failed.thrown
      /\ failed.rig = r \/ failed.rig = c.rig
  <2>. HIDE DEF next, after
  <2>. QED BY <1>0 DEF ContextRecord
<1>3. CASE c.thrown  BY <1>3 DEF Command
<1>4. CASE ~c.thrown /\ c.n + 1 \in c.bad
  <2>1. Command(c, r) = failed  BY <1>0, <1>4 DEF Command
  <2>. HIDE DEF failed
  <2>. QED BY <1>2, <1>4, <2>1
<1>5. CASE ~c.thrown /\ c.n + 1 \notin c.bad
  <2>1. Command(c, r) = done  BY <1>0, <1>5 DEF Command
  <2>. HIDE DEF done
  <2>. QED BY <1>1, <1>5, <2>1
<1>. QED BY <1>3, <1>4, <1>5

LEMMA HoldSound ==
  ASSUME NEW k \in Nat, NEW o \in ObjectRecord(k)
  PROVE  Hold(o) \in ObjectRecord(k) /\ Hold(o).requested = o.requested
  BY Constants DEF Hold, ObjectRecord

LEMMA SeenType ==
  ASSUME NEW k \in Nat, NEW o \in ObjectRecord(k), NEW s \in State
  PROVE  Seen(o, s) \in State
  BY DEF Seen, ObjectRecord, State, Frequency

\* What is emitted changes neither the rig nor who controls it.
LEMMA UpdateSound ==
  ASSUME NEW k \in Nat, NEW c \in ContextRecord(k), NEW force \in BOOLEAN
  PROVE  LET d == UpdateComplete(c, force)
         IN  /\ d \in ContextRecord(k) /\ d.rig = c.rig /\ d.thrown = c.thrown
             /\ d.o.requested = c.o.requested
<1>. DEFINE o == c.o
            m == [kind |-> "update", seq |-> o.seq, state |-> Seen(o, o.actual)]
            d == [c EXCEPT !.out = Append(@, m), !.o.last = o.actual]
<1>1. o \in ObjectRecord(k) /\ o.actual \in State /\ o.seq \in Nat
  BY DEF ContextRecord, ObjectRecord
<1>2. m \in Signal  BY <1>1, SeenType DEF Signal
<1>3. [o EXCEPT !.last = o.actual] \in ObjectRecord(k)
      /\ [o EXCEPT !.last = o.actual].requested = o.requested
  BY <1>1 DEF ObjectRecord
<1>4. Append(c.out, m) \in Seq(Signal)
  <2>. HIDE DEF m
  <2>. QED BY <1>2 DEF ContextRecord
<1>5. d = [c EXCEPT !.out = Append(c.out, m), !.o = [o EXCEPT !.last = o.actual]]
  <2>. HIDE DEF m
  <2>. QED BY DEF ContextRecord
<1>6. /\ d \in ContextRecord(k) /\ d.rig = c.rig /\ d.thrown = c.thrown
      /\ d.o.requested = c.o.requested
  <2>. DEFINE out == Append(c.out, m)
              o2  == [o EXCEPT !.last = o.actual]
  <2>1. d = [c EXCEPT !.out = out, !.o = o2]  BY <1>5
  <2>2. out \in Seq(Signal) /\ o2 \in ObjectRecord(k) /\ o2.requested = o.requested
    BY <1>3, <1>4
  <2>. HIDE DEF out, o2, d
  <2>. QED BY <2>1, <2>2 DEF ContextRecord
<1>7. UpdateComplete(c, force) = d \/ UpdateComplete(c, force) = c
  BY DEF UpdateComplete
<1>. HIDE DEF d, m
<1>. QED BY <1>6, <1>7

-----------------------------------------------------------------------------
(* The commands of a slot.                                                   *)

\* Parts of a context, of an object, of a state and of the rig, replaced.
LEMMA OfContext ==
  ASSUME NEW k \in Nat, NEW c \in ContextRecord(k)
  PROVE  /\ c.o \in ObjectRecord(k) /\ c.rig \in RigRecord /\ c.thrown \in BOOLEAN
         /\ c.out \in Seq(Signal) /\ c.n \in Nat
  BY DEF ContextRecord

LEMMA WithObject ==
  ASSUME NEW k \in Nat, NEW c \in ContextRecord(k), NEW o \in ObjectRecord(k)
  PROVE  LET d == [c EXCEPT !.o = o]
         IN  d \in ContextRecord(k) /\ d.o = o /\ d.rig = c.rig /\ d.thrown = c.thrown
  BY DEF ContextRecord

LEMMA WithRig ==
  ASSUME NEW k \in Nat, NEW c \in ContextRecord(k), NEW r \in RigRecord
  PROVE  LET d == [c EXCEPT !.rig = r]
         IN  d \in ContextRecord(k) /\ d.o = c.o /\ d.rig = r /\ d.thrown = c.thrown
  BY DEF ContextRecord

LEMMA WithThrown ==
  ASSUME NEW k \in Nat, NEW c \in ContextRecord(k), NEW t \in BOOLEAN
  PROVE  LET d == [c EXCEPT !.thrown = t]
         IN  d \in ContextRecord(k) /\ d.o = c.o /\ d.rig = c.rig /\ d.thrown = t
  BY DEF ContextRecord

LEMMA OfObject ==
  ASSUME NEW k \in Nat, NEW o \in ObjectRecord(k)
  PROVE  /\ o.requested \in State /\ o.actual \in State /\ o.last \in State
         /\ o.next \in State /\ o.signalled \in State /\ o.asked \in State
         /\ o.seq \in 0..k /\ o.retries \in 0..PollsToStabilize /\ o.timer \in BOOLEAN
  BY DEF ObjectRecord

LEMMA WithPtt ==
  ASSUME NEW s \in State, NEW b \in BOOLEAN
  PROVE  [s EXCEPT !.ptt = b] \in State /\ [s EXCEPT !.ptt = b].online = s.online
  BY DEF State

LEMMA WithFreq ==
  ASSUME NEW s \in State, NEW f \in Frequency
  PROVE  [s EXCEPT !.freq = f] \in State /\ [s EXCEPT !.freq = f].online = s.online
  BY DEF State

LEMMA WithOnline ==
  ASSUME NEW s \in State, NEW b \in BOOLEAN
  PROVE  [s EXCEPT !.online = b] \in State /\ [s EXCEPT !.online = b].online = b
  BY DEF State

\* PTT: after a release the rig is not keyed, or has refused it.
LEMMA PttSound ==
  ASSUME NEW k \in Nat, NEW c \in ContextRecord(k), NEW on \in BOOLEAN
  PROVE  LET p == DoPtt(c, on)
         IN  /\ p \in ContextRecord(k) /\ p.o.requested = c.o.requested
             /\ c.thrown => p = c
             /\ ~c.thrown /\ ~on => (p.rig.keyed => p.rig.refused)
<1>. DEFINE r == [c.rig EXCEPT !.keyed = on, !.refused = FALSE]
            d == Command(c, r)
            a == [d.o.actual EXCEPT !.ptt = on]
            n == [d.o.next EXCEPT !.ptt = on]
            o == [d.o EXCEPT !.actual = a, !.next = n]
            u == IF d.o.next.ptt # on THEN Hold(o) ELSE o
            q == [d.rig EXCEPT !.refused = ~on \/ @]
<1>1. r \in RigRecord /\ r.keyed = on  BY DEF ContextRecord, RigRecord
<1>. HIDE DEF r
<1>2. /\ d \in ContextRecord(k) /\ d.o = c.o
      /\ c.thrown => d = c
      /\ ~d.thrown => ~c.thrown /\ d.rig = r
  BY <1>1, CommandSound
<1>3. /\ d.o \in ObjectRecord(k) /\ d.rig \in RigRecord /\ d.rig.refused \in BOOLEAN
      /\ a \in State /\ n \in State
  <2>1. d.o \in ObjectRecord(k) /\ d.rig \in RigRecord  BY <1>2 DEF ContextRecord
  <2>. HIDE DEF d
  <2>2. d.o.actual \in State /\ d.o.next \in State  BY <2>1, OfObject
  <2>3. d.rig.refused \in BOOLEAN  BY <2>1 DEF RigRecord
  <2>4. a \in State /\ n \in State  BY <2>2 DEF State
  <2>. QED BY <2>1, <2>3, <2>4
<1>. HIDE DEF d
<1>4. o \in ObjectRecord(k) /\ o.requested = d.o.requested
  <2>. HIDE DEF a, n
  <2>. QED BY <1>3 DEF ObjectRecord
<1>5. u \in ObjectRecord(k) /\ u.requested = d.o.requested
  <2>. HIDE DEF o
  <2>. QED BY <1>4, HoldSound
<1>6. q \in RigRecord /\ (~on => q.refused)
  BY <1>3 DEF RigRecord
<1>7. CASE c.thrown  BY <1>7 DEF DoPtt
<1>8. CASE ~c.thrown /\ d.thrown
  <2>1. DoPtt(c, on) = [d EXCEPT !.rig = q]
    BY <1>2, <1>8 DEF DoPtt, d, r, ContextRecord
  <2>. HIDE DEF q
  <2>2. LET p == [d EXCEPT !.rig = q]
        IN  p \in ContextRecord(k) /\ p.o = d.o /\ p.rig = q
    BY <1>2, <1>6, WithRig
  <2>. QED BY <2>1, <2>2, <1>2, <1>6, <1>8
<1>9. CASE ~c.thrown /\ ~d.thrown
  <2>1. DoPtt(c, on) = [d EXCEPT !.o = u]
    <3>1. o = [d.o EXCEPT !.actual.ptt = on, !.next.ptt = on]  BY <1>3 DEF ObjectRecord
    <3>. QED BY <3>1, <1>9 DEF DoPtt, d, r
  <2>. HIDE DEF u
  <2>2. LET p == [d EXCEPT !.o = u]
        IN  p \in ContextRecord(k) /\ p.o = u /\ p.rig = d.rig
    BY <1>2, <1>5, WithObject
  <2>. QED BY <2>1, <2>2, <1>1, <1>2, <1>5, <1>9
<1>. QED BY <1>7, <1>8, <1>9

\* A frequency changes nothing of who keys the rig.
LEMMA FrequencySound ==
  ASSUME NEW k \in Nat, NEW c \in ContextRecord(k), NEW f \in Freqs \cup {TxFreq}
  PROVE  LET d == DoFrequency(c, f)
         IN  /\ d \in ContextRecord(k)
             /\ d.rig.keyed = c.rig.keyed /\ d.rig.refused = c.rig.refused
             /\ d.o.requested.online = c.o.requested.online
             /\ c.thrown => d = c
<1>. DEFINE r == [c.rig EXCEPT !.freq = f]
            d == Command(c, r)
            a == [d.o.actual EXCEPT !.freq = f]
            w == [d.o.requested EXCEPT !.freq = f]
            n == [d.o.next EXCEPT !.freq = f]
            o == [d.o EXCEPT !.actual = a, !.requested = w, !.next = n]
            u == IF d.o.next.freq # f THEN Hold(o) ELSE o
<1>1. r \in RigRecord /\ r.keyed = c.rig.keyed /\ r.refused = c.rig.refused
  BY DEF ContextRecord, RigRecord
<1>. HIDE DEF r
<1>2. /\ d \in ContextRecord(k) /\ d.o = c.o
      /\ c.thrown => d = c
      /\ d.rig = r \/ d.rig = c.rig
      /\ ~d.thrown => ~c.thrown
  BY <1>1, CommandSound
<1>3. /\ d.o \in ObjectRecord(k) /\ a \in State /\ n \in State
      /\ w \in State /\ w.online = c.o.requested.online
  <2>1. d.o \in ObjectRecord(k)  BY <1>2 DEF ContextRecord
  <2>2. f \in Frequency  BY DEF Frequency
  <2>3. d.o = c.o  BY <1>2
  <2>. HIDE DEF d
  <2>4. d.o.actual \in State /\ d.o.next \in State /\ d.o.requested \in State
    BY <2>1, OfObject
  <2>. QED BY <2>1, <2>2, <2>3, <2>4, WithFreq
<1>. HIDE DEF d
<1>4. o \in ObjectRecord(k) /\ o.requested = w
  <2>. HIDE DEF a, w, n
  <2>. QED BY <1>3 DEF ObjectRecord
<1>5. u \in ObjectRecord(k) /\ u.requested = w
  <2>. HIDE DEF o, w
  <2>. QED BY <1>4, HoldSound
<1>6. CASE d.thrown
  <2>1. DoFrequency(c, f) = d  BY <1>6 DEF DoFrequency, d, r
  <2>. QED BY <2>1, <1>1, <1>2
<1>7. CASE ~d.thrown
  <2>1. DoFrequency(c, f) = [d EXCEPT !.o = u]
    <3>1. o = [d.o EXCEPT !.actual.freq = f, !.requested.freq = f, !.next.freq = f]
      BY <1>3 DEF ObjectRecord
    <3>. QED BY <3>1, <1>7 DEF DoFrequency, d, r
  <2>. HIDE DEF u, w
  <2>2. LET p == [d EXCEPT !.o = u]
        IN  p \in ContextRecord(k) /\ p.o = u /\ p.rig = d.rig
    BY <1>2, <1>5, WithObject
  <2>. QED BY <2>1, <2>2, <1>1, <1>2, <1>3, <1>5, <1>7
<1>. QED BY <1>6, <1>7

\* A shutdown leaves the rig to nobody only if it is not keyed or refused its release.
LEMMA ShutdownSound ==
  ASSUME NEW k \in Nat, NEW c \in ContextRecord(k), NEW e \in BOOLEAN,
         ~c.thrown, Calm(c, e)
  PROVE  LET d == Shutdown(c)
         IN  d \in ContextRecord(k) /\ Calm(d, e) /\ ~d.o.requested.online
<1>. DEFINE p == DoPtt(c, FALSE)
            d == IF c.o.requested.online THEN [p EXCEPT !.thrown = FALSE] ELSE c
            a == [d.o.actual EXCEPT !.online = FALSE]
            w == [d.o.requested EXCEPT !.online = FALSE]
            o == [d.o EXCEPT !.timer = FALSE, !.actual = a, !.requested = w]
            x == [d EXCEPT !.o = o]
<1>1. d \in ContextRecord(k) /\ (d.rig.keyed => d.rig.refused \/ e)
  <2>1. CASE c.o.requested.online
    <3>1. p \in ContextRecord(k) /\ (p.rig.keyed => p.rig.refused)  BY PttSound
    <3>. HIDE DEF p
    <3>2. LET t == [p EXCEPT !.thrown = FALSE]
          IN  t \in ContextRecord(k) /\ t.rig = p.rig
      BY <3>1, WithThrown
    <3>. QED BY <2>1, <3>1, <3>2
  <2>2. CASE ~c.o.requested.online  BY <2>2 DEF Calm
  <2>. QED BY <2>1, <2>2
<1>2. Shutdown(c) = UpdateComplete([d EXCEPT !.o.timer = FALSE, !.o.actual.online = FALSE,
                                             !.o.requested.online = FALSE], FALSE)
  BY DEF Shutdown
<1>. HIDE DEF d
<1>3. d.o \in ObjectRecord(k) /\ d.o.actual \in State /\ d.o.requested \in State
  <2>1. d.o \in ObjectRecord(k)  BY <1>1, OfContext
  <2>. QED BY <2>1, OfObject
<1>4. a \in State /\ w \in State /\ ~w.online  BY <1>3, WithOnline
<1>5. x = [d EXCEPT !.o.timer = FALSE, !.o.actual.online = FALSE,
                    !.o.requested.online = FALSE]
  <2>1. o = [d.o EXCEPT !.timer = FALSE, !.actual.online = FALSE,
                        !.requested.online = FALSE]
    BY <1>3 DEF ObjectRecord
  <2>. QED BY <1>1, <1>3, <2>1 DEF ContextRecord, ObjectRecord
<1>6. o \in ObjectRecord(k) /\ o.requested = w
  <2>. HIDE DEF a, w
  <2>. QED BY <1>3, <1>4 DEF ObjectRecord
<1>7. x \in ContextRecord(k) /\ x.rig = d.rig /\ x.o.requested = w
  <2>. HIDE DEF o
  <2>. QED BY <1>1, <1>6, WithObject
<1>. HIDE DEF x, w
<1>8. LET f == UpdateComplete(x, FALSE)
      IN  f \in ContextRecord(k) /\ f.rig = x.rig /\ f.o.requested = x.o.requested
  BY <1>7, UpdateSound
<1>. QED BY <1>1, <1>2, <1>4, <1>5, <1>7, <1>8 DEF Calm

\* An attempt to go online ends online or with an exception.
LEMMA StartupSound ==
  ASSUME NEW k \in Nat, NEW c \in ContextRecord(k), NEW e \in BOOLEAN,
         Calm(c, e)
  PROVE  LET d == Startup(c)
         IN  d \in ContextRecord(k) /\ Calm(d, e) /\ (d.thrown \/ d.o.requested.online)
<1>. DEFINE d == Command(c, c.rig)
            f == c.rig.freq
            a == [[d.o.actual EXCEPT !.freq = f] EXCEPT !.online = TRUE]
            w == [[d.o.requested EXCEPT !.freq = f] EXCEPT !.online = TRUE]
            n == [d.o.next EXCEPT !.online = TRUE]
            o == [d.o EXCEPT !.actual = a, !.requested = w, !.timer = TRUE, !.next = n]
            u == IF d.o.next.online THEN o ELSE Hold(o)
            x == [d EXCEPT !.o = u]
<1>1. c.rig \in RigRecord /\ f \in Frequency
  BY DEF ContextRecord, RigRecord, Frequency
<1>2. d \in ContextRecord(k) /\ d.o = c.o /\ d.rig = c.rig
  BY <1>1, CommandSound
<1>3. Startup(c) = IF d.thrown THEN d
                   ELSE [d EXCEPT !.o = IF d.o.next.online
                           THEN [d.o EXCEPT !.actual.freq = f, !.requested.freq = f,
                                            !.timer = TRUE, !.next.online = TRUE,
                                            !.actual.online = TRUE,
                                            !.requested.online = TRUE]
                           ELSE Hold([d.o EXCEPT !.actual.freq = f, !.requested.freq = f,
                                            !.timer = TRUE, !.next.online = TRUE,
                                            !.actual.online = TRUE,
                                            !.requested.online = TRUE])]
  BY DEF Startup
<1>. HIDE DEF d, f
<1>4. /\ d.o \in ObjectRecord(k) /\ d.o.actual \in State /\ d.o.requested \in State
      /\ d.o.next \in State
  <2>1. d.o \in ObjectRecord(k)  BY <1>2, OfContext
  <2>. QED BY <2>1, OfObject
<1>5. a \in State /\ w \in State /\ n \in State /\ w.online
  <2>1. [d.o.actual EXCEPT !.freq = f] \in State
        /\ [d.o.requested EXCEPT !.freq = f] \in State
    BY <1>1, <1>4, WithFreq
  <2>. QED BY <1>4, <2>1, WithOnline
<1>6. o = [d.o EXCEPT !.actual.freq = f, !.requested.freq = f, !.timer = TRUE,
                      !.next.online = TRUE, !.actual.online = TRUE,
                      !.requested.online = TRUE]
  BY <1>4 DEF ObjectRecord
<1>7. o \in ObjectRecord(k) /\ o.requested = w
  <2>. HIDE DEF a, w, n
  <2>. QED BY <1>4, <1>5 DEF ObjectRecord
<1>8. Startup(c) = IF d.thrown THEN d ELSE x
  <2>. HIDE DEF o
  <2>. QED BY <1>3, <1>6
<1>. HIDE DEF o, w
<1>9. u \in ObjectRecord(k) /\ u.requested = w  BY <1>7, HoldSound
<1>. HIDE DEF u
<1>10. x \in ContextRecord(k) /\ x.o = u  BY <1>2, <1>9, WithObject
<1>. HIDE DEF x
<1>11. CASE d.thrown  BY <1>2, <1>8, <1>11 DEF Calm
<1>12. CASE ~d.thrown  BY <1>5, <1>8, <1>9, <1>10, <1>12 DEF Calm
<1>. QED BY <1>11, <1>12

\* A slot that ends with an exception shuts the transceiver down.
LEMMA OfflineSound ==
  ASSUME NEW k \in Nat, NEW c \in ContextRecord(k), NEW e \in BOOLEAN,
         Calm(c, e)
  PROVE  LET d == Offline(c) IN d \in ContextRecord(k) /\ Calm(d, e)
<1>. DEFINE s == [kind |-> "failure"]
            out == Append(c.out, s)
            d == [c EXCEPT !.thrown = FALSE, !.out = out]
<1>1. out \in Seq(Signal)
  <2>1. s \in Signal  BY DEF Signal
  <2>2. c.out \in Seq(Signal)  BY OfContext
  <2>. HIDE DEF s
  <2>. QED BY <2>1, <2>2
<1>2. Offline(c) = Shutdown(d)
  <2>1. d = [c EXCEPT !.thrown = FALSE, !.out = Append(@, [kind |-> "failure"])]
    BY DEF ContextRecord
  <2>. QED BY <2>1 DEF Offline
<1>. HIDE DEF out
<1>3. d \in ContextRecord(k) /\ d.o = c.o /\ d.rig = c.rig /\ ~d.thrown
  BY <1>1 DEF ContextRecord
<1>4. Calm(d, e)  BY <1>3 DEF Calm
<1>. HIDE DEF d
<1>. QED BY <1>2, <1>3, <1>4, ShutdownSound

LEMMA FinishSound ==
  ASSUME NEW k \in Nat, NEW c \in ContextRecord(k), NEW e \in BOOLEAN, NEW n \in 0..k,
         Calm(c, e)
  PROVE  LET d == Finish(c, n) IN d \in ContextRecord(k) /\ Calm(d, e)
<1>. DEFINE o == [c.o EXCEPT !.seq = n]
            x == IF c.thrown THEN c ELSE [c EXCEPT !.o = o]
            d == UpdateComplete(x, TRUE)
<1>1. o \in ObjectRecord(k) /\ o.requested = c.o.requested
  <2>1. c.o \in ObjectRecord(k)  BY OfContext
  <2>. QED BY <2>1 DEF ObjectRecord
<1>2. Finish(c, n) = IF d.thrown THEN Offline(d) ELSE d
  <2>1. [c EXCEPT !.o = o] = [c EXCEPT !.o.seq = n]  BY DEF ContextRecord
  <2>. QED BY <2>1 DEF Finish
<1>. HIDE DEF o
<1>3. x \in ContextRecord(k) /\ x.o.requested = c.o.requested /\ x.rig = c.rig
  BY <1>1, WithObject
<1>. HIDE DEF x
<1>4. /\ d \in ContextRecord(k) /\ d.rig = x.rig
      /\ d.o.requested = x.o.requested
  BY <1>3, UpdateSound
<1>5. Calm(d, e)  BY <1>3, <1>4 DEF Calm
<1>. HIDE DEF d
<1>. QED BY <1>2, <1>4, <1>5, OfflineSound

LEMMA StartSound ==
  ASSUME NEW k \in Nat, NEW c \in ContextRecord(k), NEW e \in BOOLEAN, NEW n \in 0..k,
         ~c.thrown, Calm(c, e)
  PROVE  LET d == Start(c, n) IN d \in ContextRecord(k) /\ Calm(d, e)
<1>1. Shutdown(c) \in ContextRecord(k) /\ Calm(Shutdown(c), e)  BY ShutdownSound
<1>2. Startup(Shutdown(c)) \in ContextRecord(k) /\ Calm(Startup(Shutdown(c)), e)
  BY <1>1, StartupSound
<1>. QED BY <1>2, FinishSound DEF Start

LEMMA StopSound ==
  ASSUME NEW k \in Nat, NEW c \in ContextRecord(k), NEW e \in BOOLEAN,
         ~c.thrown, Calm(c, e)
  PROVE  LET d == Stop(c) IN d \in ContextRecord(k) /\ Calm(d, e)
<1>. DEFINE d == Shutdown(c)
            x == [d EXCEPT !.o = NewObject]
<1>1. d \in ContextRecord(k) /\ Calm(d, e) /\ ~d.o.requested.online  BY ShutdownSound
<1>2. Stop(c) = x  BY DEF Stop
<1>. HIDE DEF d
<1>3. x \in ContextRecord(k) /\ x.rig = d.rig  BY <1>1, NewObjectType, WithObject
<1>. HIDE DEF x
<1>. QED BY <1>1, <1>2, <1>3 DEF Calm

\* What the commands of set keep: an object that is not online has thrown.
Controlled(k, c, e) ==
  c \in ContextRecord(k) /\ Calm(c, e) /\ (c.thrown \/ c.o.requested.online)

LEMMA PttControlled ==
  ASSUME NEW k \in Nat, NEW c, NEW e \in BOOLEAN, NEW on \in BOOLEAN, Controlled(k, c, e)
  PROVE  Controlled(k, DoPtt(c, on), e)
<1>1. c \in ContextRecord(k) /\ Calm(c, e) /\ (c.thrown \/ c.o.requested.online)
  BY DEF Controlled
<1>. DEFINE p == DoPtt(c, on)
<1>2. /\ p \in ContextRecord(k) /\ p.o.requested = c.o.requested
      /\ c.thrown => p = c
  BY <1>1, PttSound
<1>. HIDE DEF p
<1>3. Controlled(k, p, e)  BY <1>1, <1>2 DEF Controlled, Calm
<1>. QED BY <1>3 DEF p

LEMMA FrequencyControlled ==
  ASSUME NEW k \in Nat, NEW c, NEW e \in BOOLEAN, NEW f \in Freqs \cup {TxFreq},
         Controlled(k, c, e)
  PROVE  Controlled(k, DoFrequency(c, f), e)
<1>1. c \in ContextRecord(k) /\ Calm(c, e) /\ (c.thrown \/ c.o.requested.online)
  BY DEF Controlled
<1>. DEFINE d == DoFrequency(c, f)
<1>2. /\ d \in ContextRecord(k)
      /\ d.rig.keyed = c.rig.keyed /\ d.rig.refused = c.rig.refused
      /\ d.o.requested.online = c.o.requested.online
      /\ c.thrown => d = c
  BY <1>1, FrequencySound
<1>. HIDE DEF d
<1>3. Controlled(k, d, e)  BY <1>1, <1>2 DEF Controlled, Calm
<1>. QED BY <1>3 DEF d

LEMMA SetStateSound ==
  ASSUME NEW k \in Nat, NEW c \in ContextRecord(k), NEW e \in BOOLEAN, NEW s \in State,
         ~c.thrown, Calm(c, e)
  PROVE  LET d == SetState(c, s) IN d \in ContextRecord(k) /\ Calm(d, e)
<1>. DEFINE up  == IF c.o.requested.online THEN c ELSE Startup(Shutdown(c))
            on  == s.ptt /\ ~up.o.requested.ptt
            off == ~s.ptt /\ up.o.requested.ptt
            a   == IF off THEN DoPtt(up, FALSE) ELSE up
            b   == IF s.freq # 0 /\ (s.freq # a.o.requested.freq \/ off)
                   THEN DoFrequency(a, s.freq) ELSE a
            d   == IF on THEN DoPtt(b, TRUE) ELSE b
            w   == [d.o.requested EXCEPT !.ptt = d.o.actual.ptt]
            o   == [d.o EXCEPT !.requested = w]
            x   == [d EXCEPT !.o = o]
<1>1. Controlled(k, up, e)
  <2>1. CASE c.o.requested.online  BY <2>1 DEF Controlled
  <2>2. CASE ~c.o.requested.online
    <3>1. Shutdown(c) \in ContextRecord(k) /\ Calm(Shutdown(c), e)  BY ShutdownSound
    <3>2. Controlled(k, Startup(Shutdown(c)), e)  BY <3>1, StartupSound DEF Controlled
    <3>. QED BY <2>2, <3>2
  <2>. QED BY <2>1, <2>2
<1>2. SetState(c, s) = IF d.thrown THEN d
                       ELSE [d EXCEPT !.o.requested.ptt = d.o.actual.ptt]
  BY DEF SetState
<1>. HIDE DEF up, on
<1>3. Controlled(k, a, e)  BY <1>1, PttControlled
<1>. HIDE DEF a, off
<1>4. Controlled(k, b, e)
  <2>1. s.freq # 0 => s.freq \in Freqs \cup {TxFreq}  BY DEF State, Frequency
  <2>. QED BY <1>3, <2>1, FrequencyControlled
<1>. HIDE DEF b
<1>5. Controlled(k, d, e)  BY <1>4, PttControlled
<1>. HIDE DEF d
<1>6. d \in ContextRecord(k) /\ Calm(d, e)  BY <1>5 DEF Controlled
<1>7. /\ d.o \in ObjectRecord(k) /\ d.o.requested \in State /\ d.o.actual.ptt \in BOOLEAN
  <2>1. d.o \in ObjectRecord(k)  BY <1>6, OfContext
  <2>2. d.o.requested \in State /\ d.o.actual \in State  BY <2>1, OfObject
  <2>. QED BY <2>1, <2>2 DEF State
<1>8. w \in State /\ w.online = d.o.requested.online  BY <1>7, WithPtt
<1>9. x = [d EXCEPT !.o.requested.ptt = d.o.actual.ptt]
  BY <1>6, <1>7 DEF ContextRecord, ObjectRecord
<1>10. o \in ObjectRecord(k) /\ o.requested = w
  <2>. HIDE DEF w
  <2>. QED BY <1>7, <1>8 DEF ObjectRecord
<1>11. x \in ContextRecord(k) /\ x.rig = d.rig /\ x.o.requested = w
  <2>. HIDE DEF o
  <2>. QED BY <1>6, <1>10, WithObject
<1>. HIDE DEF x, w
<1>12. Calm(x, e)  BY <1>6, <1>8, <1>11 DEF Calm
<1>. QED BY <1>2, <1>6, <1>9, <1>11, <1>12

LEMMA SetSound ==
  ASSUME NEW k \in Nat, NEW c \in ContextRecord(k), NEW e \in BOOLEAN, NEW s \in State,
         NEW n \in 0..k, ~c.thrown, Calm(c, e)
  PROVE  LET d == Set(c, s, n) IN d \in ContextRecord(k) /\ Calm(d, e)
<1>. DEFINE o == [c.o EXCEPT !.asked = s]
            x == [c EXCEPT !.o = o]
            t == Emulated(s)
<1>1. t \in State
  BY Constants DEF Emulated, State, Frequency
<1>2. o \in ObjectRecord(k) /\ o.requested = c.o.requested
  <2>1. c.o \in ObjectRecord(k)  BY OfContext
  <2>. QED BY <2>1 DEF ObjectRecord
<1>3. Set(c, s, n) = Finish(SetState(x, t), n)
  <2>1. x = [c EXCEPT !.o.asked = s]  BY DEF ContextRecord
  <2>. QED BY <2>1 DEF Set
<1>. HIDE DEF o, t
<1>4. x \in ContextRecord(k) /\ x.o = o /\ x.rig = c.rig /\ ~x.thrown
  BY <1>2, WithObject
<1>. HIDE DEF x
<1>5. Calm(x, e)  BY <1>2, <1>4 DEF Calm
<1>6. SetState(x, t) \in ContextRecord(k) /\ Calm(SetState(x, t), e)
  BY <1>1, <1>4, <1>5, SetStateSound
<1>. QED BY <1>3, <1>6, FinishSound

LEMMA TimeoutSound ==
  ASSUME NEW k \in Nat, NEW c \in ContextRecord(k), NEW e \in BOOLEAN,
         Calm(c, e)
  PROVE  LET d == Timeout(c) IN d \in ContextRecord(k) /\ Calm(d, e)
<1>. DEFINE d == Command(c, c.rig)
            f == c.rig.freq
            a == [[d.o.actual EXCEPT !.freq = f] EXCEPT !.ptt = c.rig.keyed]
            w == [d.o.requested EXCEPT !.freq = f]
            p == [d.o EXCEPT !.actual.freq = f, !.requested.freq = f,
                             !.actual.ptt = c.rig.keyed]
            now == IF p.retries > 0
                   THEN p.actual = p.next \/ p.retries = 1
                   ELSE p.actual # p.signalled
            r == IF p.retries > 0 THEN p.retries - 1 ELSE 0
            q == [p EXCEPT !.retries = 0, !.next = p.actual, !.signalled = p.actual]
            v == [p EXCEPT !.retries = IF @ > 0 THEN @ - 1 ELSE 0]
            o == IF now THEN q ELSE v
            x == [d EXCEPT !.o = o]
<1>1. c.rig \in RigRecord /\ f \in Frequency /\ c.rig.keyed \in BOOLEAN
  BY DEF ContextRecord, RigRecord, Frequency
<1>2. d \in ContextRecord(k) /\ d.o = c.o /\ d.rig = c.rig
  BY <1>1, CommandSound
<1>3. /\ d.o \in ObjectRecord(k) /\ d.o.actual \in State /\ d.o.requested \in State
  <2>1. d.o \in ObjectRecord(k)  BY <1>2, OfContext
  <2>. HIDE DEF d
  <2>. QED BY <2>1, OfObject
<1>4. a \in State /\ w \in State /\ w.online = c.o.requested.online
  <2>1. d.o = c.o  BY <1>2
  <2>. HIDE DEF d, f
  <2>2. [d.o.actual EXCEPT !.freq = f] \in State  BY <1>1, <1>3, WithFreq
  <2>3. a \in State  BY <1>1, <2>2, WithPtt
  <2>. QED BY <1>1, <1>3, <2>1, <2>3, WithFreq
<1>5. p = [d.o EXCEPT !.actual = a, !.requested = w]
  <2>. HIDE DEF d, f
  <2>. QED BY <1>3 DEF ObjectRecord
<1>6. Timeout(c) = IF d.thrown THEN Offline(d)
                   ELSE IF now THEN UpdateComplete(x, TRUE) ELSE x
  BY DEF Timeout
<1>. HIDE DEF d, f
<1>7. p \in ObjectRecord(k) /\ p.requested = w
  <2>. HIDE DEF a, w
  <2>. QED BY <1>3, <1>4, <1>5 DEF ObjectRecord
<1>. HIDE DEF p
<1>8. p.actual \in State /\ p.retries \in 0..PollsToStabilize  BY <1>7, OfObject
<1>9. r \in 0..PollsToStabilize  BY <1>8, Constants
<1>10. q \in ObjectRecord(k) /\ q.requested = w
  <2>. DEFINE s == p.actual
  <2>1. s \in State /\ 0 \in 0..PollsToStabilize  BY <1>8, Constants
  <2>. HIDE DEF s, w
  <2>2. q = [p EXCEPT !.retries = 0, !.next = s, !.signalled = s]  BY DEF s
  <2>. QED BY <1>7, <2>1, <2>2 DEF ObjectRecord
<1>11. v \in ObjectRecord(k) /\ v.requested = w
  <2>1. v = [p EXCEPT !.retries = r]  BY <1>7 DEF ObjectRecord
  <2>. HIDE DEF r, v, w
  <2>. QED BY <1>7, <1>9, <2>1 DEF ObjectRecord
<1>12. o \in ObjectRecord(k) /\ o.requested = w
  <2>. HIDE DEF q, v, now
  <2>. QED BY <1>10, <1>11
<1>. HIDE DEF o, w, now
<1>13. x \in ContextRecord(k) /\ x.o = o /\ x.rig = c.rig  BY <1>2, <1>12, WithObject
<1>. HIDE DEF x
<1>14. Calm(x, e) /\ Calm(d, e)  BY <1>2, <1>4, <1>12, <1>13 DEF Calm
<1>15. LET u == UpdateComplete(x, TRUE)
       IN  u \in ContextRecord(k) /\ u.rig = x.rig /\ u.o.requested = x.o.requested
  BY <1>13, UpdateSound
<1>16. Calm(UpdateComplete(x, TRUE), e)  BY <1>14, <1>15 DEF Calm
<1>17. Offline(d) \in ContextRecord(k) /\ Calm(Offline(d), e)  BY <1>2, <1>14, OfflineSound
<1>. QED BY <1>6, <1>13, <1>14, <1>15, <1>16, <1>17

-----------------------------------------------------------------------------
(* The user interface.  m is the number of objects, k that of the last       *)
(* command.                                                                  *)
Call(m, k) ==
  [to : 1..m, slot : {"start"}, seq : 0..k]
  \cup [to : 1..m, slot : {"set"}, state : State, seq : 0..k]
  \cup [to : 1..m, slot : {"stop"}]

\* What the user interface works on: calls go to objects there are, with numbers
\* there were, and who is connected exists.
GuiSound(g) ==
  /\ g = [calls |-> g.calls, objects |-> g.objects, active |-> g.active,
          cached |-> g.cached, command |-> g.command]
  /\ g.command \in Nat /\ g.active \in BOOLEAN /\ g.cached \in State
  /\ g.objects \in Seq(ObjectRecord(g.command))
  /\ g.calls \in Seq(Call(Len(g.objects), g.command))
  /\ g.active => Len(g.objects) # 0

AnyOnline(os) == \E i \in DOMAIN os : os[i].requested.online

\* A function of the user interface takes no object offline.
Follows(g, h) == GuiSound(h) /\ (AnyOnline(g.objects) => AnyOnline(h.objects))

LEMMA Wider ==
  ASSUME NEW S, NEW T, S \subseteq T, NEW s \in Seq(S)
  PROVE  s \in Seq(T)
  OBVIOUS

LEMMA MoreObjects ==
  ASSUME NEW k \in Nat, NEW l \in Nat, k <= l
  PROVE  ObjectRecord(k) \subseteq ObjectRecord(l)
  BY DEF ObjectRecord

LEMMA MoreCalls ==
  ASSUME NEW k \in Nat, NEW l \in Nat, k <= l, NEW m \in Nat, NEW n \in Nat, m <= n
  PROVE  Call(m, k) \subseteq Call(n, l)
<1>1. 0..k \subseteq 0..l /\ 1..m \subseteq 1..n  OBVIOUS
<1>. QED BY <1>1 DEF Call

LEMMA CachedSound ==
  ASSUME NEW g, GuiSound(g), NEW s \in State
  PROVE  LET h == [g EXCEPT !.cached = s]
         IN  Follows(g, h) /\ h.active = g.active /\ h.objects = g.objects
  BY DEF GuiSound, Follows

LEMMA EmitSound ==
  ASSUME NEW g, GuiSound(g)
  PROVE  Follows(g, Emit(g)) /\ Emit(g).active = g.active
<1>. DEFINE n == g.command + 1
            m == [to |-> Len(g.objects), slot |-> "set", state |-> g.cached, seq |-> n]
            q == IF g.active THEN Append(g.calls, m) ELSE g.calls
            h == [calls |-> q, objects |-> g.objects, active |-> g.active,
                  cached |-> g.cached, command |-> n]
<1>1. Emit(g) = h
  <2>1. Emit(g) = [g EXCEPT !.command = n, !.calls = q]  BY DEF Emit
  <2>. HIDE DEF n, m, q
  <2>. QED BY <2>1 DEF GuiSound
<1>2. /\ n \in Nat /\ g.command \in Nat /\ g.command <= n
      /\ g.objects \in Seq(ObjectRecord(g.command)) /\ Len(g.objects) \in Nat
  BY DEF GuiSound
<1>3. g.objects \in Seq(ObjectRecord(n))
  <2>1. ObjectRecord(g.command) \subseteq ObjectRecord(n)  BY <1>2, MoreObjects
  <2>. HIDE DEF n
  <2>. QED BY <1>2, <2>1, Wider
<1>4. g.calls \in Seq(Call(Len(g.objects), n))
  <2>1. Call(Len(g.objects), g.command) \subseteq Call(Len(g.objects), n)
    BY <1>2, MoreCalls
  <2>2. g.calls \in Seq(Call(Len(g.objects), g.command))  BY DEF GuiSound
  <2>. HIDE DEF n
  <2>. QED BY <2>1, <2>2, Wider
<1>5. g.active => m \in Call(Len(g.objects), n)
  BY <1>2 DEF Call, GuiSound
<1>. HIDE DEF m, n
<1>6. q \in Seq(Call(Len(g.objects), n))
  <2>. DEFINE C == Call(Len(g.objects), n)
  <2>1. g.calls \in Seq(C) /\ (g.active => m \in C)  BY <1>4, <1>5
  <2>. HIDE DEF C
  <2>2. g.active => Append(g.calls, m) \in Seq(C)  BY <2>1
  <2>3. q \in Seq(C)  BY <2>1, <2>2
  <2>. QED BY <2>3 DEF C
<1>. HIDE DEF q
<1>. QED BY <1>1, <1>2, <1>3, <1>6 DEF GuiSound, Follows

LEMMA CloseRigSound ==
  ASSUME NEW g, GuiSound(g)
  PROVE  Follows(g, CloseRig(g)) /\ ~CloseRig(g).active
         /\ CloseRig(g).objects = g.objects /\ CloseRig(g).command = g.command
<1>. DEFINE m == [to |-> Len(g.objects), slot |-> "stop"]
            q == Append(g.calls, m)
            h == [calls |-> q, objects |-> g.objects, active |-> FALSE,
                  cached |-> g.cached, command |-> g.command]
<1>1. CASE ~g.active  BY <1>1 DEF CloseRig, Follows
<1>2. CASE g.active
  <2>1. CloseRig(g) = h
    <3>. HIDE DEF m
    <3>1. CloseRig(g) = [g EXCEPT !.active = FALSE, !.calls = q]
      BY <1>2 DEF CloseRig, m
    <3>. HIDE DEF q
    <3>. QED BY <3>1 DEF GuiSound
  <2>2. m \in Call(Len(g.objects), g.command)
    BY <1>2 DEF Call, GuiSound
  <2>. HIDE DEF m
  <2>3. q \in Seq(Call(Len(g.objects), g.command))  BY <2>2 DEF GuiSound
  <2>. HIDE DEF q
  <2>. QED BY <2>1, <2>3 DEF GuiSound, Follows
<1>. QED BY <1>1, <1>2

LEMMA OpenRigSound ==
  ASSUME NEW g, GuiSound(g)
  PROVE  Follows(g, OpenRig(g)) /\ OpenRig(g).active
<1>. DEFINE b == CloseRig(g)
            n == b.command + 1
            l == Len(b.objects) + 1
            m == [to |-> l, slot |-> "start", seq |-> n]
            os == Append(b.objects, NewObject)
            q == Append(b.calls, m)
            h == [calls |-> q, objects |-> os, active |-> TRUE,
                  cached |-> NoState, command |-> n]
<1>1. GuiSound(b) /\ (AnyOnline(g.objects) => AnyOnline(b.objects))
  BY CloseRigSound DEF Follows
<1>2. OpenRig(g) = h
  <2>1. OpenRig(g) = [b EXCEPT !.objects = os, !.active = TRUE, !.cached = NoState,
                               !.command = n, !.calls = q]
    <3>1. b = [calls |-> b.calls, objects |-> b.objects, active |-> b.active,
               cached |-> b.cached, command |-> b.command]
      BY <1>1 DEF GuiSound
    <3>. HIDE DEF b
    <3>2. OpenRig(g) = [b EXCEPT !.objects = Append(@, NewObject), !.active = TRUE,
                                 !.cached = NoState, !.command = n,
                                 !.calls = Append(@, m)]
      BY DEF OpenRig, b
    <3>. HIDE DEF m, n
    <3>. QED BY <3>1, <3>2
  <2>. HIDE DEF b, q, os, n
  <2>. QED BY <1>1, <2>1 DEF GuiSound
<1>. HIDE DEF b
<1>3. /\ n \in Nat /\ b.command \in Nat /\ b.command <= n
      /\ b.objects \in Seq(ObjectRecord(b.command)) /\ Len(b.objects) \in Nat
      /\ l \in Nat /\ Len(b.objects) <= l
  BY <1>1 DEF GuiSound
<1>4. os \in Seq(ObjectRecord(n)) /\ Len(os) = l
  <2>1. ObjectRecord(b.command) \subseteq ObjectRecord(n)  BY <1>3, MoreObjects
  <2>2. NewObject \in ObjectRecord(n)  BY <1>3, NewObjectType
  <2>. HIDE DEF n
  <2>3. b.objects \in Seq(ObjectRecord(n))  BY <1>3, <2>1, Wider
  <2>. QED BY <2>2, <2>3
<1>5. q \in Seq(Call(l, n))
  <2>1. Call(Len(b.objects), b.command) \subseteq Call(l, n)  BY <1>3, MoreCalls
  <2>2. b.calls \in Seq(Call(Len(b.objects), b.command))  BY <1>1 DEF GuiSound
  <2>3. m \in Call(l, n)  BY <1>3 DEF Call
  <2>. HIDE DEF n, l, m
  <2>4. b.calls \in Seq(Call(l, n))  BY <2>1, <2>2, Wider
  <2>. QED BY <2>3, <2>4
<1>6. AnyOnline(b.objects) => AnyOnline(os)
  <2>1. \A i \in DOMAIN b.objects : i \in DOMAIN os /\ os[i] = b.objects[i]  BY <1>3
  <2>. HIDE DEF os
  <2>. QED BY <2>1 DEF AnyOnline
<1>. HIDE DEF q, os, n
<1>7. GuiSound(h)
  BY <1>3, <1>4, <1>5, NoStateType DEF GuiSound
<1>. QED BY <1>1, <1>2, <1>6, <1>7 DEF Follows

LEMMA FollowsAgain ==
  ASSUME NEW f, NEW g, NEW h, Follows(f, g), Follows(g, h)
  PROVE  Follows(f, h)
  BY DEF Follows

LEMMA FrequencyAsked ==
  ASSUME NEW g, GuiSound(g), NEW f \in Frequency
  PROVE  Follows(g, TransceiverFrequency(g, f))
<1>. DEFINE s == [[g.cached EXCEPT !.online = TRUE] EXCEPT !.freq = f]
            h == [g EXCEPT !.cached = s]
<1>1. s \in State
  <2>1. g.cached \in State  BY DEF GuiSound
  <2>2. [g.cached EXCEPT !.online = TRUE] \in State  BY <2>1, WithOnline
  <2>. QED BY <2>2, WithFreq
<1>2. TransceiverFrequency(g, f) = Emit(h)
  <2>1. h = [g EXCEPT !.cached.online = TRUE, !.cached.freq = f]  BY DEF GuiSound
  <2>. QED BY <2>1 DEF TransceiverFrequency
<1>. HIDE DEF s
<1>3. Follows(g, h)  BY <1>1, CachedSound
<1>. HIDE DEF h
<1>4. Follows(h, Emit(h))  BY <1>3, EmitSound DEF Follows
<1>. QED BY <1>2, <1>3, <1>4, FollowsAgain

LEMMA TxFrequencyAsked ==
  ASSUME NEW g, GuiSound(g)
  PROVE  Follows(g, TransceiverTxFrequency(g))
<1>. DEFINE s == [g.cached EXCEPT !.online = TRUE, !.split = TRUE, !.tx = TxFreq]
            h == [g EXCEPT !.cached = s]
<1>1. s \in State
  <2>1. g.cached \in State  BY DEF GuiSound
  <2>. QED BY <2>1 DEF State
<1>2. TransceiverTxFrequency(g) = IF Split THEN Emit(h) ELSE g
  <2>1. h = [g EXCEPT !.cached.online = TRUE, !.cached.split = TRUE, !.cached.tx = TxFreq]
    BY DEF GuiSound
  <2>. QED BY <2>1 DEF TransceiverTxFrequency
<1>. HIDE DEF s
<1>3. Follows(g, h)  BY <1>1, CachedSound
<1>. HIDE DEF h
<1>4. Follows(h, Emit(h))  BY <1>3, EmitSound DEF Follows
<1>5. Follows(g, g)  BY DEF Follows
<1>6. Follows(g, Emit(h))  BY <1>3, <1>4, FollowsAgain
<1>. QED BY <1>2, <1>5, <1>6

LEMMA PttAsked ==
  ASSUME NEW g, GuiSound(g), NEW on \in BOOLEAN
  PROVE  Follows(g, TransceiverPtt(g, on))
<1>. DEFINE s == [[g.cached EXCEPT !.online = TRUE] EXCEPT !.ptt = on]
            h == [g EXCEPT !.cached = s]
<1>1. s \in State
  <2>1. g.cached \in State  BY DEF GuiSound
  <2>2. [g.cached EXCEPT !.online = TRUE] \in State  BY <2>1, WithOnline
  <2>. QED BY <2>2, WithPtt
<1>2. TransceiverPtt(g, on) = Emit(h)
  <2>1. h = [g EXCEPT !.cached.online = TRUE, !.cached.ptt = on]  BY DEF GuiSound
  <2>. QED BY <2>1 DEF TransceiverPtt
<1>. HIDE DEF s
<1>3. Follows(g, h)  BY <1>1, CachedSound
<1>. HIDE DEF h
<1>4. Follows(h, Emit(h))  BY <1>3, EmitSound DEF Follows
<1>. QED BY <1>2, <1>3, <1>4, FollowsAgain

LEMMA SetRigSound ==
  ASSUME NEW g, GuiSound(g), NEW f \in Frequency
  PROVE  Follows(g, SetRig(g, f))
<1>1. Follows(g, HaveRig(g))
  <2>1. Follows(g, g)  BY DEF Follows
  <2>. QED BY <2>1, OpenRigSound DEF HaveRig
<1>2. Follows(HaveRig(g), TransceiverTxFrequency(HaveRig(g)))
  BY <1>1, TxFrequencyAsked DEF Follows
<1>3. Follows(TransceiverTxFrequency(HaveRig(g)), SetRig(g, f))
  BY <1>2, FrequencyAsked DEF Follows, SetRig
<1>. QED BY <1>1, <1>2, <1>3, FollowsAgain

LEMMA SetXITSound ==
  ASSUME NEW g, GuiSound(g)
  PROVE  Follows(g, SetXIT(g))
<1>1. Follows(g, g)  BY DEF Follows
<1>. QED BY <1>1, TxFrequencyAsked DEF SetXIT

LEMMA CacheSound ==
  ASSUME NEW g, GuiSound(g), NEW s \in State
  PROVE  Follows(g, Cache(g, s))
<1>. DEFINE t == [g.cached EXCEPT !.online = s.online, !.freq = s.freq, !.split = s.split]
            h == [g EXCEPT !.cached = t]
<1>1. t \in State
  <2>1. g.cached \in State  BY DEF GuiSound
  <2>. QED BY <2>1 DEF State
<1>2. Cache(g, s) = IF s.online THEN h ELSE CloseRig(h)
  <2>1. h = [g EXCEPT !.cached.online = s.online, !.cached.freq = s.freq,
                      !.cached.split = s.split]
    BY DEF GuiSound
  <2>. QED BY <2>1 DEF Cache
<1>. HIDE DEF t
<1>3. Follows(g, h)  BY <1>1, CachedSound
<1>. HIDE DEF h
<1>4. Follows(h, CloseRig(h))  BY <1>3, CloseRigSound DEF Follows
<1>5. Follows(g, CloseRig(h))  BY <1>3, <1>4, FollowsAgain
<1>. QED BY <1>2, <1>3, <1>5

-----------------------------------------------------------------------------
(* The inductive invariant: the types, with what the queues hold, and that   *)
(* nobody is left keyed.                                                     *)
ClientRecord ==
  [state : State, nominal : Frequency, iptt : BOOLEAN, confirm : BOOLEAN,
   audio : BOOLEAN, release : BOOLEAN]

Typed ==
  /\ command \in Nat /\ active \in BOOLEAN /\ cached \in State
  /\ objects \in Seq(ObjectRecord(command))
  /\ calls \in Seq(Call(Len(objects), command))
  /\ active => Len(objects) # 0
  /\ signals \in Seq(Signal) /\ rig \in RigRecord /\ client \in ClientRecord

IInv == Typed /\ NobodyKeyed

LEMMA GuiIsSound ==
  ASSUME Typed
  PROVE  GuiSound(Gui) /\ Gui.objects = objects
  BY DEF Typed, Gui, GuiSound

\* A step of the user interface.
LEMMA ApplySound ==
  ASSUME IInv, NEW g, Follows(Gui, g), Apply(g), signals' \in Seq(Signal),
         client' \in ClientRecord
  PROVE  IInv'
<1>1. Typed'
  BY DEF IInv, Typed, Follows, GuiSound, Apply
<1>2. AnyOnline(objects) => AnyOnline(g.objects)
  BY GuiIsSound DEF IInv, Follows
<1>3. NobodyKeyed'
  BY <1>2 DEF IInv, NobodyKeyed, Apply, AnyOnline
<1>. QED BY <1>1, <1>3 DEF IInv

Elsewhere(i) == \E j \in DOMAIN objects \ {i} : objects[j].requested.online

\* A slot of a transceiver begins with a calm context ...
LEMMA ContextSound ==
  ASSUME IInv, NEW i \in DOMAIN objects, NEW bad \in Faults, NEW took \in BOOLEAN
  PROVE  LET c == Context(objects[i], bad, took)
         IN  c \in ContextRecord(command) /\ ~c.thrown /\ Calm(c, Elsewhere(i))
<1>. DEFINE o == objects[i]
            c == Context(o, bad, took)
<1>1. o \in ObjectRecord(command) /\ rig \in RigRecord  BY DEF IInv, Typed
<1>2. bad \in SUBSET (1..4)  BY DEF Faults
<1>3. <<>> \in Seq(Signal)  OBVIOUS
<1>4. rig.keyed => rig.refused \/ o.requested.online \/ Elsewhere(i)
  BY DEF IInv, NobodyKeyed, Elsewhere
<1>. HIDE DEF o
<1>5. c \in ContextRecord(command) /\ c.o = o /\ c.rig = rig /\ ~c.thrown
  BY <1>1, <1>2, <1>3 DEF Context, ContextRecord
<1>. HIDE DEF c
<1>6. Calm(c, Elsewhere(i))  BY <1>4, <1>5 DEF Calm
<1>. QED BY <1>5, <1>6 DEF c, o

\* ... and keeps the invariant if it ends with one.
LEMMA RanSound ==
  ASSUME IInv, NEW i \in DOMAIN objects, NEW c \in ContextRecord(command),
         Calm(c, Elsewhere(i)), Ran(i, c),
         calls' \in Seq(Call(Len(objects), command))
  PROVE  IInv'
<1>1. /\ c.o \in ObjectRecord(command) /\ c.rig \in RigRecord /\ c.out \in Seq(Signal)
  BY OfContext DEF IInv, Typed
<1>2. objects \in Seq(ObjectRecord(command))  BY DEF IInv, Typed
<1>3. objects' = [objects EXCEPT ![i] = c.o]  BY DEF Ran
<1>4. /\ objects' \in Seq(ObjectRecord(command)) /\ Len(objects') = Len(objects)
      /\ DOMAIN objects' = DOMAIN objects
      /\ \A j \in DOMAIN objects : objects'[j] = IF j = i THEN c.o ELSE objects[j]
  BY <1>1, <1>2, <1>3
<1>5. signals' \in Seq(Signal)
  <2>1. signals \in Seq(Signal)  BY DEF IInv, Typed
  <2>2. signals' = signals \/ signals' = signals \o c.out  BY DEF Ran
  <2>3. signals \o c.out \in Seq(Signal)  BY <1>1, <2>1, ConcatProperties
  <2>. QED BY <2>1, <2>2, <2>3
<1>6. Typed'
  <2>1. UNCHANGED <<active, cached, command, client>> /\ rig' = c.rig  BY DEF Ran
  <2>. QED BY <1>1, <1>4, <1>5, <2>1 DEF IInv, Typed
<1>7. NobodyKeyed'
  <2>1. rig' = c.rig  BY DEF Ran
  <2>2. c.o.requested.online \/ Elsewhere(i)
        => \E j \in DOMAIN objects' : objects'[j].requested.online
    BY <1>4 DEF Elsewhere
  <2>. QED BY <2>1, <2>2 DEF NobodyKeyed, Calm
<1>. QED BY <1>6, <1>7 DEF IInv

LEMMA ClientSound ==
  ASSUME NEW cl \in ClientRecord, NEW s \in State
  PROVE  Updated(cl, s) \in ClientRecord
<1>. DEFINE confirms == s.ptt /\ ~cl.state.ptt
            audio == cl.audio \/ (confirms /\ cl.confirm /\ cl.iptt)
            confirm == cl.confirm /\ ~confirms
            nominal == IF cl.nominal = 0
                          \/ ((s.freq # cl.state.freq \/ s.split # cl.state.split) /\ ~s.ptt)
                       THEN s.freq ELSE cl.nominal
<1>1. audio \in BOOLEAN /\ confirm \in BOOLEAN /\ nominal \in Frequency
  BY DEF ClientRecord, State
<1>2. Updated(cl, s) = [cl EXCEPT !.audio = audio, !.confirm = confirm, !.state = s,
                                  !.nominal = nominal]
  BY DEF Updated
<1>. HIDE DEF audio, confirm, nominal
<1>. QED BY <1>1, <1>2 DEF ClientRecord

-----------------------------------------------------------------------------
(* The steps.                                                                *)
LEMMA InitIInv == Init => IInv
<1>. SUFFICES ASSUME Init PROVE IInv  OBVIOUS
<1>1. rig \in RigRecord /\ ~rig.keyed  BY Constants DEF Init, RigRecord
<1>2. client \in ClientRecord  BY NoStateType DEF Init, ClientRecord, Frequency
<1>3. Typed
  <2>1. /\ <<>> \in Seq(ObjectRecord(0)) /\ <<>> \in Seq(Call(0, 0))
        /\ <<>> \in Seq(Signal) /\ Len(<<>>) = 0
    OBVIOUS
  <2>2. objects = <<>> /\ calls = <<>> /\ signals = <<>> /\ command = 0
    BY DEF Init
  <2>3. objects \in Seq(ObjectRecord(command)) /\ calls \in Seq(Call(Len(objects), command))
    BY <2>1, <2>2
  <2>4. active = FALSE /\ cached \in State  BY NoStateType DEF Init
  <2>. QED BY <1>1, <1>2, <2>1, <2>2, <2>3, <2>4 DEF Typed
<1>. QED BY <1>1, <1>3 DEF IInv, NobodyKeyed

LEMMA RunSlotStep == IInv /\ RunSlot => IInv'
<1>. SUFFICES ASSUME IInv, RunSlot PROVE IInv'  OBVIOUS
<1>. DEFINE m == Head(calls)
            i == m.to
<1>1. m \in Call(Len(objects), command) /\ Tail(calls) \in Seq(Call(Len(objects), command))
  BY DEF RunSlot, IInv, Typed
<1>2. /\ i \in DOMAIN objects
      /\ m.slot \in {"start", "set", "stop"}
      /\ m.slot \in {"start", "set"} => m.seq \in 0..command
      /\ m.slot = "set" => m.state \in State
  <2>1. objects \in Seq(ObjectRecord(command))  BY DEF IInv, Typed
  <2>. HIDE DEF m
  <2>. QED BY <1>1, <2>1 DEF Call
<1>. DEFINE D(c) == CASE m.slot = "start" -> Start(c, m.seq)
                      [] m.slot = "set"   -> Set(c, m.state, m.seq)
                      [] m.slot = "stop"  -> Stop(c)
<1>3. PICK bad \in Faults, took \in BOOLEAN : Ran(i, D(Context(objects[i], bad, took)))
  BY DEF RunSlot
<1>. DEFINE c == Context(objects[i], bad, took)
            e == Elsewhere(i)
<1>4. c \in ContextRecord(command) /\ ~c.thrown /\ Calm(c, e)
  BY <1>2, ContextSound
<1>5. command \in Nat /\ e \in BOOLEAN  BY DEF IInv, Typed, Elsewhere
<1>. HIDE DEF m, c, e
<1>6. D(c) \in ContextRecord(command) /\ Calm(D(c), e)
  <2>1. CASE m.slot = "start"  BY <1>2, <1>4, <1>5, <2>1, StartSound
  <2>2. CASE m.slot = "set"
    <3>1. D(c) = Set(c, m.state, m.seq)  BY <2>2
    <3>. QED BY <1>2, <1>4, <1>5, <2>2, <3>1, SetSound
  <2>3. CASE m.slot = "stop"
    <3>1. D(c) = Stop(c)  BY <2>3
    <3>. QED BY <1>4, <1>5, <3>1, StopSound
  <2>. QED BY <1>2, <2>1, <2>2, <2>3
<1>7. calls' \in Seq(Call(Len(objects), command))  BY <1>1 DEF RunSlot
<1>. QED BY <1>2, <1>3, <1>6, <1>7, RanSound DEF c, e

LEMMA PollTimerStep ==
  ASSUME IInv, NEW i \in DOMAIN objects, PollTimer(i)
  PROVE  IInv'
<1>1. PICK bad \in Faults, took \in BOOLEAN :
        Ran(i, Timeout(Context(objects[i], bad, took)))
  BY DEF PollTimer
<1>. DEFINE c == Context(objects[i], bad, took)
<1>2. c \in ContextRecord(command) /\ Calm(c, Elsewhere(i))  BY ContextSound
<1>3. command \in Nat /\ Elsewhere(i) \in BOOLEAN  BY DEF IInv, Typed, Elsewhere
<1>. HIDE DEF c
<1>4. Timeout(c) \in ContextRecord(command) /\ Calm(Timeout(c), Elsewhere(i))
  BY <1>2, <1>3, TimeoutSound
<1>5. calls' \in Seq(Call(Len(objects), command))  BY DEF PollTimer, IInv, Typed
<1>. QED BY <1>1, <1>4, <1>5, RanSound DEF c

LEMMA HandleSignalStep == IInv /\ HandleSignal => IInv'
<1>. SUFFICES ASSUME IInv, HandleSignal PROVE IInv'  OBVIOUS
<1>. DEFINE m == Head(signals)
<1>1. /\ m \in Signal /\ signals' \in Seq(Signal) /\ client \in ClientRecord
      /\ GuiSound(Gui)
  BY GuiIsSound DEF HandleSignal, IInv, Typed
<1>2. CASE /\ m.kind = "update" /\ Apply(Cache(Gui, m.state))
           /\ client' = IF PassedOn(m.seq) THEN Updated(client, m.state) ELSE client
  <2>. HIDE DEF m
  <2>1. m.state \in State  BY <1>1, <1>2 DEF Signal
  <2>2. client' \in ClientRecord  BY <1>1, <1>2, <2>1, ClientSound
  <2>. QED BY <1>1, <1>2, <2>1, <2>2, CacheSound, ApplySound
<1>3. CASE m.kind = "failure" /\ Apply(CloseRig(Gui)) /\ UNCHANGED client
  BY <1>1, <1>3, CloseRigSound, ApplySound
<1>. QED BY <1>2, <1>3 DEF HandleSignal

LEMMA UserStep ==
  ASSUME IInv, MoveOffset \/ Reopen \/ Key \/ StopTx \/ StopTx2
  PROVE  IInv'
<1>1. /\ GuiSound(Gui) /\ client \in ClientRecord /\ signals \in Seq(Signal)
      /\ client.nominal \in Frequency
  BY GuiIsSound DEF IInv, Typed, ClientRecord
<1>2. CASE MoveOffset  BY <1>1, <1>2, SetXITSound, ApplySound DEF MoveOffset
<1>3. CASE Reopen  BY <1>1, <1>3, OpenRigSound, ApplySound DEF Reopen
<1>4. CASE Key
  <2>. DEFINE a == SetRig(Gui, client.nominal)
              b == SetXIT(a)
              d == TransceiverPtt(b, TRUE)
  <2>1. Follows(Gui, a)  BY <1>1, SetRigSound
  <2>2. Follows(a, b)  BY <2>1, SetXITSound DEF Follows
  <2>3. Follows(b, d)  BY <2>2, PttAsked DEF Follows
  <2>4. Follows(Gui, d)  BY <2>1, <2>2, <2>3, FollowsAgain
  <2>5. client' \in ClientRecord  BY <1>1, <1>4 DEF Key, ClientRecord
  <2>6. Apply(d) /\ signals' = signals  BY <1>4 DEF Key
  <2>. QED BY <1>1, <2>4, <2>5, <2>6, ApplySound
<1>5. CASE StopTx
  <2>1. client' \in ClientRecord  BY <1>1, <1>5 DEF StopTx, ClientRecord
  <2>. QED BY <1>5, <2>1 DEF StopTx, IInv, Typed, NobodyKeyed
<1>6. CASE StopTx2
  <2>1. client' \in ClientRecord  BY <1>1, <1>6 DEF StopTx2, ClientRecord
  <2>. QED BY <1>1, <1>6, <2>1, PttAsked, ApplySound DEF StopTx2
<1>. QED BY <1>2, <1>3, <1>4, <1>5, <1>6

LEMMA DialStep ==
  ASSUME IInv, NEW f \in Freqs, Dial(f)
  PROVE  IInv'
<1>1. rig' \in RigRecord /\ ~rig'.keyed  BY DEF Dial, IInv, Typed, RigRecord
<1>. QED BY <1>1 DEF Dial, IInv, Typed, NobodyKeyed

LEMMA QsyStep ==
  ASSUME IInv, NEW f \in Freqs, Qsy(f)
  PROVE  IInv'
<1>1. /\ GuiSound(Gui) /\ client \in ClientRecord /\ signals \in Seq(Signal)
      /\ f \in Frequency
  BY GuiIsSound DEF IInv, Typed, Frequency
<1>2. client' \in ClientRecord  BY <1>1 DEF Qsy, ClientRecord
<1>. QED BY <1>1, <1>2, SetRigSound, ApplySound DEF Qsy

LEMMA NextStep == IInv /\ [Next]_vars => IInv'
<1>. SUFFICES ASSUME IInv, [Next]_vars PROVE IInv'  OBVIOUS
<1>1. CASE RunSlot  BY <1>1, RunSlotStep
<1>2. CASE HandleSignal  BY <1>2, HandleSignalStep
<1>3. CASE \E i \in DOMAIN objects : PollTimer(i)  BY <1>3, PollTimerStep
<1>4. CASE \E f \in Freqs : Dial(f) \/ Qsy(f)  BY <1>4, DialStep, QsyStep
<1>5. CASE MoveOffset \/ Reopen \/ Key \/ StopTx \/ StopTx2  BY <1>5, UserStep
<1>6. CASE UNCHANGED vars  BY <1>6 DEF vars, IInv, Typed, NobodyKeyed
<1>. QED BY <1>1, <1>2, <1>3, <1>4, <1>5, <1>6 DEF Next

\* The inductive invariant, for every step of the transceivers and of the window.
THEOREM InductiveInvariant == Spec => []IInv
  BY InitIInv, NextStep, PTL DEF Spec

\* Type correctness: the states, the numbers and the counters of the transceivers,
\* the cache of the user interface and the rig keep their types; no transceiver
\* answers a command that was not given yet, and no counter of polls falls below zero.
THEOREM TypeCorrect == Spec => []TypeOK
<1>1. IInv => TypeOK
  <2>. SUFFICES ASSUME IInv PROVE TypeOK  OBVIOUS
  <2>1. \A i \in DOMAIN objects : objects[i] \in ObjectRecord(command)
    BY DEF IInv, Typed
  <2>. QED BY <2>1 DEF IInv, Typed, TypeOK, ObjectRecord, RigRecord, ClientRecord
<1>. QED BY InductiveInvariant, <1>1, PTL

\* For any number of transceiver objects, commands, transmissions and refused CAT
\* commands, a keyed rig is online in some object, or it refused its own release.
THEOREM NobodyLeftKeyed == Spec => []NobodyKeyed
<1>1. IInv => NobodyKeyed  BY DEF IInv
<1>. QED BY InductiveInvariant, <1>1, PTL

(* What each command makes of an object.                                     *)
OnFreq(s, f) == [s EXCEPT !.freq = f]

LEMMA OnFreqIs ==
  ASSUME NEW s \in State, NEW f \in Frequency
  PROVE  /\ OnFreq(s, f) \in State /\ OnFreq(s, f).freq = f
         /\ OnFreq(s, f).online = s.online /\ OnFreq(s, f).ptt = s.ptt
         /\ OnFreq(s, s.freq) = s
  BY DEF OnFreq, State

PttMoved(o, on) ==
  LET x == [o EXCEPT !.actual.ptt = on, !.next.ptt = on]
  IN  IF o.next.ptt # on THEN Hold(x) ELSE x

FreqMoved(o, f) ==
  LET x == [o EXCEPT !.actual.freq = f, !.requested.freq = f, !.next.freq = f]
  IN  IF o.next.freq # f THEN Hold(x) ELSE x

StartedUp(o, f) ==
  LET x == [o EXCEPT !.actual.freq = f, !.requested.freq = f, !.timer = TRUE,
                     !.next.online = TRUE, !.actual.online = TRUE,
                     !.requested.online = TRUE]
  IN  IF o.next.online THEN x ELSE Hold(x)

OnPtt(s, b) == [s EXCEPT !.ptt = b]

LEMMA OnPttIs ==
  ASSUME NEW s \in State, NEW b \in BOOLEAN
  PROVE  /\ OnPtt(s, b) \in State /\ OnPtt(s, b).ptt = b
         /\ OnPtt(s, b).online = s.online /\ OnPtt(s, b).freq = s.freq
         /\ OnPtt(s, s.ptt) = s
  BY DEF OnPtt, State

LEMMA HoldIs ==
  ASSUME NEW k \in Nat, NEW o \in ObjectRecord(k)
  PROVE  LET p == Hold(o)
         IN  /\ p \in ObjectRecord(k) /\ p.retries = PollsToStabilize
             /\ p.requested = o.requested /\ p.actual = o.actual /\ p.next = o.next
             /\ p.last = o.last /\ p.seq = o.seq /\ p.asked = o.asked
             /\ p.timer = o.timer /\ p.signalled = o.signalled
  BY Constants DEF Hold, ObjectRecord

LEMMA PttMovedIs ==
  ASSUME NEW k \in Nat, NEW o \in ObjectRecord(k), NEW on \in BOOLEAN
  PROVE  LET p == PttMoved(o, on)
         IN  /\ p \in ObjectRecord(k)
             /\ p.requested = o.requested /\ p.last = o.last /\ p.seq = o.seq
             /\ p.asked = o.asked /\ p.timer = o.timer /\ p.signalled = o.signalled
             /\ p.actual = OnPtt(o.actual, on)
             /\ p.next = OnPtt(o.next, on)
             /\ p.retries = IF o.next.ptt # on THEN PollsToStabilize ELSE o.retries
<1>. DEFINE a == OnPtt(o.actual, on)
            n == OnPtt(o.next, on)
            x == [o EXCEPT !.actual = a, !.next = n]
<1>1. a \in State /\ n \in State
  <2>1. o.actual \in State /\ o.next \in State  BY OfObject
  <2>. QED BY <2>1, OnPttIs
<1>2. x = [o EXCEPT !.actual.ptt = on, !.next.ptt = on]  BY DEF ObjectRecord, OnPtt
<1>3. PttMoved(o, on) = IF o.next.ptt # on THEN Hold(x) ELSE x
  BY <1>2 DEF PttMoved
<1>. HIDE DEF a, n
<1>4. /\ x \in ObjectRecord(k) /\ x.actual = a /\ x.next = n
      /\ x.requested = o.requested /\ x.last = o.last /\ x.seq = o.seq
      /\ x.asked = o.asked /\ x.timer = o.timer /\ x.signalled = o.signalled
      /\ x.retries = o.retries
  BY <1>1 DEF ObjectRecord
<1>. HIDE DEF x
<1>5. CASE o.next.ptt # on  BY <1>3, <1>4, <1>5, HoldIs DEF a, n
<1>6. CASE o.next.ptt = on  BY <1>3, <1>4, <1>6 DEF a, n
<1>. QED BY <1>5, <1>6

LEMMA FreqMovedIs ==
  ASSUME NEW k \in Nat, NEW o \in ObjectRecord(k), NEW f \in Frequency
  PROVE  LET p == FreqMoved(o, f)
         IN  /\ p \in ObjectRecord(k)
             /\ p.last = o.last /\ p.seq = o.seq
             /\ p.asked = o.asked /\ p.timer = o.timer /\ p.signalled = o.signalled
             /\ p.actual = OnFreq(o.actual, f)
             /\ p.requested = OnFreq(o.requested, f)
             /\ p.next = OnFreq(o.next, f)
             /\ p.retries = IF o.next.freq # f THEN PollsToStabilize ELSE o.retries
<1>. DEFINE a == OnFreq(o.actual, f)
            w == OnFreq(o.requested, f)
            n == OnFreq(o.next, f)
            x == [o EXCEPT !.actual = a, !.requested = w, !.next = n]
<1>1. a \in State /\ n \in State /\ w \in State
  <2>1. o.actual \in State /\ o.next \in State /\ o.requested \in State  BY OfObject
  <2>. QED BY <2>1, OnFreqIs
<1>2. x = [o EXCEPT !.actual.freq = f, !.requested.freq = f, !.next.freq = f]
  BY DEF ObjectRecord, OnFreq
<1>3. FreqMoved(o, f) = IF o.next.freq # f THEN Hold(x) ELSE x
  BY <1>2 DEF FreqMoved
<1>. HIDE DEF a, n, w
<1>4. /\ x \in ObjectRecord(k) /\ x.actual = a /\ x.next = n
      /\ x.requested = w /\ x.last = o.last /\ x.seq = o.seq
      /\ x.asked = o.asked /\ x.timer = o.timer /\ x.signalled = o.signalled
      /\ x.retries = o.retries
  BY <1>1 DEF ObjectRecord
<1>. HIDE DEF x
<1>5. CASE o.next.freq # f  BY <1>3, <1>4, <1>5, HoldIs DEF a, n, w
<1>6. CASE o.next.freq = f  BY <1>3, <1>4, <1>6 DEF a, n, w
<1>. QED BY <1>5, <1>6

LEMMA StartedUpIs ==
  ASSUME NEW k \in Nat, NEW o \in ObjectRecord(k), NEW f \in Frequency
  PROVE  LET p == StartedUp(o, f)
         IN  /\ p \in ObjectRecord(k)
             /\ p.last = o.last /\ p.seq = o.seq
             /\ p.asked = o.asked /\ p.timer /\ p.signalled = o.signalled
             /\ p.actual.online /\ p.actual.ptt = o.actual.ptt
             /\ p.requested.online /\ p.requested.freq = f
             /\ p.requested.ptt = o.requested.ptt
             /\ p.retries = IF o.next.online THEN o.retries ELSE PollsToStabilize
<1>. DEFINE a == [[o.actual EXCEPT !.freq = f] EXCEPT !.online = TRUE]
            w == [[o.requested EXCEPT !.freq = f] EXCEPT !.online = TRUE]
            n == [o.next EXCEPT !.online = TRUE]
            x == [o EXCEPT !.actual = a, !.requested = w, !.timer = TRUE, !.next = n]
<1>0. o.actual \in State /\ o.next \in State /\ o.requested \in State  BY OfObject
<1>1. /\ a \in State /\ n \in State /\ w \in State
      /\ a.online /\ a.ptt = o.actual.ptt
      /\ w.online /\ w.freq = f /\ w.ptt = o.requested.ptt
  BY <1>0 DEF State
<1>2. x = [o EXCEPT !.actual.freq = f, !.requested.freq = f, !.timer = TRUE,
                     !.next.online = TRUE, !.actual.online = TRUE,
                     !.requested.online = TRUE]
  BY DEF ObjectRecord
<1>3. StartedUp(o, f) = IF o.next.online THEN x ELSE Hold(x)
  BY <1>2 DEF StartedUp
<1>. HIDE DEF a, n, w
<1>4. /\ x \in ObjectRecord(k) /\ x.actual = a /\ x.next = n
      /\ x.requested = w /\ x.last = o.last /\ x.seq = o.seq
      /\ x.asked = o.asked /\ x.timer /\ x.signalled = o.signalled
      /\ x.retries = o.retries
  BY <1>1 DEF ObjectRecord
<1>. HIDE DEF x
<1>5. CASE o.next.online  BY <1>1, <1>3, <1>4, <1>5
<1>6. CASE ~o.next.online  BY <1>1, <1>3, <1>4, <1>6, HoldIs
<1>. QED BY <1>5, <1>6

-----------------------------------------------------------------------------
(* The commands of a slot, in full.                                          *)
LEMMA CommandIs ==
  ASSUME NEW k \in Nat, NEW c \in ContextRecord(k), NEW r \in RigRecord, ~c.thrown
  PROVE  LET d == Command(c, r)
         IN  /\ d \in ContextRecord(k) /\ d.o = c.o /\ d.out = c.out
             /\ ~d.thrown => d.rig = r
             /\ d.rig = r \/ d.rig = c.rig
<1>. DEFINE next   == c.n + 1
            after  == IF c.took THEN r ELSE c.rig
            failed == [c EXCEPT !.n = next, !.thrown = TRUE, !.rig = after]
            done   == [c EXCEPT !.n = next, !.rig = r]
<1>1. Command(c, r) = failed \/ Command(c, r) = done
  BY DEF Command, ContextRecord
<1>2. failed.out = c.out /\ done.out = c.out
  <2>. HIDE DEF next, after
  <2>. QED BY DEF ContextRecord
<1>3. Command(c, r).out = c.out  BY <1>1, <1>2
<1>. QED BY <1>3, CommandSound

LEMMA PttIs ==
  ASSUME NEW k \in Nat, NEW c \in ContextRecord(k), NEW on \in BOOLEAN, ~c.thrown
  PROVE  LET p == DoPtt(c, on)
         IN  /\ p \in ContextRecord(k) /\ p.out = c.out
             /\ p.rig.freq = c.rig.freq /\ p.rig.dialled = c.rig.dialled
             /\ ~p.thrown => p.o = PttMoved(c.o, on) /\ p.rig.keyed = on /\ ~p.rig.refused
             /\ p.thrown => /\ p.o = c.o
                            /\ ~on => p.rig.refused
                            /\ on => \/ p.rig.keyed /\ ~p.rig.refused
                                     \/ p.rig.keyed = c.rig.keyed /\ p.rig.refused = c.rig.refused
<1>. DEFINE r == [c.rig EXCEPT !.keyed = on, !.refused = FALSE]
            d == Command(c, r)
            q == [d.rig EXCEPT !.refused = ~on \/ d.rig.refused]
<1>1. /\ r \in RigRecord /\ r.keyed = on /\ ~r.refused /\ r.freq = c.rig.freq
      /\ r.dialled = c.rig.dialled
  BY DEF ContextRecord, RigRecord
<1>2. DoPtt(c, on) = IF d.thrown THEN [d EXCEPT !.rig.refused = ~on \/ @]
                     ELSE [d EXCEPT !.o = PttMoved(d.o, on)]
  BY DEF DoPtt, PttMoved
<1>. HIDE DEF r
<1>3. /\ d \in ContextRecord(k) /\ d.o = c.o /\ d.out = c.out
      /\ ~d.thrown => d.rig = r
      /\ d.rig = r \/ d.rig = c.rig
  BY <1>1, CommandIs
<1>. HIDE DEF d
<1>4. d.rig \in RigRecord /\ d.o \in ObjectRecord(k) /\ d.out \in Seq(Signal)  BY <1>3, OfContext
<1>5. CASE d.thrown
  <2>1. [d EXCEPT !.rig.refused = ~on \/ @] = [d EXCEPT !.rig = q]
    BY <1>3 DEF ContextRecord
  <2>2. /\ q \in RigRecord /\ q.freq = d.rig.freq /\ q.dialled = d.rig.dialled
        /\ q.keyed = d.rig.keyed
        /\ ~on => q.refused
        /\ on => q.refused = d.rig.refused
    BY <1>4 DEF RigRecord
  <2>4. DoPtt(c, on) = [d EXCEPT !.rig = q]  BY <1>2, <1>5, <2>1
  <2>. HIDE DEF q
  <2>3. LET p == [d EXCEPT !.rig = q]
        IN  p \in ContextRecord(k) /\ p.o = d.o /\ p.rig = q /\ p.out = d.out /\ p.thrown = d.thrown
    BY <1>3, <2>2 DEF ContextRecord
  <2>. QED BY <1>1, <1>3, <1>5, <2>2, <2>3, <2>4
<1>6. CASE ~d.thrown
  <2>. DEFINE u == PttMoved(d.o, on)
  <2>1. u \in ObjectRecord(k)  BY <1>4, PttMovedIs
  <2>2. DoPtt(c, on) = [d EXCEPT !.o = u]  BY <1>2, <1>6
  <2>3. u = PttMoved(c.o, on)  BY <1>3
  <2>. HIDE DEF u
  <2>4. LET p == [d EXCEPT !.o = u]
        IN  p \in ContextRecord(k) /\ p.o = u /\ p.rig = d.rig /\ p.out = d.out /\ p.thrown = d.thrown
    BY <1>3, <2>1 DEF ContextRecord
  <2>. QED BY <1>1, <1>3, <1>6, <2>2, <2>3, <2>4
<1>. QED BY <1>5, <1>6

LEMMA FrequencyIs ==
  ASSUME NEW k \in Nat, NEW c \in ContextRecord(k), NEW f \in Freqs \cup {TxFreq}, ~c.thrown
  PROVE  LET p == DoFrequency(c, f)
         IN  /\ p \in ContextRecord(k) /\ p.out = c.out
             /\ p.rig.keyed = c.rig.keyed /\ p.rig.refused = c.rig.refused
             /\ p.rig.dialled = c.rig.dialled
             /\ p.rig.freq = f \/ p.rig.freq = c.rig.freq
             /\ ~p.thrown => p.o = FreqMoved(c.o, f) /\ p.rig.freq = f
             /\ p.thrown => p.o = c.o
<1>. DEFINE r == [c.rig EXCEPT !.freq = f]
            d == Command(c, r)
<1>1. /\ r \in RigRecord /\ r.keyed = c.rig.keyed /\ r.refused = c.rig.refused
      /\ r.freq = f /\ r.dialled = c.rig.dialled
  BY DEF ContextRecord, RigRecord
<1>2. DoFrequency(c, f) = IF d.thrown THEN d ELSE [d EXCEPT !.o = FreqMoved(d.o, f)]
  BY DEF DoFrequency, FreqMoved
<1>. HIDE DEF r
<1>3. /\ d \in ContextRecord(k) /\ d.o = c.o /\ d.out = c.out
      /\ ~d.thrown => d.rig = r
      /\ d.rig = r \/ d.rig = c.rig
  BY <1>1, CommandIs
<1>. HIDE DEF d
<1>4. d.rig \in RigRecord /\ d.o \in ObjectRecord(k) /\ d.out \in Seq(Signal)  BY <1>3, OfContext
<1>5. CASE d.thrown  BY <1>1, <1>2, <1>3, <1>5
<1>6. CASE ~d.thrown
  <2>. DEFINE u == FreqMoved(d.o, f)
  <2>1. u \in ObjectRecord(k)  BY <1>4, FreqMovedIs DEF Frequency
  <2>2. DoFrequency(c, f) = [d EXCEPT !.o = u]  BY <1>2, <1>6
  <2>3. u = FreqMoved(c.o, f)  BY <1>3
  <2>. HIDE DEF u
  <2>4. LET p == [d EXCEPT !.o = u]
        IN  p \in ContextRecord(k) /\ p.o = u /\ p.rig = d.rig /\ p.out = d.out /\ p.thrown = d.thrown
    BY <1>3, <2>1 DEF ContextRecord
  <2>. QED BY <1>1, <1>3, <1>6, <2>2, <2>3, <2>4
<1>. QED BY <1>5, <1>6

LEMMA StartupIs ==
  ASSUME NEW k \in Nat, NEW c \in ContextRecord(k), ~c.thrown
  PROVE  LET p == Startup(c)
         IN  /\ p \in ContextRecord(k) /\ p.out = c.out /\ p.rig = c.rig
             /\ ~p.thrown => p.o = StartedUp(c.o, c.rig.freq)
             /\ p.thrown => p.o = c.o
<1>. DEFINE d == Command(c, c.rig)
<1>1. c.rig \in RigRecord /\ c.rig.freq \in Frequency
  BY DEF ContextRecord, RigRecord, Frequency
<1>2. Startup(c) = IF d.thrown THEN d ELSE [d EXCEPT !.o = StartedUp(d.o, c.rig.freq)]
  BY DEF Startup, StartedUp
<1>3. /\ d \in ContextRecord(k) /\ d.o = c.o /\ d.out = c.out /\ d.rig = c.rig
  BY <1>1, CommandIs
<1>. HIDE DEF d
<1>4. d.o \in ObjectRecord(k)  BY <1>3, OfContext
<1>5. CASE d.thrown  BY <1>2, <1>3, <1>5
<1>6. CASE ~d.thrown
  <2>. DEFINE u == StartedUp(d.o, c.rig.freq)
  <2>1. u \in ObjectRecord(k)  BY <1>1, <1>4, StartedUpIs
  <2>2. Startup(c) = [d EXCEPT !.o = u]  BY <1>2, <1>6
  <2>3. u = StartedUp(c.o, c.rig.freq)  BY <1>3
  <2>. HIDE DEF u
  <2>4. LET p == [d EXCEPT !.o = u]
        IN  p \in ContextRecord(k) /\ p.o = u /\ p.rig = d.rig /\ p.out = d.out /\ p.thrown = d.thrown
    BY <1>3, <2>1 DEF ContextRecord
  <2>. QED BY <1>3, <1>6, <2>2, <2>3, <2>4
<1>. QED BY <1>5, <1>6

-----------------------------------------------------------------------------
(* What a context keeps.  Tuned: with split, the rig transmits on the        *)
(* transmit frequency.  Honest: what the object takes for PTT is PTT.        *)
(* Alone: nobody else keys the rig.  Tracked: what the object asked for last *)
(* is what the rig does, so it need not be asked again.                      *)
Tuned(r) == Split /\ r.keyed /\ ~r.refused /\ ~r.dialled => r.freq = TxFreq
Honest(o, r) == o.actual.ptt /\ ~r.refused => r.keyed
Alone(o, r) == r.keyed /\ ~r.refused => o.requested.online
Tracked(o, r) ==
  o.requested.online =>
    /\ o.actual.online
    /\ ~r.dialled => o.requested.freq = r.freq
    /\ r.keyed /\ ~r.refused => o.requested.ptt /\ o.actual.ptt

Fair(c) == Tuned(c.rig) /\ Honest(c.o, c.rig) /\ Alone(c.o, c.rig)

\* What an object expects and has signalled is what it has, once it waits no more.
Still(o) == o.retries = 0 => o.next = o.actual /\ o.signalled = o.actual
Steady(o) == Still(o) /\ (o.retries = 0 => o.last = o.actual)

Report(n, s) == [kind |-> "update", seq |-> n, state |-> s]
Failure == [kind |-> "failure"]
Failed(q) == \E j \in DOMAIN q : q[j].kind = "failure"

LEMMA RigIs ==
  ASSUME NEW k \in Nat, NEW c \in ContextRecord(k)
  PROVE  /\ c.rig.freq \in Freqs \cup {TxFreq} /\ c.rig.keyed \in BOOLEAN
         /\ c.rig.refused \in BOOLEAN /\ c.rig.dialled \in BOOLEAN
  BY DEF ContextRecord, RigRecord

LEMMA ReportType ==
  ASSUME NEW n \in Nat, NEW s \in State
  PROVE  Report(n, s) \in Signal
  BY DEF Report, Signal

LEMMA SeenIs ==
  ASSUME NEW k \in Nat, NEW o \in ObjectRecord(k), NEW s \in State
  PROVE  Seen(o, s).ptt = s.ptt /\ Seen(o, s).online = s.online
  BY DEF Seen, State

LEMMA Appended ==
  ASSUME NEW S, NEW q \in Seq(S), NEW m \in S
  PROVE  Append(q, m) \in Seq(S)
  OBVIOUS

LEMMA UpdateIs ==
  ASSUME NEW k \in Nat, NEW c \in ContextRecord(k), NEW force \in BOOLEAN
  PROVE  LET d == UpdateComplete(c, force)
             m == Report(c.o.seq, Seen(c.o, c.o.actual))
         IN  /\ d \in ContextRecord(k) /\ d.rig = c.rig /\ d.thrown = c.thrown
             /\ d.o.requested = c.o.requested /\ d.o.actual = c.o.actual
             /\ d.o.seq = c.o.seq /\ d.o.next = c.o.next /\ d.o.retries = c.o.retries
             /\ d.o.signalled = c.o.signalled /\ d.o.asked = c.o.asked
             /\ d.o.timer = c.o.timer
             /\ \/ d.out = Append(c.out, m) /\ d.o.last = c.o.actual
                \/ ~force /\ d = c
             /\ m \in Signal
<1>. DEFINE o  == c.o
            m  == Report(o.seq, Seen(o, o.actual))
            o2 == [o EXCEPT !.last = o.actual]
            q  == Append(c.out, m)
            d  == [c EXCEPT !.out = q, !.o = o2]
<1>1. /\ o \in ObjectRecord(k) /\ o.actual \in State /\ o.seq \in Nat
      /\ c.out \in Seq(Signal)
  BY DEF ContextRecord, ObjectRecord
<1>2. m \in Signal  BY <1>1, SeenType, ReportType
<1>3. UpdateComplete(c, force) = d \/ (~force /\ UpdateComplete(c, force) = c)
  <2>1. [c EXCEPT !.out = Append(@, m), !.o.last = o.actual] = d
    <3>. HIDE DEF m
    <3>. QED BY DEF ContextRecord, ObjectRecord
  <2>. QED BY <2>1 DEF UpdateComplete, Report
<1>. HIDE DEF m
<1>4. q \in Seq(Signal)  BY <1>1, <1>2
<1>5. /\ o2 \in ObjectRecord(k) /\ o2.last = o.actual
      /\ o2.requested = o.requested /\ o2.actual = o.actual
      /\ o2.seq = o.seq /\ o2.next = o.next /\ o2.retries = o.retries
      /\ o2.signalled = o.signalled /\ o2.asked = o.asked /\ o2.timer = o.timer
  BY <1>1 DEF ObjectRecord
<1>. HIDE DEF o2, q
<1>6. /\ d \in ContextRecord(k) /\ d.rig = c.rig /\ d.thrown = c.thrown
      /\ d.o = o2 /\ d.out = q
  BY <1>4, <1>5 DEF ContextRecord
<1>. HIDE DEF d
<1>7. CASE UpdateComplete(c, force) = d  BY <1>2, <1>5, <1>6, <1>7 DEF q, m
<1>8. CASE ~force /\ UpdateComplete(c, force) = c  BY <1>2, <1>8 DEF m
<1>. QED BY <1>3, <1>7, <1>8

\* After a shutdown the rig is not keyed, or has refused that; at most one update,
\* with the number of the last command, tells of it.
LEMMA ShutdownIs ==
  ASSUME NEW k \in Nat, NEW c \in ContextRecord(k), ~c.thrown, Fair(c)
  PROVE  LET d == Shutdown(c)
         IN  /\ d \in ContextRecord(k) /\ ~d.thrown /\ ~d.o.requested.online
             /\ d.rig.freq = c.rig.freq
             /\ d.rig.keyed => d.rig.refused
             /\ Fair(d) /\ d.o.seq = c.o.seq /\ d.o.asked = c.o.asked
             /\ ~c.o.requested.online => d.o.next = c.o.next
             /\ \/ d.out = c.out
                \/ \E s \in State : d.out = Append(c.out, Report(c.o.seq, s))
<1>. DEFINE p == DoPtt(c, FALSE)
            d == IF c.o.requested.online THEN [p EXCEPT !.thrown = FALSE] ELSE c
            a == [d.o.actual EXCEPT !.online = FALSE]
            w == [d.o.requested EXCEPT !.online = FALSE]
            o == [d.o EXCEPT !.timer = FALSE, !.actual = a, !.requested = w]
            x == [d EXCEPT !.o = o]
<1>1. /\ d \in ContextRecord(k) /\ ~d.thrown
      /\ d.rig.keyed => d.rig.refused
      /\ d.rig.freq = c.rig.freq /\ d.rig.dialled = c.rig.dialled
      /\ Honest(d.o, d.rig) /\ d.o.seq = c.o.seq /\ d.o.asked = c.o.asked
      /\ ~c.o.requested.online => d.o.next = c.o.next
      /\ d.out = c.out
  <2>1. CASE c.o.requested.online
    <3>1. /\ p \in ContextRecord(k) /\ p.out = c.out
          /\ p.rig.freq = c.rig.freq /\ p.rig.dialled = c.rig.dialled
          /\ ~p.thrown => p.o = PttMoved(c.o, FALSE) /\ ~p.rig.keyed /\ ~p.rig.refused
          /\ p.thrown => p.o = c.o /\ p.rig.refused
      BY PttIs, RigIs
    <3>. HIDE DEF p
    <3>2. LET t == [p EXCEPT !.thrown = FALSE]
          IN  /\ t \in ContextRecord(k) /\ t.rig = p.rig /\ t.o = p.o /\ t.out = p.out
              /\ ~t.thrown
      BY <3>1 DEF ContextRecord
    <3>3. c.o \in ObjectRecord(k)  BY OfContext
    <3>4. c.o.actual \in State  BY <3>3, OfObject
    <3>5. /\ p.o.seq = c.o.seq /\ p.o.asked = c.o.asked
          /\ p.thrown \/ ~p.o.actual.ptt
      <4>1. PttMoved(c.o, FALSE).seq = c.o.seq /\ PttMoved(c.o, FALSE).asked = c.o.asked
            /\ PttMoved(c.o, FALSE).actual = OnPtt(c.o.actual, FALSE)
        BY <3>3, PttMovedIs
      <4>2. ~OnPtt(c.o.actual, FALSE).ptt  BY <3>4, OnPttIs
      <4>. QED BY <3>1, <4>1, <4>2
    <3>6. Honest(p.o, p.rig)  BY <3>1, <3>5 DEF Honest
    <3>. QED BY <2>1, <3>1, <3>2, <3>5, <3>6
  <2>2. CASE ~c.o.requested.online  BY <2>2 DEF Fair, Alone
  <2>. QED BY <2>1, <2>2
<1>2. Shutdown(c) = UpdateComplete([d EXCEPT !.o.timer = FALSE, !.o.actual.online = FALSE,
                                             !.o.requested.online = FALSE], FALSE)
  BY DEF Shutdown
<1>. HIDE DEF d
<1>3. d.o \in ObjectRecord(k) /\ d.o.actual \in State /\ d.o.requested \in State
  <2>1. d.o \in ObjectRecord(k)  BY <1>1, OfContext
  <2>. QED BY <2>1, OfObject
<1>4. a \in State /\ w \in State /\ ~w.online /\ a.ptt = d.o.actual.ptt
  BY <1>3 DEF State
<1>5. x = [d EXCEPT !.o.timer = FALSE, !.o.actual.online = FALSE,
                    !.o.requested.online = FALSE]
  <2>1. o = [d.o EXCEPT !.timer = FALSE, !.actual.online = FALSE,
                        !.requested.online = FALSE]
    BY <1>3 DEF ObjectRecord
  <2>. QED BY <1>1, <1>3, <2>1 DEF ContextRecord, ObjectRecord
<1>. HIDE DEF a, w
<1>6. /\ o \in ObjectRecord(k) /\ o.requested = w /\ o.actual = a /\ o.seq = d.o.seq
      /\ o.asked = d.o.asked /\ o.next = d.o.next
  BY <1>3, <1>4 DEF ObjectRecord
<1>. HIDE DEF o
<1>7. /\ x \in ContextRecord(k) /\ x.rig = d.rig /\ x.o = o /\ x.out = d.out
      /\ x.thrown = d.thrown
  BY <1>1, <1>6 DEF ContextRecord
<1>8. Seen(o, a) \in State  BY <1>4, <1>6, SeenType
<1>. HIDE DEF x
<1>. DEFINE f == UpdateComplete(x, FALSE)
<1>9. /\ f \in ContextRecord(k) /\ f.rig = x.rig /\ f.thrown = x.thrown
      /\ f.o.requested = x.o.requested /\ f.o.actual = x.o.actual /\ f.o.seq = x.o.seq
      /\ f.o.next = x.o.next /\ f.o.asked = x.o.asked
      /\ \/ f.out = Append(x.out, Report(x.o.seq, Seen(x.o, x.o.actual)))
         \/ f = x
  BY <1>7, UpdateIs
<1>10. Shutdown(c) = f  BY <1>2, <1>5
<1>. HIDE DEF f
<1>11. Fair(f)
  BY <1>1, <1>4, <1>6, <1>7, <1>9 DEF Fair, Tuned, Honest, Alone
<1>12. f.out = c.out \/ \E s \in State : f.out = Append(c.out, Report(c.o.seq, s))
  BY <1>1, <1>6, <1>7, <1>8, <1>9
<1>. QED BY <1>1, <1>4, <1>6, <1>7, <1>9, <1>10, <1>11, <1>12

\* An exception is reported before the transceiver goes offline.
LEMMA OfflineIs ==
  ASSUME NEW k \in Nat, NEW c \in ContextRecord(k), Fair(c),
         NEW S, c.out \in Seq(S), Failure \in S, \A s \in State : Report(c.o.seq, s) \in S
  PROVE  LET d == Offline(c)
         IN  /\ d \in ContextRecord(k) /\ ~d.o.requested.online /\ Fair(d)
             /\ d.o.seq = c.o.seq /\ d.out \in Seq(S) /\ Failed(d.out)
<1>. DEFINE out == Append(c.out, Failure)
            d == [c EXCEPT !.thrown = FALSE, !.out = out]
            x == Shutdown(d)
<1>1. /\ out \in Seq(Signal) /\ out \in Seq(S)
      /\ Len(c.out) + 1 \in DOMAIN out /\ out[Len(c.out) + 1] = Failure
  <2>1. Failure \in Signal  BY DEF Signal, Failure
  <2>2. c.out \in Seq(Signal)  BY OfContext
  <2>3. Failure \in S  OBVIOUS
  <2>. QED BY <2>1, <2>2, <2>3
<1>2. Offline(c) = x
  <2>1. d = [c EXCEPT !.thrown = FALSE, !.out = Append(@, [kind |-> "failure"])]
    BY DEF ContextRecord, Failure
  <2>. QED BY <2>1 DEF Offline
<1>. HIDE DEF out
<1>3. /\ d \in ContextRecord(k) /\ d.o = c.o /\ d.rig = c.rig /\ ~d.thrown
      /\ d.out = out
  BY <1>1 DEF ContextRecord
<1>4. Fair(d)  BY <1>3 DEF Fair
<1>. HIDE DEF d
<1>5. /\ x \in ContextRecord(k) /\ ~x.o.requested.online /\ Fair(x) /\ x.o.seq = d.o.seq
      /\ x.out = d.out \/ \E s \in State : x.out = Append(d.out, Report(d.o.seq, s))
  BY <1>3, <1>4, ShutdownIs
<1>. HIDE DEF x
<1>6. CASE x.out = out
  <2>1. Failed(x.out)  BY <1>1, <1>6 DEF Failed, Failure
  <2>. QED BY <1>1, <1>2, <1>3, <1>5, <1>6, <2>1
<1>7. CASE x.out # out
  <2>1. PICK s \in State : x.out = Append(out, Report(c.o.seq, s))  BY <1>3, <1>5, <1>7
  <2>2. Report(c.o.seq, s) \in S  OBVIOUS
  <2>3. x.out \in Seq(S)  BY <1>1, <2>1, <2>2
  <2>. DEFINE j == Len(c.out) + 1
  <2>4. j \in DOMAIN x.out /\ x.out[j] = Failure
    <3>. HIDE DEF j
    <3>. QED BY <1>1, <2>1, <2>2 DEF j
  <2>5. Failed(x.out)  BY <2>4 DEF Failed, Failure
  <2>. QED BY <1>2, <1>3, <1>5, <2>3, <2>5
<1>. QED BY <1>6, <1>7

\* The end of start and set.
LEMMA FinishIs ==
  ASSUME NEW k \in Nat, NEW c \in ContextRecord(k), Fair(c), NEW n \in 0..k,
         ~c.thrown => Tracked(c.o, c.rig),
         NEW S, c.out \in Seq(S), Failure \in S, \A s \in State : Report(c.o.seq, s) \in S,
         ~c.thrown => Report(n, Seen(c.o, c.o.actual)) \in S
  PROVE  LET d == Finish(c, n)
         IN  /\ d \in ContextRecord(k) /\ Fair(d) /\ Tracked(d.o, d.rig)
             /\ d.out \in Seq(S)
             /\ c.thrown => Failed(d.out) /\ d.o.seq = c.o.seq
             /\ ~c.thrown => /\ d.o.requested = c.o.requested /\ d.o.seq = n
                             /\ d.rig = c.rig
                             /\ Still(c.o) => Steady(d.o)
                             /\ d.out = Append(c.out, Report(n, Seen(d.o, d.o.last)))
<1>. DEFINE o == [c.o EXCEPT !.seq = n]
            x == IF c.thrown THEN c ELSE [c EXCEPT !.o = o]
            d == UpdateComplete(x, TRUE)
<1>1. c.o \in ObjectRecord(k) /\ c.o.actual \in State  BY OfContext, OfObject
<1>2. /\ o \in ObjectRecord(k) /\ o.seq = n
      /\ o.requested = c.o.requested /\ o.actual = c.o.actual /\ o.next = c.o.next
      /\ o.signalled = c.o.signalled /\ o.retries = c.o.retries /\ o.asked = c.o.asked
  BY <1>1 DEF ObjectRecord
<1>3. Finish(c, n) = IF d.thrown THEN Offline(d) ELSE d
  <2>1. [c EXCEPT !.o = o] = [c EXCEPT !.o.seq = n]  BY DEF ContextRecord
  <2>. QED BY <2>1 DEF Finish
<1>. HIDE DEF o
<1>4. /\ x \in ContextRecord(k) /\ x.rig = c.rig /\ x.thrown = c.thrown /\ x.out = c.out
      /\ x.o = IF c.thrown THEN c.o ELSE o
  BY <1>2 DEF ContextRecord
<1>. HIDE DEF x
<1>5. /\ d \in ContextRecord(k) /\ d.rig = x.rig /\ d.thrown = x.thrown
      /\ d.o.requested = x.o.requested /\ d.o.actual = x.o.actual
      /\ d.o.seq = x.o.seq /\ d.o.next = x.o.next /\ d.o.retries = x.o.retries
      /\ d.o.signalled = x.o.signalled /\ d.o.asked = x.o.asked
      /\ d.o.last = x.o.actual
      /\ d.out = Append(x.out, Report(x.o.seq, Seen(x.o, x.o.actual)))
  BY <1>4, UpdateIs
<1>. HIDE DEF d
<1>6. Fair(d)  BY <1>2, <1>4, <1>5 DEF Fair, Tuned, Honest, Alone
<1>7. CASE c.thrown
  <2>1. d.o.seq = c.o.seq  BY <1>4, <1>5, <1>7
  <2>2. d.out \in Seq(S)
    <3>1. Seen(c.o, c.o.actual) \in State  BY <1>1, SeenType
    <3>2. Report(c.o.seq, Seen(c.o, c.o.actual)) \in S  BY <3>1
    <3>. QED BY <1>4, <1>5, <1>7, <3>2, Appended
  <2>3. Finish(c, n) = Offline(d)  BY <1>3, <1>4, <1>5, <1>7
  <2>4. \A s \in State : Report(d.o.seq, s) \in S  BY <2>1
  <2>5. LET y == Offline(d)
        IN  /\ y \in ContextRecord(k) /\ ~y.o.requested.online /\ Fair(y)
            /\ y.o.seq = d.o.seq /\ y.out \in Seq(S) /\ Failed(y.out)
    BY <1>5, <1>6, <2>2, <2>4, OfflineIs
  <2>. QED BY <1>7, <2>1, <2>3, <2>5 DEF Tracked
<1>8. CASE ~c.thrown
  <2>1. Finish(c, n) = d  BY <1>3, <1>4, <1>5, <1>8
  <2>2. Seen(o, o.actual) = Seen(c.o, c.o.actual)  BY <1>2 DEF Seen
  <2>3. Seen(d.o, d.o.last) = Seen(c.o, c.o.actual)  BY <1>2, <1>4, <1>5, <1>8 DEF Seen
  <2>4. d.out = Append(c.out, Report(n, Seen(c.o, c.o.actual)))
    BY <1>2, <1>4, <1>5, <1>8, <2>2
  <2>5. d.out \in Seq(S)  BY <1>8, <2>4, Appended
  <2>6. Tracked(d.o, d.rig)  BY <1>2, <1>4, <1>5, <1>8 DEF Tracked
  <2>7. Still(c.o) => Steady(d.o)  BY <1>2, <1>4, <1>5, <1>8 DEF Still, Steady
  <2>8. d.o.requested = c.o.requested /\ d.o.seq = n /\ d.rig = c.rig  BY <1>2, <1>4, <1>5, <1>8
  <2>. QED BY <1>5, <1>6, <1>8, <2>1, <2>3, <2>4, <2>5, <2>6, <2>7, <2>8
<1>. QED BY <1>7, <1>8

LEMMA StillPtt ==
  ASSUME NEW k \in Nat, NEW o \in ObjectRecord(k), NEW on \in BOOLEAN, Still(o)
  PROVE  Still(PttMoved(o, on))
<1>. DEFINE p == PttMoved(o, on)
<1>1. /\ p.signalled = o.signalled
      /\ p.actual = OnPtt(o.actual, on) /\ p.next = OnPtt(o.next, on)
      /\ p.retries = IF o.next.ptt # on THEN PollsToStabilize ELSE o.retries
  BY PttMovedIs
<1>2. o.actual \in State /\ o.next \in State  BY OfObject
<1>. HIDE DEF p
<1>3. p.retries = 0 => o.retries = 0 /\ o.next.ptt = on  BY <1>1, Constants
<1>4. p.retries = 0 => p.next = o.next /\ p.actual = o.actual
  <2>. SUFFICES ASSUME p.retries = 0 PROVE p.next = o.next /\ p.actual = o.actual  OBVIOUS
  <2>1. o.next = o.actual  BY <1>3 DEF Still
  <2>. QED BY <1>1, <1>2, <1>3, <2>1, OnPttIs
<1>. QED BY <1>1, <1>3, <1>4 DEF Still, p

LEMMA StillFreq ==
  ASSUME NEW k \in Nat, NEW o \in ObjectRecord(k), NEW f \in Frequency, Still(o)
  PROVE  Still(FreqMoved(o, f))
<1>. DEFINE p == FreqMoved(o, f)
<1>1. /\ p.signalled = o.signalled
      /\ p.actual = OnFreq(o.actual, f)
      /\ p.next = OnFreq(o.next, f)
      /\ p.retries = IF o.next.freq # f THEN PollsToStabilize ELSE o.retries
  BY FreqMovedIs
<1>2. o.actual \in State /\ o.next \in State  BY OfObject
<1>. HIDE DEF p
<1>3. p.retries = 0 => o.retries = 0 /\ o.next.freq = f  BY <1>1, Constants
<1>4. p.retries = 0 => p.next = o.next /\ p.actual = o.actual
  <2>. SUFFICES ASSUME p.retries = 0 PROVE p.next = o.next /\ p.actual = o.actual  OBVIOUS
  <2>1. o.next = o.actual  BY <1>3 DEF Still
  <2>. QED BY <1>1, <1>2, <1>3, <2>1, OnFreqIs
<1>. QED BY <1>1, <1>3, <1>4 DEF Still, p

\* An online object in the middle of a set: Tracked, but for the PTT it asked for.
Level(x) ==
  /\ x.o.requested.online /\ x.o.actual.online
  /\ ~x.rig.dialled => x.o.requested.freq = x.rig.freq
  /\ x.rig.keyed /\ ~x.rig.refused => x.o.actual.ptt

LEMMA PttLevel ==
  ASSUME NEW k \in Nat, NEW c \in ContextRecord(k), ~c.thrown, Fair(c), Level(c),
         NEW on \in BOOLEAN, on /\ Split /\ ~c.rig.dialled => c.rig.freq = TxFreq
  PROVE  LET p == DoPtt(c, on)
         IN  /\ p \in ContextRecord(k) /\ Fair(p) /\ p.out = c.out
             /\ p.o.requested = c.o.requested /\ p.o.seq = c.o.seq /\ p.o.asked = c.o.asked
             /\ ~p.thrown => /\ Level(p) /\ p.rig.freq = c.rig.freq
                             /\ p.rig.dialled = c.rig.dialled
                             /\ p.rig.keyed = on /\ (Still(c.o) => Still(p.o))
<1>. DEFINE p == DoPtt(c, on)
            u == PttMoved(c.o, on)
<1>1. /\ p \in ContextRecord(k) /\ p.out = c.out
      /\ p.rig.freq = c.rig.freq /\ p.rig.dialled = c.rig.dialled
      /\ ~p.thrown => p.o = u /\ p.rig.keyed = on /\ ~p.rig.refused
      /\ p.thrown => /\ p.o = c.o
                     /\ ~on => p.rig.refused
                     /\ on => \/ p.rig.keyed /\ ~p.rig.refused
                              \/ p.rig.keyed = c.rig.keyed /\ p.rig.refused = c.rig.refused
  BY PttIs
<1>2. c.o \in ObjectRecord(k)  BY OfContext
<1>3. /\ u.requested = c.o.requested /\ u.seq = c.o.seq /\ u.asked = c.o.asked
      /\ u.actual = OnPtt(c.o.actual, on)
  BY <1>2, PttMovedIs
<1>4. c.o.actual \in State  BY <1>2, OfObject
<1>5. u.actual.ptt = on /\ u.actual.online = c.o.actual.online
  <2>. HIDE DEF u
  <2>. QED BY <1>3, <1>4, OnPttIs
<1>6. Still(c.o) => Still(u)  BY <1>2, StillPtt
<1>. HIDE DEF p, u
<1>7. CASE p.thrown
  <2>1. Fair(p)  BY <1>1, <1>7 DEF Fair, Tuned, Honest, Alone, Level
  <2>. QED BY <1>1, <1>7, <2>1 DEF p
<1>8. CASE ~p.thrown
  <2>1. Fair(p)  BY <1>1, <1>3, <1>5, <1>8 DEF Fair, Tuned, Honest, Alone, Level
  <2>2. Level(p)  BY <1>1, <1>3, <1>5, <1>8 DEF Level
  <2>. QED BY <1>1, <1>3, <1>6, <1>8, <2>1, <2>2 DEF p
<1>. QED BY <1>7, <1>8

LEMMA FrequencyLevel ==
  ASSUME NEW k \in Nat, NEW c \in ContextRecord(k), ~c.thrown, Fair(c), Level(c),
         NEW f \in Freqs \cup {TxFreq},
         Split /\ c.rig.keyed /\ ~c.rig.refused => f = TxFreq
  PROVE  LET p == DoFrequency(c, f)
         IN  /\ p \in ContextRecord(k) /\ Fair(p) /\ p.out = c.out
             /\ p.o.seq = c.o.seq /\ p.o.asked = c.o.asked
             /\ ~p.thrown => /\ Level(p) /\ p.rig.freq = f /\ p.rig.dialled = c.rig.dialled
                             /\ Still(c.o) => Still(p.o)
<1>. DEFINE p == DoFrequency(c, f)
            u == FreqMoved(c.o, f)
<1>1. /\ p \in ContextRecord(k) /\ p.out = c.out
      /\ p.rig.keyed = c.rig.keyed /\ p.rig.refused = c.rig.refused
      /\ p.rig.dialled = c.rig.dialled
      /\ p.rig.freq = f \/ p.rig.freq = c.rig.freq
      /\ ~p.thrown => p.o = u /\ p.rig.freq = f
      /\ p.thrown => p.o = c.o
  BY FrequencyIs
<1>2. c.o \in ObjectRecord(k) /\ f \in Frequency  BY OfContext DEF Frequency
<1>3. /\ u.requested = OnFreq(c.o.requested, f) /\ u.seq = c.o.seq /\ u.asked = c.o.asked
      /\ u.actual = OnFreq(c.o.actual, f)
  BY <1>2, FreqMovedIs
<1>4. c.o.actual \in State /\ c.o.requested \in State  BY <1>2, OfObject
<1>5. /\ u.actual.ptt = c.o.actual.ptt /\ u.actual.online = c.o.actual.online
      /\ u.requested.freq = f /\ u.requested.online = c.o.requested.online
  <2>. HIDE DEF u
  <2>. QED BY <1>2, <1>3, <1>4, OnFreqIs
<1>6. Still(c.o) => Still(u)  BY <1>2, StillFreq
<1>. HIDE DEF p, u
<1>7. Fair(p)  BY <1>1, <1>3, <1>5 DEF Fair, Tuned, Honest, Alone, Level
<1>8. CASE p.thrown  BY <1>1, <1>7, <1>8 DEF p
<1>9. CASE ~p.thrown
  <2>1. Level(p)  BY <1>1, <1>5, <1>9 DEF Level
  <2>. QED BY <1>1, <1>3, <1>6, <1>7, <1>9, <2>1 DEF p
<1>. QED BY <1>8, <1>9

\* Going online takes over the frequency of the rig; the rig is not keyed then.
LEMMA OnlineIs ==
  ASSUME NEW k \in Nat, NEW c \in ContextRecord(k), ~c.thrown, Fair(c),
         NEW S, c.out \in Seq(S), \A s \in State : Report(c.o.seq, s) \in S
  PROVE  LET d == Startup(Shutdown(c))
         IN  /\ d \in ContextRecord(k) /\ Fair(d) /\ d.out \in Seq(S)
             /\ d.o.seq = c.o.seq /\ d.o.asked = c.o.asked
             /\ ~d.thrown => /\ Level(d) /\ Tracked(d.o, d.rig)
                             /\ ~c.o.requested.online /\ ~c.o.next.online => d.o.retries # 0
<1>. DEFINE y == Shutdown(c)
            d == Startup(y)
            u == StartedUp(y.o, y.rig.freq)
<1>1. /\ y \in ContextRecord(k) /\ ~y.thrown /\ ~y.o.requested.online
      /\ y.rig.keyed => y.rig.refused
      /\ Fair(y) /\ y.o.seq = c.o.seq /\ y.o.asked = c.o.asked
      /\ ~c.o.requested.online => y.o.next = c.o.next
      /\ y.out = c.out \/ \E s \in State : y.out = Append(c.out, Report(c.o.seq, s))
  BY ShutdownIs
<1>2. y.out \in Seq(S)
  <2>. HIDE DEF y
  <2>. QED BY <1>1, Appended
<1>. HIDE DEF y
<1>3. /\ d \in ContextRecord(k) /\ d.out = y.out /\ d.rig = y.rig
      /\ ~d.thrown => d.o = u
      /\ d.thrown => d.o = y.o
  BY <1>1, StartupIs
<1>4. y.o \in ObjectRecord(k) /\ y.rig.freq \in Frequency  BY <1>1, OfContext, RigIs DEF Frequency
<1>5. /\ u.seq = y.o.seq /\ u.asked = y.o.asked
      /\ u.actual.online /\ u.actual.ptt = y.o.actual.ptt
      /\ u.requested.online /\ u.requested.freq = y.rig.freq
      /\ u.retries = IF y.o.next.online THEN y.o.retries ELSE PollsToStabilize
  BY <1>4, StartedUpIs
<1>. HIDE DEF d, u
<1>6. CASE d.thrown
  <2>1. Fair(d)  BY <1>1, <1>3, <1>6 DEF Fair
  <2>. QED BY <1>1, <1>2, <1>3, <1>6, <2>1 DEF d, y
<1>7. CASE ~d.thrown
  <2>1. Fair(d)  BY <1>1, <1>3, <1>5, <1>7 DEF Fair, Honest, Alone
  <2>2. Level(d) /\ Tracked(d.o, d.rig)  BY <1>1, <1>3, <1>5, <1>7 DEF Level, Tracked
  <2>3. ~c.o.requested.online /\ ~c.o.next.online => d.o.retries # 0
    BY <1>1, <1>3, <1>5, <1>7, Constants
  <2>. QED BY <1>1, <1>2, <1>3, <1>5, <1>7, <2>1, <2>2, <2>3 DEF d, y
<1>. QED BY <1>6, <1>7

\* What the commands of set make of an object that asks for PTT on the transmit
\* frequency only.  An object that was online tells nothing of them yet.
LEMMA SetStateIs ==
  ASSUME NEW k \in Nat, NEW c \in ContextRecord(k), ~c.thrown, Fair(c),
         Tracked(c.o, c.rig), NEW s \in State, Split /\ s.ptt => s.freq = TxFreq,
         NEW S, c.out \in Seq(S), \A t \in State : Report(c.o.seq, t) \in S
  PROVE  LET d == SetState(c, s)
         IN  /\ d \in ContextRecord(k) /\ Fair(d) /\ d.out \in Seq(S)
             /\ d.o.seq = c.o.seq /\ d.o.asked = c.o.asked
             /\ ~d.thrown => /\ Tracked(d.o, d.rig) /\ d.o.requested.online
                             /\ c.o.requested.online /\ Still(c.o) => Still(d.o)
<1>. DEFINE up  == IF c.o.requested.online THEN c ELSE Startup(Shutdown(c))
            on  == s.ptt /\ ~up.o.requested.ptt
            off == ~s.ptt /\ up.o.requested.ptt
            a   == IF off THEN DoPtt(up, FALSE) ELSE up
            b   == IF s.freq # 0 /\ (s.freq # a.o.requested.freq \/ off)
                   THEN DoFrequency(a, s.freq) ELSE a
            d   == IF on THEN DoPtt(b, TRUE) ELSE b
            w   == [d.o.requested EXCEPT !.ptt = d.o.actual.ptt]
            o   == [d.o EXCEPT !.requested = w]
            x   == [d EXCEPT !.o = o]
            \* What every stage keeps.
            Kept(y) == /\ y \in ContextRecord(k) /\ Fair(y) /\ y.out \in Seq(S)
                       /\ y.o.seq = c.o.seq /\ y.o.asked = c.o.asked
                       /\ ~y.thrown => /\ Level(y)
                                       /\ c.o.requested.online /\ Still(c.o) => Still(y.o)
<1>0. SetState(c, s) = IF d.thrown THEN d
                       ELSE [d EXCEPT !.o.requested.ptt = d.o.actual.ptt]
  BY DEF SetState
<1>1. Kept(up) /\ (~up.thrown => Tracked(up.o, up.rig))
  <2>1. CASE c.o.requested.online
    <3>1. Level(c)  BY <2>1 DEF Level, Tracked
    <3>. QED BY <2>1, <3>1
  <2>2. CASE ~c.o.requested.online
    <3>. DEFINE z == Startup(Shutdown(c))
    <3>1. /\ z \in ContextRecord(k) /\ Fair(z) /\ z.out \in Seq(S)
          /\ z.o.seq = c.o.seq /\ z.o.asked = c.o.asked
          /\ ~z.thrown => Level(z) /\ Tracked(z.o, z.rig)
      BY OnlineIs
    <3>2. up = z  BY <2>2
    <3>. HIDE DEF z, up
    <3>. QED BY <2>2, <3>1, <3>2
  <2>. QED BY <2>1, <2>2
<1>. HIDE DEF up
<1>2. /\ Kept(a)
      /\ ~a.thrown /\ Split /\ a.rig.keyed /\ ~a.rig.refused => s.freq = TxFreq
  <2>1. CASE off /\ ~up.thrown
    <3>. DEFINE p == DoPtt(up, FALSE)
    <3>1. /\ p \in ContextRecord(k) /\ Fair(p) /\ p.out = up.out
          /\ p.o.seq = up.o.seq /\ p.o.asked = up.o.asked
          /\ ~p.thrown => Level(p) /\ p.rig.keyed = FALSE /\ (Still(up.o) => Still(p.o))
      BY <1>1, <2>1, PttLevel
    <3>2. a = p  BY <2>1
    <3>. HIDE DEF p, a
    <3>. QED BY <1>1, <2>1, <3>1, <3>2
  <2>2. CASE off /\ up.thrown
    <3>1. a = up  BY <1>1, <2>2 DEF DoPtt
    <3>. QED BY <1>1, <2>2, <3>1
  <2>3. CASE ~off
    <3>1. a = up  BY <2>3
    <3>. HIDE DEF a
    <3>2. Level(up) /\ Tracked(up.o, up.rig) /\ up.rig.keyed /\ ~up.rig.refused => s.ptt
      BY <2>3 DEF Tracked, Level
    <3>. QED BY <1>1, <3>1, <3>2
  <2>. QED BY <2>1, <2>2, <2>3
<1>. HIDE DEF a
<1>3. /\ Kept(b)
      /\ ~b.thrown /\ on /\ Split /\ ~b.rig.dialled => b.rig.freq = TxFreq
  <2>. DEFINE B == s.freq # 0 /\ (s.freq # a.o.requested.freq \/ off)
  <2>0. s.freq # 0 => s.freq \in Freqs \cup {TxFreq}  BY DEF State, Frequency
  <2>1. CASE B /\ ~a.thrown
    <3>. DEFINE p == DoFrequency(a, s.freq)
    <3>1. /\ p \in ContextRecord(k) /\ Fair(p) /\ p.out = a.out
          /\ p.o.seq = a.o.seq /\ p.o.asked = a.o.asked
          /\ ~p.thrown => /\ Level(p) /\ p.rig.freq = s.freq
                          /\ Still(a.o) => Still(p.o)
      BY <1>2, <2>0, <2>1, FrequencyLevel
    <3>2. b = p  BY <2>1
    <3>. HIDE DEF p, b, off
    <3>3. on => s.ptt  OBVIOUS
    <3>. HIDE DEF on
    <3>. QED BY <1>2, <2>1, <3>1, <3>2, <3>3
  <2>2. CASE B /\ a.thrown
    <3>1. b = a
      <4>1. DoFrequency(a, s.freq) = a  BY <1>2, <2>0, <2>2, FrequencySound
      <4>. QED BY <2>2, <4>1
    <3>. HIDE DEF b
    <3>. QED BY <1>2, <2>2, <3>1
  <2>3. CASE ~B
    <3>1. b = a  BY <2>3
    <3>2. on /\ Split => s.freq = TxFreq /\ s.freq # 0  BY Constants
    <3>3. on /\ Split => s.freq = a.o.requested.freq  BY <2>3, <3>2
    <3>. HIDE DEF b, on
    <3>4. ~a.thrown /\ on /\ Split /\ ~a.rig.dialled => a.rig.freq = TxFreq
      BY <1>2, <3>2, <3>3 DEF Level
    <3>. QED BY <1>2, <3>1, <3>4
  <2>. QED BY <2>1, <2>2, <2>3
<1>. HIDE DEF b, off
<1>4. Kept(d)
  <2>1. CASE on /\ ~b.thrown
    <3>. DEFINE p == DoPtt(b, TRUE)
    <3>1. /\ p \in ContextRecord(k) /\ Fair(p) /\ p.out = b.out
          /\ p.o.seq = b.o.seq /\ p.o.asked = b.o.asked
          /\ ~p.thrown => Level(p) /\ (Still(b.o) => Still(p.o))
      BY <1>3, <2>1, PttLevel
    <3>2. d = p  BY <2>1
    <3>. HIDE DEF p, d, on
    <3>. QED BY <1>3, <2>1, <3>1, <3>2
  <2>2. CASE on /\ b.thrown
    <3>1. d = b  BY <1>3, <2>2 DEF DoPtt
    <3>. QED BY <1>3, <2>2, <3>1
  <2>3. CASE ~on
    <3>1. d = b  BY <2>3
    <3>. QED BY <1>3, <3>1
  <2>. QED BY <2>1, <2>2, <2>3
<1>. HIDE DEF d, on
<1>5. /\ d.o \in ObjectRecord(k) /\ d.o.requested \in State /\ d.o.actual.ptt \in BOOLEAN
  <2>1. d.o \in ObjectRecord(k)  BY <1>4, OfContext
  <2>2. d.o.requested \in State /\ d.o.actual \in State  BY <2>1, OfObject
  <2>. QED BY <2>1, <2>2 DEF State
<1>6. /\ w \in State /\ w.online = d.o.requested.online /\ w.freq = d.o.requested.freq
      /\ w.ptt = d.o.actual.ptt
  BY <1>5 DEF State
<1>7. x = [d EXCEPT !.o.requested.ptt = d.o.actual.ptt]
  BY <1>4, <1>5 DEF ContextRecord, ObjectRecord
<1>. HIDE DEF w
<1>8. /\ o \in ObjectRecord(k) /\ o.requested = w /\ o.actual = d.o.actual
      /\ o.seq = d.o.seq /\ o.asked = d.o.asked /\ o.next = d.o.next
      /\ o.signalled = d.o.signalled /\ o.retries = d.o.retries
  BY <1>5, <1>6 DEF ObjectRecord
<1>. HIDE DEF o
<1>9. x \in ContextRecord(k) /\ x.o = o /\ x.rig = d.rig /\ x.out = d.out /\ x.thrown = d.thrown
  BY <1>4, <1>8 DEF ContextRecord
<1>. HIDE DEF x
<1>10. CASE d.thrown  BY <1>0, <1>4, <1>10
<1>11. CASE ~d.thrown
  <2>1. SetState(c, s) = x  BY <1>0, <1>7, <1>11
  <2>2. Fair(x)  BY <1>4, <1>6, <1>8, <1>9 DEF Fair, Honest, Alone
  <2>3. Tracked(x.o, x.rig) /\ x.o.requested.online
    BY <1>4, <1>6, <1>8, <1>9, <1>11 DEF Level, Tracked
  <2>4. c.o.requested.online /\ Still(c.o) => Still(x.o)
    BY <1>4, <1>8, <1>9, <1>11 DEF Still
  <2>. QED BY <1>4, <1>8, <1>9, <1>11, <2>1, <2>2, <2>3, <2>4
<1>. QED BY <1>10, <1>11

\* What a start or a set numbered n may tell: its own update, of a PTT there is, and
\* others under the number of the command before.
Told(c, n, d) ==
  {m \in Signal : m.kind = "update" =>
     \/ m.seq = c.o.seq
     \/ m.seq = n /\ (m.state.ptt => d.rig.keyed \/ d.rig.refused)}

LastTold(d, n) == d.out # <<>> /\ d.out[Len(d.out)] = Report(n, Seen(d.o, d.o.last))

\* The end of a start or a set that did not fail.
Done(d, n) == d.o.requested.online /\ d.o.seq = n /\ Steady(d.o) /\ LastTold(d, n)

LEMMA FinishTold ==
  ASSUME NEW k \in Nat, NEW c \in ContextRecord(k), Fair(c), NEW n \in 0..k,
         NEW b, c.o.seq = b.o.seq,
         ~c.thrown => Tracked(c.o, c.rig) /\ c.o.requested.online,
         c.out \in Seq({m \in Signal : m.kind = "update" => m.seq = c.o.seq})
  PROVE  LET d == Finish(c, n)
         IN  /\ d \in ContextRecord(k) /\ Fair(d) /\ Tracked(d.o, d.rig)
             /\ d.o.seq = b.o.seq \/ d.o.seq = n
             /\ d.out \in Seq(Told(b, n, d))
             /\ Failed(d.out) \/ (Still(c.o) => Done(d, n))
<1>. DEFINE T == {m \in Signal : m.kind = "update" => m.seq = c.o.seq}
            r == Report(n, Seen(c.o, c.o.actual))
            S == IF c.thrown THEN T ELSE T \cup {r}
            d == Finish(c, n)
<1>1. c.o \in ObjectRecord(k) /\ c.o.actual \in State /\ c.o.seq \in Nat /\ n \in Nat
  <2>1. c.o \in ObjectRecord(k)  BY OfContext
  <2>2. c.o.actual \in State /\ c.o.seq \in 0..k  BY <2>1, OfObject
  <2>. QED BY <2>1, <2>2
<1>2. /\ Failure \in T
      /\ \A s \in State : Report(c.o.seq, s) \in T
  <2>1. Failure \in T  BY DEF Failure, Signal
  <2>2. ASSUME NEW s \in State PROVE Report(c.o.seq, s) \in T
    BY <1>1, ReportType DEF Report
  <2>. QED BY <2>1, <2>2
<1>3. c.out \in Seq(S)
  <2>1. c.out \in Seq(T) /\ T \subseteq S  OBVIOUS
  <2>. HIDE DEF T, S
  <2>. QED BY <2>1, Wider
<1>4. /\ r \in Signal /\ r.seq = n /\ r.kind = "update"
      /\ r.state.ptt = c.o.actual.ptt
  <2>1. Seen(c.o, c.o.actual) \in State  BY <1>1, SeenType
  <2>2. Seen(c.o, c.o.actual).ptt = c.o.actual.ptt  BY <1>1, SeenIs
  <2>. QED BY <1>1, <2>1, <2>2, ReportType DEF Report
<1>5. Failure \in S /\ (\A s \in State : Report(c.o.seq, s) \in S) /\ (~c.thrown => r \in S)
  <2>. HIDE DEF T, r
  <2>. QED BY <1>2
<1>6. /\ d \in ContextRecord(k) /\ Fair(d) /\ Tracked(d.o, d.rig)
      /\ d.out \in Seq(S)
      /\ c.thrown => Failed(d.out) /\ d.o.seq = c.o.seq
      /\ ~c.thrown => /\ d.o.requested = c.o.requested /\ d.o.seq = n
                      /\ d.rig = c.rig
                      /\ Still(c.o) => Steady(d.o)
                      /\ d.out = Append(c.out, Report(n, Seen(d.o, d.o.last)))
  <2>. HIDE DEF S
  <2>. QED BY <1>3, <1>5, FinishIs
<1>. HIDE DEF d
<1>7. S \subseteq Told(b, n, d)
  <2>1. T \subseteq Told(b, n, d)  BY DEF Told
  <2>2. CASE c.thrown  BY <2>1, <2>2
  <2>3. CASE ~c.thrown
    <3>1. c.o.actual.ptt => d.rig.keyed \/ d.rig.refused
      BY <1>6, <2>3 DEF Fair, Honest
    <3>2. r \in Told(b, n, d)
      <4>. HIDE DEF r
      <4>. QED BY <1>4, <3>1 DEF Told
    <3>. HIDE DEF T, r
    <3>. QED BY <2>1, <3>2
  <2>. QED BY <2>2, <2>3
<1>8. d.out \in Seq(Told(b, n, d))
  <2>. HIDE DEF S
  <2>. QED BY <1>6, <1>7, Wider
<1>9. ~c.thrown /\ Still(c.o) => Done(d, n)
  <2>. SUFFICES ASSUME ~c.thrown, Still(c.o) PROVE Done(d, n)  OBVIOUS
  <2>1. c.out \in Seq(Signal)  BY OfContext
  <2>2. LastTold(d, n)
    <3>. DEFINE m == Report(n, Seen(d.o, d.o.last))
    <3>1. d.out = Append(c.out, m)  BY <1>6
    <3>. HIDE DEF m
    <3>. QED BY <2>1, <3>1 DEF LastTold, m
  <2>. QED BY <1>6, <2>2 DEF Done
<1>. QED BY <1>6, <1>8, <1>9 DEF d

LEMMA Silent ==
  ASSUME NEW c, c.out = <<>>, NEW S
  PROVE  c.out \in Seq(S)
  OBVIOUS

LEMMA UpdateNumbers ==
  ASSUME NEW n \in Nat
  PROVE  \A s \in State : Report(n, s) \in {m \in Signal : m.kind = "update" => m.seq = n}
  BY ReportType DEF Report

LEMMA StartIs ==
  ASSUME NEW k \in Nat, NEW c \in ContextRecord(k), ~c.thrown, Fair(c), c.out = <<>>,
         NEW n \in 0..k
  PROVE  LET d == Start(c, n)
         IN  /\ d \in ContextRecord(k) /\ Fair(d) /\ Tracked(d.o, d.rig)
             /\ d.o.seq = c.o.seq \/ d.o.seq = n
             /\ d.out \in Seq(Told(c, n, d))
             /\ Failed(d.out) \/ (c.o = NewObject => Done(d, n))
<1>. DEFINE x == Startup(Shutdown(c))
            T == {m \in Signal : m.kind = "update" => m.seq = c.o.seq}
<1>1. c.o.seq \in Nat
  <2>1. c.o \in ObjectRecord(k)  BY OfContext
  <2>2. c.o.seq \in 0..k  BY <2>1, OfObject
  <2>. QED BY <2>2
<1>2. c.out \in Seq(T) /\ \A s \in State : Report(c.o.seq, s) \in T
  <2>1. \A s \in State : Report(c.o.seq, s) \in T  BY <1>1, UpdateNumbers
  <2>. HIDE DEF T
  <2>. QED BY <2>1, Silent
<1>3. /\ x \in ContextRecord(k) /\ Fair(x) /\ x.out \in Seq(T)
      /\ x.o.seq = c.o.seq
      /\ ~x.thrown => /\ Level(x) /\ Tracked(x.o, x.rig)
                      /\ ~c.o.requested.online /\ ~c.o.next.online => x.o.retries # 0
  <2>. HIDE DEF T
  <2>. QED BY <1>2, OnlineIs
<1>4. Start(c, n) = Finish(x, n)  BY DEF Start
<1>. HIDE DEF x
<1>5. c.o = NewObject => ~c.o.requested.online /\ ~c.o.next.online
  BY DEF NewObject, NoState
<1>6. ~x.thrown /\ c.o = NewObject => Still(x.o)  BY <1>3, <1>5 DEF Still
<1>7. ~x.thrown => Tracked(x.o, x.rig) /\ x.o.requested.online  BY <1>3 DEF Level
<1>8. x.out \in Seq({m \in Signal : m.kind = "update" => m.seq = x.o.seq})  BY <1>3
<1>9. LET d == Finish(x, n)
      IN  /\ d \in ContextRecord(k) /\ Fair(d) /\ Tracked(d.o, d.rig)
          /\ d.o.seq = c.o.seq \/ d.o.seq = n
          /\ d.out \in Seq(Told(c, n, d))
          /\ Failed(d.out) \/ (Still(x.o) => Done(d, n))
  BY <1>3, <1>7, <1>8, FinishTold
<1>10. CASE x.thrown
  <2>1. Failed(Finish(x, n).out)
    <3>. DEFINE X == {m \in Signal : m.kind = "update" => m.seq = x.o.seq}
    <3>1. Failure \in X /\ \A s \in State : Report(x.o.seq, s) \in X
      BY <1>1, <1>3, UpdateNumbers DEF Failure, Signal
    <3>2. x.out \in Seq(X)  BY <1>8
    <3>. HIDE DEF X
    <3>. QED BY <1>3, <1>10, <3>1, <3>2, FinishIs
  <2>. QED BY <1>4, <1>9, <2>1
<1>11. CASE ~x.thrown  BY <1>4, <1>6, <1>9, <1>11
<1>. QED BY <1>10, <1>11

LEMMA SetIs ==
  ASSUME NEW k \in Nat, NEW c \in ContextRecord(k), ~c.thrown, Fair(c), c.out = <<>>,
         Tracked(c.o, c.rig), NEW n \in 0..k,
         NEW s \in State, Split /\ s.ptt => s.split /\ s.tx = TxFreq
  PROVE  LET d == Set(c, s, n)
         IN  /\ d \in ContextRecord(k) /\ Fair(d) /\ Tracked(d.o, d.rig)
             /\ d.o.seq = c.o.seq \/ d.o.seq = n
             /\ d.out \in Seq(Told(c, n, d))
             /\ Failed(d.out) \/ (c.o.requested.online /\ Steady(c.o) => Done(d, n))
<1>. DEFINE o == [c.o EXCEPT !.asked = s]
            y == [c EXCEPT !.o = o]
            t == Emulated(s)
            x == SetState(y, t)
            T == {m \in Signal : m.kind = "update" => m.seq = c.o.seq}
<1>1. t \in State /\ (Split /\ t.ptt => t.freq = TxFreq)
  BY Constants DEF Emulated, State, Frequency
<1>2. /\ o \in ObjectRecord(k) /\ o.requested = c.o.requested /\ o.actual = c.o.actual
      /\ o.seq = c.o.seq /\ o.next = c.o.next /\ o.signalled = c.o.signalled
      /\ o.retries = c.o.retries
  <2>1. c.o \in ObjectRecord(k)  BY OfContext
  <2>. QED BY <2>1 DEF ObjectRecord
<1>3. Set(c, s, n) = Finish(x, n)
  <2>1. y = [c EXCEPT !.o.asked = s]  BY DEF ContextRecord
  <2>. QED BY <2>1 DEF Set
<1>. HIDE DEF o, t
<1>4. /\ y \in ContextRecord(k) /\ y.o = o /\ y.rig = c.rig /\ y.out = c.out
      /\ y.thrown = c.thrown
  BY <1>2 DEF ContextRecord
<1>. HIDE DEF y
<1>5. Fair(y) /\ Tracked(y.o, y.rig)
  BY <1>2, <1>4 DEF Fair, Honest, Alone, Tracked
<1>6. y.out \in Seq(T) /\ \A st \in State : Report(y.o.seq, st) \in T
  <2>1. c.o \in ObjectRecord(k)  BY OfContext
  <2>2. c.o.seq \in 0..k  BY <2>1, OfObject
  <2>3. \A st \in State : Report(c.o.seq, st) \in T  BY <2>2, UpdateNumbers
  <2>. HIDE DEF T
  <2>. QED BY <1>2, <1>4, <2>3, Silent
<1>7. /\ x \in ContextRecord(k) /\ Fair(x) /\ x.out \in Seq(T)
      /\ x.o.seq = y.o.seq
      /\ ~x.thrown => /\ Tracked(x.o, x.rig) /\ x.o.requested.online
                      /\ y.o.requested.online /\ Still(y.o) => Still(x.o)
  <2>. HIDE DEF T
  <2>. QED BY <1>1, <1>4, <1>5, <1>6, SetStateIs
<1>. HIDE DEF x
<1>8. x.o.seq = c.o.seq  BY <1>2, <1>4, <1>7
<1>9. x.out \in Seq({m \in Signal : m.kind = "update" => m.seq = x.o.seq})  BY <1>7, <1>8
<1>10. LET d == Finish(x, n)
      IN  /\ d \in ContextRecord(k) /\ Fair(d) /\ Tracked(d.o, d.rig)
          /\ d.o.seq = c.o.seq \/ d.o.seq = n
          /\ d.out \in Seq(Told(c, n, d))
          /\ Failed(d.out) \/ (Still(x.o) => Done(d, n))
  BY <1>7, <1>8, <1>9, FinishTold
<1>11. CASE x.thrown
  <2>1. Failed(Finish(x, n).out)
    <3>. DEFINE X == {m \in Signal : m.kind = "update" => m.seq = x.o.seq}
    <3>0. x.o.seq \in Nat
      <4>1. x.o \in ObjectRecord(k)  BY <1>7, OfContext
      <4>2. x.o.seq \in 0..k  BY <4>1, OfObject
      <4>. QED BY <4>2
    <3>1. Failure \in X /\ \A st \in State : Report(x.o.seq, st) \in X
      BY <3>0, UpdateNumbers DEF Failure, Signal
    <3>2. x.out \in Seq(X)  BY <1>9
    <3>. HIDE DEF X
    <3>. QED BY <1>7, <1>11, <3>1, <3>2, FinishIs
  <2>. QED BY <1>3, <1>10, <2>1
<1>12. CASE ~x.thrown
  <2>1. c.o.requested.online /\ Steady(c.o) => Still(x.o)
    BY <1>2, <1>4, <1>7, <1>12 DEF Steady, Still
  <2>. QED BY <1>3, <1>10, <2>1
<1>. QED BY <1>11, <1>12

LEMMA StopIs ==
  ASSUME NEW k \in Nat, NEW c \in ContextRecord(k), ~c.thrown, Fair(c)
  PROVE  LET d == Stop(c)
         IN  /\ d \in ContextRecord(k) /\ d.o = NewObject /\ Tuned(d.rig)
             /\ d.rig.keyed => d.rig.refused
<1>. DEFINE d == Shutdown(c)
            x == [d EXCEPT !.o = NewObject]
<1>1. /\ d \in ContextRecord(k) /\ Fair(d)
      /\ d.rig.keyed => d.rig.refused
  BY ShutdownIs
<1>2. Stop(c) = x  BY DEF Stop
<1>. HIDE DEF d
<1>3. x \in ContextRecord(k) /\ x.o = NewObject /\ x.rig = d.rig
  BY <1>1, NewObjectType, WithObject
<1>. HIDE DEF x
<1>. QED BY <1>1, <1>2, <1>3 DEF Fair

\* What a poll may tell: an update of a PTT there is, or of an object that is offline.
ToldByPoll(c, d) ==
  {m \in Signal : m.kind = "update" =>
     /\ m.seq = c.o.seq
     /\ m.state.ptt => d.rig.keyed \/ ~d.o.requested.online}

\* A poll.
LEMMA TimeoutIs ==
  ASSUME NEW k \in Nat, NEW c \in ContextRecord(k), ~c.thrown, Fair(c), c.out = <<>>,
         Tracked(c.o, c.rig)
  PROVE  LET d == Timeout(c)
         IN  /\ d \in ContextRecord(k) /\ Fair(d) /\ Tracked(d.o, d.rig)
             /\ d.o.seq = c.o.seq
             /\ d.rig = c.rig \/ ~d.o.requested.online
             /\ d.o.requested.online => c.o.requested.online
             /\ d.out \in Seq(ToldByPoll(c, d))
             /\ \/ Failed(d.out)
                \/ /\ d.o.requested.online = c.o.requested.online
                   /\ Steady(c.o) => Steady(d.o)
                   /\ \/ d.out = <<>> /\ Seen(d.o, d.o.last) = Seen(c.o, c.o.last)
                      \/ LastTold(d, c.o.seq)
<1>. DEFINE d == Command(c, c.rig)
            f == c.rig.freq
            a == OnPtt(OnFreq(d.o.actual, f), c.rig.keyed)
            w == OnFreq(d.o.requested, f)
            p == [d.o EXCEPT !.actual.freq = f, !.requested.freq = f,
                             !.actual.ptt = c.rig.keyed]
            now == IF p.retries > 0
                   THEN p.actual = p.next \/ p.retries = 1
                   ELSE p.actual # p.signalled
            r == IF p.retries > 0 THEN p.retries - 1 ELSE 0
            q == [p EXCEPT !.retries = 0, !.next = p.actual, !.signalled = p.actual]
            v == [p EXCEPT !.retries = IF @ > 0 THEN @ - 1 ELSE 0]
            o == IF now THEN q ELSE v
            x == [d EXCEPT !.o = o]
<1>1. c.rig \in RigRecord /\ f \in Frequency /\ c.rig.keyed \in BOOLEAN
  BY DEF ContextRecord, RigRecord, Frequency
<1>2. d \in ContextRecord(k) /\ d.o = c.o /\ d.rig = c.rig /\ d.out = c.out
  BY <1>1, CommandIs
<1>3. /\ d.o \in ObjectRecord(k) /\ d.o.actual \in State /\ d.o.requested \in State
      /\ d.o.seq \in Nat
  <2>1. d.o \in ObjectRecord(k)  BY <1>2, OfContext
  <2>. HIDE DEF d
  <2>. QED BY <2>1, OfObject
<1>6. Timeout(c) = IF d.thrown THEN Offline(d)
                   ELSE IF now THEN UpdateComplete(x, TRUE) ELSE x
  BY DEF Timeout
<1>. HIDE DEF d, f
<1>4. /\ a \in State /\ a.ptt = c.rig.keyed /\ a.online = d.o.actual.online
      /\ w \in State /\ w.freq = f /\ w.online = d.o.requested.online
      /\ w.ptt = d.o.requested.ptt
  <2>1. /\ OnFreq(d.o.actual, f) \in State
        /\ OnFreq(d.o.actual, f).online = d.o.actual.online
    BY <1>1, <1>3, OnFreqIs
  <2>2. /\ w \in State /\ w.freq = f /\ w.online = d.o.requested.online
        /\ w.ptt = d.o.requested.ptt
    BY <1>1, <1>3, OnFreqIs
  <2>3. a \in State /\ a.ptt = c.rig.keyed /\ a.online = OnFreq(d.o.actual, f).online
    BY <1>1, <2>1, OnPttIs
  <2>. QED BY <2>1, <2>2, <2>3
<1>5. p = [d.o EXCEPT !.actual = a, !.requested = w]
  BY <1>3 DEF ObjectRecord, OnPtt, OnFreq
<1>. HIDE DEF a, w
<1>7. /\ p \in ObjectRecord(k) /\ p.requested = w /\ p.actual = a /\ p.seq = d.o.seq
      /\ p.asked = d.o.asked /\ p.next = d.o.next /\ p.signalled = d.o.signalled
      /\ p.retries = d.o.retries /\ p.last = d.o.last
  BY <1>3, <1>4, <1>5 DEF ObjectRecord
<1>. HIDE DEF p
<1>8. p.retries \in 0..PollsToStabilize  BY <1>7, OfObject
<1>9. r \in 0..PollsToStabilize  BY <1>8, Constants
<1>10. /\ q \in ObjectRecord(k) /\ q.requested = w /\ q.actual = a /\ q.seq = d.o.seq
       /\ q.asked = d.o.asked /\ q.next = a /\ q.signalled = a
  <2>. DEFINE s == p.actual
  <2>1. s \in State /\ 0 \in 0..PollsToStabilize /\ s = a  BY <1>4, <1>7, Constants
  <2>. HIDE DEF s
  <2>2. q = [p EXCEPT !.retries = 0, !.next = s, !.signalled = s]  BY DEF s
  <2>. QED BY <1>7, <2>1, <2>2 DEF ObjectRecord
<1>11. /\ v \in ObjectRecord(k) /\ v.requested = w /\ v.actual = a /\ v.seq = d.o.seq
       /\ v.asked = d.o.asked /\ v.next = d.o.next /\ v.signalled = d.o.signalled
       /\ v.last = d.o.last /\ v.retries = r
  <2>1. v = [p EXCEPT !.retries = r]  BY <1>7 DEF ObjectRecord
  <2>. HIDE DEF r, v
  <2>. QED BY <1>7, <1>9, <2>1 DEF ObjectRecord
<1>. HIDE DEF q, v
<1>12. /\ o \in ObjectRecord(k) /\ o.requested = w /\ o.actual = a /\ o.seq = d.o.seq
       /\ o.asked = d.o.asked
       /\ now => o.next = a /\ o.signalled = a
       /\ ~now => o = v
  <2>. HIDE DEF now
  <2>. QED BY <1>10, <1>11
<1>13. ~now /\ Steady(c.o) => Steady(o)
  <2>. SUFFICES ASSUME ~now, Steady(c.o), o.retries = 0
       PROVE  o.next = a /\ o.signalled = a /\ o.last = a
    BY <1>12 DEF Steady, Still
  <2>1. o = v  BY <1>12
  <2>2. d.o.retries = 0 /\ a = d.o.signalled  BY <1>7, <1>8, <1>11, <2>1
  <2>. QED BY <1>2, <1>11, <2>1, <2>2 DEF Steady, Still
<1>. HIDE DEF o, now
<1>14. x \in ContextRecord(k) /\ x.o = o /\ x.rig = c.rig /\ x.out = d.out /\ x.thrown = d.thrown
  BY <1>2, <1>12 DEF ContextRecord
<1>. HIDE DEF x
<1>15. Fair(x) /\ Tracked(x.o, x.rig)
  BY <1>2, <1>4, <1>12, <1>14 DEF Fair, Honest, Alone, Tracked, f
<1>16. CASE d.thrown
  <2>. DEFINE y == Offline(d)
              T == {m \in Signal : m.kind = "update" => m.seq = d.o.seq}
  <2>1. Fair(d)  BY <1>2 DEF Fair
  <2>2. Failure \in T /\ \A s \in State : Report(d.o.seq, s) \in T
    BY <1>3, UpdateNumbers DEF Failure, Signal
  <2>3. d.out \in Seq(T)
    <3>. HIDE DEF T
    <3>. QED BY <1>2, Silent
  <2>4. /\ y \in ContextRecord(k) /\ ~y.o.requested.online /\ Fair(y)
        /\ y.o.seq = d.o.seq /\ y.out \in Seq(T) /\ Failed(y.out)
    <3>. HIDE DEF T
    <3>. QED BY <1>2, <2>1, <2>2, <2>3, OfflineIs
  <2>. HIDE DEF y
  <2>5. T \subseteq ToldByPoll(c, y)  BY <1>2, <2>4 DEF ToldByPoll
  <2>6. y.out \in Seq(ToldByPoll(c, y))
    <3>. HIDE DEF T
    <3>. QED BY <2>4, <2>5, Wider
  <2>7. Timeout(c) = y  BY <1>6, <1>16 DEF y
  <2>. QED BY <1>2, <2>4, <2>6, <2>7 DEF Tracked
<1>17. CASE ~d.thrown /\ now
  <2>. DEFINE u == UpdateComplete(x, TRUE)
              m == Report(x.o.seq, Seen(x.o, x.o.actual))
  <2>1. /\ u \in ContextRecord(k) /\ u.rig = x.rig
        /\ u.o.requested = x.o.requested /\ u.o.actual = x.o.actual
        /\ u.o.seq = x.o.seq /\ u.o.next = x.o.next /\ u.o.retries = x.o.retries
        /\ u.o.signalled = x.o.signalled /\ u.o.asked = x.o.asked
        /\ u.o.last = x.o.actual /\ u.out = Append(x.out, m)
        /\ m \in Signal
    BY <1>14, UpdateIs
  <2>. HIDE DEF u
  <2>2. m.kind = "update" /\ m.seq = c.o.seq /\ m.state.ptt = c.rig.keyed
    <3>1. Seen(o, a).ptt = a.ptt  BY <1>4, <1>12, SeenIs
    <3>. QED BY <1>2, <1>4, <1>12, <1>14, <3>1 DEF Report
  <2>3. m = Report(c.o.seq, Seen(u.o, u.o.last))
    BY <1>2, <1>12, <1>14, <2>1 DEF Seen
  <2>. HIDE DEF m
  <2>4. m \in ToldByPoll(c, u)  BY <1>14, <2>1, <2>2 DEF ToldByPoll
  <2>5. u.out = <<m>>  BY <1>2, <1>14, <2>1
  <2>6. u.out \in Seq(ToldByPoll(c, u))
    <3>. DEFINE S == ToldByPoll(c, u)
    <3>1. m \in S  BY <2>4
    <3>. HIDE DEF S
    <3>2. <<m>> \in Seq(S)  BY <3>1
    <3>. QED BY <2>5, <3>2 DEF S
  <2>7. LastTold(u, c.o.seq)  BY <2>3, <2>5 DEF LastTold
  <2>8. Fair(u) /\ Tracked(u.o, u.rig)  BY <1>15, <2>1 DEF Fair, Honest, Alone, Tracked
  <2>9. Steady(u.o)  BY <1>12, <1>14, <1>17, <2>1 DEF Steady, Still
  <2>10. Timeout(c) = u  BY <1>6, <1>17 DEF u
  <2>. QED BY <1>2, <1>4, <1>12, <1>14, <2>1, <2>6, <2>7, <2>8, <2>9, <2>10
<1>18. CASE ~d.thrown /\ ~now
  <2>1. Timeout(c) = x  BY <1>6, <1>18
  <2>2. x.out \in Seq(ToldByPoll(c, x))  BY <1>2, <1>14, Silent
  <2>3. Seen(x.o, x.o.last) = Seen(c.o, c.o.last)
    BY <1>2, <1>11, <1>12, <1>14, <1>18 DEF Seen
  <2>4. Steady(c.o) => Steady(x.o)  BY <1>13, <1>14, <1>18
  <2>. QED BY <1>2, <1>4, <1>12, <1>14, <1>15, <2>1, <2>2, <2>3, <2>4
<1>. QED BY <1>16, <1>17, <1>18

-----------------------------------------------------------------------------
(* The order of the queue of calls cs, for objects os, the newest of them    *)
(* connected if a, after k commands.                                         *)
Numbered(m) == m.slot # "stop"

StopWaits(cs, i, q) ==
  \E r \in DOMAIN cs : q <= r /\ cs[r].to = i /\ cs[r].slot = "stop"

\* Older objects are called before newer ones, ...
ByObject(cs) == \A p, q \in DOMAIN cs : p < q => cs[p].to <= cs[q].to

\* ... with increasing numbers, none of which an object has seen ...
ByNumber(cs, os) ==
  /\ \A p, q \in DOMAIN cs :
       p < q /\ Numbered(cs[p]) /\ Numbered(cs[q]) => cs[p].seq < cs[q].seq
  /\ \A q \in DOMAIN cs : Numbered(cs[q]) =>
       0 < cs[q].seq /\ \A i \in DOMAIN os : os[i].seq < cs[q].seq

\* ... and the last of which is that of the last command to a connected object.
Latest(cs, os, a, k) ==
  a /\ cs # <<>> =>
    cs[Len(cs)].to = Len(os) /\ Numbered(cs[Len(cs)]) /\ cs[Len(cs)].seq = k

\* Who is not connected any more will be stopped, after all its other calls.
Closed(cs, os, a) ==
  /\ \A q \in DOMAIN cs : (a /\ cs[q].to = Len(os)) \/ StopWaits(cs, cs[q].to, q)
  /\ \A i \in DOMAIN os : os[i] # NewObject => (a /\ i = Len(os)) \/ StopWaits(cs, i, 1)
  /\ a => \A q \in DOMAIN cs : cs[q].to = Len(os) => Numbered(cs[q])

\* Who is in use is the only one, and is called next.
Reached(cs, os) ==
  \A i \in DOMAIN os : os[i] # NewObject => \A q \in DOMAIN cs : i <= cs[q].to

\* A start is the first call of an object.
Started(cs, os) ==
  \A q \in DOMAIN cs : cs[q].slot = "start" =>
    /\ os[cs[q].to] = NewObject
    /\ \A p \in DOMAIN cs : p < q => cs[p].to # cs[q].to

\* With split, PTT is asked for with the transmit frequency.
OnTxFreq(cs) ==
  \A q \in DOMAIN cs : cs[q].slot = "set" /\ cs[q].state.ptt /\ Split =>
    cs[q].state.split /\ cs[q].state.tx = TxFreq

Queued(cs, os, a, k) ==
  /\ ByObject(cs) /\ ByNumber(cs, os) /\ Latest(cs, os, a, k) /\ Closed(cs, os, a)
  /\ Reached(cs, os) /\ Started(cs, os) /\ OnTxFreq(cs)

Typing(cs, os, k) ==
  /\ k \in Nat /\ os \in Seq(ObjectRecord(k)) /\ cs \in Seq(Call(Len(os), k))

LEMMA CallIs ==
  ASSUME NEW cs, NEW os, NEW k, Typing(cs, os, k)
  PROVE  /\ Len(cs) \in Nat /\ DOMAIN cs = 1..Len(cs)
         /\ Len(os) \in Nat /\ DOMAIN os = 1..Len(os)
         /\ \A q \in DOMAIN cs :
              /\ cs[q] \in Call(Len(os), k)
              /\ cs[q].to \in 1..Len(os) /\ (Numbered(cs[q]) => cs[q].seq \in 0..k)
              /\ cs[q].slot \in {"start", "set", "stop"}
         /\ \A i \in DOMAIN os : os[i] \in ObjectRecord(k) /\ os[i].seq \in 0..k
<1>1. /\ Len(cs) \in Nat /\ DOMAIN cs = 1..Len(cs)
      /\ Len(os) \in Nat /\ DOMAIN os = 1..Len(os)
      /\ \A q \in DOMAIN cs : cs[q] \in Call(Len(os), k)
      /\ \A i \in DOMAIN os : os[i] \in ObjectRecord(k)
  BY DEF Typing
<1>2. \A m \in Call(Len(os), k) :
        /\ m.to \in 1..Len(os) /\ (Numbered(m) => m.seq \in 0..k)
        /\ m.slot \in {"start", "set", "stop"}
  BY DEF Call, Numbered
<1>3. \A o \in ObjectRecord(k) : o.seq \in 0..k  BY DEF ObjectRecord
<1>. QED BY <1>1, <1>2, <1>3

\* A connected object gets one more command.
LEMMA SetQueued ==
  ASSUME NEW cs, NEW os, NEW k, Typing(cs, os, k), Queued(cs, os, TRUE, k), Len(os) # 0,
         NEW m, m.to = Len(os), m.slot = "set", m.seq = k + 1,
         m.state.ptt /\ Split => m.state.split /\ m.state.tx = TxFreq
  PROVE  Queued(Append(cs, m), os, TRUE, k + 1)
<1>. DEFINE t == Append(cs, m)
            n == Len(cs) + 1
<1>1. /\ Len(cs) \in Nat /\ DOMAIN cs = 1..Len(cs)
      /\ Len(os) \in Nat /\ DOMAIN os = 1..Len(os)
      /\ \A q \in DOMAIN cs :
           cs[q].to \in 1..Len(os) /\ (Numbered(cs[q]) => cs[q].seq \in 0..k)
      /\ \A i \in DOMAIN os : os[i].seq \in 0..k
      /\ k \in Nat
  BY CallIs DEF Typing
<1>2. /\ DOMAIN t = 1..n /\ Len(t) = n /\ t # <<>> /\ t[n] = m
      /\ \A q \in DOMAIN cs : q \in DOMAIN t /\ q < n /\ t[q] = cs[q]
      /\ \A q \in DOMAIN t : q = n \/ q \in DOMAIN cs
  <2>1. cs \in Seq(Call(Len(os), k))  BY DEF Typing
  <2>2. PICK S : cs \in Seq(S) /\ m \in S
    <3>1. cs \in Seq(Call(Len(os), k) \cup {m})  BY <2>1, Wider
    <3>. QED BY <3>1
  <2>. QED BY <2>2
<1>3. Numbered(m)  BY DEF Numbered
<1>. HIDE DEF t, n
<1>4. ByObject(t)  BY <1>1, <1>2 DEF Queued, ByObject
<1>5. ByNumber(t, os)
  <2>1. ASSUME NEW p \in DOMAIN t, NEW q \in DOMAIN t, p < q, Numbered(t[p]), Numbered(t[q])
        PROVE  t[p].seq < t[q].seq
    BY <1>1, <1>2, <2>1 DEF Queued, ByNumber, n
  <2>2. ASSUME NEW q \in DOMAIN t, Numbered(t[q])
        PROVE  0 < t[q].seq /\ \A i \in DOMAIN os : os[i].seq < t[q].seq
    BY <1>1, <1>2, <2>2 DEF Queued, ByNumber
  <2>. QED BY <2>1, <2>2 DEF ByNumber
<1>6. Latest(t, os, TRUE, k + 1)  BY <1>2, <1>3 DEF Latest
<1>7. Closed(t, os, TRUE)
  <2>1. ASSUME NEW i \in Nat, NEW q \in Nat, StopWaits(cs, i, q)  PROVE StopWaits(t, i, q)
    BY <1>2, <2>1 DEF StopWaits
  <2>2. ASSUME NEW q \in DOMAIN t PROVE t[q].to = Len(os) \/ StopWaits(t, t[q].to, q)
    BY <1>1, <1>2, <2>1 DEF Queued, Closed
  <2>3. ASSUME NEW i \in DOMAIN os, os[i] # NewObject PROVE i = Len(os) \/ StopWaits(t, i, 1)
    BY <1>1, <2>1, <2>3 DEF Queued, Closed
  <2>4. \A q \in DOMAIN t : t[q].to = Len(os) => Numbered(t[q])
    BY <1>2, <1>3 DEF Queued, Closed
  <2>. QED BY <2>2, <2>3, <2>4 DEF Closed
<1>8. Reached(t, os)  BY <1>1, <1>2 DEF Queued, Reached
<1>9. Started(t, os)
  <2>. SUFFICES ASSUME NEW q \in DOMAIN t, t[q].slot = "start"
       PROVE  os[t[q].to] = NewObject /\ \A p \in DOMAIN t : p < q => t[p].to # t[q].to
    BY DEF Started
  <2>1. q \in DOMAIN cs  BY <1>2
  <2>2. \A p \in DOMAIN t : p < q => p \in DOMAIN cs  BY <1>1, <1>2, <2>1
  <2>. QED BY <1>2, <2>1, <2>2 DEF Queued, Started
<1>10. OnTxFreq(t)  BY <1>2 DEF Queued, OnTxFreq
<1>. QED BY <1>4, <1>5, <1>6, <1>7, <1>8, <1>9, <1>10 DEF Queued, t

\* The newest object is closed.
LEMMA StopQueued ==
  ASSUME NEW cs, NEW os, NEW k, Typing(cs, os, k), Queued(cs, os, TRUE, k), Len(os) # 0,
         NEW m, m.to = Len(os), m.slot = "stop"
  PROVE  Queued(Append(cs, m), os, FALSE, k)
<1>. DEFINE t == Append(cs, m)
            n == Len(cs) + 1
<1>1. /\ Len(cs) \in Nat /\ DOMAIN cs = 1..Len(cs)
      /\ Len(os) \in Nat /\ DOMAIN os = 1..Len(os)
      /\ \A q \in DOMAIN cs : cs[q].to \in 1..Len(os)
  BY CallIs
<1>2. /\ DOMAIN t = 1..n /\ Len(t) = n /\ t # <<>> /\ t[n] = m
      /\ \A q \in DOMAIN cs : q \in DOMAIN t /\ q < n /\ t[q] = cs[q]
      /\ \A q \in DOMAIN t : q = n \/ q \in DOMAIN cs
  <2>1. cs \in Seq(Call(Len(os), k))  BY DEF Typing
  <2>2. PICK S : cs \in Seq(S) /\ m \in S
    <3>1. cs \in Seq(Call(Len(os), k) \cup {m})  BY <2>1, Wider
    <3>. QED BY <3>1
  <2>. QED BY <2>2
<1>3. ~Numbered(m)  BY DEF Numbered
<1>. HIDE DEF t, n
<1>4. ByObject(t)  BY <1>1, <1>2 DEF Queued, ByObject
<1>5. ByNumber(t, os)
  <2>1. \A q \in DOMAIN t : Numbered(t[q]) => q \in DOMAIN cs /\ t[q] = cs[q]
    BY <1>2, <1>3
  <2>. QED BY <2>1 DEF Queued, ByNumber
<1>6. Latest(t, os, FALSE, k)  BY DEF Latest
<1>7. Closed(t, os, FALSE)
  <2>0. n \in DOMAIN t /\ \A q \in DOMAIN t : q <= n  BY <1>1, <1>2 DEF n
  <2>1. \A q \in DOMAIN t : StopWaits(t, Len(os), q)  BY <1>2, <2>0 DEF StopWaits
  <2>2. \A i \in Nat, q \in Nat : StopWaits(cs, i, q) => StopWaits(t, i, q)
    BY <1>2 DEF StopWaits
  <2>3. ASSUME NEW q \in DOMAIN t PROVE StopWaits(t, t[q].to, q)
    <3>1. CASE t[q].to = Len(os)  BY <2>1, <3>1
    <3>2. CASE t[q].to # Len(os)
      <4>1. q \in DOMAIN cs /\ t[q] = cs[q] /\ q \in Nat /\ t[q].to \in Nat
        BY <1>1, <1>2, <3>2
      <4>. QED BY <2>2, <3>2, <4>1 DEF Queued, Closed
    <3>. QED BY <3>1, <3>2
  <2>4. ASSUME NEW i \in DOMAIN os, os[i] # NewObject PROVE StopWaits(t, i, 1)
    <3>1. CASE i = Len(os)
      <4>1. 1 \in DOMAIN t  BY <1>1, <1>2 DEF n
      <4>. QED BY <2>1, <3>1, <4>1
    <3>2. CASE i # Len(os)  BY <1>1, <2>2, <2>4, <3>2 DEF Queued, Closed
    <3>. QED BY <3>1, <3>2
  <2>. QED BY <2>3, <2>4 DEF Closed
<1>8. Reached(t, os)  BY <1>1, <1>2 DEF Queued, Reached
<1>9. Started(t, os)
  <2>. SUFFICES ASSUME NEW q \in DOMAIN t, t[q].slot = "start"
       PROVE  os[t[q].to] = NewObject /\ \A p \in DOMAIN t : p < q => t[p].to # t[q].to
    BY DEF Started
  <2>1. q \in DOMAIN cs  BY <1>2
  <2>2. \A p \in DOMAIN t : p < q => p \in DOMAIN cs  BY <1>1, <1>2, <2>1
  <2>. QED BY <1>2, <2>1, <2>2 DEF Queued, Started
<1>10. OnTxFreq(t)  BY <1>2 DEF Queued, OnTxFreq
<1>. QED BY <1>4, <1>5, <1>6, <1>7, <1>8, <1>9, <1>10 DEF Queued, t

\* A new object is opened while none is connected.
LEMMA StartQueued ==
  ASSUME NEW cs, NEW os, NEW k, Typing(cs, os, k), Queued(cs, os, FALSE, k),
         NEW m, m.to = Len(os) + 1, m.slot = "start", m.seq = k + 1
  PROVE  Queued(Append(cs, m), Append(os, NewObject), TRUE, k + 1)
<1>. DEFINE t == Append(cs, m)
            n == Len(cs) + 1
            u == Append(os, NewObject)
<1>1. /\ Len(cs) \in Nat /\ DOMAIN cs = 1..Len(cs)
      /\ Len(os) \in Nat /\ DOMAIN os = 1..Len(os)
      /\ \A q \in DOMAIN cs :
           cs[q].to \in 1..Len(os) /\ (Numbered(cs[q]) => cs[q].seq \in 0..k)
      /\ \A i \in DOMAIN os : os[i].seq \in 0..k
      /\ k \in Nat
  BY CallIs DEF Typing
<1>2. /\ DOMAIN t = 1..n /\ Len(t) = n /\ t # <<>> /\ t[n] = m
      /\ \A q \in DOMAIN cs : q \in DOMAIN t /\ q < n /\ t[q] = cs[q]
      /\ \A q \in DOMAIN t : q = n \/ q \in DOMAIN cs
  <2>1. cs \in Seq(Call(Len(os), k))  BY DEF Typing
  <2>2. PICK S : cs \in Seq(S) /\ m \in S
    <3>1. cs \in Seq(Call(Len(os), k) \cup {m})  BY <2>1, Wider
    <3>. QED BY <3>1
  <2>. QED BY <2>2
<1>3. /\ DOMAIN u = 1..(Len(os) + 1) /\ Len(u) = Len(os) + 1 /\ u[Len(os) + 1] = NewObject
      /\ \A i \in DOMAIN os : i \in DOMAIN u /\ u[i] = os[i]
      /\ \A i \in DOMAIN u : i = Len(os) + 1 \/ i \in DOMAIN os
  <2>1. os \in Seq(ObjectRecord(k)) /\ NewObject \in ObjectRecord(k)
    BY <1>1, NewObjectType DEF Typing
  <2>. QED BY <2>1
<1>4. Numbered(m) /\ NewObject.seq = 0  BY DEF Numbered, NewObject
<1>. HIDE DEF t, n, u
<1>5. ByObject(t)  BY <1>1, <1>2 DEF Queued, ByObject
<1>6. ByNumber(t, u)
  <2>1. ASSUME NEW p \in DOMAIN t, NEW q \in DOMAIN t, p < q, Numbered(t[p]), Numbered(t[q])
        PROVE  t[p].seq < t[q].seq
    BY <1>1, <1>2, <2>1 DEF Queued, ByNumber, n
  <2>2. ASSUME NEW q \in DOMAIN t, Numbered(t[q])
        PROVE  0 < t[q].seq /\ \A i \in DOMAIN u : u[i].seq < t[q].seq
    <3>1. 0 < t[q].seq /\ \A i \in DOMAIN os : os[i].seq < t[q].seq
      BY <1>1, <1>2, <2>2 DEF Queued, ByNumber
    <3>. QED BY <1>3, <1>4, <3>1
  <2>. QED BY <2>1, <2>2 DEF ByNumber
<1>7. Latest(t, u, TRUE, k + 1)  BY <1>2, <1>3, <1>4 DEF Latest
<1>8. Closed(t, u, TRUE)
  <2>1. \A i \in Nat, q \in Nat : StopWaits(cs, i, q) => StopWaits(t, i, q)
    BY <1>2 DEF StopWaits
  <2>2. ASSUME NEW q \in DOMAIN t PROVE t[q].to = Len(u) \/ StopWaits(t, t[q].to, q)
    BY <1>1, <1>2, <1>3, <2>1 DEF Queued, Closed
  <2>3. ASSUME NEW i \in DOMAIN u, u[i] # NewObject PROVE i = Len(u) \/ StopWaits(t, i, 1)
    BY <1>1, <1>3, <2>1, <2>3 DEF Queued, Closed
  <2>4. \A q \in DOMAIN t : t[q].to = Len(u) => Numbered(t[q])
    BY <1>1, <1>2, <1>3, <1>4
  <2>. QED BY <2>2, <2>3, <2>4 DEF Closed
<1>9. Reached(t, u)  BY <1>1, <1>2, <1>3 DEF Queued, Reached
<1>10. Started(t, u)
  <2>. SUFFICES ASSUME NEW q \in DOMAIN t, t[q].slot = "start"
       PROVE  u[t[q].to] = NewObject /\ \A p \in DOMAIN t : p < q => t[p].to # t[q].to
    BY DEF Started
  <2>1. CASE q \in DOMAIN cs
    <3>1. \A p \in DOMAIN t : p < q => p \in DOMAIN cs  BY <1>1, <1>2, <2>1
    <3>2. os[cs[q].to] = NewObject /\ \A p \in DOMAIN cs : p < q => cs[p].to # cs[q].to
      BY <1>2, <2>1 DEF Queued, Started
    <3>. QED BY <1>1, <1>2, <1>3, <2>1, <3>1, <3>2
  <2>2. CASE q = n
    <3>1. \A p \in DOMAIN t : p < q => p \in DOMAIN cs  BY <1>1, <1>2, <2>2 DEF n
    <3>. QED BY <1>1, <1>2, <1>3, <2>2, <3>1
  <2>. QED BY <1>2, <2>1, <2>2
<1>11. OnTxFreq(t)  BY <1>2 DEF Queued, OnTxFreq
<1>. QED BY <1>5, <1>6, <1>7, <1>8, <1>9, <1>10, <1>11 DEF Queued, t, u

-----------------------------------------------------------------------------
\* At most one object is in use ...
LEMMA OneInUse ==
  ASSUME NEW cs, NEW os, NEW k, Typing(cs, os, k), NEW a, Queued(cs, os, a, k),
         NEW i \in DOMAIN os, NEW j \in DOMAIN os, os[i] # NewObject, os[j] # NewObject
  PROVE  i = j
<1>1. /\ Len(os) \in Nat /\ DOMAIN os = 1..Len(os)  BY CallIs
<1>2. ASSUME NEW x \in DOMAIN os, NEW y \in DOMAIN os, os[x] # NewObject, os[y] # NewObject,
             x < y
      PROVE  FALSE
  <2>1. StopWaits(cs, x, 1)  BY <1>1, <1>2 DEF Queued, Closed
  <2>2. PICK r \in DOMAIN cs : cs[r].to = x  BY <2>1 DEF StopWaits
  <2>3. y <= x  BY <1>2, <2>2 DEF Queued, Reached
  <2>. QED BY <1>1, <1>2, <2>3
<1>. QED BY <1>1, <1>2

\* ... and it is the one that is called next.
LEMMA NextInUse ==
  ASSUME NEW cs, NEW os, NEW k, Typing(cs, os, k), NEW a, Queued(cs, os, a, k),
         cs # <<>>, NEW i \in DOMAIN os, os[i] # NewObject
  PROVE  i = cs[1].to
<1>1. /\ Len(os) \in Nat /\ DOMAIN os = 1..Len(os)
      /\ Len(cs) \in Nat /\ DOMAIN cs = 1..Len(cs)
      /\ \A q \in DOMAIN cs : cs[q].to \in 1..Len(os)
  BY CallIs
<1>2. 1 \in DOMAIN cs
  <2>1. Len(cs) # 0  BY DEF Typing
  <2>. QED BY <1>1, <2>1
<1>3. i <= cs[1].to  BY <1>2 DEF Queued, Reached
<1>4. ASSUME i # Len(os) PROVE cs[1].to <= i
  <2>1. StopWaits(cs, i, 1)  BY <1>4 DEF Queued, Closed
  <2>2. PICK r \in DOMAIN cs : cs[r].to = i  BY <2>1 DEF StopWaits
  <2>. QED BY <1>1, <1>2, <2>2 DEF Queued, ByObject
<1>. QED BY <1>1, <1>2, <1>3, <1>4

\* The first call is made.
LEMMA CallQueued ==
  ASSUME NEW cs, NEW os, NEW k, Typing(cs, os, k), NEW a, Queued(cs, os, a, k),
         cs # <<>>, NEW m, m = cs[1], NEW o \in ObjectRecord(k),
         Numbered(m) => o.seq = os[m.to].seq \/ o.seq = m.seq,
         ~Numbered(m) => o = NewObject
  PROVE  Queued(Tail(cs), [os EXCEPT ![m.to] = o], a, k)
<1>. DEFINE t == Tail(cs)
            u == [os EXCEPT ![m.to] = o]
<1>1. /\ Len(os) \in Nat /\ DOMAIN os = 1..Len(os)
      /\ Len(cs) \in Nat /\ DOMAIN cs = 1..Len(cs)
      /\ \A q \in DOMAIN cs :
           cs[q].to \in 1..Len(os) /\ (Numbered(cs[q]) => cs[q].seq \in 0..k)
      /\ \A i \in DOMAIN os : os[i].seq \in 0..k
      /\ k \in Nat
  BY CallIs DEF Typing
<1>2. 1 \in DOMAIN cs /\ m.to \in DOMAIN os
  <2>1. Len(cs) # 0  BY DEF Typing
  <2>. QED BY <1>1, <2>1
<1>3. /\ DOMAIN t = 1..(Len(cs) - 1) /\ Len(t) = Len(cs) - 1
      /\ \A q \in DOMAIN t : q + 1 \in DOMAIN cs /\ t[q] = cs[q + 1] /\ q \in Nat
      /\ \A q \in DOMAIN cs : q # 1 => q - 1 \in DOMAIN t
      /\ t # <<>> => Len(t) # 0
  <2>1. cs \in Seq(Call(Len(os), k))  BY DEF Typing
  <2>. HIDE DEF u
  <2>. QED BY <1>1, <2>1
<1>4. /\ DOMAIN u = DOMAIN os /\ Len(u) = Len(os) /\ u[m.to] = o
      /\ \A i \in DOMAIN os : i # m.to => u[i] = os[i]
  <2>1. os \in Seq(ObjectRecord(k))  BY DEF Typing
  <2>. HIDE DEF t
  <2>. QED BY <1>1, <1>2, <2>1
<1>. HIDE DEF t, u
<1>5. \A i \in DOMAIN os : u[i] # NewObject => i = m.to
  BY <1>2, <1>4, NextInUse
<1>6. ByObject(t)
  <2>. SUFFICES ASSUME NEW p \in DOMAIN t, NEW q \in DOMAIN t, p < q
       PROVE  t[p].to <= t[q].to
    BY DEF ByObject
  <2>1. p + 1 < q + 1 /\ p + 1 \in DOMAIN cs /\ q + 1 \in DOMAIN cs  BY <1>3
  <2>. QED BY <1>3, <2>1 DEF Queued, ByObject
<1>7. ByNumber(t, u)
  <2>1. ASSUME NEW p \in DOMAIN t, NEW q \in DOMAIN t, p < q, Numbered(t[p]), Numbered(t[q])
        PROVE  t[p].seq < t[q].seq
    <3>1. p + 1 < q + 1  BY <1>3, <2>1
    <3>. QED BY <1>3, <2>1, <3>1 DEF Queued, ByNumber
  <2>2. ASSUME NEW q \in DOMAIN t, Numbered(t[q])
        PROVE  0 < t[q].seq /\ \A i \in DOMAIN u : u[i].seq < t[q].seq
    <3>1. 0 < t[q].seq /\ \A i \in DOMAIN os : os[i].seq < t[q].seq
      BY <1>3, <2>2 DEF Queued, ByNumber
    <3>2. Numbered(m) => m.seq < t[q].seq
      <4>1. 1 < q + 1 /\ q + 1 \in DOMAIN cs  BY <1>1, <1>3, <2>2
      <4>. QED BY <1>2, <1>3, <2>2, <4>1 DEF Queued, ByNumber
    <3>3. o.seq < t[q].seq
      <4>1. CASE Numbered(m)  BY <1>2, <3>1, <3>2, <4>1
      <4>2. CASE ~Numbered(m)  BY <3>1, <4>2 DEF NewObject
      <4>. QED BY <4>1, <4>2
    <3>. QED BY <1>4, <3>1, <3>3
  <2>. QED BY <2>1, <2>2 DEF ByNumber
<1>8. Latest(t, u, a, k)
  <2>. SUFFICES ASSUME a, t # <<>>
       PROVE  t[Len(t)].to = Len(u) /\ Numbered(t[Len(t)]) /\ t[Len(t)].seq = k
    BY DEF Latest
  <2>1. Len(t) \in DOMAIN t /\ Len(t) + 1 = Len(cs)  BY <1>1, <1>3
  <2>. QED BY <1>3, <1>4, <2>1 DEF Queued, Latest
<1>9. Closed(t, u, a)
  <2>1. ASSUME NEW i, NEW q \in Nat, q # 0, StopWaits(cs, i, q + 1)
        PROVE  StopWaits(t, i, q)
    <3>1. PICK r \in DOMAIN cs : q + 1 <= r /\ cs[r].to = i /\ cs[r].slot = "stop"
      BY <2>1 DEF StopWaits
    <3>2. r - 1 \in DOMAIN t /\ r \in Nat  BY <1>1, <1>3, <2>1, <3>1
    <3>3. t[r - 1] = cs[(r - 1) + 1]  BY <1>3, <3>2
    <3>4. t[r - 1] = cs[r] /\ q <= r - 1  BY <2>1, <3>1, <3>2, <3>3
    <3>. QED BY <3>1, <3>2, <3>4 DEF StopWaits
  <2>2. ASSUME NEW q \in DOMAIN t
        PROVE  (a /\ t[q].to = Len(u)) \/ StopWaits(t, t[q].to, q)
    BY <1>3, <1>4, <2>1 DEF Queued, Closed
  <2>3. ASSUME NEW i \in DOMAIN u, u[i] # NewObject
        PROVE  (a /\ i = Len(u)) \/ StopWaits(t, i, 1)
    <3>1. i = m.to /\ Numbered(m)  BY <1>4, <1>5, <2>3
    <3>2. CASE StopWaits(cs, m.to, 1)
      <4>1. PICK r \in DOMAIN cs : cs[r].to = i /\ cs[r].slot = "stop"
        BY <3>1, <3>2 DEF StopWaits
      <4>2. r # 1  BY <3>1, <4>1 DEF Numbered
      <4>3. StopWaits(cs, i, 2)  BY <1>1, <4>1, <4>2 DEF StopWaits
      <4>. QED BY <2>1, <4>3
    <3>3. CASE a /\ m.to = Len(os)  BY <1>4, <3>1, <3>3
    <3>. QED BY <1>2, <3>2, <3>3 DEF Queued, Closed
  <2>4. a => \A q \in DOMAIN t : t[q].to = Len(u) => Numbered(t[q])
    BY <1>3, <1>4 DEF Queued, Closed
  <2>. QED BY <2>2, <2>3, <2>4 DEF Closed
<1>10. Reached(t, u)
  <2>. SUFFICES ASSUME NEW i \in DOMAIN u, u[i] # NewObject, NEW q \in DOMAIN t
       PROVE  i <= t[q].to
    BY DEF Reached
  <2>1. i = m.to  BY <1>4, <1>5
  <2>2. 1 < q + 1 /\ q + 1 \in DOMAIN cs  BY <1>1, <1>3
  <2>. QED BY <1>2, <1>3, <2>1, <2>2 DEF Queued, ByObject
<1>11. Started(t, u)
  <2>. SUFFICES ASSUME NEW q \in DOMAIN t, t[q].slot = "start"
       PROVE  u[t[q].to] = NewObject /\ \A p \in DOMAIN t : p < q => t[p].to # t[q].to
    BY DEF Started
  <2>1. 1 < q + 1 /\ q + 1 \in DOMAIN cs /\ t[q] = cs[q + 1]  BY <1>1, <1>3
  <2>2. /\ os[t[q].to] = NewObject
        /\ \A p \in DOMAIN cs : p < q + 1 => cs[p].to # t[q].to
    BY <2>1 DEF Queued, Started
  <2>3. m.to # t[q].to  BY <1>2, <2>1, <2>2
  <2>4. t[q].to \in DOMAIN os  BY <1>1, <2>1
  <2>5. ASSUME NEW p \in DOMAIN t, p < q PROVE t[p].to # t[q].to
    <3>1. p + 1 \in DOMAIN cs /\ t[p] = cs[p + 1] /\ p + 1 < q + 1  BY <1>3, <2>5
    <3>. QED BY <2>2, <3>1
  <2>. QED BY <1>4, <2>2, <2>3, <2>4, <2>5
<1>12. OnTxFreq(t)  BY <1>3 DEF Queued, OnTxFreq
<1>. QED BY <1>6, <1>7, <1>8, <1>9, <1>10, <1>11, <1>12 DEF Queued, t, u

\* An object in use is polled.
LEMMA PollQueued ==
  ASSUME NEW cs, NEW os, NEW k, Typing(cs, os, k), NEW a, Queued(cs, os, a, k),
         NEW i \in DOMAIN os, os[i] # NewObject, NEW o \in ObjectRecord(k),
         o.seq = os[i].seq
  PROVE  Queued(cs, [os EXCEPT ![i] = o], a, k)
<1>. DEFINE u == [os EXCEPT ![i] = o]
<1>1. /\ Len(os) \in Nat /\ DOMAIN os = 1..Len(os)
      /\ Len(cs) \in Nat /\ DOMAIN cs = 1..Len(cs)
      /\ \A q \in DOMAIN cs : cs[q].to \in 1..Len(os)
  BY CallIs
<1>2. /\ DOMAIN u = DOMAIN os /\ Len(u) = Len(os) /\ u[i] = o
      /\ \A j \in DOMAIN os : j # i => u[j] = os[j]
  <2>1. os \in Seq(ObjectRecord(k))  BY DEF Typing
  <2>. QED BY <1>1, <2>1
<1>. HIDE DEF u
<1>3. \A j \in DOMAIN os : u[j] # NewObject => os[j] # NewObject
  BY <1>2
<1>4. ByNumber(cs, u)
  <2>1. \A j \in DOMAIN u : u[j].seq = os[j].seq  BY <1>2
  <2>. QED BY <1>2, <2>1 DEF Queued, ByNumber
<1>5. Latest(cs, u, a, k)  BY <1>2 DEF Queued, Latest
<1>6. Closed(cs, u, a)  BY <1>2, <1>3 DEF Queued, Closed
<1>7. Reached(cs, u)  BY <1>2, <1>3 DEF Queued, Reached
<1>8. Started(cs, u)
  <2>1. \A q \in DOMAIN cs : os[cs[q].to] = NewObject => u[cs[q].to] = NewObject
    BY <1>1, <1>2
  <2>. QED BY <2>1 DEF Queued, Started
<1>. QED BY <1>4, <1>5, <1>6, <1>7, <1>8 DEF Queued, u

-----------------------------------------------------------------------------
\* What the user interface works on, with its queue of calls in order.
GuiQueued(g) == GuiSound(g) /\ Queued(g.calls, g.objects, g.active, g.command)

\* What a function of the user interface does to it: calls are added, with new
\* numbers, and objects, with a new number as well; who stays connected is called if
\* anything is done, and who is connected anew is started.
StartedAnew(g) ==
  /\ g.objects[Len(g.objects)] = NewObject
  /\ \E q \in DOMAIN g.calls : g.calls[q].slot = "start" /\ g.calls[q].to = Len(g.objects)

Grows(g, h) ==
  /\ GuiQueued(h) /\ g.command <= h.command
  /\ \A i \in DOMAIN g.objects : i \in DOMAIN h.objects /\ h.objects[i] = g.objects[i]
  /\ \A i \in DOMAIN h.objects : i \in DOMAIN g.objects \/ h.objects[i] = NewObject
  /\ h.command = g.command => h.objects = g.objects
  /\ \A q \in DOMAIN g.calls : q \in DOMAIN h.calls /\ h.calls[q] = g.calls[q]
  /\ \A q \in DOMAIN h.calls :
       q \in DOMAIN g.calls \/ (Numbered(h.calls[q]) => g.command < h.calls[q].seq)
  /\ h.active => (g.active /\ h.calls = g.calls /\ h.command = g.command) \/ h.calls # <<>>
  /\ h.active => (g.active /\ h.objects = g.objects) \/ StartedAnew(h)

LEMMA GuiTyping ==
  ASSUME NEW g, GuiSound(g)
  PROVE  Typing(g.calls, g.objects, g.command)
  BY DEF GuiSound, Typing

LEMMA GrowsAgain ==
  ASSUME NEW f, NEW g, NEW h, GuiQueued(f), Grows(f, g), Grows(g, h)
  PROVE  Grows(f, h)
<1>1. /\ f.command \in Nat /\ g.command \in Nat /\ h.command \in Nat
      /\ Len(h.objects) \in Nat /\ DOMAIN h.objects = 1..Len(h.objects)
      /\ \A q \in DOMAIN h.calls : Numbered(h.calls[q]) => h.calls[q].seq \in Nat
  <2>1. GuiSound(f) /\ GuiSound(g) /\ GuiSound(h)  BY DEF Grows, GuiQueued
  <2>2. Typing(h.calls, h.objects, h.command)  BY <2>1, GuiTyping
  <2>3. \A q \in DOMAIN h.calls : Numbered(h.calls[q]) => h.calls[q].seq \in 0..h.command
    BY <2>2, CallIs
  <2>4. Len(h.objects) \in Nat /\ DOMAIN h.objects = 1..Len(h.objects)  BY <2>2, CallIs
  <2>. QED BY <2>1, <2>3, <2>4 DEF GuiSound
<1>2. GuiQueued(h) /\ f.command <= h.command  BY <1>1 DEF Grows
<1>3. \A i \in DOMAIN f.objects : i \in DOMAIN h.objects /\ h.objects[i] = f.objects[i]
  BY DEF Grows
<1>4. \A i \in DOMAIN h.objects : i \in DOMAIN f.objects \/ h.objects[i] = NewObject
  BY DEF Grows
<1>5. h.command = f.command => h.objects = f.objects  BY <1>1 DEF Grows
<1>6. \A q \in DOMAIN f.calls : q \in DOMAIN h.calls /\ h.calls[q] = f.calls[q]
  BY DEF Grows
<1>7. ASSUME NEW q \in DOMAIN h.calls, q \notin DOMAIN f.calls, Numbered(h.calls[q])
      PROVE  f.command < h.calls[q].seq
  <2>1. CASE q \in DOMAIN g.calls
    <3>1. h.calls[q] = g.calls[q]  BY <2>1 DEF Grows
    <3>. QED BY <1>7, <2>1, <3>1 DEF Grows
  <2>2. CASE q \notin DOMAIN g.calls
    <3>1. g.command < h.calls[q].seq /\ f.command <= g.command  BY <1>7, <2>2 DEF Grows
    <3>2. h.calls[q].seq \in Nat  BY <1>1, <1>7
    <3>. QED BY <1>1, <3>1, <3>2
  <2>. QED BY <2>1, <2>2
<1>8. ASSUME h.active
      PROVE  (f.active /\ h.calls = f.calls /\ h.command = f.command) \/ h.calls # <<>>
  BY <1>8 DEF Grows
<1>9. ASSUME h.active
      PROVE  (f.active /\ h.objects = f.objects) \/ StartedAnew(h)
  <2>1. CASE StartedAnew(h)  BY <2>1
  <2>2. CASE g.active /\ h.objects = g.objects
    <3>1. CASE f.active /\ g.objects = f.objects  BY <2>2, <3>1
    <3>2. CASE StartedAnew(g)
      <4>1. PICK q \in DOMAIN g.calls :
              g.calls[q].slot = "start" /\ g.calls[q].to = Len(g.objects)
        BY <3>2 DEF StartedAnew
      <4>2. q \in DOMAIN h.calls /\ h.calls[q] = g.calls[q]  BY DEF Grows
      <4>. QED BY <2>2, <3>2, <4>1, <4>2 DEF StartedAnew
    <3>. QED BY <2>2, <3>1, <3>2 DEF Grows
  <2>. QED BY <1>9, <2>1, <2>2 DEF Grows
<1>. QED BY <1>2, <1>3, <1>4, <1>5, <1>6, <1>7, <1>8, <1>9 DEF Grows

\* A change of the cache is none of the queue.
LEMMA CachedGrows ==
  ASSUME NEW g, GuiQueued(g), NEW s \in State
  PROVE  LET h == [g EXCEPT !.cached = s]
         IN  Grows(g, h) /\ h.cached = s /\ h.active = g.active
<1>. DEFINE h == [g EXCEPT !.cached = s]
<1>1. /\ h.calls = g.calls /\ h.objects = g.objects /\ h.active = g.active
      /\ h.cached = s /\ h.command = g.command
  BY DEF GuiQueued, GuiSound
<1>2. GuiSound(h)  BY CachedSound DEF GuiQueued, Follows
<1>. HIDE DEF h
<1>3. GuiQueued(h)  BY <1>1, <1>2 DEF GuiQueued
<1>4. g.command <= h.command  BY <1>1 DEF GuiQueued, GuiSound
<1>. QED BY <1>1, <1>3, <1>4 DEF Grows, h

\* With split, PTT is in the cache together with the transmit frequency.
Armed(s) == Split /\ s.ptt => s.split /\ s.tx = TxFreq

\* A command.
LEMMA EmitGrows ==
  ASSUME NEW g, GuiQueued(g), Armed(g.cached)
  PROVE  Grows(g, Emit(g)) /\ Emit(g).active = g.active /\ Emit(g).cached = g.cached
<1>. DEFINE n == g.command + 1
            m == [to |-> Len(g.objects), slot |-> "set", state |-> g.cached, seq |-> n]
            q == IF g.active THEN Append(g.calls, m) ELSE g.calls
            h == Emit(g)
<1>1. /\ h.calls = q /\ h.objects = g.objects /\ h.active = g.active
      /\ h.cached = g.cached /\ h.command = n
  <2>1. h = [g EXCEPT !.command = n, !.calls = q]  BY DEF Emit
  <2>. HIDE DEF n, m, q, h
  <2>. QED BY <2>1 DEF GuiQueued, GuiSound
<1>2. GuiSound(h)  BY EmitSound DEF GuiQueued, Follows
<1>3. /\ Typing(g.calls, g.objects, g.command) /\ g.active \in BOOLEAN
      /\ g.command \in Nat /\ (g.active => Len(g.objects) # 0)
  BY GuiTyping DEF GuiQueued, GuiSound
<1>4. /\ m.to = Len(g.objects) /\ m.slot = "set" /\ m.seq = n
      /\ m.state.ptt /\ Split => m.state.split /\ m.state.tx = TxFreq
  BY DEF Armed
<1>. HIDE DEF h, m
<1>5. CASE g.active
  <2>1. q = Append(g.calls, m)  BY <1>5
  <2>. HIDE DEF q
  <2>2. Queued(q, g.objects, TRUE, g.command + 1)
    <3>1. Queued(g.calls, g.objects, TRUE, g.command)
      <4>1. g.active = TRUE  BY <1>3, <1>5
      <4>. QED BY <4>1 DEF GuiQueued
    <3>. HIDE DEF n
    <3>2. m.seq = g.command + 1  BY <1>4 DEF n
    <3>. QED BY <1>3, <1>4, <1>5, <2>1, <3>1, <3>2, SetQueued
  <2>3. GuiQueued(h)
    <3>1. h.active = TRUE  BY <1>1, <1>3, <1>5
    <3>. QED BY <1>1, <1>2, <2>2, <3>1 DEF GuiQueued
  <2>4. /\ \A i \in DOMAIN g.calls : i \in DOMAIN q /\ q[i] = g.calls[i]
        /\ \A i \in DOMAIN q : i \in DOMAIN g.calls \/ q[i] = m
        /\ q # <<>>
    <3>1. g.calls \in Seq(Call(Len(g.objects), g.command))  BY <1>3 DEF Typing
    <3>2. PICK S : g.calls \in Seq(S) /\ m \in S
      <4>1. g.calls \in Seq(Call(Len(g.objects), g.command) \cup {m})  BY <3>1, Wider
      <4>. QED BY <4>1
    <3>. QED BY <2>1, <3>2
  <2>5. n = g.command + 1 /\ g.command <= n /\ n # g.command /\ g.command < n  BY <1>3
  <2>. HIDE DEF n, q
  <2>6. Grows(g, h)  BY <1>1, <1>3, <1>4, <1>5, <2>3, <2>4, <2>5 DEF Grows
  <2>. QED BY <1>1, <2>6 DEF h
<1>6. CASE ~g.active
  <2>1. Queued(g.calls, g.objects, g.active, g.command + 1)
    BY <1>6 DEF GuiQueued, Queued, Latest
  <2>2. GuiQueued(h)  BY <1>1, <1>2, <1>6, <2>1 DEF GuiQueued
  <2>3. q = g.calls  BY <1>6
  <2>4. n = g.command + 1 /\ g.command <= n /\ n # g.command  BY <1>3
  <2>. HIDE DEF n, q
  <2>5. Grows(g, h)  BY <1>1, <1>6, <2>2, <2>3, <2>4 DEF Grows
  <2>. QED BY <1>1, <2>5 DEF h
<1>. QED BY <1>1, <1>5, <1>6

LEMMA CloseGrows ==
  ASSUME NEW g, GuiQueued(g)
  PROVE  /\ Grows(g, CloseRig(g)) /\ ~CloseRig(g).active
         /\ CloseRig(g).command = g.command /\ CloseRig(g).objects = g.objects
<1>. DEFINE h == CloseRig(g)
            m == [to |-> Len(g.objects), slot |-> "stop"]
            q == Append(g.calls, m)
<1>0. GuiSound(g)  BY DEF GuiQueued
<1>1. /\ GuiSound(h) /\ h.active = FALSE /\ h.objects = g.objects /\ h.command = g.command
      /\ Typing(g.calls, g.objects, g.command)
      /\ g.active \in BOOLEAN /\ (g.active => Len(g.objects) # 0) /\ g.command \in Nat
  BY <1>0, CloseRigSound, GuiTyping DEF Follows, GuiSound
<1>2. CASE ~g.active
  <2>1. h = g  BY <1>2 DEF CloseRig
  <2>. QED BY <1>1, <1>2, <2>1 DEF Grows
<1>3. CASE g.active
  <2>1. h.calls = q
    <3>1. h = [g EXCEPT !.active = FALSE, !.calls = q]  BY <1>3 DEF CloseRig
    <3>. HIDE DEF q, h
    <3>. QED BY <1>0, <3>1 DEF GuiSound
  <2>2. m.to = Len(g.objects) /\ m.slot = "stop" /\ ~Numbered(m)  BY DEF Numbered
  <2>. HIDE DEF h, m
  <2>3. Queued(q, g.objects, FALSE, g.command)
    <3>1. Queued(g.calls, g.objects, TRUE, g.command)
      <4>1. g.active = TRUE  BY <1>1, <1>3
      <4>. QED BY <4>1 DEF GuiQueued
    <3>. QED BY <1>1, <1>3, <2>2, <3>1, StopQueued
  <2>4. GuiQueued(h)  BY <1>1, <2>1, <2>3 DEF GuiQueued
  <2>5. /\ \A i \in DOMAIN g.calls : i \in DOMAIN q /\ q[i] = g.calls[i]
        /\ \A i \in DOMAIN q : i \in DOMAIN g.calls \/ q[i] = m
    <3>1. g.calls \in Seq(Call(Len(g.objects), g.command))  BY <1>1 DEF Typing
    <3>2. PICK S : g.calls \in Seq(S) /\ m \in S
      <4>1. g.calls \in Seq(Call(Len(g.objects), g.command) \cup {m})  BY <3>1, Wider
      <4>. QED BY <4>1
    <3>. QED BY <3>2
  <2>. HIDE DEF q
  <2>6. Grows(g, h)  BY <1>1, <2>1, <2>2, <2>4, <2>5 DEF Grows
  <2>. QED BY <1>1, <2>6 DEF h
<1>. QED BY <1>1, <1>2, <1>3

LEMMA OpenGrows ==
  ASSUME NEW g, GuiQueued(g)
  PROVE  Grows(g, OpenRig(g)) /\ OpenRig(g).active /\ OpenRig(g).cached = NoState
<1>. DEFINE b == CloseRig(g)
            h == OpenRig(g)
            n == b.command + 1
            l == Len(b.objects) + 1
            m == [to |-> l, slot |-> "start", seq |-> n]
            os == Append(b.objects, NewObject)
            q == Append(b.calls, m)
<1>1. /\ Grows(g, b) /\ ~b.active /\ GuiQueued(b) /\ GuiSound(b)
      /\ Typing(b.calls, b.objects, b.command) /\ b.active \in BOOLEAN /\ b.command \in Nat
  <2>1. Grows(g, b) /\ ~b.active  BY CloseGrows
  <2>. HIDE DEF b
  <2>. QED BY <2>1, GuiTyping DEF Grows, GuiQueued, GuiSound
<1>2. GuiSound(h)  BY OpenRigSound DEF GuiQueued, Follows
<1>3. /\ h.calls = q /\ h.objects = os /\ h.active = TRUE /\ h.cached = NoState
      /\ h.command = n
  <2>1. b = [calls |-> b.calls, objects |-> b.objects, active |-> b.active,
             cached |-> b.cached, command |-> b.command]
    BY <1>1 DEF GuiSound
  <2>. HIDE DEF b
  <2>2. h = [b EXCEPT !.objects = Append(@, NewObject), !.active = TRUE,
                      !.cached = NoState, !.command = n, !.calls = Append(@, m)]
    BY DEF OpenRig, b
  <2>. HIDE DEF m, n, h
  <2>. QED BY <2>1, <2>2
<1>4. m.to = Len(b.objects) + 1 /\ m.slot = "start" /\ m.seq = b.command + 1 /\ Numbered(m)
  BY DEF Numbered
<1>. HIDE DEF b, h, m
<1>5. Queued(q, os, TRUE, n)
  <2>1. Queued(b.calls, b.objects, FALSE, b.command)
    <3>1. b.active = FALSE  BY <1>1
    <3>. QED BY <1>1, <3>1 DEF GuiQueued
  <2>. QED BY <1>1, <1>4, <2>1, StartQueued
<1>6. GuiQueued(h)  BY <1>2, <1>3, <1>5 DEF GuiQueued
<1>7. /\ \A i \in DOMAIN b.calls : i \in DOMAIN q /\ q[i] = b.calls[i]
      /\ \A i \in DOMAIN q : i \in DOMAIN b.calls \/ q[i] = m
      /\ q # <<>>
      /\ \E i \in DOMAIN q : q[i] = m
  <2>1. b.calls \in Seq(Call(Len(b.objects), b.command))  BY <1>1 DEF Typing
  <2>2. PICK S : b.calls \in Seq(S) /\ m \in S
    <3>1. b.calls \in Seq(Call(Len(b.objects), b.command) \cup {m})  BY <2>1, Wider
    <3>. QED BY <3>1
  <2>3. q[Len(b.calls) + 1] = m /\ Len(b.calls) + 1 \in DOMAIN q  BY <2>2
  <2>. QED BY <2>2, <2>3
<1>8. /\ \A i \in DOMAIN b.objects : i \in DOMAIN os /\ os[i] = b.objects[i]
      /\ \A i \in DOMAIN os : i \in DOMAIN b.objects \/ os[i] = NewObject
      /\ Len(os) = Len(b.objects) + 1 /\ os[Len(os)] = NewObject
  <2>1. b.objects \in Seq(ObjectRecord(b.command)) /\ NewObject \in ObjectRecord(b.command)
    BY <1>1, NewObjectType DEF Typing
  <2>. HIDE DEF q
  <2>. QED BY <2>1
<1>9. StartedAnew(h)  BY <1>3, <1>4, <1>7, <1>8 DEF StartedAnew
<1>. HIDE DEF q, os
<1>10. n = b.command + 1 /\ b.command <= n /\ n # b.command /\ b.command < n
  BY <1>1
<1>11. Grows(b, h)  BY <1>1, <1>3, <1>4, <1>6, <1>7, <1>8, <1>9, <1>10 DEF Grows
<1>12. Grows(g, h)  BY <1>1, <1>11, GrowsAgain
<1>. QED BY <1>3, <1>12 DEF h

-----------------------------------------------------------------------------
Ready(s) == Split => s.split /\ s.tx = TxFreq

LEMMA FrequencyGrows ==
  ASSUME NEW g, GuiQueued(g), NEW f \in Frequency, Ready(g.cached)
  PROVE  Grows(g, TransceiverFrequency(g, f)) /\ Ready(TransceiverFrequency(g, f).cached)
<1>. DEFINE s == [[g.cached EXCEPT !.online = TRUE] EXCEPT !.freq = f]
            h == [g EXCEPT !.cached = s]
<1>1. g.cached \in State  BY DEF GuiQueued, GuiSound
<1>2. s \in State /\ s.split = g.cached.split /\ s.tx = g.cached.tx
  BY <1>1 DEF State
<1>3. TransceiverFrequency(g, f) = Emit(h)
  <2>1. h = [g EXCEPT !.cached.online = TRUE, !.cached.freq = f]
    BY DEF GuiQueued, GuiSound
  <2>. QED BY <2>1 DEF TransceiverFrequency
<1>. HIDE DEF s
<1>4. Grows(g, h) /\ h.cached = s  BY <1>2, CachedGrows
<1>5. Ready(h.cached) /\ Armed(h.cached)  BY <1>2, <1>4 DEF Ready, Armed
<1>. HIDE DEF h
<1>6. Grows(h, Emit(h)) /\ Emit(h).cached = h.cached  BY <1>4, <1>5, EmitGrows DEF Grows
<1>. QED BY <1>3, <1>4, <1>5, <1>6, GrowsAgain

LEMMA TxFrequencyGrows ==
  ASSUME NEW g, GuiQueued(g)
  PROVE  Grows(g, TransceiverTxFrequency(g)) /\ Ready(TransceiverTxFrequency(g).cached)
<1>. DEFINE s == [g.cached EXCEPT !.online = TRUE, !.split = TRUE, !.tx = TxFreq]
            h == [g EXCEPT !.cached = s]
<1>1. g.cached \in State /\ g.command \in Nat  BY DEF GuiQueued, GuiSound
<1>2. s \in State /\ Ready(s)  BY <1>1 DEF State, Ready
<1>3. TransceiverTxFrequency(g) = IF Split THEN Emit(h) ELSE g
  <2>1. h = [g EXCEPT !.cached.online = TRUE, !.cached.split = TRUE, !.cached.tx = TxFreq]
    BY DEF GuiQueued, GuiSound
  <2>. QED BY <2>1 DEF TransceiverTxFrequency
<1>. HIDE DEF s
<1>4. Grows(g, h) /\ h.cached = s  BY <1>2, CachedGrows
<1>5. Ready(h.cached) /\ Armed(h.cached)  BY <1>2, <1>4 DEF Ready, Armed
<1>. HIDE DEF h
<1>6. Grows(h, Emit(h)) /\ Emit(h).cached = h.cached  BY <1>4, <1>5, EmitGrows DEF Grows
<1>7. Grows(g, Emit(h))  BY <1>4, <1>6, GrowsAgain
<1>8. ~Split => Grows(g, g) /\ Ready(g.cached)  BY <1>1 DEF Ready, Grows
<1>. QED BY <1>3, <1>5, <1>6, <1>7, <1>8

LEMMA PttGrows ==
  ASSUME NEW g, GuiQueued(g), NEW on \in BOOLEAN, on => Ready(g.cached)
  PROVE  Grows(g, TransceiverPtt(g, on))
<1>. DEFINE s == [[g.cached EXCEPT !.online = TRUE] EXCEPT !.ptt = on]
            h == [g EXCEPT !.cached = s]
<1>1. g.cached \in State  BY DEF GuiQueued, GuiSound
<1>2. s \in State /\ s.split = g.cached.split /\ s.tx = g.cached.tx /\ s.ptt = on
  BY <1>1 DEF State
<1>3. TransceiverPtt(g, on) = Emit(h)
  <2>1. h = [g EXCEPT !.cached.online = TRUE, !.cached.ptt = on]
    BY DEF GuiQueued, GuiSound
  <2>. QED BY <2>1 DEF TransceiverPtt
<1>. HIDE DEF s
<1>4. Grows(g, h) /\ h.cached = s  BY <1>2, CachedGrows
<1>5. Armed(h.cached)  BY <1>2, <1>4 DEF Ready, Armed
<1>. HIDE DEF h
<1>6. Grows(h, Emit(h))  BY <1>4, <1>5, EmitGrows DEF Grows
<1>. QED BY <1>3, <1>4, <1>6, GrowsAgain

LEMMA SetRigGrows ==
  ASSUME NEW g, GuiQueued(g), NEW f \in Frequency
  PROVE  Grows(g, SetRig(g, f)) /\ Ready(SetRig(g, f).cached)
<1>. DEFINE a == HaveRig(g)
            b == TransceiverTxFrequency(a)
<1>1. Grows(g, a)
  <2>1. Grows(g, g)  BY DEF Grows, GuiQueued, GuiSound
  <2>. QED BY <2>1, OpenGrows DEF HaveRig
<1>2. SetRig(g, f) = TransceiverFrequency(b, f)  BY DEF SetRig
<1>. HIDE DEF a
<1>3. Grows(a, b) /\ Ready(b.cached)  BY <1>1, TxFrequencyGrows DEF Grows
<1>. HIDE DEF b
<1>4. /\ Grows(b, TransceiverFrequency(b, f))
      /\ Ready(TransceiverFrequency(b, f).cached)
  BY <1>3, FrequencyGrows DEF Grows
<1>5. Grows(g, b)  BY <1>1, <1>3, GrowsAgain
<1>. QED BY <1>2, <1>4, <1>5, GrowsAgain

LEMMA SetXITGrows ==
  ASSUME NEW g, GuiQueued(g)
  PROVE  Grows(g, SetXIT(g)) /\ (Ready(g.cached) => Ready(SetXIT(g).cached))
<1>1. Grows(g, g)  BY DEF Grows, GuiQueued, GuiSound
<1>. QED BY <1>1, TxFrequencyGrows DEF SetXIT

\* What the cache takes changes the calls only if the rig went offline.
LEMMA CacheGrows ==
  ASSUME NEW g, GuiQueued(g), NEW s \in State
  PROVE  LET h == Cache(g, s)
         IN  /\ Grows(g, h) /\ h.command = g.command /\ h.objects = g.objects
             /\ h.active => g.active /\ h.calls = g.calls /\ s.online
<1>. DEFINE t == [g.cached EXCEPT !.online = s.online, !.freq = s.freq, !.split = s.split]
            h == [g EXCEPT !.cached = t]
<1>1. t \in State
  <2>1. g.cached \in State  BY DEF GuiQueued, GuiSound
  <2>. QED BY <2>1 DEF State
<1>2. Cache(g, s) = IF s.online THEN h ELSE CloseRig(h)
  <2>1. h = [g EXCEPT !.cached.online = s.online, !.cached.freq = s.freq,
                      !.cached.split = s.split]
    BY DEF GuiQueued, GuiSound
  <2>. QED BY <2>1 DEF Cache
<1>. HIDE DEF t
<1>3. /\ Grows(g, h) /\ GuiQueued(h) /\ h.command = g.command /\ h.objects = g.objects
      /\ h.calls = g.calls /\ h.active = g.active
  <2>1. Grows(g, h)  BY <1>1, CachedGrows
  <2>2. h.command = g.command /\ h.objects = g.objects /\ h.calls = g.calls
        /\ h.active = g.active
    BY DEF GuiQueued, GuiSound
  <2>. QED BY <2>1, <2>2 DEF Grows
<1>. HIDE DEF h
<1>4. /\ Grows(h, CloseRig(h)) /\ ~CloseRig(h).active
      /\ CloseRig(h).command = h.command /\ CloseRig(h).objects = h.objects
  BY <1>3, CloseGrows
<1>5. Grows(g, CloseRig(h))  BY <1>3, <1>4, GrowsAgain
<1>. QED BY <1>2, <1>3, <1>4, <1>5

-----------------------------------------------------------------------------
(* What the transceivers and the signals keep.                               *)
Obeyed(os, r) == \A i \in DOMAIN os : Honest(os[i], r) /\ Tracked(os[i], r)

\* No update answers a command that is still to be called.
Heard(sg, cs, os, k) ==
  /\ sg # <<>> => Len(os) # 0
  /\ \A j \in DOMAIN sg : sg[j].kind = "update" =>
       /\ sg[j].seq <= k
       /\ \A q \in DOMAIN cs : Numbered(cs[q]) => sg[j].seq < cs[q].seq

\* PTT in the answer to the last command is PTT.
Confirmed(sg, os, k, r) ==
  \A j \in DOMAIN sg : sg[j].kind = "update" /\ sg[j].seq = k /\ sg[j].state.ptt =>
    r.keyed \/ r.refused \/ ~os[Len(os)].requested.online

\* Nothing has failed that the user interface does not know of.
Healthy(sg, a) == a /\ \A j \in DOMAIN sg : sg[j].kind # "failure"

\* The newest object is started first, tells all that changes, and, once it is called
\* no more, has answered the last command with what it told last; st is what the
\* client was told.
Answered(sg, cs, os, k, st) ==
  LET o == os[Len(os)] IN
  /\ Steady(o)
  /\ ~o.requested.online =>
       \E q \in DOMAIN cs : cs[q].slot = "start" /\ cs[q].to = Len(os)
  /\ cs = <<>> =>
       /\ o.seq = k
       /\ sg = <<>> => st = Seen(o, o.last)
       /\ sg # <<>> => sg[Len(sg)] = Report(k, Seen(o, o.last))

LEMMA Joined ==
  ASSUME NEW S, NEW s \in Seq(S), NEW t \in Seq(S)
  PROVE  /\ s \o t \in Seq(S)
         /\ \A j \in DOMAIN (s \o t) :
              \/ j \in DOMAIN s /\ (s \o t)[j] = s[j]
              \/ \E i \in DOMAIN t : (s \o t)[j] = t[i]
         /\ \A j \in DOMAIN s : j \in DOMAIN (s \o t) /\ (s \o t)[j] = s[j]
         /\ \A i \in DOMAIN t : \E j \in DOMAIN (s \o t) : (s \o t)[j] = t[i]
         /\ t # <<>> => s \o t # <<>> /\ (s \o t)[Len(s \o t)] = t[Len(t)]
         /\ t = <<>> => s \o t = s
<1>. DEFINE q == s \o t
<1>1. /\ q \in Seq(S) /\ Len(q) = Len(s) + Len(t) /\ DOMAIN q = 1..Len(q)
      /\ Len(s) \in Nat /\ Len(t) \in Nat /\ DOMAIN s = 1..Len(s) /\ DOMAIN t = 1..Len(t)
      /\ \A j \in DOMAIN q : q[j] = IF j <= Len(s) THEN s[j] ELSE t[j - Len(s)]
  OBVIOUS
<1>2. t = <<>> => q = s  OBVIOUS
<1>3. t # <<>> => Len(t) # 0  OBVIOUS
<1>. HIDE DEF q
<1>4. ASSUME NEW j \in DOMAIN q
      PROVE  (j \in DOMAIN s /\ q[j] = s[j]) \/ \E i \in DOMAIN t : q[j] = t[i]
  <2>1. CASE j <= Len(s)  BY <1>1, <2>1
  <2>2. CASE ~(j <= Len(s))
    <3>1. j - Len(s) \in DOMAIN t /\ q[j] = t[j - Len(s)]  BY <1>1, <2>2
    <3>. QED BY <3>1
  <2>. QED BY <2>1, <2>2
<1>5. \A j \in DOMAIN s : j \in DOMAIN q /\ q[j] = s[j]  BY <1>1
<1>6. ASSUME NEW i \in DOMAIN t PROVE \E j \in DOMAIN q : q[j] = t[i]
  <2>1. Len(s) + i \in DOMAIN q /\ q[Len(s) + i] = t[(Len(s) + i) - Len(s)]  BY <1>1
  <2>2. (Len(s) + i) - Len(s) = i  BY <1>1
  <2>. QED BY <2>1, <2>2
<1>7. t # <<>> => q # <<>> /\ q[Len(q)] = t[Len(t)]
  <2>. SUFFICES ASSUME t # <<>> PROVE q # <<>> /\ q[Len(q)] = t[Len(t)]  OBVIOUS
  <2>1. Len(q) \in DOMAIN q /\ ~(Len(q) <= Len(s)) /\ Len(q) - Len(s) = Len(t)
    BY <1>1, <1>3
  <2>2. q # <<>>
    <3>1. DOMAIN q # {}  BY <2>1
    <3>. QED BY <3>1
  <2>. QED BY <1>1, <2>1, <2>2
<1>. QED BY <1>1, <1>2, <1>4, <1>5, <1>6, <1>7 DEF q

\* What is emitted by object i, and signalled if it is connected.
Signalled(sg, os, a, i, d) == IF a /\ i = Len(os) THEN sg \o d.out ELSE sg

\* The rig obeys whoever is in use.
LEMMA ObeyedStill ==
  ASSUME NEW k \in Nat, NEW os \in Seq(ObjectRecord(k)), NEW i \in DOMAIN os,
         \A j \in DOMAIN os : j # i => os[j] = NewObject,
         NEW d, d.o \in ObjectRecord(k), Honest(d.o, d.rig), Tracked(d.o, d.rig)
  PROVE  Obeyed([os EXCEPT ![i] = d.o], d.rig)
<1>1. Honest(NewObject, d.rig) /\ Tracked(NewObject, d.rig)
  BY DEF Honest, Tracked, NewObject, NoState
<1>. QED BY <1>1 DEF Obeyed

\* Object i, that has seen n at most, tells of n at most before what is called later.
LEMMA HeardStill ==
  ASSUME NEW k \in Nat, NEW os \in Seq(ObjectRecord(k)), NEW i \in DOMAIN os,
         NEW a, NEW cs, NEW t, NEW sg \in Seq(Signal), Heard(sg, cs, os, k),
         \A q \in DOMAIN t : \E p \in DOMAIN cs : t[q] = cs[p],
         NEW n \in 0..k, \A q \in DOMAIN t : Numbered(t[q]) => t[q].seq \in 0..k /\ n < t[q].seq,
         NEW d, d.o \in ObjectRecord(k), d.out \in Seq(Signal),
         \A j \in DOMAIN d.out : d.out[j].kind = "update" => d.out[j].seq <= n
  PROVE  Heard(Signalled(sg, os, a, i, d), t, [os EXCEPT ![i] = d.o], k)
<1>. DEFINE g == Signalled(sg, os, a, i, d)
            u == [os EXCEPT ![i] = d.o]
<1>1. Len(u) = Len(os) /\ Len(os) # 0  OBVIOUS
<1>. HIDE DEF u
<1>2. \A j \in DOMAIN g : (j \in DOMAIN sg /\ g[j] = sg[j]) \/ \E l \in DOMAIN d.out : g[j] = d.out[l]
  <2>1. CASE a /\ i = Len(os)
    <3>1. g = sg \o d.out  BY <2>1 DEF Signalled
    <3>. QED BY <3>1, Joined
  <2>2. CASE ~(a /\ i = Len(os))  BY <2>2 DEF Signalled
  <2>. QED BY <2>1, <2>2
<1>. HIDE DEF g
<1>3. ASSUME NEW j \in DOMAIN g, g[j].kind = "update"
      PROVE  /\ g[j].seq <= k
             /\ \A q \in DOMAIN t : Numbered(t[q]) => g[j].seq < t[q].seq
  <2>1. CASE j \in DOMAIN sg /\ g[j] = sg[j]  BY <1>3, <2>1 DEF Heard
  <2>2. CASE \E l \in DOMAIN d.out : g[j] = d.out[l]
    <3>1. g[j].seq <= n  BY <1>3, <2>2
    <3>2. g[j].seq \in Nat
      <4>1. PICK l \in DOMAIN d.out : g[j] = d.out[l]  BY <2>2
      <4>2. d.out[l] \in Signal  BY <4>1
      <4>. QED BY <1>3, <4>1, <4>2 DEF Signal
    <3>. QED BY <3>1, <3>2
  <2>. QED BY <1>2, <2>1, <2>2
<1>. QED BY <1>1, <1>3 DEF Heard, u, g

\* What was told of PTT stays true, or is no answer to the last command.
LEMMA ConfirmedStill ==
  ASSUME NEW k \in Nat, NEW os \in Seq(ObjectRecord(k)), NEW i \in DOMAIN os,
         \A j \in DOMAIN os : j # i => os[j] = NewObject,
         NEW a, NEW r, NEW sg \in Seq(Signal), Confirmed(sg, os, k, r),
         NEW d, d.o \in ObjectRecord(k), d.out \in Seq(Signal),
         \/ d.rig = r /\ (d.o.requested.online => os[i].requested.online)
         \/ ~d.o.requested.online
         \/ \A j \in DOMAIN sg : sg[j].kind = "update" => sg[j].seq < k,
         \A j \in DOMAIN d.out :
           d.out[j].kind = "update" /\ d.out[j].seq = k /\ d.out[j].state.ptt =>
             d.rig.keyed \/ d.rig.refused \/ ~d.o.requested.online
  PROVE  Confirmed(Signalled(sg, os, a, i, d), [os EXCEPT ![i] = d.o], k, d.rig)
<1>. DEFINE g == Signalled(sg, os, a, i, d)
            u == [os EXCEPT ![i] = d.o]
            e == Len(os)
<1>1. Len(u) = e /\ e \in DOMAIN os /\ u[e] = IF e = i THEN d.o ELSE os[e]  OBVIOUS
<1>. HIDE DEF u, e
<1>2. \A j \in DOMAIN g :
        \/ j \in DOMAIN sg /\ g[j] = sg[j]
        \/ i = e /\ \E l \in DOMAIN d.out : g[j] = d.out[l]
  <2>1. CASE a /\ i = e
    <3>1. g = sg \o d.out  BY <2>1 DEF Signalled, e
    <3>2. \A j \in DOMAIN (sg \o d.out) :
            \/ j \in DOMAIN sg /\ (sg \o d.out)[j] = sg[j]
            \/ \E l \in DOMAIN d.out : (sg \o d.out)[j] = d.out[l]
      BY Joined
    <3>. HIDE DEF g
    <3>. QED BY <2>1, <3>1, <3>2
  <2>2. CASE ~(a /\ i = e)  BY <2>2 DEF Signalled, e
  <2>. QED BY <2>1, <2>2
<1>. HIDE DEF g
<1>3. ASSUME NEW j \in DOMAIN g, g[j].kind = "update", g[j].seq = k, g[j].state.ptt
      PROVE  d.rig.keyed \/ d.rig.refused \/ ~u[e].requested.online
  <2>1. CASE i # e
    <3>1. u[e] = NewObject  BY <1>1, <2>1
    <3>. QED BY <3>1 DEF NewObject, NoState
  <2>2. CASE i = e /\ j \in DOMAIN sg /\ g[j] = sg[j]
    <3>1. r.keyed \/ r.refused \/ ~os[e].requested.online
      BY <1>3, <2>2 DEF Confirmed, e
    <3>2. ~(g[j].seq < k)  BY <1>3
    <3>. QED BY <1>1, <1>3, <2>2, <3>1, <3>2
  <2>3. CASE i = e /\ \E l \in DOMAIN d.out : g[j] = d.out[l]
    BY <1>1, <1>3, <2>3
  <2>. QED BY <1>2, <2>1, <2>2, <2>3
<1>. QED BY <1>1, <1>3 DEF Confirmed, u, g

-----------------------------------------------------------------------------
\* What a slot leaves: the object, the rig and the signals of d.
Sound(d, k) ==
  /\ d.o \in ObjectRecord(k) /\ d.rig \in RigRecord /\ d.out \in Seq(Signal)
  /\ Tuned(d.rig) /\ Honest(d.o, d.rig) /\ Tracked(d.o, d.rig)

\* The outcome of call m of object o.
CallOutcome(m, o, d) ==
  /\ Numbered(m) =>
       /\ d.o.seq = o.seq \/ d.o.seq = m.seq
       /\ \A j \in DOMAIN d.out : d.out[j].kind = "update" =>
            \/ d.out[j].seq = o.seq
            \/ d.out[j].seq = m.seq /\ (d.out[j].state.ptt => d.rig.keyed \/ d.rig.refused)
  /\ ~Numbered(m) => d.o = NewObject
  /\ m.slot = "start" /\ o = NewObject => Failed(d.out) \/ Done(d, m.seq)
  /\ m.slot = "set" /\ o.requested.online /\ Steady(o) => Failed(d.out) \/ Done(d, m.seq)

\* The outcome of a poll of object o, with the rig r.
PollOutcome(o, r, d) ==
  /\ d.o.seq = o.seq
  /\ d.rig = r \/ ~d.o.requested.online
  /\ d.o.requested.online => o.requested.online
  /\ \A j \in DOMAIN d.out : d.out[j].kind = "update" =>
       d.out[j].seq = o.seq /\ (d.out[j].state.ptt => d.rig.keyed \/ ~d.o.requested.online)
  /\ \/ Failed(d.out)
     \/ /\ d.o.requested.online = o.requested.online
        /\ Steady(o) => Steady(d.o)
        /\ \/ d.out = <<>> /\ Seen(d.o, d.o.last) = Seen(o, o.last)
           \/ LastTold(d, o.seq)

\* If what object i emits is signalled and shows no failure, there was none before.
LEMMA HealthyBefore ==
  ASSUME NEW sg \in Seq(Signal), NEW os, NEW a, NEW i, NEW d, d.out \in Seq(Signal),
         Healthy(Signalled(sg, os, a, i, d), a)
  PROVE  Healthy(sg, a) /\ (i = Len(os) => ~Failed(d.out))
<1>1. CASE a /\ i = Len(os)
  <2>1. Signalled(sg, os, a, i, d) = sg \o d.out  BY <1>1 DEF Signalled
  <2>2. /\ \A j \in DOMAIN sg :
             j \in DOMAIN (sg \o d.out) /\ (sg \o d.out)[j] = sg[j]
        /\ \A l \in DOMAIN d.out : \E j \in DOMAIN (sg \o d.out) : (sg \o d.out)[j] = d.out[l]
    <3>. DEFINE D == d.out
    <3>1. D \in Seq(Signal)  OBVIOUS
    <3>. HIDE DEF D
    <3>2. \A j \in DOMAIN sg : j \in DOMAIN (sg \o D) /\ (sg \o D)[j] = sg[j]
      BY <3>1, Joined
    <3>3. \A l \in DOMAIN D : \E j \in DOMAIN (sg \o D) : (sg \o D)[j] = D[l]
      BY <3>1, Joined
    <3>. QED BY <3>2, <3>3 DEF D
  <2>3. \A j \in DOMAIN (sg \o d.out) : (sg \o d.out)[j].kind # "failure"
    BY <2>1 DEF Healthy
  <2>4. \A j \in DOMAIN sg : sg[j].kind # "failure"  BY <2>2, <2>3
  <2>5. ~Failed(d.out)  BY <2>2, <2>3 DEF Failed
  <2>. QED BY <1>1, <2>4, <2>5 DEF Healthy
<1>2. CASE ~(a /\ i = Len(os))  BY <1>2 DEF Signalled, Healthy
<1>. QED BY <1>1, <1>2

LEMMA CallAnswered ==
  ASSUME NEW k, NEW cs, NEW os, Typing(cs, os, k), NEW a, Queued(cs, os, a, k), cs # <<>>,
         NEW m, m = cs[1], NEW d, Sound(d, k), CallOutcome(m, os[m.to], d),
         NEW sg \in Seq(Signal), NEW st,
         Healthy(sg, a) => Answered(sg, cs, os, k, st),
         Healthy(Signalled(sg, os, a, m.to, d), a)
  PROVE  Answered(Signalled(sg, os, a, m.to, d), Tail(cs), [os EXCEPT ![m.to] = d.o], k, st)
<1>. DEFINE t == Tail(cs)
            u == [os EXCEPT ![m.to] = d.o]
            g == Signalled(sg, os, a, m.to, d)
            e == Len(os)
<1>1. /\ Len(os) \in Nat /\ DOMAIN os = 1..Len(os)
      /\ Len(cs) \in Nat /\ DOMAIN cs = 1..Len(cs)
      /\ \A q \in DOMAIN cs : cs[q].to \in 1..Len(os) /\ cs[q].slot \in {"start", "set", "stop"}
      /\ k \in Nat
  BY CallIs DEF Typing
<1>2. 1 \in DOMAIN cs /\ m.to \in DOMAIN os
  <2>1. Len(cs) # 0  BY DEF Typing
  <2>. QED BY <1>1, <2>1
<1>3. /\ \A q \in DOMAIN cs : q # 1 => q - 1 \in DOMAIN t /\ t[q - 1] = cs[q]
      /\ t = <<>> => Len(cs) = 1
  <2>1. cs \in Seq(Call(Len(os), k))  BY DEF Typing
  <2>. HIDE DEF u, g, e
  <2>. QED BY <1>1, <1>2, <2>1
<1>4. Len(u) = e /\ e \in DOMAIN os /\ u[e] = IF e = m.to THEN d.o ELSE os[e]
  <2>1. os \in Seq(ObjectRecord(k))  BY DEF Typing
  <2>. HIDE DEF t, g
  <2>. QED BY <1>1, <1>2, <2>1
<1>5. a /\ Answered(sg, cs, os, k, st) /\ (m.to = e => ~Failed(d.out)) /\ d.out \in Seq(Signal)
  <2>1. d.out \in Seq(Signal)  BY DEF Sound
  <2>2. Healthy(sg, a) /\ (m.to = e => ~Failed(d.out))  BY <2>1, HealthyBefore
  <2>3. a  BY <2>2 DEF Healthy
  <2>. QED BY <2>1, <2>2, <2>3
<1>6. CASE m.to = e
  <2>1. m.slot \in {"start", "set"}
    <3>1. Numbered(m)  BY <1>2, <1>5, <1>6 DEF Queued, Closed
    <3>. QED BY <1>1, <1>2, <3>1 DEF Numbered
  <2>2. Done(d, m.seq)
    <3>1. CASE m.slot = "start"
      <4>1. os[m.to] = NewObject  BY <1>2, <3>1 DEF Queued, Started
      <4>. QED BY <1>5, <1>6, <3>1, <4>1 DEF CallOutcome
    <3>2. CASE m.slot = "set"
      <4>1. os[e].requested.online
        <5>. SUFFICES ASSUME ~os[e].requested.online PROVE FALSE  OBVIOUS
        <5>1. PICK q \in DOMAIN cs : cs[q].slot = "start" /\ cs[q].to = e
          BY <1>5 DEF Answered
        <5>2. 1 < q  BY <1>1, <3>2, <5>1
        <5>. QED BY <1>2, <1>6, <5>1, <5>2 DEF Queued, Started
      <4>2. Steady(os[e])  BY <1>5 DEF Answered
      <4>. QED BY <1>5, <1>6, <3>2, <4>1, <4>2 DEF CallOutcome
    <3>. QED BY <2>1, <3>1, <3>2
  <2>3. /\ Steady(d.o) /\ d.o.requested.online /\ d.o.seq = m.seq
        /\ d.out # <<>> /\ d.out[Len(d.out)] = Report(m.seq, Seen(d.o, d.o.last))
    BY <2>2 DEF Done, LastTold
  <2>4. g # <<>> /\ g[Len(g)] = d.out[Len(d.out)]
    <3>1. g = sg \o d.out  BY <1>5, <1>6 DEF Signalled
    <3>2. sg \o d.out # <<>> /\ (sg \o d.out)[Len(sg \o d.out)] = d.out[Len(d.out)]
      BY <1>5, <2>3, Joined
    <3>. QED BY <3>1, <3>2
  <2>5. t = <<>> => m.seq = k
    BY <1>3, <1>5 DEF Queued, Latest
  <2>6. u[Len(u)] = d.o  BY <1>4, <1>6
  <2>. HIDE DEF u, t, g
  <2>7. Answered(g, t, u, k, st)  BY <2>3, <2>4, <2>5, <2>6 DEF Answered
  <2>. QED BY <2>7 DEF u, t, g
<1>7. CASE m.to # e
  <2>1. g = sg  BY <1>7 DEF Signalled
  <2>2. t # <<>>
    <3>. SUFFICES ASSUME t = <<>> PROVE FALSE  OBVIOUS
    <3>1. Len(cs) = 1  BY <1>3
    <3>. QED BY <1>5, <1>7, <3>1 DEF Queued, Latest
  <2>3. u[Len(u)] = os[e] /\ Len(u) = e  BY <1>4, <1>7
  <2>. HIDE DEF u, t, g
  <2>4. ASSUME NEW q \in DOMAIN cs, cs[q].to = e, cs[q].slot = "start"
        PROVE  \E p \in DOMAIN t : t[p].slot = "start" /\ t[p].to = e
    <3>1. q # 1  BY <1>7, <2>4
    <3>. QED BY <1>3, <2>4, <3>1
  <2>5. Steady(os[e])
        /\ (~os[e].requested.online => \E q \in DOMAIN cs : cs[q].slot = "start" /\ cs[q].to = e)
    BY <1>5 DEF Answered
  <2>. HIDE DEF e
  <2>6. Answered(g, t, u, k, st)  BY <2>2, <2>3, <2>4, <2>5 DEF Answered
  <2>. QED BY <2>6 DEF u, t, g
<1>. QED BY <1>6, <1>7

LEMMA PollAnswered ==
  ASSUME NEW k, NEW cs, NEW os, Typing(cs, os, k), NEW a, NEW i \in DOMAIN os,
         NEW r, NEW d, Sound(d, k), PollOutcome(os[i], r, d),
         NEW sg \in Seq(Signal), NEW st,
         Healthy(sg, a) => Answered(sg, cs, os, k, st),
         Healthy(Signalled(sg, os, a, i, d), a)
  PROVE  Answered(Signalled(sg, os, a, i, d), cs, [os EXCEPT ![i] = d.o], k, st)
<1>. DEFINE u == [os EXCEPT ![i] = d.o]
            g == Signalled(sg, os, a, i, d)
            e == Len(os)
<1>1. Len(u) = e /\ e \in DOMAIN os /\ u[e] = IF e = i THEN d.o ELSE os[e]
  <2>1. os \in Seq(ObjectRecord(k))  BY DEF Typing
  <2>. HIDE DEF g
  <2>. QED BY <2>1
<1>2. a /\ Answered(sg, cs, os, k, st) /\ (i = e => ~Failed(d.out)) /\ d.out \in Seq(Signal)
  <2>1. d.out \in Seq(Signal)  BY DEF Sound
  <2>2. Healthy(sg, a) /\ (i = e => ~Failed(d.out))  BY <2>1, HealthyBefore
  <2>3. a  BY <2>2 DEF Healthy
  <2>. QED BY <2>1, <2>2, <2>3
<1>3. CASE i = e
  <2>1. /\ d.o.requested.online = os[e].requested.online /\ Steady(d.o)
        /\ d.o.seq = os[e].seq
        /\ \/ d.out = <<>> /\ Seen(d.o, d.o.last) = Seen(os[e], os[e].last)
           \/ /\ d.out # <<>>
              /\ d.out[Len(d.out)] = Report(os[e].seq, Seen(d.o, d.o.last))
    BY <1>2, <1>3 DEF PollOutcome, Answered, LastTold
  <2>2. g = sg \o d.out  BY <1>2, <1>3 DEF Signalled
  <2>3. /\ d.out # <<>> => sg \o d.out # <<>>
                           /\ (sg \o d.out)[Len(sg \o d.out)] = d.out[Len(d.out)]
        /\ d.out = <<>> => sg \o d.out = sg
    <3>. DEFINE D == d.out
    <3>1. D \in Seq(Signal)  BY <1>2
    <3>. HIDE DEF D
    <3>2. D # <<>> => sg \o D # <<>> /\ (sg \o D)[Len(sg \o D)] = D[Len(D)]
      BY <3>1, Joined
    <3>3. D = <<>> => sg \o D = sg
      BY <3>1, Joined
    <3>. QED BY <3>2, <3>3 DEF D
  <2>4. u[Len(u)] = d.o /\ Len(u) = e  BY <1>1, <1>3
  <2>. HIDE DEF u, g
  <2>5. /\ ~os[e].requested.online => \E q \in DOMAIN cs : cs[q].slot = "start" /\ cs[q].to = e
        /\ cs = <<>> =>
             /\ os[e].seq = k
             /\ sg = <<>> => st = Seen(os[e], os[e].last)
             /\ sg # <<>> => sg[Len(sg)] = Report(k, Seen(os[e], os[e].last))
    BY <1>2 DEF Answered
  <2>6. cs = <<>> =>
          /\ d.o.seq = k
          /\ g = <<>> => st = Seen(d.o, d.o.last)
          /\ g # <<>> => g[Len(g)] = Report(k, Seen(d.o, d.o.last))
    <3>1. CASE d.out = <<>>  BY <2>1, <2>2, <2>3, <2>5, <3>1
    <3>2. CASE d.out # <<>>  BY <2>1, <2>2, <2>3, <2>5, <3>2
    <3>. QED BY <3>1, <3>2
  <2>. HIDE DEF e
  <2>7. Answered(g, cs, u, k, st)  BY <2>1, <2>4, <2>5, <2>6 DEF Answered
  <2>. QED BY <2>7 DEF u, g
<1>4. CASE i # e
  <2>1. g = sg  BY <1>4 DEF Signalled
  <2>2. u[Len(u)] = os[e] /\ Len(u) = e  BY <1>1, <1>4
  <2>. HIDE DEF u, g
  <2>3. Answered(g, cs, u, k, st)  BY <1>2, <2>1, <2>2 DEF Answered
  <2>. QED BY <2>3 DEF u, g
<1>. QED BY <1>3, <1>4

-----------------------------------------------------------------------------
(* The second invariant: with the first, the order of the queues and what    *)
(* the transceivers, the signals and the client owe to it.                   *)
OrderInv ==
  /\ IInv
  /\ Queued(calls, objects, active, command)
  /\ Tuned(rig) /\ Obeyed(objects, rig)
  /\ Heard(signals, calls, objects, command)
  /\ Confirmed(signals, objects, command, rig)
  /\ Healthy(signals, active)
     => Answered(signals, calls, objects, command, client.state)

LEMMA StateTyping ==
  ASSUME IInv
  PROVE  /\ Typing(calls, objects, command) /\ command \in Nat /\ active \in BOOLEAN
         /\ objects \in Seq(ObjectRecord(command)) /\ signals \in Seq(Signal)
         /\ rig \in RigRecord /\ (active => Len(objects) # 0)
  BY DEF IInv, Typed, Typing

\* A slot of the object in use begins with a fair context.
LEMMA ContextFair ==
  ASSUME OrderInv, NEW i \in DOMAIN objects, \A j \in DOMAIN objects : j # i => objects[j] = NewObject,
         NEW bad \in Faults, NEW took \in BOOLEAN
  PROVE  LET c == Context(objects[i], bad, took)
         IN  /\ c \in ContextRecord(command) /\ ~c.thrown /\ Fair(c) /\ Tracked(c.o, c.rig)
             /\ c.o = objects[i] /\ c.rig = rig /\ c.out = <<>>
<1>. DEFINE c == Context(objects[i], bad, took)
<1>1. c \in ContextRecord(command) /\ ~c.thrown  BY ContextSound DEF OrderInv
<1>2. c.o = objects[i] /\ c.rig = rig /\ c.out = <<>>  BY DEF Context
<1>. HIDE DEF c
<1>3. Tuned(rig) /\ Honest(objects[i], rig) /\ Tracked(objects[i], rig)
  BY DEF OrderInv, Obeyed
<1>4. Alone(objects[i], rig)
  <2>1. ~NewObject.requested.online  BY DEF NewObject, NoState
  <2>. QED BY <2>1 DEF OrderInv, IInv, NobodyKeyed, Alone
<1>5. Fair(c) /\ Tracked(c.o, c.rig)  BY <1>2, <1>3, <1>4 DEF Fair
<1>. QED BY <1>1, <1>2, <1>5 DEF c

LEMMA ToldIs ==
  ASSUME NEW c, NEW n, NEW d, d.out \in Seq(Told(c, n, d))
  PROVE  \A j \in DOMAIN d.out : d.out[j].kind = "update" =>
            \/ d.out[j].seq = c.o.seq
            \/ d.out[j].seq = n /\ (d.out[j].state.ptt => d.rig.keyed \/ d.rig.refused)
<1>1. \A j \in DOMAIN d.out : d.out[j] \in Told(c, n, d)
  <2>. DEFINE T == Told(c, n, d)
              q == d.out
  <2>1. q \in Seq(T)  OBVIOUS
  <2>. HIDE DEF T, q
  <2>2. \A j \in DOMAIN q : q[j] \in T  BY <2>1
  <2>. QED BY <2>2 DEF T, q
<1>. QED BY <1>1 DEF Told

LEMMA SlotOutcome ==
  ASSUME NEW k \in Nat, NEW c \in ContextRecord(k), ~c.thrown, Fair(c), c.out = <<>>,
         Tracked(c.o, c.rig), NEW m, m.slot \in {"start", "set", "stop"},
         Numbered(m) => m.seq \in 0..k,
         m.slot = "set" => m.state \in State /\ Armed(m.state),
         NEW d,
         m.slot = "start" => d = Start(c, m.seq),
         m.slot = "set" => d = Set(c, m.state, m.seq),
         m.slot = "stop" => d = Stop(c)
  PROVE  Sound(d, k) /\ CallOutcome(m, c.o, d)
<1>0. \A x \in ContextRecord(k) :
        x.o \in ObjectRecord(k) /\ x.rig \in RigRecord /\ x.out \in Seq(Signal)
  BY OfContext
<1>1. CASE m.slot = "start"
  <2>1. /\ d \in ContextRecord(k) /\ Fair(d) /\ Tracked(d.o, d.rig)
        /\ d.o.seq = c.o.seq \/ d.o.seq = m.seq
        /\ d.out \in Seq(Told(c, m.seq, d))
        /\ Failed(d.out) \/ (c.o = NewObject => Done(d, m.seq))
    <3>1. m.seq \in 0..k /\ d = Start(c, m.seq)  BY <1>1 DEF Numbered
    <3>. QED BY <3>1, StartIs
  <2>2. \A j \in DOMAIN d.out : d.out[j].kind = "update" =>
            \/ d.out[j].seq = c.o.seq
            \/ d.out[j].seq = m.seq /\ (d.out[j].state.ptt => d.rig.keyed \/ d.rig.refused)
    BY <2>1, ToldIs
  <2>3. Sound(d, k)  BY <1>0, <2>1 DEF Sound, Fair
  <2>. QED BY <1>1, <2>1, <2>2, <2>3 DEF CallOutcome, Numbered
<1>2. CASE m.slot = "set"
  <2>1. /\ d \in ContextRecord(k) /\ Fair(d) /\ Tracked(d.o, d.rig)
        /\ d.o.seq = c.o.seq \/ d.o.seq = m.seq
        /\ d.out \in Seq(Told(c, m.seq, d))
        /\ Failed(d.out) \/ (c.o.requested.online /\ Steady(c.o) => Done(d, m.seq))
    <3>1. m.seq \in 0..k /\ d = Set(c, m.state, m.seq) /\ m.state \in State  BY <1>2 DEF Numbered
    <3>2. Split /\ m.state.ptt => m.state.split /\ m.state.tx = TxFreq  BY <1>2 DEF Armed
    <3>. QED BY <3>1, <3>2, SetIs
  <2>2. \A j \in DOMAIN d.out : d.out[j].kind = "update" =>
            \/ d.out[j].seq = c.o.seq
            \/ d.out[j].seq = m.seq /\ (d.out[j].state.ptt => d.rig.keyed \/ d.rig.refused)
    BY <2>1, ToldIs
  <2>3. Sound(d, k)  BY <1>0, <2>1 DEF Sound, Fair
  <2>. QED BY <1>2, <2>1, <2>2, <2>3 DEF CallOutcome, Numbered
<1>3. CASE m.slot = "stop"
  <2>1. d \in ContextRecord(k) /\ d.o = NewObject /\ Tuned(d.rig)
    BY <1>3, StopIs
  <2>2. Honest(d.o, d.rig) /\ Tracked(d.o, d.rig)
    BY <2>1 DEF Honest, Tracked, NewObject, NoState
  <2>3. Sound(d, k)  BY <1>0, <2>1, <2>2 DEF Sound
  <2>. QED BY <1>3, <2>1, <2>3 DEF CallOutcome, Numbered
<1>. QED BY <1>1, <1>2, <1>3

LEMMA TimerOutcome ==
  ASSUME NEW k \in Nat, NEW c \in ContextRecord(k), ~c.thrown, Fair(c), c.out = <<>>,
         Tracked(c.o, c.rig), NEW d, d = Timeout(c)
  PROVE  Sound(d, k) /\ PollOutcome(c.o, c.rig, d)
<1>1. /\ d \in ContextRecord(k) /\ Fair(d) /\ Tracked(d.o, d.rig)
      /\ d.o.seq = c.o.seq
      /\ d.rig = c.rig \/ ~d.o.requested.online
      /\ d.o.requested.online => c.o.requested.online
      /\ d.out \in Seq(ToldByPoll(c, d))
      /\ \/ Failed(d.out)
         \/ /\ d.o.requested.online = c.o.requested.online
            /\ Steady(c.o) => Steady(d.o)
            /\ \/ d.out = <<>> /\ Seen(d.o, d.o.last) = Seen(c.o, c.o.last)
               \/ LastTold(d, c.o.seq)
  BY TimeoutIs
<1>2. \A j \in DOMAIN d.out : d.out[j] \in ToldByPoll(c, d)
  <2>. DEFINE T == ToldByPoll(c, d)
              q == d.out
  <2>1. q \in Seq(T)  BY <1>1
  <2>. HIDE DEF T, q
  <2>2. \A j \in DOMAIN q : q[j] \in T  BY <2>1
  <2>. QED BY <2>2 DEF T, q
<1>3. Sound(d, k)  BY <1>1, OfContext DEF Sound, Fair
<1>. QED BY <1>1, <1>2, <1>3 DEF PollOutcome, ToldByPoll

-----------------------------------------------------------------------------
LEMMA TailIs ==
  ASSUME NEW cs, NEW os, NEW k, Typing(cs, os, k), cs # <<>>
  PROVE  /\ 1 \in DOMAIN cs /\ Head(cs) = cs[1]
         /\ \A q \in DOMAIN Tail(cs) :
              q \in Nat /\ 1 < q + 1 /\ q + 1 \in DOMAIN cs /\ Tail(cs)[q] = cs[q + 1]
<1>1. cs \in Seq(Call(Len(os), k))  BY DEF Typing
<1>. QED BY <1>1

LEMMA RunSlotOrder ==
  ASSUME OrderInv, RunSlot
  PROVE  OrderInv'
<1>. DEFINE k == command
            m == calls[1]
            i == m.to
<1>1. /\ Typing(calls, objects, k) /\ k \in Nat /\ active \in BOOLEAN
      /\ objects \in Seq(ObjectRecord(k)) /\ signals \in Seq(Signal) /\ rig \in RigRecord
      /\ calls # <<>> /\ Queued(calls, objects, active, k)
  BY StateTyping DEF OrderInv, RunSlot
<1>2. /\ 1 \in DOMAIN calls /\ Head(calls) = m
      /\ \A q \in DOMAIN Tail(calls) :
           q \in Nat /\ 1 < q + 1 /\ q + 1 \in DOMAIN calls /\ Tail(calls)[q] = calls[q + 1]
  BY <1>1, TailIs
<1>3. /\ i \in DOMAIN objects /\ m.slot \in {"start", "set", "stop"}
      /\ Numbered(m) => m.seq \in 0..k /\ objects[i].seq \in 0..k
      /\ m.slot = "set" => m.state \in State /\ Armed(m.state)
  <2>1. /\ m \in Call(Len(objects), k) /\ DOMAIN objects = 1..Len(objects) /\ i \in 1..Len(objects)
        /\ m.slot \in {"start", "set", "stop"}
        /\ Numbered(m) => m.seq \in 0..k
        /\ objects[i].seq \in 0..k
    BY <1>1, <1>2, CallIs
  <2>2. m.slot = "set" => m.state \in State  BY <2>1 DEF Call
  <2>3. m.slot = "set" => Armed(m.state)
    BY <1>1, <1>2 DEF Queued, OnTxFreq, Armed
  <2>. QED BY <2>1, <2>2, <2>3
<1>4. \A j \in DOMAIN objects : j # i => objects[j] = NewObject
  BY <1>1, NextInUse
<1>. DEFINE D(c) == CASE m.slot = "start" -> Start(c, m.seq)
                      [] m.slot = "set"   -> Set(c, m.state, m.seq)
                      [] m.slot = "stop"  -> Stop(c)
<1>5. PICK bad \in Faults, took \in BOOLEAN : Ran(i, D(Context(objects[i], bad, took)))
  BY <1>2 DEF RunSlot
<1>. DEFINE c == Context(objects[i], bad, took)
            d == D(c)
<1>6. /\ c \in ContextRecord(k) /\ ~c.thrown /\ Fair(c) /\ Tracked(c.o, c.rig)
      /\ c.o = objects[i] /\ c.rig = rig /\ c.out = <<>>
  BY <1>3, <1>4, ContextFair
<1>. HIDE DEF c
<1>7. /\ m.slot = "start" => d = Start(c, m.seq)
      /\ m.slot = "set" => d = Set(c, m.state, m.seq)
      /\ m.slot = "stop" => d = Stop(c)
  OBVIOUS
<1>8. Ran(i, d)  BY <1>5 DEF c
<1>. HIDE DEF m, d
<1>9. Sound(d, k) /\ CallOutcome(m, objects[i], d)
  BY <1>1, <1>3, <1>6, <1>7, SlotOutcome
<1>10. /\ objects' = [objects EXCEPT ![i] = d.o] /\ rig' = d.rig
       /\ signals' = Signalled(signals, objects, active, i, d)
       /\ calls' = Tail(calls) /\ active' = active /\ command' = k /\ client' = client
  BY <1>8 DEF Ran, RunSlot, Signalled
<1>11. IInv'  BY RunSlotStep DEF OrderInv
<1>12. Queued(calls', objects', active', command')
  <2>1. /\ Numbered(m) => d.o.seq = objects[i].seq \/ d.o.seq = m.seq
        /\ ~Numbered(m) => d.o = NewObject
        /\ d.o \in ObjectRecord(k)
    BY <1>9 DEF CallOutcome, Sound
  <2>2. Queued(Tail(calls), [objects EXCEPT ![i] = d.o], active, k)
    BY <1>1, <2>1, CallQueued DEF m
  <2>. QED BY <1>10, <2>2
<1>13. Tuned(rig') /\ Obeyed(objects', rig')
  BY <1>1, <1>3, <1>4, <1>9, <1>10, ObeyedStill DEF Sound
<1>14. Numbered(m) => \A j \in DOMAIN d.out : d.out[j].kind = "update" =>
         /\ d.out[j].seq <= m.seq
         /\ d.out[j].seq = k /\ d.out[j].state.ptt => d.rig.keyed \/ d.rig.refused
  <2>. SUFFICES ASSUME Numbered(m), NEW j \in DOMAIN d.out, d.out[j].kind = "update"
       PROVE  /\ d.out[j].seq <= m.seq
              /\ d.out[j].seq = k /\ d.out[j].state.ptt => d.rig.keyed \/ d.rig.refused
    OBVIOUS
  <2>1. objects[i].seq < m.seq /\ m.seq \in 0..k /\ objects[i].seq \in 0..k
    BY <1>1, <1>2, <1>3 DEF Queued, ByNumber, m
  <2>2. \/ d.out[j].seq = objects[i].seq
        \/ d.out[j].seq = m.seq /\ (d.out[j].state.ptt => d.rig.keyed \/ d.rig.refused)
    BY <1>9 DEF CallOutcome
  <2>3. CASE d.out[j].seq = objects[i].seq  BY <1>1, <2>1, <2>3
  <2>4. CASE d.out[j].seq = m.seq /\ (d.out[j].state.ptt => d.rig.keyed \/ d.rig.refused)
    BY <2>1, <2>4
  <2>. QED BY <2>2, <2>3, <2>4
\* What a stop emits is signalled to nobody.
<1>. DEFINE x == IF Numbered(m) THEN d ELSE [o |-> d.o, rig |-> d.rig, out |-> <<>>]
            n == IF Numbered(m) THEN m.seq ELSE 0
<1>15. /\ x.o = d.o /\ x.rig = d.rig /\ x.out \in Seq(Signal) /\ n \in 0..k
       /\ x.o \in ObjectRecord(k)
       /\ signals' = Signalled(signals, objects, active, i, x)
  <2>1. ~Numbered(m) => ~(active /\ i = Len(objects))
    BY <1>1, <1>2 DEF Queued, Closed, m
  <2>2. signals' = Signalled(signals, objects, active, i, x)
    BY <1>10, <2>1 DEF Signalled
  <2>3. n \in 0..k  BY <1>1, <1>3
  <2>4. x.o = d.o /\ x.rig = d.rig /\ x.out \in Seq(Signal) /\ x.o \in ObjectRecord(k)
    <3>1. <<>> \in Seq(Signal)  OBVIOUS
    <3>. QED BY <1>9, <3>1 DEF Sound
  <2>. QED BY <2>2, <2>3, <2>4
<1>16. \A j \in DOMAIN x.out : x.out[j].kind = "update" =>
         /\ x.out[j].seq <= n
         /\ x.out[j].seq = k /\ x.out[j].state.ptt => x.rig.keyed \/ x.rig.refused
  BY <1>14
<1>. HIDE DEF x
<1>17. Heard(signals', calls', objects', command')
  <2>1. \A q \in DOMAIN Tail(calls) : \E p \in DOMAIN calls : Tail(calls)[q] = calls[p]
    BY <1>2
  <2>2. \A q \in DOMAIN Tail(calls) : Numbered(Tail(calls)[q]) =>
          Tail(calls)[q].seq \in 0..k /\ n < Tail(calls)[q].seq
    <3>. SUFFICES ASSUME NEW q \in DOMAIN Tail(calls), Numbered(Tail(calls)[q])
         PROVE  Tail(calls)[q].seq \in 0..k /\ n < Tail(calls)[q].seq
      OBVIOUS
    <3>1. 1 < q + 1 /\ q + 1 \in DOMAIN calls /\ Tail(calls)[q] = calls[q + 1]  BY <1>2
    <3>2. calls[q + 1].seq \in 0..k  BY <1>1, <3>1, CallIs
    <3>3. 0 < calls[q + 1].seq /\ (Numbered(m) => m.seq < calls[q + 1].seq)
      BY <1>1, <1>2, <3>1 DEF Queued, ByNumber, m
    <3>. QED BY <3>1, <3>2, <3>3
  <2>3. Heard(signals, calls, objects, k)  BY DEF OrderInv
  <2>4. \A j \in DOMAIN x.out : x.out[j].kind = "update" => x.out[j].seq <= n  BY <1>16
  <2>. HIDE DEF n
  <2>5. Heard(Signalled(signals, objects, active, i, x), Tail(calls),
              [objects EXCEPT ![i] = x.o], k)
    BY <1>1, <1>3, <1>15, <2>1, <2>2, <2>3, <2>4, HeardStill
  <2>. QED BY <1>10, <1>15, <2>5
<1>18. Confirmed(signals', objects', command', rig')
  <2>1. ~x.o.requested.online \/ \A j \in DOMAIN signals : signals[j].kind = "update" => signals[j].seq < k
    <3>1. CASE ~Numbered(m)
      BY <1>9, <1>15, <3>1 DEF CallOutcome, NewObject, NoState
    <3>2. CASE Numbered(m)
      <4>. SUFFICES ASSUME NEW j \in DOMAIN signals, signals[j].kind = "update"
           PROVE  signals[j].seq < k
        OBVIOUS
      <4>1. signals[j].seq < m.seq  BY <1>2, <3>2 DEF OrderInv, Heard, m
      <4>2. signals[j].seq \in Nat
        <5>1. signals[j] \in Signal  BY <1>1
        <5>. QED BY <5>1 DEF Signal
      <4>. QED BY <1>1, <1>3, <3>2, <4>1, <4>2
    <3>. QED BY <3>1, <3>2
  <2>2. Confirmed(signals, objects, k, rig)  BY DEF OrderInv
  <2>3. \A j \in DOMAIN x.out :
          x.out[j].kind = "update" /\ x.out[j].seq = k /\ x.out[j].state.ptt =>
            x.rig.keyed \/ x.rig.refused \/ ~x.o.requested.online
    BY <1>16
  <2>4. Confirmed(Signalled(signals, objects, active, i, x), [objects EXCEPT ![i] = x.o], k, x.rig)
    BY <1>1, <1>3, <1>4, <1>15, <2>1, <2>2, <2>3, ConfirmedStill
  <2>. QED BY <1>10, <1>15, <2>4
<1>19. ASSUME Healthy(signals', active')
       PROVE  Answered(signals', calls', objects', command', client'.state)
  <2>1. Healthy(signals, active) => Answered(signals, calls, objects, k, client.state)
    BY DEF OrderInv
  <2>2. Healthy(Signalled(signals, objects, active, i, d), active)  BY <1>10, <1>19
  <2>3. Answered(Signalled(signals, objects, active, i, d), Tail(calls),
                 [objects EXCEPT ![i] = d.o], k, client.state)
    BY <1>1, <1>9, <2>1, <2>2, CallAnswered DEF m
  <2>. QED BY <1>10, <2>3
<1>. QED BY <1>11, <1>12, <1>13, <1>17, <1>18, <1>19 DEF OrderInv

LEMMA PollTimerOrder ==
  ASSUME OrderInv, NEW i \in DOMAIN objects, PollTimer(i)
  PROVE  OrderInv'
<1>. DEFINE k == command
<1>1. /\ Typing(calls, objects, k) /\ k \in Nat /\ active \in BOOLEAN
      /\ objects \in Seq(ObjectRecord(k)) /\ signals \in Seq(Signal) /\ rig \in RigRecord
      /\ Queued(calls, objects, active, k)
  BY StateTyping DEF OrderInv
<1>2. objects[i] # NewObject  BY DEF PollTimer, NewObject
<1>3. \A j \in DOMAIN objects : j # i => objects[j] = NewObject
  BY <1>1, <1>2, OneInUse
<1>4. PICK bad \in Faults, took \in BOOLEAN :
        Ran(i, Timeout(Context(objects[i], bad, took)))
  BY DEF PollTimer
<1>. DEFINE c == Context(objects[i], bad, took)
            d == Timeout(c)
<1>5. /\ c \in ContextRecord(k) /\ ~c.thrown /\ Fair(c) /\ Tracked(c.o, c.rig)
      /\ c.o = objects[i] /\ c.rig = rig /\ c.out = <<>>
  BY <1>3, ContextFair
<1>6. Ran(i, d)  BY <1>4
<1>. HIDE DEF c
<1>7. Sound(d, k) /\ PollOutcome(objects[i], rig, d)
  BY <1>1, <1>5, TimerOutcome
<1>. HIDE DEF d
<1>8. /\ objects' = [objects EXCEPT ![i] = d.o] /\ rig' = d.rig
      /\ signals' = Signalled(signals, objects, active, i, d)
      /\ calls' = calls /\ active' = active /\ command' = k /\ client' = client
  BY <1>6 DEF Ran, PollTimer, Signalled
<1>9. IInv'  BY PollTimerStep DEF OrderInv
<1>10. d.o \in ObjectRecord(k) /\ d.out \in Seq(Signal)  BY <1>7 DEF Sound
<1>11. Queued(calls', objects', active', command')
  <2>1. d.o.seq = objects[i].seq  BY <1>7 DEF PollOutcome
  <2>2. Queued(calls, [objects EXCEPT ![i] = d.o], active, k)
    BY <1>1, <1>2, <1>10, <2>1, PollQueued
  <2>. QED BY <1>8, <2>2
<1>12. Tuned(rig') /\ Obeyed(objects', rig')
  BY <1>1, <1>3, <1>7, <1>8, ObeyedStill DEF Sound
<1>13. Heard(signals', calls', objects', command')
  <2>. DEFINE n == objects[i].seq
  <2>1. n \in 0..k  BY <1>1, CallIs
  <2>2. \A q \in DOMAIN calls : Numbered(calls[q]) =>
          calls[q].seq \in 0..k /\ n < calls[q].seq
    BY <1>1, CallIs DEF Queued, ByNumber
  <2>3. Heard(signals, calls, objects, k)  BY DEF OrderInv
  <2>4. \A j \in DOMAIN d.out : d.out[j].kind = "update" => d.out[j].seq <= n
    BY <1>1, <1>7, <2>1 DEF PollOutcome
  <2>. HIDE DEF n
  <2>5. Heard(Signalled(signals, objects, active, i, d), calls,
              [objects EXCEPT ![i] = d.o], k)
    BY <1>1, <1>10, <2>1, <2>2, <2>3, <2>4, HeardStill
  <2>. QED BY <1>8, <2>5
<1>14. Confirmed(signals', objects', command', rig')
  <2>1. Confirmed(signals, objects, k, rig)  BY DEF OrderInv
  <2>2. /\ \/ d.rig = rig /\ (d.o.requested.online => objects[i].requested.online)
           \/ ~d.o.requested.online
        /\ \A j \in DOMAIN d.out :
             d.out[j].kind = "update" /\ d.out[j].seq = k /\ d.out[j].state.ptt =>
               d.rig.keyed \/ d.rig.refused \/ ~d.o.requested.online
    BY <1>7 DEF PollOutcome
  <2>3. Confirmed(Signalled(signals, objects, active, i, d), [objects EXCEPT ![i] = d.o], k, d.rig)
    BY <1>1, <1>3, <1>10, <2>1, <2>2, ConfirmedStill
  <2>. QED BY <1>8, <2>3
<1>15. ASSUME Healthy(signals', active')
       PROVE  Answered(signals', calls', objects', command', client'.state)
  <2>1. Healthy(signals, active) => Answered(signals, calls, objects, k, client.state)
    BY DEF OrderInv
  <2>2. Healthy(Signalled(signals, objects, active, i, d), active)  BY <1>8, <1>15
  <2>3. Answered(Signalled(signals, objects, active, i, d), calls,
                 [objects EXCEPT ![i] = d.o], k, client.state)
    BY <1>1, <1>7, <2>1, <2>2, PollAnswered
  <2>. QED BY <1>8, <2>3
<1>. QED BY <1>9, <1>11, <1>12, <1>13, <1>14, <1>15 DEF OrderInv

-----------------------------------------------------------------------------
LEMMA GuiInOrder ==
  ASSUME OrderInv
  PROVE  /\ GuiQueued(Gui) /\ Gui.calls = calls /\ Gui.objects = objects
         /\ Gui.active = active /\ Gui.command = command
<1>1. GuiSound(Gui)  BY GuiIsSound DEF OrderInv, IInv
<1>2. /\ Gui.calls = calls /\ Gui.objects = objects /\ Gui.active = active
      /\ Gui.command = command
  BY DEF Gui
<1>. QED BY <1>1, <1>2 DEF GuiQueued, OrderInv

\* A step of the user interface keeps all but what the client is owed.
LEMMA ApplyKept ==
  ASSUME OrderInv, NEW g, Grows(Gui, g), Apply(g), IInv',
         \A j \in DOMAIN signals' : \E p \in DOMAIN signals : signals'[j] = signals[p],
         signals' # <<>> => signals # <<>>
  PROVE  /\ Queued(calls', objects', active', command')
         /\ Tuned(rig') /\ Obeyed(objects', rig')
         /\ Heard(signals', calls', objects', command')
         /\ Confirmed(signals', objects', command', rig')
<1>1. /\ calls' = g.calls /\ objects' = g.objects /\ active' = g.active
      /\ command' = g.command /\ rig' = rig
  BY DEF Apply
<1>2. /\ Gui.calls = calls /\ Gui.objects = objects /\ Gui.active = active
      /\ Gui.command = command
  BY GuiInOrder
<1>3. /\ GuiQueued(g) /\ command <= g.command
      /\ \A i \in DOMAIN objects : i \in DOMAIN g.objects /\ g.objects[i] = objects[i]
      /\ \A i \in DOMAIN g.objects : i \in DOMAIN objects \/ g.objects[i] = NewObject
      /\ g.command = command => g.objects = objects
      /\ \A q \in DOMAIN calls : q \in DOMAIN g.calls /\ g.calls[q] = calls[q]
      /\ \A q \in DOMAIN g.calls :
           q \in DOMAIN calls \/ (Numbered(g.calls[q]) => command < g.calls[q].seq)
  BY <1>2 DEF Grows
<1>4. /\ command \in Nat /\ g.command \in Nat /\ signals \in Seq(Signal)
      /\ Len(objects) \in Nat /\ DOMAIN objects = 1..Len(objects)
      /\ Len(g.objects) \in Nat /\ DOMAIN g.objects = 1..Len(g.objects)
      /\ \A q \in DOMAIN g.calls : Numbered(g.calls[q]) => g.calls[q].seq \in Nat
  <2>1. Typing(g.calls, g.objects, g.command) /\ g.command \in Nat
    BY <1>3, GuiTyping DEF GuiQueued, GuiSound
  <2>2. /\ Typing(calls, objects, command) /\ command \in Nat /\ signals \in Seq(Signal)
    BY StateTyping DEF OrderInv
  <2>3. Len(objects) \in Nat /\ DOMAIN objects = 1..Len(objects)  BY <2>2, CallIs
  <2>4. /\ Len(g.objects) \in Nat /\ DOMAIN g.objects = 1..Len(g.objects)
        /\ \A q \in DOMAIN g.calls : Numbered(g.calls[q]) => g.calls[q].seq \in 0..g.command
    BY <2>1, CallIs
  <2>. QED BY <2>1, <2>2, <2>3, <2>4
<1>5. \A j \in DOMAIN signals' : signals'[j].kind = "update" =>
        /\ signals'[j].seq \in Nat /\ signals'[j].seq <= command
        /\ \A q \in DOMAIN calls : Numbered(calls[q]) => signals'[j].seq < calls[q].seq
  <2>1. \A p \in DOMAIN signals : signals[p].kind = "update" => signals[p].seq \in Nat
    <3>1. \A p \in DOMAIN signals : signals[p] \in Signal  BY <1>4
    <3>. QED BY <3>1 DEF Signal
  <2>. QED BY <2>1 DEF OrderInv, Heard
<1>6. Queued(calls', objects', active', command')  BY <1>1, <1>3 DEF GuiQueued
<1>7. Tuned(rig') /\ Obeyed(objects', rig')
  <2>1. Tuned(rig) /\ Obeyed(objects, rig)  BY DEF OrderInv
  <2>2. Honest(NewObject, rig) /\ Tracked(NewObject, rig)
    BY DEF Honest, Tracked, NewObject, NoState
  <2>3. Obeyed(g.objects, rig)  BY <1>3, <2>1, <2>2 DEF Obeyed
  <2>. QED BY <1>1, <2>1, <2>3
<1>8. Heard(signals', g.calls, g.objects, g.command)
  <2>1. signals' # <<>> => Len(g.objects) # 0
    <3>1. Len(objects) # 0 => Len(g.objects) # 0
      <4>1. Len(objects) # 0 => 1 \in DOMAIN objects  BY <1>4
      <4>. QED BY <1>3, <1>4, <4>1
    <3>. QED BY <3>1 DEF OrderInv, Heard
  <2>2. ASSUME NEW j \in DOMAIN signals', signals'[j].kind = "update"
        PROVE  signals'[j].seq <= g.command
    BY <1>3, <1>4, <1>5, <2>2
  <2>3. ASSUME NEW j \in DOMAIN signals', signals'[j].kind = "update",
               NEW q \in DOMAIN g.calls, Numbered(g.calls[q])
        PROVE  signals'[j].seq < g.calls[q].seq
    <3>1. CASE q \in DOMAIN calls
      <4>1. g.calls[q] = calls[q]  BY <1>3, <3>1
      <4>. QED BY <1>5, <2>3, <3>1, <4>1
    <3>2. CASE q \notin DOMAIN calls
      <4>1. command < g.calls[q].seq /\ g.calls[q].seq \in Nat  BY <1>3, <1>4, <2>3, <3>2
      <4>. QED BY <1>4, <1>5, <2>3, <4>1
    <3>. QED BY <3>1, <3>2
  <2>. QED BY <2>1, <2>2, <2>3 DEF Heard
<1>9. Confirmed(signals', g.objects, g.command, rig)
  <2>. SUFFICES ASSUME NEW j \in DOMAIN signals', signals'[j].kind = "update",
                       signals'[j].seq = g.command, signals'[j].state.ptt
       PROVE  rig.keyed \/ rig.refused \/ ~g.objects[Len(g.objects)].requested.online
    BY DEF Confirmed
  <2>1. signals'[j].seq = command /\ g.objects = objects  BY <1>3, <1>4, <1>5
  <2>. QED BY <2>1 DEF OrderInv, Confirmed
<1>. QED BY <1>1, <1>6, <1>7, <1>8, <1>9

\* A step of the user interface that handles no signal.
LEMMA ApplyOrder ==
  ASSUME OrderInv, NEW g, Grows(Gui, g), Apply(g), IInv', signals' = signals,
         client'.state = client.state
  PROVE  OrderInv'
<1>1. /\ calls' = g.calls /\ objects' = g.objects /\ active' = g.active
      /\ command' = g.command
  BY DEF Apply
<1>2. /\ Gui.calls = calls /\ Gui.objects = objects /\ Gui.active = active
      /\ Gui.command = command
  BY GuiInOrder
<1>3. /\ Queued(calls', objects', active', command')
      /\ Tuned(rig') /\ Obeyed(objects', rig')
      /\ Heard(signals', calls', objects', command')
      /\ Confirmed(signals', objects', command', rig')
  BY ApplyKept
<1>4. ASSUME Healthy(signals', active')
      PROVE  Answered(signals', calls', objects', command', client'.state)
  <2>1. g.active /\ Healthy(signals, g.active)  BY <1>1, <1>4 DEF Healthy
  <2>2. /\ (active /\ g.calls = calls /\ g.command = command) \/ g.calls # <<>>
        /\ (active /\ g.objects = objects) \/ StartedAnew(g)
        /\ \A q \in DOMAIN calls : q \in DOMAIN g.calls /\ g.calls[q] = calls[q]
        /\ g.command = command => g.objects = objects
    BY <1>2, <2>1 DEF Grows
  <2>3. CASE StartedAnew(g)
    <3>1. Steady(NewObject) /\ ~NewObject.requested.online
      BY DEF Steady, Still, NewObject, NoState
    <3>2. g.calls # <<>>
      <4>1. \E q \in DOMAIN g.calls : TRUE  BY <2>3 DEF StartedAnew
      <4>2. DOMAIN <<>> = {}  OBVIOUS
      <4>. QED BY <4>1, <4>2
    <3>3. Answered(signals, g.calls, g.objects, g.command, client.state)
      BY <2>3, <3>1, <3>2 DEF StartedAnew, Answered
    <3>. QED BY <1>1, <3>3
  <2>4. CASE active /\ g.objects = objects
    <3>1. Answered(signals, calls, objects, command, client.state)
      BY <2>1, <2>4 DEF OrderInv, Healthy
    <3>2. Answered(signals, g.calls, g.objects, g.command, client.state)
      <4>1. CASE g.calls = calls /\ g.command = command  BY <2>4, <3>1, <4>1
      <4>2. CASE g.calls # <<>>
        <5>1. \A q \in DOMAIN calls :
                calls[q].slot = "start" /\ calls[q].to = Len(objects) =>
                  \E p \in DOMAIN g.calls :
                    g.calls[p].slot = "start" /\ g.calls[p].to = Len(objects)
          BY <2>2
        <5>. QED BY <2>4, <3>1, <4>2, <5>1 DEF Answered
      <4>. QED BY <2>2, <4>1, <4>2
    <3>. QED BY <1>1, <3>2
  <2>. QED BY <2>2, <2>3, <2>4
<1>. QED BY <1>3, <1>4 DEF OrderInv

LEMMA HandleSignalOrder ==
  ASSUME OrderInv, HandleSignal
  PROVE  OrderInv'
<1>. DEFINE m == Head(signals)
<1>1. /\ signals \in Seq(Signal) /\ signals # <<>> /\ signals' = Tail(signals)
  BY StateTyping DEF OrderInv, HandleSignal
<1>2. /\ 1 \in DOMAIN signals /\ m = signals[1] /\ m \in Signal
      /\ \A j \in DOMAIN signals' : \E p \in DOMAIN signals : signals'[j] = signals[p]
      /\ \A p \in DOMAIN signals : p = 1 \/ \E j \in DOMAIN signals' : signals'[j] = signals[p]
      /\ signals' = <<>> => signals[Len(signals)] = m
      /\ signals' # <<>> => signals'[Len(signals')] = signals[Len(signals)]
  <2>. DEFINE t == Tail(signals)
  <2>0. /\ Len(signals) \in Nat /\ DOMAIN signals = 1..Len(signals) /\ Len(signals) # 0
        /\ m = signals[1] /\ m \in Signal
    BY <1>1
  <2>1. /\ Len(signals) \in Nat /\ DOMAIN signals = 1..Len(signals) /\ Len(signals) # 0
        /\ m = signals[1] /\ m \in Signal
        /\ t \in Seq(Signal) /\ Len(t) = Len(signals) - 1 /\ DOMAIN t = 1..Len(t)
        /\ \A j \in DOMAIN t : t[j] = signals[j + 1]
        /\ t # <<>> => Len(t) # 0
        /\ t = <<>> => Len(t) = 0
    <3>1. t \in Seq(Signal)  BY <1>1
    <3>2. Len(t) = Len(signals) - 1  BY <1>1
    <3>3. \A j \in DOMAIN t : t[j] = signals[j + 1]  BY <1>1
    <3>. HIDE DEF t, m
    <3>4. DOMAIN t = 1..Len(t) /\ (t # <<>> => Len(t) # 0) /\ (t = <<>> => Len(t) = 0)
      BY <3>1
    <3>. QED BY <2>0, <3>1, <3>2, <3>3, <3>4
  <2>. HIDE DEF t, m
  <2>2. \A j \in DOMAIN t : j + 1 \in DOMAIN signals  BY <2>1
  <2>3. ASSUME NEW p \in DOMAIN signals, p # 1
        PROVE  \E j \in DOMAIN t : t[j] = signals[p]
    <3>1. p - 1 \in DOMAIN t /\ (p - 1) + 1 = p  BY <2>1, <2>3
    <3>. QED BY <2>1, <3>1
  <2>4. t # <<>> => t[Len(t)] = signals[Len(signals)]
    <3>. SUFFICES ASSUME t # <<>> PROVE t[Len(t)] = signals[Len(signals)]  OBVIOUS
    <3>1. Len(t) \in DOMAIN t /\ Len(t) + 1 = Len(signals)  BY <2>1
    <3>. QED BY <2>1, <3>1
  <2>5. t = <<>> => signals[Len(signals)] = m  BY <2>1
  <2>. QED BY <1>1, <2>1, <2>2, <2>3, <2>4, <2>5 DEF t
<1>3. IInv' /\ IInv  BY HandleSignalStep DEF OrderInv
<1>4. /\ GuiQueued(Gui) /\ Gui.calls = calls /\ Gui.objects = objects
      /\ Gui.active = active /\ Gui.command = command
  BY GuiInOrder
<1>. HIDE DEF m
<1>5. CASE /\ m.kind = "update" /\ Apply(Cache(Gui, m.state))
           /\ client' = IF PassedOn(m.seq) THEN Updated(client, m.state) ELSE client
  <2>. DEFINE g == Cache(Gui, m.state)
  <2>1. m.state \in State  BY <1>2, <1>5 DEF Signal
  <2>2. /\ Grows(Gui, g) /\ g.command = command /\ g.objects = objects
        /\ g.active => active /\ g.calls = calls
    BY <1>4, <2>1, CacheGrows
  <2>7. Apply(g)  BY <1>5
  <2>. HIDE DEF g
  <2>3. /\ calls' = g.calls /\ objects' = g.objects /\ active' = g.active
        /\ command' = g.command
    BY <2>7 DEF Apply
  <2>4. /\ Queued(calls', objects', active', command')
        /\ Tuned(rig') /\ Obeyed(objects', rig')
        /\ Heard(signals', calls', objects', command')
        /\ Confirmed(signals', objects', command', rig')
    BY <1>1, <1>2, <1>3, <2>2, <2>7, ApplyKept
  <2>5. ASSUME Healthy(signals', active')
        PROVE  Answered(signals', calls', objects', command', client'.state)
    <3>1. active /\ calls' = calls /\ objects' = objects /\ command' = command
      BY <2>2, <2>3, <2>5 DEF Healthy
    <3>2. Healthy(signals, active)  BY <1>2, <1>5, <2>5, <3>1 DEF Healthy
    <3>3. Answered(signals, calls, objects, command, client.state)
      BY <3>2 DEF OrderInv
    <3>4. ASSUME calls = <<>>, signals' = <<>>
          PROVE  client'.state = Seen(Newest, Newest.last)
      <4>1. m = Report(command, Seen(Newest, Newest.last))
        BY <1>1, <1>2, <3>3, <3>4 DEF Answered, Newest
      <4>2. m.seq = command /\ m.state = Seen(Newest, Newest.last)  BY <4>1 DEF Report
      <4>3. client' = Updated(client, m.state)  BY <1>5, <4>2 DEF PassedOn
      <4>4. Updated(client, m.state).state = m.state
        <5>1. client \in ClientRecord  BY <1>3 DEF IInv, Typed
        <5>. QED BY <5>1 DEF Updated, ClientRecord
      <4>. QED BY <4>2, <4>3, <4>4
    <3>5. Answered(signals', calls, objects, command, client'.state)
      BY <1>1, <1>2, <3>3, <3>4 DEF Answered, Newest
    <3>. QED BY <3>1, <3>5
  <2>. QED BY <1>3, <2>4, <2>5 DEF OrderInv
<1>6. CASE m.kind = "failure" /\ Apply(CloseRig(Gui)) /\ UNCHANGED client
  <2>. DEFINE g == CloseRig(Gui)
  <2>1. Grows(Gui, g) /\ ~g.active  BY <1>4, CloseGrows
  <2>. HIDE DEF g
  <2>2. ~active'  BY <1>6, <2>1 DEF Apply, g
  <2>3. /\ Queued(calls', objects', active', command')
        /\ Tuned(rig') /\ Obeyed(objects', rig')
        /\ Heard(signals', calls', objects', command')
        /\ Confirmed(signals', objects', command', rig')
    BY <1>1, <1>2, <1>3, <1>6, <2>1, ApplyKept DEF g
  <2>. QED BY <1>3, <2>2, <2>3 DEF OrderInv, Healthy
<1>. QED BY <1>5, <1>6 DEF HandleSignal, m

-----------------------------------------------------------------------------
LEMMA UserOrder ==
  ASSUME OrderInv, MoveOffset \/ Reopen \/ Key \/ StopTx \/ StopTx2
  PROVE  OrderInv'
<1>1. /\ GuiQueued(Gui) /\ client \in ClientRecord /\ client.nominal \in Frequency
  BY GuiInOrder DEF OrderInv, IInv, Typed, ClientRecord
<1>2. IInv'  BY UserStep DEF OrderInv
<1>3. CASE MoveOffset  BY <1>1, <1>2, <1>3, SetXITGrows, ApplyOrder DEF MoveOffset
<1>4. CASE Reopen  BY <1>1, <1>2, <1>4, OpenGrows, ApplyOrder DEF Reopen
<1>5. CASE Key
  <2>. DEFINE a == SetRig(Gui, client.nominal)
              b == SetXIT(a)
              d == TransceiverPtt(b, TRUE)
  <2>1. Grows(Gui, a) /\ Ready(a.cached)  BY <1>1, SetRigGrows
  <2>2. Apply(d) /\ signals' = signals  BY <1>5 DEF Key
  <2>. HIDE DEF a
  <2>3. Grows(a, b) /\ Ready(b.cached)  BY <2>1, SetXITGrows DEF Grows
  <2>. HIDE DEF b
  <2>4. Grows(b, d)  BY <2>3, PttGrows DEF Grows
  <2>. HIDE DEF d
  <2>5. Grows(Gui, b)  BY <1>1, <2>1, <2>3, GrowsAgain
  <2>6. Grows(Gui, d)  BY <1>1, <2>4, <2>5, GrowsAgain
  <2>7. client'.state = client.state  BY <1>1, <1>5 DEF Key, ClientRecord
  <2>. QED BY <1>2, <2>2, <2>6, <2>7, ApplyOrder
<1>6. CASE StopTx
  <2>1. client'.state = client.state  BY <1>1, <1>6 DEF StopTx, ClientRecord
  <2>2. UNCHANGED <<calls, signals, objects, rig, active, cached, command>>
    BY <1>6 DEF StopTx
  <2>3. UNCHANGED <<calls, signals, objects, rig, active, command>>  BY <2>2
  <2>. QED BY <1>2, <2>1, <2>3 DEF OrderInv
<1>7. CASE StopTx2
  <2>1. client'.state = client.state  BY <1>1, <1>7 DEF StopTx2, ClientRecord
  <2>2. Grows(Gui, TransceiverPtt(Gui, FALSE))  BY <1>1, PttGrows
  <2>. QED BY <1>2, <1>7, <2>1, <2>2, ApplyOrder DEF StopTx2
<1>. QED BY <1>3, <1>4, <1>5, <1>6, <1>7

LEMMA QsyOrder ==
  ASSUME OrderInv, NEW f \in Freqs, Qsy(f)
  PROVE  OrderInv'
<1>1. /\ GuiQueued(Gui) /\ client \in ClientRecord /\ f \in Frequency
  BY GuiInOrder DEF OrderInv, IInv, Typed, Frequency
<1>2. IInv'  BY QsyStep DEF OrderInv
<1>3. client'.state = client.state  BY <1>1 DEF Qsy, ClientRecord
<1>. QED BY <1>1, <1>2, <1>3, SetRigGrows, ApplyOrder DEF Qsy

\* What the operator does to the dial.
LEMMA DialOrder ==
  ASSUME OrderInv, NEW f \in Freqs, Dial(f)
  PROVE  OrderInv'
<1>1. IInv'  BY DialStep DEF OrderInv
<1>2. /\ ~rig.keyed /\ rig'.keyed = rig.keyed /\ rig'.refused = rig.refused /\ rig'.dialled
      /\ UNCHANGED <<calls, signals, objects, active, cached, command, client>>
  BY DEF Dial, OrderInv, IInv, Typed, RigRecord
<1>3. UNCHANGED <<calls, signals, objects, active, command, client>>  BY <1>2
<1>4. Tuned(rig') /\ Obeyed(objects, rig')
  BY <1>2 DEF OrderInv, Obeyed, Tuned, Honest, Tracked
<1>5. Confirmed(signals, objects, command, rig')
  BY <1>2 DEF OrderInv, Confirmed
<1>. QED BY <1>1, <1>3, <1>4, <1>5 DEF OrderInv

LEMMA InitOrder == Init => OrderInv
<1>. SUFFICES ASSUME Init PROVE OrderInv  OBVIOUS
<1>1. IInv  BY InitIInv
<1>2. /\ calls = <<>> /\ signals = <<>> /\ objects = <<>> /\ active = FALSE /\ ~rig.keyed
  BY DEF Init
<1>3. DOMAIN calls = {} /\ DOMAIN signals = {} /\ DOMAIN objects = {}  BY <1>2
<1>4. Queued(calls, objects, active, command)
  BY <1>2, <1>3 DEF Queued, ByObject, ByNumber, Latest, Closed, Reached, Started, OnTxFreq
<1>5. Tuned(rig) /\ Obeyed(objects, rig)  BY <1>2, <1>3 DEF Tuned, Obeyed
<1>6. Heard(signals, calls, objects, command) /\ Confirmed(signals, objects, command, rig)
  BY <1>2, <1>3 DEF Heard, Confirmed
<1>. QED BY <1>1, <1>2, <1>4, <1>5, <1>6 DEF OrderInv, Healthy

LEMMA NextOrder == OrderInv /\ [Next]_vars => OrderInv'
<1>. SUFFICES ASSUME OrderInv, [Next]_vars PROVE OrderInv'  OBVIOUS
<1>1. CASE RunSlot  BY <1>1, RunSlotOrder
<1>2. CASE HandleSignal  BY <1>2, HandleSignalOrder
<1>3. CASE \E i \in DOMAIN objects : PollTimer(i)  BY <1>3, PollTimerOrder
<1>4. CASE \E f \in Freqs : Dial(f) \/ Qsy(f)  BY <1>4, DialOrder, QsyOrder
<1>5. CASE MoveOffset \/ Reopen \/ Key \/ StopTx \/ StopTx2  BY <1>5, UserOrder
<1>6. CASE UNCHANGED vars
  <2>1. IInv'  BY NextStep DEF OrderInv
  <2>2. UNCHANGED <<calls, signals, objects, rig, active, command, client>>
    BY <1>6 DEF vars
  <2>. QED BY <2>1, <2>2 DEF OrderInv
<1>. QED BY <1>1, <1>2, <1>3, <1>4, <1>5, <1>6 DEF Next

\* The second invariant, for every step of the transceivers and of the window.
THEOREM CallsInOrder == Spec => []OrderInv
  BY InitOrder, NextOrder, PTL DEF Spec

\* For any number of commands, of transceivers closed and opened, and of CAT commands
\* that fail in any place, before or after they took effect: with split the rig
\* transmits on the transmit frequency only, unless it refused a release or its dial
\* was turned.
THEOREM SplitIsKept == Spec => []SplitKept
<1>1. OrderInv => SplitKept  BY DEF OrderInv, Tuned, SplitKept
<1>. QED BY CallsInOrder, <1>1, PTL

\* At rest the window shows what the rig does, whatever updates were dropped because
\* they answered an older command, withheld until a change is stable, or repeated.
THEOREM RigIsShown == Spec => []ShowsTheRig
<1>1. OrderInv => ShowsTheRig
  <2>. SUFFICES ASSUME OrderInv, Settled
       PROVE  /\ client.state = Seen(Newest, Newest.actual)
              /\ client.state.online /\ Newest.seq = command
    BY DEF ShowsTheRig
  <2>1. /\ calls = <<>> /\ signals = <<>> /\ active /\ Newest.retries = 0
    BY DEF Settled
  <2>2. Healthy(signals, active)  BY <2>1 DEF Healthy
  <2>3. Answered(signals, calls, objects, command, client.state)
    BY <2>2 DEF OrderInv
  <2>4. /\ Newest.seq = command /\ Newest.last = Newest.actual
        /\ client.state = Seen(Newest, Newest.last) /\ Newest.requested.online
    <3>1. DOMAIN calls = {}  BY <2>1
    <3>. QED BY <2>1, <2>3, <3>1 DEF Answered, Steady, Newest
  <2>5. Newest \in ObjectRecord(command) /\ Len(objects) \in DOMAIN objects /\ command \in Nat
    <3>1. objects \in Seq(ObjectRecord(command)) /\ Len(objects) # 0 /\ command \in Nat
      BY <2>1, StateTyping DEF OrderInv
    <3>2. Len(objects) \in DOMAIN objects  BY <3>1
    <3>. QED BY <3>1, <3>2 DEF Newest
  <2>6. Newest.actual.online  BY <2>4, <2>5 DEF OrderInv, Obeyed, Tracked, Newest
  <2>7. Newest.actual \in State  BY <2>5, OfObject
  <2>8. Seen(Newest, Newest.actual).online = Newest.actual.online  BY <2>5, <2>7, SeenIs
  <2>. QED BY <2>4, <2>6, <2>8
<1>. QED BY CallsInOrder, <1>1, PTL

\* Audio starts only into a keyed rig, however late updates are handled, unless the
\* rig refused a release or the newest transceiver is offline.
THEOREM AudioIsKeyed == Spec => AudioIntoKeyed
<1>. DEFINE A == ~client.audio /\ client'.audio =>
                   rig.keyed \/ rig.refused \/ ~Newest.requested.online
<1>1. OrderInv /\ [Next]_vars => [A]_vars
  <2>. SUFFICES ASSUME OrderInv, Next, ~client.audio, client'.audio
       PROVE  rig.keyed \/ rig.refused \/ ~Newest.requested.online
    OBVIOUS
  <2>1. client \in ClientRecord  BY DEF OrderInv, IInv, Typed
  <2>2. HandleSignal
    <3>1. RunSlot => client' = client  BY DEF RunSlot, Ran
    <3>2. \A i \in DOMAIN objects : PollTimer(i) => client' = client  BY DEF PollTimer, Ran
    <3>3. \A f \in Freqs : Dial(f) => client' = client  BY DEF Dial
    <3>4. \A f \in Freqs : Qsy(f) => client'.audio = client.audio
      BY <2>1 DEF Qsy, ClientRecord
    <3>5. MoveOffset \/ Reopen => client' = client  BY DEF MoveOffset, Reopen
    <3>6. Key \/ StopTx2 => client'.audio = client.audio
      BY <2>1 DEF Key, StopTx2, ClientRecord
    <3>7. StopTx => ~client'.audio  BY <2>1 DEF StopTx, ClientRecord
    <3>. QED BY <3>1, <3>2, <3>3, <3>4, <3>5, <3>6, <3>7 DEF Next
  <2>. DEFINE m == Head(signals)
  <2>3. /\ m.kind = "update" /\ PassedOn(m.seq)
        /\ client' = Updated(client, m.state)
    BY <2>2 DEF HandleSignal
  <2>4. 1 \in DOMAIN signals /\ m = signals[1]
    <3>1. signals \in Seq(Signal) /\ signals # <<>>
      BY <2>2, StateTyping DEF OrderInv, HandleSignal
    <3>. QED BY <3>1
  <2>. HIDE DEF m
  <2>5. m.state.ptt
    <3>1. Updated(client, m.state).audio
          = (client.audio \/ (m.state.ptt /\ ~client.state.ptt /\ client.confirm /\ client.iptt))
      BY <2>1 DEF Updated, ClientRecord
    <3>. QED BY <2>3, <3>1
  <2>. QED BY <2>3, <2>4, <2>5 DEF OrderInv, Confirmed, PassedOn, Newest
<1>. QED BY CallsInOrder, <1>1, PTL DEF Spec, AudioIntoKeyed
=============================================================================
