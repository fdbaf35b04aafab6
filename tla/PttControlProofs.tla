-------------------------- MODULE PttControlProofs --------------------------
(***************************************************************************)
(* Proofs about PttControl.                                                *)
(*                                                                         *)
(* The invariant is inductive part by part: each lemma "<action>Step" has  *)
(* one step for each part, after the facts the parts share, which carry    *)
(* the same label in every proof:                                          *)
(*   t  TypeOK, b the flags that are assigned, S the session's types,      *)
(*   T0, T1, ... the types of what else is assigned, R of a report,        *)
(*   g  where the thread was, p where the threads are now,                 *)
(*   w, v  the runnables that wait on Js8Tx, q the replies,                *)
(*   f  what the step leaves alone, e what it assigns,                     *)
(*   u  the commands under way, s the messages under way.                  *)
(***************************************************************************)
EXTENDS PttControl, SequenceTheorems, FiniteSetTheorems, TLAPS
-----------------------------------------------------------------------------
(* The inductive invariant, part by part.                                  *)

StopLabels == {"stop2", "stop3", "stop4", "stop5", "stop6"}
MonitorLabels == {"unlinked", "close", "lock", "grant", "post", "check", "hold", "edge",
                  "repost"}
SendLabels == {"prepare", "submit", "accepted"}

\* Where the service is between its start and the end of a stop.
StopPhases ==
  /\ stops = 0 => engine = "open" /\ pc[Main] \notin StopLabels /\ ~shuttingDown
  /\ pc[Main] \in MonitorLabels \cup SendLabels => stops = 0
  /\ engine = "open" =>
       stops = 0 \/ (stops = 1 /\ pc[Main] \in {"stop2", "stop3", "stop4", "stop5"})
  /\ mode => stops = 0 \/ (stops = 1 /\ pc[Main] \in {"stop2", "stop3", "stop4"})
  /\ mode <=> link # "none"
  /\ mode => engine = "open"
  /\ pc[Main] = "stop5" => ~mode
  /\ Waiting(txTasks, "release") > 0 => ~mode /\ stops > 0

\* Messages that wait for Js8Tx or are on their way through a thread.
Submissions ==
  Waiting(txTasks, "send") + Count(pc[Main] \in SendLabels)
  + Count(pc[Js8Tx] \in SendLabels)

\* No transmission is numbered that nobody asked for.
Budget == gen + Submissions <= sends + heartbeats + stops

\* The generations that the failures, and the completions, under way are about.
FailToken(g) ==
  \/ \E r \in Range(mainQueue) : r.failGen = g
  \/ pc[Js8Tx] = "apply" /\ out.failGen = g
  \/ pc[Main] = "fail" /\ mon.gen = g

\* No generation is ahead of the current one.
Generations ==
  /\ desiredGen = gen
  /\ stops <= gen
  /\ completion <= gen
  /\ mon.gen <= gen /\ req.done <= gen
  /\ pc[Js8Tx] \in {"rig", "result"} => cmd.gen <= gen
  /\ pc[Js8Tx] = "apply" => out.done <= gen /\ out.failGen <= gen
  /\ \A r \in Range(mainQueue) : r.done <= gen /\ r.failGen <= gen

\* One command, known to rigPttCommandPending until a stop clears it (stop3) and
\* leaves it running.  When the service has given up there is none.
CommandsCounted ==
  /\ UnderWay <= 1
  /\ pending => UnderWay = 1 \/ pc[Main] = "stop3"
  /\ UnderWay = 1 => pending \/ stops > 0
  /\ failures > Retries => UnderWay = 0 /\ (stops = 0 => desired = asserted)
  /\ pc[Main] = "grant" => ~pending /\ asserted = req.on

\* A failure ends with PTT no longer desired, and a stop has none to handle.
FailureGoesOn ==
  /\ shuttingDown => ~pttFailed /\ ~FailToken(gen)
  /\ stops > 0 /\ ~pttFailed /\ FailToken(gen) => UnderWay = 0
  /\ pc[Main] \in {"stop2", "stop3"} => ~pttFailed
  /\ pttFailed /\ UnderWay = 1 => ~desired

\* The gate is open for a message that is sent or about to be only with PTT, or
\* for the moment it takes runRigPttCommand to close it.
GateKept ==
  /\ mode /\ ready /\ (Transmitting \/ \E t \in {Main, Js8Tx} : pc[t] = "submit")
       => asserted \/ (pc[Js8Tx] = "apply" /\ out.gate = "close")
  /\ pc[Js8Tx] = "apply" /\ out.gate = "open" => asserted \/ ~mode

\* Without a link that has been up nothing keys the radio.
LinkFirst ==
  /\ link \in {"none", "opening"} /\ stops = 0 =>
       /\ UnderWay = 0 /\ ~asserted
  /\ pc[Main] \in {"close", "lock", "grant", "post", "check", "hold"} =>
       link \in {"up", "lost"}
  /\ pc[Main] = "edge" /\ mon.linked => link \in {"up", "lost"}
  /\ pc[Main] = "unlinked" /\ link = "up" => UnderWay = 0 /\ ~asserted

\* A completion of the current generation waits somewhere.
Ended ==
  /\ gen # 0
  /\ \/ completion = gen
     \/ pc[Main] \in {"close", "lock", "grant"} /\ req.done = gen
     \/ pc[Js8Tx] = "apply" /\ out.done = gen
     \/ \E r \in Range(mainQueue) : r.done = gen

\* A completion of the current generation on its way that will say FINISHED.
OkToken ==
  \/ pc[Js8Tx] = "apply" /\ out.done = gen /\ out.ok
  \/ \E r \in Range(mainQueue) : r.done = gen /\ r.ok

\* Until a stop a completion closes over a generation whose session is over, and
\* belongs to a release; what can start before it is said is only a message whose
\* generation is about to be numbered.
Completions ==
  stops = 0 =>
  /\ completion # 0 => pending
  /\ pc[Main] \in {"close", "lock", "grant"} /\ req.done # 0 => ~req.on
  /\ pc[Main] \in {"close", "lock"} /\ req.done # 0 => req.done = mon.gen
  /\ pc[Main] = "close" => ~req.on
  /\ Ended => ~Transmitting \/ pc[Js8Tx] = "accepted" \/ pc[Main] = "accepted"
  /\ Ended /\ pc[Main] = "lock" /\ req.on /\ mon.gen = gen => pc[Js8Tx] = "accepted"
  /\ gen # 0 /\ completion = gen => ~desired \/ pc[Js8Tx] = "accepted"
  /\ gen # 0 /\ OkToken => ~asserted /\ (UnderWay = 0 \/ pc[Js8Tx] = "accepted")

\* The first stop has posted its teardown; later stops find no link left.
PastStop4 == stops > 0 /\ (stops = 1 => pc[Main] \notin {"stop2", "stop3", "stop4"})

\* A radio that does what it is told, on a link that stays.
Obeying == ~RigMayFail /\ ~LinkMayDrop

\* The radio is keyed or a command that may key it is running.
CanKey == asserted \/ (pc[Js8Tx] = "rig" /\ cmd.linked) \/ (pc[Js8Tx] = "result" /\ cmd.ok)

\* After the teardown of the first stop is posted, what is keyed will be released or
\* that teardown was dropped.
ReleaseComes ==
  Obeying =>
   /\ link # "lost"
   /\ pc[Js8Tx] \in {"rig", "result"} /\ cmd.ok => cmd.linked
   /\ ~PastStop4 /\ link # "up" => ~CanKey
   /\ PastStop4 /\ CanKey => dropped \/ Waiting(txTasks, "release") > 0

IInv ==
  /\ TypeOK /\ StopPhases /\ Budget /\ Generations /\ CommandsCounted /\ FailureGoesOn
  /\ GateKept /\ LinkFirst /\ Completions /\ ReleaseComes

USE DEF Main, Js8Tx, sessionVars, rigVars, lockVars, monVars, localVars, cmdVars, countVars,
        saidVars, NoMon, NoReq, NoCmd, NoOut, StopLabels, MonitorLabels, SendLabels

\* Where a runnable waits.
Places(tasks, task) == {i \in DOMAIN tasks : tasks[i] = task}

-----------------------------------------------------------------------------
(* Queues and counts.                                                      *)

\* A queue of Js8Tx holds finitely many runnables of a kind.
LEMMA PlacesFinite ==
  ASSUME NEW S, NEW s \in Seq(S), NEW x
  PROVE  /\ IsFiniteSet(Places(s, x))
         /\ Places(s, x) \in SUBSET (1 .. Len(s))
         /\ Waiting(s, x) = Cardinality(Places(s, x))
         /\ Waiting(s, x) \in Nat
<1>1. Len(s) \in Nat /\ DOMAIN s = 1 .. Len(s)
  BY LenProperties
<1>2. Places(s, x) \in SUBSET (1 .. Len(s))
  BY <1>1 DEF Places
<1>3. IsFiniteSet(1 .. Len(s))
  BY <1>1, FS_Interval
<1>4. IsFiniteSet(Places(s, x))
  BY <1>2, <1>3, FS_Subset
<1>5. Waiting(s, x) = Cardinality(Places(s, x))
  BY DEF Waiting, Places
<1> QED BY <1>2, <1>4, <1>5, FS_CardinalityType

\* Nothing waits in an empty queue.
LEMMA WaitingEmpty == \A x : Waiting(<<>>, x) = 0
<1> SUFFICES ASSUME NEW x PROVE Waiting(<<>>, x) = 0
  OBVIOUS
<1>1. {i \in DOMAIN <<>> : <<>>[i] = x} = {}
  OBVIOUS
<1> QED BY <1>1, FS_EmptySet DEF Waiting

\* A runnable that is posted is counted.
LEMMA WaitingAppend ==
  ASSUME NEW S, NEW s \in Seq(S), NEW y \in S, NEW x
  PROVE  Waiting(Append(s, y), x) = Waiting(s, x) + Count(y = x)
<1>1. /\ Append(s, y) \in Seq(S) /\ Len(s) \in Nat
      /\ DOMAIN s = 1 .. Len(s) /\ DOMAIN Append(s, y) = 1 .. Len(s) + 1
      /\ \A i \in 1 .. Len(s) : Append(s, y)[i] = s[i]
      /\ Append(s, y)[Len(s) + 1] = y
  BY AppendProperties, LenProperties
<1>2. Places(s, x) \in SUBSET (1 .. Len(s))
  BY PlacesFinite
<1>3. /\ Places(Append(s, y), x)
           = IF y = x THEN Places(s, x) \cup {Len(s) + 1} ELSE Places(s, x)
      /\ Len(s) + 1 \notin Places(s, x)
  BY <1>1, <1>2 DEF Places
<1>4. /\ IsFiniteSet(Places(s, x))
      /\ Waiting(s, x) = Cardinality(Places(s, x)) /\ Waiting(s, x) \in Nat
      /\ Waiting(Append(s, y), x) = Cardinality(Places(Append(s, y), x))
  BY <1>1, PlacesFinite
<1>5. CASE y = x
  <2>1. Cardinality(Places(s, x) \cup {Len(s) + 1}) = Cardinality(Places(s, x)) + 1
    BY <1>3, <1>4, FS_AddElement
  <2>2. Places(Append(s, y), x) = Places(s, x) \cup {Len(s) + 1}
    BY <1>3, <1>5
  <2>3. Count(y = x) = 1
    BY <1>5 DEF Count
  <2> QED BY <1>4, <2>1, <2>2, <2>3
<1>6. CASE y # x
  BY <1>3, <1>4, <1>6 DEF Count
<1> QED BY <1>5, <1>6

\* A runnable that is taken is no longer counted.
LEMMA WaitingTail ==
  ASSUME NEW S, NEW s \in Seq(S), s # <<>>, NEW x
  PROVE  Waiting(s, x) = Waiting(Tail(s), x) + Count(Head(s) = x)
<1>1. /\ Tail(s) \in Seq(S) /\ Len(s) \in Nat /\ Len(Tail(s)) = Len(s) - 1
      /\ \A i \in 1 .. Len(Tail(s)) : Tail(s)[i] = s[i + 1]
      /\ Head(s) = s[1]
  BY HeadTailProperties, LenProperties
<1>2. Len(Tail(s)) \in Nat
  BY <1>1
<1> DEFINE P == Places(s, x)
           Q == Places(Tail(s), x)
           f == [j \in Q |-> j + 1]
<1>3. P \ {1} = {j + 1 : j \in Q}
  <2>1. DOMAIN s = 1 .. Len(s) /\ DOMAIN Tail(s) = 1 .. Len(Tail(s))
    BY <1>1, LenProperties
  <2>2. ASSUME NEW i \in P \ {1} PROVE i \in {j + 1 : j \in Q}
    <3>1. i - 1 \in Q
      BY <1>1, <2>1, <2>2 DEF Places
    <3> QED BY <2>1, <2>2, <3>1 DEF Places
  <2>3. ASSUME NEW j \in Q PROVE j + 1 \in P \ {1}
    BY <1>1, <2>1, <2>3 DEF Places
  <2> QED BY <2>2, <2>3
<1>5. f \in Bijection(Q, P \ {1})
  BY <1>1, <1>2, <1>3 DEF Places, Bijection, Injection, Surjection, IsInjective
<1>6. IsFiniteSet(P) /\ IsFiniteSet(Q) /\ Waiting(s, x) = Cardinality(P)
      /\ Waiting(Tail(s), x) = Cardinality(Q) /\ Cardinality(P) \in Nat
  BY <1>1, PlacesFinite
<1>7. Cardinality(P \ {1}) = Cardinality(Q)
  BY <1>5, <1>6, FS_Bijection DEF ExistsBijection
<1>8. 1 \in P <=> Head(s) = x
  BY <1>1 DEF Places
<1>9. Cardinality(P \ {1}) = IF 1 \in P THEN Cardinality(P) - 1 ELSE Cardinality(P)
  BY <1>6, FS_RemoveElement
<1> QED BY <1>6, <1>7, <1>8, <1>9 DEF Count

\* post on Js8Tx: one more of that kind, as many of every other.
LEMMA TasksAppend ==
  ASSUME txTasks \in Seq(Task), NEW y \in Task
  PROVE  /\ Append(txTasks, y) \in Seq(Task)
         /\ Waiting(Append(txTasks, y), y) = Waiting(txTasks, y) + 1
         /\ \A x : x # y => Waiting(Append(txTasks, y), x) = Waiting(txTasks, x)
<1>1. Append(txTasks, y) \in Seq(Task)
  BY AppendProperties
<1>2. \A x : /\ Waiting(Append(txTasks, y), x) = Waiting(txTasks, x) + Count(y = x)
             /\ Waiting(txTasks, x) \in Nat
  BY WaitingAppend, PlacesFinite
<1>3. Waiting(Append(txTasks, y), y) = Waiting(txTasks, y) + 1
  BY <1>2 DEF Count
<1>4. ASSUME NEW x, x # y PROVE Waiting(Append(txTasks, y), x) = Waiting(txTasks, x)
  BY <1>2, <1>4 DEF Count
<1> QED BY <1>1, <1>3, <1>4

\* Js8Tx takes its first runnable: one less of that kind.
LEMMA TasksTail ==
  ASSUME txTasks \in Seq(Task), txTasks # <<>>
  PROVE  /\ Tail(txTasks) \in Seq(Task) /\ Head(txTasks) \in Task
         /\ Waiting(txTasks, Head(txTasks)) > 0
         /\ Waiting(Tail(txTasks), Head(txTasks)) = Waiting(txTasks, Head(txTasks)) - 1
         /\ \A x : x # Head(txTasks) => Waiting(Tail(txTasks), x) = Waiting(txTasks, x)
<1>1. Tail(txTasks) \in Seq(Task) /\ Head(txTasks) \in Task
  BY HeadTailProperties
<1> DEFINE h == Head(txTasks)
<1>2. \A x : /\ Waiting(txTasks, x) = Waiting(Tail(txTasks), x) + Count(h = x)
             /\ Waiting(Tail(txTasks), x) \in Nat
  BY <1>1, WaitingTail, PlacesFinite
<1> HIDE DEF h
<1>3. /\ Waiting(txTasks, h) > 0
      /\ Waiting(Tail(txTasks), h) = Waiting(txTasks, h) - 1
  BY <1>2 DEF Count
<1>4. ASSUME NEW x, x # h PROVE Waiting(Tail(txTasks), x) = Waiting(txTasks, x)
  BY <1>2, <1>4 DEF Count
<1> QED BY <1>1, <1>3, <1>4 DEF h

\* A reply that is posted to the main looper joins those that wait.
LEMMA RepliesAppend ==
  ASSUME mainQueue \in Seq(Reply), NEW r \in Reply
  PROVE  /\ Append(mainQueue, r) \in Seq(Reply)
         /\ Range(Append(mainQueue, r)) = Range(mainQueue) \cup {r}
<1>1. /\ Append(mainQueue, r) \in Seq(Reply) /\ Len(mainQueue) \in Nat
      /\ DOMAIN mainQueue = 1 .. Len(mainQueue)
      /\ DOMAIN Append(mainQueue, r) = 1 .. Len(mainQueue) + 1
      /\ \A i \in 1 .. Len(mainQueue) : Append(mainQueue, r)[i] = mainQueue[i]
      /\ Append(mainQueue, r)[Len(mainQueue) + 1] = r
  BY AppendProperties, LenProperties
<1> QED BY <1>1 DEF Range

\* The main looper takes a reply that waited; the others waited before.
LEMMA RepliesTail ==
  ASSUME mainQueue \in Seq(Reply), mainQueue # <<>>
  PROVE  /\ Tail(mainQueue) \in Seq(Reply) /\ Head(mainQueue) \in Reply
         /\ Head(mainQueue) \in Range(mainQueue)
         /\ Range(Tail(mainQueue)) \subseteq Range(mainQueue)
<1>1. /\ Tail(mainQueue) \in Seq(Reply) /\ Len(mainQueue) \in Nat /\ Len(mainQueue) # 0
      /\ Len(Tail(mainQueue)) = Len(mainQueue) - 1
      /\ DOMAIN mainQueue = 1 .. Len(mainQueue)
      /\ DOMAIN Tail(mainQueue) = 1 .. Len(Tail(mainQueue))
      /\ \A i \in 1 .. Len(Tail(mainQueue)) : Tail(mainQueue)[i] = mainQueue[i + 1]
      /\ Head(mainQueue) \in Reply /\ Head(mainQueue) = mainQueue[1]
  BY HeadTailProperties, LenProperties
<1>2. Head(mainQueue) \in Range(mainQueue)
  BY <1>1 DEF Range
<1>3. Range(Tail(mainQueue)) \subseteq Range(mainQueue)
  BY <1>1 DEF Range
<1> QED BY <1>1, <1>2, <1>3

\* A step of the main looper leaves Js8Tx where it is.
LEMMA GotoMain ==
  ASSUME pc \in Control, NEW l \in MainLabels, Goto(Main, l)
  PROVE  pc' \in Control /\ pc'[Main] = l /\ pc'[Js8Tx] = pc[Js8Tx]
BY DEF Goto, Control

\* And the reverse.
LEMMA GotoJs8Tx ==
  ASSUME pc \in Control, NEW l \in TxLabels, Goto(Js8Tx, l)
  PROVE  pc' \in Control /\ pc'[Js8Tx] = l /\ pc'[Main] = pc[Main]
BY DEF Goto, Control

\* A transmission that was asked for has a generation.
LEMMA BudgetGens ==
  ASSUME TypeOK, NEW g \in Nat, g <= sends + heartbeats + stops
  PROVE  g \in Gens
BY PttAssumption DEF PttAssumption, TypeOK, Gens

LEMMA WaitingType ==
  ASSUME TypeOK
  PROVE  \A x : Waiting(txTasks, x) \in Nat
BY PlacesFinite DEF TypeOK

-----------------------------------------------------------------------------
(* Types.                                                                  *)

\* The parts of TypeOK that the steps need one by one: where the threads are,
LEMMA ControlTypes ==
  ASSUME TypeOK
  PROVE  /\ pc \in Control /\ pc[Main] \in MainLabels /\ pc[Js8Tx] \in TxLabels
         /\ req.next \in {"idle", "edge", "repost"}
         /\ txTasks \in Seq(Task) /\ mainQueue \in Seq(Reply)
BY DEF TypeOK, Control, RequestLocals

\* the numbers,
LEMMA NumberTypes ==
  ASSUME TypeOK
  PROVE  /\ gen \in Nat /\ desiredGen \in Nat /\ completion \in Nat
         /\ mon.gen \in Nat /\ req.done \in Nat /\ cmd.gen \in Nat
         /\ out.done \in Nat /\ out.failGen \in Nat
         /\ failures \in Nat /\ Retries \in Nat
         /\ sends \in Nat /\ heartbeats \in Nat /\ stops \in Nat
         /\ UnderWay \in Nat /\ Submissions \in Nat
<1>1. Gens \subseteq Nat
  BY PttAssumption DEF PttAssumption, Gens
<1>2. gen \in Nat /\ desiredGen \in Nat /\ completion \in Nat
  BY <1>1 DEF TypeOK
<1>3. mon.gen \in Nat /\ req.done \in Nat /\ cmd.gen \in Nat
  BY <1>1 DEF TypeOK, MonitorLocals, RequestLocals, Command
<1>4. out.done \in Nat /\ out.failGen \in Nat
  BY <1>1 DEF TypeOK, Outcome
<1>5. /\ failures \in Nat /\ Retries \in Nat
      /\ sends \in Nat /\ heartbeats \in Nat /\ stops \in Nat
  BY PttAssumption DEF TypeOK, PttAssumption
<1>6. UnderWay \in Nat /\ Submissions \in Nat
  BY WaitingType DEF UnderWay, Submissions, Count
<1> QED BY <1>2, <1>3, <1>4, <1>5, <1>6

\* the flags,
LEMMA FlagTypes ==
  ASSUME TypeOK
  PROVE  /\ asserted \in BOOLEAN /\ desired \in BOOLEAN /\ pending \in BOOLEAN
         /\ shuttingDown \in BOOLEAN /\ pttFailed \in BOOLEAN
         /\ mode \in BOOLEAN /\ ready \in BOOLEAN
         /\ mon.audio \in BOOLEAN /\ mon.linked \in BOOLEAN
         /\ req.on \in BOOLEAN
         /\ cmd.on \in BOOLEAN /\ cmd.linked \in BOOLEAN /\ cmd.ok \in BOOLEAN
         /\ out.gate \in {"keep", "open", "close"} /\ out.ok \in BOOLEAN
         /\ out.again \in BOOLEAN
BY DEF TypeOK, SessionTypeOK, MonitorLocals, RequestLocals, Command, Outcome

\* the replies,
LEMMA ReplyTypes ==
  ASSUME TypeOK
  PROVE  \A r \in Range(mainQueue) :
           r \in Reply /\ r.done \in Nat /\ r.failGen \in Nat /\ r.ok \in BOOLEAN
<1>1. Gens \subseteq Nat
  BY PttAssumption DEF PttAssumption, Gens
<1>2. \A r \in Range(mainQueue) : r \in Reply
  BY DEF TypeOK, Range
<1>3. \A r \in Reply : r.done \in Nat /\ r.failGen \in Nat /\ r.ok \in BOOLEAN
  BY <1>1 DEF Reply
<1> QED BY <1>2, <1>3

\* the generations.
LEMMA Locals ==
  ASSUME TypeOK
  PROVE  /\ 0 \in Gens /\ gen \in Gens /\ desiredGen \in Gens /\ completion \in Gens
         /\ mon.gen \in Gens /\ req.done \in Gens /\ cmd.gen \in Gens
         /\ out.done \in Gens /\ out.failGen \in Gens
         /\ mon \in MonitorLocals /\ req \in RequestLocals /\ cmd \in Command
         /\ out \in Outcome
         /\ NoMon \in MonitorLocals /\ NoReq \in RequestLocals /\ NoCmd \in Command
         /\ NoOut \in Outcome
<1>1. 0 \in Gens  BY PttAssumption DEF PttAssumption, Gens
<1>2. NoMon \in MonitorLocals /\ NoReq \in RequestLocals
  BY <1>1 DEF MonitorLocals, RequestLocals
<1>3. NoCmd \in Command /\ NoOut \in Outcome  BY <1>1 DEF Command, Outcome
<1>4. mon.gen \in Gens /\ req.done \in Gens /\ cmd.gen \in Gens
  BY DEF TypeOK, MonitorLocals, RequestLocals, Command
<1>5. out.done \in Gens /\ out.failGen \in Gens  BY DEF TypeOK, Outcome
<1>. QED BY <1>1, <1>2, <1>3, <1>4, <1>5 DEF TypeOK

\* What a report leaves in told and lastReport.
LEMMA ReportTypes ==
  ASSUME TypeOK, NEW g \in Gens, NEW state \in {"finished", "failed"}, Report(g, state)
  PROVE  told' \in [Gens -> Nat] /\ lastReport' \in {"none", "finished", "failed"}
BY DEF TypeOK, Report

LEMMA CompleteTypes ==
  ASSUME TypeOK, NEW g \in Gens, NEW ok, Complete(g, ok)
  PROVE  told' \in [Gens -> Nat] /\ lastReport' \in {"none", "finished", "failed"}
<1>1. CASE g # 0 /\ g = gen  BY <1>1, ReportTypes DEF Complete
<1>2. CASE ~(g # 0 /\ g = gen)  BY <1>2 DEF Complete, TypeOK
<1>. QED BY <1>1, <1>2

-----------------------------------------------------------------------------
(* One lemma per action: the step keeps the invariant.                     *)

\* A crash changes nothing but crashed.
LEMMA CrashStep ==
  ASSUME IInv, Crash
  PROVE  IInv'
<1>w. /\ UNCHANGED pc /\ UNCHANGED out /\ UNCHANGED UnderWay /\ UNCHANGED Submissions
      /\ \A x : UNCHANGED Waiting(txTasks, x)
  BY DEF Crash, UnderWay, Submissions
<1>1. TypeOK'  BY <1>w DEF IInv, TypeOK, SessionTypeOK, Phase, Crash
<1>2. StopPhases'  BY <1>w DEF IInv, StopPhases, Crash
<1>3. Budget'  BY <1>w DEF IInv, Budget, Crash
<1>4. Generations'  BY <1>w DEF IInv, Generations, Crash
<1>5. CommandsCounted'
  BY <1>w DEF IInv, CommandsCounted, StopPhases, Generations, Crash
<1>6. FailureGoesOn'
  BY <1>w DEF IInv, FailureGoesOn, FailToken, CommandsCounted, Generations, StopPhases,
     Crash
<1>7. GateKept'
  BY <1>w DEF IInv, GateKept, Transmitting, CommandsCounted, StopPhases, Crash
<1>8. LinkFirst'  BY <1>w DEF IInv, LinkFirst, CommandsCounted, StopPhases, Crash
<1>9. Completions'
  BY <1>w DEF IInv, Completions, Ended, OkToken, Transmitting, Generations,
     CommandsCounted, StopPhases, Crash
<1>10. ReleaseComes'
  BY <1>w DEF IInv, ReleaseComes, CanKey, PastStop4, Obeying, LinkFirst,
     CommandsCounted, StopPhases, Crash
<1>. QED BY <1>1, <1>2, <1>3, <1>4, <1>5, <1>6, <1>7, <1>8, <1>9, <1>10 DEF IInv

\* A run of the monitor after the engine has gone.
LEMMA MonitorWithoutEngineStep ==
  ASSUME IInv, MonitorWithoutEngine
  PROVE  IInv'
<1>t. TypeOK  BY DEF IInv
<1>b. monitorActive' \in BOOLEAN
  BY <1>t DEF TypeOK, SessionTypeOK, MonitorWithoutEngine, MonitorRuns
<1>p. UNCHANGED pc  BY DEF MonitorWithoutEngine, MonitorRuns
<1>w. UNCHANGED txTasks /\ \A x : UNCHANGED Waiting(txTasks, x)
  BY <1>t DEF MonitorWithoutEngine, MonitorRuns
<1>u. UNCHANGED UnderWay
  BY <1>t, <1>p, <1>w DEF UnderWay, Count, MonitorWithoutEngine, MonitorRuns
<1>s. UNCHANGED Submissions  BY <1>t, <1>p, <1>w, WaitingType DEF Submissions, Count
<1>S. SessionTypeOK'
  BY <1>t, <1>b, PttAssumption DEF PttAssumption, TypeOK, SessionTypeOK, Phase,
     MonitorWithoutEngine, MonitorRuns
<1>1. TypeOK'
  BY <1>t, <1>p, <1>w, <1>b, <1>S, Locals DEF TypeOK, MonitorWithoutEngine, MonitorRuns
<1>. USE <1>t, <1>p
<1>2. StopPhases'
  BY <1>w, NumberTypes DEF IInv, StopPhases, MonitorWithoutEngine, MonitorRuns
<1>3. Budget'  BY <1>s, NumberTypes DEF IInv, Budget, MonitorWithoutEngine, MonitorRuns
<1>4. Generations'
  BY NumberTypes DEF IInv, Generations, MonitorWithoutEngine, MonitorRuns
<1>5. CommandsCounted'
  BY <1>u, NumberTypes DEF IInv, CommandsCounted, MonitorWithoutEngine, MonitorRuns
<1>6. FailureGoesOn'
  BY <1>u, NumberTypes, FlagTypes DEF IInv, FailureGoesOn, FailToken,
     MonitorWithoutEngine, MonitorRuns
<1>7. GateKept'
  BY FlagTypes DEF IInv, GateKept, Transmitting, MonitorWithoutEngine, MonitorRuns
<1>8. LinkFirst'  BY <1>u DEF IInv, LinkFirst, MonitorWithoutEngine, MonitorRuns
<1>9. Completions'
  BY <1>u, NumberTypes, FlagTypes DEF IInv, Completions, Ended, OkToken, Transmitting,
     MonitorWithoutEngine, MonitorRuns
<1>10. ReleaseComes'
  BY <1>w, FlagTypes DEF IInv, ReleaseComes, CanKey, PastStop4, MonitorWithoutEngine,
     MonitorRuns
<1>. QED BY <1>1, <1>2, <1>3, <1>4, <1>5, <1>6, <1>7, <1>8, <1>9, <1>10 DEF IInv

\* Completions: the release that closes over gen is asked for only now that
\* nothing is transmitted.
LEMMA MonitorAfterSessionStep ==
  ASSUME IInv, MonitorAfterSession
  PROVE  IInv'
<1>t. TypeOK  BY DEF IInv
<1>b. monitorActive' \in BOOLEAN /\ wasAudio' \in BOOLEAN /\ txBusy' \in BOOLEAN
  BY <1>t DEF TypeOK, SessionTypeOK, MonitorAfterSession, MonitorRuns, Sampled, Linked,
     TransmittingAudio
<1>g. pc[Main] = "idle"
  BY DEF MonitorAfterSession, MonitorRuns, Sampled, Linked, TransmittingAudio
<1>1. CASE Linked
  <2>p. pc' \in Control /\ pc'[Main] = "close" /\ UNCHANGED pc[Js8Tx]
    BY <1>1, <1>t, GotoMain, ControlTypes DEF MainLabels, TxLabels,
       MonitorAfterSession, MonitorRuns, Sampled, Linked, TransmittingAudio
  <2>w. UNCHANGED txTasks /\ \A x : UNCHANGED Waiting(txTasks, x)
    BY <1>1, <1>t DEF MonitorAfterSession, MonitorRuns, Sampled, Linked, TransmittingAudio
  <2>f. UNCHANGED <<sessionVars, rigVars, lockVars, mainQueue, cmdVars, countVars,
                    crashed, saidVars, cut>>
    BY <1>1, <1>t, <1>g DEF MonitorAfterSession, MonitorRuns, Sampled, Linked,
       TransmittingAudio
  <2>e. /\ mon' = [gen |-> gen, audio |-> TransmittingAudio, linked |-> TRUE]
        /\ req' = [on |-> FALSE, done |-> gen, next |-> "idle"]
        /\ engine = "open" /\ ~Transmitting /\ link = "up"
        /\ monitorPosted' = monitorPosted - 1 /\ monitorPosted > 0
    BY <1>1, <1>t, <1>g DEF MonitorAfterSession, MonitorRuns, Sampled, Linked,
       TransmittingAudio
  <2>u. UNCHANGED UnderWay
    BY <1>1, <1>t, <2>p, <2>w, <2>f, <2>e, <1>g, WaitingType DEF UnderWay, Count
  <2>s. UNCHANGED Submissions
    BY <1>1, <1>t, <2>p, <2>w, <2>f, <1>g, WaitingType DEF Submissions, Count
  <2>T0. mon' \in MonitorLocals
    BY <2>e, <1>t, Locals, FlagTypes DEF MonitorLocals, TransmittingAudio
  <2>T1. req' \in RequestLocals  BY <2>e, <1>t, Locals, FlagTypes DEF RequestLocals
  <2>S. SessionTypeOK'
    BY <1>1, <1>t, <2>f, <2>e, <1>b, PttAssumption DEF PttAssumption, TypeOK,
       SessionTypeOK, Phase
  <2>1. TypeOK'  BY <1>t, <2>p, <2>w, <2>f, <2>e, <1>b, <2>T0, <2>T1, <2>S DEF TypeOK
  <2>. USE <1>1, <1>t, <1>g, <2>p, <2>f, <2>e
  <2>2. StopPhases'  BY <2>w, NumberTypes DEF IInv, StopPhases
  <2>3. Budget'  BY <2>s, NumberTypes DEF IInv, Budget
  <2>4. Generations'  BY NumberTypes DEF IInv, Generations
  <2>5. CommandsCounted'  BY <2>u, NumberTypes DEF IInv, CommandsCounted
  <2>6. FailureGoesOn'
    BY <2>u, NumberTypes, FlagTypes DEF IInv, FailureGoesOn, FailToken
  <2>7. GateKept'  BY FlagTypes DEF IInv, GateKept, Transmitting
  <2>8. LinkFirst'  BY <2>u DEF IInv, LinkFirst
  <2>9. Completions'
    BY <2>u, NumberTypes, FlagTypes DEF IInv, Completions, Ended, OkToken, Transmitting
  <2>10. ReleaseComes'  BY <2>w, FlagTypes DEF IInv, ReleaseComes, CanKey, PastStop4
  <2>. QED BY <2>1, <2>2, <2>3, <2>4, <2>5, <2>6, <2>7, <2>8, <2>9, <2>10 DEF IInv
<1>2. CASE ~Linked
  <2>p. pc' \in Control /\ pc'[Main] = "unlinked" /\ UNCHANGED pc[Js8Tx]
    BY <1>2, <1>t, GotoMain, ControlTypes DEF MainLabels, TxLabels,
       MonitorAfterSession, MonitorRuns, Sampled, Linked, TransmittingAudio
  <2>w. UNCHANGED txTasks /\ \A x : UNCHANGED Waiting(txTasks, x)
    BY <1>2, <1>t DEF MonitorAfterSession, MonitorRuns, Sampled, Linked, TransmittingAudio
  <2>o. UNCHANGED out
    BY <1>2, <1>t DEF MonitorAfterSession, MonitorRuns, Sampled, Linked, TransmittingAudio
  <2>u. UNCHANGED UnderWay
    BY <1>2, <1>t, <2>p, <2>w, <1>g, <2>o, WaitingType DEF UnderWay, Count
  <2>s. UNCHANGED Submissions
    BY <1>2, <1>t, <2>p, <2>w, <1>g, WaitingType DEF Submissions, Count
  <2>T0. mon' \in MonitorLocals
    BY <1>2, <1>t, Locals, FlagTypes DEF MonitorLocals, MonitorAfterSession,
       MonitorRuns, Sampled, Linked, TransmittingAudio
  <2>S. SessionTypeOK'
    BY <1>2, <1>t, <1>b, PttAssumption DEF PttAssumption, TypeOK, SessionTypeOK,
       Phase, MonitorAfterSession, MonitorRuns, Sampled, Linked, TransmittingAudio
  <2>1. TypeOK'
    BY <1>2, <1>t, <2>p, <2>w, <1>b, <2>T0, <2>S, Locals DEF TypeOK,
       MonitorAfterSession, MonitorRuns, Sampled, Linked, TransmittingAudio
  <2>. USE <1>2, <1>t, <1>g, <2>p
  <2>2. StopPhases'
    BY <2>w, NumberTypes DEF IInv, StopPhases, MonitorAfterSession, MonitorRuns,
       Sampled, Linked, TransmittingAudio
  <2>3. Budget'
    BY <2>s, NumberTypes DEF IInv, Budget, MonitorAfterSession, MonitorRuns, Sampled,
       Linked, TransmittingAudio
  <2>4. Generations'
    BY NumberTypes DEF IInv, Generations, MonitorAfterSession, MonitorRuns, Sampled,
       Linked, TransmittingAudio
  <2>5. CommandsCounted'
    BY <2>u, NumberTypes DEF IInv, CommandsCounted, MonitorAfterSession, MonitorRuns,
       Sampled, Linked, TransmittingAudio
  <2>6. FailureGoesOn'
    BY <2>u, NumberTypes, FlagTypes DEF IInv, FailureGoesOn, FailToken,
       MonitorAfterSession, MonitorRuns, Sampled, Linked, TransmittingAudio
  <2>7. GateKept'
    BY FlagTypes DEF IInv, GateKept, Transmitting, MonitorAfterSession, MonitorRuns,
       Sampled, Linked, TransmittingAudio
  <2>8. LinkFirst'
    BY <2>u DEF IInv, LinkFirst, MonitorAfterSession, MonitorRuns, Sampled, Linked,
       TransmittingAudio
  <2>9. Completions'
    BY <2>u, NumberTypes, FlagTypes DEF IInv, Completions, Ended, OkToken,
       Transmitting, MonitorAfterSession, MonitorRuns, Sampled, Linked,
       TransmittingAudio
  <2>10. ReleaseComes'
    BY <2>w, FlagTypes DEF IInv, ReleaseComes, CanKey, PastStop4,
       MonitorAfterSession, MonitorRuns, Sampled, Linked, TransmittingAudio
  <2>. QED BY <2>1, <2>2, <2>3, <2>4, <2>5, <2>6, <2>7, <2>8, <2>9, <2>10 DEF IInv
<1>. QED BY <1>1, <1>2, FlagTypes, <1>t

\* A failure is under way only for a mode that needs PTT and has no stop.
LEMMA MonitorWithoutLinkStep ==
  ASSUME IInv, MonitorWithoutLink
  PROVE  IInv'
<1>t. TypeOK  BY DEF IInv
<1>b. txBusy' \in BOOLEAN
  BY <1>t DEF TypeOK, SessionTypeOK, MonitorWithoutLink, MonitorDuringSession,
     MonitorRuns, Sampled, Linked, TransmittingAudio
<1>g. pc[Main] = "idle"
  BY DEF MonitorWithoutLink, MonitorDuringSession, MonitorRuns, Sampled, Linked,
     TransmittingAudio
<1>p. pc' \in Control /\ pc'[Main] = "fail" /\ UNCHANGED pc[Js8Tx]
  BY <1>t, GotoMain, ControlTypes DEF MainLabels, TxLabels, MonitorWithoutLink,
     MonitorDuringSession, MonitorRuns, Sampled, Linked, TransmittingAudio
<1>w. UNCHANGED txTasks /\ \A x : UNCHANGED Waiting(txTasks, x)
  BY <1>t DEF MonitorWithoutLink, MonitorDuringSession, MonitorRuns, Sampled, Linked,
     TransmittingAudio
<1>o. UNCHANGED out
  BY <1>t DEF MonitorWithoutLink, MonitorDuringSession, MonitorRuns, Sampled, Linked,
     TransmittingAudio
<1>u. UNCHANGED UnderWay
  BY <1>t, <1>p, <1>w, <1>g, <1>o, WaitingType DEF UnderWay, Count
<1>s. UNCHANGED Submissions
  BY <1>t, <1>p, <1>w, <1>g, WaitingType DEF Submissions, Count
<1>T0. mon' \in MonitorLocals
  BY <1>t, Locals, FlagTypes DEF MonitorLocals, MonitorWithoutLink,
     MonitorDuringSession, MonitorRuns, Sampled, Linked, TransmittingAudio
<1>S. SessionTypeOK'
  BY <1>t, <1>b, PttAssumption DEF PttAssumption, TypeOK, SessionTypeOK, Phase,
     MonitorWithoutLink, MonitorDuringSession, MonitorRuns, Sampled, Linked,
     TransmittingAudio
<1>1. TypeOK'
  BY <1>t, <1>p, <1>w, <1>b, <1>T0, <1>S, Locals DEF TypeOK, MonitorWithoutLink,
     MonitorDuringSession, MonitorRuns, Sampled, Linked, TransmittingAudio
<1>. USE <1>t, <1>g, <1>p
<1>2. StopPhases'
  BY <1>w, NumberTypes DEF IInv, StopPhases, MonitorWithoutLink, MonitorDuringSession,
     MonitorRuns, Sampled, Linked, TransmittingAudio
<1>3. Budget'
  BY <1>s, NumberTypes DEF IInv, Budget, MonitorWithoutLink, MonitorDuringSession,
     MonitorRuns, Sampled, Linked, TransmittingAudio
<1>4. Generations'
  BY NumberTypes DEF IInv, Generations, MonitorWithoutLink, MonitorDuringSession,
     MonitorRuns, Sampled, Linked, TransmittingAudio
<1>5. CommandsCounted'
  BY <1>u, NumberTypes DEF IInv, CommandsCounted, MonitorWithoutLink,
     MonitorDuringSession, MonitorRuns, Sampled, Linked, TransmittingAudio
<1>6. FailureGoesOn'
  BY <1>u, NumberTypes, FlagTypes DEF IInv, FailureGoesOn, FailToken, StopPhases,
     MonitorWithoutLink, MonitorDuringSession, MonitorRuns, Sampled, Linked,
     TransmittingAudio
<1>7. GateKept'
  BY FlagTypes DEF IInv, GateKept, Transmitting, MonitorWithoutLink,
     MonitorDuringSession, MonitorRuns, Sampled, Linked, TransmittingAudio
<1>8. LinkFirst'
  BY <1>u DEF IInv, LinkFirst, MonitorWithoutLink, MonitorDuringSession, MonitorRuns,
     Sampled, Linked, TransmittingAudio
<1>9. Completions'
  BY <1>u, NumberTypes, FlagTypes DEF IInv, Completions, Ended, OkToken, Transmitting,
     MonitorWithoutLink, MonitorDuringSession, MonitorRuns, Sampled, Linked,
     TransmittingAudio
<1>10. ReleaseComes'
  BY <1>w, FlagTypes DEF IInv, ReleaseComes, CanKey, PastStop4, MonitorWithoutLink,
     MonitorDuringSession, MonitorRuns, Sampled, Linked, TransmittingAudio
<1>. QED BY <1>1, <1>2, <1>3, <1>4, <1>5, <1>6, <1>7, <1>8, <1>9, <1>10 DEF IInv

\* A request to key closes over no completion.
LEMMA MonitorKeysStep ==
  ASSUME IInv, MonitorKeys
  PROVE  IInv'
<1>t. TypeOK  BY DEF IInv
<1>b. txBusy' \in BOOLEAN
  BY <1>t DEF TypeOK, SessionTypeOK, MonitorKeys, MonitorDuringSession, KeyingDue,
     MonitorRuns, Sampled, Linked, TransmittingAudio
<1>g. pc[Main] = "idle"
  BY DEF MonitorKeys, MonitorDuringSession, KeyingDue, MonitorRuns, Sampled, Linked,
     TransmittingAudio
<1>p. pc' \in Control /\ pc'[Main] = "lock" /\ UNCHANGED pc[Js8Tx]
  BY <1>t, GotoMain, ControlTypes DEF MainLabels, TxLabels, MonitorKeys,
     MonitorDuringSession, KeyingDue, MonitorRuns, Sampled, Linked, TransmittingAudio
<1>w. UNCHANGED txTasks /\ \A x : UNCHANGED Waiting(txTasks, x)
  BY <1>t DEF MonitorKeys, MonitorDuringSession, KeyingDue, MonitorRuns, Sampled,
     Linked, TransmittingAudio
<1>o. UNCHANGED out
  BY <1>t DEF MonitorKeys, MonitorDuringSession, KeyingDue, MonitorRuns, Sampled,
     Linked, TransmittingAudio
<1>u. UNCHANGED UnderWay
  BY <1>t, <1>p, <1>w, <1>g, <1>o, WaitingType DEF UnderWay, Count
<1>s. UNCHANGED Submissions
  BY <1>t, <1>p, <1>w, <1>g, WaitingType DEF Submissions, Count
<1>T0. mon' \in MonitorLocals
  BY <1>t, Locals, FlagTypes DEF MonitorLocals, MonitorKeys, MonitorDuringSession,
     KeyingDue, MonitorRuns, Sampled, Linked, TransmittingAudio
<1>T1. req' \in RequestLocals
  BY <1>t, Locals, FlagTypes DEF RequestLocals, MonitorKeys, MonitorDuringSession,
     KeyingDue, MonitorRuns, Sampled, Linked, TransmittingAudio
<1>S. SessionTypeOK'
  BY <1>t, <1>b, PttAssumption DEF PttAssumption, TypeOK, SessionTypeOK, Phase,
     MonitorKeys, MonitorDuringSession, KeyingDue, MonitorRuns, Sampled, Linked,
     TransmittingAudio
<1>1. TypeOK'
  BY <1>t, <1>p, <1>w, <1>b, <1>T0, <1>T1, <1>S, Locals DEF TypeOK, MonitorKeys,
     MonitorDuringSession, KeyingDue, MonitorRuns, Sampled, Linked, TransmittingAudio
<1>. USE <1>t, <1>g, <1>p
<1>2. StopPhases'
  BY <1>w, NumberTypes DEF IInv, StopPhases, MonitorKeys, MonitorDuringSession,
     KeyingDue, MonitorRuns, Sampled, Linked, TransmittingAudio
<1>3. Budget'
  BY <1>s, NumberTypes DEF IInv, Budget, MonitorKeys, MonitorDuringSession, KeyingDue,
     MonitorRuns, Sampled, Linked, TransmittingAudio
<1>4. Generations'
  BY NumberTypes DEF IInv, Generations, MonitorKeys, MonitorDuringSession, KeyingDue,
     MonitorRuns, Sampled, Linked, TransmittingAudio
<1>5. CommandsCounted'
  BY <1>u, NumberTypes DEF IInv, CommandsCounted, MonitorKeys, MonitorDuringSession,
     KeyingDue, MonitorRuns, Sampled, Linked, TransmittingAudio
<1>6. FailureGoesOn'
  BY <1>u, NumberTypes, FlagTypes DEF IInv, FailureGoesOn, FailToken, MonitorKeys,
     MonitorDuringSession, KeyingDue, MonitorRuns, Sampled, Linked, TransmittingAudio
<1>7. GateKept'
  BY FlagTypes DEF IInv, GateKept, Transmitting, MonitorKeys, MonitorDuringSession,
     KeyingDue, MonitorRuns, Sampled, Linked, TransmittingAudio
<1>8. LinkFirst'
  BY <1>u DEF IInv, LinkFirst, MonitorKeys, MonitorDuringSession, KeyingDue,
     MonitorRuns, Sampled, Linked, TransmittingAudio
<1>9. Completions'
  BY <1>u, NumberTypes, FlagTypes DEF IInv, Completions, Ended, OkToken, Transmitting,
     MonitorKeys, MonitorDuringSession, KeyingDue, MonitorRuns, Sampled, Linked,
     TransmittingAudio
<1>10. ReleaseComes'
  BY <1>w, FlagTypes DEF IInv, ReleaseComes, CanKey, PastStop4, MonitorKeys,
     MonitorDuringSession, KeyingDue, MonitorRuns, Sampled, Linked, TransmittingAudio
<1>. QED BY <1>1, <1>2, <1>3, <1>4, <1>5, <1>6, <1>7, <1>8, <1>9, <1>10 DEF IInv

\* Three ways out: audio on the air, and the edge with and without a link.
LEMMA MonitorWatchesStep ==
  ASSUME IInv, MonitorWatches
  PROVE  IInv'
<1>t. TypeOK  BY DEF IInv
<1>b. txBusy' \in BOOLEAN
  BY <1>t DEF TypeOK, SessionTypeOK, MonitorWatches, MonitorDuringSession, KeyingDue,
     MonitorRuns, Sampled, Linked, TransmittingAudio
<1>g. pc[Main] = "idle"
  BY DEF MonitorWatches, MonitorDuringSession, KeyingDue, MonitorRuns, Sampled, Linked,
     TransmittingAudio
<1>1. CASE TransmittingAudio /\ Linked
  <2>p. pc' \in Control /\ pc'[Main] = "check" /\ UNCHANGED pc[Js8Tx]
    BY <1>1, <1>t, GotoMain, ControlTypes DEF MainLabels, TxLabels, MonitorWatches,
       MonitorDuringSession, KeyingDue, MonitorRuns, Sampled, Linked,
       TransmittingAudio
  <2>w. UNCHANGED txTasks /\ \A x : UNCHANGED Waiting(txTasks, x)
    BY <1>1, <1>t DEF MonitorWatches, MonitorDuringSession, KeyingDue, MonitorRuns,
       Sampled, Linked, TransmittingAudio
  <2>o. UNCHANGED out
    BY <1>1, <1>t DEF MonitorWatches, MonitorDuringSession, KeyingDue, MonitorRuns,
       Sampled, Linked, TransmittingAudio
  <2>u. UNCHANGED UnderWay
    BY <1>1, <1>t, <2>p, <2>w, <1>g, <2>o, WaitingType DEF UnderWay, Count
  <2>s. UNCHANGED Submissions
    BY <1>1, <1>t, <2>p, <2>w, <1>g, WaitingType DEF Submissions, Count
  <2>T0. mon' \in MonitorLocals
    BY <1>1, <1>t, Locals, FlagTypes DEF MonitorLocals, MonitorWatches,
       MonitorDuringSession, KeyingDue, MonitorRuns, Sampled, Linked,
       TransmittingAudio
  <2>S. SessionTypeOK'
    BY <1>1, <1>t, <1>b, PttAssumption DEF PttAssumption, TypeOK, SessionTypeOK,
       Phase, MonitorWatches, MonitorDuringSession, KeyingDue, MonitorRuns, Sampled,
       Linked, TransmittingAudio
  <2>1. TypeOK'
    BY <1>1, <1>t, <2>p, <2>w, <1>b, <2>T0, <2>S, Locals DEF TypeOK, MonitorWatches,
       MonitorDuringSession, KeyingDue, MonitorRuns, Sampled, Linked,
       TransmittingAudio
  <2>. USE <1>1, <1>t, <1>g, <2>p
  <2>2. StopPhases'
    BY <2>w, NumberTypes DEF IInv, StopPhases, MonitorWatches, MonitorDuringSession,
       KeyingDue, MonitorRuns, Sampled, Linked, TransmittingAudio
  <2>3. Budget'
    BY <2>s, NumberTypes DEF IInv, Budget, MonitorWatches, MonitorDuringSession,
       KeyingDue, MonitorRuns, Sampled, Linked, TransmittingAudio
  <2>4. Generations'
    BY NumberTypes DEF IInv, Generations, MonitorWatches, MonitorDuringSession,
       KeyingDue, MonitorRuns, Sampled, Linked, TransmittingAudio
  <2>5. CommandsCounted'
    BY <2>u, NumberTypes DEF IInv, CommandsCounted, MonitorWatches,
       MonitorDuringSession, KeyingDue, MonitorRuns, Sampled, Linked,
       TransmittingAudio
  <2>6. FailureGoesOn'
    BY <2>u, NumberTypes, FlagTypes DEF IInv, FailureGoesOn, FailToken,
       MonitorWatches, MonitorDuringSession, KeyingDue, MonitorRuns, Sampled, Linked,
       TransmittingAudio
  <2>7. GateKept'
    BY FlagTypes DEF IInv, GateKept, Transmitting, MonitorWatches,
       MonitorDuringSession, KeyingDue, MonitorRuns, Sampled, Linked,
       TransmittingAudio
  <2>8. LinkFirst'
    BY <2>u DEF IInv, LinkFirst, MonitorWatches, MonitorDuringSession, KeyingDue,
       MonitorRuns, Sampled, Linked, TransmittingAudio
  <2>9. Completions'
    BY <2>u, NumberTypes, FlagTypes DEF IInv, Completions, Ended, OkToken,
       Transmitting, MonitorWatches, MonitorDuringSession, KeyingDue, MonitorRuns,
       Sampled, Linked, TransmittingAudio
  <2>10. ReleaseComes'
    BY <2>w, FlagTypes DEF IInv, ReleaseComes, CanKey, PastStop4, MonitorWatches,
       MonitorDuringSession, KeyingDue, MonitorRuns, Sampled, Linked,
       TransmittingAudio
  <2>. QED BY <2>1, <2>2, <2>3, <2>4, <2>5, <2>6, <2>7, <2>8, <2>9, <2>10 DEF IInv
<1>2. CASE ~(TransmittingAudio /\ Linked)
  <2>p. pc' \in Control /\ pc'[Main] = "edge" /\ UNCHANGED pc[Js8Tx]
    BY <1>2, <1>t, GotoMain, ControlTypes DEF MainLabels, TxLabels, MonitorWatches,
       MonitorDuringSession, KeyingDue, MonitorRuns, Sampled, Linked,
       TransmittingAudio
  <2>w. UNCHANGED txTasks /\ \A x : UNCHANGED Waiting(txTasks, x)
    BY <1>2, <1>t DEF MonitorWatches, MonitorDuringSession, KeyingDue, MonitorRuns,
       Sampled, Linked, TransmittingAudio
  <2>o. UNCHANGED out
    BY <1>2, <1>t DEF MonitorWatches, MonitorDuringSession, KeyingDue, MonitorRuns,
       Sampled, Linked, TransmittingAudio
  <2>u. UNCHANGED UnderWay
    BY <1>2, <1>t, <2>p, <2>w, <1>g, <2>o, WaitingType DEF UnderWay, Count
  <2>s. UNCHANGED Submissions
    BY <1>2, <1>t, <2>p, <2>w, <1>g, WaitingType DEF Submissions, Count
  <2>T0. mon' \in MonitorLocals
    BY <1>2, <1>t, Locals, FlagTypes DEF MonitorLocals, MonitorWatches,
       MonitorDuringSession, KeyingDue, MonitorRuns, Sampled, Linked,
       TransmittingAudio
  <2>S. SessionTypeOK'
    BY <1>2, <1>t, <1>b, PttAssumption DEF PttAssumption, TypeOK, SessionTypeOK,
       Phase, MonitorWatches, MonitorDuringSession, KeyingDue, MonitorRuns, Sampled,
       Linked, TransmittingAudio
  <2>1. TypeOK'
    BY <1>2, <1>t, <2>p, <2>w, <1>b, <2>T0, <2>S, Locals DEF TypeOK, MonitorWatches,
       MonitorDuringSession, KeyingDue, MonitorRuns, Sampled, Linked,
       TransmittingAudio
  <2>. USE <1>2, <1>t, <1>g, <2>p
  <2>2. StopPhases'
    BY <2>w, NumberTypes DEF IInv, StopPhases, MonitorWatches, MonitorDuringSession,
       KeyingDue, MonitorRuns, Sampled, Linked, TransmittingAudio
  <2>3. Budget'
    BY <2>s, NumberTypes DEF IInv, Budget, MonitorWatches, MonitorDuringSession,
       KeyingDue, MonitorRuns, Sampled, Linked, TransmittingAudio
  <2>4. Generations'
    BY NumberTypes DEF IInv, Generations, MonitorWatches, MonitorDuringSession,
       KeyingDue, MonitorRuns, Sampled, Linked, TransmittingAudio
  <2>5. CommandsCounted'
    BY <2>u, NumberTypes DEF IInv, CommandsCounted, MonitorWatches,
       MonitorDuringSession, KeyingDue, MonitorRuns, Sampled, Linked,
       TransmittingAudio
  <2>6. FailureGoesOn'
    BY <2>u, NumberTypes, FlagTypes DEF IInv, FailureGoesOn, FailToken,
       MonitorWatches, MonitorDuringSession, KeyingDue, MonitorRuns, Sampled, Linked,
       TransmittingAudio
  <2>7. GateKept'
    BY FlagTypes DEF IInv, GateKept, Transmitting, MonitorWatches,
       MonitorDuringSession, KeyingDue, MonitorRuns, Sampled, Linked,
       TransmittingAudio
  <2>8. LinkFirst'
    BY <2>u DEF IInv, LinkFirst, MonitorWatches, MonitorDuringSession, KeyingDue,
       MonitorRuns, Sampled, Linked, TransmittingAudio
  <2>9. Completions'
    BY <2>u, NumberTypes, FlagTypes DEF IInv, Completions, Ended, OkToken,
       Transmitting, MonitorWatches, MonitorDuringSession, KeyingDue, MonitorRuns,
       Sampled, Linked, TransmittingAudio
  <2>10. ReleaseComes'
    BY <2>w, FlagTypes DEF IInv, ReleaseComes, CanKey, PastStop4, MonitorWatches,
       MonitorDuringSession, KeyingDue, MonitorRuns, Sampled, Linked,
       TransmittingAudio
  <2>. QED BY <2>1, <2>2, <2>3, <2>4, <2>5, <2>6, <2>7, <2>8, <2>9, <2>10 DEF IInv
<1>. QED BY <1>1, <1>2, FlagTypes, <1>t

\* The monitor forgets its generation.
LEMMA ReportUnlinkedStep ==
  ASSUME IInv, ReportUnlinked
  PROVE  IInv'
<1>t. TypeOK  BY DEF IInv
<1>g. pc[Main] = "unlinked"  BY DEF ReportUnlinked
<1>p. pc' \in Control /\ pc'[Main] = "idle" /\ UNCHANGED pc[Js8Tx]
  BY <1>t, GotoMain, ControlTypes DEF MainLabels, TxLabels, ReportUnlinked
<1>w. UNCHANGED txTasks /\ \A x : UNCHANGED Waiting(txTasks, x)
  BY <1>t DEF ReportUnlinked
<1>o. UNCHANGED out  BY <1>t DEF ReportUnlinked
<1>u. UNCHANGED UnderWay
  BY <1>t, <1>p, <1>w, <1>g, <1>o, WaitingType DEF UnderWay, Count
<1>s. UNCHANGED Submissions
  BY <1>t, <1>p, <1>w, <1>g, WaitingType DEF Submissions, Count
<1>T0. mon' \in MonitorLocals
  BY <1>t, Locals, FlagTypes DEF MonitorLocals, ReportUnlinked
<1>R. told' \in [Gens -> Nat] /\ lastReport' \in {"none", "finished", "failed"}
  BY <1>t, Locals, CompleteTypes DEF ReportUnlinked
<1>S. SessionTypeOK'
  BY <1>t, PttAssumption DEF PttAssumption, TypeOK, SessionTypeOK, Phase, ReportUnlinked
<1>1. TypeOK'  BY <1>t, <1>p, <1>w, <1>T0, <1>R, <1>S, Locals DEF TypeOK, ReportUnlinked
<1>. USE <1>t, <1>g, <1>p
<1>2. StopPhases'  BY <1>w, NumberTypes DEF IInv, StopPhases, ReportUnlinked
<1>3. Budget'  BY <1>s, NumberTypes DEF IInv, Budget, ReportUnlinked
<1>4. Generations'  BY NumberTypes DEF IInv, Generations, ReportUnlinked
<1>5. CommandsCounted'  BY <1>u, NumberTypes DEF IInv, CommandsCounted, ReportUnlinked
<1>6. FailureGoesOn'
  BY <1>u, NumberTypes, FlagTypes DEF IInv, FailureGoesOn, FailToken, ReportUnlinked
<1>7. GateKept'  BY FlagTypes DEF IInv, GateKept, Transmitting, ReportUnlinked
<1>8. LinkFirst'  BY <1>u DEF IInv, LinkFirst, ReportUnlinked
<1>9. Completions'
  BY <1>u, NumberTypes, FlagTypes DEF IInv, Completions, Ended, OkToken, Transmitting,
     ReportUnlinked
<1>10. ReleaseComes'
  BY <1>w, FlagTypes DEF IInv, ReleaseComes, CanKey, PastStop4, ReportUnlinked
<1>. QED BY <1>1, <1>2, <1>3, <1>4, <1>5, <1>6, <1>7, <1>8, <1>9, <1>10 DEF IInv

LEMMA CheckPttStep ==
  ASSUME IInv, CheckPtt
  PROVE  IInv'
<1>t. TypeOK  BY DEF IInv
<1>g. pc[Main] = "check"  BY DEF CheckPtt
<1>1. CASE PttReady
  <2>p. pc' \in Control /\ pc'[Main] = "edge" /\ UNCHANGED pc[Js8Tx]
    BY <1>1, <1>t, GotoMain, ControlTypes DEF MainLabels, TxLabels, CheckPtt
  <2>w. UNCHANGED txTasks /\ \A x : UNCHANGED Waiting(txTasks, x)
    BY <1>1, <1>t DEF CheckPtt
  <2>o. UNCHANGED out  BY <1>1, <1>t DEF CheckPtt
  <2>u. UNCHANGED UnderWay
    BY <1>1, <1>t, <2>p, <2>w, <1>g, <2>o, WaitingType DEF UnderWay, Count
  <2>s. UNCHANGED Submissions
    BY <1>1, <1>t, <2>p, <2>w, <1>g, WaitingType DEF Submissions, Count
  <2>S. SessionTypeOK'
    BY <1>1, <1>t, PttAssumption DEF PttAssumption, TypeOK, SessionTypeOK, Phase, CheckPtt
  <2>1. TypeOK'  BY <1>1, <1>t, <2>p, <2>w, <2>S, Locals DEF TypeOK, CheckPtt
  <2>. USE <1>1, <1>t, <1>g, <2>p
  <2>2. StopPhases'  BY <2>w, NumberTypes DEF IInv, StopPhases, CheckPtt
  <2>3. Budget'  BY <2>s, NumberTypes DEF IInv, Budget, CheckPtt
  <2>4. Generations'  BY NumberTypes DEF IInv, Generations, CheckPtt
  <2>5. CommandsCounted'  BY <2>u, NumberTypes DEF IInv, CommandsCounted, CheckPtt
  <2>6. FailureGoesOn'
    BY <2>u, NumberTypes, FlagTypes DEF IInv, FailureGoesOn, FailToken, CheckPtt
  <2>7. GateKept'  BY FlagTypes DEF IInv, GateKept, Transmitting, CheckPtt
  <2>8. LinkFirst'  BY <2>u DEF IInv, LinkFirst, CheckPtt
  <2>9. Completions'
    BY <2>u, NumberTypes, FlagTypes DEF IInv, Completions, Ended, OkToken,
       Transmitting, CheckPtt
  <2>10. ReleaseComes'
    BY <2>w, FlagTypes DEF IInv, ReleaseComes, CanKey, PastStop4, CheckPtt
  <2>. QED BY <2>1, <2>2, <2>3, <2>4, <2>5, <2>6, <2>7, <2>8, <2>9, <2>10 DEF IInv
<1>2. CASE ~PttReady
  <2>p. pc' \in Control /\ pc'[Main] = "hold" /\ UNCHANGED pc[Js8Tx]
    BY <1>2, <1>t, GotoMain, ControlTypes DEF MainLabels, TxLabels, CheckPtt
  <2>w. UNCHANGED txTasks /\ \A x : UNCHANGED Waiting(txTasks, x)
    BY <1>2, <1>t DEF CheckPtt
  <2>o. UNCHANGED out  BY <1>2, <1>t DEF CheckPtt
  <2>u. UNCHANGED UnderWay
    BY <1>2, <1>t, <2>p, <2>w, <1>g, <2>o, WaitingType DEF UnderWay, Count
  <2>s. UNCHANGED Submissions
    BY <1>2, <1>t, <2>p, <2>w, <1>g, WaitingType DEF Submissions, Count
  <2>S. SessionTypeOK'
    BY <1>2, <1>t, PttAssumption DEF PttAssumption, TypeOK, SessionTypeOK, Phase, CheckPtt
  <2>1. TypeOK'  BY <1>2, <1>t, <2>p, <2>w, <2>S, Locals DEF TypeOK, CheckPtt
  <2>. USE <1>2, <1>t, <1>g, <2>p
  <2>2. StopPhases'  BY <2>w, NumberTypes DEF IInv, StopPhases, CheckPtt
  <2>3. Budget'  BY <2>s, NumberTypes DEF IInv, Budget, CheckPtt
  <2>4. Generations'  BY NumberTypes DEF IInv, Generations, CheckPtt
  <2>5. CommandsCounted'  BY <2>u, NumberTypes DEF IInv, CommandsCounted, CheckPtt
  <2>6. FailureGoesOn'
    BY <2>u, NumberTypes, FlagTypes DEF IInv, FailureGoesOn, FailToken, CheckPtt
  <2>7. GateKept'  BY FlagTypes DEF IInv, GateKept, Transmitting, CheckPtt
  <2>8. LinkFirst'  BY <2>u DEF IInv, LinkFirst, CheckPtt
  <2>9. Completions'
    BY <2>u, NumberTypes, FlagTypes DEF IInv, Completions, Ended, OkToken,
       Transmitting, CheckPtt
  <2>10. ReleaseComes'
    BY <2>w, FlagTypes DEF IInv, ReleaseComes, CanKey, PastStop4, CheckPtt
  <2>. QED BY <2>1, <2>2, <2>3, <2>4, <2>5, <2>6, <2>7, <2>8, <2>9, <2>10 DEF IInv
<1>. QED BY <1>1, <1>2, FlagTypes, <1>t

\* The gate is closed: GateKept is given nothing to keep.
LEMMA HoldAudioStep ==
  ASSUME IInv, HoldAudio
  PROVE  IInv'
<1>t. TypeOK  BY DEF IInv
<1>b. ready' \in BOOLEAN
  BY <1>t DEF TypeOK, SessionTypeOK, HoldAudio, SetReady, RepostAndRest
<1>g. pc[Main] = "hold"  BY DEF HoldAudio, SetReady, RepostAndRest
<1>p. pc' \in Control /\ pc'[Main] = "idle" /\ UNCHANGED pc[Js8Tx]
  BY <1>t, GotoMain, ControlTypes DEF MainLabels, TxLabels, HoldAudio, SetReady,
     RepostAndRest
<1>w. UNCHANGED txTasks /\ \A x : UNCHANGED Waiting(txTasks, x)
  BY <1>t DEF HoldAudio, SetReady, RepostAndRest
<1>o. UNCHANGED out  BY <1>t DEF HoldAudio, SetReady, RepostAndRest
<1>u. UNCHANGED UnderWay
  BY <1>t, <1>p, <1>w, <1>g, <1>o, WaitingType DEF UnderWay, Count
<1>s. UNCHANGED Submissions
  BY <1>t, <1>p, <1>w, <1>g, WaitingType DEF Submissions, Count
<1>T0. mon' \in MonitorLocals
  BY <1>t, Locals, FlagTypes DEF MonitorLocals, HoldAudio, SetReady, RepostAndRest
<1>T1. req' \in RequestLocals
  BY <1>t, Locals, FlagTypes DEF RequestLocals, HoldAudio, SetReady, RepostAndRest
<1>S. SessionTypeOK'
  BY <1>t, <1>b, PttAssumption DEF PttAssumption, TypeOK, SessionTypeOK, Phase,
     HoldAudio, SetReady, RepostAndRest
<1>1. TypeOK'
  BY <1>t, <1>p, <1>w, <1>b, <1>T0, <1>T1, <1>S, Locals DEF TypeOK, HoldAudio,
     SetReady, RepostAndRest
<1>. USE <1>t, <1>g, <1>p
<1>2. StopPhases'
  BY <1>w, NumberTypes DEF IInv, StopPhases, HoldAudio, SetReady, RepostAndRest
<1>3. Budget'  BY <1>s, NumberTypes DEF IInv, Budget, HoldAudio, SetReady, RepostAndRest
<1>4. Generations'
  BY NumberTypes DEF IInv, Generations, HoldAudio, SetReady, RepostAndRest
<1>5. CommandsCounted'
  BY <1>u, NumberTypes DEF IInv, CommandsCounted, HoldAudio, SetReady, RepostAndRest
<1>6. FailureGoesOn'
  BY <1>u, NumberTypes, FlagTypes DEF IInv, FailureGoesOn, FailToken, HoldAudio,
     SetReady, RepostAndRest
<1>7. GateKept'
  BY FlagTypes DEF IInv, GateKept, Transmitting, HoldAudio, SetReady, RepostAndRest
<1>8. LinkFirst'  BY <1>u DEF IInv, LinkFirst, HoldAudio, SetReady, RepostAndRest
<1>9. Completions'
  BY <1>u, NumberTypes, FlagTypes DEF IInv, Completions, Ended, OkToken, Transmitting,
     HoldAudio, SetReady, RepostAndRest
<1>10. ReleaseComes'
  BY <1>w, FlagTypes DEF IInv, ReleaseComes, CanKey, PastStop4, HoldAudio, SetReady,
     RepostAndRest
<1>. QED BY <1>1, <1>2, <1>3, <1>4, <1>5, <1>6, <1>7, <1>8, <1>9, <1>10 DEF IInv

\* The release at a pause closes over no completion.
LEMMA EdgeStep ==
  ASSUME IInv, Edge
  PROVE  IInv'
<1>t. TypeOK  BY DEF IInv
<1>b. wasAudio' \in BOOLEAN
  BY <1>t, FlagTypes DEF TypeOK, SessionTypeOK, Edge, RepostAndRest
<1>g. pc[Main] = "edge"  BY DEF Edge, RepostAndRest
<1>1. CASE ~mon.audio /\ wasAudio /\ mon.linked
  <2>p. pc' \in Control /\ pc'[Main] = "close" /\ UNCHANGED pc[Js8Tx]
    BY <1>1, <1>t, GotoMain, ControlTypes DEF MainLabels, TxLabels, Edge, RepostAndRest
  <2>w. UNCHANGED txTasks /\ \A x : UNCHANGED Waiting(txTasks, x)
    BY <1>1, <1>t DEF Edge, RepostAndRest
  <2>f. UNCHANGED <<sessionVars, rigVars, lockVars, monitorPosted, monitorActive, txBusy,
                    mon, mainQueue, cmdVars, countVars, crashed, saidVars, cut>>
    BY <1>1, <1>t, <1>g DEF Edge, RepostAndRest
  <2>e. /\ req' = [on |-> FALSE, done |-> 0, next |-> "repost"]
    BY <1>1, <1>t, <1>g DEF Edge, RepostAndRest
  <2>u. UNCHANGED UnderWay
    BY <1>1, <1>t, <2>p, <2>w, <2>f, <2>e, <1>g, WaitingType DEF UnderWay, Count
  <2>s. UNCHANGED Submissions
    BY <1>1, <1>t, <2>p, <2>w, <2>f, <1>g, WaitingType DEF Submissions, Count
  <2>T0. req' \in RequestLocals  BY <2>e, <1>t, Locals, FlagTypes DEF RequestLocals
  <2>S. SessionTypeOK'
    BY <1>1, <1>t, <2>f, <2>e, <1>b, PttAssumption DEF PttAssumption, TypeOK,
       SessionTypeOK, Phase
  <2>1. TypeOK'  BY <1>t, <2>p, <2>w, <2>f, <2>e, <1>b, <2>T0, <2>S DEF TypeOK
  <2>. USE <1>1, <1>t, <1>g, <2>p, <2>f, <2>e
  <2>2. StopPhases'  BY <2>w, NumberTypes DEF IInv, StopPhases
  <2>3. Budget'  BY <2>s, NumberTypes DEF IInv, Budget
  <2>4. Generations'  BY NumberTypes DEF IInv, Generations
  <2>5. CommandsCounted'  BY <2>u, NumberTypes DEF IInv, CommandsCounted
  <2>6. FailureGoesOn'
    BY <2>u, NumberTypes, FlagTypes DEF IInv, FailureGoesOn, FailToken
  <2>7. GateKept'  BY FlagTypes DEF IInv, GateKept, Transmitting
  <2>8. LinkFirst'  BY <2>u DEF IInv, LinkFirst
  <2>9. Completions'
    BY <2>u, NumberTypes, FlagTypes DEF IInv, Completions, Ended, OkToken, Transmitting
  <2>10. ReleaseComes'  BY <2>w, FlagTypes DEF IInv, ReleaseComes, CanKey, PastStop4
  <2>. QED BY <2>1, <2>2, <2>3, <2>4, <2>5, <2>6, <2>7, <2>8, <2>9, <2>10 DEF IInv
<1>2. CASE ~(~mon.audio /\ wasAudio /\ mon.linked)
  <2>p. pc' \in Control /\ pc'[Main] = "idle" /\ UNCHANGED pc[Js8Tx]
    BY <1>2, <1>t, GotoMain, ControlTypes DEF MainLabels, TxLabels, Edge, RepostAndRest
  <2>w. UNCHANGED txTasks /\ \A x : UNCHANGED Waiting(txTasks, x)
    BY <1>2, <1>t DEF Edge, RepostAndRest
  <2>o. UNCHANGED out  BY <1>2, <1>t DEF Edge, RepostAndRest
  <2>u. UNCHANGED UnderWay
    BY <1>2, <1>t, <2>p, <2>w, <1>g, <2>o, WaitingType DEF UnderWay, Count
  <2>s. UNCHANGED Submissions
    BY <1>2, <1>t, <2>p, <2>w, <1>g, WaitingType DEF Submissions, Count
  <2>T0. mon' \in MonitorLocals
    BY <1>2, <1>t, Locals, FlagTypes DEF MonitorLocals, Edge, RepostAndRest
  <2>T1. req' \in RequestLocals
    BY <1>2, <1>t, Locals, FlagTypes DEF RequestLocals, Edge, RepostAndRest
  <2>S. SessionTypeOK'
    BY <1>2, <1>t, <1>b, PttAssumption DEF PttAssumption, TypeOK, SessionTypeOK,
       Phase, Edge, RepostAndRest
  <2>1. TypeOK'
    <3>1. UNCHANGED <<rigVars, lockVars, monitorActive, txBusy, mainQueue, cmdVars,
                      countVars, crashed, saidVars, cut>>
      BY <1>2 DEF Edge, RepostAndRest
    <3>2. monitorPosted' \in Nat
      BY <1>2, <1>t DEF TypeOK, Edge, RepostAndRest
    <3>. QED BY <1>t, <2>p, <2>w, <1>b, <2>T0, <2>T1, <2>S, <3>1, <3>2 DEF TypeOK
  <2>. USE <1>2, <1>t, <1>g, <2>p
  <2>2. StopPhases'  BY <2>w, NumberTypes DEF IInv, StopPhases, Edge, RepostAndRest
  <2>3. Budget'  BY <2>s, NumberTypes DEF IInv, Budget, Edge, RepostAndRest
  <2>4. Generations'  BY NumberTypes DEF IInv, Generations, Edge, RepostAndRest
  <2>5. CommandsCounted'
    BY <2>u, NumberTypes DEF IInv, CommandsCounted, Edge, RepostAndRest
  <2>6. FailureGoesOn'
    BY <2>u, NumberTypes, FlagTypes DEF IInv, FailureGoesOn, FailToken, Edge, RepostAndRest
  <2>7. GateKept'  BY FlagTypes DEF IInv, GateKept, Transmitting, Edge, RepostAndRest
  <2>8. LinkFirst'  BY <2>u DEF IInv, LinkFirst, Edge, RepostAndRest
  <2>9. Completions'
    BY <2>u, NumberTypes, FlagTypes DEF IInv, Completions, Ended, OkToken,
       Transmitting, Edge, RepostAndRest
  <2>10. ReleaseComes'
    BY <2>w, FlagTypes DEF IInv, ReleaseComes, CanKey, PastStop4, Edge, RepostAndRest
  <2>. QED BY <2>1, <2>2, <2>3, <2>4, <2>5, <2>6, <2>7, <2>8, <2>9, <2>10 DEF IInv
<1>. QED BY <1>1, <1>2, FlagTypes, <1>t

LEMMA RepostStep ==
  ASSUME IInv, Repost
  PROVE  IInv'
<1>t. TypeOK  BY DEF IInv
<1>g. pc[Main] = "repost"  BY DEF Repost, RepostAndRest
<1>p. pc' \in Control /\ pc'[Main] = "idle" /\ UNCHANGED pc[Js8Tx]
  BY <1>t, GotoMain, ControlTypes DEF MainLabels, TxLabels, Repost, RepostAndRest
<1>w. UNCHANGED txTasks /\ \A x : UNCHANGED Waiting(txTasks, x)
  BY <1>t DEF Repost, RepostAndRest
<1>o. UNCHANGED out  BY <1>t DEF Repost, RepostAndRest
<1>u. UNCHANGED UnderWay
  BY <1>t, <1>p, <1>w, <1>g, <1>o, WaitingType DEF UnderWay, Count
<1>s. UNCHANGED Submissions
  BY <1>t, <1>p, <1>w, <1>g, WaitingType DEF Submissions, Count
<1>T0. mon' \in MonitorLocals
  BY <1>t, Locals, FlagTypes DEF MonitorLocals, Repost, RepostAndRest
<1>T1. req' \in RequestLocals
  BY <1>t, Locals, FlagTypes DEF RequestLocals, Repost, RepostAndRest
<1>S. SessionTypeOK'
  BY <1>t, PttAssumption DEF PttAssumption, TypeOK, SessionTypeOK, Phase, Repost,
     RepostAndRest
<1>1. TypeOK'
  BY <1>t, <1>p, <1>w, <1>T0, <1>T1, <1>S, Locals DEF TypeOK, Repost, RepostAndRest
<1>. USE <1>t, <1>g, <1>p
<1>2. StopPhases'  BY <1>w, NumberTypes DEF IInv, StopPhases, Repost, RepostAndRest
<1>3. Budget'  BY <1>s, NumberTypes DEF IInv, Budget, Repost, RepostAndRest
<1>4. Generations'  BY NumberTypes DEF IInv, Generations, Repost, RepostAndRest
<1>5. CommandsCounted'
  BY <1>u, NumberTypes DEF IInv, CommandsCounted, Repost, RepostAndRest
<1>6. FailureGoesOn'
  BY <1>u, NumberTypes, FlagTypes DEF IInv, FailureGoesOn, FailToken, Repost, RepostAndRest
<1>7. GateKept'  BY FlagTypes DEF IInv, GateKept, Transmitting, Repost, RepostAndRest
<1>8. LinkFirst'  BY <1>u DEF IInv, LinkFirst, Repost, RepostAndRest
<1>9. Completions'
  BY <1>u, NumberTypes, FlagTypes DEF IInv, Completions, Ended, OkToken, Transmitting,
     Repost, RepostAndRest
<1>10. ReleaseComes'
  BY <1>w, FlagTypes DEF IInv, ReleaseComes, CanKey, PastStop4, Repost, RepostAndRest
<1>. QED BY <1>1, <1>2, <1>3, <1>4, <1>5, <1>6, <1>7, <1>8, <1>9, <1>10 DEF IInv

\* The gate is closed: GateKept is given nothing to keep.
LEMMA CloseGateStep ==
  ASSUME IInv, CloseGate
  PROVE  IInv'
<1>t. TypeOK  BY DEF IInv
<1>b. ready' \in BOOLEAN  BY <1>t DEF TypeOK, SessionTypeOK, CloseGate, SetReady
<1>g. pc[Main] = "close"  BY DEF CloseGate, SetReady
<1>p. pc' \in Control /\ pc'[Main] = "lock" /\ UNCHANGED pc[Js8Tx]
  BY <1>t, GotoMain, ControlTypes DEF MainLabels, TxLabels, CloseGate, SetReady
<1>w. UNCHANGED txTasks /\ \A x : UNCHANGED Waiting(txTasks, x)
  BY <1>t DEF CloseGate, SetReady
<1>o. UNCHANGED out  BY <1>t DEF CloseGate, SetReady
<1>u. UNCHANGED UnderWay
  BY <1>t, <1>p, <1>w, <1>g, <1>o, WaitingType DEF UnderWay, Count
<1>s. UNCHANGED Submissions
  BY <1>t, <1>p, <1>w, <1>g, WaitingType DEF Submissions, Count
<1>S. SessionTypeOK'
  BY <1>t, <1>b, PttAssumption DEF PttAssumption, TypeOK, SessionTypeOK, Phase,
     CloseGate, SetReady
<1>1. TypeOK'  BY <1>t, <1>p, <1>w, <1>b, <1>S, Locals DEF TypeOK, CloseGate, SetReady
<1>. USE <1>t, <1>g, <1>p
<1>2. StopPhases'  BY <1>w, NumberTypes DEF IInv, StopPhases, CloseGate, SetReady
<1>3. Budget'  BY <1>s, NumberTypes DEF IInv, Budget, CloseGate, SetReady
<1>4. Generations'  BY NumberTypes DEF IInv, Generations, CloseGate, SetReady
<1>5. CommandsCounted'
  BY <1>u, NumberTypes DEF IInv, CommandsCounted, CloseGate, SetReady
<1>6. FailureGoesOn'
  BY <1>u, NumberTypes, FlagTypes DEF IInv, FailureGoesOn, FailToken, CloseGate, SetReady
<1>7. GateKept'  BY FlagTypes DEF IInv, GateKept, Transmitting, CloseGate, SetReady
<1>8. LinkFirst'  BY <1>u DEF IInv, LinkFirst, CloseGate, SetReady
<1>9. Completions'
  BY <1>u, NumberTypes, FlagTypes DEF IInv, Completions, Ended, OkToken, Transmitting,
     CloseGate, SetReady
<1>10. ReleaseComes'
  BY <1>w, FlagTypes DEF IInv, ReleaseComes, CanKey, PastStop4, CloseGate, SetReady
<1>. QED BY <1>1, <1>2, <1>3, <1>4, <1>5, <1>6, <1>7, <1>8, <1>9, <1>10 DEF IInv

\* The synchronized section of requestRigPtt, branch by branch: over at once, a
\* command under way already, PTT as wanted, a command to post.
LEMMA RequestSectionStep ==
  ASSUME IInv, RequestSection
  PROVE  IInv'
<1>t. TypeOK  BY DEF IInv
<1>b. desired' \in BOOLEAN /\ pending' \in BOOLEAN
  BY <1>t, FlagTypes DEF TypeOK, SessionTypeOK, RequestSection, Return, CanSchedule
<1>g. pc[Main] = "lock"  BY DEF RequestSection, Return, CanSchedule
<1>1. CASE mon.gen # gen \/ (pttFailed /\ req.on)
  <2>p. pc' \in Control /\ pc'[Main] = req.next /\ UNCHANGED pc[Js8Tx]
    BY <1>1, <1>t, GotoMain, ControlTypes DEF MainLabels, TxLabels, RequestSection,
       Return, CanSchedule
  <2>w. UNCHANGED txTasks /\ \A x : UNCHANGED Waiting(txTasks, x)
    BY <1>1, <1>t DEF RequestSection, Return, CanSchedule
  <2>f. UNCHANGED <<sessionVars, rigVars, lockVars, monVars, mainQueue, cmdVars,
                    countVars, crashed, saidVars, cut>>
    BY <1>1, <1>t, <1>g DEF RequestSection, Return, CanSchedule
  <2>e. /\ mon' = IF req.next = "idle" THEN NoMon ELSE mon
        /\ req' = NoReq
    BY <1>1, <1>t, <1>g, FlagTypes DEF RequestSection, Return, CanSchedule
  <2>u. UNCHANGED UnderWay
    BY <1>1, <1>t, <2>p, <2>w, <2>f, <2>e, <1>g, WaitingType, ControlTypes DEF
       UnderWay, Count
  <2>s. UNCHANGED Submissions
    BY <1>1, <1>t, <2>p, <2>w, <2>f, <1>g, WaitingType, ControlTypes DEF Submissions, Count
  <2>T0. mon' \in MonitorLocals  BY <2>e, <1>t, Locals, FlagTypes DEF MonitorLocals
  <2>T1. req' \in RequestLocals  BY <2>e, <1>t, Locals, FlagTypes DEF RequestLocals
  <2>S. SessionTypeOK'
    BY <1>1, <1>t, <2>f, <2>e, <1>b, PttAssumption DEF PttAssumption, TypeOK,
       SessionTypeOK, Phase
  <2>1. TypeOK'  BY <1>t, <2>p, <2>w, <2>f, <2>e, <1>b, <2>T0, <2>T1, <2>S DEF TypeOK
  <2>. USE <1>1, <1>t, <1>g, <2>p, <2>f, <2>e
  <2>2. StopPhases'  BY <2>w, NumberTypes, ControlTypes DEF IInv, StopPhases
  <2>3. Budget'  BY <2>s, NumberTypes, ControlTypes DEF IInv, Budget
  <2>4. Generations'  BY NumberTypes, ControlTypes DEF IInv, Generations
  <2>5. CommandsCounted'  BY <2>u, NumberTypes, ControlTypes DEF IInv, CommandsCounted
  <2>6. FailureGoesOn'
    BY <2>u, NumberTypes, FlagTypes, ControlTypes DEF IInv, FailureGoesOn, FailToken
  <2>7. GateKept'  BY FlagTypes, ControlTypes DEF IInv, GateKept, Transmitting
  <2>8. LinkFirst'  BY <2>u, ControlTypes DEF IInv, LinkFirst
  <2>9. Completions'
    BY <2>u, NumberTypes, FlagTypes, ControlTypes DEF IInv, Completions, Ended,
       OkToken, Transmitting
  <2>10. ReleaseComes'
    BY <2>w, FlagTypes, ControlTypes DEF IInv, ReleaseComes, CanKey, PastStop4
  <2>. QED BY <2>1, <2>2, <2>3, <2>4, <2>5, <2>6, <2>7, <2>8, <2>9, <2>10 DEF IInv
<1>2. CASE ~(mon.gen # gen \/ (pttFailed /\ req.on)) /\ pending
  <2>p. pc' \in Control /\ pc'[Main] = req.next /\ UNCHANGED pc[Js8Tx]
    BY <1>2, <1>t, GotoMain, ControlTypes DEF MainLabels, TxLabels, RequestSection,
       Return, CanSchedule
  <2>w. UNCHANGED txTasks /\ \A x : UNCHANGED Waiting(txTasks, x)
    BY <1>2, <1>t DEF RequestSection, Return, CanSchedule
  <2>f. UNCHANGED <<sessionVars, rigVars, gen, asserted, pending, shuttingDown, pttFailed,
                    monVars, mainQueue, cmdVars, countVars, crashed, saidVars, cut>>
    BY <1>2, <1>t, <1>g DEF RequestSection, Return, CanSchedule
  <2>e. /\ mon' = IF req.next = "idle" THEN NoMon ELSE mon
        /\ req' = NoReq
        /\ desired' = req.on /\ desiredGen' = gen
        /\ failures' \in {0, failures}
        /\ completion' = IF req.done # 0 THEN req.done ELSE completion
    BY <1>2, <1>t, <1>g, FlagTypes DEF RequestSection, Return, CanSchedule
  <2>u. UNCHANGED UnderWay
    BY <1>2, <1>t, <2>p, <2>w, <2>f, <2>e, <1>g, WaitingType, ControlTypes DEF
       UnderWay, Count
  <2>s. UNCHANGED Submissions
    BY <1>2, <1>t, <2>p, <2>w, <2>f, <1>g, WaitingType, ControlTypes DEF Submissions, Count
  <2>T0. mon' \in MonitorLocals  BY <2>e, <1>t, Locals, FlagTypes DEF MonitorLocals
  <2>T1. req' \in RequestLocals  BY <2>e, <1>t, Locals, FlagTypes DEF RequestLocals
  <2>T2. completion' \in Gens  BY <2>f, <2>e, <1>t, Locals
  <2>T3. desiredGen' \in Gens  BY <2>f, <2>e, <1>t, Locals
  <2>T4. failures' \in 0 .. Retries + 1
    <3>1. failures \in 0 .. Retries + 1 /\ Retries \in Nat
      BY <1>t, PttAssumption DEF PttAssumption, TypeOK
    <3>. QED BY <2>f, <2>e, <3>1
  <2>S. SessionTypeOK'
    BY <1>2, <1>t, <2>f, <2>e, <1>b, PttAssumption DEF PttAssumption, TypeOK,
       SessionTypeOK, Phase
  <2>1. TypeOK'
    BY <1>t, <2>p, <2>w, <2>f, <1>b, <2>T0, <2>T1, <2>T2, <2>T3, <2>T4, <2>S DEF TypeOK
  <2>. USE <1>2, <1>t, <1>g, <2>p, <2>f, <2>e
  <2>2. StopPhases'  BY <2>w, NumberTypes, ControlTypes DEF IInv, StopPhases
  <2>3. Budget'  BY <2>s, NumberTypes, ControlTypes DEF IInv, Budget
  <2>4. Generations'  BY NumberTypes, ControlTypes DEF IInv, Generations
  <2>5. CommandsCounted'
    BY SMTT(20), <2>u, NumberTypes, ControlTypes DEF IInv, CommandsCounted
  <2>6. FailureGoesOn'
    BY <2>u, NumberTypes, FlagTypes, ControlTypes DEF IInv, FailureGoesOn, FailToken
  <2>7. GateKept'  BY FlagTypes, ControlTypes DEF IInv, GateKept, Transmitting
  <2>8. LinkFirst'  BY <2>u, ControlTypes DEF IInv, LinkFirst
  <2>9. Completions'
    BY <2>u, NumberTypes, FlagTypes, ControlTypes DEF IInv, Completions, Ended,
       OkToken, Transmitting
  <2>10. ReleaseComes'
    BY <2>w, FlagTypes, ControlTypes DEF IInv, ReleaseComes, CanKey, PastStop4
  <2>. QED BY <2>1, <2>2, <2>3, <2>4, <2>5, <2>6, <2>7, <2>8, <2>9, <2>10 DEF IInv
<1>3. CASE ~(mon.gen # gen \/ (pttFailed /\ req.on)) /\ ~pending /\ asserted = req.on
  <2>p. pc' \in Control /\ pc'[Main] = "grant" /\ UNCHANGED pc[Js8Tx]
    BY <1>3, <1>t, GotoMain, ControlTypes DEF MainLabels, TxLabels, RequestSection,
       Return, CanSchedule
  <2>w. UNCHANGED txTasks /\ \A x : UNCHANGED Waiting(txTasks, x)
    BY <1>3, <1>t DEF RequestSection, Return, CanSchedule
  <2>f. UNCHANGED <<sessionVars, rigVars, gen, asserted, pending, shuttingDown, pttFailed,
                    monVars, mon, mainQueue, cmdVars, countVars, crashed, saidVars, cut>>
    BY <1>3, <1>t, <1>g DEF RequestSection, Return, CanSchedule
  <2>e. /\ req' = [req EXCEPT !.done = IF req.done # 0 THEN req.done ELSE completion]
        /\ desired' = req.on /\ desiredGen' = gen
        /\ failures' \in {0, failures}
        /\ completion' = 0
    BY <1>3, <1>t, <1>g, FlagTypes DEF RequestSection, Return, CanSchedule
  <2>u. UNCHANGED UnderWay
    BY <1>3, <1>t, <2>p, <2>w, <2>f, <2>e, <1>g, WaitingType, ControlTypes DEF
       UnderWay, Count
  <2>s. UNCHANGED Submissions
    BY <1>3, <1>t, <2>p, <2>w, <2>f, <1>g, WaitingType, ControlTypes DEF Submissions, Count
  <2>T0. req' \in RequestLocals  BY <2>e, <1>t, Locals, FlagTypes DEF RequestLocals
  <2>T1. completion' \in Gens  BY <2>f, <2>e, <1>t, Locals
  <2>T2. desiredGen' \in Gens  BY <2>f, <2>e, <1>t, Locals
  <2>T3. failures' \in 0 .. Retries + 1
    <3>1. failures \in 0 .. Retries + 1 /\ Retries \in Nat
      BY <1>t, PttAssumption DEF PttAssumption, TypeOK
    <3>. QED BY <2>f, <2>e, <3>1
  <2>S. SessionTypeOK'
    BY <1>3, <1>t, <2>f, <2>e, <1>b, PttAssumption DEF PttAssumption, TypeOK,
       SessionTypeOK, Phase
  <2>1. TypeOK'
    BY <1>t, <2>p, <2>w, <2>f, <1>b, <2>T0, <2>T1, <2>T2, <2>T3, <2>S DEF TypeOK
  <2>. USE <1>3, <1>t, <1>g, <2>p, <2>f, <2>e
  <2>2. StopPhases'  BY <2>w, NumberTypes DEF IInv, StopPhases
  <2>3. Budget'  BY <2>s, NumberTypes DEF IInv, Budget
  <2>4. Generations'  BY NumberTypes DEF IInv, Generations
  <2>5. CommandsCounted'  BY <2>u, NumberTypes DEF IInv, CommandsCounted
  <2>6. FailureGoesOn'
    BY <2>u, NumberTypes, FlagTypes DEF IInv, FailureGoesOn, FailToken
  <2>7. GateKept'  BY FlagTypes DEF IInv, GateKept, Transmitting
  <2>8. LinkFirst'  BY <2>u DEF IInv, LinkFirst
  <2>9. Completions'
    BY <2>u, NumberTypes, FlagTypes DEF IInv, Completions, Ended, OkToken, Transmitting
  <2>10. ReleaseComes'  BY <2>w, FlagTypes DEF IInv, ReleaseComes, CanKey, PastStop4
  <2>. QED BY <2>1, <2>2, <2>3, <2>4, <2>5, <2>6, <2>7, <2>8, <2>9, <2>10 DEF IInv
<1>4. CASE ~(mon.gen # gen \/ (pttFailed /\ req.on)) /\ ~pending /\ asserted # req.on
  <2>p. pc' \in Control /\ pc'[Main] = "post" /\ UNCHANGED pc[Js8Tx]
    BY <1>4, <1>t, GotoMain, ControlTypes DEF MainLabels, TxLabels, RequestSection,
       Return, CanSchedule
  <2>w. UNCHANGED txTasks /\ \A x : UNCHANGED Waiting(txTasks, x)
    BY <1>4, <1>t DEF RequestSection, Return, CanSchedule
  <2>f. UNCHANGED <<sessionVars, rigVars, gen, asserted, shuttingDown, pttFailed, monVars,
                    localVars, mainQueue, cmdVars, countVars, crashed, saidVars, cut>>
    BY <1>4, <1>t, <1>g DEF RequestSection, Return, CanSchedule
  <2>e. /\ desired' = req.on /\ desiredGen' = gen
        /\ failures' = IF desired # req.on \/ desiredGen # gen THEN 0 ELSE failures
        /\ completion' = (IF req.done # 0 THEN req.done ELSE completion)
        /\ pending' = TRUE
    BY <1>4, <1>t, <1>g, FlagTypes DEF RequestSection, Return, CanSchedule
  <2>u. UnderWay' = UnderWay + 1
    BY <1>4, <1>t, <2>p, <2>w, <2>f, <2>e, <1>g, WaitingType, ControlTypes DEF
       UnderWay, Count
  <2>s. UNCHANGED Submissions
    BY <1>4, <1>t, <2>p, <2>w, <2>f, <1>g, WaitingType, ControlTypes DEF Submissions, Count
  <2>T0. completion' \in Gens  BY <2>f, <2>e, <1>t, Locals
  <2>T1. desiredGen' \in Gens  BY <2>f, <2>e, <1>t, Locals
  <2>T2. failures' \in 0 .. Retries + 1
    <3>1. failures \in 0 .. Retries + 1 /\ Retries \in Nat
      BY <1>t, PttAssumption DEF PttAssumption, TypeOK
    <3>. QED BY <2>f, <2>e, <3>1
  <2>S. SessionTypeOK'
    BY <1>4, <1>t, <2>f, <2>e, <1>b, PttAssumption DEF PttAssumption, TypeOK,
       SessionTypeOK, Phase
  <2>1. TypeOK'  BY <1>t, <2>p, <2>w, <2>f, <1>b, <2>T0, <2>T1, <2>T2, <2>S DEF TypeOK
  <2>. USE <1>4, <1>t, <1>g, <2>p, <2>f, <2>e
  <2>2. StopPhases'  BY <2>w, NumberTypes DEF IInv, StopPhases
  <2>3. Budget'  BY <2>s, NumberTypes DEF IInv, Budget
  <2>4. Generations'  BY NumberTypes DEF IInv, Generations
  <2>5. CommandsCounted'  BY <2>u, NumberTypes DEF IInv, CommandsCounted, StopPhases
  <2>6. FailureGoesOn'
    BY <2>u, NumberTypes, FlagTypes DEF IInv, FailureGoesOn, FailToken, StopPhases
  <2>7. GateKept'  BY FlagTypes DEF IInv, GateKept, Transmitting
  <2>8. LinkFirst'  BY <2>u DEF IInv, LinkFirst
  <2>9. Completions'
    BY <2>u, NumberTypes, FlagTypes DEF IInv, Completions, Ended, OkToken, Transmitting
  <2>10. ReleaseComes'  BY <2>w, FlagTypes DEF IInv, ReleaseComes, CanKey, PastStop4
  <2>. QED BY <2>1, <2>2, <2>3, <2>4, <2>5, <2>6, <2>7, <2>8, <2>9, <2>10 DEF IInv
<1>. QED BY <1>1, <1>2, <1>3, <1>4, FlagTypes, <1>t

\* GateKept: the gate is opened because asserted = req.on, the radio being keyed.
LEMMA GrantStep ==
  ASSUME IInv, Grant
  PROVE  IInv'
<1>t. TypeOK  BY DEF IInv
<1>b. ready' \in BOOLEAN  BY <1>t DEF TypeOK, SessionTypeOK, Grant, SetReady, Return
<1>g. pc[Main] = "grant"  BY DEF Grant, SetReady, Return
<1>p. pc' \in Control /\ pc'[Main] = req.next /\ UNCHANGED pc[Js8Tx]
  BY <1>t, GotoMain, ControlTypes DEF MainLabels, TxLabels, Grant, SetReady, Return
<1>w. UNCHANGED txTasks /\ \A x : UNCHANGED Waiting(txTasks, x)
  BY <1>t DEF Grant, SetReady, Return
<1>f. UNCHANGED <<phase, frames, rigVars, lockVars, monVars, mainQueue, cmdVars,
                  countVars, crashed, cut>>
  BY <1>t, <1>g DEF Grant, SetReady, Return
<1>e. /\ ready' \in BOOLEAN /\ (~req.on => ready' = ready)
      /\ mon' = (IF req.next = "idle" THEN NoMon ELSE mon) /\ req' = NoReq
  BY <1>t, <1>g, <1>b, FlagTypes DEF Grant, SetReady, Return
<1>u. UNCHANGED UnderWay
  BY <1>t, <1>p, <1>w, <1>f, <1>e, <1>g, WaitingType, ControlTypes DEF UnderWay, Count
<1>s. UNCHANGED Submissions
  BY <1>t, <1>p, <1>w, <1>f, <1>g, WaitingType, ControlTypes DEF Submissions, Count
<1>T0. mon' \in MonitorLocals  BY <1>e, <1>t, Locals, FlagTypes DEF MonitorLocals
<1>T1. req' \in RequestLocals  BY <1>e, <1>t, Locals, FlagTypes DEF RequestLocals
<1>R. told' \in [Gens -> Nat] /\ lastReport' \in {"none", "finished", "failed"}
  BY <1>t, Locals, CompleteTypes DEF Grant, SetReady, Return
<1>S. SessionTypeOK'
  BY <1>t, <1>f, <1>e, <1>b, PttAssumption DEF PttAssumption, TypeOK, SessionTypeOK, Phase
<1>1. TypeOK'
  BY <1>t, <1>p, <1>w, <1>f, <1>e, <1>b, <1>T0, <1>T1, <1>R, <1>S DEF TypeOK
<1>. USE <1>t, <1>g, <1>p, <1>f, <1>e
<1>2. StopPhases'  BY <1>w, NumberTypes, ControlTypes DEF IInv, StopPhases
<1>3. Budget'  BY <1>s, NumberTypes, ControlTypes DEF IInv, Budget
<1>4. Generations'  BY NumberTypes, ControlTypes DEF IInv, Generations
<1>5. CommandsCounted'  BY <1>u, NumberTypes, ControlTypes DEF IInv, CommandsCounted
<1>6. FailureGoesOn'
  BY <1>u, NumberTypes, FlagTypes, ControlTypes DEF IInv, FailureGoesOn, FailToken
<1>7. GateKept'
  BY FlagTypes, ControlTypes DEF IInv, GateKept, Transmitting, CommandsCounted
<1>8. LinkFirst'  BY <1>u, ControlTypes DEF IInv, LinkFirst
<1>9. Completions'
  BY <1>u, NumberTypes, FlagTypes, ControlTypes DEF IInv, Completions, Ended, OkToken,
     Transmitting
<1>10. ReleaseComes'
  BY <1>w, FlagTypes, ControlTypes DEF IInv, ReleaseComes, CanKey, PastStop4
<1>. QED BY <1>1, <1>2, <1>3, <1>4, <1>5, <1>6, <1>7, <1>8, <1>9, <1>10 DEF IInv

\* CommandsCounted: the command about to be posted is now posted.
LEMMA PostCommandStep ==
  ASSUME IInv, PostCommand
  PROVE  IInv'
<1>t. TypeOK  BY DEF IInv
<1>g. pc[Main] = "post"  BY DEF PostCommand, Return
<1>p. pc' \in Control /\ pc'[Main] = req.next /\ UNCHANGED pc[Js8Tx]
  BY <1>t, GotoMain, ControlTypes DEF MainLabels, TxLabels, PostCommand, Return
<1>v. txTasks' = Append(txTasks, "ptt")  BY <1>t DEF PostCommand, Return
<1>w. /\ txTasks' \in Seq(Task)
      /\ Waiting(txTasks', "ptt") = Waiting(txTasks, "ptt") + 1
      /\ \A x : x # "ptt" => Waiting(txTasks', x) = Waiting(txTasks, x)
  BY <1>t, <1>v, ControlTypes, TasksAppend DEF Task
<1>o. UNCHANGED out  BY <1>t DEF PostCommand, Return
<1>u. UNCHANGED UnderWay
  BY <1>t, <1>p, <1>w, <1>g, <1>o, WaitingType, ControlTypes DEF UnderWay, Count
<1>s. UNCHANGED Submissions
  BY <1>t, <1>p, <1>w, <1>g, WaitingType, ControlTypes DEF Submissions, Count
<1>T0. mon' \in MonitorLocals
  BY <1>t, Locals, FlagTypes DEF MonitorLocals, PostCommand, Return
<1>T1. req' \in RequestLocals
  BY <1>t, Locals, FlagTypes DEF RequestLocals, PostCommand, Return
<1>S. SessionTypeOK'
  BY <1>t, PttAssumption DEF PttAssumption, TypeOK, SessionTypeOK, Phase, PostCommand,
     Return
<1>1. TypeOK'
  BY <1>t, <1>p, <1>w, <1>T0, <1>T1, <1>S, Locals DEF TypeOK, PostCommand, Return
<1>. USE <1>t, <1>g, <1>p
<1>2. StopPhases'
  BY <1>w, NumberTypes, ControlTypes DEF IInv, StopPhases, PostCommand, Return
<1>3. Budget'  BY <1>s, NumberTypes, ControlTypes DEF IInv, Budget, PostCommand, Return
<1>4. Generations'
  BY NumberTypes, ControlTypes DEF IInv, Generations, PostCommand, Return
<1>5. CommandsCounted'
  BY <1>u, NumberTypes, ControlTypes DEF IInv, CommandsCounted, PostCommand, Return
<1>6. FailureGoesOn'
  BY <1>u, NumberTypes, FlagTypes, ControlTypes DEF IInv, FailureGoesOn, FailToken,
     PostCommand, Return
<1>7. GateKept'
  BY FlagTypes, ControlTypes DEF IInv, GateKept, Transmitting, PostCommand, Return
<1>8. LinkFirst'  BY <1>u, ControlTypes DEF IInv, LinkFirst, PostCommand, Return
<1>9. Completions'
  BY <1>u, NumberTypes, FlagTypes, ControlTypes DEF IInv, Completions, Ended, OkToken,
     Transmitting, PostCommand, Return
<1>10. ReleaseComes'
  BY <1>w, FlagTypes, ControlTypes DEF IInv, ReleaseComes, CanKey, PastStop4,
     PostCommand, Return
<1>. QED BY <1>1, <1>2, <1>3, <1>4, <1>5, <1>6, <1>7, <1>8, <1>9, <1>10 DEF IInv

\* failTransmitForPtt: over at once, or with a release posted, or without.
LEMMA FailSectionStep ==
  ASSUME IInv, FailSection
  PROVE  IInv'
<1>t. TypeOK  BY DEF IInv
<1>b. desired' \in BOOLEAN /\ pending' \in BOOLEAN /\ pttFailed' \in BOOLEAN
  BY <1>t DEF TypeOK, SessionTypeOK, FailSection, FailReleases
<1>g. pc[Main] = "fail"  BY DEF FailSection, FailReleases
<1>1. CASE mon.gen # gen \/ pttFailed
  <2>p. pc' \in Control /\ pc'[Main] = "idle" /\ UNCHANGED pc[Js8Tx]
    BY <1>1, <1>t, GotoMain, ControlTypes DEF MainLabels, TxLabels, FailSection,
       FailReleases
  <2>w. UNCHANGED txTasks /\ \A x : UNCHANGED Waiting(txTasks, x)
    BY <1>1, <1>t DEF FailSection, FailReleases
  <2>f. UNCHANGED <<sessionVars, rigVars, lockVars, monVars, req, mainQueue, cmdVars,
                    countVars, crashed, saidVars, cut>>
    BY <1>1, <1>t, <1>g DEF FailSection, FailReleases
  <2>e. /\ mon' = NoMon  BY <1>1, <1>t, <1>g, FlagTypes DEF FailSection, FailReleases
  <2>u. UNCHANGED UnderWay
    BY <1>1, <1>t, <2>p, <2>w, <2>f, <2>e, <1>g, WaitingType DEF UnderWay, Count
  <2>s. UNCHANGED Submissions
    BY <1>1, <1>t, <2>p, <2>w, <2>f, <1>g, WaitingType DEF Submissions, Count
  <2>T0. mon' \in MonitorLocals  BY <2>e, <1>t, Locals, FlagTypes DEF MonitorLocals
  <2>S. SessionTypeOK'
    BY <1>1, <1>t, <2>f, <2>e, <1>b, PttAssumption DEF PttAssumption, TypeOK,
       SessionTypeOK, Phase
  <2>1. TypeOK'  BY <1>t, <2>p, <2>w, <2>f, <2>e, <1>b, <2>T0, <2>S DEF TypeOK
  <2>. USE <1>1, <1>t, <1>g, <2>p, <2>f, <2>e
  <2>2. StopPhases'  BY <2>w, NumberTypes DEF IInv, StopPhases
  <2>3. Budget'  BY <2>s, NumberTypes DEF IInv, Budget
  <2>4. Generations'  BY NumberTypes DEF IInv, Generations
  <2>5. CommandsCounted'  BY <2>u, NumberTypes DEF IInv, CommandsCounted
  <2>6. FailureGoesOn'
    BY <2>u, NumberTypes, FlagTypes DEF IInv, FailureGoesOn, FailToken
  <2>7. GateKept'  BY FlagTypes DEF IInv, GateKept, Transmitting
  <2>8. LinkFirst'  BY <2>u DEF IInv, LinkFirst
  <2>9. Completions'
    BY <2>u, NumberTypes, FlagTypes DEF IInv, Completions, Ended, OkToken, Transmitting
  <2>10. ReleaseComes'  BY <2>w, FlagTypes DEF IInv, ReleaseComes, CanKey, PastStop4
  <2>. QED BY <2>1, <2>2, <2>3, <2>4, <2>5, <2>6, <2>7, <2>8, <2>9, <2>10 DEF IInv
<1>2. CASE ~(mon.gen # gen \/ pttFailed) /\ ~(~pending /\ asserted)
  <2>p. pc' \in Control /\ pc'[Main] = "failstop" /\ UNCHANGED pc[Js8Tx]
    BY <1>2, <1>t, GotoMain, ControlTypes DEF MainLabels, TxLabels, FailSection,
       FailReleases
  <2>w. UNCHANGED txTasks /\ \A x : UNCHANGED Waiting(txTasks, x)
    BY <1>2, <1>t DEF FailSection, FailReleases
  <2>f. UNCHANGED <<sessionVars, rigVars, gen, asserted, pending, shuttingDown, monVars,
                    localVars, mainQueue, cmdVars, countVars, crashed, saidVars, cut>>
    BY <1>2, <1>t, <1>g DEF FailSection, FailReleases
  <2>e. /\ pttFailed' = TRUE /\ desired' = FALSE /\ desiredGen' = gen
        /\ failures' = 0 /\ completion' = 0
    BY <1>2, <1>t, <1>g, FlagTypes DEF FailSection, FailReleases
  <2>u. UNCHANGED UnderWay
    BY <1>2, <1>t, <2>p, <2>w, <2>f, <2>e, <1>g, WaitingType DEF UnderWay, Count
  <2>s. UNCHANGED Submissions
    BY <1>2, <1>t, <2>p, <2>w, <2>f, <1>g, WaitingType DEF Submissions, Count
  <2>T0. completion' \in Gens  BY <2>f, <2>e, <1>t, Locals
  <2>T1. desiredGen' \in Gens  BY <2>f, <2>e, <1>t, Locals
  <2>T2. failures' \in 0 .. Retries + 1
    <3>1. failures \in 0 .. Retries + 1 /\ Retries \in Nat
      BY <1>t, PttAssumption DEF PttAssumption, TypeOK
    <3>. QED BY <2>f, <2>e, <3>1
  <2>S. SessionTypeOK'
    BY <1>2, <1>t, <2>f, <2>e, <1>b, PttAssumption DEF PttAssumption, TypeOK,
       SessionTypeOK, Phase
  <2>1. TypeOK'  BY <1>t, <2>p, <2>w, <2>f, <1>b, <2>T0, <2>T1, <2>T2, <2>S DEF TypeOK
  <2>. USE <1>2, <1>t, <1>g, <2>p, <2>f, <2>e
  <2>2. StopPhases'  BY <2>w, NumberTypes DEF IInv, StopPhases
  <2>3. Budget'  BY <2>s, NumberTypes DEF IInv, Budget
  <2>4. Generations'  BY NumberTypes DEF IInv, Generations
  <2>5. CommandsCounted'  BY <2>u, NumberTypes DEF IInv, CommandsCounted
  <2>6. FailureGoesOn'
    BY <2>u, NumberTypes, FlagTypes DEF IInv, FailureGoesOn, FailToken
  <2>7. GateKept'  BY FlagTypes DEF IInv, GateKept, Transmitting
  <2>8. LinkFirst'  BY <2>u DEF IInv, LinkFirst
  <2>9. Completions'
    BY <2>u, NumberTypes, FlagTypes DEF IInv, Completions, Ended, OkToken, Transmitting
  <2>10. ReleaseComes'  BY <2>w, FlagTypes DEF IInv, ReleaseComes, CanKey, PastStop4
  <2>. QED BY <2>1, <2>2, <2>3, <2>4, <2>5, <2>6, <2>7, <2>8, <2>9, <2>10 DEF IInv
<1>3. CASE ~(mon.gen # gen \/ pttFailed) /\ ~pending /\ asserted
  <2>p. pc' \in Control /\ pc'[Main] = "failstop" /\ UNCHANGED pc[Js8Tx]
    BY <1>3, <1>t, GotoMain, ControlTypes DEF MainLabels, TxLabels, FailSection,
       FailReleases
  <2>v. txTasks' = Append(txTasks, "ptt")  BY <1>3, <1>t DEF FailSection, FailReleases
  <2>w. /\ txTasks' \in Seq(Task)
        /\ Waiting(txTasks', "ptt") = Waiting(txTasks, "ptt") + 1
        /\ \A x : x # "ptt" => Waiting(txTasks', x) = Waiting(txTasks, x)
    BY <1>t, <2>v, ControlTypes, TasksAppend DEF Task
  <2>f. UNCHANGED <<sessionVars, rigVars, gen, asserted, shuttingDown, monVars, localVars,
                    mainQueue, cmdVars, countVars, crashed, saidVars, cut>>
    BY <1>3, <1>t, <1>g DEF FailSection, FailReleases
  <2>e. /\ pttFailed' = TRUE /\ desired' = FALSE /\ desiredGen' = gen
        /\ failures' = 0 /\ completion' = 0 /\ pending' = TRUE
    BY <1>3, <1>t, <1>g, FlagTypes DEF FailSection, FailReleases
  <2>u. UnderWay' = UnderWay + 1
    BY <1>3, <1>t, <2>p, <2>w, <2>f, <2>e, <1>g, WaitingType DEF UnderWay, Count
  <2>s. UNCHANGED Submissions
    BY <1>3, <1>t, <2>p, <2>w, <2>f, <1>g, WaitingType DEF Submissions, Count
  <2>T0. completion' \in Gens  BY <2>f, <2>e, <1>t, Locals
  <2>T1. desiredGen' \in Gens  BY <2>f, <2>e, <1>t, Locals
  <2>T2. failures' \in 0 .. Retries + 1
    <3>1. failures \in 0 .. Retries + 1 /\ Retries \in Nat
      BY <1>t, PttAssumption DEF PttAssumption, TypeOK
    <3>. QED BY <2>f, <2>e, <3>1
  <2>S. SessionTypeOK'
    BY <1>3, <1>t, <2>f, <2>e, <1>b, PttAssumption DEF PttAssumption, TypeOK,
       SessionTypeOK, Phase
  <2>1. TypeOK'  BY <1>t, <2>p, <2>w, <2>f, <1>b, <2>T0, <2>T1, <2>T2, <2>S DEF TypeOK
  <2>. USE <1>3, <1>t, <1>g, <2>p, <2>f, <2>e
  <2>2. StopPhases'  BY <2>w, NumberTypes DEF IInv, StopPhases
  <2>3. Budget'  BY <2>s, NumberTypes DEF IInv, Budget
  <2>4. Generations'  BY NumberTypes DEF IInv, Generations
  <2>5. CommandsCounted'
    <3>1. mon.gen = gen /\ ~pttFailed /\ ~pending  OBVIOUS
    <3>2. UnderWay = 0
      BY <3>1, NumberTypes DEF IInv, CommandsCounted, FailureGoesOn, FailToken
    <3>. QED BY <2>u, <3>2, NumberTypes DEF CommandsCounted
  <2>6. FailureGoesOn'
    BY <1>3, <1>t, <1>g, <2>p, <2>f, <2>e, <2>u, NumberTypes, FlagTypes DEF IInv,
       FailureGoesOn, FailToken
  <2>7. GateKept'
    BY <1>3, <1>t, <1>g, <2>p, <2>f, <2>e, FlagTypes DEF IInv, GateKept, Transmitting
  <2>8. LinkFirst'  BY <1>3, <1>t, <1>g, <2>p, <2>f, <2>e, <2>u DEF IInv, LinkFirst
  <2>9. Completions'
    BY <1>3, <1>t, <1>g, <2>p, <2>f, <2>e, <2>u, NumberTypes, FlagTypes DEF IInv,
       Completions, Ended, OkToken, Transmitting
  <2>10. ReleaseComes'
    BY <1>3, <1>t, <1>g, <2>p, <2>f, <2>e, <2>w, FlagTypes DEF IInv, ReleaseComes,
       CanKey, PastStop4
  <2>. QED BY <2>1, <2>2, <2>3, <2>4, <2>5, <2>6, <2>7, <2>8, <2>9, <2>10 DEF IInv
<1>. QED BY <1>1, <1>2, <1>3, FlagTypes, <1>t

LEMMA FailStopsStep ==
  ASSUME IInv, FailStops
  PROVE  IInv'
<1>t. TypeOK  BY DEF IInv
<1>b. monitorActive' \in BOOLEAN /\ cut' \in BOOLEAN
  BY <1>t DEF TypeOK, SessionTypeOK, FailStops, Cancel
<1>g. pc[Main] = "failstop"  BY DEF FailStops, Cancel
<1>p. pc' \in Control /\ pc'[Main] = "failgate" /\ UNCHANGED pc[Js8Tx]
  BY <1>t, GotoMain, ControlTypes DEF MainLabels, TxLabels, FailStops, Cancel
<1>w. UNCHANGED txTasks /\ \A x : UNCHANGED Waiting(txTasks, x)
  BY <1>t DEF FailStops, Cancel
<1>f. UNCHANGED <<ready, rigVars, lockVars, wasAudio, txBusy, localVars, mainQueue,
                  cmdVars, countVars, crashed, saidVars>>
  BY <1>t, <1>g DEF FailStops, Cancel
<1>e. /\ phase' = "idle" /\ frames' = 0
      /\ monitorActive' = FALSE /\ monitorPosted' = 0
  BY <1>t, <1>g DEF FailStops, Cancel
<1>u. UNCHANGED UnderWay
  BY <1>t, <1>p, <1>w, <1>f, <1>e, <1>g, WaitingType DEF UnderWay, Count
<1>s. UNCHANGED Submissions
  BY <1>t, <1>p, <1>w, <1>f, <1>g, WaitingType DEF Submissions, Count
<1>S. SessionTypeOK'
  BY <1>t, <1>f, <1>e, <1>b, PttAssumption DEF PttAssumption, TypeOK, SessionTypeOK, Phase
<1>1. TypeOK'  BY <1>t, <1>p, <1>w, <1>f, <1>e, <1>b, <1>S DEF TypeOK
<1>. USE <1>t, <1>g, <1>p, <1>f, <1>e
<1>2. StopPhases'  BY <1>w, NumberTypes DEF IInv, StopPhases
<1>3. Budget'  BY <1>s, NumberTypes DEF IInv, Budget
<1>4. Generations'  BY NumberTypes DEF IInv, Generations
<1>5. CommandsCounted'  BY <1>u, NumberTypes DEF IInv, CommandsCounted
<1>6. FailureGoesOn'  BY <1>u, NumberTypes, FlagTypes DEF IInv, FailureGoesOn, FailToken
<1>7. GateKept'  BY FlagTypes DEF IInv, GateKept, Transmitting
<1>8. LinkFirst'  BY <1>u DEF IInv, LinkFirst
<1>9. Completions'
  BY <1>u, NumberTypes, FlagTypes DEF IInv, Completions, Ended, OkToken, Transmitting
<1>10. ReleaseComes'  BY <1>w, FlagTypes DEF IInv, ReleaseComes, CanKey, PastStop4
<1>. QED BY <1>1, <1>2, <1>3, <1>4, <1>5, <1>6, <1>7, <1>8, <1>9, <1>10 DEF IInv

LEMMA FailReportsStep ==
  ASSUME IInv, FailReports
  PROVE  IInv'
<1>t. TypeOK  BY DEF IInv
<1>b. ready' \in BOOLEAN /\ wasAudio' \in BOOLEAN /\ txBusy' \in BOOLEAN
  BY <1>t DEF TypeOK, SessionTypeOK, FailReports, SetReady
<1>g. pc[Main] = "failgate"  BY DEF FailReports, SetReady
<1>p. pc' \in Control /\ pc'[Main] = "idle" /\ UNCHANGED pc[Js8Tx]
  BY <1>t, GotoMain, ControlTypes DEF MainLabels, TxLabels, FailReports, SetReady
<1>w. UNCHANGED txTasks /\ \A x : UNCHANGED Waiting(txTasks, x)
  BY <1>t DEF FailReports, SetReady
<1>o. UNCHANGED out  BY <1>t DEF FailReports, SetReady
<1>u. UNCHANGED UnderWay
  BY <1>t, <1>p, <1>w, <1>g, <1>o, WaitingType DEF UnderWay, Count
<1>s. UNCHANGED Submissions
  BY <1>t, <1>p, <1>w, <1>g, WaitingType DEF Submissions, Count
<1>T0. mon' \in MonitorLocals
  BY <1>t, Locals, FlagTypes DEF MonitorLocals, FailReports, SetReady
<1>R. told' \in [Gens -> Nat] /\ lastReport' \in {"none", "finished", "failed"}
  BY <1>t, Locals, ReportTypes DEF FailReports, FailureSaid, SetReady
<1>S. SessionTypeOK'
  BY <1>t, <1>b, PttAssumption DEF PttAssumption, TypeOK, SessionTypeOK, Phase,
     FailReports, SetReady
<1>1. TypeOK'
  BY <1>t, <1>p, <1>w, <1>b, <1>T0, <1>R, <1>S, Locals DEF TypeOK, FailReports, SetReady
<1>. USE <1>t, <1>g, <1>p
<1>2. StopPhases'  BY <1>w, NumberTypes DEF IInv, StopPhases, FailReports, SetReady
<1>3. Budget'  BY <1>s, NumberTypes DEF IInv, Budget, FailReports, SetReady
<1>4. Generations'  BY NumberTypes DEF IInv, Generations, FailReports, SetReady
<1>5. CommandsCounted'
  BY <1>u, NumberTypes DEF IInv, CommandsCounted, FailReports, SetReady
<1>6. FailureGoesOn'
  BY <1>u, NumberTypes, FlagTypes DEF IInv, FailureGoesOn, FailToken, FailReports, SetReady
<1>7. GateKept'  BY FlagTypes DEF IInv, GateKept, Transmitting, FailReports, SetReady
<1>8. LinkFirst'  BY <1>u DEF IInv, LinkFirst, FailReports, SetReady
<1>9. Completions'
  BY <1>u, NumberTypes, FlagTypes DEF IInv, Completions, Ended, OkToken, Transmitting,
     FailReports, SetReady
<1>10. ReleaseComes'
  BY <1>w, FlagTypes DEF IInv, ReleaseComes, CanKey, PastStop4, FailReports, SetReady
<1>. QED BY <1>1, <1>2, <1>3, <1>4, <1>5, <1>6, <1>7, <1>8, <1>9, <1>10 DEF IInv

\* The gate of a message that needs PTT is closed.
LEMMA PrepareEngineMainStep ==
  ASSUME IInv, PrepareEngine(Main), ~Crash
  PROVE  IInv'
<1>t. TypeOK  BY DEF IInv
<1>b. ready' \in BOOLEAN
  BY <1>t DEF TypeOK, SessionTypeOK, PrepareEngine, SetReady, GateWhenPrepared
<1>g. pc[Main] = "prepare"  BY DEF PrepareEngine, SetReady, GateWhenPrepared
<1>p. pc' \in Control /\ pc'[Main] = "submit" /\ UNCHANGED pc[Js8Tx]
  BY <1>t, GotoMain, ControlTypes DEF MainLabels, TxLabels, PrepareEngine, SetReady,
     GateWhenPrepared
<1>w. UNCHANGED txTasks /\ \A x : UNCHANGED Waiting(txTasks, x)
  BY <1>t DEF PrepareEngine, SetReady, GateWhenPrepared
<1>f. UNCHANGED <<phase, frames, rigVars, lockVars, monVars, localVars, mainQueue,
                  cmdVars, countVars, crashed, saidVars, cut>>
  BY <1>t, <1>g DEF PrepareEngine, SetReady, GateWhenPrepared
<1>e. /\ ready' = ~mode /\ engine = "open"
  BY <1>t, <1>g DEF PrepareEngine, SetReady, GateWhenPrepared
<1>u. UNCHANGED UnderWay
  BY <1>t, <1>p, <1>w, <1>f, <1>e, <1>g, WaitingType DEF UnderWay, Count
<1>s. UNCHANGED Submissions
  BY <1>t, <1>p, <1>w, <1>f, <1>g, WaitingType DEF Submissions, Count
<1>S. SessionTypeOK'
  BY <1>t, <1>f, <1>e, <1>b, PttAssumption DEF PttAssumption, TypeOK, SessionTypeOK, Phase
<1>1. TypeOK'  BY <1>t, <1>p, <1>w, <1>f, <1>e, <1>b, <1>S DEF TypeOK
<1>. USE <1>t, <1>g, <1>p, <1>f, <1>e
<1>2. StopPhases'  BY <1>w, NumberTypes DEF IInv, StopPhases
<1>3. Budget'  BY <1>s, NumberTypes DEF IInv, Budget
<1>4. Generations'  BY NumberTypes DEF IInv, Generations
<1>5. CommandsCounted'  BY <1>u, NumberTypes DEF IInv, CommandsCounted
<1>6. FailureGoesOn'  BY <1>u, NumberTypes, FlagTypes DEF IInv, FailureGoesOn, FailToken
<1>7. GateKept'  BY FlagTypes DEF IInv, GateKept, Transmitting
<1>8. LinkFirst'  BY <1>u DEF IInv, LinkFirst
<1>9. Completions'
  BY <1>u, NumberTypes, FlagTypes DEF IInv, Completions, Ended, OkToken, Transmitting
<1>10. ReleaseComes'  BY <1>w, FlagTypes DEF IInv, ReleaseComes, CanKey, PastStop4
<1>. QED BY <1>1, <1>2, <1>3, <1>4, <1>5, <1>6, <1>7, <1>8, <1>9, <1>10 DEF IInv

\* Accepted, rejected, or the end of the session of an earlier message.
LEMMA TransmitMessageMainStep ==
  ASSUME IInv, TransmitMessage(Main), ~Crash
  PROVE  IInv'
<1>t. TypeOK  BY DEF IInv
<1>b. cut' \in BOOLEAN
  BY <1>t DEF TypeOK, SessionTypeOK, TransmitMessage, Submit, Cancel, Transmitting
<1>g. pc[Main] = "submit"  BY DEF TransmitMessage, Submit, Cancel, Transmitting
<1>1. CASE (\E n \in 1 .. MaxFrames : Submit(n)) /\ cut' = FALSE /\ Goto(Main, "accepted")
  <2>p. pc' \in Control /\ pc'[Main] = "accepted" /\ UNCHANGED pc[Js8Tx]
    BY <1>1, <1>t, GotoMain, ControlTypes DEF MainLabels, TxLabels, TransmitMessage,
       Submit, Cancel, Transmitting
  <2>w. UNCHANGED txTasks /\ \A x : UNCHANGED Waiting(txTasks, x)
    BY <1>1, <1>t DEF TransmitMessage, Submit, Cancel, Transmitting
  <2>f. UNCHANGED <<ready, rigVars, lockVars, monVars, localVars, mainQueue, cmdVars,
                    countVars, crashed, saidVars>>
    BY <1>1, <1>t, <1>g DEF TransmitMessage, Submit, Cancel, Transmitting
  <2>e. /\ phase' \in {"far", "near"} /\ frames' \in 0 .. MaxFrames
        /\ engine = "open"
    BY <1>1, <1>t, <1>g, <2>p, PttAssumption DEF TransmitMessage, Submit, Cancel,
       Transmitting, PttAssumption, TypeOK, SessionTypeOK, Phase
  <2>u. UNCHANGED UnderWay
    BY <1>1, <1>t, <2>p, <2>w, <2>f, <2>e, <1>g, WaitingType DEF UnderWay, Count
  <2>s. UNCHANGED Submissions
    BY <1>1, <1>t, <2>p, <2>w, <2>f, <1>g, WaitingType DEF Submissions, Count
  <2>S. SessionTypeOK'
    BY <1>1, <1>t, <2>f, <2>e, <1>b, PttAssumption DEF PttAssumption, TypeOK,
       SessionTypeOK, Phase
  <2>1. TypeOK'  BY <1>t, <2>p, <2>w, <2>f, <2>e, <1>b, <2>S DEF TypeOK
  <2>. USE <1>1, <1>t, <1>g, <2>p, <2>f, <2>e
  <2>2. StopPhases'  BY <2>w, NumberTypes DEF IInv, StopPhases
  <2>3. Budget'  BY <2>s, NumberTypes DEF IInv, Budget
  <2>4. Generations'  BY NumberTypes DEF IInv, Generations
  <2>5. CommandsCounted'  BY <2>u, NumberTypes DEF IInv, CommandsCounted
  <2>6. FailureGoesOn'
    BY <2>u, NumberTypes, FlagTypes DEF IInv, FailureGoesOn, FailToken
  <2>7. GateKept'  BY FlagTypes DEF IInv, GateKept, Transmitting
  <2>8. LinkFirst'  BY <2>u DEF IInv, LinkFirst
  <2>9. Completions'
    BY <2>u, NumberTypes, FlagTypes DEF IInv, Completions, Ended, OkToken, Transmitting
  <2>10. ReleaseComes'
    BY <2>w, <2>u, WaitingType DEF IInv, ReleaseComes, CanKey, PastStop4, StopPhases
  <2>. QED BY <2>1, <2>2, <2>3, <2>4, <2>5, <2>6, <2>7, <2>8, <2>9, <2>10 DEF IInv
<1>2. CASE UNCHANGED <<sessionVars, cut>> /\ Goto(Main, "idle")
  <2>p. pc' \in Control /\ pc'[Main] = "idle" /\ UNCHANGED pc[Js8Tx]
    BY <1>2, <1>t, GotoMain, ControlTypes DEF MainLabels, TxLabels, TransmitMessage,
       Submit, Cancel, Transmitting
  <2>w. UNCHANGED txTasks /\ \A x : UNCHANGED Waiting(txTasks, x)
    BY <1>2, <1>t DEF TransmitMessage, Submit, Cancel, Transmitting
  <2>f. UNCHANGED <<sessionVars, rigVars, lockVars, monVars, localVars, mainQueue,
                    cmdVars, countVars, crashed, saidVars, cut>>
    BY <1>2, <1>t, <1>g DEF TransmitMessage, Submit, Cancel, Transmitting
  <2>e. /\ engine = "open"
    BY <1>2, <1>t, <1>g, <2>p, PttAssumption DEF TransmitMessage, Submit, Cancel,
       Transmitting, PttAssumption, TypeOK, SessionTypeOK, Phase
  <2>u. UNCHANGED UnderWay
    BY <1>2, <1>t, <2>p, <2>w, <2>f, <2>e, <1>g, WaitingType DEF UnderWay, Count
  <2>s. Submissions' \in Nat /\ Submissions' <= Submissions
    BY <1>2, <1>t, <2>p, <2>w, <2>f, <1>g, WaitingType DEF Submissions, Count
  <2>S. SessionTypeOK'
    BY <1>2, <1>t, <2>f, <2>e, <1>b, PttAssumption DEF PttAssumption, TypeOK,
       SessionTypeOK, Phase
  <2>1. TypeOK'  BY <1>t, <2>p, <2>w, <2>f, <2>e, <1>b, <2>S DEF TypeOK
  <2>. USE <1>2, <1>t, <1>g, <2>p, <2>f, <2>e
  <2>2. StopPhases'  BY <2>w, NumberTypes DEF IInv, StopPhases
  <2>3. Budget'  BY <2>s, NumberTypes DEF IInv, Budget
  <2>4. Generations'  BY NumberTypes DEF IInv, Generations
  <2>5. CommandsCounted'  BY <2>u, NumberTypes DEF IInv, CommandsCounted
  <2>6. FailureGoesOn'
    BY <2>u, NumberTypes, FlagTypes DEF IInv, FailureGoesOn, FailToken
  <2>7. GateKept'  BY FlagTypes DEF IInv, GateKept, Transmitting
  <2>8. LinkFirst'  BY <2>u DEF IInv, LinkFirst
  <2>9. Completions'
    BY <2>u, NumberTypes, FlagTypes DEF IInv, Completions, Ended, OkToken, Transmitting
  <2>10. ReleaseComes'
    BY <2>w, <2>u, WaitingType DEF IInv, ReleaseComes, CanKey, PastStop4, StopPhases
  <2>. QED BY <2>1, <2>2, <2>3, <2>4, <2>5, <2>6, <2>7, <2>8, <2>9, <2>10 DEF IInv
<1>3. CASE Transmitting /\ Cancel /\ cut' = TRUE /\ Goto(Main, "idle")
  <2>p. pc' \in Control /\ pc'[Main] = "idle" /\ UNCHANGED pc[Js8Tx]
    BY <1>3, <1>t, GotoMain, ControlTypes DEF MainLabels, TxLabels, TransmitMessage,
       Submit, Cancel, Transmitting
  <2>w. UNCHANGED txTasks /\ \A x : UNCHANGED Waiting(txTasks, x)
    BY <1>3, <1>t DEF TransmitMessage, Submit, Cancel, Transmitting
  <2>f. UNCHANGED <<ready, rigVars, lockVars, monVars, localVars, mainQueue, cmdVars,
                    countVars, crashed, saidVars>>
    BY <1>3, <1>t, <1>g DEF TransmitMessage, Submit, Cancel, Transmitting
  <2>e. /\ phase' = "idle" /\ frames' = 0
        /\ engine = "open"
    BY <1>3, <1>t, <1>g, <2>p, PttAssumption DEF TransmitMessage, Submit, Cancel,
       Transmitting, PttAssumption, TypeOK, SessionTypeOK, Phase
  <2>u. UNCHANGED UnderWay
    BY <1>3, <1>t, <2>p, <2>w, <2>f, <2>e, <1>g, WaitingType DEF UnderWay, Count
  <2>s. Submissions' \in Nat /\ Submissions' <= Submissions
    BY <1>3, <1>t, <2>p, <2>w, <2>f, <1>g, WaitingType DEF Submissions, Count
  <2>S. SessionTypeOK'
    BY <1>3, <1>t, <2>f, <2>e, <1>b, PttAssumption DEF PttAssumption, TypeOK,
       SessionTypeOK, Phase
  <2>1. TypeOK'  BY <1>t, <2>p, <2>w, <2>f, <2>e, <1>b, <2>S DEF TypeOK
  <2>. USE <1>3, <1>t, <1>g, <2>p, <2>f, <2>e
  <2>2. StopPhases'  BY <2>w, NumberTypes DEF IInv, StopPhases
  <2>3. Budget'  BY <2>s, NumberTypes DEF IInv, Budget
  <2>4. Generations'  BY NumberTypes DEF IInv, Generations
  <2>5. CommandsCounted'  BY <2>u, NumberTypes DEF IInv, CommandsCounted
  <2>6. FailureGoesOn'
    BY <2>u, NumberTypes, FlagTypes DEF IInv, FailureGoesOn, FailToken
  <2>7. GateKept'  BY FlagTypes DEF IInv, GateKept, Transmitting
  <2>8. LinkFirst'  BY <2>u DEF IInv, LinkFirst
  <2>9. Completions'
    BY <2>u, NumberTypes, FlagTypes DEF IInv, Completions, Ended, OkToken, Transmitting
  <2>10. ReleaseComes'
    BY <2>w, <2>u, WaitingType DEF IInv, ReleaseComes, CanKey, PastStop4, StopPhases
  <2>. QED BY <2>1, <2>2, <2>3, <2>4, <2>5, <2>6, <2>7, <2>8, <2>9, <2>10 DEF IInv
<1>. QED BY <1>1, <1>2, <1>3 DEF TransmitMessage, Submit, Cancel, Transmitting

\* A new generation: no completion, no failure and no reply is about it.
LEMMA StartTxMonitorMainStep ==
  ASSUME IInv, StartTxMonitor(Main)
  PROVE  IInv'
<1>t. TypeOK  BY DEF IInv
<1>b. /\ monitorActive' \in BOOLEAN /\ wasAudio' \in BOOLEAN /\ desired' \in BOOLEAN
      /\ shuttingDown' \in BOOLEAN /\ pttFailed' \in BOOLEAN
  BY <1>t DEF TypeOK, SessionTypeOK, StartTxMonitor
<1>g. pc[Main] = "accepted"  BY DEF StartTxMonitor
<1>p. pc' \in Control /\ pc'[Main] = "idle" /\ UNCHANGED pc[Js8Tx]
  BY <1>t, GotoMain, ControlTypes DEF MainLabels, TxLabels, StartTxMonitor
<1>w. UNCHANGED txTasks /\ \A x : UNCHANGED Waiting(txTasks, x)
  BY <1>t DEF StartTxMonitor
<1>f. UNCHANGED <<sessionVars, rigVars, asserted, pending, txBusy, localVars, mainQueue,
                  cmdVars, countVars, crashed, told, cut>>
  BY <1>t, <1>g DEF StartTxMonitor
<1>e. /\ gen' = gen + 1 /\ desiredGen' = gen + 1
      /\ desired' = asserted /\ failures' = 0 /\ completion' = 0
      /\ shuttingDown' = FALSE /\ pttFailed' = FALSE
      /\ monitorPosted' = 1 /\ lastReport' = "none"
  BY <1>t, <1>g DEF StartTxMonitor
<1>u. UNCHANGED UnderWay
  BY <1>t, <1>p, <1>w, <1>f, <1>e, <1>g, WaitingType DEF UnderWay, Count
<1>s. Submissions >= 1 /\ Submissions' = Submissions - 1
  BY <1>t, <1>p, <1>w, <1>f, <1>g, WaitingType DEF Submissions, Count
<1>T0. gen' \in Gens
  BY <1>t, <1>s, NumberTypes, BudgetGens DEF IInv, Budget, StartTxMonitor
<1>T1. desiredGen' \in Gens  BY <1>e, <1>T0
<1>T2. completion' \in Gens  BY <1>f, <1>e, <1>t, Locals
<1>T3. failures' \in 0 .. Retries + 1
  BY <1>f, <1>e, <1>t, PttAssumption DEF PttAssumption, TypeOK
<1>T4. lastReport' \in {"none", "finished", "failed"}  BY <1>e
<1>T5. monitorPosted' \in Nat  BY <1>f, <1>e, <1>t, PttAssumption
<1>S. SessionTypeOK'
  BY <1>t, <1>f, <1>e, <1>b, PttAssumption DEF PttAssumption, TypeOK, SessionTypeOK, Phase
<1>1. TypeOK'
  BY <1>t, <1>p, <1>w, <1>f, <1>b, <1>T0, <1>T1, <1>T2, <1>T3, <1>T4, <1>T5, <1>S DEF TypeOK
<1>. USE <1>t, <1>g, <1>p, <1>f, <1>e
<1>2. StopPhases'  BY <1>w, NumberTypes DEF IInv, StopPhases
<1>3. Budget'  BY <1>s, NumberTypes DEF IInv, Budget
<1>4. Generations'  BY NumberTypes, ReplyTypes DEF IInv, Generations
<1>5. CommandsCounted'  BY <1>u, NumberTypes DEF IInv, CommandsCounted
<1>6. FailureGoesOn'
  BY <1>u, NumberTypes, FlagTypes, ReplyTypes DEF IInv, FailureGoesOn, FailToken,
     Generations
<1>7. GateKept'  BY FlagTypes DEF IInv, GateKept, Transmitting
<1>8. LinkFirst'  BY <1>u DEF IInv, LinkFirst
<1>9. Completions'
  BY <1>u, NumberTypes, ReplyTypes DEF IInv, Completions, Ended, OkToken, Generations
<1>10. ReleaseComes'  BY <1>w, FlagTypes DEF IInv, ReleaseComes, CanKey, PastStop4
<1>. QED BY <1>1, <1>2, <1>3, <1>4, <1>5, <1>6, <1>7, <1>8, <1>9, <1>10 DEF IInv

\* The same three on Js8Tx.
LEMMA PrepareEngineJs8TxStep ==
  ASSUME IInv, PrepareEngine(Js8Tx), ~Crash
  PROVE  IInv'
<1>t. TypeOK  BY DEF IInv
<1>b. ready' \in BOOLEAN
  BY <1>t DEF TypeOK, SessionTypeOK, PrepareEngine, SetReady, GateWhenPrepared
<1>g. pc[Js8Tx] = "prepare"  BY DEF PrepareEngine, SetReady, GateWhenPrepared
<1>p. pc' \in Control /\ pc'[Js8Tx] = "submit" /\ UNCHANGED pc[Main]
  BY <1>t, GotoJs8Tx, ControlTypes DEF MainLabels, TxLabels, PrepareEngine, SetReady,
     GateWhenPrepared
<1>w. UNCHANGED txTasks /\ \A x : UNCHANGED Waiting(txTasks, x)
  BY <1>t DEF PrepareEngine, SetReady, GateWhenPrepared
<1>f. UNCHANGED <<phase, frames, rigVars, lockVars, monVars, localVars, mainQueue,
                  cmdVars, countVars, crashed, saidVars, cut>>
  BY <1>t, <1>g DEF PrepareEngine, SetReady, GateWhenPrepared
<1>e. /\ ready' = ~mode /\ engine = "open"
  BY <1>t, <1>g DEF PrepareEngine, SetReady, GateWhenPrepared
<1>u. UNCHANGED UnderWay
  BY <1>t, <1>p, <1>w, <1>f, <1>e, <1>g, WaitingType DEF UnderWay, Count
<1>s. UNCHANGED Submissions
  BY <1>t, <1>p, <1>w, <1>f, <1>g, WaitingType DEF Submissions, Count
<1>S. SessionTypeOK'
  BY <1>t, <1>f, <1>e, <1>b, PttAssumption DEF PttAssumption, TypeOK, SessionTypeOK, Phase
<1>1. TypeOK'  BY <1>t, <1>p, <1>w, <1>f, <1>e, <1>b, <1>S DEF TypeOK
<1>. USE <1>t, <1>g, <1>p, <1>f, <1>e
<1>2. StopPhases'  BY <1>w, NumberTypes DEF IInv, StopPhases
<1>3. Budget'  BY <1>s, NumberTypes DEF IInv, Budget
<1>4. Generations'  BY NumberTypes DEF IInv, Generations
<1>5. CommandsCounted'  BY <1>u, NumberTypes DEF IInv, CommandsCounted
<1>6. FailureGoesOn'  BY <1>u, NumberTypes, FlagTypes DEF IInv, FailureGoesOn, FailToken
<1>7. GateKept'  BY FlagTypes DEF IInv, GateKept, Transmitting
<1>8. LinkFirst'  BY <1>u DEF IInv, LinkFirst
<1>9. Completions'
  BY <1>u, NumberTypes, FlagTypes DEF IInv, Completions, Ended, OkToken, Transmitting
<1>10. ReleaseComes'  BY <1>w, FlagTypes DEF IInv, ReleaseComes, CanKey, PastStop4
<1>. QED BY <1>1, <1>2, <1>3, <1>4, <1>5, <1>6, <1>7, <1>8, <1>9, <1>10 DEF IInv

LEMMA TransmitMessageJs8TxStep ==
  ASSUME IInv, TransmitMessage(Js8Tx), ~Crash
  PROVE  IInv'
<1>t. TypeOK  BY DEF IInv
<1>b. cut' \in BOOLEAN
  BY <1>t DEF TypeOK, SessionTypeOK, TransmitMessage, Submit, Cancel, Transmitting
<1>g. pc[Js8Tx] = "submit"  BY DEF TransmitMessage, Submit, Cancel, Transmitting
<1>1. CASE (\E n \in 1 .. MaxFrames : Submit(n)) /\ cut' = FALSE /\ Goto(Js8Tx, "accepted")
  <2>p. pc' \in Control /\ pc'[Js8Tx] = "accepted" /\ UNCHANGED pc[Main]
    BY <1>1, <1>t, GotoJs8Tx, ControlTypes DEF MainLabels, TxLabels, TransmitMessage,
       Submit, Cancel, Transmitting
  <2>w. UNCHANGED txTasks /\ \A x : UNCHANGED Waiting(txTasks, x)
    BY <1>1, <1>t DEF TransmitMessage, Submit, Cancel, Transmitting
  <2>f. UNCHANGED <<ready, rigVars, lockVars, monVars, localVars, mainQueue, cmdVars,
                    countVars, crashed, saidVars>>
    BY <1>1, <1>t, <1>g DEF TransmitMessage, Submit, Cancel, Transmitting
  <2>e. /\ phase' \in {"far", "near"} /\ frames' \in 0 .. MaxFrames
        /\ engine = "open"
    BY <1>1, <1>t, <1>g, <2>p, PttAssumption DEF TransmitMessage, Submit, Cancel,
       Transmitting, PttAssumption, TypeOK, SessionTypeOK, Phase
  <2>u. UNCHANGED UnderWay
    BY <1>1, <1>t, <2>p, <2>w, <2>f, <2>e, <1>g, WaitingType DEF UnderWay, Count
  <2>s. UNCHANGED Submissions
    BY <1>1, <1>t, <2>p, <2>w, <2>f, <1>g, WaitingType DEF Submissions, Count
  <2>S. SessionTypeOK'
    BY <1>1, <1>t, <2>f, <2>e, <1>b, PttAssumption DEF PttAssumption, TypeOK,
       SessionTypeOK, Phase
  <2>1. TypeOK'  BY <1>t, <2>p, <2>w, <2>f, <2>e, <1>b, <2>S DEF TypeOK
  <2>. USE <1>1, <1>t, <1>g, <2>p, <2>f, <2>e
  <2>2. StopPhases'  BY <2>w, NumberTypes DEF IInv, StopPhases
  <2>3. Budget'  BY <2>s, NumberTypes DEF IInv, Budget
  <2>4. Generations'  BY NumberTypes DEF IInv, Generations
  <2>5. CommandsCounted'  BY <2>u, NumberTypes DEF IInv, CommandsCounted
  <2>6. FailureGoesOn'
    BY <2>u, NumberTypes, FlagTypes DEF IInv, FailureGoesOn, FailToken
  <2>7. GateKept'  BY FlagTypes DEF IInv, GateKept, Transmitting
  <2>8. LinkFirst'  BY <2>u DEF IInv, LinkFirst
  <2>9. Completions'
    BY <2>u, NumberTypes, FlagTypes DEF IInv, Completions, Ended, OkToken, Transmitting
  <2>10. ReleaseComes'
    BY <2>w, <2>u, WaitingType DEF IInv, ReleaseComes, CanKey, PastStop4, StopPhases
  <2>. QED BY <2>1, <2>2, <2>3, <2>4, <2>5, <2>6, <2>7, <2>8, <2>9, <2>10 DEF IInv
<1>2. CASE UNCHANGED <<sessionVars, cut>> /\ Goto(Js8Tx, "idle")
  <2>p. pc' \in Control /\ pc'[Js8Tx] = "idle" /\ UNCHANGED pc[Main]
    BY <1>2, <1>t, GotoJs8Tx, ControlTypes DEF MainLabels, TxLabels, TransmitMessage,
       Submit, Cancel, Transmitting
  <2>w. UNCHANGED txTasks /\ \A x : UNCHANGED Waiting(txTasks, x)
    BY <1>2, <1>t DEF TransmitMessage, Submit, Cancel, Transmitting
  <2>f. UNCHANGED <<sessionVars, rigVars, lockVars, monVars, localVars, mainQueue,
                    cmdVars, countVars, crashed, saidVars, cut>>
    BY <1>2, <1>t, <1>g DEF TransmitMessage, Submit, Cancel, Transmitting
  <2>e. /\ engine = "open"
    BY <1>2, <1>t, <1>g, <2>p, PttAssumption DEF TransmitMessage, Submit, Cancel,
       Transmitting, PttAssumption, TypeOK, SessionTypeOK, Phase
  <2>u. UNCHANGED UnderWay
    BY <1>2, <1>t, <2>p, <2>w, <2>f, <2>e, <1>g, WaitingType DEF UnderWay, Count
  <2>s. Submissions' \in Nat /\ Submissions' <= Submissions
    BY <1>2, <1>t, <2>p, <2>w, <2>f, <1>g, WaitingType DEF Submissions, Count
  <2>S. SessionTypeOK'
    BY <1>2, <1>t, <2>f, <2>e, <1>b, PttAssumption DEF PttAssumption, TypeOK,
       SessionTypeOK, Phase
  <2>1. TypeOK'  BY <1>t, <2>p, <2>w, <2>f, <2>e, <1>b, <2>S DEF TypeOK
  <2>. USE <1>2, <1>t, <1>g, <2>p, <2>f, <2>e
  <2>2. StopPhases'  BY <2>w, NumberTypes DEF IInv, StopPhases
  <2>3. Budget'  BY <2>s, NumberTypes DEF IInv, Budget
  <2>4. Generations'  BY NumberTypes DEF IInv, Generations
  <2>5. CommandsCounted'  BY <2>u, NumberTypes DEF IInv, CommandsCounted
  <2>6. FailureGoesOn'
    BY <2>u, NumberTypes, FlagTypes DEF IInv, FailureGoesOn, FailToken
  <2>7. GateKept'  BY FlagTypes DEF IInv, GateKept, Transmitting
  <2>8. LinkFirst'  BY <2>u DEF IInv, LinkFirst
  <2>9. Completions'
    BY <2>u, NumberTypes, FlagTypes DEF IInv, Completions, Ended, OkToken, Transmitting
  <2>10. ReleaseComes'
    BY <2>w, <2>u, WaitingType DEF IInv, ReleaseComes, CanKey, PastStop4, StopPhases
  <2>. QED BY <2>1, <2>2, <2>3, <2>4, <2>5, <2>6, <2>7, <2>8, <2>9, <2>10 DEF IInv
<1>3. CASE Transmitting /\ Cancel /\ cut' = TRUE /\ Goto(Js8Tx, "idle")
  <2>p. pc' \in Control /\ pc'[Js8Tx] = "idle" /\ UNCHANGED pc[Main]
    BY <1>3, <1>t, GotoJs8Tx, ControlTypes DEF MainLabels, TxLabels, TransmitMessage,
       Submit, Cancel, Transmitting
  <2>w. UNCHANGED txTasks /\ \A x : UNCHANGED Waiting(txTasks, x)
    BY <1>3, <1>t DEF TransmitMessage, Submit, Cancel, Transmitting
  <2>f. UNCHANGED <<ready, rigVars, lockVars, monVars, localVars, mainQueue, cmdVars,
                    countVars, crashed, saidVars>>
    BY <1>3, <1>t, <1>g DEF TransmitMessage, Submit, Cancel, Transmitting
  <2>e. /\ phase' = "idle" /\ frames' = 0
        /\ engine = "open"
    BY <1>3, <1>t, <1>g, <2>p, PttAssumption DEF TransmitMessage, Submit, Cancel,
       Transmitting, PttAssumption, TypeOK, SessionTypeOK, Phase
  <2>u. UNCHANGED UnderWay
    BY <1>3, <1>t, <2>p, <2>w, <2>f, <2>e, <1>g, WaitingType DEF UnderWay, Count
  <2>s. Submissions' \in Nat /\ Submissions' <= Submissions
    BY <1>3, <1>t, <2>p, <2>w, <2>f, <1>g, WaitingType DEF Submissions, Count
  <2>S. SessionTypeOK'
    BY <1>3, <1>t, <2>f, <2>e, <1>b, PttAssumption DEF PttAssumption, TypeOK,
       SessionTypeOK, Phase
  <2>1. TypeOK'  BY <1>t, <2>p, <2>w, <2>f, <2>e, <1>b, <2>S DEF TypeOK
  <2>. USE <1>3, <1>t, <1>g, <2>p, <2>f, <2>e
  <2>2. StopPhases'  BY <2>w, NumberTypes DEF IInv, StopPhases
  <2>3. Budget'  BY <2>s, NumberTypes DEF IInv, Budget
  <2>4. Generations'  BY NumberTypes DEF IInv, Generations
  <2>5. CommandsCounted'  BY <2>u, NumberTypes DEF IInv, CommandsCounted
  <2>6. FailureGoesOn'
    BY <2>u, NumberTypes, FlagTypes DEF IInv, FailureGoesOn, FailToken
  <2>7. GateKept'  BY FlagTypes DEF IInv, GateKept, Transmitting
  <2>8. LinkFirst'  BY <2>u DEF IInv, LinkFirst
  <2>9. Completions'
    BY <2>u, NumberTypes, FlagTypes DEF IInv, Completions, Ended, OkToken, Transmitting
  <2>10. ReleaseComes'
    BY <2>w, <2>u, WaitingType DEF IInv, ReleaseComes, CanKey, PastStop4, StopPhases
  <2>. QED BY <2>1, <2>2, <2>3, <2>4, <2>5, <2>6, <2>7, <2>8, <2>9, <2>10 DEF IInv
<1>. QED BY <1>1, <1>2, <1>3 DEF TransmitMessage, Submit, Cancel, Transmitting

LEMMA StartTxMonitorJs8TxStep ==
  ASSUME IInv, StartTxMonitor(Js8Tx)
  PROVE  IInv'
<1>t. TypeOK  BY DEF IInv
<1>b. /\ monitorActive' \in BOOLEAN /\ wasAudio' \in BOOLEAN /\ desired' \in BOOLEAN
      /\ shuttingDown' \in BOOLEAN /\ pttFailed' \in BOOLEAN
  BY <1>t DEF TypeOK, SessionTypeOK, StartTxMonitor
<1>g. pc[Js8Tx] = "accepted"  BY DEF StartTxMonitor
<1>p. pc' \in Control /\ pc'[Js8Tx] = "idle" /\ UNCHANGED pc[Main]
  BY <1>t, GotoJs8Tx, ControlTypes DEF MainLabels, TxLabels, StartTxMonitor
<1>w. UNCHANGED txTasks /\ \A x : UNCHANGED Waiting(txTasks, x)
  BY <1>t DEF StartTxMonitor
<1>f. UNCHANGED <<sessionVars, rigVars, asserted, pending, txBusy, localVars, mainQueue,
                  cmdVars, countVars, crashed, told, cut>>
  BY <1>t, <1>g DEF StartTxMonitor
<1>e. /\ gen' = gen + 1 /\ desiredGen' = gen + 1
      /\ desired' = asserted /\ failures' = 0 /\ completion' = 0
      /\ shuttingDown' = FALSE /\ pttFailed' = FALSE
      /\ monitorPosted' = 1 /\ lastReport' = "none"
  BY <1>t, <1>g DEF StartTxMonitor
<1>u. UNCHANGED UnderWay
  BY <1>t, <1>p, <1>w, <1>f, <1>e, <1>g, WaitingType DEF UnderWay, Count
<1>s. Submissions >= 1 /\ Submissions' = Submissions - 1
  BY <1>t, <1>p, <1>w, <1>f, <1>g, WaitingType DEF Submissions, Count
<1>T0. gen' \in Gens
  BY <1>t, <1>s, NumberTypes, BudgetGens DEF IInv, Budget, StartTxMonitor
<1>T1. desiredGen' \in Gens  BY <1>e, <1>T0
<1>T2. completion' \in Gens  BY <1>f, <1>e, <1>t, Locals
<1>T3. failures' \in 0 .. Retries + 1
  BY <1>f, <1>e, <1>t, PttAssumption DEF PttAssumption, TypeOK
<1>T4. lastReport' \in {"none", "finished", "failed"}  BY <1>e
<1>T5. monitorPosted' \in Nat  BY <1>f, <1>e, <1>t, PttAssumption
<1>S. SessionTypeOK'
  BY <1>t, <1>f, <1>e, <1>b, PttAssumption DEF PttAssumption, TypeOK, SessionTypeOK, Phase
<1>1. TypeOK'
  BY <1>t, <1>p, <1>w, <1>f, <1>b, <1>T0, <1>T1, <1>T2, <1>T3, <1>T4, <1>T5, <1>S DEF TypeOK
<1>. USE <1>t, <1>g, <1>p, <1>f, <1>e
<1>2. StopPhases'  BY <1>w, NumberTypes DEF IInv, StopPhases
<1>3. Budget'  BY <1>s, NumberTypes DEF IInv, Budget
<1>4. Generations'  BY NumberTypes, ReplyTypes DEF IInv, Generations
<1>5. CommandsCounted'  BY <1>u, NumberTypes DEF IInv, CommandsCounted
<1>6. FailureGoesOn'
  BY <1>u, NumberTypes, FlagTypes, ReplyTypes DEF IInv, FailureGoesOn, FailToken,
     Generations
<1>7. GateKept'  BY FlagTypes DEF IInv, GateKept, Transmitting
<1>8. LinkFirst'  BY <1>u DEF IInv, LinkFirst
<1>9. Completions'
  BY <1>u, NumberTypes, ReplyTypes DEF IInv, Completions, Ended, OkToken, Generations
<1>10. ReleaseComes'  BY <1>w, FlagTypes DEF IInv, ReleaseComes, CanKey, PastStop4
<1>. QED BY <1>1, <1>2, <1>3, <1>4, <1>5, <1>6, <1>7, <1>8, <1>9, <1>10 DEF IInv

\* Every runnable of Js8Tx is removed, the release of an earlier stop with them; then
\* ReleaseComes has it dropped.
LEMMA StopHandlersStep ==
  ASSUME IInv, StopHandlers
  PROVE  IInv'
<1>t. TypeOK  BY DEF IInv
<1>b. ready' \in BOOLEAN /\ monitorActive' \in BOOLEAN /\ dropped' \in BOOLEAN
  BY <1>t DEF TypeOK, SessionTypeOK, StopHandlers, SetReady
<1>g. pc[Main] = "stop2"  BY DEF StopHandlers, SetReady
<1>p. pc' \in Control /\ pc'[Main] = "stop3" /\ UNCHANGED pc[Js8Tx]
  BY <1>t, GotoMain, ControlTypes DEF MainLabels, TxLabels, StopHandlers, SetReady
<1>w. txTasks' = <<>> /\ \A x : Waiting(txTasks', x) = 0
  BY WaitingEmpty DEF StopHandlers, SetReady
<1>o. UNCHANGED out  BY <1>t DEF StopHandlers, SetReady
<1>u. UnderWay' \in Nat /\ UnderWay' <= UnderWay
  BY <1>t, <1>p, <1>w, <1>g, <1>o, WaitingType DEF UnderWay, Count
<1>s. Submissions' \in Nat /\ Submissions' <= Submissions
  BY <1>t, <1>p, <1>w, <1>g, WaitingType DEF Submissions, Count
<1>S. SessionTypeOK'
  BY <1>t, <1>b, PttAssumption DEF PttAssumption, TypeOK, SessionTypeOK, Phase,
     StopHandlers, SetReady
<1>1. TypeOK'
  BY <1>t, <1>p, <1>w, <1>b, <1>S, Locals DEF TypeOK, StopHandlers, SetReady
<1>. USE <1>t, <1>g, <1>p
<1>2. StopPhases'
  BY SMTT(20), <1>w, NumberTypes DEF IInv, StopPhases, StopHandlers, SetReady
<1>3. Budget'  BY <1>s, NumberTypes DEF IInv, Budget, StopHandlers, SetReady
<1>4. Generations'  BY NumberTypes DEF IInv, Generations, StopHandlers, SetReady
<1>5. CommandsCounted'
  BY SMTT(20), <1>u, NumberTypes DEF IInv, CommandsCounted, StopHandlers, SetReady
<1>6. FailureGoesOn'
  BY <1>u, NumberTypes, FlagTypes DEF IInv, FailureGoesOn, FailToken, StopHandlers, SetReady
<1>7. GateKept'  BY FlagTypes DEF IInv, GateKept, Transmitting, StopHandlers, SetReady
<1>8. LinkFirst'  BY <1>u DEF IInv, LinkFirst, StopHandlers, SetReady
<1>9. Completions'
  BY SMTT(20), <1>u, NumberTypes, FlagTypes DEF IInv, Completions, Ended, OkToken,
     Transmitting, StopHandlers, SetReady
<1>10. ReleaseComes'
  <2>1. dropped' <=> (dropped \/ Waiting(txTasks, "release") > 0)
    BY <1>b DEF StopHandlers
  <2>2. /\ UNCHANGED <<link, stops, cmd, asserted>>
        /\ UNCHANGED CanKey
    BY <1>p DEF StopHandlers, CanKey
  <2>3. PastStop4 <=> PastStop4'
    BY <2>2, <1>p DEF PastStop4
  <2>. QED BY <2>1, <2>2, <2>3, <1>p DEF IInv, ReleaseComes
<1>. QED BY <1>1, <1>2, <1>3, <1>4, <1>5, <1>6, <1>7, <1>8, <1>9, <1>10 DEF IInv

\* rigPttCommandPending is cleared while a command may run.
LEMMA StopSectionStep ==
  ASSUME IInv, StopSection
  PROVE  IInv'
<1>t. TypeOK  BY DEF IInv
<1>b. desired' \in BOOLEAN /\ pending' \in BOOLEAN
  BY <1>t DEF TypeOK, SessionTypeOK, StopSection
<1>g. pc[Main] = "stop3"  BY DEF StopSection
<1>p. pc' \in Control /\ pc'[Main] = "stop4" /\ UNCHANGED pc[Js8Tx]
  BY <1>t, GotoMain, ControlTypes DEF MainLabels, TxLabels, StopSection
<1>w. UNCHANGED txTasks /\ \A x : UNCHANGED Waiting(txTasks, x)  BY <1>t DEF StopSection
<1>o. UNCHANGED out  BY <1>t DEF StopSection
<1>u. UNCHANGED UnderWay
  BY <1>t, <1>p, <1>w, <1>g, <1>o, WaitingType DEF UnderWay, Count
<1>s. UNCHANGED Submissions
  BY <1>t, <1>p, <1>w, <1>g, WaitingType DEF Submissions, Count
<1>S. SessionTypeOK'
  BY <1>t, <1>b, PttAssumption DEF PttAssumption, TypeOK, SessionTypeOK, Phase, StopSection
<1>1. TypeOK'  BY <1>t, <1>p, <1>w, <1>b, <1>S, Locals DEF TypeOK, StopSection
<1>. USE <1>t, <1>g, <1>p
<1>2. StopPhases'  BY <1>w, NumberTypes DEF IInv, StopPhases, StopSection
<1>3. Budget'  BY <1>s, NumberTypes DEF IInv, Budget, StopSection
<1>4. Generations'  BY NumberTypes DEF IInv, Generations, StopSection
<1>5. CommandsCounted'
  BY <1>u, NumberTypes DEF IInv, CommandsCounted, StopPhases, StopSection
<1>6. FailureGoesOn'
  BY <1>u, NumberTypes, FlagTypes DEF IInv, FailureGoesOn, FailToken, StopSection
<1>7. GateKept'  BY FlagTypes DEF IInv, GateKept, Transmitting, StopSection
<1>8. LinkFirst'  BY <1>u DEF IInv, LinkFirst, StopSection
<1>9. Completions'
  BY <1>u, NumberTypes, FlagTypes DEF IInv, Completions, Ended, OkToken, Transmitting,
     StopSection
<1>10. ReleaseComes'
  BY <1>w, FlagTypes DEF IInv, ReleaseComes, CanKey, PastStop4, StopSection
<1>. QED BY <1>1, <1>2, <1>3, <1>4, <1>5, <1>6, <1>7, <1>8, <1>9, <1>10 DEF IInv

\* ReleaseComes: with a link that is up the release is posted; without one the
\* radio cannot have been keyed.
LEMMA StopRigStep ==
  ASSUME IInv, StopRig
  PROVE  IInv'
<1>t. TypeOK  BY DEF IInv
<1>b. mode' \in BOOLEAN
  BY <1>t DEF TypeOK, SessionTypeOK, StopRig, TeardownTask, Linked
<1>g. pc[Main] = "stop4"  BY DEF StopRig, TeardownTask, Linked
<1>1. CASE Linked
  <2>p. pc' \in Control /\ pc'[Main] = "stop5" /\ UNCHANGED pc[Js8Tx]
    BY <1>1, <1>t, GotoMain, ControlTypes DEF MainLabels, TxLabels, StopRig,
       TeardownTask, Linked
  <2>v. txTasks' = Append(txTasks, "release")
    BY <1>1, <1>t DEF StopRig, TeardownTask, Linked
  <2>w. /\ txTasks' \in Seq(Task)
        /\ Waiting(txTasks', "release") = Waiting(txTasks, "release") + 1
        /\ \A x : x # "release" => Waiting(txTasks', x) = Waiting(txTasks, x)
    BY <1>t, <2>v, ControlTypes, TasksAppend DEF Task
  <2>o. UNCHANGED out  BY <1>1, <1>t DEF StopRig, TeardownTask, Linked
  <2>u. UNCHANGED UnderWay
    BY <1>1, <1>t, <2>p, <2>w, <1>g, <2>o, WaitingType DEF UnderWay, Count
  <2>s. UNCHANGED Submissions
    BY <1>1, <1>t, <2>p, <2>w, <1>g, WaitingType DEF Submissions, Count
  <2>S. SessionTypeOK'
    BY <1>1, <1>t, <1>b, PttAssumption DEF PttAssumption, TypeOK, SessionTypeOK,
       Phase, StopRig, TeardownTask, Linked
  <2>1. TypeOK'
    BY <1>1, <1>t, <2>p, <2>w, <1>b, <2>S, Locals DEF TypeOK, StopRig, TeardownTask, Linked
  <2>. USE <1>1, <1>t, <1>g, <2>p
  <2>2. StopPhases'
    BY <2>w, NumberTypes DEF IInv, StopPhases, StopRig, TeardownTask, Linked
  <2>3. Budget'  BY <2>s, NumberTypes DEF IInv, Budget, StopRig, TeardownTask, Linked
  <2>4. Generations'
    BY NumberTypes DEF IInv, Generations, StopRig, TeardownTask, Linked
  <2>5. CommandsCounted'
    BY <2>u, NumberTypes DEF IInv, CommandsCounted, StopRig, TeardownTask, Linked
  <2>6. FailureGoesOn'
    BY <2>u, NumberTypes, FlagTypes DEF IInv, FailureGoesOn, FailToken, StopRig,
       TeardownTask, Linked
  <2>7. GateKept'
    BY FlagTypes DEF IInv, GateKept, Transmitting, StopRig, TeardownTask, Linked
  <2>8. LinkFirst'
    BY <2>u DEF IInv, LinkFirst, StopPhases, StopRig, TeardownTask, Linked
  <2>9. Completions'
    BY <2>u, NumberTypes, FlagTypes DEF IInv, Completions, Ended, OkToken,
       Transmitting, StopRig, TeardownTask, Linked
  <2>10. ReleaseComes'
    BY SMTT(20), <2>w, FlagTypes, WaitingType, NumberTypes DEF IInv, ReleaseComes, CanKey,
       PastStop4, StopPhases, StopRig, TeardownTask, Linked
  <2>. QED BY <2>1, <2>2, <2>3, <2>4, <2>5, <2>6, <2>7, <2>8, <2>9, <2>10 DEF IInv
<1>2. CASE ~Linked
  <2>p. pc' \in Control /\ pc'[Main] = "stop5" /\ UNCHANGED pc[Js8Tx]
    BY <1>2, <1>t, GotoMain, ControlTypes DEF MainLabels, TxLabels, StopRig,
       TeardownTask, Linked
  <2>v. txTasks' = Append(txTasks, "close")
    BY <1>2, <1>t DEF StopRig, TeardownTask, Linked
  <2>w. /\ txTasks' \in Seq(Task)
        /\ Waiting(txTasks', "close") = Waiting(txTasks, "close") + 1
        /\ \A x : x # "close" => Waiting(txTasks', x) = Waiting(txTasks, x)
    BY <1>t, <2>v, ControlTypes, TasksAppend DEF Task
  <2>o. UNCHANGED out  BY <1>2, <1>t DEF StopRig, TeardownTask, Linked
  <2>u. UNCHANGED UnderWay
    BY <1>2, <1>t, <2>p, <2>w, <1>g, <2>o, WaitingType DEF UnderWay, Count
  <2>s. UNCHANGED Submissions
    BY <1>2, <1>t, <2>p, <2>w, <1>g, WaitingType DEF Submissions, Count
  <2>S. SessionTypeOK'
    BY <1>2, <1>t, <1>b, PttAssumption DEF PttAssumption, TypeOK, SessionTypeOK,
       Phase, StopRig, TeardownTask, Linked
  <2>1. TypeOK'
    BY <1>2, <1>t, <2>p, <2>w, <1>b, <2>S, Locals DEF TypeOK, StopRig, TeardownTask, Linked
  <2>. USE <1>2, <1>t, <1>g, <2>p
  <2>2. StopPhases'
    BY <2>w, NumberTypes DEF IInv, StopPhases, StopRig, TeardownTask, Linked
  <2>3. Budget'  BY <2>s, NumberTypes DEF IInv, Budget, StopRig, TeardownTask, Linked
  <2>4. Generations'
    BY NumberTypes DEF IInv, Generations, StopRig, TeardownTask, Linked
  <2>5. CommandsCounted'
    BY <2>u, NumberTypes DEF IInv, CommandsCounted, StopRig, TeardownTask, Linked
  <2>6. FailureGoesOn'
    BY <2>u, NumberTypes, FlagTypes DEF IInv, FailureGoesOn, FailToken, StopRig,
       TeardownTask, Linked
  <2>7. GateKept'
    BY FlagTypes DEF IInv, GateKept, Transmitting, StopRig, TeardownTask, Linked
  <2>8. LinkFirst'
    BY <2>u DEF IInv, LinkFirst, StopPhases, StopRig, TeardownTask, Linked
  <2>9. Completions'
    BY <2>u, NumberTypes, FlagTypes DEF IInv, Completions, Ended, OkToken,
       Transmitting, StopRig, TeardownTask, Linked
  <2>10. ReleaseComes'
    BY <2>w, FlagTypes DEF IInv, ReleaseComes, CanKey, PastStop4, StopRig,
       TeardownTask, Linked
  <2>. QED BY <2>1, <2>2, <2>3, <2>4, <2>5, <2>6, <2>7, <2>8, <2>9, <2>10 DEF IInv
<1>. QED BY <1>1, <1>2, FlagTypes, <1>t

LEMMA StopNativeStep ==
  ASSUME IInv, StopNative
  PROVE  IInv'
<1>t. TypeOK  BY DEF IInv
<1>g. pc[Main] = "stop5"  BY DEF StopNative, Cancel
<1>1. CASE engine = "null"
  <2>p. pc' \in Control /\ pc'[Main] = "idle" /\ UNCHANGED pc[Js8Tx]
    BY <1>1, <1>t, GotoMain, ControlTypes DEF MainLabels, TxLabels, StopNative, Cancel
  <2>w. UNCHANGED txTasks /\ \A x : UNCHANGED Waiting(txTasks, x)
    BY <1>1, <1>t DEF StopNative, Cancel
  <2>f. UNCHANGED <<sessionVars, rigVars, lockVars, monVars, localVars, mainQueue,
                    cmdVars, countVars, crashed, saidVars, cut>>
    BY <1>1, <1>t, <1>g DEF StopNative, Cancel
  <2>e. /\ engine = "null"  BY <1>1, <1>t, <1>g DEF StopNative, Cancel
  <2>u. UNCHANGED UnderWay
    BY <1>1, <1>t, <2>p, <2>w, <2>f, <2>e, <1>g, WaitingType DEF UnderWay, Count
  <2>s. UNCHANGED Submissions
    BY <1>1, <1>t, <2>p, <2>w, <2>f, <1>g, WaitingType DEF Submissions, Count
  <2>S. SessionTypeOK'
    BY <1>1, <1>t, <2>f, <2>e, PttAssumption DEF PttAssumption, TypeOK, SessionTypeOK, Phase
  <2>1. TypeOK'  BY <1>t, <2>p, <2>w, <2>f, <2>e, <2>S DEF TypeOK
  <2>. USE <1>1, <1>t, <1>g, <2>p, <2>f, <2>e
  <2>2. StopPhases'  BY <2>w, NumberTypes DEF IInv, StopPhases
  <2>3. Budget'  BY <2>s, NumberTypes DEF IInv, Budget
  <2>4. Generations'  BY NumberTypes DEF IInv, Generations
  <2>5. CommandsCounted'  BY <2>u, NumberTypes DEF IInv, CommandsCounted
  <2>6. FailureGoesOn'
    BY <2>u, NumberTypes, FlagTypes DEF IInv, FailureGoesOn, FailToken
  <2>7. GateKept'  BY FlagTypes DEF IInv, GateKept, Transmitting
  <2>8. LinkFirst'  BY <2>u DEF IInv, LinkFirst
  <2>9. Completions'
    BY <2>u, NumberTypes, FlagTypes DEF IInv, Completions, Ended, OkToken, Transmitting
  <2>10. ReleaseComes'  BY <2>w, FlagTypes DEF IInv, ReleaseComes, CanKey, PastStop4
  <2>. QED BY <2>1, <2>2, <2>3, <2>4, <2>5, <2>6, <2>7, <2>8, <2>9, <2>10 DEF IInv
<1>2. CASE engine # "null"
  <2>p. pc' \in Control /\ pc'[Main] = "stop6" /\ UNCHANGED pc[Js8Tx]
    BY <1>2, <1>t, GotoMain, ControlTypes DEF MainLabels, TxLabels, StopNative, Cancel
  <2>w. UNCHANGED txTasks /\ \A x : UNCHANGED Waiting(txTasks, x)
    BY <1>2, <1>t DEF StopNative, Cancel
  <2>f. UNCHANGED <<ready, mode, link, lockVars, monVars, localVars, mainQueue, cmdVars,
                    countVars, crashed, saidVars, cut>>
    BY <1>2, <1>t, <1>g DEF StopNative, Cancel
  <2>e. /\ engine' = "closed" /\ phase' = "idle" /\ frames' = 0
    BY <1>2, <1>t, <1>g DEF StopNative, Cancel
  <2>u. UNCHANGED UnderWay
    BY <1>2, <1>t, <2>p, <2>w, <2>f, <2>e, <1>g, WaitingType DEF UnderWay, Count
  <2>s. UNCHANGED Submissions
    BY <1>2, <1>t, <2>p, <2>w, <2>f, <1>g, WaitingType DEF Submissions, Count
  <2>S. SessionTypeOK'
    BY <1>2, <1>t, <2>f, <2>e, PttAssumption DEF PttAssumption, TypeOK, SessionTypeOK, Phase
  <2>1. TypeOK'  BY <1>t, <2>p, <2>w, <2>f, <2>e, <2>S DEF TypeOK
  <2>. USE <1>2, <1>t, <1>g, <2>p, <2>f, <2>e
  <2>2. StopPhases'  BY <2>w, NumberTypes DEF IInv, StopPhases
  <2>3. Budget'  BY <2>s, NumberTypes DEF IInv, Budget
  <2>4. Generations'  BY NumberTypes DEF IInv, Generations
  <2>5. CommandsCounted'  BY <2>u, NumberTypes DEF IInv, CommandsCounted
  <2>6. FailureGoesOn'
    BY <2>u, NumberTypes, FlagTypes DEF IInv, FailureGoesOn, FailToken
  <2>7. GateKept'  BY FlagTypes DEF IInv, GateKept, Transmitting
  <2>8. LinkFirst'  BY <2>u DEF IInv, LinkFirst
  <2>9. Completions'
    BY <2>u, NumberTypes, FlagTypes DEF IInv, Completions, Ended, OkToken, Transmitting
  <2>10. ReleaseComes'  BY <2>w, FlagTypes DEF IInv, ReleaseComes, CanKey, PastStop4
  <2>. QED BY <2>1, <2>2, <2>3, <2>4, <2>5, <2>6, <2>7, <2>8, <2>9, <2>10 DEF IInv
<1>. QED BY <1>1, <1>2, FlagTypes, <1>t

LEMMA StopForgetsStep ==
  ASSUME IInv, StopForgets
  PROVE  IInv'
<1>t. TypeOK  BY DEF IInv
<1>g. pc[Main] = "stop6"  BY DEF StopForgets
<1>p. pc' \in Control /\ pc'[Main] = "idle" /\ UNCHANGED pc[Js8Tx]
  BY <1>t, GotoMain, ControlTypes DEF MainLabels, TxLabels, StopForgets
<1>w. UNCHANGED txTasks /\ \A x : UNCHANGED Waiting(txTasks, x)  BY <1>t DEF StopForgets
<1>o. UNCHANGED out  BY <1>t DEF StopForgets
<1>u. UNCHANGED UnderWay
  BY <1>t, <1>p, <1>w, <1>g, <1>o, WaitingType DEF UnderWay, Count
<1>s. UNCHANGED Submissions
  BY <1>t, <1>p, <1>w, <1>g, WaitingType DEF Submissions, Count
<1>S. SessionTypeOK'
  BY <1>t, PttAssumption DEF PttAssumption, TypeOK, SessionTypeOK, Phase, StopForgets
<1>1. TypeOK'  BY <1>t, <1>p, <1>w, <1>S, Locals DEF TypeOK, StopForgets
<1>. USE <1>t, <1>g, <1>p
<1>2. StopPhases'  BY <1>w, NumberTypes DEF IInv, StopPhases, StopForgets
<1>3. Budget'  BY <1>s, NumberTypes DEF IInv, Budget, StopForgets
<1>4. Generations'  BY NumberTypes DEF IInv, Generations, StopForgets
<1>5. CommandsCounted'  BY <1>u, NumberTypes DEF IInv, CommandsCounted, StopForgets
<1>6. FailureGoesOn'
  BY <1>u, NumberTypes, FlagTypes DEF IInv, FailureGoesOn, FailToken, StopForgets
<1>7. GateKept'  BY FlagTypes DEF IInv, GateKept, Transmitting, StopForgets
<1>8. LinkFirst'  BY <1>u DEF IInv, LinkFirst, StopForgets
<1>9. Completions'
  BY <1>u, NumberTypes, FlagTypes DEF IInv, Completions, Ended, OkToken, Transmitting,
     StopForgets
<1>10. ReleaseComes'
  BY <1>w, FlagTypes DEF IInv, ReleaseComes, CanKey, PastStop4, StopForgets
<1>. QED BY <1>1, <1>2, <1>3, <1>4, <1>5, <1>6, <1>7, <1>8, <1>9, <1>10 DEF IInv

\* A completion or a failure of the reply is now in the hands of the main looper.
LEMMA HandleReplyStep ==
  ASSUME IInv, HandleReply
  PROVE  IInv'
<1>t. TypeOK  BY DEF IInv
<1>g. pc[Main] = "idle"  BY DEF HandleReply
<1>q. /\ mainQueue' \in Seq(Reply) /\ Head(mainQueue) \in Reply
      /\ Head(mainQueue) \in Range(mainQueue)
      /\ Range(mainQueue') \subseteq Range(mainQueue)
  BY <1>t, ControlTypes, RepliesTail DEF HandleReply
<1>r. Head(mainQueue).done \in Gens /\ Head(mainQueue).failGen \in Gens
  BY <1>q DEF Reply
<1>1. CASE Head(mainQueue).failGen # 0
  <2>p. pc' \in Control /\ pc'[Main] = "fail" /\ UNCHANGED pc[Js8Tx]
    BY <1>1, <1>t, GotoMain, ControlTypes DEF MainLabels, TxLabels, HandleReply
  <2>w. UNCHANGED txTasks /\ \A x : UNCHANGED Waiting(txTasks, x)
    BY <1>1, <1>t DEF HandleReply
  <2>f. UNCHANGED <<sessionVars, rigVars, lockVars, monVars, req, cmdVars, countVars,
                    crashed, cut>>
    BY <1>1, <1>t, <1>g DEF HandleReply
  <2>e. /\ mon' = [NoMon EXCEPT !.gen = Head(mainQueue).failGen]
    BY <1>1, <1>t, <1>g DEF HandleReply
  <2>u. UNCHANGED UnderWay
    BY <1>1, <1>t, <2>p, <2>w, <2>f, <2>e, <1>g, WaitingType DEF UnderWay, Count
  <2>s. UNCHANGED Submissions
    BY <1>1, <1>t, <2>p, <2>w, <2>f, <1>g, WaitingType DEF Submissions, Count
  <2>T0. mon' \in MonitorLocals  BY <2>e, <1>r, Locals DEF MonitorLocals
  <2>R. told' \in [Gens -> Nat] /\ lastReport' \in {"none", "finished", "failed"}
    BY <1>1, <1>t, <1>r, Locals, CompleteTypes DEF HandleReply
  <2>S. SessionTypeOK'
    BY <1>1, <1>t, <2>f, <2>e, PttAssumption DEF PttAssumption, TypeOK, SessionTypeOK, Phase
  <2>1. TypeOK'  BY <1>t, <2>p, <2>w, <2>f, <2>T0, <2>R, <2>S, <1>q DEF TypeOK
  <2>. USE <1>1, <1>t, <1>g, <2>p, <2>f, <2>e
  <2>2. StopPhases'  BY <2>w, NumberTypes DEF IInv, StopPhases
  <2>3. Budget'  BY <2>s, NumberTypes DEF IInv, Budget
  <2>4. Generations'  BY <1>q, <1>r, NumberTypes DEF IInv, Generations
  <2>5. CommandsCounted'  BY <2>u, NumberTypes DEF IInv, CommandsCounted
  <2>6. FailureGoesOn'
    BY <2>u, <1>q, <1>r, NumberTypes, FlagTypes DEF IInv, FailureGoesOn, FailToken
  <2>7. GateKept'  BY FlagTypes DEF IInv, GateKept, Transmitting
  <2>8. LinkFirst'  BY <2>u DEF IInv, LinkFirst
  <2>9. Completions'
    BY <2>u, <1>q, <1>r, NumberTypes, FlagTypes DEF IInv, Completions, Ended,
       OkToken, Transmitting
  <2>10. ReleaseComes'  BY <2>w, FlagTypes DEF IInv, ReleaseComes, CanKey, PastStop4
  <2>. QED BY <2>1, <2>2, <2>3, <2>4, <2>5, <2>6, <2>7, <2>8, <2>9, <2>10 DEF IInv
<1>2. CASE Head(mainQueue).failGen = 0
  <2>p. UNCHANGED pc  BY <1>2, <1>t DEF HandleReply
  <2>w. UNCHANGED txTasks /\ \A x : UNCHANGED Waiting(txTasks, x)
    BY <1>2, <1>t DEF HandleReply
  <2>f. UNCHANGED <<sessionVars, rigVars, lockVars, monVars, localVars, cmdVars,
                    countVars, crashed, cut>>
    BY <1>2, <1>t, <1>g DEF HandleReply
  <2>e. /\ pc' = pc  BY <1>2, <1>t, <1>g DEF HandleReply
  <2>u. UNCHANGED UnderWay
    BY <1>2, <1>t, <2>p, <2>w, <2>f, <2>e, <1>g, WaitingType DEF UnderWay, Count
  <2>s. UNCHANGED Submissions
    BY <1>2, <1>t, <2>p, <2>w, <2>f, <1>g, WaitingType DEF Submissions, Count
  <2>R. told' \in [Gens -> Nat] /\ lastReport' \in {"none", "finished", "failed"}
    BY <1>2, <1>t, <1>r, Locals, CompleteTypes DEF HandleReply
  <2>S. SessionTypeOK'
    BY <1>2, <1>t, <2>f, <2>e, PttAssumption DEF PttAssumption, TypeOK, SessionTypeOK, Phase
  <2>1. TypeOK'  BY <1>t, <2>p, <2>w, <2>f, <2>e, <2>R, <2>S, <1>q DEF TypeOK
  <2>. USE <1>2, <1>t, <1>g, <2>p, <2>f, <2>e
  <2>2. StopPhases'  BY <2>w, NumberTypes DEF IInv, StopPhases
  <2>3. Budget'  BY <2>s, NumberTypes DEF IInv, Budget
  <2>4. Generations'  BY <1>q, <1>r, NumberTypes DEF IInv, Generations
  <2>5. CommandsCounted'  BY <2>u, NumberTypes DEF IInv, CommandsCounted
  <2>6. FailureGoesOn'
    BY <2>u, <1>q, <1>r, NumberTypes, FlagTypes DEF IInv, FailureGoesOn, FailToken
  <2>7. GateKept'  BY FlagTypes DEF IInv, GateKept, Transmitting
  <2>8. LinkFirst'  BY <2>u DEF IInv, LinkFirst
  <2>9. Completions'
    BY <2>u, <1>q, <1>r, NumberTypes, FlagTypes DEF IInv, Completions, Ended,
       OkToken, Transmitting
  <2>10. ReleaseComes'  BY <2>w, FlagTypes DEF IInv, ReleaseComes, CanKey, PastStop4
  <2>. QED BY <2>1, <2>2, <2>3, <2>4, <2>5, <2>6, <2>7, <2>8, <2>9, <2>10 DEF IInv
<1>. QED BY <1>1, <1>2, FlagTypes, <1>t

LEMMA HandleMessageStep ==
  ASSUME IInv, HandleMessage
  PROVE  IInv'
<1>t. TypeOK  BY DEF IInv
<1>g. pc[Js8Tx] = "idle"  BY DEF HandleMessage
<1>1. CASE engine = "null"
  <2>p. pc' \in Control /\ pc'[Js8Tx] = "idle" /\ UNCHANGED pc[Main]
    BY <1>1, <1>t, GotoJs8Tx, ControlTypes DEF MainLabels, TxLabels, HandleMessage
  <2>v. txTasks # <<>> /\ Head(txTasks) = "send" /\ txTasks' = Tail(txTasks)
    BY <1>1, <1>t DEF HandleMessage
  <2>w. /\ txTasks' \in Seq(Task)
        /\ Waiting(txTasks', "send") = Waiting(txTasks, "send") - 1
        /\ Waiting(txTasks, "send") > 0
        /\ \A x : x # "send" => Waiting(txTasks', x) = Waiting(txTasks, x)
    BY <1>t, <2>v, ControlTypes, TasksTail, PlacesFinite
  <2>o. UNCHANGED out  BY <1>1, <1>t DEF HandleMessage
  <2>u. UNCHANGED UnderWay
    BY <1>1, <1>t, <2>p, <2>w, <1>g, <2>o, WaitingType DEF UnderWay, Count
  <2>s. Submissions' \in Nat /\ Submissions' <= Submissions
    BY <1>1, <1>t, <2>p, <2>w, <1>g, WaitingType DEF Submissions, Count
  <2>S. SessionTypeOK'
    BY <1>1, <1>t, PttAssumption DEF PttAssumption, TypeOK, SessionTypeOK, Phase,
       HandleMessage
  <2>1. TypeOK'  BY <1>1, <1>t, <2>p, <2>w, <2>S, Locals DEF TypeOK, HandleMessage
  <2>. USE <1>1, <1>t, <1>g, <2>p
  <2>2. StopPhases'
    <3>1. UNCHANGED <<engine, mode, link, shuttingDown, stops>>
      BY DEF HandleMessage
    <3>2. UNCHANGED Waiting(txTasks, "release")
      BY <2>w
    <3>. QED BY <3>1, <3>2 DEF IInv, StopPhases
  <2>3. Budget'  BY <2>s, NumberTypes DEF IInv, Budget, HandleMessage
  <2>4. Generations'  BY NumberTypes DEF IInv, Generations, HandleMessage
  <2>5. CommandsCounted'
    BY SMTT(20), <2>u, NumberTypes DEF IInv, CommandsCounted, HandleMessage
  <2>6. FailureGoesOn'
    BY <2>u, NumberTypes, FlagTypes DEF IInv, FailureGoesOn, FailToken, HandleMessage
  <2>7. GateKept'  BY FlagTypes DEF IInv, GateKept, Transmitting, HandleMessage
  <2>8. LinkFirst'  BY <2>u DEF IInv, LinkFirst, HandleMessage
  <2>9. Completions'
    BY <2>u, NumberTypes, FlagTypes DEF IInv, Completions, Ended, OkToken,
       Transmitting, HandleMessage
  <2>10. ReleaseComes'
    BY <2>w, FlagTypes DEF IInv, ReleaseComes, CanKey, PastStop4, HandleMessage
  <2>. QED BY <2>1, <2>2, <2>3, <2>4, <2>5, <2>6, <2>7, <2>8, <2>9, <2>10 DEF IInv
<1>2. CASE engine # "null"
  <2>p. pc' \in Control /\ pc'[Js8Tx] = "prepare" /\ UNCHANGED pc[Main]
    BY <1>2, <1>t, GotoJs8Tx, ControlTypes DEF MainLabels, TxLabels, HandleMessage
  <2>v. txTasks # <<>> /\ Head(txTasks) = "send" /\ txTasks' = Tail(txTasks)
    BY <1>2, <1>t DEF HandleMessage
  <2>w. /\ txTasks' \in Seq(Task)
        /\ Waiting(txTasks', "send") = Waiting(txTasks, "send") - 1
        /\ Waiting(txTasks, "send") > 0
        /\ \A x : x # "send" => Waiting(txTasks', x) = Waiting(txTasks, x)
    BY <1>t, <2>v, ControlTypes, TasksTail, PlacesFinite
  <2>o. UNCHANGED out  BY <1>2, <1>t DEF HandleMessage
  <2>u. UNCHANGED UnderWay
    BY <1>2, <1>t, <2>p, <2>w, <1>g, <2>o, WaitingType DEF UnderWay, Count
  <2>s. UNCHANGED Submissions
    BY <1>2, <1>t, <2>p, <2>w, <1>g, WaitingType DEF Submissions, Count
  <2>S. SessionTypeOK'
    BY <1>2, <1>t, PttAssumption DEF PttAssumption, TypeOK, SessionTypeOK, Phase,
       HandleMessage
  <2>1. TypeOK'  BY <1>2, <1>t, <2>p, <2>w, <2>S, Locals DEF TypeOK, HandleMessage
  <2>. USE <1>2, <1>t, <1>g, <2>p
  <2>2. StopPhases'
    <3>1. UNCHANGED <<engine, mode, link, shuttingDown, stops>>
      BY DEF HandleMessage
    <3>2. UNCHANGED Waiting(txTasks, "release")
      BY <2>w
    <3>. QED BY <3>1, <3>2 DEF IInv, StopPhases
  <2>3. Budget'  BY <2>s, NumberTypes DEF IInv, Budget, HandleMessage
  <2>4. Generations'  BY NumberTypes DEF IInv, Generations, HandleMessage
  <2>5. CommandsCounted'
    BY SMTT(20), <2>u, NumberTypes DEF IInv, CommandsCounted, HandleMessage
  <2>6. FailureGoesOn'
    BY <2>u, NumberTypes, FlagTypes DEF IInv, FailureGoesOn, FailToken, HandleMessage
  <2>7. GateKept'  BY FlagTypes DEF IInv, GateKept, Transmitting, HandleMessage
  <2>8. LinkFirst'  BY <2>u DEF IInv, LinkFirst, HandleMessage
  <2>9. Completions'
    BY <2>u, NumberTypes, FlagTypes DEF IInv, Completions, Ended, OkToken,
       Transmitting, HandleMessage
  <2>10. ReleaseComes'
    BY <2>w, FlagTypes DEF IInv, ReleaseComes, CanKey, PastStop4, HandleMessage
  <2>. QED BY <2>1, <2>2, <2>3, <2>4, <2>5, <2>6, <2>7, <2>8, <2>9, <2>10 DEF IInv
<1>. QED BY <1>1, <1>2, FlagTypes, <1>t

\* CommandsCounted: the command that was posted now runs.
LEMMA CommandBeginsStep ==
  ASSUME IInv, CommandBegins
  PROVE  IInv'
<1>t. TypeOK  BY DEF IInv
<1>g. pc[Js8Tx] = "idle"  BY DEF CommandBegins, Linked
<1>p. pc' \in Control /\ pc'[Js8Tx] = "rig" /\ UNCHANGED pc[Main]
  BY <1>t, GotoJs8Tx, ControlTypes DEF MainLabels, TxLabels, CommandBegins, Linked
<1>v. txTasks # <<>> /\ Head(txTasks) = "ptt" /\ txTasks' = Tail(txTasks)
  BY <1>t DEF CommandBegins, Linked
<1>w. /\ txTasks' \in Seq(Task)
      /\ Waiting(txTasks', "ptt") = Waiting(txTasks, "ptt") - 1
      /\ Waiting(txTasks, "ptt") > 0
      /\ \A x : x # "ptt" => Waiting(txTasks', x) = Waiting(txTasks, x)
  BY <1>t, <1>v, ControlTypes, TasksTail, PlacesFinite
<1>f. UNCHANGED <<sessionVars, rigVars, lockVars, monVars, localVars, mainQueue, out,
                  countVars, crashed, saidVars, cut>>
  BY <1>t, <1>g DEF CommandBegins, Linked
<1>e. /\ cmd'.gen = desiredGen /\ cmd'.linked = Linked /\ cmd'.ok = FALSE
  BY <1>t, <1>g DEF CommandBegins, Linked
<1>u. UNCHANGED UnderWay
  BY <1>t, <1>p, <1>w, <1>f, <1>e, <1>g, WaitingType DEF UnderWay, Count
<1>s. UNCHANGED Submissions
  BY <1>t, <1>p, <1>w, <1>f, <1>g, WaitingType DEF Submissions, Count
<1>T0. cmd' \in Command  BY <1>t, Locals, FlagTypes DEF Command, CommandBegins, Linked
<1>S. SessionTypeOK'
  BY <1>t, <1>f, <1>e, PttAssumption DEF PttAssumption, TypeOK, SessionTypeOK, Phase
<1>1. TypeOK'  BY <1>t, <1>p, <1>w, <1>f, <1>e, <1>T0, <1>S DEF TypeOK
<1>. USE <1>t, <1>g, <1>p, <1>f, <1>e
<1>2. StopPhases'  BY <1>w, NumberTypes DEF IInv, StopPhases
<1>3. Budget'  BY <1>s, NumberTypes DEF IInv, Budget
<1>4. Generations'  BY NumberTypes DEF IInv, Generations
<1>5. CommandsCounted'  BY <1>u, NumberTypes DEF IInv, CommandsCounted
<1>6. FailureGoesOn'  BY <1>u, NumberTypes, FlagTypes DEF IInv, FailureGoesOn, FailToken
<1>7. GateKept'  BY FlagTypes DEF IInv, GateKept, Transmitting
<1>8. LinkFirst'  BY <1>u DEF IInv, LinkFirst
<1>9. Completions'
  BY <1>u, NumberTypes, FlagTypes DEF IInv, Completions, Ended, OkToken, Transmitting
<1>10. ReleaseComes'
  <2>1. CanKey' => CanKey \/ link = "up"
    BY DEF CanKey, Linked
  <2>2. (PastStop4' <=> PastStop4) /\ (PastStop4 => link # "up")
    BY NumberTypes DEF IInv, PastStop4, StopPhases
  <2>3. UNCHANGED Waiting(txTasks, "release") /\ cmd'.ok = FALSE
    BY <1>w
  <2>. QED BY <2>1, <2>2, <2>3, NumberTypes DEF IInv, ReleaseComes
<1>. QED BY <1>1, <1>2, <1>3, <1>4, <1>5, <1>6, <1>7, <1>8, <1>9, <1>10 DEF IInv

LEMMA RigAnswersStep ==
  ASSUME IInv, RigAnswers
  PROVE  IInv'
<1>t. TypeOK  BY DEF IInv
<1>g. pc[Js8Tx] = "rig"  BY DEF RigAnswers
<1>p. pc' \in Control /\ pc'[Js8Tx] = "result" /\ UNCHANGED pc[Main]
  BY <1>t, GotoJs8Tx, ControlTypes DEF MainLabels, TxLabels, RigAnswers
<1>w. UNCHANGED txTasks /\ \A x : UNCHANGED Waiting(txTasks, x)  BY <1>t DEF RigAnswers
<1>f. UNCHANGED <<sessionVars, rigVars, lockVars, monVars, localVars, mainQueue, out,
                  countVars, crashed, saidVars, cut>>
  BY <1>t, <1>g DEF RigAnswers
<1>e. /\ cmd'.on = cmd.on /\ cmd'.gen = cmd.gen /\ cmd'.linked = cmd.linked
      /\ cmd'.ok => cmd.ok \/ cmd.linked
  BY <1>t, <1>g, Locals DEF RigAnswers, Command
<1>u. UNCHANGED UnderWay
  BY <1>t, <1>p, <1>w, <1>f, <1>e, <1>g, WaitingType DEF UnderWay, Count
<1>s. UNCHANGED Submissions
  BY <1>t, <1>p, <1>w, <1>f, <1>g, WaitingType DEF Submissions, Count
<1>T0. cmd' \in Command  BY <1>t, Locals, FlagTypes DEF Command, RigAnswers
<1>S. SessionTypeOK'
  BY <1>t, <1>f, <1>e, PttAssumption DEF PttAssumption, TypeOK, SessionTypeOK, Phase
<1>1. TypeOK'  BY <1>t, <1>p, <1>w, <1>f, <1>e, <1>T0, <1>S DEF TypeOK
<1>. USE <1>t, <1>g, <1>p, <1>f, <1>e
<1>2. StopPhases'  BY <1>w, NumberTypes DEF IInv, StopPhases
<1>3. Budget'  BY <1>s, NumberTypes DEF IInv, Budget
<1>4. Generations'  BY NumberTypes DEF IInv, Generations
<1>5. CommandsCounted'  BY <1>u, NumberTypes DEF IInv, CommandsCounted
<1>6. FailureGoesOn'  BY <1>u, NumberTypes, FlagTypes DEF IInv, FailureGoesOn, FailToken
<1>7. GateKept'  BY FlagTypes DEF IInv, GateKept, Transmitting
<1>8. LinkFirst'  BY <1>u DEF IInv, LinkFirst
<1>9. Completions'
  BY <1>u, NumberTypes, FlagTypes DEF IInv, Completions, Ended, OkToken, Transmitting
<1>10. ReleaseComes'  BY <1>w, FlagTypes DEF IInv, ReleaseComes, CanKey, PastStop4
<1>. QED BY <1>1, <1>2, <1>3, <1>4, <1>5, <1>6, <1>7, <1>8, <1>9, <1>10 DEF IInv

\* The synchronized section of runRigPttCommand, outcome by outcome.
LEMMA ResultSectionStep ==
  ASSUME IInv, ResultSection
  PROVE  IInv'
<1>t. TypeOK  BY DEF IInv
<1>b. asserted' \in BOOLEAN /\ desired' \in BOOLEAN /\ pending' \in BOOLEAN
  BY <1>t, FlagTypes DEF TypeOK, SessionTypeOK, ResultSection, AssertedNow, GateAfter,
     StillDesired, Settles, Repeats, MayRetry, TargetMissed
<1>g. pc[Js8Tx] = "result"
  BY DEF ResultSection, AssertedNow, GateAfter, StillDesired, Settles, Repeats,
     MayRetry, TargetMissed
<1>x. /\ UnderWay = 1 /\ failures <= Retries
      /\ pending \/ stops > 0
      /\ pc[Main] \notin {"post", "grant"}
  BY <1>t, <1>g, NumberTypes, WaitingType DEF IInv, CommandsCounted, StopPhases,
     UnderWay, Count
<1>1. CASE shuttingDown
  <2>p. pc' \in Control /\ pc'[Js8Tx] = "apply" /\ UNCHANGED pc[Main]
    BY <1>1, <1>t, GotoJs8Tx, ControlTypes DEF MainLabels, TxLabels, ResultSection,
       AssertedNow, GateAfter, StillDesired, Settles, Repeats, MayRetry, TargetMissed
  <2>w. UNCHANGED txTasks /\ \A x : UNCHANGED Waiting(txTasks, x)
    BY <1>1, <1>t DEF ResultSection, AssertedNow, GateAfter, StillDesired, Settles,
       Repeats, MayRetry, TargetMissed
  <2>f. UNCHANGED <<sessionVars, rigVars, gen, desired, desiredGen, shuttingDown,
                    pttFailed, monVars, localVars, mainQueue, countVars, crashed,
                    saidVars, cut>>
    BY <1>1, <1>t, <1>g DEF ResultSection, AssertedNow, GateAfter, StillDesired,
       Settles, Repeats, MayRetry, TargetMissed
  <2>e. /\ asserted' = AssertedNow
        /\ failures' \in {0, failures} /\ completion' = 0 /\ pending' = FALSE
        /\ out' = [gate |-> "close", done |-> 0, ok |-> FALSE, failGen |-> 0,
                   again |-> FALSE]
        /\ cmd' = NoCmd
    BY <1>1, <1>t, <1>g, FlagTypes DEF ResultSection, AssertedNow, GateAfter,
       StillDesired, Settles, Repeats, MayRetry, TargetMissed, IInv, Generations
  <2>u. UnderWay' = UnderWay - 1
    BY <1>1, <1>t, <2>p, <2>w, <2>f, <2>e, <1>g, WaitingType DEF UnderWay, Count
  <2>s. UNCHANGED Submissions
    BY <1>1, <1>t, <2>p, <2>w, <2>f, <1>g, WaitingType DEF Submissions, Count
  <2>T0. cmd' \in Command  BY <2>e, <1>t, Locals, FlagTypes DEF Command
  <2>T1. out' \in Outcome  BY <2>e, <1>t, Locals, FlagTypes DEF Outcome, GateAfter
  <2>T2. completion' \in Gens  BY <1>1, <2>f, <2>e, <1>t, Locals
  <2>T3. failures' \in 0 .. Retries + 1
    BY <1>1, <2>f, <2>e, <1>t, PttAssumption, <1>x DEF PttAssumption, TypeOK, MayRetry
  <2>S. SessionTypeOK'
    BY <1>1, <1>t, <2>f, <2>e, <1>b, PttAssumption DEF PttAssumption, TypeOK,
       SessionTypeOK, Phase
  <2>1. TypeOK'
    BY <1>t, <2>p, <2>w, <2>f, <1>b, <2>T0, <2>T1, <2>T2, <2>T3, <2>S DEF TypeOK
  <2>. USE <1>1, <1>t, <1>g, <2>p, <2>f, <2>e
  <2>2. StopPhases'  BY <2>w, NumberTypes DEF IInv, StopPhases
  <2>3. Budget'  BY <2>s, NumberTypes DEF IInv, Budget
  <2>4. Generations'  BY NumberTypes DEF IInv, Generations
  <2>5. CommandsCounted'  BY <1>x, <2>w, <2>u, NumberTypes DEF IInv, CommandsCounted
  <2>6. FailureGoesOn'
    BY <1>x, <2>w, <2>u, NumberTypes, FlagTypes DEF IInv, FailureGoesOn, FailToken,
       Generations, StopPhases
  <2>7. GateKept'  BY FlagTypes DEF IInv, GateKept, Transmitting
  <2>8. LinkFirst'  BY <1>x, <2>w, <2>u DEF IInv, LinkFirst
  <2>9. Completions'
    BY <1>x, <2>w, <2>u, NumberTypes, FlagTypes DEF IInv, Completions, Ended,
       OkToken, Transmitting
  <2>10. ReleaseComes'
    BY <1>x, <2>w, <2>u, FlagTypes DEF IInv, ReleaseComes, CanKey, PastStop4, AssertedNow
  <2>. QED BY <2>1, <2>2, <2>3, <2>4, <2>5, <2>6, <2>7, <2>8, <2>9, <2>10 DEF IInv
<1>2. CASE ~shuttingDown /\ ~cmd.ok /\ StillDesired /\ MayRetry
  <2>p. pc' \in Control /\ pc'[Js8Tx] = "apply" /\ UNCHANGED pc[Main]
    BY <1>2, <1>t, GotoJs8Tx, ControlTypes DEF MainLabels, TxLabels, ResultSection,
       AssertedNow, GateAfter, StillDesired, Settles, Repeats, MayRetry, TargetMissed
  <2>w. UNCHANGED txTasks /\ \A x : UNCHANGED Waiting(txTasks, x)
    BY <1>2, <1>t DEF ResultSection, AssertedNow, GateAfter, StillDesired, Settles,
       Repeats, MayRetry, TargetMissed
  <2>f. UNCHANGED <<sessionVars, rigVars, gen, asserted, desired, desiredGen, completion,
                    shuttingDown, pttFailed, monVars, localVars, mainQueue, countVars,
                    crashed, saidVars, cut>>
    BY <1>2, <1>t, <1>g DEF ResultSection, AssertedNow, GateAfter, StillDesired,
       Settles, Repeats, MayRetry, TargetMissed
  <2>e. /\ asserted' = asserted /\ failures' = failures + 1 /\ pending' = TRUE
        /\ out' = [gate |-> "keep", done |-> 0, ok |-> FALSE, failGen |-> 0, again |-> TRUE]
        /\ cmd' = NoCmd
    BY <1>2, <1>t, <1>g, FlagTypes DEF ResultSection, AssertedNow, GateAfter,
       StillDesired, Settles, Repeats, MayRetry, TargetMissed, IInv, Generations
  <2>u. UNCHANGED UnderWay
    BY <1>2, <1>t, <2>p, <2>w, <2>f, <2>e, <1>g, WaitingType DEF UnderWay, Count
  <2>s. UNCHANGED Submissions
    BY <1>2, <1>t, <2>p, <2>w, <2>f, <1>g, WaitingType DEF Submissions, Count
  <2>T0. cmd' \in Command  BY <2>e, <1>t, Locals, FlagTypes DEF Command
  <2>T1. out' \in Outcome  BY <2>e, <1>t, Locals, FlagTypes DEF Outcome, GateAfter
  <2>T2. completion' \in Gens  BY <1>2, <2>f, <2>e, <1>t, Locals
  <2>T3. failures' \in 0 .. Retries + 1
    BY <1>2, <2>f, <2>e, <1>t, PttAssumption, <1>x DEF PttAssumption, TypeOK, MayRetry
  <2>S. SessionTypeOK'
    BY <1>2, <1>t, <2>f, <2>e, <1>b, PttAssumption DEF PttAssumption, TypeOK,
       SessionTypeOK, Phase
  <2>1. TypeOK'
    BY <1>t, <2>p, <2>w, <2>f, <1>b, <2>T0, <2>T1, <2>T2, <2>T3, <2>S DEF TypeOK
  <2>. USE <1>2, <1>t, <1>g, <2>p, <2>f, <2>e
  <2>2. StopPhases'  BY <2>w, NumberTypes DEF IInv, StopPhases
  <2>3. Budget'  BY <2>s, NumberTypes DEF IInv, Budget
  <2>4. Generations'  BY NumberTypes DEF IInv, Generations
  <2>5. CommandsCounted'
    BY <1>x, <2>w, <2>u, NumberTypes DEF IInv, CommandsCounted, MayRetry
  <2>6. FailureGoesOn'
    BY <1>x, <2>w, <2>u, NumberTypes, FlagTypes DEF IInv, FailureGoesOn, FailToken,
       Generations, StopPhases
  <2>7. GateKept'  BY FlagTypes DEF IInv, GateKept, Transmitting
  <2>8. LinkFirst'  BY <1>x, <2>w, <2>u DEF IInv, LinkFirst
  <2>9. Completions'
    BY <1>x, <2>w, <2>u, NumberTypes, FlagTypes DEF IInv, Completions, Ended,
       OkToken, Transmitting
  <2>10. ReleaseComes'
    BY <1>x, <2>w, <2>u, FlagTypes DEF IInv, ReleaseComes, CanKey, PastStop4, AssertedNow
  <2>. QED BY <2>1, <2>2, <2>3, <2>4, <2>5, <2>6, <2>7, <2>8, <2>9, <2>10 DEF IInv
<1>3. CASE ~shuttingDown /\ ~cmd.ok /\ StillDesired /\ ~MayRetry
  <2>p. pc' \in Control /\ pc'[Js8Tx] = "apply" /\ UNCHANGED pc[Main]
    BY <1>3, <1>t, GotoJs8Tx, ControlTypes DEF MainLabels, TxLabels, ResultSection,
       AssertedNow, GateAfter, StillDesired, Settles, Repeats, MayRetry, TargetMissed
  <2>w. UNCHANGED txTasks /\ \A x : UNCHANGED Waiting(txTasks, x)
    BY <1>3, <1>t DEF ResultSection, AssertedNow, GateAfter, StillDesired, Settles,
       Repeats, MayRetry, TargetMissed
  <2>f. UNCHANGED <<sessionVars, rigVars, gen, asserted, desiredGen, shuttingDown,
                    pttFailed, monVars, localVars, mainQueue, countVars, crashed,
                    saidVars, cut>>
    BY <1>3, <1>t, <1>g DEF ResultSection, AssertedNow, GateAfter, StillDesired,
       Settles, Repeats, MayRetry, TargetMissed
  <2>e. /\ asserted' = asserted /\ desired' = asserted /\ failures' = failures + 1
        /\ pending' = FALSE /\ completion' = 0
        /\ out' = [gate |-> "keep", done |-> completion, ok |-> FALSE,
                   failGen |-> IF cmd.on THEN cmd.gen ELSE 0, again |-> FALSE]
        /\ cmd' = NoCmd
    BY <1>3, <1>t, <1>g, FlagTypes DEF ResultSection, AssertedNow, GateAfter,
       StillDesired, Settles, Repeats, MayRetry, TargetMissed, IInv, Generations
  <2>u. UnderWay' = UnderWay - 1
    BY <1>3, <1>t, <2>p, <2>w, <2>f, <2>e, <1>g, WaitingType DEF UnderWay, Count
  <2>s. UNCHANGED Submissions
    BY <1>3, <1>t, <2>p, <2>w, <2>f, <1>g, WaitingType DEF Submissions, Count
  <2>T0. cmd' \in Command  BY <2>e, <1>t, Locals, FlagTypes DEF Command
  <2>T1. out' \in Outcome  BY <2>e, <1>t, Locals, FlagTypes DEF Outcome, GateAfter
  <2>T2. completion' \in Gens  BY <1>3, <2>f, <2>e, <1>t, Locals
  <2>T3. failures' \in 0 .. Retries + 1
    BY <1>3, <2>f, <2>e, <1>t, PttAssumption, <1>x DEF PttAssumption, TypeOK, MayRetry
  <2>S. SessionTypeOK'
    BY <1>3, <1>t, <2>f, <2>e, <1>b, PttAssumption DEF PttAssumption, TypeOK,
       SessionTypeOK, Phase
  <2>1. TypeOK'
    BY <1>t, <2>p, <2>w, <2>f, <1>b, <2>T0, <2>T1, <2>T2, <2>T3, <2>S DEF TypeOK
  <2>. USE <1>3, <1>t, <1>g, <2>p, <2>f, <2>e
  <2>2. StopPhases'  BY <2>w, NumberTypes DEF IInv, StopPhases
  <2>3. Budget'  BY <2>s, NumberTypes DEF IInv, Budget
  <2>4. Generations'  BY NumberTypes DEF IInv, Generations
  <2>5. CommandsCounted'
    BY <1>x, <2>w, <2>u, NumberTypes DEF IInv, CommandsCounted, MayRetry
  <2>6. FailureGoesOn'
    BY <1>x, <2>w, <2>u, NumberTypes, FlagTypes DEF IInv, FailureGoesOn, FailToken,
       Generations, StopPhases
  <2>7. GateKept'  BY FlagTypes DEF IInv, GateKept, Transmitting
  <2>8. LinkFirst'  BY <1>x, <2>w, <2>u DEF IInv, LinkFirst
  <2>9. Completions'
    BY <1>x, <2>w, <2>u, NumberTypes, FlagTypes DEF IInv, Completions, Ended,
       OkToken, Transmitting
  <2>10. ReleaseComes'
    BY <1>x, <2>w, <2>u, FlagTypes DEF IInv, ReleaseComes, CanKey, PastStop4, AssertedNow
  <2>. QED BY <2>1, <2>2, <2>3, <2>4, <2>5, <2>6, <2>7, <2>8, <2>9, <2>10 DEF IInv
<1>4. CASE ~shuttingDown /\ (cmd.ok \/ ~StillDesired) /\ TargetMissed
  <2>p. pc' \in Control /\ pc'[Js8Tx] = "apply" /\ UNCHANGED pc[Main]
    BY <1>4, <1>t, GotoJs8Tx, ControlTypes DEF MainLabels, TxLabels, ResultSection,
       AssertedNow, GateAfter, StillDesired, Settles, Repeats, MayRetry, TargetMissed
  <2>w. UNCHANGED txTasks /\ \A x : UNCHANGED Waiting(txTasks, x)
    BY <1>4, <1>t DEF ResultSection, AssertedNow, GateAfter, StillDesired, Settles,
       Repeats, MayRetry, TargetMissed
  <2>f. UNCHANGED <<sessionVars, rigVars, gen, desired, desiredGen, completion,
                    shuttingDown, pttFailed, monVars, localVars, mainQueue, countVars,
                    crashed, saidVars, cut>>
    BY <1>4, <1>t, <1>g DEF ResultSection, AssertedNow, GateAfter, StillDesired,
       Settles, Repeats, MayRetry, TargetMissed
  <2>e. /\ asserted' = AssertedNow /\ failures' = (IF cmd.ok THEN 0 ELSE failures)
        /\ pending' = TRUE
        /\ out' = [gate |-> GateAfter, done |-> 0, ok |-> FALSE, failGen |-> 0,
                   again |-> TRUE]
        /\ cmd' = NoCmd
    BY <1>4, <1>t, <1>g, FlagTypes DEF ResultSection, AssertedNow, GateAfter,
       StillDesired, Settles, Repeats, MayRetry, TargetMissed, IInv, Generations
  <2>u. UNCHANGED UnderWay
    BY <1>4, <1>t, <2>p, <2>w, <2>f, <2>e, <1>g, WaitingType DEF UnderWay, Count
  <2>s. UNCHANGED Submissions
    BY <1>4, <1>t, <2>p, <2>w, <2>f, <1>g, WaitingType DEF Submissions, Count
  <2>T0. cmd' \in Command  BY <2>e, <1>t, Locals, FlagTypes DEF Command
  <2>T1. out' \in Outcome  BY <2>e, <1>t, Locals, FlagTypes DEF Outcome, GateAfter
  <2>T2. completion' \in Gens  BY <1>4, <2>f, <2>e, <1>t, Locals
  <2>T3. failures' \in 0 .. Retries + 1
    BY <1>4, <2>f, <2>e, <1>t, PttAssumption, <1>x DEF PttAssumption, TypeOK, MayRetry
  <2>S. SessionTypeOK'
    BY <1>4, <1>t, <2>f, <2>e, <1>b, PttAssumption DEF PttAssumption, TypeOK,
       SessionTypeOK, Phase
  <2>1. TypeOK'
    BY <1>t, <2>p, <2>w, <2>f, <1>b, <2>T0, <2>T1, <2>T2, <2>T3, <2>S DEF TypeOK
  <2>. USE <1>4, <1>t, <1>g, <2>p, <2>f, <2>e
  <2>2. StopPhases'  BY <2>w, NumberTypes DEF IInv, StopPhases
  <2>3. Budget'  BY <2>s, NumberTypes DEF IInv, Budget
  <2>4. Generations'  BY NumberTypes DEF IInv, Generations
  <2>5. CommandsCounted'  BY <1>x, <2>w, <2>u, NumberTypes DEF IInv, CommandsCounted
  <2>6. FailureGoesOn'
    BY <1>x, <2>w, <2>u, NumberTypes, FlagTypes DEF IInv, FailureGoesOn, FailToken,
       Generations, StopPhases
  <2>7. GateKept'  BY FlagTypes DEF IInv, GateKept, Transmitting, AssertedNow, GateAfter
  <2>8. LinkFirst'  BY <1>x, <2>w, <2>u DEF IInv, LinkFirst
  <2>9. Completions'
    BY <1>x, <2>w, <2>u, NumberTypes, FlagTypes DEF IInv, Completions, Ended,
       OkToken, Transmitting
  <2>10. ReleaseComes'
    BY <1>x, <2>w, <2>u, FlagTypes DEF IInv, ReleaseComes, CanKey, PastStop4, AssertedNow
  <2>. QED BY <2>1, <2>2, <2>3, <2>4, <2>5, <2>6, <2>7, <2>8, <2>9, <2>10 DEF IInv
<1>5. CASE ~shuttingDown /\ (cmd.ok \/ ~StillDesired) /\ ~TargetMissed
  <2>p. pc' \in Control /\ pc'[Js8Tx] = "apply" /\ UNCHANGED pc[Main]
    BY <1>5, <1>t, GotoJs8Tx, ControlTypes DEF MainLabels, TxLabels, ResultSection,
       AssertedNow, GateAfter, StillDesired, Settles, Repeats, MayRetry, TargetMissed
  <2>w. UNCHANGED txTasks /\ \A x : UNCHANGED Waiting(txTasks, x)
    BY <1>5, <1>t DEF ResultSection, AssertedNow, GateAfter, StillDesired, Settles,
       Repeats, MayRetry, TargetMissed
  <2>f. UNCHANGED <<sessionVars, rigVars, gen, desired, desiredGen, shuttingDown,
                    pttFailed, monVars, localVars, mainQueue, countVars, crashed,
                    saidVars, cut>>
    BY <1>5, <1>t, <1>g DEF ResultSection, AssertedNow, GateAfter, StillDesired,
       Settles, Repeats, MayRetry, TargetMissed
  <2>e. /\ asserted' = desired /\ failures' = (IF cmd.ok THEN 0 ELSE failures)
        /\ pending' = FALSE /\ completion' = 0
        /\ out' = [gate |-> GateAfter, done |-> completion, ok |-> TRUE, failGen |-> 0,
                   again |-> FALSE]
        /\ cmd' = NoCmd
    BY <1>5, <1>t, <1>g, FlagTypes DEF ResultSection, AssertedNow, GateAfter,
       StillDesired, Settles, Repeats, MayRetry, TargetMissed, IInv, Generations
  <2>u. UnderWay' = UnderWay - 1
    BY <1>5, <1>t, <2>p, <2>w, <2>f, <2>e, <1>g, WaitingType DEF UnderWay, Count
  <2>s. UNCHANGED Submissions
    BY <1>5, <1>t, <2>p, <2>w, <2>f, <1>g, WaitingType DEF Submissions, Count
  <2>T0. cmd' \in Command  BY <2>e, <1>t, Locals, FlagTypes DEF Command
  <2>T1. out' \in Outcome  BY <2>e, <1>t, Locals, FlagTypes DEF Outcome, GateAfter
  <2>T2. completion' \in Gens  BY <1>5, <2>f, <2>e, <1>t, Locals
  <2>T3. failures' \in 0 .. Retries + 1
    BY <1>5, <2>f, <2>e, <1>t, PttAssumption, <1>x DEF PttAssumption, TypeOK, MayRetry
  <2>S. SessionTypeOK'
    BY <1>5, <1>t, <2>f, <2>e, <1>b, PttAssumption DEF PttAssumption, TypeOK,
       SessionTypeOK, Phase
  <2>1. TypeOK'
    BY <1>t, <2>p, <2>w, <2>f, <1>b, <2>T0, <2>T1, <2>T2, <2>T3, <2>S DEF TypeOK
  <2>. USE <1>5, <1>t, <1>g, <2>p, <2>f, <2>e
  <2>2. StopPhases'  BY <2>w, NumberTypes DEF IInv, StopPhases
  <2>3. Budget'  BY <2>s, NumberTypes DEF IInv, Budget
  <2>4. Generations'  BY NumberTypes DEF IInv, Generations
  <2>5. CommandsCounted'  BY <1>x, <2>w, <2>u, NumberTypes DEF IInv, CommandsCounted
  <2>6. FailureGoesOn'
    BY <1>x, <2>w, <2>u, NumberTypes, FlagTypes DEF IInv, FailureGoesOn, FailToken,
       Generations, StopPhases
  <2>7. GateKept'
    BY FlagTypes DEF IInv, GateKept, Transmitting, AssertedNow, GateAfter, TargetMissed
  <2>8. LinkFirst'  BY <1>x, <2>w, <2>u DEF IInv, LinkFirst
  <2>9. Completions'
    BY <1>x, <2>w, <2>u, NumberTypes, FlagTypes DEF IInv, Completions, Ended,
       OkToken, Transmitting, TargetMissed, AssertedNow
  <2>10. ReleaseComes'
    BY <1>x, <2>w, <2>u, FlagTypes DEF IInv, ReleaseComes, CanKey, PastStop4,
       AssertedNow, TargetMissed
  <2>. QED BY <2>1, <2>2, <2>3, <2>4, <2>5, <2>6, <2>7, <2>8, <2>9, <2>10 DEF IInv
<1>. QED BY <1>1, <1>2, <1>3, <1>4, <1>5, FlagTypes, <1>t

\* The command is over, or posts itself again.
LEMMA ApplyResultStep ==
  ASSUME IInv, ApplyResult, ~Crash
  PROVE  IInv'
<1>t. TypeOK  BY DEF IInv
<1>b. ready' \in BOOLEAN  BY <1>t DEF TypeOK, SessionTypeOK, ApplyResult, SetReady
<1>g. pc[Js8Tx] = "apply"  BY DEF ApplyResult, SetReady
<1>q. /\ mainQueue' \in Seq(Reply) /\ Range(mainQueue) \subseteq Range(mainQueue')
      /\ \A r \in Range(mainQueue') :
           \/ r \in Range(mainQueue)
           \/ r.done = out.done /\ r.ok = out.ok /\ r.failGen = out.failGen
  <2>1. [done |-> out.done, ok |-> out.ok, failGen |-> out.failGen] \in Reply
    BY Locals, FlagTypes, <1>t DEF Reply
  <2>2. CASE out.done # 0 \/ out.failGen # 0
    <3>1. mainQueue' = Append(mainQueue, [done |-> out.done, ok |-> out.ok,
                                          failGen |-> out.failGen])
      BY <2>2 DEF ApplyResult, SetReady
    <3>2. /\ mainQueue' \in Seq(Reply)
          /\ Range(mainQueue') = Range(mainQueue) \cup {[done |-> out.done, ok |-> out.ok,
                                                         failGen |-> out.failGen]}
      BY <1>t, <2>1, <3>1, ControlTypes, RepliesAppend
    <3>. QED BY <3>2
  <2>3. CASE ~(out.done # 0 \/ out.failGen # 0)
    BY <1>t, <2>3, ControlTypes DEF ApplyResult, SetReady
  <2>. QED BY <2>2, <2>3
<1>1. CASE out.again
  <2>p. pc' \in Control /\ pc'[Js8Tx] = "idle" /\ UNCHANGED pc[Main]
    BY <1>1, <1>t, GotoJs8Tx, ControlTypes DEF MainLabels, TxLabels, ApplyResult, SetReady
  <2>v. txTasks' = Append(txTasks, "ptt")  BY <1>1, <1>t DEF ApplyResult, SetReady
  <2>w. /\ txTasks' \in Seq(Task)
        /\ Waiting(txTasks', "ptt") = Waiting(txTasks, "ptt") + 1
        /\ \A x : x # "ptt" => Waiting(txTasks', x) = Waiting(txTasks, x)
    BY <1>t, <2>v, ControlTypes, TasksAppend DEF Task
  <2>f. UNCHANGED <<phase, frames, rigVars, lockVars, monVars, localVars, cmd, countVars,
                    crashed, saidVars, cut>>
    BY <1>1, <1>t, <1>g DEF ApplyResult, SetReady
  <2>e. /\ IF out.gate # "keep" /\ engine = "open"
             THEN ready' = (out.gate = "open")
             ELSE ready' = ready
        /\ out' = NoOut
    BY <1>1, <1>t, <1>g DEF ApplyResult, SetReady
  <2>u. UNCHANGED UnderWay
    BY <1>1, <1>t, <2>p, <2>w, <2>f, <2>e, <1>g, WaitingType DEF UnderWay, Count
  <2>s. UNCHANGED Submissions
    BY <1>1, <1>t, <2>p, <2>w, <2>f, <1>g, WaitingType DEF Submissions, Count
  <2>T0. out' \in Outcome  BY <2>e, <1>t, Locals, FlagTypes DEF Outcome, GateAfter
  <2>S. SessionTypeOK'
    BY <1>1, <1>t, <2>f, <2>e, <1>b, PttAssumption DEF PttAssumption, TypeOK,
       SessionTypeOK, Phase
  <2>1. TypeOK'  BY <1>t, <2>p, <2>w, <2>f, <2>e, <1>b, <2>T0, <2>S, <1>q DEF TypeOK
  <2>. USE <1>1, <1>t, <1>g, <2>p, <2>f, <2>e
  <2>2. StopPhases'  BY <2>w, NumberTypes DEF IInv, StopPhases
  <2>3. Budget'  BY <2>s, NumberTypes DEF IInv, Budget
  <2>4. Generations'  BY <1>q, NumberTypes DEF IInv, Generations
  <2>5. CommandsCounted'  BY <2>u, NumberTypes DEF IInv, CommandsCounted
  <2>6. FailureGoesOn'
    BY <2>u, <1>q, NumberTypes, FlagTypes DEF IInv, FailureGoesOn, FailToken
  <2>7. GateKept'  BY FlagTypes DEF IInv, GateKept, Transmitting, StopPhases
  <2>8. LinkFirst'  BY <2>u DEF IInv, LinkFirst
  <2>9. Completions'
    BY <2>u, <1>q, NumberTypes, FlagTypes DEF IInv, Completions, Ended, OkToken,
       Transmitting
  <2>10. ReleaseComes'  BY <2>w, FlagTypes DEF IInv, ReleaseComes, CanKey, PastStop4
  <2>. QED BY <2>1, <2>2, <2>3, <2>4, <2>5, <2>6, <2>7, <2>8, <2>9, <2>10 DEF IInv
<1>2. CASE ~out.again
  <2>p. pc' \in Control /\ pc'[Js8Tx] = "idle" /\ UNCHANGED pc[Main]
    BY <1>2, <1>t, GotoJs8Tx, ControlTypes DEF MainLabels, TxLabels, ApplyResult, SetReady
  <2>w. UNCHANGED txTasks /\ \A x : UNCHANGED Waiting(txTasks, x)
    BY <1>2, <1>t DEF ApplyResult, SetReady
  <2>f. UNCHANGED <<phase, frames, rigVars, lockVars, monVars, localVars, cmd, countVars,
                    crashed, saidVars, cut>>
    BY <1>2, <1>t, <1>g DEF ApplyResult, SetReady
  <2>e. /\ IF out.gate # "keep" /\ engine = "open"
             THEN ready' = (out.gate = "open")
             ELSE ready' = ready
        /\ out' = NoOut
    BY <1>2, <1>t, <1>g DEF ApplyResult, SetReady
  <2>u. UNCHANGED UnderWay
    BY <1>2, <1>t, <2>p, <2>w, <2>f, <2>e, <1>g, WaitingType DEF UnderWay, Count
  <2>s. UNCHANGED Submissions
    BY <1>2, <1>t, <2>p, <2>w, <2>f, <1>g, WaitingType DEF Submissions, Count
  <2>T0. out' \in Outcome  BY <2>e, <1>t, Locals, FlagTypes DEF Outcome, GateAfter
  <2>S. SessionTypeOK'
    BY <1>2, <1>t, <2>f, <2>e, <1>b, PttAssumption DEF PttAssumption, TypeOK,
       SessionTypeOK, Phase
  <2>1. TypeOK'  BY <1>t, <2>p, <2>w, <2>f, <2>e, <1>b, <2>T0, <2>S, <1>q DEF TypeOK
  <2>. USE <1>2, <1>t, <1>g, <2>p, <2>f, <2>e
  <2>2. StopPhases'  BY <2>w, NumberTypes DEF IInv, StopPhases
  <2>3. Budget'  BY <2>s, NumberTypes DEF IInv, Budget
  <2>4. Generations'  BY <1>q, NumberTypes DEF IInv, Generations
  <2>5. CommandsCounted'  BY <2>u, NumberTypes DEF IInv, CommandsCounted
  <2>6. FailureGoesOn'
    BY <2>u, <1>q, NumberTypes, FlagTypes DEF IInv, FailureGoesOn, FailToken
  <2>7. GateKept'  BY FlagTypes DEF IInv, GateKept, Transmitting, StopPhases
  <2>8. LinkFirst'  BY <2>u DEF IInv, LinkFirst
  <2>9. Completions'
    BY <2>u, <1>q, NumberTypes, FlagTypes DEF IInv, Completions, Ended, OkToken,
       Transmitting
  <2>10. ReleaseComes'  BY <2>w, FlagTypes DEF IInv, ReleaseComes, CanKey, PastStop4
  <2>. QED BY <2>1, <2>2, <2>3, <2>4, <2>5, <2>6, <2>7, <2>8, <2>9, <2>10 DEF IInv
<1>. QED BY <1>1, <1>2, FlagTypes, <1>t

\* ReleaseComes: the release is obeyed.
LEMMA TeardownStep ==
  ASSUME IInv, Teardown
  PROVE  IInv'
<1>t. TypeOK  BY DEF IInv
<1>b. asserted' \in BOOLEAN  BY <1>t DEF TypeOK, SessionTypeOK, Teardown
<1>g. pc[Js8Tx] = "idle"  BY DEF Teardown
<1>1. CASE Head(txTasks) = "release"
  <2>p. UNCHANGED pc  BY <1>1, <1>t DEF Teardown
  <2>v. txTasks # <<>> /\ Head(txTasks) = "release" /\ txTasks' = Tail(txTasks)
    BY <1>1, <1>t DEF Teardown
  <2>w. /\ txTasks' \in Seq(Task)
        /\ Waiting(txTasks', "release") = Waiting(txTasks, "release") - 1
        /\ Waiting(txTasks, "release") > 0
        /\ \A x : x # "release" => Waiting(txTasks', x) = Waiting(txTasks, x)
    BY <1>t, <2>v, ControlTypes, TasksTail, PlacesFinite
  <2>f. UNCHANGED <<sessionVars, rigVars, gen, desired, desiredGen, pending, failures,
                    completion, shuttingDown, pttFailed, monVars, localVars, mainQueue,
                    cmdVars, countVars, crashed, saidVars, cut>>
    BY <1>1, <1>t, <1>g DEF Teardown
  <2>e. /\ asserted' = FALSE \/ (RigMayFail /\ asserted' = asserted)
    BY <1>1, <1>t, <1>g DEF Teardown
  <2>u. UNCHANGED UnderWay
    BY <1>1, <1>t, <2>p, <2>w, <2>f, <2>e, <1>g, WaitingType DEF UnderWay, Count
  <2>s. UNCHANGED Submissions
    BY <1>1, <1>t, <2>p, <2>w, <2>f, <1>g, WaitingType DEF Submissions, Count
  <2>S. SessionTypeOK'
    BY <1>1, <1>t, <2>f, <2>e, <1>b, PttAssumption DEF PttAssumption, TypeOK,
       SessionTypeOK, Phase
  <2>1. TypeOK'  BY <1>t, <2>p, <2>w, <2>f, <2>e, <1>b, <2>S DEF TypeOK
  <2>. USE <1>1, <1>t, <1>g, <2>p, <2>f, <2>e
  <2>2. StopPhases'  BY <2>w, NumberTypes DEF IInv, StopPhases
  <2>3. Budget'  BY <2>s, NumberTypes DEF IInv, Budget
  <2>4. Generations'  BY NumberTypes DEF IInv, Generations
  <2>5. CommandsCounted'
    BY SMTT(20), <2>u, NumberTypes, <2>w DEF IInv, CommandsCounted, StopPhases
  <2>6. FailureGoesOn'
    BY <2>u, NumberTypes, FlagTypes DEF IInv, FailureGoesOn, FailToken
  <2>7. GateKept'  BY FlagTypes, <2>w DEF IInv, GateKept, Transmitting, StopPhases
  <2>8. LinkFirst'  BY <2>w, <2>u DEF IInv, LinkFirst
  <2>9. Completions'
    BY <2>u, NumberTypes, FlagTypes DEF IInv, Completions, Ended, OkToken, Transmitting
  <2>10. ReleaseComes'
    BY <2>w, <2>u, WaitingType DEF IInv, ReleaseComes, CanKey, PastStop4, Obeying
  <2>. QED BY <2>1, <2>2, <2>3, <2>4, <2>5, <2>6, <2>7, <2>8, <2>9, <2>10 DEF IInv
<1>2. CASE Head(txTasks) = "close"
  <2>p. UNCHANGED pc  BY <1>2, <1>t DEF Teardown
  <2>v. txTasks # <<>> /\ Head(txTasks) = "close" /\ txTasks' = Tail(txTasks)
    BY <1>2, <1>t DEF Teardown
  <2>w. /\ txTasks' \in Seq(Task)
        /\ Waiting(txTasks', "close") = Waiting(txTasks, "close") - 1
        /\ Waiting(txTasks, "close") > 0
        /\ \A x : x # "close" => Waiting(txTasks', x) = Waiting(txTasks, x)
    BY <1>t, <2>v, ControlTypes, TasksTail, PlacesFinite
  <2>f. UNCHANGED <<sessionVars, rigVars, lockVars, monVars, localVars, mainQueue,
                    cmdVars, countVars, crashed, saidVars, cut>>
    BY <1>2, <1>t, <1>g DEF Teardown
  <2>e. /\ asserted' = asserted  BY <1>2, <1>t, <1>g DEF Teardown
  <2>u. UNCHANGED UnderWay
    BY <1>2, <1>t, <2>p, <2>w, <2>f, <2>e, <1>g, WaitingType DEF UnderWay, Count
  <2>s. UNCHANGED Submissions
    BY <1>2, <1>t, <2>p, <2>w, <2>f, <1>g, WaitingType DEF Submissions, Count
  <2>S. SessionTypeOK'
    BY <1>2, <1>t, <2>f, <2>e, <1>b, PttAssumption DEF PttAssumption, TypeOK,
       SessionTypeOK, Phase
  <2>1. TypeOK'  BY <1>t, <2>p, <2>w, <2>f, <2>e, <1>b, <2>S DEF TypeOK
  <2>. USE <1>2, <1>t, <1>g, <2>p, <2>f, <2>e
  <2>2. StopPhases'  BY <2>w, NumberTypes DEF IInv, StopPhases
  <2>3. Budget'  BY <2>s, NumberTypes DEF IInv, Budget
  <2>4. Generations'  BY NumberTypes DEF IInv, Generations
  <2>5. CommandsCounted'  BY <2>u, NumberTypes DEF IInv, CommandsCounted
  <2>6. FailureGoesOn'
    BY <2>u, NumberTypes, FlagTypes DEF IInv, FailureGoesOn, FailToken
  <2>7. GateKept'  BY FlagTypes DEF IInv, GateKept, Transmitting
  <2>8. LinkFirst'  BY <2>w, <2>u DEF IInv, LinkFirst
  <2>9. Completions'
    BY <2>u, NumberTypes, FlagTypes DEF IInv, Completions, Ended, OkToken, Transmitting
  <2>10. ReleaseComes'
    BY <2>w, <2>u, WaitingType DEF IInv, ReleaseComes, CanKey, PastStop4, Obeying
  <2>. QED BY <2>1, <2>2, <2>3, <2>4, <2>5, <2>6, <2>7, <2>8, <2>9, <2>10 DEF IInv
<1>. QED BY <1>t, <1>1, <1>2, ControlTypes DEF Teardown, Task

LEMMA UserSendsStep ==
  ASSUME IInv, UserSends
  PROVE  IInv'
<1>t. TypeOK  BY DEF IInv
<1>g. pc[Main] = "idle"  BY DEF UserSends
<1>p. UNCHANGED pc  BY DEF UserSends
<1>v. txTasks' = Append(txTasks, "send")  BY <1>t DEF UserSends
<1>w. /\ txTasks' \in Seq(Task)
      /\ Waiting(txTasks', "send") = Waiting(txTasks, "send") + 1
      /\ \A x : x # "send" => Waiting(txTasks', x) = Waiting(txTasks, x)
  BY <1>t, <1>v, ControlTypes, TasksAppend DEF Task
<1>f. UNCHANGED <<sessionVars, rigVars, lockVars, monVars, localVars, mainQueue, cmdVars,
                  heartbeats, stops, dropped, crashed, saidVars, cut>>
  BY <1>t, <1>g DEF UserSends
<1>e. /\ sends' = sends + 1 /\ sends < MaxSends  BY <1>t, <1>g DEF UserSends
<1>u. UNCHANGED UnderWay
  BY <1>t, <1>p, <1>w, <1>f, <1>e, <1>g, WaitingType DEF UnderWay, Count
<1>s. Submissions' = Submissions + 1
  BY <1>t, <1>p, <1>w, <1>f, <1>g, WaitingType DEF Submissions, Count
<1>T0. sends' \in 0 .. MaxSends
  BY <1>f, <1>e, <1>t, PttAssumption DEF PttAssumption, TypeOK
<1>S. SessionTypeOK'
  BY <1>t, <1>f, <1>e, PttAssumption DEF PttAssumption, TypeOK, SessionTypeOK, Phase
<1>1. TypeOK'  BY <1>t, <1>p, <1>w, <1>f, <1>e, <1>T0, <1>S DEF TypeOK
<1>. USE <1>t, <1>g, <1>p, <1>f, <1>e
<1>2. StopPhases'  BY <1>w, NumberTypes DEF IInv, StopPhases
<1>3. Budget'  BY <1>s, NumberTypes DEF IInv, Budget
<1>4. Generations'  BY NumberTypes DEF IInv, Generations
<1>5. CommandsCounted'  BY <1>u, NumberTypes DEF IInv, CommandsCounted
<1>6. FailureGoesOn'  BY <1>u, NumberTypes, FlagTypes DEF IInv, FailureGoesOn, FailToken
<1>7. GateKept'  BY FlagTypes DEF IInv, GateKept, Transmitting
<1>8. LinkFirst'  BY <1>u DEF IInv, LinkFirst
<1>9. Completions'
  BY <1>u, NumberTypes, FlagTypes DEF IInv, Completions, Ended, OkToken, Transmitting
<1>10. ReleaseComes'  BY <1>w, FlagTypes DEF IInv, ReleaseComes, CanKey, PastStop4
<1>. QED BY <1>1, <1>2, <1>3, <1>4, <1>5, <1>6, <1>7, <1>8, <1>9, <1>10 DEF IInv

LEMMA SendHeartbeatStep ==
  ASSUME IInv, SendHeartbeat
  PROVE  IInv'
<1>t. TypeOK  BY DEF IInv
<1>g. pc[Main] = "idle"  BY DEF SendHeartbeat
<1>p. pc' \in Control /\ pc'[Main] = "prepare" /\ UNCHANGED pc[Js8Tx]
  BY <1>t, GotoMain, ControlTypes DEF MainLabels, TxLabels, SendHeartbeat
<1>w. UNCHANGED txTasks /\ \A x : UNCHANGED Waiting(txTasks, x)
  BY <1>t DEF SendHeartbeat
<1>f. UNCHANGED <<sessionVars, rigVars, lockVars, monVars, localVars, mainQueue, cmdVars,
                  sends, stops, dropped, crashed, saidVars, cut>>
  BY <1>t, <1>g DEF SendHeartbeat
<1>e. /\ heartbeats' = heartbeats + 1 /\ heartbeats < MaxHeartbeats /\ engine = "open"
  BY <1>t, <1>g DEF SendHeartbeat
<1>u. UNCHANGED UnderWay
  BY <1>t, <1>p, <1>w, <1>f, <1>e, <1>g, WaitingType DEF UnderWay, Count
<1>s. Submissions' = Submissions + 1
  BY <1>t, <1>p, <1>w, <1>f, <1>g, WaitingType DEF Submissions, Count
<1>T0. heartbeats' \in 0 .. MaxHeartbeats
  BY <1>f, <1>e, <1>t, PttAssumption DEF PttAssumption, TypeOK
<1>S. SessionTypeOK'
  BY <1>t, <1>f, <1>e, PttAssumption DEF PttAssumption, TypeOK, SessionTypeOK, Phase
<1>1. TypeOK'  BY <1>t, <1>p, <1>w, <1>f, <1>e, <1>T0, <1>S DEF TypeOK
<1>. USE <1>t, <1>g, <1>p, <1>f, <1>e
<1>2. StopPhases'  BY <1>w, NumberTypes DEF IInv, StopPhases
<1>3. Budget'  BY <1>s, NumberTypes DEF IInv, Budget
<1>4. Generations'  BY NumberTypes DEF IInv, Generations
<1>5. CommandsCounted'  BY <1>u, NumberTypes DEF IInv, CommandsCounted
<1>6. FailureGoesOn'  BY <1>u, NumberTypes, FlagTypes DEF IInv, FailureGoesOn, FailToken
<1>7. GateKept'  BY FlagTypes DEF IInv, GateKept, Transmitting
<1>8. LinkFirst'  BY <1>u DEF IInv, LinkFirst
<1>9. Completions'
  BY <1>u, NumberTypes, FlagTypes DEF IInv, Completions, Ended, OkToken, Transmitting
<1>10. ReleaseComes'  BY <1>w, FlagTypes DEF IInv, ReleaseComes, CanKey, PastStop4
<1>. QED BY <1>1, <1>2, <1>3, <1>4, <1>5, <1>6, <1>7, <1>8, <1>9, <1>10 DEF IInv

\* A stop begins a generation of its own.
LEMMA StopStep ==
  ASSUME IInv, Stop
  PROVE  IInv'
<1>t. TypeOK  BY DEF IInv
<1>b. desired' \in BOOLEAN /\ shuttingDown' \in BOOLEAN /\ pttFailed' \in BOOLEAN
  BY <1>t DEF TypeOK, SessionTypeOK, Stop
<1>g. pc[Main] = "idle"  BY DEF Stop
<1>p. pc' \in Control /\ pc'[Main] = "stop2" /\ UNCHANGED pc[Js8Tx]
  BY <1>t, GotoMain, ControlTypes DEF MainLabels, TxLabels, Stop
<1>w. UNCHANGED txTasks /\ \A x : UNCHANGED Waiting(txTasks, x)  BY <1>t DEF Stop
<1>f. UNCHANGED <<sessionVars, rigVars, asserted, pending, monVars, localVars, mainQueue,
                  cmdVars, sends, heartbeats, dropped, crashed, saidVars, cut>>
  BY <1>t, <1>g DEF Stop
<1>e. /\ gen' = gen + 1 /\ desiredGen' = gen + 1 /\ stops' = stops + 1
      /\ desired' = asserted /\ failures' = 0 /\ completion' = 0
      /\ shuttingDown' = TRUE /\ pttFailed' = FALSE
  BY <1>t, <1>g DEF Stop
<1>u. UNCHANGED UnderWay
  BY <1>t, <1>p, <1>w, <1>f, <1>e, <1>g, WaitingType DEF UnderWay, Count
<1>s. UNCHANGED Submissions
  BY <1>t, <1>p, <1>w, <1>f, <1>g, WaitingType DEF Submissions, Count
<1>a. gen + 1 <= sends' + heartbeats' + stops'
  BY <1>t, NumberTypes DEF IInv, Budget, Stop
<1>c. /\ sends' \in 0 .. MaxSends /\ heartbeats' \in 0 .. MaxHeartbeats
      /\ stops' \in 0 .. MaxStops
  BY <1>t, PttAssumption DEF PttAssumption, TypeOK, Stop
<1>T0. gen' \in Gens
  BY <1>a, <1>c, <1>t, NumberTypes, PttAssumption DEF PttAssumption, Gens, Stop
<1>T1. completion' \in Gens  BY <1>f, <1>e, <1>t, Locals
<1>T2. failures' \in 0 .. Retries + 1
  BY <1>f, <1>e, <1>t, PttAssumption DEF PttAssumption, TypeOK
<1>T3. desiredGen' \in Gens  BY <1>e, <1>T0
<1>S. SessionTypeOK'
  BY <1>t, <1>f, <1>e, <1>b, PttAssumption DEF PttAssumption, TypeOK, SessionTypeOK, Phase
<1>1. TypeOK'
  BY <1>t, <1>p, <1>w, <1>f, <1>b, <1>T0, <1>T1, <1>T2, <1>T3, <1>S, <1>c DEF TypeOK
<1>. USE <1>t, <1>g, <1>p, <1>f, <1>e
<1>2. StopPhases'  BY <1>w, NumberTypes DEF IInv, StopPhases
<1>3. Budget'  BY <1>s, NumberTypes DEF IInv, Budget
<1>4. Generations'  BY NumberTypes, ReplyTypes DEF IInv, Generations
<1>5. CommandsCounted'  BY <1>u, NumberTypes DEF IInv, CommandsCounted
<1>6. FailureGoesOn'
  BY <1>u, NumberTypes, ReplyTypes DEF IInv, FailureGoesOn, FailToken, Generations
<1>7. GateKept'  BY FlagTypes DEF IInv, GateKept, Transmitting
<1>8. LinkFirst'  BY <1>u, NumberTypes DEF IInv, LinkFirst
<1>9. Completions'
  BY <1>u, NumberTypes, FlagTypes DEF IInv, Completions, Ended, OkToken, Transmitting
<1>10. ReleaseComes'
  BY <1>w, FlagTypes, NumberTypes DEF IInv, ReleaseComes, CanKey, PastStop4, Obeying
<1>. QED BY <1>1, <1>2, <1>3, <1>4, <1>5, <1>6, <1>7, <1>8, <1>9, <1>10 DEF IInv

LEMMA LinkOpensStep ==
  ASSUME IInv, LinkOpens
  PROVE  IInv'
<1>t. TypeOK  BY DEF IInv
<1>p. UNCHANGED pc  BY DEF LinkOpens
<1>w. UNCHANGED txTasks /\ \A x : UNCHANGED Waiting(txTasks, x)  BY <1>t DEF LinkOpens
<1>u. UNCHANGED UnderWay  BY <1>t, <1>p, <1>w DEF UnderWay, Count, LinkOpens
<1>s. UNCHANGED Submissions  BY <1>t, <1>p, <1>w, WaitingType DEF Submissions, Count
<1>S. SessionTypeOK'
  BY <1>t, PttAssumption DEF PttAssumption, TypeOK, SessionTypeOK, Phase, LinkOpens
<1>1. TypeOK'  BY <1>t, <1>p, <1>w, <1>S, Locals DEF TypeOK, LinkOpens
<1>. USE <1>t, <1>p
<1>2. StopPhases'  BY <1>w, NumberTypes DEF IInv, StopPhases, LinkOpens
<1>3. Budget'  BY <1>s, NumberTypes DEF IInv, Budget, LinkOpens
<1>4. Generations'  BY NumberTypes DEF IInv, Generations, LinkOpens
<1>5. CommandsCounted'  BY <1>u, NumberTypes DEF IInv, CommandsCounted, LinkOpens
<1>6. FailureGoesOn'
  BY <1>u, NumberTypes, FlagTypes DEF IInv, FailureGoesOn, FailToken, LinkOpens
<1>7. GateKept'  BY FlagTypes DEF IInv, GateKept, Transmitting, LinkOpens
<1>8. LinkFirst'  BY <1>u DEF IInv, LinkFirst, StopPhases, LinkOpens
<1>9. Completions'
  BY <1>u, NumberTypes, FlagTypes DEF IInv, Completions, Ended, OkToken, Transmitting,
     LinkOpens
<1>10. ReleaseComes'
  BY <1>w, FlagTypes DEF IInv, ReleaseComes, CanKey, PastStop4, LinkOpens
<1>. QED BY <1>1, <1>2, <1>3, <1>4, <1>5, <1>6, <1>7, <1>8, <1>9, <1>10 DEF IInv

LEMMA LinkDropsStep ==
  ASSUME IInv, LinkDrops
  PROVE  IInv'
<1>t. TypeOK  BY DEF IInv
<1>p. UNCHANGED pc  BY DEF LinkDrops
<1>w. UNCHANGED txTasks /\ \A x : UNCHANGED Waiting(txTasks, x)  BY <1>t DEF LinkDrops
<1>u. UNCHANGED UnderWay  BY <1>t, <1>p, <1>w DEF UnderWay, Count, LinkDrops
<1>s. UNCHANGED Submissions  BY <1>t, <1>p, <1>w, WaitingType DEF Submissions, Count
<1>S. SessionTypeOK'
  BY <1>t, PttAssumption DEF PttAssumption, TypeOK, SessionTypeOK, Phase, LinkDrops
<1>1. TypeOK'  BY <1>t, <1>p, <1>w, <1>S, Locals DEF TypeOK, LinkDrops
<1>. USE <1>t, <1>p
<1>2. StopPhases'  BY <1>w, NumberTypes DEF IInv, StopPhases, LinkDrops
<1>3. Budget'  BY <1>s, NumberTypes DEF IInv, Budget, LinkDrops
<1>4. Generations'  BY NumberTypes DEF IInv, Generations, LinkDrops
<1>5. CommandsCounted'  BY <1>u, NumberTypes DEF IInv, CommandsCounted, LinkDrops
<1>6. FailureGoesOn'
  BY <1>u, NumberTypes, FlagTypes DEF IInv, FailureGoesOn, FailToken, LinkDrops
<1>7. GateKept'  BY FlagTypes DEF IInv, GateKept, Transmitting, LinkDrops
<1>8. LinkFirst'  BY <1>u DEF IInv, LinkFirst, LinkDrops
<1>9. Completions'
  BY <1>u, NumberTypes, FlagTypes DEF IInv, Completions, Ended, OkToken, Transmitting,
     LinkDrops
<1>10. ReleaseComes'
  BY <1>w, FlagTypes DEF IInv, ReleaseComes, CanKey, PastStop4, Obeying, LinkDrops
<1>. QED BY <1>1, <1>2, <1>3, <1>4, <1>5, <1>6, <1>7, <1>8, <1>9, <1>10 DEF IInv

\* LinkFirst and Completions: audio moves, nothing begins.
LEMMA EngineProgressStep ==
  ASSUME IInv, EngineProgress
  PROVE  IInv'
<1>t. TypeOK  BY DEF IInv
<1>p. UNCHANGED pc
  BY DEF EngineProgress, Progress, Approach, SlotBegins, FrameEnds, NextFrame, SessionEnds
<1>w. UNCHANGED txTasks /\ \A x : UNCHANGED Waiting(txTasks, x)
  BY <1>t DEF EngineProgress, Progress, Approach, SlotBegins, FrameEnds, NextFrame,
     SessionEnds
<1>f. UNCHANGED <<ready, rigVars, lockVars, monVars, localVars, mainQueue, cmdVars,
                  countVars, crashed, saidVars, cut>>
  BY <1>t DEF EngineProgress, Progress, Approach, SlotBegins, FrameEnds, NextFrame,
     SessionEnds
<1>e. /\ phase' \in Phase /\ frames' \in 0 .. MaxFrames
      /\ phase = "idle" => phase' = "idle"
  BY <1>t, PttAssumption DEF EngineProgress, Progress, Approach, SlotBegins, FrameEnds,
     NextFrame, SessionEnds, PttAssumption, TypeOK, SessionTypeOK, Phase
<1>u. UNCHANGED UnderWay
  BY <1>t, <1>p, <1>w, <1>f, <1>e, WaitingType DEF UnderWay, Count
<1>s. UNCHANGED Submissions
  BY <1>t, <1>p, <1>w, <1>f, WaitingType DEF Submissions, Count
<1>S. SessionTypeOK'
  BY <1>t, <1>f, <1>e, PttAssumption DEF PttAssumption, TypeOK, SessionTypeOK, Phase
<1>1. TypeOK'  BY <1>t, <1>p, <1>w, <1>f, <1>e, <1>S DEF TypeOK
<1>. USE <1>t, <1>p, <1>f, <1>e
<1>2. StopPhases'  BY <1>w, NumberTypes DEF IInv, StopPhases
<1>3. Budget'  BY <1>s, NumberTypes DEF IInv, Budget
<1>4. Generations'  BY NumberTypes DEF IInv, Generations
<1>5. CommandsCounted'  BY <1>u, NumberTypes DEF IInv, CommandsCounted
<1>6. FailureGoesOn'  BY <1>u, NumberTypes, FlagTypes DEF IInv, FailureGoesOn, FailToken
<1>7. GateKept'  BY FlagTypes DEF IInv, GateKept, Transmitting
<1>8. LinkFirst'  BY <1>u DEF IInv, LinkFirst
<1>9. Completions'
  BY <1>u, NumberTypes, FlagTypes DEF IInv, Completions, Ended, OkToken, Transmitting
<1>10. ReleaseComes'  BY <1>w, FlagTypes DEF IInv, ReleaseComes, CanKey, PastStop4
<1>. QED BY <1>1, <1>2, <1>3, <1>4, <1>5, <1>6, <1>7, <1>8, <1>9, <1>10 DEF IInv

-----------------------------------------------------------------------------
(* The invariant.                                                          *)

LEMMA InitInv == Init => IInv
<1> SUFFICES ASSUME Init PROVE IInv
  OBVIOUS
<1>1. 0 \in Gens
  BY PttAssumption DEF PttAssumption, Gens
<1>2. \A x : Waiting(txTasks, x) = 0
  BY WaitingEmpty DEF Init
<1>3. Range(mainQueue) = {}
  <2>1. mainQueue = <<>> /\ DOMAIN <<>> = {}
    BY DEF Init
  <2>. QED BY <2>1 DEF Range
<1>4. pc[Main] = "idle" /\ pc[Js8Tx] = "idle"
  BY DEF Init
<1>5. UnderWay = 0 /\ Submissions = 0
  BY <1>2, <1>4 DEF UnderWay, Submissions, Count, Init
<1>6. SessionTypeOK
  BY PttAssumption DEF Init, SessionInit, SessionTypeOK, Phase, PttAssumption
<1>7. mon \in MonitorLocals /\ req \in RequestLocals /\ cmd \in Command /\ out \in Outcome
  BY <1>1 DEF Init, MonitorLocals, RequestLocals, Command, Outcome
<1>8. pc \in Control
  BY DEF Init, Control, MainLabels, TxLabels
<1>9. told \in [Gens -> Nat] /\ mainQueue \in Seq(Reply) /\ txTasks \in Seq(Task)
  BY DEF Init
<1>10. TypeOK
  <2>1. /\ failures \in 0 .. Retries + 1 /\ sends \in 0 .. MaxSends
        /\ heartbeats \in 0 .. MaxHeartbeats /\ stops \in 0 .. MaxStops
    BY PttAssumption DEF Init, PttAssumption
  <2>2. mode \in BOOLEAN /\ link \in {"none", "opening", "up", "lost"}
    BY PttAssumption DEF Init, PttAssumption
  <2>3. engine \in {"open", "closed", "null"} /\ monitorPosted \in Nat
    BY DEF Init
  <2>. QED BY <1>1, <1>6, <1>7, <1>8, <1>9, <2>1, <2>2, <2>3 DEF Init, TypeOK
<1>11. StopPhases
  BY <1>2, <1>4, PttAssumption DEF Init, StopPhases, PttAssumption
<1>12. Budget /\ Generations
  BY <1>3, <1>4, <1>5 DEF Init, Budget, Generations
<1>13. CommandsCounted
  BY <1>4, <1>5, PttAssumption DEF Init, CommandsCounted, PttAssumption
<1>14. FailureGoesOn
  BY <1>4, <1>5 DEF Init, FailureGoesOn
<1>15. GateKept /\ LinkFirst
  BY <1>4, <1>5 DEF Init, SessionInit, GateKept, LinkFirst, Transmitting
<1>16. Completions
  BY <1>4 DEF Init, Completions, Ended
<1>17. ReleaseComes
  BY <1>4, PttAssumption DEF Init, ReleaseComes, CanKey, PastStop4, PttAssumption
<1>. QED BY <1>10, <1>11, <1>12, <1>13, <1>14, <1>15, <1>16, <1>17 DEF IInv

LEMMA StutterKeepsInv ==
  ASSUME IInv, UNCHANGED vars
  PROVE  IInv'
<1>w. /\ UNCHANGED pc /\ UNCHANGED out /\ UNCHANGED UnderWay /\ UNCHANGED Submissions
      /\ \A x : UNCHANGED Waiting(txTasks, x)
  BY DEF vars, UnderWay, Submissions
<1>1. TypeOK'  BY <1>w DEF IInv, TypeOK, SessionTypeOK, vars
<1>2. StopPhases'  BY <1>w DEF IInv, StopPhases, vars
<1>3. Budget'  BY <1>w DEF IInv, Budget, vars
<1>4. Generations'  BY <1>w DEF IInv, Generations, vars
<1>5. CommandsCounted'  BY <1>w DEF IInv, CommandsCounted, vars
<1>6. FailureGoesOn'  BY <1>w DEF IInv, FailureGoesOn, FailToken, vars
<1>7. GateKept'  BY <1>w DEF IInv, GateKept, Transmitting, vars
<1>8. LinkFirst'  BY <1>w DEF IInv, LinkFirst, vars
<1>9. Completions'  BY <1>w DEF IInv, Completions, Ended, OkToken, Transmitting, vars
<1>10. ReleaseComes'  BY <1>w DEF IInv, ReleaseComes, CanKey, PastStop4, vars
<1>. QED BY <1>1, <1>2, <1>3, <1>4, <1>5, <1>6, <1>7, <1>8, <1>9, <1>10 DEF IInv

\* A message that is sent, on either thread.
LEMMA SendKeepsInv ==
  ASSUME IInv, NEW t \in {Main, Js8Tx}, SendStep(t)
  PROVE  IInv'
<1>1. CASE Crash
  BY <1>1, CrashStep
<1>2. CASE ~Crash /\ t = Main
  BY <1>2, PrepareEngineMainStep, TransmitMessageMainStep, StartTxMonitorMainStep
     DEF SendStep
<1>3. CASE ~Crash /\ t = Js8Tx
  BY <1>3, PrepareEngineJs8TxStep, TransmitMessageJs8TxStep, StartTxMonitorJs8TxStep
     DEF SendStep
<1>. QED BY <1>1, <1>2, <1>3

LEMMA NextKeepsInv ==
  ASSUME IInv, Next
  PROVE  IInv'
<1>1. CASE Monitor
  BY <1>1, MonitorWithoutEngineStep, MonitorAfterSessionStep, MonitorWithoutLinkStep,
     MonitorKeysStep, MonitorWatchesStep DEF Monitor
<1>2. CASE HandleReply
  BY <1>2, HandleReplyStep
<1>3. CASE MainStep
  <2>1. CASE ReportUnlinked \/ CheckPtt \/ HoldAudio \/ Edge \/ Repost
    BY <2>1, ReportUnlinkedStep, CheckPttStep, HoldAudioStep, EdgeStep, RepostStep
  <2>2. CASE CloseGate \/ RequestSection \/ Grant \/ PostCommand
    BY <2>2, CloseGateStep, RequestSectionStep, GrantStep, PostCommandStep
  <2>3. CASE FailSection \/ FailStops \/ FailReports
    BY <2>3, FailSectionStep, FailStopsStep, FailReportsStep
  <2>4. CASE SendStep(Main)
    BY <2>4, SendKeepsInv
  <2>5. CASE StopHandlers \/ StopSection \/ StopRig \/ StopNative \/ StopForgets
    BY <2>5, StopHandlersStep, StopSectionStep, StopRigStep, StopNativeStep,
       StopForgetsStep
  <2>. QED BY <1>3, <2>1, <2>2, <2>3, <2>4, <2>5 DEF MainStep
<1>4. CASE Js8TxStep
  <2>1. CASE SendStep(Js8Tx)
    BY <2>1, SendKeepsInv
  <2>2. CASE ApplyResult
    <3>1. CASE Crash
      BY <3>1, CrashStep
    <3>2. CASE ~Crash
      BY <2>2, <3>2, ApplyResultStep
    <3>. QED BY <3>1, <3>2
  <2>3. CASE HandleMessage \/ CommandBegins \/ RigAnswers \/ ResultSection \/ Teardown
    BY <2>3, HandleMessageStep, CommandBeginsStep, RigAnswersStep, ResultSectionStep,
       TeardownStep
  <2>. QED BY <1>4, <2>1, <2>2, <2>3 DEF Js8TxStep
<1>5. CASE UserSends \/ SendHeartbeat \/ Stop
  BY <1>5, UserSendsStep, SendHeartbeatStep, StopStep
<1>6. CASE LinkOpens \/ LinkDrops \/ EngineProgress
  BY <1>6, LinkOpensStep, LinkDropsStep, EngineProgressStep
<1>. QED BY <1>1, <1>2, <1>3, <1>4, <1>5, <1>6 DEF Next

LEMMA Invariance == Spec => []IInv
<1>1. IInv /\ [Next]_vars => IInv'
  BY NextKeepsInv, StutterKeepsInv
<1>. QED BY InitInv, <1>1, PTL DEF Spec

\* FailedReleases on top of the invariant: what can disturb it is a step that
\* changes pttFailed, asserted, pending or failures.
LEMMA FailedReleasesKept ==
  ASSUME IInv, FailedReleases, [Next]_vars
  PROVE  FailedReleases'
<1>t. /\ TypeOK /\ Generations /\ CommandsCounted /\ FailureGoesOn
  BY DEF IInv
<1>n. /\ failures \in Nat /\ Retries \in Nat /\ UnderWay \in Nat
      /\ pc \in Control
      /\ asserted \in BOOLEAN /\ req.on \in BOOLEAN /\ desired \in BOOLEAN
      /\ pending \in BOOLEAN /\ pttFailed \in BOOLEAN
  BY <1>t, NumberTypes, FlagTypes, ControlTypes
<1> DEFINE failVars == <<pttFailed, asserted, pending, failures>>
<1>0. UNCHANGED failVars => FailedReleases'
  BY DEF FailedReleases
<1>1. CASE Monitor
  BY <1>0, <1>1 DEF Monitor, MonitorRuns, MonitorWithoutEngine, MonitorAfterSession,
     MonitorDuringSession, MonitorWithoutLink, MonitorKeys, MonitorWatches
<1>2. CASE HandleReply \/ UserSends \/ SendHeartbeat \/ LinkOpens \/ LinkDrops
           \/ EngineProgress \/ UNCHANGED vars
  BY <1>0, <1>2 DEF HandleReply, UserSends, SendHeartbeat, LinkOpens, LinkDrops,
     EngineProgress, vars
<1>3. CASE ReportUnlinked \/ CheckPtt \/ HoldAudio \/ Edge \/ Repost \/ CloseGate \/ Grant
  BY <1>0, <1>3 DEF ReportUnlinked, CheckPtt, HoldAudio, Edge, Repost, CloseGate, Grant
<1>4. CASE PostCommand \/ FailStops \/ FailReports \/ StopHandlers \/ StopRig
           \/ StopNative \/ StopForgets
  BY <1>0, <1>4 DEF PostCommand, FailStops, FailReports, StopHandlers, StopRig,
     StopNative, StopForgets
<1>5. CASE RequestSection
  <2>1. CASE UNCHANGED lockVars
    BY <1>0, <2>1
  <2>2. CASE ~UNCHANGED lockVars
    <3>1. mon.gen = gen /\ (pttFailed => ~req.on) /\ UNCHANGED <<pttFailed, asserted>>
      BY <1>5, <2>2 DEF RequestSection
    <3>2. \/ pending /\ UNCHANGED pending
          \/ asserted = req.on
          \/ pending'
      BY <1>5, <2>2 DEF RequestSection, CanSchedule
    <3>3. CASE asserted = req.on
      BY <1>n, <3>1, <3>3 DEF FailedReleases
    <3>. QED BY <1>n, <3>1, <3>2, <3>3 DEF FailedReleases
  <2>. QED BY <2>1, <2>2
<1>6. CASE FailSection
  <2>1. CASE UNCHANGED <<lockVars, txTasks>>
    BY <1>0, <2>1
  <2>2. CASE pttFailed' = TRUE /\ FailReleases /\ UNCHANGED asserted
    BY <2>2 DEF FailReleases, FailedReleases
  <2>. QED BY <1>6, <2>1, <2>2 DEF FailSection
<1>7. CASE StopSection
  BY <1>7, <1>t DEF StopSection, FailureGoesOn, FailedReleases
<1>8. CASE Stop
  BY <1>8 DEF Stop, FailedReleases
<1>9. ASSUME NEW t \in {Main, Js8Tx}, SendStep(t) PROVE FailedReleases'
  <2>1. CASE StartTxMonitor(t)
    BY <2>1 DEF StartTxMonitor, FailedReleases
  <2>2. CASE PrepareEngine(t) \/ TransmitMessage(t)
    BY <1>0, <2>2 DEF PrepareEngine, TransmitMessage, Crash
  <2>. QED BY <1>9, <2>1, <2>2 DEF SendStep
<1>10. CASE HandleMessage \/ CommandBegins \/ RigAnswers \/ ApplyResult
  BY <1>0, <1>10 DEF HandleMessage, CommandBegins, RigAnswers, ApplyResult, Crash
<1>11. CASE Teardown
  BY <1>11 DEF Teardown, FailedReleases
<1>12. CASE ResultSection
  <2>1. pc[Js8Tx] = "result" /\ asserted' = AssertedNow /\ UNCHANGED pttFailed
    BY <1>12 DEF ResultSection
  <2>2. UnderWay = 1
    BY <1>n, <1>t, <2>1, WaitingType DEF UnderWay, Count, CommandsCounted
  <2>3. pttFailed => ~desired /\ ~shuttingDown
    BY <1>t, <2>2 DEF FailureGoesOn
  <2>4. CASE pending' = TRUE
    BY <2>4 DEF FailedReleases
  <2>5. CASE ~shuttingDown /\ failures' = failures + 1 /\ ~MayRetry
    BY <1>n, <2>5 DEF MayRetry, FailedReleases
  <2>6. CASE ~shuttingDown /\ ~TargetMissed
    <3>1. asserted' = desired
      BY <2>1, <2>6 DEF TargetMissed
    <3>. QED BY <1>n, <2>1, <2>3, <3>1 DEF FailedReleases
  <2>7. CASE shuttingDown
    BY <2>1, <2>3, <2>7 DEF FailedReleases
  <2>. QED BY <1>12, <2>4, <2>5, <2>6, <2>7 DEF ResultSection, Repeats
<1>. QED BY <1>1, <1>2, <1>3, <1>4, <1>5, <1>6, <1>7, <1>8, <1>9, <1>10, <1>11, <1>12
         DEF Next, MainStep, Js8TxStep

-----------------------------------------------------------------------------
(* What the service promises.                                              *)

\* Type correctness: every variable of PttControl, and the locals of the two
\* threads, keep to the values the code has for them.
THEOREM TypeCorrect == Spec => []TypeOK
<1>1. IInv => TypeOK
  BY DEF IInv
<1>. QED BY <1>1, Invariance, PTL

\* rigPttCommandPending (JS8EngineService.kt, requestRigPtt and
\* runRigPttCommand) is the truth: until the service is stopped one command is
\* under way exactly while it is set, and never two.
THEOREM OneCommandAtATime == Spec => []OneCommand
<1>1. ASSUME IInv PROVE OneCommand
  <2>1. TypeOK /\ CommandsCounted /\ StopPhases
    BY <1>1 DEF IInv
  <2>2. UnderWay \in Nat /\ stops \in Nat /\ pending \in BOOLEAN
    BY <2>1, NumberTypes, FlagTypes
  <2>. QED BY <2>1, <2>2 DEF OneCommand, CommandsCounted, StopPhases, Count
<1>. QED BY <1>1, Invariance, PTL

\* No audio goes out while PTT is not asserted: the ready gate of the engine is
\* open during a session of a radio that has to be keyed only if PTT was
\* asserted, or if runRigPttCommand is about to close it.
THEOREM NoAudioWithoutPtt == Spec => []GateHonest
<1>1. ASSUME IInv PROVE GateHonest
  BY <1>1 DEF IInv, GateKept, GateHonest
<1>. QED BY <1>1, Invariance, PTL

\* failTransmitForPtt does not leave the radio keyed: a release is under way
\* unless the radio has refused it as often as the service tries.
THEOREM FailureReleases == Spec => []FailedReleases
<1>1. Init => FailedReleases
  BY DEF Init, FailedReleases
<1>. QED BY <1>1, Invariance, FailedReleasesKept, PTL DEF Spec

\* FINISHED is said only when PTT has been released: whichever of the places that
\* say it (the monitor without a link, a request that finds PTT as wanted, the
\* reply of a command), the radio is not keyed or its link has gone.
THEOREM FinishedOnlyWhenReleased == Spec => FinishedIsReleased
<1> DEFINE Said == told' # told /\ lastReport' = "finished" /\ Linked => ~asserted
<1>1. ASSUME IInv, Next PROVE Said
  <2>0. told' = told => Said
    OBVIOUS
  <2>t. /\ TypeOK /\ StopPhases /\ Generations /\ CommandsCounted /\ LinkFirst
        /\ Completions
    BY <1>1 DEF IInv
  <2>n. /\ mode \in BOOLEAN /\ asserted \in BOOLEAN /\ req.on \in BOOLEAN
        /\ gen \in Nat /\ req.done \in Nat /\ stops \in Nat
    BY <2>t, FlagTypes, NumberTypes
  <2>1. CASE ReportUnlinked
    BY <2>1, <2>t DEF ReportUnlinked, LinkFirst, Linked
  <2>2. CASE Grant
    <3>1. pc[Main] = "grant" /\ asserted = req.on /\ stops = 0
      BY <2>2, <2>t DEF Grant, CommandsCounted, StopPhases, MonitorLabels
    <3>2. CASE req.done = 0
      BY <2>0, <2>2, <3>2 DEF Grant, Complete
    <3>3. CASE req.done # 0
      BY <2>n, <2>t, <3>1, <3>3 DEF Completions
    <3>. QED BY <3>2, <3>3
  <2>3. CASE HandleReply
    <3> DEFINE r == Head(mainQueue)
    <3>1. r \in Range(mainQueue) /\ Complete(r.done, r.ok) /\ pc[Main] = "idle"
      BY <2>3, <2>t, ControlTypes, RepliesTail DEF HandleReply
    <3>2. r.ok \in BOOLEAN
      BY <2>t, <3>1, ReplyTypes
    <3> HIDE DEF r
    <3>3. CASE ~(r.done # 0 /\ r.done = gen)
      BY <2>0, <3>1, <3>3 DEF Complete, saidVars
    <3>4. CASE r.done # 0 /\ r.done = gen /\ ~r.ok
      BY <3>1, <3>4 DEF Complete, Report
    <3>5. CASE r.done # 0 /\ r.done = gen /\ r.ok /\ Linked
      <4>1. OkToken /\ gen # 0
        BY <3>1, <3>5 DEF OkToken
      <4>2. stops = 0
        BY <2>n, <2>t, <3>1, <3>5 DEF StopPhases, Linked
      <4>. QED BY <4>1, <4>2, <2>t DEF Completions
    <3>. QED BY <3>2, <3>3, <3>4, <3>5
  <2>4. CASE FailReports
    BY <2>4 DEF FailReports, FailureSaid, Report
  <2>5. CASE Monitor
    BY <2>0, <2>5 DEF Monitor, MonitorRuns, MonitorWithoutEngine, MonitorAfterSession,
       MonitorDuringSession, MonitorWithoutLink, MonitorKeys, MonitorWatches
  <2>6. CASE CheckPtt \/ HoldAudio \/ Edge \/ Repost \/ CloseGate \/ RequestSection
             \/ PostCommand \/ FailSection \/ FailStops
    BY <2>0, <2>6 DEF CheckPtt, HoldAudio, Edge, Repost, CloseGate, RequestSection,
       PostCommand, FailSection, FailStops
  <2>7. ASSUME NEW t \in {Main, Js8Tx}, SendStep(t) PROVE Said
    BY <2>0, <2>7 DEF SendStep, PrepareEngine, TransmitMessage, StartTxMonitor, Crash
  <2>8. CASE StopHandlers \/ StopSection \/ StopRig \/ StopNative \/ StopForgets
    BY <2>0, <2>8 DEF StopHandlers, StopSection, StopRig, StopNative, StopForgets
  <2>9. CASE HandleMessage \/ CommandBegins \/ RigAnswers \/ ResultSection \/ ApplyResult
             \/ Teardown
    BY <2>0, <2>9 DEF HandleMessage, CommandBegins, RigAnswers, ResultSection, ApplyResult,
       Teardown, Crash
  <2>10. CASE UserSends \/ SendHeartbeat \/ Stop \/ LinkOpens \/ LinkDrops \/ EngineProgress
    BY <2>0, <2>10 DEF UserSends, SendHeartbeat, Stop, LinkOpens, LinkDrops, EngineProgress
  <2>. QED BY <1>1, <2>1, <2>2, <2>3, <2>4, <2>5, <2>6, <2>7, <2>8, <2>9, <2>10
           DEF Next, MainStep, Js8TxStep
<1>2. UNCHANGED vars => Said
  BY DEF vars
<1>3. IInv /\ [Next]_vars => [Said]_vars
  BY <1>1, <1>2
<1>. QED BY <1>3, Invariance, PTL DEF Spec, FinishedIsReleased

\* With a radio that obeys, on a link that stays, a stop releases PTT: when stopEngine
\* is through, however often it was called, and Js8Tx has nothing left to do, the radio
\* is not keyed unless a further stop removed the release of an earlier one.
THEOREM StopsReleasePtt ==
  ~RigMayFail /\ ~LinkMayDrop => (Spec => []StopReleasesPtt)
<1> SUFFICES ASSUME ~RigMayFail, ~LinkMayDrop
             PROVE  Spec => []StopReleasesPtt
  OBVIOUS
<1>1. ASSUME IInv PROVE StopReleasesPtt
  <2>1. TypeOK /\ ReleaseComes /\ Obeying
    BY <1>1 DEF IInv, Obeying
  <2> SUFFICES ASSUME stops > 0, pc[Main] = "idle", txTasks = <<>>
               PROVE  ~asserted \/ dropped
    BY DEF StopReleasesPtt
  <2>2. PastStop4
    BY <2>1, NumberTypes DEF PastStop4
  <2>3. Waiting(txTasks, "release") = 0
    BY WaitingEmpty
  <2>. QED BY <2>1, <2>2, <2>3 DEF ReleaseComes, CanKey
<1>. QED BY <1>1, Invariance, PTL
=============================================================================
