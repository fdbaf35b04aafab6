------------------------ MODULE EngineLifecycleProofs ------------------------
(* Theorems about the life of an engine, for any number of engines, changes  *)
(* of the device and restarts of the capture.                                *)
EXTENDS EngineLifecycle, FiniteSetTheorems, TLAPS

-----------------------------------------------------------------------------
(* The invariant.                                                            *)

Ending == {"stop", "close", "destroy", "decode", "joinDecode", "spectrum",
           "joinSpectrum", "handler", "output", "joinOutput", "scheduler", "notify", "delete"}

CaptureRecord == [engine : Engines, recording : BOOLEAN,
                  pc : {"loop", "call", "in", "thrown", "done"}]
NativeRecord ==
  [life : {"none", "live", "reset", "freed"},
   handle : BOOLEAN, handler : BOOLEAN, running : BOOLEAN,
   scheduler : {"none", "check", "decided", "wait", "done"}]
WorkerRecord == [stop : BOOLEAN, queued : BOOLEAN,
                 pc : {"none", "check", "wait", "emit", "done"}]
MainRecord == [pc : {"idle", "capture", "join"} \cup Ending,
               then : {"idle", "capture", "stop"}]
TxRecord == [pc : {"idle", "read", "in", "thrown"}, engine : 0..MaxEngines]

Types ==
  /\ main \in MainRecord
  /\ made \in 0..MaxEngines /\ engine \in 0..made
  /\ native \in [Engines -> NativeRecord]
  /\ worker \in [Engines -> [Workers -> WorkerRecord]]
  /\ tx \in TxRecord /\ (tx.pc # "idle" => tx.engine \in Engines)

\* There is one capture thread at most.  It belongs to the engine of the field, and
\* none is left when that engine ends or when a capture is still to be started.
Captured ==
  /\ captures \in Seq(CaptureRecord) /\ helper = Len(captures) /\ helper <= 1
  /\ helper # 0 => /\ captures[1].engine = engine /\ captures[1].pc # "thrown"
                   /\ main.pc \in {"idle", "join"}
  /\ engine = 0 => main.pc = "idle"
  /\ main.pc = "join" => main.then \in {"capture", "stop"}

\* A post that waits for SCO stands for the capture that is not there.
Posted ==
  /\ posts \subseteq [kind : {"wait", "silence"}, engine : Engines]
  /\ \A p \in posts : p.kind = "wait" =>
       helper = 0 /\ p.engine = engine /\ main.pc = "idle"

\* The stages of the main looper in which an engine takes calls, in which it is whole,
\* and in which a worker of it may run.
Open  == {"idle", "capture", "join", "stop", "close"}
Whole == Open \cup {"destroy", "decode", "joinDecode", "spectrum", "joinSpectrum"}
Working(w) == IF w = "decode" THEN Whole \ {"spectrum", "joinSpectrum"} ELSE Whole

\* What an engine has at a stage of the main looper, n its part of native and t its
\* workers; here says that it is the one in the field.
Staged(n, t, here, pc) ==
  /\ n.handle <=> here /\ pc \in Open
  /\ here => n.life \in {"live", "reset"}
  /\ here /\ pc \in Whole => n.life = "live" /\ n.handler
  /\ n.scheduler \notin {"none", "done"} => here
  /\ \A w \in Workers : t[w].pc \notin {"none", "done"} => here /\ pc \in Working(w)

AllStaged == \A e \in Engines : Staged(native[e], worker[e], e = engine, main.pc)

Called == tx.pc = "in" => tx.engine = engine /\ main.pc \in Open

LifeInv == Types /\ Captured /\ Posted /\ AllStaged /\ Called

OutputRecord == [flag : BOOLEAN, on : BOOLEAN, pump : {"none", "check", "fill", "exited"},
                 holder : Callers \cup {"free"}, quiet : BOOLEAN, aborted : BOOLEAN]

\* Who is in a call: Js8Tx only within its native call, the main looper between two
\* messages or where it stops the engine.  Who joins the output keeps tx_mutex_.
Calling ==
  /\ call \in [Callers -> {"out", "in", "start", "started", "refused", "stop", "join"}]
  /\ call["tx"] # "out" => tx.pc = "in"
  /\ call["main"] # "out" =>
       /\ engine # 0
       /\ \/ main.pc = "idle"
          \/ main.pc \in {"close", "decode"} /\ call["main"] \in {"stop", "join"}
  /\ \A c \in Callers : output.holder = c <=> call[c] = "join"

Begun == \E c \in Callers : call[c] = "started"

\* The output has a thread while it runs and until it is joined.  It runs without the
\* flag only before its start is recorded or after a refused start cleared the flag.
Running(o, joined, begun) ==
  /\ o.holder # "free" => ~o.on /\ o.pump # "none"
  /\ o.holder = "free" /\ ~joined => (o.on <=> o.pump # "none")
  /\ o.holder = "free" /\ o.flag => o.on
  /\ begun => o.on /\ ~o.flag
  /\ o.on /\ ~o.flag => o.quiet \/ begun
  /\ joined => ~o.on

Held ==
  /\ output \in OutputRecord
  /\ ~output.aborted =>
       /\ Running(output, main.pc = "joinOutput", Begun)
       /\ \A c, d \in Callers : call[c] = "started" /\ call[d] = "started" => c = d

\* What is left of the output after the second stop_transmit, and after its destructor.
Halting == {"decode", "joinDecode", "spectrum", "joinSpectrum", "handler", "output",
            "joinOutput"}
Freeing == {"scheduler", "notify", "delete"}
Halted == main.pc \in Halting /\ call["main"] = "out"
Gone == engine = 0 \/ main.pc \in Freeing
Late ==
  /\ Halted => ~output.flag /\ (output.pump # "none" => output.quiet)
  /\ Gone => ~output.flag /\ ~output.on /\ output.pump = "none"

OutputInv == Calling /\ Held /\ Late

IInv == LifeInv /\ OutputInv

\* Who is to end knows it and is awake: a worker is awake while something is queued or
\* once it was told to stop, which it is where it is joined and not before; the capture
\* that is joined records no more, the scheduler that is joined does not run.
Due(w) ==
  Open \cup {"destroy", "decode"}
       \cup IF w = "decode" THEN {} ELSE {"joinDecode", "spectrum"}
Joins(w) == IF w = "decode" THEN "joinDecode" ELSE "joinSpectrum"

Alert(t, here, pc) ==
  \A w \in Workers :
    /\ t[w].queued => t[w].pc \in {"check", "emit"}
    /\ t[w].stop => ~t[w].queued /\ t[w].pc # "wait"
    /\ here => t[w].pc # "none"
    /\ here /\ pc \in Due(w) => ~t[w].stop /\ t[w].pc # "done"
    /\ here /\ pc = Joins(w) => t[w].stop

AllAlert == \A e \in Engines : Alert(worker[e], e = engine, main.pc)
Told     == main.pc = "join" /\ helper # 0 => ~captures[helper].recording
Shut     == main.pc \in {"notify", "delete"} => ~native[engine].running

StopInv == AllAlert /\ Told /\ Shut

LEMMA Constants == MaxEngines \in Nat \ {0} /\ MaxChanges \in Nat
  BY EngineLifecycleAssumption DEF EngineLifecycleAssumption

\* Nothing has been made.
LEMMA InitSound == Init => IInv
<1>. SUFFICES ASSUME Init PROVE IInv
  OBVIOUS
<1>. USE Constants DEF Init
<1>1. Types
  BY DEF Types, MainRecord, NativeRecord, WorkerRecord, TxRecord, Engines, Workers
<1>2. Captured /\ Posted /\ Called  BY DEF Captured, Posted, Called
<1>3. AllStaged  BY DEF AllStaged, Staged, Engines, Workers
<1>4. Calling  BY DEF Calling, Callers, NoOutput
<1>5. ~Begun  BY DEF Begun, Callers
<1>6. Held  BY <1>5 DEF Held, OutputRecord, NoOutput, Callers, Running
<1>7. Late  BY DEF Late, Halted, Gone, NoOutput
<1>. QED BY <1>1, <1>2, <1>3, <1>4, <1>6, <1>7 DEF IInv, LifeInv, OutputInv

-----------------------------------------------------------------------------
(* Lemmas.                                                                   *)

\* What is not in the field has nothing that depends on the stage.
LEMMA Elsewhere ==
  ASSUME NEW n, NEW t, NEW from, NEW to, Staged(n, t, FALSE, from)
  PROVE  Staged(n, t, FALSE, to)
  BY DEF Staged

\* While an engine ends there is no capture, no post that waits and an engine.
LEMMA WhileEnding ==
  ASSUME LifeInv, main.pc \in Ending \cup {"capture"}
  PROVE  /\ helper = 0 /\ Len(captures) = 0 /\ engine \in Engines
         /\ \A p \in posts : p.kind # "wait"
<1>1. helper = 0 /\ engine # 0  BY DEF LifeInv, Captured, Ending
<1>2. Len(captures) = 0  BY <1>1 DEF LifeInv, Captured
<1>3. engine \in Engines  BY <1>1, Constants DEF LifeInv, Types, Engines
<1>4. \A p \in posts : p.kind # "wait"  BY DEF LifeInv, Posted, Ending
<1>. QED BY <1>1, <1>2, <1>3, <1>4

\* A step of the end of an engine, given by what it leaves of the engine.
LEMMA EndMoves ==
  ASSUME LifeInv, NEW from \in Ending, NEW to \in Ending, Goes(from, to),
         UNCHANGED KeptByMain, engine' = engine,
         native' \in [Engines -> NativeRecord],
         worker' \in [Engines -> [Workers -> WorkerRecord]],
         \A e \in Engines \ {engine} : native'[e] = native[e] /\ worker'[e] = worker[e],
         Staged(native'[engine], worker'[engine], TRUE, to),
         tx.pc = "in" /\ tx.engine = engine /\ from \in Open => to \in Open
  PROVE  LifeInv'
<1>1. main.pc = from /\ main' = [main EXCEPT !.pc = to]  BY DEF Goes
<1>2. /\ made' = made /\ captures' = captures /\ helper' = helper /\ tx' = tx
      /\ posts' = posts
  BY DEF KeptByMain
<1>3. /\ helper = 0 /\ Len(captures) = 0 /\ engine \in Engines
      /\ \A p \in posts : p.kind # "wait"
  BY <1>1, WhileEnding
<1>4. main' \in MainRecord /\ main'.pc = to /\ main'.pc \notin {"idle", "join", "capture"}
  BY <1>1 DEF LifeInv, Types, MainRecord, Ending
<1>5. Types'  BY <1>2, <1>4 DEF LifeInv, Types
<1>6. Captured'
  <2>1. engine # 0  BY <1>3, Constants DEF Engines
  <2>. QED BY <2>1, <1>2, <1>3, <1>4 DEF LifeInv, Captured
<1>7. Posted'  BY <1>2, <1>3 DEF LifeInv, Posted
<1>8. AllStaged'
  <2>1. ASSUME NEW e \in Engines
        PROVE  Staged(native'[e], worker'[e], e = engine, to)
    <3>1. CASE e = engine  BY <3>1
    <3>2. CASE e # engine
      <4>1. Staged(native[e], worker[e], FALSE, main.pc)
        BY <3>2 DEF LifeInv, AllStaged, Staged
      <4>2. Staged(native[e], worker[e], FALSE, to)  BY <4>1, Elsewhere
      <4>. QED BY <3>2, <4>2 DEF Staged
    <3>. QED BY <3>1, <3>2
  <2>. QED BY <2>1, <1>4 DEF AllStaged
<1>9. Called'  BY <1>1, <1>2, <1>4 DEF LifeInv, Called
<1>. QED BY <1>5, <1>6, <1>7, <1>8, <1>9 DEF LifeInv

\* The engine in the field.
LEMMA InField ==
  ASSUME LifeInv, engine \in Engines
  PROVE  /\ native[engine] \in NativeRecord /\ worker[engine] \in [Workers -> WorkerRecord]
         /\ Staged(native[engine], worker[engine], TRUE, main.pc)
<1>1. Staged(native[engine], worker[engine], TRUE, main.pc)
  BY DEF LifeInv, AllStaged, Staged
<1>. QED BY <1>1 DEF LifeInv, Types

-----------------------------------------------------------------------------
(* The end of an engine.                                                     *)
LEMMA StopCallSound == ASSUME LifeInv, StopCall PROVE LifeInv'
<1>1. main.pc = "stop" /\ engine \in Engines  BY WhileEnding DEF StopCall, Goes, Ending
<1>2. Staged(native[engine], worker[engine], TRUE, "stop")  BY <1>1, InField
<1>3. Staged(native[engine], worker[engine], TRUE, "close")
  BY <1>2 DEF Staged, Open, Whole, Working
<1>4. native' = native /\ worker' = worker /\ engine' = engine  BY DEF StopCall
<1>5. /\ native' \in [Engines -> NativeRecord]
      /\ worker' \in [Engines -> [Workers -> WorkerRecord]]
  BY <1>4 DEF LifeInv, Types
<1>6. "close" \in Open  BY DEF Open
<1>. QED BY <1>3, <1>4, <1>5, <1>6, EndMoves DEF StopCall, Ending

\* No call is under way when the handle is withdrawn.
LEMMA CloseSound == ASSUME LifeInv, Close PROVE LifeInv'
<1>. DEFINE n == [native[engine] EXCEPT !.handle = FALSE]
<1>1. main.pc = "close" /\ engine \in Engines  BY WhileEnding DEF Close, Goes, Ending
<1>2. native[engine] \in NativeRecord /\ Staged(native[engine], worker[engine], TRUE, "close")
  BY <1>1, InField
<1>3. n \in NativeRecord /\ Staged(n, worker[engine], TRUE, "destroy")
  BY <1>2 DEF NativeRecord, Staged, Open, Whole, Working
<1>4. native' = [native EXCEPT ![engine] = n] /\ worker' = worker
  BY <1>1 DEF Close
<1>5. /\ native' \in [Engines -> NativeRecord] /\ native'[engine] = n
      /\ \A e \in Engines \ {engine} : native'[e] = native[e]
  <2>. HIDE DEF n
  <2>. QED BY <1>1, <1>3, <1>4 DEF LifeInv, Types
<1>6. worker' \in [Engines -> [Workers -> WorkerRecord]]  BY <1>4 DEF LifeInv, Types
<1>7. ~(tx.pc = "in" /\ tx.engine = engine)  BY DEF Close, InCall
<1>. HIDE DEF n
<1>. QED BY <1>3, <1>4, <1>5, <1>6, <1>7, EndMoves DEF Close, Ending

LEMMA DestroySound == ASSUME LifeInv, Destroy PROVE LifeInv'
<1>1. main.pc = "destroy" /\ engine \in Engines  BY WhileEnding DEF Destroy, Goes, Ending
<1>2. Staged(native[engine], worker[engine], TRUE, "destroy")  BY <1>1, InField
<1>3. Staged(native[engine], worker[engine], TRUE, "decode")
  BY <1>2 DEF Staged, Open, Whole, Working
<1>4. native' = native /\ worker' = worker /\ engine' = engine  BY DEF Destroy
<1>5. /\ native' \in [Engines -> NativeRecord]
      /\ worker' \in [Engines -> [Workers -> WorkerRecord]]
  BY <1>4 DEF LifeInv, Types
<1>6. "destroy" \notin Open  BY DEF Open
<1>. QED BY <1>3, <1>4, <1>5, <1>6, EndMoves DEF Destroy, Ending

\* A worker is told to stop; it is still there.
LEMMA StopWorkerSound ==
  ASSUME LifeInv, NEW w \in Workers, NEW join,
         \/ w = "decode" /\ join = "joinDecode"
         \/ w = "spectrum" /\ join = "joinSpectrum",
         StopWorker(w, join)
  PROVE  LifeInv'
<1>. DEFINE t == [worker[engine] EXCEPT ![w] = Stopped(@)]
<1>1. main.pc = w /\ w \in Ending /\ join \in Ending  BY DEF StopWorker, Goes, Ending
<1>2. engine \in Engines  BY <1>1, WhileEnding
<1>3. /\ worker[engine] \in [Workers -> WorkerRecord]
      /\ Staged(native[engine], worker[engine], TRUE, w)
  BY <1>1, <1>2, InField
<1>4. /\ Stopped(worker[engine][w]) \in WorkerRecord
      /\ Stopped(worker[engine][w]).pc \in {"none", "done"} <=> worker[engine][w].pc \in {"none", "done"}
  BY <1>3 DEF WorkerRecord, Stopped, Notified
<1>5. /\ t \in [Workers -> WorkerRecord]
      /\ \A v \in Workers : t[v].pc \in {"none", "done"} <=> worker[engine][v].pc \in {"none", "done"}
  BY <1>3, <1>4
<1>. HIDE DEF t
<1>6. Staged(native[engine], t, TRUE, join)
  <2>1. \A v \in Workers : w \in Working(v) => join \in Working(v)
    BY DEF Workers, Working, Open, Whole
  <2>. QED BY <1>3, <1>5, <2>1 DEF Staged, Open, Whole
<1>7. native' = native /\ worker' = [worker EXCEPT ![engine] = t]
  BY <1>2 DEF StopWorker, t
<1>8. /\ native' \in [Engines -> NativeRecord]
      /\ worker' \in [Engines -> [Workers -> WorkerRecord]] /\ worker'[engine] = t
      /\ \A e \in Engines \ {engine} : worker'[e] = worker[e]
  BY <1>2, <1>5, <1>7 DEF LifeInv, Types
<1>9. w \notin Open  BY DEF Open
<1>. QED BY <1>1, <1>6, <1>7, <1>8, <1>9, EndMoves DEF StopWorker

\* It has been joined and ends for good.
LEMMA JoinWorkerSound ==
  ASSUME LifeInv, NEW w \in Workers, NEW join, NEW next,
         \/ w = "decode" /\ join = "joinDecode" /\ next = "spectrum"
         \/ w = "spectrum" /\ join = "joinSpectrum" /\ next = "handler",
         JoinWorker(w, join, next)
  PROVE  LifeInv'
<1>. DEFINE n == [native[engine] EXCEPT !.life = IF w = "spectrum" THEN "reset" ELSE @]
<1>1. main.pc = join /\ join \in Ending /\ next \in Ending  BY DEF JoinWorker, Goes, Ending
<1>2. engine \in Engines  BY <1>1, WhileEnding
<1>3. native[engine] \in NativeRecord /\ Staged(native[engine], worker[engine], TRUE, join)
  BY <1>1, <1>2, InField
<1>4. worker[engine][w].pc = "done"  BY DEF JoinWorker
<1>5. n \in NativeRecord /\ Staged(n, worker[engine], TRUE, next)
  <2>1. CASE w = "decode"
    BY <2>1, <1>3, <1>4 DEF NativeRecord, Staged, Open, Whole, Working, Workers
  <2>2. CASE w = "spectrum"
    BY <2>2, <1>3, <1>4 DEF NativeRecord, Staged, Open, Whole, Working, Workers
  <2>. QED BY <2>1, <2>2 DEF Workers
<1>6. native' = [native EXCEPT ![engine] = n] /\ worker' = worker
  BY <1>2 DEF JoinWorker
<1>7. /\ native' \in [Engines -> NativeRecord] /\ native'[engine] = n
      /\ \A e \in Engines \ {engine} : native'[e] = native[e]
      /\ worker' \in [Engines -> [Workers -> WorkerRecord]]
  <2>. HIDE DEF n
  <2>. QED BY <1>2, <1>5, <1>6 DEF LifeInv, Types
<1>8. join \notin Open  BY DEF Open
<1>. HIDE DEF n
<1>. QED BY <1>1, <1>5, <1>6, <1>7, <1>8, EndMoves DEF JoinWorker

LEMMA DeleteHandlerSound == ASSUME LifeInv, DeleteHandler PROVE LifeInv'
<1>. DEFINE n == [native[engine] EXCEPT !.handler = FALSE]
<1>1. main.pc = "handler" /\ engine \in Engines  BY WhileEnding DEF DeleteHandler, Goes, Ending
<1>2. native[engine] \in NativeRecord /\ Staged(native[engine], worker[engine], TRUE, "handler")
  BY <1>1, InField
<1>3. n \in NativeRecord /\ Staged(n, worker[engine], TRUE, "output")
  BY <1>2 DEF NativeRecord, Staged, Open, Whole, Working
<1>4. native' = [native EXCEPT ![engine] = n] /\ worker' = worker
  BY <1>1 DEF DeleteHandler
<1>5. /\ native' \in [Engines -> NativeRecord] /\ native'[engine] = n
      /\ \A e \in Engines \ {engine} : native'[e] = native[e]
  <2>. HIDE DEF n
  <2>. QED BY <1>1, <1>3, <1>4 DEF LifeInv, Types
<1>6. worker' \in [Engines -> [Workers -> WorkerRecord]]  BY <1>4 DEF LifeInv, Types
<1>7. "handler" \notin Open  BY DEF Open
<1>. HIDE DEF n
<1>. QED BY <1>3, <1>4, <1>5, <1>6, <1>7, EndMoves DEF DeleteHandler, Ending

LEMMA StopPumpSound == ASSUME LifeInv, StopPump PROVE LifeInv'
<1>1. main.pc = "output" /\ engine \in Engines  BY WhileEnding DEF StopPump, Goes, Ending
<1>2. Staged(native[engine], worker[engine], TRUE, "output")  BY <1>1, InField
<1>3. Staged(native[engine], worker[engine], TRUE, "joinOutput")
  BY <1>2 DEF Staged, Open, Whole, Working
<1>4. native' = native /\ worker' = worker /\ engine' = engine  BY DEF StopPump
<1>5. /\ native' \in [Engines -> NativeRecord]
      /\ worker' \in [Engines -> [Workers -> WorkerRecord]]
  BY <1>4 DEF LifeInv, Types
<1>6. "output" \notin Open  BY DEF Open
<1>. QED BY <1>3, <1>4, <1>5, <1>6, EndMoves DEF StopPump, Ending

LEMMA JoinPumpSound == ASSUME LifeInv, JoinPump PROVE LifeInv'
<1>1. main.pc = "joinOutput" /\ engine \in Engines  BY WhileEnding DEF JoinPump, Goes, Ending
<1>2. Staged(native[engine], worker[engine], TRUE, "joinOutput")  BY <1>1, InField
<1>3. Staged(native[engine], worker[engine], TRUE, "scheduler")
  BY <1>2 DEF Staged, Open, Whole, Working
<1>4. native' = native /\ worker' = worker /\ engine' = engine  BY DEF JoinPump
<1>5. /\ native' \in [Engines -> NativeRecord]
      /\ worker' \in [Engines -> [Workers -> WorkerRecord]]
  BY <1>4 DEF LifeInv, Types
<1>6. "joinOutput" \notin Open  BY DEF Open
<1>. QED BY <1>3, <1>4, <1>5, <1>6, EndMoves DEF JoinPump, Ending

LEMMA StopSchedulerSound == ASSUME LifeInv, StopScheduler PROVE LifeInv'
<1>. DEFINE n == [native[engine] EXCEPT !.running = FALSE]
<1>1. main.pc = "scheduler" /\ engine \in Engines  BY WhileEnding DEF StopScheduler, Goes, Ending
<1>2. native[engine] \in NativeRecord /\ Staged(native[engine], worker[engine], TRUE, "scheduler")
  BY <1>1, InField
<1>3. n \in NativeRecord /\ Staged(n, worker[engine], TRUE, "notify")
  BY <1>2 DEF NativeRecord, Staged, Open, Whole, Working
<1>4. native' = [native EXCEPT ![engine] = n] /\ worker' = worker
  BY <1>1 DEF StopScheduler
<1>5. /\ native' \in [Engines -> NativeRecord] /\ native'[engine] = n
      /\ \A e \in Engines \ {engine} : native'[e] = native[e]
  <2>. HIDE DEF n
  <2>. QED BY <1>1, <1>3, <1>4 DEF LifeInv, Types
<1>6. worker' \in [Engines -> [Workers -> WorkerRecord]]  BY <1>4 DEF LifeInv, Types
<1>7. "scheduler" \notin Open  BY DEF Open
<1>. HIDE DEF n
<1>. QED BY <1>3, <1>4, <1>5, <1>6, <1>7, EndMoves DEF StopScheduler, Ending

LEMMA NotifySchedulerSound == ASSUME LifeInv, NotifyScheduler PROVE LifeInv'
<1>. DEFINE n == [native[engine] EXCEPT !.scheduler = IF @ = "wait" THEN "check" ELSE @]
<1>1. main.pc = "notify" /\ engine \in Engines  BY WhileEnding DEF NotifyScheduler, Goes, Ending
<1>2. native[engine] \in NativeRecord /\ Staged(native[engine], worker[engine], TRUE, "notify")
  BY <1>1, InField
<1>3. n \in NativeRecord /\ Staged(n, worker[engine], TRUE, "delete")
  BY <1>2 DEF NativeRecord, Staged, Open, Whole, Working
<1>4. native' = [native EXCEPT ![engine] = n] /\ worker' = worker
  BY <1>1 DEF NotifyScheduler
<1>5. /\ native' \in [Engines -> NativeRecord] /\ native'[engine] = n
      /\ \A e \in Engines \ {engine} : native'[e] = native[e]
  <2>. HIDE DEF n
  <2>. QED BY <1>1, <1>3, <1>4 DEF LifeInv, Types
<1>6. worker' \in [Engines -> [Workers -> WorkerRecord]]  BY <1>4 DEF LifeInv, Types
<1>7. "notify" \notin Open  BY DEF Open
<1>. HIDE DEF n
<1>. QED BY <1>3, <1>4, <1>5, <1>6, <1>7, EndMoves DEF NotifyScheduler, Ending

\* The engine leaves the field with nothing of it running.
LEMMA DeleteSound == ASSUME LifeInv, Delete PROVE LifeInv'
<1>. DEFINE n == [native[engine] EXCEPT !.life = "freed"]
<1>1. main.pc = "delete" /\ main' = [main EXCEPT !.pc = "idle"] /\ engine' = 0
  BY DEF Delete, Goes
<1>2. /\ helper = 0 /\ Len(captures) = 0 /\ engine \in Engines
      /\ \A p \in posts : p.kind # "wait"
  BY <1>1, WhileEnding DEF Ending
<1>3. native[engine] \in NativeRecord /\ Staged(native[engine], worker[engine], TRUE, "delete")
  BY <1>1, <1>2, InField
<1>4. n \in NativeRecord /\ Staged(n, worker[engine], FALSE, "idle")
  <2>1. native[engine].scheduler = "done"  BY DEF Delete
  <2>. QED BY <1>3, <2>1 DEF NativeRecord, Staged, Open, Whole, Working
<1>5. /\ native' = [native EXCEPT ![engine] = n] /\ worker' = worker
      /\ made' = made /\ captures' = captures /\ helper' = helper /\ tx' = tx /\ posts' = posts
  BY <1>2 DEF Delete, KeptByMain
<1>6. /\ native' \in [Engines -> NativeRecord] /\ native'[engine] = n
      /\ \A e \in Engines \ {engine} : native'[e] = native[e]
  <2>. HIDE DEF n
  <2>. QED BY <1>2, <1>4, <1>5 DEF LifeInv, Types
<1>. HIDE DEF n
<1>7. main' \in MainRecord /\ main'.pc = "idle"  BY <1>1 DEF LifeInv, Types, MainRecord
<1>8. Types'  BY <1>1, <1>5, <1>6, <1>7, Constants DEF LifeInv, Types
<1>9. Captured'  BY <1>1, <1>2, <1>5, <1>7 DEF LifeInv, Captured
<1>10. Posted'  BY <1>2, <1>5 DEF LifeInv, Posted
<1>11. AllStaged'
  <2>1. ASSUME NEW e \in Engines
        PROVE  Staged(native'[e], worker'[e], FALSE, "idle")
    <3>1. CASE e = engine  BY <3>1, <1>4, <1>5, <1>6
    <3>2. CASE e # engine
      <4>1. Staged(native[e], worker[e], FALSE, main.pc)
        BY <3>2 DEF LifeInv, AllStaged, Staged
      <4>. QED BY <3>2, <4>1, <1>5, <1>6, Elsewhere
    <3>. QED BY <3>1, <3>2
  <2>2. \A e \in Engines : e # 0  BY Constants DEF Engines
  <2>. QED BY <2>1, <2>2, <1>1, <1>7 DEF AllStaged, Staged
<1>12. Called'  BY <1>1, <1>5 DEF LifeInv, Called, Open
<1>. QED BY <1>8, <1>9, <1>10, <1>11, <1>12 DEF LifeInv

-----------------------------------------------------------------------------
(* Captures come and go.                                                     *)

\* The posts that remain when every token is advanced: none.
LEMMA NoOthers ==
  ASSUME Posted
  PROVE  Others({"wait", "silence"}) = {}
  BY DEF Posted, Others

\* The capture told to stop is the same in all that matters here.
LEMMA StopCaptureSound ==
  ASSUME LifeInv, StopCapture
  PROVE  /\ captures' \in Seq(CaptureRecord) /\ Len(captures') = Len(captures)
         /\ helper # 0 => /\ captures'[1].engine = captures[1].engine
                          /\ captures'[1].pc = captures[1].pc
<1>1. captures \in Seq(CaptureRecord) /\ helper = Len(captures) /\ helper <= 1
  BY DEF LifeInv, Captured
<1>2. captures' = [i \in 1..Len(captures) |->
        IF i = helper THEN [captures[i] EXCEPT !.recording = FALSE] ELSE captures[i]]
  BY <1>1 DEF StopCapture
<1>3. \A i \in 1..Len(captures) :
        /\ captures[i] \in CaptureRecord
        /\ [captures[i] EXCEPT !.recording = FALSE] \in CaptureRecord
        /\ [captures[i] EXCEPT !.recording = FALSE].engine = captures[i].engine
        /\ [captures[i] EXCEPT !.recording = FALSE].pc = captures[i].pc
  <2>1. \A c \in CaptureRecord :
          LET d == [c EXCEPT !.recording = FALSE]
          IN  d \in CaptureRecord /\ d.engine = c.engine /\ d.pc = c.pc
    BY DEF CaptureRecord
  <2>2. \A i \in 1..Len(captures) : captures[i] \in CaptureRecord  BY <1>1
  <2>. QED BY <2>1, <2>2
<1>4. \A i \in 1..Len(captures) :
        /\ captures'[i] \in CaptureRecord
        /\ captures'[i].engine = captures[i].engine /\ captures'[i].pc = captures[i].pc
  BY <1>2, <1>3
<1>5. Len(captures) \in Nat  BY <1>1
<1>6. captures' \in Seq(CaptureRecord) /\ Len(captures') = Len(captures)
  BY <1>2, <1>4, <1>5
<1>. QED BY <1>1, <1>4, <1>5, <1>6

\* A capture that starts is the only one; nothing waits for it any longer.
LEMMA StartCaptureSound ==
  ASSUME LifeInv, helper = 0, engine \in Engines, StartCapture(engine)
  PROVE  /\ captures' \in Seq(CaptureRecord) /\ helper' = Len(captures') /\ helper' <= 1
         /\ helper' # 0 => captures'[1].engine = engine /\ captures'[1].pc = "loop"
         /\ posts' \subseteq [kind : {"wait", "silence"}, engine : Engines]
         /\ \A p \in posts' : p.kind # "wait"
<1>1. captures \in Seq(CaptureRecord) /\ Len(captures) = 0  BY DEF LifeInv, Captured
<1>2. \A p \in posts \ {Post("wait", engine)} :
        p \in [kind : {"wait", "silence"}, engine : Engines] /\ p.kind # "wait"
  BY DEF LifeInv, Posted, Post
<1>3. Post("silence", engine) \in [kind : {"wait", "silence"}, engine : Engines]
      /\ Post("silence", engine).kind # "wait"
  BY DEF Post
<1>4. /\ posts' \subseteq [kind : {"wait", "silence"}, engine : Engines]
      /\ \A p \in posts' : p.kind # "wait"
  BY <1>2, <1>3 DEF StartCapture
<1>5. CASE helper' = 0 /\ UNCHANGED captures  BY <1>1, <1>4, <1>5
<1>6. CASE /\ captures' = Append(captures, [engine |-> engine, recording |-> TRUE, pc |-> "loop"])
           /\ helper' = Len(captures) + 1
  <2>. DEFINE made1 == [engine |-> engine, recording |-> TRUE, pc |-> "loop"]
  <2>1. made1 \in CaptureRecord /\ made1.engine = engine /\ made1.pc = "loop"
    BY DEF CaptureRecord
  <2>. HIDE DEF made1
  <2>2. captures' = Append(captures, made1)  BY <1>6 DEF made1
  <2>3. captures' \in Seq(CaptureRecord) /\ Len(captures') = 1 /\ captures'[1] = made1
    BY <1>1, <2>1, <2>2
  <2>. QED BY <1>1, <1>4, <1>6, <2>1, <2>3
<1>. QED BY <1>5, <1>6 DEF StartCapture

\* Steps of the main looper that leave the engine alone.
LEMMA MainKeeps ==
  ASSUME LifeInv, UNCHANGED <<engine, made, native, worker, tx>>, main' \in MainRecord,
         main.pc \in Open, main'.pc \in Open,
         Captured', Posted'
  PROVE  LifeInv'
<1>1. Types'  BY DEF LifeInv, Types
<1>2. Called'  BY DEF LifeInv, Called
<1>3. AllStaged'
  <2>1. ASSUME NEW e \in Engines
        PROVE  Staged(native[e], worker[e], e = engine, main'.pc)
    <3>1. Staged(native[e], worker[e], e = engine, main.pc)  BY DEF LifeInv, AllStaged
    <3>2. \A w \in Workers : main'.pc \in Working(w)
      BY DEF Working, Open, Whole
    <3>3. main.pc \in Open /\ main.pc \in Whole /\ main'.pc \in Whole
      BY DEF Open, Whole
    <3>. QED BY <3>1, <3>2, <3>3 DEF Staged
  <2>. QED BY <2>1 DEF AllStaged
<1>. QED BY <1>1, <1>2, <1>3 DEF LifeInv

LEMMA CaptureSound == ASSUME LifeInv, Capture PROVE LifeInv'
<1>1. main.pc = "capture" /\ main' = [pc |-> "idle", then |-> "idle"]  BY DEF Capture
<1>2. /\ helper = 0 /\ Len(captures) = 0 /\ engine \in Engines
      /\ \A p \in posts : p.kind # "wait"
  BY <1>1, WhileEnding
<1>3. main' \in MainRecord /\ main'.pc = "idle"  BY <1>1 DEF MainRecord
<1>4. engine' = engine  BY DEF Capture
<1>5. CASE StartCapture(engine)
  <2>1. Captured' /\ Posted'
    BY <1>2, <1>3, <1>4, <1>5, StartCaptureSound DEF Captured, Posted
  <2>. QED BY <1>1, <1>3, <2>1, MainKeeps DEF Capture, Open
<1>6. CASE AwaitSco(engine)
  <2>1. Captured'
    BY <1>2, <1>3, <1>4, <1>6 DEF LifeInv, Captured, AwaitSco
  <2>2. Posted'
    BY <1>2, <1>3, <1>4, <1>6 DEF LifeInv, Posted, AwaitSco, Post
  <2>. QED BY <1>1, <1>3, <2>1, <2>2, MainKeeps DEF Capture, Open
<1>. QED BY <1>5, <1>6 DEF Capture

\* A post that waits for SCO starts a capture: there is none.
LEMMA ScoPostSound ==
  ASSUME LifeInv, NEW p \in posts, ScoPost(p)
  PROVE  LifeInv'
<1>1. p.kind = "wait" /\ StartCapture(p.engine) /\ main.pc = "idle" /\ main' = main
      /\ engine' = engine
  BY DEF ScoPost, Idle
<1>2. helper = 0 /\ p.engine = engine /\ engine \in Engines
  BY <1>1 DEF LifeInv, Posted
<1>3. Captured' /\ Posted'
  <2>1. StartCapture(engine)  BY <1>1, <1>2
  <2>. QED BY <1>1, <1>2, <2>1, StartCaptureSound DEF Captured, Posted, LifeInv
<1>4. main' \in MainRecord  BY <1>1 DEF LifeInv, Types
<1>. QED BY <1>1, <1>3, <1>4, MainKeeps DEF ScoPost, Open

\* The capture is told to stop and joined next.
LEMMA Joining ==
  ASSUME LifeInv, StopCapture, engine # 0, main.pc = "idle", posts' = {},
         NEW then \in {"capture", "stop"}, main' = [pc |-> "join", then |-> then],
         UNCHANGED <<engine, made, native, worker, helper, tx>>
  PROVE  LifeInv'
<1>1. main' \in MainRecord /\ main'.pc = "join" /\ main'.then = then
  BY DEF MainRecord
<1>2. Captured'
  BY <1>1, StopCaptureSound DEF LifeInv, Captured
<1>3. Posted'  BY DEF Posted
<1>. QED BY <1>1, <1>2, <1>3, MainKeeps DEF Open

LEMMA StopEngineSound == ASSUME LifeInv, StopEngine PROVE LifeInv'
<1>1. posts' = {}  BY NoOthers DEF StopEngine, LifeInv
<1>. QED BY <1>1, Joining DEF StopEngine, Idle

LEMMA SilencePostSound ==
  ASSUME LifeInv, NEW p \in posts, SilencePost(p)
  PROVE  LifeInv'
<1>1. posts' = {}  BY NoOthers DEF SilencePost, LifeInv
<1>2. engine # 0
  <2>1. captures[1] \in CaptureRecord /\ captures[1].engine = engine
    BY DEF SilencePost, LifeInv, Captured
  <2>. QED BY <2>1, Constants DEF CaptureRecord, Engines
<1>. QED BY <1>1, <1>2, Joining DEF SilencePost, Idle

LEMMA SwitchDeviceSound == ASSUME LifeInv, SwitchDevice PROVE LifeInv'
<1>1. posts' = {} /\ main.pc = "idle"  BY NoOthers DEF SwitchDevice, LifeInv, Idle
<1>2. CASE engine # 0  BY <1>1, <1>2, Joining DEF SwitchDevice
<1>3. CASE engine = 0
  <2>1. UNCHANGED <<main, captures, engine, made, native, worker, helper, tx>>
    BY <1>3 DEF SwitchDevice
  <2>2. main' \in MainRecord  BY <2>1 DEF LifeInv, Types
  <2>3. Captured'  BY <2>1 DEF LifeInv, Captured
  <2>4. Posted'  BY <1>1 DEF Posted
  <2>. QED BY <1>1, <2>1, <2>2, <2>3, <2>4, MainKeeps DEF Open
<1>. QED BY <1>2, <1>3

\* The one capture is removed, and the looper goes on.
LEMMA JoinCaptureSound == ASSUME LifeInv, JoinCapture PROVE LifeInv'
<1>1. /\ main.pc = "join" /\ main' = [pc |-> main.then, then |-> "idle"]
      /\ main.then \in {"capture", "stop"} /\ helper' = 0
      /\ UNCHANGED <<engine, made, native, worker, tx, posts>>
  BY DEF JoinCapture, LifeInv, Captured
<1>2. captures' \in Seq(CaptureRecord) /\ Len(captures') = 0
  <2>1. CASE helper = 0  BY <2>1 DEF JoinCapture, LifeInv, Captured
  <2>2. CASE helper # 0
    <3>1. captures \in Seq(CaptureRecord) /\ Len(captures) = 1 /\ helper = 1
      BY <2>2 DEF LifeInv, Captured
    <3>2. captures' = RemoveAt(captures, 1)  BY <2>2, <3>1 DEF JoinCapture
    <3>3. RemoveAt(captures, 1) = SubSeq(captures, 1, 0) \o SubSeq(captures, 2, 1)
      BY <3>1 DEF RemoveAt
    <3>. QED BY <3>1, <3>2, <3>3
  <2>. QED BY <2>1, <2>2
<1>3. engine # 0  BY <1>1 DEF LifeInv, Captured
<1>4. main' \in MainRecord /\ main'.pc = main.then  BY <1>1 DEF MainRecord, Ending
<1>5. Captured'  BY <1>1, <1>2, <1>3, <1>4 DEF LifeInv, Captured
<1>6. Posted'  BY <1>1 DEF LifeInv, Posted
<1>. QED BY <1>1, <1>4, <1>5, <1>6, MainKeeps DEF Open

\* A new engine.
LEMMA StartEngineSound == ASSUME LifeInv, StartEngine PROVE LifeInv'
<1>. DEFINE k == made + 1
            n == [life |-> "live", handle |-> TRUE, handler |-> TRUE, running |-> TRUE,
                  scheduler |-> "check"]
            t == [w \in Workers |-> [pc |-> "check", stop |-> FALSE, queued |-> FALSE]]
<1>1. /\ main.pc = "idle" /\ engine = 0 /\ main' = [pc |-> "capture", then |-> "idle"]
      /\ engine' = k /\ made' = k /\ k \in Engines
      /\ UNCHANGED <<captures, helper, tx>>
  BY Constants DEF StartEngine, LifeInv, Types, Engines, Idle
<1>2. native' = [native EXCEPT ![k] = n] /\ worker' = [worker EXCEPT ![k] = t]
  BY DEF StartEngine
<1>3. posts' = {}  BY NoOthers DEF StartEngine, LifeInv
<1>4. n \in NativeRecord /\ t \in [Workers -> WorkerRecord]
  BY DEF NativeRecord, WorkerRecord
<1>5. Staged(n, t, TRUE, "capture")
  BY DEF Staged, Open, Whole, Working, Workers
<1>. HIDE DEF n, t
<1>6. /\ native' \in [Engines -> NativeRecord] /\ native'[k] = n
      /\ worker' \in [Engines -> [Workers -> WorkerRecord]] /\ worker'[k] = t
      /\ \A e \in Engines \ {k} : native'[e] = native[e] /\ worker'[e] = worker[e]
  <2>. HIDE DEF k
  <2>. QED BY <1>1, <1>2, <1>4 DEF LifeInv, Types
<1>7. main' \in MainRecord /\ main'.pc = "capture"  BY <1>1 DEF MainRecord
<1>8. Types'
  <2>1. made' \in 0..MaxEngines /\ engine' \in 0..made'
    BY <1>1, Constants DEF Engines
  <2>. HIDE DEF k
  <2>. QED BY <1>1, <1>6, <1>7, <2>1 DEF LifeInv, Types
<1>9. helper = 0
  <2>1. helper # 0 => captures[1] \in CaptureRecord /\ captures[1].engine = 0
    BY <1>1 DEF LifeInv, Captured
  <2>. QED BY <2>1, Constants DEF CaptureRecord, Engines
<1>10. Captured'
  <2>1. engine' # 0  BY <1>1, Constants DEF Engines
  <2>. HIDE DEF k
  <2>. QED BY <1>1, <1>7, <1>9, <2>1 DEF LifeInv, Captured
<1>11. Posted'  BY <1>3 DEF Posted
<1>12. AllStaged'
  <2>. HIDE DEF k
  <2>1. ASSUME NEW e \in Engines
        PROVE  Staged(native'[e], worker'[e], e = k, "capture")
    <3>1. CASE e = k  BY <3>1, <1>5, <1>6
    <3>2. CASE e # k
      <4>1. e # engine  BY <1>1, Constants DEF Engines
      <4>2. Staged(native[e], worker[e], FALSE, main.pc)
        BY <4>1 DEF LifeInv, AllStaged, Staged
      <4>3. Staged(native[e], worker[e], FALSE, "capture")  BY <4>2, Elsewhere
      <4>. QED BY <3>2, <4>3, <1>6 DEF Staged
    <3>. QED BY <3>1, <3>2
  <2>. QED BY <2>1, <1>1, <1>7 DEF AllStaged
<1>13. Called'
  <2>1. tx.pc # "in"
    BY <1>1, Constants DEF LifeInv, Called, Types, Engines
  <2>. QED BY <2>1, <1>1 DEF Called
<1>. QED BY <1>8, <1>10, <1>11, <1>12, <1>13 DEF LifeInv

-----------------------------------------------------------------------------
(* The other threads.                                                        *)

\* A step of a thread, given by what it makes of the engines.
LEMMA ThreadMoves ==
  ASSUME LifeInv, UNCHANGED KeptByThreads,
         native' \in [Engines -> NativeRecord],
         worker' \in [Engines -> [Workers -> WorkerRecord]],
         \A e \in Engines : Staged(native'[e], worker'[e], e = engine, main.pc),
         tx' \in TxRecord, tx'.pc # "idle" => tx'.engine \in Engines,
         tx'.pc = "in" => tx'.engine = engine /\ main.pc \in Open,
         captures' \in Seq(CaptureRecord), Len(captures') = Len(captures),
         helper # 0 => captures'[1].engine = engine /\ captures'[1].pc # "thrown"
  PROVE  LifeInv'
<1>1. /\ main' = main /\ engine' = engine /\ made' = made /\ helper' = helper
      /\ posts' = posts
  BY DEF KeptByThreads
<1>2. Types'  BY <1>1 DEF LifeInv, Types
<1>3. Captured'  BY <1>1 DEF LifeInv, Captured
<1>4. Posted'  BY <1>1 DEF LifeInv, Posted
<1>5. AllStaged'  BY <1>1 DEF AllStaged
<1>6. Called'  BY <1>1 DEF Called
<1>. QED BY <1>2, <1>3, <1>4, <1>5, <1>6 DEF LifeInv

\* What is known before the step.
LEMMA Before ==
  ASSUME LifeInv
  PROVE  /\ native \in [Engines -> NativeRecord]
         /\ worker \in [Engines -> [Workers -> WorkerRecord]]
         /\ \A e \in Engines : Staged(native[e], worker[e], e = engine, main.pc)
         /\ tx \in TxRecord /\ (tx.pc # "idle" => tx.engine \in Engines)
         /\ tx.pc = "in" => tx.engine = engine /\ main.pc \in Open
         /\ captures \in Seq(CaptureRecord)
         /\ helper # 0 => captures[1].engine = engine /\ captures[1].pc # "thrown"
  BY DEF LifeInv, Types, Captured, AllStaged, Called

\* The one capture thread goes on; the engine it feeds is the one in the field.
LEMMA TheCapture ==
  ASSUME LifeInv, NEW i \in DOMAIN captures
  PROVE  /\ i = 1 /\ helper = 1 /\ captures[1] \in CaptureRecord
         /\ engine \in Engines /\ captures[1].engine = engine
         /\ main.pc \in {"idle", "join"}
<1>1. i = 1 /\ helper = 1 /\ captures[1] \in CaptureRecord
  BY DEF LifeInv, Captured
<1>2. captures[1].engine = engine /\ main.pc \in {"idle", "join"}
  BY <1>1 DEF LifeInv, Captured
<1>. QED BY <1>1, <1>2 DEF CaptureRecord

LEMMA CaptureGoesOn ==
  ASSUME LifeInv, NEW i \in DOMAIN captures, NEW from,
         NEW to \in {"loop", "call", "in", "done"}, CaptureGoes(i, from, to)
  PROVE  /\ captures' \in Seq(CaptureRecord) /\ Len(captures') = Len(captures)
         /\ captures'[1].engine = engine /\ captures'[1].pc # "thrown"
<1>1. i = 1 /\ captures[1] \in CaptureRecord /\ captures[1].engine = engine
  BY TheCapture
<1>. DEFINE c == [captures[1] EXCEPT !.pc = to]
<1>2. c \in CaptureRecord /\ c.engine = engine /\ c.pc # "thrown"
  BY <1>1 DEF CaptureRecord
<1>3. captures' = [captures EXCEPT ![1] = c]  BY <1>1 DEF CaptureGoes
<1>4. captures \in Seq(CaptureRecord) /\ 1 \in DOMAIN captures  BY <1>1 DEF LifeInv, Captured
<1>. HIDE DEF c
<1>. QED BY <1>2, <1>3, <1>4

LEMMA RecordSound ==
  ASSUME LifeInv, NEW i \in DOMAIN captures, Record(i)
  PROVE  LifeInv'
<1>1. \/ CaptureGoes(i, "loop", "call") \/ CaptureGoes(i, "loop", "done")  BY DEF Record
<1>2. /\ captures' \in Seq(CaptureRecord) /\ Len(captures') = Len(captures)
      /\ captures'[1].engine = engine /\ captures'[1].pc # "thrown"
  BY <1>1, CaptureGoesOn
<1>. QED BY <1>2, Before, ThreadMoves DEF Record

\* The engine of a capture has its handle.
LEMMA SubmitAudioSound ==
  ASSUME LifeInv, NEW i \in DOMAIN captures, SubmitAudio(i)
  PROVE  LifeInv'
<1>1. i = 1 /\ engine \in Engines /\ captures[1].engine = engine /\ main.pc \in {"idle", "join"}
  BY TheCapture
<1>2. native[engine].handle  BY <1>1, InField DEF Staged, Open
<1>3. CaptureGoes(i, "call", "in")  BY <1>1, <1>2 DEF SubmitAudio
<1>4. /\ captures' \in Seq(CaptureRecord) /\ Len(captures') = Len(captures)
      /\ captures'[1].engine = engine /\ captures'[1].pc # "thrown"
  BY <1>3, CaptureGoesOn
<1>. QED BY <1>4, Before, ThreadMoves DEF SubmitAudio

\* A worker of an engine changes: it may do so if it has not ended or if it is as
\* it was.
LEMMA WorkerMoves ==
  ASSUME LifeInv, NEW e \in Engines, NEW t \in [Workers -> WorkerRecord],
         worker' = [worker EXCEPT ![e] = t],
         \A w \in Workers : t[w].pc \notin {"none", "done"} => worker[e][w].pc \notin {"none", "done"}
  PROVE  /\ worker' \in [Engines -> [Workers -> WorkerRecord]]
         /\ \A x \in Engines : Staged(native[x], worker'[x], x = engine, main.pc)
<1>1. worker \in [Engines -> [Workers -> WorkerRecord]]  BY Before
<1>2. worker' \in [Engines -> [Workers -> WorkerRecord]] /\ worker'[e] = t
      /\ \A x \in Engines \ {e} : worker'[x] = worker[x]
  BY <1>1
<1>3. ASSUME NEW x \in Engines PROVE Staged(native[x], worker'[x], x = engine, main.pc)
  <2>1. Staged(native[x], worker[x], x = engine, main.pc)  BY Before
  <2>2. CASE x = e  BY <2>1, <2>2, <1>2 DEF Staged
  <2>3. CASE x # e  BY <2>1, <2>3, <1>2
  <2>. QED BY <2>2, <2>3
<1>. QED BY <1>2, <1>3

LEMMA SubmittedSound ==
  ASSUME LifeInv, NEW i \in DOMAIN captures, Submitted(i)
  PROVE  LifeInv'
<1>1. i = 1 /\ engine \in Engines /\ captures[1].engine = engine  BY TheCapture
<1>2. /\ captures' \in Seq(CaptureRecord) /\ Len(captures') = Len(captures)
      /\ captures'[1].engine = engine /\ captures'[1].pc # "thrown"
  BY CaptureGoesOn DEF Submitted
<1>3. PICK for \in SUBSET Workers :
        worker' = [worker EXCEPT ![engine] =
                     [w \in Workers |-> IF w \in for THEN Queued(@[w]) ELSE @[w]]]
  BY <1>1 DEF Submitted
<1>. DEFINE t == [w \in Workers |-> IF w \in for THEN Queued(worker[engine][w])
                                                ELSE worker[engine][w]]
<1>4. worker' = [worker EXCEPT ![engine] = t]  BY <1>3
<1>5. \A w \in Workers : worker[engine][w] \in WorkerRecord  BY <1>1, Before
<1>6. \A w \in Workers :
        /\ Queued(worker[engine][w]) \in WorkerRecord
        /\ Queued(worker[engine][w]).pc \notin {"none", "done"}
             => worker[engine][w].pc \notin {"none", "done"}
  BY <1>5 DEF WorkerRecord, Queued, Notified
<1>7. /\ t \in [Workers -> WorkerRecord]
      /\ \A w \in Workers :
           t[w].pc \notin {"none", "done"} => worker[engine][w].pc \notin {"none", "done"}
  BY <1>5, <1>6
<1>. HIDE DEF t
<1>8. /\ worker' \in [Engines -> [Workers -> WorkerRecord]]
      /\ \A x \in Engines : Staged(native[x], worker'[x], x = engine, main.pc)
  BY <1>1, <1>4, <1>7, WorkerMoves
<1>. QED BY <1>2, <1>8, Before, ThreadMoves DEF Submitted

LEMMA WorkerGoes ==
  ASSUME LifeInv, NEW e \in Engines, NEW w \in Workers, NEW v \in WorkerRecord,
         worker[e][w].pc \notin {"none", "done"},
         worker' = [worker EXCEPT ![e] = [@ EXCEPT ![w] = v]],
         UNCHANGED <<native, captures, tx>>, UNCHANGED KeptByThreads
  PROVE  LifeInv'
<1>. DEFINE t == [worker[e] EXCEPT ![w] = v]
<1>1. worker[e] \in [Workers -> WorkerRecord]  BY Before
<1>2. /\ t \in [Workers -> WorkerRecord]
      /\ \A x \in Workers : t[x].pc \notin {"none", "done"} => worker[e][x].pc \notin {"none", "done"}
  BY <1>1
<1>3. worker' = [worker EXCEPT ![e] = t]  OBVIOUS
<1>. HIDE DEF t
<1>4. /\ worker' \in [Engines -> [Workers -> WorkerRecord]]
      /\ \A x \in Engines : Staged(native[x], worker'[x], x = engine, main.pc)
  BY <1>2, <1>3, WorkerMoves
<1>. QED BY <1>4, Before, ThreadMoves

LEMMA CheckSound ==
  ASSUME LifeInv, NEW e \in Engines, NEW w \in Workers, Check(e, w)
  PROVE  LifeInv'
<1>. DEFINE u == worker[e][w]
            v == IF u.stop THEN [u EXCEPT !.pc = "done"]
                 ELSE IF u.queued THEN [u EXCEPT !.queued = FALSE, !.pc = "emit"]
                 ELSE [u EXCEPT !.pc = "wait"]
<1>1. u \in WorkerRecord /\ worker \in [Engines -> [Workers -> WorkerRecord]]  BY Before
<1>2. v \in WorkerRecord  BY <1>1 DEF WorkerRecord
<1>3. worker' = [worker EXCEPT ![e] = [@ EXCEPT ![w] = v]]  BY <1>1 DEF Check
<1>4. u.pc = "check"  BY DEF Check
<1>. HIDE DEF v
<1>. QED BY <1>2, <1>3, <1>4, WorkerGoes DEF Check

LEMMA EmitSound ==
  ASSUME LifeInv, NEW e \in Engines, NEW w \in Workers, Emit(e, w)
  PROVE  LifeInv'
<1>. DEFINE v == [worker[e][w] EXCEPT !.pc = "check"]
<1>1. /\ worker[e][w] \in WorkerRecord
      /\ worker \in [Engines -> [Workers -> WorkerRecord]]
  BY Before
<1>2. v \in WorkerRecord  BY <1>1 DEF WorkerRecord
<1>3. worker' = [worker EXCEPT ![e] = [@ EXCEPT ![w] = v]]  BY <1>1 DEF Emit
<1>4. worker[e][w].pc \notin {"none", "done"}  BY DEF Emit
<1>5. UNCHANGED <<native, captures, tx>> /\ UNCHANGED KeptByThreads  BY DEF Emit
<1>. HIDE DEF v
<1>. QED BY <1>2, <1>3, <1>4, <1>5, WorkerGoes

\* What belongs to an engine in native changes.
LEMMA NativeMoves ==
  ASSUME LifeInv, NEW e \in Engines, NEW n \in NativeRecord,
         native' = [native EXCEPT ![e] = n],
         Staged(n, worker[e], e = engine, main.pc),
         UNCHANGED <<worker, captures>>, UNCHANGED KeptByThreads,
         tx' \in TxRecord, tx'.pc # "idle" => tx'.engine \in Engines,
         tx'.pc = "in" => tx'.engine = engine /\ main.pc \in Open
  PROVE  LifeInv'
<1>1. /\ native' \in [Engines -> NativeRecord] /\ native'[e] = n
      /\ \A x \in Engines \ {e} : native'[x] = native[x]
  BY Before
<1>2. ASSUME NEW x \in Engines PROVE Staged(native'[x], worker[x], x = engine, main.pc)
  <2>1. Staged(native[x], worker[x], x = engine, main.pc)  BY Before
  <2>2. CASE x = e  BY <2>2, <1>1
  <2>3. CASE x # e  BY <2>1, <2>3, <1>1
  <2>. QED BY <2>2, <2>3
<1>. QED BY <1>1, <1>2, Before, ThreadMoves

LEMMA SchedulerMoves ==
  ASSUME LifeInv, NEW e \in Engines, NEW to \in {"check", "decided", "wait", "done"},
         native[e].scheduler \notin {"none", "done"},
         native' = [native EXCEPT ![e].scheduler = to],
         UNCHANGED <<worker, captures, tx>>, UNCHANGED KeptByThreads
  PROVE  LifeInv'
<1>. DEFINE n == [native[e] EXCEPT !.scheduler = to]
<1>1. native[e] \in NativeRecord /\ Staged(native[e], worker[e], e = engine, main.pc)
  BY Before
<1>2. n \in NativeRecord /\ Staged(n, worker[e], e = engine, main.pc)
  BY <1>1 DEF NativeRecord, Staged
<1>3. native' = [native EXCEPT ![e] = n]  OBVIOUS
<1>. HIDE DEF n
<1>. QED BY <1>2, <1>3, Before, NativeMoves

LEMMA SchedulerStepSound ==
  ASSUME LifeInv, NEW e \in Engines, SchedulerStep(e)
  PROVE  LifeInv'
<1>1. CASE /\ native[e].scheduler = "check"
           /\ native' = [native EXCEPT ![e].scheduler =
                             IF native[e].running THEN "decided" ELSE "done"]
  <2>1. CASE native[e].running  BY <1>1, <2>1, SchedulerMoves DEF SchedulerStep
  <2>2. CASE ~native[e].running  BY <1>1, <2>2, SchedulerMoves DEF SchedulerStep
  <2>. QED BY <2>1, <2>2
<1>2. CASE /\ native[e].scheduler = "decided"
           /\ native' = [native EXCEPT ![e].scheduler = "wait"]
  BY <1>2, SchedulerMoves DEF SchedulerStep
<1>. QED BY <1>1, <1>2 DEF SchedulerStep

LEMMA SpuriousSound ==
  ASSUME LifeInv, NEW e \in Engines, Spurious(e)
  PROVE  LifeInv'
<1>1. CASE /\ native[e].scheduler = "wait"
           /\ native' = [native EXCEPT ![e].scheduler = "check"]
           /\ UNCHANGED worker
  BY <1>1, SchedulerMoves DEF Spurious
<1>2. ASSUME NEW w \in Workers, worker[e][w].pc = "wait",
             worker' = [worker EXCEPT ![e][w].pc = "check"], UNCHANGED native
      PROVE  LifeInv'
  <2>. DEFINE v == [worker[e][w] EXCEPT !.pc = "check"]
  <2>1. /\ worker[e][w] \in WorkerRecord
        /\ worker \in [Engines -> [Workers -> WorkerRecord]]
    BY Before
  <2>2. v \in WorkerRecord  BY <2>1 DEF WorkerRecord
  <2>3. worker' = [worker EXCEPT ![e] = [@ EXCEPT ![w] = v]]  BY <1>2, <2>1
  <2>4. worker[e][w].pc \notin {"none", "done"}  BY <1>2
  <2>5. UNCHANGED <<native, captures, tx>> /\ UNCHANGED KeptByThreads
    BY <1>2 DEF Spurious
  <2>. HIDE DEF v
  <2>. QED BY <2>2, <2>3, <2>4, <2>5, WorkerGoes
<1>. QED BY <1>1, <1>2 DEF Spurious

LEMMA TxReadsSound == ASSUME LifeInv, TxReads PROVE LifeInv'
<1>1. engine \in Engines /\ engine \in 0..MaxEngines
  BY Constants DEF TxReads, LifeInv, Types, Engines
<1>2. tx' = [pc |-> "read", engine |-> engine]  BY DEF TxReads
<1>3. tx' \in TxRecord /\ tx'.pc = "read" /\ tx'.engine = engine
  BY <1>1, <1>2 DEF TxRecord
<1>. QED BY <1>1, <1>3, Before, ThreadMoves DEF TxReads

\* A call enters an engine that has its handle: the one in the field.
LEMMA TxCallsSound == ASSUME LifeInv, TxCalls PROVE LifeInv'
<1>1. tx \in TxRecord /\ tx.pc = "read" /\ tx.engine \in Engines
  BY Before DEF TxCalls
<1>2. /\ tx' \in TxRecord /\ tx'.engine = tx.engine
      /\ tx'.pc = IF native[tx.engine].handle THEN "in" ELSE "thrown"
  BY <1>1 DEF TxCalls, TxRecord
<1>3. native[tx.engine].handle => tx.engine = engine /\ main.pc \in Open
  BY <1>1, Before DEF Staged
<1>. QED BY <1>1, <1>2, <1>3, Before, ThreadMoves DEF TxCalls

LEMMA TxReturnsSound == ASSUME LifeInv, TxReturns PROVE LifeInv'
<1>1. tx' = [pc |-> "idle", engine |-> 0]  BY DEF TxReturns
<1>2. tx' \in TxRecord /\ tx'.pc = "idle"  BY <1>1, Constants DEF TxRecord
<1>. QED BY <1>2, Before, ThreadMoves DEF TxReturns

-----------------------------------------------------------------------------
(* The output.                                                               *)

CallStates == {"out", "in", "start", "started", "refused", "stop", "join"}

\* The calls and the pump leave the rest as it is.
LEMMA CallsKeepLife ==
  ASSUME LifeInv, UNCHANGED KeptByCalls
  PROVE  LifeInv'
<1>1. /\ main' = main /\ engine' = engine /\ made' = made /\ native' = native
      /\ worker' = worker /\ captures' = captures /\ helper' = helper /\ tx' = tx
      /\ posts' = posts
  BY DEF KeptByCalls
<1>2. Types' /\ Captured' /\ Posted' /\ Called'
  BY <1>1 DEF LifeInv, Types, Captured, Posted, Called
<1>3. AllStaged'  BY <1>1 DEF LifeInv, AllStaged, Staged
<1>. QED BY <1>2, <1>3 DEF LifeInv

\* What the steps of others need to know of the output.
LEMMA OutputKept ==
  ASSUME OutputInv, UNCHANGED CallVars,
         call["tx"] # "out" => tx'.pc = "in",
         call["main"] # "out" => engine' = engine /\ main'.pc = main.pc,
         main'.pc \in Halting => main.pc \in Halting,
         engine' = 0 \/ main'.pc \in Freeing => Gone,
         main.pc = "joinOutput" <=> main'.pc = "joinOutput"
  PROVE  OutputInv'
<1>1. call' = call /\ output' = output  BY DEF CallVars
<1>2. Calling'  BY <1>1 DEF OutputInv, Calling
<1>3. Begun' = Begun  BY <1>1 DEF Begun
<1>4. Held'  BY <1>1, <1>3 DEF OutputInv, Held
<1>5. (Halted' => Halted) /\ (Gone' => Gone)  BY <1>1 DEF Halted, Gone
<1>6. Late'  BY <1>1, <1>5 DEF OutputInv, Late
<1>. QED BY <1>2, <1>4, <1>6 DEF OutputInv

\* A step of another thread.
LEMMA OutputOfThreads ==
  ASSUME IInv, UNCHANGED <<call, tx>>, UNCHANGED KeptByThreads
  PROVE  OutputInv'
<1>1. UNCHANGED CallVars /\ main' = main /\ engine' = engine /\ tx' = tx
  BY DEF KeptByThreads, CallVars
<1>2. (call["tx"] # "out" => tx.pc = "in") /\ OutputInv  BY DEF IInv, OutputInv, Calling
<1>. QED BY <1>1, <1>2, OutputKept DEF Gone

\* A step of the main looper that does not concern the output.
LEMMA OutputOfMain ==
  ASSUME IInv, NEW from, NEW to, Goes(from, to), UNCHANGED CallVars, UNCHANGED KeptByMain,
         engine' = engine, to \in Halting => from \in Halting,
         to \in Freeing => from \in Freeing, from # "joinOutput", to # "joinOutput"
  PROVE  OutputInv'
<1>1. main.pc = from /\ call["main"] = "out" /\ main'.pc = to
  BY DEF Goes, IInv, LifeInv, Types, MainRecord
<1>2. tx' = tx  BY DEF KeptByMain
<1>3. (call["tx"] # "out" => tx.pc = "in") /\ OutputInv  BY DEF IInv, OutputInv, Calling
<1>. QED BY <1>1, <1>2, <1>3, OutputKept DEF Gone

\* The messages of the main looper that start with nothing under way.
LEMMA OutputOfMessages ==
  ASSUME IInv, main.pc \in {"idle", "capture", "join"}, UNCHANGED <<engine, tx>>,
         UNCHANGED CallVars, main'.pc \in {"idle", "capture", "join", "stop"},
         call["main"] # "out" => main'.pc = main.pc
  PROVE  OutputInv'
<1>1. (call["tx"] # "out" => tx.pc = "in") /\ OutputInv  BY DEF IInv, OutputInv, Calling
<1>. QED BY <1>1, OutputKept DEF Gone, Halting, Freeing

\* A call begins, goes on or ends where its engine is still there.
LEMMA CallMoves ==
  ASSUME IInv, NEW c \in Callers, NEW from \in CallStates \ {"out"}, NEW to \in CallStates,
         CallGoes(c, from, to), UNCHANGED KeptByCalls,
         from \in {"stop", "join"} => to \in {"out", "stop", "join"},
         \A d \in Callers : output'.holder = d <=> call'[d] = "join"
  PROVE  /\ Calling' /\ ~Gone' /\ main.pc # "joinOutput" /\ main' = main
         /\ call[c] = from /\ call'[c] = to /\ \A d \in Callers \ {c} : call'[d] = call[d]
         /\ Halted' => c = "main" /\ call["tx"] = "out" /\ from \in {"stop", "join"}
<1>1. /\ main' = main /\ engine' = engine /\ tx' = tx  BY DEF KeptByCalls
<1>2. Calling  BY DEF IInv, OutputInv
<1>3. call \in [Callers -> CallStates] /\ call[c] = from /\ call' = [call EXCEPT ![c] = to]
  BY <1>2 DEF Calling, CallGoes, CallStates
<1>4. /\ call' \in [Callers -> CallStates] /\ call'[c] = to
      /\ \A d \in Callers \ {c} : call'[d] = call[d]
  BY <1>3
<1>5. call["tx"] # "out" => engine # 0 /\ main.pc \in Open
  <2>1. call["tx"] # "out" => tx.engine \in Engines /\ tx.engine = engine /\ main.pc \in Open
    BY <1>2 DEF Calling, IInv, LifeInv, Types, Called
  <2>. QED BY <2>1, Constants DEF Engines
<1>6. CASE c = "main"
  <2>1. /\ engine # 0 /\ main.pc \in {"idle", "close", "decode"}
        /\ main.pc # "idle" => from \in {"stop", "join"}
    BY <1>2, <1>3, <1>6 DEF Calling
  <2>2. call'["tx"] = call["tx"] /\ call'["main"] = to  BY <1>4, <1>6 DEF Callers
  <2>3. Calling'
    BY <1>1, <1>2, <1>4, <2>1, <2>2 DEF Calling, CallStates
  <2>4. ~Gone' /\ main.pc # "joinOutput"  BY <1>1, <2>1 DEF Gone, Freeing
  <2>5. Halted' => call["tx"] = "out" /\ from \in {"stop", "join"}
    BY <1>1, <1>5, <2>1 DEF Halted, Halting, Open
  <2>. QED BY <1>1, <1>3, <1>4, <1>6, <2>3, <2>4, <2>5
<1>7. CASE c = "tx"
  <2>1. engine # 0 /\ main.pc \in Open /\ tx.pc = "in"
    BY <1>2, <1>3, <1>5, <1>7 DEF Calling
  <2>2. call'["main"] = call["main"] /\ call'["tx"] = to  BY <1>4, <1>7 DEF Callers
  <2>3. Calling'
    BY <1>1, <1>2, <1>4, <2>1, <2>2 DEF Calling, CallStates
  <2>4. ~Gone' /\ ~Halted' /\ main.pc # "joinOutput"
    BY <1>1, <2>1 DEF Gone, Freeing, Halted, Halting, Open
  <2>. QED BY <1>1, <1>3, <1>4, <2>3, <2>4
<1>. QED BY <1>6, <1>7 DEF Callers

\* What is known of the output before a step.
LEMMA OutputBefore ==
  ASSUME IInv, ~output.aborted
  PROVE  /\ output \in OutputRecord /\ Running(output, main.pc = "joinOutput", Begun)
         /\ \A c, d \in Callers : call[c] = "started" /\ call[d] = "started" => c = d
         /\ \A c \in Callers : output.holder = c <=> call[c] = "join"
         /\ "free" \notin Callers
  BY DEF IInv, OutputInv, Held, Calling, Callers

LEMMA TransmitOutput ==
  ASSUME IInv, ~output.aborted, NEW c \in Callers, Transmit(c)
  PROVE  OutputInv'
<1>. DEFINE to == IF output.flag THEN "out" ELSE "start"
<1>1. /\ CallGoes(c, "in", to) /\ UNCHANGED KeptByCalls /\ output' = output
      /\ output.holder = "free"
  BY DEF Transmit
<1>2. "in" \in CallStates \ {"out"} /\ to \in {"out", "start"} /\ to \in CallStates
  BY DEF CallStates
<1>. HIDE DEF to
<1>3. \A d \in Callers : output'.holder = d <=> call'[d] = "join"
  <2>1. call \in [Callers -> CallStates]  BY DEF IInv, OutputInv, Calling, CallStates
  <2>2. \A d \in Callers : call'[d] = IF d = c THEN to ELSE call[d]
    BY <1>1, <2>1 DEF CallGoes
  <2>. QED BY <1>1, <1>2, <2>2, OutputBefore
<1>4. /\ Calling' /\ ~Gone' /\ ~Halted' /\ main' = main /\ call'[c] = to /\ call[c] = "in"
      /\ \A d \in Callers \ {c} : call'[d] = call[d]
  BY <1>1, <1>2, <1>3, CallMoves
<1>5. \A d \in Callers : call'[d] = "started" <=> call[d] = "started"
  BY <1>2, <1>4
<1>6. Begun' = Begun  BY <1>5 DEF Begun
<1>7. Held'  BY <1>1, <1>4, <1>5, <1>6, OutputBefore DEF Held
<1>. QED BY <1>4, <1>7 DEF OutputInv, Late

LEMMA StartOutputOutput ==
  ASSUME IInv, ~output.aborted, NEW c \in Callers, StartOutput(c)
  PROVE  OutputInv'
<1>. DEFINE to == IF output.on THEN "refused" ELSE "started"
<1>1. CallGoes(c, "start", to) /\ UNCHANGED KeptByCalls  BY DEF StartOutput
<1>2. "start" \in CallStates \ {"out"} /\ to \in {"refused", "started"} /\ to \in CallStates
      /\ (to = "started" <=> ~output.on)
  BY DEF CallStates
<1>3. /\ output' \in OutputRecord /\ output'.holder = output.holder
      /\ output'.flag = output.flag /\ output'.quiet = output.quiet
      /\ output.on => output' = output
      /\ ~output.on /\ output.pump # "none" => output'.aborted
      /\ ~output.on /\ output.pump = "none" => output'.on /\ output'.pump # "none"
  BY OutputBefore DEF StartOutput, OutputRecord
<1>. HIDE DEF to
<1>4. \A d \in Callers : output'.holder = d <=> call'[d] = "join"
  <2>1. call \in [Callers -> CallStates]  BY DEF IInv, OutputInv, Calling, CallStates
  <2>2. \A d \in Callers : call'[d] = IF d = c THEN to ELSE call[d]
    BY <1>1, <2>1 DEF CallGoes
  <2>3. call[c] = "start"  BY <1>1 DEF CallGoes
  <2>. QED BY <1>2, <1>3, <2>2, <2>3, OutputBefore
<1>5. /\ Calling' /\ ~Gone' /\ ~Halted' /\ main.pc # "joinOutput" /\ main' = main
      /\ call[c] = "start" /\ call'[c] = to /\ \A d \in Callers \ {c} : call'[d] = call[d]
  BY <1>1, <1>2, <1>4, CallMoves
<1>6. Held'
  <2>1. CASE output.on
    <3>1. \A d \in Callers : call'[d] = "started" <=> call[d] = "started"
      BY <1>2, <1>5, <2>1
    <3>2. Begun' = Begun  BY <3>1 DEF Begun
    <3>. QED BY <1>3, <1>5, <2>1, <3>1, <3>2, OutputBefore DEF Held
  <2>2. CASE ~output.on /\ output.pump = "none"
    <3>1. ~Begun /\ output.holder = "free" /\ ~output.flag
      BY <2>2, OutputBefore DEF Running, OutputRecord
    <3>2. Begun' /\ \A d \in Callers : call'[d] = "started" => d = c
      BY <1>2, <1>5, <2>2, <3>1 DEF Begun
    <3>3. Running(output', FALSE, TRUE)
      BY <1>3, <2>2, <3>1 DEF Running
    <3>4. main'.pc # "joinOutput"  BY <1>5
    <3>. QED BY <1>3, <3>2, <3>3, <3>4 DEF Held, Running
  <2>3. CASE ~output.on /\ output.pump # "none"  BY <1>3, <2>3 DEF Held
  <2>. QED BY <2>1, <2>2, <2>3
<1>. QED BY <1>5, <1>6 DEF OutputInv, Late

LEMMA RecordOutputOutput ==
  ASSUME IInv, ~output.aborted, NEW c \in Callers, RecordOutput(c)
  PROVE  OutputInv'
<1>1. \A d \in Callers : call[d] = "join" <=> output.holder = d  BY OutputBefore
<1>2. call \in [Callers -> CallStates]  BY DEF IInv, OutputInv, Calling, CallStates
<1>3. CASE /\ CallGoes(c, "started", "out")
           /\ output' = [output EXCEPT !.flag = TRUE, !.quiet = FALSE]
  <2>1. /\ output' \in OutputRecord /\ output'.holder = output.holder
        /\ output'.on = output.on /\ output'.pump = output.pump /\ output'.flag
    BY <1>3, OutputBefore DEF OutputRecord
  <2>2. \A d \in Callers : output'.holder = d <=> call'[d] = "join"
    BY <1>1, <1>2, <1>3, <2>1 DEF CallGoes
  <2>3. /\ Calling' /\ ~Gone' /\ ~Halted' /\ main.pc # "joinOutput" /\ main' = main
        /\ call[c] = "started" /\ call'[c] = "out"
        /\ \A d \in Callers \ {c} : call'[d] = call[d]
    BY <1>3, <2>2, CallMoves DEF RecordOutput, CallStates
  <2>4. Begun /\ ~Begun' /\ \A d \in Callers : call'[d] # "started"
    BY <2>3, OutputBefore DEF Begun
  <2>5. Running(output', FALSE, FALSE)
    BY <2>1, <2>3, <2>4, OutputBefore DEF Running, OutputRecord
  <2>6. main'.pc # "joinOutput"  BY <2>3
  <2>7. Held'  BY <2>1, <2>4, <2>5, <2>6 DEF Held, Running
  <2>. QED BY <2>3, <2>7 DEF OutputInv, Late
<1>4. CASE /\ CallGoes(c, "refused", "stop")
           /\ output' = [output EXCEPT !.flag = FALSE, !.quiet = output.on]
  <2>1. /\ output' \in OutputRecord /\ output'.holder = output.holder
        /\ output'.on = output.on /\ output'.pump = output.pump /\ ~output'.flag
        /\ output'.quiet = output.on /\ output'.aborted = output.aborted
    BY <1>4, OutputBefore DEF OutputRecord
  <2>2. \A d \in Callers : output'.holder = d <=> call'[d] = "join"
    BY <1>1, <1>2, <1>4, <2>1 DEF CallGoes
  <2>3. /\ Calling' /\ ~Gone' /\ ~Halted' /\ main.pc # "joinOutput" /\ main' = main
        /\ call[c] = "refused" /\ call'[c] = "stop"
        /\ \A d \in Callers \ {c} : call'[d] = call[d]
    BY <1>4, <2>2, CallMoves DEF RecordOutput, CallStates
  <2>4. \A d \in Callers : call'[d] = "started" <=> call[d] = "started"
    BY <2>3
  <2>5. Begun' = Begun  BY <2>4 DEF Begun
  <2>6. Running(output', FALSE, Begun)
    BY <2>1, <2>3, OutputBefore DEF Running, OutputRecord
  <2>7. main'.pc # "joinOutput"  BY <2>3
  <2>8. Held'  BY <2>1, <2>4, <2>5, <2>6, <2>7, OutputBefore DEF Held, Running
  <2>. QED BY <2>3, <2>8 DEF OutputInv, Late
<1>. QED BY <1>3, <1>4 DEF RecordOutput

\* The stop of a destruction leaves no output but one the engine believes not started.
LEMMA StopTransmitOutput ==
  ASSUME IInv, ~output.aborted, NEW c \in Callers, StopTransmit(c)
  PROVE  OutputInv'
<1>1. \A d \in Callers : call[d] # "join"  BY OutputBefore DEF StopTransmit
<1>2. call \in [Callers -> CallStates]  BY DEF IInv, OutputInv, Calling, CallStates
<1>3. output.holder = "free"  BY DEF StopTransmit
<1>4. CASE output.flag
  <2>1. /\ CallGoes(c, "stop", "join")
        /\ output' = [output EXCEPT !.on = FALSE, !.holder = c]
    BY <1>4 DEF StopTransmit
  <2>2. /\ output' \in OutputRecord /\ output'.holder = c /\ ~output'.on
        /\ output'.pump = output.pump
    BY <2>1, OutputBefore DEF OutputRecord
  <2>3. \A d \in Callers : output'.holder = d <=> call'[d] = "join"
    BY <1>1, <1>2, <2>1, <2>2 DEF CallGoes
  <2>4. /\ Calling' /\ ~Gone' /\ main.pc # "joinOutput" /\ main' = main
        /\ call[c] = "stop" /\ call'[c] = "join"
        /\ \A d \in Callers \ {c} : call'[d] = call[d]
        /\ (Halted' => c = "main")
    BY <2>1, <2>3, CallMoves DEF StopTransmit, CallStates
  <2>5. ~Halted'  BY <2>4 DEF Halted
  <2>6. ~Begun /\ output.on  BY <1>3, <1>4, OutputBefore DEF Running
  <2>7. ~Begun' /\ \A d \in Callers : call'[d] # "started"
    BY <2>4, <2>6 DEF Begun
  <2>8. output.pump # "none"  BY <1>3, <2>4, <2>6, OutputBefore DEF Running
  <2>9. Running(output', FALSE, FALSE)
    BY <2>2, <2>8, OutputBefore DEF Running
  <2>10. main'.pc # "joinOutput"  BY <2>4
  <2>11. Held'  BY <2>2, <2>7, <2>9, <2>10 DEF Held, Running
  <2>. QED BY <2>4, <2>5, <2>11 DEF OutputInv, Late
<1>5. CASE ~output.flag
  <2>1. CallGoes(c, "stop", "out") /\ output' = output  BY <1>5 DEF StopTransmit
  <2>2. \A d \in Callers : output'.holder = d <=> call'[d] = "join"
    BY <1>1, <1>2, <1>3, <2>1, OutputBefore DEF CallGoes
  <2>3. /\ Calling' /\ ~Gone' /\ main.pc # "joinOutput" /\ main' = main
        /\ call[c] = "stop" /\ call'[c] = "out"
        /\ \A d \in Callers \ {c} : call'[d] = call[d]
        /\ (Halted' => c = "main" /\ call["tx"] = "out")
    BY <2>1, <2>2, CallMoves DEF StopTransmit, CallStates
  <2>4. \A d \in Callers : call'[d] = "started" <=> call[d] = "started"
    BY <2>3
  <2>5. Begun' = Begun  BY <2>4 DEF Begun
  <2>6. Held'  BY <2>1, <2>3, <2>4, <2>5, OutputBefore DEF Held
  <2>7. Halted' => (output.pump # "none" => output.quiet)
    <3>1. SUFFICES ASSUME Halted', output.pump # "none" PROVE output.quiet
      OBVIOUS
    <3>2. ~Begun  BY <2>3, <3>1 DEF Begun, Callers
    <3>. QED BY <1>3, <1>5, <2>3, <3>1, <3>2, OutputBefore DEF Running
  <2>8. Late'  BY <1>5, <2>1, <2>3, <2>7 DEF Late
  <2>. QED BY <2>3, <2>6, <2>8 DEF OutputInv
<1>. QED BY <1>4, <1>5

LEMMA JoinOutputOutput ==
  ASSUME IInv, ~output.aborted, NEW c \in Callers, JoinOutput(c)
  PROVE  OutputInv'
<1>1. call \in [Callers -> CallStates]  BY DEF IInv, OutputInv, Calling, CallStates
<1>2. CallGoes(c, "join", "out") /\ output.holder = c
  BY OutputBefore DEF JoinOutput, CallGoes
<1>3. /\ output' \in OutputRecord /\ output'.holder = "free" /\ ~output'.flag
      /\ output'.pump = "none" /\ output'.on = output.on
  BY OutputBefore DEF JoinOutput, OutputRecord
<1>4. \A d \in Callers : output'.holder = d <=> call'[d] = "join"
  <2>1. \A d \in Callers : call'[d] = IF d = c THEN "out" ELSE call[d]
    BY <1>1, <1>2 DEF CallGoes
  <2>2. \A d \in Callers : call'[d] # "join"  BY <1>2, <2>1, OutputBefore
  <2>. QED BY <1>3, <2>2, OutputBefore
<1>5. /\ Calling' /\ ~Gone' /\ main.pc # "joinOutput" /\ main' = main
      /\ call[c] = "join" /\ call'[c] = "out"
      /\ \A d \in Callers \ {c} : call'[d] = call[d]
  BY <1>2, <1>4, CallMoves DEF JoinOutput, CallStates
<1>6. ~output.on /\ ~Begun  BY <1>2, OutputBefore DEF Running
<1>7. ~Begun' /\ \A d \in Callers : call'[d] # "started"
  BY <1>5, <1>6 DEF Begun
<1>8. Running(output', FALSE, FALSE)  BY <1>3, <1>6 DEF Running
<1>9. main'.pc # "joinOutput"  BY <1>5
<1>10. Held'  BY <1>3, <1>7, <1>8, <1>9 DEF Held, Running
<1>11. Late'  BY <1>3, <1>5 DEF Late
<1>. QED BY <1>5, <1>10, <1>11 DEF OutputInv

LEMMA PumpOutput ==
  ASSUME IInv, ~output.aborted, Pump
  PROVE  OutputInv'
<1>1. /\ call' = call /\ main' = main /\ engine' = engine /\ tx' = tx
  BY DEF Pump, KeptByCalls
<1>2. /\ output' \in OutputRecord /\ output'.holder = output.holder
      /\ output'.flag = output.flag /\ output'.on = output.on
      /\ output'.quiet = output.quiet /\ output.pump # "none" /\ output'.pump # "none"
  BY OutputBefore DEF Pump, OutputRecord
<1>3. Calling'  BY <1>1, <1>2 DEF IInv, OutputInv, Calling
<1>4. Begun' = Begun  BY <1>1 DEF Begun
<1>5. Running(output', main.pc = "joinOutput", Begun)
  BY <1>2, OutputBefore DEF Running
<1>6. Held'  BY <1>1, <1>2, <1>4, <1>5, OutputBefore DEF Held
<1>7. Halted' = Halted /\ Gone' = Gone  BY <1>1 DEF Halted, Gone
<1>8. Late'  BY <1>2, <1>7 DEF IInv, OutputInv, Late
<1>. QED BY <1>3, <1>6, <1>8 DEF OutputInv

\* A call begins: nobody has the mutex or a start for it.
LEMMA CallBegins ==
  ASSUME IInv, ~output.aborted, NEW c \in Callers, NEW to \in {"in", "stop"},
         call[c] = "out", call' = [call EXCEPT ![c] = to], output' = output,
         engine' = engine, main'.pc # "joinOutput", main.pc # "joinOutput",
         engine # 0 /\ main'.pc \notin Freeing,
         c = "tx" => tx'.pc = "in" /\ main'.pc \in Open /\ main' = main,
         c = "main" => /\ main'.pc = "idle" \/ (main'.pc \in {"close", "decode"} /\ to = "stop")
                       /\ tx' = tx
  PROVE  OutputInv'
<1>1. Calling  BY DEF IInv, OutputInv
<1>2. /\ call' \in [Callers -> CallStates] /\ call'[c] = to
      /\ \A d \in Callers \ {c} : call'[d] = call[d]
  BY <1>1 DEF Calling, CallStates
<1>3. Calling'
  <2>1. \A d \in Callers : output'.holder = d <=> call'[d] = "join"
    BY <1>2, OutputBefore
  <2>2. CASE c = "tx"
    <3>1. call'["main"] = call["main"] /\ call'["tx"] = to  BY <1>2, <2>2 DEF Callers
    <3>. QED BY <1>1, <1>2, <2>1, <2>2, <3>1 DEF Calling, CallStates
  <2>3. CASE c = "main"
    <3>1. call'["main"] = to /\ call'["tx"] = call["tx"]  BY <1>2, <2>3 DEF Callers
    <3>. QED BY <1>1, <1>2, <2>1, <2>3, <3>1 DEF Calling, CallStates
  <2>. QED BY <2>2, <2>3 DEF Callers
<1>4. \A d \in Callers : call'[d] = "started" <=> call[d] = "started"  BY <1>2
<1>5. Begun' = Begun  BY <1>4 DEF Begun
<1>6. Held'  BY <1>4, <1>5, OutputBefore DEF Held
<1>7. ~Halted' /\ ~Gone'
  BY <1>2 DEF Halted, Halting, Gone, Open, Callers
<1>. QED BY <1>3, <1>6, <1>7 DEF OutputInv, Late

LEMMA MainCallsOutput ==
  ASSUME IInv, ~output.aborted, MainCalls
  PROVE  OutputInv'
<1>1. PICK to \in {"in", "stop"} : call' = [call EXCEPT !["main"] = to]  BY DEF MainCalls
<1>2. /\ main.pc = "idle" /\ call["main"] = "out" /\ engine # 0 /\ output' = output
      /\ main' = main /\ engine' = engine /\ tx' = tx
  BY DEF MainCalls, Idle, KeptByCalls
<1>3. /\ "main" \in Callers /\ main'.pc = "idle" /\ main'.pc \notin Freeing
      /\ main'.pc # "joinOutput" /\ main.pc # "joinOutput"
  BY <1>2 DEF Callers, Freeing
<1>. QED BY <1>1, <1>2, <1>3, CallBegins

LEMMA StopCallOutput ==
  ASSUME IInv, ~output.aborted, StopCall
  PROVE  OutputInv'
<1>1. /\ main.pc = "stop" /\ main'.pc = "close" /\ call["main"] = "out"
      /\ call' = [call EXCEPT !["main"] = "stop"]
  BY DEF StopCall, Goes, MainStopsTransmit, IInv, LifeInv, Types, MainRecord
<1>2. engine # 0  BY <1>1 DEF IInv, LifeInv, Captured
<1>3. output' = output /\ engine' = engine /\ tx' = tx  BY DEF StopCall, KeptByMain
<1>. QED BY <1>1, <1>2, <1>3, CallBegins DEF Callers, Freeing

LEMMA DestroyOutput ==
  ASSUME IInv, ~output.aborted, Destroy
  PROVE  OutputInv'
<1>1. /\ main.pc = "destroy" /\ main'.pc = "decode" /\ call["main"] = "out"
      /\ call' = [call EXCEPT !["main"] = "stop"]
  BY DEF Destroy, Goes, MainStopsTransmit, IInv, LifeInv, Types, MainRecord
<1>2. engine # 0  BY <1>1 DEF IInv, LifeInv, Captured
<1>3. output' = output /\ engine' = engine /\ tx' = tx  BY DEF Destroy, KeptByMain
<1>. QED BY <1>1, <1>2, <1>3, CallBegins DEF Callers, Freeing

LEMMA TxCallsOutput ==
  ASSUME IInv, ~output.aborted, TxCalls
  PROVE  OutputInv'
<1>1. /\ tx.pc = "read" /\ tx.engine \in Engines /\ call["tx"] = "out" /\ tx \in TxRecord
  BY DEF TxCalls, IInv, LifeInv, Types, OutputInv, Calling
<1>2. main' = main /\ engine' = engine /\ output' = output  BY DEF TxCalls, KeptByThreads
<1>3. CASE call' = call
  <2>1. UNCHANGED CallVars  BY <1>2, <1>3 DEF CallVars
  <2>. QED BY <1>1, <1>2, <2>1, OutputKept DEF IInv, Gone
<1>4. CASE /\ native[tx.engine].handle /\ tx' = [tx EXCEPT !.pc = "in"]
           /\ call' = [call EXCEPT !["tx"] = "in"]
  <2>1. tx.engine = engine /\ main.pc \in Open
    BY <1>1, <1>4 DEF IInv, LifeInv, AllStaged, Staged
  <2>2. engine # 0 /\ tx'.pc = "in"  BY <1>1, <1>4, <2>1, Constants DEF Engines, TxRecord
  <2>3. main.pc \notin Freeing /\ main.pc # "joinOutput"  BY <2>1 DEF Open, Freeing
  <2>. QED BY <1>1, <1>2, <1>4, <2>1, <2>2, <2>3, CallBegins DEF Callers
<1>5. CASE call' = [call EXCEPT !["tx"] = "out"]
  <2>1. call' = call  BY <1>1, <1>5 DEF IInv, OutputInv, Calling
  <2>. QED BY <1>3, <2>1
<1>. QED BY <1>3, <1>4, <1>5 DEF TxCalls

LEMMA TxReturnsOutput ==
  ASSUME IInv, TxReturns
  PROVE  OutputInv'
<1>1. main' = main /\ engine' = engine /\ output' = output /\ call' = call /\ call["tx"] = "out"
  BY DEF TxReturns, KeptByThreads
<1>2. UNCHANGED CallVars  BY <1>1 DEF CallVars
<1>. QED BY <1>1, <1>2, OutputKept DEF IInv, Gone

\* The destructor of the output joins whatever thread it finds.
LEMMA NobodyCalls ==
  ASSUME IInv, ~output.aborted, main.pc \in Halting, call["main"] = "out"
  PROVE  /\ ~Begun /\ output.holder = "free" /\ ~output.flag
         /\ output.pump # "none" => output.quiet
         /\ \A c \in Callers : call[c] = "out"
         /\ main.pc = "joinOutput" => ~output.on
<1>1. call["tx"] = "out"
  BY DEF IInv, LifeInv, Called, OutputInv, Calling, Halting, Open
<1>2. \A c \in Callers : call[c] = "out"  BY <1>1 DEF Callers
<1>3. output.holder = "free"  BY <1>2, OutputBefore DEF OutputRecord
<1>4. ~Begun  BY <1>2 DEF Begun
<1>5. ~output.flag /\ (output.pump # "none" => output.quiet)
  BY DEF IInv, OutputInv, Late, Halted
<1>6. main.pc = "joinOutput" => ~output.on  BY OutputBefore DEF Running
<1>. QED BY <1>2, <1>3, <1>4, <1>5, <1>6

LEMMA StopPumpOutput ==
  ASSUME IInv, ~output.aborted, StopPump
  PROVE  OutputInv'
<1>1. /\ main.pc = "output" /\ main'.pc = "joinOutput" /\ call["main"] = "out"
      /\ call' = call /\ engine' = engine /\ tx' = tx
  BY DEF StopPump, Goes, IInv, LifeInv, Types, MainRecord, KeptByMain
<1>2. /\ ~Begun /\ output.holder = "free" /\ ~output.flag
      /\ output.pump # "none" => output.quiet
      /\ \A c \in Callers : call[c] = "out"
  BY <1>1, NobodyCalls DEF Halting
<1>3. /\ output' \in OutputRecord /\ output'.holder = "free" /\ ~output'.flag
      /\ output'.pump = output.pump /\ output'.quiet = output.quiet /\ ~output'.on
  BY <1>2, OutputBefore DEF StopPump, OutputRecord
<1>4. Calling'
  <2>1. \A c \in Callers : output'.holder = c <=> call'[c] = "join"
    BY <1>1, <1>2, <1>3, OutputBefore
  <2>2. call["tx"] = "out" /\ call \in [Callers -> CallStates]
    BY <1>2 DEF Callers, IInv, OutputInv, Calling, CallStates
  <2>. QED BY <1>1, <2>1, <2>2 DEF Calling, CallStates
<1>5. Begun' = Begun  BY <1>1 DEF Begun
<1>6. Running(output', TRUE, FALSE)  BY <1>3 DEF Running
<1>7. Held'  BY <1>1, <1>2, <1>3, <1>5, <1>6 DEF Held, Running
<1>8. engine # 0  BY <1>1 DEF IInv, LifeInv, Captured
<1>9. Late'  BY <1>1, <1>2, <1>3, <1>8 DEF Late, Gone, Freeing
<1>. QED BY <1>4, <1>7, <1>9 DEF OutputInv

LEMMA JoinPumpOutput ==
  ASSUME IInv, ~output.aborted, JoinPump
  PROVE  OutputInv'
<1>1. /\ main.pc = "joinOutput" /\ main'.pc = "scheduler" /\ call["main"] = "out"
      /\ call' = call /\ engine' = engine /\ tx' = tx
  BY DEF JoinPump, Goes, IInv, LifeInv, Types, MainRecord, KeptByMain
<1>2. /\ ~Begun /\ output.holder = "free" /\ ~output.flag /\ ~output.on
      /\ \A c \in Callers : call[c] = "out"
  BY <1>1, NobodyCalls DEF Halting
<1>3. /\ output' \in OutputRecord /\ output'.holder = "free" /\ ~output'.flag
      /\ output'.pump = "none" /\ ~output'.on
  BY <1>2, OutputBefore DEF JoinPump, OutputRecord
<1>4. Calling'
  <2>1. \A c \in Callers : output'.holder = c <=> call'[c] = "join"
    BY <1>1, <1>2, <1>3, OutputBefore
  <2>2. call["tx"] = "out" /\ call \in [Callers -> CallStates]
    BY <1>2 DEF Callers, IInv, OutputInv, Calling, CallStates
  <2>. QED BY <1>1, <2>1, <2>2 DEF Calling, CallStates
<1>5. Begun' = Begun  BY <1>1 DEF Begun
<1>6. Running(output', FALSE, FALSE)  BY <1>3 DEF Running
<1>7. Held'  BY <1>1, <1>2, <1>3, <1>5, <1>6 DEF Held, Running
<1>8. Late'  BY <1>1, <1>3 DEF Late, Halted, Halting
<1>. QED BY <1>4, <1>7, <1>8 DEF OutputInv

LEMMA DeleteOutput ==
  ASSUME IInv, Delete
  PROVE  OutputInv'
<1>1. /\ main.pc = "delete" /\ main'.pc = "idle" /\ call["main"] = "out" /\ tx' = tx
      /\ UNCHANGED CallVars
  BY DEF Delete, Goes, IInv, LifeInv, Types, MainRecord, KeptByMain
<1>2. (call["tx"] # "out" => tx.pc = "in") /\ OutputInv  BY DEF IInv, OutputInv, Calling
<1>. QED BY <1>1, <1>2, OutputKept DEF Gone, Freeing, Halting

LEMMA StartEngineOutput ==
  ASSUME IInv, ~output.aborted, StartEngine
  PROVE  OutputInv'
<1>1. /\ engine = 0 /\ engine' # 0 /\ main'.pc = "capture" /\ call["main"] = "out"
      /\ call' = call /\ output' = NoOutput
  BY Constants DEF StartEngine, Idle, IInv, LifeInv, Types
<1>2. call["tx"] = "out"
  BY <1>1, Constants DEF IInv, LifeInv, Types, Called, OutputInv, Calling, Engines
<1>3. \A c \in Callers : call[c] = "out"  BY <1>1, <1>2 DEF Callers
<1>4. Calling'
  BY <1>1, <1>3 DEF IInv, OutputInv, Calling, Callers, NoOutput
<1>5. ~Begun'  BY <1>1, <1>3 DEF Begun
<1>6. Held'  BY <1>1, <1>3, <1>5 DEF Held, Running, OutputRecord, NoOutput
<1>7. Late'  BY <1>1 DEF Late, Halted, Gone, Halting, Freeing
<1>. QED BY <1>4, <1>6, <1>7 DEF OutputInv

\* The steps of the main looper.
LEMMA MainStepOutput ==
  ASSUME IInv, ~output.aborted, MainStep
  PROVE  OutputInv'
<1>. USE DEF Halting, Freeing
<1>1. CASE Capture
  <2>1. /\ main.pc = "capture" /\ main'.pc = "idle" /\ UNCHANGED <<engine, tx>>
        /\ UNCHANGED CallVars /\ call["main"] = "out"
    BY <1>1 DEF Capture, IInv, OutputInv, Calling
  <2>. QED BY <2>1, OutputOfMessages
<1>2. CASE JoinCapture
  <2>1. /\ main.pc = "join" /\ main'.pc \in {"capture", "stop"} /\ UNCHANGED <<engine, tx>>
        /\ UNCHANGED CallVars /\ call["main"] = "out"
    BY <1>2 DEF JoinCapture, IInv, LifeInv, Captured, OutputInv, Calling
  <2>. QED BY <2>1, OutputOfMessages
<1>3. CASE StopCall  BY <1>3, StopCallOutput
<1>4. CASE Close  BY <1>4, OutputOfMain DEF Close
<1>5. CASE Destroy  BY <1>5, DestroyOutput
<1>6. CASE StopWorker("decode", "joinDecode")  BY <1>6, OutputOfMain DEF StopWorker
<1>7. CASE JoinWorker("decode", "joinDecode", "spectrum")
  BY <1>7, OutputOfMain DEF JoinWorker
<1>8. CASE StopWorker("spectrum", "joinSpectrum")  BY <1>8, OutputOfMain DEF StopWorker
<1>9. CASE JoinWorker("spectrum", "joinSpectrum", "handler")
  BY <1>9, OutputOfMain DEF JoinWorker
<1>10. CASE DeleteHandler  BY <1>10, OutputOfMain DEF DeleteHandler
<1>11. CASE StopPump  BY <1>11, StopPumpOutput
<1>12. CASE JoinPump  BY <1>12, JoinPumpOutput
<1>13. CASE StopScheduler  BY <1>13, OutputOfMain DEF StopScheduler
<1>14. CASE NotifyScheduler  BY <1>14, OutputOfMain DEF NotifyScheduler
<1>15. CASE Delete  BY <1>15, DeleteOutput
<1>. QED BY <1>1, <1>2, <1>3, <1>4, <1>5, <1>6, <1>7, <1>8, <1>9, <1>10, <1>11, <1>12,
            <1>13, <1>14, <1>15 DEF MainStep

\* The messages of the main looper.
LEMMA MessagesOutput ==
  ASSUME IInv, \/ StopEngine \/ SwitchDevice
               \/ \E p \in posts : ScoPost(p) \/ SilencePost(p)
  PROVE  OutputInv'
<1>1. /\ main.pc = "idle" /\ call["main"] = "out" /\ UNCHANGED <<engine, tx>>
      /\ UNCHANGED CallVars
  BY DEF StopEngine, SwitchDevice, ScoPost, SilencePost, Idle
<1>2. main'.pc \in {"idle", "join"}
  BY <1>1 DEF StopEngine, SwitchDevice, ScoPost, SilencePost
<1>. QED BY <1>1, <1>2, OutputOfMessages

\* The steps of the other threads.
LEMMA ThreadsOutput ==
  ASSUME IInv, \/ TxReads
               \/ \E i \in DOMAIN captures : CaptureStep(i)
               \/ \E e \in Engines : SchedulerStep(e) \/ Spurious(e)
               \/ \E e \in Engines, w \in Workers : WorkerStep(e, w)
  PROVE  OutputInv'
<1>1. CASE TxReads
  <2>1. /\ tx.pc = "idle" /\ call' = call /\ main' = main /\ engine' = engine
        /\ output' = output
    BY <1>1 DEF TxReads, KeptByThreads
  <2>2. call["tx"] = "out" /\ OutputInv  BY <2>1 DEF IInv, OutputInv, Calling
  <2>. QED BY <2>1, <2>2, OutputKept DEF CallVars, Gone
<1>2. ASSUME NEW i \in DOMAIN captures, CaptureStep(i) PROVE OutputInv'
  BY <1>2, OutputOfThreads DEF CaptureStep, Record, SubmitAudio, Submitted
<1>3. ASSUME NEW e \in Engines, SchedulerStep(e) \/ Spurious(e) PROVE OutputInv'
  BY <1>3, OutputOfThreads DEF SchedulerStep, Spurious
<1>4. ASSUME NEW e \in Engines, NEW w \in Workers, WorkerStep(e, w) PROVE OutputInv'
  BY <1>4, OutputOfThreads DEF WorkerStep, Check, Emit
<1>. QED BY <1>1, <1>2, <1>3, <1>4

-----------------------------------------------------------------------------
(* Who is to end is told so and awake.                                       *)

\* No stage is reached that asks more of the workers, which stay as they are.
LEMMA WorkersKept ==
  ASSUME AllAlert, worker' = worker, engine' \in {0, engine},
         \A w \in Workers : /\ main'.pc \in Due(w) => main.pc \in Due(w)
                            /\ main'.pc = Joins(w) => main.pc = Joins(w)
  PROVE  AllAlert'
<1>1. ASSUME NEW e \in Engines PROVE Alert(worker[e], e = engine', main'.pc)
  <2>1. Alert(worker[e], e = engine, main.pc)  BY DEF AllAlert
  <2>2. e = engine' => e = engine  BY Constants DEF Engines
  <2>. QED BY <2>1, <2>2 DEF Alert
<1>. QED BY <1>1 DEF AllAlert

\* The workers of one engine change.
LEMMA WorkersChange ==
  ASSUME LifeInv, AllAlert, NEW e \in Engines, NEW t, worker' = [worker EXCEPT ![e] = t],
         engine' = engine, main' = main \/ e = engine, Alert(t, e = engine, main'.pc)
  PROVE  AllAlert'
<1>1. ASSUME NEW x \in Engines PROVE Alert(worker'[x], x = engine, main'.pc)
  <2>0. worker \in [Engines -> [Workers -> WorkerRecord]]  BY Before
  <2>1. CASE x = e  BY <2>0, <2>1
  <2>2. CASE x # e
    <3>1. worker'[x] = worker[x]  BY <2>0, <2>2
    <3>2. Alert(worker[x], x = engine, main.pc)  BY DEF AllAlert
    <3>3. CASE main' = main  BY <3>1, <3>2, <3>3
    <3>4. CASE e = engine  BY <3>1, <3>2, <3>4, <2>2 DEF Alert
    <3>. QED BY <3>3, <3>4
  <2>. QED BY <2>1, <2>2
<1>. QED BY <1>1 DEF AllAlert

\* One worker changes; the flag that stops it stays as it is.
LEMMA WorkerChanges ==
  ASSUME LifeInv, AllAlert, NEW e \in Engines, NEW w \in Workers, NEW v \in WorkerRecord,
         worker' = [worker EXCEPT ![e] = [@ EXCEPT ![w] = v]], UNCHANGED <<main, engine>>,
         v.stop = worker[e][w].stop, v.pc # "none",
         v.queued => v.pc \in {"check", "emit"}, v.stop => ~v.queued /\ v.pc # "wait",
         v.pc = "done" => v.stop
  PROVE  AllAlert'
<1>. DEFINE t == [worker[e] EXCEPT ![w] = v]
<1>1. worker[e] \in [Workers -> WorkerRecord]  BY Before
<1>2. Alert(worker[e], e = engine, main.pc)  BY DEF AllAlert
<1>3. t[w] = v /\ \A x \in Workers \ {w} : t[x] = worker[e][x]  BY <1>1
<1>4. worker' = [worker EXCEPT ![e] = t]  OBVIOUS
<1>. HIDE DEF t
<1>5. Alert(t, e = engine, main.pc)
  <2>. SUFFICES ASSUME NEW x \in Workers
                PROVE  /\ t[x].queued => t[x].pc \in {"check", "emit"}
                       /\ t[x].stop => ~t[x].queued /\ t[x].pc # "wait"
                       /\ e = engine => t[x].pc # "none"
                       /\ e = engine /\ main.pc \in Due(x) => ~t[x].stop /\ t[x].pc # "done"
                       /\ e = engine /\ main.pc = Joins(x) => t[x].stop
    BY DEF Alert
  <2>1. CASE x = w  BY <2>1, <1>2, <1>3 DEF Alert
  <2>2. CASE x # w  BY <2>2, <1>2, <1>3 DEF Alert
  <2>. QED BY <2>1, <2>2
<1>. QED BY <1>4, <1>5, WorkersChange

LEMMA CheckAlert ==
  ASSUME LifeInv, AllAlert, NEW e \in Engines, NEW w \in Workers, Check(e, w)
  PROVE  AllAlert'
<1>. DEFINE u == worker[e][w]
            v == IF u.stop THEN [u EXCEPT !.pc = "done"]
                 ELSE IF u.queued THEN [u EXCEPT !.queued = FALSE, !.pc = "emit"]
                 ELSE [u EXCEPT !.pc = "wait"]
<1>1. u \in WorkerRecord /\ worker \in [Engines -> [Workers -> WorkerRecord]]  BY Before
<1>2. u.stop => ~u.queued  BY DEF AllAlert, Alert
<1>3. /\ v \in WorkerRecord /\ v.stop = u.stop /\ v.pc # "none" /\ ~v.queued
      /\ v.stop => v.pc # "wait"
      /\ v.pc = "done" => v.stop
  BY <1>1, <1>2 DEF WorkerRecord
<1>4. worker' = [worker EXCEPT ![e] = [@ EXCEPT ![w] = v]]  BY <1>1 DEF Check
<1>5. UNCHANGED <<main, engine>>  BY DEF Check, KeptByThreads
<1>. HIDE DEF v
<1>. QED BY <1>3, <1>4, <1>5, WorkerChanges

\* A worker goes to look at its queue, after its work or for no reason.
LEMMA Looks ==
  ASSUME LifeInv, AllAlert, NEW e \in Engines, NEW w \in Workers,
         worker' = [worker EXCEPT ![e][w].pc = "check"], UNCHANGED <<main, engine>>
  PROVE  AllAlert'
<1>. DEFINE v == [worker[e][w] EXCEPT !.pc = "check"]
<1>1. /\ worker[e][w] \in WorkerRecord
      /\ worker \in [Engines -> [Workers -> WorkerRecord]]
  BY Before
<1>2. v \in WorkerRecord /\ v.stop = worker[e][w].stop /\ v.pc = "check"
      /\ v.queued = worker[e][w].queued
  BY <1>1 DEF WorkerRecord
<1>3. worker' = [worker EXCEPT ![e] = [@ EXCEPT ![w] = v]]  BY <1>1
<1>4. v.stop => ~v.queued  BY <1>2 DEF AllAlert, Alert
<1>. HIDE DEF v
<1>. QED BY <1>2, <1>3, <1>4, WorkerChanges

\* What is queued wakes its worker, which has not been told to end.
LEMMA SubmittedAlert ==
  ASSUME LifeInv, AllAlert, NEW i \in DOMAIN captures, Submitted(i)
  PROVE  AllAlert'
<1>1. engine \in Engines /\ captures[i].engine = engine /\ main.pc \in {"idle", "join"}
  BY TheCapture
<1>2. PICK for \in SUBSET Workers :
        worker' = [worker EXCEPT ![engine] =
                     [w \in Workers |-> IF w \in for THEN Queued(@[w]) ELSE @[w]]]
  BY <1>1 DEF Submitted
<1>. DEFINE t == [w \in Workers |-> IF w \in for THEN Queued(worker[engine][w])
                                                ELSE worker[engine][w]]
<1>3. worker' = [worker EXCEPT ![engine] = t]  BY <1>2
<1>4. \A w \in Workers : worker[engine][w] \in WorkerRecord  BY <1>1, Before
<1>5. Alert(worker[engine], TRUE, main.pc)  BY <1>1 DEF AllAlert, Alert
<1>6. \A w \in Workers : /\ main.pc \in Due(w) /\ main.pc # Joins(w)
                         /\ worker[engine][w].pc \in {"check", "emit", "wait"}
                         /\ ~worker[engine][w].stop
  BY <1>1, <1>4, <1>5 DEF Alert, WorkerRecord, Due, Open, Joins
<1>7. \A w \in Workers : /\ t[w].pc \in {"check", "emit", "wait"} /\ ~t[w].stop
                         /\ t[w].queued => t[w].pc \in {"check", "emit"}
  <2>. SUFFICES ASSUME NEW w \in Workers
                PROVE  /\ t[w].pc \in {"check", "emit", "wait"} /\ ~t[w].stop
                       /\ t[w].queued => t[w].pc \in {"check", "emit"}
    OBVIOUS
  <2>1. CASE w \in for
    <3>1. t[w] = Queued(worker[engine][w])  BY <2>1
    <3>. QED BY <3>1, <1>4, <1>6 DEF Queued, Notified, WorkerRecord
  <2>2. CASE w \notin for  BY <2>2, <1>5, <1>6 DEF Alert
  <2>. QED BY <2>1, <2>2
<1>. HIDE DEF t
<1>8. Alert(t, TRUE, main.pc)  BY <1>6, <1>7 DEF Alert
<1>9. UNCHANGED <<main, engine>>  BY DEF Submitted, KeptByThreads
<1>. QED BY <1>1, <1>3, <1>8, <1>9, WorkersChange DEF Alert

\* A worker is told to end, and woken.
LEMMA StopWorkerAlert ==
  ASSUME LifeInv, AllAlert, NEW w \in Workers, StopWorker(w, Joins(w))
  PROVE  AllAlert'
<1>. DEFINE t == [worker[engine] EXCEPT ![w] = Stopped(@)]
<1>1. /\ main.pc = w /\ main' = [main EXCEPT !.pc = Joins(w)] /\ engine' = engine
      /\ worker' = [worker EXCEPT ![engine][w] = Stopped(@)]
  BY DEF StopWorker, Goes
<1>2. engine \in Engines  BY <1>1, WhileEnding DEF Workers, Ending
<1>3. worker \in [Engines -> [Workers -> WorkerRecord]]  BY Before
<1>4. worker[engine] \in [Workers -> WorkerRecord]  BY <1>2, <1>3
<1>5. Alert(worker[engine], TRUE, main.pc)  BY <1>2 DEF AllAlert, Alert
<1>6. LET v == Stopped(worker[engine][w])
      IN  v.stop /\ ~v.queued /\ v.pc \notin {"wait", "none"}
  <2>1. worker[engine][w] \in WorkerRecord /\ worker[engine][w].pc # "none"
    BY <1>4, <1>5 DEF Alert
  <2>. QED BY <2>1 DEF Stopped, Notified, WorkerRecord
<1>7. /\ t[w].stop /\ ~t[w].queued /\ t[w].pc \notin {"wait", "none"}
      /\ \A x \in Workers \ {w} : t[x] = worker[engine][x]
  BY <1>4, <1>6
<1>8. worker' = [worker EXCEPT ![engine] = t]  BY <1>1
<1>9. main'.pc = Joins(w)  BY <1>1 DEF LifeInv, Types, MainRecord
<1>. HIDE DEF t
<1>10. Joins(w) \notin Due(w)  BY DEF Joins, Due, Open
<1>11. Alert(t, TRUE, Joins(w))
  <2>. SUFFICES ASSUME NEW x \in Workers
                PROVE  /\ t[x].queued => t[x].pc \in {"check", "emit"}
                       /\ t[x].stop => ~t[x].queued /\ t[x].pc # "wait"
                       /\ t[x].pc # "none"
                       /\ Joins(w) \in Due(x) => ~t[x].stop /\ t[x].pc # "done"
                       /\ Joins(w) = Joins(x) => t[x].stop
    BY DEF Alert
  <2>1. CASE x = w  BY <2>1, <1>7, <1>10
  <2>2. CASE x # w
    <3>1. t[x] = worker[engine][x]  BY <2>2, <1>7
    <3>2. /\ t[x].queued => t[x].pc \in {"check", "emit"}
          /\ t[x].stop => ~t[x].queued /\ t[x].pc # "wait"
          /\ t[x].pc # "none"
          /\ w \in Due(x) => ~t[x].stop /\ t[x].pc # "done"
      BY <3>1, <1>1, <1>5 DEF Alert
    <3>3. (Joins(w) \in Due(x) => w \in Due(x)) /\ Joins(w) # Joins(x)
      BY <2>2 DEF Joins, Due, Open, Workers
    <3>. QED BY <3>2, <3>3
  <2>. QED BY <2>1, <2>2
<1>12. Alert(t, engine = engine, main'.pc)  BY <1>9, <1>11 DEF Alert
<1>. QED BY <1>1, <1>2, <1>8, <1>12, WorkersChange

\* The workers of a new engine have nothing to do.
LEMMA StartEngineAlert == ASSUME LifeInv, AllAlert, StartEngine PROVE AllAlert'
<1>. DEFINE t == [w \in Workers |-> [pc |-> "check", stop |-> FALSE, queued |-> FALSE]]
<1>1. /\ engine = 0 /\ engine' = made + 1 /\ made + 1 \in Engines /\ main'.pc = "capture"
      /\ worker' = [worker EXCEPT ![made + 1] = t]
  BY Constants DEF StartEngine, LifeInv, Types, Engines
<1>2. Alert(t, TRUE, "capture")  BY DEF Alert, Joins
<1>. HIDE DEF t
<1>3. ASSUME NEW e \in Engines PROVE Alert(worker'[e], e = engine', "capture")
  <2>0. worker \in [Engines -> [Workers -> WorkerRecord]]  BY Before
  <2>1. CASE e = made + 1  BY <2>0, <2>1, <1>1, <1>2 DEF Alert
  <2>2. CASE e # made + 1
    <3>1. worker'[e] = worker[e] /\ e # engine'  BY <2>0, <2>2, <1>1
    <3>2. Alert(worker[e], e = engine, main.pc)  BY DEF AllAlert
    <3>. QED BY <3>1, <3>2 DEF Alert
  <2>. QED BY <2>1, <2>2
<1>. QED BY <1>1, <1>3 DEF AllAlert

\* The stage the main looper goes to.
LEMMA GoesTo ==
  ASSUME LifeInv, NEW from, NEW to, Goes(from, to)
  PROVE  main.pc = from /\ main'.pc = to
  BY DEF Goes, LifeInv, Types, MainRecord

\* Steps that do not touch the workers while the engine takes calls.
LEMMA WorkersStay ==
  ASSUME AllAlert, worker' = worker, engine' = engine,
         main' = main \/ (main.pc \in Open /\ main'.pc \in Open)
  PROVE  AllAlert'
<1>1. \A w \in Workers : /\ main'.pc \in Due(w) => main.pc \in Due(w)
                         /\ main'.pc = Joins(w) => main.pc = Joins(w)
  BY DEF Due, Joins, Open
<1>2. engine' \in {0, engine}  OBVIOUS
<1>. QED BY <1>1, <1>2, WorkersKept

LEMMA MainStepAlert == ASSUME LifeInv, AllAlert, MainStep PROVE AllAlert'
<1>1. CASE Capture
  BY <1>1, WorkersStay DEF Capture, Open
<1>2. CASE JoinCapture
  <2>1. main.pc = "join" /\ main'.pc \in {"capture", "stop"}
    BY <1>2 DEF JoinCapture, LifeInv, Captured
  <2>. QED BY <1>2, <2>1, WorkersStay DEF JoinCapture, Open
<1>3. CASE StopWorker("decode", "joinDecode")
  BY <1>3, StopWorkerAlert DEF Workers, Joins
<1>4. CASE StopWorker("spectrum", "joinSpectrum")
  BY <1>4, StopWorkerAlert DEF Workers, Joins
<1>5. ASSUME NEW from, NEW to, Goes(from, to), worker' = worker, engine' \in {0, engine},
             \/ from = "stop" /\ to = "close"
             \/ from = "close" /\ to = "destroy"
             \/ from = "destroy" /\ to = "decode"
             \/ from = "joinDecode" /\ to = "spectrum"
             \/ to \in {"handler", "output", "joinOutput", "scheduler", "notify", "delete"}
             \/ to = "idle" /\ engine' = 0
      PROVE  AllAlert'
  <2>1. main.pc = from /\ main'.pc = to  BY <1>5, GoesTo
  <2>2. CASE engine' = 0
    <3>1. ASSUME NEW e \in Engines PROVE Alert(worker[e], e = 0, main'.pc)
      <4>1. Alert(worker[e], e = engine, main.pc)  BY DEF AllAlert
      <4>2. e # 0  BY Constants DEF Engines
      <4>. QED BY <4>1, <4>2 DEF Alert
    <3>. QED BY <3>1, <2>2, <1>5 DEF AllAlert
  <2>3. CASE engine' # 0
    <3>1. \A w \in Workers : /\ to \in Due(w) => from \in Due(w)
                             /\ to # Joins(w)
      BY <1>5, <2>3 DEF Due, Joins, Open
    <3>. QED BY <1>5, <2>1, <3>1, WorkersKept
  <2>. QED BY <2>2, <2>3
<1>6. CASE StopCall
  <2>1. Goes("stop", "close") /\ worker' = worker /\ engine' \in {0, engine}
    BY <1>6 DEF StopCall
  <2>. QED BY <1>5, <2>1
<1>7. CASE Close  BY <1>5, <1>7 DEF Close
<1>8. CASE Destroy
  <2>1. Goes("destroy", "decode") /\ worker' = worker /\ engine' \in {0, engine}
    BY <1>8 DEF Destroy
  <2>. QED BY <1>5, <2>1
<1>9. CASE JoinWorker("decode", "joinDecode", "spectrum")  BY <1>5, <1>9 DEF JoinWorker
<1>10. CASE JoinWorker("spectrum", "joinSpectrum", "handler")  BY <1>5, <1>10 DEF JoinWorker
<1>11. CASE DeleteHandler  BY <1>5, <1>11 DEF DeleteHandler
<1>12. CASE StopPump  BY <1>5, <1>12 DEF StopPump
<1>13. CASE JoinPump  BY <1>5, <1>13 DEF JoinPump
<1>14. CASE StopScheduler  BY <1>5, <1>14 DEF StopScheduler
<1>15. CASE NotifyScheduler  BY <1>5, <1>15 DEF NotifyScheduler
<1>16. CASE Delete  BY <1>5, <1>16 DEF Delete
<1>. QED BY <1>1, <1>2, <1>3, <1>4, <1>6, <1>7, <1>8, <1>9, <1>10, <1>11, <1>12, <1>13,
            <1>14, <1>15, <1>16 DEF MainStep

LEMMA AlertSound == ASSUME LifeInv, AllAlert, Next PROVE AllAlert'
<1>1. CASE StartEngine  BY <1>1, StartEngineAlert
<1>2. CASE MainStep  BY <1>2, MainStepAlert
<1>3. CASE StopEngine \/ SwitchDevice \/ \E p \in posts : ScoPost(p) \/ SilencePost(p)
  BY <1>3, WorkersStay DEF StopEngine, SwitchDevice, ScoPost, SilencePost, Idle, Open
<1>4. CASE MainCalls \/ Pump \/ \E c \in Callers : CallStep(c)
  BY <1>4, WorkersStay DEF MainCalls, Pump, CallStep, Transmit, StartOutput, RecordOutput,
     StopTransmit, JoinOutput, KeptByCalls
<1>5. CASE TxReads \/ TxStep
  BY <1>5, WorkersStay DEF TxReads, TxStep, TxCalls, TxReturns, KeptByThreads
<1>6. ASSUME NEW i \in DOMAIN captures, CaptureStep(i) PROVE AllAlert'
  <2>1. CASE Submitted(i)  BY <2>1, SubmittedAlert
  <2>2. CASE Record(i) \/ SubmitAudio(i)
    BY <2>2, WorkersStay DEF Record, SubmitAudio, KeptByThreads
  <2>. QED BY <1>6, <2>1, <2>2 DEF CaptureStep
<1>7. ASSUME NEW e \in Engines, SchedulerStep(e) \/ Spurious(e) PROVE AllAlert'
  <2>1. CASE UNCHANGED worker
    BY <1>7, <2>1, WorkersStay DEF SchedulerStep, Spurious, KeptByThreads
  <2>2. ASSUME NEW w \in Workers, worker' = [worker EXCEPT ![e][w].pc = "check"],
               UNCHANGED <<main, engine>>
        PROVE  AllAlert'
    BY <2>2, Looks
  <2>. QED BY <1>7, <2>1, <2>2 DEF SchedulerStep, Spurious, KeptByThreads
<1>8. ASSUME NEW e \in Engines, NEW w \in Workers, WorkerStep(e, w) PROVE AllAlert'
  BY <1>8, CheckAlert, Looks DEF WorkerStep, Emit, KeptByThreads
<1>. QED BY <1>1, <1>2, <1>3, <1>4, <1>5, <1>6, <1>7, <1>8 DEF Next

\* The capture that is joined was told to end.
LEMMA ToldSound == ASSUME LifeInv, Told, Next PROVE Told'
<1>1. CASE main'.pc # "join"  BY <1>1 DEF Told
<1>2. CASE UNCHANGED <<main, captures, helper>>  BY <1>2 DEF Told
<1>3. ASSUME StopCapture, helper' = helper PROVE Told'
  <2>1. CASE helper = 0  BY <1>3, <2>1 DEF Told
  <2>2. CASE helper # 0
    <3>1. helper \in DOMAIN captures /\ captures[helper] \in CaptureRecord
      BY <2>2 DEF LifeInv, Captured
    <3>2. captures'[helper] = [captures[helper] EXCEPT !.recording = FALSE]
      BY <1>3, <3>1 DEF StopCapture
    <3>3. ~captures'[helper].recording  BY <3>1, <3>2 DEF CaptureRecord
    <3>. QED BY <1>3, <3>3 DEF Told
  <2>. QED BY <2>1, <2>2
<1>4. CASE StartEngine  BY <1>1, <1>4 DEF StartEngine
<1>5. CASE StopEngine  BY <1>3, <1>5 DEF StopEngine
<1>6. CASE SwitchDevice
  <2>1. CASE engine = 0
    BY <1>1, <1>6, <2>1 DEF SwitchDevice, Idle
  <2>2. CASE engine # 0  BY <1>3, <1>6, <2>2 DEF SwitchDevice
  <2>. QED BY <2>1, <2>2
<1>7. ASSUME NEW p \in posts, ScoPost(p) \/ SilencePost(p) PROVE Told'
  <2>1. CASE ScoPost(p)
    BY <1>1, <2>1 DEF ScoPost, Idle
  <2>2. CASE SilencePost(p)  BY <1>3, <2>2 DEF SilencePost
  <2>. QED BY <1>7, <2>1, <2>2
<1>8. CASE MainStep
  <2>1. ASSUME NEW from, NEW to \in Ending \cup {"idle"}, Goes(from, to) PROVE Told'
    BY <2>1, <1>1, GoesTo DEF Ending
  <2>2. CASE Capture  BY <1>1, <2>2 DEF Capture
  <2>3. CASE JoinCapture
    BY <1>1, <2>3 DEF JoinCapture, LifeInv, Captured
  <2>4. CASE StopCall \/ Close \/ Destroy  BY <2>1, <2>4 DEF StopCall, Close, Destroy, Ending
  <2>5. CASE StopWorker("decode", "joinDecode") \/ JoinWorker("decode", "joinDecode", "spectrum")
    BY <2>1, <2>5 DEF StopWorker, JoinWorker, Ending
  <2>6. CASE \/ StopWorker("spectrum", "joinSpectrum")
             \/ JoinWorker("spectrum", "joinSpectrum", "handler")
    BY <2>1, <2>6 DEF StopWorker, JoinWorker, Ending
  <2>7. CASE DeleteHandler \/ StopPump \/ JoinPump
    BY <2>1, <2>7 DEF DeleteHandler, StopPump, JoinPump, Ending
  <2>8. CASE StopScheduler \/ NotifyScheduler \/ Delete
    BY <2>1, <2>8 DEF StopScheduler, NotifyScheduler, Delete, Ending
  <2>. QED BY <1>8, <2>2, <2>3, <2>4, <2>5, <2>6, <2>7, <2>8 DEF MainStep
<1>9. CASE MainCalls \/ Pump \/ \E c \in Callers : CallStep(c)
  BY <1>2, <1>9 DEF MainCalls, Pump, CallStep, Transmit, StartOutput, RecordOutput,
     StopTransmit, JoinOutput, KeptByCalls
<1>10. CASE TxReads \/ TxStep
  BY <1>2, <1>10 DEF TxReads, TxStep, TxCalls, TxReturns, KeptByThreads
<1>11. ASSUME NEW i \in DOMAIN captures, CaptureStep(i) PROVE Told'
  <2>1. i = 1 /\ helper = 1 /\ captures[1] \in CaptureRecord /\ 1 \in DOMAIN captures
    BY TheCapture DEF LifeInv, Captured
  <2>2. ASSUME NEW from, NEW to, CaptureGoes(i, from, to), UNCHANGED <<main, helper>>
        PROVE  Told'
    <3>1. captures'[1] = [captures[1] EXCEPT !.pc = to]  BY <2>1, <2>2 DEF CaptureGoes
    <3>2. captures'[1].recording = captures[1].recording  BY <2>1, <3>1 DEF CaptureRecord
    <3>. QED BY <2>1, <2>2, <3>2 DEF Told
  <2>. QED BY <1>11, <2>2 DEF CaptureStep, Record, SubmitAudio, Submitted, KeptByThreads
<1>12. ASSUME NEW e \in Engines, SchedulerStep(e) \/ Spurious(e) PROVE Told'
  BY <1>2, <1>12 DEF SchedulerStep, Spurious, KeptByThreads
<1>13. ASSUME NEW e \in Engines, NEW w \in Workers, WorkerStep(e, w) PROVE Told'
  BY <1>2, <1>13 DEF WorkerStep, Check, Emit, KeptByThreads
<1>. QED BY <1>4, <1>5, <1>6, <1>7, <1>8, <1>9, <1>10, <1>11, <1>12, <1>13 DEF Next

\* The scheduler that is joined was told to end.
LEMMA ShutSound == ASSUME LifeInv, Shut, Next PROVE Shut'
<1>1. CASE main'.pc \notin {"notify", "delete"}  BY <1>1 DEF Shut
<1>2. CASE UNCHANGED <<main, engine, native>>  BY <1>2 DEF Shut
<1>3. CASE StartEngine  BY <1>1, <1>3 DEF StartEngine
<1>4. CASE StopEngine \/ SwitchDevice
  BY <1>1, <1>4 DEF StopEngine, SwitchDevice, Idle
<1>5. ASSUME NEW p \in posts, ScoPost(p) \/ SilencePost(p) PROVE Shut'
  BY <1>1, <1>5 DEF ScoPost, SilencePost, Idle
<1>6. CASE MainStep
  <2>1. ASSUME NEW from, NEW to, Goes(from, to), to \notin {"notify", "delete"} PROVE Shut'
    BY <2>1, <1>1, GoesTo
  <2>2. CASE Capture  BY <1>1, <2>2 DEF Capture
  <2>3. CASE JoinCapture
    BY <1>1, <2>3 DEF JoinCapture, LifeInv, Captured
  <2>4. CASE StopCall \/ Close \/ Destroy  BY <2>1, <2>4 DEF StopCall, Close, Destroy
  <2>5. CASE StopWorker("decode", "joinDecode") \/ JoinWorker("decode", "joinDecode", "spectrum")
    BY <2>1, <2>5 DEF StopWorker, JoinWorker
  <2>6. CASE \/ StopWorker("spectrum", "joinSpectrum")
             \/ JoinWorker("spectrum", "joinSpectrum", "handler")
    BY <2>1, <2>6 DEF StopWorker, JoinWorker
  <2>7. CASE DeleteHandler \/ StopPump \/ JoinPump \/ Delete
    BY <2>1, <2>7 DEF DeleteHandler, StopPump, JoinPump, Delete
  <2>8. CASE StopScheduler
    <3>1. engine \in Engines /\ engine' = engine
      BY <2>8, WhileEnding DEF StopScheduler, Goes, Ending
    <3>2. native[engine] \in NativeRecord /\ native \in [Engines -> NativeRecord]
      BY <3>1, InField, Before
    <3>3. native'[engine].running = FALSE
      BY <2>8, <3>1, <3>2 DEF StopScheduler, NativeRecord
    <3>. QED BY <3>1, <3>3 DEF Shut
  <2>9. CASE NotifyScheduler
    <3>1. engine \in Engines /\ engine' = engine /\ main.pc = "notify"
      BY <2>9, WhileEnding DEF NotifyScheduler, Goes, Ending
    <3>2. native[engine] \in NativeRecord /\ native \in [Engines -> NativeRecord]
      BY <3>1, InField, Before
    <3>3. native'[engine].running = native[engine].running
      BY <2>9, <3>1, <3>2 DEF NotifyScheduler, NativeRecord
    <3>. QED BY <3>1, <3>3 DEF Shut
  <2>. QED BY <1>6, <2>2, <2>3, <2>4, <2>5, <2>6, <2>7, <2>8, <2>9 DEF MainStep
<1>7. CASE MainCalls \/ Pump \/ \E c \in Callers : CallStep(c)
  BY <1>2, <1>7 DEF MainCalls, Pump, CallStep, Transmit, StartOutput, RecordOutput,
     StopTransmit, JoinOutput, KeptByCalls
<1>8. CASE TxReads \/ TxStep
  BY <1>2, <1>8 DEF TxReads, TxStep, TxCalls, TxReturns, KeptByThreads
<1>9. ASSUME NEW i \in DOMAIN captures, CaptureStep(i) PROVE Shut'
  BY <1>2, <1>9 DEF CaptureStep, Record, SubmitAudio, Submitted, KeptByThreads
<1>10. ASSUME NEW e \in Engines, SchedulerStep(e) \/ Spurious(e) PROVE Shut'
  <2>1. CASE UNCHANGED native
    BY <1>2, <1>10, <2>1 DEF SchedulerStep, Spurious, KeptByThreads
  <2>2. ASSUME NEW to, native' = [native EXCEPT ![e].scheduler = to],
               UNCHANGED <<main, engine>>
        PROVE  Shut'
    <3>1. CASE main.pc \in {"notify", "delete"}
      <4>1. engine \in Engines  BY <3>1, WhileEnding DEF Ending
      <4>2. native[engine] \in NativeRecord /\ native \in [Engines -> NativeRecord]
        BY <4>1, InField, Before
      <4>3. native'[engine].running = native[engine].running
        BY <2>2, <4>1, <4>2 DEF NativeRecord
      <4>. QED BY <2>2, <4>3 DEF Shut
    <3>2. CASE main.pc \notin {"notify", "delete"}  BY <1>1, <2>2, <3>2
    <3>. QED BY <3>1, <3>2
  <2>. QED BY <1>10, <2>1, <2>2 DEF SchedulerStep, Spurious, KeptByThreads
<1>11. ASSUME NEW e \in Engines, NEW w \in Workers, WorkerStep(e, w) PROVE Shut'
  BY <1>2, <1>11 DEF WorkerStep, Check, Emit, KeptByThreads
<1>. QED BY <1>3, <1>4, <1>5, <1>6, <1>7, <1>8, <1>9, <1>10, <1>11 DEF Next

-----------------------------------------------------------------------------
(* What the program promises.                                                *)

\* Every step keeps the life of the engine in order.
LEMMA LifeSound == LifeInv /\ Next => LifeInv'
<1>. SUFFICES ASSUME LifeInv, Next PROVE LifeInv'
  OBVIOUS
<1>1. CASE StartEngine  BY <1>1, StartEngineSound
<1>2. CASE StopEngine  BY <1>2, StopEngineSound
<1>3. CASE SwitchDevice  BY <1>3, SwitchDeviceSound
<1>4. CASE MainStep
  <2>0. "decode" \in Workers /\ "spectrum" \in Workers  BY DEF Workers
  <2>1. CASE Capture  BY <2>1, CaptureSound
  <2>2. CASE JoinCapture  BY <2>2, JoinCaptureSound
  <2>3. CASE StopCall  BY <2>3, StopCallSound
  <2>4. CASE Close  BY <2>4, CloseSound
  <2>5. CASE Destroy  BY <2>5, DestroySound
  <2>6. CASE StopWorker("decode", "joinDecode")
    BY <2>0, <2>6, StopWorkerSound
  <2>7. CASE JoinWorker("decode", "joinDecode", "spectrum")
    BY <2>0, <2>7, JoinWorkerSound
  <2>8. CASE StopWorker("spectrum", "joinSpectrum")
    BY <2>0, <2>8, StopWorkerSound
  <2>9. CASE JoinWorker("spectrum", "joinSpectrum", "handler")
    BY <2>0, <2>9, JoinWorkerSound
  <2>10. CASE DeleteHandler  BY <2>10, DeleteHandlerSound
  <2>11. CASE StopPump  BY <2>11, StopPumpSound
  <2>12. CASE JoinPump  BY <2>12, JoinPumpSound
  <2>13. CASE StopScheduler  BY <2>13, StopSchedulerSound
  <2>14. CASE NotifyScheduler  BY <2>14, NotifySchedulerSound
  <2>15. CASE Delete  BY <2>15, DeleteSound
  <2>. QED BY <1>4, <2>1, <2>2, <2>3, <2>4, <2>5, <2>6, <2>7, <2>8, <2>9, <2>10, <2>11,
              <2>12, <2>13, <2>14, <2>15 DEF MainStep
<1>5. CASE TxReads  BY <1>5, TxReadsSound
<1>6. CASE TxStep  BY <1>6, TxCallsSound, TxReturnsSound DEF TxStep
<1>7. ASSUME NEW p \in posts, ScoPost(p) \/ SilencePost(p) PROVE LifeInv'
  BY <1>7, ScoPostSound, SilencePostSound
<1>8. ASSUME NEW i \in DOMAIN captures, CaptureStep(i) PROVE LifeInv'
  BY <1>8, RecordSound, SubmitAudioSound, SubmittedSound DEF CaptureStep
<1>9. ASSUME NEW e \in Engines, SchedulerStep(e) \/ Spurious(e) PROVE LifeInv'
  BY <1>9, SchedulerStepSound, SpuriousSound
<1>10. ASSUME NEW e \in Engines, NEW w \in Workers, WorkerStep(e, w) PROVE LifeInv'
  BY <1>10, CheckSound, EmitSound DEF WorkerStep
<1>11. CASE UNCHANGED KeptByCalls  BY <1>11, CallsKeepLife
<1>12. ASSUME NEW c \in Callers, CallStep(c) PROVE UNCHANGED KeptByCalls
  BY <1>12 DEF CallStep, Transmit, StartOutput, RecordOutput, StopTransmit, JoinOutput
<1>13. MainCalls \/ Pump => UNCHANGED KeptByCalls  BY DEF MainCalls, Pump
<1>. QED BY <1>1, <1>2, <1>3, <1>4, <1>5, <1>6, <1>7, <1>8, <1>9, <1>10, <1>11, <1>12,
            <1>13 DEF Next

\* Every step keeps the output in order.
LEMMA OutputSound == IInv /\ Next => OutputInv'
<1>. SUFFICES ASSUME IInv, Next PROVE OutputInv'
  OBVIOUS
<1>1. ~output.aborted  BY DEF Next
<1>2. CASE StartEngine  BY <1>1, <1>2, StartEngineOutput
<1>3. CASE MainCalls  BY <1>1, <1>3, MainCallsOutput
<1>4. CASE MainStep  BY <1>1, <1>4, MainStepOutput
<1>5. CASE TxStep  BY <1>1, <1>5, TxCallsOutput, TxReturnsOutput DEF TxStep
<1>6. CASE Pump  BY <1>1, <1>6, PumpOutput
<1>7. ASSUME NEW c \in Callers, CallStep(c) PROVE OutputInv'
  BY <1>1, <1>7, TransmitOutput, StartOutputOutput, RecordOutputOutput, StopTransmitOutput,
     JoinOutputOutput DEF CallStep
<1>8. CASE StopEngine \/ SwitchDevice \/ \E p \in posts : ScoPost(p) \/ SilencePost(p)
  BY <1>8, MessagesOutput
<1>9. CASE \/ TxReads
           \/ \E i \in DOMAIN captures : CaptureStep(i)
           \/ \E e \in Engines : SchedulerStep(e) \/ Spurious(e)
           \/ \E e \in Engines, w \in Workers : WorkerStep(e, w)
  BY <1>9, ThreadsOutput
<1>. QED BY <1>2, <1>3, <1>4, <1>5, <1>6, <1>7, <1>8, <1>9 DEF Next

LEMMA NextSound == IInv /\ [Next]_vars => IInv'
<1>. SUFFICES ASSUME IInv, [Next]_vars PROVE IInv'
  OBVIOUS
<1>1. CASE Next  BY <1>1, LifeSound, OutputSound DEF IInv
<1>2. CASE UNCHANGED vars
  <2>1. UNCHANGED KeptByCalls /\ call' = call /\ output' = output /\ main' = main
        /\ engine' = engine /\ tx' = tx
    BY <1>2 DEF vars, KeptByCalls
  <2>2. LifeInv'  BY <2>1, CallsKeepLife DEF IInv
  <2>3. (call["tx"] # "out" => tx.pc = "in") /\ OutputInv  BY DEF IInv, OutputInv, Calling
  <2>4. OutputInv'  BY <2>1, <2>3, OutputKept DEF CallVars, Gone
  <2>. QED BY <2>2, <2>4 DEF IInv
<1>. QED BY <1>1, <1>2

\* IInv is inductive: what is left of an engine at each stage of its end
\* (js8_engine_jni.cpp, engine.cpp, scheduler_android.cpp), what captures and posts
\* stand for (JS8EngineService.kt), and when the output runs, with which flag and under
\* whose calls (engine.cpp start_tx_output, stop_transmit).
THEOREM InductiveInvariant == Spec => []IInv
<1>1. Init => IInv  BY InitSound
<1>2. IInv /\ [Next]_vars => IInv'  BY NextSound
<1>. QED BY <1>1, <1>2, PTL DEF Spec

\* The variables keep their types, and the capture threads are within their bound.
THEOREM TypeCorrect == Spec => []TypeOK
<1>1. IInv => TypeOK
  <2>. SUFFICES ASSUME IInv PROVE TypeOK
    OBVIOUS
  <2>1. /\ main.then \in {"idle", "capture", "stop"} /\ tx.pc \in {"idle", "read", "in", "thrown"}
        /\ engine \in 0..made /\ made \in 0..MaxEngines
    BY DEF IInv, LifeInv, Types, MainRecord, TxRecord
  <2>2. /\ native \in [Engines -> NativeRecord]
        /\ worker \in [Engines -> [Workers -> WorkerRecord]]
    BY DEF IInv, LifeInv, Types
  <2>3. helper \in 0..Len(captures) /\ Len(captures) <= MaxCaptures
    BY Constants DEF IInv, LifeInv, Captured, MaxCaptures
  <2>4. \A i \in DOMAIN captures : captures[i].engine \in Engines
    BY TheCapture DEF IInv
  <2>5. /\ call \in [Callers -> CallStates] /\ output \in OutputRecord
    BY DEF IInv, OutputInv, Calling, Held, CallStates
  <2>. QED BY <2>1, <2>2, <2>3, <2>4, <2>5
       DEF TypeOK, NativeRecord, WorkerRecord, CallStates, OutputRecord
<1>. QED BY <1>1, InductiveInvariant, PTL

\* The engine of the field is there with its handler until the spectrum worker is joined.
LEMMA WholeIsAlive ==
  ASSUME IInv, engine # 0, main.pc \in Whole
  PROVE  Alive(engine)
<1>1. engine \in Engines  BY Constants DEF IInv, LifeInv, Types, Engines
<1>2. Staged(native[engine], worker[engine], TRUE, main.pc)  BY <1>1, InField DEF IInv
<1>. QED BY <1>2 DEF Staged, Alive

\* Nothing is used after its end, whatever call was under way when the engine was closed
\* and whichever caller started the output meanwhile, but for an output whose flag a
\* refused start has cleared (js8_engine_jni.cpp js8_engine_destroy, JS8Engine.kt close,
\* engine.cpp stop_transmit).
THEOREM NothingEverDangles == Spec => []NothingDangles
<1>1. IInv => NothingDangles
  <2>. SUFFICES ASSUME IInv PROVE NothingDangles
    OBVIOUS
  <2>0. LifeInv /\ Calling /\ Late  BY DEF IInv, OutputInv
  <2>1. \A i \in DOMAIN captures :
          /\ captures[i].pc # "thrown" /\ captures[i].engine = engine
          /\ main.pc \in {"idle", "join"}
    BY <2>0, TheCapture DEF LifeInv, Captured
  <2>2. ASSUME NEW e \in Engines, InCall(e) PROVE native[e].life = "live"
    <3>1. e = engine /\ main.pc \in Open
      <4>1. CASE tx.pc = "in" /\ tx.engine = e  BY <2>0, <4>1 DEF LifeInv, Called
      <4>2. CASE \E i \in DOMAIN captures : captures[i].pc = "in" /\ captures[i].engine = e
        BY <4>2, <2>1 DEF Open
      <4>. QED BY <2>2, <4>1, <4>2 DEF InCall
    <3>. QED BY <2>0, <3>1, Before DEF Staged, Whole
  <2>3. ASSUME NEW e \in Engines, NEW w \in Workers, worker[e][w].pc \notin {"none", "done"}
        PROVE  Alive(e)
    <3>1. Staged(native[e], worker[e], e = engine, main.pc)  BY <2>0, Before
    <3>2. e = engine /\ main.pc \in Whole  BY <2>3, <3>1 DEF Staged, Working
    <3>3. e # 0  BY Constants DEF Engines
    <3>. QED BY <3>2, <3>3, WholeIsAlive
  <2>4. ASSUME NEW e \in Engines
        PROVE  native[e].scheduler \notin {"none", "done"} => native[e].life # "freed"
    BY <2>0, Before DEF Staged
  <2>5. ASSUME NEW c \in Callers, call[c] # "out" PROVE Alive(engine)
    <3>1. CASE c = "main"
      BY <2>0, <2>5, <3>1, WholeIsAlive DEF Calling, Whole, Open
    <3>2. CASE c = "tx"
      <4>1. tx.engine \in Engines /\ tx.engine = engine /\ main.pc \in Open
        BY <2>0, <2>5, <3>2 DEF Calling, LifeInv, Types, Called
      <4>. QED BY <4>1, WholeIsAlive, Constants DEF Whole, Engines
    <3>. QED BY <3>1, <3>2 DEF Callers
  <2>6. output.pump # "none" => Alive(engine) \/ output.quiet
    <3>. SUFFICES ASSUME output.pump # "none" PROVE Alive(engine) \/ output.quiet
      OBVIOUS
    <3>1. engine # 0 /\ main.pc \notin Freeing  BY <2>0 DEF Late, Gone
    <3>2. CASE main.pc \in Whole  BY <3>1, <3>2, WholeIsAlive
    <3>3. CASE main.pc \notin Whole
      <4>1. main.pc \in {"handler", "output", "joinOutput"}
        BY <2>0, <3>1, <3>3 DEF LifeInv, Types, MainRecord, Ending, Whole, Open, Freeing
      <4>2. call["main"] = "out"  BY <2>0, <4>1 DEF Calling
      <4>. QED BY <2>0, <4>1, <4>2 DEF Late, Halted, Halting
    <3>. QED BY <3>2, <3>3
  <2>. QED BY <2>1, <2>2, <2>3, <2>4, <2>5, <2>6 DEF NothingDangles
<1>. QED BY <1>1, InductiveInvariant, PTL

\* One capture at a time, whatever posts and changes of device came before
\* (JS8EngineService.kt waitForScoActive, switchAudioDevice).
THEOREM OnlyOneCapture == Spec => []OneCapture
<1>1. IInv => OneCapture
  <2>. SUFFICES ASSUME IInv PROVE OneCapture
    OBVIOUS
  <2>. DEFINE S == {i \in DOMAIN captures : captures[i].pc # "done"}
  <2>1. S \subseteq {1}  BY TheCapture DEF IInv
  <2>2. IsFiniteSet({1}) /\ Cardinality({1}) = 1  BY FS_Singleton
  <2>3. IsFiniteSet(S) /\ Cardinality(S) <= 1  BY <2>1, <2>2, FS_Subset
  <2>. QED BY <2>3 DEF OneCapture
<1>. QED BY <1>1, InductiveInvariant, PTL

\* StopInv is invariant with IInv: who is told to end, when, and who sleeps (engine.cpp
\* stop_decode_worker, enqueue_decode; JS8AudioHelper.kt stopCapture;
\* scheduler_android.cpp).
THEOREM StopInvariant == Spec => []StopInv
<1>1. Init => StopInv
  <2>. SUFFICES ASSUME Init PROVE StopInv
    OBVIOUS
  <2>1. AllAlert  BY Constants DEF Init, AllAlert, Alert, Engines, Workers
  <2>2. Told /\ Shut  BY DEF Init, Told, Shut
  <2>. QED BY <2>1, <2>2 DEF StopInv
<1>2. IInv /\ StopInv /\ [Next]_vars => StopInv'
  <2>. SUFFICES ASSUME IInv, StopInv, [Next]_vars PROVE StopInv'
    OBVIOUS
  <2>1. LifeInv /\ AllAlert /\ Told /\ Shut  BY DEF IInv, StopInv
  <2>2. CASE Next  BY <2>1, <2>2, AlertSound, ToldSound, ShutSound DEF StopInv
  <2>3. CASE UNCHANGED vars
    <3>1. UNCHANGED <<main, engine, native, worker, captures, helper>>  BY <2>3 DEF vars
    <3>2. AllAlert'  BY <2>1, <3>1, WorkersStay
    <3>3. Told' /\ Shut'  BY <2>1, <3>1 DEF Told, Shut
    <3>. QED BY <3>2, <3>3 DEF StopInv
  <2>. QED BY <2>2, <2>3
<1>. QED BY <1>1, <1>2, InductiveInvariant, PTL DEF Spec

\* A worker is awake while something is queued for it (engine.cpp enqueue_decode,
\* decode_worker_loop, stop_decode_worker).
THEOREM WorkersStayAwake == Spec => []WorkersAwake
<1>1. StopInv => WorkersAwake  BY DEF StopInv, AllAlert, Alert, WorkersAwake
<1>. QED BY <1>1, StopInvariant, PTL

\* Whoever the main looper waits for, to stop the engine, was told to end, is awake and
\* waits for nobody who waits for the main looper, but for the scheduler whose wake-up
\* was lost and the output that waits for the mutex of who joins it (JS8EngineService.kt
\* stopEngine, js8_engine_jni.cpp js8_engine_destroy, the destructors of engine.cpp).
THEOREM StoppingNeverSticks == Spec => []StopNeverStuck
<1>1. IInv /\ StopInv => StopNeverStuck
  <2>. SUFFICES ASSUME IInv, StopInv, ~output.aborted, ~JoinStuck, ~LostWakeUp
                PROVE  StopNeverStuck
    BY DEF StopNeverStuck
  <2>0. /\ LifeInv /\ Calling /\ AllAlert /\ Told /\ Shut
        /\ Running(output, main.pc = "joinOutput", Begun)
    BY DEF IInv, OutputInv, Held, StopInv
  <2>1. CallsEnd
    <3>. SUFFICES ASSUME NEW c \in Callers, output.holder # "free"
                  PROVE  ~output.on /\ output.pump \in {"check", "exited"}
      BY <2>0 DEF CallsEnd, Calling, Callers
    <3>1. ~output.on /\ output.pump # "none" /\ output.pump # "fill"
      BY <2>0 DEF Running, JoinStuck
    <3>. QED BY <3>1 DEF IInv, OutputInv, Held, OutputRecord
  <2>2. main.pc = "join" /\ helper # 0 => CaptureEnds(helper)
    <3>. SUFFICES ASSUME main.pc = "join", helper # 0 PROVE CaptureEnds(helper)
      OBVIOUS
    <3>1. captures[helper].pc # "thrown"  BY <2>0 DEF LifeInv, Captured
    <3>2. Readable(captures[helper].engine)  BY DEF Readable
    <3>. QED BY <2>0, <3>1, <3>2 DEF Told, CaptureEnds
  <2>3. main.pc = "close" /\ InCall(engine) => tx.pc = "in"
    BY <2>0, TheCapture DEF InCall
  <2>4. ASSUME NEW w \in Workers, main.pc = Joins(w) PROVE WorkerEnds(w)
    <3>1. engine \in Engines  BY <2>0, <2>4, WhileEnding DEF Joins, Ending
    <3>. QED BY <2>0, <2>4, <3>1 DEF AllAlert, Alert, WorkerEnds
  <2>5. main.pc = "joinOutput" => ~output.on /\ output.holder = "free"
    <3>. SUFFICES ASSUME main.pc = "joinOutput" PROVE ~output.on /\ output.holder = "free"
      OBVIOUS
    <3>1. ~output.on  BY <2>0 DEF Running
    <3>2. call["main"] = "out" /\ call["tx"] = "out"
      BY <2>0 DEF Calling, LifeInv, Called, Open
    <3>3. output.holder \in Callers \cup {"free"}
      BY DEF IInv, OutputInv, Held, OutputRecord
    <3>. QED BY <2>0, <3>1, <3>2, <3>3 DEF Calling, Callers
  <2>6. main.pc = "delete" => ~native[engine].running  BY <2>0 DEF Shut
  <2>7. /\ main.pc = "joinDecode" => WorkerEnds("decode")
        /\ main.pc = "joinSpectrum" => WorkerEnds("spectrum")
    BY <2>4 DEF Workers, Joins
  <2>. QED BY <2>1, <2>2, <2>3, <2>5, <2>6, <2>7 DEF StopNeverStuck
<1>. QED BY <1>1, InductiveInvariant, StopInvariant, PTL
=============================================================================
