----------------------------- MODULE RigControl -----------------------------
(***************************************************************************)
(* Rig control of the desktop program.  A transceiver object lives on a    *)
(* thread of its own (TransceiverBase.cpp, PollingTransceiver.cpp, behind  *)
(* EmulateSplitTransceiver.cpp if split operation is emulated).  The user  *)
(* interface (Configuration.cpp, mainwindow.cpp) sends it the state it     *)
(* wants, numbered, and keeps a cache of what comes back.  Calls and       *)
(* signals between the threads wait in two queues; a slot runs to its end, *)
(* with everything it calls, and is one step.  The rig may refuse a CAT    *)
(* command, after or before it took effect, and its dial may be turned.    *)
(***************************************************************************)
EXTENDS Integers, Sequences, FiniteSets

CONSTANTS Freqs,       \* frequencies the user or the operator may choose
          FirstFreq,   \* the frequency the rig is on at first
          TxFreq,      \* the transmit frequency of split operation
          Split,       \* BOOLEAN: split is configured, as emulation
          PollsToStabilize, \* polls a change is waited for; 3 in the code
          MaxObjects,  \* bound: transceiver objects created
          MaxCommands, \* bound: what the user does with the rig
          MaxKeys,     \* bound: transmissions
          MaxTroubles, \* bound: turns of the dial and refused CAT commands
          MaxPending   \* bound: signals that wait, before more is done

RigControlAssumption ==
    /\ Freqs \subseteq Nat \ {0} /\ FirstFreq \in Freqs /\ TxFreq \in Nat \ ({0} \cup Freqs)
    /\ Split \in BOOLEAN
    /\ {PollsToStabilize, MaxObjects, MaxPending} \subseteq Nat \ {0}
    /\ {MaxCommands, MaxKeys, MaxTroubles} \subseteq Nat
ASSUME RigControlAssumption

VARIABLES
    calls,    \* slots of transceivers that wait on their thread
    signals,  \* signals that wait on the thread of the user interface
    objects,  \* the transceiver objects, in the order of their creation
    rig,      \* the radio: frequency, keyed; a release was refused, the dial turned
    active,   \* rig_active_: the newest object is connected
    cached,   \* cached_rig_state_
    command,  \* transceiver_command_number_
    client,   \* MainWindow: m_rigState, m_freqNominal and the transmission
    used      \* what is used up of the bounds

vars == <<calls, signals, objects, rig, active, cached, command, client, used>>

NoState == [online |-> FALSE, freq |-> 0, ptt |-> FALSE, tx |-> 0, split |-> FALSE]

\* A transceiver: the states of TransceiverBase (requested_, actual_, last_, seq for
\* last_sequence_number_), of PollingTransceiver (next_state_, retries_, timer) and
\* what EmulateSplitTransceiver keeps of the last call of set (asked).
NewObject ==
    [requested |-> NoState, actual |-> NoState, last |-> NoState, seq |-> 0,
     next |-> NoState, signalled |-> NoState, retries |-> 0, timer |-> FALSE,
     asked |-> NoState]

-----------------------------------------------------------------------------
(***************************************************************************)
(* The code of a slot, as functions of a context: the object, the rig, the *)
(* signals emitted, the commands sent so far and whether an exception is   *)
(* under way.  bad says which commands fail, took whether they take effect *)
(* all the same.                                                           *)
(***************************************************************************)
Context(o, bad, took) ==
    [o |-> o, rig |-> rig, out |-> <<>>, n |-> 0, thrown |-> FALSE,
     bad |-> bad, took |-> took]

\* A CAT command that brings the rig to state r.
Command(c, r) ==
    IF c.thrown THEN c
    ELSE IF c.n + 1 \in c.bad
    THEN [c EXCEPT !.n = @ + 1, !.thrown = TRUE, !.rig = IF c.took THEN r ELSE @]
    ELSE [c EXCEPT !.n = @ + 1, !.rig = r]

Hold(o) == [o EXCEPT !.retries = PollsToStabilize]

\* What the client sees of a state: EmulateSplitTransceiver::handle_update.
Seen(o, s) ==
    IF ~Split THEN s
    ELSE [s EXCEPT !.freq = IF s.ptt THEN o.asked.freq ELSE @,
                   !.tx = o.asked.tx, !.split = o.asked.split]

\* Mutant: an update is emitted on a change only, forced or not.
UpdatesOnChange(c, force) ==
    LET o == c.o
    IN IF (force \/ o.retries = 0 \/ o.actual = o.next) /\ o.actual # o.last
       THEN [c EXCEPT !.out = Append(@, [kind |-> "update", seq |-> o.seq,
                                         state |-> Seen(o, o.actual)]),
                      !.o.last = o.actual]
       ELSE c

\* update_complete with do_pre_update.  The destructor of may_update calls it, an
\* exception or not.
UpdateComplete(c, force) ==
    LET o == c.o
    IN IF force \/ ((o.retries = 0 \/ o.actual = o.next) /\ o.actual # o.last)
       THEN [c EXCEPT !.out = Append(@, [kind |-> "update", seq |-> o.seq,
                                         state |-> Seen(o, o.actual)]),
                      !.o.last = o.actual]
       ELSE c

\* do_ptt and do_post_ptt.
DoPtt(c, on) ==
    LET d == Command(c, [c.rig EXCEPT !.keyed = on, !.refused = FALSE])
        o == [d.o EXCEPT !.actual.ptt = on, !.next.ptt = on]
    IN IF c.thrown THEN c
       ELSE IF d.thrown THEN [d EXCEPT !.rig.refused = ~on \/ @]
       ELSE [d EXCEPT !.o = IF d.o.next.ptt # on THEN Hold(o) ELSE o]

\* do_frequency and do_post_frequency, and the record of what changed.
DoFrequency(c, f) ==
    LET d == Command(c, [c.rig EXCEPT !.freq = f])
        o == [d.o EXCEPT !.actual.freq = f, !.requested.freq = f, !.next.freq = f]
    IN IF d.thrown THEN d
       ELSE [d EXCEPT !.o = IF d.o.next.freq # f THEN Hold(o) ELSE o]

\* Mutant: shutdown forgets to release PTT.
ShutdownKeyed(c) ==
    UpdateComplete([c EXCEPT !.o.timer = FALSE, !.o.actual.online = FALSE,
                             !.o.requested.online = FALSE], FALSE)

\* shutdown: what goes wrong with the release of PTT is swallowed.
Shutdown(c) ==
    LET d == IF c.o.requested.online
             THEN [DoPtt(c, FALSE) EXCEPT !.thrown = FALSE] ELSE c
    IN UpdateComplete([d EXCEPT !.o.timer = FALSE, !.o.actual.online = FALSE,
                                !.o.requested.online = FALSE], FALSE)

\* startup: opening the rig reads its frequency.
Startup(c) ==
    LET d == Command(c, c.rig)
        o == [d.o EXCEPT !.actual.freq = c.rig.freq, !.requested.freq = c.rig.freq,
                         !.timer = TRUE, !.next.online = TRUE,
                         !.actual.online = TRUE, !.requested.online = TRUE]
    IN IF d.thrown THEN d
       ELSE [d EXCEPT !.o = IF d.o.next.online THEN o ELSE Hold(o)]

\* The end of start and set: the number is kept if nothing was thrown, an update
\* is forced in either case, and an exception takes the rig offline.
Offline(c) ==
    Shutdown([c EXCEPT !.thrown = FALSE, !.out = Append(@, [kind |-> "failure"])])

Finish(c, seq) ==
    LET d == UpdateComplete(IF c.thrown THEN c ELSE [c EXCEPT !.o.seq = seq], TRUE)
    IN IF d.thrown THEN Offline(d) ELSE d

Start(c, seq) == Finish(Startup(Shutdown(c)), seq)

\* set, for a state that wants to be online, as every caller does.
SetState(c, s) ==
    LET up  == IF c.o.requested.online THEN c ELSE Startup(Shutdown(c))
        on  == s.ptt /\ ~up.o.requested.ptt
        off == ~s.ptt /\ up.o.requested.ptt
        a   == IF off THEN DoPtt(up, FALSE) ELSE up
        b   == IF s.freq # 0 /\ (s.freq # a.o.requested.freq \/ off)
               THEN DoFrequency(a, s.freq) ELSE a
        d   == IF on THEN DoPtt(b, TRUE) ELSE b
    IN IF d.thrown THEN d ELSE [d EXCEPT !.o.requested.ptt = d.o.actual.ptt]

\* Mutant: the frequency is left to the caller.
NotEmulated(s) == s

\* EmulateSplitTransceiver::set: keyed, the rig is to be on the transmit frequency.
Emulated(s) ==
    IF Split /\ s.ptt /\ s.split THEN [s EXCEPT !.freq = s.tx] ELSE s

Set(c, s, seq) ==
    Finish(SetState([c EXCEPT !.o.asked = s], Emulated(s)), seq)

\* stop.  Its signal finished destroys the object; no slot of it is called any more.
Stop(c) == [Shutdown(c) EXCEPT !.o = NewObject]

\* Mutant: retries are counted down below zero.
TimeoutUnchecked(c) ==
    LET d == Command(c, c.rig)
    IN IF d.thrown THEN Offline(d) ELSE [d EXCEPT !.o.retries = @ - 1]

\* handle_timeout: do_sync after a poll.
Timeout(c) ==
    LET d == Command(c, c.rig)
        p == [d.o EXCEPT !.actual.freq = c.rig.freq,
                         !.requested.freq = c.rig.freq,
                         !.actual.ptt = c.rig.keyed]
        now == IF p.retries > 0
               THEN p.actual = p.next \/ p.retries = 1
               ELSE p.actual # p.signalled
        o == IF now THEN [p EXCEPT !.retries = 0, !.next = p.actual,
                                   !.signalled = p.actual]
             ELSE [p EXCEPT !.retries = IF @ > 0 THEN @ - 1 ELSE 0]
    IN IF d.thrown THEN Offline(d)
       ELSE IF now THEN UpdateComplete([d EXCEPT !.o = o], TRUE)
       ELSE [d EXCEPT !.o = o]

-----------------------------------------------------------------------------
\* The transceiver thread runs a slot of object i with the outcome c.  Signals of
\* an object that was disconnected go nowhere.
Ran(i, c) ==
    /\ objects' = [objects EXCEPT ![i] = c.o]
    /\ rig' = c.rig
    /\ signals' = IF active /\ i = Len(objects) THEN signals \o c.out ELSE signals
    /\ used' = [used EXCEPT !.troubles = @ + Cardinality(c.bad)]
    /\ UNCHANGED <<active, cached, command, client>>

\* Which commands of a slot fail: there are at most four of them.
Faults == {b \in SUBSET (1..4) : Cardinality(b) <= MaxTroubles - used.troubles}

RunSlot ==
    /\ calls # <<>> /\ Len(signals) < MaxPending
    /\ calls' = Tail(calls)
    /\ LET m == Head(calls) IN \E bad \in Faults, took \in BOOLEAN :
         LET c == Context(objects[m.to], bad, took)
             d == CASE m.slot = "start" -> Start(c, m.seq)
                    [] m.slot = "set"   -> Set(c, m.state, m.seq)
                    [] m.slot = "stop"  -> Stop(c)
         IN /\ bad \subseteq 1..d.n
            /\ bad = {} => took
            /\ Ran(m.to, d)

PollTimer(i) ==
    /\ objects[i].timer /\ Len(signals) < MaxPending
    /\ \E bad \in Faults, took \in BOOLEAN :
         LET d == Timeout(Context(objects[i], bad, took))
         IN bad \subseteq 1..d.n /\ (bad = {} => took) /\ Ran(i, d)
    /\ UNCHANGED calls

\* The operator turns the dial, not while transmitting.
Dial(f) ==
    /\ used.troubles < MaxTroubles /\ ~rig.keyed /\ f # rig.freq
    /\ rig' = [rig EXCEPT !.freq = f, !.dialled = TRUE]
    /\ used' = [used EXCEPT !.troubles = @ + 1]
    /\ UNCHANGED <<calls, signals, objects, active, cached, command, client>>

-----------------------------------------------------------------------------
(***************************************************************************)
(* The code of the user interface, as functions of what it works on.       *)
(***************************************************************************)
Gui == [calls |-> calls, objects |-> objects, active |-> active,
        cached |-> cached, command |-> command]

\* The signal set_transceiver with the whole cache and the next number.
Emit(g) ==
    LET n == g.command + 1
        m == [to |-> Len(g.objects), slot |-> "set", state |-> g.cached, seq |-> n]
    IN [g EXCEPT !.command = n, !.calls = IF g.active THEN Append(@, m) ELSE @]

TransceiverFrequency(g, f) ==
    Emit([g EXCEPT !.cached.online = TRUE, !.cached.freq = f])

TransceiverTxFrequency(g) ==
    IF Split THEN Emit([g EXCEPT !.cached.online = TRUE, !.cached.split = TRUE,
                                 !.cached.tx = TxFreq])
    ELSE g

TransceiverPtt(g, on) ==
    Emit([g EXCEPT !.cached.online = TRUE, !.cached.ptt = on])

\* close_rig: the newest object is told to stop and disconnected.
CloseRig(g) ==
    IF g.active
    THEN [g EXCEPT !.active = FALSE,
                   !.calls = Append(@, [to |-> Len(g.objects), slot |-> "stop"])]
    ELSE g

\* open_rig: a new object with an empty cache.
OpenRig(g) ==
    LET h == CloseRig(g)
        n == h.command + 1
    IN [h EXCEPT !.objects = Append(@, NewObject), !.active = TRUE,
                 !.cached = NoState, !.command = n,
                 !.calls = Append(@, [to |-> Len(h.objects) + 1, slot |-> "start",
                                      seq |-> n])]

HaveRig(g) == IF g.active THEN g ELSE OpenRig(g)

\* setRig and setXIT, while monitoring.
SetRig(g, f) == TransceiverFrequency(TransceiverTxFrequency(HaveRig(g)), f)
SetXIT(g) == IF g.active THEN TransceiverTxFrequency(g) ELSE g

Apply(g) ==
    /\ calls' = g.calls /\ objects' = g.objects /\ active' = g.active
    /\ cached' = g.cached /\ command' = g.command
    /\ UNCHANGED rig

CanOpen == active \/ Len(objects) < MaxObjects

\* The user chooses a frequency.
Qsy(f) ==
    /\ used.commands < MaxCommands /\ CanOpen
    /\ Apply(SetRig(Gui, f))
    /\ client' = [client EXCEPT !.nominal = f]
    /\ used' = [used EXCEPT !.commands = @ + 1]
    /\ UNCHANGED signals

\* The user moves the offset: with split, the transmit frequency is sent again.
MoveOffset ==
    /\ used.commands < MaxCommands /\ active /\ Split
    /\ Apply(SetXIT(Gui))
    /\ used' = [used EXCEPT !.commands = @ + 1]
    /\ UNCHANGED <<signals, client>>

\* The rig is opened, again or for a test of the settings.
Reopen ==
    /\ Len(objects) < MaxObjects
    /\ Apply(OpenRig(Gui))
    /\ UNCHANGED <<signals, client, used>>

\* guiUpdate finds that it is time to transmit.
Key ==
    /\ ~client.iptt /\ used.keys < MaxKeys /\ CanOpen
    /\ Apply(TransceiverPtt(SetXIT(SetRig(Gui, client.nominal)), TRUE))
    /\ client' = [client EXCEPT !.iptt = TRUE, !.confirm = TRUE]
    /\ used' = [used EXCEPT !.keys = @ + 1]
    /\ UNCHANGED signals

\* stopTx at the end of the audio or when the user stops it.
StopTx ==
    /\ client.iptt
    /\ client' = [client EXCEPT !.iptt = FALSE, !.audio = FALSE, !.release = TRUE]
    /\ UNCHANGED <<calls, signals, objects, rig, active, cached, command, used>>

\* stopTx2, when pttReleaseTimer expires.
StopTx2 ==
    /\ client.release
    /\ client' = [client EXCEPT !.release = FALSE]
    /\ Apply(TransceiverPtt(Gui, FALSE))
    /\ UNCHANGED <<signals, used>>

\* MainWindow::handle_transceiver_update.
Updated(cl, s) ==
    LET confirms == s.ptt /\ ~cl.state.ptt
        moved    == s.freq # cl.state.freq \/ s.split # cl.state.split
    IN [cl EXCEPT !.audio = @ \/ (confirms /\ cl.confirm /\ cl.iptt),
                  !.confirm = @ /\ ~confirms,
                  !.state = s,
                  !.nominal = IF @ = 0 \/ (moved /\ ~s.ptt) THEN s.freq ELSE @]

\* Configuration::handle_transceiver_update: the cache takes what comes, the
\* client only the answer to the last command.
Cache(g, s) ==
    LET h == [g EXCEPT !.cached.online = s.online, !.cached.freq = s.freq,
                       !.cached.split = s.split]
    IN IF s.online THEN h ELSE CloseRig(h)

\* Mutant: updates are passed on whichever command they answer.
PassesAll(seq) == TRUE

\* The guard of the signal transceiver_update.
PassedOn(seq) == seq = command

HandleSignal ==
    /\ signals # <<>>
    /\ signals' = Tail(signals)
    /\ LET m == Head(signals) IN
         \/ /\ m.kind = "update"
            /\ Apply(Cache(Gui, m.state))
            /\ client' = IF PassedOn(m.seq) THEN Updated(client, m.state) ELSE client
         \/ /\ m.kind = "failure"
            /\ Apply(CloseRig(Gui))
            /\ UNCHANGED client
    /\ UNCHANGED used

Init ==
    /\ calls = <<>> /\ signals = <<>> /\ objects = <<>>
    /\ rig = [freq |-> FirstFreq, keyed |-> FALSE, refused |-> FALSE,
              dialled |-> FALSE]
    /\ active = FALSE /\ cached = NoState /\ command = 0
    /\ client = [state |-> NoState, nominal |-> 0, iptt |-> FALSE,
                 confirm |-> FALSE, audio |-> FALSE, release |-> FALSE]
    /\ used = [commands |-> 0, keys |-> 0, troubles |-> 0]

Next ==
    \/ RunSlot \/ HandleSignal
    \/ \E i \in DOMAIN objects : PollTimer(i)
    \/ \E f \in Freqs : Dial(f) \/ Qsy(f)
    \/ MoveOffset \/ Reopen \/ Key \/ StopTx \/ StopTx2

Spec == Init /\ [][Next]_vars

-----------------------------------------------------------------------------
\* Type correctness.
Frequency == Freqs \cup {0, TxFreq}
State == [online : BOOLEAN, freq : Frequency, ptt : BOOLEAN, tx : {0, TxFreq},
          split : BOOLEAN]
TypeOK ==
    /\ \A i \in DOMAIN objects : LET o == objects[i] IN
         /\ {o.requested, o.actual, o.last, o.next, o.signalled, o.asked} \subseteq State
         /\ o.seq \in 0..command /\ o.retries \in 0..PollsToStabilize
         /\ o.timer \in BOOLEAN
    /\ rig \in [freq : Freqs \cup {TxFreq}, keyed : BOOLEAN, refused : BOOLEAN,
               dialled : BOOLEAN]
    /\ cached \in State /\ active \in BOOLEAN /\ command \in Nat
    /\ client \in [state : State, nominal : Frequency, iptt : BOOLEAN,
                   confirm : BOOLEAN, audio : BOOLEAN, release : BOOLEAN]

\* A rig that nobody controls any more is not left transmitting, through failures
\* in any place, calls that arrive after one, and a new object on the same rig;
\* unless it refused the release itself.
NobodyKeyed ==
    rig.keyed => rig.refused \/ \E i \in DOMAIN objects : objects[i].requested.online

Newest == objects[Len(objects)]

\* No call, no signal and no poll that would tell more is under way.
Settled ==
    /\ calls = <<>> /\ signals = <<>> /\ active
    /\ Newest.retries = 0
    /\ Newest.actual.freq = rig.freq /\ Newest.actual.ptt = rig.keyed

\* At rest the user interface shows what the rig does: the last number is the one
\* of the last update, whatever was dropped, withheld or repeated before.
ShowsTheRig ==
    Settled => /\ client.state = Seen(Newest, Newest.actual)
               /\ client.state.online /\ Newest.seq = command

\* With split, the rig transmits nowhere but on the transmit frequency, whatever
\* order the commands were given and refused in, unless it refused a release or its
\* dial was turned: a transceiver does not command a frequency twice.
SplitKept ==
    Split /\ rig.keyed /\ ~rig.refused /\ ~rig.dialled => rig.freq = TxFreq

\* Audio starts only into a keyed rig, unless it refused a release or the newest
\* transceiver is offline: what is passed on answers the last command, so nothing that
\* would release PTT is under way.
AudioIntoKeyed ==
    [][~client.audio /\ client'.audio =>
        rig.keyed \/ rig.refused \/ ~Newest.requested.online]_vars

\* mainwindow.cpp 4643-4644: "This signals the transmitter to switch to sending.
\* When that has happened, we get a callback from handle_transceiver_update, which
\* will start the audio."  At rest, a transmission whose PTT is on and stays on has audio.
NoSilentCarrier ==
    Settled /\ client.iptt /\ ~client.release /\ rig.keyed => client.audio
=============================================================================
