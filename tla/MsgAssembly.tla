------------------------------ MODULE MsgAssembly ------------------------------
(***************************************************************************)
(* How the service puts received messages together (JS8EngineService):     *)
(* a transmission is decoded frame by frame, each frame tells only its     *)
(* frequency, and two handlers keep buffers by frequency: one for messages *)
(* to this station (MSG), one for messages it is to pass on (relay).       *)
(*                                                                         *)
(* Stations send one frame per cycle, their frequency varies a little, and *)
(* any frame may be lost.  A transmission begins with a command frame,     *)
(* which may carry text of its own, or is plain text without a command.    *)
(* Text is the list of its frames: <<id, 0>> for the text of the command   *)
(* frame, <<id, n>> for data frame n.  The checksum of a relayed text is   *)
(* right if it is the text of one relay transmission, whole.               *)
(***************************************************************************)
EXTENDS Integers, Sequences, FiniteSets, SequencesExt

CONSTANTS
  Stations,
  Freqs,          \* the frequencies at which a station is decoded
  MsgTolerance,   \* the 5 Hz of findMatchingMsgBufferKey
  RelayTolerance, \* RELAY_FREQUENCY_TOLERANCE_HZ
  MsgTimeout,     \* MSG_BUFFER_TIMEOUT_MS, in cycles
  RelayTimeout,   \* RELAY_BUFFER_TIMEOUT_MS
  MaxFrames,      \* bound: data frames of a transmission
  MaxSends,       \* bound: transmissions
  MaxLost         \* bound: lost frames

\* A buffer outlives a cycle: 60 s and more, and the longest cycle takes 30 s.
ASSUME AssemblyAssumption ==
  /\ \A s \in Stations : Freqs[s] \subseteq Nat /\ Freqs[s] # {}
  /\ MsgTolerance \in Nat /\ RelayTolerance \in Nat
  /\ MsgTimeout \in Nat \ {0} /\ RelayTimeout \in Nat \ {0}
  /\ MaxFrames \in Nat \ {0} /\ MaxSends \in Nat /\ MaxLost \in Nat

VARIABLES
  msgBuffers,   \* in the order in which they were put into the map
  relayBuffers,
  delivered,    \* broadcastMessageReceived
  relayed,      \* passed on or answered by processRelayBuffer
  \* the stations
  sent,         \* all transmissions; the index is the id
  onAir,        \* the transmission of each station: its id and next frame
  turn,         \* stations whose frame of this cycle was sent
  lost          \* number of lost frames

serviceVars == <<msgBuffers, relayBuffers, delivered, relayed>>
vars == <<serviceVars, sent, onAir, turn, lost>>

Silent == [id |-> 0, next |-> 0, whole |-> TRUE]

Ids == 1 .. MaxSends
Parts == Seq(Ids \X (0 .. MaxFrames))
Oldest == 1 + (IF MsgTimeout < RelayTimeout THEN RelayTimeout ELSE MsgTimeout)
Buffers == Seq([key : UNION {Freqs[s] : s \in Stations}, from : Stations, inline : BOOLEAN,
                parts : Parts, age : 0 .. Oldest])

\* Each key occurs once.
TypeOK ==
  /\ msgBuffers \in Buffers /\ relayBuffers \in Buffers
  /\ \A b \in {msgBuffers, relayBuffers} : \A i, j \in DOMAIN b : b[i].key = b[j].key => i = j
  /\ delivered \in Seq([from : Stations, parts : Parts])
  /\ relayed \in Seq([from : Stations, parts : Parts])
  /\ sent \in Seq([from : Stations, kind : {"msg", "relay", "text"}, inline : BOOLEAN,
                   count : 0 .. MaxFrames])
  /\ onAir \in [Stations -> [id : 0 .. MaxSends, next : 0 .. MaxFrames, whole : BOOLEAN]]
  /\ turn \subseteq Stations /\ lost \in 0 .. MaxLost

Init ==
  /\ msgBuffers = <<>> /\ relayBuffers = <<>> /\ delivered = <<>> /\ relayed = <<>>
  /\ sent = <<>> /\ onAir = [s \in Stations |-> Silent] /\ turn = {} /\ lost = 0

-----------------------------------------------------------------------------
(* The map of buffers that both handlers keep.                             *)

\* The k-th place of some.
Nth(places, k) == CHOOSE i \in places : Cardinality({j \in places : j <= i}) = k

\* Removes what has not been continued for too long.
Fresh(buffers, timeout) ==
  LET kept == {i \in DOMAIN buffers : buffers[i].age <= timeout}
  IN  [k \in 1 .. Cardinality(kept) |-> buffers[Nth(kept, k)]]

Abs(n) == IF n < 0 THEN -n ELSE n

Near(buffers, freq, tolerance) ==
  {i \in DOMAIN buffers : Abs(buffers[i].key - freq) <= tolerance}

\* mutation: the whole channel is searched
MatchesTwice(buffers, freq, tolerance) ==
  LET near == Near(buffers, freq, 2 * tolerance + 1) IN IF near = {} THEN 0 ELSE Min(near)

\* The first buffer whose key is near the frequency, or 0.
Match(buffers, freq, tolerance) ==
  LET near == Near(buffers, freq, tolerance) IN IF near = {} THEN 0 ELSE Min(near)

\* What a command frame begins.
Begun(f, key) ==
  [key |-> key, from |-> f.from, inline |-> f.inline, age |-> 0,
   parts |-> IF f.inline THEN <<<<f.id, 0>>>> ELSE <<>>]

\* mutation: the buffer is put beside the one that matches
OpenedTwice(buffers, f, tolerance) ==
  LET i == Match(buffers, f.freq, tolerance)
  IN Append(buffers, Begun(f, IF i = 0 THEN f.freq ELSE buffers[i].key))

\* A command frame begins a buffer, in place of the one that matches and
\* under the key of that one.
Opened(buffers, f, tolerance) ==
  LET i == Match(buffers, f.freq, tolerance)
  IN IF i = 0 THEN Append(buffers, Begun(f, f.freq))
              ELSE ReplaceAt(buffers, i, Begun(f, buffers[i].key))

\* mutation: the time of the first frame counts
ContinuedKeepsAge(buffers, f, i) ==
  [buffers EXCEPT ![i].parts = Append(@, <<f.id, f.index>>)]

\* A data frame goes to buffer i.
Continued(buffers, f, i) ==
  ReplaceAt(buffers, i,
            [buffers[i] EXCEPT !.parts = Append(@, <<f.id, f.index>>), !.age = 0])

\* mutation: it stays
ClosedKeepsBuffer(buffers, i) == buffers

\* The buffer that the last frame completes is taken out.
Closed(buffers, i) == RemoveAt(buffers, i)

Text(buffer) == [from |-> buffer.from, parts |-> buffer.parts]

-----------------------------------------------------------------------------
(* maybeHandleIncomingMessage.                                             *)

CleanMsgBuffers == Fresh(msgBuffers, MsgTimeout)

\* A command and its text in one frame; a buffer of that frequency stays.
MsgAtOnce(f) ==
  /\ f.kind = "msg" /\ f.last /\ f.inline
  /\ delivered' = Append(delivered, [from |-> f.from, parts |-> <<<<f.id, 0>>>>])
  /\ msgBuffers' = CleanMsgBuffers

\* A command without any text removes what it has just put into the map.
MsgEmpty(f) ==
  /\ f.kind = "msg" /\ f.last /\ ~f.inline
  /\ LET buffers == Opened(CleanMsgBuffers, f, MsgTolerance)
     IN msgBuffers' = Closed(buffers, Match(buffers, f.freq, MsgTolerance))
  /\ UNCHANGED delivered

MsgBegins(f) ==
  /\ f.kind = "msg" /\ ~f.last
  /\ msgBuffers' = Opened(CleanMsgBuffers, f, MsgTolerance)
  /\ UNCHANGED delivered

MsgGoesOn(f) ==
  /\ f.kind = "data"
  /\ LET buffers == CleanMsgBuffers
         i == Match(buffers, f.freq, MsgTolerance)
     IN \/ /\ i = 0
           /\ msgBuffers' = buffers
           /\ UNCHANGED delivered
        \/ /\ i > 0 /\ ~f.last
           /\ msgBuffers' = Continued(buffers, f, i)
           /\ UNCHANGED delivered
        \/ /\ i > 0 /\ f.last
           /\ msgBuffers' = Closed(buffers, i)
           /\ delivered' = Append(delivered, Text(Continued(buffers, f, i)[i]))

MsgIgnores(f) ==
  /\ f.kind = "relay"
  /\ msgBuffers' = CleanMsgBuffers
  /\ UNCHANGED delivered

HandleIncomingMessage(f) ==
  MsgAtOnce(f) \/ MsgEmpty(f) \/ MsgBegins(f) \/ MsgGoesOn(f) \/ MsgIgnores(f)

-----------------------------------------------------------------------------
(* handleRelayFrame and processRelayBuffer.                                *)

\* The text of a transmission.
Payload(id) ==
  (IF sent[id].inline THEN <<<<id, 0>>>> ELSE <<>>) \o [n \in 1 .. sent[id].count |-> <<id, n>>]

\* validateRelayChecksum.
Valid(parts) ==
  \E id \in DOMAIN sent : sent[id].kind = "relay" /\ parts = Payload(id)

\* processRelayBuffer: a text that came with its command is not validated.
ProcessRelayBuffer(buffer) ==
  relayed' = IF buffer.parts # <<>> /\ (Valid(buffer.parts) \/ buffer.inline)
               THEN Append(relayed, Text(buffer)) ELSE relayed

CleanRelayBuffers == Fresh(relayBuffers, RelayTimeout)

RelayBegins(f) ==
  /\ f.kind = "relay"
  /\ LET buffers == Opened(CleanRelayBuffers, f, RelayTolerance)
         i == Match(buffers, f.freq, RelayTolerance)
     IN \/ /\ f.inline /\ f.last
           /\ relayBuffers' = Closed(buffers, i)
           /\ ProcessRelayBuffer(buffers[i])
        \/ /\ ~(f.inline /\ f.last)
           /\ relayBuffers' = buffers
           /\ UNCHANGED relayed

RelayGoesOn(f) ==
  /\ f.kind = "data"
  /\ LET buffers == CleanRelayBuffers
         i == Match(buffers, f.freq, RelayTolerance)
     IN \/ /\ i = 0
           /\ relayBuffers' = buffers
           /\ UNCHANGED relayed
        \/ /\ i > 0 /\ ~f.last
           /\ relayBuffers' = Continued(buffers, f, i)
           /\ UNCHANGED relayed
        \/ /\ i > 0 /\ f.last
           /\ relayBuffers' = Closed(buffers, i)
           /\ ProcessRelayBuffer(Continued(buffers, f, i)[i])

RelayIgnores(f) ==
  /\ f.kind = "msg"
  /\ relayBuffers' = CleanRelayBuffers
  /\ UNCHANGED relayed

HandleRelayFrame(f) == RelayBegins(f) \/ RelayGoesOn(f) \/ RelayIgnores(f)

\* What onDecoded posts to the main looper.
Decoded(f) == HandleRelayFrame(f) /\ HandleIncomingMessage(f)

-----------------------------------------------------------------------------
(* The stations (not in the code).                                         *)

Begin(s, kind, inline, count) ==
  /\ onAir[s].id = 0 /\ s \notin turn /\ Len(sent) < MaxSends
  /\ kind = "text" => ~inline /\ count > 0
  /\ sent' = Append(sent, [from |-> s, kind |-> kind, inline |-> inline, count |-> count])
  /\ onAir' = [onAir EXCEPT ![s] = [id |-> Len(sent'), whole |-> TRUE,
                                    next |-> IF kind = "text" THEN 1 ELSE 0]]
  /\ UNCHANGED <<serviceVars, turn, lost>>

Frame(s, freq) ==
  LET id == onAir[s].id
  IN [id |-> id, index |-> onAir[s].next, from |-> s, freq |-> freq,
      kind |-> IF onAir[s].next = 0 THEN sent[id].kind ELSE "data",
      inline |-> onAir[s].next = 0 /\ sent[id].inline,
      last |-> onAir[s].next = sent[id].count]

\* The next frame is on the air.
Goes(s, whole) ==
  /\ onAir[s].id # 0 /\ s \notin turn
  /\ turn' = turn \union {s}
  /\ onAir' = [onAir EXCEPT ![s] =
                 IF onAir[s].next = sent[onAir[s].id].count THEN Silent
                 ELSE [id |-> onAir[s].id, next |-> onAir[s].next + 1,
                       whole |-> onAir[s].whole /\ whole]]
  /\ UNCHANGED sent

Arrives(s) ==
  /\ Goes(s, TRUE)
  /\ \E freq \in Freqs[s] : Decoded(Frame(s, freq))
  /\ UNCHANGED lost

GetsLost(s) ==
  /\ Goes(s, FALSE)
  /\ lost < MaxLost /\ lost' = lost + 1
  /\ UNCHANGED serviceVars

\* The next cycle begins.
Older(buffers) ==
  [i \in DOMAIN buffers |->
     [buffers[i] EXCEPT !.age = IF @ < Oldest THEN @ + 1 ELSE @]]

NextCycle ==
  /\ \A s \in Stations : onAir[s].id # 0 => s \in turn
  /\ turn' = {}
  /\ msgBuffers' = Older(msgBuffers) /\ relayBuffers' = Older(relayBuffers)
  /\ UNCHANGED <<delivered, relayed, sent, onAir, lost>>

Next ==
  \/ \E s \in Stations, kind \in {"msg", "relay", "text"}, inline \in BOOLEAN,
        count \in 0 .. MaxFrames : Begin(s, kind, inline, count)
  \/ \E s \in Stations : Arrives(s) \/ GetsLost(s)
  \/ NextCycle

Spec == Init /\ [][Next]_vars

-----------------------------------------------------------------------------
(* Properties.                                                             *)

\* The frames of a station are as near to one another as the tolerance, and
\* no other station is so near.
Alone(s, tolerance) ==
  /\ \A f, g \in Freqs[s] : Abs(f - g) <= tolerance
  /\ \A t \in Stations \ {s} : \A f \in Freqs[s], g \in Freqs[t] : Abs(f - g) > tolerance

SentBy(text) == \A i \in DOMAIN text.parts : sent[text.parts[i][1]].from = text.from

\* A message shows, and a relayed text names, the station that sent each of
\* its frames, whatever was lost in between.
RightSender ==
  /\ \A i \in DOMAIN delivered : Alone(delivered[i].from, MsgTolerance) => SentBy(delivered[i])
  /\ \A i \in DOMAIN relayed : Alone(relayed[i].from, RelayTolerance) => SentBy(relayed[i])

\* No frame is used twice: not in two messages, and not twice in one.
UsedOnce(texts) ==
  \A i, j \in DOMAIN texts : \A m \in DOMAIN texts[i].parts, n \in DOMAIN texts[j].parts :
    texts[i].parts[m] = texts[j].parts[n] => i = j /\ m = n

OnceOnly == UsedOnce(delivered) /\ UsedOnce(relayed)

\* s sends the last frame of something all of whose frames are received.
Completes(s, kind) ==
  /\ onAir[s].id # 0 /\ onAir'[s].id = 0 /\ lost' = lost
  /\ onAir[s].whole /\ sent[onAir[s].id].kind = kind /\ Payload(onAir[s].id) # <<>>

Whole(s) == [from |-> s, parts |-> Payload(onAir[s].id)]

\* A transmission that was received whole is handed over, exactly as it was
\* sent, with its last frame, whatever an earlier one has left behind.
WholeIsHandedOver ==
  [][\A s \in Stations :
       /\ Completes(s, "msg") /\ Alone(s, MsgTolerance)
            => delivered' = Append(delivered, Whole(s))
       /\ Completes(s, "relay") /\ Alone(s, RelayTolerance)
            => relayed' = Append(relayed, Whole(s))]_vars
=============================================================================
