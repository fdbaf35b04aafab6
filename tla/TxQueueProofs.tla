---------------------------- MODULE TxQueueProofs -----------------------------
(***************************************************************************)
(* Proofs about TxQueue: its types, that the queue stays sorted, and that  *)
(* no message in it is forgotten.                                          *)
(*                                                                         *)
(* NothingForgotten is not inductive: that a STARTED or a QUEUED which     *)
(* still waits is not the last that is said, and that each message waits   *)
(* once, has to be known as well.  The steps fall into those that make a   *)
(* broadcast for whatever they take away (OneSignalSaid), those that make  *)
(* none (NoSignalSaid), and those after which nothing is promised any more *)
(* (Excused); Deliver is the only one that has a proof of its own.         *)
(***************************************************************************)
EXTENDS TxQueue, SequenceTheorems, FiniteSetTheorems, TLAPS

-----------------------------------------------------------------------------
(* The inductive invariant, part by part.                                  *)

\* The queue is sorted by priority.
Sorted ==
  \A i, j \in DOMAIN queue : i < j => Priority[queue[i]] >= Priority[queue[j]]

\* A message that was offered waits in one place at most, as a broadcast or in the
\* queue.
Distinct ==
  /\ \A i \in DOMAIN queue : queue[i] \in offered
  /\ \A i, j \in DOMAIN queue : queue[i] = queue[j] => i = j
  /\ \A i \in DOMAIN inbox : inbox[i] \in Replies =>
       /\ inbox[i] \in offered
       /\ \A j \in DOMAIN queue : queue[j] # inbox[i]
       /\ \A j \in DOMAIN inbox : inbox[j] = inbox[i] => j = i

\* What makes processNextTxIfIdle look at the queue, and what ends a transmission.
Wakes == {"PROCESS", "RUNNING", "FINISHED", "FAILED"} \union Replies
Ends == {"FINISHED", "FAILED"}

\* Behind place i of the inbox one of these broadcasts waits.
After(i, items) == \E j \in DOMAIN inbox : j > i /\ inbox[j] \in items

\* A thread or the monitor will broadcast the end of a transmission.
Ending == tasks # <<>> \/ (\E t \in {Main, Js8Tx} : pc[t] # "idle") \/ monitor \/ releasing

\* Until the engine is stopped the end of what the user interface takes, or is
\* about to take, for a transmission comes.
EndComes ==
  ~lost /\ ~stopped =>
    /\ txState = "TRANSMITTING" => Ending \/ After(0, Ends)
    /\ \A i \in DOMAIN inbox : inbox[i] = "STARTED" => Ending \/ After(i, Ends)

\* A QUEUED, which may take back the TRANSMITTING of a stopped engine, is not the
\* last that is said.
QueuedIsFollowed ==
  ~lost /\ running =>
    \A i \in DOMAIN inbox : inbox[i] = "QUEUED" => Ending \/ starting \/ After(i, Wakes)

Parts == EndComes /\ QueuedIsFollowed /\ NothingForgotten

AudioHasFrames == audio => frames > 0
RunsUntilStopped == ~stopped => running

IInv == TypeOK /\ Sorted /\ Distinct /\ AudioHasFrames /\ RunsUntilStopped /\ Parts

USE DEF Main, Js8Tx

-----------------------------------------------------------------------------
(* Sequences: the queue, the inbox, the tasks.                             *)

LEMMA IntervalSize ==
  ASSUME NEW n \in Nat
  PROVE  IsFiniteSet(1 .. n) /\ Cardinality(1 .. n) = n
<1>1. /\ IsFiniteSet(1 .. n)
      /\ Cardinality(1 .. n) = IF 1 > n THEN 0 ELSE n - 1 + 1
  BY FS_Interval
<1>. QED BY <1>1

\* add and sortByDescending: every message keeps its place relative to the
\* others, and of a sorted queue the first n are those at least as urgent as m.
LEMMA InsertedElements ==
  ASSUME queue \in Seq(Messages), NEW m \in Messages
  PROVE  /\ Inserted(m) \in Seq(Messages)
         /\ Len(Inserted(m)) = Len(queue) + 1
         /\ \E n \in 0 .. Len(queue) :
              /\ \A i \in 1 .. Len(queue) + 1 :
                   Inserted(m)[i] = IF i <= n THEN queue[i]
                                    ELSE IF i = n + 1 THEN m ELSE queue[i - 1]
              /\ Sorted => \A i \in DOMAIN queue :
                             i <= n <=> Priority[queue[i]] >= Priority[m]
<1> DEFINE ahead == {i \in DOMAIN queue : Priority[queue[i]] >= Priority[m]}
           n == Cardinality(ahead)
           L == Len(queue)
           front == SubSeq(queue, 1, n)
           back == SubSeq(queue, n + 1, L)
<1>1. L \in Nat /\ DOMAIN queue = 1 .. L /\ \A i \in 1 .. L : queue[i] \in Messages
  BY LenProperties, ElementOfSeq
<1>2. ahead \in SUBSET (1 .. L) /\ IsFiniteSet(1 .. L) /\ Cardinality(1 .. L) = L
  BY <1>1, IntervalSize
<1>3. IsFiniteSet(ahead) /\ n \in 0 .. L
  BY <1>1, <1>2, FS_Subset, FS_CardinalityType
<1>4. Inserted(m) = front \o <<m>> \o back
  BY DEF Inserted
<1> HIDE DEF n, L
<1>5. /\ front \in Seq(Messages) /\ Len(front) = n
      /\ \A i \in 1 .. n : front[i] = queue[i]
  <2>1. \A i \in 1 .. n : queue[i] \in Messages
    BY <1>1, <1>3
  <2>2. /\ front \in Seq(Messages)
        /\ Len(front) = IF 1 <= n THEN n - 1 + 1 ELSE 0
        /\ \A i \in 1 .. n - 1 + 1 : front[i] = queue[1 + i - 1]
    BY <1>3, <2>1, SubSeqProperties
  <2>. QED BY <1>3, <2>2
<1>6. /\ back \in Seq(Messages) /\ Len(back) = L - n
      /\ \A i \in 1 .. L - n : back[i] = queue[n + i]
  <2>1. \A i \in n + 1 .. L : queue[i] \in Messages
    BY <1>1, <1>3
  <2>2. /\ back \in Seq(Messages)
        /\ Len(back) = IF n + 1 <= L THEN L - (n + 1) + 1 ELSE 0
        /\ \A i \in 1 .. L - (n + 1) + 1 : back[i] = queue[n + 1 + i - 1]
    BY <1>1, <1>3, <2>1, SubSeqProperties
  <2>. QED BY <1>1, <1>3, <2>2
<1> HIDE DEF front, back
<1>7. /\ front \o <<m>> \in Seq(Messages) /\ Len(front \o <<m>>) = n + 1
      /\ \A i \in 1 .. n + 1 : (front \o <<m>>)[i] = IF i <= n THEN queue[i] ELSE m
  <2>1. <<m>> \in Seq(Messages) /\ Len(<<m>>) = 1 /\ <<m>>[1] = m
    OBVIOUS
  <2>2. /\ front \o <<m>> \in Seq(Messages)
        /\ Len(front \o <<m>>) = n + 1
        /\ \A i \in 1 .. n + 1 :
             (front \o <<m>>)[i] = IF i <= n THEN front[i] ELSE <<m>>[i - n]
    BY <1>5, <2>1, ConcatProperties
  <2>3. \A i \in 1 .. n + 1 : i <= n \/ i - n = 1
    BY <1>3
  <2>. QED BY <1>3, <1>5, <2>1, <2>2, <2>3
<1>8. /\ Inserted(m) \in Seq(Messages) /\ Len(Inserted(m)) = L + 1
      /\ \A i \in 1 .. L + 1 :
           Inserted(m)[i] = IF i <= n + 1 THEN (front \o <<m>>)[i] ELSE back[i - (n + 1)]
  <2>1. n + 1 + (L - n) = L + 1
    BY <1>1, <1>3
  <2> DEFINE fore == front \o <<m>>
  <2>2. fore \in Seq(Messages) /\ Len(fore) = n + 1 /\ Inserted(m) = fore \o back
    BY <1>4, <1>7
  <2> HIDE DEF fore
  <2>3. /\ fore \o back \in Seq(Messages) /\ Len(fore \o back) = n + 1 + (L - n)
        /\ \A i \in 1 .. n + 1 + (L - n) :
             (fore \o back)[i] = IF i <= n + 1 THEN fore[i] ELSE back[i - (n + 1)]
    BY <1>6, <2>2, ConcatProperties
  <2>. QED BY <2>1, <2>2, <2>3 DEF fore
<1>9. ASSUME NEW i \in 1 .. L + 1
      PROVE  Inserted(m)[i] = IF i <= n THEN queue[i] ELSE IF i = n + 1 THEN m ELSE queue[i - 1]
  <2>1. CASE i <= n + 1
    BY <1>1, <1>3, <1>7, <1>8, <2>1
  <2>2. CASE i > n + 1
    <3>1. i - (n + 1) \in 1 .. L - n /\ n + (i - (n + 1)) = i - 1
      BY <1>1, <1>3, <2>2
    <3>2. Inserted(m)[i] = queue[n + (i - (n + 1))]
      BY <1>3, <1>6, <1>8, <2>2, <3>1
    <3>. QED BY <1>3, <2>2, <3>1, <3>2
  <2>. QED BY <1>1, <1>3, <2>1, <2>2
<1>10. ASSUME Sorted, NEW i \in DOMAIN queue
       PROVE  i <= n <=> Priority[queue[i]] >= Priority[m]
  <2>0. \A j \in 1 .. L : Priority[queue[j]] \in Nat
    BY <1>1, QueueAssumption DEF QueueAssumption
  <2>1. CASE i \in ahead
    <3>1. \A j \in 1 .. i : j \in ahead
      BY <1>1, <1>10, <2>0, <2>1, QueueAssumption DEF QueueAssumption, Sorted
    <3>2. 1 .. i \in SUBSET ahead /\ Cardinality(1 .. i) = i
      BY <1>1, <3>1, IntervalSize
    <3>3. i <= n
      BY <1>3, <3>2, FS_Subset DEF n
    <3>. QED BY <2>1, <3>3
  <2>2. CASE i \notin ahead
    <3>1. ASSUME NEW j \in ahead PROVE j \in 1 .. i - 1
      <4>1. j \in 1 .. L /\ i \in 1 .. L /\ j # i
        BY <1>1, <1>2, <2>2
      <4>2. ~(i < j)
        BY <1>1, <1>10, <2>0, <2>2, <4>1, QueueAssumption DEF QueueAssumption, Sorted
      <4>. QED BY <1>1, <4>1, <4>2
    <3>2. i - 1 \in Nat
      BY <1>1
    <3>3. ahead \in SUBSET (1 .. i - 1) /\ IsFiniteSet(1 .. i - 1)
          /\ Cardinality(1 .. i - 1) = i - 1
      BY <3>1, <3>2, IntervalSize
    <3>4. n <= i - 1
      BY <3>3, FS_Subset DEF n
    <3>. QED BY <1>1, <1>3, <2>2, <3>4
  <2>. QED BY <2>1, <2>2
<1>. QED BY <1>3, <1>8, <1>9, <1>10 DEF L

\* The new message is in the queue once, and the queue is still sorted.
LEMMA InsertedKeeps ==
  ASSUME queue \in Seq(Messages), NEW m \in Messages, Sorted,
         \A i, j \in DOMAIN queue : queue[i] = queue[j] => i = j,
         \A i \in DOMAIN queue : queue[i] # m,
         queue' = Inserted(m)
  PROVE  /\ queue' \in Seq(Messages) /\ queue' # <<>>
         /\ Sorted'
         /\ \A i, j \in DOMAIN queue' : queue'[i] = queue'[j] => i = j
         /\ \A i \in DOMAIN queue' : queue'[i] = m \/ \E j \in DOMAIN queue : queue'[i] = queue[j]
<1> DEFINE L == Len(queue)
<1>1. /\ L \in Nat /\ DOMAIN queue = 1 .. L
      /\ \A i \in 1 .. L : queue[i] \in Messages /\ Priority[queue[i]] \in Nat
      /\ Priority[m] \in Nat
  BY LenProperties, ElementOfSeq, QueueAssumption DEF QueueAssumption
<1>2. queue' \in Seq(Messages) /\ Len(queue') = L + 1
  BY InsertedElements
<1>3. PICK n \in 0 .. L :
        /\ \A i \in 1 .. L + 1 :
             queue'[i] = IF i <= n THEN queue[i] ELSE IF i = n + 1 THEN m ELSE queue[i - 1]
        /\ \A i \in DOMAIN queue : i <= n <=> Priority[queue[i]] >= Priority[m]
  BY InsertedElements
<1>4. DOMAIN queue' = 1 .. L + 1 /\ queue' # <<>>
  BY <1>1, <1>2, LenProperties, EmptySeq
<1> HIDE DEF L
<1>5. ASSUME NEW i \in 1 .. L + 1
      PROVE  \/ i <= n /\ i \in 1 .. L /\ queue'[i] = queue[i]
             \/ i = n + 1 /\ queue'[i] = m
             \/ i > n + 1 /\ i - 1 \in 1 .. L /\ queue'[i] = queue[i - 1]
  BY <1>1, <1>3
<1>6. ASSUME NEW i \in 1 .. L + 1, NEW j \in 1 .. L + 1, i < j
      PROVE  Priority[queue'[i]] >= Priority[queue'[j]]
  <2>1. \A a, b \in 1 .. L : a <= b => Priority[queue[a]] >= Priority[queue[b]]
    BY <1>1 DEF Sorted
  <2>2. CASE i <= n /\ j <= n
    BY <1>1, <1>3, <1>5, <1>6, <2>1, <2>2
  <2>3. CASE i <= n /\ j = n + 1
    BY <1>1, <1>3, <1>5, <1>6, <2>3
  <2>4. CASE i <= n /\ j > n + 1
    BY <1>1, <1>3, <1>5, <1>6, <2>1, <2>4
  <2>5. CASE i = n + 1 /\ j > n + 1
    <3>1. ~(j - 1 <= n) /\ j - 1 \in 1 .. L /\ queue'[j] = queue[j - 1] /\ queue'[i] = m
      BY <1>1, <1>3, <1>5, <1>6, <2>5
    <3>2. ~(Priority[queue[j - 1]] >= Priority[m])
      BY <1>1, <1>3, <3>1
    <3>. QED BY <1>1, <3>1, <3>2
  <2>6. CASE i > n + 1
    <3>1. i - 1 <= j - 1 /\ j > n + 1
      BY <1>6, <1>3, <2>6
    <3>. QED BY <1>5, <1>3, <2>1, <2>6, <3>1
  <2>. QED BY <1>1, <1>3, <1>6, <2>2, <2>3, <2>4, <2>5, <2>6
<1>7. ASSUME NEW i \in 1 .. L + 1, NEW j \in 1 .. L + 1, queue'[i] = queue'[j]
      PROVE  i = j
  <2>1. \A a \in 1 .. L : queue[a] # m
    BY <1>1
  <2>2. \A a, b \in 1 .. L : queue[a] = queue[b] => a = b
    BY <1>1
  <2>. QED BY <1>3, <1>5, <1>7, <2>1, <2>2
<1>8. ASSUME NEW i \in 1 .. L + 1
      PROVE  queue'[i] = m \/ \E j \in DOMAIN queue : queue'[i] = queue[j]
  BY <1>1, <1>5
<1>. QED BY <1>2, <1>4, <1>6, <1>7, <1>8 DEF Sorted

\* The head of the queue is removed.
LEMMA TailKeeps ==
  ASSUME queue \in Seq(Messages), queue # <<>>, Sorted,
         \A i, j \in DOMAIN queue : queue[i] = queue[j] => i = j,
         queue' = Tail(queue)
  PROVE  /\ queue' \in Seq(Messages)
         /\ Sorted'
         /\ \A i, j \in DOMAIN queue' : queue'[i] = queue'[j] => i = j
         /\ \A i \in DOMAIN queue' : \E j \in DOMAIN queue : queue'[i] = queue[j]
<1> DEFINE L == Len(queue)
<1>1. /\ L \in Nat /\ L # 0 /\ DOMAIN queue = 1 .. L
      /\ queue' \in Seq(Messages) /\ Len(queue') = L - 1
      /\ \A i \in 1 .. L - 1 : queue'[i] = queue[i + 1]
  BY LenProperties, HeadTailProperties, EmptySeq
<1>2. DOMAIN queue' = 1 .. L - 1
  BY <1>1, LenProperties
<1> HIDE DEF L
<1>3. \A i \in DOMAIN queue' : i + 1 \in DOMAIN queue /\ queue'[i] = queue[i + 1]
  BY <1>1, <1>2
<1>4. Sorted'
  BY <1>1, <1>2, <1>3 DEF Sorted
<1>5. \A i, j \in DOMAIN queue' : queue'[i] = queue'[j] => i = j
  BY <1>1, <1>2, <1>3
<1>. QED BY <1>1, <1>3, <1>4, <1>5

\* Messages that wait once are at most as many as there are messages.
LEMMA QueueBounded ==
  ASSUME NEW q \in Seq(Messages),
         \A i, j \in DOMAIN q : q[i] = q[j] => i = j
  PROVE  Len(q) <= Cardinality(Messages)
<1>1. Len(q) \in Nat /\ DOMAIN q = 1 .. Len(q) /\ q \in [1 .. Len(q) -> Messages]
  BY LenProperties
<1>2. q \in Injection(1 .. Len(q), Messages)
  BY <1>1 DEF Injection, IsInjective
<1>3. Cardinality(1 .. Len(q)) <= Cardinality(Messages)
  BY <1>2, QueueAssumption, FS_Injection DEF QueueAssumption
<1>. QED BY <1>1, <1>3, IntervalSize

\* What waits behind a broadcast that is made.
LEMMA InboxGrows ==
  ASSUME inbox \in Seq(Broadcasts), NEW items \in Seq(Broadcasts), inbox' = inbox \o items
  PROVE  /\ inbox' \in Seq(Broadcasts)
         /\ \A i \in DOMAIN inbox : i \in DOMAIN inbox' /\ inbox'[i] = inbox[i]
         /\ \A i \in DOMAIN inbox' :
              \/ i \in DOMAIN inbox
              \/ i \in Nat /\ i > Len(inbox) /\ i - Len(inbox) \in DOMAIN items
                 /\ inbox'[i] = items[i - Len(inbox)]
         /\ \A k \in DOMAIN items : /\ Len(inbox) + k \in DOMAIN inbox'
                                    /\ inbox'[Len(inbox) + k] = items[k]
<1> DEFINE L == Len(inbox)
           K == Len(items)
<1>1. L \in Nat /\ K \in Nat /\ DOMAIN inbox = 1 .. L /\ DOMAIN items = 1 .. K
  BY LenProperties
<1>2. /\ inbox' \in Seq(Broadcasts) /\ Len(inbox') = L + K
      /\ \A i \in 1 .. L + K : inbox'[i] = IF i <= L THEN inbox[i] ELSE items[i - L]
  BY ConcatProperties
<1>3. DOMAIN inbox' = 1 .. L + K
  BY <1>2, LenProperties
<1> HIDE DEF L, K
<1>4. \A i \in DOMAIN inbox : i \in DOMAIN inbox' /\ inbox'[i] = inbox[i]
  BY <1>1, <1>2, <1>3
<1>5. ASSUME NEW i \in DOMAIN inbox', i \notin DOMAIN inbox
      PROVE  i \in Nat /\ i > L /\ i - L \in DOMAIN items /\ inbox'[i] = items[i - L]
  BY <1>1, <1>2, <1>3, <1>5
<1>6. ASSUME NEW k \in DOMAIN items
      PROVE  L + k \in DOMAIN inbox' /\ inbox'[L + k] = items[k]
  <2>1. L + k \in 1 .. L + K /\ ~(L + k <= L) /\ L + k - L = k
    BY <1>1
  <2>2. inbox'[L + k] = items[L + k - L]
    BY <1>1, <1>2, <2>1
  <2>. QED BY <1>3, <2>1, <2>2
<1>. QED BY <1>2, <1>4, <1>5, <1>6 DEF L

\* A broadcast that was made waits behind every other.
LEMMA SaidLast ==
  ASSUME inbox \in Seq(Broadcasts), NEW items \in Seq(Broadcasts), inbox' = inbox \o items,
         NEW S
  PROVE  /\ \A i \in DOMAIN inbox \cup {0} : After(i, S) => After(i, S)'
         /\ (\E k \in DOMAIN items : items[k] \in S) =>
              \A i \in DOMAIN inbox \cup {0} : After(i, S)'
<1>1. /\ DOMAIN inbox = 1 .. Len(inbox) /\ DOMAIN items = 1 .. Len(items)
      /\ Len(inbox) \in Nat /\ Len(items) \in Nat
  BY LenProperties
<1>2. ASSUME NEW i \in DOMAIN inbox \cup {0}, After(i, S) PROVE After(i, S)'
  BY <1>2, InboxGrows DEF After
<1>3. ASSUME NEW k \in DOMAIN items, items[k] \in S, NEW i \in DOMAIN inbox \cup {0}
      PROVE  After(i, S)'
  <2>1. Len(inbox) + k \in DOMAIN inbox' /\ inbox'[Len(inbox) + k] = items[k]
    BY InboxGrows
  <2>2. Len(inbox) + k > i
    BY <1>1
  <2>. QED BY <1>3, <2>1, <2>2 DEF After
<1>. QED BY <1>2, <1>3

\* The first broadcast is delivered.
LEMMA InboxMoves ==
  ASSUME inbox \in Seq(Broadcasts), inbox # <<>>, inbox' = Tail(inbox)
  PROVE  /\ inbox' \in Seq(Broadcasts)
         /\ 1 \in DOMAIN inbox /\ Head(inbox) = inbox[1] /\ inbox[1] \in Broadcasts
         /\ \A i \in DOMAIN inbox' : /\ i \in Nat /\ i + 1 \in DOMAIN inbox /\ i + 1 # 1
                                     /\ inbox'[i] = inbox[i + 1]
         /\ \A S : \A i \in DOMAIN inbox' \cup {0} : After(i + 1, S) => After(i, S)'
         /\ \A S : After(0, S) => inbox[1] \in S \/ After(1, S)
<1> DEFINE L == Len(inbox)
<1>1. /\ L \in Nat /\ L # 0 /\ DOMAIN inbox = 1 .. L
      /\ inbox' \in Seq(Broadcasts) /\ Len(inbox') = L - 1
      /\ \A i \in 1 .. L - 1 : inbox'[i] = inbox[i + 1]
      /\ Head(inbox) = inbox[1]
  BY LenProperties, HeadTailProperties, EmptySeq
<1>2. DOMAIN inbox' = 1 .. L - 1
  BY <1>1, LenProperties
<1>3. inbox[1] \in Broadcasts
  BY <1>1, ElementOfSeq
<1> HIDE DEF L
<1>4. \A i \in DOMAIN inbox' : /\ i \in Nat /\ i + 1 \in DOMAIN inbox /\ i + 1 # 1
                               /\ inbox'[i] = inbox[i + 1]
  BY <1>1, <1>2
<1>5. ASSUME NEW S, NEW i \in DOMAIN inbox' \cup {0}, After(i + 1, S)
      PROVE  After(i, S)'
  <2>1. PICK j \in DOMAIN inbox : j > i + 1 /\ inbox[j] \in S
    BY <1>5 DEF After
  <2>2. j - 1 \in DOMAIN inbox' /\ j - 1 > i /\ inbox'[j - 1] = inbox[j]
    BY <1>1, <1>2, <2>1
  <2>. QED BY <2>1, <2>2 DEF After
<1>6. ASSUME NEW S, After(0, S) PROVE inbox[1] \in S \/ After(1, S)
  BY <1>1, <1>6 DEF After
<1>. QED BY <1>1, <1>3, <1>4, <1>5, <1>6

\* UnderWay, told apart: before and after a step.
LEMMA UnderWayParts ==
  ASSUME inbox \in Seq(Broadcasts)
  PROVE  UnderWay <=> Ending \/ starting \/ After(0, Wakes)
<1>1. Len(inbox) \in Nat /\ DOMAIN inbox = 1 .. Len(inbox)
  BY LenProperties
<1>. QED BY <1>1 DEF UnderWay, Ending, After, Wakes

LEMMA UnderWayPartsNext ==
  ASSUME inbox' \in Seq(Broadcasts)
  PROVE  UnderWay' <=> Ending' \/ starting' \/ After(0, Wakes)'
<1>1. Len(inbox') \in Nat /\ DOMAIN inbox' = 1 .. Len(inbox')
  BY LenProperties
<1>. QED BY <1>1 DEF UnderWay, Ending, After, Wakes

-----------------------------------------------------------------------------
(* What all steps have in common.                                          *)

Said(items, S) == \E k \in DOMAIN items : items[k] \in S

LEMMA NothingSaid == <<>> \in Seq(Signals) /\ \A S : ~Said(<<>>, S)
<1>1. DOMAIN <<>> = {}
  OBVIOUS
<1>. QED BY <1>1 DEF Said

LEMMA OneSaid ==
  ASSUME NEW x \in Signals
  PROVE  <<x>> \in Seq(Signals) /\ \A S : Said(<<x>>, S) <=> x \in S
<1>1. DOMAIN <<x>> = {1} /\ <<x>>[1] = x
  OBVIOUS
<1>. QED BY <1>1 DEF Said

LEMMA TwoSaid ==
  ASSUME NEW x \in Signals, NEW y \in Signals
  PROVE  <<x, y>> \in Seq(Signals) /\ \A S : Said(<<x, y>>, S) <=> x \in S \/ y \in S
<1>1. DOMAIN <<x, y>> = {1, 2} /\ <<x, y>>[1] = x /\ <<x, y>>[2] = y
  OBVIOUS
<1>. QED BY <1>1 DEF Said

\* A step that makes broadcasts: what it takes from the threads, the monitor or the
\* start of the audio capture it says itself, and it says STARTED and QUEUED only
\* while more will follow.
LEMMA PartsCarried ==
  ASSUME TypeOK, Parts,
         NEW items \in Seq(Broadcasts), inbox' = inbox \o items,
         UNCHANGED <<lost, running, stopped>>,
         \/ UNCHANGED uiVars
         \/ txState' = "QUEUED" /\ Said(items, Wakes),
         Said(items, {"STARTED", "QUEUED"}) => Ending',
         Ending => Ending' \/ Said(items, Ends),
         starting => starting' \/ Said(items, Wakes)
  PROVE  Parts'
<1>1. inbox \in Seq(Broadcasts) /\ inbox' \in Seq(Broadcasts)
  BY InboxGrows DEF TypeOK
<1>2. /\ \A i \in DOMAIN inbox \cup {0} : /\ After(i, Wakes) => After(i, Wakes)'
                                          /\ After(i, Ends) => After(i, Ends)'
      /\ Said(items, Wakes) =>
           \A i \in DOMAIN inbox \cup {0} : After(i, Wakes)'
      /\ Said(items, Ends) =>
           \A i \in DOMAIN inbox \cup {0} : After(i, Ends)' /\ After(i, Wakes)'
  <2>1. Ends \subseteq Wakes
    BY DEF Ends, Wakes
  <2>. QED BY <1>1, <2>1, SaidLast DEF Said
<1>3. \A i \in DOMAIN inbox' : \/ i \in DOMAIN inbox /\ inbox'[i] = inbox[i]
                               \/ \E k \in DOMAIN items : inbox'[i] = items[k]
  BY <1>1, InboxGrows
<1>4. EndComes'
  <2> SUFFICES ASSUME ~lost, ~stopped PROVE
        /\ txState' = "TRANSMITTING" => Ending' \/ After(0, Ends)'
        /\ \A i \in DOMAIN inbox' : inbox'[i] = "STARTED" => Ending' \/ After(i, Ends)'
    BY DEF EndComes
  <2>0. EndComes
    BY DEF Parts
  <2>1. ASSUME txState' = "TRANSMITTING" PROVE Ending' \/ After(0, Ends)'
    <3>1. Ending \/ After(0, Ends)
      BY <2>0, <2>1 DEF EndComes, uiVars
    <3>. QED BY <1>2, <3>1
  <2>2. ASSUME NEW i \in DOMAIN inbox', inbox'[i] = "STARTED"
        PROVE  Ending' \/ After(i, Ends)'
    <3>1. CASE i \in DOMAIN inbox /\ inbox[i] = "STARTED"
      <4>1. Ending \/ After(i, Ends)
        BY <2>0, <3>1 DEF EndComes
      <4>. QED BY <1>2, <3>1, <4>1
    <3>. QED BY <1>3, <2>2, <3>1 DEF Said
  <2>. QED BY <2>1, <2>2
<1>5. QueuedIsFollowed'
  <2> SUFFICES ASSUME ~lost, running, NEW i \in DOMAIN inbox', inbox'[i] = "QUEUED"
               PROVE  Ending' \/ starting' \/ After(i, Wakes)'
    BY DEF QueuedIsFollowed
  <2>1. CASE i \in DOMAIN inbox /\ inbox[i] = "QUEUED"
    <3>1. Ending \/ starting \/ After(i, Wakes)
      BY <2>1 DEF Parts, QueuedIsFollowed
    <3>. QED BY <1>2, <2>1, <3>1
  <2>. QED BY <1>3, <2>1 DEF Said
<1>6. NothingForgotten'
  <2> SUFFICES ASSUME running, ~lost, queue' # <<>>
               PROVE  UnderWay' \/ StillTransmitting'
    BY DEF NothingForgotten
  <2>1. UnderWay' <=> Ending' \/ starting' \/ After(0, Wakes)'
    BY <1>1, UnderWayPartsNext
  <2>2. CASE UNCHANGED uiVars
    <3>1. Ending \/ starting \/ After(0, Wakes) \/ StillTransmitting
      BY <1>1, <2>2, UnderWayParts DEF Parts, NothingForgotten, uiVars
    <3>2. StillTransmitting => StillTransmitting'
      BY <2>2 DEF StillTransmitting, uiVars
    <3>. QED BY <1>2, <2>1, <3>1, <3>2
  <2>. QED BY <1>2, <2>1, <2>2
<1>. QED BY <1>4, <1>5, <1>6 DEF Parts

\* A broadcast that is lost is an excuse from then on; without an engine nothing is
\* promised.
LEMMA PartsExcused ==
  ASSUME lost' \/ (stopped' /\ (~running' \/ (starting' /\ ~running /\ running')))
  PROVE  Parts'
<1>1. EndComes'
  BY DEF EndComes
<1>2. QueuedIsFollowed'
  BY DEF QueuedIsFollowed
<1>3. NothingForgotten'
  BY DEF NothingForgotten, UnderWay
<1>. QED BY <1>1, <1>2, <1>3 DEF Parts

\* Only signals are said, and the queue keeps its messages.
LEMMA DistinctKept ==
  ASSUME TypeOK, Distinct, NEW items \in Seq(Signals), inbox' = inbox \o items,
         UNCHANGED <<queue, offered>>
  PROVE  Distinct'
<1>1. /\ items \in Seq(Broadcasts)
      /\ \A k \in DOMAIN items : items[k] \notin Replies
  <2>1. Signals \intersect Replies = {}
    BY QueueAssumption DEF QueueAssumption
  <2>2. DOMAIN items = 1 .. Len(items) /\ \A k \in 1 .. Len(items) : items[k] \in Signals
    BY LenProperties, ElementOfSeq
  <2>3. Signals \subseteq Broadcasts
    BY DEF Broadcasts
  <2>. QED BY <2>1, <2>2, <2>3
<1>2. \A i \in DOMAIN inbox' : inbox'[i] \in Replies =>
        i \in DOMAIN inbox /\ inbox'[i] = inbox[i]
  BY <1>1, InboxGrows DEF TypeOK
<1>. QED BY <1>2 DEF Distinct

\* A step of the service or the engine that says some signals, none included.
Says(items) == Broadcast(items) \/ (items = <<>> /\ UNCHANGED busVars)

LEMMA SaysEffect ==
  ASSUME TypeOK, NEW items \in Seq(Signals), Says(items)
  PROVE  /\ inbox' \in Seq(Broadcasts) /\ lost' \in BOOLEAN
         /\ items \in Seq(Broadcasts)
         /\ (UNCHANGED lost /\ inbox' = inbox \o items) \/ (lost' /\ UNCHANGED inbox)
<1>1. items \in Seq(Broadcasts)
  BY DEF Broadcasts
<1>2. inbox \in Seq(Broadcasts) /\ inbox \o <<>> = inbox
  BY ConcatEmptySeq DEF TypeOK
<1>3. inbox \o items \in Seq(Broadcasts)
  BY <1>1, <1>2, ConcatProperties
<1>4. lost \in BOOLEAN
  BY DEF TypeOK
<1>5. CASE inbox' = inbox \o items /\ UNCHANGED lost
  <2>1. inbox' \in Seq(Broadcasts) /\ lost' \in BOOLEAN
    BY <1>3, <1>4, <1>5
  <2> DEFINE joined == inbox \o items
  <2>2. inbox' = joined /\ UNCHANGED lost
    BY <1>5
  <2> HIDE DEF joined
  <2>3. (UNCHANGED lost /\ inbox' = joined) \/ (lost' /\ UNCHANGED inbox)
    BY <2>2
  <2>. QED BY <1>1, <2>1, <2>3 DEF joined
<1>6. CASE lost' = TRUE /\ UNCHANGED inbox
  BY <1>1, <1>2, <1>6
<1>7. CASE items = <<>> /\ UNCHANGED busVars
  BY <1>1, <1>2, <1>4, <1>7 DEF busVars
<1>. QED BY <1>5, <1>6, <1>7 DEF Says, Broadcast

LEMMA SignalsSaid ==
  ASSUME IInv, TypeOK', NEW items \in Seq(Signals), Says(items),
         UNCHANGED <<uiVars, offered, running, stopped>>,
         AudioHasFrames',
         Said(items, {"STARTED", "QUEUED"}) => Ending',
         Ending => Ending' \/ Said(items, Ends),
         starting => starting' \/ Said(items, Wakes)
  PROVE  IInv'
<1>1. /\ items \in Seq(Broadcasts)
      /\ (UNCHANGED lost /\ inbox' = inbox \o items) \/ (lost' /\ UNCHANGED inbox)
  BY SaysEffect DEF IInv
<1>2. Sorted'
  BY DEF IInv, Sorted, uiVars
<1>3. RunsUntilStopped'
  BY DEF IInv, RunsUntilStopped
<1>4. CASE UNCHANGED lost /\ inbox' = inbox \o items
  <2>1. Distinct'
    BY <1>4, DistinctKept DEF IInv, uiVars
  <2>2. Parts'
    BY <1>1, <1>4, PartsCarried DEF IInv
  <2>. QED BY <1>2, <1>3, <2>1, <2>2 DEF IInv
<1>5. CASE lost' /\ UNCHANGED inbox
  <2>1. Distinct'
    BY <1>5 DEF IInv, Distinct, uiVars
  <2>2. Parts'
    BY <1>5, PartsExcused
  <2>. QED BY <1>2, <1>3, <2>1, <2>2 DEF IInv
<1>. QED BY <1>1, <1>4, <1>5

\* The same without an engine: only what the user interface sees must be kept.
LEMMA Excused ==
  ASSUME IInv, TypeOK', UNCHANGED <<uiVars, offered, inbox>>, AudioHasFrames',
         RunsUntilStopped',
         lost' \/ (stopped' /\ (~running' \/ (starting' /\ ~running /\ running')))
  PROVE  IInv'
<1>1. Sorted' /\ Distinct'
  BY DEF IInv, Sorted, Distinct, uiVars
<1>. QED BY <1>1, PartsExcused DEF IInv

LEMMA OneSignalSaid ==
  ASSUME IInv, TypeOK', NEW x \in Signals, Broadcast(<<x>>),
         UNCHANGED <<uiVars, offered, running, stopped>>,
         AudioHasFrames',
         x \in {"STARTED", "QUEUED"} => Ending',
         Ending => Ending' \/ x \in Ends,
         starting => starting' \/ x \in Wakes
  PROVE  IInv'
<1> DEFINE items == <<x>>
<1>1. items \in Seq(Signals) /\ \A S : Said(items, S) <=> x \in S
  BY OneSaid
<1>2. Says(items)
  BY DEF Says
<1> HIDE DEF items
<1>3. /\ Said(items, {"STARTED", "QUEUED"}) => Ending'
      /\ Ending => Ending' \/ Said(items, Ends)
      /\ starting => starting' \/ Said(items, Wakes)
  BY <1>1
<1>. QED BY <1>1, <1>2, <1>3, SignalsSaid

LEMMA NoSignalSaid ==
  ASSUME IInv, TypeOK', UNCHANGED busVars,
         UNCHANGED <<uiVars, offered, running, stopped>>,
         AudioHasFrames', Ending => Ending', starting => starting'
  PROVE  IInv'
<1> DEFINE items == <<>>
<1>1. items \in Seq(Signals) /\ \A S : ~Said(items, S)
  BY NothingSaid
<1>2. Says(items)
  BY DEF Says
<1> HIDE DEF items
<1>. QED BY <1>1, <1>2, SignalsSaid

\* The type invariant, by the owner of the state.
UiTyped ==
  /\ queue \in Seq(Messages) /\ Len(queue) <= Cardinality(Messages)
  /\ txState \in {"IDLE", "QUEUED", "TRANSMITTING"}
BusTyped == inbox \in Seq(Broadcasts) /\ lost \in BOOLEAN
ServiceTyped ==
  /\ running \in BOOLEAN /\ starting \in BOOLEAN
  /\ monitor \in BOOLEAN /\ wasAudio \in BOOLEAN /\ seen \in BOOLEAN
  /\ releasing \in BOOLEAN
ThreadsTyped ==
  /\ tasks \in Seq(Messages)
  /\ pc \in [{Main, Js8Tx} -> {"idle", "announce", "monitor"}]
EngineTyped ==
  /\ session \in Messages \union {Own, None}
  /\ frames \in 0 .. MaxFrames /\ audio \in BOOLEAN
BoundTyped ==
  /\ offered \subseteq Messages
  /\ events \in 0 .. MaxEvents /\ stopped \in BOOLEAN
Typed ==
  /\ UiTyped /\ BusTyped /\ foreground \in BOOLEAN
  /\ ServiceTyped /\ ThreadsTyped /\ EngineTyped /\ BoundTyped

LEMMA TypeParts == (TypeOK <=> Typed) /\ (TypeOK' <=> Typed')
BY DEF Typed, UiTyped, BusTyped, ServiceTyped, ThreadsTyped, EngineTyped, BoundTyped, TypeOK

LEMMA TypeKept ==
  ASSUME Typed
  PROVE  /\ UNCHANGED uiVars => UiTyped'
         /\ UNCHANGED busVars => BusTyped'
         /\ UNCHANGED serviceVars => ServiceTyped'
         /\ UNCHANGED <<tasks, pc>> => ThreadsTyped'
         /\ UNCHANGED engineVars => EngineTyped'
         /\ UNCHANGED boundVars => BoundTyped'
<1>1. UNCHANGED uiVars => UiTyped'
  BY DEF Typed, UiTyped, uiVars
<1>2. UNCHANGED busVars => BusTyped'
  BY DEF Typed, BusTyped, busVars
<1>3. UNCHANGED serviceVars => ServiceTyped'
  BY DEF Typed, ServiceTyped, serviceVars
<1>4. UNCHANGED <<tasks, pc>> => ThreadsTyped'
  BY DEF Typed, ThreadsTyped
<1>5. UNCHANGED engineVars => EngineTyped'
  BY DEF Typed, EngineTyped, engineVars
<1>6. UNCHANGED boundVars => BoundTyped'
  BY DEF Typed, BoundTyped, boundVars
<1>. QED BY <1>1, <1>2, <1>3, <1>4, <1>5, <1>6

LEMMA BroadcastTyped ==
  ASSUME TypeOK, NEW x \in Signals, Broadcast(<<x>>)
  PROVE  BusTyped'
<1>1. <<x>> \in Seq(Signals) /\ Says(<<x>>)
  BY OneSaid DEF Says
<1>. QED BY <1>1, SaysEffect DEF BusTyped

\* One more of the events that are bounded.
LEMMA EventTyped ==
  ASSUME Typed, Event, UNCHANGED offered, stopped' \in BOOLEAN
  PROVE  BoundTyped'
<1>1. MaxEvents \in Nat
  BY QueueAssumption DEF QueueAssumption
<1>2. events \in 0 .. MaxEvents /\ offered \subseteq Messages
  BY DEF Typed, BoundTyped
<1>3. events' \in 0 .. MaxEvents
  BY <1>1, <1>2 DEF Event
<1>. QED BY <1>2, <1>3 DEF BoundTyped

LEMMA ReplacesTyped ==
  ASSUME NEW m \in Messages \union {Own}, Replaces(m)
  PROVE  EngineTyped' /\ AudioHasFrames'
<1>1. MaxFrames \in Nat
  BY QueueAssumption DEF QueueAssumption
<1>2. frames' \in 0 .. MaxFrames
  BY <1>1 DEF Replaces
<1>. QED BY <1>2 DEF Replaces, EngineTyped, AudioHasFrames

LEMMA SilencedTyped ==
  ASSUME session' = None, frames' = 0, audio' = FALSE
  PROVE  EngineTyped' /\ AudioHasFrames'
<1>1. MaxFrames \in Nat
  BY QueueAssumption DEF QueueAssumption
<1>2. session' \in Messages \union {Own, None}
  OBVIOUS
<1>3. frames' \in 0 .. MaxFrames
  BY <1>1
<1>4. audio' \in BOOLEAN
  OBVIOUS
<1>5. AudioHasFrames'
  BY DEF AudioHasFrames
<1>. QED BY <1>2, <1>3, <1>4, <1>5 DEF EngineTyped

LEMMA EngineKept ==
  ASSUME IInv, UNCHANGED engineVars
  PROVE  EngineTyped' /\ AudioHasFrames'
BY DEF IInv, TypeOK, EngineTyped, AudioHasFrames, engineVars

LEMMA RefusesTyped ==
  ASSUME IInv, Refuses, UNCHANGED <<offered, stopped>>
  PROVE  EngineTyped' /\ AudioHasFrames' /\ BoundTyped'
<1>1. Typed /\ stopped' \in BOOLEAN
  BY TypeParts DEF IInv, TypeOK
<1>2. BoundTyped'
  BY <1>1, EventTyped DEF Refuses
<1>3. EngineTyped' /\ AudioHasFrames'
  BY SilencedTyped, EngineKept DEF Refuses
<1>. QED BY <1>2, <1>3

-----------------------------------------------------------------------------
(* The service and the engine.                                             *)

LEMMA AnnounceStep ==
  ASSUME IInv, NEW t \in {Main, Js8Tx}, Announce(t)
  PROVE  IInv'
<1>1. TypeOK /\ Typed /\ "QUEUED" \in Signals
  BY TypeParts DEF IInv, Signals, States
<1>2. Broadcast(<<"QUEUED">>)
  BY DEF Announce
<1>3. ThreadsTyped' /\ Ending'
  <2>1. pc'[t] = "monitor" /\ pc' \in [{Main, Js8Tx} -> {"idle", "announce", "monitor"}]
    BY <1>1 DEF Announce, TypeOK, Goto
  <2>2. tasks' \in Seq(Messages)
    BY <1>1 DEF Announce, TypeOK
  <2>. QED BY <2>1, <2>2 DEF ThreadsTyped, Ending
<1>4. /\ UNCHANGED <<uiVars, serviceVars, engineVars, boundVars, foreground>>
      /\ UNCHANGED <<offered, running, stopped, starting>>
  BY DEF Announce, serviceVars, boundVars
<1>5. TypeOK'
  <2>1. BusTyped'
    BY <1>1, <1>2, BroadcastTyped
  <2>. QED BY <1>1, <1>3, <1>4, <2>1, TypeParts, TypeKept DEF Typed
<1>6. AudioHasFrames'
  BY <1>4, EngineKept
<1>. QED BY <1>1, <1>2, <1>3, <1>4, <1>5, <1>6, OneSignalSaid

LEMMA StartTxMonitorStep ==
  ASSUME IInv, NEW t \in {Main, Js8Tx}, StartTxMonitor(t)
  PROVE  IInv'
<1>1. TypeOK /\ Typed
  BY TypeParts DEF IInv
<1>2. ThreadsTyped'
  BY <1>1 DEF StartTxMonitor, TypeOK, Goto, ThreadsTyped
<1>3. ServiceTyped' /\ Ending'
  BY <1>1 DEF StartTxMonitor, TypeOK, ServiceTyped, Ending
<1>4. /\ UNCHANGED <<uiVars, busVars, engineVars, boundVars, foreground>>
      /\ UNCHANGED <<offered, running, stopped, starting>>
  BY DEF StartTxMonitor, boundVars
<1>5. TypeOK'
  BY <1>1, <1>2, <1>3, <1>4, TypeParts, TypeKept DEF Typed
<1>6. AudioHasFrames'
  BY <1>4, EngineKept
<1>. QED BY <1>3, <1>4, <1>5, <1>6, NoSignalSaid

LEMMA NextTaskTyped ==
  ASSUME TypeOK, NextTask
  PROVE  tasks' \in Seq(Messages) /\ Head(tasks) \in Messages
BY HeadTailProperties DEF TypeOK, NextTask

LEMMA HandleTransmitMessageStep ==
  ASSUME IInv, HandleTransmitMessage
  PROVE  IInv'
<1>1. /\ TypeOK /\ Typed /\ tasks' \in Seq(Messages) /\ Head(tasks) \in Messages
      /\ UNCHANGED <<uiVars, foreground, serviceVars, offered, stopped>>
  BY NextTaskTyped, TypeParts DEF IInv, HandleTransmitMessage
<1>2. UNCHANGED <<running, starting>>
  BY <1>1 DEF serviceVars
<1>3. CASE ~running /\ UNCHANGED <<pc, engineVars, busVars, events>>
  <2>1. ThreadsTyped'
    BY <1>1, <1>3 DEF TypeOK, ThreadsTyped
  <2>2. UNCHANGED boundVars /\ UNCHANGED inbox
    BY <1>1, <1>3 DEF boundVars, busVars
  <2>3. TypeOK' /\ AudioHasFrames'
    BY <1>1, <1>3, <2>1, <2>2, TypeParts, TypeKept, EngineKept DEF Typed
  <2>4. stopped' /\ ~running' /\ RunsUntilStopped'
    BY <1>1, <1>2, <1>3 DEF IInv, RunsUntilStopped, TypeOK
  <2>. QED BY <1>1, <2>2, <2>3, <2>4, Excused
<1>4. CASE /\ running /\ Replaces(Head(tasks)) /\ Goto(Js8Tx, "announce")
           /\ UNCHANGED <<busVars, events>>
  <2>1. ThreadsTyped' /\ Ending'
    <3>1. pc'[Js8Tx] = "announce" /\ pc' \in [{Main, Js8Tx} -> {"idle", "announce", "monitor"}]
      BY <1>1, <1>4 DEF TypeOK, Goto
    <3>. QED BY <1>1, <3>1 DEF ThreadsTyped, Ending
  <2>2. EngineTyped' /\ AudioHasFrames'
    BY <1>1, <1>4, ReplacesTyped
  <2>3. UNCHANGED boundVars
    BY <1>1, <1>4 DEF boundVars
  <2>4. TypeOK'
    BY <1>1, <1>4, <2>1, <2>2, <2>3, TypeParts, TypeKept DEF Typed
  <2>. QED BY <1>1, <1>2, <1>4, <2>1, <2>2, <2>4, NoSignalSaid
<1>5. CASE running /\ Refuses /\ Broadcast(<<"FAILED">>) /\ UNCHANGED pc
  <2>1. "FAILED" \in Signals /\ "FAILED" \in Ends /\ "FAILED" \notin {"STARTED", "QUEUED"}
    BY DEF Signals, States, Ends
  <2>2. BusTyped'
    BY <1>1, <1>5, <2>1, BroadcastTyped
  <2>3. EngineTyped' /\ AudioHasFrames' /\ BoundTyped'
    BY <1>1, <1>5, RefusesTyped
  <2>4. ThreadsTyped'
    BY <1>1, <1>5 DEF TypeOK, ThreadsTyped
  <2>5. TypeOK'
    BY <1>1, <2>2, <2>3, <2>4, TypeParts, TypeKept DEF Typed
  <2>. QED BY <1>1, <1>2, <1>5, <2>1, <2>3, <2>5, OneSignalSaid
<1>. QED BY <1>3, <1>4, <1>5 DEF HandleTransmitMessage

LEMMA SendOwnStep ==
  ASSUME IInv, SendOwn
  PROVE  IInv'
<1>1. /\ TypeOK /\ Typed
      /\ UNCHANGED <<uiVars, busVars, foreground, serviceVars, tasks, offered, stopped>>
  BY TypeParts DEF IInv, SendOwn
<1>2. UNCHANGED <<running, starting, monitor, releasing>>
  BY <1>1 DEF serviceVars
<1>3. ThreadsTyped' /\ (Ending => Ending')
  <2>1. CASE Goto(Main, "announce")
    <3>1. pc'[Main] = "announce" /\ pc' \in [{Main, Js8Tx} -> {"idle", "announce", "monitor"}]
      BY <1>1, <2>1 DEF TypeOK, Goto
    <3>2. tasks' \in Seq(Messages)
      BY <1>1 DEF TypeOK
    <3>. QED BY <3>1, <3>2 DEF ThreadsTyped, Ending
  <2>2. CASE UNCHANGED pc
    BY <1>1, <1>2, <2>2, TypeKept DEF Ending
  <2>. QED BY <2>1, <2>2 DEF SendOwn
<1>4. EngineTyped' /\ AudioHasFrames' /\ BoundTyped'
  <2>1. CASE Replaces(Own)
    <3>1. stopped' \in BOOLEAN
      BY <1>1 DEF TypeOK
    <3>. QED BY <1>1, <2>1, <3>1, ReplacesTyped, EventTyped DEF SendOwn
  <2>2. CASE Refuses
    BY <1>1, <2>2, RefusesTyped
  <2>. QED BY <2>1, <2>2 DEF SendOwn
<1>5. TypeOK'
  BY <1>1, <1>3, <1>4, TypeParts, TypeKept DEF Typed
<1>. QED BY <1>1, <1>2, <1>3, <1>4, <1>5, NoSignalSaid

LEMMA MonitorStep ==
  ASSUME IInv, Monitor
  PROVE  IInv'
<1>1. /\ TypeOK /\ Typed /\ MonitorRuns
      /\ UNCHANGED <<uiVars, foreground, running, starting, tasks, pc, boundVars, engineVars>>
  BY TypeParts
  DEF IInv, Monitor, MonitorWithoutEngine, MonitorAfterSession, MonitorDuringSession,
      MonitorRuns
<1>2. UNCHANGED <<offered, stopped>> /\ AudioHasFrames'
  BY <1>1, EngineKept DEF boundVars
<1>3. CASE MonitorWithoutEngine
  <2>1. ServiceTyped' /\ UNCHANGED busVars /\ UNCHANGED inbox
    BY <1>1, <1>3 DEF MonitorWithoutEngine, ServiceTyped, TypeOK, busVars
  <2>2. TypeOK'
    BY <1>1, <2>1, TypeParts, TypeKept DEF Typed
  <2>3. stopped' /\ ~running' /\ RunsUntilStopped'
    BY <1>1, <1>2, <1>3 DEF MonitorWithoutEngine, IInv, RunsUntilStopped, TypeOK
  <2>. QED BY <1>1, <1>2, <2>1, <2>2, <2>3, Excused
<1>4. CASE MonitorAfterSession
  <2>1. ServiceTyped' /\ UNCHANGED busVars /\ Ending'
    BY <1>1, <1>4 DEF MonitorAfterSession, ServiceTyped, TypeOK, Ending
  <2>2. TypeOK'
    BY <1>1, <2>1, TypeParts, TypeKept DEF Typed
  <2>. QED BY <1>1, <1>2, <2>1, <2>2, NoSignalSaid
<1>5. CASE MonitorDuringSession
  <2>1. ServiceTyped' /\ Ending'
    BY <1>1, <1>5 DEF MonitorDuringSession, MonitorRuns, ServiceTyped, TypeOK, Ending
  <2>2. CASE UNCHANGED busVars
    <3>1. TypeOK'
      BY <1>1, <2>1, <2>2, TypeParts, TypeKept DEF Typed
    <3>. QED BY <1>1, <1>2, <2>1, <2>2, <3>1, NoSignalSaid
  <2>3. ASSUME NEW x \in {"STARTED", "QUEUED"}, Broadcast(<<x>>) PROVE IInv'
    <3>1. x \in Signals
      BY DEF Signals, States
    <3>2. BusTyped'
      BY <1>1, <2>3, <3>1, BroadcastTyped
    <3>3. TypeOK'
      BY <1>1, <2>1, <3>2, TypeParts, TypeKept DEF Typed
    <3>. QED BY <1>1, <1>2, <2>1, <2>3, <3>1, <3>3, OneSignalSaid
  <2>. QED BY <1>5, <2>2, <2>3 DEF MonitorDuringSession
<1>. QED BY <1>3, <1>4, <1>5 DEF Monitor

LEMMA EndsAreSaid ==
  ASSUME NEW x \in {"FINISHED", "FAILED"}
  PROVE  x \in Signals /\ x \in Ends /\ x \notin {"STARTED", "QUEUED"}
BY DEF Signals, States, Ends

LEMMA FailTransmitStep ==
  ASSUME IInv, FailTransmit
  PROVE  IInv'
<1>1. /\ TypeOK /\ Typed /\ Broadcast(<<"FAILED">>)
      /\ UNCHANGED <<uiVars, foreground, running, starting, tasks, pc, offered, stopped>>
  BY TypeParts DEF IInv, FailTransmit, ReportsFailure
<1>2. ServiceTyped' /\ stopped' \in BOOLEAN
  BY <1>1 DEF FailTransmit, ServiceTyped, TypeOK
<1>3. EngineTyped' /\ AudioHasFrames'
  BY SilencedTyped DEF FailTransmit
<1>4. BoundTyped'
  BY <1>1, <1>2, EventTyped DEF FailTransmit
<1>5. BusTyped'
  BY <1>1, EndsAreSaid, BroadcastTyped
<1>6. TypeOK'
  BY <1>1, <1>2, <1>3, <1>4, <1>5, TypeParts, TypeKept DEF Typed
<1>. QED BY <1>1, <1>3, <1>6, EndsAreSaid, OneSignalSaid

LEMMA ReportEndStep ==
  ASSUME IInv, ReportEnd
  PROVE  IInv'
<1>1. /\ TypeOK /\ Typed
      /\ UNCHANGED <<uiVars, foreground, running, starting, monitor, wasAudio, seen, tasks, pc,
                     engineVars, offered, stopped>>
  BY TypeParts DEF IInv, ReportEnd
<1>2. PICK x \in {"FINISHED", "FAILED"} : Broadcast(<<x>>)
  BY DEF ReportEnd, ReportsFailure
<1>3. ServiceTyped' /\ stopped' \in BOOLEAN
  BY <1>1 DEF ReportEnd, ServiceTyped, TypeOK
<1>4. BoundTyped'
  <2>1. CASE UNCHANGED events
    BY <1>1, <2>1, TypeKept DEF boundVars
  <2>2. CASE Event
    BY <1>1, <1>3, <2>2, EventTyped
  <2>. QED BY <2>1, <2>2 DEF ReportEnd
<1>5. BusTyped'
  BY <1>1, <1>2, EndsAreSaid, BroadcastTyped
<1>6. TypeOK' /\ AudioHasFrames'
  BY <1>1, <1>3, <1>4, <1>5, TypeParts, TypeKept, EngineKept DEF Typed
<1>. QED BY <1>1, <1>2, <1>6, EndsAreSaid, OneSignalSaid

LEMMA EngineProgressStep ==
  ASSUME IInv, EngineProgress
  PROVE  IInv'
<1>1. /\ TypeOK /\ Typed /\ AudioHasFrames
      /\ UNCHANGED <<uiVars, busVars, foreground, serviceVars, tasks, pc, boundVars>>
  BY TypeParts DEF IInv, EngineProgress
<1>2. EngineTyped' /\ AudioHasFrames'
  <2>1. /\ session \in Messages \union {Own, None} /\ MaxFrames \in Nat
        /\ frames \in 0 .. MaxFrames /\ audio \in BOOLEAN
    BY <1>1, QueueAssumption DEF TypeOK, QueueAssumption
  <2>2. CASE AudioBegins
    BY <2>1, <2>2 DEF AudioBegins, EngineTyped, AudioHasFrames
  <2>3. CASE FrameEnds
    <3>1. frames > 0
      BY <1>1, <2>3 DEF FrameEnds, AudioHasFrames
    <3>2. frames' \in 0 .. MaxFrames
      BY <2>1, <2>3, <3>1 DEF FrameEnds
    <3>. QED BY <2>1, <2>3, <3>2 DEF FrameEnds, EngineTyped, AudioHasFrames
  <2>4. CASE SessionEnds
    BY <2>1, <2>4 DEF SessionEnds, EngineTyped, AudioHasFrames
  <2>. QED BY <2>2, <2>3, <2>4 DEF EngineProgress
<1>3. Ending' = Ending /\ UNCHANGED <<offered, running, stopped, starting>>
  BY <1>1 DEF Ending, serviceVars, boundVars
<1>4. TypeOK'
  BY <1>1, <1>2, TypeParts, TypeKept DEF Typed
<1>. QED BY <1>1, <1>2, <1>3, <1>4, NoSignalSaid

-----------------------------------------------------------------------------
(* Start and stop of the engine.                                           *)

LEMMA StopEngineStep ==
  ASSUME IInv, StopEngine
  PROVE  IInv'
<1>1. /\ TypeOK /\ Typed
      /\ UNCHANGED <<uiVars, busVars, foreground, wasAudio, seen, pc, offered>>
  BY TypeParts DEF IInv, StopEngine
<1>2. ThreadsTyped'
  <2>1. PICK removed \in 0 .. Len(tasks) : tasks' = SubSeq(tasks, removed + 1, Len(tasks))
    BY DEF StopEngine
  <2>2. Len(tasks) \in Nat /\ \A i \in removed + 1 .. Len(tasks) : tasks[i] \in Messages
    BY <1>1, <2>1, LenProperties, ElementOfSeq DEF TypeOK
  <2>3. tasks' \in Seq(Messages)
    BY <2>1, <2>2, SubSeqProperties
  <2>. QED BY <1>1, <2>3 DEF ThreadsTyped, TypeOK
<1>3. ServiceTyped' /\ stopped' \in BOOLEAN
  BY <1>1 DEF StopEngine, ServiceTyped, TypeOK
<1>4. EngineTyped' /\ AudioHasFrames' /\ BoundTyped'
  BY <1>1, <1>3, SilencedTyped, EventTyped DEF StopEngine
<1>5. TypeOK'
  BY <1>1, <1>2, <1>3, <1>4, TypeParts, TypeKept DEF Typed
<1>6. stopped' /\ ~running' /\ RunsUntilStopped' /\ UNCHANGED inbox
  BY <1>1 DEF StopEngine, RunsUntilStopped, busVars
<1>. QED BY <1>1, <1>4, <1>5, <1>6, Excused

LEMMA StartEngineStep ==
  ASSUME IInv, StartEngine
  PROVE  IInv'
<1>1. /\ TypeOK /\ Typed
      /\ UNCHANGED <<uiVars, busVars, foreground, monitor, releasing, tasks, pc, engineVars,
                     boundVars>>
  BY TypeParts DEF IInv, StartEngine
<1>2. ServiceTyped'
  <2>1. seen' \in BOOLEAN
    BY <1>1 DEF StartEngine, TypeOK
  <2>2. wasAudio' \in BOOLEAN
    BY <1>1 DEF StartEngine, TypeOK
  <2>. QED BY <1>1, <2>1, <2>2 DEF StartEngine, ServiceTyped, TypeOK
<1>3. TypeOK' /\ AudioHasFrames'
  BY <1>1, <1>2, TypeParts, TypeKept, EngineKept DEF Typed
<1>4. /\ stopped' /\ RunsUntilStopped' /\ UNCHANGED <<offered, inbox>>
      /\ starting' /\ ~running /\ running'
  BY <1>1 DEF StartEngine, IInv, RunsUntilStopped, boundVars, busVars, TypeOK
<1>. QED BY <1>1, <1>3, <1>4, Excused

LEMMA AudioRunsStep ==
  ASSUME IInv, AudioRuns
  PROVE  IInv'
<1> DEFINE items == <<"RUNNING", "PROCESS">>
<1>1. /\ TypeOK /\ Typed /\ Says(items)
      /\ UNCHANGED <<uiVars, foreground, running, monitor, wasAudio, seen, releasing, tasks, pc,
                     engineVars, boundVars>>
  BY TypeParts DEF IInv, AudioRuns, Says
<1>2. /\ items \in Seq(Signals)
      /\ Said(items, Wakes) /\ ~Said(items, {"STARTED", "QUEUED"})
  <2>1. /\ items \in Seq(Signals)
        /\ \A S : Said(items, S) <=> "RUNNING" \in S \/ "PROCESS" \in S
    BY TwoSaid DEF Signals
  <2> HIDE DEF items
  <2>. QED BY <2>1 DEF Wakes
<1> HIDE DEF items
<1>3. ServiceTyped'
  BY <1>1 DEF AudioRuns, ServiceTyped, TypeOK
<1>4. BusTyped'
  BY <1>1, <1>2, SaysEffect DEF BusTyped
<1>5. TypeOK' /\ AudioHasFrames'
  BY <1>1, <1>3, <1>4, TypeParts, TypeKept, EngineKept DEF Typed
<1>6. Ending' = Ending /\ UNCHANGED <<offered, running, stopped>>
  BY <1>1 DEF Ending, boundVars
<1>. QED BY <1>1, <1>2, <1>5, <1>6, SignalsSaid

LEMMA AudioFailsStep ==
  ASSUME IInv, AudioFails
  PROVE  IInv'
<1>1. /\ TypeOK /\ Typed
      /\ UNCHANGED <<uiVars, inbox, foreground, running, monitor, wasAudio, seen, releasing,
                     tasks, pc, engineVars, offered, stopped>>
  BY TypeParts DEF IInv, AudioFails
<1>2. ServiceTyped' /\ BusTyped' /\ stopped' \in BOOLEAN
  BY <1>1 DEF AudioFails, ServiceTyped, BusTyped, TypeOK
<1>3. BoundTyped'
  BY <1>1, <1>2, EventTyped DEF AudioFails
<1>4. TypeOK' /\ AudioHasFrames'
  BY <1>1, <1>2, <1>3, TypeParts, TypeKept, EngineKept DEF Typed
<1>5. RunsUntilStopped' /\ lost'
  BY <1>1 DEF AudioFails, IInv, RunsUntilStopped
<1>. QED BY <1>1, <1>4, <1>5, Excused

LEMMA SwitchAudioDeviceStep ==
  ASSUME IInv, SwitchAudioDevice
  PROVE  IInv'
<1>1. /\ TypeOK /\ Typed
      /\ UNCHANGED <<uiVars, busVars, foreground, running, monitor, wasAudio, seen, releasing,
                     tasks, pc, engineVars, offered, stopped>>
  BY TypeParts DEF IInv, SwitchAudioDevice
<1>2. ServiceTyped' /\ stopped' \in BOOLEAN /\ starting'
  BY <1>1 DEF SwitchAudioDevice, ServiceTyped, TypeOK
<1>3. BoundTyped'
  BY <1>1, <1>2, EventTyped DEF SwitchAudioDevice
<1>4. TypeOK' /\ AudioHasFrames' /\ Ending' = Ending
  BY <1>1, <1>2, <1>3, TypeParts, TypeKept, EngineKept DEF Typed, Ending
<1>. QED BY <1>1, <1>2, <1>4, NoSignalSaid

-----------------------------------------------------------------------------
(* The user interface.                                                     *)

LEMMA QueueMessageKeeps ==
  ASSUME TypeOK, Sorted, Distinct, NEW m \in Messages, QueueMessage(m),
         \A i \in DOMAIN queue : queue[i] # m
  PROVE  /\ UiTyped' /\ queue' # <<>> /\ Sorted'
         /\ \A i, j \in DOMAIN queue' : queue'[i] = queue'[j] => i = j
         /\ \A i \in DOMAIN queue' : queue'[i] = m \/ \E j \in DOMAIN queue : queue'[i] = queue[j]
<1>1. queue \in Seq(Messages) /\ queue' = Inserted(m) /\ txState' = "QUEUED"
  BY DEF TypeOK, QueueMessage
<1>2. \A i, j \in DOMAIN queue : queue[i] = queue[j] => i = j
  BY DEF Distinct
<1>3. /\ queue' \in Seq(Messages) /\ queue' # <<>> /\ Sorted'
      /\ \A i, j \in DOMAIN queue' : queue'[i] = queue'[j] => i = j
      /\ \A i \in DOMAIN queue' : queue'[i] = m \/ \E j \in DOMAIN queue : queue'[i] = queue[j]
  BY <1>1, <1>2, InsertedKeeps
<1>4. Len(queue') <= Cardinality(Messages)
  BY <1>3, QueueBounded
<1>. QED BY <1>1, <1>3, <1>4 DEF UiTyped

LEMMA UserQueuesStep ==
  ASSUME IInv, NEW m \in Messages, UserQueues(m)
  PROVE  IInv'
<1> DEFINE items == <<"PROCESS">>
<1>1. /\ TypeOK /\ Typed /\ Sorted /\ Distinct /\ Parts
      /\ m \in Messages \ (Replies \union offered) /\ QueueMessage(m)
      /\ offered' = offered \union {m}
      /\ UNCHANGED <<foreground, serviceVars, tasks, pc, engineVars, events, stopped>>
  BY TypeParts DEF IInv, UserQueues
<1>2. inbox' = inbox \o items /\ UNCHANGED lost
  BY DEF UserQueues, Broadcast
<1>3. /\ items \in Seq(Signals) /\ items \in Seq(Broadcasts)
      /\ Said(items, Wakes) /\ ~Said(items, {"STARTED", "QUEUED"})
      /\ \A k \in DOMAIN items : items[k] \notin Replies
  <2>1. "PROCESS" \in Signals /\ "PROCESS" \in Wakes /\ "PROCESS" \notin {"STARTED", "QUEUED"}
        /\ Signals \subseteq Broadcasts
    BY DEF Signals, Wakes, Broadcasts
  <2>2. "PROCESS" \notin Replies
    BY <2>1, QueueAssumption DEF QueueAssumption
  <2>3. items \in Seq(Signals) /\ items \in Seq(Broadcasts)
    BY <2>1
  <2>4. \A S : Said(items, S) <=> "PROCESS" \in S
    BY <2>1, OneSaid
  <2>5. \A k \in DOMAIN items : items[k] = "PROCESS"
    OBVIOUS
  <2> HIDE DEF items
  <2>. QED BY <2>1, <2>2, <2>3, <2>4, <2>5
<1> HIDE DEF items
<1>4. inbox \in Seq(Broadcasts) /\ lost \in BOOLEAN /\ \A i \in DOMAIN queue : queue[i] # m
  BY <1>1 DEF TypeOK, Distinct
<1>5. /\ UiTyped' /\ Sorted'
      /\ \A i, j \in DOMAIN queue' : queue'[i] = queue'[j] => i = j
      /\ \A i \in DOMAIN queue' : queue'[i] = m \/ \E j \in DOMAIN queue : queue'[i] = queue[j]
  BY <1>1, <1>4, QueueMessageKeeps
<1>6. BusTyped'
  BY <1>2, <1>3, <1>4, InboxGrows DEF BusTyped
<1>7. BoundTyped'
  BY <1>1 DEF BoundTyped, TypeOK
<1>8. TypeOK' /\ AudioHasFrames'
  <2>1. ThreadsTyped' /\ ServiceTyped'
    BY <1>1, TypeKept
  <2>. QED BY <1>1, <1>5, <1>6, <1>7, <2>1, TypeParts, EngineKept DEF Typed
<1>9. Distinct'
  <2>1. \A i \in DOMAIN inbox' : inbox'[i] \in Replies =>
          i \in DOMAIN inbox /\ inbox'[i] = inbox[i]
    BY <1>2, <1>3, <1>4, InboxGrows
  <2>. QED BY <1>1, <1>5, <2>1 DEF Distinct
<1>10. Parts'
  <2>1. UNCHANGED <<running, starting, monitor, releasing>>
    BY <1>1 DEF serviceVars
  <2>2. Ending' = Ending
    BY <1>1, <2>1 DEF Ending
  <2>3. txState' = "QUEUED"
    BY <1>1 DEF QueueMessage
  <2>. QED BY <1>1, <1>2, <1>3, <2>1, <2>2, <2>3, PartsCarried
<1>11. RunsUntilStopped'
  BY <1>1 DEF IInv, RunsUntilStopped, serviceVars
<1>. QED BY <1>5, <1>8, <1>9, <1>10, <1>11 DEF IInv

LEMMA ServiceQueuesStep ==
  ASSUME IInv, NEW m \in Messages, ServiceQueues(m)
  PROVE  IInv'
<1> DEFINE items == <<m>>
<1>1. /\ TypeOK /\ Typed /\ Sorted /\ Distinct /\ Parts
      /\ m \in Replies \ offered /\ Broadcast(items)
      /\ offered' = offered \union {m}
      /\ UNCHANGED <<uiVars, foreground, serviceVars, tasks, pc, engineVars, events, stopped>>
  BY TypeParts DEF IInv, ServiceQueues
<1>2. /\ items \in Seq(Broadcasts)
      /\ ~Said(items, {"STARTED", "QUEUED"}) /\ DOMAIN items = {1} /\ items[1] = m
  <2>1. m \notin Signals /\ m \in Broadcasts /\ {"STARTED", "QUEUED"} \subseteq Signals
    BY <1>1, QueueAssumption DEF QueueAssumption, Broadcasts, Signals, States
  <2>2. DOMAIN items = {1} /\ items[1] = m /\ items \in Seq(Broadcasts)
    BY <2>1
  <2> HIDE DEF items
  <2>. QED BY <2>1, <2>2 DEF Said
<1> HIDE DEF items
<1>3. inbox \in Seq(Broadcasts) /\ lost \in BOOLEAN
  BY <1>1 DEF TypeOK
<1>4. \/ inbox' = inbox \o items /\ UNCHANGED lost
      \/ lost' = TRUE /\ UNCHANGED inbox
  BY <1>1 DEF Broadcast
<1>5. BusTyped'
  <2>1. CASE inbox' = inbox \o items /\ UNCHANGED lost
    BY <1>2, <1>3, <2>1, InboxGrows DEF BusTyped
  <2>2. CASE lost' = TRUE /\ UNCHANGED inbox
    BY <1>3, <2>2 DEF BusTyped
  <2>. QED BY <1>4, <2>1, <2>2
<1>6. BoundTyped'
  BY <1>1 DEF BoundTyped, TypeOK
<1>7. TypeOK' /\ AudioHasFrames'
  <2>1. UiTyped' /\ ThreadsTyped' /\ ServiceTyped'
    BY <1>1, TypeKept
  <2>. QED BY <1>1, <1>5, <1>6, <2>1, TypeParts, EngineKept DEF Typed
<1>8. Sorted'
  BY <1>1 DEF Sorted, uiVars
<1>9. RunsUntilStopped'
  BY <1>1 DEF IInv, RunsUntilStopped, serviceVars
<1>10. Distinct'
  <2>1. CASE lost' = TRUE /\ UNCHANGED inbox
    BY <1>1, <2>1 DEF Distinct, uiVars
  <2>2. CASE inbox' = inbox \o items /\ UNCHANGED lost
    <3>1. Len(inbox) \in Nat /\ DOMAIN inbox = 1 .. Len(inbox)
      BY <1>3, LenProperties
    <3>2. \A i \in DOMAIN inbox' : \/ i \in DOMAIN inbox /\ inbox'[i] = inbox[i]
                                   \/ i = Len(inbox) + 1 /\ inbox'[i] = m
      <4>1. \A i \in DOMAIN inbox' :
              \/ i \in DOMAIN inbox
              \/ i \in Nat /\ i > Len(inbox) /\ i - Len(inbox) \in DOMAIN items
                 /\ inbox'[i] = items[i - Len(inbox)]
        BY <1>2, <1>3, <2>2, InboxGrows
      <4>2. \A i \in DOMAIN inbox : inbox'[i] = inbox[i]
        BY <1>2, <1>3, <2>2, InboxGrows
      <4>. QED BY <1>2, <3>1, <4>1, <4>2
    <3>3. \A i \in DOMAIN inbox : inbox[i] # m
      BY <1>1 DEF Distinct
    <3>4. \A i \in DOMAIN queue : queue[i] # m /\ queue[i] \in offered
      BY <1>1 DEF Distinct
    <3>5. queue' = queue /\ m \in offered' /\ offered \subseteq offered'
      BY <1>1 DEF uiVars
    <3>. QED BY <1>1, <3>2, <3>3, <3>4, <3>5 DEF Distinct
  <2>. QED BY <1>4, <2>1, <2>2
<1>11. Parts'
  <2>1. CASE lost' = TRUE /\ UNCHANGED inbox
    BY <2>1, PartsExcused
  <2>2. CASE inbox' = inbox \o items /\ UNCHANGED lost
    <3>1. UNCHANGED <<running, starting, monitor, releasing>>
      BY <1>1 DEF serviceVars
    <3>2. Ending' = Ending
      BY <1>1, <3>1 DEF Ending
    <3>. QED BY <1>1, <1>2, <2>2, <3>1, <3>2, PartsCarried
  <2>. QED BY <1>4, <2>1, <2>2
<1>. QED BY <1>7, <1>8, <1>9, <1>10, <1>11 DEF IInv

LEMMA LeaveStep ==
  ASSUME IInv, Leave
  PROVE  IInv'
<1>1. /\ TypeOK /\ Typed /\ Sorted /\ Distinct /\ Parts /\ inbox' = <<>>
      /\ lost' = (lost \/ inbox # <<>>) /\ foreground' = FALSE
      /\ UNCHANGED <<uiVars, serviceVars, tasks, pc, engineVars, offered, stopped>>
  BY TypeParts DEF IInv, Leave
<1>2. inbox' \in Seq(Broadcasts) /\ DOMAIN inbox' = {} /\ lost' \in BOOLEAN
  BY <1>1
<1>3. BoundTyped'
  BY <1>1, EventTyped DEF Leave, TypeOK
<1>4. TypeOK' /\ AudioHasFrames'
  <2>1. UiTyped' /\ ThreadsTyped' /\ ServiceTyped'
    BY <1>1, TypeKept
  <2>2. BusTyped' /\ foreground' \in BOOLEAN
    BY <1>1, <1>2 DEF BusTyped
  <2>. QED BY <1>1, <1>3, <2>1, <2>2, TypeParts, EngineKept DEF Typed
<1>5. Sorted' /\ RunsUntilStopped'
  BY <1>1 DEF IInv, Sorted, RunsUntilStopped, uiVars, serviceVars
<1>6. Distinct'
  BY <1>1, <1>2 DEF Distinct, uiVars
<1>7. Parts'
  <2>1. CASE lost'
    BY <2>1, PartsExcused
  <2>2. CASE ~lost'
    <3>1. UNCHANGED inbox /\ UNCHANGED lost /\ ~lost
      BY <1>1, <2>2 DEF TypeOK
    <3>2. UNCHANGED <<running, starting, monitor, releasing, queue, txState>>
      BY <1>1 DEF serviceVars, uiVars
    <3>. QED BY <1>1, <3>1, <3>2
         DEF Parts, EndComes, QueuedIsFollowed, NothingForgotten, StillTransmitting, UnderWay,
             Ending, After
  <2>. QED BY <2>1, <2>2
<1>. QED BY <1>4, <1>5, <1>6, <1>7 DEF IInv

LEMMA ReturnStep ==
  ASSUME IInv, Return
  PROVE  IInv'
<1>1. /\ TypeOK /\ Typed /\ foreground' \in BOOLEAN
      /\ UNCHANGED <<uiVars, busVars, serviceVars, tasks, pc, engineVars, boundVars>>
  BY TypeParts DEF IInv, Return
<1>2. TypeOK' /\ AudioHasFrames'
  <2>1. UiTyped' /\ BusTyped' /\ ServiceTyped' /\ ThreadsTyped' /\ BoundTyped'
    BY <1>1, TypeKept
  <2>. QED BY <1>1, <2>1, TypeParts, EngineKept DEF Typed
<1>3. UNCHANGED <<offered, running, stopped, starting, monitor, releasing>>
  BY <1>1 DEF serviceVars, boundVars
<1>4. Ending' = Ending
  BY <1>1, <1>3 DEF Ending
<1>. QED BY <1>1, <1>2, <1>3, <1>4, NoSignalSaid

-----------------------------------------------------------------------------
(* A broadcast reaches the user interface.                                 *)

Here == inbox[1]

LEMMA DeliverMoves ==
  ASSUME TypeOK, Deliver
  PROVE  /\ Receive(Here) /\ Here \in Broadcasts /\ 1 \in DOMAIN inbox
         /\ inbox' \in Seq(Broadcasts)
         /\ \A i \in DOMAIN inbox' : /\ i \in Nat /\ i + 1 \in DOMAIN inbox /\ i + 1 # 1
                                     /\ inbox'[i] = inbox[i + 1]
         /\ \A S : \A i \in DOMAIN inbox' \cup {0} : After(i + 1, S) => After(i, S)'
         /\ \A S : After(0, S) => Here \in S \/ After(1, S)
<1>1. inbox \in Seq(Broadcasts) /\ inbox # <<>> /\ inbox' = Tail(inbox) /\ Receive(Head(inbox))
  BY DEF TypeOK, Deliver
<1>. QED BY <1>1, InboxMoves DEF Here

\* The queue and the inbox after it: sorted, each message once.
LEMMA DeliverQueue ==
  ASSUME TypeOK, Sorted, Distinct, Deliver
  PROVE  UiTyped' /\ Sorted' /\ Distinct'
<1>1. /\ Receive(Here) /\ 1 \in DOMAIN inbox
      /\ \A i \in DOMAIN inbox' : /\ i + 1 \in DOMAIN inbox /\ i + 1 # 1
                                  /\ inbox'[i] = inbox[i + 1]
  BY DeliverMoves
<1>2. queue \in Seq(Messages) /\ UNCHANGED offered
  BY DEF TypeOK, Deliver, boundVars
<1>3. \A i, j \in DOMAIN queue : queue[i] = queue[j] => i = j
  BY DEF Distinct
<1>4. ASSUME NEW i \in DOMAIN inbox', inbox'[i] \in Replies
      PROVE  /\ inbox'[i] \in offered /\ inbox'[i] # Here
             /\ \A j \in DOMAIN queue : queue[j] # inbox'[i]
             /\ \A j \in DOMAIN inbox' : inbox'[j] = inbox'[i] => j = i
  <2>1. i + 1 \in DOMAIN inbox /\ i + 1 # 1 /\ inbox'[i] = inbox[i + 1]
    BY <1>1
  <2>2. inbox'[i] # Here
    BY <1>1, <1>4, <2>1 DEF Distinct, Here
  <2>3. ASSUME NEW j \in DOMAIN inbox', inbox'[j] = inbox'[i] PROVE j = i
    <3>1. j + 1 = i + 1
      BY <1>1, <1>4, <2>1, <2>3 DEF Distinct
    <3>2. i \in Nat /\ j \in Nat
      BY DeliverMoves
    <3>. QED BY <3>1, <3>2
  <2>. QED BY <1>4, <2>1, <2>2, <2>3 DEF Distinct
<1>5. CASE UNCHANGED queue
  <2>1. txState' \in {"IDLE", "QUEUED", "TRANSMITTING"}
    BY <1>1
    DEF TypeOK, Receive, TransmissionEnds, StateOf, QueueMessage
  <2>2. UiTyped' /\ Sorted'
    BY <1>5, <2>1 DEF TypeOK, UiTyped, Sorted
  <2>3. Distinct'
    BY <1>2, <1>4, <1>5 DEF Distinct
  <2>. QED BY <2>2, <2>3
<1>6. CASE Here \in {"FINISHED", "FAILED"} /\ queue # <<>> /\ queue' = Tail(queue)
           /\ txState' = StateOf(queue')
  <2>1. /\ queue' \in Seq(Messages) /\ Sorted'
        /\ \A i, j \in DOMAIN queue' : queue'[i] = queue'[j] => i = j
        /\ \A i \in DOMAIN queue' : \E j \in DOMAIN queue : queue'[i] = queue[j]
    BY <1>2, <1>3, <1>6, TailKeeps
  <2>2. Len(queue') <= Cardinality(Messages)
    BY <2>1, QueueBounded
  <2>3. UiTyped'
    BY <1>6, <2>1, <2>2 DEF UiTyped, StateOf
  <2>4. Distinct'
    BY <1>2, <1>4, <2>1 DEF Distinct
  <2>. QED BY <2>1, <2>3, <2>4
<1>7. CASE Here \in Replies /\ QueueMessage(Here)
  <2>1. Here \in Messages /\ Here \in offered /\ \A i \in DOMAIN queue : queue[i] # Here
    BY <1>1, <1>7, QueueAssumption DEF Distinct, Here, QueueAssumption
  <2>2. /\ UiTyped' /\ Sorted'
        /\ \A i, j \in DOMAIN queue' : queue'[i] = queue'[j] => i = j
        /\ \A i \in DOMAIN queue' :
             queue'[i] = Here \/ \E j \in DOMAIN queue : queue'[i] = queue[j]
    BY <1>7, <2>1, QueueMessageKeeps
  <2>3. Distinct'
    BY <1>2, <1>4, <2>1, <2>2 DEF Distinct
  <2>. QED BY <2>2, <2>3
<1>. QED BY <1>1, <1>5, <1>6, <1>7 DEF Receive, TransmissionEnds, RemovesHead, RetriesHead

\* processNextTxIfIdle: what was handed over stays, and unless a transmission is under
\* way the head of the queue is handed over too.
LEMMA DeliverTasks ==
  ASSUME TypeOK, Deliver, queue' \in Seq(Messages)
  PROVE  /\ ThreadsTyped'
         /\ tasks # <<>> => tasks' # <<>>
         /\ ProcessNextTxIfIdle /\ txState' # "TRANSMITTING" /\ queue' # <<>> => tasks' # <<>>
<1>1. tasks \in Seq(Messages) /\ UNCHANGED pc
  BY DEF TypeOK, Deliver
<1>2. CASE UNCHANGED tasks /\ ~ProcessNextTxIfIdle
  BY <1>1, <1>2 DEF ThreadsTyped, TypeOK
<1>3. CASE ProcessNextTxIfIdle
  <2>1. CASE txState' # "TRANSMITTING" /\ queue' # <<>>
    <3>1. Head(queue') \in Messages
      BY <2>1, HeadTailProperties
    <3>2. tasks' = Append(tasks, Head(queue'))
      BY <1>3, <2>1 DEF ProcessNextTxIfIdle
    <3>3. tasks' \in Seq(Messages) /\ tasks' # <<>>
      BY <1>1, <3>1, <3>2, AppendProperties
    <3>. QED BY <1>1, <3>3 DEF ThreadsTyped, TypeOK
  <2>2. CASE ~(txState' # "TRANSMITTING" /\ queue' # <<>>)
    <3>1. tasks' = tasks
      BY <1>3, <2>2 DEF ProcessNextTxIfIdle
    <3>. QED BY <1>1, <2>2, <3>1 DEF ThreadsTyped, TypeOK
  <2>. QED BY <2>1, <2>2
<1>. QED BY <1>2, <1>3, DeliverMoves DEF Receive, TransmissionEnds

LEMMA DeliverParts ==
  ASSUME TypeOK, Parts, Deliver, queue' \in Seq(Messages)
  PROVE  Parts'
<1>1. /\ Receive(Here) /\ 1 \in DOMAIN inbox /\ Here = inbox[1]
      /\ inbox' \in Seq(Broadcasts)
      /\ \A i \in DOMAIN inbox' : i \in Nat /\ i + 1 \in DOMAIN inbox /\ inbox'[i] = inbox[i + 1]
      /\ \A S : \A i \in DOMAIN inbox' \cup {0} : After(i + 1, S) => After(i, S)'
      /\ \A S : After(0, S) => Here \in S \/ After(1, S)
  BY DeliverMoves DEF Here
<1>2. UNCHANGED <<lost, running, stopped, starting, pc, monitor, releasing>>
  BY DEF Deliver, serviceVars, boundVars
<1>3. /\ Ending => Ending'
      /\ ProcessNextTxIfIdle /\ txState' # "TRANSMITTING" /\ queue' # <<>> => Ending'
  BY <1>2, DeliverTasks DEF Ending
<1>4. \A S : After(1, S) => After(0, S)'
  <2>1. 0 + 1 = 1
    OBVIOUS
  <2>. QED BY <1>1, <2>1
<1>5. EndComes /\ QueuedIsFollowed
  BY DEF Parts
<1>6. EndComes'
  <2> SUFFICES ASSUME ~lost, ~stopped PROVE
        /\ txState' = "TRANSMITTING" => Ending' \/ After(0, Ends)'
        /\ \A i \in DOMAIN inbox' : inbox'[i] = "STARTED" => Ending' \/ After(i, Ends)'
    BY <1>2 DEF EndComes
  <2>1. ASSUME txState' = "TRANSMITTING" PROVE Ending' \/ After(0, Ends)'
    <3>1. \/ Here = "STARTED"
          \/ Here \in {"PROCESS", "RUNNING"} /\ txState = "TRANSMITTING"
      BY <1>1, <2>1 DEF Receive, TransmissionEnds, StateOf, QueueMessage
    <3>2. Ending \/ After(1, Ends)
      BY <1>1, <1>5, <3>1 DEF EndComes, Ends
    <3>. QED BY <1>3, <1>4, <3>2
  <2>2. ASSUME NEW i \in DOMAIN inbox', inbox'[i] = "STARTED"
        PROVE  Ending' \/ After(i, Ends)'
    <3>1. i + 1 \in DOMAIN inbox /\ inbox[i + 1] = "STARTED"
      BY <1>1, <2>2
    <3>2. Ending \/ After(i + 1, Ends)
      BY <1>5, <3>1 DEF EndComes
    <3>. QED BY <1>1, <1>3, <3>2
  <2>. QED BY <2>1, <2>2
<1>7. QueuedIsFollowed'
  <2> SUFFICES ASSUME ~lost, running, NEW i \in DOMAIN inbox', inbox'[i] = "QUEUED"
               PROVE  Ending' \/ starting' \/ After(i, Wakes)'
    BY <1>2 DEF QueuedIsFollowed
  <2>1. i + 1 \in DOMAIN inbox /\ inbox[i + 1] = "QUEUED"
    BY <1>1
  <2>2. Ending \/ starting \/ After(i + 1, Wakes)
    BY <1>5, <2>1 DEF QueuedIsFollowed
  <2>. QED BY <1>1, <1>2, <1>3, <2>2
<1>8. NothingForgotten'
  <2> SUFFICES ASSUME running, ~lost, queue' # <<>>
               PROVE  UnderWay' \/ StillTransmitting'
    BY <1>2 DEF NothingForgotten
  <2>1. UnderWay' <=> Ending' \/ starting' \/ After(0, Wakes)'
    BY <1>1, UnderWayPartsNext
  <2>2. CASE Here = "QUEUED"
    <3>1. Ending \/ starting \/ After(1, Wakes)
      BY <1>1, <1>5, <2>2 DEF QueuedIsFollowed
    <3>. QED BY <1>2, <1>3, <1>4, <2>1, <3>1
  <2>3. CASE txState' = "TRANSMITTING"
    <3>1. CASE stopped
      BY <1>2, <2>3, <3>1 DEF StillTransmitting
    <3>2. CASE ~stopped
      <4>1. Ending' \/ After(0, Ends)'
        BY <1>2, <1>6, <2>3, <3>2 DEF EndComes
      <4>2. After(0, Ends)' => After(0, Wakes)'
        BY DEF After, Ends, Wakes
      <4>. QED BY <2>1, <4>1, <4>2
    <3>. QED BY <3>1, <3>2
  <2>4. CASE ProcessNextTxIfIdle /\ txState' # "TRANSMITTING"
    BY <1>3, <2>1, <2>4
  <2>. QED BY <1>1, <2>2, <2>3, <2>4 DEF Receive, TransmissionEnds
<1>. QED BY <1>6, <1>7, <1>8 DEF Parts

LEMMA DeliverStep ==
  ASSUME IInv, Deliver
  PROVE  IInv'
<1>1. /\ TypeOK /\ Typed /\ Sorted /\ Distinct /\ Parts
      /\ UNCHANGED <<foreground, serviceVars, pc, engineVars, boundVars>> /\ UNCHANGED lost
  BY TypeParts DEF IInv, Deliver
<1>2. UiTyped' /\ Sorted' /\ Distinct'
  BY <1>1, DeliverQueue
<1>3. queue' \in Seq(Messages)
  BY <1>2 DEF UiTyped
<1>4. ThreadsTyped' /\ Parts'
  BY <1>1, <1>3, DeliverTasks, DeliverParts
<1>5. BusTyped'
  BY <1>1, DeliverMoves DEF BusTyped, TypeOK
<1>6. TypeOK' /\ AudioHasFrames'
  <2>1. ServiceTyped' /\ BoundTyped'
    BY <1>1, TypeKept
  <2>. QED BY <1>1, <1>2, <1>4, <1>5, <2>1, TypeParts, EngineKept DEF Typed
<1>7. RunsUntilStopped'
  BY <1>1 DEF IInv, RunsUntilStopped, serviceVars, boundVars
<1>. QED BY <1>2, <1>4, <1>6, <1>7 DEF IInv

-----------------------------------------------------------------------------
(* Every step keeps the invariant.                                         *)

LEMMA InitInv ==
  ASSUME Init
  PROVE  IInv
<1>1. /\ queue = <<>> /\ inbox = <<>> /\ tasks = <<>> /\ txState = "IDLE"
      /\ DOMAIN queue = {} /\ DOMAIN inbox = {}
  BY DEF Init
<1>2. TypeOK
  <2>1. UiTyped
    <3>1. Cardinality(Messages) \in Nat
      BY QueueAssumption, FS_CardinalityType DEF QueueAssumption
    <3>2. Len(queue) = 0 /\ queue \in Seq(Messages)
      BY <1>1
    <3>. QED BY <1>1, <3>1, <3>2 DEF UiTyped
  <2>2. BusTyped /\ ServiceTyped /\ ThreadsTyped /\ foreground \in BOOLEAN
    <3>1. inbox \in Seq(Broadcasts) /\ tasks \in Seq(Messages)
      BY <1>1
    <3>2. pc \in [{Main, Js8Tx} -> {"idle", "announce", "monitor"}]
      BY DEF Init
    <3>3. lost \in BOOLEAN /\ foreground \in BOOLEAN /\ ServiceTyped
      BY DEF Init, ServiceTyped
    <3>. QED BY <3>1, <3>2, <3>3 DEF BusTyped, ThreadsTyped
  <2>3. EngineTyped
    <3>1. 0 \in 0 .. MaxFrames
      BY QueueAssumption DEF QueueAssumption
    <3>. QED BY <3>1 DEF Init, EngineTyped
  <2>4. BoundTyped
    <3>1. 0 \in 0 .. MaxEvents
      BY QueueAssumption DEF QueueAssumption
    <3>. QED BY <3>1 DEF Init, BoundTyped
  <2>. QED BY <2>1, <2>2, <2>3, <2>4, TypeParts DEF Typed
<1>3. Sorted /\ Distinct
  BY <1>1 DEF Sorted, Distinct
<1>4. AudioHasFrames /\ RunsUntilStopped
  BY DEF Init, AudioHasFrames, RunsUntilStopped
<1>5. Parts
  BY <1>1 DEF Parts, EndComes, QueuedIsFollowed, NothingForgotten
<1>. QED BY <1>2, <1>3, <1>4, <1>5 DEF IInv

LEMMA StutterKeepsInv ==
  ASSUME IInv, UNCHANGED vars
  PROVE  IInv'
<1>1. /\ TypeOK /\ Typed
      /\ UNCHANGED <<uiVars, busVars, foreground, serviceVars, tasks, pc, engineVars, boundVars>>
  BY TypeParts DEF IInv, vars
<1>2. TypeOK' /\ AudioHasFrames'
  <2>1. UiTyped' /\ BusTyped' /\ ServiceTyped' /\ ThreadsTyped' /\ BoundTyped'
    BY <1>1, TypeKept
  <2>. QED BY <1>1, <2>1, TypeParts, EngineKept DEF Typed
<1>3. UNCHANGED <<offered, running, stopped, starting, monitor, releasing>>
  BY <1>1 DEF serviceVars, boundVars
<1>4. Ending' = Ending
  BY <1>1, <1>3 DEF Ending
<1>. QED BY <1>1, <1>2, <1>3, <1>4, NoSignalSaid

LEMMA NextKeepsInv ==
  ASSUME IInv, [Next]_vars
  PROVE  IInv'
<1>1. CASE \E m \in Messages : UserQueues(m) \/ ServiceQueues(m)
  BY <1>1, UserQueuesStep, ServiceQueuesStep
<1>2. CASE Deliver \/ Leave \/ Return
  BY <1>2, DeliverStep, LeaveStep, ReturnStep
<1>3. CASE HandleTransmitMessage \/ SendOwn
  BY <1>3, HandleTransmitMessageStep, SendOwnStep
<1>4. CASE SendStep
  BY <1>4, AnnounceStep, StartTxMonitorStep DEF SendStep
<1>5. CASE Monitor \/ FailTransmit \/ ReportEnd \/ EngineProgress
  BY <1>5, MonitorStep, FailTransmitStep, ReportEndStep, EngineProgressStep
<1>6. CASE StopEngine \/ StartEngine \/ AudioRuns \/ AudioFails \/ SwitchAudioDevice
  BY <1>6, StopEngineStep, StartEngineStep, AudioRunsStep, AudioFailsStep,
     SwitchAudioDeviceStep
<1>7. CASE UNCHANGED vars
  BY <1>7, StutterKeepsInv
<1>. QED BY <1>1, <1>2, <1>3, <1>4, <1>5, <1>6, <1>7 DEF Next

LEMMA Invariance == Spec => []IInv
<1>1. Init => IInv
  BY InitInv
<1>2. IInv /\ [Next]_vars => IInv'
  BY NextKeepsInv
<1>. QED BY <1>1, <1>2, PTL DEF Spec

-----------------------------------------------------------------------------
(* What follows.                                                           *)

\* Every field keeps its type, and no message waits in the queue twice: it is never
\* longer than there are messages (TransmitViewModel.txQueue).
THEOREM TypeCorrect == Spec => []TypeOK
<1>1. IInv => TypeOK
  BY DEF IInv
<1>. QED BY <1>1, Invariance, PTL

\* As long as the engine runs and no broadcast was lost, a message in the queue of the
\* user interface is followed by something that looks at the queue again, or the
\* engine was stopped while the user interface took it to be transmitting
\* (processNextTxIfIdle, which only the receivers of MainActivity call).
THEOREM NoMessageIsForgotten == Spec => []NothingForgotten
<1>1. IInv => NothingForgotten
  BY DEF IInv, Parts
<1>. QED BY <1>1, Invariance, PTL

\* The message that processNextTxIfIdle takes next is among the most urgent that wait
\* (sortByDescending in queueMessage), whatever finishes or fails in between.
THEOREM MostUrgentFirst == Spec => []Sorted
<1>1. IInv => Sorted
  BY DEF IInv
<1>. QED BY <1>1, Invariance, PTL
===============================================================================
