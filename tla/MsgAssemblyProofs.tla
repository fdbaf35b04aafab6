--------------------------- MODULE MsgAssemblyProofs ---------------------------
(***************************************************************************)
(* Proofs about MsgAssembly: its types, that a text shows the station that *)
(* sent it, that no frame is used twice, and that what is received whole   *)
(* is handed over.                                                         *)
(*                                                                         *)
(* None but the first is inductive: they need to know what the buffers     *)
(* hold.  The buffer of a station that is alone has only frames of that    *)
(* station and a key at which no other is found, no frame is in two places *)
(* of all buffers and texts of a handler, and none of them is still to be  *)
(* sent.  Both handlers keep their map alike, so each operation on it      *)
(* (Fresh, Opened, Continued, Closed, Older) is shown once to keep Good,   *)
(* for any tolerance.                                                      *)
(*                                                                         *)
(* For the last, Kept: a station that is alone has one buffer at most at   *)
(* its frequencies, and while it is in the middle of a transmission no     *)
(* frame of which was lost, that buffer holds all it has sent so far and   *)
(* is a cycle old at most.  So no timeout takes it, its next frame finds   *)
(* it, and the last frame completes the text that was sent.                *)
(***************************************************************************)
EXTENDS MsgAssembly, SequenceTheorems, FiniteSetTheorems, TLAPS

-----------------------------------------------------------------------------
(* The inductive invariant.                                                *)

\* Frames that were on the air, and those of each station.
Past ==
  {p \in Ids \X (0 .. MaxFrames) :
     /\ p[1] \in DOMAIN sent
     /\ onAir[sent[p[1]].from].id = p[1] => p[2] < onAir[sent[p[1]].from].next}

Own == [s \in Stations |-> {p \in Past : sent[p[1]].from = s}]

\* All of the text is among these frames; of a station that is alone, among its own.
Known(x, past) == \A m \in DOMAIN x.parts : x.parts[m] \in past

Owned(x, tolerance, own) ==
  Alone(x.from, tolerance) => \A m \in DOMAIN x.parts : x.parts[m] \in own[x.from]

\* The buffer of a station that is alone is found at its frequencies only.
OwnKey(b, tolerance) == Alone(b.from, tolerance) => b.key \in Freqs[b.from]

\* No frame is in both.
Apart(q, r) ==
  \A i \in DOMAIN q, j \in DOMAIN r :
    \A m \in DOMAIN q[i].parts, n \in DOMAIN r[j].parts : q[i].parts[m] # r[j].parts[n]

UniqueKeys(buffers) == \A i, j \in DOMAIN buffers : buffers[i].key = buffers[j].key => i = j

Texts == Seq([from : Stations, parts : Parts])

\* The buffers and the texts of one handler.
Good(buffers, texts, tolerance, past, own) ==
  /\ buffers \in Buffers /\ UniqueKeys(buffers)
  /\ texts \in Texts
  /\ \A i \in DOMAIN buffers : /\ Known(buffers[i], past) /\ Owned(buffers[i], tolerance, own)
                               /\ OwnKey(buffers[i], tolerance)
  /\ \A i \in DOMAIN texts : Known(texts[i], past) /\ Owned(texts[i], tolerance, own)
  /\ UsedOnce(buffers) /\ UsedOnce(texts) /\ Apart(buffers, texts)

Transmissions ==
  [from : Stations, kind : {"msg", "relay", "text"}, inline : BOOLEAN, count : 0 .. MaxFrames]

\* What a station sends is its own.
OnAirIsSent ==
  \A s \in Stations : onAir[s].id # 0 =>
    /\ onAir[s].id \in DOMAIN sent /\ sent[onAir[s].id].from = s
    /\ onAir[s].next <= sent[onAir[s].id].count

StationsTyped ==
  /\ sent \in Seq(Transmissions) /\ Len(sent) <= MaxSends
  /\ onAir \in [Stations -> [id : 0 .. MaxSends, next : 0 .. MaxFrames, whole : BOOLEAN]]
  /\ turn \subseteq Stations /\ lost \in 0 .. MaxLost

IInv ==
  /\ StationsTyped /\ OnAirIsSent
  /\ Good(msgBuffers, delivered, MsgTolerance, Past, Own)
  /\ Good(relayBuffers, relayed, RelayTolerance, Past, Own)

BufferSet ==
  [key : UNION {Freqs[s] : s \in Stations}, from : Stations, inline : BOOLEAN,
   parts : Parts, age : 0 .. Oldest]

-----------------------------------------------------------------------------
(* Places of a sequence.                                                   *)

LEMMA AbsOfDifference ==
  ASSUME NEW m \in Int, NEW n \in Int
  PROVE  Abs(m - n) \in Nat /\ Abs(m - n) = Abs(n - m) /\ Abs(m - m) = 0
BY DEF Abs

LEMMA IntervalSize ==
  ASSUME NEW n \in Nat
  PROVE  IsFiniteSet(1 .. n) /\ Cardinality(1 .. n) = n
<1>1. /\ IsFiniteSet(1 .. n)
      /\ Cardinality(1 .. n) = IF 1 > n THEN 0 ELSE n - 1 + 1
  BY FS_Interval
<1>. QED BY <1>1

\* There is a k-th of some places, up to their number, and each is one of these.
LEMMA NthIsAPlace ==
  ASSUME NEW L \in Nat, NEW S \in SUBSET (1 .. L)
  PROVE  /\ Cardinality(S) \in Nat
         /\ \A k \in 1 .. Cardinality(S) :
              Nth(S, k) \in S /\ Cardinality({j \in S : j <= Nth(S, k)}) = k
         /\ \A i \in S : \E k \in 1 .. Cardinality(S) : Nth(S, k) = i
<1> DEFINE upto(i) == {j \in S : j <= i}
           N == Cardinality(S)
           rank == [i \in S |-> Cardinality(upto(i))]
<1>1. IsFiniteSet(S) /\ N \in Nat
  BY IntervalSize, FS_Subset, FS_CardinalityType
<1>2. ASSUME NEW i \in S
      PROVE  IsFiniteSet(upto(i)) /\ rank[i] = Cardinality(upto(i)) /\ rank[i] \in 1 .. N
  <2>1. upto(i) \in SUBSET S /\ i \in upto(i)
    OBVIOUS
  <2>2. IsFiniteSet(upto(i)) /\ Cardinality(upto(i)) <= N /\ Cardinality(upto(i)) \in Nat
    BY <1>1, <2>1, FS_Subset, FS_CardinalityType
  <2>3. Cardinality(upto(i)) # 0
    BY <2>1, <2>2, FS_EmptySet
  <2>. QED BY <1>1, <2>2, <2>3
<1>3. ASSUME NEW i \in S, NEW j \in S, rank[i] = rank[j], i < j
      PROVE  FALSE
  <2>0. \A k \in S : k \in Int
    OBVIOUS
  <2>1. upto(i) \in SUBSET upto(j) /\ j \in upto(j) /\ j \notin upto(i)
    <3>1. \A k \in S : k <= i => k <= j
      BY <1>3, <2>0
    <3>2. j <= j /\ ~(j <= i)
      BY <1>3, <2>0
    <3>. QED BY <3>1, <3>2
  <2>2. upto(i) = upto(j)
    <3>1. IsFiniteSet(upto(j)) /\ Cardinality(upto(j)) = Cardinality(upto(i))
      BY <1>2, <1>3
    <3> HIDE DEF upto
    <3>. QED BY <2>1, <3>1, FS_Subset
  <2>. QED BY <2>1, <2>2
<1> HIDE DEF rank, upto
<1>4. rank \in Injection(S, 1 .. N)
  <2>1. rank \in [S -> 1 .. N]
    BY <1>2 DEF rank
  <2>2. \A i, j \in S : rank[i] = rank[j] => i = j
    BY <1>3
  <2>. QED BY <2>1, <2>2 DEF Injection, IsInjective
<1>5. IsFiniteSet(1 .. N) /\ Cardinality(1 .. N) = N
  BY <1>1, IntervalSize
<1>6. rank \in Surjection(S, 1 .. N)
  BY <1>4, <1>5, FS_Injection
<1>7. ASSUME NEW k \in 1 .. N
      PROVE  Nth(S, k) \in S /\ Cardinality({j \in S : j <= Nth(S, k)}) = k
  <2>1. PICK i \in S : rank[i] = k
    BY <1>6, <1>7 DEF Surjection
  <2>2. Cardinality({j \in S : j <= i}) = k
    BY <1>2, <2>1 DEF upto
  <2>. QED BY <2>2 DEF Nth
<1>8. ASSUME NEW i \in S
      PROVE  \E k \in 1 .. N : Nth(S, k) = i
  <2>1. rank[i] \in 1 .. N
    BY <1>2
  <2>2. Nth(S, rank[i]) \in S /\ rank[Nth(S, rank[i])] = rank[i]
    BY <1>2, <1>7, <2>1 DEF upto
  <2>3. Nth(S, rank[i]) = i
    BY <1>4, <2>2 DEF Injection, IsInjective
  <2>. QED BY <2>1, <2>3
<1>. QED BY <1>1, <1>7, <1>8

LEMMA FirstIsAPlace ==
  ASSUME NEW L \in Nat, NEW S \in SUBSET (1 .. L), S # {}
  PROVE  Min(S) \in S
<1> DEFINE x == Nth(S, 1)
<1>1. IsFiniteSet(S) /\ Cardinality(S) \in Nat /\ Cardinality(S) # 0
  BY IntervalSize, FS_Subset, FS_CardinalityType, FS_EmptySet
<1>2. x \in S /\ Cardinality({j \in S : j <= x}) = 1
  <2>1. 1 \in 1 .. Cardinality(S)
    BY <1>1
  <2>. QED BY <2>1, NthIsAPlace
<1> HIDE DEF x
<1>3. PICK y : {j \in S : j <= x} = {y}
  <2>1. IsFiniteSet({j \in S : j <= x})
    BY <1>1, FS_Subset
  <2>. QED BY <1>2, <2>1, FS_Singleton
<1>4. \A z \in S : x <= z
  BY <1>2, <1>3
<1>. QED BY <1>2, <1>4 DEF Min

\* The keys of a buffer are frequencies.
LEMMA BuffersAre ==
  ASSUME NEW b \in Buffers
  PROVE  /\ b \in Seq(BufferSet) /\ Len(b) \in Nat /\ DOMAIN b = 1 .. Len(b)
         /\ \A i \in DOMAIN b : /\ b[i] \in BufferSet /\ b[i].key \in Nat
                                /\ b[i].parts \in Parts /\ b[i].from \in Stations
<1>1. b \in Seq(BufferSet)
  BY DEF Buffers, BufferSet
<1>2. ASSUME NEW i \in DOMAIN b
      PROVE  /\ b[i] \in BufferSet /\ b[i].key \in Nat
             /\ b[i].parts \in Parts /\ b[i].from \in Stations
  <2>1. b[i] \in BufferSet
    BY <1>1, ElementOfSeq, LenProperties
  <2>2. \A s \in Stations : Freqs[s] \subseteq Nat
    BY AssemblyAssumption DEF AssemblyAssumption
  <2>. QED BY <2>1, <2>2 DEF BufferSet
<1>. QED BY <1>1, <1>2, LenProperties

LEMMA BuffersFrom ==
  ASSUME NEW n \in Nat, NEW b, DOMAIN b = 1 .. n, b = [k \in 1 .. n |-> b[k]],
         \A k \in 1 .. n : b[k] \in BufferSet
  PROVE  b \in Buffers /\ Len(b) = n
<1>1. b \in [1 .. n -> BufferSet]
  OBVIOUS
<1>2. b \in Seq(BufferSet)
  BY <1>1, IsASeq
<1>. QED BY <1>2, LenProperties DEF Buffers, BufferSet

LEMMA MatchIsNear ==
  ASSUME NEW b \in Buffers, NEW freq \in Nat, NEW tolerance \in Nat
  PROVE  LET i == Match(b, freq, tolerance) IN
         /\ i = 0 \/ (i \in DOMAIN b /\ Abs(b[i].key - freq) <= tolerance)
         /\ i = 0 => \A j \in DOMAIN b : ~(Abs(b[j].key - freq) <= tolerance)
<1> DEFINE near == Near(b, freq, tolerance)
           L == Len(b)
<1>1. L \in Nat /\ DOMAIN b = 1 .. L
  BY BuffersAre
<1>2. near \in SUBSET (1 .. L)
  BY <1>1 DEF Near
<1>3. near # {} => Min(near) \in near
  BY <1>1, <1>2, FirstIsAPlace
<1>4. Match(b, freq, tolerance) = IF near = {} THEN 0 ELSE Min(near)
  BY DEF Match
<1>5. \A j : j \in near <=> j \in DOMAIN b /\ Abs(b[j].key - freq) <= tolerance
  BY DEF Near
<1>6. 0 \notin near
  BY <1>1, <1>2
<1> HIDE DEF near, L
<1>. QED BY <1>3, <1>4, <1>5, <1>6

-----------------------------------------------------------------------------
(* What becomes of the buffers, whoever they belong to.                    *)

\* Each buffer of one sequence is one of the other, of those at some places,
\* but for its age.
SomeOf(new, old, places) ==
  \E h \in [DOMAIN new -> places] :
    /\ \A k, l \in DOMAIN new : h[k] = h[l] => k = l
    /\ \A k \in DOMAIN new : /\ new[k].key = old[h[k]].key /\ new[k].from = old[h[k]].from
                             /\ new[k].parts = old[h[k]].parts

\* x is one of the buffers.
Has(b, x) == \E k \in DOMAIN b : b[k] = x

LEMMA SomeOfMore ==
  ASSUME NEW new, NEW old, NEW i, SomeOf(new, old, DOMAIN old \ {i})
  PROVE  SomeOf(new, old, DOMAIN old)
<1>1. \A h \in [DOMAIN new -> DOMAIN old \ {i}] : h \in [DOMAIN new -> DOMAIN old]
  OBVIOUS
<1>. QED BY <1>1 DEF SomeOf

LEMMA FreshIsSome ==
  ASSUME NEW b \in Buffers, NEW timeout \in Nat
  PROVE  /\ Fresh(b, timeout) \in Buffers /\ SomeOf(Fresh(b, timeout), b, DOMAIN b)
         /\ \A i \in DOMAIN b : b[i].age <= timeout => Has(Fresh(b, timeout), b[i])
<1> DEFINE L == Len(b)
           kept == {i \in DOMAIN b : b[i].age <= timeout}
           N == Cardinality(kept)
           h == [k \in 1 .. N |-> Nth(kept, k)]
           new == [k \in 1 .. N |-> b[Nth(kept, k)]]
<1>1. /\ L \in Nat /\ DOMAIN b = 1 .. L
      /\ \A i \in DOMAIN b : b[i] \in BufferSet
  BY BuffersAre
<1>2. kept \in SUBSET (1 .. L)
  BY <1>1
<1>3. Fresh(b, timeout) = new
  BY DEF Fresh
<1> HIDE DEF kept, L
<1>4. /\ N \in Nat
      /\ \A k \in 1 .. N : Nth(kept, k) \in kept
                            /\ Cardinality({j \in kept : j <= Nth(kept, k)}) = k
      /\ \A i \in kept : \E k \in 1 .. N : Nth(kept, k) = i
  BY <1>1, <1>2, NthIsAPlace
<1>5. \A k \in 1 .. N : h[k] \in DOMAIN b /\ new[k] = b[h[k]] /\ new[k] \in BufferSet
  BY <1>1, <1>2, <1>4
<1>6. \A k, l \in 1 .. N : h[k] = h[l] => k = l
  BY <1>4
<1>7. DOMAIN new = 1 .. N /\ DOMAIN h = 1 .. N /\ h \in [1 .. N -> DOMAIN b]
      /\ new = [k \in 1 .. N |-> new[k]]
  BY <1>5
<1>8. ASSUME NEW i \in DOMAIN b, b[i].age <= timeout PROVE Has(new, b[i])
  <2>1. i \in kept
    BY <1>8 DEF kept
  <2>2. PICK k \in 1 .. N : Nth(kept, k) = i
    BY <1>4, <2>1
  <2>. QED BY <1>7, <2>2 DEF Has
<1> HIDE DEF N, h, new
<1>9. new \in Buffers
  BY <1>4, <1>5, <1>7, BuffersFrom
<1>10. SomeOf(new, b, DOMAIN b)
  BY <1>5, <1>6, <1>7 DEF SomeOf
<1>. QED BY <1>3, <1>8, <1>9, <1>10

LEMMA ClosedIsSome ==
  ASSUME NEW b \in Buffers, NEW i \in DOMAIN b
  PROVE  /\ Closed(b, i) \in Buffers /\ SomeOf(Closed(b, i), b, DOMAIN b \ {i})
         /\ \A j \in DOMAIN b \ {i} : Has(Closed(b, i), b[j])
<1> DEFINE L == Len(b)
           front == SubSeq(b, 1, i - 1)
           back == SubSeq(b, i + 1, L)
           new == front \o back
           h == [k \in 1 .. L - 1 |-> IF k < i THEN k ELSE k + 1]
<1>1. /\ L \in Nat /\ DOMAIN b = 1 .. L /\ i \in 1 .. L
      /\ \A k \in 1 .. L : b[k] \in BufferSet
  BY BuffersAre
<1>2. Closed(b, i) = new
  BY DEF Closed, RemoveAt
<1> HIDE DEF L
<1>3. /\ front \in Seq(BufferSet) /\ Len(front) = i - 1
      /\ \A k \in 1 .. i - 1 : front[k] = b[k]
  <2>1. \A k \in 1 .. i - 1 : b[k] \in BufferSet
    BY <1>1
  <2>2. /\ front \in Seq(BufferSet)
        /\ Len(front) = IF 1 <= i - 1 THEN i - 1 - 1 + 1 ELSE 0
        /\ \A k \in 1 .. i - 1 - 1 + 1 : front[k] = b[1 + k - 1]
    BY <1>1, <2>1, SubSeqProperties
  <2>. QED BY <1>1, <2>2
<1>4. /\ back \in Seq(BufferSet) /\ Len(back) = L - i
      /\ \A k \in 1 .. L - i : back[k] = b[i + k]
  <2>1. \A k \in i + 1 .. L : b[k] \in BufferSet
    BY <1>1
  <2>2. /\ back \in Seq(BufferSet)
        /\ Len(back) = IF i + 1 <= L THEN L - (i + 1) + 1 ELSE 0
        /\ \A k \in 1 .. L - (i + 1) + 1 : back[k] = b[i + 1 + k - 1]
    BY <1>1, <2>1, SubSeqProperties
  <2>. QED BY <1>1, <2>2
<1> HIDE DEF front, back
<1>5. /\ new \in Seq(BufferSet) /\ Len(new) = L - 1
      /\ \A k \in 1 .. L - 1 : new[k] = IF k <= i - 1 THEN front[k] ELSE back[k - (i - 1)]
  <2>1. i - 1 + (L - i) = L - 1
    BY <1>1
  <2>2. /\ front \o back \in Seq(BufferSet) /\ Len(front \o back) = Len(front) + Len(back)
        /\ \A k \in 1 .. Len(front) + Len(back) :
             (front \o back)[k] = IF k <= Len(front) THEN front[k] ELSE back[k - Len(front)]
    BY <1>3, <1>4, ConcatProperties
  <2>3. Len(front) + Len(back) = L - 1 /\ Len(front) = i - 1
    BY <1>3, <1>4, <2>1
  <2>. QED BY <2>2, <2>3
<1>6. DOMAIN new = 1 .. L - 1
  BY <1>5, LenProperties
<1> HIDE DEF new
<1>7. ASSUME NEW k \in 1 .. L - 1
      PROVE  h[k] \in DOMAIN b \ {i} /\ new[k] = b[h[k]]
  <2>1. CASE k < i
    <3>1. k <= i - 1 /\ k \in 1 .. i - 1 /\ k \in 1 .. L /\ k # i
      BY <1>1, <2>1
    <3>. QED BY <1>1, <1>3, <1>5, <2>1, <3>1
  <2>2. CASE ~(k < i)
    <3>1. ~(k <= i - 1) /\ k - (i - 1) \in 1 .. L - i /\ i + (k - (i - 1)) = k + 1
          /\ k + 1 \in 1 .. L /\ k + 1 # i
      BY <1>1, <2>2
    <3>. QED BY <1>1, <1>4, <1>5, <2>2, <3>1
  <2>. QED BY <2>1, <2>2
<1>8. \A k, l \in 1 .. L - 1 : h[k] = h[l] => k = l
  BY <1>1
<1>9. h \in [1 .. L - 1 -> DOMAIN b \ {i}]
  BY <1>7
<1>11. ASSUME NEW j \in DOMAIN b \ {i} PROVE Has(new, b[j])
  <2>1. j < i => j \in 1 .. L - 1 /\ h[j] = j
    BY <1>1
  <2>2. ~(j < i) => j - 1 \in 1 .. L - 1 /\ h[j - 1] = j
    BY <1>1
  <2>. QED BY <1>6, <1>7, <2>1, <2>2 DEF Has
<1> HIDE DEF h
<1>10. SomeOf(new, b, DOMAIN b \ {i})
  <2>1. /\ h \in [DOMAIN new -> DOMAIN b \ {i}]
        /\ \A k, l \in DOMAIN new : h[k] = h[l] => k = l
        /\ \A k \in DOMAIN new : new[k] = b[h[k]]
    BY <1>6, <1>7, <1>8, <1>9
  <2>2. \A k \in DOMAIN new : /\ new[k].key = b[h[k]].key /\ new[k].from = b[h[k]].from
                              /\ new[k].parts = b[h[k]].parts
    BY <2>1
  <2>. QED BY <2>1, <2>2 DEF SomeOf
<1>. QED BY <1>2, <1>5, <1>10, <1>11 DEF Buffers, BufferSet

LEMMA OlderIsSome ==
  ASSUME NEW b \in Buffers
  PROVE  Older(b) \in Buffers /\ SomeOf(Older(b), b, DOMAIN b)
<1> DEFINE L == Len(b)
           new == Older(b)
           h == [k \in 1 .. L |-> k]
<1>1. /\ L \in Nat /\ DOMAIN b = 1 .. L
      /\ \A k \in 1 .. L : b[k] \in BufferSet
  BY BuffersAre
<1>2. Oldest \in Nat
  BY AssemblyAssumption DEF AssemblyAssumption, Oldest
<1>3. DOMAIN new = 1 .. L /\ new = [k \in 1 .. L |-> new[k]]
  BY <1>1 DEF Older
<1>4. ASSUME NEW k \in 1 .. L
      PROVE  /\ new[k] \in BufferSet /\ new[k].key = b[k].key /\ new[k].from = b[k].from
             /\ new[k].parts = b[k].parts
  <2>1. new[k] = [b[k] EXCEPT !.age = IF @ < Oldest THEN @ + 1 ELSE @]
    BY <1>1 DEF Older
  <2>2. b[k] \in BufferSet /\ b[k].age \in 0 .. Oldest
    BY <1>1 DEF BufferSet
  <2>3. (IF b[k].age < Oldest THEN b[k].age + 1 ELSE b[k].age) \in 0 .. Oldest
    BY <1>2, <2>2
  <2>. QED BY <2>1, <2>2, <2>3 DEF BufferSet
<1> HIDE DEF new, L
<1>5. new \in Buffers
  BY <1>1, <1>3, <1>4, BuffersFrom
<1>6. SomeOf(new, b, DOMAIN b)
  <2>1. h \in [DOMAIN new -> DOMAIN b] /\ \A k \in DOMAIN new : h[k] = k
    BY <1>1, <1>3
  <2> HIDE DEF h
  <2>2. \A k, l \in DOMAIN new : h[k] = h[l] => k = l
    BY <2>1
  <2>3. \A k \in DOMAIN new : /\ new[k].key = b[h[k]].key /\ new[k].from = b[h[k]].from
                              /\ new[k].parts = b[h[k]].parts
    BY <1>3, <1>4, <2>1
  <2>. QED BY <2>1, <2>2, <2>3 DEF SomeOf
<1>. QED BY <1>5, <1>6 DEF new

\* Nothing that is known to be good is lost when buffers are removed, or age.
LEMMA SomeAreGood ==
  ASSUME NEW old, NEW texts, NEW tolerance, NEW past, NEW own,
         Good(old, texts, tolerance, past, own),
         NEW new \in Buffers, SomeOf(new, old, DOMAIN old)
  PROVE  Good(new, texts, tolerance, past, own)
<1>1. PICK h \in [DOMAIN new -> DOMAIN old] :
        /\ \A k, l \in DOMAIN new : h[k] = h[l] => k = l
        /\ \A k \in DOMAIN new : /\ new[k].key = old[h[k]].key /\ new[k].from = old[h[k]].from
                                 /\ new[k].parts = old[h[k]].parts
  BY DEF SomeOf
<1>2. UniqueKeys(new)
  BY <1>1 DEF Good, UniqueKeys
<1>3. \A k \in DOMAIN new : /\ Known(new[k], past) /\ Owned(new[k], tolerance, own)
                            /\ OwnKey(new[k], tolerance)
  <2>1. \A k \in DOMAIN old : /\ Known(old[k], past) /\ Owned(old[k], tolerance, own)
                              /\ OwnKey(old[k], tolerance)
    BY DEF Good
  <2>. QED BY <1>1, <2>1 DEF Known, Owned, OwnKey
<1>4. UsedOnce(new)
  BY <1>1 DEF Good, UsedOnce
<1>5. Apart(new, texts)
  BY <1>1 DEF Good, Apart
<1>. QED BY <1>2, <1>3, <1>4, <1>5 DEF Good

\* A buffer is handed over and removed.
LEMMA HandedOverIsGood ==
  ASSUME NEW old, NEW texts, NEW tolerance, NEW past, NEW own,
         Good(old, texts, tolerance, past, own), NEW i \in DOMAIN old,
         NEW new \in Buffers, SomeOf(new, old, DOMAIN old \ {i})
  PROVE  Good(new, Append(texts, Text(old[i])), tolerance, past, own)
<1> DEFINE more == Append(texts, Text(old[i]))
           T == [from : Stations, parts : Parts]
<1>1. PICK h \in [DOMAIN new -> DOMAIN old \ {i}] :
        /\ \A k, l \in DOMAIN new : h[k] = h[l] => k = l
        /\ \A k \in DOMAIN new : /\ new[k].key = old[h[k]].key /\ new[k].from = old[h[k]].from
                                 /\ new[k].parts = old[h[k]].parts
  BY DEF SomeOf
<1>2. SomeOf(new, old, DOMAIN old)
  BY SomeOfMore
<1>3. Good(new, texts, tolerance, past, own)
  BY <1>2, SomeAreGood
<1>4. Text(old[i]) \in T
  <2>1. old \in Buffers
    BY DEF Good
  <2>. QED BY <2>1, BuffersAre DEF Text
<1>5. /\ texts \in Seq(T) /\ Len(texts) \in Nat /\ DOMAIN texts = 1 .. Len(texts)
  BY LenProperties DEF Good, Texts
<1>6. /\ more \in Seq(T) /\ DOMAIN more = 1 .. Len(texts) + 1
      /\ more[Len(texts) + 1] = Text(old[i])
      /\ \A k \in DOMAIN texts : more[k] = texts[k]
  <2>1. /\ more \in Seq(T) /\ Len(more) = Len(texts) + 1
        /\ \A k \in 1 .. Len(texts) : more[k] = texts[k]
        /\ more[Len(texts) + 1] = Text(old[i])
    BY <1>4, <1>5, AppendProperties
  <2>. QED BY <1>5, <2>1, LenProperties
<1>7. \A k \in DOMAIN more : \/ k \in DOMAIN texts /\ more[k] = texts[k]
                             \/ k = Len(texts) + 1 /\ more[k] = Text(old[i])
  BY <1>5, <1>6
<1>8. Text(old[i]).from = old[i].from /\ Text(old[i]).parts = old[i].parts
  BY DEF Text
<1> HIDE DEF more, T
<1>9. \A k \in DOMAIN more : Known(more[k], past) /\ Owned(more[k], tolerance, own)
  <2>1. Known(old[i], past) /\ Owned(old[i], tolerance, own)
    BY DEF Good
  <2>2. Known(Text(old[i]), past) /\ Owned(Text(old[i]), tolerance, own)
    BY <1>8, <2>1 DEF Known, Owned
  <2>. QED BY <1>3, <1>7, <2>2 DEF Good
<1>10. UsedOnce(more)
  <2>1. UsedOnce(texts) /\ UsedOnce(old) /\ Apart(old, texts)
    BY DEF Good
  <2>2. ASSUME NEW m \in DOMAIN old[i].parts, NEW n \in DOMAIN old[i].parts,
               old[i].parts[m] = old[i].parts[n]
        PROVE  m = n
    BY <2>1, <2>2 DEF UsedOnce
  <2>3. ASSUME NEW k \in DOMAIN texts, NEW m \in DOMAIN texts[k].parts,
               NEW n \in DOMAIN old[i].parts
        PROVE  texts[k].parts[m] # old[i].parts[n]
    BY <2>1 DEF Apart
  <2>. QED BY <1>7, <1>8, <2>1, <2>2, <2>3 DEF UsedOnce
<1>11. Apart(new, more)
  <2>1. UsedOnce(old) /\ Apart(new, texts)
    BY <1>3 DEF Good
  <2>2. ASSUME NEW k \in DOMAIN new, NEW m \in DOMAIN new[k].parts,
               NEW n \in DOMAIN old[i].parts
        PROVE  new[k].parts[m] # old[i].parts[n]
    BY <1>1, <2>1 DEF UsedOnce
  <2>. QED BY <1>7, <1>8, <2>1, <2>2 DEF Apart
<1>. QED BY <1>3, <1>6, <1>9, <1>10, <1>11 DEF Good, Texts, more, T

-----------------------------------------------------------------------------
(* A frame is received.                                                    *)

\* A frame of a station at one of its frequencies; it was not on the air before.
Advances(f, past, own, past2, own2) ==
  /\ f.from \in Stations /\ f.freq \in Freqs[f.from] /\ f.inline \in BOOLEAN
  /\ <<f.id, f.index>> \in Ids \X (0 .. MaxFrames)
  /\ f.inline => f.index = 0
  /\ <<f.id, f.index>> \notin past
  /\ <<f.id, f.index>> \in past2 /\ <<f.id, f.index>> \in own2[f.from]
  /\ past \subseteq past2 /\ \A s \in Stations : own[s] \subseteq own2[s]

\* What was used before it still was.
LEMMA LaterIsGood ==
  ASSUME NEW b, NEW texts, NEW tolerance, NEW past, NEW own, NEW past2, NEW own2,
         Good(b, texts, tolerance, past, own),
         past \subseteq past2, \A s \in Stations : own[s] \subseteq own2[s]
  PROVE  Good(b, texts, tolerance, past2, own2)
<1>1. \A i \in DOMAIN b : b[i].from \in Stations
  BY BuffersAre DEF Good
<1>2. \A i \in DOMAIN texts : texts[i].from \in Stations
  <2>1. texts \in Seq([from : Stations, parts : Parts])
    BY DEF Good, Texts
  <2>2. \A i \in DOMAIN texts : texts[i] \in [from : Stations, parts : Parts]
    BY <2>1, LenProperties, ElementOfSeq
  <2>. QED BY <2>2
<1>3. \A i \in DOMAIN b : /\ Known(b[i], past2) /\ Owned(b[i], tolerance, own2)
                          /\ OwnKey(b[i], tolerance)
  BY <1>1 DEF Good, Known, Owned
<1>4. \A i \in DOMAIN texts : Known(texts[i], past2) /\ Owned(texts[i], tolerance, own2)
  BY <1>2 DEF Good, Known, Owned
<1>. QED BY <1>3, <1>4 DEF Good

\* One buffer is new, or has the frame behind what it had.
LEMMA ChangedIsGood ==
  ASSUME NEW old, NEW texts, NEW tolerance, NEW past, NEW own, NEW past2, NEW own2,
         Good(old, texts, tolerance, past, own),
         past \subseteq past2, \A s \in Stations : own[s] \subseteq own2[s],
         NEW p \in past2, p \notin past,
         NEW new \in Buffers, UniqueKeys(new), NEW c \in DOMAIN new,
         \A k \in DOMAIN new \ {c} : k \in DOMAIN old /\ new[k] = old[k],
         \A m \in DOMAIN new[c].parts :
           new[c].parts[m] = p \/
           (c \in DOMAIN old /\ m \in DOMAIN old[c].parts /\ new[c].parts[m] = old[c].parts[m]),
         \A m, n \in DOMAIN new[c].parts : new[c].parts[m] = p /\ new[c].parts[n] = p => m = n,
         Owned(new[c], tolerance, own2), OwnKey(new[c], tolerance)
  PROVE  Good(new, texts, tolerance, past2, own2)
<1>1. Good(old, texts, tolerance, past2, own2)
  BY LaterIsGood
<1>2. \A k \in DOMAIN old : Known(old[k], past)
  BY DEF Good
<1>3. \A k \in DOMAIN texts : Known(texts[k], past)
  BY DEF Good
<1>3a. ASSUME NEW k \in DOMAIN new, NEW m \in DOMAIN new[k].parts, new[k].parts[m] = p
      PROVE  k = c
  <2>1. SUFFICES ASSUME k # c PROVE FALSE
    OBVIOUS
  <2>2. k \in DOMAIN old /\ new[k] = old[k]
    BY <2>1
  <2>. QED BY <1>3a, <1>2, <2>2 DEF Known
<1>4. ASSUME NEW k \in DOMAIN new
      PROVE  Known(new[k], past2) /\ Owned(new[k], tolerance, own2) /\ OwnKey(new[k], tolerance)
  <2>1. CASE k = c
    <3>1. Known(new[c], past2)
      BY <1>2 DEF Known
    <3>. QED BY <2>1, <3>1
  <2>2. CASE k # c
    BY <1>1, <2>2 DEF Good
  <2>. QED BY <2>1, <2>2
<1>5. UsedOnce(new)
  <2>1. SUFFICES ASSUME NEW i \in DOMAIN new, NEW j \in DOMAIN new,
                        NEW m \in DOMAIN new[i].parts, NEW n \in DOMAIN new[j].parts,
                        new[i].parts[m] = new[j].parts[n]
                 PROVE  i = j /\ m = n
    BY DEF UsedOnce
  <2>2. UsedOnce(old)
    BY DEF Good
  <2>3. CASE new[i].parts[m] = p
    <3>1. i = c /\ j = c
      BY <1>3a, <2>1, <2>3
    <3>. QED BY <2>1, <2>3, <3>1
  <2>4. CASE new[i].parts[m] # p
    <3>1. i \in DOMAIN old /\ m \in DOMAIN old[i].parts /\ new[i].parts[m] = old[i].parts[m]
      BY <2>4
    <3>2. j \in DOMAIN old /\ n \in DOMAIN old[j].parts /\ new[j].parts[n] = old[j].parts[n]
      BY <2>1, <2>4
    <3>3. old[i].parts[m] = old[j].parts[n]
      BY <2>1, <3>1, <3>2
    <3>. QED BY <2>2, <3>1, <3>2, <3>3 DEF UsedOnce
  <2>. QED BY <2>3, <2>4
<1>6. Apart(new, texts)
  <2>1. SUFFICES ASSUME NEW i \in DOMAIN new, NEW j \in DOMAIN texts,
                        NEW m \in DOMAIN new[i].parts, NEW n \in DOMAIN texts[j].parts
                 PROVE  new[i].parts[m] # texts[j].parts[n]
    BY DEF Apart
  <2>2. Apart(old, texts)
    BY DEF Good
  <2>3. CASE new[i].parts[m] = p
    BY <1>3, <2>3 DEF Known
  <2>4. CASE new[i].parts[m] # p
    <3>1. i \in DOMAIN old /\ m \in DOMAIN old[i].parts /\ new[i].parts[m] = old[i].parts[m]
      BY <2>4
    <3>. QED BY <2>2, <3>1 DEF Apart
  <2>. QED BY <2>3, <2>4
<1>. QED BY <1>1, <1>4, <1>5, <1>6 DEF Good

\* The frequencies of the frame, as numbers.
LEMMA FrameFreq ==
  ASSUME NEW s \in Stations
  PROVE  Freqs[s] \subseteq Nat /\ Freqs[s] \subseteq UNION {Freqs[t] : t \in Stations}
BY AssemblyAssumption DEF AssemblyAssumption

\* A frame that is near the key of a station that is alone is of that station.
LEMMA NearIsOwn ==
  ASSUME NEW s \in Stations, NEW t \in Stations, NEW tolerance \in Nat, Alone(s, tolerance),
         NEW key \in Freqs[s], NEW freq \in Freqs[t], Abs(key - freq) <= tolerance
  PROVE  t = s
<1>1. Abs(key - freq) \in Nat
  BY FrameFreq, AbsOfDifference
<1>2. t # s => Abs(key - freq) > tolerance
  BY DEF Alone
<1>. QED BY <1>1, <1>2

LEMMA BegunIs ==
  ASSUME NEW f, NEW past, NEW own, NEW past2, NEW own2, Advances(f, past, own, past2, own2),
         NEW key \in UNION {Freqs[s] : s \in Stations}
  PROVE  /\ Begun(f, key) \in BufferSet
         /\ Begun(f, key).key = key /\ Begun(f, key).from = f.from
         /\ \A m \in DOMAIN Begun(f, key).parts :
              m = 1 /\ Begun(f, key).parts[m] = <<f.id, f.index>>
         /\ f.inline => Begun(f, key).parts = <<<<f.id, f.index>>>>
<1> DEFINE parts == IF f.inline THEN <<<<f.id, 0>>>> ELSE <<>>
<1>1. Oldest \in Nat /\ 0 \in 0 .. Oldest
  BY AssemblyAssumption DEF AssemblyAssumption, Oldest
<1>2. /\ Begun(f, key).key = key /\ Begun(f, key).from = f.from
      /\ Begun(f, key).parts = parts
  BY DEF Begun
<1>3. /\ parts \in Parts
      /\ \A m \in DOMAIN parts : m = 1 /\ parts[m] = <<f.id, f.index>>
      /\ f.inline => parts = <<<<f.id, f.index>>>>
  <2>1. CASE f.inline
    <3>1. <<f.id, 0>> = <<f.id, f.index>> /\ <<f.id, 0>> \in Ids \X (0 .. MaxFrames)
      <4>1. f.index = 0 /\ <<f.id, f.index>> \in Ids \X (0 .. MaxFrames)
        BY <2>1 DEF Advances
      <4>. QED BY <4>1
    <3> DEFINE p == <<f.id, 0>>
    <3>2. parts = <<p>> /\ p \in Ids \X (0 .. MaxFrames)
      BY <2>1, <3>1
    <3> HIDE DEF p, parts
    <3>3. parts \in Parts /\ DOMAIN parts = {1} /\ parts[1] = p
      BY <3>2 DEF Parts
    <3>. QED BY <3>1, <3>2, <3>3 DEF p
  <2>2. CASE ~f.inline
    <3>1. parts = <<>>
      BY <2>2
    <3>. QED BY <2>2, <3>1 DEF Parts
  <2>. QED BY <2>1, <2>2
<1> HIDE DEF parts
<1>4. Begun(f, key) \in BufferSet
  BY <1>1, <1>2, <1>3 DEF Begun, BufferSet, Advances
<1>. QED BY <1>2, <1>3, <1>4

LEMMA OpenedIsGood ==
  ASSUME NEW b, NEW texts, NEW tolerance \in Nat, NEW past, NEW own, NEW past2, NEW own2,
         Good(b, texts, tolerance, past, own),
         NEW f, Advances(f, past, own, past2, own2)
  PROVE  /\ Good(Opened(b, f, tolerance), texts, tolerance, past2, own2)
         /\ Match(Opened(b, f, tolerance), f.freq, tolerance)
              \in DOMAIN Opened(b, f, tolerance)
<1> DEFINE i == Match(b, f.freq, tolerance)
           new == Opened(b, f, tolerance)
           L == Len(b)
           c == IF i = 0 THEN L + 1 ELSE i
           key == IF i = 0 THEN f.freq ELSE b[i].key
           p == <<f.id, f.index>>
<1>1. /\ b \in Buffers /\ b \in Seq(BufferSet) /\ L \in Nat /\ DOMAIN b = 1 .. L
      /\ \A k \in DOMAIN b : b[k] \in BufferSet /\ b[k].key \in Nat
  BY BuffersAre DEF Good
<1>2. f.from \in Stations /\ f.freq \in Freqs[f.from] /\ f.freq \in Nat
      /\ f.freq \in UNION {Freqs[t] : t \in Stations}
  BY FrameFreq DEF Advances
<1>3. /\ i = 0 \/ (i \in DOMAIN b /\ Abs(b[i].key - f.freq) <= tolerance)
      /\ i = 0 => \A j \in DOMAIN b : ~(Abs(b[j].key - f.freq) <= tolerance)
  BY <1>1, <1>2, MatchIsNear
<1>4. new = IF i = 0 THEN Append(b, Begun(f, f.freq))
                     ELSE [b EXCEPT ![i] = Begun(f, b[i].key)]
  BY DEF Opened, ReplaceAt
<1> HIDE DEF i, L, new
<1>5. /\ key \in UNION {Freqs[s] : s \in Stations} /\ key \in Nat
      /\ Abs(key - f.freq) <= tolerance
  <2>1. CASE i = 0
    BY <1>2, <2>1, AbsOfDifference
  <2>2. CASE i # 0
    <3>1. i \in DOMAIN b /\ Abs(b[i].key - f.freq) <= tolerance /\ key = b[i].key
      BY <1>3, <2>2
    <3>. QED BY <1>1, <3>1 DEF BufferSet
  <2>. QED BY <2>1, <2>2
<1>6. Begun(f, key) \in BufferSet
  BY <1>5, BegunIs
<1>7. /\ new \in Buffers /\ c \in DOMAIN new /\ new[c] = Begun(f, key)
      /\ \A k \in DOMAIN new \ {c} : k \in DOMAIN b /\ new[k] = b[k]
  <2>1. CASE i = 0
    <3>1. /\ new \in Seq(BufferSet) /\ Len(new) = L + 1
          /\ \A k \in 1 .. L : new[k] = b[k]
          /\ new[L + 1] = Begun(f, key)
      BY <1>1, <1>4, <1>6, <2>1, AppendProperties DEF L
    <3>2. DOMAIN new = 1 .. L + 1
      BY <3>1, LenProperties
    <3>. QED BY <1>1, <2>1, <3>1, <3>2 DEF Buffers, BufferSet
  <2>2. CASE i # 0
    <3>1. new = [b EXCEPT ![i] = Begun(f, key)] /\ i \in 1 .. L
      BY <1>1, <1>3, <1>4, <2>2
    <3>2. /\ new \in Seq(BufferSet) /\ Len(new) = L
          /\ \A k \in 1 .. L : new[k] = IF k = i THEN Begun(f, key) ELSE b[k]
      BY <1>1, <1>6, <3>1, ExceptSeq DEF L
    <3>3. DOMAIN new = 1 .. L
      BY <3>2, LenProperties
    <3>. QED BY <1>1, <2>2, <3>1, <3>2, <3>3 DEF Buffers, BufferSet
  <2>. QED BY <2>1, <2>2
<1>8. /\ new[c].key = key /\ new[c].from = f.from
      /\ \A m \in DOMAIN new[c].parts : m = 1 /\ new[c].parts[m] = p
  BY <1>5, <1>7, BegunIs
<1> HIDE DEF c, key
<1>9. UniqueKeys(new)
  <2>1. UniqueKeys(b)
    BY DEF Good
  <2>2. ASSUME NEW k \in DOMAIN new \ {c} PROVE new[k].key # key
    <3>1. k \in DOMAIN b /\ new[k] = b[k]
      BY <1>7
    <3>2. CASE i = 0
      <4>1. key = f.freq /\ Abs(f.freq - f.freq) = 0 /\ 0 <= tolerance
        BY <1>2, <3>2, AbsOfDifference DEF key
      <4>. QED BY <1>3, <3>1, <3>2, <4>1
    <3>3. CASE i # 0
      <4>1. key = b[i].key /\ c = i /\ i \in DOMAIN b
        BY <1>3, <3>3 DEF key, c
      <4>. QED BY <2>1, <3>1, <4>1 DEF UniqueKeys
    <3>. QED BY <3>2, <3>3
  <2>. QED BY <1>7, <1>8, <2>1, <2>2 DEF UniqueKeys
<1>10. OwnKey(new[c], tolerance)
  <2>1. SUFFICES ASSUME Alone(f.from, tolerance) PROVE key \in Freqs[f.from]
    BY <1>8 DEF OwnKey
  <2>2. PICK t \in Stations : key \in Freqs[t]
    BY <1>5
  <2>3. Abs(f.freq - key) <= tolerance
    BY <1>2, <1>5, AbsOfDifference
  <2>4. t = f.from
    BY <1>2, <2>1, <2>2, <2>3, NearIsOwn
  <2>. QED BY <2>2, <2>4
<1>11. Owned(new[c], tolerance, own2)
  BY <1>8 DEF Owned, Advances
<1>12. Good(new, texts, tolerance, past2, own2)
  <2>1. p \in past2 /\ p \notin past /\ past \subseteq past2
        /\ \A s \in Stations : own[s] \subseteq own2[s]
    BY DEF Advances
  <2> HIDE DEF p
  <2>. QED BY <1>7, <1>8, <1>9, <1>10, <1>11, <2>1, ChangedIsGood
<1>13. Match(new, f.freq, tolerance) \in DOMAIN new
  BY <1>2, <1>5, <1>7, <1>8, MatchIsNear
<1>. QED BY <1>12, <1>13 DEF new

LEMMA ContinuedIsGood ==
  ASSUME NEW b, NEW texts, NEW tolerance \in Nat, NEW past, NEW own, NEW past2, NEW own2,
         Good(b, texts, tolerance, past, own),
         NEW f, Advances(f, past, own, past2, own2),
         NEW i \in DOMAIN b, Abs(b[i].key - f.freq) <= tolerance
  PROVE  Good(Continued(b, f, i), texts, tolerance, past2, own2)
<1> DEFINE new == Continued(b, f, i)
           p == <<f.id, f.index>>
           parts == b[i].parts
           item == [b[i] EXCEPT !.parts = Append(@, p), !.age = 0]
           P == Ids \X (0 .. MaxFrames)
           L == Len(b)
           K == Len(parts)
<1>1. /\ b \in Seq(BufferSet) /\ L \in Nat /\ DOMAIN b = 1 .. L
      /\ b[i] \in BufferSet /\ b[i].key \in Nat /\ b[i].from \in Stations
  BY BuffersAre DEF Good
<1>2. /\ f.from \in Stations /\ f.freq \in Freqs[f.from] /\ f.freq \in Nat
      /\ p \in P /\ p \notin past /\ p \in past2 /\ p \in own2[f.from]
      /\ past \subseteq past2 /\ \A s \in Stations : own[s] \subseteq own2[s]
  BY FrameFreq DEF Advances
<1>3. Oldest \in Nat /\ 0 \in 0 .. Oldest
  BY AssemblyAssumption DEF AssemblyAssumption, Oldest
<1>4. parts \in Seq(P) /\ K \in Nat /\ DOMAIN parts = 1 .. K
  <2>1. parts \in Seq(P)
    BY <1>1 DEF BufferSet, Parts
  <2>. QED BY <2>1, LenProperties
<1> HIDE DEF p
<1>5. /\ Append(parts, p) \in Seq(P) /\ DOMAIN Append(parts, p) = 1 .. K + 1
      /\ Append(parts, p)[K + 1] = p
      /\ \A m \in 1 .. K : Append(parts, p)[m] = parts[m]
  <2>1. /\ Append(parts, p) \in Seq(P) /\ Len(Append(parts, p)) = K + 1
        /\ \A m \in 1 .. K : Append(parts, p)[m] = parts[m]
        /\ Append(parts, p)[K + 1] = p
    BY <1>2, <1>4, AppendProperties
  <2>. QED BY <2>1, LenProperties
<1>6. /\ item \in BufferSet /\ item.key = b[i].key /\ item.from = b[i].from
      /\ item.parts = Append(parts, p)
  BY <1>1, <1>3, <1>5 DEF BufferSet, Parts
<1>7. new = [b EXCEPT ![i] = item]
  BY DEF Continued, ReplaceAt, p
<1> HIDE DEF item, new, L, K
<1>8. /\ new \in Buffers /\ DOMAIN new = DOMAIN b /\ new[i] = item
      /\ \A k \in DOMAIN b \ {i} : new[k] = b[k]
  <2>1. i \in 1 .. L
    BY <1>1
  <2>2. /\ new \in Seq(BufferSet) /\ Len(new) = L
        /\ \A k \in 1 .. L : new[k] = IF k = i THEN item ELSE b[k]
    BY <1>1, <1>6, <1>7, <2>1, ExceptSeq DEF L
  <2>3. DOMAIN new = 1 .. L
    BY <2>2, LenProperties
  <2>. QED BY <1>1, <2>1, <2>2, <2>3 DEF Buffers, BufferSet
<1>9. UniqueKeys(new)
  <2>1. \A k \in DOMAIN b : new[k].key = b[k].key
    BY <1>6, <1>8
  <2>. QED BY <1>8, <2>1 DEF Good, UniqueKeys
<1>10. Known(b[i], past) /\ Owned(b[i], tolerance, own) /\ OwnKey(b[i], tolerance)
  BY DEF Good
<1>11. OwnKey(new[i], tolerance)
  BY <1>6, <1>8, <1>10 DEF OwnKey
<1>12. /\ \A m \in DOMAIN new[i].parts :
            new[i].parts[m] = p \/ (m \in DOMAIN parts /\ new[i].parts[m] = parts[m])
       /\ \A m, n \in DOMAIN new[i].parts :
            new[i].parts[m] = p /\ new[i].parts[n] = p => m = n
  <2>1. new[i].parts = Append(parts, p)
    BY <1>6, <1>8
  <2>2. \A m \in 1 .. K + 1 : m \in 1 .. K \/ m = K + 1
    BY <1>4
  <2>3. \A m \in 1 .. K : parts[m] # p
    BY <1>2, <1>4, <1>10 DEF Known
  <2>. QED BY <1>4, <1>5, <2>1, <2>2, <2>3
<1>13. Owned(new[i], tolerance, own2)
  <2>1. SUFFICES ASSUME Alone(b[i].from, tolerance), NEW m \in DOMAIN new[i].parts
                 PROVE  new[i].parts[m] \in own2[b[i].from]
    BY <1>6, <1>8 DEF Owned
  <2>2. CASE new[i].parts[m] = p
    <3>1. b[i].key \in Freqs[b[i].from]
      BY <1>10, <2>1 DEF OwnKey
    <3>2. f.from = b[i].from
      BY <1>1, <1>2, <2>1, <3>1, NearIsOwn
    <3>. QED BY <1>2, <2>2, <3>2
  <2>3. CASE m \in DOMAIN parts /\ new[i].parts[m] = parts[m]
    BY <1>1, <1>2, <1>10, <2>1, <2>3 DEF Owned
  <2>. QED BY <1>12, <2>2, <2>3
<1>14. \A k \in DOMAIN new \ {i} : k \in DOMAIN b /\ new[k] = b[k]
  BY <1>8
<1>15. Good(new, texts, tolerance, past2, own2)
  <2> HIDE DEF parts
  <2>1. \A m \in DOMAIN new[i].parts :
          new[i].parts[m] = p \/
          (i \in DOMAIN b /\ m \in DOMAIN b[i].parts /\ new[i].parts[m] = b[i].parts[m])
    BY <1>12 DEF parts
  <2>2. i \in DOMAIN new
    BY <1>8
  <2>. QED BY <1>2, <1>8, <1>9, <1>11, <1>12, <1>13, <1>14, <2>1, <2>2, ChangedIsGood
<1>. QED BY <1>15 DEF new

\* The last frame: what it completes is removed, with or without being handed over.
LEMMA CompletedIsGood ==
  ASSUME NEW b, NEW texts, NEW tolerance \in Nat, NEW past, NEW own, NEW past2, NEW own2,
         Good(b, texts, tolerance, past, own),
         NEW f, Advances(f, past, own, past2, own2),
         NEW i \in DOMAIN b, Abs(b[i].key - f.freq) <= tolerance
  PROVE  /\ Good(Closed(b, i), texts, tolerance, past2, own2)
         /\ Good(Closed(b, i), Append(texts, Text(Continued(b, f, i)[i])), tolerance,
                 past2, own2)
<1>0. /\ Good(Continued(b, f, i), texts, tolerance, past2, own2)
      /\ DOMAIN Continued(b, f, i) = DOMAIN b
      /\ \A k \in DOMAIN b \ {i} : Continued(b, f, i)[k] = b[k]
  <2>1. Good(Continued(b, f, i), texts, tolerance, past2, own2)
    BY ContinuedIsGood
  <2>2. DOMAIN Continued(b, f, i) = DOMAIN b
    BY DEF Continued, ReplaceAt
  <2>3. \A k \in DOMAIN b \ {i} : Continued(b, f, i)[k] = b[k]
    BY DEF Continued, ReplaceAt
  <2>. QED BY <2>1, <2>2, <2>3
<1> DEFINE mid == Continued(b, f, i)
           new == Closed(b, i)
<1> HIDE DEF mid
<1>1. /\ Good(mid, texts, tolerance, past2, own2) /\ DOMAIN mid = DOMAIN b
      /\ \A k \in DOMAIN b \ {i} : mid[k] = b[k]
  BY <1>0 DEF mid
<1>2. new \in Buffers /\ SomeOf(new, b, DOMAIN b \ {i})
  BY ClosedIsSome DEF Good
<1> HIDE DEF new
<1>3. PICK h \in [DOMAIN new -> DOMAIN b \ {i}] :
        /\ \A k, l \in DOMAIN new : h[k] = h[l] => k = l
        /\ \A k \in DOMAIN new : /\ new[k].key = b[h[k]].key /\ new[k].from = b[h[k]].from
                                 /\ new[k].parts = b[h[k]].parts
  BY <1>2 DEF SomeOf
<1>4. \A k \in DOMAIN new : mid[h[k]] = b[h[k]]
  BY <1>1, <1>3
<1>5. \A k \in DOMAIN new : /\ new[k].key = mid[h[k]].key /\ new[k].from = mid[h[k]].from
                            /\ new[k].parts = mid[h[k]].parts
  BY <1>3, <1>4
<1>6. SomeOf(new, mid, DOMAIN mid \ {i}) /\ SomeOf(new, mid, DOMAIN mid)
  <2>1. h \in [DOMAIN new -> DOMAIN mid \ {i}] /\ h \in [DOMAIN new -> DOMAIN mid]
    BY <1>1, <1>3
  <2>. QED BY <1>3, <1>5, <2>1 DEF SomeOf
<1>7. i \in DOMAIN mid
  BY <1>1
<1>. QED BY <1>1, <1>2, <1>6, <1>7, SomeAreGood, HandedOverIsGood DEF mid, new

\* A message in one frame.
LEMMA AtOnceIsGood ==
  ASSUME NEW b, NEW texts, NEW tolerance, NEW past, NEW own, NEW past2, NEW own2,
         Good(b, texts, tolerance, past, own),
         NEW f, Advances(f, past, own, past2, own2), f.inline
  PROVE  Good(b, Append(texts, [from |-> f.from, parts |-> <<<<f.id, 0>>>>]), tolerance,
              past2, own2)
<1> DEFINE p == <<f.id, f.index>>
           T == [from : Stations, parts : Parts]
           text == [from |-> f.from, parts |-> <<p>>]
           more == Append(texts, text)
           N == Len(texts)
<1>1. /\ Good(b, texts, tolerance, past2, own2)
      /\ f.index = 0 /\ f.from \in Stations /\ p \in Ids \X (0 .. MaxFrames)
      /\ p \notin past /\ p \in past2 /\ p \in own2[f.from]
  BY LaterIsGood DEF Advances
<1>2. /\ \A k \in DOMAIN b : Known(b[k], past)
      /\ \A k \in DOMAIN texts : Known(texts[k], past)
  BY DEF Good
<1>3. Append(texts, [from |-> f.from, parts |-> <<<<f.id, 0>>>>]) = more
  BY <1>1
<1> HIDE DEF p
<1>4. /\ text \in T /\ text.from = f.from /\ text.parts = <<p>>
      /\ DOMAIN text.parts = {1} /\ text.parts[1] = p
  BY <1>1 DEF Parts
<1>5. texts \in Seq(T) /\ N \in Nat /\ DOMAIN texts = 1 .. N
  BY LenProperties DEF Good, Texts
<1> HIDE DEF text
<1>6. /\ more \in Seq(T) /\ DOMAIN more = 1 .. N + 1
      /\ more[N + 1] = text /\ \A k \in DOMAIN texts : more[k] = texts[k]
  <2>1. /\ more \in Seq(T) /\ Len(more) = N + 1
        /\ \A k \in 1 .. N : more[k] = texts[k]
        /\ more[N + 1] = text
    BY <1>4, <1>5, AppendProperties
  <2>. QED BY <1>5, <2>1, LenProperties
<1>7. \A k \in DOMAIN more : \/ k \in DOMAIN texts /\ more[k] = texts[k]
                             \/ k = N + 1 /\ more[k] = text
  BY <1>5, <1>6
<1> HIDE DEF more, N, T
<1>8. \A k \in DOMAIN more : Known(more[k], past2) /\ Owned(more[k], tolerance, own2)
  <2>1. Known(text, past2) /\ Owned(text, tolerance, own2)
    BY <1>1, <1>4 DEF Known, Owned
  <2>. QED BY <1>1, <1>7, <2>1 DEF Good
<1>9. \A k \in DOMAIN texts : \A m \in DOMAIN texts[k].parts : texts[k].parts[m] # p
  BY <1>1, <1>2 DEF Known
<1>10. UsedOnce(more)
  <2>1. UsedOnce(texts)
    BY DEF Good
  <2>. QED BY <1>4, <1>7, <1>9, <2>1 DEF UsedOnce
<1>11. Apart(b, more)
  <2>1. Apart(b, texts)
    BY DEF Good
  <2>2. \A k \in DOMAIN b : \A m \in DOMAIN b[k].parts : b[k].parts[m] # p
    BY <1>1, <1>2 DEF Known
  <2>. QED BY <1>4, <1>7, <2>1, <2>2 DEF Apart
<1>. QED BY <1>1, <1>3, <1>6, <1>8, <1>10, <1>11 DEF Good, Texts, T

-----------------------------------------------------------------------------
(* The two handlers.                                                       *)

LEMMA FreshIsGood ==
  ASSUME NEW b, NEW texts, NEW tolerance, NEW past, NEW own,
         Good(b, texts, tolerance, past, own), NEW timeout \in Nat
  PROVE  Good(Fresh(b, timeout), texts, tolerance, past, own)
<1>1. Fresh(b, timeout) \in Buffers /\ SomeOf(Fresh(b, timeout), b, DOMAIN b)
  BY FreshIsSome DEF Good
<1>. QED BY <1>1, SomeAreGood

LEMMA NextIsGood ==
  ASSUME NEW b, NEW texts, NEW tolerance, NEW past, NEW own, NEW past2, NEW own2,
         Good(b, texts, tolerance, past, own),
         NEW f, Advances(f, past, own, past2, own2)
  PROVE  Good(b, texts, tolerance, past2, own2)
<1>1. past \subseteq past2 /\ \A s \in Stations : own[s] \subseteq own2[s]
  BY DEF Advances
<1>. QED BY <1>1, LaterIsGood

LEMMA MsgKeepsGood ==
  ASSUME NEW past, NEW own, NEW past2, NEW own2,
         Good(msgBuffers, delivered, MsgTolerance, past, own),
         NEW f, Advances(f, past, own, past2, own2), HandleIncomingMessage(f)
  PROVE  Good(msgBuffers', delivered', MsgTolerance, past2, own2)
<1> DEFINE b == CleanMsgBuffers
           opened == Opened(b, f, MsgTolerance)
           i == Match(b, f.freq, MsgTolerance)
<1>1. MsgTolerance \in Nat /\ MsgTimeout \in Nat
  BY AssemblyAssumption DEF AssemblyAssumption
<1>2. Good(b, delivered, MsgTolerance, past, own) /\ b \in Buffers
  BY <1>1, FreshIsGood DEF CleanMsgBuffers, Good
<1>3. f.from \in Stations /\ f.freq \in Nat
  BY FrameFreq DEF Advances
<1> HIDE DEF b
<1>4. Good(b, delivered, MsgTolerance, past2, own2)
  BY <1>2, NextIsGood
<1>5. CASE MsgAtOnce(f)
  <2>1. f.inline /\ msgBuffers' = b
        /\ delivered' = Append(delivered, [from |-> f.from, parts |-> <<<<f.id, 0>>>>])
    BY <1>5 DEF MsgAtOnce, b
  <2>. QED BY <1>2, <2>1, AtOnceIsGood
<1>6. CASE MsgEmpty(f) \/ MsgBegins(f)
  <2>1. /\ Good(opened, delivered, MsgTolerance, past2, own2)
        /\ Match(opened, f.freq, MsgTolerance) \in DOMAIN opened
    BY <1>1, <1>2, OpenedIsGood
  <2> DEFINE j == Match(opened, f.freq, MsgTolerance)
  <2>2. delivered' = delivered /\ (msgBuffers' = opened \/ msgBuffers' = Closed(opened, j))
    BY <1>6 DEF MsgEmpty, MsgBegins, b
  <2> HIDE DEF opened, j
  <2>3. /\ Closed(opened, j) \in Buffers
        /\ SomeOf(Closed(opened, j), opened, DOMAIN opened \ {j})
    BY <2>1, ClosedIsSome DEF Good, j
  <2>4. SomeOf(Closed(opened, j), opened, DOMAIN opened)
    BY <2>3, SomeOfMore
  <2>5. Good(Closed(opened, j), delivered, MsgTolerance, past2, own2)
    BY <2>1, <2>3, <2>4, SomeAreGood
  <2>. QED BY <2>1, <2>2, <2>5
<1>7. CASE MsgGoesOn(f)
  <2>1. i = 0 \/ (i \in DOMAIN b /\ Abs(b[i].key - f.freq) <= MsgTolerance)
    BY <1>1, <1>2, <1>3, MatchIsNear
  <2>2. \/ msgBuffers' = b /\ delivered' = delivered
        \/ i # 0 /\ msgBuffers' = Continued(b, f, i) /\ delivered' = delivered
        \/ i # 0 /\ msgBuffers' = Closed(b, i)
           /\ delivered' = Append(delivered, Text(Continued(b, f, i)[i]))
    BY <1>7, <2>1 DEF MsgGoesOn, b
  <2> HIDE DEF i
  <2>3. CASE msgBuffers' = b /\ delivered' = delivered
    BY <1>4, <2>3
  <2>4. CASE i # 0 /\ msgBuffers' = Continued(b, f, i) /\ delivered' = delivered
    BY <1>1, <1>2, <2>1, <2>4, ContinuedIsGood
  <2>5. CASE /\ i # 0 /\ msgBuffers' = Closed(b, i)
             /\ delivered' = Append(delivered, Text(Continued(b, f, i)[i]))
    BY <1>1, <1>2, <2>1, <2>5, CompletedIsGood
  <2>. QED BY <2>2, <2>3, <2>4, <2>5
<1>8. CASE MsgIgnores(f)
  BY <1>4, <1>8 DEF MsgIgnores, b
<1>. QED BY <1>5, <1>6, <1>7, <1>8 DEF HandleIncomingMessage

LEMMA RelayKeepsGood ==
  ASSUME NEW past, NEW own, NEW past2, NEW own2,
         Good(relayBuffers, relayed, RelayTolerance, past, own),
         NEW f, Advances(f, past, own, past2, own2), HandleRelayFrame(f)
  PROVE  Good(relayBuffers', relayed', RelayTolerance, past2, own2)
<1> DEFINE b == CleanRelayBuffers
           opened == Opened(b, f, RelayTolerance)
           i == Match(b, f.freq, RelayTolerance)
<1>1. RelayTolerance \in Nat /\ RelayTimeout \in Nat
  BY AssemblyAssumption DEF AssemblyAssumption
<1>2. Good(b, relayed, RelayTolerance, past, own) /\ b \in Buffers
  BY <1>1, FreshIsGood DEF CleanRelayBuffers, Good
<1>3. f.from \in Stations /\ f.freq \in Nat
  BY FrameFreq DEF Advances
<1> HIDE DEF b
<1>4. Good(b, relayed, RelayTolerance, past2, own2)
  BY <1>2, NextIsGood
<1>5. CASE RelayBegins(f)
  <2>1. /\ Good(opened, relayed, RelayTolerance, past2, own2)
        /\ Match(opened, f.freq, RelayTolerance) \in DOMAIN opened
    BY <1>1, <1>2, OpenedIsGood
  <2> DEFINE j == Match(opened, f.freq, RelayTolerance)
  <2>2. \/ relayed' = relayed /\ relayBuffers' = opened
        \/ /\ relayBuffers' = Closed(opened, j)
           /\ relayed' = relayed \/ relayed' = Append(relayed, Text(opened[j]))
    BY <1>5 DEF RelayBegins, ProcessRelayBuffer, b
  <2> HIDE DEF opened, j
  <2>3. /\ Closed(opened, j) \in Buffers
        /\ SomeOf(Closed(opened, j), opened, DOMAIN opened \ {j}) /\ j \in DOMAIN opened
    BY <2>1, ClosedIsSome DEF Good, j
  <2>4. SomeOf(Closed(opened, j), opened, DOMAIN opened)
    BY <2>3, SomeOfMore
  <2>5. /\ Good(Closed(opened, j), relayed, RelayTolerance, past2, own2)
        /\ Good(Closed(opened, j), Append(relayed, Text(opened[j])), RelayTolerance, past2, own2)
    BY <2>1, <2>3, <2>4, SomeAreGood, HandedOverIsGood
  <2>. QED BY <2>1, <2>2, <2>5
<1>6. CASE RelayGoesOn(f)
  <2>1. i = 0 \/ (i \in DOMAIN b /\ Abs(b[i].key - f.freq) <= RelayTolerance)
    BY <1>1, <1>2, <1>3, MatchIsNear
  <2>2. \/ relayBuffers' = b /\ relayed' = relayed
        \/ i # 0 /\ relayBuffers' = Continued(b, f, i) /\ relayed' = relayed
        \/ /\ i # 0 /\ relayBuffers' = Closed(b, i)
           /\ relayed' = relayed \/ relayed' = Append(relayed, Text(Continued(b, f, i)[i]))
    BY <1>6, <2>1 DEF RelayGoesOn, ProcessRelayBuffer, b
  <2> HIDE DEF i
  <2>3. CASE relayBuffers' = b /\ relayed' = relayed
    BY <1>4, <2>3
  <2>4. CASE i # 0 /\ relayBuffers' = Continued(b, f, i) /\ relayed' = relayed
    BY <1>1, <1>2, <2>1, <2>4, ContinuedIsGood
  <2>5. CASE /\ i # 0 /\ relayBuffers' = Closed(b, i)
             /\ relayed' = relayed \/ relayed' = Append(relayed, Text(Continued(b, f, i)[i]))
    BY <1>1, <1>2, <2>1, <2>5, CompletedIsGood
  <2>. QED BY <2>2, <2>3, <2>4, <2>5
<1>7. CASE RelayIgnores(f)
  BY <1>4, <1>7 DEF RelayIgnores, b
<1>. QED BY <1>5, <1>6, <1>7 DEF HandleRelayFrame

-----------------------------------------------------------------------------
(* The stations.                                                           *)

LEMMA SentIs ==
  ASSUME StationsTyped
  PROVE  /\ Len(sent) \in 0 .. MaxSends /\ DOMAIN sent = 1 .. Len(sent) /\ DOMAIN sent \subseteq Ids
         /\ \A id \in DOMAIN sent : sent[id] \in Transmissions /\ sent[id].from \in Stations
<1>1. sent \in Seq(Transmissions) /\ Len(sent) <= MaxSends /\ MaxSends \in Nat
  BY AssemblyAssumption DEF StationsTyped, AssemblyAssumption
<1>2. Len(sent) \in Nat /\ DOMAIN sent = 1 .. Len(sent)
  BY <1>1, LenProperties
<1>3. \A id \in DOMAIN sent : sent[id] \in Transmissions
  BY <1>1, <1>2, ElementOfSeq
<1>. QED BY <1>1, <1>2, <1>3 DEF Ids, Transmissions

\* The next frame of s is on the air: with it s is over, or goes on.
LEMMA GoesOn ==
  ASSUME StationsTyped, OnAirIsSent, NEW s \in Stations, NEW whole \in BOOLEAN, Goes(s, whole)
  PROVE  /\ onAir' \in [Stations -> [id : 0 .. MaxSends, next : 0 .. MaxFrames, whole : BOOLEAN]]
         /\ \A t \in Stations \ {s} : onAir'[t] = onAir[t]
         /\ \/ onAir'[s].id = 0 /\ onAir[s].next = sent[onAir[s].id].count
            \/ /\ onAir'[s].id = onAir[s].id /\ onAir'[s].next = onAir[s].next + 1
               /\ onAir[s].next < sent[onAir[s].id].count
         /\ onAir[s].id \in DOMAIN sent /\ onAir[s].id # 0 /\ onAir[s].next \in 0 .. MaxFrames
         /\ sent[onAir[s].id].from = s
<1> DEFINE id == onAir[s].id
           next == onAir[s].next
           count == sent[id].count
           R == [id : 0 .. MaxSends, next : 0 .. MaxFrames, whole : BOOLEAN]
           new == IF next = count THEN Silent
                  ELSE [id |-> id, next |-> next + 1, whole |-> onAir[s].whole /\ whole]
<1>1. onAir \in [Stations -> R] /\ onAir[s] \in R
  BY DEF StationsTyped
<1>2. id # 0 /\ id \in DOMAIN sent /\ sent[id].from = s /\ next <= count
  BY DEF Goes, OnAirIsSent
<1>3. MaxFrames \in Nat /\ MaxSends \in Nat
  BY AssemblyAssumption DEF AssemblyAssumption
<1>4. count \in 0 .. MaxFrames /\ next \in 0 .. MaxFrames
  BY <1>1, <1>2, SentIs DEF Transmissions
<1>5. onAir' = [onAir EXCEPT ![s] = new]
  BY DEF Goes
<1>6. new \in R /\ \/ new.id = 0 /\ next = count
                   \/ new.id = id /\ new.next = next + 1 /\ next < count
  <2>1. CASE next = count
    <3>1. new = Silent
      BY <2>1
    <3>. QED BY <1>3, <2>1, <3>1 DEF Silent
  <2>2. CASE next # count
    <3>1. new = [id |-> id, next |-> next + 1, whole |-> onAir[s].whole /\ whole]
      BY <2>2
    <3>2. next + 1 \in 0 .. MaxFrames /\ next < count
      BY <1>2, <1>3, <1>4, <2>2
    <3>. QED BY <1>1, <3>1, <3>2
  <2>. QED BY <2>1, <2>2
<1> HIDE DEF new
<1>7. onAir' \in [Stations -> R] /\ onAir'[s] = new /\ \A t \in Stations \ {s} : onAir'[t] = onAir[t]
  BY <1>1, <1>5, <1>6
<1>. QED BY <1>2, <1>4, <1>6, <1>7

\* That frame is new to what was used, and was on the air from then on.
LEMMA PastGrows ==
  ASSUME StationsTyped, OnAirIsSent, NEW s \in Stations, NEW whole \in BOOLEAN, Goes(s, whole)
  PROVE  /\ Past \subseteq Past' /\ \A t \in Stations : Own[t] \subseteq Own'[t]
         /\ <<onAir[s].id, onAir[s].next>> \in Ids \X (0 .. MaxFrames)
         /\ <<onAir[s].id, onAir[s].next>> \notin Past
         /\ <<onAir[s].id, onAir[s].next>> \in Past'
         /\ <<onAir[s].id, onAir[s].next>> \in Own'[s]
<1> DEFINE id == onAir[s].id
           next == onAir[s].next
           q == <<id, next>>
<1>1. /\ \A t \in Stations \ {s} : onAir'[t] = onAir[t]
      /\ \/ onAir'[s].id = 0
         \/ onAir'[s].id = id /\ onAir'[s].next = next + 1
      /\ id \in DOMAIN sent /\ id # 0 /\ next \in 0 .. MaxFrames /\ sent[id].from = s
  BY GoesOn
<1>2. sent' = sent /\ DOMAIN sent \subseteq Ids /\ \A k \in DOMAIN sent : sent[k].from \in Stations
  BY SentIs DEF Goes
<1>3. MaxFrames \in Nat /\ \A k \in Ids : k # 0
  BY AssemblyAssumption DEF AssemblyAssumption, Ids
<1>4. ASSUME NEW p \in Past PROVE p \in Past'
  <2>1. /\ p \in Ids \X (0 .. MaxFrames) /\ p[1] \in DOMAIN sent /\ p[2] \in Nat /\ p[1] # 0
        /\ onAir[sent[p[1]].from].id = p[1] => p[2] < onAir[sent[p[1]].from].next
    BY <1>3 DEF Past
  <2>2. onAir'[sent[p[1]].from].id = p[1] => p[2] < onAir'[sent[p[1]].from].next
    <3>1. CASE sent[p[1]].from = s
      BY <1>1, <2>1, <3>1
    <3>2. CASE sent[p[1]].from # s
      BY <1>1, <1>2, <2>1, <3>2
    <3>. QED BY <3>1, <3>2
  <2>. QED BY <1>2, <2>1, <2>2 DEF Past
<1>5. q \in Ids \X (0 .. MaxFrames) /\ q[1] = id /\ q[2] = next
  BY <1>1, <1>2
<1>6. q \notin Past
  BY <1>1, <1>5 DEF Past
<1>7. q \in Past'
  BY <1>1, <1>2, <1>5 DEF Past
<1>8. \A t \in Stations : Own[t] = {p \in Past : sent[p[1]].from = t}
                          /\ Own'[t] = {p \in Past' : sent'[p[1]].from = t}
  BY DEF Own
<1>9. Past \subseteq Past'
  BY <1>4
<1>10. ASSUME NEW t \in Stations PROVE Own[t] \subseteq Own'[t]
  BY <1>2, <1>8, <1>9
<1>11. q \in Own'[s]
  BY <1>1, <1>2, <1>5, <1>7, <1>8
<1>. QED BY <1>5, <1>6, <1>7, <1>9, <1>10, <1>11

\* A frame of s is on the air.
LEMMA GoesKeepsStations ==
  ASSUME StationsTyped, OnAirIsSent, NEW s \in Stations, NEW whole \in BOOLEAN, Goes(s, whole),
         lost' \in 0 .. MaxLost
  PROVE  StationsTyped' /\ OnAirIsSent'
<1>1. sent' = sent /\ turn' = turn \union {s}
  BY DEF Goes
<1>2. StationsTyped'
  BY <1>1, GoesOn DEF StationsTyped
<1>3. OnAirIsSent'
  <2>1. SUFFICES ASSUME NEW t \in Stations, onAir'[t].id # 0
                 PROVE  /\ onAir'[t].id \in DOMAIN sent /\ sent[onAir'[t].id].from = t
                        /\ onAir'[t].next <= sent[onAir'[t].id].count
    BY <1>1 DEF OnAirIsSent
  <2>2. CASE t # s
    <3>1. onAir'[t] = onAir[t]
      BY <2>2, GoesOn
    <3>. QED BY <2>1, <3>1 DEF OnAirIsSent
  <2>3. CASE t = s
    <3>1. /\ onAir'[s].id = onAir[s].id /\ onAir'[s].next = onAir[s].next + 1
          /\ onAir[s].next < sent[onAir[s].id].count
          /\ onAir[s].id \in DOMAIN sent /\ sent[onAir[s].id].from = s
          /\ onAir[s].next \in 0 .. MaxFrames
      BY <2>1, <2>3, GoesOn
    <3>2. sent[onAir[s].id].count \in 0 .. MaxFrames /\ MaxFrames \in Nat
      BY <3>1, SentIs, AssemblyAssumption DEF Transmissions, AssemblyAssumption
    <3>. QED BY <2>3, <3>1, <3>2
  <2>. QED BY <2>2, <2>3
<1>. QED BY <1>2, <1>3

LEMMA ArrivesKeepsIInv ==
  ASSUME IInv, NEW s \in Stations, Arrives(s)
  PROVE  IInv'
<1>1. StationsTyped /\ OnAirIsSent /\ Goes(s, TRUE) /\ lost' = lost /\ lost \in 0 .. MaxLost
  BY DEF IInv, Arrives, StationsTyped
<1>2. StationsTyped' /\ OnAirIsSent'
  BY <1>1, GoesKeepsStations
<1>3. PICK freq \in Freqs[s] : Decoded(Frame(s, freq))
  BY DEF Arrives
<1> DEFINE f == Frame(s, freq)
<1>4. /\ f.id = onAir[s].id /\ f.index = onAir[s].next /\ f.from = s /\ f.freq = freq
      /\ f.inline = (onAir[s].next = 0 /\ sent[onAir[s].id].inline)
  BY DEF Frame
<1>5. Decoded(f)
  BY <1>3
<1> HIDE DEF f
<1>6. Advances(f, Past, Own, Past', Own')
  <2>1. f.inline \in BOOLEAN /\ (f.inline => f.index = 0)
    BY <1>4
  <2>. QED BY <1>1, <1>4, <2>1, PastGrows DEF Advances
<1>7. Good(msgBuffers', delivered', MsgTolerance, Past', Own')
  BY <1>5, <1>6, MsgKeepsGood DEF IInv, Decoded
<1>8. Good(relayBuffers', relayed', RelayTolerance, Past', Own')
  BY <1>5, <1>6, RelayKeepsGood DEF IInv, Decoded
<1>. QED BY <1>2, <1>7, <1>8 DEF IInv

\* What the stations do without the service.
LEMMA ServiceStaysGood ==
  ASSUME IInv, UNCHANGED serviceVars,
         Past \subseteq Past', \A t \in Stations : Own[t] \subseteq Own'[t]
  PROVE  /\ Good(msgBuffers', delivered', MsgTolerance, Past', Own')
         /\ Good(relayBuffers', relayed', RelayTolerance, Past', Own')
<1>1. /\ msgBuffers' = msgBuffers /\ relayBuffers' = relayBuffers
      /\ delivered' = delivered /\ relayed' = relayed
  BY DEF serviceVars
<1>2. /\ Good(msgBuffers, delivered, MsgTolerance, Past, Own)
      /\ Good(relayBuffers, relayed, RelayTolerance, Past, Own)
  BY DEF IInv
<1>3. /\ Good(msgBuffers, delivered, MsgTolerance, Past', Own')
      /\ Good(relayBuffers, relayed, RelayTolerance, Past', Own')
  BY <1>2, LaterIsGood
<1>. QED BY <1>1, <1>3

LEMMA GetsLostKeepsIInv ==
  ASSUME IInv, NEW s \in Stations, GetsLost(s)
  PROVE  IInv'
<1>1. StationsTyped /\ OnAirIsSent /\ Goes(s, FALSE) /\ UNCHANGED serviceVars
  BY DEF IInv, GetsLost
<1>2. lost' \in 0 .. MaxLost
  BY AssemblyAssumption DEF IInv, GetsLost, StationsTyped, AssemblyAssumption
<1>3. StationsTyped' /\ OnAirIsSent'
  BY <1>1, <1>2, GoesKeepsStations
<1>4. Past \subseteq Past' /\ \A t \in Stations : Own[t] \subseteq Own'[t]
  BY <1>1, PastGrows
<1>. QED BY <1>1, <1>3, <1>4, ServiceStaysGood DEF IInv

LEMMA BeginKeepsIInv ==
  ASSUME IInv, NEW s \in Stations, NEW kind \in {"msg", "relay", "text"}, NEW inline \in BOOLEAN,
         NEW count \in 0 .. MaxFrames, Begin(s, kind, inline, count)
  PROVE  IInv'
<1> DEFINE L == Len(sent)
           new == [from |-> s, kind |-> kind, inline |-> inline, count |-> count]
           next == IF kind = "text" THEN 1 ELSE 0
           air == [id |-> L + 1, whole |-> TRUE, next |-> next]
<1>1. StationsTyped /\ OnAirIsSent
  BY DEF IInv
<1>2. /\ sent \in Seq(Transmissions) /\ L \in Nat /\ L < MaxSends /\ DOMAIN sent = 1 .. L
      /\ DOMAIN sent \subseteq Ids /\ \A id \in DOMAIN sent : sent[id].from \in Stations
      /\ MaxSends \in Nat /\ MaxFrames \in Nat \ {0}
  BY <1>1, SentIs, AssemblyAssumption DEF StationsTyped, Begin, AssemblyAssumption
<1>3. new \in Transmissions
  BY DEF Transmissions
<1>4. /\ sent' = Append(sent, new)
      /\ onAir' = [onAir EXCEPT ![s] = [id |-> Len(sent'), whole |-> TRUE, next |-> next]]
  BY DEF Begin
<1> HIDE DEF new
<1>5. /\ sent' \in Seq(Transmissions) /\ Len(sent') = L + 1
      /\ \A k \in 1 .. L : sent'[k] = sent[k]
      /\ sent'[L + 1] = new
  BY <1>2, <1>3, <1>4, AppendProperties
<1>6. DOMAIN sent' = 1 .. L + 1
  BY <1>5, LenProperties
<1>7. next \in 0 .. MaxFrames /\ next <= count
  <2>1. kind = "text" => count > 0
    BY DEF Begin
  <2>. QED BY <1>2, <2>1
<1>8. onAir' = [onAir EXCEPT ![s] = air]
  BY <1>4, <1>5
<1>9. air \in [id : 0 .. MaxSends, next : 0 .. MaxFrames, whole : BOOLEAN]
  BY <1>2, <1>7
<1> HIDE DEF next
<1>10. /\ onAir' \in [Stations -> [id : 0 .. MaxSends, next : 0 .. MaxFrames, whole : BOOLEAN]]
       /\ onAir'[s].id = L + 1 /\ onAir'[s].next = next
       /\ \A t \in Stations \ {s} : onAir'[t] = onAir[t]
  BY <1>1, <1>8, <1>9 DEF StationsTyped
<1>11. UNCHANGED serviceVars /\ turn' = turn /\ lost' = lost
  BY DEF Begin
<1>12. StationsTyped'
  BY <1>1, <1>2, <1>5, <1>10, <1>11 DEF StationsTyped
<1>13. OnAirIsSent'
  <2>1. SUFFICES ASSUME NEW t \in Stations, onAir'[t].id # 0
                 PROVE  /\ onAir'[t].id \in DOMAIN sent' /\ sent'[onAir'[t].id].from = t
                        /\ onAir'[t].next <= sent'[onAir'[t].id].count
    BY DEF OnAirIsSent
  <2>2. CASE t = s
    <3>1. new.from = s /\ new.count = count
      BY DEF new
    <3>. QED BY <1>2, <1>5, <1>6, <1>7, <1>10, <2>2, <3>1
  <2>3. CASE t # s
    <3>1. /\ onAir'[t] = onAir[t] /\ onAir[t].id \in DOMAIN sent /\ sent[onAir[t].id].from = t
          /\ onAir[t].next <= sent[onAir[t].id].count
      BY <1>1, <1>10, <2>1, <2>3 DEF OnAirIsSent
    <3>. QED BY <1>2, <1>5, <1>6, <3>1
  <2>. QED BY <2>2, <2>3
<1>14. ASSUME NEW p \in Past PROVE p \in Past' /\ sent'[p[1]] = sent[p[1]]
  <2>1. /\ p \in Ids \X (0 .. MaxFrames) /\ p[1] \in 1 .. L
        /\ onAir[sent[p[1]].from].id = p[1] => p[2] < onAir[sent[p[1]].from].next
    BY <1>2 DEF Past
  <2>2. sent'[p[1]] = sent[p[1]] /\ p[1] \in DOMAIN sent' /\ p[1] # L + 1
        /\ sent[p[1]].from \in Stations
    BY <1>2, <1>5, <1>6, <2>1
  <2>3. onAir'[sent[p[1]].from].id = p[1] => p[2] < onAir'[sent[p[1]].from].next
    BY <1>10, <2>1, <2>2
  <2>. QED BY <2>1, <2>2, <2>3 DEF Past
<1>15. \A t \in Stations : Own[t] = {p \in Past : sent[p[1]].from = t}
                           /\ Own'[t] = {p \in Past' : sent'[p[1]].from = t}
  BY DEF Own
<1>16. Past \subseteq Past' /\ \A t \in Stations : Own[t] \subseteq Own'[t]
  BY <1>14, <1>15
<1>. QED BY <1>11, <1>12, <1>13, <1>16, ServiceStaysGood DEF IInv

LEMMA OlderIsGood ==
  ASSUME NEW b, NEW texts, NEW tolerance, NEW past, NEW own,
         Good(b, texts, tolerance, past, own)
  PROVE  Good(Older(b), texts, tolerance, past, own)
<1>1. Older(b) \in Buffers /\ SomeOf(Older(b), b, DOMAIN b)
  BY OlderIsSome DEF Good
<1>. QED BY <1>1, SomeAreGood

LEMMA SamePast ==
  ASSUME sent' = sent, onAir' = onAir
  PROVE  Past' = Past /\ Own' = Own
BY DEF Past, Own

LEMMA NextCycleKeepsIInv ==
  ASSUME IInv, NextCycle
  PROVE  IInv'
<1>1. /\ sent' = sent /\ onAir' = onAir /\ turn' = {} /\ lost' = lost
      /\ delivered' = delivered /\ relayed' = relayed
      /\ msgBuffers' = Older(msgBuffers) /\ relayBuffers' = Older(relayBuffers)
  BY DEF NextCycle
<1>2. Past' = Past /\ Own' = Own
  BY <1>1, SamePast
<1>3. StationsTyped' /\ OnAirIsSent'
  BY <1>1 DEF IInv, StationsTyped, OnAirIsSent
<1>4. /\ Good(Older(msgBuffers), delivered, MsgTolerance, Past, Own)
      /\ Good(Older(relayBuffers), relayed, RelayTolerance, Past, Own)
  BY OlderIsGood DEF IInv
<1>. QED BY <1>1, <1>2, <1>3, <1>4 DEF IInv

LEMMA InitIInv ==
  ASSUME Init
  PROVE  IInv
<1>1. /\ msgBuffers = <<>> /\ relayBuffers = <<>> /\ delivered = <<>> /\ relayed = <<>>
      /\ sent = <<>> /\ onAir = [s \in Stations |-> Silent] /\ turn = {} /\ lost = 0
  BY DEF Init
<1>2. MaxFrames \in Nat /\ MaxSends \in Nat /\ MaxLost \in Nat
  BY AssemblyAssumption DEF AssemblyAssumption
<1>3. StationsTyped
  BY <1>1, <1>2 DEF StationsTyped, Silent
<1>4. OnAirIsSent
  BY <1>1 DEF OnAirIsSent, Silent
<1>5. \A tolerance : Good(<<>>, <<>>, tolerance, Past, Own)
  BY DEF Good, UniqueKeys, UsedOnce, Apart, Buffers, Texts
<1>. QED BY <1>1, <1>3, <1>4, <1>5 DEF IInv

LEMMA NextKeepsIInv ==
  ASSUME IInv, [Next]_vars
  PROVE  IInv'
<1>1. CASE Next
  BY <1>1, BeginKeepsIInv, ArrivesKeepsIInv, GetsLostKeepsIInv, NextCycleKeepsIInv DEF Next
<1>2. CASE UNCHANGED vars
  <2>1. /\ UNCHANGED serviceVars /\ sent' = sent /\ onAir' = onAir /\ turn' = turn /\ lost' = lost
    BY <1>2 DEF vars
  <2>2. Past' = Past /\ Own' = Own
    BY <2>1, SamePast
  <2>3. StationsTyped' /\ OnAirIsSent'
    BY <2>1 DEF IInv, StationsTyped, OnAirIsSent
  <2>. QED BY <2>1, <2>2, <2>3, ServiceStaysGood DEF IInv
<1>. QED BY <1>1, <1>2

LEMMA Invariance == Spec => []IInv
<1>1. Init => IInv
  BY InitIInv
<1>2. IInv /\ [Next]_vars => IInv'
  BY NextKeepsIInv
<1>. QED BY <1>1, <1>2, PTL DEF Spec

-----------------------------------------------------------------------------
(* A transmission that is received whole.                                  *)

\* The text of a transmission up to data frame n.
Start(id, n) == (IF sent[id].inline THEN <<<<id, 0>>>> ELSE <<>>) \o [k \in 1 .. n |-> <<id, k>>]

\* At the frequencies of s there is one buffer at most.
Sole(b, s) == \A i, j \in DOMAIN b : b[i].key \in Freqs[s] /\ b[j].key \in Freqs[s] => i = j

\* s is in the middle of a transmission, no frame of which was lost.
Midway(s, kind) ==
  /\ onAir[s].id # 0 /\ onAir[s].whole /\ onAir[s].next # 0
  /\ sent[onAir[s].id].kind = kind

\* What s has sent of it, and how old its buffer may be: it lasts another cycle.
SoFar(s) == Start(onAir[s].id, onAir[s].next - 1)
Since(s) == IF s \in turn THEN 0 ELSE 1

Holding(x, s, text, age) ==
  x.key \in Freqs[s] /\ x.from = s /\ x.parts = text /\ x.age <= age

Kept(b, tolerance, kind) ==
  \A s \in Stations : Alone(s, tolerance) =>
    /\ Sole(b, s)
    /\ Midway(s, kind) => \E i \in DOMAIN b : Holding(b[i], s, SoFar(s), Since(s))

WholeInv ==
  /\ IInv
  /\ Kept(msgBuffers, MsgTolerance, "msg") /\ Kept(relayBuffers, RelayTolerance, "relay")

\* What is left of the buffers leaves no second one at these frequencies.
LEMMA SomeAreSole ==
  ASSUME NEW old, NEW new, NEW s, Sole(old, s), SomeOf(new, old, DOMAIN old)
  PROVE  Sole(new, s)
BY DEF SomeOf, Sole

\* For a station that is alone, the buffers that are near are those at its frequencies.
LEMMA NearIsAt ==
  ASSUME NEW b \in Buffers, NEW s \in Stations, NEW tolerance \in Nat, Alone(s, tolerance),
         NEW freq \in Freqs[s], NEW i \in DOMAIN b
  PROVE  Abs(b[i].key - freq) <= tolerance <=> b[i].key \in Freqs[s]
<1>1. /\ b[i] \in BufferSet /\ b[i].key \in Nat /\ freq \in Nat
  BY BuffersAre, FrameFreq
<1>2. ASSUME Abs(b[i].key - freq) <= tolerance PROVE b[i].key \in Freqs[s]
  <2>1. PICK t \in Stations : b[i].key \in Freqs[t]
    BY <1>1 DEF BufferSet
  <2>2. Abs(freq - b[i].key) <= tolerance
    BY <1>1, <1>2, AbsOfDifference
  <2>3. t = s
    BY <2>1, <2>2, NearIsOwn
  <2>. QED BY <2>1, <2>3
<1>3. b[i].key \in Freqs[s] => Abs(b[i].key - freq) <= tolerance
  BY DEF Alone
<1>. QED BY <1>2, <1>3

\* So its own frames find its buffer, ...
LEMMA MatchIsAt ==
  ASSUME NEW b \in Buffers, NEW s \in Stations, NEW tolerance \in Nat, Alone(s, tolerance),
         NEW freq \in Freqs[s]
  PROVE  LET m == Match(b, freq, tolerance) IN
         /\ m = 0 \/ (m \in DOMAIN b /\ b[m].key \in Freqs[s])
         /\ m = 0 => \A i \in DOMAIN b : b[i].key \notin Freqs[s]
         /\ Sole(b, s) => \A i \in DOMAIN b : b[i].key \in Freqs[s] => m = i
<1> DEFINE m == Match(b, freq, tolerance)
<1>1. /\ m = 0 \/ (m \in DOMAIN b /\ Abs(b[m].key - freq) <= tolerance)
      /\ m = 0 => \A j \in DOMAIN b : ~(Abs(b[j].key - freq) <= tolerance)
  BY FrameFreq, MatchIsNear
<1> HIDE DEF m
<1>2. /\ m = 0 \/ (m \in DOMAIN b /\ b[m].key \in Freqs[s])
      /\ m = 0 => \A i \in DOMAIN b : b[i].key \notin Freqs[s]
  BY <1>1, NearIsAt
<1>3. Sole(b, s) => \A i \in DOMAIN b : b[i].key \in Freqs[s] => m = i
  BY <1>2 DEF Sole
<1>. QED BY <1>2, <1>3 DEF m

\* ... and those of another station do not.
LEMMA MatchIsElsewhere ==
  ASSUME NEW b \in Buffers, NEW s \in Stations, NEW tolerance \in Nat, Alone(s, tolerance),
         NEW t \in Stations \ {s}, NEW freq \in Freqs[t]
  PROVE  LET m == Match(b, freq, tolerance) IN
         /\ freq \notin Freqs[s]
         /\ m = 0 \/ (m \in DOMAIN b /\ b[m].key \notin Freqs[s])
<1> DEFINE m == Match(b, freq, tolerance)
<1>1. m = 0 \/ (m \in DOMAIN b /\ Abs(b[m].key - freq) <= tolerance)
  BY FrameFreq, MatchIsNear
<1> HIDE DEF m
<1>2. \A key \in Freqs[s] : ~(Abs(key - freq) <= tolerance)
  BY NearIsOwn
<1>3. freq \notin Freqs[s]
  <2>1. freq \in Nat
    BY FrameFreq
  <2>2. Abs(freq - freq) <= tolerance
    BY <2>1, AbsOfDifference
  <2>. QED BY <1>2, <2>2
<1>. QED BY <1>1, <1>2, <1>3 DEF m

-----------------------------------------------------------------------------
(* A frame and the buffers at the frequencies of s, before and after it.   *)

\* A command frame that begins a buffer.
LEMMA OpenedIs ==
  ASSUME NEW b \in Buffers, NEW tolerance \in Nat, NEW f,
         f.from \in Stations, f.freq \in Freqs[f.from],
         NEW m, m = Match(b, f.freq, tolerance)
  PROVE  LET new == Opened(b, f, tolerance)
             c == IF m = 0 THEN Len(b) + 1 ELSE m
             key == IF m = 0 THEN f.freq ELSE b[m].key
         IN /\ DOMAIN new = DOMAIN b \union {c} /\ c \in DOMAIN new
            /\ m = 0 => c \notin DOMAIN b
            /\ new[c] = Begun(f, key)
            /\ \A i \in DOMAIN b \ {m} : new[i] = b[i]
<1> DEFINE new == Opened(b, f, tolerance)
           L == Len(b)
<1>1. /\ b \in Seq(BufferSet) /\ L \in Nat /\ DOMAIN b = 1 .. L
  BY BuffersAre
<1>2. m = 0 \/ m \in DOMAIN b
  BY FrameFreq, MatchIsNear
<1>3. new = IF m = 0 THEN Append(b, Begun(f, f.freq))
                     ELSE [b EXCEPT ![m] = Begun(f, b[m].key)]
  BY DEF Opened, ReplaceAt
<1> HIDE DEF new, L
<1>4. CASE m = 0
  <2>1. /\ DOMAIN new = 1 .. L + 1 /\ new[L + 1] = Begun(f, f.freq)
        /\ \A i \in 1 .. L : new[i] = b[i]
    BY <1>1, <1>3, <1>4 DEF L
  <2>2. DOMAIN new = DOMAIN b \union {L + 1} /\ L + 1 \notin DOMAIN b
    BY <1>1, <2>1
  <2>. QED BY <1>1, <1>4, <2>1, <2>2 DEF new, L
<1>5. CASE m # 0
  <2>1. m \in DOMAIN b /\ new = [b EXCEPT ![m] = Begun(f, b[m].key)]
    BY <1>2, <1>3, <1>5
  <2>2. DOMAIN new = DOMAIN b /\ new[m] = Begun(f, b[m].key)
        /\ \A i \in DOMAIN b \ {m} : new[i] = b[i]
    BY <2>1
  <2>. QED BY <1>5, <2>1, <2>2 DEF new
<1>. QED BY <1>4, <1>5

LEMMA BegunHas ==
  ASSUME NEW f, NEW key
  PROVE  /\ Begun(f, key).key = key /\ Begun(f, key).from = f.from /\ Begun(f, key).age = 0
         /\ Begun(f, key).inline = f.inline
         /\ Begun(f, key).parts = IF f.inline THEN <<<<f.id, 0>>>> ELSE <<>>
BY DEF Begun

LEMMA OpenedIsSole ==
  ASSUME NEW b \in Buffers, NEW s \in Stations, NEW tolerance \in Nat, Alone(s, tolerance),
         Sole(b, s), NEW f, f.from \in Stations, f.freq \in Freqs[f.from]
  PROVE  Sole(Opened(b, f, tolerance), s)
<1> DEFINE m == Match(b, f.freq, tolerance)
           new == Opened(b, f, tolerance)
           c == IF m = 0 THEN Len(b) + 1 ELSE m
           key == IF m = 0 THEN f.freq ELSE b[m].key
<1>1. /\ DOMAIN new = DOMAIN b \union {c}
      /\ m = 0 => c \notin DOMAIN b
      /\ new[c] = Begun(f, key)
      /\ \A i \in DOMAIN b \ {m} : new[i] = b[i]
  BY OpenedIs
<1>2. m # 0 => m \in DOMAIN b
  BY MatchIsNear, FrameFreq
<1>3. m = 0 /\ f.freq \in Freqs[s] => \A i \in DOMAIN b : b[i].key \notin Freqs[s]
  <2>1. f.from = s => \A freq \in Freqs[s] : freq = f.freq /\ m = 0 =>
          \A i \in DOMAIN b : b[i].key \notin Freqs[s]
    BY MatchIsAt
  <2>2. f.from # s => f.freq \notin Freqs[s]
    BY MatchIsElsewhere
  <2>. QED BY <2>1, <2>2
<1> HIDE DEF m, new
<1>4. new[c].key = key
  <2>1. \A k : Begun(f, k).key = k
    BY BegunHas
  <2> HIDE DEF c, key
  <2>. QED BY <1>1, <2>1
<1>5. CASE m = 0
  <2>1. \A i \in DOMAIN new : i = c \/ (i \in DOMAIN b /\ new[i] = b[i])
    BY <1>1, <1>2, <1>5, BuffersAre
  <2>2. key = f.freq
    BY <1>5
  <2> HIDE DEF c, key
  <2>. QED BY <1>3, <1>4, <1>5, <2>1, <2>2 DEF Sole, new
<1>6. CASE m # 0
  <2>1. c = m /\ key = b[m].key /\ m \in DOMAIN b
    BY <1>2, <1>6
  <2> HIDE DEF c, key
  <2>2. \A i \in DOMAIN new : i \in DOMAIN b /\ new[i].key = b[i].key
    BY <1>1, <1>4, <2>1
  <2>. QED BY <2>2 DEF Sole, new
<1>. QED BY <1>5, <1>6

\* A data frame goes to one buffer and makes it new.
LEMMA ContinuedIs ==
  ASSUME NEW b \in Buffers, NEW f, NEW i \in DOMAIN b
  PROVE  LET new == Continued(b, f, i) IN
         /\ DOMAIN new = DOMAIN b
         /\ new[i].key = b[i].key /\ new[i].from = b[i].from /\ new[i].age = 0
         /\ new[i].parts = Append(b[i].parts, <<f.id, f.index>>)
         /\ \A k \in DOMAIN b \ {i} : new[k] = b[k]
<1> DEFINE item == [b[i] EXCEPT !.parts = Append(@, <<f.id, f.index>>), !.age = 0]
           new == Continued(b, f, i)
<1>1. b[i] \in BufferSet
  BY BuffersAre
<1>2. /\ item.key = b[i].key /\ item.from = b[i].from /\ item.age = 0
      /\ item.parts = Append(b[i].parts, <<f.id, f.index>>)
  BY <1>1 DEF BufferSet
<1>3. new = [b EXCEPT ![i] = item]
  BY DEF Continued, ReplaceAt
<1> HIDE DEF item
<1>4. DOMAIN new = DOMAIN b /\ new[i] = item /\ \A k \in DOMAIN b \ {i} : new[k] = b[k]
  BY <1>3
<1>. QED BY <1>2, <1>4

\* What a handler makes of its buffers when it receives f.
Handled(new, b, f, tolerance) ==
  LET m == Match(b, f.freq, tolerance)
      opened == Opened(b, f, tolerance)
  IN \/ new = b
     \/ new = opened \/ new = Closed(opened, Match(opened, f.freq, tolerance))
     \/ m # 0 /\ (new = Continued(b, f, m) \/ new = Closed(b, m))

\* A frame of a station, received with these buffers: the types of all that.
Received(b, f, tolerance) ==
  /\ f.from \in Stations /\ f.freq \in Freqs[f.from] /\ f.freq \in Nat
  /\ b \in Buffers /\ Opened(b, f, tolerance) \in Buffers
  /\ Match(Opened(b, f, tolerance), f.freq, tolerance) \in DOMAIN Opened(b, f, tolerance)
  /\ Match(b, f.freq, tolerance) # 0 => Match(b, f.freq, tolerance) \in DOMAIN b

\* The buffers that a frame finds are of their type.
LEMMA ReceivedIs ==
  ASSUME NEW b, NEW texts, NEW tolerance \in Nat, NEW past, NEW own, NEW past2, NEW own2,
         Good(b, texts, tolerance, past, own),
         NEW f, Advances(f, past, own, past2, own2)
  PROVE  Received(b, f, tolerance)
<1>1. f.from \in Stations /\ f.freq \in Freqs[f.from] /\ f.freq \in Nat
  BY FrameFreq DEF Advances
<1>2. b \in Buffers
  BY DEF Good
<1>3. Opened(b, f, tolerance) \in Buffers
      /\ Match(Opened(b, f, tolerance), f.freq, tolerance) \in DOMAIN Opened(b, f, tolerance)
  BY OpenedIsGood DEF Good
<1>4. Match(b, f.freq, tolerance) # 0 => Match(b, f.freq, tolerance) \in DOMAIN b
  BY <1>1, <1>2, MatchIsNear
<1>. QED BY <1>1, <1>2, <1>3, <1>4 DEF Received

LEMMA HandledIsSole ==
  ASSUME NEW b, NEW tolerance \in Nat, NEW f, Received(b, f, tolerance),
         NEW new, Handled(new, b, f, tolerance),
         NEW s \in Stations, Alone(s, tolerance), Sole(b, s)
  PROVE  Sole(new, s)
<1> DEFINE m == Match(b, f.freq, tolerance)
           opened == Opened(b, f, tolerance)
           n == Match(opened, f.freq, tolerance)
<1>1. /\ f.from \in Stations /\ f.freq \in Freqs[f.from]
      /\ b \in Buffers /\ opened \in Buffers /\ n \in DOMAIN opened
      /\ m # 0 => m \in DOMAIN b
  BY DEF Received
<1>2. \/ new = b \/ new = opened \/ new = Closed(opened, n)
      \/ m # 0 /\ (new = Continued(b, f, m) \/ new = Closed(b, m))
  BY DEF Handled
<1>3. Sole(opened, s)
  BY <1>1, OpenedIsSole
<1> HIDE DEF m, opened, n
<1>4. \A x \in Buffers : \A i \in DOMAIN x : Sole(x, s) => Sole(Closed(x, i), s)
  BY ClosedIsSome, SomeOfMore, SomeAreSole
<1>5. m # 0 => Sole(Continued(b, f, m), s)
  <2>1. m # 0 => /\ DOMAIN Continued(b, f, m) = DOMAIN b
                 /\ \A k \in DOMAIN b : Continued(b, f, m)[k].key = b[k].key
    BY <1>1, ContinuedIs
  <2>. QED BY <2>1 DEF Sole
<1>. QED BY <1>1, <1>2, <1>3, <1>4, <1>5

\* A frame of another station leaves the buffer of s as it is.
LEMMA HandledElsewhere ==
  ASSUME NEW b, NEW tolerance \in Nat, NEW f, Received(b, f, tolerance),
         NEW new, Handled(new, b, f, tolerance),
         NEW s \in Stations, Alone(s, tolerance), f.from # s, Sole(b, s),
         NEW i \in DOMAIN b, b[i].key \in Freqs[s]
  PROVE  Has(new, b[i])
<1> DEFINE m == Match(b, f.freq, tolerance)
           opened == Opened(b, f, tolerance)
           n == Match(opened, f.freq, tolerance)
<1>1. /\ f.from \in Stations \ {s} /\ f.freq \in Freqs[f.from]
      /\ b \in Buffers /\ opened \in Buffers /\ n \in DOMAIN opened
      /\ m # 0 => m \in DOMAIN b
  BY DEF Received
<1>2. \/ new = b \/ new = opened \/ new = Closed(opened, n)
      \/ m # 0 /\ (new = Continued(b, f, m) \/ new = Closed(b, m))
  BY DEF Handled
<1>3. m # i
  <2>1. m = 0 \/ (m \in DOMAIN b /\ b[m].key \notin Freqs[s])
    BY <1>1, MatchIsElsewhere
  <2>2. i \in Nat \ {0}
    BY <1>1, BuffersAre
  <2>. QED BY <2>1, <2>2
<1>4. i \in DOMAIN opened /\ opened[i] = b[i]
  <2> DEFINE c == IF m = 0 THEN Len(b) + 1 ELSE m
  <2>1. /\ \A k \in DOMAIN b \ {m} : opened[k] = b[k]
        /\ DOMAIN opened = DOMAIN b \union {c}
    BY <1>1, OpenedIs
  <2> HIDE DEF c, opened, m
  <2>. QED BY <1>3, <2>1
<1>5. n # i
  <2>1. n = 0 \/ (n \in DOMAIN opened /\ opened[n].key \notin Freqs[s])
    BY <1>1, MatchIsElsewhere
  <2>2. i \in Nat \ {0}
    BY <1>1, BuffersAre
  <2>. QED BY <1>4, <2>1, <2>2
<1> HIDE DEF m, opened, n
<1>6. Has(b, b[i]) /\ Has(opened, b[i])
  BY <1>4 DEF Has
<1>7. Has(Closed(opened, n), b[i])
  BY <1>1, <1>4, <1>5, ClosedIsSome
<1>8. m # 0 => Has(Closed(b, m), b[i])
  BY <1>1, <1>3, ClosedIsSome
<1>9. m # 0 => Has(Continued(b, f, m), b[i])
  <2>1. m # 0 => i \in DOMAIN Continued(b, f, m) /\ Continued(b, f, m)[i] = b[i]
    BY <1>1, <1>3, ContinuedIs
  <2>. QED BY <2>1 DEF Has
<1>. QED BY <1>2, <1>6, <1>7, <1>8, <1>9

\* Its own command frame begins it, ...
LEMMA OpenedHolds ==
  ASSUME NEW b \in Buffers, NEW s \in Stations, NEW tolerance \in Nat, Alone(s, tolerance),
         Sole(b, s), NEW f, Received(b, f, tolerance), f.from = s
  PROVE  LET new == Opened(b, f, tolerance)
             c == Match(new, f.freq, tolerance)
         IN /\ c \in DOMAIN new /\ new[c].key \in Freqs[s] /\ new[c].from = s
            /\ new[c].age = 0 /\ new[c].inline = f.inline
            /\ new[c].parts = IF f.inline THEN <<<<f.id, 0>>>> ELSE <<>>
<1> DEFINE m == Match(b, f.freq, tolerance)
           new == Opened(b, f, tolerance)
           c == IF m = 0 THEN Len(b) + 1 ELSE m
           key == IF m = 0 THEN f.freq ELSE b[m].key
<1>0. f.freq \in Freqs[s] /\ s \in Stations /\ new \in Buffers
  BY DEF Received
<1>1. c \in DOMAIN new /\ new[c] = Begun(f, key)
  BY <1>0, OpenedIs
<1>2. key \in Freqs[s]
  BY <1>0, MatchIsAt
<1>3. Sole(new, s)
  BY <1>0, OpenedIsSole
<1> HIDE DEF m, c, key
<1>4. \A k : /\ Begun(f, k).key = k /\ Begun(f, k).from = s /\ Begun(f, k).age = 0
             /\ Begun(f, k).inline = f.inline
             /\ Begun(f, k).parts = IF f.inline THEN <<<<f.id, 0>>>> ELSE <<>>
  BY BegunHas
<1>5. new[c].key \in Freqs[s]
  BY <1>1, <1>2, <1>4
<1>6. Match(new, f.freq, tolerance) = c
  BY <1>0, <1>1, <1>3, <1>5, MatchIsAt
<1> HIDE DEF new
<1>. QED BY <1>1, <1>4, <1>5, <1>6 DEF new

-----------------------------------------------------------------------------
(* The text so far.                                                        *)

LEMMA StartIs ==
  ASSUME NEW id, NEW n \in Nat \ {0}
  PROVE  /\ Start(id, 0) = IF sent[id].inline THEN <<<<id, 0>>>> ELSE <<>>
         /\ Append(Start(id, n - 1), <<id, n>>) = Start(id, n)
<1> DEFINE P == {id} \X Nat
           p == IF sent[id].inline THEN <<<<id, 0>>>> ELSE <<>>
           q(m) == [k \in 1 .. m |-> <<id, k>>]
           w == <<id, n>>
<1>1. p \in Seq(P)
  <2>1. <<id, 0>> \in P
    OBVIOUS
  <2>2. <<<<id, 0>>>> \in Seq(P)
    BY <2>1
  <2>. QED BY <2>2
<1>2. ASSUME NEW m \in Nat
      PROVE  q(m) \in Seq(P) /\ Len(q(m)) = m /\ \A k \in 1 .. m : q(m)[k] = <<id, k>>
  <2>1. q(m) \in [1 .. m -> P]
    OBVIOUS
  <2>2. q(m) \in Seq(P)
    BY <1>2, <2>1, IsASeq
  <2>. QED BY <1>2, <2>1, <2>2, LenProperties
<1>3. \A m : Start(id, m) = p \o q(m)
  BY DEF Start
<1>4. q(0) = <<>>
  BY <1>2, EmptySeq
<1>5. n \in Nat /\ n - 1 \in Nat /\ w \in P
  OBVIOUS
<1>6. q(n) = Append(q(n - 1), w)
  <2>1. q(n) \in Seq(P) /\ Len(q(n)) = n /\ \A k \in 1 .. n : q(n)[k] = <<id, k>>
    BY <1>2, <1>5
  <2>2. /\ q(n - 1) \in Seq(P) /\ Len(q(n - 1)) = n - 1
        /\ \A k \in 1 .. n - 1 : q(n - 1)[k] = <<id, k>>
    BY <1>2, <1>5
  <2> DEFINE t == q(n)
             u == q(n - 1)
             r == Append(u, w)
  <2> HIDE DEF q, P, t, u
  <2>3. u \in Seq(P) /\ Len(u) = n - 1 /\ w \in P
    BY <1>5, <2>2 DEF u
  <2> HIDE DEF w
  <2>4. /\ r \in Seq(P) /\ Len(r) = Len(u) + 1
        /\ \A k \in 1 .. Len(u) : r[k] = u[k]
        /\ r[Len(u) + 1] = w
    BY <2>3, AppendProperties
  <2> HIDE DEF r
  <2>5. n - 1 + 1 = n /\ \A k \in 1 .. n : k \in 1 .. n - 1 \/ k = n
    BY <1>5
  <2>6. \A k \in 1 .. n : t[k] = r[k]
    BY <2>1, <2>2, <2>3, <2>5, <2>4 DEF t, u, w
  <2>7. t = r
    BY <2>1, <2>3, <2>5, <2>6, <2>4, SeqEqual DEF t
  <2>. QED BY <2>7 DEF t, r, u
<1> HIDE DEF p, q, w, P
<1>7. Start(id, 0) = p
  BY <1>1, <1>3, <1>4, ConcatEmptySeq
<1>8. Append(p \o q(n - 1), w) = p \o Append(q(n - 1), w)
  <2>1. q(n - 1) \in Seq(P) /\ w \in P
    BY <1>2, <1>5
  <2>. QED BY <1>1, <2>1
<1>9. Append(Start(id, n - 1), w) = Start(id, n)
  BY <1>3, <1>6, <1>8
<1>. QED BY <1>7, <1>9 DEF p, w

LEMMA PayloadIsStart ==
  ASSUME NEW id
  PROVE  Payload(id) = Start(id, sent[id].count)
BY DEF Payload, Start

-----------------------------------------------------------------------------
(* What follows for the next state.                                        *)

\* Kept, of the buffers b and the stations of the next state.
KeptAfter(b, tolerance, kind) ==
  \A s \in Stations : Alone(s, tolerance) =>
    /\ Sole(b, s)
    /\ Midway(s, kind)' => \E i \in DOMAIN b : Holding(b[i], s, SoFar(s)', Since(s)')

\* The frame of s that is on the air.
LEMMA FrameIs ==
  ASSUME NEW s, NEW freq
  PROVE  LET f == Frame(s, freq) IN
         /\ f.id = onAir[s].id /\ f.index = onAir[s].next /\ f.from = s /\ f.freq = freq
         /\ f.kind = IF onAir[s].next = 0 THEN sent[onAir[s].id].kind ELSE "data"
         /\ f.inline = (onAir[s].next = 0 /\ sent[onAir[s].id].inline)
         /\ f.last = (onAir[s].next = sent[onAir[s].id].count)
BY DEF Frame

LEMMA WholeGoesOn ==
  ASSUME StationsTyped, NEW s \in Stations, NEW whole \in BOOLEAN, Goes(s, whole), onAir'[s].id # 0
  PROVE  /\ onAir'[s].whole <=> onAir[s].whole /\ whole
         /\ onAir[s].next # sent[onAir[s].id].count
<1> DEFINE id == onAir[s].id
           new == IF onAir[s].next = sent[id].count THEN Silent
                  ELSE [id |-> id, next |-> onAir[s].next + 1, whole |-> onAir[s].whole /\ whole]
<1>1. onAir' = [onAir EXCEPT ![s] = new] /\ s \in DOMAIN onAir
  BY DEF Goes, StationsTyped
<1> HIDE DEF new
<1>2. onAir'[s] = new
  BY <1>1
<1>3. onAir[s].next # sent[id].count
  BY <1>2 DEF new, Silent
<1>4. new = [id |-> id, next |-> onAir[s].next + 1, whole |-> onAir[s].whole /\ whole]
  BY <1>3 DEF new
<1>5. onAir[s].whole \in BOOLEAN
  BY DEF StationsTyped
<1>. QED BY <1>2, <1>3, <1>4, <1>5

\* What another station does, does not change what s has sent.
LEMMA OthersStay ==
  ASSUME StationsTyped, OnAirIsSent, NEW s \in Stations, NEW kind, onAir'[s] = onAir[s],
         s \in turn' <=> s \in turn,
         \A id \in DOMAIN sent : sent'[id] = sent[id]
  PROVE  /\ SoFar(s)' = SoFar(s) \/ onAir[s].id = 0
         /\ Since(s)' = Since(s)
         /\ Midway(s, kind)' <=> Midway(s, kind)
<1>1. onAir[s].id # 0 => sent'[onAir[s].id] = sent[onAir[s].id]
  BY DEF OnAirIsSent
<1>2. Since(s)' = Since(s)
  BY DEF Since
<1>3. Midway(s, kind)' <=> Midway(s, kind)
  BY <1>1 DEF Midway
<1>4. onAir[s].id # 0 => SoFar(s)' = SoFar(s)
  BY <1>1 DEF SoFar, Start
<1>. QED BY <1>2, <1>3, <1>4

LEMMA StaysKept ==
  ASSUME StationsTyped, OnAirIsSent, NEW s \in Stations, NEW kind, onAir'[s] = onAir[s],
         s \in turn' <=> s \in turn,
         \A id \in DOMAIN sent : sent'[id] = sent[id],
         NEW b, NEW new, Midway(s, kind) => \E i \in DOMAIN b : Holding(b[i], s, SoFar(s), Since(s)),
         \A i \in DOMAIN b : b[i].key \in Freqs[s] => Has(new, b[i])
  PROVE  Midway(s, kind)' => \E i \in DOMAIN new : Holding(new[i], s, SoFar(s)', Since(s)')
<1>. SUFFICES ASSUME Midway(s, kind)'
     PROVE  \E i \in DOMAIN new : Holding(new[i], s, SoFar(s)', Since(s)')
  OBVIOUS
<1>1. Midway(s, kind) /\ onAir[s].id # 0 /\ SoFar(s)' = SoFar(s) /\ Since(s)' = Since(s)
  BY OthersStay DEF Midway
<1>2. PICK i \in DOMAIN b : Holding(b[i], s, SoFar(s), Since(s))
  BY <1>1
<1>3. PICK k \in DOMAIN new : new[k] = b[i]
  BY <1>2 DEF Holding, Has
<1>4. Holding(new[k], s, SoFar(s)', Since(s)')
  BY <1>1, <1>2, <1>3
<1>. QED BY <1>4

\* A buffer of this cycle or the last is not outdated: a timeout is a cycle or more.
LEMMA FreshIsKept ==
  ASSUME NEW b \in Buffers, NEW tolerance, NEW kind, Kept(b, tolerance, kind),
         NEW timeout \in Nat \ {0}
  PROVE  Kept(Fresh(b, timeout), tolerance, kind)
<1>. SUFFICES ASSUME NEW s \in Stations, Alone(s, tolerance)
     PROVE  /\ Sole(Fresh(b, timeout), s)
            /\ Midway(s, kind) => \E i \in DOMAIN Fresh(b, timeout) :
                 Holding(Fresh(b, timeout)[i], s, SoFar(s), Since(s))
  BY DEF Kept
<1> DEFINE new == Fresh(b, timeout)
<1>1. /\ new \in Buffers /\ SomeOf(new, b, DOMAIN b)
      /\ \A i \in DOMAIN b : b[i].age <= timeout => Has(new, b[i])
  BY FreshIsSome
<1> HIDE DEF new
<1>2. Sole(new, s)
  BY <1>1, SomeAreSole DEF Kept
<1>3. ASSUME Midway(s, kind)
      PROVE  \E i \in DOMAIN new : Holding(new[i], s, SoFar(s), Since(s))
  <2>1. PICK i \in DOMAIN b : Holding(b[i], s, SoFar(s), Since(s))
    BY <1>3 DEF Kept
  <2>2. b[i].age <= timeout
    <3>1. b[i].age <= Since(s) /\ Since(s) \in 0 .. 1
      BY <2>1 DEF Holding, Since
    <3>2. b[i].age \in Nat
      <4>1. b[i] \in BufferSet /\ Oldest \in Nat
        BY BuffersAre, AssemblyAssumption DEF AssemblyAssumption, Oldest
      <4>. QED BY <4>1 DEF BufferSet
    <3>. QED BY <3>1, <3>2
  <2>3. PICK k \in DOMAIN new : new[k] = b[i]
    BY <1>1, <2>2 DEF Has
  <2>. QED BY <2>1, <2>3
<1>. QED BY <1>2, <1>3 DEF new

-----------------------------------------------------------------------------
(* A frame is received.                                                    *)

\* What a handler makes of the frames of transmissions of its kind.
Takes(new, b, f, tolerance, kind) ==
  LET m == Match(b, f.freq, tolerance) IN
  /\ Handled(new, b, f, tolerance)
  /\ f.kind = kind /\ ~f.last => new = Opened(b, f, tolerance)
  /\ f.kind = "data" /\ ~f.last /\ m # 0 => new = Continued(b, f, m)

\* The buffers of the stations that did not send it are kept, ...
LEMMA OthersAreKept ==
  ASSUME StationsTyped, OnAirIsSent, NEW t \in Stations, Goes(t, TRUE),
         NEW b, NEW tolerance \in Nat, NEW kind, Kept(b, tolerance, kind),
         NEW f, Received(b, f, tolerance), f.from = t,
         NEW new, Handled(new, b, f, tolerance),
         NEW s \in Stations \ {t}, Alone(s, tolerance)
  PROVE  Midway(s, kind)' => \E i \in DOMAIN new : Holding(new[i], s, SoFar(s)', Since(s)')
<1>1. Sole(b, s) /\ (Midway(s, kind) => \E i \in DOMAIN b : Holding(b[i], s, SoFar(s), Since(s)))
  BY DEF Kept
<1>2. \A i \in DOMAIN b : b[i].key \in Freqs[s] => Has(new, b[i])
  BY <1>1, HandledElsewhere
<1>3. sent' = sent /\ turn' = turn \union {t} /\ onAir'[s] = onAir[s]
  BY GoesOn DEF Goes
<1>4. s \in turn' <=> s \in turn
  BY <1>3
<1>. QED BY <1>1, <1>2, <1>3, <1>4, StaysKept

\* ... and that of its sender holds one frame more.
LEMMA OwnIsKept ==
  ASSUME StationsTyped, OnAirIsSent, NEW s \in Stations, Goes(s, TRUE),
         NEW b, NEW tolerance \in Nat, NEW kind \in {"msg", "relay"}, Kept(b, tolerance, kind),
         NEW f, Received(b, f, tolerance),
         NEW freq \in Freqs[s], f = Frame(s, freq),
         NEW new, Takes(new, b, f, tolerance, kind), Alone(s, tolerance)
  PROVE  Midway(s, kind)' => \E i \in DOMAIN new : Holding(new[i], s, SoFar(s)', Since(s)')
<1> DEFINE id == onAir[s].id
           next == onAir[s].next
<1>. SUFFICES ASSUME Midway(s, kind)'
     PROVE  \E i \in DOMAIN new : Holding(new[i], s, SoFar(s)', Since(s)')
  OBVIOUS
<1>1. /\ onAir'[s].id = id /\ onAir'[s].next = next + 1 /\ next \in Nat
      /\ next # sent[id].count /\ onAir[s].whole /\ id # 0
      /\ sent' = sent /\ s \in turn' /\ sent[id].kind = kind
  <2>1. onAir'[s].id # 0 /\ onAir'[s].whole /\ sent'[onAir'[s].id].kind = kind
    BY DEF Midway
  <2>2. sent' = sent /\ s \in turn'
    BY DEF Goes
  <2>3. /\ onAir'[s].id = id /\ onAir'[s].next = next + 1
        /\ next \in 0 .. MaxFrames /\ id # 0
    BY <2>1, GoesOn
  <2>4. next # sent[id].count /\ onAir[s].whole
    BY <2>1, WholeGoesOn
  <2>. QED BY <2>1, <2>2, <2>3, <2>4
<1>2. SoFar(s)' = Start(id, next) /\ Since(s)' = 0
  <2>1. SoFar(s)' = Start(id, next + 1 - 1)
    BY <1>1 DEF SoFar, Start
  <2>. QED BY <1>1, <2>1 DEF Since
<1>3. /\ f.id = id /\ f.index = next /\ f.from = s /\ f.freq = freq
      /\ f.kind = IF next = 0 THEN sent[id].kind ELSE "data"
      /\ f.inline = (next = 0 /\ sent[id].inline)
      /\ f.last = (next = sent[id].count)
  BY FrameIs
<1>7. ~f.last /\ f.kind = IF next = 0 THEN kind ELSE "data"
  BY <1>1, <1>3
<1>4. /\ b \in Buffers /\ Sole(b, s)
      /\ Midway(s, kind) => \E i \in DOMAIN b : Holding(b[i], s, SoFar(s), Since(s))
  BY DEF Kept, Received
<1> HIDE DEF id, next
<1>5. CASE next = 0
  <2>1. new = Opened(b, f, tolerance)
    BY <1>5, <1>7 DEF Takes
  <2> DEFINE o == Opened(b, f, tolerance)
             c == Match(o, f.freq, tolerance)
  <2>2. /\ c \in DOMAIN o /\ o[c].key \in Freqs[s] /\ o[c].from = s
        /\ o[c].age = 0
        /\ o[c].parts = IF f.inline THEN <<<<f.id, 0>>>> ELSE <<>>
    <3>1. f.from = s /\ b \in Buffers /\ Sole(b, s)
      BY <1>3, <1>4
    
    <3>. QED BY <3>1, OpenedHolds
  <2>3. /\ c \in DOMAIN new /\ new[c].key \in Freqs[s] /\ new[c].from = s
        /\ new[c].age = 0
        /\ new[c].parts = IF f.inline THEN <<<<f.id, 0>>>> ELSE <<>>
    BY <2>1, <2>2
  <2> HIDE DEF c
  <2>4. Start(id, next) = IF sent[id].inline THEN <<<<id, 0>>>> ELSE <<>>
    <3>1. 1 \in Nat \ {0}
      OBVIOUS
    <3>2. Start(id, 0) = IF sent[id].inline THEN <<<<id, 0>>>> ELSE <<>>
      BY <3>1, StartIs
    <3>. QED BY <1>5, <3>2
  <2>5. new[c].parts = SoFar(s)'
    BY <1>2, <1>3, <1>5, <2>3, <2>4
  <2>6. Holding(new[c], s, SoFar(s)', Since(s)')
    BY <1>2, <2>3, <2>5 DEF Holding
  <2>. QED BY <2>3, <2>6
<1>6. CASE next # 0
  <2>1. Midway(s, kind)
    BY <1>1, <1>6 DEF Midway, id, next
  <2>2. PICK i \in DOMAIN b : Holding(b[i], s, SoFar(s), Since(s))
    BY <1>4, <2>1
  <2>3. b[i].key \in Freqs[s] /\ b[i].from = s /\ b[i].parts = Start(id, next - 1)
    BY <2>2 DEF Holding, SoFar, id, next
  <2>4. Match(b, f.freq, tolerance) = i /\ i # 0
    <3>1. Match(b, freq, tolerance) = i
      BY <1>4, <2>3, MatchIsAt
    <3>2. i # 0
      BY <1>4, BuffersAre
    <3>. QED BY <1>3, <3>1, <3>2
  <2>5. new = Continued(b, f, i)
    BY <1>6, <1>7, <2>4 DEF Takes
  <2>6. /\ DOMAIN new = DOMAIN b
        /\ new[i].key = b[i].key /\ new[i].from = b[i].from /\ new[i].age = 0
        /\ new[i].parts = Append(b[i].parts, <<f.id, f.index>>)
    BY <1>4, <2>5, ContinuedIs
  <2>7. new[i].parts = SoFar(s)'
    <3>1. Append(Start(id, next - 1), <<id, next>>) = Start(id, next)
      BY <1>1, <1>6, StartIs DEF next
    <3>. QED BY <1>2, <1>3, <2>3, <2>6, <3>1
  <2>8. Holding(new[i], s, SoFar(s)', Since(s)')
    BY <1>2, <2>3, <2>6, <2>7 DEF Holding
  <2>. QED BY <2>6, <2>8
<1>. QED BY <1>5, <1>6

LEMMA FrameKeeps ==
  ASSUME StationsTyped, OnAirIsSent, NEW t \in Stations, Goes(t, TRUE),
         NEW b, NEW tolerance \in Nat, NEW kind \in {"msg", "relay"}, Kept(b, tolerance, kind),
         NEW f, Received(b, f, tolerance),
         NEW freq \in Freqs[t], f = Frame(t, freq),
         NEW new, Takes(new, b, f, tolerance, kind)
  PROVE  KeptAfter(new, tolerance, kind)
<1>1. f.from = t
  BY FrameIs
<1>2. Handled(new, b, f, tolerance)
  BY DEF Takes
<1>3. ASSUME NEW s \in Stations, Alone(s, tolerance)
      PROVE  Sole(new, s)
  <2>1. Sole(b, s)
    BY <1>3 DEF Kept
  <2>. QED BY <1>2, <1>3, <2>1, HandledIsSole
<1>4. ASSUME NEW s \in Stations, Alone(s, tolerance), s # t
      PROVE  Midway(s, kind)' => \E i \in DOMAIN new : Holding(new[i], s, SoFar(s)', Since(s)')
  BY <1>1, <1>2, <1>4, OthersAreKept
<1>5. ASSUME Alone(t, tolerance)
      PROVE  Midway(t, kind)' => \E i \in DOMAIN new : Holding(new[i], t, SoFar(t)', Since(t)')
  BY <1>5, OwnIsKept
<1>. QED BY <1>3, <1>4, <1>5 DEF KeptAfter

LEMMA MsgTakes ==
  ASSUME NEW f, HandleIncomingMessage(f)
  PROVE  Takes(msgBuffers', CleanMsgBuffers, f, MsgTolerance, "msg")
<1> DEFINE b == CleanMsgBuffers
           o == Opened(b, f, MsgTolerance)
           m == Match(b, f.freq, MsgTolerance)
           n == Match(o, f.freq, MsgTolerance)
           Rest(new) == /\ f.kind = "msg" /\ ~f.last => new = o
                        /\ f.kind = "data" /\ ~f.last /\ m # 0 => new = Continued(b, f, m)
<1>1. CASE MsgAtOnce(f)
  <2>1. f.last /\ msgBuffers' = b
    BY <1>1 DEF MsgAtOnce
  <2>. QED BY <2>1 DEF Takes, Handled
<1>2. CASE MsgEmpty(f)
  <2>1. f.last /\ msgBuffers' = Closed(o, n)
    BY <1>2 DEF MsgEmpty
  <2>. QED BY <2>1 DEF Takes, Handled
<1>3. CASE MsgBegins(f)
  <2>1. f.kind = "msg" /\ msgBuffers' = o
    BY <1>3 DEF MsgBegins
  <2>. QED BY <2>1 DEF Takes, Handled
<1>4. CASE MsgGoesOn(f)
  <2>1. /\ f.kind = "data"
        /\ \/ m = 0 /\ msgBuffers' = b
           \/ m # 0 /\ ~f.last /\ msgBuffers' = Continued(b, f, m)
           \/ m # 0 /\ f.last /\ msgBuffers' = Closed(b, m)
    BY <1>4 DEF MsgGoesOn
  <2>. QED BY <2>1 DEF Takes, Handled
<1>5. CASE MsgIgnores(f)
  <2>1. f.kind = "relay" /\ msgBuffers' = b
    BY <1>5 DEF MsgIgnores
  <2>. QED BY <2>1 DEF Takes, Handled
<1>. QED BY <1>1, <1>2, <1>3, <1>4, <1>5 DEF HandleIncomingMessage

LEMMA RelayTakes ==
  ASSUME NEW f, HandleRelayFrame(f)
  PROVE  Takes(relayBuffers', CleanRelayBuffers, f, RelayTolerance, "relay")
<1> DEFINE b == CleanRelayBuffers
           o == Opened(b, f, RelayTolerance)
           m == Match(b, f.freq, RelayTolerance)
           n == Match(o, f.freq, RelayTolerance)
<1>1. CASE RelayBegins(f)
  <2>1. /\ f.kind = "relay"
        /\ \/ f.last /\ relayBuffers' = Closed(o, n)
           \/ relayBuffers' = o
    BY <1>1 DEF RelayBegins
  <2>. QED BY <2>1 DEF Takes, Handled
<1>2. CASE RelayGoesOn(f)
  <2>1. /\ f.kind = "data"
        /\ \/ m = 0 /\ relayBuffers' = b
           \/ m # 0 /\ ~f.last /\ relayBuffers' = Continued(b, f, m)
           \/ m # 0 /\ f.last /\ relayBuffers' = Closed(b, m)
    BY <1>2 DEF RelayGoesOn
  <2>. QED BY <2>1 DEF Takes, Handled
<1>3. CASE RelayIgnores(f)
  <2>1. f.kind = "msg" /\ relayBuffers' = b
    BY <1>3 DEF RelayIgnores
  <2>. QED BY <2>1 DEF Takes, Handled
<1>. QED BY <1>1, <1>2, <1>3 DEF HandleRelayFrame

LEMMA AfterIsKept ==
  KeptAfter(msgBuffers', MsgTolerance, "msg") => Kept(msgBuffers, MsgTolerance, "msg")'
BY DEF Kept, KeptAfter, Alone, Sole, Holding

LEMMA RelayAfterIsKept ==
  KeptAfter(relayBuffers', RelayTolerance, "relay") => Kept(relayBuffers, RelayTolerance, "relay")'
BY DEF Kept, KeptAfter, Alone, Sole, Holding

\* What a frame that arrives finds: the buffers without the outdated ones.
LEMMA CleanIsKept ==
  ASSUME WholeInv, NEW s \in Stations, Goes(s, TRUE), NEW freq \in Freqs[s], NEW f, f = Frame(s, freq)
  PROVE  /\ Received(CleanMsgBuffers, f, MsgTolerance)
         /\ Received(CleanRelayBuffers, f, RelayTolerance)
         /\ Kept(CleanMsgBuffers, MsgTolerance, "msg")
         /\ Kept(CleanRelayBuffers, RelayTolerance, "relay")
<1>1. /\ StationsTyped /\ OnAirIsSent
      /\ Good(msgBuffers, delivered, MsgTolerance, Past, Own)
      /\ Good(relayBuffers, relayed, RelayTolerance, Past, Own)
      /\ Kept(msgBuffers, MsgTolerance, "msg") /\ Kept(relayBuffers, RelayTolerance, "relay")
  BY DEF WholeInv, IInv
<1>2. /\ MsgTolerance \in Nat /\ RelayTolerance \in Nat
      /\ MsgTimeout \in Nat \ {0} /\ RelayTimeout \in Nat \ {0}
  BY AssemblyAssumption DEF AssemblyAssumption
<1>3. /\ f.id = onAir[s].id /\ f.index = onAir[s].next /\ f.from = s /\ f.freq = freq
      /\ f.inline = (onAir[s].next = 0 /\ sent[onAir[s].id].inline)
  BY FrameIs
<1>4. Advances(f, Past, Own, Past', Own')
  <2>1. f.inline \in BOOLEAN /\ (f.inline => f.index = 0)
    BY <1>3
  <2>. QED BY <1>1, <1>3, <2>1, PastGrows DEF Advances
<1>5. /\ Good(CleanMsgBuffers, delivered, MsgTolerance, Past, Own)
      /\ Good(CleanRelayBuffers, relayed, RelayTolerance, Past, Own)
  BY <1>1, <1>2, FreshIsGood DEF CleanMsgBuffers, CleanRelayBuffers
<1>6. /\ Received(CleanMsgBuffers, f, MsgTolerance)
      /\ Received(CleanRelayBuffers, f, RelayTolerance)
  BY <1>2, <1>4, <1>5, ReceivedIs
<1>7. msgBuffers \in Buffers /\ relayBuffers \in Buffers
  BY <1>1 DEF Good
<1>8. /\ Kept(CleanMsgBuffers, MsgTolerance, "msg")
      /\ Kept(CleanRelayBuffers, RelayTolerance, "relay")
  BY <1>1, <1>2, <1>7, FreshIsKept DEF CleanMsgBuffers, CleanRelayBuffers
<1>. QED BY <1>6, <1>8

LEMMA ArrivesKeepsWholeInv ==
  ASSUME WholeInv, NEW s \in Stations, Arrives(s)
  PROVE  WholeInv'
<1>1. StationsTyped /\ OnAirIsSent /\ IInv /\ Goes(s, TRUE)
  BY DEF WholeInv, IInv, Arrives
<1>2. PICK freq \in Freqs[s] : Decoded(Frame(s, freq))
  BY DEF Arrives
<1>3. MsgTolerance \in Nat /\ RelayTolerance \in Nat
  BY AssemblyAssumption DEF AssemblyAssumption
<1> DEFINE f == Frame(s, freq)
<1>4. HandleRelayFrame(f) /\ HandleIncomingMessage(f)
  BY <1>2 DEF Decoded
<1>5. /\ Received(CleanMsgBuffers, f, MsgTolerance)
      /\ Received(CleanRelayBuffers, f, RelayTolerance)
      /\ Kept(CleanMsgBuffers, MsgTolerance, "msg")
      /\ Kept(CleanRelayBuffers, RelayTolerance, "relay")
  BY <1>1, CleanIsKept
<1>6. /\ Takes(msgBuffers', CleanMsgBuffers, f, MsgTolerance, "msg")
      /\ Takes(relayBuffers', CleanRelayBuffers, f, RelayTolerance, "relay")
  BY <1>4, MsgTakes, RelayTakes
<1>7. KeptAfter(msgBuffers', MsgTolerance, "msg")
  BY <1>1, <1>3, <1>5, <1>6, FrameKeeps
<1>8. KeptAfter(relayBuffers', RelayTolerance, "relay")
  BY <1>1, <1>3, <1>5, <1>6, FrameKeeps
<1>9. IInv'
  BY <1>1, ArrivesKeepsIInv
<1>. QED BY <1>7, <1>8, <1>9, AfterIsKept, RelayAfterIsKept DEF WholeInv

-----------------------------------------------------------------------------
(* What the stations do without the service.                               *)

LEMMA SameIsHeld ==
  ASSUME NEW b, NEW x
  PROVE  \A i \in DOMAIN b : b[i].key \in x => Has(b, b[i])
BY DEF Has

\* After a lost frame, the transmission is no longer received whole.
LEMMA LostIsKept ==
  ASSUME StationsTyped, OnAirIsSent, NEW t \in Stations, Goes(t, FALSE),
         NEW b, NEW tolerance, NEW kind, Kept(b, tolerance, kind)
  PROVE  KeptAfter(b, tolerance, kind)
<1>. SUFFICES ASSUME NEW s \in Stations, Alone(s, tolerance)
     PROVE  /\ Sole(b, s)
            /\ Midway(s, kind)' => \E i \in DOMAIN b : Holding(b[i], s, SoFar(s)', Since(s)')
  BY DEF KeptAfter
<1>1. Sole(b, s) /\ (Midway(s, kind) => \E i \in DOMAIN b : Holding(b[i], s, SoFar(s), Since(s)))
  BY DEF Kept
<1>2. CASE s = t
  <2>1. ASSUME Midway(s, kind)' PROVE FALSE
    <3>1. onAir'[s].id # 0 /\ onAir'[s].whole
      BY <2>1 DEF Midway
    <3>. QED BY <1>2, <3>1, WholeGoesOn
  <2>. QED BY <1>1, <2>1
<1>3. CASE s # t
  <2>1. sent' = sent /\ turn' = turn \union {t} /\ onAir'[s] = onAir[s]
    BY <1>3, GoesOn DEF Goes
  <2>2. s \in turn' <=> s \in turn
    BY <1>3, <2>1
  <2>3. Midway(s, kind)' => \E i \in DOMAIN b : Holding(b[i], s, SoFar(s)', Since(s)')
    BY <1>1, <2>1, <2>2, StaysKept, SameIsHeld
  <2>. QED BY <1>1, <2>3
<1>. QED BY <1>2, <1>3

\* A transmission has not sent anything when it begins.
LEMMA BegunIsKept ==
  ASSUME StationsTyped, OnAirIsSent, NEW t \in Stations,
         NEW k \in {"msg", "relay", "text"}, NEW inline \in BOOLEAN,
         NEW count \in 0 .. MaxFrames, Begin(t, k, inline, count),
         NEW b, NEW tolerance, NEW kind \in {"msg", "relay"}, Kept(b, tolerance, kind)
  PROVE  KeptAfter(b, tolerance, kind)
<1>. SUFFICES ASSUME NEW s \in Stations, Alone(s, tolerance)
     PROVE  /\ Sole(b, s)
            /\ Midway(s, kind)' => \E i \in DOMAIN b : Holding(b[i], s, SoFar(s)', Since(s)')
  BY DEF KeptAfter
<1> DEFINE L == Len(sent)
           new == [from |-> t, kind |-> k, inline |-> inline, count |-> count]
           next == IF k = "text" THEN 1 ELSE 0
<1>1. Sole(b, s) /\ (Midway(s, kind) => \E i \in DOMAIN b : Holding(b[i], s, SoFar(s), Since(s)))
  BY DEF Kept
<1>2. sent \in Seq(Transmissions) /\ L \in Nat /\ DOMAIN sent = 1 .. L /\ t \in DOMAIN onAir
  BY SentIs DEF StationsTyped
<1>3. new \in Transmissions
  BY DEF Transmissions
<1>4. /\ sent' = Append(sent, new) /\ turn' = turn
      /\ onAir' = [onAir EXCEPT ![t] = [id |-> Len(sent'), whole |-> TRUE, next |-> next]]
  BY DEF Begin
<1>5. new.kind = k
  OBVIOUS
<1> HIDE DEF new, next
<1>6. /\ Len(sent') = L + 1 /\ sent'[L + 1] = new
      /\ \A i \in 1 .. L : sent'[i] = sent[i]
  BY <1>2, <1>3, <1>4, AppendProperties
<1>7. /\ onAir'[t].id = L + 1 /\ onAir'[t].next = next
      /\ \A u \in Stations \ {t} : onAir'[u] = onAir[u]
  BY <1>2, <1>4, <1>6 DEF StationsTyped
<1>8. CASE s = t
  <2>1. ASSUME Midway(s, kind)' PROVE FALSE
    <3>1. onAir'[s].next # 0 /\ sent'[onAir'[s].id].kind = kind
      BY <2>1 DEF Midway
    <3>2. next # 0 /\ k = kind
      BY <1>5, <1>6, <1>7, <1>8, <3>1
    <3>. QED BY <3>2 DEF next
  <2>. QED BY <1>1, <2>1
<1>9. CASE s # t
  <2>1. onAir'[s] = onAir[s] /\ (s \in turn' <=> s \in turn)
        /\ \A id \in DOMAIN sent : sent'[id] = sent[id]
    BY <1>2, <1>4, <1>6, <1>7, <1>9
  <2>2. Midway(s, kind)' => \E i \in DOMAIN b : Holding(b[i], s, SoFar(s)', Since(s)')
    BY <1>1, <2>1, StaysKept, SameIsHeld
  <2>. QED BY <1>1, <2>2
<1>. QED BY <1>8, <1>9

LEMMA OlderIs ==
  ASSUME NEW b \in Buffers, NEW i \in DOMAIN b
  PROVE  /\ DOMAIN Older(b) = DOMAIN b
         /\ Older(b)[i].key = b[i].key /\ Older(b)[i].from = b[i].from
         /\ Older(b)[i].parts = b[i].parts
         /\ b[i].age = 0 => Older(b)[i].age <= 1
         /\ b[i].age \in Nat
<1>1. b[i] \in BufferSet
  BY BuffersAre
<1>2. Oldest \in Nat
  BY AssemblyAssumption DEF AssemblyAssumption, Oldest
<1>3. b[i].age \in 0 .. Oldest
  BY <1>1 DEF BufferSet
<1>4. DOMAIN Older(b) = DOMAIN b
      /\ Older(b)[i] = [b[i] EXCEPT !.age = IF @ < Oldest THEN @ + 1 ELSE @]
  BY DEF Older
<1>5. /\ Older(b)[i].key = b[i].key /\ Older(b)[i].from = b[i].from
      /\ Older(b)[i].parts = b[i].parts
      /\ Older(b)[i].age = IF b[i].age < Oldest THEN b[i].age + 1 ELSE b[i].age
  BY <1>1, <1>4 DEF BufferSet
<1>. QED BY <1>2, <1>3, <1>4, <1>5

\* The buffer of a station that is in the middle is as old as its last frame.
LEMMA OlderIsKept ==
  ASSUME NextCycle, NEW b \in Buffers, NEW tolerance, NEW kind, Kept(b, tolerance, kind)
  PROVE  KeptAfter(Older(b), tolerance, kind)
<1>. SUFFICES ASSUME NEW s \in Stations, Alone(s, tolerance)
     PROVE  /\ Sole(Older(b), s)
            /\ Midway(s, kind)' => \E i \in DOMAIN Older(b) :
                 Holding(Older(b)[i], s, SoFar(s)', Since(s)')
  BY DEF KeptAfter
<1>1. Sole(b, s) /\ (Midway(s, kind) => \E i \in DOMAIN b : Holding(b[i], s, SoFar(s), Since(s)))
  BY DEF Kept
<1>2. /\ sent' = sent /\ onAir' = onAir /\ turn' = {}
      /\ onAir[s].id # 0 => s \in turn
  BY DEF NextCycle
<1>3. Sole(Older(b), s)
  BY <1>1, SomeAreSole, OlderIsSome
<1>4. ASSUME Midway(s, kind)'
      PROVE  \E i \in DOMAIN Older(b) : Holding(Older(b)[i], s, SoFar(s)', Since(s)')
  <2>1. Midway(s, kind) /\ s \in turn
    BY <1>2, <1>4 DEF Midway
  <2>2. SoFar(s)' = SoFar(s) /\ Since(s)' = 1 /\ Since(s) = 0
    BY <1>2, <2>1 DEF SoFar, Start, Since
  <2>3. PICK i \in DOMAIN b : Holding(b[i], s, SoFar(s), Since(s))
    BY <1>1, <2>1
  <2>4. /\ i \in DOMAIN Older(b)
        /\ Older(b)[i].key = b[i].key /\ Older(b)[i].from = b[i].from
        /\ Older(b)[i].parts = b[i].parts
        /\ b[i].age = 0 => Older(b)[i].age <= 1
        /\ b[i].age \in Nat
    BY OlderIs
  <2>5. b[i].key \in Freqs[s] /\ b[i].from = s /\ b[i].parts = SoFar(s) /\ b[i].age <= 0
    BY <2>2, <2>3 DEF Holding
  <2>6. Older(b)[i].age <= 1
    BY <2>4, <2>5
  <2>7. Holding(Older(b)[i], s, SoFar(s)', Since(s)')
    BY <2>2, <2>4, <2>5, <2>6 DEF Holding
  <2>. QED BY <2>4, <2>7
<1>. QED BY <1>3, <1>4

LEMMA InitWholeInv ==
  ASSUME Init
  PROVE  WholeInv
<1>1. /\ msgBuffers = <<>> /\ relayBuffers = <<>> /\ onAir = [s \in Stations |-> Silent]
  BY DEF Init
<1>2. \A s \in Stations : onAir[s].id = 0
  BY <1>1 DEF Silent
<1>3. \A tolerance, kind : Kept(<<>>, tolerance, kind)
  BY <1>2 DEF Kept, Sole, Midway
<1>. QED BY <1>1, <1>3, InitIInv DEF WholeInv

LEMMA StutterKeeps ==
  ASSUME UNCHANGED <<sent, onAir, turn>>, NEW b, NEW tolerance, NEW kind, Kept(b, tolerance, kind)
  PROVE  KeptAfter(b, tolerance, kind)
<1>1. sent' = sent /\ onAir' = onAir /\ turn' = turn
  OBVIOUS
<1>2. ASSUME NEW s \in Stations
      PROVE  SoFar(s)' = SoFar(s) /\ Since(s)' = Since(s) /\ (Midway(s, kind)' <=> Midway(s, kind))
  BY <1>1 DEF SoFar, Start, Since, Midway
<1>. QED BY <1>2 DEF Kept, KeptAfter

LEMMA NextKeepsWholeInv ==
  ASSUME WholeInv, [Next]_vars
  PROVE  WholeInv'
<1>1. /\ IInv /\ StationsTyped /\ OnAirIsSent
      /\ Kept(msgBuffers, MsgTolerance, "msg") /\ Kept(relayBuffers, RelayTolerance, "relay")
      /\ msgBuffers \in Buffers /\ relayBuffers \in Buffers
  BY DEF WholeInv, IInv, Good
<1>2. IInv'
  BY <1>1, NextKeepsIInv
<1>3. ASSUME KeptAfter(msgBuffers', MsgTolerance, "msg"),
             KeptAfter(relayBuffers', RelayTolerance, "relay")
      PROVE  WholeInv'
  BY <1>2, <1>3, AfterIsKept, RelayAfterIsKept DEF WholeInv
<1>4. CASE \E s \in Stations, kind \in {"msg", "relay", "text"}, inline \in BOOLEAN,
              count \in 0 .. MaxFrames : Begin(s, kind, inline, count)
  <2>1. PICK s \in Stations, kind \in {"msg", "relay", "text"}, inline \in BOOLEAN,
             count \in 0 .. MaxFrames : Begin(s, kind, inline, count)
    BY <1>4
  <2>2. msgBuffers' = msgBuffers /\ relayBuffers' = relayBuffers
    BY <2>1 DEF Begin, serviceVars
  <2>3. /\ KeptAfter(msgBuffers, MsgTolerance, "msg")
        /\ KeptAfter(relayBuffers, RelayTolerance, "relay")
    BY <1>1, <2>1, BegunIsKept
  <2>. QED BY <1>3, <2>2, <2>3
<1>5. CASE \E s \in Stations : Arrives(s)
  BY <1>5, ArrivesKeepsWholeInv
<1>6. CASE \E s \in Stations : GetsLost(s)
  <2>1. PICK s \in Stations : GetsLost(s)
    BY <1>6
  <2>2. Goes(s, FALSE) /\ msgBuffers' = msgBuffers /\ relayBuffers' = relayBuffers
    BY <2>1 DEF GetsLost, serviceVars
  <2>3. /\ KeptAfter(msgBuffers, MsgTolerance, "msg")
        /\ KeptAfter(relayBuffers, RelayTolerance, "relay")
    BY <1>1, <2>2, LostIsKept
  <2>. QED BY <1>3, <2>2, <2>3
<1>7. CASE NextCycle
  <2>1. msgBuffers' = Older(msgBuffers) /\ relayBuffers' = Older(relayBuffers)
    BY <1>7 DEF NextCycle
  <2>2. /\ KeptAfter(Older(msgBuffers), MsgTolerance, "msg")
        /\ KeptAfter(Older(relayBuffers), RelayTolerance, "relay")
    BY <1>1, <1>7, OlderIsKept
  <2>. QED BY <1>3, <2>1, <2>2
<1>8. CASE UNCHANGED vars
  <2>1. /\ msgBuffers' = msgBuffers /\ relayBuffers' = relayBuffers
        /\ UNCHANGED <<sent, onAir, turn>>
    BY <1>8 DEF vars, serviceVars
  <2>2. /\ KeptAfter(msgBuffers, MsgTolerance, "msg")
        /\ KeptAfter(relayBuffers, RelayTolerance, "relay")
    BY <1>1, <2>1, StutterKeeps
  <2>. QED BY <1>3, <2>1, <2>2
<1>. QED BY <1>4, <1>5, <1>6, <1>7, <1>8 DEF Next

LEMMA WholeInvariance == Spec => []WholeInv
<1>1. Init => WholeInv
  BY InitWholeInv
<1>2. WholeInv /\ [Next]_vars => WholeInv'
  BY NextKeepsWholeInv
<1>. QED BY <1>1, <1>2, PTL DEF Spec

-----------------------------------------------------------------------------
(* The last frame of a transmission.                                       *)

\* It is s that does it, and the last frame that is on the air.
LEMMA CompletesIs ==
  ASSUME WholeInv, [Next]_vars, NEW s \in Stations, NEW kind, Completes(s, kind)
  PROVE  Arrives(s) /\ onAir[s].next = sent[onAir[s].id].count
<1>1. StationsTyped /\ OnAirIsSent
  BY DEF WholeInv, IInv
<1>2. onAir[s].id # 0 /\ onAir'[s].id = 0 /\ lost' = lost
  BY DEF Completes
<1>3. lost \in Nat /\ onAir \in [Stations -> [id : 0 .. MaxSends, next : 0 .. MaxFrames, whole : BOOLEAN]]
  BY <1>1, AssemblyAssumption DEF StationsTyped, AssemblyAssumption
<1>4. ASSUME NEW t \in Stations, NEW k, NEW inline, NEW count, Begin(t, k, inline, count)
      PROVE  FALSE
  <2>1. t # s
    BY <1>2, <1>4 DEF Begin
  <2>2. onAir'[s] = onAir[s]
    BY <1>3, <1>4, <2>1 DEF Begin
  <2>. QED BY <1>2, <2>2
<1>5. ASSUME NEW t \in Stations, Arrives(t) PROVE t = s
  <2>1. t # s => onAir'[s] = onAir[s]
    BY <1>1, <1>5, GoesOn DEF Arrives
  <2>. QED BY <1>2, <2>1
<1>6. ASSUME NEW t \in Stations, GetsLost(t) PROVE FALSE
  BY <1>2, <1>3, <1>6 DEF GetsLost
<1>7. ~NextCycle /\ ~UNCHANGED vars
  BY <1>2 DEF NextCycle, vars
<1>8. Arrives(s)
  BY <1>4, <1>5, <1>6, <1>7 DEF Next
<1>9. onAir[s].next = sent[onAir[s].id].count
  BY <1>1, <1>2, <1>8, GoesOn DEF Arrives
<1>. QED BY <1>8, <1>9

\* It completes the text that the buffer of s holds.
LEMMA HeldIsCompleted ==
  ASSUME StationsTyped, NEW s \in Stations, NEW tolerance \in Nat, Alone(s, tolerance),
         NEW kind, Completes(s, kind), onAir[s].next = sent[onAir[s].id].count, onAir[s].next # 0,
         NEW b, Kept(b, tolerance, kind), NEW freq \in Freqs[s],
         NEW f, f = Frame(s, freq), Received(b, f, tolerance)
  PROVE  LET i == Match(b, f.freq, tolerance) IN
         /\ i # 0 /\ i > 0
         /\ Continued(b, f, i)[i].from = s
         /\ Continued(b, f, i)[i].parts = Payload(onAir[s].id)
<1> DEFINE id == onAir[s].id
           next == onAir[s].next
<1>1. f.id = id /\ f.index = next /\ f.freq = freq
  BY FrameIs
<1>2. Midway(s, kind)
  BY DEF Midway, Completes
<1>3. b \in Buffers /\ Sole(b, s)
  BY DEF Kept, Received
<1>4. PICK i \in DOMAIN b : Holding(b[i], s, SoFar(s), Since(s))
  BY <1>2 DEF Kept
<1>5. next \in Nat \ {0}
  <2>1. onAir[s] \in [id : 0 .. MaxSends, next : 0 .. MaxFrames, whole : BOOLEAN]
    BY DEF StationsTyped
  <2>. QED BY <2>1
<1>6. Payload(id) = Start(id, next)
  BY PayloadIsStart
<1>7. b[i].key \in Freqs[s] /\ b[i].from = s /\ b[i].parts = Start(id, next - 1)
  BY <1>4 DEF Holding, SoFar
<1> HIDE DEF id, next
<1>8. Match(b, freq, tolerance) = i /\ i # 0 /\ i > 0
  <2>1. Match(b, freq, tolerance) = i
    BY <1>3, <1>7, MatchIsAt
  <2>2. i # 0 /\ i > 0
    BY <1>3, BuffersAre
  <2>. QED BY <2>1, <2>2
<1>9. /\ Continued(b, f, i)[i].from = b[i].from
      /\ Continued(b, f, i)[i].parts = Append(b[i].parts, <<f.id, f.index>>)
  BY <1>3, ContinuedIs
<1>10. Append(Start(id, next - 1), <<id, next>>) = Start(id, next)
  BY <1>5, StartIs
<1>11. Continued(b, f, i)[i].from = s /\ Continued(b, f, i)[i].parts = Payload(id)
  BY <1>1, <1>6, <1>7, <1>9, <1>10
<1>. QED BY <1>1, <1>8, <1>11 DEF id

\* A transmission that is one frame long has its text in that frame.
LEMMA OneFrameIs ==
  ASSUME NEW s, NEW kind, Completes(s, kind),
         onAir[s].next = sent[onAir[s].id].count, onAir[s].next = 0
  PROVE  sent[onAir[s].id].inline /\ Payload(onAir[s].id) = <<<<onAir[s].id, 0>>>>
<1> DEFINE id == onAir[s].id
<1>1. Payload(id) = Start(id, 0)
  BY PayloadIsStart
<1>2. Start(id, 0) = IF sent[id].inline THEN <<<<id, 0>>>> ELSE <<>>
  <2>1. 1 \in Nat \ {0}
    OBVIOUS
  <2>. QED BY <2>1, StartIs
<1>3. Payload(id) # <<>>
  BY DEF Completes
<1>. QED BY <1>1, <1>2, <1>3

LEMMA MsgIsHandedOver ==
  ASSUME WholeInv, NEW s \in Stations, Arrives(s), Completes(s, "msg"),
         onAir[s].next = sent[onAir[s].id].count, Alone(s, MsgTolerance)
  PROVE  delivered' = Append(delivered, Whole(s))
<1>1. Goes(s, TRUE) /\ StationsTyped
  BY DEF Arrives, WholeInv, IInv
<1>2. PICK freq \in Freqs[s] : Decoded(Frame(s, freq))
  BY DEF Arrives
<1>3. PICK f : f = Frame(s, freq)
  OBVIOUS
<1> DEFINE id == onAir[s].id
           next == onAir[s].next
           b == CleanMsgBuffers
<1>4. Received(b, f, MsgTolerance) /\ Kept(b, MsgTolerance, "msg")
  BY <1>1, <1>3, CleanIsKept
<1>5. HandleIncomingMessage(f)
  BY <1>2, <1>3 DEF Decoded
<1>6. sent[id].kind = "msg"
  BY DEF Completes
<1>7. /\ f.id = id /\ f.from = s /\ f.last
      /\ f.kind = IF next = 0 THEN "msg" ELSE "data"
      /\ f.inline = (next = 0 /\ sent[id].inline)
  <2>1. /\ f.id = id /\ f.from = s
        /\ f.kind = IF next = 0 THEN sent[id].kind ELSE "data"
        /\ f.inline = (next = 0 /\ sent[id].inline)
        /\ f.last = (next = sent[id].count)
    BY <1>3, FrameIs
  <2>2. next = sent[id].count
    OBVIOUS
  <2> HIDE DEF id, next
  <2>. QED BY <1>6, <2>1, <2>2
<1>8. Whole(s) = [from |-> s, parts |-> Payload(id)]
  BY DEF Whole
<1> HIDE DEF b, id, next
<1>9. CASE next = 0
  <2>1. sent[id].inline /\ Payload(id) = <<<<id, 0>>>>
    BY <1>9, OneFrameIs DEF id, next
  <2>2. f.kind = "msg" /\ f.last /\ f.inline
    BY <1>7, <1>9, <2>1
  <2>3. MsgAtOnce(f)
    BY <1>5, <2>2 DEF HandleIncomingMessage, MsgEmpty, MsgBegins, MsgGoesOn, MsgIgnores
  <2>4. delivered' = Append(delivered, [from |-> f.from, parts |-> <<<<f.id, 0>>>>])
    BY <2>3 DEF MsgAtOnce
  <2>. QED BY <1>7, <1>8, <2>1, <2>4
<1>10. CASE next # 0
  <2>1. f.kind = "data" /\ f.last
    BY <1>7, <1>10
  <2>2. MsgGoesOn(f)
    BY <1>5, <2>1 DEF HandleIncomingMessage, MsgAtOnce, MsgEmpty, MsgBegins, MsgIgnores
  <2> DEFINE i == Match(b, f.freq, MsgTolerance)
             x == Continued(b, f, i)[i]
  <2>3. i # 0 /\ i > 0 /\ x.from = s /\ x.parts = Payload(id)
    <3>1. MsgTolerance \in Nat
      BY AssemblyAssumption DEF AssemblyAssumption
    <3>. QED BY <1>1, <1>3, <1>4, <1>10, <3>1, HeldIsCompleted DEF id, next
  <2>4. delivered' = Append(delivered, Text(x))
    BY <2>1, <2>2, <2>3 DEF MsgGoesOn, b
  <2>5. Text(x) = [from |-> x.from, parts |-> x.parts]
    BY DEF Text
  <2> HIDE DEF i, x
  <2>. QED BY <1>8, <2>3, <2>4, <2>5
<1>. QED BY <1>9, <1>10

LEMMA RelayIsPassedOn ==
  ASSUME WholeInv, NEW s \in Stations, Arrives(s), Completes(s, "relay"),
         onAir[s].next = sent[onAir[s].id].count, Alone(s, RelayTolerance)
  PROVE  relayed' = Append(relayed, Whole(s))
<1>1. Goes(s, TRUE) /\ StationsTyped /\ OnAirIsSent
  BY DEF Arrives, WholeInv, IInv
<1>2. PICK freq \in Freqs[s] : Decoded(Frame(s, freq))
  BY DEF Arrives
<1>3. PICK f : f = Frame(s, freq)
  OBVIOUS
<1> DEFINE id == onAir[s].id
           next == onAir[s].next
           b == CleanRelayBuffers
<1>4. /\ Received(b, f, RelayTolerance) /\ Kept(b, RelayTolerance, "relay")
      /\ RelayTolerance \in Nat
  BY <1>1, <1>3, CleanIsKept, AssemblyAssumption DEF AssemblyAssumption
<1>5. HandleRelayFrame(f)
  BY <1>2, <1>3 DEF Decoded
<1>6. sent[id].kind = "relay" /\ Payload(id) # <<>> /\ id \in DOMAIN sent
  BY <1>1 DEF Completes, OnAirIsSent
<1>7. /\ f.id = id /\ f.from = s /\ f.last
      /\ f.kind = IF next = 0 THEN "relay" ELSE "data"
      /\ f.inline = (next = 0 /\ sent[id].inline)
  <2>1. /\ f.id = id /\ f.from = s
        /\ f.kind = IF next = 0 THEN sent[id].kind ELSE "data"
        /\ f.inline = (next = 0 /\ sent[id].inline)
        /\ f.last = (next = sent[id].count)
    BY <1>3, FrameIs
  <2>2. next = sent[id].count
    OBVIOUS
  <2> HIDE DEF id, next
  <2>. QED BY <1>6, <2>1, <2>2
<1>8. Whole(s) = [from |-> s, parts |-> Payload(id)]
  BY DEF Whole
<1> HIDE DEF b, id, next
<1>11. ASSUME NEW x, x.from = s, x.parts = Payload(id), ProcessRelayBuffer(x)
       PROVE  relayed' = Append(relayed, Whole(s))
  <2>1. Valid(Payload(id))
    BY <1>6 DEF Valid
  <2>2. relayed' = Append(relayed, Text(x))
    BY <1>6, <1>11, <2>1 DEF ProcessRelayBuffer
  <2>3. Text(x) = [from |-> x.from, parts |-> x.parts]
    BY DEF Text
  <2>. QED BY <1>8, <1>11, <2>2, <2>3
<1>9. CASE next = 0
  <2>1. sent[id].inline /\ Payload(id) = <<<<id, 0>>>>
    BY <1>9, OneFrameIs DEF id, next
  <2>2. f.kind = "relay" /\ f.last /\ f.inline
    BY <1>7, <1>9, <2>1
  <2>3. RelayBegins(f)
    BY <1>5, <2>2 DEF HandleRelayFrame, RelayGoesOn, RelayIgnores
  <2> DEFINE o == Opened(b, f, RelayTolerance)
             c == Match(o, f.freq, RelayTolerance)
  <2>4. o[c].from = s /\ o[c].parts = IF f.inline THEN <<<<f.id, 0>>>> ELSE <<>>
    <3>1. b \in Buffers /\ Sole(b, s)
      BY <1>4 DEF Kept, Received
    <3>. QED BY <1>4, <1>7, <3>1, OpenedHolds
  <2>5. ProcessRelayBuffer(o[c])
    BY <2>2, <2>3 DEF RelayBegins, b
  <2> HIDE DEF o, c
  <2>6. o[c].parts = Payload(id)
    BY <1>7, <2>1, <2>2, <2>4
  <2>. QED BY <1>11, <2>4, <2>5, <2>6
<1>10. CASE next # 0
  <2>1. f.kind = "data" /\ f.last
    BY <1>7, <1>10
  <2>2. RelayGoesOn(f)
    BY <1>5, <2>1 DEF HandleRelayFrame, RelayBegins, RelayIgnores
  <2> DEFINE i == Match(b, f.freq, RelayTolerance)
             x == Continued(b, f, i)[i]
  <2>3. i # 0 /\ i > 0 /\ x.from = s /\ x.parts = Payload(id)
    BY <1>1, <1>3, <1>4, <1>10, HeldIsCompleted DEF id, next
  <2>4. ProcessRelayBuffer(x)
    BY <2>1, <2>2, <2>3 DEF RelayGoesOn, b
  <2> HIDE DEF i, x
  <2>. QED BY <1>11, <2>3, <2>4
<1>. QED BY <1>9, <1>10

-----------------------------------------------------------------------------
(* The theorems.                                                           *)

\* What the two handlers (maybeHandleIncomingMessage, handleRelayFrame) keep,
\* hand over and pass on is of its type, and each frequency has one buffer.
THEOREM TypeCorrect == Spec => []TypeOK
<1>1. ASSUME IInv PROVE TypeOK
  <2>1. /\ msgBuffers \in Buffers /\ UniqueKeys(msgBuffers) /\ delivered \in Texts
        /\ relayBuffers \in Buffers /\ UniqueKeys(relayBuffers) /\ relayed \in Texts
    BY <1>1 DEF IInv, Good
  <2>2. StationsTyped
    BY <1>1 DEF IInv
  <2>. QED BY <2>1, <2>2 DEF TypeOK, UniqueKeys, Texts, StationsTyped, Transmissions
<1>. QED BY <1>1, Invariance, PTL

\* A message shows, and a relayed text names, the station that sent each of
\* its frames, if that station is alone at its frequencies: whatever was lost,
\* timed out or begun again in between (findMatchingMsgBufferKey and its
\* relay counterpart tell stations apart by nothing but frequency).
THEOREM ShowsTheSender == Spec => []RightSender
<1>1. ASSUME NEW texts, NEW tolerance, NEW b, Good(b, texts, tolerance, Past, Own),
             NEW i \in DOMAIN texts, Alone(texts[i].from, tolerance)
      PROVE  SentBy(texts[i])
  <2>1. texts \in Seq([from : Stations, parts : Parts])
    BY <1>1 DEF Good, Texts
  <2>2. texts[i].from \in Stations
    <3>1. \A k \in DOMAIN texts : texts[k] \in [from : Stations, parts : Parts]
      BY <2>1, LenProperties, ElementOfSeq
    <3>. QED BY <1>1, <3>1
  <2>3. \A m \in DOMAIN texts[i].parts : texts[i].parts[m] \in Own[texts[i].from]
    BY <1>1 DEF Good, Owned
  <2>. QED BY <2>2, <2>3 DEF SentBy, Own
<1>2. ASSUME IInv PROVE RightSender
  BY <1>1, <1>2 DEF IInv, RightSender
<1>. QED BY <1>2, Invariance, PTL

\* No frame is in two messages, or twice in one, though a new command frame
\* replaces a buffer and a completed or outdated one is removed; the same for
\* the texts passed on.
THEOREM NoFrameTwice == Spec => []OnceOnly
<1>1. ASSUME IInv PROVE OnceOnly
  BY <1>1 DEF IInv, Good, OnceOnly
<1>. QED BY <1>1, Invariance, PTL

\* A transmission all of whose frames were received is handed over, or passed
\* on, exactly as it was sent, when its last frame is handled, whatever an
\* earlier one has left in the buffers of its frequency: a command frame puts
\* its buffer in the place of that one, and cleanupMsgBuffers and
\* cleanupRelayBuffers remove nothing that is going on.
THEOREM WholeIsHandedOn == Spec => WholeIsHandedOver
<1> DEFINE HandsOver ==
      \A s \in Stations :
        /\ Completes(s, "msg") /\ Alone(s, MsgTolerance)
             => delivered' = Append(delivered, Whole(s))
        /\ Completes(s, "relay") /\ Alone(s, RelayTolerance)
             => relayed' = Append(relayed, Whole(s))
<1>1. WholeInv /\ [Next]_vars => [HandsOver]_vars
  BY CompletesIs, MsgIsHandedOver, RelayIsPassedOn
<1>. QED BY <1>1, WholeInvariance, PTL DEF Spec, WholeIsHandedOver
================================================================================
