--------------------------- MODULE DeviceLogProofs ---------------------------
(***************************************************************************)
(* Proofs about the agent's own log on its way to the cloud, for every     *)
(* batch size, cap and request limit, every number of events and every set *)
(* of faults.                                                              *)
(***************************************************************************)
EXTENDS DeviceLog, FiniteSetTheorems, SequenceTheorems, TLAPS

(* What is known of a channel c, a buffer b, rows r, discarded entries d   *)
(* and lost entries l when n events were logged.  Entries wait in the      *)
(* order they were logged in, those of the buffer before those of the      *)
(* channel; this is what makes a push store the next events there are.     *)
Increasing(s) ==
  \A i, j \in 1..Len(s) : i < j /\ s[i] # Flush /\ s[j] # Flush => s[i] < s[j]

Numbered(c, b, r, d, l, n) ==
  /\ n \in Nat
  /\ c \in Seq(Nat) /\ b \in Seq(Nat) /\ r \in Seq(Nat)
  /\ Range(c) \subseteq 0..n /\ Range(b) \subseteq 1..n /\ Range(r) \subseteq 1..n
  /\ d \subseteq 1..n /\ l \subseteq 1..n

Ordered(c, b, d) ==
  /\ Increasing(c) /\ Increasing(b)
  /\ \A x \in Range(b), y \in Range(c) \ {Flush} : x < y
  /\ \A x \in d, y \in (Range(c) \ {Flush}) \cup Range(b) : x < y

Accounted(c, b, r, d, l, n) == 1..n \subseteq Range(r) \cup Range(c) \cup Range(b) \cup d \cup l

RowsInOrder(r, d, l) ==
  \A i \in 1..Len(r) : \A e \in 1..(r[i] - 1) :
    e \in d \cup l \/ \E j \in 1..(i - 1) : r[j] = e

Queue(c, b, r, d, l, n) ==
  /\ Numbered(c, b, r, d, l, n)
  /\ Ordered(c, b, d)
  /\ Accounted(c, b, r, d, l, n)
  /\ RowsInOrder(r, d, l)

-----------------------------------------------------------------------------
(* Sequences and what is in them.                                          *)

LEMMA SizesTyped == MaxBatch \in Nat /\ MaxBuffer \in Nat
BY LogSizesAssumption

LEMMA RangeOf ==
  ASSUME NEW s \in Seq(Nat)
  PROVE  /\ \A x : x \in Range(s) <=> \E i \in 1..Len(s) : s[i] = x
         /\ Range(s) \subseteq Nat
         /\ Len(s) \in Nat
<1>1. DOMAIN s = 1..Len(s) /\ Len(s) \in Nat /\ \A i \in 1..Len(s) : s[i] \in Nat
  BY LenProperties, ElementOfSeq
<1>2. QED
  BY <1>1 DEF Range

LEMMA RangeOfEmpty == <<>> \in Seq(Nat) /\ Len(<<>>) = 0 /\ Range(<<>>) = {} /\ Increasing(<<>>)
<1>1. <<>> \in Seq(Nat) /\ Len(<<>>) = 0
  BY EmptySeq
<1>2. Range(<<>>) = {}
  <2>1. \A x : x \in Range(<<>>) <=> \E i \in 1..0 : <<>>[i] = x
    BY <1>1, RangeOf
  <2>2. QED
    BY <2>1
<1>3. Increasing(<<>>)
  BY <1>1 DEF Increasing
<1>4. QED
  BY <1>1, <1>2, <1>3

LEMMA AppendFacts ==
  ASSUME NEW s \in Seq(Nat), NEW e \in Nat
  PROVE  /\ Append(s, e) \in Seq(Nat)
         /\ Len(Append(s, e)) = Len(s) + 1
         /\ \A i \in 1..Len(s) : Append(s, e)[i] = s[i]
         /\ Append(s, e)[Len(s) + 1] = e
         /\ Range(Append(s, e)) = Range(s) \cup {e}
<1>1. /\ Append(s, e) \in Seq(Nat)
      /\ Len(s) \in Nat
      /\ Len(Append(s, e)) = Len(s) + 1
      /\ \A i \in 1..Len(s) : Append(s, e)[i] = s[i]
      /\ Append(s, e)[Len(s) + 1] = e
  BY AppendProperties, LenProperties
<1>2. \A x : x \in Range(Append(s, e)) <=> x \in Range(s) \/ x = e
  <2> TAKE x
  <2>1. x \in Range(Append(s, e)) <=> \E i \in 1..(Len(s) + 1) : Append(s, e)[i] = x
    BY <1>1, RangeOf
  <2>2. x \in Range(s) <=> \E i \in 1..Len(s) : s[i] = x
    BY RangeOf
  <2>3. QED
    BY <1>1, <2>1, <2>2
<1>3. QED
  BY <1>1, <1>2

LEMMA ConcatFacts ==
  ASSUME NEW s \in Seq(Nat), NEW t \in Seq(Nat)
  PROVE  /\ s \o t \in Seq(Nat)
         /\ Len(s) \in Nat /\ Len(t) \in Nat
         /\ Len(s \o t) = Len(s) + Len(t)
         /\ \A i \in 1..Len(s) : (s \o t)[i] = s[i]
         /\ \A i \in 1..Len(t) : (s \o t)[Len(s) + i] = t[i]
         /\ Range(s \o t) = Range(s) \cup Range(t)
<1>1. /\ s \o t \in Seq(Nat)
      /\ Len(s) \in Nat /\ Len(t) \in Nat
      /\ Len(s \o t) = Len(s) + Len(t)
      /\ \A i \in 1..(Len(s) + Len(t)) :
           (s \o t)[i] = IF i <= Len(s) THEN s[i] ELSE t[i - Len(s)]
  BY ConcatProperties, LenProperties
<1>2. /\ \A i \in 1..Len(s) : (s \o t)[i] = s[i]
      /\ \A i \in 1..Len(t) : (s \o t)[Len(s) + i] = t[i]
  BY <1>1
<1>3. \A x : x \in Range(s \o t) <=> x \in Range(s) \/ x \in Range(t)
  <2> TAKE x
  <2>1. x \in Range(s \o t) <=> \E i \in 1..(Len(s) + Len(t)) : (s \o t)[i] = x
    BY <1>1, RangeOf
  <2>2. x \in Range(s) <=> \E i \in 1..Len(s) : s[i] = x
    BY RangeOf
  <2>3. x \in Range(t) <=> \E i \in 1..Len(t) : t[i] = x
    BY RangeOf
  <2>4. ASSUME NEW i \in 1..(Len(s) + Len(t)) PROVE i \in 1..Len(s) \/ i - Len(s) \in 1..Len(t)
    BY <1>1
  <2>5. (\E i \in 1..(Len(s) + Len(t)) : (s \o t)[i] = x)
          => x \in Range(s) \/ x \in Range(t)
    BY <1>1, <2>2, <2>3, <2>4
  <2>6. x \in Range(s) => \E i \in 1..(Len(s) + Len(t)) : (s \o t)[i] = x
    BY <1>1, <1>2, <2>2
  <2>7. x \in Range(t) => \E i \in 1..(Len(s) + Len(t)) : (s \o t)[i] = x
    <3> SUFFICES ASSUME NEW i \in 1..Len(t), t[i] = x
                 PROVE  \E k \in 1..(Len(s) + Len(t)) : (s \o t)[k] = x
      BY <2>3
    <3>1. Len(s) + i \in 1..(Len(s) + Len(t)) /\ (s \o t)[Len(s) + i] = x
      BY <1>1, <1>2
    <3>2. QED
      BY <3>1
  <2>8. QED
    BY <2>1, <2>5, <2>6, <2>7
<1>4. QED
  BY <1>1, <1>2, <1>3

LEMMA TailFacts ==
  ASSUME NEW s \in Seq(Nat), s # <<>>
  PROVE  /\ Head(s) \in Nat /\ Tail(s) \in Seq(Nat)
         /\ Len(s) \in Nat /\ 1 <= Len(s) /\ s[1] = Head(s)
         /\ Len(Tail(s)) = Len(s) - 1
         /\ \A i \in 1..Len(Tail(s)) : Tail(s)[i] = s[i + 1]
         /\ Range(s) = Range(Tail(s)) \cup {Head(s)}
<1>1. /\ Head(s) \in Nat /\ Tail(s) \in Seq(Nat)
      /\ Len(Tail(s)) = Len(s) - 1
      /\ \A i \in 1..Len(Tail(s)) : Tail(s)[i] = s[i + 1]
  BY HeadTailProperties
<1>2. Len(s) \in Nat /\ 1 <= Len(s)
  BY EmptySeq, LenProperties
<1>3. s[1] = Head(s)
  BY <1>2
<1>4. \A x : x \in Range(s) <=> x \in Range(Tail(s)) \/ x = Head(s)
  <2> TAKE x
  <2>1. x \in Range(s) <=> \E i \in 1..Len(s) : s[i] = x
    BY RangeOf
  <2>2. x \in Range(Tail(s)) <=> \E i \in 1..(Len(s) - 1) : s[i + 1] = x
    <3>1. x \in Range(Tail(s)) <=> \E i \in 1..Len(Tail(s)) : Tail(s)[i] = x
      BY <1>1, RangeOf
    <3>2. QED
      BY <1>1, <3>1
  <2>3. ASSUME NEW i \in 1..Len(s), i # 1 PROVE i - 1 \in 1..(Len(s) - 1) /\ s[(i - 1) + 1] = s[i]
    <3>1. i \in Int /\ (i - 1) + 1 = i /\ i - 1 \in 1..(Len(s) - 1)
      BY <1>2, <2>3
    <3>2. QED
      BY <3>1
  <2>4. x \in Range(s) => x \in Range(Tail(s)) \/ x = Head(s)
    <3> SUFFICES ASSUME NEW i \in 1..Len(s), s[i] = x, i # 1 PROVE x \in Range(Tail(s))
      BY <1>3, <2>1
    <3>1. i - 1 \in 1..(Len(s) - 1) /\ s[(i - 1) + 1] = x
      BY <2>3
    <3>2. QED
      BY <3>1, <2>2
  <2>5. x \in Range(Tail(s)) \/ x = Head(s) => x \in Range(s)
    <3>1. x = Head(s) => x \in Range(s)
      BY <1>2, <1>3, <2>1
    <3>2. ASSUME NEW i \in 1..(Len(s) - 1), s[i + 1] = x PROVE x \in Range(s)
      <4>1. i + 1 \in 1..Len(s)
        BY <1>2
      <4>2. QED
        BY <4>1, <3>2, <2>1
    <3>3. QED
      BY <3>1, <3>2, <2>2
  <2>6. QED
    BY <2>4, <2>5
<1>5. QED
  BY <1>1, <1>2, <1>3, <1>4

(* What a failed push leaves is the end of the buffer.                     *)
LEMMA NewestIsTheEnd ==
  ASSUME NEW s \in Seq(Nat)
  PROVE  /\ Newest(s) \in Seq(Nat)
         /\ Len(Newest(s)) \in Nat /\ Len(Newest(s)) <= MaxBuffer
         /\ \E k \in Nat : /\ Len(s) = k + Len(Newest(s))
                          /\ \A i \in 1..Len(Newest(s)) : Newest(s)[i] = s[k + i]
<1>1. Len(s) \in Nat /\ \A i \in 1..Len(s) : s[i] \in Nat
  BY LenProperties, ElementOfSeq
<1>2. CASE Len(s) <= MaxBuffer
  <2>1. Newest(s) = s
    BY <1>1, <1>2, SizesTyped DEF Newest
  <2>2. \A i \in 1..Len(s) : s[i] = s[0 + i]
    BY <1>1
  <2>3. 0 \in Nat /\ Len(s) = 0 + Len(s)
    BY <1>1
  <2>4. QED
    BY <1>1, <1>2, <2>1, <2>2, <2>3
<1>3. CASE Len(s) > MaxBuffer
  <2> DEFINE k == Len(s) - MaxBuffer
             t == SubSeq(s, k + 1, Len(s))
  <2>1. k \in Nat /\ Len(s) - (k + 1) + 1 = MaxBuffer
    BY <1>1, <1>3, SizesTyped
  <2>2. Newest(s) = t
    BY <1>1, <1>3, SizesTyped DEF Newest
  <2>3. /\ t \in Seq(Nat)
        /\ Len(t) = IF k + 1 <= Len(s) THEN Len(s) - (k + 1) + 1 ELSE 0
        /\ \A i \in 1..(Len(s) - (k + 1) + 1) : t[i] = s[(k + 1) + i - 1]
    <3>1. k + 1 \in Int /\ Len(s) \in Int /\ \A i \in (k + 1)..Len(s) : s[i] \in Nat
      BY <1>1, <2>1
    <3> HIDE DEF k
    <3>2. QED
      BY <3>1, SubSeqProperties
  <2> HIDE DEF k, t
  <2>4. Len(t) = MaxBuffer
    BY <1>1, <1>3, <2>1, <2>3, SizesTyped
  <2>5. \A i \in 1..MaxBuffer : t[i] = s[k + i]
    <3> SUFFICES ASSUME NEW i \in 1..MaxBuffer PROVE t[i] = s[k + i]
      OBVIOUS
    <3>1. (k + 1) + i - 1 = k + i
      BY <2>1, SizesTyped
    <3>2. QED
      BY <2>1, <2>3, <3>1
  <2>6. Len(s) = k + MaxBuffer
    BY <1>1, <2>1, SizesTyped DEF k
  <2>7. \E m \in Nat : Len(s) = m + Len(t) /\ \A i \in 1..Len(t) : t[i] = s[m + i]
    BY <2>1, <2>4, <2>5, <2>6
  <2>8. t \in Seq(Nat) /\ Len(t) \in Nat /\ Len(t) <= MaxBuffer
    BY <2>3, <2>4, SizesTyped
  <2>9. QED
    BY <2>2, <2>7, <2>8
<1>4. QED
  BY <1>1, <1>2, <1>3, SizesTyped

LEMMA NewestFacts ==
  ASSUME NEW s \in Seq(Nat), Increasing(s), Flush \notin Range(s)
  PROVE  /\ Range(Newest(s)) \subseteq Range(s)
         /\ Increasing(Newest(s))
         /\ \A x \in Range(s) \ Range(Newest(s)), y \in Range(Newest(s)) : x < y
<1> DEFINE t == Newest(s)
<1>1. t \in Seq(Nat) /\ Len(t) \in Nat
  BY NewestIsTheEnd
<1>2. PICK k \in Nat : Len(s) = k + Len(t) /\ \A i \in 1..Len(t) : t[i] = s[k + i]
  BY NewestIsTheEnd
<1> HIDE DEF t
<1>3. \A x : x \in Range(s) <=> \E i \in 1..Len(s) : s[i] = x
  BY RangeOf
<1>4. \A x : x \in Range(t) <=> \E i \in 1..Len(t) : t[i] = x
  BY <1>1, RangeOf
<1>5. \A i \in 1..Len(t) : k + i \in 1..Len(s)
  BY <1>1, <1>2
<1>6. Range(t) \subseteq Range(s)
  BY <1>2, <1>3, <1>4, <1>5
<1>7. \A i \in 1..Len(s) : s[i] # Flush
  BY <1>3
<1>8. \A i, j \in 1..Len(s) : i < j => s[i] < s[j]
  BY <1>7 DEF Increasing
<1>9. Increasing(t)
  <2> SUFFICES ASSUME NEW i \in 1..Len(t), NEW j \in 1..Len(t), i < j PROVE t[i] < t[j]
    BY DEF Increasing
  <2>1. k + i < k + j
    BY <1>1
  <2>2. QED
    BY <1>2, <1>5, <1>8, <2>1
<1>10. ASSUME NEW x \in Range(s) \ Range(t), NEW y \in Range(t) PROVE x < y
  <2>1. PICK i \in 1..Len(s) : s[i] = x
    BY <1>3, <1>10
  <2>2. PICK j \in 1..Len(t) : t[j] = y
    BY <1>4
  <2>3. i <= k
    <3>1. SUFFICES ASSUME i > k PROVE FALSE
      BY <1>1, <1>2
    <3>2. i - k \in 1..Len(t) /\ k + (i - k) = i
      BY <1>1, <1>2, <3>1
    <3>3. t[i - k] = x
      BY <1>2, <2>1, <3>2
    <3>4. QED
      BY <1>4, <1>10, <3>2, <3>3
  <2>4. i < k + j
    BY <1>1, <1>2, <2>3
  <2>5. QED
    BY <1>2, <1>5, <1>8, <2>1, <2>2, <2>4
<1>11. QED
  BY <1>6, <1>9, <1>10 DEF t

-----------------------------------------------------------------------------
(* What each step does to the queue.                                       *)

LEMMA EmittedQueue ==
  ASSUME NEW c, NEW b, NEW r, NEW d, NEW l, NEW n, Queue(c, b, r, d, l, n)
  PROVE  Queue(Append(c, n + 1), b, r, d, l, n + 1)
<1> USE DEF Queue
<1> DEFINE cc == Append(c, n + 1)
<1>1. /\ cc \in Seq(Nat) /\ Len(c) \in Nat /\ Len(cc) = Len(c) + 1
      /\ \A i \in 1..Len(c) : cc[i] = c[i]
      /\ cc[Len(c) + 1] = n + 1
      /\ Range(cc) = Range(c) \cup {n + 1}
  BY AppendFacts, LenProperties DEF Numbered
<1> HIDE DEF cc
<1>2. n \in Nat /\ \A i \in 1..Len(c) : c[i] \in 0..n
  BY RangeOf DEF Numbered
<1>3. Numbered(cc, b, r, d, l, n + 1)
  BY <1>1 DEF Numbered
<1>4. Increasing(cc)
  <2> SUFFICES ASSUME NEW i \in 1..Len(cc), NEW j \in 1..Len(cc), i < j,
                      cc[i] # Flush, cc[j] # Flush
               PROVE  cc[i] < cc[j]
    BY DEF Increasing
  <2>1. i \in 1..Len(c)
    BY <1>1
  <2>2. CASE j \in 1..Len(c)
    BY <1>1, <2>1, <2>2 DEF Ordered, Increasing
  <2>3. CASE j = Len(c) + 1
    <3>1. cc[i] \in 0..n /\ cc[j] = n + 1
      BY <1>1, <1>2, <2>1, <2>3
    <3>2. QED
      BY <1>2, <3>1
  <2>4. QED
    BY <1>1, <2>2, <2>3
<1>5. Ordered(cc, b, d)
  <2>1. \A x \in Range(b) \cup d : x < n + 1
    <3>1. \A x \in Range(b) \cup d : x \in 1..n
      BY DEF Numbered
    <3>2. QED
      BY <1>2, <3>1
  <2>2. QED
    BY <1>1, <1>4, <2>1 DEF Ordered
<1>6. Accounted(cc, b, r, d, l, n + 1)
  <2>1. 1..(n + 1) = (1..n) \cup {n + 1}
    BY DEF Numbered
  <2>2. QED
    BY <1>1, <2>1 DEF Accounted
<1>7. QED
  BY <1>3, <1>5, <1>6 DEF cc

LEMMA AskedQueue ==
  ASSUME NEW c, NEW b, NEW r, NEW d, NEW l, NEW n, Queue(c, b, r, d, l, n)
  PROVE  Queue(Append(c, Flush), b, r, d, l, n)
<1> USE DEF Queue
<1> DEFINE cc == Append(c, Flush)
<1>1. /\ cc \in Seq(Nat) /\ Len(c) \in Nat /\ Len(cc) = Len(c) + 1
      /\ \A i \in 1..Len(c) : cc[i] = c[i]
      /\ cc[Len(c) + 1] = Flush
      /\ Range(cc) = Range(c) \cup {Flush}
  BY AppendFacts, LenProperties DEF Numbered, Flush
<1> HIDE DEF cc
<1>2. Numbered(cc, b, r, d, l, n)
  BY <1>1 DEF Numbered, Flush
<1>3. Increasing(cc)
  <2> SUFFICES ASSUME NEW i \in 1..Len(cc), NEW j \in 1..Len(cc), i < j,
                      cc[i] # Flush, cc[j] # Flush
               PROVE  cc[i] < cc[j]
    BY DEF Increasing
  <2>1. i \in 1..Len(c) /\ j \in 1..Len(c)
    BY <1>1
  <2>2. QED
    BY <1>1, <2>1 DEF Ordered, Increasing
<1>4. Ordered(cc, b, d)
  BY <1>1, <1>3 DEF Ordered
<1>5. Accounted(cc, b, r, d, l, n)
  BY <1>1 DEF Accounted
<1>6. QED
  BY <1>2, <1>4, <1>5 DEF cc

(* Of the rest of the channel, and its head.                               *)
LEMMA HeadAndTail ==
  ASSUME NEW c \in Seq(Nat), c # <<>>, Increasing(c)
  PROVE  /\ Tail(c) \in Seq(Nat) /\ Increasing(Tail(c))
         /\ Range(c) = Range(Tail(c)) \cup {Head(c)}
         /\ Head(c) # Flush => \A y \in Range(Tail(c)) \ {Flush} : Head(c) < y
<1> DEFINE t == Tail(c)
<1>1. /\ t \in Seq(Nat) /\ Len(c) \in Nat /\ 1 <= Len(c) /\ c[1] = Head(c)
      /\ Len(t) = Len(c) - 1
      /\ \A i \in 1..Len(t) : t[i] = c[i + 1]
      /\ Range(c) = Range(t) \cup {Head(c)}
  BY TailFacts
<1> HIDE DEF t
<1>2. \A i \in 1..Len(t) : i + 1 \in 1..Len(c) /\ 1 < i + 1
  BY <1>1
<1>3. Increasing(t)
  <2> SUFFICES ASSUME NEW i \in 1..Len(t), NEW j \in 1..Len(t), i < j,
                      t[i] # Flush, t[j] # Flush
               PROVE  t[i] < t[j]
    BY DEF Increasing
  <2>1. i + 1 < j + 1
    BY <1>1
  <2>2. QED
    BY <1>1, <1>2, <2>1 DEF Increasing
<1>4. ASSUME Head(c) # Flush, NEW y \in Range(t) \ {Flush} PROVE Head(c) < y
  <2>1. PICK i \in 1..Len(t) : t[i] = y
    BY <1>1, RangeOf
  <2>2. 1 \in 1..Len(c)
    BY <1>1
  <2>3. QED
    BY <1>1, <1>2, <1>4, <2>1, <2>2 DEF Increasing
<1>5. QED
  BY <1>1, <1>3, <1>4 DEF t

LEMMA ReceivedQueue ==
  ASSUME NEW c, NEW b, NEW r, NEW d, NEW l, NEW n, Queue(c, b, r, d, l, n),
         c # <<>>, Head(c) # Flush
  PROVE  Queue(Tail(c), Append(b, Head(c)), r, d, l, n)
<1> USE DEF Queue
<1> DEFINE t == Tail(c)
           e == Head(c)
           bb == Append(b, e)
<1>1. /\ t \in Seq(Nat) /\ Increasing(t)
      /\ Range(c) = Range(t) \cup {e}
      /\ \A y \in Range(t) \ {Flush} : e < y
  BY HeadAndTail DEF Numbered, Ordered
<1>2. e \in 1..n
  BY <1>1 DEF Numbered, Flush
<1>3. /\ bb \in Seq(Nat) /\ Len(b) \in Nat /\ Len(bb) = Len(b) + 1
      /\ \A i \in 1..Len(b) : bb[i] = b[i]
      /\ bb[Len(b) + 1] = e
      /\ Range(bb) = Range(b) \cup {e}
  BY <1>2, AppendFacts, LenProperties DEF Numbered
<1> HIDE DEF t, e, bb
<1>4. Numbered(t, bb, r, d, l, n)
  BY <1>1, <1>2, <1>3 DEF Numbered
<1>5. \A x \in Range(b) : x < e
  BY <1>1, <1>2 DEF Ordered, Flush
<1>6. Increasing(bb)
  <2> SUFFICES ASSUME NEW i \in 1..Len(bb), NEW j \in 1..Len(bb), i < j,
                      bb[i] # Flush, bb[j] # Flush
               PROVE  bb[i] < bb[j]
    BY DEF Increasing
  <2>1. i \in 1..Len(b)
    BY <1>3
  <2>2. CASE j \in 1..Len(b)
    BY <1>3, <2>1, <2>2 DEF Ordered, Increasing
  <2>3. CASE j = Len(b) + 1
    <3>1. b[i] \in Range(b)
      BY <2>1, RangeOf DEF Numbered
    <3>2. QED
      BY <1>3, <1>5, <2>1, <2>3, <3>1
  <2>4. QED
    BY <1>3, <2>2, <2>3
<1>7. Ordered(t, bb, d)
  <2>1. \A x \in Range(bb), y \in Range(t) \ {Flush} : x < y
    BY <1>1, <1>3 DEF Ordered
  <2>2. \A x \in d, y \in (Range(t) \ {Flush}) \cup Range(bb) : x < y
    BY <1>1, <1>2, <1>3 DEF Ordered, Flush
  <2>3. QED
    BY <1>1, <1>6, <2>1, <2>2 DEF Ordered
<1>8. Accounted(t, bb, r, d, l, n)
  BY <1>1, <1>3 DEF Accounted
<1>9. QED
  BY <1>4, <1>7, <1>8 DEF t, bb, e

LEMMA AskedForQueue ==
  ASSUME NEW c, NEW b, NEW r, NEW d, NEW l, NEW n, Queue(c, b, r, d, l, n),
         c # <<>>, Head(c) = Flush
  PROVE  Queue(Tail(c), b, r, d, l, n)
<1> USE DEF Queue
<1>1. /\ Tail(c) \in Seq(Nat) /\ Increasing(Tail(c))
      /\ Range(c) = Range(Tail(c)) \cup {Flush}
  BY HeadAndTail DEF Numbered, Ordered
<1>2. Numbered(Tail(c), b, r, d, l, n)
  BY <1>1 DEF Numbered
<1>3. Ordered(Tail(c), b, d)
  BY <1>1 DEF Ordered
<1>4. Accounted(Tail(c), b, r, d, l, n)
  BY <1>1 DEF Accounted, Flush
<1>5. QED
  BY <1>2, <1>3, <1>4

(* A push stores the next entries there are: whatever is before one of     *)
(* them is stored, or before it in the buffer, or will never come.         *)
LEMMA RowsAfterPush ==
  ASSUME NEW c, NEW b, NEW r, NEW d, NEW l, NEW n, Queue(c, b, r, d, l, n)
  PROVE  RowsInOrder(r \o b, d, l)
<1> USE DEF Queue
<1> DEFINE rb == r \o b
<1>1. /\ Len(r) \in Nat /\ Len(b) \in Nat /\ Len(rb) = Len(r) + Len(b)
      /\ \A i \in 1..Len(r) : rb[i] = r[i]
      /\ \A i \in 1..Len(b) : rb[Len(r) + i] = b[i]
  BY ConcatFacts DEF Numbered
<1> HIDE DEF rb
<1>2. n \in Nat /\ \A i \in 1..Len(b) : b[i] \in 1..n
  BY RangeOf DEF Numbered
<1>3. SUFFICES ASSUME NEW i \in 1..Len(rb), NEW e \in 1..(rb[i] - 1), e \notin d \cup l
               PROVE  \E j \in 1..(i - 1) : rb[j] = e
  BY DEF RowsInOrder, rb
<1>4. CASE i \in 1..Len(r)
  <2>1. PICK j \in 1..(i - 1) : r[j] = e
    BY <1>1, <1>3, <1>4 DEF RowsInOrder
  <2>2. j \in 1..Len(r)
    BY <1>1, <1>4
  <2>3. QED
    BY <1>1, <2>1, <2>2
<1>5. CASE i \notin 1..Len(r)
  <2>1. PICK k \in 1..Len(b) : i = Len(r) + k
    <3>1. i - Len(r) \in 1..Len(b) /\ i = Len(r) + (i - Len(r))
      BY <1>1, <1>5
    <3>2. QED
      BY <3>1
  <2>2. rb[i] = b[k] /\ b[k] \in 1..n /\ b[k] \in Range(b)
    BY <1>1, <1>2, <2>1, RangeOf DEF Numbered
  <2>3. e \in 1..n /\ e < b[k] /\ e # Flush
    BY <1>2, <2>2 DEF Flush
  <2>4. e \in Range(r) \cup Range(b)
    <3>1. e \notin Range(c)
      BY <2>2, <2>3 DEF Ordered
    <3>2. QED
      BY <1>3, <2>3, <3>1 DEF Accounted
  <2>5. CASE e \in Range(r)
    <3>1. PICK j \in 1..Len(r) : r[j] = e
      BY <2>5, RangeOf DEF Numbered
    <3>2. j \in 1..(i - 1) /\ rb[j] = e
      BY <1>1, <2>1, <3>1
    <3>3. QED
      BY <3>2
  <2>6. CASE e \in Range(b)
    <3>1. PICK m \in 1..Len(b) : b[m] = e
      BY <2>6, RangeOf DEF Numbered
    <3>2. m < k
      <4>1. SUFFICES ASSUME k < m PROVE FALSE
        BY <1>1, <2>3, <3>1
      <4>2. b[k] # Flush /\ b[m] # Flush
        BY <2>2, <2>3, <3>1 DEF Flush
      <4>3. b[k] < b[m]
        BY <4>1, <4>2 DEF Ordered, Increasing
      <4>4. QED
        BY <1>2, <2>2, <2>3, <3>1, <4>3
    <3>3. Len(r) + m \in 1..(i - 1) /\ rb[Len(r) + m] = e
      BY <1>1, <2>1, <3>1, <3>2
    <3>4. QED
      BY <3>3
  <2>7. QED
    BY <2>4, <2>5, <2>6
<1>6. QED
  BY <1>4, <1>5

LEMMA StoredQueue ==
  ASSUME NEW c, NEW b, NEW r, NEW d, NEW l, NEW n, Queue(c, b, r, d, l, n)
  PROVE  Queue(c, <<>>, r \o b, d, l, n)
<1>1. r \o b \in Seq(Nat) /\ Range(r \o b) = Range(r) \cup Range(b)
  BY ConcatFacts DEF Queue, Numbered
<1>2. Numbered(c, <<>>, r \o b, d, l, n)
  BY <1>1, RangeOfEmpty DEF Queue, Numbered
<1>3. Ordered(c, <<>>, d)
  BY RangeOfEmpty DEF Queue, Ordered
<1>4. Accounted(c, <<>>, r \o b, d, l, n)
  BY <1>1 DEF Queue, Accounted
<1>5. QED
  BY <1>2, <1>3, <1>4, RowsAfterPush DEF Queue

LEMMA CutBuffer ==
  ASSUME NEW c, NEW b, NEW r, NEW d, NEW l, NEW n, Queue(c, b, r, d, l, n)
  PROVE  /\ Newest(b) \in Seq(Nat) /\ Range(Newest(b)) \subseteq Range(b)
         /\ Increasing(Newest(b))
         /\ \A x \in Range(b) \ Range(Newest(b)), y \in Range(Newest(b)) : x < y
<1>1. b \in Seq(Nat) /\ Increasing(b) /\ Flush \notin Range(b)
  BY DEF Queue, Numbered, Ordered, Flush
<1>2. QED
  BY <1>1, NewestIsTheEnd, NewestFacts

LEMMA StoredAndCutQueue ==
  ASSUME NEW c, NEW b, NEW r, NEW d, NEW l, NEW n, Queue(c, b, r, d, l, n)
  PROVE  Queue(c, Newest(b), r \o b, d, l, n)
<1>1. r \o b \in Seq(Nat) /\ Range(r \o b) = Range(r) \cup Range(b)
  BY ConcatFacts DEF Queue, Numbered
<1>2. Numbered(c, Newest(b), r \o b, d, l, n)
  BY <1>1, CutBuffer DEF Queue, Numbered
<1>3. Ordered(c, Newest(b), d)
  BY CutBuffer DEF Queue, Ordered
<1>4. Accounted(c, Newest(b), r \o b, d, l, n)
  BY <1>1 DEF Queue, Accounted
<1>5. QED
  BY <1>2, <1>3, <1>4, RowsAfterPush DEF Queue

(* The cap discards what is older than everything it leaves.               *)
LEMMA CutQueue ==
  ASSUME NEW c, NEW b, NEW r, NEW d, NEW l, NEW n, Queue(c, b, r, d, l, n)
  PROVE  Queue(c, Newest(b), r, d \cup (Range(b) \ Range(Newest(b))), l, n)
<1> DEFINE dd == d \cup (Range(b) \ Range(Newest(b)))
<1>1. Numbered(c, Newest(b), r, dd, l, n)
  BY CutBuffer DEF Queue, Numbered
<1>2. Ordered(c, Newest(b), dd)
  <2>1. ASSUME NEW x \in dd, NEW y \in (Range(c) \ {Flush}) \cup Range(Newest(b))
        PROVE  x < y
    BY CutBuffer DEF Queue, Ordered
  <2>2. QED
    BY <2>1, CutBuffer DEF Queue, Ordered
<1>3. Accounted(c, Newest(b), r, dd, l, n)
  BY CutBuffer DEF Queue, Accounted
<1>4. RowsInOrder(r, dd, l)
  BY DEF Queue, RowsInOrder
<1>5. QED
  BY <1>1, <1>2, <1>3, <1>4 DEF Queue

LEMMA GoneQueue ==
  ASSUME NEW c, NEW b, NEW r, NEW d, NEW l, NEW n, Queue(c, b, r, d, l, n)
  PROVE  Queue(<<>>, <<>>, r, d, l \cup ((Entries(c) \cup Entries(b)) \ Range(r)), n)
<1> DEFINE ll == l \cup ((Entries(c) \cup Entries(b)) \ Range(r))
<1>1. Entries(c) \subseteq 1..n /\ Entries(b) \subseteq 1..n
  BY DEF Queue, Numbered, Entries, Flush
<1>2. Numbered(<<>>, <<>>, r, d, ll, n)
  BY <1>1, RangeOfEmpty DEF Queue, Numbered
<1>3. Ordered(<<>>, <<>>, d)
  BY RangeOfEmpty DEF Ordered
<1>4. Accounted(<<>>, <<>>, r, d, ll, n)
  BY DEF Queue, Accounted, Entries, Flush
<1>5. RowsInOrder(r, d, ll)
  BY DEF Queue, RowsInOrder
<1>6. QED
  BY <1>2, <1>3, <1>4, <1>5 DEF Queue

-----------------------------------------------------------------------------
(* The inductive invariant: the queue, the room a buffer has for the next  *)
(* entry, and where the request to flush stands.                           *)

Held == Queue(channel, buffer, rows, dropped, lost, emitted)

Control ==
  /\ phase \in Phase
  /\ shipper \in {"none", "select", "pushing", "pushingForFlush"}
  /\ shipper # "none" <=> phase \in {"spawned", "running", "flushing"}
  /\ Pushing => buffer # <<>>
  /\ acked \in BOOLEAN
  /\ lostAnswers \in Nat
  /\ logFaults \in Nat

HasRoom == WithinBounds(buffer) /\ (~Pushing => Len(buffer) < MaxBatch \/ Len(buffer) <= MaxBuffer)

Asked == acked \/ shipper = "pushingForFlush"
Barrier ==
  /\ fatal \in 0..emitted
  /\ Asked => phase = "flushing" /\ \A e \in Entries(channel) : e > fatal
  /\ \A i \in 1..Len(channel) : channel[i] = Flush =>
       /\ phase = "flushing"
       /\ \A j \in 1..Len(channel) : i < j /\ channel[j] # Flush => channel[j] > fatal

DeviceLogInv == Held /\ Control /\ HasRoom /\ Barrier

LEMMA HeldTyped ==
  ASSUME Held
  PROVE  /\ emitted \in Nat
         /\ channel \in Seq(Nat) /\ buffer \in Seq(Nat) /\ rows \in Seq(Nat)
         /\ Len(channel) \in Nat /\ Len(buffer) \in Nat
         /\ Entries(buffer) = Range(buffer)
         /\ Range(channel) \subseteq 0..emitted
<1>1. /\ emitted \in Nat
      /\ channel \in Seq(Nat) /\ buffer \in Seq(Nat) /\ rows \in Seq(Nat)
      /\ Range(channel) \subseteq 0..emitted /\ Range(buffer) \subseteq 1..emitted
  BY DEF Held, Queue, Numbered
<1>2. QED
  BY <1>1, LenProperties DEF Entries, Flush

LEMMA InitDeviceLogInv == DeviceLogInit => DeviceLogInv
<1> SUFFICES ASSUME DeviceLogInit PROVE DeviceLogInv
  OBVIOUS
<1>1. Held
  <2>1. Numbered(<<>>, <<>>, <<>>, {}, {}, 0)
    BY RangeOfEmpty DEF Numbered
  <2>2. Ordered(<<>>, <<>>, {})
    BY RangeOfEmpty DEF Ordered
  <2>3. Accounted(<<>>, <<>>, <<>>, {}, {}, 0)
    BY DEF Accounted
  <2>4. RowsInOrder(<<>>, {}, {})
    BY RangeOfEmpty DEF RowsInOrder
  <2>5. QED
    BY <2>1, <2>2, <2>3, <2>4 DEF DeviceLogInit, Held, Queue
<1>2. Control
  BY DEF DeviceLogInit, Control, Phase, Pushing
<1>3. HasRoom
  BY RangeOfEmpty, SizesTyped DEF DeviceLogInit, HasRoom, WithinBounds
<1>4. Barrier
  BY RangeOfEmpty DEF DeviceLogInit, Barrier, Asked
<1>5. QED
  BY <1>1, <1>2, <1>3, <1>4 DEF DeviceLogInv

(* The request to flush is where it was, or nearer to its answer.          *)
LEMMA BarrierStays ==
  ASSUME Barrier, UNCHANGED <<channel, fatal, emitted>>, Asked' => Asked,
         phase' = phase \/ phase # "flushing"
  PROVE  Barrier'
BY DEF Barrier, Asked, Entries

LEMMA BarrierEmitted ==
  ASSUME Held, Barrier, UNCHANGED <<phase, fatal>>, Asked' => Asked,
         emitted' = emitted + 1, channel' = Append(channel, emitted + 1)
  PROVE  Barrier'
<1>1. /\ Len(channel) \in Nat /\ Len(channel') = Len(channel) + 1
      /\ \A i \in 1..Len(channel) : channel'[i] = channel[i]
      /\ channel'[Len(channel) + 1] = emitted + 1
      /\ Range(channel') = Range(channel) \cup {emitted + 1}
  BY HeldTyped, AppendFacts
<1>2. emitted \in Nat /\ fatal \in 0..emitted
  BY HeldTyped DEF Barrier
<1>3. fatal' \in 0..emitted'
  BY <1>2
<1>4. Asked' => phase' = "flushing" /\ \A e \in Entries(channel') : e > fatal'
  BY <1>1, <1>2 DEF Barrier, Entries
<1>5. ASSUME NEW i \in 1..Len(channel'), channel'[i] = Flush
      PROVE  /\ phase' = "flushing"
             /\ \A j \in 1..Len(channel') : i < j /\ channel'[j] # Flush => channel'[j] > fatal'
  <2>1. i \in 1..Len(channel) /\ channel[i] = Flush
    BY <1>1, <1>2, <1>5 DEF Flush
  <2>2. phase' = "flushing"
    BY <2>1 DEF Barrier
  <2>3. ASSUME NEW j \in 1..Len(channel'), i < j, channel'[j] # Flush PROVE channel'[j] > fatal'
    <3>1. CASE j \in 1..Len(channel)
      BY <1>1, <2>1, <2>3, <3>1 DEF Barrier
    <3>2. CASE j = Len(channel) + 1
      BY <1>1, <1>2, <3>2
    <3>3. QED
      BY <1>1, <3>1, <3>2
  <2>4. QED
    BY <2>2, <2>3
<1>6. QED
  BY <1>3, <1>4, <1>5 DEF Barrier

LEMMA BarrierReceived ==
  ASSUME Held, Barrier, UNCHANGED <<phase, fatal, emitted>>,
         channel # <<>>, channel' = Tail(channel),
         Asked' => Asked \/ Head(channel) = Flush
  PROVE  Barrier'
<1>1. /\ Len(channel) \in Nat /\ 1 <= Len(channel) /\ channel[1] = Head(channel)
      /\ channel' \in Seq(Nat)
      /\ Len(channel') = Len(channel) - 1
      /\ \A i \in 1..Len(channel') : channel'[i] = channel[i + 1]
      /\ Range(channel) = Range(channel') \cup {Head(channel)}
  BY HeldTyped, TailFacts
<1>2. \A i \in 1..Len(channel') : i + 1 \in 1..Len(channel) /\ 1 < i + 1
  BY <1>1
<1>3. fatal' \in 0..emitted'
  BY DEF Barrier
<1>4. ASSUME Head(channel) = Flush, NEW e \in Entries(channel')
      PROVE  phase = "flushing" /\ e > fatal
  <2>1. PICK i \in 1..Len(channel') : channel'[i] = e
    BY <1>1, RangeOf DEF Entries
  <2>2. 1 \in 1..Len(channel) /\ channel[i + 1] # Flush
    BY <1>1, <2>1 DEF Entries
  <2>3. QED
    BY <1>1, <1>2, <1>4, <2>1, <2>2 DEF Barrier
<1>5. Head(channel) = Flush => phase = "flushing"
  <2>1. 1 \in 1..Len(channel)
    BY <1>1
  <2>2. QED
    BY <1>1, <2>1 DEF Barrier
<1>6. Asked' => phase' = "flushing" /\ \A e \in Entries(channel') : e > fatal'
  BY <1>1, <1>4, <1>5 DEF Barrier, Entries
<1>7. ASSUME NEW i \in 1..Len(channel'), channel'[i] = Flush
      PROVE  /\ phase' = "flushing"
             /\ \A j \in 1..Len(channel') : i < j /\ channel'[j] # Flush => channel'[j] > fatal'
  <2>1. i + 1 \in 1..Len(channel) /\ channel[i + 1] = Flush
    BY <1>1, <1>2, <1>7
  <2>2. ASSUME NEW j \in 1..Len(channel'), i < j, channel'[j] # Flush PROVE channel'[j] > fatal'
    <3>1. i + 1 < j + 1 /\ j + 1 \in 1..Len(channel) /\ channel[j + 1] # Flush
      BY <1>1, <1>2, <2>2
    <3>2. QED
      BY <1>1, <2>1, <2>2, <3>1 DEF Barrier
  <2>3. QED
    BY <2>1, <2>2 DEF Barrier
<1>8. QED
  BY <1>3, <1>6, <1>7 DEF Barrier

-----------------------------------------------------------------------------
(* main and the tasks that log.                                            *)

LEMMA EmitInv ==
  ASSUME DeviceLogInv, Emit
  PROVE  DeviceLogInv'
<1> USE DEF DeviceLogInv
<1>1. /\ emitted' = emitted + 1 /\ channel' = Append(channel, emitted + 1)
      /\ UNCHANGED <<phase, shipper, buffer, acked, fatal, dropped, lost, rows,
                     lostAnswers, logFaults>>
  BY DEF Emit, historyVars
<1>2. Held'
  BY <1>1, EmittedQueue DEF Held
<1>3. Control' /\ HasRoom'
  BY <1>1 DEF Control, HasRoom, Pushing, WithinBounds
<1>4. Barrier'
  BY <1>1, BarrierEmitted DEF Asked
<1>5. QED
  BY <1>2, <1>3, <1>4

(* The steps that only move main or start a push.                          *)
LEMMA MoveInv ==
  ASSUME DeviceLogInv, Spawn \/ Run \/ StartAgain \/ Tick
  PROVE  DeviceLogInv'
<1> USE DEF DeviceLogInv
<1>1. UNCHANGED <<channel, buffer, acked, emitted, fatal, dropped, lost, rows,
                  lostAnswers, logFaults>>
  BY DEF Spawn, Run, StartAgain, Tick, historyVars
<1>2. Held'
  BY <1>1 DEF Held
<1>3. Control' /\ HasRoom'
  BY <1>1 DEF Spawn, Run, StartAgain, Tick, Control, HasRoom, Pushing, WithinBounds, Phase
<1>4. Barrier'
  <2>1. Asked' => Asked
    BY <1>1 DEF Spawn, Run, StartAgain, Tick, Asked
  <2>2. phase' = phase \/ phase # "flushing"
    BY DEF Spawn, Run, StartAgain, Tick
  <2>3. QED
    BY <1>1, <2>1, <2>2, BarrierStays
<1>5. QED
  BY <1>2, <1>3, <1>4

(* Nothing has asked for a flush before, so the one request is behind all  *)
(* entries.                                                                *)
LEMMA FailInv ==
  ASSUME DeviceLogInv, Fail
  PROVE  DeviceLogInv'
<1> USE DEF DeviceLogInv
<1> DEFINE e == emitted + 1
           c1 == Append(channel, e)
<1>1. /\ phase = "spawned" /\ phase' = "flushing"
      /\ emitted' = e /\ fatal' = e /\ channel' = channel \o <<e, Flush>>
      /\ logFaults' = logFaults + 1
      /\ UNCHANGED <<shipper, buffer, acked, dropped, lost, rows, lostAnswers>>
  BY DEF Fail, LogFault, historyVars
<1>2. emitted \in Nat /\ e \in Nat /\ channel \in Seq(Nat) /\ Flush \in Nat
  BY HeldTyped DEF Flush
<1>3. channel' = Append(c1, Flush)
  BY <1>1, <1>2
<1>4. /\ c1 \in Seq(Nat) /\ Len(channel) \in Nat /\ Len(c1) = Len(channel) + 1
      /\ \A i \in 1..Len(channel) : c1[i] = channel[i]
      /\ c1[Len(channel) + 1] = e
  BY <1>2, AppendFacts, LenProperties
<1> HIDE DEF c1
<1>5. /\ Len(channel') = Len(channel) + 2
      /\ \A i \in 1..(Len(channel) + 1) : channel'[i] = c1[i]
      /\ channel'[Len(channel) + 2] = Flush
  BY <1>2, <1>3, <1>4, AppendFacts
<1>6. Held'
  <2>1. Queue(c1, buffer, rows, dropped, lost, e)
    BY EmittedQueue DEF Held, c1
  <2>2. Queue(channel', buffer, rows, dropped, lost, e)
    BY <1>3, <2>1, AskedQueue
  <2>3. QED
    BY <1>1, <2>2 DEF Held
<1>7. Control' /\ HasRoom'
  BY <1>1 DEF Control, HasRoom, Pushing, WithinBounds, Phase
<1>8. Barrier'
  <2>1. fatal' \in 0..emitted'
    BY <1>1, <1>2
  <2>2. ~Asked'
    BY <1>1 DEF Barrier, Asked
  <2>3. ASSUME NEW i \in 1..Len(channel'), channel'[i] = Flush PROVE i = Len(channel')
    <3>1. CASE i \in 1..Len(channel)
      BY <1>1, <1>4, <1>5, <2>3, <3>1 DEF Barrier
    <3>2. CASE i = Len(channel) + 1
      BY <1>2, <1>4, <1>5, <2>3, <3>2 DEF Flush
    <3>3. QED
      BY <1>4, <1>5, <3>1, <3>2
  <2>4. Len(channel') \in Nat
    BY <1>4, <1>5
  <2>5. \A i, j \in 1..Len(channel') : channel'[i] = Flush => ~(i < j)
    BY <2>3, <2>4
  <2>6. QED
    BY <1>1, <2>1, <2>2, <2>5 DEF Barrier
<1>9. QED
  BY <1>6, <1>7, <1>8

(* The end of the process, however it comes.                               *)
LEMMA GoneInv ==
  ASSUME DeviceLogInv, FailEarly \/ ExitAfterFlush \/ EndOk \/ Crash
  PROVE  DeviceLogInv'
<1> USE DEF DeviceLogInv
<1>1. /\ phase' \in {"failed", "ended"}
      /\ lost' = lost \cup ((Entries(channel) \cup Entries(buffer)) \ Range(rows))
      /\ channel' = <<>> /\ buffer' = <<>>
      /\ shipper' = "none" /\ acked' = FALSE /\ fatal' = 0
      /\ logFaults' \in {logFaults, logFaults + 1}
      /\ UNCHANGED <<emitted, dropped, rows, lostAnswers>>
  BY DEF FailEarly, ExitAfterFlush, EndOk, Crash, Gone, LogFault
<1>2. Held'
  BY <1>1, GoneQueue DEF Held
<1>3. Control'
  <2>1. logFaults' \in Nat /\ lostAnswers' \in Nat
    BY <1>1 DEF Control
  <2>2. phase' \in Phase /\ phase' \notin {"spawned", "running", "flushing"}
    BY <1>1 DEF Phase
  <2>3. acked' \in BOOLEAN /\ ~Pushing'
    BY <1>1 DEF Pushing
  <2>4. QED
    BY <1>1, <2>1, <2>2, <2>3 DEF Control
<1>4. HasRoom'
  BY <1>1, RangeOfEmpty, SizesTyped DEF HasRoom, WithinBounds
<1>5. Barrier'
  BY <1>1, RangeOfEmpty, HeldTyped DEF Barrier, Asked, Entries
<1>6. QED
  BY <1>2, <1>3, <1>4, <1>5

-----------------------------------------------------------------------------
(* The shipper.                                                            *)

LEMMA ReceiveEntryInv ==
  ASSUME DeviceLogInv, ReceiveEntry
  PROVE  DeviceLogInv'
<1> USE DEF DeviceLogInv
<1>1. /\ shipper = "select" /\ channel # <<>> /\ Head(channel) # Flush
      /\ channel' = Tail(channel) /\ buffer' = Append(buffer, Head(channel))
      /\ shipper' = IF BatchIsFull(Len(buffer) + 1) THEN "pushing" ELSE "select"
      /\ UNCHANGED <<phase, acked, emitted, fatal, dropped, lost, rows,
                     lostAnswers, logFaults>>
  BY DEF ReceiveEntry, historyVars
<1>2. Held'
  BY <1>1, ReceivedQueue DEF Held
<1>3. Len(buffer) \in Nat /\ Len(buffer') = Len(buffer) + 1
  BY <1>1, HeldTyped, TailFacts, AppendFacts
<1>4. buffer' # <<>>
  BY <1>3, RangeOfEmpty
<1>5. Control'
  BY <1>1, <1>4 DEF Control, Pushing, Phase
<1>6. HasRoom'
  BY <1>1, <1>3, SizesTyped DEF HasRoom, Pushing, WithinBounds, BatchIsFull
<1>7. Barrier'
  BY <1>1, BarrierReceived DEF Asked
<1>8. QED
  BY <1>2, <1>5, <1>6, <1>7

LEMMA ReceiveFlushInv ==
  ASSUME DeviceLogInv, ReceiveFlush
  PROVE  DeviceLogInv'
<1> USE DEF DeviceLogInv
<1>1. /\ shipper = "select" /\ channel # <<>> /\ Head(channel) = Flush
      /\ channel' = Tail(channel) /\ acked' = (buffer = <<>>)
      /\ shipper' = IF buffer = <<>> THEN "select" ELSE "pushingForFlush"
      /\ UNCHANGED <<phase, buffer, emitted, fatal, dropped, lost, rows,
                     lostAnswers, logFaults>>
  BY DEF ReceiveFlush, historyVars
<1>2. Held'
  BY <1>1, AskedForQueue DEF Held
<1>3. Control'
  BY <1>1 DEF Control, Pushing, Phase
<1>4. HasRoom'
  BY <1>1 DEF HasRoom, Pushing, WithinBounds
<1>5. Barrier'
  BY <1>1, BarrierReceived DEF Asked
<1>6. QED
  BY <1>2, <1>3, <1>4, <1>5

(* After a push, whatever it leaves of the buffer, there is room, and the  *)
(* flush it was for is answered.                                           *)
LEMMA PushReturnsInv ==
  ASSUME DeviceLogInv, PushReturns(buffer'), UNCHANGED phase,
         Len(buffer') <= MaxBuffer, Len(buffer') \in Nat,
         lostAnswers' \in Nat, logFaults' \in Nat
  PROVE  Control' /\ HasRoom' /\ (Asked' => Asked)
<1> USE DEF DeviceLogInv
<1>1. shipper' = "select" /\ acked' = (acked \/ shipper = "pushingForFlush") /\ Pushing
  BY DEF PushReturns
<1>2. Control'
  BY <1>1 DEF Control, Pushing, Phase
<1>3. HasRoom'
  BY <1>1, SizesTyped DEF HasRoom, Pushing, WithinBounds
<1>4. Asked' => Asked
  BY <1>1 DEF Asked
<1>5. QED
  BY <1>2, <1>3, <1>4

LEMMA PushStoredInv ==
  ASSUME DeviceLogInv, PushStored
  PROVE  DeviceLogInv'
<1> USE DEF DeviceLogInv
<1>1. /\ rows' = rows \o buffer /\ buffer' = <<>> /\ PushReturns(buffer')
      /\ UNCHANGED <<phase, channel, emitted, fatal, dropped, lost, lostAnswers, logFaults>>
  BY DEF PushStored, PushReturns, historyVars
<1>2. Held'
  BY <1>1, StoredQueue DEF Held
<1>3. Len(buffer') <= MaxBuffer /\ Len(buffer') \in Nat
  BY <1>1, RangeOfEmpty, SizesTyped
<1>4. Control' /\ HasRoom' /\ (Asked' => Asked)
  BY <1>1, <1>3, PushReturnsInv DEF Control
<1>5. Barrier'
  BY <1>1, <1>4, BarrierStays
<1>6. QED
  BY <1>2, <1>4, <1>5

LEMMA CutInv ==
  ASSUME DeviceLogInv, NEW stored, DropOldest(stored), UNCHANGED phase,
         lostAnswers' \in Nat, logFaults' \in Nat
  PROVE  /\ Control' /\ HasRoom' /\ (Asked' => Asked)
         /\ buffer' = Newest(buffer)
         /\ dropped' = dropped \cup (Range(buffer) \ (Range(Newest(buffer)) \cup stored))
<1>1. buffer' = Newest(buffer) /\ PushReturns(buffer')
  BY DEF DropOldest, PushReturns
<1>2. Len(buffer') <= MaxBuffer /\ Len(buffer') \in Nat
  BY <1>1, HeldTyped, NewestIsTheEnd DEF DeviceLogInv
<1>3. Range(Newest(buffer)) \subseteq Range(buffer)
  BY CutBuffer DEF DeviceLogInv, Held
<1>4. dropped' = dropped \cup (Range(buffer) \ (Range(Newest(buffer)) \cup stored))
  <2>1. Entries(buffer) = Range(buffer)
    BY HeldTyped DEF DeviceLogInv
  <2>2. Entries(Newest(buffer)) = Range(Newest(buffer))
    BY <1>3, <2>1 DEF Entries
  <2>3. QED
    BY <2>1, <2>2 DEF DropOldest
<1>5. Control' /\ HasRoom' /\ (Asked' => Asked)
  BY <1>1, <1>2, PushReturnsInv
<1>6. QED
  BY <1>1, <1>4, <1>5

LEMMA PushFailsInv ==
  ASSUME DeviceLogInv, PushTooLarge \/ PushFails
  PROVE  DeviceLogInv'
<1> USE DEF DeviceLogInv
<1>1. /\ DropOldest({}) /\ logFaults' \in {logFaults, logFaults + 1}
      /\ UNCHANGED <<phase, channel, emitted, fatal, lost, rows, lostAnswers>>
  BY DEF PushTooLarge, PushFails, LogFault
<1>2. lostAnswers' \in Nat /\ logFaults' \in Nat
  BY <1>1 DEF Control
<1>3. /\ Control' /\ HasRoom' /\ (Asked' => Asked)
      /\ buffer' = Newest(buffer)
      /\ dropped' = dropped \cup (Range(buffer) \ Range(Newest(buffer)))
  BY <1>1, <1>2, CutInv
<1>4. Held'
  BY <1>1, <1>3, CutQueue DEF Held
<1>5. Barrier'
  BY <1>1, <1>3, BarrierStays
<1>6. QED
  BY <1>3, <1>4, <1>5

LEMMA PushAnswerLostInv ==
  ASSUME DeviceLogInv, PushAnswerLost
  PROVE  DeviceLogInv'
<1> USE DEF DeviceLogInv
<1>1. /\ DropOldest(Entries(buffer)) /\ rows' = rows \o buffer
      /\ logFaults' = logFaults + 1 /\ lostAnswers' = lostAnswers + 1
      /\ UNCHANGED <<phase, channel, emitted, fatal, lost>>
  BY DEF PushAnswerLost, LogFault
<1>2. lostAnswers' \in Nat /\ logFaults' \in Nat
  BY <1>1 DEF Control
<1>3. /\ Control' /\ HasRoom' /\ (Asked' => Asked)
      /\ buffer' = Newest(buffer)
      /\ dropped' = dropped \cup (Range(buffer) \ (Range(Newest(buffer)) \cup Entries(buffer)))
  BY <1>1, <1>2, CutInv
<1>4. dropped' = dropped
  BY <1>3, HeldTyped
<1>5. Held'
  BY <1>1, <1>3, <1>4, StoredAndCutQueue DEF Held
<1>6. Barrier'
  BY <1>1, <1>3, BarrierStays
<1>7. QED
  BY <1>3, <1>5, <1>6

LEMMA PushUnknownInv ==
  ASSUME DeviceLogInv, PushUnknown
  PROVE  DeviceLogInv'
<1> USE DEF DeviceLogInv
<1>1. /\ DropOldest({}) /\ logFaults' = logFaults + 1
      /\ emitted' = emitted + 1 /\ channel' = Append(channel, emitted + 1)
      /\ UNCHANGED <<phase, fatal, lost, rows, lostAnswers>>
  BY DEF PushUnknown, LogFault
<1>2. lostAnswers' \in Nat /\ logFaults' \in Nat
  BY <1>1 DEF Control
<1>3. /\ Control' /\ HasRoom' /\ (Asked' => Asked)
      /\ buffer' = Newest(buffer)
      /\ dropped' = dropped \cup (Range(buffer) \ Range(Newest(buffer)))
  BY <1>1, <1>2, CutInv
<1>4. Held'
  <2>1. Queue(channel, buffer', rows, dropped', lost, emitted)
    BY <1>3, CutQueue DEF Held
  <2>2. QED
    BY <1>1, <2>1, EmittedQueue DEF Held
<1>5. Barrier'
  BY <1>1, <1>3, BarrierEmitted
<1>6. QED
  BY <1>3, <1>4, <1>5

LEMMA StepDeviceLogInv == DeviceLogInv /\ [DeviceLogNext]_deviceLogVars => DeviceLogInv'
<1> SUFFICES ASSUME DeviceLogInv, [DeviceLogNext]_deviceLogVars PROVE DeviceLogInv'
  OBVIOUS
<1>1. CASE Emit
  BY <1>1, EmitInv
<1>2. CASE Spawn \/ Run \/ StartAgain \/ Tick
  BY <1>2, MoveInv
<1>3. CASE Fail
  BY <1>3, FailInv
<1>4. CASE FailEarly \/ ExitAfterFlush \/ EndOk \/ Crash
  BY <1>4, GoneInv
<1>5. CASE Receive
  BY <1>5, ReceiveEntryInv, ReceiveFlushInv DEF Receive
<1>6. CASE PushEnds \/ PushFails
  BY <1>6, PushStoredInv, PushFailsInv DEF PushEnds
<1>7. CASE PushAnswerLost
  BY <1>7, PushAnswerLostInv
<1>8. CASE PushUnknown
  BY <1>8, PushUnknownInv
<1>9. CASE UNCHANGED deviceLogVars
  <2>1. UNCHANGED <<phase, channel, shipper, buffer, acked, rows, emitted, dropped, lost, fatal,
                    lostAnswers, logFaults>>
    BY <1>9 DEF deviceLogVars, agentLogVars, historyVars
  <2>2. Held' /\ Control' /\ HasRoom' /\ Barrier'
    BY <2>1 DEF DeviceLogInv, Held, Control, HasRoom, Barrier, Asked, Pushing, WithinBounds, Entries
  <2>3. QED
    BY <2>2 DEF DeviceLogInv
<1>10. QED
  BY <1>1, <1>2, <1>3, <1>4, <1>5, <1>6, <1>7, <1>8, <1>9 DEF DeviceLogNext

-----------------------------------------------------------------------------

(* The variables of the log path keep their types, and a push never starts *)
(* with an empty buffer.                                                   *)
THEOREM DeviceLogTypeCorrect == DeviceLogSpec => []DeviceLogTypeOK
<1>1. DeviceLogInv => DeviceLogTypeOK
  <2> SUFFICES ASSUME DeviceLogInv PROVE DeviceLogTypeOK
    OBVIOUS
  <2>1. /\ emitted \in Nat /\ channel \in Seq(Nat) /\ buffer \in Seq(Nat) /\ rows \in Seq(Nat)
        /\ dropped \subseteq Nat /\ lost \subseteq Nat
    BY DEF DeviceLogInv, Held, Queue, Numbered
  <2>2. fatal \in Nat
    BY <2>1 DEF DeviceLogInv, Barrier
  <2>3. QED
    BY <2>1, <2>2 DEF DeviceLogInv, Control, DeviceLogTypeOK
<1>2. QED
  BY <1>1, InitDeviceLogInv, StepDeviceLogInv, PTL DEF DeviceLogSpec

(* Every event is stored, on its way, discarded by the cap or gone with    *)
(* its process; the cap discards the oldest; the buffer stays within the   *)
(* batch size and the cap (logging.rs:135-140, 160-188).                   *)
THEOREM NoEntryDisappears == DeviceLogSpec => []NothingIsLost
<1>1. DeviceLogInv => NothingIsLost
  <2> SUFFICES ASSUME DeviceLogInv PROVE NothingIsLost
    OBVIOUS
  <2>1. OnItsWay = (Range(channel) \ {Flush}) \cup Range(buffer)
    BY HeldTyped DEF DeviceLogInv, OnItsWay, Entries
  <2>2. 1..emitted \subseteq Range(rows) \cup OnItsWay \cup dropped \cup lost
    BY <2>1 DEF DeviceLogInv, Held, Queue, Accounted, Flush
  <2>3. \A x \in dropped, y \in OnItsWay : x < y
    BY <2>1 DEF DeviceLogInv, Held, Queue, Ordered
  <2>4. QED
    BY <2>2, <2>3 DEF DeviceLogInv, HasRoom, NothingIsLost
<1>2. QED
  BY <1>1, InitDeviceLogInv, StepDeviceLogInv, PTL DEF DeviceLogSpec

(* The cloud never has an event without the ones before it, unless they    *)
(* were discarded or lost (logging.rs:135-150, 160-169).                   *)
THEOREM RowsStayInOrder == DeviceLogSpec => []StoredInOrder
<1>1. DeviceLogInv => StoredInOrder
  <2> SUFFICES ASSUME DeviceLogInv PROVE StoredInOrder
    OBVIOUS
  <2>1. DOMAIN rows = 1..Len(rows)
    BY HeldTyped, LenProperties DEF DeviceLogInv
  <2>2. QED
    BY <2>1 DEF DeviceLogInv, Held, Queue, RowsInOrder, StoredInOrder
<1>2. QED
  BY <1>1, InitDeviceLogInv, StepDeviceLogInv, PTL DEF DeviceLogSpec

(* Once main has its answer, no event up to the fatal error is still in    *)
(* the channel, whatever was logged meanwhile (logging.rs:21-25, 142-145). *)
THEOREM FlushWaitsForEntries == DeviceLogSpec => []FlushIsABarrier
<1>1. DeviceLogInv => FlushIsABarrier
  BY DEF DeviceLogInv, Barrier, Asked, FlushIsABarrier
<1>2. QED
  BY <1>1, InitDeviceLogInv, StepDeviceLogInv, PTL DEF DeviceLogSpec

-----------------------------------------------------------------------------
(* How often the cloud has an entry.                                       *)

CopiesIn(r, e) == Cardinality({i \in DOMAIN r : r[i] = e})

LEMMA CopiesTyped ==
  ASSUME NEW r \in Seq(Nat), NEW e
  PROVE  CopiesIn(r, e) \in Nat /\ (e \notin Range(r) => CopiesIn(r, e) = 0)
<1> DEFINE C == {i \in DOMAIN r : r[i] = e}
<1>1. DOMAIN r = 1..Len(r) /\ Len(r) \in Nat
  BY LenProperties
<1>2. IsFiniteSet(C)
  <2>1. IsFiniteSet(1..Len(r))
    BY <1>1, FS_Interval
  <2>2. C \subseteq 1..Len(r)
    BY <1>1
  <2>3. QED
    BY <2>1, <2>2, FS_Subset
<1>3. e \notin Range(r) => C = {}
  BY <1>1, RangeOf
<1>4. QED
  BY <1>2, <1>3, FS_CardinalityType, FS_EmptySet DEF CopiesIn

(* A push adds one copy of what it stores, and none of what it does not.   *)
LEMMA CopiesAfterPush ==
  ASSUME NEW r \in Seq(Nat), NEW b \in Seq(Nat), NEW e,
         Increasing(b), Flush \notin Range(b)
  PROVE  /\ e \notin Range(b) => CopiesIn(r \o b, e) = CopiesIn(r, e)
         /\ CopiesIn(r \o b, e) <= CopiesIn(r, e) + 1
<1> DEFINE old == {i \in DOMAIN r : r[i] = e}
           new == {i \in DOMAIN (r \o b) : (r \o b)[i] = e}
           n   == Len(r)
<1>1. /\ r \o b \in Seq(Nat) /\ n \in Nat /\ Len(b) \in Nat
      /\ Len(r \o b) = n + Len(b)
      /\ \A i \in 1..n : (r \o b)[i] = r[i]
      /\ \A i \in 1..Len(b) : (r \o b)[n + i] = b[i]
  BY ConcatFacts
<1>2. DOMAIN r = 1..n /\ DOMAIN (r \o b) = 1..(n + Len(b))
  BY <1>1, LenProperties
<1>3. IsFiniteSet(old)
  <2>1. IsFiniteSet(1..n)
    BY <1>1, FS_Interval
  <2>2. old \subseteq 1..n
    BY <1>2
  <2>3. QED
    BY <2>1, <2>2, FS_Subset
<1>4. old \subseteq new
  BY <1>1, <1>2
<1>5. \A i \in new : i \in old \/ (i - n \in 1..Len(b) /\ b[i - n] = e)
  <2> SUFFICES ASSUME NEW i \in new, i \notin old PROVE i - n \in 1..Len(b) /\ b[i - n] = e
    OBVIOUS
  <2>1. i \in 1..(n + Len(b)) /\ i \notin 1..n
    BY <1>1, <1>2
  <2>2. i - n \in 1..Len(b) /\ n + (i - n) = i
    BY <1>1, <2>1
  <2>3. (r \o b)[n + (i - n)] = b[i - n]
    BY <1>1, <2>2
  <2>4. QED
    BY <2>2, <2>3
<1>6. CASE e \notin Range(b)
  <2>1. new = old
    BY <1>4, <1>5, <1>6, RangeOf
  <2>2. CopiesIn(r, e) \in Nat
    BY CopiesTyped
  <2>3. CopiesIn(r, e) = Cardinality(old) /\ CopiesIn(r \o b, e) = Cardinality(new)
    BY DEF CopiesIn
  <2> HIDE DEF old, new
  <2>4. CopiesIn(r, e) = CopiesIn(r \o b, e)
    BY <2>1, <2>3
  <2>5. QED
    BY <2>2, <2>4
<1>7. CASE e \in Range(b)
  <2>1. PICK k \in 1..Len(b) : b[k] = e
    BY <1>7, RangeOf
  <2>2. \A j \in 1..Len(b) : b[j] = e => j = k
    <3>1. e # Flush
      BY <1>7
    <3>2. \A i, j \in 1..Len(b) : b[i] = e /\ b[j] = e => ~(i < j)
      BY <3>1 DEF Increasing
    <3>3. QED
      BY <1>1, <2>1, <3>2
  <2>3. ASSUME NEW i \in new, i \notin old PROVE i = n + k
    <3>1. i - n = k
      BY <1>5, <2>2, <2>3
    <3>2. i \in Nat
      BY <1>1, <1>2
    <3>3. QED
      BY <1>1, <3>1, <3>2
  <2>4. new = old \/ new = old \cup {n + k}
    BY <1>4, <2>3
  <2>5. Cardinality(old \cup {n + k}) \in {Cardinality(old), Cardinality(old) + 1}
    BY <1>3, FS_AddElement
  <2>6. Cardinality(old) \in Nat
    BY <1>3, FS_CardinalityType
  <2>7. CopiesIn(r, e) = Cardinality(old) /\ CopiesIn(r \o b, e) = Cardinality(new)
    BY DEF CopiesIn
  <2> DEFINE more == old \cup {n + k}
  <2>8. Cardinality(new) <= Cardinality(old) + 1
    <3>1. new = old \/ new = more
      BY <2>4
    <3>2. Cardinality(more) \in {Cardinality(old), Cardinality(old) + 1}
      BY <2>5
    <3> HIDE DEF old, new, more
    <3>3. Cardinality(new) = Cardinality(old) \/ Cardinality(new) = Cardinality(more)
      BY <3>1, Zenon
    <3>4. QED
      BY <2>6, <3>2, <3>3
  <2>9. QED
    BY <1>7, <2>7, <2>8
<1>8. QED
  BY <1>6, <1>7

(* Of what may still be pushed, every copy there is has cost an answer.    *)
Waiting == (Range(channel) \ {Flush}) \cup Range(buffer)
Repeated ==
  /\ \A e \in Nat : CopiesIn(rows, e) <= 1 + lostAnswers
  /\ \A e \in Waiting : CopiesIn(rows, e) <= lostAnswers

(* Between pushes, only a new entry begins to wait.                        *)
LEMMA RepeatedStays ==
  ASSUME DeviceLogInv, Repeated, UNCHANGED <<rows, lostAnswers>>,
         Waiting' \subseteq Waiting \cup {emitted + 1}
  PROVE  Repeated'
<1>1. emitted + 1 \notin Range(rows) /\ rows \in Seq(Nat) /\ lostAnswers \in Nat
  BY DEF DeviceLogInv, Held, Queue, Numbered, Control
<1>2. CopiesIn(rows, emitted + 1) = 0
  BY <1>1, CopiesTyped
<1>3. \A e \in Waiting' : CopiesIn(rows, e) <= lostAnswers
  BY <1>1, <1>2 DEF Repeated
<1>4. QED
  BY <1>3 DEF Repeated

LEMMA StepRepeated ==
  ASSUME DeviceLogInv, Repeated, [DeviceLogNext]_deviceLogVars
  PROVE  Repeated'
<1>1. /\ emitted \in Nat /\ channel \in Seq(Nat) /\ buffer \in Seq(Nat) /\ rows \in Seq(Nat)
      /\ lostAnswers \in Nat /\ Increasing(buffer) /\ Flush \notin Range(buffer)
      /\ \A x \in Range(buffer), y \in Range(channel) \ {Flush} : x < y
      /\ Range(buffer) \subseteq Nat
  BY DEF DeviceLogInv, Held, Queue, Numbered, Ordered, Control, Flush
<1>2. CASE Emit
  <2>1. Range(channel') = Range(channel) \cup {emitted + 1} /\ UNCHANGED <<buffer, rows, lostAnswers>>
    BY <1>1, <1>2, AppendFacts DEF Emit
  <2>2. QED
    BY <2>1, RepeatedStays DEF Waiting
<1>3. CASE Spawn \/ Run \/ StartAgain \/ Tick \/ UNCHANGED deviceLogVars
  <2>1. UNCHANGED <<channel, buffer, rows, lostAnswers>>
    BY <1>3 DEF Spawn, Run, StartAgain, Tick, deviceLogVars, agentLogVars
  <2>2. QED
    BY <2>1, RepeatedStays DEF Waiting
<1>4. CASE Fail
  <2>1. channel' = channel \o <<emitted + 1, Flush>> /\ UNCHANGED <<buffer, rows, lostAnswers>>
    BY <1>4 DEF Fail
  <2>2. channel' = Append(Append(channel, emitted + 1), Flush)
    BY <1>1, <2>1 DEF Flush
  <2> DEFINE c == Append(channel, emitted + 1)
  <2>5. c \in Seq(Nat) /\ Range(c) = Range(channel) \cup {emitted + 1}
    BY <1>1, AppendFacts
  <2>6. Flush \in Nat
    BY DEF Flush
  <2>3. Range(channel') = Range(channel) \cup {emitted + 1} \cup {Flush}
    <3>1. channel' = Append(c, Flush)
      BY <2>2
    <3> HIDE DEF c
    <3>2. QED
      BY <2>5, <2>6, <3>1, AppendFacts
  <2>4. QED
    BY <2>1, <2>3, RepeatedStays DEF Waiting
<1>5. CASE FailEarly \/ ExitAfterFlush \/ EndOk \/ Crash
  <2>1. channel' = <<>> /\ buffer' = <<>> /\ UNCHANGED <<rows, lostAnswers>>
    BY <1>5 DEF FailEarly, ExitAfterFlush, EndOk, Crash, Gone
  <2>2. QED
    BY <2>1, RangeOfEmpty, RepeatedStays DEF Waiting
<1>6. CASE Receive
  <2>1. /\ channel # <<>> /\ channel' = Tail(channel) /\ UNCHANGED <<rows, lostAnswers>>
        /\ buffer' = buffer \/ (buffer' = Append(buffer, Head(channel)) /\ Head(channel) # Flush)
    BY <1>6 DEF Receive, ReceiveEntry, ReceiveFlush
  <2>2. Range(channel) = Range(channel') \cup {Head(channel)} /\ Head(channel) \in Nat
    BY <1>1, <2>1, TailFacts
  <2>3. Range(Append(buffer, Head(channel))) = Range(buffer) \cup {Head(channel)}
    BY <1>1, <2>2, AppendFacts
  <2>4. Waiting' \subseteq Waiting
    BY <2>1, <2>2, <2>3 DEF Waiting
  <2>5. QED
    BY <2>1, <2>4, RepeatedStays
<1>7. CASE PushStored
  <2>1. rows' = rows \o buffer /\ buffer' = <<>> /\ UNCHANGED <<channel, lostAnswers>>
    BY <1>7 DEF PushStored, PushReturns
  <2>2. Waiting' = Range(channel) \ {Flush}
    BY <2>1, RangeOfEmpty DEF Waiting
  <2>3. ASSUME NEW e \in Waiting' PROVE CopiesIn(rows', e) <= lostAnswers
    <3>1. e \notin Range(buffer) /\ e \in Waiting
      BY <1>1, <2>2, <2>3 DEF Waiting
    <3>2. QED
      BY <1>1, <2>1, <3>1, CopiesAfterPush DEF Repeated
  <2>4. ASSUME NEW e \in Nat PROVE CopiesIn(rows', e) <= 1 + lostAnswers
    <3>1. CopiesIn(rows, e) \in Nat /\ CopiesIn(rows', e) \in Nat
      BY <1>1, <2>1, CopiesTyped, ConcatFacts
    <3>2. CASE e \in Range(buffer)
      <4>1. CopiesIn(rows, e) <= lostAnswers /\ CopiesIn(rows', e) <= CopiesIn(rows, e) + 1
        BY <1>1, <2>1, <3>2, CopiesAfterPush DEF Repeated, Waiting
      <4>2. QED
        BY <1>1, <3>1, <4>1
    <3>3. CASE e \notin Range(buffer)
      BY <1>1, <2>1, <3>3, CopiesAfterPush DEF Repeated
    <3>4. QED
      BY <3>2, <3>3
  <2>5. QED
    BY <2>1, <2>3, <2>4 DEF Repeated
<1>8. CASE PushTooLarge \/ PushFails \/ PushUnknown
  <2>1. /\ buffer' = Newest(buffer) /\ UNCHANGED <<rows, lostAnswers>>
        /\ channel' = channel \/ channel' = Append(channel, emitted + 1)
    BY <1>8 DEF PushTooLarge, PushFails, PushUnknown, DropOldest, PushReturns
  <2>2. Range(Newest(buffer)) \subseteq Range(buffer)
    BY <1>1, NewestFacts
  <2>3. Range(Append(channel, emitted + 1)) = Range(channel) \cup {emitted + 1}
    BY <1>1, AppendFacts
  <2>4. Waiting' \subseteq Waiting \cup {emitted + 1}
    BY <2>1, <2>2, <2>3 DEF Waiting
  <2>5. QED
    BY <2>1, <2>4, RepeatedStays
<1>9. CASE PushAnswerLost
  <2>1. /\ rows' = rows \o buffer /\ buffer' = Newest(buffer) /\ channel' = channel
        /\ lostAnswers' = lostAnswers + 1
    BY <1>9 DEF PushAnswerLost, DropOldest, PushReturns
  <2>2. Range(Newest(buffer)) \subseteq Range(buffer)
    BY <1>1, NewestFacts
  <2>3. Waiting' \subseteq Waiting
    BY <2>1, <2>2 DEF Waiting
  <2>4. \A e : CopiesIn(rows, e) \in Nat /\ CopiesIn(rows', e) \in Nat
               /\ CopiesIn(rows', e) <= CopiesIn(rows, e) + 1
    BY <1>1, <2>1, CopiesTyped, ConcatFacts, CopiesAfterPush
  <2>5. \A e \in Nat : CopiesIn(rows', e) <= 1 + lostAnswers'
    BY <1>1, <2>1, <2>4 DEF Repeated
  <2>6. \A e \in Waiting' : CopiesIn(rows', e) <= lostAnswers'
    BY <1>1, <2>1, <2>3, <2>4 DEF Repeated
  <2>7. QED
    BY <2>5, <2>6 DEF Repeated
<1>10. QED
  BY <1>2, <1>3, <1>4, <1>5, <1>6, <1>7, <1>8, <1>9 DEF DeviceLogNext, PushEnds

LEMMA AlwaysDeviceLogInv == DeviceLogSpec => [](DeviceLogInv /\ Repeated)
<1>1. DeviceLogInit => DeviceLogInv /\ Repeated
  <2> SUFFICES ASSUME DeviceLogInit PROVE DeviceLogInv /\ Repeated
    OBVIOUS
  <2>1. rows = <<>> /\ channel = <<>> /\ buffer = <<>> /\ lostAnswers = 0
    BY DEF DeviceLogInit
  <2>2. \A e : CopiesIn(rows, e) = 0
    BY <2>1, RangeOfEmpty, CopiesTyped
  <2>3. QED
    BY <2>1, <2>2, RangeOfEmpty, InitDeviceLogInv DEF Repeated, Waiting
<1>2. DeviceLogInv /\ Repeated /\ [DeviceLogNext]_deviceLogVars => (DeviceLogInv /\ Repeated)'
  BY StepDeviceLogInv, StepRepeated
<1>3. QED
  BY <1>1, <1>2, PTL DEF DeviceLogSpec

(* An entry is stored twice only because the answer to an earlier push of  *)
(* it was lost: every copy but one has cost an answer                      *)
(* (logging.rs:164-167).                                                   *)
THEOREM RepeatsAreLostAnswers == DeviceLogSpec => []DuplicatesAreLostAnswers
<1>1. DeviceLogInv /\ Repeated => DuplicatesAreLostAnswers
  BY DEF Repeated, DuplicatesAreLostAnswers, Copies, CopiesIn
<1>2. QED
  BY <1>1, AlwaysDeviceLogInv, PTL
=============================================================================
