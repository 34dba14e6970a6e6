--------------------------- MODULE UartLink_proofs ---------------------------
(***************************************************************************)
(* Proofs about UartLink, for any set of formats, width of the words, size *)
(* of the queues and messages.                                             *)
(*                                                                         *)
(* The emitter is only synchronised at the wake it asked for and the       *)
(* receiver at the edges it was told of: the invariant says what each end  *)
(* may rely on in between.  The wake of the emitter is the end of the      *)
(* stretch of time over which the wire follows the frame; the bits that    *)
(* the receiver has not resolved were, in their middle, at the level it    *)
(* saw last.                                                               *)
(*                                                                         *)
(* A second invariant, over the first, follows a word across the link: the *)
(* middle of a bit is never an edge of the frame, so that the two ends     *)
(* agree on the bits resolved and on the frame they are in.                *)
(***************************************************************************)
EXTENDS UartLink, TLAPS, FiniteSetTheorems, SequenceTheorems

\* The wire is the frame's from now to the wake d, which is worth its event.
Stretch(d) ==
    /\ now <= d /\ d <= TxEnd(tx)
    /\ d = TxEnd(tx) \/ TxLevel(tx, d) # line
    /\ \A t \in Nat : now <= t /\ t < d => TxLevel(tx, t) = line

Emission ==
    /\ tx.active => tx.configured /\ tx.start <= now
    /\ turn = "tx" /\ tx.active => now < TxEnd(tx)
    /\ tx.configured /\ ~tx.active => tx.queue = <<>>

Wire ==
    turn # "tx" =>
        /\ tx.active => \E d \in Nat : wakeTx = {d} /\ Stretch(d)
        /\ ~tx.active => wakeTx = {} /\ line = tx.configured

Reception ==
    /\ line \in taken
    /\ rx.receiving => rx.configured /\ rx.index <= StopIndex(rx.format)
    /\ ~rx.receiving => rx.index = 0
    /\ rx.receiving /\ ~edge => rx.last = line
    /\ turn = "rx" /\ rx.receiving => now < Middle(rx, StopIndex(rx.format))

\* The bits left to resolve are read as the level seen last.
Pending ==
    rx.receiving => \A k \in rx.index..StopIndex(rx.format) :
                        Middle(rx, k) < now => rx.last \in middle[k]

IInv == TypeOK /\ Emission /\ Wire /\ Reception /\ Pending

-----------------------------------------------------------------------------
(* Arithmetic of the bits.                                                  *)

LEMMA Quotient ==
    ASSUME NEW a \in Nat, NEW b \in Nat \ {0}
    PROVE  a \div b \in Nat /\ (a \div b) * b <= a /\ a < (a \div b + 1) * b
OBVIOUS

LEMMA Monotone ==
    ASSUME NEW a \in Nat, NEW c \in Nat, NEW b \in Nat \ {0}, a <= c
    PROVE  a \div b <= c \div b
OBVIOUS

LEMMA Exact ==
    ASSUME NEW j \in Nat, NEW b \in Nat \ {0}
    PROVE  (j * b) \div b = j
OBVIOUS

LEMMA Below ==
    ASSUME NEW a \in Nat, NEW n \in Nat, NEW b \in Nat \ {0}, a < n * b
    PROVE  a \div b < n
OBVIOUS

LEMMA Positive ==
    ASSUME NEW n \in Nat \ {0}, NEW b \in Nat \ {0}
    PROVE  n * b \in Nat \ {0}
OBVIOUS

LEMMA Growing ==
    ASSUME NEW i \in Nat, NEW j \in Nat, NEW b \in Nat \ {0}, i <= j
    PROVE  i * b \in Nat /\ j * b \in Nat /\ i * b <= j * b
OBVIOUS

\* A format has a start bit, data, and at least one stop bit.
LEMMA FormatFacts ==
    ASSUME NEW f \in Formats
    PROVE  /\ f.half \in Nat \ {0} /\ f.data \in 1..WordBits
           /\ Bit(f) \in Nat \ {0} /\ FrameTime(f) \in Nat \ {0}
           /\ FrameBits(f) \in Nat \ {0}
           /\ LastData(f) \in 1..(WordBits + 1)
           /\ StopIndex(f) \in 1..(WordBits + 1)
<1>1. /\ WordBits \in Nat
      /\ f.half \in Nat \ {0} /\ f.data \in 1..WordBits /\ f.stops \in {1, 2}
  BY UartLinkAssumption
<1>2. LastData(f) \in 1..(WordBits + 1)
  BY <1>1 DEF LastData
<1>3. FrameBits(f) \in Nat \ {0} /\ Bit(f) \in Nat \ {0}
  BY <1>1, <1>2 DEF FrameBits, Bit
<1>4. FrameTime(f) \in Nat \ {0}
  BY <1>3, Positive DEF FrameTime
<1> QED BY <1>1, <1>2, <1>3, <1>4 DEF StopIndex

LEMMA FrameBitType ==
    ASSUME NEW f \in Formats, NEW w \in Words, NEW k \in Int
    PROVE  FrameBit(f, w, k) \in BOOLEAN
<1>1. f.data \in 1..WordBits /\ WordBits \in Nat
  BY FormatFacts, UartLinkAssumption
<1>2. ParityBit(f, w) \in BOOLEAN
  BY DEF ParityBit
<1>3. k \in 1..f.data => w[k] \in BOOLEAN
  BY <1>1 DEF Words
<1> QED BY <1>2, <1>3 DEF FrameBit

-----------------------------------------------------------------------------
(* Emission.                                                                *)

LEMMA PushedType ==
    ASSUME NEW q \in Seq(Words), NEW message \in Seq(Words), Len(q) < BufLen
    PROVE  /\ Pushed(q, message) \in Seq(Words)
           /\ Len(Pushed(q, message)) < BufLen
           /\ Len(q) <= Len(Pushed(q, message))
<1> DEFINE room == BufLen - 1 - Len(q)
           m == IF Len(message) <= room THEN Len(message) ELSE room
<1>1. Len(q) \in Nat /\ Len(message) \in Nat /\ BufLen \in Nat
  BY UartLinkAssumption
<1>2. m \in 0..Len(message) /\ m <= room
  BY <1>1
<1>3. SubSeq(message, 1, m) \in Seq(Words) /\ Len(SubSeq(message, 1, m)) = m
  BY <1>1, <1>2, SubSeqProperties
<1>4. Pushed(q, message) = q \o SubSeq(message, 1, m)
  BY DEF Pushed
<1> QED BY <1>1, <1>2, <1>3, <1>4, ConcatProperties

LEMMA NoBitsType == NoBits \in Words
  BY DEF NoBits, Words

LEMMA MaskedType ==
    ASSUME NEW f, NEW w
    PROVE  Masked(f, w) \in Words
  BY DEF Masked, Words

\* A frame starts with the first word of the queue.
LEMMA KickFacts ==
    ASSUME NEW e \in Emitters, NEW at \in Nat, Len(e.queue) < BufLen
    PROVE  LET k == Kick(e, at)
           IN  /\ k \in Emitters /\ Len(k.queue) < BufLen
               /\ k.configured = e.configured /\ k.format = e.format
               /\ e.active => k = e
               /\ ~k.active => k.queue = <<>>
               /\ ~e.active /\ k.active => k.start = at
<1>1. e.queue \in Seq(Words) /\ BufLen \in Nat
  BY UartLinkAssumption DEF Emitters
<1>2. CASE ~e.active /\ e.queue # <<>>
  <2>1. /\ Head(e.queue) \in Words /\ Tail(e.queue) \in Seq(Words)
        /\ Len(Tail(e.queue)) < BufLen
    BY <1>1, <1>2, HeadTailProperties
  <2>2. Kick(e, at) = BeginFrame(e, at)
    BY <1>2 DEF Kick
  <2> QED BY <1>2, <2>1, <2>2 DEF BeginFrame, Emitters
<1>3. CASE ~(~e.active /\ e.queue # <<>>)
  BY <1>3 DEF Kick, Emitters
<1> QED BY <1>2, <1>3

LEMMA TxIdleType ==
    ASSUME NEW e \in Emitters
    PROVE  /\ TxIdle(e) \in Emitters /\ ~TxIdle(e).active
           /\ TxIdle(e).configured = e.configured
           /\ TxIdle(e).format = e.format /\ TxIdle(e).queue = e.queue
  BY NoBitsType DEF TxIdle, Emitters

\* Once advanced, the emitter is in the middle of a frame or has nothing left.
LEMMA TxAdvanceFacts ==
    ASSUME NEW e \in Emitters, NEW t \in Nat, Len(e.queue) < BufLen,
           e.active => e.start <= t
    PROVE  LET a == TxAdvance(e, t)
           IN  /\ a \in Emitters /\ Len(a.queue) < BufLen
               /\ a.configured = e.configured /\ a.format = e.format
               /\ ~e.active \/ t < TxEnd(e) => a = e
               /\ a.active => e.active /\ a.start <= t /\ t < TxEnd(a)
               /\ e.active /\ ~a.active => a.queue = <<>>
<1> DEFINE n == (t - e.start) \div FrameTime(e.format)
           L == FrameTime(e.format)
<1>1. /\ e.queue \in Seq(Words) /\ Len(e.queue) \in Nat /\ BufLen \in Nat
      /\ e.start \in Nat /\ e.format \in Formats /\ e.active \in BOOLEAN
  BY UartLinkAssumption DEF Emitters
<1>2. L \in Nat \ {0}
  BY <1>1, FormatFacts
<1>3. TxEnd(e) = e.start + L
  BY DEF TxEnd
<1>4. CASE ~e.active \/ t < TxEnd(e)
  <2> HIDE DEF L
  <2>1. t < TxEnd(e) => ~(TxEnd(e) <= t)
    BY <1>1, <1>2, <1>3
  <2> HIDE DEF n
  <2>2. TxAdvance(e, t) = e
    BY <1>4, <2>1 DEF TxAdvance
  <2> QED BY <1>4, <2>2, <1>1
<1>5. CASE e.active /\ TxEnd(e) <= t /\ n <= Len(e.queue)
  <2>1. t - e.start \in Nat
    BY <1>1, <1>5
  <2>2. n \in Nat /\ n * L <= t - e.start /\ t - e.start < (n + 1) * L
    BY <2>1, <1>2, Quotient
  <2>3. L \div L = 1
    BY <1>2, Exact
  <2>4. 1 <= n
    BY <1>1, <1>2, <1>3, <1>5, <2>1, <2>3, Monotone
  <2>5. e.queue[n] \in Words
    BY <1>1, <1>5, <2>2, <2>4, ElementOfSeq
  <2>6. SubSeq(e.queue, n + 1, Len(e.queue)) \in Seq(Words)
        /\ Len(SubSeq(e.queue, n + 1, Len(e.queue))) < BufLen
    BY <1>1, <1>5, <2>2, <2>4, SubSeqProperties
  <2>7. n * L \in Nat /\ (n + 1) * L = n * L + L
    BY <1>2, <2>2
  <2>8. TxAdvance(e, t) =
          [e EXCEPT !.start = @ + n * L, !.word = e.queue[n],
                    !.queue = SubSeq(@, n + 1, Len(@))]
    BY <1>1, <1>2, <1>3, <1>5 DEF TxAdvance
  <2> HIDE DEF n, L
  <2>9. TxAdvance(e, t) \in Emitters
    <3>1. e.start + n * L \in Nat
      BY <1>1, <2>7
    <3> QED BY <2>5, <2>6, <2>8, <3>1 DEF Emitters
  <2>10. /\ TxAdvance(e, t).configured = e.configured
         /\ TxAdvance(e, t).format = e.format
         /\ TxAdvance(e, t).active = e.active
         /\ TxAdvance(e, t).start = e.start + n * L
         /\ TxAdvance(e, t).queue = SubSeq(e.queue, n + 1, Len(e.queue))
    BY <2>8 DEF Emitters
  <2>11. TxEnd(TxAdvance(e, t)) = e.start + n * L + L
    BY <2>10 DEF TxEnd, L
  <2>12. /\ TxAdvance(e, t).start <= t
         /\ t < TxEnd(TxAdvance(e, t))
    BY <1>1, <1>2, <2>2, <2>7, <2>10, <2>11
  <2>13. ~(~e.active \/ t < TxEnd(e))
    BY <1>1, <1>2, <1>3, <1>5
  <2> QED BY <1>5, <2>6, <2>9, <2>10, <2>12, <2>13
<1>6. CASE e.active /\ TxEnd(e) <= t /\ ~(n <= Len(e.queue))
  <2>1. TxAdvance(e, t) = [TxIdle(e) EXCEPT !.queue = <<>>]
    BY <1>1, <1>2, <1>3, <1>6 DEF TxAdvance
  <2>2. <<>> \in Seq(Words) /\ Len(<<>>) = 0
    BY EmptySeq
  <2>3. /\ TxAdvance(e, t) \in Emitters
        /\ TxAdvance(e, t).configured = e.configured
        /\ TxAdvance(e, t).format = e.format
        /\ ~TxAdvance(e, t).active
        /\ TxAdvance(e, t).queue = <<>>
    BY <2>1, <2>2, TxIdleType DEF Emitters
  <2>4. ~(~e.active \/ t < TxEnd(e))
    BY <1>1, <1>2, <1>3, <1>6
  <2> QED BY <1>1, <2>2, <2>3, <2>4, UartLinkAssumption
<1>7. TxEnd(e) \in Nat
  BY <1>1, <1>2, <1>3
<1> HIDE DEF n
<1> QED BY <1>4, <1>5, <1>6, <1>7

\* The next edge ends a stretch over which the level does not change.
LEMMA EdgeFacts ==
    ASSUME NEW e \in Emitters, NEW t \in Nat,
           e.active, e.start <= t, t < TxEnd(e),
           NEW d \in Edges(e, t), \A x \in Edges(e, t) : d <= x
    PROVE  /\ d \in Nat /\ t < d /\ d <= TxEnd(e)
           /\ d = TxEnd(e) \/ TxLevel(e, d) # TxLevel(e, t)
           /\ \A u \in Nat : t <= u /\ u < d => TxLevel(e, u) = TxLevel(e, t)
<1> DEFINE f == e.format
           b == Bit(f)
           N == FrameBits(f)
           k == BitIndex(e, t)
           bit(j) == FrameBit(f, e.word, j)
           jumps == {i \in (k + 1)..(N - 1) : bit(i) # bit(k)}
<1>1. e.start \in Nat /\ f \in Formats /\ e.word \in Words
  BY DEF Emitters
<1>2. b \in Nat \ {0} /\ N \in Nat \ {0} /\ N * b \in Nat
  BY <1>1, FormatFacts, Positive
<1>3. TxEnd(e) = e.start + N * b
  BY DEF TxEnd, FrameTime
<1>4. Edges(e, t) = {TxEnd(e)} \cup {e.start + j * b : j \in jumps}
  BY DEF Edges
<1> HIDE DEF b, N
<1>5. ASSUME NEW u \in Nat, e.start <= u, u < TxEnd(e)
      PROVE  /\ BitIndex(e, u) \in Nat /\ BitIndex(e, u) < N
             /\ e.start + BitIndex(e, u) * b <= u
             /\ u < e.start + (BitIndex(e, u) + 1) * b
             /\ TxLevel(e, u) = bit(BitIndex(e, u))
  <2>1. u - e.start \in Nat /\ u - e.start < N * b
    BY <1>1, <1>2, <1>3, <1>5
  <2>2. BitIndex(e, u) = (u - e.start) \div b
    BY DEF BitIndex, b
  <2>3. /\ BitIndex(e, u) \in Nat /\ BitIndex(e, u) * b <= u - e.start
        /\ u - e.start < (BitIndex(e, u) + 1) * b
    BY <1>2, <2>1, <2>2, Quotient
  <2>4. BitIndex(e, u) < N
    BY <1>2, <2>1, <2>2, Below
  <2>5. TxLevel(e, u) = bit(BitIndex(e, u))
    BY FrameBitType, <1>1, <2>3 DEF TxLevel
  <2>6. BitIndex(e, u) * b \in Nat /\ (BitIndex(e, u) + 1) * b \in Nat
    BY <1>2, <2>3, Growing
  <2> HIDE DEF bit
  <2> QED BY <1>1, <1>5, <2>3, <2>4, <2>5, <2>6
<1>6. /\ k \in Nat /\ k < N /\ t < e.start + (k + 1) * b
      /\ TxLevel(e, t) = bit(k)
  BY <1>5
<1>7. d <= TxEnd(e)
  BY <1>4
<1>8. ASSUME NEW j \in jumps, d = e.start + j * b
      PROVE  d \in Nat /\ t < d /\ TxLevel(e, d) # TxLevel(e, t)
  <2>1. j \in Nat /\ k + 1 <= j /\ j < N /\ bit(j) # bit(k)
    BY <1>2, <1>6
  <2>2. j * b \in Nat /\ (k + 1) * b <= j * b /\ (k + 1) * b \in Nat
    BY <2>1, <1>2, <1>6, Growing
  <2>3. d \in Nat /\ t < d
    BY <1>1, <1>6, <1>8, <2>2
  <2>4. BitIndex(e, d) = (j * b) \div b
    BY <1>1, <1>8, <2>2 DEF BitIndex, b
  <2>5. BitIndex(e, d) = j
    BY <1>2, <2>1, <2>4, Exact
  <2>6. TxLevel(e, d) = bit(j)
    BY <1>1, <2>1, <2>5, FrameBitType DEF TxLevel
  <2> HIDE DEF bit
  <2> QED BY <1>6, <2>1, <2>3, <2>6
<1>9. d \in Nat /\ t < d /\ (d = TxEnd(e) \/ TxLevel(e, d) # TxLevel(e, t))
  BY <1>1, <1>2, <1>3, <1>4, <1>8
<1>10. ASSUME NEW u \in Nat, t <= u, u < d
       PROVE  TxLevel(e, u) = TxLevel(e, t)
  <2> DEFINE j == BitIndex(e, u)
  <2>1. e.start <= u /\ u < TxEnd(e)
    BY <1>1, <1>2, <1>3, <1>7, <1>9, <1>10
  <2>2. /\ j \in Nat /\ j < N /\ e.start + j * b <= u
        /\ TxLevel(e, u) = bit(j)
    BY <1>5, <2>1
  <2>3. k <= j
    <3>1. t - e.start \in Nat /\ u - e.start \in Nat /\ t - e.start <= u - e.start
      BY <1>1, <1>10
    <3> QED BY <3>1, <1>2, Monotone DEF BitIndex, b
  <2>4. CASE j = k
    BY <2>2, <2>4, <1>6
  <2>5. CASE k < j
    <3>1. j * b \in Nat
      BY <1>2, <2>2, Growing
    <3>2. e.start + j * b < d
      BY <1>1, <1>9, <1>10, <2>2, <3>1
    <3>3. e.start + j * b \notin Edges(e, t)
      BY <1>1, <1>9, <3>1, <3>2
    <3>4. j \notin jumps
      BY <1>4, <3>3
    <3>5. j \in (k + 1)..(N - 1)
      BY <1>2, <1>6, <2>2, <2>5
    <3> HIDE DEF bit
    <3>6. bit(j) = bit(k)
      BY <3>4, <3>5
    <3> QED BY <1>6, <2>2, <3>6
  <2> HIDE DEF j
  <2> QED BY <1>6, <2>2, <2>3, <2>4, <2>5
<1> QED BY <1>7, <1>9, <1>10

-----------------------------------------------------------------------------
(* Reception.                                                               *)

LEMMA ReceiverType ==
    ASSUME NEW e \in Receivers
    PROVE  /\ e.index \in Nat /\ e.start \in Nat /\ e.receiving \in BOOLEAN
           /\ e.queue \in Seq(Words) /\ e.format \in Formats
           /\ StopIndex(e.format) \in Nat
           /\ e.format.half \in Nat \ {0} /\ Bit(e.format) \in Nat \ {0}
<1>1. /\ e.index \in Nat /\ e.start \in Nat /\ e.receiving \in BOOLEAN
      /\ e.queue \in Seq(Words) /\ e.format \in Formats
  BY DEF Receivers
<1>2. /\ StopIndex(e.format) \in 1..(WordBits + 1)
      /\ e.format.half \in Nat \ {0} /\ Bit(e.format) \in Nat \ {0}
  BY <1>1, FormatFacts
<1> QED BY <1>1, <1>2, UartLinkAssumption

LEMMA MiddleType ==
    ASSUME NEW e \in Receivers, NEW k \in Nat
    PROVE  Middle(e, k) \in Nat /\ e.start < Middle(e, k)
<1>1. /\ e.start \in Nat /\ e.format.half \in Nat \ {0}
      /\ Bit(e.format) \in Nat \ {0}
  BY ReceiverType
<1>2. k * Bit(e.format) \in Nat
  BY <1>1
<1> QED BY <1>1, <1>2 DEF Middle

LEMMA ResolvedFinite ==
    ASSUME NEW e \in Receivers, NEW t \in Nat
    PROVE  IsFiniteSet(Resolved(e, t)) /\ Cardinality(Resolved(e, t)) \in Nat
<1>1. e.index \in Int /\ StopIndex(e.format) \in Int
  BY ReceiverType
<1>2. IsFiniteSet(e.index..StopIndex(e.format))
  BY <1>1, FS_Interval
<1>3. Resolved(e, t) \subseteq e.index..StopIndex(e.format)
  BY DEF Resolved
<1> QED BY <1>2, <1>3, FS_Subset, FS_CardinalityType

\* The bits are resolved in order: those left are still ahead.
LEMMA ResolvedFirst ==
    ASSUME NEW e \in Receivers, NEW t \in Nat,
           e.receiving, e.index <= StopIndex(e.format), ~Closes(e, t)
    PROVE  LET i == e.index + Cardinality(Resolved(e, t))
           IN  /\ i \in Nat /\ i <= StopIndex(e.format)
               /\ \A k \in i..StopIndex(e.format) : t < Middle(e, k)
<1> DEFINE S == StopIndex(e.format)
           R == Resolved(e, t)
           b == Bit(e.format)
           first == e.start + 3 * e.format.half
           q == (t - first) \div b
<1>1. /\ e.index \in Nat /\ S \in Nat /\ e.index <= S /\ e.start \in Nat
      /\ first \in Nat /\ b \in Nat \ {0}
  BY ReceiverType
<1>2. \A k \in Nat : Middle(e, k) = first + k * b
  BY DEF Middle
<1>3. R = {k \in e.index..S : Middle(e, k) <= t}
  BY DEF Resolved
<1>4. t < Middle(e, S)
  <2>1. S \notin R /\ S \in e.index..S
    BY <1>1 DEF Closes
  <2>2. Middle(e, S) \in Nat
    BY <1>1, MiddleType
  <2> HIDE DEF S
  <2> QED BY <1>3, <2>1, <2>2
<1> HIDE DEF S, R, b, first
<1>5. \E m \in e.index..S : R = e.index..(m - 1) /\ \A k \in m..S : t < Middle(e, k)
  <2>1. CASE t < first
    <3>1. \A k \in Nat : t < Middle(e, k)
      <4> SUFFICES ASSUME NEW k \in Nat
                   PROVE  t < Middle(e, k)
        OBVIOUS
      <4>1. k * b \in Nat
        BY <1>1
      <4> QED BY <1>1, <1>2, <2>1, <4>1
    <3>2. \A k \in e.index..S : k \in Nat /\ Middle(e, k) \in Nat
      BY <1>1, MiddleType
    <3>3. R = e.index..(e.index - 1)
      BY <1>1, <1>3, <3>1, <3>2
    <3> QED BY <1>1, <3>1, <3>2, <3>3
  <2>2. CASE first <= t
    <3>1. t - first \in Nat
      BY <1>1, <2>2
    <3>2. q \in Nat /\ q * b <= t - first /\ t - first < (q + 1) * b
      BY <1>1, <3>1, Quotient
    <3> HIDE DEF q
    <3>3. ASSUME NEW k \in Nat
          PROVE  Middle(e, k) <= t <=> k <= q
      <4>1. CASE k <= q
        <5>1. k * b <= q * b /\ k * b \in Nat /\ q * b \in Nat
          BY <1>1, <3>2, <4>1, Growing
        <5> QED BY <1>1, <1>2, <3>2, <4>1, <5>1
      <4>2. CASE q < k
        <5>1. (q + 1) * b <= k * b /\ k * b \in Nat /\ (q + 1) * b \in Nat
          BY <1>1, <3>2, <4>2, Growing
        <5>2. t < Middle(e, k)
          BY <1>1, <1>2, <3>2, <5>1
        <5>3. Middle(e, k) \in Nat
          BY MiddleType
        <5> QED BY <3>2, <4>2, <5>2, <5>3
      <4> QED BY <3>2, <4>1, <4>2
    <3>4. q < S
      BY <1>1, <1>4, <3>2, <3>3, MiddleType
    <3>5. \A k \in e.index..S : k \in Nat /\ (k \in R <=> k <= q)
      BY <1>1, <1>3, <3>3
    <3>6. \A k \in Nat : q < k => t < Middle(e, k)
      BY <3>2, <3>3, MiddleType
    <3>7. CASE q < e.index
      <4>1. R = e.index..(e.index - 1)
        BY <1>1, <1>3, <3>2, <3>5, <3>7
      <4>2. \A k \in e.index..S : t < Middle(e, k)
        BY <1>1, <3>2, <3>6, <3>7
      <4> QED BY <1>1, <4>1, <4>2
    <3>8. CASE e.index <= q
      <4>1. R = e.index..((q + 1) - 1)
        BY <1>1, <1>3, <3>2, <3>4, <3>5, <3>8
      <4>2. \A k \in (q + 1)..S : t < Middle(e, k)
        BY <1>1, <3>2, <3>6
      <4>3. q + 1 \in e.index..S
        BY <1>1, <3>2, <3>4, <3>8
      <4> QED BY <4>1, <4>2, <4>3
    <3> QED BY <1>1, <3>2, <3>7, <3>8
  <2> QED BY <1>1, <2>1, <2>2
<1>6. PICK m \in e.index..S :
        R = e.index..(m - 1) /\ \A k \in m..S : t < Middle(e, k)
  BY <1>5
<1>7. Cardinality(R) = m - e.index
  <2>1. e.index \in Int /\ m - 1 \in Int /\ e.index <= m
    BY <1>1
  <2>2. Cardinality(e.index..(m - 1)) =
          IF e.index > m - 1 THEN 0 ELSE (m - 1) - e.index + 1
    BY <2>1, FS_Interval
  <2> QED BY <1>6, <2>1, <2>2
<1>8. e.index + Cardinality(R) = m
  BY <1>1, <1>7
<1> QED BY <1>1, <1>6, <1>8 DEF S, R

LEMMA ShiftedType ==
    ASSUME NEW e, NEW t, NEW level
    PROVE  Shifted(e, t, level) \in Words
  BY DEF Shifted, Words

LEMMA ErrorsType ==
    ASSUME NEW e \in Receivers, NEW t, NEW level
    PROVE  Errors(e, t, level) \in SUBSET {"parity", "framing"}
  BY DEF Errors, Receivers

LEMMA RxIdleType ==
    ASSUME NEW e \in Receivers
    PROVE  /\ RxIdle(e) \in Receivers /\ ~RxIdle(e).receiving
           /\ RxIdle(e).index = 0 /\ RxIdle(e).last = e.last
           /\ RxIdle(e).configured = e.configured
           /\ RxIdle(e).format = e.format /\ RxIdle(e).queue = e.queue
  BY NoBitsType DEF RxIdle, Receivers

\* Whatever is left to resolve after a call is ahead of it.
LEMMA RxStepFacts ==
    ASSUME NEW e \in Receivers, NEW t \in Nat, NEW level \in BOOLEAN,
           Len(e.queue) < BufLen,
           e.receiving => e.index <= StopIndex(e.format),
           ~e.receiving => e.index = 0
    PROVE  LET r == RxStep(e, t, level)
           IN  /\ r \in Receivers /\ Len(r.queue) < BufLen
               /\ r.configured = e.configured /\ r.format = e.format
               /\ r.last = level
               /\ ~r.receiving => r.index = 0
               /\ r.receiving =>
                     /\ r.index <= StopIndex(r.format)
                     /\ \A k \in r.index..StopIndex(r.format) : t < Middle(r, k)
<1> DEFINE c == Collect(e, t, level)
           r == RxStep(e, t, level)
<1>1. /\ e.index \in Nat /\ e.queue \in Seq(Words) /\ e.format \in Formats
      /\ StopIndex(e.format) \in Nat /\ e.receiving \in BOOLEAN
  BY ReceiverType
<1>2. /\ c \in Receivers /\ Len(c.queue) < BufLen
      /\ c.configured = e.configured /\ c.format = e.format
      /\ ~c.receiving => c.index = 0
      /\ c.receiving => /\ c.index <= StopIndex(c.format)
                        /\ \A k \in c.index..StopIndex(c.format) : t < Middle(c, k)
  <2>1. CASE Closes(e, t)
    <3>1. c = [RxIdle(e) EXCEPT !.queue = Pushed(@, <<Shifted(e, t, level)>>)]
      BY <2>1 DEF Collect
    <3>2. <<Shifted(e, t, level)>> \in Seq(Words)
      BY ShiftedType
    <3>3. /\ Pushed(e.queue, <<Shifted(e, t, level)>>) \in Seq(Words)
          /\ Len(Pushed(e.queue, <<Shifted(e, t, level)>>)) < BufLen
      BY <1>1, <3>2, PushedType
    <3>4. c \in Receivers
      BY <3>1, <3>3, RxIdleType DEF Receivers
    <3> QED BY <3>1, <3>3, <3>4, RxIdleType DEF Receivers
  <2>2. CASE ~Closes(e, t)
    <3> DEFINE i == e.index + Cardinality(Resolved(e, t))
    <3>1. c = [e EXCEPT !.word = Shifted(e, t, level),
                        !.errors = Errors(e, t, level), !.index = i]
      BY <2>2 DEF Collect
    <3>2. i \in Nat
      <4>1. Cardinality(Resolved(e, t)) \in Nat
        BY ResolvedFinite
      <4> QED BY <1>1, <4>1
    <3> HIDE DEF i
    <3>3. c \in Receivers
      <4>1. /\ Shifted(e, t, level) \in Words
            /\ Errors(e, t, level) \in SUBSET {"parity", "framing"}
        BY ShiftedType, ErrorsType
      <4> QED BY <3>1, <3>2, <4>1 DEF Receivers
    <3>4. /\ c.queue = e.queue /\ c.configured = e.configured
          /\ c.format = e.format /\ c.receiving = e.receiving
          /\ c.start = e.start /\ c.index = i
      BY <3>1 DEF Receivers
    <3>5. CASE e.receiving
      <4>1. i <= StopIndex(e.format) /\ \A k \in i..StopIndex(e.format) : t < Middle(e, k)
        BY <2>2, <3>5, ResolvedFirst DEF i
      <4>2. \A k \in i..StopIndex(c.format) : t < Middle(c, k)
        BY <3>4, <4>1 DEF Middle
      <4> QED BY <3>3, <3>4, <3>5, <4>1, <4>2
    <3>6. CASE ~e.receiving
      <4>1. Resolved(e, t) = {}
        BY <3>6 DEF Resolved
      <4>2. i = 0
        BY <3>6, <4>1, FS_EmptySet DEF i
      <4> QED BY <3>3, <3>4, <3>6, <4>2
    <3> QED BY <1>1, <3>5, <3>6
  <2> QED BY <2>1, <2>2
<1> HIDE DEF c
<1>3. CASE Starts(c, level)
  <2>1. r = [c EXCEPT !.receiving = TRUE, !.start = t, !.last = level]
    BY <1>3 DEF RxStep, c
  <2>2. /\ r \in Receivers /\ r.start = t /\ r.last = level /\ r.index = c.index
        /\ r.queue = c.queue /\ r.configured = c.configured
        /\ r.format = c.format /\ r.receiving
    BY <1>2, <2>1 DEF Receivers
  <2>3. r.index = 0
    BY <1>2, <1>3, <2>2 DEF Starts
  <2> HIDE DEF r
  <2>4. \A k \in r.index..StopIndex(r.format) : t < Middle(r, k)
    <3>1. StopIndex(r.format) \in Nat
      BY <2>2, ReceiverType
    <3>2. \A k \in r.index..StopIndex(r.format) : k \in Nat
      BY <2>3, <3>1
    <3> QED BY <2>2, <3>2, MiddleType
  <2> QED BY <1>1, <1>2, <2>2, <2>3, <2>4 DEF r
<1>4. CASE ~Starts(c, level)
  <2>1. r = [c EXCEPT !.last = level]
    BY <1>4 DEF RxStep, c
  <2>2. /\ r \in Receivers /\ r.start = c.start /\ r.last = level
        /\ r.index = c.index /\ r.queue = c.queue
        /\ r.configured = c.configured /\ r.format = c.format
        /\ r.receiving = c.receiving
    BY <1>2, <2>1 DEF Receivers
  <2>3. \A k : Middle(r, k) = Middle(c, k)
    BY <2>2 DEF Middle
  <2> HIDE DEF r
  <2> QED BY <1>2, <2>2, <2>3 DEF r
<1> QED BY <1>3, <1>4

-----------------------------------------------------------------------------
(* Types.                                                                   *)

LEMMA InitType == Init => TypeOK
<1> SUFFICES ASSUME Init
             PROVE  TypeOK
  OBVIOUS
<1>1. PICK f \in Formats :
        /\ tx = [configured |-> FALSE, format |-> f, queue |-> <<>>,
                 active |-> FALSE, word |-> NoBits, start |-> 0]
        /\ rx = [configured |-> FALSE, format |-> f, queue |-> <<>>,
                 receiving |-> FALSE, last |-> FALSE, index |-> 0,
                 word |-> NoBits, start |-> 0, errors |-> {}]
  BY DEF Init
<1>2. <<>> \in Seq(Words) /\ Len(<<>>) = 0
  BY EmptySeq
<1>3. tx \in Emitters /\ rx \in Receivers
  BY <1>1, <1>2, NoBitsType DEF Emitters, Receivers
<1>4. Len(tx.queue) < BufLen /\ Len(rx.queue) < BufLen
  BY <1>1, <1>2, UartLinkAssumption
<1> QED BY <1>2, <1>3, <1>4 DEF Init, TypeOK

LEMMA AdvanceType ==
    ASSUME TypeOK, Advance
    PROVE  TypeOK'
<1>1. now' \in Nat
  BY DEF TypeOK, Advance
<1>2. middle' \in [0..(WordBits + 1) -> SUBSET BOOLEAN] /\ taken' \in SUBSET BOOLEAN
  BY DEF TypeOK, Advance
<1> QED BY <1>1, <1>2 DEF TypeOK, Advance

LEMMA SyncTxType ==
    ASSUME TypeOK, Emission, SyncTx
    PROVE  TypeOK'
<1>1. tx' \in Emitters /\ Len(tx'.queue) < BufLen
  BY TxAdvanceFacts DEF TypeOK, Emission, SyncTx
<1> QED BY <1>1 DEF TypeOK, SyncTx

LEMMA PublishTxType ==
    ASSUME TypeOK, Emission, PublishTx
    PROVE  TypeOK'
<1>1. line' \in BOOLEAN /\ edge' \in BOOLEAN /\ taken' \in SUBSET BOOLEAN
  BY DEF TypeOK, PublishTx, TxLevel
<1>2. wakeTx' \in SUBSET Nat
  <2>1. CASE tx.configured /\ tx.active
    <3>1. tx \in Emitters /\ now \in Nat /\ tx.start <= now /\ now < TxEnd(tx)
      BY <2>1 DEF TypeOK, Emission, PublishTx
    <3>2. PICK d \in Edges(tx, now) :
            (\A e \in Edges(tx, now) : d <= e) /\ wakeTx' = {d}
      BY <2>1 DEF PublishTx
    <3> QED BY <2>1, <3>1, <3>2, EdgeFacts
  <2>2. CASE ~(tx.configured /\ tx.active)
    BY <2>2 DEF PublishTx
  <2> QED BY <2>1, <2>2
<1> QED BY <1>1, <1>2 DEF TypeOK, PublishTx

LEMMA SyncRxType ==
    ASSUME TypeOK, Reception, SyncRx
    PROVE  TypeOK'
<1>1. rx' \in Receivers /\ Len(rx'.queue) < BufLen
  <2>1. CASE rx.configured
    BY <2>1, RxStepFacts DEF TypeOK, Reception, SyncRx
  <2>2. CASE ~rx.configured
    BY <2>2 DEF TypeOK, SyncRx
  <2> QED BY <2>1, <2>2
<1>2. /\ received' \in Seq(Words) /\ reported' \in SUBSET {"parity", "framing"}
      /\ linked' \in BOOLEAN
  <2>1. Shifted(rx, now, line) \in Words
    BY ShiftedType
  <2>2. Errors(rx, now, line) \in SUBSET {"parity", "framing"}
    BY ErrorsType DEF TypeOK
  <2>3. Append(received, Shifted(rx, now, line)) \in Seq(Words)
    BY <2>1, AppendProperties DEF TypeOK
  <2> QED BY <2>2, <2>3 DEF TypeOK, SyncRx, Linking
<1> QED BY <1>1, <1>2 DEF TypeOK, SyncRx

LEMMA PublishRxType ==
    ASSUME TypeOK, PublishRx
    PROVE  TypeOK'
<1>1. Middle(rx, StopIndex(rx.format)) \in Nat
  BY ReceiverType, MiddleType DEF TypeOK
<1> QED BY <1>1 DEF TypeOK, PublishRx

LEMMA SetupType ==
    ASSUME TypeOK, Setup
    PROVE  /\ setups' \in Nat /\ sent' \in Seq(Words) /\ received' \in Seq(Words)
           /\ linked' \in BOOLEAN /\ reported' \in SUBSET {"parity", "framing"}
<1>1. <<>> \in Seq(Words)
  BY EmptySeq
<1>2. setups \in Nat
  BY DEF TypeOK
<1>3. /\ setups' = setups + 1 /\ sent' = <<>> /\ received' = <<>>
      /\ linked' = FALSE /\ reported' = {}
  BY DEF Setup
<1>4. setups' \in Nat
  BY <1>2, <1>3
<1>5. /\ sent' \in Seq(Words) /\ received' \in Seq(Words)
      /\ linked' \in BOOLEAN /\ reported' \in SUBSET {"parity", "framing"}
  BY <1>1, <1>3
<1> QED BY <1>4, <1>5

\* What init, write and deinit make of the emitter.
LEMMA TxSetupFacts ==
    ASSUME TypeOK, NEW f \in Formats
    PROVE  LET i == TxIdle(Configured(tx, f))
               d == [TxIdle(tx) EXCEPT !.configured = FALSE]
           IN  /\ i \in Emitters /\ ~i.active /\ i.queue = <<>>
               /\ d \in Emitters /\ ~d.active /\ ~d.configured /\ d.queue = tx.queue
<1>1. <<>> \in Seq(Words)
  BY EmptySeq
<1>2. Configured(tx, f) \in Emitters /\ Configured(tx, f).queue = <<>>
  BY <1>1 DEF Configured, TypeOK, Emitters
<1>3. TxIdle(tx) \in Emitters /\ ~TxIdle(tx).active /\ TxIdle(tx).queue = tx.queue
  BY TxIdleType DEF TypeOK
<1> QED BY <1>2, <1>3, TxIdleType DEF Emitters

LEMMA RxSetupFacts ==
    ASSUME TypeOK, NEW f \in Formats
    PROVE  LET i == RxIdle(Configured(rx, f))
               d == [RxIdle(rx) EXCEPT !.configured = FALSE]
           IN  /\ i \in Receivers /\ ~i.receiving /\ i.index = 0 /\ i.queue = <<>>
               /\ d \in Receivers /\ ~d.receiving /\ d.index = 0 /\ d.queue = rx.queue
<1>1. <<>> \in Seq(Words)
  BY EmptySeq
<1>2. Configured(rx, f) \in Receivers /\ Configured(rx, f).queue = <<>>
  BY <1>1 DEF Configured, TypeOK, Receivers
<1>3. /\ RxIdle(rx) \in Receivers /\ ~RxIdle(rx).receiving
      /\ RxIdle(rx).index = 0 /\ RxIdle(rx).queue = rx.queue
  BY RxIdleType DEF TypeOK
<1> QED BY <1>2, <1>3, RxIdleType DEF Receivers

LEMMA WriteFacts ==
    ASSUME TypeOK, NEW message \in Messages, Write(message)
    PROVE  /\ tx' \in Emitters /\ Len(tx'.queue) < BufLen
           /\ sent' \in Seq(Words)
           /\ tx'.configured
           /\ ~tx'.active => tx'.queue = <<>>
           /\ tx.active => /\ tx'.active /\ tx'.start = tx.start
                           /\ tx'.format = tx.format
           /\ ~tx.active /\ tx'.active => tx'.start = now
<1> DEFINE q == Pushed(tx.queue, message)
           new == SubSeq(q, Len(tx.queue) + 1, Len(q))
           filled == [tx EXCEPT !.queue = q]
           cut == [i \in 1..Len(new) |-> Masked(tx.format, new[i])]
<1>1. /\ tx \in Emitters /\ tx.queue \in Seq(Words) /\ now \in Nat
      /\ message \in Seq(Words) /\ Len(tx.queue) < BufLen
  BY UartLinkAssumption DEF TypeOK, Emitters
<1>2. q \in Seq(Words) /\ Len(q) < BufLen /\ Len(tx.queue) <= Len(q)
  BY <1>1, PushedType
<1>3. /\ filled \in Emitters /\ filled.queue = q
      /\ filled.configured = tx.configured /\ filled.format = tx.format
      /\ filled.active = tx.active /\ filled.start = tx.start
  BY <1>1, <1>2 DEF Emitters
<1>4. tx' = Kick(filled, now) /\ sent' = sent \o cut /\ tx.configured
  BY DEF Write
<1>5. new \in Seq(Words) /\ Len(new) \in Nat
  BY <1>1, <1>2, SubSeqProperties
<1>6. cut \in Seq(Words)
  BY <1>5, MaskedType
<1>7. sent' \in Seq(Words)
  BY <1>4, <1>6, ConcatProperties DEF TypeOK
<1> HIDE DEF q, filled
<1>8. /\ tx' \in Emitters /\ Len(tx'.queue) < BufLen
      /\ tx'.configured = filled.configured /\ tx'.format = filled.format
      /\ filled.active => tx' = filled
      /\ ~tx'.active => tx'.queue = <<>>
      /\ ~filled.active /\ tx'.active => tx'.start = now
  BY <1>1, <1>2, <1>3, <1>4, KickFacts
<1> QED BY <1>3, <1>4, <1>7, <1>8

LEMMA NativesType ==
    ASSUME TypeOK, Natives
    PROVE  TypeOK'
<1>1. ASSUME NEW f \in Formats, InitTx(f)
      PROVE  TypeOK'
  <2>1. /\ Setup /\ tx' = TxIdle(Configured(tx, f))
        /\ UNCHANGED <<now, rx, turn, wakeTx, wakeRx, line, edge, taken, middle>>
    BY <1>1 DEF InitTx
  <2>2. tx' \in Emitters /\ tx'.queue = <<>>
    BY <2>1, TxSetupFacts
  <2>3. Len(tx'.queue) < BufLen
    BY <2>2, EmptySeq, UartLinkAssumption
  <2>4. /\ setups' \in Nat /\ sent' \in Seq(Words) /\ received' \in Seq(Words)
        /\ linked' \in BOOLEAN /\ reported' \in SUBSET {"parity", "framing"}
    BY <2>1, SetupType
  <2> QED BY <2>1, <2>2, <2>3, <2>4 DEF TypeOK
<1>2. ASSUME NEW f \in Formats, InitRx(f)
      PROVE  TypeOK'
  <2>1. /\ Setup /\ rx' = RxIdle(Configured(rx, f))
        /\ UNCHANGED <<now, tx, turn, wakeTx, wakeRx, line, edge, taken, middle>>
    BY <1>2 DEF InitRx
  <2>2. rx' \in Receivers /\ rx'.queue = <<>>
    BY <2>1, RxSetupFacts
  <2>3. Len(rx'.queue) < BufLen
    BY <2>2, EmptySeq, UartLinkAssumption
  <2>4. /\ setups' \in Nat /\ sent' \in Seq(Words) /\ received' \in Seq(Words)
        /\ linked' \in BOOLEAN /\ reported' \in SUBSET {"parity", "framing"}
    BY <2>1, SetupType
  <2> QED BY <2>1, <2>2, <2>3, <2>4 DEF TypeOK
<1>3. ASSUME NEW message \in Messages, Write(message)
      PROVE  TypeOK'
  <2>1. tx' \in Emitters /\ Len(tx'.queue) < BufLen /\ sent' \in Seq(Words)
    BY <1>3, WriteFacts
  <2> QED BY <1>3, <2>1 DEF Write, TypeOK
<1>4. ASSUME NEW n \in 1..(BufLen - 1), ReadWords(n)
      PROVE  TypeOK'
  <2>1. rx.queue \in Seq(Words) /\ Len(rx.queue) \in Nat /\ n \in Nat
    BY ReceiverType, LenProperties, UartLinkAssumption DEF TypeOK
  <2>2. /\ SubSeq(rx.queue, n + 1, Len(rx.queue)) \in Seq(Words)
        /\ Len(SubSeq(rx.queue, n + 1, Len(rx.queue))) <= Len(rx.queue)
    BY <1>4, <2>1, SubSeqProperties DEF ReadWords
  <2>3. rx' = [rx EXCEPT !.queue = SubSeq(rx.queue, n + 1, Len(rx.queue))]
    BY <1>4 DEF ReadWords, TypeOK, Receivers
  <2>4. /\ rx' \in Receivers
        /\ rx'.queue = SubSeq(rx.queue, n + 1, Len(rx.queue))
    BY <2>2, <2>3 DEF TypeOK, Receivers
  <2>5. Len(rx'.queue) < BufLen
    BY <2>1, <2>2, <2>4, LenProperties, UartLinkAssumption DEF TypeOK
  <2> QED BY <1>4, <2>4, <2>5 DEF ReadWords, TypeOK
<1>5. CASE DeinitTx
  BY <1>5, SetupType, TxSetupFacts, UartLinkAssumption DEF DeinitTx, TypeOK
<1>6. CASE DeinitRx
  BY <1>6, SetupType, RxSetupFacts, UartLinkAssumption DEF DeinitRx, TypeOK
<1> QED BY <1>1, <1>2, <1>3, <1>4, <1>5, <1>6 DEF Natives

-----------------------------------------------------------------------------
(* The emitter and the wire.                                                *)

LEMMA InitLink == Init => Emission /\ Wire /\ Reception /\ Pending
<1> SUFFICES ASSUME Init
             PROVE  Emission /\ Wire /\ Reception /\ Pending
  OBVIOUS
<1>1. /\ tx.active = FALSE /\ tx.configured = FALSE
      /\ rx.receiving = FALSE /\ rx.index = 0
      /\ turn = "none" /\ wakeTx = {} /\ line = FALSE /\ taken = {line}
  BY DEF Init
<1> QED BY <1>1 DEF Emission, Wire, Reception, Pending

\* A stretch goes on while time has not reached its wake.
LEMMA AdvanceWire ==
    ASSUME TypeOK, Emission, Wire, Advance
    PROVE  Emission' /\ Wire'
<1>1. /\ now \in Nat /\ now' = now + 1 /\ turn = "none"
      /\ UNCHANGED <<tx, turn, wakeTx, line>> /\ \A d \in wakeTx : now < d
  BY DEF TypeOK, Advance, Quiet
<1>2. Emission'
  <2>1. tx.active => tx.start \in Nat
    BY DEF TypeOK, Emitters
  <2> QED BY <1>1, <2>1 DEF Emission
<1>3. ASSUME NEW d \in Nat, wakeTx = {d}, Stretch(d)
      PROVE  Stretch(d)'
  <2>1. now' <= d
    BY <1>1, <1>3
  <2>2. \A t : TxLevel(tx, t)' = TxLevel(tx, t)
    BY <1>1 DEF TxLevel, BitIndex
  <2>3. TxEnd(tx)' = TxEnd(tx)
    BY <1>1
  <2> QED BY <1>1, <1>3, <2>1, <2>2, <2>3 DEF Stretch
<1>4. Wire'
  BY <1>1, <1>3 DEF Wire
<1> QED BY <1>2, <1>4

LEMMA SyncTxWire ==
    ASSUME TypeOK, Emission, SyncTx
    PROVE  Emission' /\ Wire'
<1> DEFINE a == TxAdvance(tx, now)
<1>1. /\ tx \in Emitters /\ now \in Nat /\ Len(tx.queue) < BufLen
      /\ tx.active => tx.start <= now
  BY DEF TypeOK, Emission
<1>2. /\ a.configured = tx.configured
      /\ ~tx.active => a = tx
      /\ a.active => tx.active /\ a.start <= now /\ now < TxEnd(a)
      /\ tx.active /\ ~a.active => a.queue = <<>>
  BY <1>1, TxAdvanceFacts
<1>3. tx' = a /\ now' = now /\ turn' = "tx"
  BY DEF SyncTx
<1> HIDE DEF a
<1>4. TxEnd(tx') = TxEnd(tx)'
  OBVIOUS
<1> QED BY <1>2, <1>3, <1>4 DEF Emission, Wire

LEMMA PublishTxWire ==
    ASSUME TypeOK, Emission, PublishTx
    PROVE  Emission' /\ Wire'
<1>1. /\ turn = "tx" /\ turn' = "none" /\ UNCHANGED <<now, tx>>
      /\ line' = (tx.configured /\ TxLevel(tx, now))
  BY DEF PublishTx
<1>2. Emission'
  BY <1>1 DEF Emission
<1>3. CASE tx.active
  <2>1. /\ tx \in Emitters /\ now \in Nat /\ tx.start <= now
        /\ now < TxEnd(tx) /\ tx.configured
    BY <1>1, <1>3 DEF TypeOK, Emission
  <2>2. PICK d \in Edges(tx, now) :
          (\A e \in Edges(tx, now) : d <= e) /\ wakeTx' = {d}
    BY <1>3, <2>1 DEF PublishTx
  <2>3. /\ d \in Nat /\ now < d /\ d <= TxEnd(tx)
        /\ d = TxEnd(tx) \/ TxLevel(tx, d) # TxLevel(tx, now)
        /\ \A u \in Nat : now <= u /\ u < d => TxLevel(tx, u) = TxLevel(tx, now)
    BY <1>3, <2>1, <2>2, EdgeFacts
  <2>4. line' = TxLevel(tx, now)
    BY <1>1, <2>1 DEF TxLevel
  <2>5. \A t : TxLevel(tx, t)' = TxLevel(tx, t)
    BY <1>1 DEF TxLevel, BitIndex
  <2>6. TxEnd(tx)' = TxEnd(tx)
    BY <1>1
  <2>7. Stretch(d)'
    BY <1>1, <2>1, <2>3, <2>4, <2>5, <2>6 DEF Stretch
  <2> QED BY <1>1, <1>2, <1>3, <2>2, <2>3, <2>7 DEF Wire
<1>4. CASE ~tx.active
  <2>1. wakeTx' = {} /\ line' = tx.configured
    BY <1>1, <1>4 DEF PublishTx, TxLevel, TypeOK, Emitters
  <2> QED BY <1>1, <1>2, <1>4, <2>1 DEF Wire
<1> QED BY <1>3, <1>4

\* The receiver's half does not disturb them.
LEMMA OtherWire ==
    ASSUME TypeOK, Emission, Wire, UNCHANGED <<now, tx, wakeTx, line>>,
           turn' = "tx" => turn = "tx", turn = "tx" => turn' = "tx"
    PROVE  Emission' /\ Wire'
<1>1. Emission'
  BY DEF Emission
<1>2. \A t : TxLevel(tx, t)' = TxLevel(tx, t)
  BY DEF TxLevel, BitIndex
<1>3. \A d : Stretch(d) => Stretch(d)'
  BY <1>2 DEF Stretch
<1>4. Wire'
  BY <1>3 DEF Wire
<1> QED BY <1>1, <1>4

LEMMA NativesWire ==
    ASSUME TypeOK, Emission, Wire, Natives
    PROVE  Emission' /\ Wire'
<1>1. ASSUME NEW f \in Formats, InitTx(f)
      PROVE  Emission' /\ Wire'
  BY <1>1, TxSetupFacts DEF InitTx, Emission, Wire
<1>2. ASSUME NEW f \in Formats, InitRx(f)
      PROVE  Emission' /\ Wire'
  BY <1>2, OtherWire DEF InitRx
<1>3. ASSUME NEW message \in Messages, Write(message)
      PROVE  Emission' /\ Wire'
  <2>1. /\ tx'.configured
        /\ ~tx'.active => tx'.queue = <<>>
        /\ tx.active => /\ tx'.active /\ tx'.start = tx.start
                        /\ tx'.format = tx.format
        /\ ~tx.active /\ tx'.active => tx'.start = now
        /\ tx' \in Emitters
    BY <1>3, WriteFacts
  <2>2. turn = "tx" /\ turn' = "tx" /\ now' = now /\ now \in Nat
    BY <1>3 DEF Write, TypeOK
  <2>3. TxEnd(tx)' = tx'.start + FrameTime(tx'.format)
    BY DEF TxEnd
  <2>4. CASE tx.active
    <3>1. tx.start <= now /\ now < tx.start + FrameTime(tx.format)
      BY <2>2, <2>4 DEF Emission, TxEnd
    <3> QED BY <2>1, <2>2, <2>3, <2>4, <3>1 DEF Emission, Wire
  <2>5. CASE ~tx.active
    <3>1. FrameTime(tx'.format) \in Nat \ {0}
      BY <2>1, FormatFacts DEF Emitters
    <3>2. tx'.active => now <= now /\ now < now + FrameTime(tx'.format)
      BY <2>2, <3>1
    <3> QED BY <2>1, <2>2, <2>3, <2>5, <3>2 DEF Emission, Wire
  <2> QED BY <2>4, <2>5
<1>4. ASSUME NEW n \in 1..(BufLen - 1), ReadWords(n)
      PROVE  Emission' /\ Wire'
  BY <1>4, OtherWire DEF ReadWords
<1>5. CASE DeinitTx
  <2>1. ~tx'.active /\ ~tx'.configured
    BY <1>5, TxSetupFacts, UartLinkAssumption DEF DeinitTx
  <2> QED BY <1>5, <2>1 DEF DeinitTx, Emission, Wire
<1>6. CASE DeinitRx
  BY <1>6, OtherWire DEF DeinitRx
<1> QED BY <1>1, <1>2, <1>3, <1>4, <1>5, <1>6 DEF Natives

-----------------------------------------------------------------------------
(* The receiver.                                                            *)

\* The level of the wire in the middle of a bit is recorded as time passes it.
LEMMA AdvanceReception ==
    ASSUME TypeOK, Reception, Pending, Advance
    PROVE  Reception' /\ Pending'
<1>1. /\ ~edge /\ turn = "none" /\ now \in Nat /\ now' = now + 1 /\ taken' = {line}
      /\ UNCHANGED <<rx, turn, line, edge>>
  BY DEF TypeOK, Advance, Quiet
<1>2. Reception'
  BY <1>1 DEF Reception
<1>3. ASSUME rx.receiving, NEW k \in rx.index..StopIndex(rx.format), Middle(rx, k) < now + 1
      PROVE  rx.last \in middle'[k]
  <2>1. k \in Nat /\ k \in DOMAIN middle
    <3>1. rx.format \in Formats /\ rx.index \in Nat
      BY ReceiverType DEF TypeOK
    <3>2. StopIndex(rx.format) \in 1..(WordBits + 1) /\ WordBits \in Nat
      BY <3>1, FormatFacts, UartLinkAssumption
    <3> QED BY <3>1, <3>2 DEF TypeOK
  <2>2. middle'[k] = IF Middle(rx, k) = now THEN taken ELSE middle[k]
    BY <1>3, <2>1 DEF Advance
  <2>3. rx.last = line /\ line \in taken
    BY <1>1, <1>3 DEF Reception
  <2>4. Middle(rx, k) \in Nat
    BY <2>1, MiddleType DEF TypeOK
  <2>5. Middle(rx, k) # now => Middle(rx, k) < now
    BY <1>1, <1>3, <2>4
  <2> QED BY <1>3, <2>2, <2>3, <2>5 DEF Pending
<1>4. Pending'
  BY <1>1, <1>3 DEF Pending, Middle
<1> QED BY <1>2, <1>4

LEMMA PublishTxReception ==
    ASSUME TypeOK, Reception, Pending, PublishTx
    PROVE  Reception' /\ Pending'
<1>1. /\ turn' = "none" /\ edge' = (edge \/ line' # line)
      /\ taken' = taken \cup {line'} /\ UNCHANGED <<now, rx, middle>>
  BY DEF PublishTx
<1>2. Reception'
  BY <1>1 DEF Reception
<1>3. Pending'
  BY <1>1 DEF Pending
<1> QED BY <1>2, <1>3

LEMMA SyncRxReception ==
    ASSUME TypeOK, Reception, Pending, SyncRx
    PROVE  Reception' /\ Pending'
<1>1. /\ now \in Nat /\ edge' = FALSE /\ turn' = "rx"
      /\ UNCHANGED <<now, line, taken, middle>>
      /\ rx' = IF rx.configured THEN RxStep(rx, now, line) ELSE rx
  BY DEF TypeOK, SyncRx
<1>2. /\ rx \in Receivers /\ line \in BOOLEAN /\ Len(rx.queue) < BufLen
      /\ rx.receiving => rx.configured /\ rx.index <= StopIndex(rx.format)
      /\ ~rx.receiving => rx.index = 0
  BY DEF TypeOK, Reception
<1>3. CASE rx.configured
  <2>1. rx' = RxStep(rx, now, line)
    BY <1>1, <1>3
  <2>2. /\ rx' \in Receivers /\ rx'.configured /\ rx'.last = line
        /\ ~rx'.receiving => rx'.index = 0
        /\ rx'.receiving =>
              /\ rx'.index <= StopIndex(rx'.format)
              /\ \A k \in rx'.index..StopIndex(rx'.format) : now < Middle(rx', k)
    BY <1>1, <1>2, <1>3, <2>1, RxStepFacts
  <2>3. rx'.index \in Nat /\ StopIndex(rx'.format) \in Nat
    BY <2>2, ReceiverType
  <2>4. rx'.receiving => now < Middle(rx', StopIndex(rx'.format))
    BY <2>2, <2>3
  <2>5. Reception'
    BY <1>1, <2>2, <2>4 DEF Reception
  <2>6. \A k \in rx'.index..StopIndex(rx'.format) : Middle(rx', k) \in Nat
    BY <2>2, <2>3, MiddleType
  <2>7. Pending'
    BY <1>1, <2>2, <2>6 DEF Pending
  <2> QED BY <2>5, <2>7
<1>4. CASE ~rx.configured
  BY <1>1, <1>2, <1>4 DEF Reception, Pending
<1> QED BY <1>3, <1>4

\* Nothing else disturbs a frame in progress.
LEMMA OtherReception ==
    ASSUME TypeOK, Reception, Pending,
           UNCHANGED <<now, line, edge, taken, middle>>,
           UNCHANGED rx \/ (~rx'.receiving /\ rx'.index = 0),
           turn' = "rx" => turn = "rx"
    PROVE  Reception' /\ Pending'
  BY DEF Reception, Pending

LEMMA NativesReception ==
    ASSUME TypeOK, Reception, Pending, Natives
    PROVE  Reception' /\ Pending'
<1>1. ASSUME NEW f \in Formats, InitTx(f)
      PROVE  Reception' /\ Pending'
  BY <1>1, OtherReception DEF InitTx
<1>2. ASSUME NEW f \in Formats, InitRx(f)
      PROVE  Reception' /\ Pending'
  <2>1. ~rx'.receiving /\ rx'.index = 0
    BY <1>2, RxSetupFacts DEF InitRx
  <2> QED BY <1>2, <2>1, OtherReception DEF InitRx
<1>3. ASSUME NEW message \in Messages, Write(message)
      PROVE  Reception' /\ Pending'
  BY <1>3, OtherReception DEF Write
<1>4. ASSUME NEW n \in 1..(BufLen - 1), ReadWords(n)
      PROVE  Reception' /\ Pending'
  <2>1. /\ rx'.configured = rx.configured /\ rx'.receiving = rx.receiving
        /\ rx'.index = rx.index /\ rx'.last = rx.last
        /\ rx'.format = rx.format /\ rx'.start = rx.start
        /\ UNCHANGED <<now, turn, line, edge, taken, middle>>
    BY <1>4 DEF ReadWords, TypeOK, Receivers
  <2>2. \A k : Middle(rx', k) = Middle(rx, k)
    BY <2>1 DEF Middle
  <2> QED BY <2>1, <2>2 DEF Reception, Pending
<1>5. CASE DeinitTx
  BY <1>5, OtherReception DEF DeinitTx
<1>6. CASE DeinitRx
  <2>1. ~rx'.receiving /\ rx'.index = 0
    BY <1>6, RxSetupFacts, UartLinkAssumption DEF DeinitRx
  <2> QED BY <1>6, <2>1, OtherReception DEF DeinitRx
<1> QED BY <1>1, <1>2, <1>3, <1>4, <1>5, <1>6 DEF Natives

-----------------------------------------------------------------------------
(* The invariant.                                                           *)

LEMMA InitInvariant == Init => IInv
  BY InitType, InitLink DEF IInv

LEMMA StepInvariant == IInv /\ [Next]_vars => IInv'
<1> SUFFICES ASSUME IInv, [Next]_vars
             PROVE  IInv'
  OBVIOUS
<1> USE DEF IInv
<1>1. CASE Advance
  BY <1>1, AdvanceType, AdvanceWire, AdvanceReception
<1>2. CASE SyncTx
  <2>1. Reception' /\ Pending'
    BY <1>2, OtherReception DEF SyncTx
  <2> QED BY <1>2, <2>1, SyncTxType, SyncTxWire
<1>3. CASE PublishTx
  BY <1>3, PublishTxType, PublishTxWire, PublishTxReception
<1>4. CASE SyncRx
  <2>1. Emission' /\ Wire'
    BY <1>4, OtherWire DEF SyncRx
  <2> QED BY <1>4, <2>1, SyncRxType, SyncRxReception
<1>5. CASE PublishRx
  <2>1. Emission' /\ Wire'
    BY <1>5, OtherWire DEF PublishRx
  <2>2. Reception' /\ Pending'
    BY <1>5, OtherReception DEF PublishRx
  <2> QED BY <1>5, <2>1, <2>2, PublishRxType
<1>6. CASE Natives
  BY <1>6, NativesType, NativesWire, NativesReception
<1>7. CASE Ended \/ UNCHANGED vars
  <2>1. UNCHANGED vars
    BY <1>7 DEF Ended
  <2>2. TypeOK'
    BY <2>1 DEF vars, TypeOK
  <2>3. Emission' /\ Wire'
    BY <2>1, OtherWire DEF vars
  <2>4. Reception' /\ Pending'
    BY <2>1, OtherReception DEF vars
  <2> QED BY <2>2, <2>3, <2>4
<1> QED BY <1>1, <1>2, <1>3, <1>4, <1>5, <1>6, <1>7 DEF Next

-----------------------------------------------------------------------------
(* What follows.                                                            *)

\* Every variable keeps its type: no queue ever holds more than BufLen - 1
\* words, whatever is written and received.
THEOREM TypeCorrect == Spec => []TypeOK
<1>1. IInv => TypeOK
  BY DEF IInv
<1> QED BY InitInvariant, StepInvariant, <1>1, PTL DEF Spec

\* A byte accepted by write does not wait in an idle emitter: uartcore_tx_kick
\* and uartcore_tx_advance leave one only behind a frame in progress.
THEOREM QueueEmpties == Spec => []QueueDrains
<1>1. IInv => QueueDrains
  BY DEF IInv, Emission, QueueDrains
<1> QED BY InitInvariant, StepInvariant, <1>1, PTL DEF Spec

\* The level held by Modelica is the one of the frame at every instant, for any
\* format, although the emitter is only synchronised at uartcore_tx_next_edge.
THEOREM WireIsFrame == Spec => []LineFollowsFrame
<1>1. IInv => LineFollowsFrame
  <2> SUFFICES ASSUME IInv, Quiet, tx.configured
               PROVE  line = TxLevel(tx, now)
    BY DEF LineFollowsFrame
  <2>1. turn = "none" /\ now \in Nat /\ \A d \in wakeTx : now < d
    BY DEF IInv, TypeOK, Quiet
  <2>2. CASE tx.active
    <3>1. PICK d \in Nat : wakeTx = {d} /\ Stretch(d)
      BY <2>1, <2>2 DEF IInv, Wire
    <3> QED BY <2>1, <3>1 DEF Stretch
  <2>3. CASE ~tx.active
    <3>1. line = TRUE
      BY <2>1, <2>3 DEF IInv, Wire, TypeOK, Emitters
    <3> QED BY <2>3, <3>1 DEF TxLevel
  <2> QED BY <2>2, <2>3
<1> QED BY InitInvariant, StepInvariant, <1>1, PTL DEF Spec

\* A bit is read as the wire was in its middle, however late uartcore_rx_step
\* is called and whatever the format at the other end.
THEOREM BitsFromTheMiddle == Spec => SampledInTheMiddle
<1>1. IInv /\ [Next]_vars =>
        [SyncRx /\ rx.configured =>
            \A k \in Resolved(rx, now) :
                Read(rx, now, line, k) \in
                    IF Middle(rx, k) = now THEN taken ELSE middle[k]]_vars
  <2> SUFFICES ASSUME IInv, NEW k \in Resolved(rx, now)
               PROVE  Read(rx, now, line, k) \in
                          IF Middle(rx, k) = now THEN taken ELSE middle[k]
    OBVIOUS
  <2>1. /\ rx.receiving /\ Middle(rx, k) <= now
        /\ k \in rx.index..StopIndex(rx.format)
    BY DEF Resolved
  <2>2. now \in Nat /\ Middle(rx, k) \in Nat /\ line \in taken
    <3>1. rx \in Receivers /\ now \in Nat /\ line \in taken
      BY DEF IInv, TypeOK, Reception
    <3>2. k \in Nat
      BY <2>1, <3>1, ReceiverType
    <3> QED BY <3>1, <3>2, MiddleType
  <2>3. CASE Middle(rx, k) = now
    BY <2>2, <2>3 DEF Read
  <2>4. CASE Middle(rx, k) < now
    <3>1. rx.last \in middle[k]
      BY <2>1, <2>4 DEF IInv, Pending
    <3> QED BY <2>2, <2>4, <3>1 DEF Read
  <2> QED BY <2>1, <2>2, <2>3, <2>4
<1> QED BY InitInvariant, StepInvariant, <1>1, PTL DEF Spec, SampledInTheMiddle

\* The wake published by either end is ahead of the time of the call, so that
\* the when of the model can fire.
THEOREM WakesAreAhead == Spec => WakesAhead
<1> DEFINE A == /\ PublishTx => \A d \in wakeTx' : now < d
                /\ PublishRx => \A d \in wakeRx' : now < d
<1>1. IInv /\ [Next]_vars => [A]_vars
  <2> SUFFICES ASSUME IInv
               PROVE  A
    OBVIOUS
  <2>1. ASSUME PublishTx, NEW d \in wakeTx'
        PROVE  now < d
    <3>1. tx.configured /\ tx.active
      BY <2>1 DEF PublishTx
    <3>2. tx \in Emitters /\ now \in Nat /\ tx.start <= now /\ now < TxEnd(tx)
      BY <2>1, <3>1 DEF IInv, TypeOK, Emission, PublishTx
    <3>3. PICK e \in Edges(tx, now) :
            (\A x \in Edges(tx, now) : e <= x) /\ wakeTx' = {e}
      BY <2>1, <3>1 DEF PublishTx
    <3> QED BY <2>1, <3>1, <3>2, <3>3, EdgeFacts
  <2>2. ASSUME PublishRx, NEW d \in wakeRx'
        PROVE  now < d
    BY <2>2 DEF PublishRx, IInv, Reception
  <2> QED BY <2>1, <2>2
<1> QED BY InitInvariant, StepInvariant, <1>1, PTL DEF Spec, WakesAhead

\* A synchronisation asked for by the emitter finds a change of level, or the
\* end of its frame: uartcore_tx_next_edge skips the bits that change nothing.
THEOREM WakesAreUseful == Spec => WakesUseful
<1> DEFINE A == SyncTx /\ now \in wakeTx =>
                    now = TxEnd(tx) \/ TxLevel(tx', now) # line
<1>1. IInv /\ [Next]_vars => [A]_vars
  <2> SUFFICES ASSUME IInv, SyncTx, now \in wakeTx, now # TxEnd(tx)
               PROVE  TxLevel(tx', now) # line
    OBVIOUS
  <2>1. tx.active
    BY DEF IInv, Wire, SyncTx
  <2>2. PICK d \in Nat : wakeTx = {d} /\ Stretch(d)
    BY <2>1 DEF IInv, Wire, SyncTx
  <2>3. d = now /\ now < TxEnd(tx) /\ TxLevel(tx, now) # line
    <3>1. tx.start \in Nat /\ FrameTime(tx.format) \in Nat
      BY FormatFacts DEF IInv, TypeOK, Emitters
    <3> QED BY <2>2, <3>1 DEF Stretch, TxEnd
  <2>4. tx' = tx
    BY <2>3, TxAdvanceFacts DEF IInv, TypeOK, Emission, SyncTx
  <2> QED BY <2>3, <2>4
<1> QED BY InitInvariant, StepInvariant, <1>1, PTL DEF Spec, WakesUseful

-----------------------------------------------------------------------------
(* What is sent arrives.                                                    *)

\* An engine that receives is called at the end of its byte at the latest, and
\* one that does not has nothing of a byte.  The emitter's wake is the bound of
\* two bits.
Punctual ==
    /\ rx.receiving /\ turn # "rx" =>
           /\ wakeRx = {Middle(rx, StopIndex(rx.format))}
           /\ now <= Middle(rx, StopIndex(rx.format))
    /\ ~rx.receiving => rx.word = NoBits /\ rx.errors = {}
    /\ tx.active /\ turn # "tx" =>
           \A d \in wakeTx : \E j \in Nat : d = tx.start + j * Bit(tx.format)

\* The word in the frame is the first that was not received.
Current ==
    /\ tx.active
    /\ Len(sent) = Len(received) + 1 + Len(tx.queue)
    /\ sent[Len(received) + 1] = Masked(tx.format, tx.word)

\* The receiver is in the frame, and has its first bits.
InFrame ==
    /\ Current /\ rx.start = tx.start /\ rx.errors = {}
    /\ \A i \in 1..WordBits : rx.word[i] <=> i <= rx.index /\ Masked(tx.format, tx.word)[i]
    /\ \A k \in rx.index..StopIndex(rx.format) :
           Middle(rx, k) < now => rx.last = FrameBit(tx.format, tx.word, k + 1)

\* It is not: its fall is still to be seen, it has been received, or there is
\* none.
Ahead == Current /\ now = tx.start /\ (line \/ edge)
Arrived ==
    /\ tx.active /\ line /\ Len(sent) = Len(received) + Len(tx.queue)
    /\ Middle(tx, StopIndex(tx.format)) <= now
AtRest == ~tx.active /\ line /\ Len(sent) = Len(received)

\* Every word of the queue was accepted.
Queued ==
    \A i \in 1..Len(tx.queue) :
        sent[Len(sent) - Len(tx.queue) + i] = Masked(tx.format, tx.queue[i])

Carried ==
    linked =>
        /\ tx.configured /\ rx.configured /\ tx.format = rx.format /\ reported = {}
        /\ Len(received) <= Len(sent)
        /\ \A i \in 1..Len(received) : received[i] = sent[i]
        /\ Queued
        /\ rx.receiving => InFrame
        /\ ~rx.receiving => rx.last /\ (Ahead \/ Arrived \/ AtRest)

-----------------------------------------------------------------------------
(* Bits and their middles.                                                  *)

\* The middle of a bit is never on the edge of one.
LEMMA OffEdges ==
    ASSUME NEW h \in Nat \ {0}, NEW k \in Nat, NEW j \in Nat
    PROVE  3 * h + k * (2 * h) # j * (2 * h)
<1> DEFINE b == 2 * h
<1>1. b \in Nat \ {0}
  OBVIOUS
<1> HIDE DEF b
<1>2. k * b \in Nat /\ (k + 1) * b = k * b + b /\ (k + 2) * b = k * b + b + b
  BY <1>1
<1>3. CASE j <= k + 1
  <2>1. j * b \in Nat /\ j * b <= (k + 1) * b
    BY <1>1, <1>3, Growing
  <2>2. b = 2 * h
    BY DEF b
  <2>3. j * b < 3 * h + k * b
    BY <1>2, <2>1, <2>2
  <2> QED BY <1>2, <2>1, <2>3 DEF b
<1>4. CASE k + 2 <= j
  <2>1. j * b \in Nat /\ (k + 2) * b <= j * b
    BY <1>1, <1>4, Growing
  <2>2. b = 2 * h
    BY DEF b
  <2>3. 3 * h + k * b < j * b
    BY <1>2, <2>1, <2>2
  <2> QED BY <1>2, <2>1, <2>3 DEF b
<1> QED BY <1>3, <1>4

\* Bit k + 1 of the frame goes on in the middle of bit k of the byte.
LEMMA MiddleBit ==
    ASSUME NEW h \in Nat \ {0}, NEW k \in Nat
    PROVE  (3 * h + k * (2 * h)) \div (2 * h) = k + 1
<1> DEFINE b == 2 * h
           a == 3 * h + k * b
<1>1. b \in Nat \ {0} /\ b = 2 * h
  OBVIOUS
<1> HIDE DEF b
<1>2. k * b \in Nat /\ (k + 1) * b = k * b + b /\ (k + 2) * b = k * b + b + b
  BY <1>1
<1>3. a \in Nat /\ (k + 1) * b <= a /\ a < (k + 2) * b
  BY <1>1, <1>2
<1> HIDE DEF a
<1>4. ((k + 1) * b) \div b = k + 1
  BY <1>1, Exact
<1>5. k + 1 <= a \div b
  BY <1>1, <1>2, <1>3, <1>4, Monotone
<1>6. a \div b < k + 2
  BY <1>1, <1>3, Below
<1>7. a \div b \in Nat
  BY <1>1, <1>3, Quotient
<1>8. a \div b = k + 1
  BY <1>5, <1>6, <1>7
<1> QED BY <1>8 DEF a, b

LEMMA MiddleGrows ==
    ASSUME NEW e \in Receivers, NEW i \in Nat, NEW j \in Nat, i <= j
    PROVE  Middle(e, i) <= Middle(e, j)
<1>1. e.start \in Nat /\ e.format.half \in Nat /\ Bit(e.format) \in Nat \ {0}
  BY ReceiverType
<1>2. /\ i * Bit(e.format) \in Nat /\ j * Bit(e.format) \in Nat
      /\ i * Bit(e.format) <= j * Bit(e.format)
  BY <1>1, Growing
<1> QED BY <1>1, <1>2 DEF Middle

\* The stop bit is in its middle before the frame is over.
LEMMA StopBeforeEnd ==
    ASSUME NEW e \in Receivers, NEW d \in Emitters,
           e.start = d.start, e.format = d.format
    PROVE  Middle(e, StopIndex(e.format)) < TxEnd(d)
<1> DEFINE f == e.format
           S == StopIndex(f)
           b == Bit(f)
<1>1. /\ f \in Formats /\ e.start \in Nat /\ S \in Nat /\ f.half \in Nat \ {0}
      /\ b \in Nat \ {0} /\ b = 2 * f.half
  BY ReceiverType DEF Bit
<1>2. f.stops \in {1, 2}
  BY <1>1, UartLinkAssumption
<1>3. FrameBits(f) = S + 1 + f.stops
  BY <1>1, <1>2 DEF FrameBits, StopIndex
<1>4. TxEnd(d) = e.start + FrameBits(f) * b
  BY DEF TxEnd, FrameTime
<1>5. Middle(e, S) = e.start + 3 * f.half + S * b
  BY DEF Middle
<1> HIDE DEF b, S, f
<1>6. S * b \in Nat /\ (S + 2) * b = S * b + b + b /\ FrameBits(f) \in Nat
  BY <1>1, <1>2, <1>3
<1>7. (S + 2) * b <= FrameBits(f) * b /\ FrameBits(f) * b \in Nat
  BY <1>1, <1>2, <1>3, <1>6, Growing
<1> QED BY <1>1, <1>4, <1>5, <1>6, <1>7 DEF S, f

LEMMA FullRun ==
    ASSUME NEW a \in Nat, NEW m \in Nat, NEW R, IsFiniteSet(R),
           Cardinality(R) \in Nat, m = a + Cardinality(R), R \subseteq a..(m - 1)
    PROVE  R = a..(m - 1)
<1>1. a \in Int /\ m - 1 \in Int /\ a <= m
  OBVIOUS
<1>2. Cardinality(a..(m - 1)) = IF a > m - 1 THEN 0 ELSE (m - 1) - a + 1
  BY <1>1, FS_Interval
<1>3. IsFiniteSet(a..(m - 1))
  BY <1>1, FS_Interval
<1>4. Cardinality(a..(m - 1)) = Cardinality(R)
  BY <1>1, <1>2
<1> QED BY <1>3, <1>4, FS_Subset

\* The resolved bits are the first of those left.
LEMMA ResolvedRun ==
    ASSUME NEW e \in Receivers, NEW t \in Nat, e.receiving,
           e.index <= StopIndex(e.format)
    PROVE  /\ Closes(e, t) => Resolved(e, t) = e.index..StopIndex(e.format)
           /\ ~Closes(e, t) =>
                 Resolved(e, t) = e.index..((e.index + Cardinality(Resolved(e, t))) - 1)
<1> DEFINE S == StopIndex(e.format)
           R == Resolved(e, t)
           i == e.index + Cardinality(R)
<1>1. e.index \in Nat /\ S \in Nat
  BY ReceiverType
<1>2. R = {k \in e.index..S : Middle(e, k) <= t}
  BY DEF Resolved
<1>3. \A k \in e.index..S : k \in Nat /\ Middle(e, k) \in Nat
  BY <1>1, MiddleType
<1>4. CASE Closes(e, t)
  <2>1. Middle(e, S) <= t /\ Middle(e, S) \in Nat
    BY <1>1, <1>2, <1>4, MiddleType DEF Closes
  <2>2. \A k \in e.index..S : Middle(e, k) <= Middle(e, S)
    BY <1>1, MiddleGrows
  <2> HIDE DEF S
  <2>3. \A k \in e.index..S : Middle(e, k) <= t
    BY <1>3, <2>1, <2>2
  <2> QED BY <1>2, <1>4, <2>3 DEF S
<1>5. CASE ~Closes(e, t)
  <2>1. /\ i \in Nat /\ i <= S
        /\ \A k \in i..S : t < Middle(e, k)
    BY <1>5, ResolvedFirst
  <2>2. IsFiniteSet(R) /\ Cardinality(R) \in Nat
    BY ResolvedFinite
  <2>3. i = e.index + Cardinality(R)
    OBVIOUS
  <2> HIDE DEF S, R, i
  <2>4. R \subseteq e.index..(i - 1)
    BY <1>1, <1>2, <1>3, <2>1
  <2>5. R = e.index..(i - 1)
    BY <1>1, <2>1, <2>2, <2>3, <2>4, FullRun
  <2> QED BY <1>5, <2>5 DEF R, i
<1> QED BY <1>4, <1>5

LEMMA MaskedBits ==
    ASSUME NEW f \in Formats, NEW w \in Words
    PROVE  /\ \A i \in 1..WordBits : Masked(f, w)[i] <=> i <= f.data /\ w[i]
           /\ ParityBit(f, Masked(f, w)) = ParityBit(f, w)
<1>1. \A i \in 1..WordBits : Masked(f, w)[i] <=> i <= f.data /\ w[i]
  BY DEF Masked
<1>2. f.data \in 1..WordBits /\ WordBits \in Nat
  BY FormatFacts, UartLinkAssumption
<1>3. \A i \in 1..f.data : Masked(f, w)[i] <=> w[i]
  BY <1>1, <1>2
<1>4. {i \in 1..f.data : Masked(f, w)[i]} = {i \in 1..f.data : w[i]}
  BY <1>3
<1> QED BY <1>1, <1>4 DEF ParityBit

\* What the receiver has to find at each bit.
LEMMA BitsOfFrame ==
    ASSUME NEW f \in Formats, NEW w \in Words
    PROVE  /\ FrameBit(f, w, 0) = FALSE
           /\ \A i \in 1..f.data : FrameBit(f, w, i) = w[i]
           /\ HasParity(f) => FrameBit(f, w, f.data + 1) = ParityBit(f, w)
           /\ \A i \in Nat : StopIndex(f) < i => FrameBit(f, w, i) = TRUE
<1>1. f.data \in 1..WordBits /\ WordBits \in Nat
  BY FormatFacts, UartLinkAssumption
<1>2. FrameBit(f, w, 0) = FALSE
  <2>1. 0 \notin 1..f.data /\ 0 # f.data + 1
    BY <1>1
  <2> QED BY <2>1 DEF FrameBit
<1>3. ASSUME NEW i \in 1..f.data
      PROVE  FrameBit(f, w, i) = w[i]
  <2>1. i # 0 /\ i # f.data + 1 /\ w[i] \in BOOLEAN
    BY <1>1 DEF Words
  <2> QED BY <2>1 DEF FrameBit
<1>4. ASSUME HasParity(f)
      PROVE  FrameBit(f, w, f.data + 1) = ParityBit(f, w)
  <2> DEFINE k == f.data + 1
  <2>1. k # 0 /\ k \notin 1..f.data /\ k = f.data + 1
    BY <1>1
  <2>2. ParityBit(f, w) \in BOOLEAN
    BY DEF ParityBit
  <2> HIDE DEF k
  <2>3. FrameBit(f, w, k) = ParityBit(f, w)
    BY <1>4, <2>1, <2>2 DEF FrameBit
  <2> QED BY <2>3 DEF k
<1>5. ASSUME NEW i \in Nat, StopIndex(f) < i
      PROVE  FrameBit(f, w, i) = TRUE
  <2>1. i # 0 /\ i \notin 1..f.data /\ (HasParity(f) => i # f.data + 1)
    BY <1>1, <1>5 DEF StopIndex, LastData
  <2> QED BY <2>1 DEF FrameBit
<1> QED BY <1>2, <1>3, <1>4, <1>5

-----------------------------------------------------------------------------
(* A frame seen by the receiver.                                            *)

\* What the two ends know while the receiver is in the frame.
LEMMA InFrameFacts ==
    ASSUME IInv, Punctual, Carried, linked, rx.receiving
    PROVE  /\ InFrame /\ tx.active /\ rx.start = tx.start /\ tx.format = rx.format
           /\ tx \in Emitters /\ rx \in Receivers /\ tx.format \in Formats
           /\ tx.word \in Words /\ now \in Nat
           /\ StopIndex(rx.format) \in Nat /\ rx.index \in Nat
           /\ rx.index <= StopIndex(rx.format)
           /\ Middle(rx, StopIndex(rx.format)) \in Nat
           /\ now <= Middle(rx, StopIndex(rx.format))
           /\ now < TxEnd(tx)
<1>1. /\ tx \in Emitters /\ rx \in Receivers /\ now \in Nat
      /\ turn \in {"none", "tx", "rx"}
  BY DEF IInv, TypeOK
<1>2. tx.format \in Formats /\ tx.word \in Words
  BY <1>1 DEF Emitters
<1>3. StopIndex(rx.format) \in Nat /\ rx.index \in Nat
  BY <1>1, ReceiverType
<1>4. InFrame /\ tx.active /\ rx.start = tx.start /\ tx.format = rx.format
  BY DEF Carried, InFrame, Current
<1>5. rx.index <= StopIndex(rx.format)
  BY DEF IInv, Reception
<1>6. Middle(rx, StopIndex(rx.format)) \in Nat
  BY <1>1, <1>3, MiddleType
<1>7. now <= Middle(rx, StopIndex(rx.format))
  <2>1. CASE turn = "rx"
    BY <2>1, <1>1, <1>6 DEF IInv, Reception
  <2>2. CASE turn # "rx"
    BY <2>2 DEF Punctual
  <2> QED BY <2>1, <2>2
<1>8. TxEnd(tx) \in Nat
  BY <1>1, <1>2, FormatFacts DEF TxEnd, Emitters
<1>9. Middle(rx, StopIndex(rx.format)) < TxEnd(tx)
  BY <1>1, <1>4, StopBeforeEnd
<1>10. now < TxEnd(tx)
  BY <1>1, <1>6, <1>7, <1>8, <1>9
<1> QED BY <1>1, <1>2, <1>3, <1>4, <1>5, <1>6, <1>7, <1>10

\* In the middle of a bit the emitter has no wake, and the wire is that bit.
LEMMA LineInTheMiddle ==
    ASSUME IInv, Punctual, Carried, linked, rx.receiving, turn # "tx",
           NEW k \in Nat, Middle(rx, k) = now
    PROVE  line = FrameBit(tx.format, tx.word, k + 1)
<1> DEFINE f == tx.format
           s == tx.start
           h == f.half
<1>1. /\ tx.active /\ rx.start = s /\ rx.format = f
      /\ tx \in Emitters /\ f \in Formats /\ now \in Nat /\ tx.word \in Words
  BY InFrameFacts
<1>2. s \in Nat /\ h \in Nat \ {0} /\ Bit(f) = 2 * h
  BY <1>1, FormatFacts DEF Emitters, Bit
<1>3. now = s + 3 * h + k * (2 * h)
  BY <1>1, <1>2 DEF Middle
<1>4. PICK d \in Nat : wakeTx = {d} /\ Stretch(d)
  BY <1>1 DEF IInv, Wire
<1>5. PICK j \in Nat : d = s + j * (2 * h)
  BY <1>1, <1>2, <1>4 DEF Punctual
<1>6. TxLevel(tx, now) <=> FrameBit(f, tx.word, BitIndex(tx, now))
  BY <1>1 DEF TxLevel
<1>7. BitIndex(tx, now) = (now - s) \div (2 * h)
  BY <1>2 DEF BitIndex
<1> HIDE DEF s, f, h
<1>8. k * (2 * h) \in Nat /\ j * (2 * h) \in Nat
  BY <1>2, Growing
<1>9. now # d
  <2>1. 3 * h + k * (2 * h) # j * (2 * h)
    BY <1>2, OffEdges
  <2> QED BY <1>2, <1>3, <1>5, <1>8, <2>1
<1>10. now - s = 3 * h + k * (2 * h)
  BY <1>2, <1>3, <1>8
<1>11. BitIndex(tx, now) = k + 1
  BY <1>2, <1>7, <1>10, MiddleBit
<1>12. line = TxLevel(tx, now)
  BY <1>1, <1>4, <1>9 DEF Stretch
<1>13. line \in BOOLEAN /\ TxLevel(tx, now) \in BOOLEAN
  BY DEF IInv, TypeOK, TxLevel
<1>14. FrameBit(f, tx.word, k + 1) \in BOOLEAN
  BY <1>1, FrameBitType
<1>15. line = FrameBit(f, tx.word, k + 1)
  BY <1>6, <1>11, <1>12, <1>13, <1>14
<1> QED BY <1>15 DEF f

\* Every bit is read as the emitter sent it.
LEMMA ReadInFrame ==
    ASSUME IInv, Punctual, Carried, linked, rx.receiving, turn # "tx",
           NEW k \in Resolved(rx, now)
    PROVE  /\ k \in rx.index..StopIndex(rx.format)
           /\ Read(rx, now, line, k) = FrameBit(tx.format, tx.word, k + 1)
<1>1. k \in rx.index..StopIndex(rx.format) /\ Middle(rx, k) <= now
  BY DEF Resolved
<1>2. k \in Nat /\ now \in Nat /\ Middle(rx, k) \in Nat
  BY <1>1, InFrameFacts, MiddleType
<1>3. CASE Middle(rx, k) = now
  BY <1>1, <1>2, <1>3, LineInTheMiddle DEF Read
<1>4. CASE Middle(rx, k) < now
  BY <1>1, <1>4, InFrameFacts DEF InFrame, Read
<1> QED BY <1>1, <1>2, <1>3, <1>4

\* The word grows by the bits resolved.
LEMMA ShiftedInFrame ==
    ASSUME IInv, Punctual, Carried, linked, rx.receiving, turn # "tx",
           NEW i \in 1..WordBits
    PROVE  Shifted(rx, now, line)[i] <=>
               /\ Masked(tx.format, tx.word)[i]
               /\ i <= rx.index \/ i - 1 \in Resolved(rx, now)
<1> DEFINE f == tx.format
           w == tx.word
<1>1. /\ InFrame /\ rx.format = f /\ f \in Formats /\ w \in Words /\ rx.index \in Nat
      /\ f.data \in 1..WordBits /\ WordBits \in Nat
  BY InFrameFacts, FormatFacts, UartLinkAssumption
<1>2. rx.word[i] <=> i <= rx.index /\ Masked(f, w)[i]
  BY <1>1 DEF InFrame
<1>3. Masked(f, w)[i] <=> i <= f.data /\ w[i]
  BY <1>1, MaskedBits
<1>4. Shifted(rx, now, line)[i] <=>
        rx.word[i] \/ (i <= f.data /\ i - 1 \in Resolved(rx, now)
                       /\ Read(rx, now, line, i - 1))
  BY <1>1 DEF Shifted
<1>5. ASSUME i <= f.data, i - 1 \in Resolved(rx, now)
      PROVE  Read(rx, now, line, i - 1) = w[i]
  <2>1. Read(rx, now, line, i - 1) = FrameBit(f, w, (i - 1) + 1)
    BY <1>5, ReadInFrame
  <2>2. (i - 1) + 1 = i /\ i \in 1..f.data
    BY <1>1, <1>5
  <2> HIDE DEF f, w
  <2>3. FrameBit(f, w, i) = w[i]
    BY <1>1, <2>2, BitsOfFrame
  <2> QED BY <2>1, <2>2, <2>3
<1> QED BY <1>2, <1>3, <1>4, <1>5

\* Once the last bit of data is resolved the word is complete.
LEMMA WordInFrame ==
    ASSUME IInv, Punctual, Carried, linked, rx.receiving, turn # "tx",
           NEW k \in Resolved(rx, now), tx.format.data <= k
    PROVE  Shifted(rx, now, line) = Masked(tx.format, tx.word)
<1> DEFINE f == tx.format
           m == Masked(f, tx.word)
           s == Shifted(rx, now, line)
<1>1. /\ rx.format = f /\ f \in Formats /\ tx.word \in Words /\ rx.index \in Nat
      /\ StopIndex(rx.format) \in Nat /\ rx \in Receivers /\ now \in Nat
      /\ f.data \in 1..WordBits /\ WordBits \in Nat
  BY InFrameFacts, FormatFacts, UartLinkAssumption
<1>2. k \in rx.index..StopIndex(rx.format) /\ Middle(rx, k) <= now
  BY DEF Resolved
<1>3. ASSUME NEW i \in 1..WordBits
      PROVE  s[i] = m[i]
  <2>1. s[i] <=> m[i] /\ (i <= rx.index \/ i - 1 \in Resolved(rx, now))
    BY ShiftedInFrame
  <2>2. m[i] => i <= f.data
    BY <1>1, MaskedBits
  <2>3. ASSUME i <= f.data, rx.index < i
        PROVE  i - 1 \in Resolved(rx, now)
    <3>1. i - 1 \in rx.index..StopIndex(rx.format) /\ i - 1 \in Nat /\ i - 1 <= k /\ k \in Nat
      BY <1>1, <1>2, <2>3
    <3>2. /\ Middle(rx, i - 1) <= Middle(rx, k)
          /\ Middle(rx, i - 1) \in Nat /\ Middle(rx, k) \in Nat
      BY <1>1, <3>1, MiddleGrows, MiddleType
    <3>3. Middle(rx, i - 1) <= now
      BY <1>1, <1>2, <3>2
    <3> QED BY <3>1, <3>3 DEF Resolved
  <2>4. i <= rx.index \/ rx.index < i
    BY <1>1
  <2>5. m[i] \in BOOLEAN /\ s[i] \in BOOLEAN
    BY MaskedType, ShiftedType DEF Words
  <2> HIDE DEF m, s
  <2>6. s[i] <=> m[i]
    BY <2>1, <2>2, <2>3, <2>4
  <2> QED BY <2>5, <2>6
<1>4. s = [i \in 1..WordBits |-> s[i]] /\ m = [i \in 1..WordBits |-> m[i]]
  BY DEF Shifted, Masked
<1> HIDE DEF s, m
<1>5. [i \in 1..WordBits |-> s[i]] = [i \in 1..WordBits |-> m[i]]
  BY <1>3
<1>6. s = m
  BY <1>4, <1>5
<1> QED BY <1>6 DEF s, m, f

LEMMA NoErrorInFrame ==
    ASSUME IInv, Punctual, Carried, linked, rx.receiving, turn # "tx"
    PROVE  Errors(rx, now, line) = {}
<1> DEFINE f == tx.format
           w == tx.word
           s == Shifted(rx, now, line)
           R == Resolved(rx, now)
           read(k) == Read(rx, now, line, k)
<1>1. /\ InFrame /\ rx.format = f /\ f \in Formats /\ w \in Words
      /\ StopIndex(f) \in Nat /\ f.data \in 1..WordBits /\ WordBits \in Nat
  BY InFrameFacts, FormatFacts, UartLinkAssumption
<1>2. rx.errors = {}
  BY <1>1 DEF InFrame
<1>3. ASSUME HasParity(f), f.data \in R
      PROVE  read(f.data) = ParityBit(f, s)
  <2>1. s = Masked(f, w)
    <3>1. f.data <= f.data
      BY <1>1
    <3> QED BY <1>3, <3>1, WordInFrame
  <2>2. read(f.data) = FrameBit(f, w, f.data + 1)
    BY <1>3, ReadInFrame
  <2>3. FrameBit(f, w, f.data + 1) = ParityBit(f, w)
    BY <1>1, <1>3, BitsOfFrame
  <2>4. ParityBit(f, Masked(f, w)) = ParityBit(f, w)
    BY <1>1, MaskedBits
  <2> HIDE DEF s, read
  <2> QED BY <2>1, <2>2, <2>3, <2>4
<1>4. ASSUME StopIndex(f) \in R
      PROVE  read(StopIndex(f))
  <2>1. read(StopIndex(f)) = FrameBit(f, w, StopIndex(f) + 1)
    BY <1>4, ReadInFrame
  <2>2. StopIndex(f) + 1 \in Nat /\ StopIndex(f) < StopIndex(f) + 1
    BY <1>1
  <2>3. FrameBit(f, w, StopIndex(f) + 1) = TRUE
    BY <1>1, <2>2, BitsOfFrame
  <2> QED BY <2>1, <2>3
<1>5. Errors(rx, now, line) =
        rx.errors
        \cup {x \in {"parity"} : /\ HasParity(f) /\ f.data \in R
                                 /\ read(f.data) # ParityBit(f, s)}
        \cup {x \in {"framing"} : StopIndex(f) \in R /\ ~read(StopIndex(f))}
  BY <1>1 DEF Errors
<1> HIDE DEF R, s, read, f
<1> QED BY <1>2, <1>3, <1>4, <1>5

-----------------------------------------------------------------------------
(* The synchronisations of the receiver.                                    *)

LEMMA InitCarried == Init => Punctual /\ Carried
<1> SUFFICES ASSUME Init
             PROVE  Punctual /\ Carried
  OBVIOUS
<1>1. /\ tx.active = FALSE /\ rx.receiving = FALSE /\ linked = FALSE
      /\ rx.word = NoBits /\ rx.errors = {}
  BY DEF Init
<1> QED BY <1>1 DEF Punctual, Carried

\* What a call makes of a receiver that is not in a byte.
LEMMA StepWhenIdle ==
    ASSUME NEW e \in Receivers, NEW t, NEW level \in BOOLEAN,
           ~e.receiving, e.index = 0, e.word = NoBits, e.errors = {}
    PROVE  LET r == RxStep(e, t, level)
           IN  /\ ~Closes(e, t)
               /\ r.configured = e.configured /\ r.format = e.format
               /\ r.queue = e.queue /\ r.last = level
               /\ r.word = NoBits /\ r.errors = {} /\ r.index = 0
               /\ r.receiving <=> e.last /\ ~level
               /\ r.receiving => r.start = t
<1> DEFINE c == Collect(e, t, level)
           r == RxStep(e, t, level)
<1>1. Resolved(e, t) = {}
  BY DEF Resolved
<1>2. ~Closes(e, t)
  BY <1>1 DEF Closes
<1>3. Shifted(e, t, level) = NoBits
  <2>1. \A i \in 1..WordBits : ~e.word[i]
    BY DEF NoBits
  <2> QED BY <1>1, <2>1 DEF Shifted, NoBits
<1>4. Errors(e, t, level) = {}
  BY <1>1 DEF Errors
<1>5. e.index + Cardinality(Resolved(e, t)) = 0
  BY <1>1, FS_EmptySet
<1>6. c = [e EXCEPT !.word = NoBits, !.errors = {}, !.index = 0]
  <2>1. c = [e EXCEPT !.word = Shifted(e, t, level), !.errors = Errors(e, t, level),
                      !.index = e.index + Cardinality(Resolved(e, t))]
    BY <1>2 DEF Collect, Receivers
  <2> HIDE DEF c
  <2> QED BY <1>3, <1>4, <1>5, <2>1
<1>7. r = IF Starts(c, level)
          THEN [c EXCEPT !.receiving = TRUE, !.start = t, !.last = level]
          ELSE [c EXCEPT !.last = level]
  BY DEF RxStep
<1> HIDE DEF c, r
<1>8. /\ c.configured = e.configured /\ c.format = e.format /\ c.queue = e.queue
      /\ c.last = e.last /\ c.receiving = e.receiving
  BY <1>6 DEF Receivers
<1>9. c.word = NoBits /\ c.errors = {} /\ c.index = 0 /\ c.start = e.start
  BY <1>6 DEF Receivers
<1>11. Starts(c, level) <=> e.last /\ ~level
  BY <1>8 DEF Starts
<1>12. CASE Starts(c, level)
  <2>1. r = [c EXCEPT !.receiving = TRUE, !.start = t, !.last = level]
    BY <1>7, <1>12
  <2>2. /\ r.configured = c.configured /\ r.format = c.format /\ r.queue = c.queue
        /\ r.last = level /\ r.receiving /\ r.start = t
    BY <1>6, <2>1 DEF Receivers
  <2>3. r.word = c.word /\ r.errors = c.errors /\ r.index = c.index
    BY <1>6, <2>1 DEF Receivers
  <2> QED BY <1>2, <1>8, <1>9, <1>11, <1>12, <2>2, <2>3 DEF r
<1>13. CASE ~Starts(c, level)
  <2>1. r = [c EXCEPT !.last = level]
    BY <1>7, <1>13
  <2>2. /\ r.configured = c.configured /\ r.format = c.format /\ r.queue = c.queue
        /\ r.last = level /\ r.receiving = c.receiving
    BY <1>6, <2>1 DEF Receivers
  <2>3. r.word = c.word /\ r.errors = c.errors /\ r.index = c.index
    BY <1>6, <2>1 DEF Receivers
  <2> QED BY <1>2, <1>8, <1>9, <1>11, <1>13, <2>2, <2>3 DEF r
<1> QED BY <1>12, <1>13

\* And of one that is.
LEMMA StepInByte ==
    ASSUME NEW e \in Receivers, NEW t, NEW level \in BOOLEAN, e.receiving
    PROVE  LET r == RxStep(e, t, level)
           IN  /\ r.configured = e.configured /\ r.format = e.format
               /\ r.last = level
               /\ Closes(e, t) => /\ level => ~r.receiving
                                  /\ r.word = NoBits /\ r.errors = {}
               /\ ~Closes(e, t) =>
                     /\ r.receiving /\ r.start = e.start
                     /\ r.word = Shifted(e, t, level) /\ r.errors = Errors(e, t, level)
                     /\ r.index = e.index + Cardinality(Resolved(e, t))
<1> DEFINE c == Collect(e, t, level)
           r == RxStep(e, t, level)
           s == Shifted(e, t, level)
           x == Errors(e, t, level)
           i == e.index + Cardinality(Resolved(e, t))
           q == Pushed(e.queue, <<s>>)
<1>1. r = IF Starts(c, level)
          THEN [c EXCEPT !.receiving = TRUE, !.start = t, !.last = level]
          ELSE [c EXCEPT !.last = level]
  BY DEF RxStep
<1>2. CASE Closes(e, t)
  <2>1. c = [e EXCEPT !.receiving = FALSE, !.index = 0, !.word = NoBits, !.start = 0,
                      !.errors = {}, !.queue = q]
    BY <1>2 DEF Collect, RxIdle, Receivers
  <2> HIDE DEF c, r, q
  <2>2. CASE Starts(c, level)
    <3>1. r = [c EXCEPT !.receiving = TRUE, !.start = t, !.last = level] /\ ~level
      BY <1>1, <2>2 DEF Starts
    <3>2. /\ r.configured = e.configured /\ r.format = e.format /\ r.last = level
      BY <2>1, <3>1 DEF Receivers
    <3>3. r.word = NoBits /\ r.errors = {}
      BY <2>1, <3>1 DEF Receivers
    <3> QED BY <1>2, <3>1, <3>2, <3>3 DEF r
  <2>3. CASE ~Starts(c, level)
    <3>1. r = [c EXCEPT !.last = level]
      BY <1>1, <2>3
    <3>2. /\ r.configured = e.configured /\ r.format = e.format /\ r.last = level
      BY <2>1, <3>1 DEF Receivers
    <3>3. ~r.receiving /\ r.word = NoBits /\ r.errors = {}
      BY <2>1, <3>1 DEF Receivers
    <3> QED BY <1>2, <3>2, <3>3 DEF r
  <2> QED BY <2>2, <2>3
<1>3. CASE ~Closes(e, t)
  <2>1. c = [e EXCEPT !.word = s, !.errors = x, !.index = i]
    BY <1>3 DEF Collect, Receivers
  <2> HIDE DEF c, r, s, x, i
  <2>2. c.receiving
    BY <2>1 DEF Receivers
  <2>3. r = [c EXCEPT !.last = level]
    BY <1>1, <2>2 DEF Starts
  <2>4. /\ r.configured = e.configured /\ r.format = e.format /\ r.last = level
        /\ r.receiving = e.receiving /\ r.start = e.start
    BY <2>1, <2>3 DEF Receivers
  <2>5. r.word = s /\ r.errors = x /\ r.index = i
    BY <2>1, <2>3 DEF Receivers
  <2> QED BY <1>3, <2>4, <2>5 DEF r, s, x, i
<1> QED BY <1>2, <1>3

LEMMA SyncRxPunctual ==
    ASSUME IInv, Punctual, SyncRx
    PROVE  Punctual'
<1>1. /\ turn = "none" /\ turn' = "rx" /\ UNCHANGED <<tx, wakeTx>>
      /\ rx' = IF rx.configured THEN RxStep(rx, now, line) ELSE rx
  BY DEF SyncRx
<1>2. /\ rx \in Receivers /\ line \in BOOLEAN
      /\ ~rx.receiving => rx.index = 0 /\ rx.word = NoBits /\ rx.errors = {}
  BY DEF IInv, TypeOK, Reception, Punctual
<1>3. ~rx'.receiving => rx'.word = NoBits /\ rx'.errors = {}
  <2>1. CASE ~rx.configured
    BY <1>1, <1>2, <2>1
  <2>2. CASE rx.configured /\ ~rx.receiving
    BY <1>1, <1>2, <2>2, StepWhenIdle
  <2>3. CASE rx.configured /\ rx.receiving
    BY <1>1, <1>2, <2>3, StepInByte
  <2> QED BY <2>1, <2>2, <2>3
<1>4. tx'.active => \A d \in wakeTx' : \E j \in Nat : d = tx'.start + j * Bit(tx'.format)
  BY <1>1 DEF Punctual
<1> QED BY <1>1, <1>3, <1>4 DEF Punctual

\* Both ends are ready and nothing is sent yet.
LEMMA SyncRxLinks ==
    ASSUME IInv, Punctual, SyncRx, ~linked
    PROVE  Carried'
<1> SUFFICES ASSUME linked'
             PROVE  Carried'
  BY DEF Carried
<1>1. /\ Linking /\ reported' = {} /\ received' = received
      /\ UNCHANGED <<tx, sent, line>>
  BY DEF SyncRx
<1>2. /\ tx.configured /\ rx.configured /\ tx.format = rx.format /\ sent = <<>>
      /\ received = <<>> /\ ~tx.active /\ line /\ ~rx.receiving
  BY <1>1 DEF Linking
<1>3. tx.queue = <<>> /\ rx \in Receivers /\ line \in BOOLEAN
  BY <1>2 DEF IInv, Emission, TypeOK
<1>4. rx.index = 0 /\ rx.word = NoBits /\ rx.errors = {}
  BY <1>2 DEF IInv, Reception, Punctual
<1>5. rx' = RxStep(rx, now, line)
  BY <1>2 DEF SyncRx
<1>6. /\ rx'.configured = rx.configured /\ rx'.format = rx.format
      /\ rx'.last = line /\ ~rx'.receiving
  <2>1. ~rx.receiving
    BY <1>2
  <2>2. /\ rx'.configured = rx.configured /\ rx'.format = rx.format
        /\ rx'.last = line
        /\ rx'.receiving <=> rx.last /\ ~line
    BY <1>3, <1>4, <1>5, <2>1, StepWhenIdle
  <2> QED BY <1>2, <2>2
<1>7. Len(<<>>) = 0
  BY EmptySeq
<1>8. AtRest'
  BY <1>1, <1>2 DEF AtRest
<1>9. Queued'
  BY <1>1, <1>3, <1>7 DEF Queued
<1> QED BY <1>1, <1>2, <1>6, <1>7, <1>8, <1>9 DEF Carried

\* The fall of the line, or nothing new.
LEMMA SyncRxIdle ==
    ASSUME IInv, Punctual, Carried, SyncRx, linked, ~rx.receiving
    PROVE  Carried'
<1>1. /\ tx.configured /\ rx.configured /\ tx.format = rx.format /\ reported = {}
      /\ Len(received) <= Len(sent)
      /\ \A i \in 1..Len(received) : received[i] = sent[i]
      /\ Queued /\ rx.last /\ (Ahead \/ Arrived \/ AtRest)
  BY DEF Carried
<1>2. rx \in Receivers /\ line \in BOOLEAN /\ now \in Nat /\ tx.format \in Formats
  BY DEF IInv, TypeOK, Emitters
<1>3. rx.index = 0 /\ rx.word = NoBits /\ rx.errors = {}
  BY DEF IInv, Reception, Punctual
<1>4. rx' = RxStep(rx, now, line)
  BY <1>1 DEF SyncRx
<1>5. /\ ~Closes(rx, now) /\ rx'.configured = rx.configured /\ rx'.format = rx.format
      /\ rx'.last = line
      /\ rx'.word = NoBits /\ rx'.errors = {} /\ rx'.index = 0
      /\ rx'.receiving <=> ~line
      /\ rx'.receiving => rx'.start = now
  <2>1. /\ ~Closes(rx, now) /\ rx'.configured = rx.configured /\ rx'.format = rx.format
        /\ rx'.last = line
        /\ rx'.word = NoBits /\ rx'.errors = {} /\ rx'.index = 0
        /\ rx'.receiving <=> rx.last /\ ~line
        /\ rx'.receiving => rx'.start = now
    BY <1>2, <1>3, <1>4, StepWhenIdle
  <2>2. rx.last
    BY <1>1
  <2> QED BY <2>1, <2>2
<1>6. /\ reported' = {} /\ received' = received
      /\ UNCHANGED <<now, tx, sent, line>> /\ edge' = FALSE
  BY <1>5 DEF SyncRx
<1>7. Queued' /\ (Current => Current') /\ (Arrived => Arrived') /\ (AtRest => AtRest')
  BY <1>1, <1>6 DEF Queued, Current, Arrived, AtRest, Middle
<1>8. CASE line
  <2>1. Ahead => Ahead'
    BY <1>6, <1>7, <1>8 DEF Ahead
  <2>2. Ahead' \/ Arrived' \/ AtRest'
    BY <1>1, <1>7, <2>1
  <2> QED BY <1>1, <1>5, <1>6, <1>7, <1>8, <2>2 DEF Carried
<1>9. CASE ~line
  <2>1. Current /\ now = tx.start
    BY <1>1, <1>9 DEF Ahead, Arrived, AtRest
  <2>2. \A i \in 1..WordBits : rx'.word[i] <=> i <= rx'.index /\ Masked(tx.format, tx.word)[i]
    BY <1>5 DEF NoBits
  <2>3. StopIndex(rx'.format) \in Nat
    <3>1. rx'.format \in Formats /\ WordBits \in Nat
      BY <1>1, <1>2, <1>5, UartLinkAssumption
    <3> QED BY <3>1, FormatFacts
  <2>4. rx' \in Receivers
    BY SyncRxType DEF IInv, TypeOK
  <2>5. \A k \in rx'.index..StopIndex(rx'.format) :
           k \in Nat /\ Middle(rx', k) \in Nat /\ rx'.start < Middle(rx', k)
    BY <1>5, <2>3, <2>4, MiddleType
  <2>6. rx'.start = now
    BY <1>5, <1>9
  <2>7. \A k \in rx'.index..StopIndex(rx'.format) : ~(Middle(rx', k) < now)
    BY <1>2, <2>5, <2>6
  <2>8. InFrame'
    BY <1>5, <1>6, <1>7, <2>1, <2>2, <2>6, <2>7 DEF InFrame
  <2> QED BY <1>1, <1>5, <1>6, <1>7, <1>9, <2>8 DEF Carried
<1> QED BY <1>8, <1>9

\* Bits are resolved, and the byte goes on.
LEMMA SyncRxBits ==
    ASSUME IInv, Punctual, Carried, SyncRx, linked, rx.receiving, ~Closes(rx, now)
    PROVE  Carried'
<1>1. /\ tx.configured /\ rx.configured /\ tx.format = rx.format /\ reported = {}
      /\ Len(received) <= Len(sent)
      /\ \A i \in 1..Len(received) : received[i] = sent[i]
      /\ Queued /\ InFrame
  BY DEF Carried
<1>2. /\ rx \in Receivers /\ line \in BOOLEAN /\ now \in Nat /\ turn # "tx"
      /\ rx.index \in Nat /\ rx.index <= StopIndex(rx.format)
      /\ StopIndex(rx.format) \in Nat
  BY InFrameFacts DEF IInv, TypeOK, SyncRx
<1>3. rx' = RxStep(rx, now, line)
  BY <1>1 DEF SyncRx
<1> DEFINE n == rx.index + Cardinality(Resolved(rx, now))
<1>4. /\ rx'.configured = rx.configured /\ rx'.format = rx.format
      /\ rx'.receiving /\ rx'.start = rx.start /\ rx'.index = n
      /\ rx'.word = Shifted(rx, now, line) /\ rx'.errors = Errors(rx, now, line)
  BY <1>2, <1>3, StepInByte
<1>5. rx'.errors = {}
  BY <1>2, <1>4, NoErrorInFrame
<1>6. n \in Nat /\ Resolved(rx, now) = rx.index..(n - 1)
  BY <1>2, ResolvedRun, ResolvedFirst
<1>7. \A k \in n..StopIndex(rx.format) : now < Middle(rx, k)
  BY <1>2, ResolvedFirst
<1>8. n <= StopIndex(rx.format) /\ rx.index <= n
  <2>1. Cardinality(Resolved(rx, now)) \in Nat
    BY <1>2, ResolvedFinite
  <2> QED BY <1>2, <2>1, ResolvedFirst
<1> HIDE DEF n
<1>9. /\ reported' = {} /\ received' = received /\ UNCHANGED <<now, tx, sent, line>>
  BY DEF SyncRx
<1>10. Queued' /\ Current'
  BY <1>1, <1>9 DEF Queued, Current, InFrame
<1>11. \A i \in 1..WordBits : rx'.word[i] <=> i <= rx'.index /\ Masked(tx.format, tx.word)[i]
  <2> SUFFICES ASSUME NEW i \in 1..WordBits
               PROVE  rx'.word[i] <=> i <= rx'.index /\ Masked(tx.format, tx.word)[i]
    OBVIOUS
  <2>1. rx'.word[i] <=> /\ Masked(tx.format, tx.word)[i]
                        /\ i <= rx.index \/ i - 1 \in Resolved(rx, now)
    BY <1>2, <1>4, ShiftedInFrame
  <2>2. i <= rx.index \/ i - 1 \in Resolved(rx, now) <=> i <= n
    BY <1>2, <1>6, <1>8, UartLinkAssumption
  <2> QED BY <1>4, <2>1, <2>2
<1>12. \A k \in rx'.index..StopIndex(rx'.format) : ~(Middle(rx', k) < now)
  <2>1. \A k : Middle(rx', k) = Middle(rx, k)
    BY <1>4 DEF Middle
  <2>2. \A k \in n..StopIndex(rx.format) : Middle(rx, k) \in Nat
    BY <1>2, <1>6, MiddleType
  <2> QED BY <1>2, <1>4, <1>7, <2>1, <2>2
<1>13. InFrame'
  BY <1>1, <1>4, <1>5, <1>9, <1>10, <1>11, <1>12 DEF InFrame
<1> QED BY <1>1, <1>4, <1>9, <1>10, <1>13 DEF Carried

\* The stop bit: the word that was sent is queued.
LEMMA SyncRxByte ==
    ASSUME IInv, Punctual, Carried, SyncRx, linked, rx.receiving, Closes(rx, now)
    PROVE  Carried'
<1> DEFINE f == tx.format
           S == StopIndex(f)
           m == Masked(f, tx.word)
<1>1. /\ tx.configured /\ rx.configured /\ rx.format = f /\ reported = {}
      /\ Len(received) <= Len(sent)
      /\ \A i \in 1..Len(received) : received[i] = sent[i]
      /\ Queued /\ InFrame
  BY DEF Carried
<1>2. /\ rx \in Receivers /\ line \in BOOLEAN /\ now \in Nat /\ turn # "tx"
      /\ S \in Nat /\ f \in Formats /\ tx.word \in Words
      /\ Middle(rx, S) \in Nat /\ now <= Middle(rx, S)
      /\ f.data \in 1..WordBits /\ WordBits \in Nat
  BY <1>1, InFrameFacts, FormatFacts, UartLinkAssumption DEF IInv, TypeOK, SyncRx
<1>3. S \in Resolved(rx, now)
  BY <1>1 DEF Closes
<1>4. Middle(rx, S) = now
  BY <1>2, <1>3 DEF Resolved
<1>5. line = TRUE
  <2>1. line = FrameBit(f, tx.word, S + 1)
    BY <1>2, <1>4, LineInTheMiddle
  <2>2. S + 1 \in Nat /\ S < S + 1
    BY <1>2
  <2>3. FrameBit(f, tx.word, S + 1) = TRUE
    BY <1>2, <2>2, BitsOfFrame
  <2> QED BY <2>1, <2>3
<1>6. rx' = RxStep(rx, now, line)
  BY <1>1 DEF SyncRx
<1>7. /\ rx'.configured = rx.configured /\ rx'.format = rx.format
      /\ ~rx'.receiving /\ rx'.last = line
  BY <1>2, <1>5, <1>6, StepInByte
<1>8. Shifted(rx, now, line) = m
  <2>1. f.data <= S
    BY <1>2 DEF StopIndex, LastData
  <2> QED BY <1>2, <1>3, <2>1, WordInFrame
<1>9. Errors(rx, now, line) = {}
  BY <1>2, NoErrorInFrame
<1>10. /\ received' = Append(received, m) /\ reported' = {}
       /\ UNCHANGED <<now, tx, sent, line>>
  BY <1>1, <1>8, <1>9 DEF SyncRx
<1>11. /\ tx.active /\ Len(sent) = Len(received) + 1 + Len(tx.queue)
       /\ sent[Len(received) + 1] = m /\ rx.start = tx.start
  BY <1>1 DEF InFrame, Current
<1>12. received \in Seq(Words) /\ sent \in Seq(Words) /\ tx.queue \in Seq(Words)
  BY DEF IInv, TypeOK, Emitters
<1>13. Len(received) \in Nat /\ Len(sent) \in Nat /\ Len(tx.queue) \in Nat
  BY <1>12
<1> HIDE DEF m
<1>14. /\ Len(received') = Len(received) + 1
       /\ \A i \in 1..Len(received) : received'[i] = received[i]
       /\ received'[Len(received) + 1] = m
  BY <1>10, <1>12, AppendProperties
<1>15. \A i \in 1..Len(received') : received'[i] = sent'[i]
  <2> SUFFICES ASSUME NEW i \in 1..Len(received')
               PROVE  received'[i] = sent[i]
    BY <1>10
  <2>1. i \in 1..Len(received) \/ i = Len(received) + 1
    BY <1>13, <1>14
  <2> QED BY <1>1, <1>11, <1>14, <2>1
<1>16. Len(received') <= Len(sent') /\ Len(sent') = Len(received') + Len(tx'.queue)
  <2>1. Len(sent') = Len(sent) /\ Len(tx'.queue) = Len(tx.queue)
    BY <1>10
  <2>2. Len(received') = Len(received) + 1
    BY <1>14
  <2>3. Len(sent) = Len(received) + 1 + Len(tx.queue)
    BY <1>11
  <2>4. \A a, b, q \in Nat : b = a + 1 + q => a + 1 <= b /\ b = (a + 1) + q
    OBVIOUS
  <2>5. Len(received) + 1 <= Len(sent) /\ Len(sent) = (Len(received) + 1) + Len(tx.queue)
    BY <1>13, <2>3, <2>4
  <2> QED BY <2>1, <2>2, <2>5
<1>17. Middle(tx, S) <= now
  <2>1. Middle(tx, S) = Middle(rx, S)
    BY <1>1, <1>11 DEF Middle
  <2> QED BY <1>2, <1>4, <2>1
<1>18. Arrived'
  BY <1>5, <1>10, <1>11, <1>16, <1>17 DEF Arrived, Middle
<1>19. Queued'
  BY <1>1, <1>10 DEF Queued
<1> QED BY <1>1, <1>5, <1>7, <1>10, <1>15, <1>16, <1>18, <1>19 DEF Carried

LEMMA SyncRxCarried ==
    ASSUME IInv, Punctual, Carried, SyncRx
    PROVE  Punctual' /\ Carried'
BY SyncRxPunctual, SyncRxLinks, SyncRxIdle, SyncRxBits, SyncRxByte

-----------------------------------------------------------------------------
(* The emitter's half, and time.                                            *)

\* What the receiver holds is not disturbed by the other end, nor the history.
LEMMA OtherPunctual ==
    ASSUME IInv, Punctual, UNCHANGED <<now, wakeRx>>,
           /\ rx'.receiving = rx.receiving /\ rx'.start = rx.start
           /\ rx'.format = rx.format /\ rx'.word = rx.word /\ rx'.errors = rx.errors,
           turn' # "rx" => turn # "rx",
           turn' # "tx" => turn # "tx" /\ UNCHANGED <<tx, wakeTx>>
    PROVE  Punctual'
<1>1. Middle(rx', StopIndex(rx'.format)) = Middle(rx, StopIndex(rx.format))
  BY DEF Middle
<1> QED BY <1>1 DEF Punctual

\* Nothing that the link depends on changes.
LEMMA OtherCarried ==
    ASSUME Carried, UNCHANGED <<now, tx, line, sent, received, reported, linked>>,
           edge => edge',
           /\ rx'.receiving = rx.receiving /\ rx'.start = rx.start
           /\ rx'.format = rx.format /\ rx'.word = rx.word /\ rx'.errors = rx.errors
           /\ rx'.index = rx.index /\ rx'.last = rx.last
           /\ rx'.configured = rx.configured
    PROVE  Carried'
<1>1. \A k : Middle(rx', k) = Middle(rx, k)
  BY DEF Middle
<1>2. /\ Queued' <=> Queued
      /\ Current => Current'
  BY DEF Queued, Current
<1>3. InFrame => InFrame'
  BY <1>1, <1>2 DEF InFrame
<1>4. /\ Ahead => Ahead'
      /\ Arrived => Arrived'
      /\ AtRest => AtRest'
  BY <1>2 DEF Ahead, Arrived, AtRest, Middle
<1> QED BY <1>2, <1>3, <1>4 DEF Carried

\* Time only passes when the fall of the line has been seen, and a bit whose
\* middle it leaves is the level seen last.
LEMMA AdvanceCarried ==
    ASSUME IInv, Punctual, Carried, Advance
    PROVE  Punctual' /\ Carried'
<1>1. /\ now \in Nat /\ now' = now + 1 /\ turn = "none" /\ ~edge
      /\ \A d \in wakeTx \cup wakeRx : now < d
      /\ UNCHANGED <<tx, rx, turn, wakeTx, wakeRx, line, edge, sent, received, reported,
                     linked>>
  BY DEF IInv, TypeOK, Advance, Quiet
<1>2. Punctual'
  <2>1. ASSUME rx.receiving
        PROVE  now + 1 <= Middle(rx, StopIndex(rx.format))
    <3>1. wakeRx = {Middle(rx, StopIndex(rx.format))}
      BY <1>1, <2>1 DEF Punctual
    <3>2. rx \in Receivers
      BY DEF IInv, TypeOK
    <3>3. Middle(rx, StopIndex(rx.format)) \in Nat
      BY <3>2, ReceiverType, MiddleType
    <3> QED BY <1>1, <3>1, <3>3
  <2>2. Middle(rx', StopIndex(rx'.format)) = Middle(rx, StopIndex(rx.format))
    BY <1>1
  <2> QED BY <1>1, <2>1, <2>2 DEF Punctual
<1>3. ASSUME linked
      PROVE  Carried'
  <2>1. /\ tx.configured /\ rx.configured /\ tx.format = rx.format /\ reported = {}
        /\ Len(received) <= Len(sent)
        /\ \A i \in 1..Len(received) : received[i] = sent[i]
        /\ Queued
    BY <1>3 DEF Carried
  <2>2. Queued'
    BY <1>1, <2>1 DEF Queued
  <2>3. CASE rx.receiving
    <3>1. /\ InFrame /\ rx \in Receivers /\ StopIndex(rx.format) \in Nat
          /\ rx.index \in Nat
      BY <1>3, <2>3, InFrameFacts
    <3>2. Current'
      BY <1>1, <3>1 DEF InFrame, Current
    <3>3. ASSUME NEW k \in rx.index..StopIndex(rx.format), Middle(rx, k) < now + 1
          PROVE  rx.last = FrameBit(tx.format, tx.word, k + 1)
      <4>1. k \in Nat /\ Middle(rx, k) \in Nat
        BY <3>1, MiddleType
      <4>2. CASE Middle(rx, k) = now
        <5>1. line = FrameBit(tx.format, tx.word, k + 1)
          BY <1>1, <1>3, <2>3, <4>1, <4>2, LineInTheMiddle
        <5>2. rx.last = line
          BY <1>1, <2>3 DEF IInv, Reception
        <5> QED BY <5>1, <5>2
      <4>3. CASE Middle(rx, k) < now
        BY <3>1, <4>3 DEF InFrame
      <4> QED BY <1>1, <3>3, <4>1, <4>2, <4>3
    <3>4. \A k : Middle(rx, k)' = Middle(rx, k)
      BY <1>1 DEF Middle
    <3>5. InFrame'
      BY <1>1, <3>1, <3>2, <3>3, <3>4 DEF InFrame
    <3> QED BY <1>1, <2>1, <2>2, <2>3, <3>5 DEF Carried
  <2>4. CASE ~rx.receiving
    <3>1. rx.last /\ (Ahead \/ Arrived \/ AtRest)
      BY <1>3, <2>4 DEF Carried
    <3>2. ~Ahead
      <4> SUFFICES ASSUME Ahead
                   PROVE  FALSE
        OBVIOUS
      <4>1. line /\ tx.active /\ now = tx.start
        BY <1>1 DEF Ahead, Current
      <4>2. PICK d \in Nat : wakeTx = {d} /\ Stretch(d)
        BY <1>1, <4>1 DEF IInv, Wire
      <4>3. line = TxLevel(tx, now)
        BY <1>1, <4>2 DEF Stretch
      <4>4. tx.format \in Formats /\ tx.word \in Words
        BY DEF IInv, TypeOK, Emitters
      <4>5. Bit(tx.format) \in Nat \ {0}
        BY <4>4, FormatFacts
      <4>6. BitIndex(tx, now) = 0
        <5>1. BitIndex(tx, now) = (0 * Bit(tx.format)) \div Bit(tx.format)
          BY <1>1, <4>1, <4>5 DEF BitIndex
        <5> QED BY <4>5, <5>1, Exact
      <4>7. FrameBit(tx.format, tx.word, 0) = FALSE
        BY <4>4, BitsOfFrame
      <4> QED BY <4>1, <4>3, <4>6, <4>7 DEF TxLevel
    <3>3. Arrived => Arrived'
      <4>1. ASSUME Arrived
            PROVE  Middle(tx, StopIndex(tx.format)) <= now + 1
        <5>1. /\ tx.start \in Nat /\ tx.format.half \in Nat
              /\ Bit(tx.format) \in Nat /\ StopIndex(tx.format) \in Nat
          <6>1. tx.start \in Nat /\ tx.format \in Formats
            BY DEF IInv, TypeOK, Emitters
          <6>2. StopIndex(tx.format) \in 1..(WordBits + 1) /\ WordBits \in Nat
            BY <6>1, FormatFacts, UartLinkAssumption
          <6>3. tx.format.half \in Nat /\ Bit(tx.format) \in Nat
            BY <6>1, FormatFacts
          <6> QED BY <6>1, <6>2, <6>3
        <5>2. StopIndex(tx.format) * Bit(tx.format) \in Nat
          BY <5>1
        <5>3. Middle(tx, StopIndex(tx.format)) \in Nat
          BY <5>1, <5>2 DEF Middle
        <5> QED BY <1>1, <4>1, <5>3 DEF Arrived
      <4> QED BY <1>1, <4>1 DEF Arrived
    <3>4. AtRest => AtRest'
      BY <1>1 DEF AtRest
    <3> QED BY <1>1, <2>1, <2>2, <2>4, <3>1, <3>2, <3>3, <3>4 DEF Carried
  <2> QED BY <2>3, <2>4
<1>4. Carried'
  BY <1>1, <1>3 DEF Carried
<1> QED BY <1>2, <1>4

\* The wake of the emitter is the bound of two bits.
LEMMA EdgesOnBits ==
    ASSUME NEW e \in Emitters, NEW t, NEW d \in Edges(e, t), t \in Nat,
           e.start <= t
    PROVE  \E j \in Nat : d = e.start + j * Bit(e.format)
<1>1. FrameBits(e.format) \in Nat /\ BitIndex(e, t) \in Nat
  <2>1. e.format \in Formats /\ e.start \in Nat
    BY DEF Emitters
  <2>2. Bit(e.format) \in Nat \ {0} /\ FrameBits(e.format) \in Nat
    BY <2>1, FormatFacts
  <2>3. t - e.start \in Nat
    BY <2>1
  <2> QED BY <2>2, <2>3, Quotient DEF BitIndex
<1>2. CASE d = TxEnd(e)
  BY <1>1, <1>2 DEF TxEnd, FrameTime
<1>3. CASE d # TxEnd(e)
  <2>1. PICK j \in (BitIndex(e, t) + 1)..(FrameBits(e.format) - 1) :
          d = e.start + j * Bit(e.format)
    BY <1>3 DEF Edges
  <2> QED BY <1>1, <2>1
<1> QED BY <1>2, <1>3

\* After the middle of the stop bit the line stays at 1.
LEMMA StopLevel ==
    ASSUME NEW e \in Emitters, NEW t \in Nat, Middle(e, StopIndex(e.format)) <= t
    PROVE  TxLevel(e, t)
<1> DEFINE f == e.format
           h == f.half
           S == StopIndex(f)
<1>1. /\ e.start \in Nat /\ f \in Formats /\ e.word \in Words
  BY DEF Emitters
<1>2. h \in Nat \ {0} /\ Bit(f) = 2 * h /\ S \in 1..(WordBits + 1) /\ WordBits \in Nat
  BY <1>1, FormatFacts, UartLinkAssumption DEF Bit
<1>3. e.start + 3 * h + S * (2 * h) <= t
  BY <1>1, <1>2 DEF Middle
<1>4. BitIndex(e, t) = (t - e.start) \div (2 * h)
  BY <1>2 DEF BitIndex
<1>5. TxLevel(e, t) <=> (e.active => FrameBit(f, e.word, BitIndex(e, t)))
  BY DEF TxLevel
<1>6. \A i \in Nat : S < i => FrameBit(f, e.word, i) = TRUE
  BY <1>1, BitsOfFrame
<1> HIDE DEF S, h, f
<1>7. S \in Nat /\ S * (2 * h) \in Nat /\ 2 * h \in Nat \ {0}
  BY <1>2
<1>8. 3 * h + S * (2 * h) \in Nat /\ t - e.start \in Nat /\ 3 * h + S * (2 * h) <= t - e.start
  BY <1>1, <1>2, <1>3, <1>7
<1>9. (3 * h + S * (2 * h)) \div (2 * h) = S + 1
  BY <1>2, <1>7, MiddleBit
<1>10. S + 1 <= BitIndex(e, t) /\ BitIndex(e, t) \in Nat
  <2>1. (3 * h + S * (2 * h)) \div (2 * h) <= (t - e.start) \div (2 * h)
    BY <1>7, <1>8, Monotone
  <2>2. (t - e.start) \div (2 * h) \in Nat
    BY <1>7, <1>8, Quotient
  <2> QED BY <1>4, <1>9, <2>1, <2>2
<1>11. S < BitIndex(e, t)
  BY <1>7, <1>10
<1>12. FrameBit(f, e.word, BitIndex(e, t)) = TRUE
  BY <1>6, <1>10, <1>11
<1> QED BY <1>5, <1>12

LEMMA StartLevel ==
    ASSUME NEW e \in Emitters, e.active
    PROVE  ~TxLevel(e, e.start)
<1>1. e.format \in Formats /\ e.word \in Words /\ e.start \in Nat
  BY DEF Emitters
<1>2. Bit(e.format) \in Nat \ {0}
  BY <1>1, FormatFacts
<1>3. BitIndex(e, e.start) = (0 * Bit(e.format)) \div Bit(e.format)
  BY <1>1, <1>2 DEF BitIndex
<1>4. BitIndex(e, e.start) = 0
  BY <1>2, <1>3, Exact
<1>5. FrameBit(e.format, e.word, 0) = FALSE
  BY <1>1, BitsOfFrame
<1> QED BY <1>4, <1>5 DEF TxLevel

LEMMA PublishTxCarried ==
    ASSUME IInv, Punctual, Carried, PublishTx
    PROVE  Punctual' /\ Carried'
<1>1. /\ turn = "tx" /\ turn' = "none" /\ edge' = (edge \/ line' # line)
      /\ line' = (tx.configured /\ TxLevel(tx, now))
      /\ UNCHANGED <<now, tx, rx, wakeRx, sent, received, reported, linked>>
  BY DEF PublishTx
<1>2. tx \in Emitters /\ now \in Nat /\ line \in BOOLEAN /\ edge \in BOOLEAN
  BY DEF IInv, TypeOK
<1>3. Punctual'
  <2>1. ASSUME tx.active, NEW d \in wakeTx'
        PROVE  \E j \in Nat : d = tx.start + j * Bit(tx.format)
    <3>1. tx.configured /\ tx.start <= now
      BY <2>1 DEF IInv, Emission
    <3>2. d \in Edges(tx, now)
      BY <2>1, <3>1 DEF PublishTx
    <3> QED BY <1>2, <3>1, <3>2, EdgesOnBits
  <2>2. Middle(rx', StopIndex(rx'.format)) = Middle(rx, StopIndex(rx.format))
    BY <1>1
  <2> QED BY <1>1, <2>1, <2>2 DEF Punctual
<1>4. ASSUME linked
      PROVE  Carried'
  <2>1. /\ tx.configured /\ rx.configured /\ tx.format = rx.format /\ reported = {}
        /\ Len(received) <= Len(sent)
        /\ \A i \in 1..Len(received) : received[i] = sent[i]
        /\ Queued
    BY <1>4 DEF Carried
  <2>2. Queued' /\ (Current => Current')
    BY <1>1, <2>1 DEF Queued, Current
  <2>3. CASE rx.receiving
    <3>1. InFrame
      BY <1>4, <2>3 DEF Carried
    <3>2. \A k : Middle(rx, k)' = Middle(rx, k)
      BY <1>1 DEF Middle
    <3>3. InFrame'
      BY <1>1, <2>2, <3>1, <3>2 DEF InFrame
    <3> QED BY <1>1, <2>1, <2>2, <2>3, <3>3 DEF Carried
  <2>4. CASE ~rx.receiving
    <3>1. rx.last /\ (Ahead \/ Arrived \/ AtRest)
      BY <1>4, <2>4 DEF Carried
    <3>2. Ahead => Ahead'
      <4> SUFFICES ASSUME Ahead
                   PROVE  Ahead'
        OBVIOUS
      <4>1. Current /\ tx.active /\ now = tx.start /\ (line \/ edge)
        BY DEF Ahead, Current
      <4>2. line' = FALSE
        BY <1>1, <1>2, <4>1, StartLevel
      <4>3. edge'
        BY <1>1, <1>2, <4>1, <4>2
      <4> QED BY <1>1, <2>2, <4>1, <4>3 DEF Ahead
    <3>3. Arrived => Arrived'
      <4> SUFFICES ASSUME Arrived
                   PROVE  Arrived'
        OBVIOUS
      <4>1. TxLevel(tx, now)
        BY <1>2, StopLevel DEF Arrived
      <4>2. line'
        BY <1>1, <2>1, <4>1
      <4> QED BY <1>1, <4>2 DEF Arrived
    <3>4. AtRest => AtRest'
      BY <1>1, <2>1 DEF AtRest, TxLevel
    <3> QED BY <1>1, <2>1, <2>2, <2>4, <3>1, <3>2, <3>3, <3>4 DEF Carried
  <2> QED BY <2>3, <2>4
<1>5. Carried'
  BY <1>1, <1>4 DEF Carried
<1> QED BY <1>3, <1>5

\* At the end of a frame the next word starts.
LEMMA NextFrame ==
    ASSUME NEW e \in Emitters, e.active
    PROVE  LET a == TxAdvance(e, TxEnd(e))
           IN  /\ a.configured = e.configured /\ a.format = e.format
               /\ e.queue = <<>> => ~a.active /\ a.queue = <<>>
               /\ e.queue # <<>> => /\ a.active /\ a.start = TxEnd(e)
                                    /\ a.word = Head(e.queue) /\ a.queue = Tail(e.queue)
<1> DEFINE L == FrameTime(e.format)
           t == TxEnd(e)
           a == TxAdvance(e, t)
<1>1. e.start \in Nat /\ L \in Nat \ {0} /\ e.queue \in Seq(Words) /\ t = e.start + L
  BY FormatFacts DEF Emitters, TxEnd
<1>2. (t - e.start) \div L = 1
  <2>1. t - e.start = 1 * L
    BY <1>1
  <2> QED BY <1>1, <2>1, Exact
<1>3. /\ ~(~e.active \/ t < TxEnd(e)) /\ TxEnd(e) <= t
  BY <1>1
<1>4. CASE e.queue # <<>>
  <2>1. Len(e.queue) \in Nat \ {0}
    BY <1>1, <1>4, EmptySeq
  <2>2. 1 <= Len(e.queue)
    BY <2>1
  <2> HIDE DEF L
  <2>3. a = [e EXCEPT !.start = @ + 1 * L, !.word = e.queue[1],
                      !.queue = SubSeq(@, 1 + 1, Len(@))]
    BY <1>2, <1>3, <2>2 DEF TxAdvance, L
  <2> HIDE DEF a
  <2>4. /\ a.configured = e.configured /\ a.format = e.format /\ a.active
        /\ a.start = e.start + 1 * L
    BY <2>3 DEF Emitters
  <2>5. a.word = e.queue[1] /\ a.queue = SubSeq(e.queue, 1 + 1, Len(e.queue))
    BY <2>3 DEF Emitters
  <2>6. e.start + 1 * L = t
    BY <1>1
  <2>7. SubSeq(e.queue, 1 + 1, Len(e.queue)) = Tail(e.queue)
    <3>1. 1 + 1 = 2
      OBVIOUS
    <3> QED BY <1>1, <1>4, <3>1, TailIsSubSeq
  <2>8. e.queue[1] = Head(e.queue)
    BY <1>1
  <2> QED BY <1>4, <2>4, <2>5, <2>6, <2>7, <2>8 DEF a
<1>5. CASE e.queue = <<>>
  <2>1. ~(1 <= Len(e.queue))
    BY <1>5, EmptySeq
  <2>2. a = [TxIdle(e) EXCEPT !.queue = <<>>]
    BY <1>2, <1>3, <2>1 DEF TxAdvance
  <2>3. a = [e EXCEPT !.active = FALSE, !.word = NoBits, !.start = 0, !.queue = <<>>]
    BY <2>2 DEF TxIdle
  <2> HIDE DEF a
  <2>4. /\ a.configured = e.configured /\ a.format = e.format /\ ~a.active
        /\ a.queue = <<>>
    BY <2>3 DEF Emitters
  <2> QED BY <1>5, <2>4 DEF a
<1> QED BY <1>4, <1>5

LEMMA SyncTxCarried ==
    ASSUME IInv, Punctual, Carried, SyncTx
    PROVE  Punctual' /\ Carried'
<1>1. /\ turn = "none" /\ turn' = "tx" /\ tx' = TxAdvance(tx, now)
      /\ UNCHANGED <<now, rx, wakeRx, line, edge, sent, received, reported, linked>>
  BY DEF SyncTx
<1>2. Punctual'
  BY <1>1, OtherPunctual
<1>3. /\ tx \in Emitters /\ now \in Nat /\ Len(tx.queue) < BufLen
      /\ tx.active => tx.start <= now
      /\ sent \in Seq(Words) /\ received \in Seq(Words) /\ tx.queue \in Seq(Words)
  BY DEF IInv, TypeOK, Emission, Emitters
<1>4. CASE ~tx.active \/ now < TxEnd(tx)
  <2>1. tx' = tx
    BY <1>1, <1>3, <1>4, TxAdvanceFacts
  <2>2. Carried'
    BY <1>1, <2>1, OtherCarried
  <2> QED BY <1>2, <2>2
<1>5. CASE linked /\ ~(~tx.active \/ now < TxEnd(tx))
  <2>1. /\ tx.configured /\ rx.configured /\ tx.format = rx.format /\ reported = {}
        /\ Len(received) <= Len(sent)
        /\ \A i \in 1..Len(received) : received[i] = sent[i]
        /\ Queued
    BY <1>5 DEF Carried
  <2>2. now = TxEnd(tx) /\ tx.active
    <3>1. PICK d \in Nat : Stretch(d)
      BY <1>1, <1>5 DEF IInv, Wire
    <3>2. TxEnd(tx) \in Nat
      <4>1. tx.start \in Nat /\ tx.format \in Formats
        BY <1>3 DEF Emitters
      <4>2. FrameTime(tx.format) \in Nat
        BY <4>1, FormatFacts
      <4> QED BY <4>1, <4>2 DEF TxEnd
    <3> QED BY <1>3, <1>5, <3>1, <3>2 DEF Stretch
  <2>3. ~rx.receiving
    BY <1>5, InFrameFacts
  <2>4. ~Ahead
    <3>1. tx.start < TxEnd(tx)
      <4>1. tx.start \in Nat /\ tx.format \in Formats
        BY <1>3 DEF Emitters
      <4>2. FrameTime(tx.format) \in Nat \ {0}
        BY <4>1, FormatFacts
      <4> QED BY <4>1, <4>2 DEF TxEnd
    <3>2. tx.start # now
      BY <2>2, <3>1, <1>3 DEF Emitters
    <3> QED BY <3>2 DEF Ahead
  <2>5. rx.last /\ Arrived
    BY <1>5, <2>2, <2>3, <2>4 DEF Carried, AtRest
  <2>6. line /\ Len(sent) = Len(received) + Len(tx.queue)
    BY <2>5 DEF Arrived
  <2>7. /\ tx'.configured = tx.configured /\ tx'.format = tx.format
        /\ tx.queue = <<>> => ~tx'.active /\ tx'.queue = <<>>
        /\ tx.queue # <<>> => /\ tx'.active /\ tx'.start = now
                              /\ tx'.word = Head(tx.queue) /\ tx'.queue = Tail(tx.queue)
    BY <1>1, <1>3, <2>2, NextFrame
  <2>8. Len(sent) \in Nat /\ Len(received) \in Nat /\ Len(tx.queue) \in Nat
    BY <1>3
  <2>9. CASE tx.queue = <<>>
    <3>1. Len(tx.queue) = 0 /\ Len(tx'.queue) = 0
      BY <2>7, <2>9, EmptySeq
    <3>2. Len(sent) = Len(received)
      BY <2>6, <2>8, <3>1
    <3>3. AtRest' /\ Queued'
      BY <1>1, <2>6, <2>7, <2>9, <3>1, <3>2 DEF AtRest, Queued
    <3>4. Carried'
      BY <1>1, <2>1, <2>3, <2>5, <2>7, <3>3 DEF Carried
    <3> QED BY <1>2, <3>4
  <2>10. CASE tx.queue # <<>>
    <3>1. /\ Len(tx'.queue) = Len(tx.queue) - 1
          /\ \A i \in 1..Len(tx'.queue) : tx'.queue[i] = tx.queue[i + 1]
          /\ tx'.word = tx.queue[1]
      <4>1. /\ Len(Tail(tx.queue)) = Len(tx.queue) - 1
            /\ \A i \in 1..Len(Tail(tx.queue)) : Tail(tx.queue)[i] = tx.queue[i + 1]
        BY <1>3, <2>10, HeadTailProperties
      <4>2. Head(tx.queue) = tx.queue[1]
        BY <1>3
      <4>3. tx'.word = Head(tx.queue) /\ tx'.queue = Tail(tx.queue)
        BY <2>7, <2>10
      <4> QED BY <4>1, <4>2, <4>3
    <3>2. Len(tx.queue) \in Nat \ {0}
      BY <1>3, <2>10, EmptySeq
    <3>3. Len(sent) - Len(tx.queue) = Len(received)
      BY <2>6, <2>8
    <3>4. \A i \in 1..Len(tx.queue) : sent[Len(received) + i] = Masked(tx.format, tx.queue[i])
      BY <2>1, <3>3 DEF Queued
    <3>5. Len(sent) = Len(received) + 1 + Len(tx'.queue)
      <4> DEFINE a == Len(sent)
                 b == Len(received)
                 c == Len(tx.queue)
                 n == Len(tx'.queue)
      <4>1. b \in Nat /\ c \in Nat /\ a = b + c /\ n = c - 1
        BY <2>6, <2>8, <3>1
      <4> HIDE DEF a, b, c, n
      <4>2. a = b + 1 + n
        BY <4>1
      <4> QED BY <4>2 DEF a, b, n
    <3>6. sent[Len(received) + 1] = Masked(tx'.format, tx'.word)
      <4>1. 1 \in 1..Len(tx.queue)
        BY <3>2
      <4> QED BY <2>7, <3>1, <3>4, <4>1
    <3>7. \A i \in 1..Len(tx'.queue) :
             sent[Len(sent) - Len(tx'.queue) + i] = Masked(tx'.format, tx'.queue[i])
      <4> SUFFICES ASSUME NEW i \in 1..Len(tx'.queue)
                   PROVE  sent[Len(sent) - Len(tx'.queue) + i] = Masked(tx'.format, tx'.queue[i])
        OBVIOUS
      <4>1. Len(tx'.queue) = Len(tx.queue) - 1
        BY <3>1
      <4>2. i + 1 \in 1..Len(tx.queue)
        BY <3>2, <4>1
      <4>3. Len(sent) - Len(tx'.queue) + i = Len(received) + (i + 1)
        <5> DEFINE a == Len(sent)
                   b == Len(received)
                   c == Len(tx.queue)
                   n == Len(tx'.queue)
        <5>1. b \in Nat /\ c \in Nat /\ a = b + c /\ n = c - 1 /\ i \in Int
          BY <2>6, <2>8, <4>1, <4>2
        <5> HIDE DEF a, b, c, n
        <5>2. a - n + i = b + (i + 1)
          BY <5>1
        <5> QED BY <5>2 DEF a, b, n
      <4> QED BY <2>7, <3>1, <3>4, <4>2, <4>3
    <3>8. Current' /\ Queued'
      BY <1>1, <2>7, <2>10, <3>5, <3>6, <3>7 DEF Current, Queued
    <3>9. Ahead'
      BY <1>1, <2>6, <2>7, <2>10, <3>8 DEF Ahead
    <3>10. Carried'
      BY <1>1, <2>1, <2>3, <2>5, <2>7, <3>8, <3>9 DEF Carried
    <3> QED BY <1>2, <3>10
  <2> QED BY <2>9, <2>10
<1>6. CASE ~linked
  BY <1>1, <1>2, <1>6 DEF Carried
<1> QED BY <1>4, <1>5, <1>6

-----------------------------------------------------------------------------
(* The natives.                                                             *)

\* What a write adds to the queue and to the history, bit for bit the same.
LEMMA WriteAdds ==
    ASSUME IInv, Carried, linked, NEW message \in Messages, Write(message),
           Len(tx.queue) <= Len(sent)
    PROVE  LET q == Pushed(tx.queue, message)
           IN  /\ q \in Seq(Words)
               /\ tx' = Kick([tx EXCEPT !.queue = q], now)
               /\ Len(sent') = Len(sent) + (Len(q) - Len(tx.queue))
               /\ Len(tx.queue) <= Len(q)
               /\ \A i \in 1..Len(sent) : sent'[i] = sent[i]
               /\ \A i \in 1..Len(q) :
                     sent'[Len(sent) - Len(tx.queue) + i] = Masked(tx.format, q[i])
<1> DEFINE old == tx.queue
           f == tx.format
           q == Pushed(old, message)
           new == SubSeq(q, Len(old) + 1, Len(q))
           cut == [i \in 1..Len(new) |-> Masked(f, new[i])]
           room == BufLen - 1 - Len(old)
           m == IF Len(message) <= room THEN Len(message) ELSE room
<1>1. /\ old \in Seq(Words) /\ Len(old) < BufLen /\ sent \in Seq(Words)
      /\ message \in Seq(Words) /\ Len(old) \in Nat /\ Len(sent) \in Nat
      /\ Len(message) \in Nat /\ BufLen \in Nat
  BY UartLinkAssumption DEF IInv, TypeOK, Emitters
<1>2. tx' = Kick([tx EXCEPT !.queue = q], now) /\ sent' = sent \o cut
  BY DEF Write
<1>3. q \in Seq(Words) /\ Len(old) <= Len(q) /\ Len(q) \in Nat
  BY <1>1, PushedType
<1>4. \A i \in 1..Len(old) : q[i] = old[i]
  <2>1. m \in 0..Len(message)
    BY <1>1
  <2>2. SubSeq(message, 1, m) \in Seq(Words)
    BY <1>1, <2>1, SubSeqProperties
  <2>3. q = old \o SubSeq(message, 1, m)
    BY DEF Pushed
  <2> HIDE DEF m, q, old
  <2>4. Len(SubSeq(message, 1, m)) \in Nat
    BY <2>2
  <2>5. \A i \in 1..(Len(old) + Len(SubSeq(message, 1, m))) :
           q[i] = IF i <= Len(old) THEN old[i] ELSE SubSeq(message, 1, m)[i - Len(old)]
    BY <1>1, <2>2, <2>3, ConcatProperties
  <2>6. Len(old) \in Nat
    BY <1>1 DEF old
  <2> DEFINE a == Len(old)
             c == Len(SubSeq(message, 1, m))
  <2>7. a \in Nat /\ c \in Nat
    BY <2>4, <2>6
  <2>8. \A i \in 1..(a + c) : i <= a => q[i] = old[i]
    BY <2>5
  <2> HIDE DEF a, c
  <2>9. \A i \in 1..a : q[i] = old[i]
    BY <2>7, <2>8
  <2> QED BY <2>9 DEF a, q, old
<1> HIDE DEF q, old, f
<1>5. /\ new \in Seq(Words) /\ Len(new) = Len(q) - Len(old)
      /\ \A i \in 1..Len(new) : new[i] = q[Len(old) + i]
  <2> DEFINE a == Len(old)
             b == Len(q)
  <2>1. a \in Nat /\ b \in Nat /\ a <= b /\ a + 1 \in Int /\ b \in Int
    BY <1>1, <1>3
  <2>2. \A i \in 1..b : q[i] \in Words
    BY <1>3, ElementOfSeq
  <2> HIDE DEF a, b
  <2>3. \A i \in (a + 1)..b : q[i] \in Words
    BY <2>1, <2>2
  <2>4. /\ SubSeq(q, a + 1, b) \in Seq(Words)
        /\ Len(SubSeq(q, a + 1, b)) = IF a + 1 <= b THEN b - (a + 1) + 1 ELSE 0
        /\ \A i \in 1..(b - (a + 1) + 1) : SubSeq(q, a + 1, b)[i] = q[(a + 1) + i - 1]
    BY <2>1, <2>3, SubSeqProperties
  <2>5. Len(SubSeq(q, a + 1, b)) = b - a
    BY <2>1, <2>4
  <2>6. \A i \in 1..(b - a) : SubSeq(q, a + 1, b)[i] = q[a + i]
    <3> SUFFICES ASSUME NEW i \in 1..(b - a)
                 PROVE  SubSeq(q, a + 1, b)[i] = q[a + i]
      OBVIOUS
    <3>1. i \in 1..(b - (a + 1) + 1) /\ (a + 1) + i - 1 = a + i
      BY <2>1
    <3> QED BY <2>4, <3>1
  <2> QED BY <2>4, <2>5, <2>6 DEF a, b
<1> HIDE DEF new
<1>6. /\ cut \in Seq(Words) /\ Len(cut) = Len(new) /\ Len(new) \in Nat
      /\ \A i \in 1..Len(new) : cut[i] = Masked(f, new[i])
  <2>1. Len(new) \in Nat
    BY <1>5
  <2> QED BY <2>1, MaskedType
<1> HIDE DEF cut
<1>7. /\ Len(sent') = Len(sent) + Len(cut)
      /\ \A i \in 1..(Len(sent) + Len(cut)) :
            sent'[i] = IF i <= Len(sent) THEN sent[i] ELSE cut[i - Len(sent)]
  BY <1>1, <1>2, <1>6, ConcatProperties
<1> DEFINE a == Len(old)
           b == Len(q)
           n == Len(sent)
           c == Len(cut)
<1>8. /\ a \in Nat /\ b \in Nat /\ n \in Nat /\ a <= b /\ c = b - a /\ a <= n
      /\ Len(sent') = n + c
  BY <1>1, <1>3, <1>5, <1>6, <1>7 DEF old
<1>9. \A i \in 1..(n + c) : sent'[i] = IF i <= n THEN sent[i] ELSE cut[i - n]
  BY <1>7
<1>10. \A i \in 1..c : cut[i] = Masked(f, q[a + i])
  BY <1>5, <1>6
<1>11. \A i \in 1..a : q[i] = old[i] /\ sent[n - a + i] = Masked(f, old[i])
  BY <1>4 DEF Carried, Queued, f, old
<1> HIDE DEF a, b, c, n
<1>12. \A i \in 1..n : sent'[i] = sent[i]
  BY <1>8, <1>9
<1>13. ASSUME NEW i \in 1..b
       PROVE  sent'[n - a + i] = Masked(f, q[i])
  <2>1. CASE i <= a
    <3>1. i \in 1..a /\ n - a + i \in 1..n
      BY <1>8, <2>1
    <3> QED BY <1>11, <1>12, <3>1
  <2>2. CASE a < i
    <3>1. /\ n - a + i \in 1..(n + c) /\ ~(n - a + i <= n)
          /\ (n - a + i) - n = i - a /\ i - a \in 1..c /\ a + (i - a) = i
      BY <1>8, <2>2
    <3>2. sent'[n - a + i] = cut[i - a]
      BY <1>9, <3>1
    <3>3. cut[i - a] = Masked(f, q[i])
      BY <1>10, <3>1
    <3> QED BY <3>2, <3>3
  <2> QED BY <1>8, <2>1, <2>2
<1>14. Len(sent') = n + (b - a)
  BY <1>8
<1> QED BY <1>2, <1>3, <1>12, <1>13, <1>14 DEF a, b, n, q, old, f

\* The queue is never longer than what was sent.
LEMMA QueueOfSent ==
    ASSUME IInv, Carried, linked
    PROVE  Len(tx.queue) <= Len(sent)
<1> DEFINE a == Len(tx.queue)
           n == Len(sent)
           r == Len(received)
<1>1. /\ a \in Nat /\ n \in Nat /\ r \in Nat
  BY DEF IInv, TypeOK, Emitters
<1>2. tx.active => n = r + 1 + a \/ n = r + a
  BY DEF Carried, InFrame, Current, Ahead, Arrived, AtRest
<1>3. ~tx.active => a = 0
  <2> SUFFICES ASSUME ~tx.active
               PROVE  a = 0
    OBVIOUS
  <2>1. tx.queue = <<>>
    BY DEF Carried, IInv, Emission
  <2> QED BY <2>1, EmptySeq
<1> HIDE DEF a, n, r
<1>4. a <= n
  BY <1>1, <1>2, <1>3
<1> QED BY <1>4 DEF a, n

LEMMA WriteCarried ==
    ASSUME IInv, Punctual, Carried, linked, NEW message \in Messages, Write(message)
    PROVE  Carried'
<1> DEFINE f == tx.format
           q == Pushed(tx.queue, message)
           filled == [tx EXCEPT !.queue = q]
           a == Len(tx.queue)
           b == Len(q)
           n == Len(sent)
           r == Len(received)
<1>1. /\ UNCHANGED <<now, rx, line, edge, received, reported, linked>>
  BY DEF Write
<1>2. /\ q \in Seq(Words) /\ tx' = Kick(filled, now)
      /\ Len(sent') = n + (b - a) /\ a <= b
      /\ \A i \in 1..n : sent'[i] = sent[i]
      /\ \A i \in 1..b : sent'[n - a + i] = Masked(f, q[i])
  BY WriteAdds, QueueOfSent
<1>3. /\ tx.configured /\ rx.configured /\ f = rx.format /\ reported = {}
      /\ r <= n
      /\ \A i \in 1..r : received[i] = sent[i]
  BY DEF Carried
<1>4. /\ tx \in Emitters /\ a \in Nat /\ b \in Nat /\ n \in Nat /\ r \in Nat /\ a <= n
      /\ tx.active \in BOOLEAN
  BY <1>2, QueueOfSent DEF IInv, TypeOK, Emitters
<1> HIDE DEF q, filled
<1>5. /\ filled.configured = tx.configured /\ filled.format = f
      /\ filled.active = tx.active /\ filled.queue = q
      /\ filled.start = tx.start /\ filled.word = tx.word
  BY <1>4 DEF filled, Emitters
<1>6. r <= Len(sent') /\ \A i \in 1..r : received[i] = sent'[i]
  <2> HIDE DEF a, b, n, r
  <2>1. \A i \in 1..r : i \in 1..n
    BY <1>3, <1>4
  <2> QED BY <1>2, <1>3, <1>4, <2>1
<1>7. \A k : Middle(rx', k) = Middle(rx, k)
  BY <1>1
<1>8. CASE tx.active
  <2>1. tx' = filled
    BY <1>2, <1>5, <1>8 DEF Kick
  <2>2. /\ tx'.configured = tx.configured /\ tx'.format = f
        /\ tx'.active /\ tx'.queue = q
        /\ tx'.start = tx.start /\ tx'.word = tx.word
    BY <1>5, <1>8, <2>1
  <2>3. Queued'
    <3>1. Len(sent') - Len(tx'.queue) = n - a
      <4>1. Len(tx'.queue) = b
        BY <2>2
      <4> HIDE DEF a, b, n, r
      <4> QED BY <1>2, <1>4, <4>1
    <3> QED BY <1>2, <2>2, <3>1 DEF Queued
  <2>4. ASSUME Current
        PROVE  Current'
    <3>1. n = r + 1 + a /\ sent[r + 1] = Masked(f, tx.word)
      BY <2>4 DEF Current
    <3>2. Len(sent') = r + 1 + b
      <4> HIDE DEF a, b, n, r
      <4> QED BY <1>2, <1>4, <3>1
    <3>3. sent'[r + 1] = sent[r + 1]
      <4> HIDE DEF a, b, n, r
      <4>1. r + 1 \in 1..n
        BY <1>4, <3>1
      <4> QED BY <1>2, <4>1
    <3> QED BY <1>1, <2>2, <3>1, <3>2, <3>3 DEF Current
  <2>5. CASE rx.receiving
    <3>1. InFrame
      BY <2>5 DEF Carried
    <3>2. InFrame'
      BY <1>1, <1>7, <2>2, <2>4, <3>1 DEF InFrame
    <3> QED BY <1>1, <1>3, <1>6, <2>2, <2>3, <2>5, <3>2 DEF Carried
  <2>6. CASE ~rx.receiving
    <3>1. rx.last /\ (Ahead \/ Arrived)
      BY <1>8, <2>6 DEF Carried, AtRest
    <3>2. Ahead => Ahead'
      BY <1>1, <2>2, <2>4 DEF Ahead
    <3>3. ASSUME Arrived
          PROVE  Arrived'
      <4>1. n = r + a
        BY <3>3 DEF Arrived
      <4>2. Len(sent') = r + b
        <5> HIDE DEF a, b, n, r
        <5> QED BY <1>2, <1>4, <4>1
      <4>3. Len(tx'.queue) = b
        BY <2>2
      <4>4. \A k : Middle(tx', k) = Middle(tx, k)
        BY <2>2 DEF Middle
      <4> QED BY <1>1, <2>2, <3>3, <4>2, <4>3, <4>4 DEF Arrived
    <3> QED BY <1>1, <1>3, <1>6, <2>2, <2>3, <2>6, <3>1, <3>2, <3>3 DEF Carried
  <2> QED BY <2>5, <2>6
<1>9. CASE ~tx.active
  <2>1. ~rx.receiving /\ rx.last /\ line /\ n = r
    BY <1>9 DEF Carried, InFrame, Ahead, Arrived, AtRest, Current
  <2>2. a = 0
    <3>1. tx.queue = <<>>
      BY <1>3, <1>9 DEF IInv, Emission
    <3> QED BY <3>1, EmptySeq
  <2>3. CASE q = <<>>
    <3>1. tx' = filled
      BY <1>2, <1>5, <2>3 DEF Kick
    <3>2. b = 0
      BY <2>3, EmptySeq
    <3>3. Len(sent') = r
      <4> HIDE DEF a, b, n, r
      <4> QED BY <1>2, <1>4, <2>1, <2>2, <3>2
    <3>4. AtRest'
      BY <1>1, <1>5, <1>9, <2>1, <3>1, <3>3 DEF AtRest
    <3>5. Queued'
      BY <1>5, <3>1, <3>2 DEF Queued
    <3> QED BY <1>1, <1>3, <1>5, <1>6, <2>1, <3>1, <3>4, <3>5 DEF Carried
  <2>4. CASE q # <<>>
    <3>1. tx' = BeginFrame(filled, now)
      BY <1>2, <1>5, <1>9, <2>4 DEF Kick
    <3>2. tx' = [filled EXCEPT !.active = TRUE, !.start = now,
                               !.word = Head(q), !.queue = Tail(q)]
      BY <1>5, <3>1 DEF BeginFrame
    <3>3. tx' = [tx EXCEPT !.active = TRUE, !.start = now,
                           !.word = Head(q), !.queue = Tail(q)]
      BY <1>4, <3>2 DEF filled, Emitters
    <3>4. /\ tx'.configured = tx.configured /\ tx'.format = f
          /\ tx'.active /\ tx'.start = now
      BY <1>4, <3>3 DEF Emitters
    <3>5. tx'.word = Head(q) /\ tx'.queue = Tail(q)
      BY <1>4, <3>3 DEF Emitters
    <3>6. /\ Head(q) = q[1] /\ Len(Tail(q)) = b - 1 /\ b \in Nat \ {0}
          /\ \A i \in 1..Len(Tail(q)) : Tail(q)[i] = q[i + 1]
      <4>1. Len(q) \in Nat \ {0}
        BY <1>2, <2>4, EmptySeq
      <4> QED BY <1>2, <2>4, <4>1, HeadTailProperties
    <3>7. Len(sent') = r + 1 + (b - 1) /\ n - a = r
      <4> HIDE DEF a, b, n, r
      <4> QED BY <1>2, <1>4, <2>1, <2>2, <3>6
    <3>8. \A i \in 1..b : sent'[r + i] = Masked(f, q[i])
      BY <1>2, <3>7
    <3>9. sent'[r + 1] = Masked(f, q[1])
      <4> HIDE DEF a, b, n, r
      <4>1. 1 \in 1..b
        BY <3>6
      <4> QED BY <3>8, <4>1
    <3>10. Current'
      BY <1>1, <3>4, <3>5, <3>6, <3>7, <3>9 DEF Current
    <3>11. Ahead'
      BY <1>1, <2>1, <3>4, <3>10 DEF Ahead
    <3>12. ASSUME NEW i \in 1..Len(Tail(q))
           PROVE  sent'[Len(sent') - Len(Tail(q)) + i] = Masked(f, Tail(q)[i])
      <4> DEFINE l == Len(Tail(q))
                 p == Len(sent')
      <4>1. l = b - 1 /\ p = r + 1 + (b - 1) /\ i \in 1..l
        BY <3>6, <3>7
      <4> HIDE DEF a, b, n, r, l, p
      <4>2. p - l + i = r + (i + 1) /\ i + 1 \in 1..b
        BY <1>4, <3>6, <4>1
      <4>3. sent'[p - l + i] = Masked(f, q[i + 1])
        BY <3>8, <4>2
      <4> QED BY <3>6, <4>3 DEF l, p
    <3>13. Queued'
      BY <3>4, <3>5, <3>12 DEF Queued
    <3> QED BY <1>1, <1>3, <1>6, <2>1, <3>4, <3>11, <3>13 DEF Carried
  <2> QED BY <2>3, <2>4
<1> QED BY <1>4, <1>8, <1>9

LEMMA NativesCarried ==
    ASSUME IInv, Punctual, Carried, Natives
    PROVE  Punctual' /\ Carried'
<1>1. ASSUME NEW f \in Formats, InitTx(f)
      PROVE  Punctual' /\ Carried'
  <2>1. Punctual'
    BY <1>1, OtherPunctual DEF InitTx
  <2>2. Carried'
    BY <1>1 DEF InitTx, Setup, Carried
  <2> QED BY <2>1, <2>2
<1>2. ASSUME NEW f \in Formats, InitRx(f)
      PROVE  Punctual' /\ Carried'
  <2>1. rx' = RxIdle(Configured(rx, f)) /\ turn' = "rx" /\ UNCHANGED <<tx, wakeTx>>
        /\ turn = "rx"
    BY <1>2 DEF InitRx
  <2>2. ~rx'.receiving /\ rx'.word = NoBits /\ rx'.errors = {}
    <3>1. rx \in Receivers
      BY DEF IInv, TypeOK
    <3> QED BY <2>1, <3>1 DEF RxIdle, Configured, Receivers
  <2>3. Punctual'
    BY <2>1, <2>2 DEF Punctual
  <2>4. Carried'
    BY <1>2 DEF InitRx, Setup, Carried
  <2> QED BY <2>3, <2>4
<1>3. ASSUME NEW message \in Messages, Write(message)
      PROVE  Punctual' /\ Carried'
  <2>1. Punctual'
    BY <1>3, OtherPunctual DEF Write
  <2>2. Carried'
    <3>1. CASE linked
      BY <1>3, <3>1, WriteCarried
    <3>2. CASE ~linked
      BY <1>3, <3>2 DEF Write, Carried
    <3> QED BY <3>1, <3>2
  <2> QED BY <2>1, <2>2
<1>4. ASSUME NEW n \in 1..(BufLen - 1), ReadWords(n)
      PROVE  Punctual' /\ Carried'
  <2>1. /\ turn = "rx" /\ turn' = "rx"
        /\ rx' = [rx EXCEPT !.queue = SubSeq(rx.queue, n + 1, Len(rx.queue))]
        /\ UNCHANGED <<now, tx, wakeTx, wakeRx, line, edge, sent, received, reported, linked>>
    BY <1>4 DEF ReadWords, IInv, TypeOK, Receivers
  <2>2. /\ rx'.receiving = rx.receiving /\ rx'.start = rx.start
        /\ rx'.format = rx.format /\ rx'.word = rx.word /\ rx'.errors = rx.errors
    BY <2>1 DEF IInv, TypeOK, Receivers
  <2>3. /\ rx'.index = rx.index /\ rx'.last = rx.last
        /\ rx'.configured = rx.configured
    BY <2>1 DEF IInv, TypeOK, Receivers
  <2> QED BY <2>1, <2>2, <2>3, OtherCarried DEF Punctual
<1>5. CASE DeinitTx
  <2>1. Punctual'
    BY <1>5, OtherPunctual DEF DeinitTx
  <2>2. Carried'
    BY <1>5 DEF DeinitTx, Setup, Carried
  <2> QED BY <2>1, <2>2
<1>6. CASE DeinitRx
  <2>1. rx' = [RxIdle(rx) EXCEPT !.configured = FALSE] /\ turn' = "rx"
        /\ UNCHANGED <<tx, wakeTx>> /\ turn = "rx"
    BY <1>6 DEF DeinitRx
  <2>2. ~rx'.receiving /\ rx'.word = NoBits /\ rx'.errors = {}
    <3>1. rx \in Receivers
      BY DEF IInv, TypeOK
    <3> QED BY <2>1, <3>1 DEF RxIdle, Receivers
  <2>3. Punctual'
    BY <2>1, <2>2 DEF Punctual
  <2>4. Carried'
    BY <1>6 DEF DeinitRx, Setup, Carried
  <2> QED BY <2>3, <2>4
<1> QED BY <1>1, <1>2, <1>3, <1>4, <1>5, <1>6 DEF Natives

LEMMA PublishRxCarried ==
    ASSUME IInv, Punctual, Carried, PublishRx
    PROVE  Punctual' /\ Carried'
<1>1. /\ turn = "rx" /\ turn' = "none"
      /\ wakeRx' = IF rx.configured /\ rx.receiving
                   THEN {Middle(rx, StopIndex(rx.format))} ELSE {}
      /\ UNCHANGED <<now, tx, rx, wakeTx, line, edge, sent, received, reported, linked>>
  BY DEF PublishRx
<1>2. Carried'
  BY <1>1, OtherCarried
<1>3. ASSUME rx.receiving
      PROVE  /\ wakeRx' = {Middle(rx, StopIndex(rx.format))}
             /\ now <= Middle(rx, StopIndex(rx.format))
  <2>1. rx.configured /\ now < Middle(rx, StopIndex(rx.format))
    BY <1>1, <1>3 DEF IInv, Reception
  <2>2. rx \in Receivers /\ now \in Nat
    BY DEF IInv, TypeOK
  <2>3. Middle(rx, StopIndex(rx.format)) \in Nat
    BY <2>2, ReceiverType, MiddleType
  <2> QED BY <1>1, <1>3, <2>1, <2>2, <2>3
<1>4. Middle(rx', StopIndex(rx'.format)) = Middle(rx, StopIndex(rx.format))
  BY <1>1
<1>5. Punctual'
  BY <1>1, <1>3, <1>4 DEF Punctual
<1> QED BY <1>2, <1>5

LEMMA LinkInvariant == IInv /\ Punctual /\ Carried /\ [Next]_vars => (Punctual /\ Carried)'
<1> SUFFICES ASSUME IInv, Punctual, Carried, [Next]_vars
             PROVE  Punctual' /\ Carried'
  OBVIOUS
<1>1. CASE Advance
  BY <1>1, AdvanceCarried
<1>2. CASE SyncTx
  BY <1>2, SyncTxCarried
<1>3. CASE PublishTx
  BY <1>3, PublishTxCarried
<1>4. CASE SyncRx
  BY <1>4, SyncRxCarried
<1>5. CASE PublishRx
  BY <1>5, PublishRxCarried
<1>6. CASE Natives
  BY <1>6, NativesCarried
<1>7. CASE Ended \/ UNCHANGED vars
  <2>1. UNCHANGED vars
    BY <1>7 DEF Ended
  <2>2. Carried'
    BY <2>1, OtherCarried DEF vars
  <2>3. Middle(rx', StopIndex(rx'.format)) = Middle(rx, StopIndex(rx.format))
    BY <2>1 DEF vars
  <2>4. Punctual'
    BY <2>1, <2>3 DEF vars, Punctual
  <2> QED BY <2>2, <2>4
<1> QED BY <1>1, <1>2, <1>3, <1>4, <1>5, <1>6, <1>7 DEF Next

LEMMA CarriedIsInOrder ==
    ASSUME IInv, Carried
    PROVE  InOrder
<1> SUFFICES ASSUME linked
             PROVE  /\ Len(received) <= Len(sent)
                    /\ received = SubSeq(sent, 1, Len(received))
                    /\ reported = {}
                    /\ Quiet /\ ~tx.active => received = sent
  BY DEF InOrder
<1>1. /\ Len(received) <= Len(sent) /\ reported = {}
      /\ \A i \in 1..Len(received) : received[i] = sent[i]
  BY DEF Carried
<1>2. sent \in Seq(Words) /\ received \in Seq(Words)
  BY DEF IInv, TypeOK
<1> DEFINE r == Len(received)
           s == SubSeq(sent, 1, r)
<1>3. r \in Nat /\ Len(sent) \in Nat /\ \A i \in 1..Len(sent) : sent[i] \in Words
  BY <1>2, LenProperties, ElementOfSeq
<1>4. \A i \in 1..r : sent[i] \in Words
  BY <1>1, <1>3
<1>5. /\ s \in Seq(Words) /\ Len(s) = r
      /\ \A i \in 1..r : s[i] = sent[i]
  <2>1. \A i \in 1..r : i \in Int
    BY <1>3
  <2> HIDE DEF r
  <2>2. /\ SubSeq(sent, 1, r) \in Seq(Words)
        /\ Len(SubSeq(sent, 1, r)) = IF 1 <= r THEN r - 1 + 1 ELSE 0
        /\ \A i \in 1..(r - 1 + 1) : SubSeq(sent, 1, r)[i] = sent[1 + i - 1]
    BY <1>3, <1>4, SubSeqProperties
  <2>3. r - 1 + 1 = r /\ (1 <= r \/ r = 0) /\ \A i \in 1..r : 1 + i - 1 = i
    BY <1>3
  <2> QED BY <2>2, <2>3
<1>6. received = s
  <2> HIDE DEF s
  <2>1. \A i \in 1..Len(received) : received[i] = s[i]
    BY <1>1, <1>5
  <2>2. Len(received) = Len(s)
    BY <1>5
  <2> QED BY <1>2, <1>5, <2>1, <2>2, SeqEqual
<1>7. ASSUME ~tx.active
      PROVE  received = sent
  <2>1. Len(received) = Len(sent)
    BY <1>7 DEF Carried, InFrame, Current, Ahead, Arrived, AtRest
  <2> QED BY <1>1, <1>2, <2>1, SeqEqual
<1> QED BY <1>1, <1>6, <1>7

\* What is written at one end is read at the other, word for word and without
\* errors, for any format that both share: the engines may be called at any
\* instant, and the queues may be refilled during a frame.
THEOREM ArrivesInOrder == Spec => []InOrder
<1>1. IInv /\ Carried => InOrder
  BY CarriedIsInOrder
<1> QED BY InitInvariant, StepInvariant, InitCarried, LinkInvariant, <1>1, PTL DEF Spec
=============================================================================
