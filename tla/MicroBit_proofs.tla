-------------------------- MODULE MicroBit_proofs --------------------------
(***************************************************************************)
(* Proofs about the display and the radio of a micro:bit.                  *)
(*                                                                         *)
(* LedMatrix, the engine, for any numbers of rows, columns and levels, any *)
(* pictures, lengths of a slot and tolerance.  It only runs when it is     *)
(* called: ScanInv says that what it published at its last                 *)
(* synchronisation, at simTime, is a picture of the slot of that instant,  *)
(* that the wake it asked for is still ahead, and that nothing of the      *)
(* picture changes before.                                                 *)
(*                                                                         *)
(* Animation, what the program draws, for any number of timers, any images *)
(* and animations, any periods, and any number of calls in progress.       *)
(* DrawInv strengthens the two properties.  Something moves only when a    *)
(* call has asked for it, so that _tick has nothing to draw otherwise.     *)
(* And a slot has one owner: the slots of the program, the slot of the     *)
(* display and those that a Timer() in progress is about to hand to it are *)
(* all different, whatever calls are nested in one another.                *)
(*                                                                         *)
(* RadioPackets, what the program sends and takes, for any boards, ends of *)
(* their messages, settings and sizes of queues.  Its loops over bytes are *)
(* read one byte at a time (Unrolled, LoopGoesOn).  OrderInv: the numbers  *)
(* of the messages of a peer rise along their way to the program.          *)
(* WholeInv: the buffer holds the end of the stream, from its last         *)
(* delimiter on if a frame could start there; and a frame ends with the    *)
(* CRC of its own message, so that nothing else is taken for one           *)
(* (FrameSent).                                                            *)
(***************************************************************************)
EXTENDS LedMatrix, Animation, RadioPackets, TLAPS, SequenceTheorems, FiniteSetTheorems,
        WellFoundedInduction

Pixels(s) == s.pixels \in Levels /\ s.t0 \in Nat

\* What the last synchronisation published.
Published ==
    /\ shown.driven
    /\ shown.row = RowAt(scan, simTime)
    /\ shown.low = {c \in Columns : simTime < Release(scan, simTime, c)
                                      /\ scan.pixels[RowAt(scan, simTime)][c] # 0}

Paced ==
    /\ scanWake = {Deadline(scan, simTime)}
    /\ clock <= Deadline(scan, simTime)
    /\ ~called => clock < Deadline(scan, simTime)

ScanInv ==
    /\ MatrixTypeOK
    /\ simTime <= clock
    /\ scan.enabled => scan.t0 <= simTime
    /\ scan.enabled /\ stage = "running" => Published /\ Paced

-----------------------------------------------------------------------------
(* Arithmetic of the slots.                                                 *)

LEMMA Quotient ==
    ASSUME NEW x \in Nat, NEW d \in Nat \ {0}
    PROVE  x \div d \in Nat /\ (x \div d) * d <= x /\ x < (x \div d) * d + d
OBVIOUS

LEMMA Growing ==
    ASSUME NEW i \in Nat, NEW j \in Nat, NEW d \in Nat, i <= j
    PROVE  i * d <= j * d
OBVIOUS

LEMMA Between ==
    ASSUME NEW k \in Nat, NEW d \in Nat \ {0}, NEW x \in Nat, k * d <= x, x < k * d + d
    PROVE  x \div d = k /\ x % d = x - k * d
<1> DEFINE q == x \div d
<1>1. q \in Nat /\ q * d <= x /\ x < q * d + d
  BY Quotient
<1>2. x % d = x - q * d
  OBVIOUS
<1> HIDE DEF q
<1>3. ~(q < k)
  <2>1. SUFFICES ASSUME q + 1 <= k PROVE FALSE
    BY <1>1
  <2>2. (q + 1) * d <= k * d
    BY <1>1, <2>1, Growing
  <2>3. (q + 1) * d = q * d + d /\ q * d \in Nat /\ k * d \in Nat
    BY <1>1
  <2> QED BY <1>1, <2>2, <2>3
<1>4. ~(k < q)
  <2>1. SUFFICES ASSUME k + 1 <= q PROVE FALSE
    BY <1>1
  <2>2. (k + 1) * d <= q * d
    BY <1>1, <2>1, Growing
  <2>3. (k + 1) * d = k * d + d /\ q * d \in Nat /\ k * d \in Nat
    BY <1>1
  <2> QED BY <1>1, <2>2, <2>3
<1>5. q = k
  BY <1>1, <1>3, <1>4
<1> QED BY <1>2, <1>5 DEF q

\* A set of instants has a first one.
LEMMA Least ==
    ASSUME NEW S, S \subseteq Nat, S # {}
    PROVE  \E r \in S : \A q \in S : r <= q
<1> DEFINE R == {ss \in Nat \X Nat : ss[1] < ss[2]}
<1>1. IsWellFoundedOn(R, Nat)
  BY NatLessThanWellFounded DEF OpToRel
<1>2. PICK r \in S : \A q \in S : ~(<<q, r>> \in R)
  <2> HIDE DEF R
  <2> QED BY <1>1, WFMin
<1>3. \A q \in S : ~(q < r)
  BY <1>2
<1> QED BY <1>3

\* A slot lasts, and the tolerance is less than a slot.
LEMMA SlotPositive == Slot \in Nat \ {0} /\ Eps \in Nat /\ Eps < Slot
<1>1. MaxLevel \in Nat \ {0} /\ Slot \in Nat /\ Eps \in Nat /\ Eps < Slot \div MaxLevel
  BY MatrixAssumption
<1>2. Slot \div MaxLevel <= Slot
  BY <1>1
<1> QED BY <1>1, <1>2

\* The slot of an instant begins before it, or just after, and lasts.
LEMMA SlotFacts ==
    ASSUME NEW s, Pixels(s), NEW t \in Nat, s.t0 <= t
    PROVE  /\ SlotAt(s, t) \in Nat
           /\ SlotStart(s, t) = s.t0 + SlotAt(s, t) * Slot
           /\ SlotStart(s, t) \in Nat
           /\ SlotStart(s, t) <= t + Eps /\ t + Eps < SlotStart(s, t) + Slot
           /\ RowAt(s, t) \in 0..(Rows - 1)
<1> DEFINE k == SlotAt(s, t)
<1>1. s.t0 \in Nat
  BY DEF Pixels
<1>2. k = (t - s.t0 + Eps) \div Slot /\ t - s.t0 + Eps \in Nat
  BY <1>1, SlotPositive DEF SlotAt
<1>3. k \in Nat /\ k * Slot <= t - s.t0 + Eps /\ t - s.t0 + Eps < k * Slot + Slot
  BY <1>2, SlotPositive, Quotient
<1>4. k * Slot \in Nat
  BY <1>3, SlotPositive
<1>5. RowAt(s, t) \in 0..(Rows - 1)
  <2>1. Rows \in Nat \ {0}
    BY MatrixAssumption
  <2> HIDE DEF k
  <2> QED BY <1>3, <2>1 DEF RowAt, k
<1>6. SlotStart(s, t) = s.t0 + k * Slot
  BY DEF SlotStart
<1> HIDE DEF k
<1>7. /\ SlotStart(s, t) \in Nat
      /\ SlotStart(s, t) <= t + Eps /\ t + Eps < SlotStart(s, t) + Slot
  BY <1>1, <1>3, <1>4, <1>6, SlotPositive
<1> QED BY <1>3, <1>5, <1>6, <1>7 DEF k

\* A column is released in its slot, at its start if it is dark and at its end
\* if it is at the highest level.
LEMMA ReleaseFacts ==
    ASSUME NEW s, Pixels(s), NEW t \in Nat, s.t0 <= t, NEW c \in Columns
    PROVE  LET p == s.pixels[RowAt(s, t)][c]
           IN /\ p \in 0..MaxLevel
              /\ Release(s, t, c) \in Nat
              /\ Release(s, t, c) = SlotStart(s, t) + (Slot * p) \div MaxLevel
              /\ p = 0 => Release(s, t, c) = SlotStart(s, t)
              /\ p = MaxLevel => Release(s, t, c) = SlotStart(s, t) + Slot
<1> DEFINE p == s.pixels[RowAt(s, t)][c]
<1>1. MaxLevel \in Nat \ {0} /\ Slot \in Nat
  BY MatrixAssumption
<1>2. SlotStart(s, t) \in Nat /\ RowAt(s, t) \in 0..(Rows - 1)
  BY SlotFacts
<1>3. p \in 0..MaxLevel
  BY <1>2 DEF Pixels, Levels
<1>4. Release(s, t, c) = SlotStart(s, t) + (Slot * p) \div MaxLevel
  BY DEF Release
<1> HIDE DEF p
<1>5. Slot * p \in Nat
  BY <1>1, <1>3
<1>6. (Slot * p) \div MaxLevel \in Nat
  BY <1>1, <1>5, Quotient
<1>7. p = 0 => (Slot * p) \div MaxLevel = 0
  BY <1>1
<1>8. p = MaxLevel => (Slot * p) \div MaxLevel = Slot
  BY <1>1, Between
<1> QED BY <1>1, <1>2, <1>3, <1>4, <1>6, <1>7, <1>8 DEF p

\* The deadline is the first of the changes of the slot that are to come.
LEMMA DeadlineFacts ==
    ASSUME NEW s, Pixels(s), NEW t \in Nat, s.t0 <= t
    PROVE  /\ Deadline(s, t) \in Nat
           /\ t < Deadline(s, t)
           /\ Deadline(s, t) <= SlotStart(s, t) + Slot
           /\ \A c \in Partial(s, t) :
                t + Eps < Release(s, t, c) => Deadline(s, t) <= Release(s, t, c)
<1> DEFINE S == Changes(s, t)
<1>1. SlotStart(s, t) \in Nat /\ t + Eps < SlotStart(s, t) + Slot
  BY SlotFacts
<1>2. \A c \in Partial(s, t) : Release(s, t, c) \in Nat
  BY ReleaseFacts DEF Partial
<1>3. S \subseteq Nat /\ \A r \in S : t < r
  BY <1>1, <1>2, SlotPositive DEF Changes
<1>4. SlotStart(s, t) + Slot \in S
  BY DEF Changes
<1>5. \A c \in Partial(s, t) : t + Eps < Release(s, t, c) => Release(s, t, c) \in S
  BY <1>2, SlotPositive DEF Changes
<1> HIDE DEF S
<1>6. \E r \in S : \A q \in S : r <= q
  BY <1>3, <1>4, Least
<1>7. Deadline(s, t) \in S /\ \A q \in S : Deadline(s, t) <= q
  BY <1>6 DEF Deadline, S
<1> QED BY <1>3, <1>4, <1>5, <1>7

\* From a synchronisation to its deadline the pins are those of the picture.
LEMMA PictureHolds ==
    ASSUME ScanInv, scan.enabled, stage = "running", ~called
    PROVE  ScanRight
<1> DEFINE start == SlotStart(scan, simTime)
           k == SlotAt(scan, simTime)
           row == RowAt(scan, simTime)
           t == IF clock < start THEN start ELSE clock
<1>1. /\ Pixels(scan) /\ simTime \in Nat /\ clock \in Nat /\ scan.t0 \in Nat
      /\ simTime <= clock /\ scan.t0 <= simTime /\ clock < Deadline(scan, simTime)
  BY MatrixAssumption DEF ScanInv, MatrixTypeOK, Pixels, Paced
<1>2. /\ k \in Nat /\ start = scan.t0 + k * Slot /\ start \in Nat
      /\ start <= simTime + Eps /\ simTime + Eps < start + Slot
  BY <1>1, SlotFacts
<1>3. /\ Deadline(scan, simTime) \in Nat /\ Deadline(scan, simTime) <= start + Slot
      /\ \A c \in Partial(scan, simTime) :
           simTime + Eps < Release(scan, simTime, c)
             => Deadline(scan, simTime) <= Release(scan, simTime, c)
  BY <1>1, DeadlineFacts
<1>4. t \in clock..(clock + Eps) /\ start <= t /\ t < start + Slot /\ t \in Nat
  BY <1>1, <1>2, <1>3, SlotPositive
<1>5. (t - scan.t0) \div Slot = k /\ (t - scan.t0) % Slot = t - start
  <2> HIDE DEF t, start, k
  <2>1. k * Slot \in Nat
    BY <1>2, SlotPositive
  <2>2. /\ t - scan.t0 \in Nat /\ k * Slot <= t - scan.t0
        /\ t - scan.t0 < k * Slot + Slot
    BY <1>1, <1>2, <1>4, <2>1, SlotPositive
  <2>3. (t - scan.t0) \div Slot = k /\ (t - scan.t0) % Slot = (t - scan.t0) - k * Slot
    BY <1>2, <2>2, SlotPositive, Between
  <2> QED BY <1>1, <1>2, <1>4, <2>1, <2>3
<1>6. TrueRow(t) = row
  BY <1>5 DEF TrueRow, RowAt
<1>7. TrueLow(t) = {c \in Columns : t < Release(scan, simTime, c)}
  <2>1. ASSUME NEW c \in Columns
        PROVE  Offset(t) < (Slot * scan.pixels[TrueRow(t)][c]) \div MaxLevel
                 <=> t < Release(scan, simTime, c)
    <3>1. Release(scan, simTime, c) = start + (Slot * scan.pixels[row][c]) \div MaxLevel
      BY <1>1, ReleaseFacts
    <3>2. Release(scan, simTime, c) \in Nat
      BY <1>1, ReleaseFacts
    <3>3. (Slot * scan.pixels[row][c]) \div MaxLevel \in Int
      <4>1. scan.pixels[row][c] \in 0..MaxLevel
        BY <1>1, ReleaseFacts
      <4>2. MaxLevel \in Nat \ {0} /\ Slot \in Nat
        BY MatrixAssumption
      <4> HIDE DEF row
      <4>3. Slot * scan.pixels[row][c] \in Nat
        BY <4>1, <4>2
      <4> QED BY <4>2, <4>3, Quotient
    <3>4. Offset(t) = t - start
      BY <1>5 DEF Offset
    <3> HIDE DEF t, start, row
    <3> QED BY <1>2, <1>4, <1>6, <3>1, <3>2, <3>3, <3>4
  <2> HIDE DEF t
  <2> QED BY <2>1 DEF TrueLow
<1>8. Published
  BY DEF ScanInv
<1>9. ASSUME NEW c \in TrueLow(t)
      PROVE  c \in shown.low
  <2>1. c \in Columns /\ t < Release(scan, simTime, c)
    BY <1>7
  <2>2. scan.pixels[row][c] # 0
    BY <1>1, <1>4, <2>1, ReleaseFacts
  <2>3. simTime < Release(scan, simTime, c)
    BY <1>1, <1>4, <2>1, ReleaseFacts
  <2> QED BY <1>8, <2>1, <2>2, <2>3 DEF Published
<1>10. ASSUME NEW c \in shown.low, c \notin Overlooked
       PROVE  c \in TrueLow(t)
  <2>1. c \in Columns /\ simTime < Release(scan, simTime, c) /\ scan.pixels[row][c] # 0
    BY <1>8 DEF Published
  <2>2. /\ Release(scan, simTime, c) \in Nat /\ scan.pixels[row][c] \in 0..MaxLevel
        /\ scan.pixels[row][c] = MaxLevel => Release(scan, simTime, c) = start + Slot
    BY <1>1, <2>1, ReleaseFacts
  <2>3. simTime + Eps < Release(scan, simTime, c)
    BY <1>1, <1>10, <2>1, <2>2, SlotPositive DEF Overlooked
  <2>4. CASE scan.pixels[row][c] = MaxLevel
    BY <1>4, <1>7, <2>1, <2>2, <2>4
  <2>5. CASE scan.pixels[row][c] # MaxLevel
    <3>1. c \in Partial(scan, simTime)
      BY <2>1, <2>2, <2>5, MatrixAssumption DEF Partial
    <3>2. Deadline(scan, simTime) <= Release(scan, simTime, c)
      BY <1>3, <2>3, <3>1
    <3>3. t < Release(scan, simTime, c)
      BY <1>1, <1>2, <1>3, <2>2, <2>3, <3>2, SlotPositive
    <3> QED BY <1>7, <2>1, <3>3
  <2> QED BY <2>4, <2>5
<1>11. shown.driven /\ shown.row = TrueRow(t)
  BY <1>6, <1>8 DEF Published
<1> HIDE DEF t
<1>12. TrueLow(t) \subseteq shown.low /\ shown.low \subseteq TrueLow(t) \cup Overlooked
  BY <1>9, <1>10
<1> QED BY <1>4, <1>11, <1>12 DEF ScanRight

-----------------------------------------------------------------------------
(* The steps.                                                               *)

Scans == [enabled : BOOLEAN, t0 : 0..Horizon, pixels : Levels]
Pins == [driven : BOOLEAN, row : 0..(Rows - 1), low : SUBSET Columns]

LEMMA TurnedOnType ==
    ASSUME NEW s \in Scans, clock \in 0..Horizon, Horizon \in Nat
    PROVE  TurnedOn(s) \in Scans /\ TurnedOn(s).t0 <= clock
<1> DEFINE turned == TurnedOn(s)
<1>1. turned = TurnedOn(s)
  OBVIOUS
<1> HIDE DEF turned
<1>2. turned = [enabled |-> TRUE, t0 |-> clock, pixels |-> s.pixels]
  BY <1>1 DEF TurnedOn, Scans
<1>3. turned \in Scans /\ turned.t0 <= clock
  BY <1>2 DEF Scans
<1> QED BY <1>1, <1>3

LEMMA SteppedType ==
    ASSUME ScanInv, NEW s \in Scans, NEW pins \in Pins, s.enabled => s.t0 <= clock
    PROVE  Stepped(s, pins) \in Pins
<1>1. CASE ~s.enabled
  BY <1>1 DEF Stepped
<1>2. CASE s.enabled
  <2>1. Pixels(s) /\ clock \in Nat
    BY MatrixAssumption DEF Scans, Pixels, ScanInv, MatrixTypeOK
  <2>2. RowAt(s, clock) \in 0..(Rows - 1)
    BY <1>2, <2>1, SlotFacts
  <2> QED BY <1>2, <2>2 DEF Stepped, Pins
<1> QED BY <1>1, <1>2

LEMMA AskedType ==
    ASSUME NEW s \in Scans, NEW t \in Nat, s.enabled => s.t0 <= t
    PROVE  Asked(s, t) \subseteq Nat /\ Cardinality(Asked(s, t)) <= 1
<1>1. CASE ~s.enabled
  BY <1>1, FS_EmptySet DEF Asked
<1>2. CASE s.enabled
  <2>1. Pixels(s)
    BY MatrixAssumption DEF Scans, Pixels
  <2>2. Deadline(s, t) \in Nat
    BY <1>2, <2>1, DeadlineFacts
  <2> QED BY <1>2, <2>2, FS_Singleton DEF Asked
<1> QED BY <1>1, <1>2

LEMMA InitHolds == MatrixInit => ScanInv
<1> SUFFICES ASSUME MatrixInit PROVE ScanInv
  OBVIOUS
<1>1. Dark \in Levels
  BY MatrixAssumption DEF Dark, Levels
<1>2. scan \in Scans /\ shown \in Pins /\ 0 \in 0..Horizon
  BY <1>1, MatrixAssumption DEF MatrixInit, Scans, Pins
<1>3. scanWake \subseteq Nat /\ Cardinality(scanWake) <= 1
  BY FS_EmptySet DEF MatrixInit
<1>4. MatrixTypeOK
  BY <1>2, <1>3 DEF MatrixInit, MatrixTypeOK, Scans, Pins
<1> QED BY <1>4 DEF MatrixInit, ScanInv

\* A synchronisation with a program publishes the picture of its instant.
LEMMA WithProgramKeeps ==
    ASSUME ScanInv, NEW s \in Scans, s.enabled => s.t0 <= clock, WithProgram(s)
    PROVE  ScanInv'
<1>1. clock \in 0..Horizon /\ clock \in Nat /\ shown \in Pins /\ Horizon \in Nat
  BY MatrixAssumption DEF ScanInv, MatrixTypeOK, Pins
<1>2. called' = FALSE /\ simTime' = clock /\ clock' = clock
  BY DEF WithProgram
<1>3. PICK turned \in Turns(s) :
        LET off == s.enabled /\ ~turned.enabled
            before == Stepped(s, shown)
        IN /\ scan' = turned
           /\ shown' = Stepped(turned, [before EXCEPT !.driven = @ /\ ~off])
           /\ freed' = off
           /\ \/ stage' = "running" /\ scanWake' = Asked(turned, clock)
              \/ stage' = "ended" /\ scanWake' = {}
  BY DEF WithProgram
<1>4. turned \in Scans /\ (turned.enabled => turned.t0 <= clock)
  <2>1. Pictures \subseteq Levels
    BY MatrixAssumption
  <2>2. CASE turned \in Drawn(s)
    BY <2>1, <2>2 DEF Drawn, Scans
  <2>3. CASE turned = TurnedOn(s)
    BY <1>1, <2>3, TurnedOnType
  <2>4. CASE turned = TurnedOff(s)
    BY <2>4 DEF TurnedOff, Scans
  <2> QED BY <2>2, <2>3, <2>4 DEF Turns
<1>5. [Stepped(s, shown) EXCEPT !.driven = @ /\ ~(s.enabled /\ ~turned.enabled)] \in Pins
  <2>1. Stepped(s, shown) \in Pins
    BY <1>1, SteppedType
  <2> QED BY <2>1 DEF Pins
<1>6. shown' \in Pins
  BY <1>3, <1>4, <1>5, SteppedType
<1>7. freed' \in BOOLEAN
  BY <1>3, <1>4 DEF Scans
<1>8. scanWake' \subseteq Nat /\ Cardinality(scanWake') <= 1
  <2>1. Asked(turned, clock) \subseteq Nat /\ Cardinality(Asked(turned, clock)) <= 1
    BY <1>1, <1>4, AskedType
  <2>2. {} \subseteq Nat /\ Cardinality({}) <= 1
    BY FS_EmptySet
  <2>3. scanWake' = Asked(turned, clock) \/ scanWake' = {}
    BY <1>3
  <2> QED BY <2>1, <2>2, <2>3
<1>9. MatrixTypeOK'
  BY <1>1, <1>2, <1>3, <1>4, <1>6, <1>7, <1>8 DEF MatrixTypeOK, Scans, Pins
<1>10. simTime' <= clock' /\ (scan'.enabled => scan'.t0 <= simTime')
  BY <1>1, <1>2, <1>3, <1>4
<1>11. ASSUME scan'.enabled, stage' = "running"
       PROVE  Published' /\ Paced'
  <2>1. turned.enabled /\ scan' = turned
    BY <1>3, <1>11
  <2>2. Pixels(turned) /\ turned.t0 <= clock
    BY <1>1, <1>4, <2>1 DEF Pixels, Scans
  <2>3. scanWake' = {Deadline(turned, clock)}
    BY <1>3, <1>11, <2>1 DEF Asked
  <2>4. Deadline(turned, clock) \in Nat /\ clock < Deadline(turned, clock)
    BY <1>1, <2>2, DeadlineFacts
  <2>5. /\ RowAt(turned, clock) = RowAt(scan, simTime)'
        /\ Deadline(turned, clock) = Deadline(scan, simTime)'
        /\ \A c \in Columns : Release(turned, clock, c) = Release(scan, simTime, c)'
    BY <1>2, <2>1 DEF RowAt, Deadline, Changes, Partial, Release, SlotStart, SlotAt
  <2>6. Paced'
    BY <1>1, <1>2, <2>3, <2>4, <2>5 DEF Paced
  <2>7. /\ shown'.driven /\ shown'.row = RowAt(turned, clock)
        /\ shown'.low = {c \in Columns : clock < Release(turned, clock, c)
                                            /\ turned.pixels[RowAt(turned, clock)][c] # 0}
    BY <1>3, <2>1 DEF Stepped
  <2>8. Published'
    BY <1>2, <2>1, <2>5, <2>7 DEF Published
  <2> QED BY <2>6, <2>8
<1> QED BY <1>9, <1>10, <1>11 DEF ScanInv

LEMMA StepKeeps == ScanInv /\ [MatrixNext]_matrixVars => ScanInv'
<1> SUFFICES ASSUME ScanInv, [MatrixNext]_matrixVars PROVE ScanInv'
  OBVIOUS
<1>1. /\ clock \in 0..Horizon /\ clock \in Nat /\ simTime \in 0..Horizon /\ Horizon \in Nat
      /\ scan \in Scans /\ shown \in Pins /\ Rows \in Nat \ {0}
  BY MatrixAssumption DEF ScanInv, MatrixTypeOK, Scans, Pins
<1>2. CASE Boot
  <2>1. TurnedOn(scan) \in Scans /\ TurnedOn(scan).t0 <= clock
    BY <1>1, TurnedOnType
  <2>2. WithProgram(TurnedOn(scan))
    BY <1>2 DEF Boot
  <2> QED BY <2>1, <2>2, WithProgramKeeps
<1>3. CASE SyncRunning
  <2>1. scan.enabled => scan.t0 <= clock
    BY <1>1 DEF ScanInv, Scans
  <2> QED BY <1>1, <1>3, <2>1, WithProgramKeeps DEF SyncRunning
<1>4. CASE SyncEnded
  <2>1. scan.enabled => scan.t0 <= simTime /\ scan.t0 <= clock
    BY <1>1 DEF ScanInv, Scans
  <2>2. shown' \in Pins
    BY <1>1, <1>4, <2>1, SteppedType DEF SyncEnded
  <2>3. simTime \in Nat
    BY <1>1
  <2>4. scanWake' \subseteq Nat /\ Cardinality(scanWake') <= 1
    BY <1>1, <1>4, <2>1, <2>3, AskedType DEF SyncEnded
  <2> QED BY <1>4, <2>2, <2>4 DEF SyncEnded, ScanInv, MatrixTypeOK, Pins
<1>5. CASE PowerLost
  <2>1. scan' \in Scans /\ ~scan'.enabled
    BY <1>1, <1>5 DEF PowerLost, Scans
  <2>2. shown' \in Pins
    BY <1>1, <1>5 DEF PowerLost, Pins
  <2>3. scanWake' \subseteq Nat /\ Cardinality(scanWake') <= 1
    BY <1>5, FS_EmptySet DEF PowerLost
  <2>4. /\ clock' = clock /\ simTime' = clock /\ called' = FALSE /\ stage' = "lost"
        /\ freed' = freed
    BY <1>5 DEF PowerLost
  <2>5. freed \in BOOLEAN
    BY DEF ScanInv, MatrixTypeOK
  <2>6. MatrixTypeOK'
    BY <1>1, <2>1, <2>2, <2>3, <2>4, <2>5 DEF MatrixTypeOK, Scans, Pins
  <2> QED BY <1>1, <2>1, <2>4, <2>6 DEF ScanInv
<1>6. CASE SyncUnpowered
  BY <1>6 DEF SyncUnpowered, ScanInv, MatrixTypeOK
<1>7. CASE Advances
  <2>1. /\ ~called /\ clock' = clock + 1 /\ clock' \in 0..Horizon /\ called' \in BOOLEAN
        /\ UNCHANGED <<stage, simTime, scan, shown, freed, scanWake>>
    <3>1. called' \in BOOLEAN
      <4>1. called' = TRUE \/ called' = (clock' \in scanWake)
        BY <1>7 DEF Advances
      <4>2. (clock' \in scanWake) \in BOOLEAN
        OBVIOUS
      <4> QED BY <4>1, <4>2
    <3>2. clock + 1 \in 0..Horizon
      BY <1>1, <1>7 DEF Advances
    <3> QED BY <1>7, <3>1, <3>2 DEF Advances
  <2>2. MatrixTypeOK'
    BY <2>1 DEF ScanInv, MatrixTypeOK
  <2>3. simTime' <= clock' /\ (scan'.enabled => scan'.t0 <= simTime')
    BY <1>1, <2>1 DEF ScanInv
  <2>4. ASSUME scan'.enabled, stage' = "running"
        PROVE  Published' /\ Paced'
    <3>1. Published /\ Paced
      BY <2>1, <2>4 DEF ScanInv
    <3>2. Published'
      BY <2>1, <3>1 DEF Published
    <3>3. Deadline(scan, simTime) \in Nat /\ clock < Deadline(scan, simTime)
      BY <2>1, <3>1 DEF Paced, ScanInv, MatrixTypeOK
    <3>4. clock' = Deadline(scan, simTime) => called'
      BY <1>7, <3>1 DEF Advances, Paced
    <3> HIDE DEF Deadline
    <3>5. scanWake' = {Deadline(scan, simTime)} /\ Deadline(scan, simTime)' = Deadline(scan, simTime)
      BY <2>1, <3>1 DEF Paced
    <3>6. Paced'
      BY <1>1, <2>1, <3>3, <3>4, <3>5 DEF Paced
    <3> QED BY <3>2, <3>6
  <2> QED BY <2>2, <2>3, <2>4 DEF ScanInv
<1>8. CASE CalledAgain
  BY <1>8 DEF CalledAgain, ScanInv, MatrixTypeOK, Published, Paced
<1>9. CASE UNCHANGED matrixVars
  BY <1>9 DEF matrixVars, ScanInv, MatrixTypeOK, Published, Paced
<1> QED
  BY <1>2, <1>3, <1>4, <1>5, <1>6, <1>7, <1>8, <1>9 DEF MatrixNext

-----------------------------------------------------------------------------
(* The theorems.                                                            *)

\* The state of the scan is well typed and at most one wake is asked for.
THEOREM MatrixTypes == MatrixSpec => []MatrixTypeOK
<1>1. ScanInv => MatrixTypeOK
  BY DEF ScanInv
<1> QED BY <1>1, InitHolds, StepKeeps, PTL DEF MatrixSpec

\* At every instant, called or not, the pins show the picture
\* (pyruntime_matrix.c: matrix_step, earliest_matrix_deadline).
THEOREM PictureShown == MatrixSpec => []ScanPunctual
<1>1. ScanInv => ScanPunctual
  BY PictureHolds DEF ScanPunctual, ScanRight
<1> QED BY <1>1, InitHolds, StepKeeps, PTL DEF MatrixSpec

-----------------------------------------------------------------------------
(* What the program draws.                                                  *)

\* What is beneath a call: the calls in progress, or all but the one on top.
Beneath(u) ==
    /\ u \in Seq(CallFrames) /\ u # <<>>
    /\ Len(u) <= Len(stack)
    /\ \A i \in 1..Len(u) : u[i].then = stack[i].then /\ u[i].arg = stack[i].arg

\* A step leaves the first n calls alone, and starts at most one.
Leaves(n) ==
    /\ stack' \in Seq(CallFrames) /\ stack' # <<>> /\ n \in 1..Len(stack)
    /\ Len(stack') \in {n, n + 1}
    /\ \A i \in 1..n : stack'[i].then = stack[i].then /\ stack'[i].arg = stack[i].arg

Whole == Leaves(Len(stack))

\* Something moves only when a call has asked for it.
MovesAsAsked == StaysShown /\ (display.script # {} => asked = Moving)

\* A slot that no Timer of the program took from under the display has one owner:
\* the program, the display, or a Timer() in progress.
Owned ==
    /\ KeepsTimers /\ display.timer \notin mine \ exposed
    /\ \A i \in 1..Len(stack) : stack[i].then = "keep" /\ stack[i].arg \notin exposed =>
          pool[stack[i].arg].kind = "tick" /\ stack[i].arg # display.timer
    /\ \A i, j \in 1..Len(stack) :
          /\ i # j /\ stack[i].then = "keep" /\ stack[j].then = "keep"
          /\ stack[i].arg \notin exposed
          => stack[i].arg # stack[j].arg
    /\ \/ halfway \/ display.timer = None \/ display.timer \in exposed
       \/ pool[display.timer].kind = "tick"

DrawInv == AnimTypeOK /\ MovesAsAsked /\ Owned

-----------------------------------------------------------------------------
(* The calls in progress.                                                    *)

\* The fields of a call.
LEMMA CallFields ==
    ASSUME NEW f \in CallFrames
    PROVE  /\ f.then \in {"main", "done", "end", "off", "on", "isOff", "isOn",
                          "show", "play", "keep", "frame"}
           /\ f.left \in Nat /\ f.due \subseteq Callbacks
           /\ f.then = "show" => f.arg \in {Still(image) : image \in Images}
           /\ f.then = "play" => f.arg \in Scripts
           /\ f.then = "keep" => f.arg \in Slots
           /\ f.then = "frame" => f.arg \in UNION {FramesOf(s) : s \in Scripts}
  BY DEF CallFrames, InCall

\* A call keeps its place while its callbacks run, and while time passes.
LEMMA CallbackGone ==
    ASSUME NEW f \in CallFrames, NEW d \in SUBSET Callbacks
    PROVE  /\ [f EXCEPT !.due = d] \in CallFrames
           /\ [f EXCEPT !.due = d].then = f.then /\ [f EXCEPT !.due = d].arg = f.arg
  BY DEF CallFrames, InCall

LEMMA CallWaits ==
    ASSUME NEW f \in CallFrames, NEW n \in Nat
    PROVE  /\ [f EXCEPT !.left = n] \in CallFrames
           /\ [f EXCEPT !.left = n].then = f.then /\ [f EXCEPT !.left = n].arg = f.arg
  BY DEF CallFrames, InCall

LEMMA CallWakes ==
    ASSUME NEW f \in CallFrames, NEW n \in Nat, NEW d \in SUBSET Callbacks
    PROVE  /\ [f EXCEPT !.left = n, !.due = d] \in CallFrames
           /\ [f EXCEPT !.left = n, !.due = d].then = f.then
           /\ [f EXCEPT !.left = n, !.due = d].arg = f.arg
  BY DEF CallFrames, InCall

LEMMA Fronts ==
    ASSUME NEW S, NEW q \in Seq(S), q # <<>>
    PROVE  /\ Front(q) \in Seq(S) /\ Len(Front(q)) = Len(q) - 1
           /\ \A i \in 1..(Len(q) - 1) : Front(q)[i] = q[i]
           /\ Len(q) \in Nat \ {0} /\ Last(q) = q[Len(q)] /\ Last(q) \in S
<1>1. Len(q) \in Nat \ {0}
  BY EmptySeq
<1>2. \A i \in 1..Len(q) : q[i] \in S
  BY <1>1, ElementOfSeq
<1>3. /\ SubSeq(q, 1, Len(q) - 1) \in Seq(S)
      /\ Len(SubSeq(q, 1, Len(q) - 1)) = IF 1 <= Len(q) - 1 THEN (Len(q) - 1) - 1 + 1 ELSE 0
      /\ \A i \in 1..((Len(q) - 1) - 1 + 1) : SubSeq(q, 1, Len(q) - 1)[i] = q[1 + i - 1]
  <2>1. \A i \in 1..(Len(q) - 1) : q[i] \in S
    BY <1>1, <1>2
  <2> QED
    BY <1>1, <2>1, SubSeqProperties
<1>4. Len(q) - 1 = IF 1 <= Len(q) - 1 THEN (Len(q) - 1) - 1 + 1 ELSE 0
  <2>1. \A n \in Nat \ {0} : n - 1 = IF 1 <= n - 1 THEN (n - 1) - 1 + 1 ELSE 0
    OBVIOUS
  <2> QED
    BY <1>1, <2>1
<1>5. \A i \in 1..(Len(q) - 1) : i \in 1..((Len(q) - 1) - 1 + 1) /\ 1 + i - 1 = i
  BY <1>1
<1>6. Len(q) \in 1..Len(q)
  BY <1>1
<1> QED
  BY <1>1, <1>2, <1>3, <1>4, <1>5, <1>6 DEF Front, Last

LEMMA FirstOnes ==
    ASSUME NEW S, NEW q \in Seq(S), NEW k \in 1..Len(q)
    PROVE  /\ SubSeq(q, 1, k) \in Seq(S) /\ Len(SubSeq(q, 1, k)) = k
           /\ \A i \in 1..k : SubSeq(q, 1, k)[i] = q[i]
<1>1. Len(q) \in Nat /\ k \in Nat /\ 1 <= k
  BY LenProperties
<1>2. \A i \in 1..k : q[i] \in S
  <2>1. \A i \in 1..k : i \in 1..Len(q)
    BY <1>1
  <2> QED
    BY <2>1, ElementOfSeq
<1>3. /\ SubSeq(q, 1, k) \in Seq(S)
      /\ Len(SubSeq(q, 1, k)) = IF 1 <= k THEN k - 1 + 1 ELSE 0
      /\ \A i \in 1..(k - 1 + 1) : SubSeq(q, 1, k)[i] = q[1 + i - 1]
  BY <1>1, <1>2, SubSeqProperties
<1>4. k - 1 + 1 = k /\ \A i \in 1..k : 1 + i - 1 = i
  BY <1>1
<1> QED
  BY <1>1, <1>3, <1>4

\* What is beneath a call that the program makes: the calls in progress, those
\* once a callback has returned, and those that are left when a call ends.
LEMMA Beneaths ==
    ASSUME AnimTypeOK
    PROVE  /\ Beneath(stack) /\ Top \in CallFrames /\ Top = stack[Len(stack)]
           /\ Len(stack) \in Nat \ {0}
           /\ \A c : Beneath(Below(c)) /\ Len(Below(c)) = Len(stack)
           /\ Top.then # "main" => /\ Beneath(Front(stack))
                                   /\ Len(Front(stack)) = Len(stack) - 1
<1> DEFINE under == Front(stack)
<1>1. /\ stack \in Seq(CallFrames) /\ stack # <<>>
      /\ under \in Seq(CallFrames) /\ Len(under) = Len(stack) - 1
      /\ \A i \in 1..(Len(stack) - 1) : under[i] = stack[i]
      /\ Len(stack) \in Nat \ {0} /\ Top = stack[Len(stack)] /\ Top \in CallFrames
  BY Fronts DEF AnimTypeOK, Top
<1> HIDE DEF under
<1>2. Beneath(stack)
  BY <1>1 DEF Beneath
<1>3. ASSUME NEW c PROVE Beneath(Below(c)) /\ Len(Below(c)) = Len(stack)
  <2> DEFINE f == [Top EXCEPT !.due = @ \ {c}]
  <2>1. f \in CallFrames /\ f.then = Top.then /\ f.arg = Top.arg
    <3>1. Top.due \ {c} \in SUBSET Callbacks
      BY <1>1, CallFields
    <3> QED
      BY <1>1, <3>1, CallbackGone
  <2> HIDE DEF f
  <2>2. /\ Append(under, f) \in Seq(CallFrames) /\ Append(under, f) # <<>>
        /\ Len(Append(under, f)) = Len(stack)
        /\ \A i \in 1..(Len(stack) - 1) : Append(under, f)[i] = stack[i]
        /\ Append(under, f)[Len(stack)] = f
    BY <1>1, <2>1, AppendProperties
  <2>3. Below(c) = Append(under, f)
    BY DEF Below, under, f
  <2> QED
    BY <1>1, <2>1, <2>2, <2>3 DEF Beneath
<1>4. ASSUME Top.then # "main" PROVE Beneath(under)
  <2>1. Len(stack) # 1
    BY <1>1, <1>4 DEF AnimTypeOK
  <2>2. under # <<>>
    BY <1>1, <2>1
  <2> QED
    BY <1>1, <2>2 DEF Beneath
<1> QED
  BY <1>1, <1>2, <1>3, <1>4 DEF under

\* A call ends, or a callback has returned.
LEMMA Ended ==
    ASSUME AnimTypeOK, NEW u, Beneath(u), stack' = u
    PROVE  Leaves(Len(u)) /\ Len(stack') = Len(u)
<1>1. Len(u) \in 1..Len(stack)
  BY Beneaths, EmptySeq DEF Beneath
<1> QED
  BY <1>1 DEF Beneath, Leaves

\* A call starts.
LEMMA Started ==
    ASSUME AnimTypeOK, NEW u, Beneath(u), NEW f \in CallFrames, stack' = Append(u, f)
    PROVE  /\ Leaves(Len(u)) /\ Len(u) \in Nat
           /\ Len(stack') = Len(u) + 1 /\ stack'[Len(u) + 1] = f
<1>1. Len(u) \in 1..Len(stack)
  BY Beneaths, EmptySeq DEF Beneath
<1>2. /\ Append(u, f) \in Seq(CallFrames) /\ Append(u, f) # <<>>
      /\ Len(Append(u, f)) = Len(u) + 1 /\ Append(u, f)[Len(u) + 1] = f
      /\ \A i \in 1..Len(u) : Append(u, f)[i] = u[i]
  BY AppendProperties DEF Beneath
<1> QED
  BY <1>1, <1>2, Beneaths DEF Beneath, Leaves
-----------------------------------------------------------------------------
(* Types.                                                                    *)

LEMMA InputTypes == \A d \in Inputs : d \subseteq Callbacks
  BY AnimationAssumption DEF Inputs, Callbacks

\* A call that starts, with what may change while it waits.
LEMMA NewCalls ==
    ASSUME NEW d \in SUBSET Callbacks
    PROVE  /\ \A t \in {"main", "done", "end", "off", "on", "isOff", "isOn"} :
                [then |-> t, arg |-> None, left |-> 0, due |-> d] \in CallFrames
           /\ \A a \in {Still(image) : image \in Images} :
                [then |-> "show", arg |-> a, left |-> 0, due |-> d] \in CallFrames
           /\ \A a \in Scripts :
                [then |-> "play", arg |-> a, left |-> 0, due |-> d] \in CallFrames
           /\ \A a \in Slots :
                [then |-> "keep", arg |-> a, left |-> 0, due |-> d] \in CallFrames
           /\ \A a \in UNION {FramesOf(s) : s \in Scripts}, n \in Nat :
                [then |-> "frame", arg |-> a, left |-> n, due |-> d] \in CallFrames
  BY DEF CallFrames, InCall

LEMMA Initial == AnimInit => AnimTypeOK
<1> SUFFICES ASSUME AnimInit PROVE AnimTypeOK
  OBVIOUS
<1> DEFINE f == [then |-> "main", arg |-> None, left |-> 0, due |-> {}]
<1>1. f \in CallFrames
  BY NewCalls
<1>2. <<f>> \in Seq(CallFrames) /\ <<f>> # <<>> /\ <<f>>[1] = f /\ f.then = "main"
  BY <1>1
<1>3. pool \in [Slots -> Timers]
  BY DEF AnimInit, Timers, Unused
<1>4. display \in Displays
  BY DEF AnimInit, Displays, Shown
<1>5. {mine, exposed} \subseteq SUBSET Slots /\ halfway \in BOOLEAN
  BY DEF AnimInit
<1>6. asked \in Shown \cup {Moving} /\ quota \in 0..Quota
  BY AnimationAssumption DEF AnimInit, Shown
<1> QED
  BY <1>2, <1>3, <1>4, <1>5, <1>6 DEF AnimInit, AnimTypeOK

\* The pool, the display and the calls in progress, one by one.
PoolTyped == pool \in [Slots -> Timers]
DisplayTyped == display \in Displays
StackTyped == stack \in Seq(CallFrames) /\ stack # <<>> /\ stack[1].then = "main"

LEMMA StackStays ==
    ASSUME AnimTypeOK, NEW n, Leaves(n)
    PROVE  StackTyped'
  BY DEF AnimTypeOK, Leaves, StackTyped

\* The pool, one operation at a time.
LEMMA PoolOperations ==
    ASSUME AnimTypeOK
    PROVE  /\ \A s \in Slots : [pool EXCEPT ![s] = Unused] \in [Slots -> Timers]
           /\ \A s \in Slots, kind \in {"tick", "program"}, period \in Nat, once \in BOOLEAN :
                [pool EXCEPT ![s] = Armed(kind, period, once)] \in [Slots -> Timers]
           /\ \A s \in Slots : Fired(pool[s]) \in Timers /\ Fired(pool[s]).kind = pool[s].kind
<1>1. Unused \in Timers
  BY DEF Unused, Timers
<1>2. \A kind \in {"tick", "program"}, period \in Nat, once \in BOOLEAN :
        Armed(kind, period, once) \in Timers
  BY DEF Armed, Timers
<1>3. ASSUME NEW t \in Timers PROVE Fired(t) \in Timers /\ Fired(t).kind = t.kind
  <2>1. t.left \in Nat /\ t.period \in Nat
    BY DEF Timers
  <2>2. \A n \in Nat : [t EXCEPT !.left = n] \in Timers /\ [t EXCEPT !.left = n].kind = t.kind
    BY DEF Timers
  <2>3. /\ [t EXCEPT !.active = FALSE, !.left = 0] \in Timers
        /\ [t EXCEPT !.active = FALSE, !.left = 0].kind = t.kind
    BY DEF Timers
  <2>4. CASE ~t.active
    BY <2>4 DEF Fired
  <2>5. CASE t.active /\ t.left > 1
    <3>1. t.left - 1 \in Nat /\ Fired(t) = [t EXCEPT !.left = t.left - 1]
      BY <2>1, <2>5 DEF Fired
    <3> QED
      BY <2>2, <3>1
  <2>6. CASE t.active /\ ~(t.left > 1) /\ t.once
    BY <2>3, <2>6 DEF Fired
  <2>7. CASE t.active /\ ~(t.left > 1) /\ ~t.once
    <3>1. Fired(t) = [t EXCEPT !.left = t.period]
      BY <2>7 DEF Fired
    <3> QED
      BY <2>1, <2>2, <3>1
  <2> QED
    BY <2>4, <2>5, <2>6, <2>7
<1> QED
  BY <1>1, <1>2, <1>3 DEF AnimTypeOK

LEMMA ShownPictures ==
    /\ Blank \in Shown
    /\ \A a \in {Still(image) : image \in Images} : a \in Shown
    /\ \A s \in Scripts, i \in Int : i \in 0..(s.length - 1) => Picture(s, i) \in Shown
  BY DEF Shown

\* What the calls do to the display.
LEMMA DisplayOperations ==
    ASSUME NEW d \in Displays, NEW p \in Shown
    PROVE  /\ Stopped(d) \in Displays /\ Stopped(d).script = {} /\ Stopped(d).timer = None
           /\ Stopped(d).picture = d.picture
           /\ [d EXCEPT !.picture = p] \in Displays /\ [d EXCEPT !.picture = p].picture = p
           /\ [d EXCEPT !.picture = p].script = d.script
           /\ [d EXCEPT !.picture = p].timer = d.timer
           /\ \A t \in Slots : /\ [d EXCEPT !.timer = t] \in Displays
                               /\ [d EXCEPT !.timer = t].timer = t
                               /\ [d EXCEPT !.timer = t].script = d.script
                               /\ [d EXCEPT !.timer = t].picture = d.picture
           /\ \A n \in Nat : /\ [d EXCEPT !.at = n] \in Displays
                             /\ [d EXCEPT !.at = n].timer = d.timer
                             /\ [d EXCEPT !.at = n].script = d.script
                             /\ [d EXCEPT !.at = n].picture = d.picture
<1> USE DEF Displays, Stopped
<1>1. /\ Stopped(d) \in Displays /\ Stopped(d).script = {} /\ Stopped(d).timer = None
      /\ Stopped(d).picture = d.picture
  OBVIOUS
<1>2. /\ [d EXCEPT !.picture = p] \in Displays /\ [d EXCEPT !.picture = p].picture = p
      /\ [d EXCEPT !.picture = p].script = d.script
      /\ [d EXCEPT !.picture = p].timer = d.timer
  OBVIOUS
<1>3. ASSUME NEW t \in Slots
      PROVE  /\ [d EXCEPT !.timer = t] \in Displays
             /\ [d EXCEPT !.timer = t].timer = t
             /\ [d EXCEPT !.timer = t].script = d.script
             /\ [d EXCEPT !.timer = t].picture = d.picture
  OBVIOUS
<1>4. ASSUME NEW n \in Nat
      PROVE  /\ [d EXCEPT !.at = n] \in Displays
             /\ [d EXCEPT !.at = n].timer = d.timer
             /\ [d EXCEPT !.at = n].script = d.script
             /\ [d EXCEPT !.at = n].picture = d.picture
  OBVIOUS
<1> HIDE DEF Displays, Stopped
<1> QED
  BY <1>1, <1>2, <1>3, <1>4

LEMMA PictureDrawn ==
    ASSUME NEW d \in Displays, NEW p \in Shown
    PROVE  /\ [d EXCEPT !.picture = p] \in Displays /\ [d EXCEPT !.picture = p].picture = p
           /\ [d EXCEPT !.picture = p].script = d.script
           /\ [d EXCEPT !.picture = p].timer = d.timer
  BY DEF Displays

LEMMA FrameDrawn ==
    ASSUME NEW d \in Displays, NEW p \in Shown, NEW n \in Nat
    PROVE  /\ [d EXCEPT !.at = n, !.picture = p] \in Displays
           /\ [d EXCEPT !.at = n, !.picture = p].timer = d.timer
  BY DEF Displays

\* How a call starts: at once, or after a wait.
LEMMA GoesOnTypes ==
    ASSUME AnimTypeOK, NEW u, Beneath(u), NEW t, NEW a, GoesOn(u, t, a),
           \A d \in SUBSET Callbacks :
              [then |-> t, arg |-> a, left |-> 0, due |-> d] \in CallFrames
    PROVE  /\ StackTyped' /\ Leaves(Len(u)) /\ Len(u) \in Nat /\ Len(stack') = Len(u) + 1
           /\ stack'[Len(u) + 1].then = t /\ stack'[Len(u) + 1].arg = a
<1> DEFINE f == [then |-> t, arg |-> a, left |-> 0, due |-> {}]
<1>1. f \in CallFrames /\ stack' = Append(u, f) /\ f.then = t /\ f.arg = a
  BY DEF GoesOn
<1> HIDE DEF f
<1> QED
  BY <1>1, Started, StackStays

LEMMA GivesTurnTypes ==
    ASSUME AnimTypeOK, NEW u, Beneath(u), NEW t, NEW a, GivesTurn(u, t, a),
           \A d \in SUBSET Callbacks :
              [then |-> t, arg |-> a, left |-> 0, due |-> d] \in CallFrames
    PROVE  /\ StackTyped' /\ Leaves(Len(u)) /\ Len(u) \in Nat /\ Len(stack') = Len(u) + 1
           /\ stack'[Len(u) + 1].then = t /\ stack'[Len(u) + 1].arg = a
<1>1. PICK d \in Inputs :
        stack' = Append(u, [then |-> t, arg |-> a, left |-> 0, due |-> d])
  BY DEF GivesTurn
<1> DEFINE f == [then |-> t, arg |-> a, left |-> 0, due |-> d]
<1>2. f \in CallFrames /\ stack' = Append(u, f) /\ f.then = t /\ f.arg = a
  BY <1>1, InputTypes
<1> HIDE DEF f
<1> QED
  BY <1>2, Started, StackStays

\* _stop_anim, up to its wait.
LEMMA StopsTimerTypes ==
    ASSUME AnimTypeOK, NEW u, Beneath(u), NEW t, NEW a, StopsTimer(u, t, a),
           \A d \in SUBSET Callbacks :
              [then |-> t, arg |-> a, left |-> 0, due |-> d] \in CallFrames
    PROVE  /\ StackTyped' /\ PoolTyped' /\ Leaves(Len(u)) /\ Len(u) \in Nat
           /\ Len(stack') = Len(u) + 1
           /\ stack'[Len(u) + 1].then = t /\ stack'[Len(u) + 1].arg = a
           /\ \/ display.timer = None /\ pool' = pool /\ halfway' = halfway
              \/ /\ display.timer \in Slots /\ halfway' = TRUE
                 /\ pool' = [pool EXCEPT ![display.timer] = Unused]
<1>1. CASE display.timer = None
  <2>1. GoesOn(u, t, a) /\ pool' = pool /\ halfway' = halfway
    BY <1>1 DEF StopsTimer
  <2> QED
    BY <1>1, <2>1, GoesOnTypes DEF PoolTyped, AnimTypeOK
<1>2. CASE display.timer # None
  <2>1. display.timer \in Slots
    BY <1>2 DEF AnimTypeOK, Displays
  <2>2. /\ GivesTurn(u, t, a) /\ halfway' = TRUE
        /\ pool' = [pool EXCEPT ![display.timer] = Unused]
    BY <1>2 DEF StopsTimer, Deinit
  <2> QED
    BY <2>1, <2>2, GivesTurnTypes, PoolOperations DEF PoolTyped
<1> QED
  BY <1>1, <1>2

-----------------------------------------------------------------------------
(* Who owns the slots.                                                       *)

StoppingCalls == {"show", "play", "off", "on", "end"}

\* No call starts that will hand a slot over.
NoKeep(n) == Len(stack') = n + 1 => stack'[n + 1].then # "keep"

SameKinds == \A s \in Slots : pool'[s].kind = pool[s].kind

LEMMA StackIndices ==
    ASSUME AnimTypeOK
    PROVE  /\ Len(stack) \in Nat \ {0} /\ DOMAIN stack = 1..Len(stack)
           /\ \A i \in 1..Len(stack) : stack[i] \in CallFrames
           /\ Top = stack[Len(stack)]
  BY EmptySeq, ElementOfSeq, LenProperties DEF AnimTypeOK, Top, Last

LEMMA NewIndices ==
    ASSUME NEW n, Leaves(n)
    PROVE  /\ Len(stack') \in Nat \ {0} /\ DOMAIN stack' = 1..Len(stack')
           /\ \A i \in 1..Len(stack') : i \in 1..n \/ (i = n + 1 /\ Len(stack') = n + 1)
<1>1. stack' \in Seq(CallFrames) /\ stack' # <<>> /\ Len(stack') \in {n, n + 1}
  BY DEF Leaves
<1>2. Len(stack') \in Nat \ {0} /\ DOMAIN stack' = 1..Len(stack')
  BY <1>1, EmptySeq, LenProperties
<1>3. n \in Int
  BY DEF Leaves
<1>4. CASE Len(stack') = n
  BY <1>2, <1>4
<1>5. CASE Len(stack') = n + 1
  <2>1. \A i \in 1..(n + 1) : i \in 1..n \/ i = n + 1
    BY <1>3
  <2> QED
    BY <1>2, <1>5, <2>1
<1> QED
  BY <1>1, <1>4, <1>5

\* Timer() goes on, as long as nobody takes its slot.
LEMMA HandedOver ==
    ASSUME AnimTypeOK, Owned, NEW n, Leaves(n), NoKeep(n), exposed \subseteq exposed',
           \A s \in Slots : /\ pool[s].kind = "tick" /\ s # display.timer /\ s \notin exposed
                           => pool'[s].kind = "tick",
           display'.timer \in {display.timer, None}
    PROVE  /\ \A i \in 1..Len(stack') : stack'[i].then = "keep" /\ stack'[i].arg \notin exposed' =>
                 pool'[stack'[i].arg].kind = "tick" /\ stack'[i].arg # display'.timer
           /\ \A i, j \in 1..Len(stack') :
                 /\ i # j /\ stack'[i].then = "keep" /\ stack'[j].then = "keep"
                 /\ stack'[i].arg \notin exposed'
                 => stack'[i].arg # stack'[j].arg
<1>1. ASSUME NEW i \in 1..Len(stack'), stack'[i].then = "keep"
      PROVE  /\ i \in 1..Len(stack) /\ stack[i].then = "keep" /\ stack'[i].arg = stack[i].arg
             /\ stack[i].arg \in Slots
  <2>1. i \in 1..n
    BY <1>1, NewIndices DEF NoKeep
  <2>2. n \in 1..Len(stack) /\ stack'[i].then = stack[i].then /\ stack'[i].arg = stack[i].arg
    BY <2>1 DEF Leaves
  <2>3. i \in 1..Len(stack)
    BY <2>1, <2>2
  <2> QED
    BY <1>1, <2>2, <2>3, StackIndices, CallFields
<1>2. None \notin Slots
  BY AnimationAssumption DEF None, Slots
<1> QED
  BY <1>1, <1>2 DEF Owned

SameTimers == mine' = mine /\ exposed' = exposed

\* The display forgets its Timer.
LEMMA OwnedForgotten ==
    ASSUME AnimTypeOK, Owned, NEW n, Leaves(n), NoKeep(n), SameKinds, SameTimers,
           display'.timer = None
    PROVE  Owned'
<1>1. None \notin Slots
  BY AnimationAssumption DEF None, Slots
<1>2. KeepsTimers' /\ display'.timer \notin mine' \ exposed'
  BY <1>1 DEF Owned, KeepsTimers, SameKinds, SameTimers, AnimTypeOK
<1> QED
  BY <1>2, HandedOver DEF Owned, SameKinds, SameTimers

\* Neither the display nor the pool changes hands.
LEMMA OwnedStays ==
    ASSUME AnimTypeOK, Owned, NEW n, Leaves(n), NoKeep(n), SameKinds, SameTimers,
           display'.timer = display.timer, halfway' = halfway
    PROVE  Owned'
<1>1. KeepsTimers' /\ display'.timer \notin mine' \ exposed'
  BY DEF Owned, KeepsTimers, SameKinds, SameTimers, AnimTypeOK
<1>2. \/ halfway' \/ display'.timer = None \/ display'.timer \in exposed'
      \/ pool'[display'.timer].kind = "tick"
  BY DEF Owned, SameKinds, SameTimers, AnimTypeOK, Displays
<1> QED
  BY <1>1, <1>2, HandedOver DEF Owned, SameKinds, SameTimers

\* The display frees its own slot, and has not yet forgotten it.
LEMMA OwnedFreed ==
    ASSUME AnimTypeOK, Owned, NEW n, Leaves(n), NoKeep(n), SameTimers, halfway' = TRUE,
           display.timer \in Slots, pool' = [pool EXCEPT ![display.timer] = Unused],
           display'.timer = display.timer
    PROVE  Owned'
<1>1. \A s \in Slots : s # display.timer => pool'[s] = pool[s]
  BY DEF AnimTypeOK
<1>2. KeepsTimers' /\ display'.timer \notin mine' \ exposed'
  BY <1>1 DEF Owned, KeepsTimers, SameTimers, AnimTypeOK
<1> QED
  BY <1>1, <1>2, HandedOver DEF Owned, SameTimers

LEMMA SameKindsOf == ASSUME AnimTypeOK, pool' = pool PROVE SameKinds /\ PoolTyped'
  BY DEF SameKinds, PoolTyped, AnimTypeOK

\* Timer() hands a slot that was free to the program, or keeps it for the display.
LEMMA FreshSlot ==
    ASSUME AnimTypeOK, Owned, NEW s \in Slots, First(s), s \notin exposed
    PROVE  /\ s \notin mine /\ (display.timer = s => halfway)
           /\ \A i \in 1..Len(stack) : stack[i].then = "keep" => stack[i].arg # s
<1>1. pool[s].kind = "free" /\ s # None
  BY AnimationAssumption DEF First, Free, None, Slots
<1> QED
  BY <1>1 DEF Owned, KeepsTimers

LEMMA OwnedByProgram ==
    ASSUME AnimTypeOK, Owned, NEW n, Leaves(n), NoKeep(n),
           NEW s \in Slots, First(s), NEW period, NEW once,
           pool' = [pool EXCEPT ![s] = Armed("program", period, once)],
           mine' = mine \cup {s}, halfway' = halfway, display'.timer = display.timer,
           exposed' = IF halfway /\ s = display.timer THEN exposed \cup {s} ELSE exposed
    PROVE  Owned'
<1>1. s \notin exposed' => s # display.timer
  BY FreshSlot
<1>2. pool'[s].kind = "program" /\ \A r \in Slots : r # s => pool'[r] = pool[r]
  BY DEF AnimTypeOK, Armed
<1>3. exposed \subseteq exposed' /\ \A r : r # s /\ r \notin exposed => r \notin exposed'
  OBVIOUS
<1>4. KeepsTimers' /\ display'.timer \notin mine' \ exposed'
  BY <1>1, <1>2, <1>3 DEF Owned, KeepsTimers, AnimTypeOK
<1>5. \/ halfway' \/ display'.timer = None \/ display'.timer \in exposed'
      \/ pool'[display'.timer].kind = "tick"
  BY <1>1, <1>2, <1>3 DEF Owned, AnimTypeOK, Displays
<1>6. \A r \in Slots : pool[r].kind = "tick" => pool'[r].kind = "tick"
  BY <1>2 DEF First, Free
<1> QED
  BY <1>3, <1>4, <1>5, <1>6, HandedOver DEF Owned

LEMMA OwnedNoMore ==
    ASSUME AnimTypeOK, Owned, NEW n, Leaves(n), NoKeep(n), NEW s \in mine \cup exposed,
           pool' = [pool EXCEPT ![s] = Unused], mine' = mine \ {s}, exposed' = exposed,
           halfway' = halfway, display'.timer = display.timer
    PROVE  Owned'
<1>1. s \in Slots /\ (s \in exposed \/ pool[s].kind = "program")
  BY DEF AnimTypeOK, Owned, KeepsTimers
<1>2. \A r \in Slots : r # s => pool'[r] = pool[r]
  BY <1>1 DEF AnimTypeOK
<1>3. KeepsTimers' /\ display'.timer \notin mine' \ exposed'
  BY <1>2 DEF Owned, KeepsTimers, AnimTypeOK
<1>4. \/ halfway' \/ display'.timer = None \/ display'.timer \in exposed'
      \/ pool'[display'.timer].kind = "tick"
  BY <1>1, <1>2 DEF Owned, AnimTypeOK, Displays
<1>5. \A r \in Slots : pool[r].kind = "tick" /\ r \notin exposed => pool'[r].kind = "tick"
  BY <1>1, <1>2
<1> QED
  BY <1>3, <1>4, <1>5, HandedOver DEF Owned

\* An animation starts behind the program, with a Timer() in progress.
LEMMA OwnedInProgress ==
    ASSUME AnimTypeOK, Owned, NEW n, Leaves(n), Len(stack') = n + 1, stack'[n + 1].then = "keep",
           NEW s \in Slots, First(s), stack'[n + 1].arg = s, NEW period, NEW once,
           pool' = [pool EXCEPT ![s] = Armed("tick", period, once)], SameTimers,
           display'.timer = None
    PROVE  Owned'
<1>1. s \notin exposed =>
        /\ s \notin mine
        /\ \A i \in 1..Len(stack) : stack[i].then = "keep" => stack[i].arg # s
  BY FreshSlot
<1>2. pool'[s].kind = "tick" /\ \A r \in Slots : r # s => pool'[r] = pool[r]
  BY DEF AnimTypeOK, Armed
<1>3. None \notin Slots
  BY AnimationAssumption DEF None, Slots
<1>4. KeepsTimers' /\ display'.timer \notin mine' \ exposed'
  BY <1>1, <1>2, <1>3 DEF Owned, KeepsTimers, SameTimers, AnimTypeOK
<1>5. ASSUME NEW i \in 1..n, stack'[i].then = "keep"
      PROVE  /\ i \in 1..Len(stack) /\ stack[i].then = "keep" /\ stack'[i].arg = stack[i].arg
             /\ stack[i].arg \in Slots
             /\ s \in exposed \/ stack[i].arg # s
             /\ stack[i].arg \in exposed \/ (stack[i].arg # s /\ pool[stack[i].arg].kind = "tick")
  <2>1. n \in 1..Len(stack) /\ stack'[i].then = stack[i].then /\ stack'[i].arg = stack[i].arg
    BY DEF Leaves
  <2>2. i \in 1..Len(stack)
    BY <2>1
  <2> QED
    BY <1>1, <1>5, <2>1, <2>2, StackIndices, CallFields DEF Owned
<1>6. \A i \in 1..Len(stack') : i \in 1..n \/ i = n + 1
  BY NewIndices
<1>7. \A i \in 1..Len(stack') : stack'[i].then = "keep" /\ stack'[i].arg \notin exposed' =>
         pool'[stack'[i].arg].kind = "tick" /\ stack'[i].arg # display'.timer
  BY <1>2, <1>3, <1>5, <1>6 DEF SameTimers
<1>8. \A i, j \in 1..Len(stack') :
         /\ i # j /\ stack'[i].then = "keep" /\ stack'[j].then = "keep"
         /\ stack'[i].arg \notin exposed'
         => stack'[i].arg # stack'[j].arg
  BY <1>5, <1>6 DEF Owned, SameTimers
<1> QED
  BY <1>4, <1>7, <1>8 DEF Owned

\* Timer() is over, and the display has its slot.
LEMMA OwnedByDisplay ==
    ASSUME AnimTypeOK, Owned, Top.then = "keep", NEW n, Leaves(n), n = Len(stack) - 1,
           Len(stack') = n, pool' = pool, SameTimers, display'.timer = Top.arg
    PROVE  Owned'
<1>1. /\ Top = stack[Len(stack)] /\ Len(stack) \in 1..Len(stack) /\ Top.arg \in Slots
      /\ Top.arg \in exposed \/ pool[Top.arg].kind = "tick"
  BY StackIndices, CallFields DEF Owned
<1>2. KeepsTimers' /\ display'.timer \notin mine' \ exposed'
  BY <1>1 DEF Owned, KeepsTimers, SameTimers
<1>3. ASSUME NEW i \in 1..Len(stack'), stack'[i].then = "keep"
      PROVE  /\ i \in 1..Len(stack) /\ i # Len(stack) /\ stack[i].then = "keep"
             /\ stack'[i].arg = stack[i].arg
  <2>1. n \in 1..Len(stack) /\ stack'[i].then = stack[i].then /\ stack'[i].arg = stack[i].arg
    BY DEF Leaves
  <2>2. i \in 1..Len(stack) /\ i # Len(stack)
    BY <2>1, StackIndices
  <2> QED
    BY <1>3, <2>1, <2>2
<1>4. \A i \in 1..Len(stack') : stack'[i].then = "keep" /\ stack'[i].arg \notin exposed' =>
         pool'[stack'[i].arg].kind = "tick" /\ stack'[i].arg # display'.timer
  BY <1>1, <1>3 DEF Owned, SameTimers
<1>5. \A i, j \in 1..Len(stack') :
         /\ i # j /\ stack'[i].then = "keep" /\ stack'[j].then = "keep"
         /\ stack'[i].arg \notin exposed'
         => stack'[i].arg # stack'[j].arg
  BY <1>3 DEF Owned, SameTimers
<1> QED
  BY <1>1, <1>2, <1>4, <1>5 DEF Owned, SameTimers

-----------------------------------------------------------------------------
(* Steps.                                                                    *)

Others ==
    /\ {mine', exposed'} \subseteq SUBSET Slots /\ halfway' \in BOOLEAN
    /\ asked' \in Shown \cup {Moving} /\ quota' \in 0..Quota

LEMMA TypedNext == PoolTyped' /\ DisplayTyped' /\ StackTyped' /\ Others => AnimTypeOK'
  BY DEF PoolTyped, DisplayTyped, StackTyped, AnimTypeOK, Others

\* A call of the display starts: it stops the animation, up to its wait.
LEMMA DisplayCalled ==
    ASSUME DrawInv, NEW u, Beneath(u), NEW t \in StoppingCalls, NEW a, StopsTimer(u, t, a),
           \A d \in SUBSET Callbacks :
              [then |-> t, arg |-> a, left |-> 0, due |-> d] \in CallFrames,
           SameTimers, display'.timer = display.timer
    PROVE  PoolTyped' /\ StackTyped' /\ Owned' /\ halfway' \in BOOLEAN
<1>1. AnimTypeOK /\ Owned /\ t # "keep" /\ halfway \in BOOLEAN
  BY DEF DrawInv, StoppingCalls, AnimTypeOK
<1>2. /\ StackTyped' /\ PoolTyped' /\ Leaves(Len(u)) /\ Len(u) \in Nat
      /\ Len(stack') = Len(u) + 1
      /\ stack'[Len(u) + 1].then = t
      /\ \/ display.timer = None /\ pool' = pool /\ halfway' = halfway
         \/ /\ display.timer \in Slots /\ halfway' = TRUE
            /\ pool' = [pool EXCEPT ![display.timer] = Unused]
  BY <1>1, StopsTimerTypes
<1>3. NoKeep(Len(u))
  BY <1>1, <1>2 DEF NoKeep
<1>4. CASE display.timer = None /\ pool' = pool /\ halfway' = halfway
  BY <1>1, <1>2, <1>3, <1>4, SameKindsOf, OwnedStays
<1>5. CASE /\ display.timer \in Slots /\ halfway' = TRUE
           /\ pool' = [pool EXCEPT ![display.timer] = Unused]
  BY <1>1, <1>2, <1>3, <1>5, OwnedFreed
<1> QED
  BY <1>2, <1>4, <1>5

\* The stack, once a callback of the call on top has returned, or this call.
LEMMA UnderTop ==
    ASSUME AnimTypeOK, NEW u, Beneath(u), stack' = u
    PROVE  StackTyped' /\ Leaves(Len(u)) /\ NoKeep(Len(u)) /\ Len(stack') = Len(u)
<1>1. Leaves(Len(u)) /\ Len(stack') = Len(u)
  BY Ended
<1>2. Len(u) \in Int
  BY <1>1 DEF Leaves
<1> QED
  BY <1>1, <1>2, StackStays DEF NoKeep

LEMMA CodeStep == ASSUME DrawInv, Code PROVE DrawInv'
<1>1. AnimTypeOK /\ MovesAsAsked /\ Owned /\ Beneath(stack)
  BY Beneaths DEF DrawInv
<1>2. quota' \in 0..Quota
  BY <1>1, AnimationAssumption DEF Code, AnimTypeOK
<1>3. ASSUME NEW t \in StoppingCalls, NEW args, CallsDisplay(t, args),
             \A a \in args, d \in SUBSET Callbacks :
                [then |-> t, arg |-> a, left |-> 0, due |-> d] \in CallFrames
      PROVE  DrawInv'
  <2>1. PICK a \in args : StopsTimer(stack, t, a)
    BY <1>3 DEF CallsDisplay
  <2>2. display' = display /\ SameTimers /\ asked' = asked
    BY <1>3 DEF CallsDisplay, SameTimers
  <2>3. PoolTyped' /\ StackTyped' /\ Owned' /\ halfway' \in BOOLEAN
    BY <1>1, <1>3, <2>1, <2>2, DisplayCalled
  <2>4. DisplayTyped' /\ Others /\ MovesAsAsked'
    BY <1>1, <1>2, <2>2, <2>3
    DEF DisplayTyped, Others, SameTimers, MovesAsAsked, StaysShown, AnimTypeOK
  <2> QED
    BY <2>3, <2>4, TypedNext DEF DrawInv
<1>4. CASE CallsDisplay("show", {Still(image) : image \in Images})
  BY <1>3, <1>4, NewCalls DEF StoppingCalls
<1>5. CASE CallsDisplay("play", Scripts)
  BY <1>3, <1>5, NewCalls DEF StoppingCalls
<1>6. CASE CallsDisplay("off", {None})
  <2>1. \A a \in {None}, d \in SUBSET Callbacks :
          [then |-> "off", arg |-> a, left |-> 0, due |-> d] \in CallFrames
    BY NewCalls
  <2>2. "off" \in StoppingCalls
    BY DEF StoppingCalls
  <2> QED
    BY <1>3, <1>6, <2>1, <2>2
<1>7. CASE CallsDisplay("on", {None})
  <2>1. \A a \in {None}, d \in SUBSET Callbacks :
          [then |-> "on", arg |-> a, left |-> 0, due |-> d] \in CallFrames
    BY NewCalls
  <2>2. "on" \in StoppingCalls
    BY DEF StoppingCalls
  <2> QED
    BY <1>3, <1>7, <2>1, <2>2
<1>8. CASE Clears
  <2>1. /\ stack' = stack /\ pool' = pool /\ SameTimers /\ halfway' = halfway
        /\ display' = [display EXCEPT !.picture = Blank]
        /\ asked' = IF asked = Moving THEN Moving ELSE Blank
    BY <1>8 DEF Clears, doubt, SameTimers
  <2>2. /\ display' \in Displays /\ display'.picture = Blank
        /\ display'.script = display.script /\ display'.timer = display.timer
    BY <1>1, <2>1, DisplayOperations, ShownPictures DEF AnimTypeOK
  <2>3. StackTyped' /\ Leaves(Len(stack)) /\ NoKeep(Len(stack))
    BY <1>1, <2>1, UnderTop
  <2>4. Owned'
    BY <1>1, <2>1, <2>2, <2>3, SameKindsOf, OwnedStays
  <2>5. PoolTyped' /\ DisplayTyped' /\ Others /\ MovesAsAsked'
    BY <1>1, <1>2, <2>1, <2>2, ShownPictures
    DEF DisplayTyped, PoolTyped, Others, SameTimers, MovesAsAsked, StaysShown, AnimTypeOK
  <2> QED
    BY <2>3, <2>4, <2>5, TypedNext DEF DrawInv
<1>9. ASSUME display' = display, asked' = asked, GivesTurn(stack, "done", None)
      PROVE  /\ StackTyped' /\ Leaves(Len(stack)) /\ NoKeep(Len(stack))
             /\ DisplayTyped' /\ MovesAsAsked'
  <2>1. StackTyped' /\ Leaves(Len(stack)) /\ stack'[Len(stack) + 1].then = "done"
    BY <1>1, <1>9, GivesTurnTypes, NewCalls
  <2> QED
    BY <1>1, <1>9, <2>1 DEF NoKeep, DisplayTyped, MovesAsAsked, StaysShown, AnimTypeOK
<1>10. CASE TimerStarts
  <2>1. PICK s \in Slots, period \in Lasts, once \in BOOLEAN :
          /\ First(s) /\ pool' = [pool EXCEPT ![s] = Armed("program", period, once)]
          /\ mine' = mine \cup {s}
          /\ exposed' = IF halfway /\ s = display.timer THEN exposed \cup {s} ELSE exposed
    BY <1>10 DEF TimerStarts
  <2>2. /\ display' = display /\ asked' = asked /\ halfway' = halfway
        /\ GivesTurn(stack, "done", None)
    BY <1>10 DEF TimerStarts
  <2>3. period \in Nat
    BY AnimationAssumption
  <2>4. PoolTyped'
    BY <1>1, <2>1, <2>3, PoolOperations DEF PoolTyped
  <2>5. Others
    BY <1>1, <1>2, <2>1, <2>2 DEF Others, AnimTypeOK
  <2>6. Owned'
    BY <1>1, <1>9, <2>1, <2>2, OwnedByProgram
  <2> QED
    BY <1>9, <2>2, <2>4, <2>5, <2>6, TypedNext DEF DrawInv
<1>11. CASE TimerStops
  <2>1. PICK s \in mine \cup exposed : pool' = [pool EXCEPT ![s] = Unused] /\ mine' = mine \ {s}
    BY <1>11 DEF TimerStops, Deinit
  <2>2. /\ display' = display /\ asked' = asked /\ exposed' = exposed /\ halfway' = halfway
        /\ GivesTurn(stack, "done", None)
    BY <1>11 DEF TimerStops, doubt
  <2>3. PoolTyped' /\ Others
    BY <1>1, <1>2, <2>1, <2>2, PoolOperations DEF PoolTyped, Others, AnimTypeOK
  <2>4. Owned'
    BY <1>1, <1>9, <2>1, <2>2, OwnedNoMore
  <2> QED
    BY <1>9, <2>2, <2>3, <2>4, TypedNext DEF DrawInv
<1> QED
  BY <1>4, <1>5, <1>6, <1>7, <1>8, <1>10, <1>11 DEF Code

\* An exception leaves the calls beneath the one that it ends, or sleep of the
\* main program, which it ends.
LEMMA RaisesStep == ASSUME DrawInv, Raises PROVE DrawInv'
<1>1. AnimTypeOK /\ MovesAsAsked /\ Owned
  BY DEF DrawInv
<1>2. /\ UNCHANGED <<pool, display, mine, asked, halfway, exposed>>
      /\ quota' \in 0..Quota
  BY <1>1, AnimationAssumption DEF Raises, doubt, AnimTypeOK
<1>3. /\ stack \in Seq(CallFrames) /\ Len(stack) \in Nat \ {0}
      /\ \A i \in 1..Len(stack) : stack[i] \in CallFrames
  BY <1>1, StackIndices DEF AnimTypeOK
<1>4. \E n : Leaves(n) /\ NoKeep(n)
  <2>1. ASSUME NEW k \in 1..(Len(stack) - 1), stack' = SubSeq(stack, 1, k)
        PROVE  Leaves(k) /\ NoKeep(k)
    <3>1. k \in Nat /\ k \in 1..Len(stack) /\ \A i \in 1..k : i \in 1..Len(stack)
      BY <1>3
    <3>2. /\ stack' \in Seq(CallFrames) /\ Len(stack') = k
          /\ \A i \in 1..k : stack'[i] = stack[i]
      BY <1>3, <2>1, <3>1, FirstOnes
    <3>3. stack' # <<>>
      BY <3>1, <3>2
    <3> QED
      BY <3>1, <3>2, <3>3 DEF Leaves, NoKeep
  <2>2. ASSUME stack' = <<[stack[1] EXCEPT !.due = {}]>>
        PROVE  Leaves(1) /\ NoKeep(1)
    <3> DEFINE f == [stack[1] EXCEPT !.due = {}]
    <3>1. f \in CallFrames /\ f.then = stack[1].then /\ f.arg = stack[1].arg
      <4>1. 1 \in 1..Len(stack) /\ {} \in SUBSET Callbacks
        BY <1>3
      <4>2. stack[1] \in CallFrames
        BY <1>3, <4>1
      <4> QED
        BY <4>1, <4>2, CallbackGone
    <3> HIDE DEF f
    <3>2. stack' = <<f>>
      BY <2>2 DEF f
    <3>3. stack' \in Seq(CallFrames) /\ stack' # <<>> /\ Len(stack') = 1 /\ stack'[1] = f
      BY <3>1, <3>2
    <3> QED
      BY <1>3, <3>1, <3>3 DEF Leaves, NoKeep
  <2> QED
    BY <2>1, <2>2 DEF Raises
<1>5. StackTyped'
  BY <1>1, <1>4, StackStays
<1>6. SameTimers /\ SameKinds /\ PoolTyped'
  BY <1>1, <1>2, SameKindsOf DEF SameTimers
<1>7. Owned'
  BY <1>1, <1>2, <1>4, <1>6, OwnedStays
<1>8. DisplayTyped' /\ MovesAsAsked' /\ Others
  BY <1>1, <1>2 DEF DisplayTyped, Others, MovesAsAsked, StaysShown, AnimTypeOK
<1> QED
  BY <1>5, <1>6, <1>7, <1>8, TypedNext DEF DrawInv

LEMMA TickStep == ASSUME DrawInv, TickCalled PROVE DrawInv'
<1>1. AnimTypeOK /\ MovesAsAsked /\ Owned
  BY DEF DrawInv
<1>2. PICK c \in Top.due : Ticks(Below(c))
  BY DEF TickCalled
<1>3. Beneath(Below(c)) /\ Len(Below(c)) = Len(stack) /\ Len(stack) \in Nat
  BY <1>1, Beneaths
<1>4. /\ SameTimers /\ asked' = asked /\ quota' = quota
      /\ halfway' \in BOOLEAN => Others
  BY <1>1 DEF TickCalled, Others, SameTimers, AnimTypeOK
<1>5. CASE display.script = {}
  <2>1. stack' = Below(c) /\ pool' = pool /\ display' = display /\ halfway' = halfway
    BY <1>2, <1>5 DEF Ticks
  <2>2. StackTyped' /\ Leaves(Len(stack)) /\ NoKeep(Len(stack))
    BY <1>1, <1>3, <2>1, UnderTop
  <2>3. Owned'
    BY <1>1, <1>4, <2>1, <2>2, SameKindsOf, OwnedStays
  <2>4. PoolTyped' /\ DisplayTyped' /\ MovesAsAsked' /\ Others
    BY <1>1, <1>4, <2>1 DEF PoolTyped, DisplayTyped, MovesAsAsked, StaysShown, AnimTypeOK
  <2> QED
    BY <1>4, <2>2, <2>3, <2>4, TypedNext DEF DrawInv
<1>6. CASE display.script # {}
  <2> DEFINE script == CHOOSE s \in display.script : TRUE
             at == IF display.at + 1 >= script.length /\ script.loop THEN 0 ELSE display.at + 1
  <2>1. script \in Scripts
    BY <1>1, <1>6 DEF AnimTypeOK, Displays
  <2>2. at \in Nat /\ script.length \in Nat
    BY <1>1, <2>1, AnimationAssumption DEF AnimTypeOK, Displays, ScriptRecords
  <2>3. IF at < script.length
        THEN /\ display' = [display EXCEPT !.at = at, !.picture = Picture(script, at)]
             /\ stack' = Below(c) /\ pool' = pool /\ halfway' = halfway
        ELSE /\ StopsTimer(Below(c), "end", None)
             /\ display' = [display EXCEPT !.at = at]
    BY <1>2, <1>6 DEF Ticks
  <2>4. asked = Moving
    BY <1>1, <1>6 DEF MovesAsAsked
  <2> HIDE DEF script, at
  <2>5. CASE at < script.length
    <3>1. /\ display' = [display EXCEPT !.at = at, !.picture = Picture(script, at)]
          /\ stack' = Below(c) /\ pool' = pool /\ halfway' = halfway
      BY <2>3, <2>5
    <3>2. Picture(script, at) \in Shown
      <4>1. at \in Int /\ at \in 0..(script.length - 1)
        BY <2>2, <2>5
      <4> QED
        BY <2>1, <4>1, ShownPictures
    <3>3. display' \in Displays /\ display'.timer = display.timer
      <4>1. display \in Displays
        BY <1>1 DEF AnimTypeOK
      <4>2. /\ [display EXCEPT !.at = at, !.picture = Picture(script, at)] \in Displays
            /\ [display EXCEPT !.at = at, !.picture = Picture(script, at)].timer = display.timer
        BY <2>2, <3>2, <4>1, FrameDrawn
      <4> QED
        BY <3>1, <4>2
    <3>4. StackTyped' /\ Leaves(Len(stack)) /\ NoKeep(Len(stack))
      BY <1>1, <1>3, <3>1, UnderTop
    <3>5. Owned'
      BY <1>1, <1>4, <3>1, <3>3, <3>4, SameKindsOf, OwnedStays
    <3>6. PoolTyped' /\ DisplayTyped' /\ MovesAsAsked' /\ Others
      BY <1>1, <1>4, <2>4, <3>1, <3>3 DEF PoolTyped, DisplayTyped, MovesAsAsked, StaysShown, AnimTypeOK
    <3> QED
      BY <1>4, <3>4, <3>5, <3>6, TypedNext DEF DrawInv
  <2>6. CASE ~(at < script.length)
    <3>1. StopsTimer(Below(c), "end", None) /\ display' = [display EXCEPT !.at = at]
      BY <2>3, <2>6
    <3>2. display' \in Displays /\ display'.timer = display.timer
      BY <1>1, <2>2, <3>1, ShownPictures, DisplayOperations DEF AnimTypeOK
    <3>3. "end" \in StoppingCalls
      BY DEF StoppingCalls
    <3>4. PoolTyped' /\ StackTyped' /\ Owned' /\ halfway' \in BOOLEAN
      BY <1>3, <1>4, <3>1, <3>2, <3>3, DisplayCalled, NewCalls
    <3>5. DisplayTyped' /\ MovesAsAsked'
      BY <1>4, <2>4, <3>2 DEF DisplayTyped, MovesAsAsked, StaysShown
    <3> QED
      BY <1>4, <3>4, <3>5, TypedNext DEF DrawInv
  <2> QED
    BY <2>5, <2>6
<1> QED
  BY <1>5, <1>6

LEMMA ProgramStep == ASSUME DrawInv, ProgramCalled PROVE DrawInv'
<1>1. AnimTypeOK /\ MovesAsAsked /\ Owned
  BY DEF DrawInv
<1>2. PICK c \in Top.due :
        \/ Code \/ Raises
        \/ stack' = Below(c) /\ UNCHANGED <<pool, display, mine, asked, doubt, quota>>
  BY DEF ProgramCalled
<1>3. Beneath(Below(c)) /\ Len(Below(c)) = Len(stack)
  BY <1>1, Beneaths
<1>4. CASE stack' = Below(c) /\ UNCHANGED <<pool, display, mine, asked, doubt, quota>>
  <2>1. StackTyped' /\ Leaves(Len(stack)) /\ NoKeep(Len(stack))
    BY <1>1, <1>3, <1>4, UnderTop
  <2>2. SameTimers /\ halfway' = halfway
    BY <1>4 DEF doubt, SameTimers
  <2>3. Owned'
    BY <1>1, <1>4, <2>1, <2>2, SameKindsOf, OwnedStays
  <2>4. PoolTyped' /\ DisplayTyped' /\ MovesAsAsked' /\ Others
    BY <1>1, <1>4, <2>2
    DEF PoolTyped, DisplayTyped, Others, SameTimers, MovesAsAsked, StaysShown, AnimTypeOK
  <2> QED
    BY <2>1, <2>3, <2>4, TypedNext DEF DrawInv
<1> QED
  BY <1>2, <1>4, CodeStep, RaisesStep

LEMMA TimeStep == ASSUME DrawInv, TimePasses PROVE DrawInv'
<1>1. AnimTypeOK /\ MovesAsAsked /\ Owned
  BY DEF DrawInv
<1>2. PICK d \in Inputs :
        stack' = [i \in DOMAIN stack |->
                    IF i < Len(stack) THEN [stack[i] EXCEPT !.left = Shorter(@)]
                    ELSE [stack[i] EXCEPT !.left = IF d = {} THEN Shorter(@) ELSE 0,
                                          !.due = d \cup DueTimers]]
  BY DEF TimePasses
<1>3. d \cup DueTimers \in SUBSET Callbacks
  <2>1. \A s \in Slots : s \in 0..MaxTimers
    BY AnimationAssumption DEF Slots
  <2>2. \A s \in Slots : pool[s].active => pool[s].kind \in {"tick", "program"}
    BY <1>1 DEF AnimTypeOK, Timers
  <2>3. DueTimers \subseteq Callbacks
    BY <2>1, <2>2 DEF DueTimers, Callbacks
  <2> QED
    BY <2>3, InputTypes
<1>4. ASSUME NEW i \in 1..Len(stack)
      PROVE  /\ stack'[i] \in CallFrames
             /\ stack'[i].then = stack[i].then /\ stack'[i].arg = stack[i].arg
  <2>1. stack[i] \in CallFrames /\ i \in DOMAIN stack
    BY <1>1, StackIndices
  <2>2. Shorter(stack[i].left) \in Nat
    BY <2>1, CallFields DEF Shorter
  <2>3. CASE i < Len(stack)
    <3>1. stack'[i] = [stack[i] EXCEPT !.left = Shorter(stack[i].left)]
      BY <1>2, <2>1, <2>3
    <3> QED
      BY <2>1, <2>2, <3>1, CallWaits
  <2>4. CASE ~(i < Len(stack))
    <3> DEFINE n == IF d = {} THEN Shorter(stack[i].left) ELSE 0
    <3> DEFINE e == d \cup DueTimers
               f == stack[i]
    <3>1. stack'[i] = [f EXCEPT !.left = n, !.due = e]
      BY <1>2, <2>1, <2>4
    <3>2. n \in Nat
      BY <2>2
    <3>3. e \in SUBSET Callbacks /\ f \in CallFrames
      BY <1>3, <2>1
    <3> HIDE DEF n, e, f
    <3>4. /\ [f EXCEPT !.left = n, !.due = e] \in CallFrames
          /\ [f EXCEPT !.left = n, !.due = e].then = f.then
          /\ [f EXCEPT !.left = n, !.due = e].arg = f.arg
      BY <3>2, <3>3, CallWakes
    <3>5. /\ stack'[i] \in CallFrames
          /\ stack'[i].then = f.then /\ stack'[i].arg = f.arg
      BY <3>1, <3>4
    <3> QED
      BY <3>5 DEF f
  <2> QED
    BY <2>3, <2>4
<1>5. stack' \in Seq(CallFrames) /\ Len(stack') = Len(stack) /\ stack' # <<>>
  <2> DEFINE n == Len(stack)
  <2>1. n \in Nat \ {0} /\ DOMAIN stack = 1..n
    BY <1>1, StackIndices
  <2>2. stack' = [i \in 1..n |-> stack'[i]]
    BY <1>2, <2>1
  <2>3. stack' \in [1..n -> CallFrames]
    BY <1>4, <2>2
  <2> HIDE DEF n
  <2>4. stack' \in Seq(CallFrames)
    BY <2>1, <2>3, IsASeq
  <2>5. Len(stack') = n
    BY <2>1, <2>3, <2>4, LenProperties
  <2> QED
    BY <2>1, <2>4, <2>5, EmptySeq DEF n
<1>6. Leaves(Len(stack)) /\ NoKeep(Len(stack)) /\ StackTyped'
  <2>1. Len(stack) \in 1..Len(stack) /\ Len(stack) \in Nat
    BY <1>1, StackIndices
  <2>2. Leaves(Len(stack))
    BY <1>4, <1>5, <2>1 DEF Leaves
  <2> QED
    BY <1>1, <1>5, <2>1, <2>2, StackStays DEF NoKeep
<1>7. PoolTyped' /\ SameKinds
  BY <1>1, PoolOperations DEF TimePasses, PoolTyped, SameKinds
<1>8. SameTimers /\ halfway' = halfway /\ UNCHANGED <<display, asked, quota>>
  BY DEF TimePasses, doubt, SameTimers
<1>9. Owned'
  BY <1>1, <1>6, <1>7, <1>8, OwnedStays
<1>10. DisplayTyped' /\ MovesAsAsked' /\ Others
  BY <1>1, <1>8 DEF DisplayTyped, Others, SameTimers, MovesAsAsked, StaysShown, AnimTypeOK
<1> QED
  BY <1>6, <1>7, <1>9, <1>10, TypedNext DEF DrawInv

\* The call on top ends.
LEMMA Popped ==
    ASSUME AnimTypeOK, Top.then # "main", stack' = Front(stack)
    PROVE  /\ StackTyped' /\ Leaves(Len(stack) - 1) /\ NoKeep(Len(stack) - 1)
           /\ Len(stack') = Len(stack) - 1
  BY Beneaths, UnderTop

\* Another takes its place.
LEMMA Replaced ==
    ASSUME AnimTypeOK, Top.then # "main", NEW f \in CallFrames,
           stack' = Append(Front(stack), f), f.then # "keep"
    PROVE  StackTyped' /\ Leaves(Len(stack) - 1) /\ NoKeep(Len(stack) - 1)
<1>1. /\ Leaves(Len(stack) - 1) /\ Len(stack') = (Len(stack) - 1) + 1
      /\ stack'[(Len(stack) - 1) + 1] = f
  BY Beneaths, Started
<1> QED
  BY <1>1, StackStays DEF NoKeep

LEMMA OthersStay ==
    ASSUME AnimTypeOK, SameTimers, halfway' \in BOOLEAN, quota' = quota,
           asked' \in Shown \cup {Moving}
    PROVE  Others
  BY DEF AnimTypeOK, Others, SameTimers

\* A call ends that has nothing to do with who owns the slots.
LEMMA DoneStep ==
    ASSUME DrawInv, Done \/ Turned, SameTimers, quota' = quota, halfway' = halfway
    PROVE  DrawInv'
<1>1. AnimTypeOK /\ MovesAsAsked /\ Owned /\ halfway \in BOOLEAN
  BY DEF DrawInv, AnimTypeOK
<1>2. /\ Top.then \in {"done", "isOff", "isOn"} /\ stack' = Front(stack)
      /\ pool' = pool /\ asked' = asked
      /\ display' = display \/ \E b \in BOOLEAN : display' = [display EXCEPT !.on = b]
  BY DEF Done, Turned, Runs
<1>3. /\ display' \in Displays /\ display'.timer = display.timer
      /\ display'.script = display.script /\ display'.picture = display.picture
  BY <1>1, <1>2 DEF AnimTypeOK, Displays
<1>4. StackTyped' /\ Leaves(Len(stack) - 1) /\ NoKeep(Len(stack) - 1)
  BY <1>1, <1>2, Popped
<1>5. Owned'
  BY <1>1, <1>2, <1>3, <1>4, SameKindsOf, OwnedStays
<1>6. PoolTyped' /\ DisplayTyped' /\ MovesAsAsked' /\ Others
  BY <1>1, <1>2, <1>3, SameKindsOf, OthersStay DEF DisplayTyped, MovesAsAsked, StaysShown, AnimTypeOK
<1> QED
  BY <1>4, <1>5, <1>6, TypedNext DEF DrawInv

\* What a call that has stopped the animation leaves.
LEMMA StoppedStep ==
    ASSUME DrawInv, NEW n, Leaves(n), NoKeep(n), StackTyped', pool' = pool,
           SameTimers, halfway' = FALSE, quota' = quota, NEW p \in Shown,
           display' = [Stopped(display) EXCEPT !.picture = p] \/
              (display' = Stopped(display) /\ p = display.picture),
           asked' = p
    PROVE  DrawInv'
<1>1. AnimTypeOK /\ MovesAsAsked /\ Owned
  BY DEF DrawInv
<1>2. /\ Stopped(display) \in Displays /\ Stopped(display).script = {}
      /\ Stopped(display).timer = None /\ Stopped(display).picture = display.picture
  BY <1>1, ShownPictures, DisplayOperations DEF AnimTypeOK
<1>3. display' \in Displays /\ display'.script = {} /\ display'.timer = None /\ display'.picture = p
  <2> DEFINE d == Stopped(display)
  <2>1. d \in Displays /\ d.script = {} /\ d.timer = None /\ d.picture = display.picture
    BY <1>2
  <2>2. display' = [d EXCEPT !.picture = p] \/ (display' = d /\ p = display.picture)
    OBVIOUS
  <2> HIDE DEF d
  <2>3. /\ [d EXCEPT !.picture = p] \in Displays /\ [d EXCEPT !.picture = p].picture = p
        /\ [d EXCEPT !.picture = p].script = d.script
        /\ [d EXCEPT !.picture = p].timer = d.timer
    BY <2>1, PictureDrawn
  <2> QED
    BY <2>1, <2>2, <2>3
<1>4. Owned'
  BY <1>1, <1>3, SameKindsOf, OwnedForgotten
<1>5. PoolTyped' /\ DisplayTyped' /\ MovesAsAsked' /\ Others
  BY <1>1, <1>3, SameKindsOf, OthersStay DEF DisplayTyped, MovesAsAsked, StaysShown
<1> QED
  BY <1>4, <1>5, TypedNext DEF DrawInv

LEMMA ShowsStep ==
    ASSUME DrawInv, Shows, SameTimers, halfway' = FALSE, quota' = quota
    PROVE  DrawInv'
<1>1. AnimTypeOK /\ Top.then = "show" /\ stack' = Front(stack) /\ Top \in CallFrames
  BY Beneaths DEF DrawInv, Shows, Runs
<1>2. Top.arg \in Shown
  BY <1>1, CallFields, ShownPictures
<1> QED
  BY <1>1, <1>2, Popped, StoppedStep DEF Shows

LEMMA EndsStep ==
    ASSUME DrawInv, Ends, SameTimers, halfway' = FALSE, quota' = quota
    PROVE  DrawInv'
<1>1. AnimTypeOK /\ Top.then = "end" /\ stack' = Front(stack)
  BY DEF DrawInv, Ends, Runs
<1> DEFINE p == IF display.clear THEN Blank ELSE display.picture
<1>2. p \in Shown /\ display \in Displays
  BY <1>1, ShownPictures DEF AnimTypeOK, Displays
<1>3. Stopped(display) \in Displays /\ Stopped(display).picture = display.picture
  BY <1>2, ShownPictures, DisplayOperations
<1>4. display' = [Stopped(display) EXCEPT !.picture = p] /\ pool' = pool
  BY <1>3 DEF Ends
<1> HIDE DEF p
<1>5. asked' = p
  <2> DEFINE d == Stopped(display)
  <2>1. asked' = display'.picture /\ display' = [d EXCEPT !.picture = p] /\ d \in Displays
    BY <1>3, <1>4 DEF Ends
  <2> HIDE DEF d
  <2>2. [d EXCEPT !.picture = p].picture = p
    BY <1>2, <2>1, PictureDrawn
  <2> QED
    BY <2>1, <2>2
<1> QED
  BY <1>1, <1>2, <1>4, <1>5, Popped, StoppedStep

LEMMA TurnsStep ==
    ASSUME DrawInv, TurnsOff \/ TurnsOn, SameTimers, halfway' = FALSE, quota' = quota
    PROVE  DrawInv'
<1>1. AnimTypeOK /\ Top.then \in {"off", "on"}
  BY DEF DrawInv, TurnsOff, TurnsOn, Runs
<1>2. /\ display' = Stopped(display) /\ asked' = display.picture /\ pool' = pool
      /\ display.picture \in Shown
  BY <1>1 DEF TurnsOff, TurnsOn, AnimTypeOK, Displays
<1>3. CASE stack' = Front(stack)
  BY <1>1, <1>2, <1>3, Popped, StoppedStep
<1>4. ASSUME NEW t \in {"isOff", "isOn"}, GivesTurn(Front(stack), t, None)
      PROVE  DrawInv'
  <2>1. Beneath(Front(stack)) /\ Len(Front(stack)) = Len(stack) - 1
    BY <1>1, Beneaths
  <2>2. \A d \in SUBSET Callbacks :
           [then |-> t, arg |-> None, left |-> 0, due |-> d] \in CallFrames
    BY NewCalls
  <2>3. /\ StackTyped' /\ Leaves(Len(stack) - 1)
        /\ stack'[(Len(stack) - 1) + 1].then = t
    BY <1>1, <1>4, <2>1, <2>2, GivesTurnTypes
  <2>4. NoKeep(Len(stack) - 1)
    BY <2>3 DEF NoKeep
  <2> QED
    BY <1>2, <2>3, <2>4, StoppedStep
<1> QED
  BY <1>3, <1>4 DEF TurnsOff, TurnsOn

\* A frame, and the sleep before the next one.
LEMMA DrawsTypes ==
    ASSUME AnimTypeOK, Top.then \in {"play", "frame"}, NEW d, NEW script \in Scripts,
           NEW i \in 0..(script.length - 1), Draws(d, script, i)
    PROVE  /\ StackTyped' /\ Leaves(Len(stack) - 1) /\ NoKeep(Len(stack) - 1) /\ pool' = pool
           /\ \E p \in Shown : display' = [d EXCEPT !.picture = p]
<1> DEFINE next == IF i + 1 = script.length /\ script.loop THEN 1 ELSE i + 1
           ends == next = script.length
           p == IF ends /\ script.clear THEN Blank ELSE Picture(script, i)
           f == [then |-> "frame", arg |-> [script |-> script, i |-> next],
                 left |-> script.delay, due |-> {}]
<1>1. script.length \in Nat \ {0} /\ script.delay \in Nat
  BY AnimationAssumption DEF ScriptRecords
<1>2. /\ display' = [d EXCEPT !.picture = p] /\ pool' = pool
      /\ stack' = IF ends THEN Front(stack) ELSE Append(Front(stack), f)
  BY DEF Draws
<1>3. p \in Shown
  BY ShownPictures
<1>4. ~ends => f \in CallFrames /\ f.then # "keep"
  <2>1. next \in Int /\ 0 <= next /\ next <= script.length
    BY <1>1
  <2> HIDE DEF next
  <2>2. ~ends => next \in 0..(script.length - 1)
    BY <1>1, <2>1
  <2>3. ~ends => [script |-> script, i |-> next] \in UNION {FramesOf(s) : s \in Scripts}
    BY <2>2 DEF FramesOf
  <2>4. {} \in SUBSET Callbacks
    OBVIOUS
  <2> QED
    BY <1>1, <2>3, <2>4, NewCalls
<1> HIDE DEF next, ends, p, f
<1>5. CASE ends
  BY <1>2, <1>3, <1>5, Popped
<1>6. CASE ~ends
  BY <1>2, <1>3, <1>4, <1>6, Replaced
<1> QED
  BY <1>5, <1>6

LEMMA PlaysInFrontStep ==
    ASSUME DrawInv, PlaysInFront, SameTimers, halfway' = FALSE, quota' = quota
    PROVE  DrawInv'
<1>1. AnimTypeOK /\ Top.then = "play" /\ Top \in CallFrames
  BY Beneaths DEF DrawInv, PlaysInFront, Runs
<1>2. Top.arg \in Scripts /\ 0 \in 0..(Top.arg.length - 1)
  BY <1>1, CallFields, AnimationAssumption DEF ScriptRecords
<1>3. Draws(Stopped(display), Top.arg, 0) /\ asked' = display'.picture
  BY DEF PlaysInFront
<1>4. /\ StackTyped' /\ Leaves(Len(stack) - 1) /\ NoKeep(Len(stack) - 1) /\ pool' = pool
      /\ \E p \in Shown : display' = [Stopped(display) EXCEPT !.picture = p]
  BY <1>1, <1>2, <1>3, DrawsTypes
<1>5. PICK p \in Shown : display' = [Stopped(display) EXCEPT !.picture = p]
  BY <1>4
<1>6. asked' = p
  <2> DEFINE d == Stopped(display)
  <2>1. asked' = display'.picture /\ display' = [d EXCEPT !.picture = p] /\ d \in Displays
    BY <1>1, <1>3, <1>5, ShownPictures, DisplayOperations DEF AnimTypeOK
  <2> HIDE DEF d
  <2>2. [d EXCEPT !.picture = p].picture = p
    BY <2>1, PictureDrawn
  <2> QED
    BY <2>1, <2>2
<1> QED
  BY <1>4, <1>5, <1>6, StoppedStep

LEMMA NextFrameStep ==
    ASSUME DrawInv, NextFrame, SameTimers, halfway' = halfway, quota' = quota
    PROVE  DrawInv'
<1>1. /\ AnimTypeOK /\ MovesAsAsked /\ Owned /\ Top.then = "frame" /\ Top \in CallFrames
      /\ halfway \in BOOLEAN
  BY Beneaths DEF DrawInv, NextFrame, Runs, AnimTypeOK
<1>2. Top.arg \in UNION {FramesOf(s) : s \in Scripts}
  BY <1>1, CallFields
<1>3. PICK s \in Scripts : \E i \in 0..(s.length - 1) : Top.arg = [script |-> s, i |-> i]
  BY <1>2 DEF FramesOf
<1>4. PICK i \in 0..(s.length - 1) : Top.arg = [script |-> s, i |-> i]
  BY <1>3
<1>5. Draws(display, s, i) /\ asked' = IF asked = Moving THEN Moving ELSE display'.picture
  BY <1>4 DEF NextFrame
<1>6. /\ StackTyped' /\ Leaves(Len(stack) - 1) /\ NoKeep(Len(stack) - 1) /\ pool' = pool
      /\ \E p \in Shown : display' = [display EXCEPT !.picture = p]
  BY <1>1, <1>5, DrawsTypes
<1>7. /\ display' \in Displays /\ display'.picture \in Shown
      /\ display'.script = display.script /\ display'.timer = display.timer
  <2>1. display \in Displays
    BY <1>1 DEF AnimTypeOK
  <2> QED
    BY <1>6, <2>1, PictureDrawn
<1>8. Owned'
  BY <1>1, <1>6, <1>7, SameKindsOf, OwnedStays
<1>9. PoolTyped' /\ DisplayTyped' /\ MovesAsAsked' /\ Others
  BY <1>1, <1>5, <1>6, <1>7, SameKindsOf, OthersStay DEF DisplayTyped, MovesAsAsked, StaysShown
<1> QED
  BY <1>6, <1>8, <1>9, TypedNext DEF DrawInv

LEMMA PlaysBehindStep ==
    ASSUME DrawInv, PlaysBehind, SameTimers, halfway' = FALSE, quota' = quota
    PROVE  DrawInv'
<1>1. AnimTypeOK /\ MovesAsAsked /\ Owned /\ Top.then = "play" /\ Top \in CallFrames
  BY Beneaths DEF DrawInv, PlaysBehind, Runs
<1>2. Top.arg \in Scripts /\ Top.arg.delay \in Nat /\ Top.arg.clear \in BOOLEAN
  BY <1>1, CallFields, AnimationAssumption DEF ScriptRecords
<1>3. display' \in Displays /\ display'.timer = None
  <2>1. display' = [Stopped(display) EXCEPT !.script = {Top.arg}, !.at = 0, !.clear = Top.arg.clear]
    BY DEF PlaysBehind
  <2> DEFINE d == Stopped(display)
  <2>2. d \in Displays /\ d.timer = None
    BY <1>1, ShownPictures, DisplayOperations DEF AnimTypeOK
  <2> HIDE DEF d
  <2>3. \A a \in Scripts, b \in BOOLEAN :
           /\ [d EXCEPT !.script = {a}, !.at = 0, !.clear = b] \in Displays
           /\ [d EXCEPT !.script = {a}, !.at = 0, !.clear = b].timer = None
    BY <2>2 DEF Displays
  <2>4. display' = [d EXCEPT !.script = {Top.arg}, !.at = 0, !.clear = Top.arg.clear]
    BY <2>1 DEF d
  <2> QED
    BY <1>2, <2>3, <2>4
<1>4. DisplayTyped' /\ MovesAsAsked' /\ Others
  BY <1>1, <1>3, OthersStay DEF PlaysBehind, DisplayTyped, MovesAsAsked, StaysShown
<1>5. CASE Free = {}
  <2>1. stack' = Front(stack) /\ pool' = pool
    BY <1>5 DEF PlaysBehind
  <2>2. StackTyped' /\ Leaves(Len(stack) - 1) /\ NoKeep(Len(stack) - 1)
    BY <1>1, <2>1, Popped
  <2>3. Owned' /\ PoolTyped'
    BY <1>1, <1>3, <2>1, <2>2, SameKindsOf, OwnedForgotten
  <2> QED
    BY <1>4, <2>2, <2>3, TypedNext DEF DrawInv
<1>6. CASE Free # {}
  <2>1. PICK s \in Slots :
          /\ First(s) /\ pool' = [pool EXCEPT ![s] = Armed("tick", Top.arg.delay, FALSE)]
          /\ GivesTurn(Front(stack), "keep", s)
    BY <1>6 DEF PlaysBehind
  <2>2. Beneath(Front(stack)) /\ Len(Front(stack)) = Len(stack) - 1
    BY <1>1, Beneaths
  <2>3. /\ StackTyped' /\ Leaves(Len(stack) - 1) /\ Len(stack') = (Len(stack) - 1) + 1
        /\ stack'[(Len(stack) - 1) + 1].then = "keep" /\ stack'[(Len(stack) - 1) + 1].arg = s
    <3>1. \A d \in SUBSET Callbacks :
             [then |-> "keep", arg |-> s, left |-> 0, due |-> d] \in CallFrames
      BY NewCalls
    <3>2. GivesTurn(Front(stack), "keep", s)
      BY <2>1
    <3> QED
      BY <1>1, <2>2, <3>1, <3>2, GivesTurnTypes
  <2>4. Owned'
    BY <1>1, <1>3, <2>1, <2>3, OwnedInProgress
  <2>5. PoolTyped'
    BY <1>1, <1>2, <2>1, PoolOperations DEF PoolTyped
  <2> QED
    BY <1>4, <2>3, <2>4, <2>5, TypedNext DEF DrawInv
<1> QED
  BY <1>5, <1>6

LEMMA KeepsStep ==
    ASSUME DrawInv, Keeps, SameTimers, halfway' = FALSE, quota' = quota
    PROVE  DrawInv'
<1>1. /\ AnimTypeOK /\ MovesAsAsked /\ Owned /\ Top.then = "keep" /\ Top \in CallFrames
      /\ stack' = Front(stack) /\ pool' = pool /\ asked' = asked
  BY Beneaths DEF DrawInv, Keeps, Runs
<1>2. Top.arg \in Slots
  BY <1>1, CallFields
<1>3. /\ display' \in Displays /\ display'.timer = Top.arg
      /\ display'.script = display.script /\ display'.picture = display.picture
  <2>1. display \in Displays /\ display' = [display EXCEPT !.timer = Top.arg]
    BY <1>1 DEF AnimTypeOK, Keeps
  <2> QED
    BY <1>2, <2>1, ShownPictures, DisplayOperations
<1>4. StackTyped' /\ Leaves(Len(stack) - 1) /\ Len(stack') = Len(stack) - 1
  BY <1>1, Popped
<1>5. Owned'
  BY <1>1, <1>3, <1>4, OwnedByDisplay
<1>6. PoolTyped' /\ DisplayTyped' /\ MovesAsAsked' /\ Others
  BY <1>1, <1>3, SameKindsOf, OthersStay DEF DisplayTyped, MovesAsAsked, StaysShown, AnimTypeOK
<1> QED
  BY <1>4, <1>5, <1>6, TypedNext DEF DrawInv

LEMMA Preserved == ASSUME DrawInv, [AnimNext]_animVars PROVE DrawInv'
<1>1. CASE TimePasses
  BY <1>1, TimeStep
<1>2. CASE TickCalled
  BY <1>2, TickStep
<1>3. CASE ProgramCalled
  BY <1>3, ProgramStep
<1>4. CASE MainCalls
  BY <1>4, CodeStep DEF MainCalls
<1>5. CASE GoOn
  <2>1. SameTimers /\ quota' = quota
    BY <1>5 DEF GoOn, SameTimers
  <2> QED
    BY <1>5, <2>1, DoneStep, ShowsStep, PlaysBehindStep, KeepsStep, PlaysInFrontStep, NextFrameStep,
       EndsStep, TurnsStep DEF GoOn
<1>6. CASE UNCHANGED animVars
  BY <1>6 DEF animVars, doubt, DrawInv, AnimTypeOK, MovesAsAsked, StaysShown, Owned, KeepsTimers
<1> QED
  BY <1>1, <1>2, <1>3, <1>4, <1>5, <1>6 DEF AnimNext

-----------------------------------------------------------------------------
(* Theorems.                                                                 *)

LEMMA Start == AnimInit => DrawInv
<1> SUFFICES ASSUME AnimInit PROVE DrawInv
  OBVIOUS
<1>1. AnimTypeOK
  BY Initial
<1>2. MovesAsAsked
  BY DEF AnimInit, MovesAsAsked, StaysShown
<1>3. /\ mine = {} /\ display.timer = None
      /\ \A i \in 1..Len(stack) : stack[i].then = "main" /\ i = 1
  BY DEF AnimInit
<1>4. Owned
  BY <1>3 DEF Owned, KeepsTimers
<1> QED
  BY <1>1, <1>2, <1>4 DEF DrawInv

LEMMA Invariant == AnimSpec => []DrawInv
  BY Start, Preserved, PTL DEF AnimSpec

\* The pool, the display and the calls keep their types.
THEOREM AnimTypes == AnimSpec => []AnimTypeOK
<1>1. DrawInv => AnimTypeOK
  BY DEF DrawInv
<1> QED
  BY <1>1, Invariant, PTL

\* What a call left on the display stays there until another call (_tick,
\* _stop_anim), whatever calls and callbacks are nested in one another.
THEOREM PictureStays == AnimSpec => []StaysShown
<1>1. DrawInv => StaysShown
  BY DEF DrawInv, MovesAsAsked
<1> QED
  BY <1>1, Invariant, PTL

\* A Timer of the program keeps its slot until it is deinitialised, unless one took
\* that slot from under a display that had not yet forgotten it (Timer.deinit,
\* _stop_anim): whatever calls are nested, and whatever exceptions end them.
THEOREM TimersKept == AnimSpec => []KeepsTimers
<1>1. DrawInv => KeepsTimers
  BY DEF DrawInv, Owned
<1> QED
  BY <1>1, Invariant, PTL

-----------------------------------------------------------------------------
(* Induction: what a set holds of the naturals, and of sequences.            *)

LEMMA Induction ==
    ASSUME NEW S, 0 \in S, \A n \in Nat : n \in S => n + 1 \in S
    PROVE  Nat \subseteq S
<1> SUFFICES ASSUME Nat \ S # {} PROVE FALSE
  OBVIOUS
<1>1. PICK n \in Nat \ S : \A m \in Nat \ S : n <= m
  BY Least
<1>2. n - 1 \in Nat
  BY <1>1
<1>3. n - 1 \in S
  BY <1>1, <1>2
<1>4. (n - 1) + 1 \in S
  BY <1>2, <1>3
<1>5. (n - 1) + 1 = n
  BY <1>1
<1> QED BY <1>1, <1>4, <1>5

LEMMA Unrolled ==
    ASSUME NEW X, NEW T, <<>> \in T,
           \A s \in Seq(X), x \in X : s \in T => Append(s, x) \in T
    PROVE  Seq(X) \subseteq T
<1> DEFINE S == {n \in Nat : \A s \in Seq(X) : Len(s) = n => s \in T}
<1>1. 0 \in S
  <2>1. \A s \in Seq(X) : Len(s) = 0 => s = <<>>
    BY EmptySeq
  <2> QED BY <2>1
<1>2. ASSUME NEW n \in Nat, n \in S PROVE n + 1 \in S
  <2> SUFFICES ASSUME NEW s \in Seq(X), Len(s) = n + 1 PROVE s \in T
    OBVIOUS
  <2>1. s # <<>>
    BY EmptySeq
  <2>2. PICK r \in Seq(X), x \in X : s = Append(r, x)
    BY <2>1, SequenceEmptyOrAppend
  <2>3. Len(s) = Len(r) + 1 /\ Len(r) \in Nat
    BY <2>2, AppendProperties, LenProperties
  <2>4. Len(r) = n
    BY <2>3
  <2>5. r \in T
    BY <1>2, <2>4
  <2> QED BY <2>2, <2>5
<1>3. Nat \subseteq S
  <2> HIDE DEF S
  <2> QED BY <1>1, <1>2, Induction
<1>4. \A s \in Seq(X) : Len(s) \in Nat
  BY LenProperties
<1> QED BY <1>3, <1>4

-----------------------------------------------------------------------------
(* Order.  W gives the elements of a sequence that matter their numbers.     *)

Numbers(s, W) == {r \in Nat : \E i \in DOMAIN s : <<s[i], r>> \in W}
Of(x, W) == {r \in Nat : <<x, r>> \in W}
AllBelow(S, T) == \A x \in S, y \in T : x < y
Rises(s, W) ==
    \A i, j \in DOMAIN s : i < j => AllBelow(Of(s[i], W), Of(s[j], W))

LEMMA NoNumbers ==
    ASSUME NEW W
    PROVE  Numbers(<<>>, W) = {} /\ Rises(<<>>, W)
<1>1. DOMAIN <<>> = {}
  OBVIOUS
<1> QED BY <1>1 DEF Numbers, Rises

LEMMA AppendNumbers ==
    ASSUME NEW X, NEW s \in Seq(X), NEW x \in X, NEW W
    PROVE  /\ Numbers(Append(s, x), W) = Numbers(s, W) \cup Of(x, W)
           /\ Rises(Append(s, x), W) <=> Rises(s, W) /\ AllBelow(Numbers(s, W), Of(x, W))
<1> DEFINE n == Len(s)
           t == Append(s, x)
<1>1. /\ n \in Nat /\ DOMAIN s = 1..n /\ DOMAIN t = 1..(n + 1)
      /\ (\A i \in 1..n : t[i] = s[i]) /\ t[n + 1] = x
  BY AppendProperties, LenProperties
<1> HIDE DEF n, t
<1>2. \A i \in 1..(n + 1) : i \in 1..n \/ i = n + 1
  BY <1>1
<1>3. (\A i \in 1..n : i \in 1..(n + 1) /\ i < n + 1) /\ n + 1 \in 1..(n + 1)
  BY <1>1
<1>4. Numbers(t, W) = Numbers(s, W) \cup Of(x, W)
  <2>1. \A r : (\E i \in 1..(n + 1) : <<t[i], r>> \in W)
                 <=> (\E i \in 1..n : <<s[i], r>> \in W) \/ <<x, r>> \in W
    BY <1>1, <1>2, <1>3
  <2> QED BY <2>1, <1>1 DEF Numbers, Of
<1>5. ASSUME Rises(t, W) PROVE Rises(s, W) /\ AllBelow(Numbers(s, W), Of(x, W))
  <2>1. \A i, j \in 1..(n + 1) : i < j => AllBelow(Of(t[i], W), Of(t[j], W))
    BY <1>5, <1>1 DEF Rises
  <2>2. \A i, j \in 1..n : i < j => AllBelow(Of(s[i], W), Of(s[j], W))
    BY <2>1, <1>1, <1>3
  <2>3. \A i \in 1..n : AllBelow(Of(s[i], W), Of(x, W))
    BY <2>1, <1>1, <1>3
  <2>4. Rises(s, W)
    BY <2>2, <1>1 DEF Rises
  <2>5. AllBelow(Numbers(s, W), Of(x, W))
    BY <2>3, <1>1 DEF AllBelow, Numbers, Of
  <2> QED BY <2>4, <2>5
<1>6. ASSUME Rises(s, W), AllBelow(Numbers(s, W), Of(x, W)) PROVE Rises(t, W)
  <2>1. \A i, j \in 1..n : i < j => AllBelow(Of(s[i], W), Of(s[j], W))
    BY <1>6, <1>1 DEF Rises
  <2>2. \A i \in 1..n : AllBelow(Of(s[i], W), Of(x, W))
    BY <1>6, <1>1 DEF AllBelow, Numbers, Of
  <2> SUFFICES ASSUME NEW i \in 1..(n + 1), NEW j \in 1..(n + 1), i < j
               PROVE  AllBelow(Of(t[i], W), Of(t[j], W))
    BY <1>1 DEF Rises
  <2>3. i \in 1..n
    BY <1>1
  <2> QED BY <2>1, <2>2, <2>3, <1>1, <1>2
<1> QED BY <1>4, <1>5, <1>6 DEF t

LEMMA TailNumbers ==
    ASSUME NEW X, NEW s \in Seq(X), s # <<>>, NEW W
    PROVE  /\ Numbers(s, W) = Of(Head(s), W) \cup Numbers(Tail(s), W)
           /\ Rises(s, W) => Rises(Tail(s), W) /\ AllBelow(Of(Head(s), W), Numbers(Tail(s), W))
<1> DEFINE n == Len(s)
           t == Tail(s)
           x == Head(s)
<1>1. n \in Nat /\ n > 0 /\ DOMAIN s = 1..n
  BY LenProperties, EmptySeq
<1>2. DOMAIN t = 1..(n - 1) /\ \A i \in 1..(n - 1) : t[i] = s[i + 1]
  <2>1. t \in Seq(X) /\ Len(t) = Len(s) - 1 /\ \A i \in 1..Len(t) : t[i] = s[i + 1]
    BY HeadTailProperties
  <2> QED BY <2>1, LenProperties
<1>3. x = s[1]
  OBVIOUS
<1> HIDE DEF n, t, x
<1>4. \A i \in 1..(n - 1) : i + 1 \in 1..n /\ 1 < i + 1
  BY <1>1
<1>5. \A i \in 1..n : i = 1 \/ (i - 1 \in 1..(n - 1) /\ (i - 1) + 1 = i)
  BY <1>1
<1>6. 1 \in 1..n
  BY <1>1
<1>7. Numbers(s, W) = Of(x, W) \cup Numbers(t, W)
  <2>1. \A r : (\E i \in 1..n : <<s[i], r>> \in W)
                 <=> <<x, r>> \in W \/ \E i \in 1..(n - 1) : <<t[i], r>> \in W
    <3> TAKE r
    <3>1. ASSUME NEW i \in 1..n, <<s[i], r>> \in W
          PROVE  <<x, r>> \in W \/ \E k \in 1..(n - 1) : <<t[k], r>> \in W
      <4>1. CASE i = 1
        BY <4>1, <3>1, <1>3
      <4>2. CASE i # 1
        <5>1. i - 1 \in 1..(n - 1) /\ t[i - 1] = s[i]
          BY <4>2, <1>2, <1>5
        <5> QED BY <5>1, <3>1
      <4> QED BY <4>1, <4>2
    <3>2. ASSUME NEW i \in 1..(n - 1), <<t[i], r>> \in W
          PROVE  \E k \in 1..n : <<s[k], r>> \in W
      <4>1. t[i] = s[i + 1] /\ i + 1 \in 1..n
        BY <1>2, <1>4
      <4> QED BY <4>1, <3>2
    <3>3. <<x, r>> \in W => \E k \in 1..n : <<s[k], r>> \in W
      BY <1>3, <1>6
    <3> QED BY <3>1, <3>2, <3>3
  <2> QED BY <2>1, <1>1, <1>2 DEF Numbers, Of
<1>8. ASSUME Rises(s, W) PROVE Rises(t, W) /\ AllBelow(Of(x, W), Numbers(t, W))
  <2>1. \A i, j \in 1..n : i < j => AllBelow(Of(s[i], W), Of(s[j], W))
    BY <1>8, <1>1 DEF Rises
  <2>2. ASSUME NEW i \in 1..(n - 1), NEW j \in 1..(n - 1), i < j
        PROVE  AllBelow(Of(t[i], W), Of(t[j], W))
    <3>1. i + 1 \in 1..n /\ j + 1 \in 1..n /\ i + 1 < j + 1
      BY <1>4, <2>2, <1>1
    <3>2. t[i] = s[i + 1] /\ t[j] = s[j + 1]
      BY <1>2
    <3> QED BY <3>1, <3>2, <2>1
  <2>3. Rises(t, W)
    BY <2>2, <1>2 DEF Rises
  <2>4. \A i \in 1..(n - 1) : AllBelow(Of(x, W), Of(t[i], W))
    BY <2>1, <1>2, <1>3, <1>4, <1>6
  <2>5. AllBelow(Of(x, W), Numbers(t, W))
    BY <2>4, <1>2 DEF AllBelow, Numbers, Of
  <2> QED BY <2>3, <2>5
<1> QED BY <1>7, <1>8 DEF t, x

\* A sequence followed by another, and the end of one.
LEMMA ConcatNumbers ==
    ASSUME NEW X, NEW s \in Seq(X), NEW t \in Seq(X), NEW W
    PROVE  /\ Numbers(s \o t, W) = Numbers(s, W) \cup Numbers(t, W)
           /\ Rises(s, W) /\ Rises(t, W) /\ AllBelow(Numbers(s, W), Numbers(t, W))
                => Rises(s \o t, W)
<1> DEFINE T == {r \in Seq(X) :
                   /\ Numbers(s \o r, W) = Numbers(s, W) \cup Numbers(r, W)
                   /\ Rises(s, W) /\ Rises(r, W) /\ AllBelow(Numbers(s, W), Numbers(r, W))
                        => Rises(s \o r, W)}
<1>1. <<>> \in T
  <2>1. s \o <<>> = s /\ <<>> \in Seq(X)
    BY ConcatEmptySeq, EmptySeq
  <2> QED BY <2>1, NoNumbers
<1>2. ASSUME NEW r \in Seq(X), NEW x \in X, r \in T PROVE Append(r, x) \in T
  <2>1. s \o Append(r, x) = Append(s \o r, x) /\ s \o r \in Seq(X) /\ Append(r, x) \in Seq(X)
    <3>1. <<x>> \in Seq(X) /\ s \o r \in Seq(X) /\ Append(r, x) \in Seq(X)
      BY ConcatProperties, AppendProperties
    <3>2. Append(r, x) = r \o <<x>> /\ Append(s \o r, x) = (s \o r) \o <<x>>
      BY <3>1, AppendIsConcat
    <3>3. (s \o r) \o <<x>> = s \o (r \o <<x>>)
      BY <3>1, ConcatAssociative
    <3> QED BY <3>1, <3>2, <3>3
  <2>2. Numbers(Append(r, x), W) = Numbers(r, W) \cup Of(x, W)
    BY AppendNumbers
  <2>3. Rises(Append(r, x), W) <=> Rises(r, W) /\ AllBelow(Numbers(r, W), Of(x, W))
    BY AppendNumbers
  <2>4. Numbers(s \o r, W) = Numbers(s, W) \cup Numbers(r, W)
    BY <1>2
  <2>5. Rises(s, W) /\ Rises(r, W) /\ AllBelow(Numbers(s, W), Numbers(r, W)) => Rises(s \o r, W)
    BY <1>2
  <2> DEFINE u == s \o r
  <2>6. u \in Seq(X)
    BY <2>1
  <2> HIDE DEF u
  <2>7. /\ Numbers(Append(u, x), W) = Numbers(u, W) \cup Of(x, W)
        /\ Rises(Append(u, x), W) <=> Rises(u, W) /\ AllBelow(Numbers(u, W), Of(x, W))
    BY <2>6, AppendNumbers
  <2>8. Rises(s, W) /\ Rises(Append(r, x), W) /\ AllBelow(Numbers(s, W), Numbers(Append(r, x), W))
          => Rises(Append(u, x), W)
    BY <2>2, <2>3, <2>4, <2>5, <2>7 DEF AllBelow, u
  <2> QED BY <2>1, <2>2, <2>4, <2>7, <2>8 DEF u
<1>3. Seq(X) \subseteq T
  <2> HIDE DEF T
  <2> QED BY <1>1, <1>2, Unrolled
<1> QED BY <1>3

LEMMA SuffixNumbers ==
    ASSUME NEW X, NEW s \in Seq(X), NEW k \in 0..Len(s), NEW W
    PROVE  /\ SubSeq(s, k + 1, Len(s)) \in Seq(X)
           /\ Numbers(SubSeq(s, k + 1, Len(s)), W) \subseteq Numbers(s, W)
           /\ Rises(s, W) => Rises(SubSeq(s, k + 1, Len(s)), W)
<1> DEFINE n == Len(s)
           t == SubSeq(s, k + 1, n)
<1>1. n \in Nat /\ DOMAIN s = 1..n /\ k \in 0..n /\ \A i \in (k + 1)..n : s[i] \in X
  BY LenProperties, ElementOfSeq
<1>2. /\ t \in Seq(X) /\ Len(t) = IF k + 1 <= n THEN n - (k + 1) + 1 ELSE 0
      /\ \A i \in 1..(n - (k + 1) + 1) : t[i] = s[(k + 1) + i - 1]
  BY <1>1, SubSeqProperties
<1>3. DOMAIN t = 1..Len(t)
  BY <1>2, LenProperties
<1> HIDE DEF t, n
<1>4. Len(t) = n - k /\ DOMAIN t = 1..(n - k) /\ \A i \in 1..(n - k) : t[i] = s[k + i]
  <2>1. n - (k + 1) + 1 = n - k /\ \A i \in 1..(n - k) : (k + 1) + i - 1 = k + i
    BY <1>1
  <2>2. Len(t) = n - k
    BY <1>1, <1>2
  <2> QED BY <1>2, <1>3, <2>1, <2>2
<1>5. \A i \in 1..(n - k) : k + i \in 1..n
  BY <1>1
<1>6. Numbers(t, W) \subseteq Numbers(s, W)
  BY <1>1, <1>4, <1>5 DEF Numbers
<1>7. ASSUME Rises(s, W), NEW i \in 1..(n - k), NEW j \in 1..(n - k), i < j
      PROVE  AllBelow(Of(t[i], W), Of(t[j], W))
  <2>1. \A a, b \in 1..n : a < b => AllBelow(Of(s[a], W), Of(s[b], W))
    BY <1>7, <1>1 DEF Rises
  <2>2. k + i < k + j
    BY <1>1, <1>7
  <2> QED BY <2>1, <2>2, <1>4, <1>5
<1>8. Rises(s, W) => Rises(t, W)
  BY <1>7, <1>4 DEF Rises
<1> QED BY <1>2, <1>6, <1>8 DEF t, n

-----------------------------------------------------------------------------
(* Loops over a sequence.  What the step of each does with the i-th element. *)

Step(loop, state, x, i) ==
    CASE loop = "flatten" -> state \o x
      [] loop = "unescape" -> Unescaped(state, x)
      [] loop = "drain" -> Drained(state, x, Len(heard) - Len(buffer) + i)

LoopRuns(loop, f, first, a, n, s) ==
    f = [i \in a..n |-> IF i = a THEN first ELSE Step(loop, f[i - 1], s[i], i)]

LEMMA LoopEnds ==
    ASSUME NEW loop, NEW first, NEW a \in Nat, NEW s, NEW n \in Nat, a <= n
    PROVE  \E f : LoopRuns(loop, f, first, a, n, s)
<1> DEFINE S == {k \in Nat : \E f : LoopRuns(loop, f, first, a, a + k, s)}
<1>1. 0 \in S
  <2> DEFINE f == [i \in a..a |-> first]
  <2>1. f = [i \in a..(a + 0) |-> IF i = a THEN first ELSE Step(loop, f[i - 1], s[i], i)]
    OBVIOUS
  <2>2. LoopRuns(loop, f, first, a, a + 0, s)
    BY <2>1 DEF LoopRuns
  <2> QED BY <2>2
<1>2. ASSUME NEW k \in Nat, k \in S PROVE k + 1 \in S
  <2>1. PICK f : LoopRuns(loop, f, first, a, a + k, s)
    BY <1>2
  <2>2. f = [i \in a..(a + k) |-> IF i = a THEN first ELSE Step(loop, f[i - 1], s[i], i)]
    BY <2>1 DEF LoopRuns
  <2>3. \A i \in a..(a + k) : f[i] = IF i = a THEN first ELSE Step(loop, f[i - 1], s[i], i)
    BY <2>2
  <2> DEFINE g == [i \in a..(a + (k + 1)) |->
                     IF i = a + (k + 1) THEN Step(loop, f[a + k], s[i], i) ELSE f[i]]
  <2>4. \A i \in a..(a + k) : g[i] = f[i]
    OBVIOUS
  <2>5. ASSUME NEW i \in a..(a + (k + 1))
        PROVE  g[i] = IF i = a THEN first ELSE Step(loop, g[i - 1], s[i], i)
    <3>1. CASE i = a + (k + 1)
      <4>1. i - 1 = a + k /\ i # a /\ a + k \in a..(a + k)
        BY <3>1
      <4>2. g[i] = Step(loop, f[a + k], s[i], i) /\ g[a + k] = f[a + k]
        BY <3>1, <4>1, <2>4
      <4> QED BY <4>1, <4>2
    <3>2. CASE i = a /\ i # a + (k + 1)
      <4>1. i \in a..(a + k)
        BY <3>2
      <4> QED BY <3>2, <4>1, <2>3, <2>4
    <3>3. CASE i # a /\ i # a + (k + 1)
      <4>1. i \in a..(a + k) /\ i - 1 \in a..(a + k)
        BY <3>3
      <4>2. g[i] = f[i] /\ g[i - 1] = f[i - 1]
        BY <4>1, <2>4
      <4>3. f[i] = Step(loop, f[i - 1], s[i], i)
        BY <4>1, <3>3, <2>3
      <4> QED BY <3>3, <4>2, <4>3
    <3> QED BY <3>1, <3>2, <3>3
  <2>6. g = [i \in a..(a + (k + 1)) |-> g[i]]
    OBVIOUS
  <2>7. LoopRuns(loop, g, first, a, a + (k + 1), s)
    <3> HIDE DEF g
    <3> QED BY <2>5, <2>6 DEF LoopRuns
  <2> QED BY <2>7
<1>3. Nat \subseteq S
  <2> HIDE DEF S
  <2> QED BY <1>1, <1>2, Induction
<1>4. n - a \in Nat /\ a + (n - a) = n
  OBVIOUS
<1> QED BY <1>3, <1>4

\* Two runs over the same elements do the same.
LEMMA LoopsAgree ==
    ASSUME NEW loop, NEW first, NEW a \in Nat, NEW s, NEW t, NEW n \in Nat, NEW m \in Nat,
           NEW f, NEW g, LoopRuns(loop, f, first, a, n, s), LoopRuns(loop, g, first, a, m, t),
           n <= m, \A i \in (a + 1)..n : s[i] = t[i]
    PROVE  \A i \in a..n : f[i] = g[i]
<1>1. \A i \in a..n : f[i] = IF i = a THEN first ELSE Step(loop, f[i - 1], s[i], i)
  <2>1. f = [i \in a..n |-> IF i = a THEN first ELSE Step(loop, f[i - 1], s[i], i)]
    BY DEF LoopRuns
  <2> QED BY <2>1
<1>2. \A i \in a..m : g[i] = IF i = a THEN first ELSE Step(loop, g[i - 1], t[i], i)
  <2>1. g = [i \in a..m |-> IF i = a THEN first ELSE Step(loop, g[i - 1], t[i], i)]
    BY DEF LoopRuns
  <2> QED BY <2>1
<1> DEFINE S == {k \in Nat : a + k <= n => f[a + k] = g[a + k]}
<1>3. 0 \in S
  <2>1. a <= n => a \in a..n /\ a \in a..m
    OBVIOUS
  <2> QED BY <2>1, <1>1, <1>2
<1>4. ASSUME NEW k \in Nat, k \in S PROVE k + 1 \in S
  <2> SUFFICES ASSUME a + (k + 1) <= n PROVE f[a + (k + 1)] = g[a + (k + 1)]
    OBVIOUS
  <2> DEFINE i == a + (k + 1)
  <2>1. i \in a..n /\ i \in a..m /\ i # a /\ i \in (a + 1)..n /\ i - 1 = a + k /\ a + k <= n
    OBVIOUS
  <2>2. f[a + k] = g[a + k]
    BY <1>4, <2>1
  <2> HIDE DEF i
  <2>3. f[i] = Step(loop, f[i - 1], s[i], i) /\ g[i] = Step(loop, g[i - 1], t[i], i)
    BY <2>1, <1>1, <1>2
  <2>4. s[i] = t[i] /\ f[i - 1] = g[i - 1]
    BY <2>1, <2>2
  <2> QED BY <2>3, <2>4 DEF i
<1>5. Nat \subseteq S
  <2> HIDE DEF S
  <2> QED BY <1>3, <1>4, Induction
<1>6. \A i \in a..n : i - a \in Nat /\ a + (i - a) = i /\ i <= n
  OBVIOUS
<1> QED BY <1>5, <1>6

\* One more element: what the loop did before, and a step.
LEMMA LoopGoesOn ==
    ASSUME NEW loop, NEW first, NEW a \in Nat, NEW s, NEW t, NEW n \in Nat, a <= n,
           NEW f, NEW g, LoopRuns(loop, f, first, a, n, s), LoopRuns(loop, g, first, a, n + 1, t),
           \A i \in 1..n : s[i] = t[i]
    PROVE  g[n + 1] = Step(loop, f[n], t[n + 1], n + 1)
<1>1. \A i \in (a + 1)..n : i \in 1..n
  OBVIOUS
<1>2. \A i \in a..n : f[i] = g[i]
  <2> DEFINE m == n + 1
  <2>1. m \in Nat /\ n <= m /\ LoopRuns(loop, g, first, a, m, t)
    OBVIOUS
  <2> HIDE DEF m
  <2> QED BY <1>1, <2>1, LoopsAgree
<1>3. g = [i \in a..(n + 1) |-> IF i = a THEN first ELSE Step(loop, g[i - 1], t[i], i)]
  BY DEF LoopRuns
<1>4. n + 1 \in a..(n + 1) /\ n + 1 # a /\ (n + 1) - 1 = n /\ n \in a..n
  OBVIOUS
<1>5. g[n + 1] = Step(loop, g[(n + 1) - 1], t[n + 1], n + 1)
  BY <1>3, <1>4
<1> QED BY <1>2, <1>4, <1>5

Opening == [body |-> <<>>, esc |-> FALSE, ok |-> TRUE]

LEMMA UnescapeStep ==
    /\ Unescape(<<>>) = Opening
    /\ \A X : \A s \in Seq(X), x \in X : Unescape(Append(s, x)) = Unescaped(Unescape(s), x)
<1> DEFINE Is(f, s) ==
             f = [i \in 0..Len(s) |-> IF i = 0 THEN Opening ELSE Unescaped(f[i - 1], s[i])]
           After(s) == CHOOSE f : Is(f, s)
<1>1. \A s : Unescape(s) = After(s)[Len(s)]
  BY DEF Unescape, Opening
<1>2. \A f, s : Is(f, s) <=> LoopRuns("unescape", f, Opening, 0, Len(s), s)
  BY DEF LoopRuns, Step
<1>3. ASSUME NEW X, NEW s \in Seq(X) PROVE LoopRuns("unescape", After(s), Opening, 0, Len(s), s)
  <2>1. Len(s) \in Nat
    BY LenProperties
  <2> DEFINE n == Len(s)
  <2>2. \E f : LoopRuns("unescape", f, Opening, 0, n, s)
    <3>1. n \in Nat /\ 0 <= n
      BY <2>1
    <3> HIDE DEF n
    <3> QED BY <3>1, LoopEnds
  <2>3. \E f : Is(f, s)
    BY <1>2, <2>2
  <2> HIDE DEF Is
  <2> QED BY <1>2, <2>3
<1> HIDE DEF After, Is
<1>4. Unescape(<<>>) = Opening
  <2>1. <<>> \in Seq({}) /\ Len(<<>>) = 0
    BY EmptySeq
  <2>2. LoopRuns("unescape", After(<<>>), Opening, 0, 0, <<>>)
    BY <1>3, <2>1
  <2>3. After(<<>>)[0] = Opening
    BY <2>2 DEF LoopRuns
  <2> QED BY <1>1, <2>1, <2>3
<1>5. ASSUME NEW X, NEW s \in Seq(X), NEW x \in X
      PROVE  Unescape(Append(s, x)) = Unescaped(Unescape(s), x)
  <2> DEFINE n == Len(s)
             t == Append(s, x)
  <2>1. /\ n \in Nat /\ Len(t) = n + 1 /\ t[n + 1] = x /\ t \in Seq(X)
        /\ \A i \in 1..n : s[i] = t[i]
    BY AppendProperties, LenProperties
  <2>2. LoopRuns("unescape", After(s), Opening, 0, n, s)
    BY <1>3
  <2> HIDE DEF n, t
  <2>3. LoopRuns("unescape", After(t), Opening, 0, n + 1, t)
    BY <1>3, <2>1
  <2>4. After(t)[n + 1] = Step("unescape", After(s)[n], t[n + 1], n + 1)
    BY <2>1, <2>2, <2>3, LoopGoesOn
  <2>5. Unescape(t) = After(t)[n + 1] /\ Unescape(s) = After(s)[n]
    BY <1>1, <2>1 DEF n
  <2> QED BY <2>1, <2>4, <2>5 DEF Step, t
<1> QED BY <1>4, <1>5

LEMMA DrainStep ==
    /\ Drain(<<>>) = [rest |-> <<>>, queue |-> queue, found |-> <<>>]
    /\ \A X : \A s \in Seq(X), x \in X :
         Drain(Append(s, x)) = Drained(Drain(s), x, Len(heard) - Len(buffer) + (Len(s) + 1))
<1> DEFINE first == [rest |-> <<>>, queue |-> queue, found |-> <<>>]
           Is(f, s) ==
             f = [i \in 0..Len(s) |->
                    IF i = 0 THEN first
                    ELSE Drained(f[i - 1], s[i], Len(heard) - Len(buffer) + i)]
           After(s) == CHOOSE f : Is(f, s)
<1>1. \A s : Drain(s) = After(s)[Len(s)]
  BY DEF Drain
<1> HIDE DEF first
<1>2. \A f, s : Is(f, s) <=> LoopRuns("drain", f, first, 0, Len(s), s)
  BY DEF LoopRuns, Step
<1>3. ASSUME NEW X, NEW s \in Seq(X) PROVE LoopRuns("drain", After(s), first, 0, Len(s), s)
  <2>1. Len(s) \in Nat
    BY LenProperties
  <2> DEFINE n == Len(s)
  <2>2. \E f : LoopRuns("drain", f, first, 0, n, s)
    <3>1. n \in Nat /\ 0 <= n
      BY <2>1
    <3> HIDE DEF n
    <3> QED BY <3>1, LoopEnds
  <2>3. \E f : Is(f, s)
    BY <1>2, <2>2
  <2> HIDE DEF Is
  <2> QED BY <1>2, <2>3
<1> HIDE DEF After, Is
<1>4. Drain(<<>>) = first
  <2>1. <<>> \in Seq({}) /\ Len(<<>>) = 0
    BY EmptySeq
  <2>2. LoopRuns("drain", After(<<>>), first, 0, 0, <<>>)
    BY <1>3, <2>1
  <2>3. After(<<>>)[0] = first
    BY <2>2 DEF LoopRuns
  <2> QED BY <1>1, <2>1, <2>3
<1>5. ASSUME NEW X, NEW s \in Seq(X), NEW x \in X
      PROVE  Drain(Append(s, x)) = Drained(Drain(s), x, Len(heard) - Len(buffer) + (Len(s) + 1))
  <2> DEFINE n == Len(s)
             t == Append(s, x)
  <2>1. /\ n \in Nat /\ Len(t) = n + 1 /\ t[n + 1] = x /\ t \in Seq(X)
        /\ \A i \in 1..n : s[i] = t[i]
    BY AppendProperties, LenProperties
  <2>2. LoopRuns("drain", After(s), first, 0, n, s)
    BY <1>3
  <2>3. Drain(s) = After(s)[n]
    BY <1>1
  <2> HIDE DEF n, t
  <2>4. LoopRuns("drain", After(t), first, 0, n + 1, t)
    BY <1>3, <2>1
  <2>5. After(t)[n + 1] = Step("drain", After(s)[n], t[n + 1], n + 1)
    BY <2>1, <2>2, <2>4, LoopGoesOn
  <2>6. Drain(t) = After(t)[n + 1]
    BY <1>1, <2>1
  <2>7. Drain(t) = Drained(Drain(s), x, Len(heard) - Len(buffer) + (n + 1))
    BY <2>1, <2>3, <2>5, <2>6 DEF Step
  <2> QED BY <2>7 DEF n, t
<1> QED BY <1>4, <1>5 DEF first

LEMMA FlattenStep ==
    /\ FlattenSeq(<<>>) = <<>>
    /\ \A X : \A s \in Seq(Seq(X)), x \in Seq(X) : FlattenSeq(Append(s, x)) = FlattenSeq(s) \o x
<1> DEFINE Is(f, s) == f = [i \in 1..Len(s) |-> IF i = 1 THEN s[i] ELSE f[i - 1] \o s[i]]
           After(s) == CHOOSE f : Is(f, s)
<1>1. \A s : FlattenSeq(s) = IF Len(s) = 0 THEN s ELSE After(s)[Len(s)]
  BY DEF FlattenSeq
<1>2. \A f, s : Is(f, s) <=> LoopRuns("flatten", f, s[1], 1, Len(s), s)
  BY DEF LoopRuns, Step
<1>3. ASSUME NEW X, NEW s \in Seq(X), s # <<>>
      PROVE  LoopRuns("flatten", After(s), s[1], 1, Len(s), s)
  <2>1. Len(s) \in Nat /\ 1 <= Len(s)
    BY <1>3, LenProperties, EmptySeq
  <2> DEFINE n == Len(s)
  <2>2. \E f : LoopRuns("flatten", f, s[1], 1, n, s)
    <3>1. n \in Nat /\ 1 <= n
      BY <2>1
    <3> HIDE DEF n
    <3> QED BY <3>1, LoopEnds
  <2>3. \E f : Is(f, s)
    <3>1. PICK f : LoopRuns("flatten", f, s[1], 1, n, s)
      BY <2>2
    <3> HIDE DEF Is
    <3>2. Is(f, s)
      BY <1>2, <3>1
    <3> QED BY <3>2
  <2> HIDE DEF Is
  <2> QED BY <1>2, <2>3
<1> HIDE DEF After, Is
<1>4. FlattenSeq(<<>>) = <<>>
  BY <1>1, EmptySeq
<1>5. ASSUME NEW X, NEW s \in Seq(Seq(X)), NEW x \in Seq(X)
      PROVE  FlattenSeq(Append(s, x)) = FlattenSeq(s) \o x
  <2> DEFINE n == Len(s)
             t == Append(s, x)
             Y == Seq(X)
  <2>1. /\ n \in Nat /\ Len(t) = n + 1 /\ t[n + 1] = x /\ t \in Seq(Y) /\ t # <<>>
        /\ \A i \in 1..n : s[i] = t[i]
    BY AppendProperties, LenProperties
  <2>2. n = 0 <=> s = <<>>
    BY EmptySeq
  <2>3. FlattenSeq(s) = IF n = 0 THEN s ELSE After(s)[n]
    BY <1>1
  <2>4. s # <<>> => LoopRuns("flatten", After(s), s[1], 1, n, s)
    BY <1>3
  <2> HIDE DEF n, t
  <2>5. LoopRuns("flatten", After(t), t[1], 1, n + 1, t)
    <3> HIDE DEF Y
    <3> QED BY <1>3, <2>1
  <2>6. FlattenSeq(t) = After(t)[n + 1]
    BY <1>1, <2>1
  <2>7. CASE n = 0
    <3>1. After(t) = [i \in 1..(n + 1) |->
                        IF i = 1 THEN t[1] ELSE Step("flatten", After(t)[i - 1], t[i], i)]
      BY <2>5 DEF LoopRuns
    <3>2. n + 1 \in 1..(n + 1) /\ n + 1 = 1
      BY <2>7
    <3>3. After(t)[n + 1] = t[1]
      BY <3>1, <3>2
    <3>4. FlattenSeq(s) = <<>> /\ <<>> \o x = x
      BY <2>2, <2>3, <2>7, ConcatEmptySeq
    <3> QED BY <2>1, <2>6, <3>2, <3>3, <3>4 DEF t
  <2>8. CASE n # 0
    <3>1. 1 <= n /\ s[1] = t[1]
      BY <2>1, <2>8
    <3>2. LoopRuns("flatten", After(s), t[1], 1, n, s)
      BY <2>2, <2>4, <2>8, <3>1
    <3>3. After(t)[n + 1] = Step("flatten", After(s)[n], t[n + 1], n + 1)
      BY <2>1, <2>5, <3>1, <3>2, LoopGoesOn
    <3> QED BY <2>1, <2>3, <2>6, <2>8, <3>3 DEF Step, t
  <2> QED BY <2>7, <2>8
<1> QED BY <1>4, <1>5

-----------------------------------------------------------------------------
(* Frames.  The body that a peer sends for its n-th message, and the order   *)
(* of the messages of a peer, told by their payloads and by their CRCs.      *)

SentBody(p, n, t) == <<Header(PayloadOf(p, n), t)>> \o PayloadOf(p, n)
Codes == {DEL, ESC, DelCode, EscCode}
Plain == {b \in Bytes : b[1] # "crc"}
CrcsOf(p) == {<<Crc(SentBody(p, m[1], m[2])), m[1]>> : m \in (1..MaxSent) \X Tunings}
PayloadsOf(p) == {<<PayloadOf(p, n), n>> : n \in 1..MaxSent}

LEMMA CodeFacts ==
    /\ Codes \subseteq Plain /\ Plain \subseteq Bytes
    /\ DEL # ESC /\ DelCode # DEL /\ DelCode # ESC /\ EscCode # DEL /\ EscCode # ESC
    /\ DelCode # EscCode
<1>1. DEL # ESC /\ DelCode # DEL /\ DelCode # ESC /\ EscCode # DEL /\ EscCode # ESC
  BY DEF DEL, ESC, DelCode, EscCode
<1>2. DelCode # EscCode
  BY DEF DelCode, EscCode
<1>3. Codes \subseteq Bytes
  BY DEF Codes, Bytes
<1>4. \A b \in Codes : b[1] # "crc"
  BY DEF Codes, DEL, ESC, DelCode, EscCode
<1> QED BY <1>1, <1>2, <1>3, <1>4 DEF Plain

LEMMA EscapedFacts ==
    ASSUME NEW X, Codes \subseteq X, NEW b \in X
    PROVE  /\ EscapedByte(b) \in Seq(X)
           /\ Len(EscapedByte(b)) = IF b \in {DEL, ESC} THEN 2 ELSE 1
<1>1. ESC \in X /\ DelCode \in X /\ EscCode \in X
  BY DEF Codes
<1>2. CASE b = DEL
  <2>1. EscapedByte(b) = <<ESC, DelCode>>
    BY <1>2, CodeFacts DEF EscapedByte
  <2> QED BY <1>1, <1>2, <2>1
<1>3. CASE b = ESC /\ b # DEL
  <2>1. EscapedByte(b) = <<ESC, EscCode>>
    BY <1>3 DEF EscapedByte
  <2> QED BY <1>1, <1>3, <2>1
<1>4. CASE b # ESC /\ b # DEL
  <2>1. EscapedByte(b) = <<b>>
    BY <1>4 DEF EscapedByte
  <2> QED BY <1>4, <2>1
<1> QED BY <1>2, <1>3, <1>4

LEMMA EscapeStep ==
    /\ Escape(<<>>) = <<>>
    /\ \A X : \A s \in Seq(X), b \in X :
         Codes \subseteq X => Escape(Append(s, b)) = Escape(s) \o EscapedByte(b)
<1> DEFINE Each(s) == [i \in DOMAIN s |-> EscapedByte(s[i])]
<1>1. \A s : Escape(s) = FlattenSeq(Each(s))
  BY DEF Escape
<1>2. Escape(<<>>) = <<>>
  <2>1. Each(<<>>) = <<>>
    OBVIOUS
  <2> QED BY <1>1, <2>1, FlattenStep
<1>3. ASSUME NEW X, Codes \subseteq X, NEW s \in Seq(X) PROVE Each(s) \in Seq(Seq(X)) /\ Len(Each(s)) = Len(s)
  <2>1. Len(s) \in Nat /\ DOMAIN s = 1..Len(s) /\ \A i \in 1..Len(s) : s[i] \in X
    BY LenProperties, ElementOfSeq
  <2>2. \A i \in 1..Len(s) : EscapedByte(s[i]) \in Seq(X)
    BY <1>3, <2>1, EscapedFacts
  <2> DEFINE Y == Seq(X)
  <2>3. Each(s) \in [1..Len(s) -> Y]
    BY <2>1, <2>2
  <2> HIDE DEF Y, Each
  <2>4. Each(s) \in Seq(Y) /\ Len(Each(s)) = Len(s)
    BY <2>1, <2>3
  <2> QED BY <2>4 DEF Y
<1>4. ASSUME NEW X, NEW s \in Seq(X), NEW b \in X, Codes \subseteq X
      PROVE  Escape(Append(s, b)) = Escape(s) \o EscapedByte(b)
  <2> DEFINE Y == Seq(X)
             n == Len(s)
             t == Append(s, b)
             x == EscapedByte(b)
             e == Each(s)
             f == Each(t)
  <2>1. /\ n \in Nat /\ t \in Seq(X) /\ Len(t) = n + 1 /\ DOMAIN s = 1..n /\ DOMAIN t = 1..(n + 1)
        /\ (\A i \in 1..n : t[i] = s[i]) /\ t[n + 1] = b
    BY AppendProperties, LenProperties
  <2>2. e \in Seq(Y) /\ Len(e) = n /\ f \in Seq(Y)
    BY <1>3, <1>4, <2>1
  <2>3. Len(f) = n + 1
    BY <1>3, <1>4, <2>1
  <2>4. x \in Y
    BY <1>4, EscapedFacts
  <2>5. (\A i \in 1..n : e[i] = EscapedByte(s[i])) /\ \A i \in 1..(n + 1) : f[i] = EscapedByte(t[i])
    BY <2>1
  <2>6. FlattenSeq(Append(e, x)) = FlattenSeq(e) \o x
    BY <2>2, <2>4, FlattenStep
  <2> HIDE DEF Y, n, t, x, e, f
  <2>7. Append(e, x) \in Seq(Y) /\ Len(Append(e, x)) = n + 1 /\ Append(e, x)[n + 1] = x
        /\ \A i \in 1..n : Append(e, x)[i] = e[i]
    BY <2>2, <2>4, AppendProperties
  <2>8. f = Append(e, x)
    <3>1. \A i \in 1..(n + 1) : i \in 1..n \/ i = n + 1
      BY <2>1
    <3>2. f[n + 1] = x
      <4>1. n + 1 \in 1..(n + 1)
        BY <2>1
      <4> QED BY <4>1, <2>1, <2>5 DEF x
    <3>3. \A i \in 1..n : f[i] = e[i]
      <4>1. \A i \in 1..n : i \in 1..(n + 1)
        BY <2>1
      <4> QED BY <4>1, <2>1, <2>5
    <3>4. \A i \in 1..Len(f) : f[i] = Append(e, x)[i]
      BY <2>3, <2>7, <3>1, <3>2, <3>3
    <3> QED BY <2>2, <2>3, <2>7, <3>4, SeqEqual
  <2> QED BY <1>1, <2>6, <2>8 DEF e, f, t, x
<1> QED BY <1>2, <1>4

\* What is escaped keeps its bytes and their order.
LEMMA EscapeFacts ==
    ASSUME NEW X, Codes \subseteq X, NEW s \in Seq(X), NEW W, \A b \in Codes : Of(b, W) = {}
    PROVE  /\ Escape(s) \in Seq(X)
           /\ Numbers(Escape(s), W) = Numbers(s, W)
           /\ Rises(s, W) => Rises(Escape(s), W)
<1>1. \A b \in X : EscapedByte(b) \in Seq(X)
  BY EscapedFacts
<1>2. ASSUME NEW b \in X
      PROVE  Numbers(EscapedByte(b), W) = Of(b, W) /\ Rises(EscapedByte(b), W)
  <2>1. \A c : /\ Numbers(<<c>>, W) = Of(c, W) /\ Rises(<<c>>, W)
    <3> TAKE c
    <3>1. DOMAIN <<c>> = {1} /\ <<c>>[1] = c
      OBVIOUS
    <3>2. Numbers(<<c>>, W) = Of(c, W)
      BY <3>1 DEF Numbers, Of
    <3>3. Rises(<<c>>, W)
      BY <3>1 DEF Rises
    <3> QED BY <3>2, <3>3
  <2>2. \A c, d : Of(c, W) = {} /\ Of(d, W) = {} =>
                    Numbers(<<c, d>>, W) = {} /\ Rises(<<c, d>>, W)
    <3> SUFFICES ASSUME NEW c, NEW d, Of(c, W) = {}, Of(d, W) = {}
                 PROVE  Numbers(<<c, d>>, W) = {} /\ Rises(<<c, d>>, W)
      OBVIOUS
    <3>1. DOMAIN <<c, d>> = {1, 2} /\ <<c, d>>[1] = c /\ <<c, d>>[2] = d
      OBVIOUS
    <3>2. \A i \in DOMAIN <<c, d>> : Of(<<c, d>>[i], W) = {}
      BY <3>1
    <3> DEFINE u == <<c, d>>
    <3> HIDE DEF u
    <3>3. \A i \in DOMAIN u : Of(u[i], W) = {}
      BY <3>2 DEF u
    <3>4. Numbers(u, W) = {}
      BY <3>3 DEF Numbers, Of
    <3>5. Rises(u, W)
      BY <3>3 DEF Rises, AllBelow
    <3> QED BY <3>4, <3>5 DEF u
  <2>3. Of(DEL, W) = {} /\ Of(ESC, W) = {} /\ Of(DelCode, W) = {} /\ Of(EscCode, W) = {}
    BY DEF Codes
  <2>4. CASE b = DEL
    <3>1. EscapedByte(b) = <<ESC, DelCode>>
      BY <2>4, CodeFacts DEF EscapedByte
    <3> QED BY <2>2, <2>3, <2>4, <3>1
  <2>5. CASE b = ESC /\ b # DEL
    <3>1. EscapedByte(b) = <<ESC, EscCode>>
      BY <2>5 DEF EscapedByte
    <3> QED BY <2>2, <2>3, <2>5, <3>1
  <2>6. CASE b # ESC /\ b # DEL
    <3>1. EscapedByte(b) = <<b>>
      BY <2>6 DEF EscapedByte
    <3> QED BY <2>1, <3>1
  <2> QED BY <2>4, <2>5, <2>6
<1> DEFINE T == {r \in Seq(X) : /\ Escape(r) \in Seq(X)
                                /\ Numbers(Escape(r), W) = Numbers(r, W)
                                /\ Rises(r, W) => Rises(Escape(r), W)}
<1>3. <<>> \in T
  <2>1. <<>> \in Seq(X)
    BY EmptySeq
  <2> QED BY <2>1, EscapeStep
<1>4. ASSUME NEW r \in Seq(X), NEW b \in X, r \in T PROVE Append(r, b) \in T
  <2> DEFINE e == Escape(r)
             x == EscapedByte(b)
             t == Append(r, b)
  <2>1. Escape(t) = e \o x
    BY EscapeStep
  <2>2. t \in Seq(X)
    BY AppendProperties
  <2>3. e \in Seq(X) /\ Numbers(e, W) = Numbers(r, W) /\ (Rises(r, W) => Rises(e, W))
    BY <1>4
  <2>4. Numbers(t, W) = Numbers(r, W) \cup Of(b, W)
        /\ (Rises(t, W) <=> Rises(r, W) /\ AllBelow(Numbers(r, W), Of(b, W)))
    BY AppendNumbers
  <2>5. x \in Seq(X) /\ Numbers(x, W) = Of(b, W) /\ Rises(x, W)
    BY <1>1, <1>2
  <2> HIDE DEF e, x, t
  <2>6. /\ Numbers(e \o x, W) = Numbers(e, W) \cup Numbers(x, W)
        /\ Rises(e, W) /\ Rises(x, W) /\ AllBelow(Numbers(e, W), Numbers(x, W)) => Rises(e \o x, W)
    BY <2>3, <2>5, ConcatNumbers
  <2>7. e \o x \in Seq(X)
    BY <2>3, <2>5, ConcatProperties
  <2>8. t \in T
    BY <2>1, <2>2, <2>3, <2>4, <2>5, <2>6, <2>7
  <2> QED BY <2>8 DEF t
<1>5. Seq(X) \subseteq T
  <2> HIDE DEF T
  <2> QED BY <1>3, <1>4, Unrolled
<1> QED BY <1>5

LEMMA BytesFacts ==
    /\ \A b \in SentBodies : b[1] \in Bytes /\ Crc(b) \in Bytes
    /\ \A p \in Peers : ToSet(Ending[p]) \subseteq Bytes
    /\ \A b \in Bytes : \/ b \in Codes
                        \/ \E m \in MessageNames : b = Name(m[1], m[2])
                        \/ \E c \in SentBodies : b = c[1] \/ b = Crc(c)
                        \/ \E p \in Peers : b \in ToSet(Ending[p])
<1> DEFINE Names == {Name(m[1], m[2]) : m \in MessageNames}
           Heads == {b[1] : b \in SentBodies}
           Crcs == {Crc(b) : b \in SentBodies}
           Sets == {ToSet(Ending[p]) : p \in Peers}
           Endings == UNION Sets
<1>1. Bytes = Codes \cup Names \cup Heads \cup Crcs \cup Endings
  BY DEF Bytes, Codes
<1>2. \A p \in Peers : ToSet(Ending[p]) \subseteq Endings
  OBVIOUS
<1>3. \A b \in Endings : \E p \in Peers : b \in ToSet(Ending[p])
  OBVIOUS
<1>4. (\A b \in SentBodies : b[1] \in Heads /\ Crc(b) \in Crcs)
  OBVIOUS
<1>5. /\ \A b \in Names : \E m \in MessageNames : b = Name(m[1], m[2])
      /\ \A b \in Heads \cup Crcs : \E c \in SentBodies : b = c[1] \/ b = Crc(c)
  OBVIOUS
<1> HIDE DEF Names, Heads, Crcs, Endings
<1>6. \A b \in SentBodies : b[1] \in Bytes /\ Crc(b) \in Bytes
  BY <1>1, <1>4
<1>7. \A p \in Peers : ToSet(Ending[p]) \subseteq Bytes
  BY <1>1, <1>2
<1>8. \A b \in Bytes : \/ b \in Codes
                       \/ \E m \in MessageNames : b = Name(m[1], m[2])
                       \/ \E c \in SentBodies : b = c[1] \/ b = Crc(c)
                       \/ \E p \in Peers : b \in ToSet(Ending[p])
  <2> TAKE b \in Bytes
  <2> QED BY <1>1, <1>3, <1>5
<1> QED
  <2> HIDE DEF Sets
  <2> QED BY <1>6, <1>7, <1>8

LEMMA PayloadFacts ==
    ASSUME NEW p \in Peers, NEW n \in 1..MaxSent
    PROVE  /\ PayloadOf(p, n) \in Seq(Plain) /\ PayloadOf(p, n) \in Payloads
           /\ Len(PayloadOf(p, n)) > 0 /\ PayloadOf(p, n)[1] = Name(p, n)
           /\ Named(PayloadOf(p, n)) = <<p, n>>
<1>1. <<p, n>> \in MessageNames
  BY DEF MessageNames
<1>2. Name(p, n) \in Plain
  <2>1. Name(p, n) \in Bytes
    BY <1>1 DEF Bytes
  <2>2. Name(p, n)[1] # "crc"
    BY DEF Name
  <2> QED BY <2>1, <2>2 DEF Plain
<1>3. Ending[p] \in Seq(Plain)
  <2>1. Ending[p] \in Seq(ToSet(Ending[p])) /\ \A b \in ToSet(Ending[p]) : b[1] # "crc"
    BY FrameAssumption
  <2>2. ToSet(Ending[p]) \subseteq Bytes
    BY BytesFacts
  <2>3. ToSet(Ending[p]) \subseteq Plain
    BY <2>1, <2>2 DEF Plain
  <2> QED BY <2>1, <2>3, SeqMonotonic
<1> DEFINE x == Name(p, n)
           e == Ending[p]
<1>4. PayloadOf(p, n) = <<x>> \o e
  BY DEF PayloadOf
<1>5. PayloadOf(p, n) \in Payloads
  BY <1>1 DEF Payloads
<1>6. x = <<"name", p, n>>
  BY DEF Name
<1> HIDE DEF x, e
<1>7. <<x>> \in Seq(Plain) /\ Len(<<x>>) = 1 /\ <<x>>[1] = x
  BY <1>2 DEF x
<1>8. /\ <<x>> \o e \in Seq(Plain) /\ Len(<<x>> \o e) = 1 + Len(e) /\ Len(e) \in Nat
      /\ (<<x>> \o e)[1] = x
  BY <1>3, <1>7, ConcatProperties, LenProperties DEF e
<1>9. Named(PayloadOf(p, n)) = <<p, n>>
  BY <1>4, <1>6, <1>8 DEF Named
<1> QED BY <1>4, <1>5, <1>8, <1>9 DEF x

LEMMA SentBodyFacts ==
    ASSUME NEW p \in Peers, NEW n \in 1..MaxSent, NEW t \in Tunings
    PROVE  /\ SentBody(p, n, t) \in Seq(Plain) /\ SentBody(p, n, t) \in SentBodies
           /\ Len(SentBody(p, n, t)) = Len(PayloadOf(p, n)) + 1
           /\ SentBody(p, n, t)[2] = Name(p, n)
           /\ SubSeq(SentBody(p, n, t), 2, Len(SentBody(p, n, t))) = PayloadOf(p, n)
           /\ Crc(SentBody(p, n, t)) \in Bytes
<1> DEFINE y == PayloadOf(p, n)
           h == Header(y, t)
           b == <<h>> \o y
           k == Crc(b)
<1>1. SentBody(p, n, t) = b
  BY DEF SentBody
<1>2. y \in Seq(Plain) /\ y \in Payloads /\ Len(y) > 0 /\ y[1] = Name(p, n)
  BY PayloadFacts
<1>3. b \in SentBodies
  BY <1>2 DEF SentBodies
<1>4. b[1] \in Bytes /\ Crc(b) \in Bytes
  BY <1>3, BytesFacts
<1>5. h[1] # "crc"
  BY DEF Header
<1> HIDE DEF y, h
<1>6. <<h>> \in Seq({h} \cup Plain) /\ y \in Seq({h} \cup Plain) /\ Len(<<h>>) = 1 /\ <<h>>[1] = h
  BY <1>2, SeqMonotonic
<1>7. Len(y) \in Nat
  BY <1>2, LenProperties
<1>8. /\ b \in Seq({h} \cup Plain) /\ Len(b) = 1 + Len(y)
      /\ \A i \in 1..(1 + Len(y)) : b[i] = IF i <= 1 THEN h ELSE y[i - 1]
  BY <1>6, ConcatProperties
<1>9. b[1] = h
  BY <1>7, <1>8
<1>10. h \in Plain
  BY <1>4, <1>5, <1>9 DEF Plain
<1> HIDE DEF b
<1>11. b \in Seq(Plain)
  <2>1. {h} \cup Plain = Plain
    BY <1>10
  <2> QED BY <1>8, <2>1
<1>12. b[2] = Name(p, n)
  <2>1. 2 \in 1..(1 + Len(y)) /\ ~(2 <= 1) /\ 2 - 1 = 1
    BY <1>2, <1>7
  <2>2. b[2] = y[2 - 1]
    BY <1>8, <2>1
  <2> QED BY <1>2, <2>1, <2>2
<1>13. SubSeq(b, 2, Len(b)) = y
  <2> DEFINE m == Len(y)
             u == SubSeq(b, 2, m + 1)
  <2>1. m \in Nat /\ m + 1 \in Int /\ \A i \in 2..(m + 1) : b[i] \in Plain
    BY <1>7, <1>8, <1>11, ElementOfSeq
  <2>2. /\ u \in Seq(Plain) /\ Len(u) = IF 2 <= m + 1 THEN (m + 1) - 2 + 1 ELSE 0
        /\ \A i \in 1..((m + 1) - 2 + 1) : u[i] = b[2 + i - 1]
    <3> HIDE DEF m
    <3> QED BY <2>1, SubSeqProperties
  <2>3. \A i \in 1..(1 + m) : b[i] = IF i <= 1 THEN h ELSE y[i - 1]
    BY <1>8
  <2>4. Len(y) = m /\ Len(b) = m + 1
    BY <1>7, <1>8
  <2> HIDE DEF m, u
  <2>5. Len(u) = m
    BY <2>1, <2>2
  <2>6. ASSUME NEW i \in 1..m PROVE u[i] = y[i]
    <3>1. i \in 1..((m + 1) - 2 + 1) /\ 2 + i - 1 = i + 1 /\ i + 1 \in 1..(1 + m) /\ ~(i + 1 <= 1) /\ (i + 1) - 1 = i
      BY <2>1
    <3>2. u[i] = b[i + 1]
      BY <2>2, <3>1
    <3>3. b[i + 1] = y[(i + 1) - 1]
      BY <2>3, <3>1
    <3> QED BY <3>1, <3>2, <3>3
  <2>7. u = y
    BY <1>2, <2>2, <2>4, <2>5, <2>6, SeqEqual
  <2> QED BY <2>4, <2>7 DEF u
<1>14. Len(b) = Len(y) + 1
  BY <1>7, <1>8
<1> HIDE DEF k
<1>15. k \in Bytes
  BY <1>4 DEF k
<1> QED BY <1>1, <1>3, <1>11, <1>12, <1>13, <1>14, <1>15 DEF y, k

\* The CRC of a message tells its sender and its number; no other byte does.
LEMMA CrcFacts ==
    ASSUME NEW p \in Peers
    PROVE  /\ \A b \in Plain : Of(b, CrcsOf(p)) = {}
           /\ \A q \in Peers, n \in 1..MaxSent, t \in Tunings :
                Of(Crc(SentBody(q, n, t)), CrcsOf(p)) = IF q = p THEN {n} ELSE {}
<1>1. \A x, y : Crc(x) = Crc(y) => x = y
  BY DEF Crc
<1>2. \A x : Crc(x)[1] = "crc"
  BY DEF Crc
<1>3. ASSUME NEW b \in Plain, NEW r, <<b, r>> \in CrcsOf(p) PROVE FALSE
  <2>1. PICK m \in (1..MaxSent) \X Tunings : <<b, r>> = <<Crc(SentBody(p, m[1], m[2])), m[1]>>
    BY <1>3 DEF CrcsOf
  <2>2. b = Crc(SentBody(p, m[1], m[2]))
    BY <2>1
  <2>3. b[1] = "crc"
    BY <1>2, <2>2
  <2> QED BY <2>3 DEF Plain
<1>4. ASSUME NEW q \in Peers, NEW n \in 1..MaxSent, NEW t \in Tunings
      PROVE  Of(Crc(SentBody(q, n, t)), CrcsOf(p)) = IF q = p THEN {n} ELSE {}
  <2> DEFINE c == Crc(SentBody(q, n, t))
  <2>1. ASSUME NEW r, <<c, r>> \in CrcsOf(p) PROVE q = p /\ r = n
    <3>1. PICK m \in (1..MaxSent) \X Tunings : <<c, r>> = <<Crc(SentBody(p, m[1], m[2])), m[1]>>
      BY <2>1 DEF CrcsOf
    <3>2. c = Crc(SentBody(p, m[1], m[2])) /\ r = m[1] /\ m[1] \in 1..MaxSent /\ m[2] \in Tunings
      BY <3>1
    <3>3. SentBody(q, n, t) = SentBody(p, m[1], m[2])
      BY <1>1, <3>2
    <3>4. SentBody(q, n, t)[2] = Name(q, n) /\ SentBody(p, m[1], m[2])[2] = Name(p, m[1])
      BY <3>2, SentBodyFacts
    <3>5. Name(q, n) = Name(p, m[1])
      BY <3>3, <3>4
    <3> QED BY <3>2, <3>5 DEF Name
  <2>2. ASSUME q = p PROVE <<c, n>> \in CrcsOf(p)
    <3>1. <<n, t>> \in (1..MaxSent) \X Tunings /\ <<n, t>>[1] = n /\ <<n, t>>[2] = t
      OBVIOUS
    <3>2. <<Crc(SentBody(p, <<n, t>>[1], <<n, t>>[2])), <<n, t>>[1]>> \in CrcsOf(p)
      BY <3>1 DEF CrcsOf
    <3> QED BY <2>2, <3>1, <3>2
  <2> HIDE DEF c
  <2>3. n \in Nat
    OBVIOUS
  <2>4. Of(c, CrcsOf(p)) = IF q = p THEN {n} ELSE {}
    BY <2>1, <2>2, <2>3 DEF Of
  <2> QED BY <2>4 DEF c
<1>5. \A b \in Plain : Of(b, CrcsOf(p)) = {}
  BY <1>3 DEF Of
<1> QED BY <1>4, <1>5

LEMMA NameFacts ==
    ASSUME NEW p \in Peers, NEW q \in Peers, NEW n \in 1..MaxSent
    PROVE  Of(PayloadOf(q, n), PayloadsOf(p)) = IF q = p THEN {n} ELSE {}
<1> DEFINE c == PayloadOf(q, n)
<1>1. ASSUME NEW r, <<c, r>> \in PayloadsOf(p) PROVE q = p /\ r = n
  <2>1. PICK m \in 1..MaxSent : <<c, r>> = <<PayloadOf(p, m), m>>
    BY <1>1 DEF PayloadsOf
  <2>2. c = PayloadOf(p, m) /\ r = m
    BY <2>1
  <2>3. c[1] = Name(q, n) /\ PayloadOf(p, m)[1] = Name(p, m)
    BY PayloadFacts
  <2>4. Name(q, n) = Name(p, m)
    BY <2>2, <2>3
  <2> QED BY <2>2, <2>4 DEF Name
<1>2. q = p => <<c, n>> \in PayloadsOf(p)
  BY DEF PayloadsOf
<1> HIDE DEF c
<1>3. n \in Nat
  OBVIOUS
<1>4. Of(c, PayloadsOf(p)) = IF q = p THEN {n} ELSE {}
  BY <1>1, <1>2, <1>3 DEF Of
<1> QED BY <1>4 DEF c

LEMMA NoneNumbered ==
    ASSUME NEW X, NEW s \in Seq(X), NEW W, \A x \in X : Of(x, W) = {}
    PROVE  Numbers(s, W) = {} /\ Rises(s, W)
<1>1. \A i \in DOMAIN s : Of(s[i], W) = {}
  BY LenProperties, ElementOfSeq
<1>2. Numbers(s, W) = {}
  BY <1>1 DEF Numbers, Of
<1> QED BY <1>1, <1>2 DEF Rises, AllBelow

LEMMA FrameFacts ==
    ASSUME NEW p \in Peers, NEW n \in 1..MaxSent, NEW t \in Tunings, NEW q \in Peers
    PROVE  /\ Frame(PayloadOf(p, n), t) \in Seq(Bytes)
           /\ Numbers(Frame(PayloadOf(p, n), t), CrcsOf(q)) = IF p = q THEN {n} ELSE {}
           /\ Rises(Frame(PayloadOf(p, n), t), CrcsOf(q))
<1> DEFINE b == SentBody(p, n, t)
           c == Crc(b)
           s == Append(b, c)
           e == Escape(s)
           W == CrcsOf(q)
<1>1. Frame(PayloadOf(p, n), t) = <<DEL>> \o e \o <<DEL>>
  BY DEF Frame, SentBody
<1>2. b \in Seq(Plain) /\ c \in Bytes
  BY SentBodyFacts
<1>3. (\A x \in Plain : Of(x, W) = {}) /\ Of(c, W) = IF p = q THEN {n} ELSE {}
  BY CrcFacts
<1>4. Codes \subseteq Plain /\ Plain \subseteq Bytes /\ DEL \in Plain
  BY CodeFacts DEF Codes
<1> HIDE DEF b, c, W
<1>5. b \in Seq(Bytes)
  BY <1>2, <1>4, SeqMonotonic
<1>6. Numbers(b, W) = {} /\ Rises(b, W)
  BY <1>2, <1>3, NoneNumbered
<1>7. /\ s \in Seq(Bytes) /\ Numbers(s, W) = Of(c, W) /\ Rises(s, W)
  <2>1. Numbers(s, W) = Numbers(b, W) \cup Of(c, W)
    BY <1>2, <1>5, AppendNumbers
  <2>2. Rises(s, W) <=> Rises(b, W) /\ AllBelow(Numbers(b, W), Of(c, W))
    BY <1>2, <1>5, AppendNumbers
  <2>3. s \in Seq(Bytes)
    BY <1>2, <1>5, AppendProperties
  <2> QED BY <1>6, <2>1, <2>2, <2>3 DEF AllBelow
<1>8. /\ \A x \in Codes : Of(x, W) = {}
  BY <1>3, <1>4
<1> HIDE DEF s
<1>9. e \in Seq(Bytes) /\ Numbers(e, W) = Of(c, W) /\ Rises(e, W)
  BY <1>4, <1>7, <1>8, EscapeFacts
<1> HIDE DEF e
<1> DEFINE d == <<DEL>>
<1>10. d \in Seq(Plain) /\ d \in Seq(Bytes)
  BY <1>4
<1>11. Numbers(d, W) = {} /\ Rises(d, W)
  BY <1>3, <1>10, NoneNumbered
<1> HIDE DEF d
<1> DEFINE f == d \o e
<1>12. f \in Seq(Bytes) /\ Numbers(f, W) = Of(c, W) /\ Rises(f, W)
  <2>1. Numbers(f, W) = Numbers(d, W) \cup Numbers(e, W)
    BY <1>9, <1>10, ConcatNumbers
  <2>2. Rises(d, W) /\ Rises(e, W) /\ AllBelow(Numbers(d, W), Numbers(e, W)) => Rises(f, W)
    BY <1>9, <1>10, ConcatNumbers
  <2>3. f \in Seq(Bytes)
    BY <1>9, <1>10, ConcatProperties
  <2> QED BY <1>9, <1>11, <2>1, <2>2, <2>3 DEF AllBelow
<1> HIDE DEF f
<1> DEFINE g == f \o d
<1>13. g \in Seq(Bytes) /\ Numbers(g, W) = Of(c, W) /\ Rises(g, W)
  <2>1. Numbers(g, W) = Numbers(f, W) \cup Numbers(d, W)
    BY <1>10, <1>12, ConcatNumbers
  <2>2. Rises(f, W) /\ Rises(d, W) /\ AllBelow(Numbers(f, W), Numbers(d, W)) => Rises(g, W)
    BY <1>10, <1>12, ConcatNumbers
  <2>3. g \in Seq(Bytes)
    BY <1>10, <1>12, ConcatProperties
  <2> QED BY <1>9, <1>11, <1>12, <2>1, <2>2, <2>3 DEF AllBelow
<1>14. Frame(PayloadOf(p, n), t) = g
  BY <1>1 DEF g, f, d
<1> QED BY <1>3, <1>13, <1>14 DEF W

\* What a candidate holds once its escapes are read: as many bytes as it would
\* have escaped, the last of which is its last.
Read(c, u) ==
    /\ u \in [body : Seq(Bytes), esc : BOOLEAN, ok : BOOLEAN]
    /\ u.ok => Len(Escape(u.body)) + (IF u.esc THEN 1 ELSE 0) = Len(c)
    /\ u.ok /\ ~u.esc /\ u.body # <<>> /\ u.body[Len(u.body)] \notin {DEL, ESC}
         => c # <<>> /\ c[Len(c)] = u.body[Len(u.body)]

LEMMA EscapeLonger ==
    ASSUME NEW s \in Seq(Bytes), NEW b \in Bytes
    PROVE  /\ Len(Escape(s)) \in Nat
           /\ Len(Escape(Append(s, b))) = Len(Escape(s)) + IF b \in {DEL, ESC} THEN 2 ELSE 1
<1>1. Codes \subseteq Bytes
  BY CodeFacts
<1> DEFINE e == Escape(s)
           x == EscapedByte(b)
<1>2. Escape(Append(s, b)) = e \o x
  BY <1>1, EscapeStep
<1>3. e \in Seq(Bytes)
  <2>1. \A c \in Codes : Of(c, {}) = {}
    BY DEF Of
  <2> QED BY <1>1, <2>1, EscapeFacts
<1>4. x \in Seq(Bytes) /\ Len(x) = IF b \in {DEL, ESC} THEN 2 ELSE 1
  BY <1>1, EscapedFacts
<1> HIDE DEF e, x
<1>5. Len(e \o x) = Len(e) + Len(x) /\ Len(e) \in Nat
  BY <1>3, <1>4, ConcatProperties, LenProperties
<1> QED BY <1>2, <1>4, <1>5 DEF e

LEMMA ReadStep ==
    ASSUME NEW c \in Seq(Bytes \ {DEL}), NEW b \in Bytes \ {DEL}, NEW u, Read(c, u)
    PROVE  Read(Append(c, b), Unescaped(u, b))
<1> DEFINE v == Unescaped(u, b)
           d == Append(c, b)
           m == Len(c)
           k == Len(Escape(u.body))
<1>1. /\ u \in [body : Seq(Bytes), esc : BOOLEAN, ok : BOOLEAN]
      /\ u.body \in Seq(Bytes) /\ u.esc \in BOOLEAN /\ u.ok \in BOOLEAN
  BY DEF Read
<1>2. m \in Nat /\ Len(d) = m + 1 /\ d[m + 1] = b /\ d # <<>>
  BY LenProperties, AppendProperties
<1>3. u.ok => k + (IF u.esc THEN 1 ELSE 0) = m
  BY DEF Read
<1>4. k \in Nat
  BY <1>1, EscapeLonger
<1>5. /\ DEL \in Bytes /\ ESC \in Bytes /\ b \in Bytes /\ b # DEL /\ DEL # ESC
      /\ DelCode # EscCode
  BY CodeFacts DEF Codes
<1>6. \A x \in Bytes : /\ Append(u.body, x) \in Seq(Bytes) /\ Append(u.body, x) # <<>>
                       /\ Append(u.body, x)[Len(Append(u.body, x))] = x
                       /\ Len(Escape(Append(u.body, x))) = k + IF x \in {DEL, ESC} THEN 2 ELSE 1
  <2> TAKE x \in Bytes
  <2>1. /\ Append(u.body, x) \in Seq(Bytes) /\ Append(u.body, x) # <<>>
        /\ Append(u.body, x)[Len(Append(u.body, x))] = x
    BY <1>1, AppendProperties
  <2> QED BY <2>1, <1>1, EscapeLonger
<1> HIDE DEF v, d, m, k
<1>7. CASE ~u.ok
  <2>1. v = u
    BY <1>7 DEF v, Unescaped
  <2> QED BY <1>1, <1>7, <2>1 DEF Read, v, d
<1>8. CASE u.ok /\ u.esc /\ b = DelCode
  <2>1. v = [u EXCEPT !.body = Append(@, DEL), !.esc = FALSE]
    BY <1>5, <1>8 DEF v, Unescaped
  <2>2. v.body = Append(u.body, DEL) /\ v.esc = FALSE /\ v.ok = TRUE
        /\ v \in [body : Seq(Bytes), esc : BOOLEAN, ok : BOOLEAN]
    BY <1>1, <1>5, <1>6, <1>8, <2>1
  <2>3. Len(Escape(v.body)) = k + 2 /\ v.body[Len(v.body)] = DEL
    BY <1>5, <1>6, <2>2
  <2>4. k + 1 = m
    BY <1>3, <1>8
  <2>5. Len(Escape(v.body)) + (IF v.esc THEN 1 ELSE 0) = m + 1
    BY <1>2, <1>4, <2>2, <2>3, <2>4
  <2>6. Read(d, v)
    BY <1>2, <2>2, <2>3, <2>5 DEF Read
  <2> QED BY <2>6 DEF v, d
<1>9. CASE u.ok /\ u.esc /\ b = EscCode
  <2>1. v = [u EXCEPT !.body = Append(@, ESC), !.esc = FALSE]
    BY <1>5, <1>9 DEF v, Unescaped
  <2>2. v.body = Append(u.body, ESC) /\ v.esc = FALSE /\ v.ok = TRUE
        /\ v \in [body : Seq(Bytes), esc : BOOLEAN, ok : BOOLEAN]
    BY <1>1, <1>5, <1>6, <1>9, <2>1
  <2>3. Len(Escape(v.body)) = k + 2 /\ v.body[Len(v.body)] = ESC
    BY <1>5, <1>6, <2>2
  <2>4. k + 1 = m
    BY <1>3, <1>9
  <2>5. Len(Escape(v.body)) + (IF v.esc THEN 1 ELSE 0) = m + 1
    BY <1>2, <1>4, <2>2, <2>3, <2>4
  <2>6. Read(d, v)
    BY <1>2, <2>2, <2>3, <2>5 DEF Read
  <2> QED BY <2>6 DEF v, d
<1>10. CASE u.ok /\ u.esc /\ b \notin {DelCode, EscCode}
  <2>1. v = [u EXCEPT !.ok = FALSE]
    BY <1>10 DEF v, Unescaped
  <2>2. v.ok = FALSE /\ v \in [body : Seq(Bytes), esc : BOOLEAN, ok : BOOLEAN]
    BY <1>1, <2>1
  <2> QED BY <2>2 DEF Read, v, d
<1>11. CASE u.ok /\ ~u.esc /\ b = ESC
  <2>1. v = [u EXCEPT !.esc = TRUE]
    BY <1>11 DEF v, Unescaped
  <2>2. /\ v.esc = TRUE /\ v.body = u.body
        /\ v \in [body : Seq(Bytes), esc : BOOLEAN, ok : BOOLEAN]
    BY <1>1, <2>1
  <2>3. Len(Escape(v.body)) + (IF v.esc THEN 1 ELSE 0) = m + 1
    BY <1>3, <1>4, <1>11, <2>2 DEF k
  <2>4. Read(d, v)
    BY <1>2, <2>2, <2>3 DEF Read
  <2> QED BY <2>4 DEF v, d
<1>12. CASE u.ok /\ ~u.esc /\ b # ESC
  <2>1. v = [u EXCEPT !.body = Append(@, b)]
    BY <1>12 DEF v, Unescaped
  <2>2. v.body = Append(u.body, b) /\ v.esc = FALSE /\ v.ok = TRUE
        /\ v \in [body : Seq(Bytes), esc : BOOLEAN, ok : BOOLEAN]
    BY <1>1, <1>5, <1>6, <1>12, <2>1
  <2>3. Len(Escape(v.body)) = k + 1 /\ v.body[Len(v.body)] = b
    BY <1>5, <1>6, <1>12, <2>2
  <2>4. k = m
    BY <1>3, <1>4, <1>12
  <2>5. Len(Escape(v.body)) + (IF v.esc THEN 1 ELSE 0) = m + 1
    BY <1>2, <1>4, <2>2, <2>3, <2>4
  <2>6. Read(d, v)
    BY <1>2, <2>2, <2>3, <2>5 DEF Read
  <2> QED BY <2>6 DEF v, d
<1> QED BY <1>1, <1>7, <1>8, <1>9, <1>10, <1>11, <1>12

LEMMA UnescapeFacts ==
    ASSUME NEW c \in Seq(Bytes \ {DEL})
    PROVE  Read(c, Unescape(c))
<1> DEFINE X == Bytes \ {DEL}
           T == {s \in Seq(X) : Read(s, Unescape(s))}
<1>1. <<>> \in T
  <2>1. <<>> \in Seq(X) /\ <<>> \in Seq(Bytes) /\ Len(<<>>) = 0
    BY EmptySeq
  <2>2. Opening \in [body : Seq(Bytes), esc : BOOLEAN, ok : BOOLEAN]
    BY <2>1 DEF Opening
  <2>3. Opening.body = <<>> /\ Opening.esc = FALSE
    BY DEF Opening
  <2>4. Read(<<>>, Opening)
    BY <2>1, <2>2, <2>3, EscapeStep DEF Read
  <2> QED BY <2>1, <2>4, UnescapeStep
<1>2. ASSUME NEW s \in Seq(X), NEW b \in X, s \in T PROVE Append(s, b) \in T
  <2>1. Append(s, b) \in Seq(X)
    BY AppendProperties
  <2>2. Unescape(Append(s, b)) = Unescaped(Unescape(s), b)
    BY UnescapeStep
  <2>3. Read(Append(s, b), Unescaped(Unescape(s), b))
    BY <1>2, ReadStep
  <2> QED BY <2>1, <2>2, <2>3
<1>3. Seq(X) \subseteq T
  <2> HIDE DEF T, X
  <2> QED BY <1>1, <1>2, Unrolled
<1> QED BY <1>3

\* A frame is one that a peer sent: it ends with the CRC of its message, and it
\* is no longer than the limit.
Sent(c, p, n, t) ==
    /\ Body(c)[1] = Header(PayloadOf(p, n), t) /\ Payload(Body(c)) = PayloadOf(p, n)
    /\ c # <<>> /\ c[Len(c)] = Crc(SentBody(p, n, t)) /\ Len(c) <= MaxFrame

LEMMA FrameSent ==
    ASSUME NEW c \in Seq(Bytes \ {DEL}), IsFrame(c)
    PROVE  \E p \in Peers, n \in 1..MaxSent, t \in Tunings : Sent(c, p, n, t)
<1> DEFINE u == Unescape(c)
           b == u.body
           m == Len(b)
           f == Front(b)
<1>1. u.ok /\ ~u.esc /\ ValidBody(b) /\ Body(c) = b
  BY DEF IsFrame, Body
<1>2. Read(c, u)
  BY UnescapeFacts
<1>3. b \in Seq(Bytes) /\ u.esc \in BOOLEAN /\ u.ok \in BOOLEAN
  BY <1>2 DEF Read
<1>4. m \in Nat /\ m >= 2 /\ b[m] = Crc(f)
  BY <1>1, <1>3, LenProperties DEF ValidBody
<1>5. m \in 1..m
  BY <1>4
<1>6. b[m] \in Bytes
  BY <1>3, <1>5, ElementOfSeq
<1>7. Crc(f)[1] = "crc" /\ Crc(f) \in Bytes
  BY <1>4, <1>6 DEF Crc
<1> HIDE DEF f
<1>8. \A g : g = Crc(f) => g \notin Codes /\ \A n : g # Name(n[1], n[2])
  BY <1>7 DEF Codes, DEL, ESC, DelCode, EscCode, Name
<1>9. \A q \in Peers : Crc(f) \notin ToSet(Ending[q])
  BY <1>7, FrameAssumption
<1>10. PICK d \in SentBodies : Crc(f) = d[1] \/ Crc(f) = Crc(d)
  BY <1>7, <1>8, <1>9, BytesFacts
<1>11. PICK y \in Payloads, t \in Tunings : d = <<Header(y, t)>> \o y
  BY DEF SentBodies
<1>12. PICK p \in Peers, n \in 1..MaxSent : y = PayloadOf(p, n)
  <2>1. PICK z \in MessageNames : y = PayloadOf(z[1], z[2])
    BY DEF Payloads
  <2>2. z[1] \in Peers /\ z[2] \in 1..MaxSent
    BY DEF MessageNames
  <2> QED BY <2>1, <2>2
<1>13. d = SentBody(p, n, t)
  BY <1>11, <1>12 DEF SentBody
<1>14. d \in Seq(Plain) /\ Len(d) = Len(y) + 1 /\ SubSeq(d, 2, Len(d)) = y
  BY <1>12, <1>13, SentBodyFacts
<1>15. Len(y) \in Nat /\ Len(y) > 0
  BY <1>12, PayloadFacts, LenProperties
<1>16. d[1] = Header(y, t)
  <2> DEFINE h == Header(y, t)
  <2> HIDE DEF h
  <2>1. <<h>> \in Seq({h} \cup Plain) /\ Len(<<h>>) = 1 /\ <<h>>[1] = h
    OBVIOUS
  <2>2. y \in Seq({h} \cup Plain)
    BY <1>12, PayloadFacts, SeqMonotonic
  <2>3. (<<h>> \o y)[1] = h
    BY <1>15, <2>1, <2>2, ConcatProperties
  <2> QED BY <1>11, <2>3 DEF h
<1>17. Crc(f) # d[1]
  BY <1>7, <1>16 DEF Header
<1>18. f = d
  BY <1>10, <1>17 DEF Crc
<1> HIDE DEF b
<1>19. b = Append(d, Crc(d)) /\ Len(d) = m - 1
  <2>1. f = SubSeq(b, 1, m - 1)
    BY DEF f, Front
  <2>2. \A i \in 1..(m - 1) : b[i] \in Bytes
    BY <1>3, <1>4, ElementOfSeq
  <2>3. m - 1 \in Int /\ 1 <= m - 1 /\ (m - 1) - 1 + 1 = m - 1
    BY <1>4
  <2>4. Len(f) = m - 1 /\ \A i \in 1..(m - 1) : f[i] = b[1 + i - 1]
    BY <2>1, <2>2, <2>3, SubSeqProperties
  <2> HIDE DEF m
  <2>5. Len(d) = m - 1 /\ \A i \in 1..(m - 1) : d[i] = b[i]
    BY <1>4, <1>18, <2>4
  <2>6. Crc(d) = b[m] /\ Crc(d) \in Bytes
    BY <1>4, <1>6, <1>18
  <2>7. d \in Seq(Bytes)
    BY <1>14, CodeFacts, SeqMonotonic
  <2> DEFINE k == Crc(d)
  <2> HIDE DEF k
  <2>8. /\ Append(d, k) \in Seq(Bytes) /\ Len(Append(d, k)) = (m - 1) + 1
        /\ \A i \in 1..(m - 1) : Append(d, k)[i] = d[i]
        /\ Append(d, k)[(m - 1) + 1] = k
    BY <2>5, <2>6, <2>7, AppendProperties DEF k
  <2>9. (m - 1) + 1 = m /\ \A i \in 1..m : i \in 1..(m - 1) \/ i = m
    BY <1>4
  <2>10. \A i \in 1..m : Append(d, k)[i] = b[i]
    BY <2>5, <2>6, <2>8, <2>9 DEF k
  <2>11. b = Append(d, k)
    BY <1>3, <2>8, <2>9, <2>10, SeqEqual DEF m
  <2> QED BY <2>5, <2>11 DEF k
<1>20. Len(Escape(b)) <= MaxFrame
  BY <1>19, FrameAssumption
<1>21. Len(c) <= MaxFrame
  <2>1. Len(Escape(b)) + (IF u.esc THEN 1 ELSE 0) = Len(c)
    BY <1>1, <1>2 DEF Read, b
  <2>2. Len(Escape(b)) + 0 = Len(c)
    BY <1>1, <2>1
  <2>3. Len(Escape(b)) \in Nat
    BY <1>3, EscapeLonger, <1>19, <1>14, <1>6, <1>4, <1>18, SeqMonotonic, CodeFacts
  <2> QED BY <1>20, <2>2, <2>3
<1>22. b[m] \notin {DEL, ESC}
  BY <1>4, <1>8 DEF Codes
<1>23. c # <<>> /\ c[Len(c)] = b[m]
  <2>1. b # <<>>
    BY <1>3, <1>4, EmptySeq
  <2> QED BY <1>1, <1>2, <1>22, <2>1 DEF Read, b
<1>24. b[1] = Header(y, t)
  <2>1. 1 \in 1..Len(d) /\ d \in Seq(Bytes) /\ Crc(d) \in Bytes
    BY <1>6, <1>4, <1>14, <1>15, <1>18, CodeFacts, SeqMonotonic
  <2>2. Append(d, Crc(d))[1] = d[1]
    BY <2>1, AppendProperties
  <2> QED BY <1>16, <1>19, <2>2
<1>25. Payload(b) = y
  <2>1. Payload(b) = SubSeq(b, 2, m - 1)
    BY DEF Payload
  <2>2. \A i \in 2..(m - 1) : b[i] = d[i]
    <3>1. d \in Seq(Bytes) /\ Crc(d) \in Bytes
      BY <1>6, <1>4, <1>14, <1>18, CodeFacts, SeqMonotonic
    <3>2. \A i \in 1..Len(d) : Append(d, Crc(d))[i] = d[i]
      BY <3>1, AppendProperties
    <3> QED BY <1>4, <1>19, <3>2
  <2>3. SubSeq(d, 2, m - 1) = y
    BY <1>14, <1>19
  <2>4. /\ Len(SubSeq(b, 2, m - 1)) = Len(SubSeq(d, 2, m - 1))
        /\ \A i \in 1..Len(SubSeq(d, 2, m - 1)) : SubSeq(b, 2, m - 1)[i] = SubSeq(d, 2, m - 1)[i]
        /\ SubSeq(b, 2, m - 1) \in Seq(Bytes) /\ SubSeq(d, 2, m - 1) \in Seq(Bytes)
    <3> DEFINE k == m - 1
    <3>1. k \in Int /\ \A i \in 2..k : b[i] \in Bytes /\ d[i] \in Bytes /\ b[i] = d[i]
      <4>1. \A i \in 2..(m - 1) : b[i] \in Bytes
        BY <1>3, <1>4, ElementOfSeq
      <4> QED BY <1>4, <2>2, <4>1
    <3> HIDE DEF k
    <3>2. /\ SubSeq(b, 2, k) \in Seq(Bytes) /\ Len(SubSeq(b, 2, k)) = IF 2 <= k THEN k - 2 + 1 ELSE 0
          /\ \A i \in 1..(k - 2 + 1) : SubSeq(b, 2, k)[i] = b[2 + i - 1]
      BY <3>1, SubSeqProperties
    <3>3. /\ SubSeq(d, 2, k) \in Seq(Bytes) /\ Len(SubSeq(d, 2, k)) = IF 2 <= k THEN k - 2 + 1 ELSE 0
          /\ \A i \in 1..(k - 2 + 1) : SubSeq(d, 2, k)[i] = d[2 + i - 1]
      BY <3>1, SubSeqProperties
    <3>4. \A i \in 1..(IF 2 <= k THEN k - 2 + 1 ELSE 0) : i \in 1..(k - 2 + 1) /\ 2 + i - 1 \in 2..k
      BY <3>1
    <3>5. \A i \in 1..Len(SubSeq(d, 2, k)) : SubSeq(b, 2, k)[i] = SubSeq(d, 2, k)[i]
      BY <3>1, <3>2, <3>3, <3>4
    <3> QED BY <3>2, <3>3, <3>5 DEF k
  <2>5. SubSeq(b, 2, m - 1) = SubSeq(d, 2, m - 1)
    BY <2>4, SeqEqual
  <2> QED BY <2>1, <2>3, <2>5
<1>26. Sent(c, p, n, t)
  <2>1. Body(c) = b
    BY <1>1 DEF b
  <2>2. c[Len(c)] = Crc(SentBody(p, n, t))
    BY <1>4, <1>13, <1>18, <1>23
  <2> QED BY <1>12, <1>21, <1>23, <1>24, <1>25, <2>1, <2>2 DEF Sent
<1> QED BY <1>26

-----------------------------------------------------------------------------
(* What the bytes of a stream leave in the buffer and in the queue: the      *)
(* messages queued come before those whose CRC is still in the buffer.       *)

Found == [body : Seq(Bytes), at : Nat]
Loose == Bytes \ {DEL}

Drains(s, d) ==
    /\ d \in [rest : Seq(Loose), queue : Seq(Payloads), found : Seq(Found)]
    /\ Len(d.rest) <= Len(s)
    /\ \A p \in Peers :
         /\ Numbers(d.rest, CrcsOf(p)) \subseteq Numbers(s, CrcsOf(p))
         /\ Numbers(d.queue, PayloadsOf(p))
              \subseteq Numbers(queue, PayloadsOf(p)) \cup Numbers(s, CrcsOf(p))
         /\ (/\ Rises(s, CrcsOf(p)) /\ Rises(queue, PayloadsOf(p))
             /\ AllBelow(Numbers(queue, PayloadsOf(p)), Numbers(s, CrcsOf(p))))
              => /\ Rises(d.rest, CrcsOf(p)) /\ Rises(d.queue, PayloadsOf(p))
                 /\ AllBelow(Numbers(d.queue, PayloadsOf(p)), Numbers(d.rest, CrcsOf(p)))

LEMMA LastNumber ==
    ASSUME NEW X, NEW s \in Seq(X), s # <<>>, NEW W
    PROVE  Of(s[Len(s)], W) \subseteq Numbers(s, W)
<1>1. Len(s) \in DOMAIN s
  BY EmptySeq, LenProperties
<1> QED BY <1>1 DEF Of, Numbers

\* A byte that is no delimiter waits for one.
LEMMA DrainsByte ==
    ASSUME NEW s \in Seq(Bytes), NEW d, Drains(s, d), NEW b \in Loose, NEW place
    PROVE  Drains(Append(s, b), Drained(d, b, place))
<1>1. /\ d \in [rest : Seq(Loose), queue : Seq(Payloads), found : Seq(Found)]
      /\ d.rest \in Seq(Loose) /\ d.queue \in Seq(Payloads) /\ d.found \in Seq(Found)
  BY DEF Drains
<1> DEFINE e == Drained(d, b, place)
           rest == Append(d.rest, b)
<1>2. e = [d EXCEPT !.rest = Append(@, b)]
  BY DEF Drained, Loose
<1>3. rest \in Seq(Loose)
  BY <1>1, AppendProperties
<1>4. /\ e \in [rest : Seq(Loose), queue : Seq(Payloads), found : Seq(Found)]
      /\ e.rest = rest /\ e.queue = d.queue
  BY <1>1, <1>2, <1>3
<1>5. b \in Bytes /\ Len(rest) <= Len(Append(s, b))
  <2>1. b \in Bytes
    BY DEF Loose
  <2>2. Len(rest) = Len(d.rest) + 1 /\ Len(d.rest) \in Nat /\ Len(s) \in Nat
    BY <1>1, AppendProperties, LenProperties
  <2>3. Len(Append(s, b)) = Len(s) + 1
    BY <2>1, AppendProperties
  <2>4. Len(d.rest) <= Len(s)
    BY DEF Drains
  <2> QED BY <2>1, <2>2, <2>3, <2>4
<1>6. ASSUME NEW p \in Peers
      PROVE  /\ Numbers(rest, CrcsOf(p)) \subseteq Numbers(Append(s, b), CrcsOf(p))
             /\ Numbers(d.queue, PayloadsOf(p))
                  \subseteq Numbers(queue, PayloadsOf(p)) \cup Numbers(Append(s, b), CrcsOf(p))
             /\ (/\ Rises(Append(s, b), CrcsOf(p)) /\ Rises(queue, PayloadsOf(p))
                 /\ AllBelow(Numbers(queue, PayloadsOf(p)), Numbers(Append(s, b), CrcsOf(p))))
                  => /\ Rises(rest, CrcsOf(p)) /\ Rises(d.queue, PayloadsOf(p))
                     /\ AllBelow(Numbers(d.queue, PayloadsOf(p)), Numbers(rest, CrcsOf(p)))
  <2> DEFINE W == CrcsOf(p)
             N == Numbers(s, W)
             R == Numbers(d.rest, W)
             B == Of(b, W)
             Q == Numbers(queue, PayloadsOf(p))
             D == Numbers(d.queue, PayloadsOf(p))
  <2>1. /\ R \subseteq N /\ D \subseteq Q \cup N
        /\ (Rises(s, W) /\ Rises(queue, PayloadsOf(p)) /\ AllBelow(Q, N))
             => /\ Rises(d.rest, W) /\ Rises(d.queue, PayloadsOf(p)) /\ AllBelow(D, R)
    BY DEF Drains
  <2>2. /\ Numbers(Append(s, b), W) = N \cup B
        /\ Rises(Append(s, b), W) <=> Rises(s, W) /\ AllBelow(N, B)
    BY <1>5, AppendNumbers
  <2>3. /\ Numbers(rest, W) = R \cup B
        /\ Rises(rest, W) <=> Rises(d.rest, W) /\ AllBelow(R, B)
    BY <1>1, AppendNumbers
  <2> HIDE DEF W, N, R, B, Q, D
  <2>4. (Rises(Append(s, b), W) /\ Rises(queue, PayloadsOf(p)) /\ AllBelow(Q, N \cup B))
          => /\ Rises(d.rest, W) /\ Rises(d.queue, PayloadsOf(p)) /\ AllBelow(D, R)
             /\ AllBelow(R, B) /\ AllBelow(D, B)
    BY <2>1, <2>2 DEF AllBelow
  <2>5. (Rises(Append(s, b), W) /\ Rises(queue, PayloadsOf(p)) /\ AllBelow(Q, N \cup B))
          => /\ Rises(rest, W) /\ Rises(d.queue, PayloadsOf(p)) /\ AllBelow(D, R \cup B)
    BY <2>3, <2>4 DEF AllBelow
  <2> QED BY <2>1, <2>2, <2>3, <2>5 DEF W, N, R, B, Q, D
<1> HIDE DEF e, rest
<1>7. Drains(Append(s, b), e)
  BY <1>4, <1>5, <1>6 DEF Drains
<1> QED BY <1>7 DEF e

\* A delimiter closes a candidate: a frame gives the message of its CRC.
LEMMA DrainsDelimiter ==
    ASSUME NEW s \in Seq(Bytes), NEW d, Drains(s, d), NEW place \in Nat
    PROVE  Drains(Append(s, DEL), Drained(d, DEL, place))
<1>1. /\ d \in [rest : Seq(Loose), queue : Seq(Payloads), found : Seq(Found)]
      /\ d.rest \in Seq(Loose) /\ d.queue \in Seq(Payloads) /\ d.found \in Seq(Found)
  BY DEF Drains
<1> DEFINE e == Drained(d, DEL, place)
           c == d.rest
<1>2. e = Accepted(d, place)
  BY DEF Drained
<1>3. DEL \in Plain /\ DEL \in Bytes
  BY CodeFacts DEF Codes
<1>4. <<>> \in Seq(Loose) /\ Len(<<>>) <= Len(Append(s, DEL))
  <2>1. Append(s, DEL) \in Seq(Bytes)
    BY <1>3, AppendProperties
  <2> QED BY <2>1, EmptySeq, LenProperties
<1>5. CASE ~IsFrame(c)
  <2>1. e = [d EXCEPT !.rest = <<>>]
    BY <1>2, <1>5 DEF Accepted
  <2>2. /\ e \in [rest : Seq(Loose), queue : Seq(Payloads), found : Seq(Found)]
        /\ e.rest = <<>> /\ e.queue = d.queue
    BY <1>1, <1>4, <2>1
  <2> HIDE DEF e
  <2>3. ASSUME NEW p \in Peers
        PROVE  /\ Numbers(<<>>, CrcsOf(p)) = {} /\ Rises(<<>>, CrcsOf(p))
               /\ Numbers(Append(s, DEL), CrcsOf(p)) = Numbers(s, CrcsOf(p))
               /\ Rises(Append(s, DEL), CrcsOf(p)) => Rises(s, CrcsOf(p))
    <3>1. Of(DEL, CrcsOf(p)) = {}
      BY <1>3, CrcFacts
    <3>2. /\ Numbers(Append(s, DEL), CrcsOf(p)) = Numbers(s, CrcsOf(p)) \cup Of(DEL, CrcsOf(p))
          /\ Rises(Append(s, DEL), CrcsOf(p)) => Rises(s, CrcsOf(p))
      BY <1>3, AppendNumbers
    <3> QED BY <3>1, <3>2, NoNumbers
  <2>4. Drains(Append(s, DEL), e)
    BY <1>4, <2>2, <2>3 DEF Drains, AllBelow
  <2> QED BY <2>4 DEF e
<1>6. CASE IsFrame(c)
  <2>1. PICK p \in Peers, n \in 1..MaxSent, t \in Tunings : Sent(c, p, n, t)
    BY <1>1, <1>6, FrameSent DEF Loose
  <2> DEFINE y == PayloadOf(p, n)
             q == Queued(d.queue, Body(c))
             f == Append(d.found, [body |-> Body(c), at |-> place])
  <2>2. y \in Payloads /\ Payload(Body(c)) = y
    BY <2>1, PayloadFacts DEF Sent
  <2>3. q = d.queue \/ q = Append(d.queue, y)
    BY <2>2 DEF Queued
  <2>4. q \in Seq(Payloads)
    <3>1. Append(d.queue, y) \in Seq(Payloads)
      <4> HIDE DEF y
      <4> QED BY <1>1, <2>2, AppendProperties
    <3> QED BY <1>1, <2>3, <3>1
  <2>5. Body(c) \in Seq(Bytes)
    BY <1>1, UnescapeFacts DEF Body, Read, Loose
  <2>6. f \in Seq(Found)
    BY <1>1, <2>5, AppendProperties DEF Found
  <2>7. e = [rest |-> <<>>, queue |-> q, found |-> f]
    BY <1>2, <1>6 DEF Accepted
  <2> HIDE DEF e, q, f, y
  <2>8. /\ e \in [rest : Seq(Loose), queue : Seq(Payloads), found : Seq(Found)]
        /\ e.rest = <<>> /\ e.queue = q
    BY <1>4, <2>4, <2>6, <2>7
  <2>9. ASSUME NEW o \in Peers
        PROVE  /\ Numbers(<<>>, CrcsOf(o)) = {} /\ Rises(<<>>, CrcsOf(o))
               /\ Numbers(q, PayloadsOf(o))
                    \subseteq Numbers(queue, PayloadsOf(o)) \cup Numbers(Append(s, DEL), CrcsOf(o))
               /\ (/\ Rises(Append(s, DEL), CrcsOf(o)) /\ Rises(queue, PayloadsOf(o))
                   /\ AllBelow(Numbers(queue, PayloadsOf(o)), Numbers(Append(s, DEL), CrcsOf(o))))
                    => Rises(q, PayloadsOf(o))
    <3> DEFINE W == CrcsOf(o)
               V == PayloadsOf(o)
               N == Numbers(s, W)
               R == Numbers(c, W)
               Q == Numbers(queue, V)
               D == Numbers(d.queue, V)
               M == Of(y, V)
    <3>1. Of(DEL, W) = {}
      BY <1>3, CrcFacts
    <3>2. /\ Numbers(Append(s, DEL), W) = N \cup Of(DEL, W)
          /\ Rises(Append(s, DEL), W) => Rises(s, W)
      BY <1>3, AppendNumbers
    <3>3. /\ R \subseteq N /\ D \subseteq Q \cup N
          /\ (Rises(s, W) /\ Rises(queue, V) /\ AllBelow(Q, N))
               => Rises(d.queue, V) /\ AllBelow(D, R)
      BY DEF Drains
    <3>4. M = IF p = o THEN {n} ELSE {}
      BY NameFacts DEF y
    <3>5. Of(Crc(SentBody(p, n, t)), W) = IF p = o THEN {n} ELSE {}
      BY CrcFacts
    <3>6. c # <<>> /\ c[Len(c)] = Crc(SentBody(p, n, t))
      BY <2>1 DEF Sent
    <3>7. Of(c[Len(c)], W) \subseteq R
      BY <1>1, <3>6, LastNumber
    <3>8. M \subseteq R
      BY <3>4, <3>5, <3>6, <3>7
    <3>9. /\ Numbers(Append(d.queue, y), V) = D \cup M
          /\ Rises(Append(d.queue, y), V) <=> Rises(d.queue, V) /\ AllBelow(D, M)
      BY <1>1, <2>2, AppendNumbers DEF y
    <3> HIDE DEF W, V, N, R, Q, D, M
    <3>10. Numbers(q, V) = D \/ Numbers(q, V) = D \cup M
      BY <2>3, <3>9 DEF D
    <3>11. Numbers(q, V) \subseteq Q \cup Numbers(Append(s, DEL), W)
      BY <3>1, <3>2, <3>3, <3>8, <3>10
    <3>12. (Rises(Append(s, DEL), W) /\ Rises(queue, V) /\ AllBelow(Q, N))
             => Rises(d.queue, V) /\ AllBelow(D, M)
      BY <3>2, <3>3, <3>8 DEF AllBelow
    <3>13. (Rises(Append(s, DEL), W) /\ Rises(queue, V) /\ AllBelow(Q, Numbers(Append(s, DEL), W)))
             => Rises(q, V)
      BY <2>3, <3>1, <3>2, <3>9, <3>12
    <3> QED BY <3>11, <3>13, NoNumbers DEF W, V, Q
  <2>10. Drains(Append(s, DEL), e)
    BY <1>4, <2>8, <2>9 DEF Drains, AllBelow
  <2> QED BY <2>10 DEF e
<1> QED BY <1>5, <1>6

LEMMA DrainFacts ==
    ASSUME queue \in Seq(Payloads), heard \in Seq(Bytes), buffer \in Seq(Bytes),
           Len(buffer) <= Len(heard), NEW s \in Seq(Bytes)
    PROVE  Drains(s, Drain(s))
<1> DEFINE T == {r \in Seq(Bytes) : Drains(r, Drain(r))}
           before == Len(heard) - Len(buffer)
<1>1. before \in Nat
  BY LenProperties
<1>2. <<>> \in T
  <2> DEFINE e == [rest |-> <<>>, queue |-> queue, found |-> <<>>]
  <2>1. <<>> \in Seq(Bytes) /\ <<>> \in Seq(Loose) /\ <<>> \in Seq(Found)
    BY EmptySeq
  <2>2. e \in [rest : Seq(Loose), queue : Seq(Payloads), found : Seq(Found)]
        /\ e.rest = <<>> /\ e.queue = queue
    BY <2>1
  <2>3. Drain(<<>>) = e
    BY DrainStep
  <2> HIDE DEF e
  <2>4. Drains(<<>>, e)
    BY <2>2, NoNumbers DEF Drains, AllBelow
  <2> QED BY <2>1, <2>3, <2>4
<1>3. ASSUME NEW r \in Seq(Bytes), NEW b \in Bytes, r \in T PROVE Append(r, b) \in T
  <2>1. Drain(Append(r, b)) = Drained(Drain(r), b, before + (Len(r) + 1))
    BY DrainStep
  <2>2. Len(r) \in Nat /\ Append(r, b) \in Seq(Bytes)
    BY LenProperties, AppendProperties
  <2> HIDE DEF before
  <2>3. before + (Len(r) + 1) \in Nat
    BY <1>1, <2>2
  <2>4. Drains(r, Drain(r))
    BY <1>3
  <2>5. CASE b = DEL
    <3>1. Drains(Append(r, DEL), Drained(Drain(r), DEL, before + (Len(r) + 1)))
      BY <2>3, <2>4, DrainsDelimiter
    <3> QED BY <2>1, <2>2, <2>5, <3>1
  <2>6. CASE b # DEL
    <3>1. b \in Loose
      BY <2>6 DEF Loose
    <3>2. Drains(Append(r, b), Drained(Drain(r), b, before + (Len(r) + 1)))
      BY <2>4, <3>1, DrainsByte
    <3> QED BY <2>1, <2>2, <3>2
  <2> QED BY <2>5, <2>6
<1>4. Seq(Bytes) \subseteq T
  <2> HIDE DEF T
  <2> QED BY <1>2, <1>3, Unrolled
<1> QED BY <1>4

-----------------------------------------------------------------------------
(* Types.                                                                    *)

Lefts == [talkers : SUBSET Peers, messages : 0..MaxSent, lost : Nat, noise : Nat, sends : Nat,
          reads : Nat, switches : Nat]

RadioTypes ==
    /\ RadioTypeOK
    /\ buffer \in Seq(Loose) /\ heard \in Seq(Bytes) /\ valid \in Seq(Found)
    /\ Len(buffer) <= Len(heard)
    /\ left \in Lefts /\ \A p \in Peers : sent[p] + left.messages <= MaxSent

LEMMA SpendsFacts ==
    ASSUME left \in Lefts,
           NEW kind \in {"messages", "lost", "noise", "sends", "reads", "switches"}, Spends(kind)
    PROVE  /\ left' \in Lefts /\ left'.messages <= left.messages
           /\ kind = "messages" => left'.messages = left.messages - 1 /\ left.messages > 0
<1>1. left' = [left EXCEPT ![kind] = @ - 1] /\ left[kind] > 0
  BY DEF Spends
<1>2. MaxSent \in Nat
  BY RadioAssumption
<1> QED BY <1>1, <1>2 DEF Lefts

LEMMA BudgetFacts ==
    ASSUME RadioTypes, left' \in Lefts, left'.messages <= left.messages
    PROVE  \A q \in Peers : sent[q] + left'.messages <= MaxSent
<1> TAKE q \in Peers
<1>1. sent[q] \in Nat /\ MaxSent \in Nat /\ sent[q] + left.messages <= MaxSent
  BY RadioAssumption DEF RadioTypes, RadioTypeOK
<1>2. left.messages \in Nat /\ left'.messages \in Nat
  BY <1>1 DEF RadioTypes, Lefts
<1> QED BY <1>1, <1>2

LEMMA NonLoose == Loose \subseteq Bytes /\ DEL \in Bytes /\ ESC \in Bytes /\ Seq(Loose) \subseteq Seq(Bytes)
<1>1. Loose \subseteq Bytes /\ DEL \in Bytes /\ ESC \in Bytes
  BY CodeFacts DEF Loose, Codes
<1> QED BY <1>1, SeqMonotonic

LEMMA ReceivedFacts ==
    ASSUME NEW u \in Uarts, Len(u.rx) <= FifoSize, NEW b \in Bytes
    PROVE  /\ Received(u, b) \in Uarts /\ Len(Received(u, b).rx) <= FifoSize
           /\ Received(u, b).rx = u.rx \/ Received(u, b).rx = Append(u.rx, b)
<1>1. u.rx \in Seq(Bytes) /\ Len(u.rx) \in Nat /\ FifoSize \in Nat
  BY RadioAssumption, LenProperties DEF Uarts
<1>2. Append(u.rx, b) \in Seq(Bytes) /\ Len(Append(u.rx, b)) = Len(u.rx) + 1
  BY <1>1, AppendProperties
<1>3. CASE u.configured /\ Len(u.rx) < FifoSize
  <2>1. Received(u, b) = [u EXCEPT !.rx = Append(@, b)]
    BY <1>3 DEF Received
  <2>2. Received(u, b) \in Uarts /\ Received(u, b).rx = Append(u.rx, b)
    BY <1>2, <2>1 DEF Uarts
  <2> QED BY <1>1, <1>2, <1>3, <2>2
<1>4. CASE ~(u.configured /\ Len(u.rx) < FifoSize)
  BY <1>4 DEF Received
<1> QED BY <1>3, <1>4

\* The action of the other boards, of the link and of the air.
LEMMA PeerSendsTypes ==
    ASSUME RadioTypes, NEW p \in Peers, PeerSends(p)
    PROVE  RadioTypes' /\ sent[p] + 1 \in 1..MaxSent
<1>1. /\ left \in Lefts /\ left.messages \in 0..MaxSent /\ MaxSent \in Nat
      /\ sent \in [Peers -> 0..MaxSent] /\ sent[p] + left.messages <= MaxSent
      /\ air \in [Peers -> Seq(Bytes)]
  BY RadioAssumption DEF RadioTypes, RadioTypeOK, Lefts
<1>2. left' \in Lefts /\ left'.messages = left.messages - 1 /\ left.messages > 0
  BY <1>1, SpendsFacts DEF PeerSends
<1>3. sent' = [sent EXCEPT ![p] = @ + 1]
  BY DEF PeerSends
<1>4. sent[p] + 1 \in 1..MaxSent
  BY <1>1, <1>2
<1>5. PICK t \in Tunings : air' = [air EXCEPT ![p] = Frame(PayloadOf(p, sent[p] + 1), t)]
  BY DEF PeerSends
<1>6. Frame(PayloadOf(p, sent[p] + 1), t) \in Seq(Bytes)
  BY <1>4, FrameFacts
<1>7. air' \in [Peers -> Seq(Bytes)]
  <2> DEFINE f == Frame(PayloadOf(p, sent[p] + 1), t)
  <2> HIDE DEF f
  <2> QED BY <1>1, <1>5, <1>6 DEF f
<1>8. sent' \in [Peers -> 0..MaxSent]
  BY <1>1, <1>3, <1>4
<1>9. \A q \in Peers : sent'[q] + left'.messages <= MaxSent
  <2> TAKE q \in Peers
  <2>1. sent[q] + left.messages <= MaxSent /\ sent[q] \in Nat /\ sent[p] \in Nat
    BY <1>1 DEF RadioTypes
  <2>2. sent'[q] = IF q = p THEN sent[q] + 1 ELSE sent[q]
    BY <1>1, <1>3
  <2> QED BY <1>1, <1>2, <2>1, <2>2
<1>10. UNCHANGED <<radioOn, config, queue, buffer, uart, call, polled, heard, valid, last>>
  BY DEF PeerSends, module, program, radioHistory
<1> QED BY <1>2, <1>4, <1>7, <1>8, <1>9, <1>10 DEF RadioTypes, RadioTypeOK

LEMMA AirTypes ==
    ASSUME RadioTypes, NEW p \in Peers, air[p] # <<>>, air' = [air EXCEPT ![p] = Tail(@)],
           uart' = uart \/ uart' = Received(uart, Head(air[p])),
           left' \in Lefts, left'.messages <= left.messages,
           UNCHANGED <<radioOn, config, queue, buffer, call, polled, sent, heard, valid, last>>
    PROVE  RadioTypes'
<1>1. air \in [Peers -> Seq(Bytes)] /\ sent \in [Peers -> 0..MaxSent] /\ MaxSent \in Nat
  BY RadioAssumption DEF RadioTypes, RadioTypeOK
<1>2. Head(air[p]) \in Bytes /\ Tail(air[p]) \in Seq(Bytes)
  BY <1>1, HeadTailProperties
<1>3. air' \in [Peers -> Seq(Bytes)]
  BY <1>1, <1>2
<1>4. uart' \in Uarts /\ Len(uart'.rx) <= FifoSize
  BY <1>2, ReceivedFacts DEF RadioTypes, RadioTypeOK
<1>5. \A q \in Peers : sent[q] + left'.messages <= MaxSent
  BY BudgetFacts
<1> QED BY <1>3, <1>4, <1>5 DEF RadioTypes, RadioTypeOK

LEMMA ArrivesTypes ==
    ASSUME RadioTypes, NEW p \in Peers, Arrives(p) \/ LostOnAir(p)
    PROVE  RadioTypes'
<1>1. CASE Arrives(p)
  <2>1. left' = left /\ left' \in Lefts /\ left'.messages <= left.messages
    BY <1>1, RadioAssumption DEF RadioTypes, Lefts, Arrives
  <2> QED BY <1>1, <2>1, AirTypes DEF Arrives, module, program, radioHistory
<1>2. CASE LostOnAir(p)
  <2>1. left' \in Lefts /\ left'.messages <= left.messages
    BY <1>2, SpendsFacts DEF RadioTypes, LostOnAir
  <2> QED BY <1>2, <2>1, AirTypes DEF LostOnAir, module, program, radioHistory
<1> QED BY <1>1, <1>2

\* A step that leaves the bytes of the air and what was received of them alone.
LEMMA UartTypes ==
    ASSUME RadioTypes, uart' \in Uarts, Len(uart'.rx) <= FifoSize,
           left' \in Lefts, left'.messages <= left.messages,
           radioOn' \in BOOLEAN, config' \in Configs,
           call' \in [Contexts -> Waits \cup {"code"}], polled' \in [Contexts -> BOOLEAN],
           UNCHANGED <<queue, buffer, air, sent, heard, valid, last>>
    PROVE  RadioTypes'
<1>1. sent \in [Peers -> 0..MaxSent] /\ MaxSent \in Nat
  BY RadioAssumption DEF RadioTypes, RadioTypeOK
<1>2. \A q \in Peers : sent[q] + left'.messages <= MaxSent
  BY BudgetFacts
<1> QED BY <1>2 DEF RadioTypes, RadioTypeOK

LEMMA NoiseTypes ==
    ASSUME RadioTypes, Noise \/ LinkAdvances
    PROVE  RadioTypes'
<1>1. uart \in Uarts /\ Len(uart.rx) <= FifoSize /\ left \in Lefts /\ LinkSize \in Nat
  BY RadioAssumption DEF RadioTypes, RadioTypeOK
<1>2. /\ radioOn \in BOOLEAN /\ config \in Configs
      /\ call \in [Contexts -> Waits \cup {"code"}] /\ polled \in [Contexts -> BOOLEAN]
  BY DEF RadioTypes, RadioTypeOK
<1>3. CASE Noise
  <2>1. PICK b \in {DEL, ESC} : uart' = Received(uart, b)
    BY <1>3 DEF Noise
  <2>2. uart' \in Uarts /\ Len(uart'.rx) <= FifoSize
    BY <1>1, <2>1, NonLoose, ReceivedFacts
  <2>3. left' \in Lefts /\ left'.messages <= left.messages
    BY <1>1, <1>3, SpendsFacts DEF Noise
  <2> QED BY <1>2, <1>3, <2>2, <2>3, UartTypes DEF Noise, module, program, peers, radioHistory
<1>4. CASE LinkAdvances
  <2>1. uart' \in Uarts /\ uart'.rx = uart.rx
    <3>1. uart.tx \in 0..LinkSize
      BY <1>1 DEF Uarts
    <3>2. CASE uart.tx > 0
      <4>1. uart' = [uart EXCEPT !.tx = @ - 1] /\ uart.tx - 1 \in 0..LinkSize
        BY <1>1, <1>4, <3>1, <3>2 DEF LinkAdvances
      <4> QED BY <1>1, <4>1 DEF Uarts
    <3>3. CASE ~(uart.tx > 0)
      <4>1. uart' = [uart EXCEPT !.active = FALSE]
        BY <1>4, <3>3 DEF LinkAdvances
      <4> QED BY <1>1, <4>1 DEF Uarts
    <3> QED BY <3>2, <3>3
  <2>2. left' \in Lefts /\ left'.messages <= left.messages
    BY <1>1, <1>4, RadioAssumption DEF LinkAdvances, Lefts
  <2> QED BY <1>1, <1>2, <1>4, <2>1, <2>2, UartTypes
          DEF LinkAdvances, module, program, peers, radioHistory
<1> QED BY <1>3, <1>4

LEMMA GoesFacts ==
    ASSUME call \in [Contexts -> Waits \cup {"code"}], NEW c \in Contexts,
           NEW label \in Waits \cup {"code"}, Goes(c, label)
    PROVE  call' \in [Contexts -> Waits \cup {"code"}]
BY DEF Goes

LEMMA WrittenFacts ==
    ASSUME uart \in Uarts, config \in Configs, NEW n \in Sizes
    PROVE  Kicked([uart EXCEPT !.tx = @ + Written(Overhead + Truncated(n))]) \in Uarts
           /\ Kicked([uart EXCEPT !.tx = @ + Written(Overhead + Truncated(n))]).rx = uart.rx
<1> DEFINE frame == Overhead + Truncated(n)
           u == [uart EXCEPT !.tx = @ + Written(frame)]
<1>1. n \in Nat /\ config.length \in Nat /\ Overhead \in Nat /\ LinkSize \in Nat
  BY RadioAssumption DEF Configs
<1>2. frame \in Nat
  BY <1>1 DEF Truncated
<1> HIDE DEF frame
<1>3. uart.tx \in 0..LinkSize
  BY DEF Uarts
<1>4. uart.tx + Written(frame) \in 0..LinkSize
  BY <1>1, <1>2, <1>3 DEF Written
<1>5. u \in Uarts /\ u.rx = uart.rx
  BY <1>4 DEF Uarts
<1> HIDE DEF u
<1>6. Kicked(u) \in Uarts /\ Kicked(u).rx = u.rx
  <2>1. CASE ~u.active /\ u.tx > 0
    <3>1. Kicked(u) = [u EXCEPT !.active = TRUE, !.tx = @ - 1]
      BY <2>1 DEF Kicked
    <3>2. u.tx \in 0..LinkSize
      BY <1>5 DEF Uarts
    <3>3. u.tx - 1 \in 0..LinkSize
      BY <1>1, <2>1, <3>2
    <3> QED BY <1>5, <3>1, <3>3 DEF Uarts
  <2>2. CASE ~(~u.active /\ u.tx > 0)
    BY <1>5, <2>2 DEF Kicked
  <2> QED BY <2>1, <2>2
<1> QED BY <1>5, <1>6 DEF u, frame

\* The calls that leave the queue and the buffer alone.
LEMMA CallsTypes ==
    ASSUME RadioTypes, NEW c \in Contexts,
           \/ OnCalled(c) \/ OffCalled(c) \/ Configures(c) \/ ReceiveCalled(c) \/ SendCalled(c)
    PROVE  RadioTypes' /\ UNCHANGED <<queue, buffer, air, sent, heard, valid, last>>
           /\ (uart'.rx = uart.rx \/ uart'.rx = <<>>)
<1>1. uart \in Uarts /\ Len(uart.rx) <= FifoSize /\ left \in Lefts /\ LinkSize \in Nat /\ FifoSize \in Nat
  BY RadioAssumption DEF RadioTypes, RadioTypeOK
<1>2. /\ radioOn \in BOOLEAN /\ config \in Configs
      /\ call \in [Contexts -> Waits \cup {"code"}] /\ polled \in [Contexts -> BOOLEAN]
  BY DEF RadioTypes, RadioTypeOK
<1>3. \E kind \in {"sends", "reads", "switches"} : Spends(kind)
  BY DEF OnCalled, OffCalled, Configures, ReceiveCalled, SendCalled, Starts
<1>4. left' \in Lefts /\ left'.messages <= left.messages
  BY <1>1, <1>3, SpendsFacts
<1>5. call' \in [Contexts -> Waits \cup {"code"}]
  BY <1>2, GoesFacts DEF OnCalled, OffCalled, Configures, ReceiveCalled, SendCalled, program, Waits
<1>6. uart' \in Uarts /\ (uart'.rx = uart.rx \/ uart'.rx = <<>>)
  <2>1. CASE OnCalled(c)
    <3>1. uart' = [uart EXCEPT !.configured = TRUE, !.rx = <<>>, !.tx = 0, !.active = FALSE]
      BY <2>1 DEF OnCalled
    <3>2. <<>> \in Seq(Bytes) /\ 0 \in 0..LinkSize
      BY <1>1, EmptySeq
    <3> QED BY <1>1, <3>1, <3>2 DEF Uarts
  <2>2. CASE OffCalled(c)
    BY <1>1, <2>2 DEF OffCalled, Uarts
  <2>3. CASE Configures(c) \/ ReceiveCalled(c)
    BY <1>1, <2>3 DEF Configures, ReceiveCalled
  <2>4. CASE SendCalled(c)
    BY <1>1, <1>2, <2>4, WrittenFacts DEF SendCalled
  <2> QED BY <2>1, <2>2, <2>3, <2>4
<1>7. Len(uart'.rx) <= FifoSize
  BY <1>1, <1>6
<1>8. radioOn' \in BOOLEAN /\ config' \in Configs /\ polled' = polled
  BY <1>2 DEF OnCalled, OffCalled, Configures, ReceiveCalled, SendCalled, module, program
<1>9. UNCHANGED <<queue, buffer, air, sent, heard, valid, last>>
  BY DEF OnCalled, OffCalled, Configures, ReceiveCalled, SendCalled, module, peers, radioHistory
<1> QED BY <1>1, <1>2, <1>4, <1>5, <1>6, <1>7, <1>8, <1>9, UartTypes

LEMMA WaitsTypes ==
    ASSUME RadioTypes, NEW c \in Contexts,
           \/ OnReturns(c) \/ OffReturns(c) \/ SendPolls(c) \/ SendReturns(c)
    PROVE  RadioTypes' /\ UNCHANGED <<queue, buffer, uart, air, sent, heard, valid, last>>
<1>1. uart \in Uarts /\ Len(uart.rx) <= FifoSize /\ left \in Lefts /\ MaxSent \in Nat
  BY RadioAssumption DEF RadioTypes, RadioTypeOK
<1>2. /\ radioOn \in BOOLEAN /\ config \in Configs
      /\ call \in [Contexts -> Waits \cup {"code"}] /\ polled \in [Contexts -> BOOLEAN]
  BY DEF RadioTypes, RadioTypeOK
<1>3. left' \in Lefts /\ left'.messages <= left.messages
  <2>1. left' = left
    BY DEF OnReturns, OffReturns, SendPolls, SendReturns, Returns
  <2> QED BY <1>1, <2>1 DEF Lefts
<1>4. call' \in [Contexts -> Waits \cup {"code"}]
  BY <1>2, GoesFacts DEF OnReturns, OffReturns, SendPolls, SendReturns, Waits
<1>5. polled' \in [Contexts -> BOOLEAN]
  <2>1. Busy \in BOOLEAN
    BY <1>1 DEF Busy, Uarts
  <2> QED BY <1>2, <2>1 DEF OnReturns, OffReturns, SendPolls, SendReturns
<1>6. radioOn' = radioOn /\ config' = config
      /\ UNCHANGED <<queue, buffer, uart, air, sent, heard, valid, last>>
  BY DEF OnReturns, OffReturns, SendPolls, SendReturns, module, peers, radioHistory
<1> QED BY <1>1, <1>2, <1>3, <1>4, <1>5, <1>6, UartTypes

LEMMA ForgetsTypes ==
    ASSUME RadioTypes, NEW c \in Contexts, OnInitialised(c)
    PROVE  RadioTypes'
<1>1. <<>> \in Seq(Payloads) /\ <<>> \in Seq(Bytes) /\ <<>> \in Seq(Loose) /\ <<>> \in Seq(Found)
      /\ Len(<<>>) = 0
  BY EmptySeq
<1>2. call' \in [Contexts -> Waits \cup {"code"}]
  BY GoesFacts DEF OnInitialised, Waits, RadioTypes, RadioTypeOK
<1>3. /\ queue' = <<>> /\ buffer' = <<>> /\ radioOn' = TRUE /\ heard' = <<>> /\ valid' = <<>>
      /\ UNCHANGED <<config, uart, polled, air, sent, last, left>>
  BY DEF OnInitialised, Forgets, Returns, peers
<1> QED BY <1>1, <1>2, <1>3 DEF RadioTypes, RadioTypeOK

\* A message that is taken is the first of the queue.
LEMMA TakenFacts ==
    ASSUME NEW q \in Seq(Payloads), last \in [Peers -> 0..MaxSent], Taken(q)
    PROVE  /\ queue' \in Seq(Payloads) /\ last' \in [Peers -> 0..MaxSent]
           /\ q = <<>> => queue' = q /\ last' = last
           /\ q # <<>> => \E p \in Peers, n \in 1..MaxSent :
                /\ Head(q) = PayloadOf(p, n) /\ queue' = Tail(q)
                /\ last' = [last EXCEPT ![p] = n]
<1>1. CASE q = <<>>
  BY <1>1 DEF Taken
<1>2. CASE q # <<>>
  <2>1. Head(q) \in Payloads /\ Tail(q) \in Seq(Payloads)
    BY <1>2, HeadTailProperties
  <2>2. PICK m \in MessageNames : Head(q) = PayloadOf(m[1], m[2])
    BY <2>1 DEF Payloads
  <2>3. m[1] \in Peers /\ m[2] \in 1..MaxSent
    BY DEF MessageNames
  <2>4. Named(Head(q)) = <<m[1], m[2]>>
    BY <2>2, <2>3, PayloadFacts
  <2>5. last' = [last EXCEPT ![m[1]] = m[2]] /\ queue' = Tail(q)
    <3>1. /\ queue' = (IF q = <<>> THEN q ELSE Tail(q))
          /\ last' = IF q = <<>> THEN last
                     ELSE [last EXCEPT ![Named(Head(q))[1]] = Named(Head(q))[2]]
      BY DEF Taken
    <3>2. Named(Head(q))[1] = m[1] /\ Named(Head(q))[2] = m[2]
      BY <2>4
    <3> QED BY <1>2, <3>1, <3>2
  <2>6. last' \in [Peers -> 0..MaxSent]
    BY <2>3, <2>5, RadioAssumption
  <2> QED BY <1>2, <2>1, <2>2, <2>3, <2>5, <2>6
<1> QED BY <1>1, <1>2

LEMMA ReceivesOffTypes ==
    ASSUME RadioTypes, NEW c \in Contexts, ReceivesOff(c)
    PROVE  RadioTypes'
<1>1. queue \in Seq(Payloads) /\ last \in [Peers -> 0..MaxSent] /\ left \in Lefts
      /\ sent \in [Peers -> 0..MaxSent] /\ MaxSent \in Nat
  BY RadioAssumption DEF RadioTypes, RadioTypeOK
<1>2. queue' \in Seq(Payloads) /\ last' \in [Peers -> 0..MaxSent]
  BY <1>1, TakenFacts DEF ReceivesOff
<1>3. left' \in Lefts /\ left'.messages <= left.messages
  BY <1>1, SpendsFacts DEF ReceivesOff, Starts
<1>4. \A q \in Peers : sent[q] + left'.messages <= MaxSent
  BY <1>3, BudgetFacts
<1>5. UNCHANGED <<radioOn, config, buffer, uart, call, polled, air, sent, heard, valid>>
  BY DEF ReceivesOff, program, peers
<1> QED BY <1>2, <1>3, <1>4, <1>5 DEF RadioTypes, RadioTypeOK

LEMMA CutFacts ==
    ASSUME NEW X, NEW s \in Seq(X)
    PROVE  /\ Cut(s) \in Seq(X) /\ Len(Cut(s)) <= Len(s)
           /\ Cut(s) = s \/ /\ Len(s) > MaxFrame /\ Len(s) - Kept \in 0..Len(s)
                            /\ Cut(s) = SubSeq(s, (Len(s) - Kept) + 1, Len(s))
           /\ \A W : Numbers(Cut(s), W) \subseteq Numbers(s, W) /\ (Rises(s, W) => Rises(Cut(s), W))
<1>1. Len(s) \in Nat /\ MaxFrame \in Nat /\ Kept \in 0..MaxFrame
  BY RadioAssumption, LenProperties
<1>2. CASE ~(Len(s) > MaxFrame)
  BY <1>1, <1>2 DEF Cut
<1>3. CASE Len(s) > MaxFrame
  <2> DEFINE k == Len(s) - Kept
             t == SubSeq(s, k + 1, Len(s))
  <2>1. Cut(s) = t
    BY <1>3 DEF Cut
  <2>2. k \in 0..Len(s)
    BY <1>1, <1>3
  <2>3. \A i \in (k + 1)..Len(s) : s[i] \in X
    BY <2>2, ElementOfSeq, <1>1
  <2>4. Len(t) = IF k + 1 <= Len(s) THEN Len(s) - (k + 1) + 1 ELSE 0
    <3> DEFINE m == k + 1
               n == Len(s)
    <3>1. m \in Int /\ n \in Int /\ \A i \in m..n : s[i] \in X
      BY <1>1, <2>2, <2>3
    <3> HIDE DEF m, n
    <3>2. Len(SubSeq(s, m, n)) = IF m <= n THEN n - m + 1 ELSE 0
      BY <3>1, SubSeqProperties
    <3> QED BY <3>2 DEF m, n
  <2>5. Len(t) <= Len(s)
    BY <1>1, <2>2, <2>4
  <2> HIDE DEF k
  <2>6. /\ t \in Seq(X)
        /\ \A W : Numbers(t, W) \subseteq Numbers(s, W) /\ (Rises(s, W) => Rises(t, W))
    BY <2>2, SuffixNumbers
  <2> QED BY <1>3, <2>1, <2>2, <2>5, <2>6 DEF k
<1> QED BY <1>2, <1>3

LEMMA ReceiveReturnsTypes ==
    ASSUME RadioTypes, NEW c \in Contexts, ReceiveReturns(c)
    PROVE  RadioTypes'
<1> DEFINE s == buffer \o uart.rx
           d == Drain(s)
<1>1. /\ queue \in Seq(Payloads) /\ last \in [Peers -> 0..MaxSent]
      /\ buffer \in Seq(Bytes) /\ heard \in Seq(Bytes) /\ uart.rx \in Seq(Bytes) /\ uart \in Uarts
      /\ Len(buffer) <= Len(heard) /\ valid \in Seq(Found) /\ FifoSize \in Nat
  BY RadioAssumption, NonLoose DEF RadioTypes, RadioTypeOK, Uarts
<1>2. /\ s \in Seq(Bytes) /\ Len(s) = Len(buffer) + Len(uart.rx)
      /\ heard \o uart.rx \in Seq(Bytes) /\ Len(heard \o uart.rx) = Len(heard) + Len(uart.rx)
      /\ Len(buffer) \in Nat /\ Len(heard) \in Nat /\ Len(uart.rx) \in Nat
  BY <1>1, ConcatProperties, LenProperties
<1>3. Drains(s, d)
  BY <1>1, <1>2, DrainFacts
<1>4. /\ buffer' = Cut(d.rest) /\ Taken(d.queue) /\ uart' = [uart EXCEPT !.rx = <<>>]
      /\ heard' = heard \o uart.rx /\ valid' = valid \o d.found
      /\ Goes(c, "code") /\ UNCHANGED <<radioOn, config, polled, air, sent, left>>
  BY DEF ReceiveReturns, Returns, peers
<1> HIDE DEF s, d
<1>5. d.rest \in Seq(Loose) /\ d.queue \in Seq(Payloads) /\ d.found \in Seq(Found) /\ Len(d.rest) <= Len(s)
  BY <1>3 DEF Drains
<1>6. buffer' \in Seq(Loose) /\ buffer' \in Seq(Bytes) /\ Len(buffer') <= Len(heard')
  <2>1. buffer' \in Seq(Loose) /\ Len(buffer') <= Len(d.rest)
    BY <1>4, <1>5, CutFacts
  <2>2. Len(d.rest) \in Nat /\ Len(buffer') \in Nat
    BY <1>5, <2>1, LenProperties
  <2> QED BY <1>1, <1>2, <1>4, <1>5, <2>1, <2>2, NonLoose
<1>7. queue' \in Seq(Payloads) /\ last' \in [Peers -> 0..MaxSent]
  BY <1>1, <1>4, <1>5, TakenFacts
<1>8. uart' \in Uarts /\ Len(uart'.rx) <= FifoSize
  <2>1. <<>> \in Seq(Bytes) /\ Len(<<>>) = 0
    BY EmptySeq
  <2>2. uart' \in Uarts /\ uart'.rx = <<>>
    BY <1>1, <1>4, <2>1 DEF Uarts
  <2> QED BY <1>1, <2>1, <2>2
<1>9. valid' \in Seq(Found)
  BY <1>1, <1>4, <1>5, ConcatProperties
<1>10. call' \in [Contexts -> Waits \cup {"code"}]
  BY <1>4, GoesFacts DEF RadioTypes, RadioTypeOK
<1> QED BY <1>2, <1>4, <1>6, <1>7, <1>8, <1>9, <1>10 DEF RadioTypes, RadioTypeOK

LEMMA InitTypes == RadioInit => RadioTypes
<1> SUFFICES ASSUME RadioInit PROVE RadioTypes
  OBVIOUS
<1>1. <<>> \in Seq(Payloads) /\ <<>> \in Seq(Bytes) /\ <<>> \in Seq(Loose) /\ <<>> \in Seq(Found)
      /\ Len(<<>>) = 0
  BY EmptySeq
<1>2. left \in Lefts /\ MaxSent \in Nat /\ LinkSize \in Nat /\ FifoSize \in Nat
  BY RadioAssumption DEF RadioInit, Lefts
<1>3. Default \in Configs
  BY DefaultAssumption
<1>4. uart \in Uarts /\ Len(uart.rx) <= FifoSize
  BY <1>1, <1>2 DEF RadioInit, Uarts
<1>5. \A p \in Peers : sent[p] + left.messages <= MaxSent
  BY <1>2 DEF RadioInit, Lefts
<1>6. call \in [Contexts -> Waits \cup {"code"}] /\ polled \in [Contexts -> BOOLEAN]
  BY DEF RadioInit
<1>7. /\ air \in [Peers -> Seq(Bytes)] /\ sent \in [Peers -> 0..MaxSent]
      /\ last \in [Peers -> 0..MaxSent]
  BY <1>1, <1>2 DEF RadioInit
<1>8. radioOn = FALSE /\ config = Default /\ queue = <<>> /\ buffer = <<>>
  BY DEF RadioInit
<1>9. RadioTypeOK
  BY <1>1, <1>3, <1>4, <1>6, <1>7, <1>8 DEF RadioTypeOK
<1>10. heard = <<>> /\ valid = <<>>
  BY DEF RadioInit
<1> QED BY <1>1, <1>2, <1>5, <1>8, <1>9, <1>10 DEF RadioTypes

LEMMA NextTypes == ASSUME RadioTypes, [RadioNext]_radioVars PROVE RadioTypes'
<1>1. CASE UNCHANGED radioVars
  BY <1>1 DEF RadioTypes, RadioTypeOK, radioVars, module, program, peers, radioHistory
<1>2. ASSUME NEW p \in Peers, PeerSends(p) \/ Arrives(p) \/ LostOnAir(p) PROVE RadioTypes'
  BY <1>2, PeerSendsTypes, ArrivesTypes
<1>3. CASE Noise \/ LinkAdvances
  BY <1>3, NoiseTypes
<1>4. ASSUME NEW c \in Contexts, Calls(c) \/ CallStep(c) PROVE RadioTypes'
  BY <1>4, CallsTypes, WaitsTypes, ForgetsTypes, ReceivesOffTypes, ReceiveReturnsTypes
     DEF Calls, CallStep
<1> QED BY <1>1, <1>2, <1>3, <1>4 DEF RadioNext

\* The variables of the radio keep their types, and what is queued was sent by a
\* peer, for any peers, payloads, settings and sizes of queues.
THEOREM RadioTypesKept == RadioSpec => []RadioTypeOK
<1>1. RadioInit => RadioTypes
  BY InitTypes
<1>2. RadioTypes /\ [RadioNext]_radioVars => RadioTypes'
  BY NextTypes
<1>3. RadioTypes => RadioTypeOK
  BY DEF RadioTypes
<1> QED BY <1>1, <1>2, <1>3, PTL DEF RadioSpec

-----------------------------------------------------------------------------
(* The order of the messages.  The numbers of a peer rise along the way: the *)
(* last one taken, those queued, those whose CRC is in the buffer, in the    *)
(* queue of the UART and on the air, up to the last one sent.                *)

Chain(l, q, b, r, a, n) ==
    /\ l \in Nat /\ n \in Nat /\ l <= n /\ (q \cup b \cup r \cup a) \subseteq 1..n
    /\ AllBelow({l}, q \cup b \cup r \cup a)
    /\ AllBelow(q, b \cup r \cup a) /\ AllBelow(b, r \cup a) /\ AllBelow(r, a)

OnTheWay(p) ==
    Chain(last[p], Numbers(queue, PayloadsOf(p)), Numbers(buffer, CrcsOf(p)),
          Numbers(uart.rx, CrcsOf(p)), Numbers(air[p], CrcsOf(p)), sent[p])

InOrder(p) ==
    /\ Rises(queue, PayloadsOf(p)) /\ Rises(buffer, CrcsOf(p))
    /\ Rises(uart.rx, CrcsOf(p)) /\ Rises(air[p], CrcsOf(p))
    /\ OnTheWay(p)
    /\ \A o \in Peers \ {p} : Numbers(air[o], CrcsOf(p)) = {}

OrderInv == RadioTypes /\ \A p \in Peers : InOrder(p)

\* Some are lost on the way.
LEMMA ChainLoses ==
    ASSUME NEW l, NEW q, NEW b, NEW r, NEW a, NEW n, Chain(l, q, b, r, a, n),
           NEW qq, NEW bb, NEW rr, NEW aa, qq \subseteq q, bb \subseteq b, rr \subseteq r, aa \subseteq a
    PROVE  Chain(l, qq, bb, rr, aa, n)
BY DEF Chain, AllBelow

\* One more is sent.
LEMMA ChainGrows ==
    ASSUME NEW l, NEW q, NEW b, NEW r, NEW n, Chain(l, q, b, r, {}, n)
    PROVE  Chain(l, q, b, r, {n + 1}, n + 1)
<1>1. /\ l \in Nat /\ n \in Nat /\ l <= n /\ (q \cup b \cup r) \subseteq 1..n
      /\ AllBelow({l}, q \cup b \cup r) /\ AllBelow(q, b \cup r) /\ AllBelow(b, r)
  BY DEF Chain, AllBelow
<1>2. (q \cup b \cup r \cup {n + 1}) \subseteq 1..(n + 1) /\ n + 1 \in Nat /\ l <= n + 1 /\ l < n + 1
  BY <1>1
<1>3. \A x \in q \cup b \cup r : x < n + 1
  BY <1>1
<1> QED BY <1>1, <1>2, <1>3 DEF Chain, AllBelow

\* One arrives.
LEMMA ChainArrives ==
    ASSUME NEW l, NEW q, NEW b, NEW r, NEW a, NEW n, Chain(l, q, b, r, a, n),
           NEW h, NEW t, a = h \cup t, AllBelow(h, t)
    PROVE  Chain(l, q, b, r \cup h, t, n)
BY DEF Chain, AllBelow

\* Those that have come are queued, in part.
LEMMA ChainDrains ==
    ASSUME NEW l, NEW q, NEW b, NEW r, NEW a, NEW n, Chain(l, q, b, r, a, n),
           NEW qq, NEW bb, qq \subseteq q \cup b \cup r, bb \subseteq b \cup r, AllBelow(qq, bb)
    PROVE  Chain(l, qq, bb, {}, a, n)
BY DEF Chain, AllBelow

\* The first of the queue is taken.
LEMMA ChainTakes ==
    ASSUME NEW l, NEW q, NEW b, NEW r, NEW a, NEW n, Chain(l, q, b, r, a, n),
           NEW x, NEW qq, q = {x} \cup qq, AllBelow({x}, qq)
    PROVE  Chain(x, qq, b, r, a, n)
<1>1. x \in 1..n /\ n \in Nat
  BY DEF Chain
<1>2. x \in Nat /\ x <= n
  BY <1>1
<1> QED BY <1>2 DEF Chain, AllBelow

LEMMA InOrderSame ==
    ASSUME NEW p \in Peers, InOrder(p),
           UNCHANGED <<queue, buffer, air, sent, last>>, uart'.rx = uart.rx
    PROVE  InOrder(p)'
BY DEF InOrder, OnTheWay

LEMMA SendsOrder ==
    ASSUME OrderInv, NEW o \in Peers, PeerSends(o), NEW p \in Peers
    PROVE  InOrder(p)'
<1> DEFINE W == CrcsOf(p)
           n == sent[o] + 1
<1>1. sent \in [Peers -> 0..MaxSent] /\ air \in [Peers -> Seq(Bytes)]
  BY DEF OrderInv, RadioTypes, RadioTypeOK
<1>2. n \in 1..MaxSent
  BY PeerSendsTypes DEF OrderInv
<1>3. PICK t \in Tunings : air' = [air EXCEPT ![o] = Frame(PayloadOf(o, n), t)]
  BY DEF PeerSends
<1> DEFINE f == Frame(PayloadOf(o, n), t)
<1>4. f \in Seq(Bytes) /\ Numbers(f, W) = (IF o = p THEN {n} ELSE {}) /\ Rises(f, W)
  BY <1>2, FrameFacts
<1> HIDE DEF f
<1>5. \A q \in Peers : air'[q] = IF q = o THEN f ELSE air[q]
  BY <1>1, <1>3 DEF f
<1>6. \A q \in Peers : sent'[q] = IF q = o THEN n ELSE sent[q]
  BY <1>1 DEF PeerSends
<1>7. air[o] = <<>> /\ UNCHANGED <<queue, buffer, uart, last>>
  BY DEF PeerSends, module, radioHistory
<1>8. InOrder(p)
  BY DEF OrderInv
<1>9. \A q \in Peers \ {p} : Numbers(air'[q], W) = {}
  BY <1>4, <1>5, <1>8 DEF InOrder
<1>10. Rises(air'[p], W)
  BY <1>4, <1>5, <1>8 DEF InOrder
<1>11. OnTheWay(p)'
  <2>1. CASE o = p
    <3>1. Numbers(air[p], W) = {}
      BY <1>7, <2>1, NoNumbers
    <3>2. Chain(last[p], Numbers(queue, PayloadsOf(p)), Numbers(buffer, W),
                Numbers(uart.rx, W), {}, sent[p])
      BY <1>8, <3>1 DEF InOrder, OnTheWay
    <3>3. Chain(last[p], Numbers(queue, PayloadsOf(p)), Numbers(buffer, W),
                Numbers(uart.rx, W), {sent[p] + 1}, sent[p] + 1)
      BY <3>2, ChainGrows
    <3>4. Numbers(air'[p], W) = {sent[p] + 1} /\ sent'[p] = sent[p] + 1
      BY <1>4, <1>5, <1>6, <2>1
    <3> QED BY <1>7, <3>3, <3>4 DEF OnTheWay
  <2>2. CASE o # p
    <3>1. air'[p] = air[p] /\ sent'[p] = sent[p]
      BY <1>5, <1>6, <2>2
    <3> QED BY <1>7, <1>8, <3>1 DEF InOrder, OnTheWay
  <2> QED BY <2>1, <2>2
<1> QED BY <1>7, <1>8, <1>9, <1>10, <1>11 DEF InOrder

\* A byte leaves the air: for the queue of the UART, or for nowhere.
LEMMA AirOrder ==
    ASSUME OrderInv, NEW o \in Peers, air[o] # <<>>, air' = [air EXCEPT ![o] = Tail(@)],
           uart'.rx = uart.rx \/ uart'.rx = Append(uart.rx, Head(air[o])),
           UNCHANGED <<queue, buffer, sent, last>>, NEW p \in Peers
    PROVE  InOrder(p)'
<1> DEFINE W == CrcsOf(p)
           h == Head(air[o])
           t == Tail(air[o])
           rx == uart.rx
           R == Numbers(rx, W)
           H == Of(h, W)
           T == Numbers(t, W)
<1>1. air \in [Peers -> Seq(Bytes)] /\ rx \in Seq(Bytes)
  BY DEF OrderInv, RadioTypes, RadioTypeOK, Uarts
<1>2. air[o] \in Seq(Bytes) /\ h \in Bytes /\ t \in Seq(Bytes)
  BY <1>1, HeadTailProperties
<1>3. /\ Numbers(air[o], W) = H \cup T
      /\ Rises(air[o], W) => Rises(t, W) /\ AllBelow(H, T)
  BY <1>2, TailNumbers
<1>4. /\ Numbers(Append(rx, h), W) = R \cup H
      /\ Rises(Append(rx, h), W) <=> Rises(rx, W) /\ AllBelow(R, H)
  BY <1>1, <1>2, AppendNumbers
<1>5. \A q \in Peers : air'[q] = IF q = o THEN t ELSE air[q]
  BY <1>1
<1>6. InOrder(p)
  BY DEF OrderInv
<1> HIDE DEF W, h, t, R, H, T
<1>7. \A q \in Peers \ {p} : Numbers(air'[q], W) = {}
  BY <1>3, <1>5, <1>6 DEF InOrder, W, T
<1>8. Rises(queue, PayloadsOf(p)) /\ Rises(buffer, W) /\ Rises(rx, W) /\ Rises(air[p], W)
  BY <1>6 DEF InOrder, W
<1>9. Chain(last[p], Numbers(queue, PayloadsOf(p)), Numbers(buffer, W), R, Numbers(air[p], W), sent[p])
  BY <1>6 DEF InOrder, OnTheWay, W, R
<1>10. CASE o = p
  <2>1. Rises(t, W) /\ AllBelow(H, T)
    BY <1>3, <1>8, <1>10
  <2>2. air'[p] = t
    BY <1>5, <1>10
  <2>3. CASE uart'.rx = rx
    <3>1. T \subseteq Numbers(air[p], W)
      BY <1>3, <1>10
    <3>2. Chain(last[p], Numbers(queue, PayloadsOf(p)), Numbers(buffer, W), R, T, sent[p])
      BY <1>9, <3>1, ChainLoses
    <3> QED BY <1>7, <1>8, <2>1, <2>2, <2>3, <3>2 DEF InOrder, OnTheWay, W, R, T
  <2>4. CASE uart'.rx = Append(rx, h)
    <3>1. Chain(last[p], Numbers(queue, PayloadsOf(p)), Numbers(buffer, W), R \cup H, T, sent[p])
      BY <1>3, <1>9, <1>10, <2>1, ChainArrives
    <3>2. AllBelow(R, H)
      BY <1>3, <1>9, <1>10 DEF Chain, AllBelow
    <3>3. Rises(uart'.rx, W) /\ Numbers(uart'.rx, W) = R \cup H
      BY <1>4, <1>8, <2>4, <3>2
    <3> QED BY <1>7, <1>8, <2>1, <2>2, <3>1, <3>3 DEF InOrder, OnTheWay, W, T
  <2> QED BY <2>3, <2>4 DEF h
<1>11. CASE o # p
  <2>1. H = {}
    <3>1. Numbers(air[o], W) = {}
      BY <1>6, <1>11 DEF InOrder, W
    <3> QED BY <1>3, <3>1
  <2>2. air'[p] = air[p]
    BY <1>5, <1>11
  <2>3. Rises(uart'.rx, W) /\ Numbers(uart'.rx, W) = R
    <3>1. CASE uart'.rx = rx
      BY <1>8, <3>1 DEF R
    <3>2. CASE uart'.rx = Append(rx, h)
      BY <1>4, <1>8, <2>1, <3>2 DEF AllBelow
    <3> QED BY <3>1, <3>2 DEF h
  <2> QED BY <1>7, <1>8, <1>9, <2>2, <2>3 DEF InOrder, OnTheWay, W, R
<1> QED BY <1>10, <1>11

LEMMA ArrivesOrder ==
    ASSUME OrderInv, NEW o \in Peers, Arrives(o) \/ LostOnAir(o), NEW p \in Peers
    PROVE  InOrder(p)'
<1>1. air \in [Peers -> Seq(Bytes)] /\ uart \in Uarts /\ Len(uart.rx) <= FifoSize
  BY DEF OrderInv, RadioTypes, RadioTypeOK
<1>2. air[o] # <<>> /\ air' = [air EXCEPT ![o] = Tail(@)] /\ UNCHANGED <<queue, buffer, sent, last>>
  BY DEF Arrives, LostOnAir, module, radioHistory
<1>3. Head(air[o]) \in Bytes
  BY <1>1, <1>2, HeadTailProperties
<1>4. uart' = uart \/ uart' = Received(uart, Head(air[o]))
  BY DEF Arrives, LostOnAir
<1>5. uart'.rx = uart.rx \/ uart'.rx = Append(uart.rx, Head(air[o]))
  BY <1>1, <1>3, <1>4, ReceivedFacts
<1> QED BY <1>2, <1>5, AirOrder

LEMMA NoiseOrder ==
    ASSUME OrderInv, Noise \/ LinkAdvances, NEW p \in Peers
    PROVE  InOrder(p)'
<1> DEFINE W == CrcsOf(p)
<1>1. uart \in Uarts /\ Len(uart.rx) <= FifoSize /\ uart.rx \in Seq(Bytes)
  BY DEF OrderInv, RadioTypes, RadioTypeOK, Uarts
<1>2. UNCHANGED <<queue, buffer, air, sent, last>> /\ InOrder(p)
  BY DEF Noise, LinkAdvances, module, peers, radioHistory, OrderInv
<1>3. CASE LinkAdvances
  <2>1. uart'.rx = uart.rx
    BY <1>1, <1>3 DEF LinkAdvances, Uarts
  <2> QED BY <1>2, <2>1, InOrderSame
<1>4. CASE Noise
  <2>1. PICK b \in {DEL, ESC} : uart' = Received(uart, b)
    BY <1>4 DEF Noise
  <2>2. b \in Plain /\ b \in Bytes
    BY CodeFacts DEF Codes
  <2>3. uart'.rx = uart.rx \/ uart'.rx = Append(uart.rx, b)
    BY <1>1, <2>1, <2>2, ReceivedFacts
  <2>4. Of(b, W) = {}
    BY <2>2, CrcFacts
  <2>5. /\ Numbers(Append(uart.rx, b), W) = Numbers(uart.rx, W) \cup Of(b, W)
        /\ Rises(Append(uart.rx, b), W)
             <=> Rises(uart.rx, W) /\ AllBelow(Numbers(uart.rx, W), Of(b, W))
    BY <1>1, <2>2, AppendNumbers
  <2>6. Rises(uart.rx, W)
    BY <1>2 DEF InOrder
  <2>7. Numbers(uart'.rx, W) = Numbers(uart.rx, W) /\ Rises(uart'.rx, W)
    BY <2>3, <2>4, <2>5, <2>6 DEF AllBelow
  <2> QED BY <1>2, <2>7 DEF InOrder, OnTheWay
<1> QED BY <1>3, <1>4

LEMMA CallsOrder ==
    ASSUME OrderInv, NEW c \in Contexts, NEW p \in Peers,
           \/ OnCalled(c) \/ OffCalled(c) \/ Configures(c) \/ ReceiveCalled(c) \/ SendCalled(c)
    PROVE  InOrder(p)'
<1> DEFINE W == CrcsOf(p)
<1>1. UNCHANGED <<queue, buffer, air, sent, last>> /\ (uart'.rx = uart.rx \/ uart'.rx = <<>>)
  BY CallsTypes DEF OrderInv
<1>2. InOrder(p)
  BY DEF OrderInv
<1>3. Numbers(uart'.rx, W) \subseteq Numbers(uart.rx, W) /\ Rises(uart'.rx, W)
  BY <1>1, <1>2, NoNumbers DEF InOrder
<1>4. OnTheWay(p)'
  BY <1>1, <1>2, <1>3, ChainLoses DEF InOrder, OnTheWay
<1> QED BY <1>1, <1>2, <1>3, <1>4 DEF InOrder

LEMMA ForgetsOrder ==
    ASSUME OrderInv, NEW c \in Contexts, NEW p \in Peers, OnInitialised(c)
    PROVE  InOrder(p)'
<1>1. queue' = <<>> /\ buffer' = <<>> /\ UNCHANGED <<uart, air, sent, last>> /\ InOrder(p)
  BY DEF OnInitialised, Forgets, peers, OrderInv
<1>2. OnTheWay(p)'
  <2>1. Numbers(queue', PayloadsOf(p)) = {} /\ Numbers(buffer', CrcsOf(p)) = {}
    BY <1>1, NoNumbers
  <2>2. Chain(last[p], {}, {}, Numbers(uart.rx, CrcsOf(p)), Numbers(air[p], CrcsOf(p)), sent[p])
    BY <1>1, ChainLoses DEF InOrder, OnTheWay
  <2> QED BY <1>1, <2>1, <2>2 DEF OnTheWay
<1> QED BY <1>1, <1>2, NoNumbers DEF InOrder

\* A message is taken of a queue that follows the last one.
LEMMA TakesOrder ==
    ASSUME OrderInv, NEW q \in Seq(Payloads), Taken(q), NEW p \in Peers, Rises(q, PayloadsOf(p)),
           NEW b, NEW r, NEW a,
           Chain(last[p], Numbers(q, PayloadsOf(p)), b, r, a, sent[p])
    PROVE  /\ Rises(queue', PayloadsOf(p))
           /\ Chain(last'[p], Numbers(queue', PayloadsOf(p)), b, r, a, sent[p])
<1> DEFINE V == PayloadsOf(p)
<1>1. last \in [Peers -> 0..MaxSent]
  BY DEF OrderInv, RadioTypes, RadioTypeOK
<1>2. /\ q = <<>> => queue' = q /\ last' = last
      /\ q # <<>> => \E o \in Peers, n \in 1..MaxSent :
           /\ Head(q) = PayloadOf(o, n) /\ queue' = Tail(q)
           /\ last' = [last EXCEPT ![o] = n]
  BY <1>1, TakenFacts
<1>3. CASE q = <<>>
  BY <1>2, <1>3
<1>4. CASE q # <<>>
  <2>1. PICK o \in Peers, n \in 1..MaxSent :
           /\ Head(q) = PayloadOf(o, n) /\ queue' = Tail(q) /\ last' = [last EXCEPT ![o] = n]
    BY <1>2, <1>4
  <2>2. /\ Numbers(q, V) = Of(Head(q), V) \cup Numbers(Tail(q), V)
        /\ Rises(Tail(q), V) /\ AllBelow(Of(Head(q), V), Numbers(Tail(q), V))
    BY <1>4, TailNumbers
  <2>3. Of(Head(q), V) = IF o = p THEN {n} ELSE {}
    BY <2>1, NameFacts
  <2>4. last'[p] = IF o = p THEN n ELSE last[p]
    BY <1>1, <2>1
  <2> DEFINE Q == Numbers(q, V)
             T == Numbers(Tail(q), V)
  <2>5. CASE o = p
    <3>1. Q = {n} \cup T /\ AllBelow({n}, T) /\ Chain(last[p], Q, b, r, a, sent[p])
      BY <2>2, <2>3, <2>5
    <3> HIDE DEF Q, T
    <3>2. Chain(n, T, b, r, a, sent[p])
      BY <3>1, ChainTakes
    <3> QED BY <2>1, <2>2, <2>4, <2>5, <3>2 DEF T
  <2>6. CASE o # p
    <3>1. Q = T
      BY <2>2, <2>3, <2>6
    <3> QED BY <2>1, <2>2, <2>4, <2>6, <3>1
  <2> QED BY <2>5, <2>6
<1> QED BY <1>3, <1>4

LEMMA ReceivesOffOrder ==
    ASSUME OrderInv, NEW c \in Contexts, NEW p \in Peers, ReceivesOff(c)
    PROVE  InOrder(p)'
<1>1. Taken(queue) /\ UNCHANGED <<buffer, uart, air, sent>> /\ InOrder(p) /\ queue \in Seq(Payloads)
  BY DEF ReceivesOff, peers, OrderInv, RadioTypes, RadioTypeOK
<1>2. Rises(queue, PayloadsOf(p)) /\ OnTheWay(p)
  BY <1>1 DEF InOrder
<1> DEFINE b == Numbers(buffer, CrcsOf(p))
           r == Numbers(uart.rx, CrcsOf(p))
           a == Numbers(air[p], CrcsOf(p))
<1>3. Chain(last[p], Numbers(queue, PayloadsOf(p)), b, r, a, sent[p])
  BY <1>2 DEF OnTheWay
<1> HIDE DEF b, r, a
<1>4. /\ Rises(queue', PayloadsOf(p))
      /\ Chain(last'[p], Numbers(queue', PayloadsOf(p)), b, r, a, sent[p])
  BY <1>1, <1>2, <1>3, TakesOrder
<1> QED BY <1>1, <1>4 DEF InOrder, OnTheWay, b, r, a

LEMMA ReceiveReturnsOrder ==
    ASSUME OrderInv, NEW c \in Contexts, NEW p \in Peers, ReceiveReturns(c)
    PROVE  InOrder(p)'
<1> DEFINE W == CrcsOf(p)
           V == PayloadsOf(p)
           s == buffer \o uart.rx
           d == Drain(s)
           Q == Numbers(queue, V)
           B == Numbers(buffer, W)
           R == Numbers(uart.rx, W)
           A == Numbers(air[p], W)
           D == Numbers(d.queue, V)
<1>1. /\ queue \in Seq(Payloads) /\ buffer \in Seq(Bytes) /\ heard \in Seq(Bytes)
      /\ uart.rx \in Seq(Bytes) /\ Len(buffer) <= Len(heard) /\ uart \in Uarts
  BY NonLoose DEF OrderInv, RadioTypes, RadioTypeOK, Uarts
<1>2. s \in Seq(Bytes)
  BY <1>1, ConcatProperties
<1>3. Drains(s, d)
  BY <1>1, <1>2, DrainFacts
<1>4. /\ buffer' = Cut(d.rest) /\ Taken(d.queue) /\ uart' = [uart EXCEPT !.rx = <<>>]
      /\ UNCHANGED <<air, sent>>
  BY DEF ReceiveReturns, peers
<1>5. InOrder(p)
  BY DEF OrderInv
<1>6. /\ Rises(queue, V) /\ Rises(buffer, W) /\ Rises(uart.rx, W) /\ Rises(air[p], W)
      /\ Chain(last[p], Q, B, R, A, sent[p])
  BY <1>5 DEF InOrder, OnTheWay
<1>7. /\ Numbers(s, W) = B \cup R
      /\ Rises(buffer, W) /\ Rises(uart.rx, W) /\ AllBelow(B, R) => Rises(s, W)
  BY <1>1, ConcatNumbers
<1> HIDE DEF s, d
<1>8. /\ d.rest \in Seq(Loose) /\ d.queue \in Seq(Payloads)
      /\ Numbers(d.rest, W) \subseteq Numbers(s, W) /\ D \subseteq Q \cup Numbers(s, W)
      /\ (Rises(s, W) /\ Rises(queue, V) /\ AllBelow(Q, Numbers(s, W)))
           => Rises(d.rest, W) /\ Rises(d.queue, V) /\ AllBelow(D, Numbers(d.rest, W))
  BY <1>3 DEF Drains
<1> DEFINE C == Numbers(Cut(d.rest), W)
<1>9. C \subseteq Numbers(d.rest, W) /\ (Rises(d.rest, W) => Rises(Cut(d.rest), W))
  BY <1>8, CutFacts
<1> HIDE DEF W, V, Q, B, R, A, D, C
<1>10. AllBelow(B, R) /\ AllBelow(Q, B \cup R)
  BY <1>6 DEF Chain, AllBelow
<1>11. Rises(d.rest, W) /\ Rises(d.queue, V) /\ AllBelow(D, Numbers(d.rest, W))
  BY <1>6, <1>7, <1>8, <1>10
<1>12. D \subseteq Q \cup B \cup R /\ C \subseteq B \cup R /\ AllBelow(D, C)
  BY <1>7, <1>8, <1>9, <1>11 DEF AllBelow
<1>13. Chain(last[p], D, C, {}, A, sent[p])
  BY <1>6, <1>12, ChainDrains
<1>14. Rises(queue', V) /\ Chain(last'[p], Numbers(queue', V), C, {}, A, sent[p])
  BY <1>4, <1>8, <1>11, <1>13, TakesOrder DEF V, D
<1>15. uart'.rx = <<>> /\ Numbers(<<>>, W) = {} /\ Rises(<<>>, W)
  BY <1>1, <1>4, NoNumbers DEF Uarts
<1>16. \A o \in Peers \ {p} : Numbers(air[o], W) = {}
  BY <1>5 DEF InOrder, W
<1>17. Rises(buffer', W) /\ Numbers(buffer', W) = C
  BY <1>4, <1>9, <1>11 DEF C
<1> QED BY <1>4, <1>6, <1>14, <1>15, <1>16, <1>17 DEF InOrder, OnTheWay, W, V, A

LEMMA InitOrder == RadioInit => OrderInv
<1> SUFFICES ASSUME RadioInit PROVE OrderInv
  OBVIOUS
<1>1. RadioTypes
  BY InitTypes
<1>2. ASSUME NEW p \in Peers PROVE InOrder(p)
  <2>1. /\ queue = <<>> /\ buffer = <<>> /\ uart.rx = <<>> /\ last[p] = 0 /\ sent[p] = 0
        /\ \A o \in Peers : air[o] = <<>>
    BY DEF RadioInit
  <2>2. Chain(0, {}, {}, {}, {}, 0)
    BY DEF Chain, AllBelow
  <2>3. \A V : Numbers(<<>>, V) = {} /\ Rises(<<>>, V)
    BY NoNumbers
  <2> QED BY <2>1, <2>2, <2>3 DEF InOrder, OnTheWay
<1> QED BY <1>1, <1>2 DEF OrderInv

LEMMA NextOrder == ASSUME OrderInv, [RadioNext]_radioVars PROVE OrderInv'
<1>1. RadioTypes'
  BY NextTypes DEF OrderInv
<1>2. ASSUME NEW p \in Peers PROVE InOrder(p)'
  <2>1. CASE UNCHANGED radioVars
    BY <2>1 DEF radioVars, module, peers, radioHistory, OrderInv, InOrder, OnTheWay
  <2>2. ASSUME NEW o \in Peers, PeerSends(o) \/ Arrives(o) \/ LostOnAir(o) PROVE InOrder(p)'
    BY <2>2, SendsOrder, ArrivesOrder
  <2>3. CASE Noise \/ LinkAdvances
    BY <2>3, NoiseOrder
  <2>4. ASSUME NEW c \in Contexts, Calls(c) \/ CallStep(c) PROVE InOrder(p)'
    <3>1. CASE OnReturns(c) \/ OffReturns(c) \/ SendPolls(c) \/ SendReturns(c)
      BY <3>1, WaitsTypes, InOrderSame DEF OrderInv
    <3> QED BY <2>4, <3>1, CallsOrder, ForgetsOrder, ReceivesOffOrder, ReceiveReturnsOrder
            DEF Calls, CallStep
  <2> QED BY <2>1, <2>2, <2>3, <2>4 DEF RadioNext
<1> QED BY <1>1, <1>2 DEF OrderInv

LEMMA InOrderKeeps == OrderInv => KeepsOrder
<1> SUFFICES ASSUME OrderInv, NEW i \in DOMAIN queue
             PROVE  LET m == Named(queue[i])
                    IN /\ last[m[1]] < m[2]
                       /\ \A j \in 1..(i - 1) :
                            Named(queue[j])[1] = m[1] => Named(queue[j])[2] < m[2]
  BY DEF KeepsOrder
<1>1. queue \in Seq(Payloads) /\ Len(queue) \in Nat /\ DOMAIN queue = 1..Len(queue)
  BY LenProperties DEF OrderInv, RadioTypes, RadioTypeOK
<1>2. ASSUME NEW j \in DOMAIN queue
      PROVE  \E p \in Peers, n \in 1..MaxSent :
               /\ Named(queue[j]) = <<p, n>>
               /\ Of(queue[j], PayloadsOf(p)) = {n}
  <2>1. queue[j] \in Payloads
    BY <1>1, ElementOfSeq
  <2>2. PICK m \in MessageNames : queue[j] = PayloadOf(m[1], m[2])
    BY <2>1 DEF Payloads
  <2>3. m[1] \in Peers /\ m[2] \in 1..MaxSent
    BY DEF MessageNames
  <2> QED BY <2>2, <2>3, PayloadFacts, NameFacts
<1>3. PICK p \in Peers, n \in 1..MaxSent : Named(queue[i]) = <<p, n>> /\ Of(queue[i], PayloadsOf(p)) = {n}
  BY <1>2
<1> DEFINE V == PayloadsOf(p)
<1>4. Rises(queue, V) /\ OnTheWay(p)
  BY DEF OrderInv, InOrder
<1>5. n \in Numbers(queue, V)
  BY <1>3 DEF Numbers, Of
<1>6. last[p] < n
  BY <1>4, <1>5 DEF OnTheWay, Chain, AllBelow
<1>7. ASSUME NEW j \in 1..(i - 1), Named(queue[j])[1] = p PROVE Named(queue[j])[2] < n
  <2>1. j \in DOMAIN queue /\ j < i
    BY <1>1
  <2>2. PICK o \in Peers, k \in 1..MaxSent : Named(queue[j]) = <<o, k>> /\ Of(queue[j], PayloadsOf(o)) = {k}
    BY <1>2, <2>1
  <2>3. o = p /\ Named(queue[j])[2] = k
    BY <1>7, <2>2
  <2>4. AllBelow(Of(queue[j], V), Of(queue[i], V))
    BY <1>4, <2>1 DEF Rises
  <2>5. k < n
    BY <1>3, <2>2, <2>3, <2>4 DEF AllBelow
  <2> QED BY <2>3, <2>5
<1> QED BY <1>3, <1>6, <1>7

\* The messages of a peer are taken in the order it sent them and none twice, for
\* any number of peers, messages, bytes lost and added, sizes, and calls in the
\* middle of calls.
THEOREM OrderKept == RadioSpec => []KeepsOrder
<1>1. RadioInit => OrderInv
  BY InitOrder
<1>2. OrderInv /\ [RadioNext]_radioVars => OrderInv'
  BY NextOrder
<1>3. OrderInv => KeepsOrder
  BY InOrderKeeps
<1> QED BY <1>1, <1>2, <1>3, PTL DEF RadioSpec

-----------------------------------------------------------------------------
(* The stream: the buffer holds its end, from the last delimiter or, when    *)
(* that is further than any frame is long, from somewhere after it.          *)

Rising(v) == \A i, j \in DOMAIN v : i < j => v[i].at < v[j].at

Complete(h, v) ==
    \A p \in Pieces(h) :
      LET piece == SubSeq(h, p[1] + 1, p[2] - 1)
      IN IsFrame(piece) => \E i \in DOMAIN v : v[i] = [body |-> Body(piece), at |-> p[2]]

EndsPiece(h, x) ==
    \E p \in Pieces(h) : \E n \in (p[1] + 1)..(p[2] - 1) :
      LET end == SubSeq(h, n, p[2] - 1)
      IN IsFrame(end) /\ x = [body |-> Body(end), at |-> p[2]]

Sound(h, v) == \A i \in DOMAIN v : EndsPiece(h, v[i])

WholeIn(h, v) == Rising(v) /\ Complete(h, v) /\ Sound(h, v)

Held(h, rest) ==
    \E k \in Delimiters(h) \cup {0} : \E m \in k..Len(h) :
      /\ \A i \in Delimiters(h) : i <= k
      /\ rest = SubSeq(h, m + 1, Len(h))
      /\ m = k \/ Len(h) - k > MaxFrame

LEMMA PartFacts ==
    ASSUME NEW X, NEW s \in Seq(X), NEW m \in Nat, NEW n \in 0..Len(s)
    PROVE  /\ SubSeq(s, m + 1, n) \in Seq(X)
           /\ Len(SubSeq(s, m + 1, n)) = IF m < n THEN n - m ELSE 0
           /\ \A i \in 1..(n - m) : m + i \in 1..n /\ SubSeq(s, m + 1, n)[i] = s[m + i]
<1>1. Len(s) \in Nat
  BY LenProperties
<1>2. n \in Nat /\ \A i \in (m + 1)..n : s[i] \in X
  BY <1>1, ElementOfSeq
<1> DEFINE a == m + 1
           t == SubSeq(s, a, n)
<1>3. a \in Int /\ n \in Int /\ \A i \in a..n : s[i] \in X
  BY <1>2
<1> HIDE DEF a
<1>4. /\ t \in Seq(X) /\ Len(t) = IF a <= n THEN n - a + 1 ELSE 0
      /\ \A i \in 1..(n - a + 1) : t[i] = s[a + i - 1]
  BY <1>3, SubSeqProperties
<1> HIDE DEF t
<1>5. n - a + 1 = n - m /\ (a <= n <=> m < n)
  BY <1>2 DEF a
<1>6. \A i \in 1..(n - m) : m + i \in 1..n /\ a + i - 1 = m + i
  BY <1>2 DEF a
<1> QED BY <1>4, <1>5, <1>6 DEF t, a

\* One more byte: the stream before stays, and a part up to the end grows.
LEMMA PartStep ==
    ASSUME NEW X, NEW s \in Seq(X), NEW b \in X, NEW m \in Nat
    PROVE  /\ \A n \in 0..Len(s) : SubSeq(Append(s, b), m + 1, n) = SubSeq(s, m + 1, n)
           /\ m <= Len(s) => SubSeq(Append(s, b), m + 1, Len(s) + 1)
                               = Append(SubSeq(s, m + 1, Len(s)), b)
<1> DEFINE N == Len(s)
           t == Append(s, b)
<1>1. /\ N \in Nat /\ t \in Seq(X) /\ Len(t) = N + 1 /\ t[N + 1] = b
      /\ \A i \in 1..N : t[i] = s[i]
  BY LenProperties, AppendProperties
<1> HIDE DEF t
<1>2. ASSUME NEW n \in 0..N PROVE SubSeq(t, m + 1, n) = SubSeq(s, m + 1, n)
  <2> DEFINE x == SubSeq(s, m + 1, n)
             y == SubSeq(t, m + 1, n)
  <2>1. n \in 0..Len(t) /\ n \in Nat
    BY <1>1
  <2>2. /\ x \in Seq(X) /\ Len(x) = IF m < n THEN n - m ELSE 0
        /\ \A i \in 1..(n - m) : m + i \in 1..n /\ x[i] = s[m + i]
    BY PartFacts
  <2>3. /\ y \in Seq(X) /\ Len(y) = IF m < n THEN n - m ELSE 0
        /\ \A i \in 1..(n - m) : m + i \in 1..n /\ y[i] = t[m + i]
    BY <1>1, <2>1, PartFacts
  <2> HIDE DEF x, y, N
  <2>4. \A i \in 1..(IF m < n THEN n - m ELSE 0) : i \in 1..(n - m)
    BY <2>1
  <2>5. \A i \in 1..n : i \in 1..N
    BY <1>1, <2>1
  <2>6. \A i \in 1..Len(x) : x[i] = y[i]
    BY <1>1, <2>2, <2>3, <2>4, <2>5
  <2>7. x = y
    BY <2>2, <2>3, <2>6, SeqEqual
  <2> QED BY <2>7 DEF x, y
<1>3. ASSUME m <= N PROVE SubSeq(t, m + 1, N + 1) = Append(SubSeq(s, m + 1, N), b)
  <2> DEFINE x == SubSeq(s, m + 1, N)
             z == Append(x, b)
             y == SubSeq(t, m + 1, N + 1)
  <2>1. N \in 0..Len(s) /\ N + 1 \in 0..Len(t)
    BY <1>1
  <2>2. /\ x \in Seq(X) /\ Len(x) = IF m < N THEN N - m ELSE 0
        /\ \A i \in 1..(N - m) : m + i \in 1..N /\ x[i] = s[m + i]
    BY <2>1, PartFacts
  <2> DEFINE M == N + 1
  <2> HIDE DEF M, x, N
  <2>3. /\ SubSeq(t, m + 1, M) \in Seq(X) /\ Len(SubSeq(t, m + 1, M)) = IF m < M THEN M - m ELSE 0
        /\ \A i \in 1..(M - m) : m + i \in 1..M /\ SubSeq(t, m + 1, M)[i] = t[m + i]
    BY <1>1, <2>1, PartFacts DEF M
  <2>4. Len(x) = N - m
    BY <1>1, <1>3, <2>2
  <2>5. /\ z \in Seq(X) /\ Len(z) = (N - m) + 1 /\ z[(N - m) + 1] = b
        /\ \A i \in 1..(N - m) : z[i] = x[i]
    BY <2>2, <2>4, AppendProperties
  <2> HIDE DEF z
  <2>6. m < M /\ M - m = (N - m) + 1 /\ N - m \in Nat
    BY <1>1, <1>3 DEF M
  <2>7. y \in Seq(X) /\ Len(y) = (N - m) + 1 /\ \A i \in 1..((N - m) + 1) : y[i] = t[m + i]
    BY <2>3, <2>6 DEF M
  <2> HIDE DEF y
  <2>8. \A i \in 1..((N - m) + 1) : i \in 1..(N - m) \/ (i = (N - m) + 1 /\ m + i = N + 1)
    BY <1>1, <1>3
  <2>9. \A i \in 1..((N - m) + 1) : y[i] = z[i]
    BY <1>1, <2>2, <2>5, <2>7, <2>8
  <2>10. y = z
    BY <2>5, <2>7, <2>9, SeqEqual
  <2> QED BY <2>10 DEF y, z, x
<1> QED BY <1>2, <1>3 DEF t

LEMMA PieceStep ==
    ASSUME NEW h \in Seq(Bytes), NEW b \in Bytes
    PROVE  /\ Len(h) \in Nat /\ Delimiters(h) \subseteq 1..Len(h)
           /\ Delimiters(Append(h, b))
                = Delimiters(h) \cup IF b = DEL THEN {Len(h) + 1} ELSE {}
           /\ Pieces(h) \subseteq Pieces(Append(h, b))
           /\ \A p \in Pieces(Append(h, b)) : p \in Pieces(h) \/ (b = DEL /\ p[2] = Len(h) + 1)
           /\ \A p \in Pieces(h) :
                /\ p[1] \in 0..Len(h) /\ p[2] \in 1..Len(h) /\ p[1] < p[2]
                /\ p[2] \in Delimiters(h)
<1> DEFINE N == Len(h)
           t == Append(h, b)
           D == Delimiters(h)
           E == Delimiters(t)
<1>1. /\ N \in Nat /\ DOMAIN h = 1..N /\ DOMAIN t = 1..(N + 1) /\ t[N + 1] = b
      /\ \A i \in 1..N : t[i] = h[i]
  BY LenProperties, AppendProperties
<1> HIDE DEF N, t
<1>2. D \subseteq 1..N
  BY <1>1 DEF Delimiters
<1>3. E = D \cup IF b = DEL THEN {N + 1} ELSE {}
  <2>1. \A i : i \in 1..(N + 1) <=> i \in 1..N \/ i = N + 1
    BY <1>1
  <2>2. \A i : i \in D <=> i \in 1..N /\ h[i] = DEL
    BY <1>1 DEF Delimiters
  <2>3. \A i : i \in E <=> i \in 1..(N + 1) /\ t[i] = DEL
    BY <1>1 DEF Delimiters
  <2>4. N + 1 \in 1..(N + 1)
    BY <1>1
  <2> HIDE DEF D, E
  <2>5. \A i : i \in E <=> i \in D \/ (i = N + 1 /\ b = DEL)
    BY <1>1, <2>1, <2>2, <2>3, <2>4
  <2> QED BY <2>5
<1>4. \A p : p \in Pieces(h) <=> /\ p \in (D \cup {0}) \X D /\ p[1] < p[2]
                                 /\ \A i \in D : ~(p[1] < i /\ i < p[2])
  BY DEF Pieces
<1>5. \A p : p \in Pieces(t) <=> /\ p \in (E \cup {0}) \X E /\ p[1] < p[2]
                                 /\ \A i \in E : ~(p[1] < i /\ i < p[2])
  BY DEF Pieces
<1> HIDE DEF D, E
<1>6. ASSUME NEW p \in Pieces(h)
      PROVE  p[1] \in 0..N /\ p[2] \in 1..N /\ p[1] < p[2] /\ p[2] \in D
  <2>1. p \in (D \cup {0}) \X D /\ p[1] < p[2]
    BY <1>4
  <2>2. p[1] \in D \cup {0} /\ p[2] \in D
    BY <2>1
  <2>3. \A i \in D : i \in 1..N /\ i \in 0..N
    BY <1>1, <1>2
  <2>4. 0 \in 0..N
    BY <1>1
  <2> QED BY <2>1, <2>2, <2>3, <2>4
<1>7. ASSUME NEW p \in Pieces(h) PROVE p \in Pieces(t)
  <2>1. p \in (E \cup {0}) \X E /\ p[1] < p[2]
    BY <1>3, <1>4
  <2>2. \A i \in E : i \in D \/ i = N + 1
    BY <1>3
  <2>3. ~(N + 1 < p[2])
    BY <1>1, <1>6
  <2>4. \A i \in E : ~(p[1] < i /\ i < p[2])
    BY <1>4, <2>2, <2>3
  <2> QED BY <1>5, <2>1, <2>4
<1>8. ASSUME NEW p \in Pieces(t), ~(b = DEL /\ p[2] = N + 1) PROVE p \in Pieces(h)
  <2>1. /\ p \in (E \cup {0}) \X E /\ p[1] < p[2]
        /\ p[1] \in E \cup {0} /\ p[2] \in E
        /\ \A i \in E : ~(p[1] < i /\ i < p[2])
    BY <1>5
  <2>2. p[2] \in D
    BY <1>3, <1>8, <2>1
  <2>3. p[2] \in 1..N
    BY <1>2, <2>2
  <2>4. p[1] # N + 1
    BY <1>1, <2>1, <2>3
  <2>5. p[1] \in D \cup {0}
    BY <1>3, <2>1, <2>4
  <2>6. p \in (D \cup {0}) \X D
    BY <2>1, <2>2, <2>5
  <2>7. \A i \in D : ~(p[1] < i /\ i < p[2])
    BY <1>3, <2>1
  <2> QED BY <1>4, <2>1, <2>6, <2>7
<1> QED BY <1>1, <1>2, <1>3, <1>6, <1>7, <1>8 DEF N, t, D, E

\* A byte that is no delimiter changes no piece.
LEMMA WholeByte ==
    ASSUME NEW h \in Seq(Bytes), NEW v \in Seq(Found), NEW rest, NEW b \in Bytes, b # DEL,
           WholeIn(h, v), Held(h, rest)
    PROVE  WholeIn(Append(h, b), v) /\ Held(Append(h, b), Append(rest, b))
<1> DEFINE N == Len(h)
           t == Append(h, b)
<1>1. /\ N \in Nat /\ Delimiters(h) \subseteq 1..N /\ Delimiters(t) = Delimiters(h)
      /\ Pieces(t) = Pieces(h)
  BY PieceStep
<1>2. /\ Len(t) = N + 1 /\ \A p \in Pieces(h) : p[1] \in 0..N /\ p[2] \in 1..N
  BY PieceStep, AppendProperties
<1>3. \A m \in Nat, n \in 0..N : SubSeq(t, m + 1, n) = SubSeq(h, m + 1, n)
  BY PartStep
<1>4. \A m \in 0..N : SubSeq(t, m + 1, N + 1) = Append(SubSeq(h, m + 1, N), b)
  <2>1. \A m \in 0..N : m \in Nat /\ m <= Len(h)
    BY <1>1
  <2> QED BY <2>1, PartStep
<1> HIDE DEF t
<1>5. \A p \in Pieces(h) : /\ p[1] \in Nat /\ p[2] - 1 \in 0..N
                           /\ \A n \in (p[1] + 1)..(p[2] - 1) : n - 1 \in Nat /\ (n - 1) + 1 = n
  BY <1>1, <1>2
<1> HIDE DEF N
<1>6. \A p \in Pieces(h) : SubSeq(t, p[1] + 1, p[2] - 1) = SubSeq(h, p[1] + 1, p[2] - 1)
  BY <1>3, <1>5
<1>7. \A p \in Pieces(h) : \A n \in (p[1] + 1)..(p[2] - 1) :
        SubSeq(t, n, p[2] - 1) = SubSeq(h, n, p[2] - 1)
  BY <1>3, <1>5
<1>8. Complete(t, v)
  <2>1. ASSUME NEW p \in Pieces(h), IsFrame(SubSeq(t, p[1] + 1, p[2] - 1))
        PROVE  \E i \in DOMAIN v :
                 v[i] = [body |-> Body(SubSeq(t, p[1] + 1, p[2] - 1)), at |-> p[2]]
    <3>1. SubSeq(t, p[1] + 1, p[2] - 1) = SubSeq(h, p[1] + 1, p[2] - 1)
      BY <1>6
    <3> QED BY <2>1, <3>1 DEF WholeIn, Complete
  <2> QED BY <1>1, <2>1 DEF Complete
<1>9. ASSUME NEW x, EndsPiece(h, x) PROVE EndsPiece(t, x)
  <2>0. PICK p \in Pieces(h) : \E n \in (p[1] + 1)..(p[2] - 1) :
          IsFrame(SubSeq(h, n, p[2] - 1)) /\ x = [body |-> Body(SubSeq(h, n, p[2] - 1)), at |-> p[2]]
    BY <1>9 DEF EndsPiece
  <2>1. PICK n \in (p[1] + 1)..(p[2] - 1) :
          IsFrame(SubSeq(h, n, p[2] - 1)) /\ x = [body |-> Body(SubSeq(h, n, p[2] - 1)), at |-> p[2]]
    BY <2>0
  <2>2. SubSeq(t, n, p[2] - 1) = SubSeq(h, n, p[2] - 1) /\ p \in Pieces(t)
    BY <1>1, <1>7
  <2> QED BY <2>1, <2>2 DEF EndsPiece
<1>10. Sound(t, v)
  BY <1>9 DEF WholeIn, Sound
<1>11. Held(t, Append(rest, b))
  <2>0. PICK k \in Delimiters(h) \cup {0} : \E m \in k..N :
          /\ \A i \in Delimiters(h) : i <= k
          /\ rest = SubSeq(h, m + 1, N)
          /\ m = k \/ N - k > MaxFrame
    BY DEF Held, N
  <2>1. PICK m \in k..N :
          /\ \A i \in Delimiters(h) : i <= k
          /\ rest = SubSeq(h, m + 1, N)
          /\ m = k \/ N - k > MaxFrame
    BY <2>0
  <2>2. k \in 0..N
    BY <1>1
  <2>3. m \in 0..N /\ m \in k..(N + 1) /\ MaxFrame \in Nat
    BY <1>1, <2>2, RadioAssumption
  <2>4. Append(rest, b) = SubSeq(t, m + 1, N + 1)
    BY <1>4, <2>1, <2>3
  <2>5. m = k \/ (N + 1) - k > MaxFrame
    BY <1>1, <2>1, <2>2, <2>3
  <2> QED BY <1>1, <1>2, <2>1, <2>3, <2>4, <2>5 DEF Held
<1> QED BY <1>8, <1>10, <1>11 DEF WholeIn, t

\* What the buffer holds when a delimiter comes: a frame, if the piece of the
\* stream that ends there is one.
LEMMA HeldFrame ==
    ASSUME NEW h \in Seq(Bytes), NEW k \in Delimiters(h) \cup {0}, NEW m \in k..Len(h),
           \A i \in Delimiters(h) : i <= k,
           m = k \/ Len(h) - k > MaxFrame
    PROVE  /\ IsFrame(SubSeq(h, k + 1, Len(h))) => m = k
           /\ IsFrame(SubSeq(h, m + 1, Len(h))) => m + 1 \in (k + 1)..Len(h)
<1> DEFINE N == Len(h)
<1>1. N \in Nat /\ DOMAIN h = 1..N /\ MaxFrame \in Nat
  BY LenProperties, RadioAssumption
<1>2. k \in 0..N
  BY <1>1 DEF Delimiters
<1>3. m \in Nat
  BY <1>1, <1>2
<1>4. ASSUME NEW a \in k..N
      PROVE  /\ SubSeq(h, a + 1, N) \in Seq(Bytes \ {DEL})
             /\ Len(SubSeq(h, a + 1, N)) = IF a < N THEN N - a ELSE 0
  <2>1. a \in Nat /\ N \in 0..Len(h)
    BY <1>1, <1>2
  <2> DEFINE s == SubSeq(h, a + 1, N)
  <2>2. /\ s \in Seq(Bytes) /\ Len(s) = IF a < N THEN N - a ELSE 0
        /\ \A i \in 1..(N - a) : a + i \in 1..N /\ s[i] = h[a + i]
    BY <2>1, PartFacts
  <2> HIDE DEF s
  <2>3. \A i \in 1..(N - a) : a + i \notin Delimiters(h)
    <3>1. \A i \in 1..(N - a) : ~(a + i <= k)
      BY <1>1, <1>2, <2>1
    <3> QED BY <3>1
  <2>4. \A i \in 1..(N - a) : s[i] # DEL
    BY <1>1, <2>2, <2>3 DEF Delimiters
  <2>5. \A i \in 1..Len(s) : i \in 1..(N - a)
    <3> HIDE DEF N
    <3> QED BY <1>1, <1>2, <2>1, <2>2
  <2>6. \A i \in 1..Len(s) : s[i] \in Bytes \ {DEL}
    BY <2>2, <2>4, <2>5, ElementOfSeq
  <2>7. s \in Seq(Bytes \ {DEL})
    <3> DEFINE l == Len(s)
    <3>1. l \in Nat /\ s = [i \in 1..l |-> s[i]]
      BY <2>2, LenProperties
    <3> HIDE DEF l
    <3>2. s \in [1..l -> Bytes \ {DEL}]
      BY <2>6, <3>1 DEF l
    <3> QED BY <3>1, <3>2, SeqDef
  <2> QED BY <2>2, <2>7 DEF s
<1> HIDE DEF N
<1>5. k \in k..N
  BY <1>1, <1>2
<1>6. ASSUME IsFrame(SubSeq(h, k + 1, N)) PROVE m = k
  <2>1. Len(SubSeq(h, k + 1, N)) <= MaxFrame
    BY <1>4, <1>5, <1>6, FrameSent DEF Sent
  <2>2. N - k <= MaxFrame
    BY <1>1, <1>2, <1>4, <1>5, <2>1
  <2> QED BY <1>1, <1>2, <2>2 DEF N
<1>7. ASSUME IsFrame(SubSeq(h, m + 1, N)) PROVE m + 1 \in (k + 1)..N
  <2>1. SubSeq(h, m + 1, N) # <<>> /\ SubSeq(h, m + 1, N) \in Seq(Bytes \ {DEL}) /\ m \in k..N
    BY <1>4, <1>7, FrameSent DEF Sent, N
  <2>2. Len(SubSeq(h, m + 1, N)) # 0
    BY <2>1, EmptySeq
  <2>3. m < N
    BY <1>4, <2>1, <2>2
  <2> QED BY <1>1, <1>2, <2>1, <2>3
<1> QED BY <1>6, <1>7 DEF N

\* A delimiter ends one piece, which starts at the delimiter before.
LEMMA LastPiece ==
    ASSUME NEW h \in Seq(Bytes), NEW k \in Delimiters(h) \cup {0},
           \A i \in Delimiters(h) : i <= k
    PROVE  /\ <<k, Len(h) + 1>> \in Pieces(Append(h, DEL))
           /\ \A p \in Pieces(Append(h, DEL)) : p[2] = Len(h) + 1 => p[1] = k
<1> DEFINE N == Len(h)
           t == Append(h, DEL)
           D == Delimiters(h)
           E == Delimiters(t)
           q == <<k, N + 1>>
<1>1. DEL \in Bytes
  BY NonLoose
<1>2. N \in Nat /\ D \subseteq 1..N /\ E = D \cup {N + 1}
  BY <1>1, PieceStep
<1>3. \A p : p \in Pieces(t) <=> /\ p \in (E \cup {0}) \X E /\ p[1] < p[2]
                                 /\ \A i \in E : ~(p[1] < i /\ i < p[2])
  BY DEF Pieces
<1>4. k \in D \cup {0} /\ \A i \in D : i <= k
  OBVIOUS
<1> HIDE DEF N, t, D, E
<1>5. \A i \in D : i \in Nat /\ i <= N
  BY <1>2
<1>6. k \in 0..N
  BY <1>2, <1>4, <1>5
<1>7. q \in Pieces(t)
  <2>1. q \in (E \cup {0}) \X E /\ q[1] = k /\ q[2] = N + 1
    BY <1>2, <1>4
  <2>2. \A i \in E : ~(k < i /\ i < N + 1)
    BY <1>2, <1>4, <1>5, <1>6
  <2>3. k < N + 1
    BY <1>2, <1>6
  <2> HIDE DEF q
  <2> QED BY <1>3, <2>1, <2>2, <2>3
<1>8. ASSUME NEW p \in Pieces(t), p[2] = N + 1 PROVE p[1] = k
  <2>1. p \in (E \cup {0}) \X E /\ p[1] < p[2] /\ \A i \in E : ~(p[1] < i /\ i < p[2])
    BY <1>3
  <2>2. p[1] \in E \cup {0} /\ p[1] < N + 1
    BY <1>8, <2>1
  <2>3. p[1] \in D \cup {0}
    BY <1>2, <2>2
  <2>4. p[1] \in 0..N /\ p[1] <= k
    <3>1. \A i \in D \cup {0} : i \in 0..N /\ i <= k
      BY <1>2, <1>4, <1>5, <1>6
    <3> QED BY <2>3, <3>1
  <2>5. ~(k \in E /\ p[1] < k /\ k < N + 1)
    BY <1>8, <2>1
  <2>6. k < N + 1 /\ (k > 0 => k \in E)
    BY <1>2, <1>4, <1>6
  <2> QED BY <1>6, <2>4, <2>5, <2>6
<1> QED BY <1>7, <1>8 DEF N, t

\* A delimiter: the piece that it ends is found if it is a frame, and what is
\* found ends it.
LEMMA WholeDelimiter ==
    ASSUME NEW h \in Seq(Bytes), NEW v \in Seq(Found), NEW rest \in Seq(Loose),
           WholeIn(h, v), Held(h, rest), NEW w,
           w = IF IsFrame(rest) THEN Append(v, [body |-> Body(rest), at |-> Len(h) + 1]) ELSE v
    PROVE  WholeIn(Append(h, DEL), w) /\ Held(Append(h, DEL), <<>>)
<1> DEFINE N == Len(h)
           t == Append(h, DEL)
           M == N + 1
           x == [body |-> Body(rest), at |-> M]
           l == Len(v)
<1>1. DEL \in Bytes
  BY NonLoose
<1>2. /\ N \in Nat /\ Delimiters(h) \subseteq 1..N /\ Delimiters(t) = Delimiters(h) \cup {M}
      /\ Pieces(h) \subseteq Pieces(t) /\ \A p \in Pieces(t) : p \in Pieces(h) \/ p[2] = M
  BY <1>1, PieceStep
<1>3. \A p \in Pieces(h) : p[1] \in 0..N /\ p[2] \in 1..N /\ p[1] < p[2]
  BY <1>1, PieceStep
<1>4. t \in Seq(Bytes) /\ Len(t) = M
  BY <1>1, AppendProperties
<1>5. \A m \in Nat, n \in 0..N : SubSeq(t, m + 1, n) = SubSeq(h, m + 1, n)
  BY <1>1, PartStep
<1>6. \E k \in Delimiters(h) \cup {0} : \E m \in k..N :
        /\ \A i \in Delimiters(h) : i <= k
        /\ rest = SubSeq(h, m + 1, N)
        /\ m = k \/ N - k > MaxFrame
  BY DEF Held
<1>7. PICK k \in Delimiters(h) \cup {0} : \E m \in k..N :
        /\ \A i \in Delimiters(h) : i <= k
        /\ rest = SubSeq(h, m + 1, N)
        /\ m = k \/ N - k > MaxFrame
  BY <1>6
<1>8. PICK m \in k..N :
        /\ \A i \in Delimiters(h) : i <= k
        /\ rest = SubSeq(h, m + 1, N)
        /\ m = k \/ N - k > MaxFrame
  BY <1>7
<1>9. /\ <<k, M>> \in Pieces(t) /\ \A p \in Pieces(t) : p[2] = M => p[1] = k
  BY <1>8, LastPiece
<1>10. /\ IsFrame(SubSeq(h, k + 1, N)) => m = k
       /\ IsFrame(rest) => m + 1 \in (k + 1)..N
  BY <1>8, HeldFrame
<1>11. Body(rest) \in Seq(Bytes)
  BY UnescapeFacts DEF Body, Read, Loose
<1>12. /\ l \in Nat /\ DOMAIN v = 1..l
       /\ ~IsFrame(rest) => w = v
       /\ IsFrame(rest) => /\ DOMAIN w = 1..(l + 1) /\ w[l + 1] = x
                           /\ \A i \in 1..l : w[i] = v[i]
  <2>1. l \in Nat /\ DOMAIN v = 1..l
    BY LenProperties
  <2>2. x \in Found
    BY <1>2, <1>11 DEF Found
  <2> HIDE DEF x
  <2>3. /\ Append(v, x) \in Seq(Found) /\ Len(Append(v, x)) = l + 1 /\ Append(v, x)[l + 1] = x
        /\ \A i \in 1..l : Append(v, x)[i] = v[i]
    BY <2>2, AppendProperties
  <2>4. DOMAIN Append(v, x) = 1..(l + 1)
    BY <2>3, LenProperties
  <2>5. IsFrame(rest) => w = Append(v, x)
    BY DEF x
  <2> QED BY <2>1, <2>3, <2>4, <2>5
<1> HIDE DEF t, l
<1>13. /\ \A i \in DOMAIN v : i \in DOMAIN w /\ w[i] = v[i]
       /\ \A i \in DOMAIN w : i \in DOMAIN v \/ (IsFrame(rest) /\ i = l + 1 /\ w[i] = x)
  <2> HIDE DEF x
  <2>1. (\A i \in 1..l : i \in 1..(l + 1)) /\ \A i \in 1..(l + 1) : i \in 1..l \/ i = l + 1
    BY <1>12
  <2> QED BY <1>12, <2>1
<1>14. k \in Nat /\ m \in Nat /\ N \in 0..N /\ M - 1 = N
  BY <1>2
<1> HIDE DEF M, N
<1>15. \A p \in Pieces(h) : SubSeq(t, p[1] + 1, p[2] - 1) = SubSeq(h, p[1] + 1, p[2] - 1)
  <2>1. \A p \in Pieces(h) : p[1] \in Nat /\ p[2] - 1 \in 0..N
    BY <1>2, <1>3
  <2> QED BY <1>5, <2>1
<1>16. Complete(t, w)
  <2> SUFFICES ASSUME NEW p \in Pieces(t), IsFrame(SubSeq(t, p[1] + 1, p[2] - 1))
               PROVE  \E i \in DOMAIN w :
                        w[i] = [body |-> Body(SubSeq(t, p[1] + 1, p[2] - 1)), at |-> p[2]]
    BY DEF Complete
  <2>1. CASE p \in Pieces(h)
    <3>1. SubSeq(t, p[1] + 1, p[2] - 1) = SubSeq(h, p[1] + 1, p[2] - 1)
      BY <1>15, <2>1
    <3>2. \E i \in DOMAIN v :
             v[i] = [body |-> Body(SubSeq(h, p[1] + 1, p[2] - 1)), at |-> p[2]]
      BY <2>1, <3>1 DEF WholeIn, Complete
    <3> QED BY <1>13, <3>1, <3>2
  <2>2. CASE p \notin Pieces(h)
    <3>1. p[2] = M /\ p[1] = k
      BY <1>2, <1>9, <2>2
    <3>2. SubSeq(t, p[1] + 1, p[2] - 1) = SubSeq(h, k + 1, N)
      BY <1>5, <1>14, <3>1
    <3>3. m = k
      BY <1>10, <3>2
    <3>4. SubSeq(t, p[1] + 1, p[2] - 1) = rest
      BY <1>8, <3>2, <3>3
    <3>5. IsFrame(rest)
      BY <3>4
    <3>6. l + 1 \in DOMAIN w /\ w[l + 1] = x
      <4> HIDE DEF x
      <4>1. l + 1 \in 1..(l + 1)
        BY <1>12
      <4> QED BY <1>12, <3>5, <4>1
    <3> QED BY <3>1, <3>4, <3>6
  <2> QED BY <2>1, <2>2
<1>17. ASSUME NEW y, EndsPiece(h, y) PROVE EndsPiece(t, y) /\ y.at <= N
  <2>0. PICK p \in Pieces(h) : \E n \in (p[1] + 1)..(p[2] - 1) :
          IsFrame(SubSeq(h, n, p[2] - 1)) /\ y = [body |-> Body(SubSeq(h, n, p[2] - 1)), at |-> p[2]]
    BY <1>17 DEF EndsPiece
  <2>1. PICK n \in (p[1] + 1)..(p[2] - 1) :
          IsFrame(SubSeq(h, n, p[2] - 1)) /\ y = [body |-> Body(SubSeq(h, n, p[2] - 1)), at |-> p[2]]
    BY <2>0
  <2>2. p[1] \in 0..N /\ p[2] \in 1..N
    BY <1>3
  <2>3. n - 1 \in Nat /\ (n - 1) + 1 = n /\ p[2] - 1 \in 0..N
    BY <1>2, <2>2
  <2>4. SubSeq(t, n, p[2] - 1) = SubSeq(h, n, p[2] - 1)
    BY <1>5, <2>3
  <2>5. p \in Pieces(t) /\ y.at = p[2]
    BY <1>2, <2>1
  <2>6. EndsPiece(t, y)
    BY <2>1, <2>4, <2>5 DEF EndsPiece
  <2> QED BY <1>2, <2>2, <2>5, <2>6
<1>18. \A i \in DOMAIN v : EndsPiece(h, v[i])
  BY DEF WholeIn, Sound
<1>19. Sound(t, w)
  <2>1. ASSUME IsFrame(rest) PROVE EndsPiece(t, x)
    <3> DEFINE p == <<k, M>>
    <3>1. p \in Pieces(t) /\ p[1] = k /\ p[2] = M
      BY <1>9
    <3>2. m + 1 \in (k + 1)..(M - 1)
      BY <1>10, <1>14, <2>1
    <3>3. SubSeq(t, m + 1, M - 1) = rest
      BY <1>5, <1>8, <1>14
    <3> HIDE DEF p
    <3>4. IsFrame(SubSeq(t, m + 1, p[2] - 1))
          /\ x = [body |-> Body(SubSeq(t, m + 1, p[2] - 1)), at |-> p[2]]
      BY <2>1, <3>1, <3>3
    <3>5. m + 1 \in (p[1] + 1)..(p[2] - 1)
      BY <3>1, <3>2
    <3> HIDE DEF x
    <3> DEFINE n == m + 1
    <3>6. n \in (p[1] + 1)..(p[2] - 1) /\ IsFrame(SubSeq(t, n, p[2] - 1))
          /\ x = [body |-> Body(SubSeq(t, n, p[2] - 1)), at |-> p[2]]
      BY <3>4, <3>5
    <3> HIDE DEF n
    <3> QED BY <3>1, <3>6 DEF EndsPiece
  <2> HIDE DEF x
  <2>2. ASSUME NEW i \in DOMAIN w PROVE EndsPiece(t, w[i])
    <3>1. CASE i \in DOMAIN v
      BY <1>13, <1>17, <1>18, <3>1
    <3>2. CASE i \notin DOMAIN v
      BY <1>13, <2>1, <3>2
    <3> QED BY <3>1, <3>2
  <2> QED BY <2>2 DEF Sound
<1>20. Rising(w)
  <2> SUFFICES ASSUME NEW i \in DOMAIN w, NEW j \in DOMAIN w, i < j PROVE w[i].at < w[j].at
    BY DEF Rising
  <2>1. x.at = M
    OBVIOUS
  <2> HIDE DEF x
  <2>2. CASE j \in DOMAIN v
    <3>1. i \in DOMAIN v
      BY <1>12, <1>13, <2>2
    <3> QED BY <1>13, <2>2, <3>1 DEF WholeIn, Rising
  <2>3. CASE j \notin DOMAIN v
    <3>1. j = l + 1 /\ w[j] = x
      BY <1>13, <2>3
    <3>2. i \in DOMAIN v
      BY <1>12, <1>13, <3>1
    <3>3. w[i] = v[i] /\ v[i].at <= N
      BY <1>13, <1>17, <1>18, <3>2
    <3>4. v[i].at \in Nat
      <4>1. v[i] \in Found
        BY <1>12, <3>2, ElementOfSeq DEF l
      <4> QED BY <4>1 DEF Found
    <3>5. v[i].at < M
      BY <1>2, <1>14, <3>3, <3>4 DEF M
    <3> QED BY <2>1, <3>1, <3>3, <3>5
  <2> QED BY <2>2, <2>3
<1>21. Held(t, <<>>)
  <2>1. M \in Delimiters(t) /\ M \in M..M /\ \A i \in Delimiters(t) : i <= M
    <3>1. \A i \in 1..N : i <= M
      BY <1>2 DEF M
    <3>2. M \in Nat
      BY <1>2 DEF M
    <3>3. \A i \in Delimiters(t) : i \in 1..N \/ i = M
      BY <1>2
    <3>4. M \in Delimiters(t)
      BY <1>2
    <3> QED BY <3>1, <3>2, <3>3, <3>4
  <2>2. SubSeq(t, M + 1, M) = <<>>
    <3>1. M \in Int /\ M + 1 \in Int /\ M < M + 1
      BY <1>2 DEF M
    <3> QED BY <3>1, SubSeqEmpty
  <2> QED BY <1>4, <2>1, <2>2 DEF Held
<1> QED BY <1>16, <1>19, <1>20, <1>21 DEF WholeIn, t

\* One more element after two sequences.
LEMMA ConcatAppend ==
    ASSUME NEW X, NEW s \in Seq(X), NEW r \in Seq(X), NEW x \in X
    PROVE  s \o Append(r, x) = Append(s \o r, x) /\ s \o r \in Seq(X)
<1>1. <<x>> \in Seq(X) /\ s \o r \in Seq(X)
  BY ConcatProperties, AppendProperties
<1>2. Append(r, x) = r \o <<x>> /\ Append(s \o r, x) = (s \o r) \o <<x>>
  BY <1>1, AppendIsConcat
<1>3. (s \o r) \o <<x>> = s \o (r \o <<x>>)
  BY <1>1, ConcatAssociative
<1> QED BY <1>1, <1>2, <1>3

\* What the buffer keeps holds no delimiter: to read it again finds nothing.
LEMMA DrainLoose ==
    ASSUME NEW s \in Seq(Loose)
    PROVE  Drain(s) = [rest |-> s, queue |-> queue, found |-> <<>>]
<1> DEFINE T == {r \in Seq(Loose) : Drain(r) = [rest |-> r, queue |-> queue, found |-> <<>>]}
<1>1. <<>> \in T
  BY DrainStep, EmptySeq
<1>2. ASSUME NEW r \in Seq(Loose), NEW b \in Loose, r \in T PROVE Append(r, b) \in T
  <2> DEFINE place == Len(heard) - Len(buffer) + (Len(r) + 1)
  <2>1. Drain(Append(r, b)) = Drained(Drain(r), b, place)
    BY DrainStep
  <2> HIDE DEF place
  <2>2. b # DEL
    BY DEF Loose
  <2>3. Drained(Drain(r), b, place) = [Drain(r) EXCEPT !.rest = Append(@, b)]
    BY <2>2 DEF Drained
  <2>4. Drain(r) = [rest |-> r, queue |-> queue, found |-> <<>>]
    BY <1>2
  <2>5. [Drain(r) EXCEPT !.rest = Append(@, b)] = [rest |-> Append(r, b), queue |-> queue, found |-> <<>>]
    BY <2>4
  <2>6. Append(r, b) \in Seq(Loose)
    BY AppendProperties
  <2> QED BY <2>1, <2>3, <2>5, <2>6
<1>3. Seq(Loose) \subseteq T
  <2> HIDE DEF T
  <2> QED BY <1>1, <1>2, Unrolled
<1> QED BY <1>3

\* One byte more.
LEMMA WholeStep ==
    ASSUME NEW h \in Seq(Bytes), NEW v \in Seq(Found), NEW s, NEW d, Drains(s, d), NEW b \in Bytes,
           WholeIn(h, v \o d.found), Held(h, d.rest), NEW e, e = Drained(d, b, Len(h) + 1)
    PROVE  WholeIn(Append(h, b), v \o e.found) /\ Held(Append(h, b), e.rest)
<1>1. /\ d \in [rest : Seq(Loose), queue : Seq(Payloads), found : Seq(Found)]
      /\ d.rest \in Seq(Loose) /\ d.queue \in Seq(Payloads) /\ d.found \in Seq(Found)
  BY DEF Drains
<1> DEFINE f == v \o d.found
           place == Len(h) + 1
           x == [body |-> Body(d.rest), at |-> place]
<1>2. f \in Seq(Found)
  BY <1>1, ConcatProperties
<1>3. place \in Nat
  BY LenProperties
<1>4. CASE b # DEL
  <2>1. e = [d EXCEPT !.rest = Append(@, b)]
    BY <1>4 DEF Drained
  <2>2. e.rest = Append(d.rest, b) /\ e.found = d.found
    BY <1>1, <2>1
  <2> HIDE DEF f
  <2>3. WholeIn(h, f)
    BY DEF f
  <2>4. WholeIn(Append(h, b), f) /\ Held(Append(h, b), Append(d.rest, b))
    BY <1>2, <1>4, <2>3, WholeByte
  <2> QED BY <2>2, <2>4 DEF f
<1>5. CASE b = DEL
  <2> DEFINE w == IF IsFrame(d.rest) THEN Append(f, x) ELSE f
  <2>1. e = Accepted(d, place)
    BY <1>5 DEF Drained
  <2>2. e.rest = <<>> /\ v \o e.found = w
    <3>1. CASE ~IsFrame(d.rest)
      <4>1. e = [d EXCEPT !.rest = <<>>]
        BY <2>1, <3>1 DEF Accepted
      <4> QED BY <1>1, <3>1, <4>1
    <3>2. CASE IsFrame(d.rest)
      <4>1. e = [rest |-> <<>>, queue |-> Queued(d.queue, Body(d.rest)), found |-> Append(d.found, x)]
        BY <2>1, <3>2 DEF Accepted
      <4>2. x \in Found
        <5>1. Body(d.rest) \in Seq(Bytes)
          BY <1>1, UnescapeFacts DEF Body, Read, Loose
        <5> QED BY <1>3, <5>1 DEF Found
      <4> HIDE DEF x
      <4>3. v \o Append(d.found, x) = Append(v \o d.found, x)
        BY <1>1, <4>2, ConcatAppend
      <4>4. e.rest = <<>> /\ e.found = Append(d.found, x)
        BY <4>1
      <4>5. w = Append(v \o d.found, x)
        BY <3>2
      <4> HIDE DEF w
      <4> QED BY <4>3, <4>4, <4>5
    <3> QED BY <3>1, <3>2
  <2>3. w = IF IsFrame(d.rest) THEN Append(f, [body |-> Body(d.rest), at |-> Len(h) + 1]) ELSE f
    OBVIOUS
  <2> HIDE DEF f, w
  <2>4. WholeIn(h, f)
    BY DEF f
  <2>5. WholeIn(Append(h, DEL), w) /\ Held(Append(h, DEL), <<>>)
    BY <1>1, <1>2, <2>3, <2>4, WholeDelimiter
  <2> QED BY <1>5, <2>2, <2>5
<1> QED BY <1>4, <1>5

LEMMA DrainWhole ==
    ASSUME RadioTypes, WholeIn(heard, valid), Held(heard, buffer), NEW s \in Seq(Bytes)
    PROVE  /\ WholeIn(heard \o s, valid \o Drain(buffer \o s).found)
           /\ Held(heard \o s, Drain(buffer \o s).rest)
<1> DEFINE Good(r) == /\ WholeIn(heard \o r, valid \o Drain(buffer \o r).found)
                      /\ Held(heard \o r, Drain(buffer \o r).rest)
           T == {r \in Seq(Bytes) : Good(r)}
<1>1. /\ queue \in Seq(Payloads) /\ buffer \in Seq(Loose) /\ buffer \in Seq(Bytes)
      /\ heard \in Seq(Bytes) /\ valid \in Seq(Found) /\ Len(buffer) <= Len(heard)
      /\ Len(buffer) \in Nat /\ Len(heard) \in Nat
  BY NonLoose, LenProperties DEF RadioTypes, RadioTypeOK
<1>2. <<>> \in T
  <2>1. heard \o <<>> = heard /\ buffer \o <<>> = buffer /\ valid \o <<>> = valid
    BY <1>1, ConcatEmptySeq
  <2>2. Drain(buffer) = [rest |-> buffer, queue |-> queue, found |-> <<>>]
    BY <1>1, DrainLoose
  <2>3. Drain(buffer).found = <<>> /\ Drain(buffer).rest = buffer
    BY <2>2
  <2>4. Good(<<>>)
    BY <2>1, <2>3
  <2> HIDE DEF Good
  <2> QED BY <2>4, EmptySeq
<1>3. ASSUME NEW r \in Seq(Bytes), NEW b \in Bytes, r \in T PROVE Append(r, b) \in T
  <2> DEFINE h == heard \o r
             c == buffer \o r
             d == Drain(c)
             e == Drain(Append(c, b))
  <2>1. /\ heard \o Append(r, b) = Append(h, b) /\ buffer \o Append(r, b) = Append(c, b)
        /\ h \in Seq(Bytes) /\ c \in Seq(Bytes) /\ Append(r, b) \in Seq(Bytes)
    <3>1. heard \o Append(r, b) = Append(h, b) /\ h \in Seq(Bytes)
      BY <1>1, ConcatAppend
    <3>2. buffer \o Append(r, b) = Append(c, b) /\ c \in Seq(Bytes)
      BY <1>1, ConcatAppend
    <3>3. Append(r, b) \in Seq(Bytes)
      BY AppendProperties
    <3> HIDE DEF h, c
    <3> QED BY <3>1, <3>2, <3>3
  <2>2. Len(h) = Len(heard) + Len(r) /\ Len(c) = Len(buffer) + Len(r) /\ Len(r) \in Nat
    BY <1>1, ConcatProperties, LenProperties
  <2>3. WholeIn(h, valid \o d.found) /\ Held(h, d.rest)
    BY <1>3
  <2> HIDE DEF Good
  <2>4. e = Drained(d, b, Len(heard) - Len(buffer) + (Len(c) + 1))
    BY <2>1, DrainStep
  <2> HIDE DEF h, c
  <2>5. Len(heard) - Len(buffer) + (Len(c) + 1) = Len(h) + 1
    BY <1>1, <2>2
  <2>6. Drains(c, d)
    BY <1>1, <2>1, DrainFacts
  <2> HIDE DEF d, e
  <2>7. e = Drained(d, b, Len(h) + 1)
    BY <2>4, <2>5
  <2>8. WholeIn(Append(h, b), valid \o e.found) /\ Held(Append(h, b), e.rest)
    BY <1>1, <2>1, <2>3, <2>6, <2>7, WholeStep
  <2>9. Good(Append(r, b))
    BY <2>1, <2>8 DEF Good, e
  <2> QED BY <2>1, <2>9
<1>4. Seq(Bytes) \subseteq T
  <2> HIDE DEF T
  <2> QED BY <1>2, <1>3, Unrolled
<1> QED BY <1>4

\* The limit on a candidate only takes away what no frame reaches back to.
LEMMA HeldCut ==
    ASSUME NEW h \in Seq(Bytes), NEW rest \in Seq(Bytes), Held(h, rest)
    PROVE  Held(h, Cut(rest))
<1> DEFINE N == Len(h)
           l == Len(rest)
<1>1. N \in Nat /\ l \in Nat /\ DOMAIN h = 1..N /\ MaxFrame \in Nat
  BY RadioAssumption, LenProperties
<1>2. \E k \in Delimiters(h) \cup {0} : \E m \in k..N :
        /\ \A i \in Delimiters(h) : i <= k
        /\ rest = SubSeq(h, m + 1, N)
        /\ m = k \/ N - k > MaxFrame
  BY DEF Held
<1>3. PICK k \in Delimiters(h) \cup {0} : \E m \in k..N :
        /\ \A i \in Delimiters(h) : i <= k
        /\ rest = SubSeq(h, m + 1, N)
        /\ m = k \/ N - k > MaxFrame
  BY <1>2
<1>4. PICK m \in k..N :
        /\ \A i \in Delimiters(h) : i <= k
        /\ rest = SubSeq(h, m + 1, N)
        /\ m = k \/ N - k > MaxFrame
  BY <1>3
<1>5. k \in 0..N /\ m \in 0..N /\ m \in Nat /\ N \in 0..Len(h)
  BY <1>1 DEF Delimiters
<1>6. /\ l = IF m < N THEN N - m ELSE 0
      /\ \A i \in 1..(N - m) : rest[i] = h[m + i]
  <2> DEFINE r == SubSeq(h, m + 1, N)
  <2>1. Len(r) = (IF m < N THEN N - m ELSE 0) /\ \A i \in 1..(N - m) : r[i] = h[m + i]
    BY <1>5, PartFacts
  <2> HIDE DEF r
  <2>2. rest = r
    BY <1>4 DEF r
  <2> QED BY <2>1, <2>2
<1>7. CASE Cut(rest) = rest
  BY <1>7
<1>8. CASE /\ l > MaxFrame /\ l - Kept \in 0..l
           /\ Cut(rest) = SubSeq(rest, (l - Kept) + 1, l)
  <2> DEFINE c == l - Kept
             n == m + c
             x == SubSeq(rest, c + 1, l)
             y == SubSeq(h, n + 1, N)
  <2>1. c \in 0..l /\ c \in Nat /\ l \in 0..Len(rest)
    BY <1>1, <1>8
  <2>2. /\ x \in Seq(Bytes) /\ Len(x) = IF c < l THEN l - c ELSE 0
        /\ \A i \in 1..(l - c) : c + i \in 1..l /\ x[i] = rest[c + i]
    <3> HIDE DEF c
    <3> QED BY <2>1, PartFacts
  <2> HIDE DEF c, l, N, x
  <2>3. n \in k..N /\ n \in Nat /\ N - n = l - c /\ N - m = l
    BY <1>1, <1>5, <1>6, <1>8, <2>1
  <2> HIDE DEF n
  <2>4. /\ y \in Seq(Bytes) /\ Len(y) = IF n < N THEN N - n ELSE 0
        /\ \A i \in 1..(N - n) : n + i \in 1..N /\ y[i] = h[n + i]
    BY <1>5, <2>3, PartFacts DEF N
  <2> HIDE DEF y
  <2>5. Len(x) = Len(y) /\ \A i \in 1..Len(x) : i \in 1..(l - c)
    BY <1>1, <2>1, <2>2, <2>3, <2>4
  <2>6. \A i \in 1..(l - c) : x[i] = y[i]
    <3> TAKE i \in 1..(l - c)
    <3>1. c + i \in 1..(N - m) /\ m + (c + i) = n + i
      BY <1>5, <2>1, <2>2, <2>3 DEF n
    <3>2. x[i] = rest[c + i] /\ y[i] = h[n + i]
      BY <2>2, <2>3, <2>4
    <3>3. rest[c + i] = h[m + (c + i)]
      BY <1>6, <3>1
    <3> QED BY <3>1, <3>2, <3>3
  <2>7. x = y
    BY <2>2, <2>4, <2>5, <2>6, SeqEqual
  <2>8. Cut(rest) = SubSeq(h, n + 1, N)
    BY <1>8, <2>7 DEF x, y, c
  <2>9. N - k > MaxFrame
    BY <1>1, <1>4, <1>5, <1>8, <2>3
  <2> QED BY <1>4, <2>3, <2>8, <2>9 DEF Held, N
<1> QED BY <1>7, <1>8, CutFacts

WholeInv == RadioTypes /\ WholeIn(heard, valid) /\ Held(heard, buffer)

LEMMA NothingHeard == WholeIn(<<>>, <<>>) /\ Held(<<>>, <<>>)
<1>1. Delimiters(<<>>) = {} /\ DOMAIN <<>> = {} /\ Len(<<>>) = 0
  BY DEF Delimiters
<1>2. Pieces(<<>>) = {}
  BY <1>1 DEF Pieces
<1>3. SubSeq(<<>>, 0 + 1, 0) = <<>>
  BY SubSeqEmpty
<1>4. 0 \in 0..0
  OBVIOUS
<1>5. Held(<<>>, <<>>)
  BY <1>1, <1>3, <1>4 DEF Held
<1> QED BY <1>1, <1>2, <1>5 DEF WholeIn, Rising, Complete, Sound

LEMMA ReceiveReturnsWhole ==
    ASSUME WholeInv, NEW c \in Contexts, ReceiveReturns(c)
    PROVE  WholeIn(heard', valid') /\ Held(heard', buffer')
<1> DEFINE s == uart.rx
           d == Drain(buffer \o s)
           h == heard \o s
<1>1. /\ s \in Seq(Bytes) /\ heard \in Seq(Bytes) /\ buffer \in Seq(Bytes)
      /\ queue \in Seq(Payloads) /\ Len(buffer) <= Len(heard)
  BY NonLoose DEF WholeInv, RadioTypes, RadioTypeOK, Uarts
<1>2. buffer' = Cut(d.rest) /\ heard' = h /\ valid' = valid \o d.found
  BY DEF ReceiveReturns
<1>3. WholeIn(h, valid \o d.found) /\ Held(h, d.rest)
  BY <1>1, DrainWhole DEF WholeInv
<1>4. h \in Seq(Bytes) /\ buffer \o s \in Seq(Bytes)
  BY <1>1, ConcatProperties
<1>5. d.rest \in Seq(Bytes)
  <2>1. Drains(buffer \o s, d)
    BY <1>1, <1>4, DrainFacts
  <2> QED BY <2>1, NonLoose DEF Drains
<1> HIDE DEF d, h, s
<1>6. Held(h, Cut(d.rest))
  BY <1>3, <1>4, <1>5, HeldCut
<1> QED BY <1>2, <1>3, <1>6

LEMMA NextWhole == ASSUME WholeInv, [RadioNext]_radioVars PROVE WholeInv'
<1>1. RadioTypes'
  BY NextTypes DEF WholeInv
<1>2. CASE UNCHANGED <<heard, valid, buffer>>
  BY <1>1, <1>2 DEF WholeInv
<1>3. CASE UNCHANGED radioVars
  BY <1>2, <1>3 DEF radioVars, module, radioHistory
<1>4. ASSUME NEW p \in Peers, PeerSends(p) \/ Arrives(p) \/ LostOnAir(p)
      PROVE  UNCHANGED <<heard, valid, buffer>>
  BY <1>4 DEF PeerSends, Arrives, LostOnAir, module, radioHistory
<1>5. CASE Noise \/ LinkAdvances
  BY <1>2, <1>5 DEF Noise, LinkAdvances, module, radioHistory
<1>6. ASSUME NEW c \in Contexts, Calls(c)
      PROVE  UNCHANGED <<heard, valid, buffer>>
  BY <1>6 DEF Calls, OnCalled, OffCalled, Configures, ReceivesOff, ReceiveCalled, SendCalled,
              module, radioHistory
<1>7. ASSUME NEW c \in Contexts, CallStep(c) PROVE WholeInv'
  <2>1. CASE OnInitialised(c)
    <3>1. heard' = <<>> /\ valid' = <<>> /\ buffer' = <<>>
      BY <2>1 DEF OnInitialised, Forgets
    <3> QED BY <1>1, <3>1, NothingHeard DEF WholeInv
  <2>2. CASE ReceiveReturns(c)
    BY <1>1, <2>2, ReceiveReturnsWhole DEF WholeInv
  <2>3. CASE OnReturns(c) \/ OffReturns(c) \/ SendPolls(c) \/ SendReturns(c)
    BY <1>2, <2>3 DEF OnReturns, OffReturns, SendPolls, SendReturns, module, radioHistory
  <2> QED BY <1>7, <2>1, <2>2, <2>3 DEF CallStep
<1> QED BY <1>2, <1>3, <1>4, <1>5, <1>6, <1>7 DEF RadioNext

\* Whatever the air loses, adds or mixes and however the calls cut the stream,
\* every frame that the stream holds between two delimiters is found, once, in
\* its order, and what is found ends a piece of the stream: for any messages
\* whose frames are within the limit, any settings and any sizes of queues.
THEOREM StreamWhole == RadioSpec => []WholeStream
<1>1. RadioInit => WholeInv
  BY InitTypes, NothingHeard DEF RadioInit, WholeInv
<1>2. WholeInv /\ [RadioNext]_radioVars => WholeInv'
  BY NextWhole
<1>3. WholeInv => WholeStream
  BY DEF WholeInv, WholeIn, Rising, Complete, Sound, EndsPiece, WholeStream
<1> QED BY <1>1, <1>2, <1>3, PTL DEF RadioSpec
=============================================================================
