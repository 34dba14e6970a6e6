---------------------------- MODULE I2cBus_proofs ----------------------------
(***************************************************************************)
(* Proofs about I2cBus, for any width of a byte, any targets, addresses    *)
(* and transactions, any answers, faults and callbacks.                    *)
(*                                                                         *)
(* BInv adds to the types what the counters of a target are worth (Fine:   *)
(* it has as many bits as it counted pulses, and waits for a byte of its   *)
(* host only between two bytes) and what a master is by its phase (Sane:   *)
(* the lines it pulls, the place of its byte in the transaction).          *)
(*                                                                         *)
(* IInv, in the second half, says of a transaction nothing disturbed where *)
(* the lines are (Wires) and where each target is (Places) for a master at *)
(* a place it knows (Counts), what was taken and given until there (Books, *)
(* Ends) and how it ended (Done).  A slot of the clock makes four actions  *)
(* of the master and up to four synchronisations, in which every target    *)
(* may be one edge late: that is what the predicates on the lines and e,   *)
(* the pulse not yet counted, are for.                                     *)
(***************************************************************************)
EXTENDS I2cBus, TLAPS, SequenceTheorems

LEMMA Width == ByteBits \in Nat /\ ByteBits > 1
  BY I2cBusAssumption

USE Width

\* The bits a target has of the byte in progress, and its pulses.
Row(t) ==
    /\ t.state \in {"ADDR", "WRITE"} =>
           t.shift \in [1..(IF t.nbits < ByteBits THEN t.nbits ELSE ByteBits) -> BOOLEAN]
    /\ ~t.scl /\ t.state \notin {"IDLE", "WAIT"} => t.nbits <= ByteBits
    /\ t.deferred => t.nbits = 0 /\ t.state = "READ"
    /\ ~t.known => t.state = "IDLE" /\ t.nbits = 0 /\ ~t.deferred

Shifts == UNION {[1..n -> BOOLEAN] : n \in 0..ByteBits}
Members ==
    [known : BOOLEAN, scl : BOOLEAN, sda : BOOLEAN,
     state : {"IDLE", "ADDR", "WRITE", "READ", "WAIT"}, nbits : 0..(ByteBits + 1),
     shift : Shifts, low : BOOLEAN, wbuf : Seq(Bytes), writeOpen : BOOLEAN, cur : Bytes,
     masterAck : BOOLEAN, readOpen : BOOLEAN, deferred : BOOLEAN]

LEMMA SameMembers == TargetStates = Members
  BY DEF TargetStates, Members, Shifts

Fine(t) == t \in Members /\ Row(t)

LEMMA RowFacts ==
    ASSUME NEW n \in Nat, NEW s \in [1..n -> BOOLEAN]
    PROVE  s \in Seq(BOOLEAN) /\ Len(s) = n
<1>1. s \in Seq(BOOLEAN)
  BY SeqDef
<1>2. DOMAIN s = 1..n /\ DOMAIN s = 1..Len(s) /\ Len(s) \in Nat
  BY <1>1, LenProperties
<1> QED BY <1>1, <1>2

LEMMA RowGrows ==
    ASSUME NEW n \in Nat, NEW s \in [1..n -> BOOLEAN], NEW x \in BOOLEAN
    PROVE  /\ Append(s, x) \in [1..(n + 1) -> BOOLEAN]
           /\ Append(s, x)[n + 1] = x
           /\ \A i \in 1..n : Append(s, x)[i] = s[i]
<1>1. s \in Seq(BOOLEAN) /\ Len(s) = n
  BY RowFacts
<1>2. /\ Append(s, x) \in Seq(BOOLEAN) /\ Len(Append(s, x)) = n + 1
      /\ Append(s, x)[n + 1] = x /\ \A i \in 1..n : Append(s, x)[i] = s[i]
  BY <1>1, AppendProperties
<1>3. Append(s, x) \in [1..(n + 1) -> BOOLEAN]
  BY <1>2, LenProperties
<1> QED BY <1>2, <1>3

LEMMA ShiftSets ==
    /\ \A n \in 0..ByteBits : \A s \in [1..n -> BOOLEAN] :
           s \in Shifts
    /\ <<>> \in [1..0 -> BOOLEAN]
<1>1. <<>> \in [1..0 -> BOOLEAN]
  <2>1. <<>> = [i \in 1..0 |-> TRUE]
    OBVIOUS
  <2> QED BY <2>1
<1> QED BY <1>1 DEF Shifts

LEMMA BitDriven ==
    ASSUME NEW t \in Members, t.nbits < ByteBits
    PROVE  /\ DriveBit(t) \in Members
           /\ DriveBit(t).low = ~t.cur[t.nbits + 1]
           /\ DriveBit(t) = [t EXCEPT !.low = DriveBit(t).low]
<1>1. t.nbits \in 0..(ByteBits + 1) /\ t.cur \in Bytes
  BY DEF Members
<1>2. t.nbits + 1 \in 1..ByteBits
  BY <1>1
<1>3. (~t.cur[t.nbits + 1]) \in BOOLEAN
  BY <1>1, <1>2 DEF Bytes
<1> QED BY <1>3 DEF DriveBit, Members

LEMMA ClosedFacts ==
    ASSUME NEW t \in Members
    PROVE  /\ Closed(t) \in Members
           /\ Closed(t).known = t.known /\ Closed(t).scl = t.scl /\ Closed(t).sda = t.sda
           /\ Closed(t).state = t.state /\ Closed(t).nbits = t.nbits
           /\ Closed(t).shift = t.shift /\ Closed(t).low = t.low
           /\ Closed(t).wbuf = <<>> /\ ~Closed(t).writeOpen /\ ~Closed(t).readOpen
           /\ ~Closed(t).deferred
<1>1. <<>> \in Seq(Bytes)
  BY EmptySeq
<1> QED BY <1>1 DEF Closed, Members

LEMMA StartFacts ==
    ASSUME NEW t \in Members
    PROVE  /\ OnStart(t) \in Members
           /\ OnStart(t).known = t.known /\ OnStart(t).scl = t.scl /\ OnStart(t).sda = t.sda
           /\ OnStart(t).state = "ADDR" /\ OnStart(t).nbits = 0
           /\ OnStart(t).shift = <<>> /\ ~OnStart(t).low
           /\ ~OnStart(t).writeOpen /\ ~OnStart(t).readOpen /\ ~OnStart(t).deferred
           /\ OnStart(t).wbuf = <<>>
<1> DEFINE c == Closed(t)
<1>1. c \in Members /\ c.wbuf = <<>> /\ ~c.writeOpen /\ ~c.readOpen /\ ~c.deferred
      /\ c.known = t.known /\ c.scl = t.scl /\ c.sda = t.sda
  BY ClosedFacts
<1>2. OnStart(t) = [c EXCEPT !.state = "ADDR", !.nbits = 0, !.shift = <<>>, !.low = FALSE]
  BY DEF OnStart
<1> HIDE DEF c
<1>3. <<>> \in Shifts /\ 0 \in 0..(ByteBits + 1)
  <2>1. 0 \in 0..ByteBits /\ <<>> \in [1..0 -> BOOLEAN]
    BY ShiftSets
  <2>2. <<>> \in Shifts
    BY <2>1, ShiftSets
  <2> QED BY <2>2
<1> QED BY <1>1, <1>2, <1>3 DEF Members

LEMMA StopFacts ==
    ASSUME NEW t \in Members
    PROVE  /\ OnStop(t) \in Members
           /\ OnStop(t).known = t.known /\ OnStop(t).scl = t.scl /\ OnStop(t).sda = t.sda
           /\ OnStop(t).state = "IDLE" /\ OnStop(t).nbits = t.nbits
           /\ ~OnStop(t).low /\ ~OnStop(t).writeOpen
           /\ ~OnStop(t).readOpen /\ ~OnStop(t).deferred
<1> DEFINE c == Closed(t)
<1>1. c \in Members /\ ~c.writeOpen /\ ~c.readOpen /\ ~c.deferred
      /\ c.known = t.known /\ c.scl = t.scl /\ c.sda = t.sda /\ c.nbits = t.nbits
  BY ClosedFacts
<1>2. OnStop(t) = [c EXCEPT !.state = "IDLE", !.low = FALSE]
  BY DEF OnStop
<1> HIDE DEF c
<1> QED BY <1>1, <1>2 DEF Members

\* A pulse of the clock: its rise.
LEMMA RiseFacts ==
    ASSUME NEW t \in Members, NEW x \in BOOLEAN, Row(t), t.known,
           t.state \notin {"IDLE", "WAIT"} => t.nbits <= ByteBits,
           t.scl, ~t.deferred
    PROVE  /\ OnRise(t, x) \in Members /\ Row(OnRise(t, x))
           /\ t.state \in {"IDLE", "WAIT"} => OnRise(t, x) = t
           /\ t.state \notin {"IDLE", "WAIT"} =>
                  /\ OnRise(t, x).nbits = t.nbits + 1
                  /\ OnRise(t, x).shift = IF t.state # "READ" /\ t.nbits < ByteBits
                                          THEN Append(t.shift, x) ELSE t.shift
                  /\ OnRise(t, x).masterAck = IF t.state = "READ" /\ t.nbits = ByteBits
                                              THEN ~x ELSE t.masterAck
           /\ OnRise(t, x).known = t.known /\ OnRise(t, x).scl = t.scl
           /\ OnRise(t, x).sda = t.sda /\ OnRise(t, x).state = t.state
           /\ OnRise(t, x).low = t.low /\ OnRise(t, x).cur = t.cur
           /\ OnRise(t, x).wbuf = t.wbuf /\ OnRise(t, x).writeOpen = t.writeOpen
           /\ OnRise(t, x).readOpen = t.readOpen /\ OnRise(t, x).deferred = t.deferred
<1>1. CASE t.state \in {"IDLE", "WAIT"}
  BY <1>1 DEF OnRise
<1>2. CASE t.state \notin {"IDLE", "WAIT"}
  <2> DEFINE s == IF t.state # "READ" /\ t.nbits < ByteBits THEN Append(t.shift, x) ELSE t.shift
             a == IF t.state = "READ" /\ t.nbits = ByteBits THEN ~x ELSE t.masterAck
             u == OnRise(t, x)
  <2>1. /\ t.nbits \in 0..ByteBits /\ t.state \in {"ADDR", "WRITE", "READ"}
        /\ t.shift \in Shifts /\ t.masterAck \in BOOLEAN
    BY <1>2 DEF Members
  <2>2. /\ s \in Shifts
        /\ t.state \in {"ADDR", "WRITE"} =>
               s \in [1..(IF t.nbits + 1 < ByteBits THEN t.nbits + 1 ELSE ByteBits) -> BOOLEAN]
    <3>1. CASE t.state = "READ"
      BY <2>1, <3>1
    <3>2. CASE t.state # "READ" /\ t.nbits < ByteBits
      <4>1. t.shift \in [1..t.nbits -> BOOLEAN]
        BY <2>1, <3>2 DEF Row
      <4>2. s \in [1..(t.nbits + 1) -> BOOLEAN]
        BY <2>1, <3>2, <4>1, RowGrows
      <4>3. t.nbits + 1 \in 0..ByteBits
        BY <2>1, <3>2
      <4>4. s \in Shifts
        BY <4>2, <4>3, ShiftSets
      <4>5. t.nbits + 1 = (IF t.nbits + 1 < ByteBits THEN t.nbits + 1 ELSE ByteBits)
        BY <4>3
      <4> QED BY <4>2, <4>4, <4>5
    <3>3. CASE t.state # "READ" /\ ~(t.nbits < ByteBits)
      BY <2>1, <3>3 DEF Row
    <3> QED BY <3>1, <3>2, <3>3
  <2>3. a \in BOOLEAN
    BY <2>1
  <2>4. u = [t EXCEPT !.nbits = t.nbits + 1, !.shift = s, !.masterAck = a]
    BY <1>2 DEF OnRise, Members
  <2>5. t.nbits + 1 \in 0..(ByteBits + 1)
    BY <2>1
  <2> HIDE DEF s, a, u
  <2>6. /\ u \in Members /\ u.nbits = t.nbits + 1 /\ u.shift = s /\ u.masterAck = a
        /\ u.known = t.known /\ u.scl = t.scl /\ u.sda = t.sda /\ u.state = t.state
        /\ u.low = t.low /\ u.cur = t.cur /\ u.wbuf = t.wbuf /\ u.writeOpen = t.writeOpen
        /\ u.readOpen = t.readOpen /\ u.deferred = t.deferred
    BY <2>2, <2>3, <2>4, <2>5 DEF Members
  <2>7. Row(u)
    BY <2>2, <2>6 DEF Row
  <2> QED BY <1>2, <2>6, <2>7 DEF u, s, a
<1> QED BY <1>1, <1>2

\* What a fall of the clock leaves as it was, and what a target sees.
SameLevels(u, t) == u.known = t.known /\ u.scl = t.scl /\ u.sda = t.sda
Idling(s) == s \in {"IDLE", "WAIT"}

LEMMA LoadFacts ==
    ASSUME NEW t \in Members, NEW b \in Bytes \cup {Defer}, t.nbits = 0,
           t.state = "READ", t.known, ~t.deferred
    PROVE  LET u == LoadReadByte(t, b)
           IN  /\ Fine(u) /\ SameLevels(u, t) /\ u.state = "READ" /\ u.nbits = 0
               /\ u.readOpen = t.readOpen /\ u.writeOpen = t.writeOpen /\ u.wbuf = t.wbuf
               /\ u.shift = t.shift /\ u.masterAck = t.masterAck
               /\ u.deferred = (b = Defer)
               /\ b = Defer => ~u.low /\ u.cur = t.cur
               /\ b # Defer => u.cur = b /\ u.low = ~b[1]
<1>1. CASE b = Defer
  <2>1. LoadReadByte(t, b) = [t EXCEPT !.deferred = TRUE, !.low = FALSE]
    BY <1>1 DEF LoadReadByte
  <2> DEFINE u == LoadReadByte(t, b)
  <2> HIDE DEF u
  <2>2. /\ u \in Members /\ u.cur = t.cur /\ u.nbits = 0 /\ u.state = "READ" /\ u.deferred
        /\ ~u.low /\ u.known = t.known /\ u.scl = t.scl /\ u.sda = t.sda
        /\ u.shift = t.shift /\ u.readOpen = t.readOpen /\ u.writeOpen = t.writeOpen
        /\ u.wbuf = t.wbuf /\ u.masterAck = t.masterAck
    BY <2>1 DEF Members, u
  <2>3. Row(u)
    BY <2>2 DEF Row
  <2>4. u.deferred = TRUE
    BY <2>2 DEF Members
  <2> QED BY <1>1, <2>2, <2>3, <2>4 DEF Fine, SameLevels, u
<1>2. CASE b # Defer
  <2> DEFINE c == [t EXCEPT !.cur = b]
  <2>1. LoadReadByte(t, b) = DriveBit(c)
    BY <1>2 DEF LoadReadByte, TakeByte
  <2>2. /\ c \in Members /\ c.cur = b /\ c.nbits = 0 /\ c.state = "READ" /\ ~c.deferred
        /\ c.known = t.known /\ c.scl = t.scl /\ c.sda = t.sda /\ c.shift = t.shift
        /\ c.readOpen = t.readOpen /\ c.writeOpen = t.writeOpen /\ c.wbuf = t.wbuf
        /\ c.masterAck = t.masterAck
    BY <1>2 DEF Members
  <2> HIDE DEF c
  <2>3. /\ DriveBit(c) \in Members /\ DriveBit(c).low = ~c.cur[0 + 1]
        /\ DriveBit(c) = [c EXCEPT !.low = DriveBit(c).low]
    BY <2>2, BitDriven
  <2>4. DriveBit(c).low = ~b[1]
    BY <2>2, <2>3
  <2> DEFINE u == DriveBit(c)
  <2>5. /\ u \in Members /\ u.cur = b /\ u.nbits = 0 /\ u.state = "READ" /\ ~u.deferred
        /\ u.known = t.known /\ u.scl = t.scl /\ u.sda = t.sda /\ u.shift = t.shift
        /\ u.readOpen = t.readOpen /\ u.writeOpen = t.writeOpen /\ u.wbuf = t.wbuf
        /\ u.masterAck = t.masterAck
    <3> HIDE DEF u
    <3>1. u \in Members /\ u = [c EXCEPT !.low = u.low]
      BY <2>3 DEF u
    <3> QED BY <2>2, <3>1 DEF Members
  <2> HIDE DEF u
  <2>6. Fine(u)
    BY <2>5 DEF Fine, Row, Members
  <2>7. u.deferred = FALSE
    BY <2>5 DEF Members
  <2> QED BY <1>2, <2>1, <2>4, <2>5, <2>6, <2>7 DEF SameLevels, u
<1> QED BY <1>1, <1>2

LEMMA AcknowledgeFacts ==
    ASSUME NEW k \in Targets, NEW t \in Members, Row(t), t.nbits = ByteBits, t.known,
           ~Idling(t.state)
    PROVE  LET u == Acknowledge(k, t)
           IN  /\ Fine(u) /\ SameLevels(u, t)
               /\ u.nbits = ByteBits /\ u.shift = t.shift /\ u.cur = t.cur
               /\ u.masterAck = t.masterAck /\ u.deferred = t.deferred
               /\ u.readOpen = t.readOpen /\ u.writeOpen = t.writeOpen
               /\ t.state = "ADDR" /\ SubSeq(t.shift, 1, ByteBits - 1) \in Listens[k] =>
                      u.low /\ u.state = "ADDR" /\ u.wbuf = t.wbuf
               /\ t.state = "ADDR" /\ SubSeq(t.shift, 1, ByteBits - 1) \notin Listens[k] =>
                      ~u.low /\ u.state = "WAIT" /\ u.wbuf = t.wbuf
               /\ t.state = "WRITE" => u.low /\ u.state = "WRITE"
                                       /\ u.wbuf = Append(t.wbuf, t.shift)
               /\ t.state = "READ" => ~u.low /\ u.state = "READ" /\ u.wbuf = t.wbuf
<1>1. CASE t.state = "ADDR"
  BY <1>1 DEF Acknowledge, Fine, Row, SameLevels, Members
<1>2. CASE t.state = "WRITE"
  <2>1. t.shift \in [1..ByteBits -> BOOLEAN]
    BY <1>2 DEF Row
  <2>2. Append(t.wbuf, t.shift) \in Seq(Bytes)
    BY <2>1, AppendProperties DEF Members, Bytes
  <2>3. Acknowledge(k, t) = [t EXCEPT !.wbuf = Append(t.wbuf, t.shift), !.low = TRUE]
    BY <1>2 DEF Acknowledge, Members
  <2> QED BY <1>2, <2>2, <2>3 DEF Fine, Row, SameLevels, Members
<1>3. CASE t.state = "READ"
  BY <1>3 DEF Acknowledge, Fine, Row, SameLevels, Members
<1>4. t.state \in {"ADDR", "WRITE", "READ"}
  BY DEF Members, Idling
<1> QED BY <1>1, <1>2, <1>3, <1>4

LEMMA NextByteFacts ==
    ASSUME NEW t \in Members, NEW b \in Bytes \cup {Defer}, t.known, ~Idling(t.state),
           t.state = "ADDR" => t.shift[ByteBits] \in BOOLEAN, ~t.deferred
    PROVE  LET u == NextByte(t, b)
               reads == (t.state = "ADDR" /\ t.shift[ByteBits]) \/ (t.state = "READ" /\ t.masterAck)
           IN  /\ Fine(u) /\ SameLevels(u, t) /\ u.nbits = 0
               /\ reads =>
                      /\ u.state = "READ" /\ u.deferred = (b = Defer)
                      /\ u.readOpen = (t.state = "ADDR" \/ t.readOpen)
                      /\ u.writeOpen = t.writeOpen
                      /\ b = Defer => ~u.low
                      /\ b # Defer => u.cur = b /\ u.low = ~b[1]
               /\ ~reads => ~u.low /\ ~u.deferred
               /\ t.state = "ADDR" /\ ~t.shift[ByteBits] =>
                      u.state = "WRITE" /\ u.writeOpen /\ u.readOpen = t.readOpen
               /\ t.state = "READ" /\ ~t.masterAck =>
                      u.state = "WAIT" /\ ~u.writeOpen /\ ~u.readOpen
               /\ t.state = "WRITE" =>
                      /\ u.state = "WRITE" /\ u.writeOpen = t.writeOpen
                      /\ u.readOpen = t.readOpen /\ u.shift = <<>>
               /\ u.state = "WRITE" => u.shift = <<>>
<1> DEFINE r == [t EXCEPT !.nbits = 0, !.shift = <<>>]
<1>0. <<>> \in [1..0 -> BOOLEAN] /\ <<>> \in Shifts /\ <<>> \in Seq(Bytes)
  <2>1. 0 \in 0..ByteBits /\ <<>> \in [1..0 -> BOOLEAN]
    BY ShiftSets
  <2>2. <<>> \in Shifts
    BY <2>1, ShiftSets
  <2> QED BY <2>1, <2>2, EmptySeq
<1>1. /\ r \in Members /\ r.nbits = 0 /\ r.shift = <<>> /\ r.known /\ ~r.deferred
      /\ r.known = t.known /\ r.scl = t.scl /\ r.sda = t.sda /\ r.state = t.state
      /\ r.writeOpen = t.writeOpen /\ r.readOpen = t.readOpen /\ r.masterAck = t.masterAck
  <2>1. 0 \in 0..(ByteBits + 1)
    OBVIOUS
  <2> QED BY <1>0, <2>1 DEF Members
<1>2. Row(r)
  <2>1. (IF r.nbits < ByteBits THEN r.nbits ELSE ByteBits) = 0
    BY <1>1
  <2>2. r.shift \in [1..(IF r.nbits < ByteBits THEN r.nbits ELSE ByteBits) -> BOOLEAN]
    BY <1>0, <1>1, <2>1
  <2> QED BY <1>1, <2>2 DEF Row
<1>3. CASE t.state = "ADDR" /\ t.shift[ByteBits]
  <2> DEFINE c == [r EXCEPT !.state = "READ", !.readOpen = TRUE]
  <2>1. NextByte(t, b) = LoadReadByte(c, b)
    BY <1>3 DEF NextByte
  <2> HIDE DEF r
  <2>2. /\ c \in Members /\ c.nbits = 0 /\ c.state = "READ" /\ c.known /\ ~c.deferred
        /\ c.known = t.known /\ c.scl = t.scl /\ c.sda = t.sda /\ c.readOpen = TRUE
        /\ c.writeOpen = t.writeOpen
    BY <1>1 DEF Members
  <2> HIDE DEF c
  <2>3. LET u == LoadReadByte(c, b)
        IN  /\ Fine(u) /\ SameLevels(u, c) /\ u.state = "READ" /\ u.nbits = 0
            /\ u.readOpen = c.readOpen /\ u.writeOpen = c.writeOpen
            /\ u.deferred = (b = Defer)
            /\ b = Defer => ~u.low
            /\ b # Defer => u.cur = b /\ u.low = ~b[1]
    BY <2>2, LoadFacts
  <2> QED BY <1>3, <2>1, <2>2, <2>3 DEF SameLevels
<1>4. CASE t.state = "ADDR" /\ ~t.shift[ByteBits]
  <2>1. NextByte(t, b) = [r EXCEPT !.state = "WRITE", !.writeOpen = TRUE, !.wbuf = <<>>,
                                   !.low = FALSE]
    BY <1>3, <1>4 DEF NextByte
  <2> HIDE DEF r
  <2> DEFINE u == NextByte(t, b)
  <2> HIDE DEF u
  <2>2. /\ u \in Members /\ u.nbits = 0 /\ u.shift = <<>> /\ u.state = "WRITE" /\ u.known
        /\ u.known = t.known /\ u.scl = t.scl /\ u.sda = t.sda /\ u.readOpen = t.readOpen
        /\ u.writeOpen /\ ~u.low /\ ~u.deferred /\ u.nbits = r.nbits /\ u.shift = r.shift
    <3>1. u = [r EXCEPT !.state = "WRITE", !.writeOpen = TRUE, !.wbuf = <<>>, !.low = FALSE]
      BY <2>1 DEF u
    <3>2. /\ u.nbits = r.nbits /\ u.shift = r.shift /\ u.state = "WRITE"
          /\ u.known = r.known /\ u.scl = r.scl /\ u.sda = r.sda /\ u.readOpen = r.readOpen
          /\ u.writeOpen /\ ~u.low /\ u.deferred = r.deferred
      BY <1>1, <3>1 DEF Members
    <3>3. u \in Members
      BY <1>0, <1>1, <3>1 DEF Members
    <3> QED BY <1>1, <3>2, <3>3
  <2>3. Row(u)
    <3>1. (IF u.nbits < ByteBits THEN u.nbits ELSE ByteBits) = 0
      BY <2>2
    <3>2. u.shift \in [1..(IF u.nbits < ByteBits THEN u.nbits ELSE ByteBits) -> BOOLEAN]
      BY <1>0, <2>2, <3>1
    <3> QED BY <2>2, <3>2 DEF Row
  <2> QED BY <1>4, <2>2, <2>3 DEF Fine, SameLevels, u
<1>5. CASE t.state = "READ" /\ t.masterAck
  <2>1. NextByte(t, b) = LoadReadByte(r, b)
    BY <1>5 DEF NextByte
  <2> HIDE DEF r
  <2>3. LET u == LoadReadByte(r, b)
        IN  /\ Fine(u) /\ SameLevels(u, r) /\ u.state = "READ" /\ u.nbits = 0
            /\ u.readOpen = r.readOpen /\ u.writeOpen = r.writeOpen
            /\ u.deferred = (b = Defer)
            /\ b = Defer => ~u.low
            /\ b # Defer => u.cur = b /\ u.low = ~b[1]
    BY <1>1, <1>5, LoadFacts
  <2>4. t.readOpen = (t.state = "ADDR" \/ t.readOpen)
    BY <1>5 DEF Members
  <2> QED BY <1>1, <1>5, <2>1, <2>3, <2>4 DEF SameLevels
<1>6. CASE t.state = "READ" /\ ~t.masterAck
  <2>1. NextByte(t, b) = [Closed(r) EXCEPT !.state = "WAIT", !.low = FALSE]
    BY <1>6 DEF NextByte
  <2> HIDE DEF r
  <2> DEFINE c == Closed(r)
             u == NextByte(t, b)
  <2>2. /\ c \in Members /\ c.known = t.known /\ c.scl = t.scl /\ c.sda = t.sda
        /\ c.nbits = 0 /\ ~c.writeOpen /\ ~c.readOpen /\ ~c.deferred
    BY <1>1, ClosedFacts
  <2> HIDE DEF c, u
  <2>3. /\ u \in Members /\ u.known = t.known /\ u.scl = t.scl /\ u.sda = t.sda
        /\ u.nbits = 0 /\ ~u.writeOpen /\ ~u.readOpen /\ ~u.deferred /\ u.state = "WAIT"
        /\ ~u.low
    BY <2>1, <2>2 DEF Members, c, u
  <2>4. Row(u)
    BY <2>3 DEF Row
  <2> QED BY <1>6, <2>3, <2>4 DEF Fine, SameLevels, u
<1>7. CASE t.state = "WRITE"
  <2>1. NextByte(t, b) = [r EXCEPT !.low = FALSE]
    BY <1>7 DEF NextByte
  <2> HIDE DEF r
  <2> DEFINE u == NextByte(t, b)
  <2> HIDE DEF u
  <2>2. /\ u \in Members /\ u.nbits = 0 /\ u.shift = <<>> /\ u.state = "WRITE" /\ u.known
        /\ u.known = t.known /\ u.scl = t.scl /\ u.sda = t.sda /\ u.readOpen = t.readOpen
        /\ u.writeOpen = t.writeOpen /\ ~u.low /\ ~u.deferred
    BY <1>0, <1>1, <1>7, <2>1 DEF Members, u
  <2>3. Row(u)
    <3>1. (IF u.nbits < ByteBits THEN u.nbits ELSE ByteBits) = 0
      BY <2>2
    <3>2. u.shift \in [1..(IF u.nbits < ByteBits THEN u.nbits ELSE ByteBits) -> BOOLEAN]
      BY <1>0, <2>2, <3>1
    <3> QED BY <2>2, <3>2 DEF Row
  <2> QED BY <1>7, <2>2, <2>3 DEF Fine, SameLevels, u
<1>8. t.state \in {"ADDR", "WRITE", "READ"} /\ t.masterAck \in BOOLEAN
  BY DEF Members, Idling
<1> QED BY <1>3, <1>4, <1>5, <1>6, <1>7, <1>8

\* The bits of the byte in progress, when a target has them to tell.
Spelled(t) ==
    t.state \in {"ADDR", "WRITE"} =>
        t.shift \in [1..(IF t.nbits < ByteBits THEN t.nbits ELSE ByteBits) -> BOOLEAN]

LEMMA FallFacts ==
    ASSUME NEW k \in Targets, NEW t \in Members, NEW b \in Bytes \cup {Defer},
           Spelled(t), t.known, ~t.deferred
    PROVE  /\ Fine(OnFall(k, t, b)) /\ SameLevels(OnFall(k, t, b), t)
           /\ Idling(t.state) => OnFall(k, t, b) = [t EXCEPT !.low = FALSE]
           /\ ~Idling(t.state) /\ t.nbits = ByteBits => OnFall(k, t, b) = Acknowledge(k, t)
           /\ ~Idling(t.state) /\ t.nbits = ByteBits + 1 => OnFall(k, t, b) = NextByte(t, b)
           /\ ~Idling(t.state) /\ t.nbits < ByteBits =>
                  OnFall(k, t, b) = IF t.state = "READ" /\ t.nbits # 0
                                    THEN [t EXCEPT !.low = ~t.cur[t.nbits + 1]] ELSE t
<1>1. t.nbits \in 0..(ByteBits + 1)
  BY DEF Members
<1>2. CASE Idling(t.state)
  <2>1. OnFall(k, t, b) = [t EXCEPT !.low = FALSE]
    BY <1>2 DEF OnFall, Idling
  <2> QED BY <1>2, <2>1 DEF Fine, Row, SameLevels, Members, Idling
<1>3. CASE ~Idling(t.state) /\ t.nbits = ByteBits
  <2>1. OnFall(k, t, b) = Acknowledge(k, t)
    BY <1>3 DEF OnFall, Idling
  <2>2. Row(t)
    BY <1>3 DEF Row, Spelled, Idling
  <2>3. Fine(Acknowledge(k, t)) /\ SameLevels(Acknowledge(k, t), t)
    BY <1>3, <2>2, AcknowledgeFacts
  <2> QED BY <1>3, <2>1, <2>3
<1>4. CASE ~Idling(t.state) /\ t.nbits = ByteBits + 1
  <2>1. OnFall(k, t, b) = NextByte(t, b)
    BY <1>4 DEF OnFall, Idling
  <2>2. t.state = "ADDR" => t.shift[ByteBits] \in BOOLEAN
    BY <1>4 DEF Spelled
  <2>3. Fine(NextByte(t, b)) /\ SameLevels(NextByte(t, b), t)
    BY <1>4, <2>2, NextByteFacts
  <2> QED BY <1>4, <2>1, <2>3
<1>5. CASE ~Idling(t.state) /\ t.nbits < ByteBits
  <2>0. t.nbits # ByteBits /\ t.nbits # ByteBits + 1 /\ t.nbits <= ByteBits
    BY <1>1, <1>5
  <2>1. Row(t)
    BY <2>0 DEF Row, Spelled, Idling
  <2>2. CASE t.state = "READ" /\ t.nbits # 0
    <3>1. OnFall(k, t, b) = DriveBit(t)
      BY <1>5, <2>2 DEF OnFall, Idling
    <3>2. DriveBit(t) \in Members /\ DriveBit(t) = [t EXCEPT !.low = ~t.cur[t.nbits + 1]]
      BY <1>5, BitDriven DEF DriveBit
    <3>3. Row(DriveBit(t)) /\ SameLevels(DriveBit(t), t)
      BY <2>1, <3>2 DEF Row, SameLevels, Members
    <3>4. Fine(OnFall(k, t, b)) /\ SameLevels(OnFall(k, t, b), t)
      BY <3>1, <3>2, <3>3 DEF Fine
    <3>5. OnFall(k, t, b) = IF t.state = "READ" /\ t.nbits # 0
                            THEN [t EXCEPT !.low = ~t.cur[t.nbits + 1]] ELSE t
      BY <2>2, <3>1, <3>2
    <3> QED BY <1>5, <2>0, <3>4, <3>5
  <2>3. CASE ~(t.state = "READ" /\ t.nbits # 0)
    <3>1. OnFall(k, t, b) = t
      BY <1>5, <2>3 DEF OnFall, Idling
    <3>2. Fine(OnFall(k, t, b)) /\ SameLevels(OnFall(k, t, b), t)
      BY <2>1, <3>1 DEF Fine, SameLevels
    <3> QED BY <1>5, <2>0, <2>3, <3>1, <3>2
  <2> QED BY <2>2, <2>3
<1> QED BY <1>1, <1>2, <1>3, <1>4, <1>5

LevelsSeen(t) == t.known /\ t.scl = line["scl"] /\ t.sda = line["sda"]

LEMMA LevelsFacts ==
    ASSUME NEW t \in Members, line \in [Lines -> BOOLEAN], Row(t)
    PROVE  LET u == Levels(t)
           IN  /\ u \in Members /\ LevelsSeen(u) /\ Spelled(u)
               /\ u.state = t.state /\ u.nbits = t.nbits /\ u.shift = t.shift
               /\ u.low = t.low /\ u.wbuf = t.wbuf /\ u.writeOpen = t.writeOpen
               /\ u.cur = t.cur /\ u.masterAck = t.masterAck /\ u.readOpen = t.readOpen
               /\ u.deferred = t.deferred
<1>1. line["scl"] \in BOOLEAN /\ line["sda"] \in BOOLEAN
  BY DEF Lines
<1> DEFINE u == Levels(t)
<1>2. u = [t EXCEPT !.known = TRUE, !.scl = line["scl"], !.sda = line["sda"]]
  BY DEF Levels
<1> HIDE DEF u
<1>3. /\ u \in Members /\ u.known /\ u.scl = line["scl"] /\ u.sda = line["sda"]
      /\ u.state = t.state /\ u.nbits = t.nbits /\ u.shift = t.shift
      /\ u.low = t.low /\ u.wbuf = t.wbuf /\ u.writeOpen = t.writeOpen
      /\ u.cur = t.cur /\ u.masterAck = t.masterAck /\ u.readOpen = t.readOpen
      /\ u.deferred = t.deferred
  BY <1>1, <1>2 DEF Members
<1>4. Spelled(u) /\ LevelsSeen(u)
  BY <1>3 DEF Spelled, LevelsSeen, Row
<1> QED BY <1>3, <1>4 DEF u

\* The synchronisation of a target that an edge waits for.
LEMMA SyncedFine ==
    ASSUME NEW k \in Targets, NEW t, NEW b \in Bytes \cup {Defer},
           Fine(t), ~t.deferred, line \in [Lines -> BOOLEAN], ~LevelsSeen(t)
    PROVE  Fine(Synced(k, t, b)) /\ LevelsSeen(Synced(k, t, b))
<1>1. t \in Members /\ Row(t)
  BY DEF Fine
<1>2. line["scl"] \in BOOLEAN /\ line["sda"] \in BOOLEAN
  BY DEF Lines
<1> DEFINE v == Levels(t)
<1>3. /\ v \in Members /\ LevelsSeen(v) /\ Spelled(v) /\ v.known /\ v.scl = line["scl"]
      /\ v.state = t.state /\ v.nbits = t.nbits /\ v.shift = t.shift /\ ~v.deferred
  BY <1>1, LevelsFacts DEF LevelsSeen
<1> HIDE DEF v
<1>4. CASE ~t.known
  <2>1. Synced(k, t, b) = v
    BY <1>4 DEF Synced, v
  <2>2. Row(v)
    BY <1>1, <1>3, <1>4 DEF Row, Spelled
  <2> QED BY <1>3, <2>1, <2>2 DEF Fine
<1>5. CASE t.known /\ line["scl"] # t.scl /\ line["scl"]
  <2>1. Synced(k, t, b) = OnRise(v, line["sda"])
    BY <1>5 DEF Synced, v
  <2>2. v.state \notin {"IDLE", "WAIT"} => v.nbits <= ByteBits
    BY <1>1, <1>3, <1>5 DEF Row, Members
  <2>3. Row(v)
    BY <1>3, <1>5 DEF Row, Spelled
  <2>4. /\ OnRise(v, line["sda"]) \in Members /\ Row(OnRise(v, line["sda"]))
        /\ OnRise(v, line["sda"]).known = v.known /\ OnRise(v, line["sda"]).scl = v.scl
        /\ OnRise(v, line["sda"]).sda = v.sda
    BY <1>2, <1>3, <1>5, <2>2, <2>3, RiseFacts
  <2> QED BY <1>3, <2>1, <2>4 DEF Fine, LevelsSeen
<1>6. CASE t.known /\ line["scl"] # t.scl /\ ~line["scl"]
  <2>1. Synced(k, t, b) = OnFall(k, v, b)
    BY <1>6 DEF Synced, v
  <2>2. Fine(OnFall(k, v, b)) /\ SameLevels(OnFall(k, v, b), v)
    BY <1>3, FallFacts
  <2> QED BY <1>3, <2>1, <2>2 DEF LevelsSeen, SameLevels
<1>7. CASE t.known /\ line["scl"] = t.scl
  <2>1. CASE ~line["scl"]
    <3>1. Synced(k, t, b) = v
      BY <1>7, <2>1 DEF Synced, v
    <3>2. Row(v)
      BY <1>1, <1>3, <1>7, <2>1 DEF Row, Spelled
    <3> QED BY <1>3, <3>1, <3>2 DEF Fine
  <2>2. CASE line["scl"]
    <3>1. Synced(k, t, b) = IF line["sda"] THEN OnStop(v) ELSE OnStart(v)
      BY <1>7, <2>2 DEF Synced, v
    <3>2. Row(v)
      BY <1>3, <2>2 DEF Row, Spelled
    <3>3. /\ OnStart(v) \in Members /\ OnStart(v).known = v.known
          /\ OnStart(v).scl = v.scl /\ OnStart(v).sda = v.sda /\ OnStart(v).state = "ADDR"
          /\ OnStart(v).nbits = 0 /\ OnStart(v).shift = <<>> /\ ~OnStart(v).deferred
      BY <1>3, StartFacts
    <3>4. /\ OnStop(v) \in Members /\ OnStop(v).known = v.known
          /\ OnStop(v).scl = v.scl /\ OnStop(v).sda = v.sda /\ OnStop(v).state = "IDLE"
          /\ ~OnStop(v).deferred
      BY <1>3, StopFacts
    <3>5. Row(OnStop(v))
      BY <1>3, <3>4 DEF Row
    <3>6. Row(OnStart(v))
      <4>1. (IF OnStart(v).nbits < ByteBits THEN OnStart(v).nbits ELSE ByteBits) = 0
        BY <3>3
      <4>2. <<>> \in [1..0 -> BOOLEAN]
        BY ShiftSets
      <4> QED BY <1>3, <3>3, <4>1, <4>2 DEF Row
    <3> QED BY <1>3, <3>1, <3>3, <3>4, <3>5, <3>6 DEF Fine, LevelsSeen
  <2> QED BY <2>1, <2>2
<1> QED BY <1>4, <1>5, <1>6, <1>7

-----------------------------------------------------------------------------
(* The master.                                                              *)

\* The lines a master pulls, by its phase.
Pulling(n) ==
    /\ n.phase \in {"START_CHECK", "FINISH"} => n.pulls = {}
    /\ n.phase \in {"START_SCL_LOW", "STOP_SDA_RELEASE"} => n.pulls = {"sda"}
    /\ n.phase = "RS_SCL_RELEASE" => n.pulls = {"scl"}
    /\ n.phase = "STOP_SCL_RELEASE" => n.pulls = Lines
    /\ n.phase \in {"BIT_SET", "BIT_SCL_HIGH", "STOP_SDA_LOW", "RS_SDA_RELEASE"} =>
           "scl" \in n.pulls
    /\ n.phase \in {"BIT_SAMPLE", "BIT_SCL_LOW"} => "scl" \notin n.pulls

Ending == {"STOP_SDA_LOW", "STOP_SCL_RELEASE", "STOP_SDA_RELEASE", "FINISH"}
Segment(n) == IF n.second THEN n.req.nread ELSE Len(n.req.write)
Released(n) == (n.held <=> n.pulls # {}) /\ (n.held => "scl" \in n.pulls)

\* What a transaction in progress is, and a bus at rest.
Underway(n) ==
    /\ n.busy <=> n.phase # "IDLE"
    /\ n.busy => /\ n.configured /\ ~n.held /\ ~n.done /\ Pulling(n)
                 /\ n.second \/ n.req.hasWrite
                 /\ n.phase \notin Ending => n.index <= Segment(n)
    /\ ~n.busy => Released(n)
Sane(n) == n \in Masters /\ Underway(n)

LEMMA RequestFacts ==
    ASSUME NEW r \in Requests
    PROVE  /\ r.addr \in Addresses /\ r.hasWrite \in BOOLEAN /\ r.write \in Seq(Bytes)
           /\ r.nread \in Nat /\ r.stop \in BOOLEAN /\ Len(r.write) \in Nat
           /\ ~r.hasWrite => r.nread > 0 /\ r.write = <<>>
  BY I2cBusAssumption, LenProperties

LEMMA AddressByteFacts ==
    ASSUME NEW a \in Addresses, NEW x \in BOOLEAN
    PROVE  AddressByte(a, x) \in Bytes
  BY DEF AddressByte, Addresses, Bytes

LEMMA CompletedFacts ==
    ASSUME NEW n \in Masters, NEW e \in {"none", "EIO", "ETIMEDOUT"}
    PROVE  LET u == Completed(n, e)
           IN  /\ u \in Masters /\ ~u.busy /\ u.done /\ u.phase = "IDLE"
               /\ u.error = (IF e # "none" /\ n.error = "none" THEN e ELSE n.error)
               /\ u.held = n.held /\ u.pulls = n.pulls /\ u.configured = n.configured
               /\ u.req = n.req /\ u.second = n.second /\ u.index = n.index /\ u.bit = n.bit
               /\ u.rx = n.rx /\ u.acks = n.acks /\ u.rbuf = n.rbuf
<1> DEFINE x == IF e # "none" /\ n.error = "none" THEN e ELSE n.error
<1>1. x \in {"none", "EIO", "ETIMEDOUT"} /\ "IDLE" \in Phases
  BY DEF Masters, Phases
<1>2. Completed(n, e) = [n EXCEPT !.error = x, !.busy = FALSE, !.done = TRUE, !.phase = "IDLE"]
  BY DEF Completed, Masters
<1> HIDE DEF x
<1> DEFINE u == Completed(n, e)
<1> HIDE DEF u
<1>3. /\ u \in Masters /\ u.busy = FALSE /\ u.done = TRUE /\ u.phase = "IDLE"
      /\ u.error = x /\ u.held = n.held /\ u.pulls = n.pulls /\ u.configured = n.configured
      /\ u.req = n.req /\ u.second = n.second /\ u.index = n.index /\ u.bit = n.bit
      /\ u.rx = n.rx /\ u.acks = n.acks /\ u.rbuf = n.rbuf
  BY <1>1, <1>2 DEF Masters, u
<1> QED BY <1>3 DEF u, x

LEMMA AbortedFacts ==
    ASSUME NEW n \in Masters, NEW e \in {"EIO", "ETIMEDOUT"}
    PROVE  LET u == Aborted(n, e)
           IN  /\ Sane(u) /\ ~u.busy /\ u.done /\ u.phase = "IDLE" /\ ~u.held /\ u.pulls = {}
               /\ u.error = (IF n.error = "none" THEN e ELSE n.error)
               /\ u.req = n.req /\ u.acks = n.acks /\ u.rbuf = n.rbuf
<1> DEFINE c == [n EXCEPT !.pulls = {}, !.held = FALSE]
           u == Aborted(n, e)
<1>1. /\ c \in Masters /\ c.pulls = {} /\ ~c.held /\ c.error = n.error /\ c.req = n.req
      /\ c.acks = n.acks /\ c.rbuf = n.rbuf
  BY DEF Masters
<1>2. u = Completed(c, e)
  BY DEF Aborted
<1> HIDE DEF c, u
<1>3. /\ u \in Masters /\ ~u.busy /\ u.done /\ u.phase = "IDLE"
      /\ u.error = (IF e # "none" /\ c.error = "none" THEN e ELSE c.error)
      /\ u.held = c.held /\ u.pulls = c.pulls
      /\ u.req = c.req /\ u.acks = c.acks /\ u.rbuf = c.rbuf
  BY <1>1, <1>2, CompletedFacts
<1>4. Sane(u)
  BY <1>1, <1>3 DEF Sane, Underway, Released
<1> QED BY <1>1, <1>3, <1>4 DEF u

LEMMA DriveFacts ==
    ASSUME m \in Masters, NEW l \in Lines, NEW low \in BOOLEAN, NEW p \in Phases
    PROVE  LET u == Then(Drive(l, low), p)
           IN  /\ u = [m EXCEPT !.pulls = IF low THEN m.pulls \cup {l} ELSE m.pulls \ {l},
                                !.phase = p]
               /\ Drive(l, low) = [m EXCEPT !.pulls = IF low THEN m.pulls \cup {l}
                                                      ELSE m.pulls \ {l}]
               /\ u \in Masters /\ Drive(l, low) \in Masters
<1>1. m.pulls \in SUBSET Lines
  BY DEF Masters
<1>2. (IF low THEN m.pulls \cup {l} ELSE m.pulls \ {l}) \in SUBSET Lines
  BY <1>1
<1> QED BY <1>2 DEF Then, Drive, Masters

\* What is left of the transaction of a master (see QuartersLeft).
ByteTime == 4 * (ByteBits + 1)
LeftOf(n) ==
    IF n.second THEN n.req.nread - n.index
    ELSE Len(n.req.write) - n.index + (IF n.req.nread > 0 THEN 1 + n.req.nread ELSE 0)
After(n) == LeftOf(n) * (ByteTime + 4) + 4
Quarters(n) ==
    CASE n.phase = "RS_SDA_RELEASE"   -> After(n) + ByteTime + 4
      [] n.phase = "RS_SCL_RELEASE"   -> After(n) + ByteTime + 3
      [] n.phase = "START_CHECK"      -> After(n) + ByteTime + 2
      [] n.phase = "START_SCL_LOW"    -> After(n) + ByteTime + 1
      [] n.phase = "BIT_SET"          -> After(n) + ByteTime - 4 * n.bit - 0
      [] n.phase = "BIT_SCL_HIGH"     -> After(n) + ByteTime - 4 * n.bit - 1
      [] n.phase = "BIT_SAMPLE"       -> After(n) + ByteTime - 4 * n.bit - 2
      [] n.phase = "BIT_SCL_LOW"      -> After(n) + ByteTime - 4 * n.bit - 3
      [] n.phase = "STOP_SDA_LOW"     -> 4
      [] n.phase = "STOP_SCL_RELEASE" -> 3
      [] n.phase = "STOP_SDA_RELEASE" -> 2
      [] OTHER                        -> 1

LEMMA SameQuarters == QuartersLeft = Quarters(m)
  BY DEF QuartersLeft, BytesLeft, Quarters, After, LeftOf, ByteTime

Closer(n) == n.busy => Quarters(n) > 0 /\ Quarters(n) < Quarters(m)

LEMMA LeftFacts ==
    ASSUME NEW n \in Masters, Underway(n), n.busy, n.phase \notin Ending
    PROVE  /\ LeftOf(n) \in Nat /\ After(n) \in Nat /\ After(n) > 3
           /\ ByteTime \in Nat /\ ByteTime = 4 * ByteBits + 4
<1>1. /\ n.req \in Requests /\ n.index \in Nat /\ n.index <= Segment(n) /\ n.second \in BOOLEAN
  BY DEF Masters, Underway
<1>2. n.req.nread \in Nat /\ Len(n.req.write) \in Nat
  BY <1>1, RequestFacts
<1>3. LeftOf(n) \in Nat
  <2>1. CASE n.second
    BY <1>1, <1>2, <2>1 DEF LeftOf, Segment
  <2>2. CASE ~n.second
    <3>1. (IF n.req.nread > 0 THEN 1 + n.req.nread ELSE 0) \in Nat
      BY <1>2
    <3>2. Len(n.req.write) - n.index \in Nat
      BY <1>1, <1>2, <2>2 DEF Segment
    <3> QED BY <2>2, <3>1, <3>2 DEF LeftOf
  <2> QED BY <2>1, <2>2
<1>4. ByteTime \in Nat /\ ByteTime = 4 * ByteBits + 4
  BY DEF ByteTime
<1>5. \A a, b \in Nat : a * b \in Nat
  OBVIOUS
<1>6. LeftOf(n) * (ByteTime + 4) \in Nat
  BY <1>3, <1>4, <1>5
<1> QED BY <1>3, <1>4, <1>6 DEF After

\* One step in the same byte, or before it.
LEMMA StepCloser ==
    ASSUME m \in Masters, Underway(m), m.busy, m.phase \notin Ending,
           NEW n \in Masters, Underway(n), n.busy, n.phase \notin Ending,
           n.req = m.req, n.second = m.second, n.index = m.index,
           \/ m.phase = "RS_SDA_RELEASE" /\ n.phase = "RS_SCL_RELEASE"
           \/ m.phase = "RS_SCL_RELEASE" /\ n.phase = "START_CHECK"
           \/ m.phase = "START_CHECK" /\ n.phase = "START_SCL_LOW"
           \/ m.phase = "START_SCL_LOW" /\ n.phase = "BIT_SET" /\ n.bit = 0
           \/ m.phase = "BIT_SET" /\ n.phase = "BIT_SCL_HIGH" /\ n.bit = m.bit
           \/ m.phase = "BIT_SCL_HIGH" /\ n.phase = "BIT_SAMPLE" /\ n.bit = m.bit
           \/ m.phase = "BIT_SAMPLE" /\ n.phase = "BIT_SCL_LOW" /\ n.bit = m.bit
           \/ m.phase = "BIT_SCL_LOW" /\ n.phase = "BIT_SET" /\ n.bit = m.bit + 1
    PROVE  Closer(n)
<1>1. After(n) = After(m)
  BY DEF After, LeftOf
<1>2. /\ After(m) \in Nat /\ After(m) > 3 /\ ByteTime \in Nat /\ ByteTime = 4 * ByteBits + 4
  BY LeftFacts
<1>3. n.bit \in 0..ByteBits /\ m.bit \in 0..ByteBits
  BY DEF Masters
<1>4. \A x : /\ x.phase = "RS_SDA_RELEASE" => Quarters(x) = After(x) + ByteTime + 4
             /\ x.phase = "RS_SCL_RELEASE" => Quarters(x) = After(x) + ByteTime + 3
             /\ x.phase = "START_CHECK" => Quarters(x) = After(x) + ByteTime + 2
             /\ x.phase = "START_SCL_LOW" => Quarters(x) = After(x) + ByteTime + 1
             /\ x.phase = "BIT_SET" => Quarters(x) = After(x) + ByteTime - 4 * x.bit - 0
             /\ x.phase = "BIT_SCL_HIGH" => Quarters(x) = After(x) + ByteTime - 4 * x.bit - 1
             /\ x.phase = "BIT_SAMPLE" => Quarters(x) = After(x) + ByteTime - 4 * x.bit - 2
             /\ x.phase = "BIT_SCL_LOW" => Quarters(x) = After(x) + ByteTime - 4 * x.bit - 3
  BY DEF Quarters
<1>5. CASE m.phase \in {"RS_SDA_RELEASE", "RS_SCL_RELEASE", "START_CHECK", "START_SCL_LOW"}
  <2>1. Quarters(n) = Quarters(m) - 1 /\ Quarters(n) > 0 /\ Quarters(m) \in Nat
    <3>1. CASE n.phase = "BIT_SET"
      <4>1. /\ Quarters(n) = After(m) + ByteTime - 4 * 0 - 0
            /\ Quarters(m) = After(m) + ByteTime + 1
        BY <1>1, <1>4, <1>5, <3>1
      <4> QED BY <1>2, <4>1
    <3>2. CASE n.phase # "BIT_SET"
      BY <1>1, <1>2, <1>4, <1>5, <3>2
    <3> QED BY <3>1, <3>2
  <2> QED BY <2>1 DEF Closer
<1>6. CASE m.phase \in {"BIT_SET", "BIT_SCL_HIGH", "BIT_SAMPLE", "BIT_SCL_LOW"}
  <2>1. Quarters(n) = Quarters(m) - 1 /\ Quarters(n) > 0 /\ Quarters(m) \in Nat
    BY <1>1, <1>2, <1>3, <1>4, <1>6
  <2> QED BY <2>1 DEF Closer
<1> QED BY <1>5, <1>6

\* A byte is over: the next one is a byte nearer to the end.
LEMMA ByteCloser ==
    ASSUME m \in Masters, Underway(m), m.busy, m.phase = "BIT_SCL_LOW", m.bit = ByteBits,
           NEW n \in Masters, Underway(n), n.busy, n.phase \notin Ending,
           LeftOf(n) = LeftOf(m) - 1,
           n.phase = "RS_SDA_RELEASE" \/ (n.phase = "BIT_SET" /\ n.bit = 0)
    PROVE  Closer(n)
<1>1. m.phase \notin Ending
  BY DEF Ending
<1>2. /\ After(m) \in Nat /\ After(m) > 3 /\ ByteTime \in Nat /\ ByteTime = 4 * ByteBits + 4
      /\ LeftOf(m) \in Nat /\ LeftOf(n) \in Nat /\ After(n) \in Nat /\ After(n) > 3
  BY <1>1, LeftFacts
<1>3. \A a, b \in Nat : a > 0 => (a - 1) * b = a * b - b
  OBVIOUS
<1>4. LeftOf(m) > 0
  BY <1>2
<1>5. (LeftOf(m) - 1) * (ByteTime + 4) = LeftOf(m) * (ByteTime + 4) - (ByteTime + 4)
  BY <1>2, <1>3, <1>4
<1>6. After(n) = After(m) - (ByteTime + 4)
  <2>1. LeftOf(m) * (ByteTime + 4) \in Nat
    BY <1>2
  <2> QED BY <1>2, <1>5, <2>1 DEF After
<1>7. Quarters(m) = After(m) + ByteTime - 4 * ByteBits - 3
  BY DEF Quarters
<1>8. CASE n.phase = "RS_SDA_RELEASE"
  <2>1. Quarters(n) = After(n) + ByteTime + 4
    BY <1>8 DEF Quarters
  <2>2. Quarters(n) = After(m)
    BY <1>2, <1>6, <2>1
  <2>3. Quarters(m) = After(m) + 1
    BY <1>2, <1>7
  <2> QED BY <1>2, <2>2, <2>3 DEF Closer
<1>9. CASE n.phase = "BIT_SET" /\ n.bit = 0
  <2>1. Quarters(n) = After(n) + ByteTime - 4 * 0 - 0
    BY <1>9 DEF Quarters
  <2> QED BY <1>2, <1>6, <1>7, <2>1 DEF Closer
<1> QED BY <1>8, <1>9

\* The STOP.
LEMMA EndCloser ==
    ASSUME m \in Masters, Underway(m), m.busy, NEW n \in Masters,
           \/ m.phase = "BIT_SCL_LOW" /\ n.phase = "STOP_SDA_LOW"
           \/ m.phase = "STOP_SDA_LOW" /\ n.phase = "STOP_SCL_RELEASE"
           \/ m.phase = "STOP_SCL_RELEASE" /\ n.phase = "STOP_SDA_RELEASE"
           \/ m.phase = "STOP_SDA_RELEASE" /\ n.phase = "FINISH"
    PROVE  Closer(n)
<1>1. CASE m.phase = "BIT_SCL_LOW" /\ n.phase = "STOP_SDA_LOW"
  <2>1. m.phase \notin Ending
    BY <1>1 DEF Ending
  <2>2. /\ After(m) \in Nat /\ After(m) > 3 /\ ByteTime \in Nat /\ ByteTime = 4 * ByteBits + 4
        /\ m.bit \in 0..ByteBits
    BY <2>1, LeftFacts DEF Masters
  <2> QED BY <1>1, <2>2 DEF Closer, Quarters
<1>2. CASE m.phase # "BIT_SCL_LOW"
  <2>1. /\ m.phase = "STOP_SDA_LOW" => Quarters(m) = 4
        /\ m.phase = "STOP_SCL_RELEASE" => Quarters(m) = 3
        /\ m.phase = "STOP_SDA_RELEASE" => Quarters(m) = 2
    BY DEF Quarters
  <2>2. /\ n.phase = "STOP_SCL_RELEASE" => Quarters(n) = 3
        /\ n.phase = "STOP_SDA_RELEASE" => Quarters(n) = 2
        /\ n.phase = "FINISH" => Quarters(n) = 1
    BY DEF Quarters
  <2> QED BY <1>2, <2>1, <2>2 DEF Closer
<1> QED BY <1>1, <1>2

\* What each action of the master leaves.
Progressed(n) == Sane(n) /\ Closer(n)

LEMMA PhaseNames ==
    {"START_CHECK", "START_SCL_LOW", "RS_SDA_RELEASE", "RS_SCL_RELEASE", "BIT_SET",
     "BIT_SCL_HIGH", "BIT_SAMPLE", "BIT_SCL_LOW", "STOP_SDA_LOW", "STOP_SCL_RELEASE",
     "STOP_SDA_RELEASE", "FINISH", "IDLE"} \subseteq Phases
  BY DEF Phases

LEMMA StartCheckStep ==
    ASSUME Sane(m), m.busy, m.phase = "START_CHECK"
    PROVE  Progressed(StartCheck)
<1>1. CASE line["scl"] /\ line["sda"]
  <2> DEFINE n == StartCheck
  <2>1. n = Then(Drive("sda", TRUE), "START_SCL_LOW")
    BY <1>1 DEF StartCheck
  <2>2. n \in Masters /\ n = [m EXCEPT !.pulls = m.pulls \cup {"sda"}, !.phase = "START_SCL_LOW"]
    BY <2>1, DriveFacts, PhaseNames DEF Sane, Lines
  <2> HIDE DEF n
  <2>3. /\ n.phase = "START_SCL_LOW" /\ n.busy /\ n.configured /\ ~n.held /\ ~n.done
        /\ n.pulls = {"sda"} /\ n.req = m.req /\ n.second = m.second /\ n.index = m.index
    BY <2>2 DEF Sane, Underway, Pulling, Masters
  <2>4. Underway(n)
    BY <2>3 DEF Sane, Underway, Pulling, Segment, Ending
  <2>5. Closer(n)
    BY <2>2, <2>3, <2>4, StepCloser DEF Sane, Ending
  <2> QED BY <2>2, <2>4, <2>5 DEF Progressed, Sane, n
<1>2. CASE ~(line["scl"] /\ line["sda"])
  <2>1. StartCheck = Aborted(m, "ETIMEDOUT")
    BY <1>2 DEF StartCheck
  <2> QED BY <2>1, AbortedFacts DEF Sane, Progressed, Closer
<1> QED BY <1>1, <1>2

LEMMA StartSclLowStep ==
    ASSUME Sane(m), m.busy, m.phase = "START_SCL_LOW"
    PROVE  Progressed(StartSclLow)
<1> DEFINE n == StartSclLow
<1>1. n = [m EXCEPT !.pulls = m.pulls \cup {"scl"}, !.bit = 0, !.phase = "BIT_SET"]
  BY DEF StartSclLow, Then, Drive, Sane, Masters
<1>2. (m.pulls \cup {"scl"}) \in SUBSET Lines /\ 0 \in 0..ByteBits /\ "BIT_SET" \in Phases
  BY PhaseNames DEF Sane, Masters, Lines
<1> HIDE DEF n
<1>3. n \in Masters
  BY <1>1, <1>2 DEF Sane, Masters
<1>4. /\ n.phase = "BIT_SET" /\ n.busy /\ n.configured /\ ~n.held /\ ~n.done /\ n.bit = 0
      /\ "scl" \in n.pulls /\ n.req = m.req /\ n.second = m.second /\ n.index = m.index
  BY <1>1 DEF Sane, Underway, Pulling, Masters
<1>5. Underway(n)
  BY <1>4 DEF Sane, Underway, Pulling, Segment, Ending
<1>6. Closer(n)
  BY <1>3, <1>4, <1>5, StepCloser DEF Sane, Ending
<1> QED BY <1>3, <1>5, <1>6 DEF Progressed, Sane, n

LEMMA RsSdaReleaseStep ==
    ASSUME Sane(m), m.busy, m.phase = "RS_SDA_RELEASE"
    PROVE  Progressed(RsSdaRelease)
<1> DEFINE n == RsSdaRelease
<1>1. n \in Masters /\ n = [m EXCEPT !.pulls = m.pulls \ {"sda"}, !.phase = "RS_SCL_RELEASE"]
  BY DriveFacts, PhaseNames DEF Sane, Lines, RsSdaRelease
<1> HIDE DEF n
<1>2. /\ n.phase = "RS_SCL_RELEASE" /\ n.busy /\ n.configured /\ ~n.held /\ ~n.done
      /\ n.pulls = m.pulls \ {"sda"} /\ n.req = m.req /\ n.second = m.second
      /\ n.index = m.index /\ n.bit = m.bit
  BY <1>1 DEF Sane, Underway, Masters
<1>3. Underway(n)
  BY <1>2 DEF Sane, Underway, Pulling, Segment, Ending, Masters, Lines
<1>4. Closer(n)
  BY <1>1, <1>2, <1>3, StepCloser DEF Sane, Ending
<1> QED BY <1>1, <1>3, <1>4 DEF Progressed, Sane, n

LEMMA RsSclReleaseStep ==
    ASSUME Sane(m), m.busy, m.phase = "RS_SCL_RELEASE"
    PROVE  Progressed(RsSclRelease)
<1> DEFINE n == RsSclRelease
<1>1. n \in Masters /\ n = [m EXCEPT !.pulls = m.pulls \ {"scl"}, !.phase = "START_CHECK"]
  BY DriveFacts, PhaseNames DEF Sane, Lines, RsSclRelease
<1> HIDE DEF n
<1>2. /\ n.phase = "START_CHECK" /\ n.busy /\ n.configured /\ ~n.held /\ ~n.done
      /\ n.pulls = m.pulls \ {"scl"} /\ n.req = m.req /\ n.second = m.second
      /\ n.index = m.index /\ n.bit = m.bit
  BY <1>1 DEF Sane, Underway, Masters
<1>3. Underway(n)
  BY <1>2 DEF Sane, Underway, Pulling, Segment, Ending
<1>4. Closer(n)
  BY <1>1, <1>2, <1>3, StepCloser DEF Sane, Ending
<1> QED BY <1>1, <1>3, <1>4 DEF Progressed, Sane, n

LEMMA BitSclHighStep ==
    ASSUME Sane(m), m.busy, m.phase = "BIT_SCL_HIGH"
    PROVE  Progressed(BitSclHigh)
<1> DEFINE n == BitSclHigh
<1>1. n \in Masters /\ n = [m EXCEPT !.pulls = m.pulls \ {"scl"}, !.phase = "BIT_SAMPLE"]
  BY DriveFacts, PhaseNames DEF Sane, Lines, BitSclHigh
<1> HIDE DEF n
<1>2. /\ n.phase = "BIT_SAMPLE" /\ n.busy /\ n.configured /\ ~n.held /\ ~n.done
      /\ n.pulls = m.pulls \ {"scl"} /\ n.req = m.req /\ n.second = m.second
      /\ n.index = m.index /\ n.bit = m.bit
  BY <1>1 DEF Sane, Underway, Masters
<1>3. Underway(n)
  BY <1>2 DEF Sane, Underway, Pulling, Segment, Ending
<1>4. Closer(n)
  BY <1>1, <1>2, <1>3, StepCloser DEF Sane, Ending
<1> QED BY <1>1, <1>3, <1>4 DEF Progressed, Sane, n

LEMMA StopSdaLowStep ==
    ASSUME Sane(m), m.busy, m.phase = "STOP_SDA_LOW"
    PROVE  Progressed(StopSdaLow)
<1> DEFINE n == StopSdaLow
<1>1. n \in Masters /\ n = [m EXCEPT !.pulls = m.pulls \cup {"sda"}, !.phase = "STOP_SCL_RELEASE"]
  BY DriveFacts, PhaseNames DEF Sane, Lines, StopSdaLow
<1> HIDE DEF n
<1>2. /\ n.phase = "STOP_SCL_RELEASE" /\ n.busy /\ n.configured /\ ~n.held /\ ~n.done
      /\ n.pulls = m.pulls \cup {"sda"} /\ n.req = m.req /\ n.second = m.second
      /\ n.index = m.index /\ n.bit = m.bit
  BY <1>1 DEF Sane, Underway, Masters
<1>3. Underway(n)
  BY <1>2 DEF Sane, Underway, Pulling, Segment, Ending, Masters, Lines
<1>4. Closer(n)
  BY <1>1, <1>2, <1>3, EndCloser DEF Sane, Ending
<1> QED BY <1>1, <1>3, <1>4 DEF Progressed, Sane, n

LEMMA StopSclReleaseStep ==
    ASSUME Sane(m), m.busy, m.phase = "STOP_SCL_RELEASE"
    PROVE  Progressed(StopSclRelease)
<1> DEFINE n == StopSclRelease
<1>1. n \in Masters /\ n = [m EXCEPT !.pulls = m.pulls \ {"scl"}, !.phase = "STOP_SDA_RELEASE"]
  BY DriveFacts, PhaseNames DEF Sane, Lines, StopSclRelease
<1> HIDE DEF n
<1>2. /\ n.phase = "STOP_SDA_RELEASE" /\ n.busy /\ n.configured /\ ~n.held /\ ~n.done
      /\ n.pulls = m.pulls \ {"scl"} /\ n.req = m.req /\ n.second = m.second
      /\ n.index = m.index /\ n.bit = m.bit
  BY <1>1 DEF Sane, Underway, Masters
<1>3. Underway(n)
  BY <1>2 DEF Sane, Underway, Pulling, Segment, Ending, Lines
<1>4. Closer(n)
  BY <1>1, <1>2, <1>3, EndCloser DEF Sane, Ending
<1> QED BY <1>1, <1>3, <1>4 DEF Progressed, Sane, n

LEMMA BitSetStep ==
    ASSUME Sane(m), m.busy, m.phase = "BIT_SET"
    PROVE  Progressed(BitSet)
<1> DEFINE low == IF m.bit < ByteBits THEN ~m.rx /\ ~m.cur[m.bit + 1]
                                      ELSE m.rx /\ m.index < m.req.nread
           n == BitSet
<1>1. low \in BOOLEAN
  <2>1. m.rx \in BOOLEAN /\ m.cur \in Bytes /\ m.bit \in 0..ByteBits
    BY DEF Sane, Masters
  <2>2. m.bit < ByteBits => m.cur[m.bit + 1] \in BOOLEAN
    BY <2>1 DEF Bytes
  <2> QED BY <2>1, <2>2
<1>2. n = Then(Drive("sda", low), "BIT_SCL_HIGH")
  BY DEF BitSet
<1> HIDE DEF low, n
<1>3. n \in Masters
      /\ n = [m EXCEPT !.pulls = IF low THEN m.pulls \cup {"sda"} ELSE m.pulls \ {"sda"},
                       !.phase = "BIT_SCL_HIGH"]
  BY <1>1, <1>2, DriveFacts, PhaseNames DEF Sane, Lines
<1>4. /\ n.phase = "BIT_SCL_HIGH" /\ n.busy /\ n.configured /\ ~n.held /\ ~n.done
      /\ n.req = m.req /\ n.second = m.second /\ n.index = m.index /\ n.bit = m.bit
      /\ n.pulls = (IF low THEN m.pulls \cup {"sda"} ELSE m.pulls \ {"sda"})
  BY <1>3 DEF Sane, Underway, Masters
<1>5. "scl" \in n.pulls
  BY <1>4 DEF Sane, Underway, Pulling
<1>6. Underway(n)
  BY <1>4, <1>5 DEF Sane, Underway, Pulling, Segment, Ending
<1>7. Closer(n)
  BY <1>3, <1>4, <1>6, StepCloser DEF Sane, Ending
<1> QED BY <1>3, <1>6, <1>7 DEF Progressed, Sane, n

LEMMA SampledFacts ==
    ASSUME m \in Masters, line \in [Lines -> BOOLEAN]
    PROVE  /\ Sampled \in Masters
           /\ Sampled.cur = IF m.bit < ByteBits /\ m.rx
                            THEN [m.cur EXCEPT ![m.bit + 1] = line["sda"]] ELSE m.cur
           /\ Sampled.ack = IF m.bit = ByteBits /\ ~m.rx THEN ~line["sda"] ELSE m.ack
           /\ Sampled = [m EXCEPT !.cur = Sampled.cur, !.ack = Sampled.ack]
<1>1. /\ m.rx \in BOOLEAN /\ m.cur \in Bytes /\ m.bit \in 0..ByteBits
      /\ line["sda"] \in BOOLEAN /\ m.ack \in BOOLEAN
  BY DEF Masters, Lines
<1>2. CASE m.bit < ByteBits /\ m.rx
  <2>1. Sampled = [m EXCEPT !.cur = [m.cur EXCEPT ![m.bit + 1] = line["sda"]]]
    BY <1>2 DEF Sampled, Masters
  <2>2. [m.cur EXCEPT ![m.bit + 1] = line["sda"]] \in Bytes
    BY <1>1 DEF Bytes
  <2> QED BY <1>1, <1>2, <2>1, <2>2 DEF Masters
<1>3. CASE m.bit = ByteBits /\ ~m.rx
  <2>1. Sampled = [m EXCEPT !.ack = ~line["sda"]]
    BY <1>3 DEF Sampled
  <2>2. (~line["sda"]) \in BOOLEAN
    BY <1>1
  <2>3. ~(m.bit < ByteBits)
    BY <1>3
  <2> QED BY <1>3, <2>1, <2>2, <2>3 DEF Masters
<1>4. CASE ~(m.bit < ByteBits /\ m.rx) /\ ~(m.bit = ByteBits /\ ~m.rx)
  <2>1. Sampled = m
    BY <1>4 DEF Sampled
  <2> QED BY <1>4, <2>1 DEF Masters
<1> QED BY <1>2, <1>3, <1>4

LEMMA BitSampleStep ==
    ASSUME Sane(m), m.busy, m.phase = "BIT_SAMPLE", line \in [Lines -> BOOLEAN]
    PROVE  Progressed(BitSample)
<1>1. CASE line["scl"]
  <2> DEFINE n == BitSample
             s == Sampled
  <2>1. /\ s \in Masters /\ s = [m EXCEPT !.cur = s.cur, !.ack = s.ack]
    BY SampledFacts DEF Sane
  <2>2. n = [s EXCEPT !.phase = "BIT_SCL_LOW"]
    BY <1>1 DEF BitSample, Then
  <2> HIDE DEF n, s
  <2>3. n \in Masters /\ n.phase = "BIT_SCL_LOW" /\ n.busy = s.busy /\ n.held = s.held
        /\ n.configured = s.configured /\ n.done = s.done /\ n.pulls = s.pulls
        /\ n.req = s.req /\ n.second = s.second /\ n.index = s.index /\ n.bit = s.bit
    BY <2>1, <2>2, PhaseNames DEF Masters
  <2>4. s.busy = m.busy /\ s.held = m.held
        /\ s.configured = m.configured /\ s.done = m.done /\ s.pulls = m.pulls
        /\ s.req = m.req /\ s.second = m.second /\ s.index = m.index /\ s.bit = m.bit
    BY <2>1 DEF Sane, Masters
  <2>5. Underway(n)
    BY <2>3, <2>4 DEF Sane, Underway, Pulling, Segment, Ending
  <2>6. Closer(n)
    BY <2>3, <2>4, <2>5, StepCloser DEF Sane, Ending
  <2> QED BY <2>3, <2>5, <2>6 DEF Progressed, Sane, n
<1>2. CASE ~line["scl"]
  <2>1. BitSample = Aborted(m, "ETIMEDOUT")
    BY <1>2 DEF BitSample
  <2> QED BY <2>1, AbortedFacts DEF Sane, Progressed, Closer
<1> QED BY <1>1, <1>2

\* A master whose byte is over, the clock pulled low again.
ByteEnds(n) ==
    /\ n \in Masters /\ n.busy /\ n.phase = "BIT_SCL_LOW" /\ n.configured /\ ~n.held /\ ~n.done
    /\ "scl" \in n.pulls /\ n.req = m.req /\ n.second = m.second /\ n.index = m.index
    /\ n.bit = m.bit /\ n.rx = m.rx

LEMMA EndStep ==
    ASSUME Sane(m), m.busy, m.phase = "BIT_SCL_LOW",
           NEW n \in Masters, n.busy, n.configured, ~n.held, ~n.done, "scl" \in n.pulls,
           n.second \/ n.req.hasWrite
    PROVE  Progressed(End(n))
<1>1. CASE n.req.stop
  <2> DEFINE u == End(n)
  <2>1. u = [n EXCEPT !.phase = "STOP_SDA_LOW"]
    BY <1>1 DEF End, Then
  <2> HIDE DEF u
  <2>2. u \in Masters /\ u.phase = "STOP_SDA_LOW" /\ u.busy /\ u.configured /\ ~u.held
        /\ ~u.done /\ u.pulls = n.pulls /\ u.second = n.second /\ u.req = n.req
    BY <2>1, PhaseNames DEF Masters
  <2>3. Underway(u)
    BY <2>2 DEF Underway, Pulling, Ending
  <2>4. Closer(u)
    BY <2>2, EndCloser DEF Sane
  <2> QED BY <2>2, <2>3, <2>4 DEF Progressed, Sane, u
<1>2. CASE ~n.req.stop
  <2> DEFINE c == [n EXCEPT !.held = TRUE]
             u == End(n)
  <2>1. c \in Masters /\ c.held /\ c.pulls = n.pulls
    BY DEF Masters
  <2>2. u = Completed(c, "none")
    BY <1>2 DEF End
  <2> HIDE DEF c, u
  <2>3. u \in Masters /\ ~u.busy /\ u.phase = "IDLE" /\ u.held = c.held /\ u.pulls = c.pulls
    BY <2>1, <2>2, CompletedFacts
  <2>4. Underway(u)
    BY <2>1, <2>3 DEF Underway, Released
  <2> QED BY <2>3, <2>4 DEF Progressed, Sane, Closer, u
<1> QED BY <1>1, <1>2

LEMMA LoadNextStep ==
    ASSUME Sane(m), m.busy, m.phase = "BIT_SCL_LOW", m.bit = ByteBits, NEW n, ByteEnds(n)
    PROVE  Progressed(LoadNext(n))
<1> DEFINE r == [n EXCEPT !.bit = 0, !.index = n.index + 1]
           writing == ~n.second /\ n.req.hasWrite
           u == LoadNext(n)
<1>1. /\ n.req \in Requests /\ n.index \in Nat /\ n.second \in BOOLEAN /\ n \in Masters
      /\ n.req.nread \in Nat /\ Len(n.req.write) \in Nat /\ n.req.write \in Seq(Bytes)
      /\ n.req.addr \in Addresses /\ n.req.hasWrite \in BOOLEAN
      /\ n.second \/ n.req.hasWrite
      /\ n.index <= Segment(n)
  <2>1. n.req \in Requests /\ n.index \in Nat /\ n.second \in BOOLEAN /\ n \in Masters
    BY DEF ByteEnds, Masters
  <2>2. (n.second \/ n.req.hasWrite) /\ n.index <= Segment(n)
    BY DEF ByteEnds, Sane, Underway, Segment, Ending
  <2> QED BY <2>1, <2>2, RequestFacts
<1>2. n.index <= Segment(n)
  BY DEF ByteEnds, Sane, Underway, Segment, Ending
<1>3. /\ r \in Masters /\ r.bit = 0 /\ r.index = n.index + 1 /\ r.busy /\ r.configured
      /\ ~r.held /\ ~r.done /\ r.pulls = n.pulls /\ r.req = n.req /\ r.second = n.second
      /\ "scl" \in r.pulls
  <2>1. 0 \in 0..ByteBits /\ n.index + 1 \in Nat
    BY <1>1
  <2> QED BY <2>1 DEF ByteEnds, Masters
<1>4. LeftOf(m) = LeftOf(n)
  BY DEF LeftOf, ByteEnds
<1>5. u = CASE writing /\ r.index <= Len(n.req.write) ->
                 Then([r EXCEPT !.cur = n.req.write[r.index], !.rx = FALSE], "BIT_SET")
            [] writing /\ r.index > Len(n.req.write) /\ n.req.nread > 0 ->
                 Then([r EXCEPT !.second = TRUE, !.index = 0, !.rx = FALSE,
                                !.cur = AddressByte(n.req.addr, TRUE)], "RS_SDA_RELEASE")
            [] ~writing /\ r.index <= n.req.nread ->
                 Then([r EXCEPT !.cur = Zero, !.rx = TRUE], "BIT_SET")
            [] OTHER -> End(r)
  BY DEF LoadNext
<1> HIDE DEF r, u
<1>6. CASE writing /\ r.index <= Len(n.req.write)
  <2>1. u = [r EXCEPT !.cur = n.req.write[r.index], !.rx = FALSE, !.phase = "BIT_SET"]
    BY <1>3, <1>5, <1>6 DEF Then, Masters
  <2>2. n.req.write[r.index] \in Bytes
    BY <1>1, <1>3, <1>6, ElementOfSeq
  <2>3. u \in Masters /\ u.phase = "BIT_SET" /\ u.busy /\ u.configured /\ ~u.held /\ ~u.done
        /\ u.pulls = r.pulls /\ u.req = n.req /\ u.second = n.second /\ u.index = r.index
        /\ u.bit = 0
    BY <1>3, <2>1, <2>2, PhaseNames DEF Masters
  <2>4. Underway(u)
    BY <1>1, <1>3, <1>6, <2>3 DEF Underway, Pulling, Segment, Ending
  <2>5. LeftOf(u) = LeftOf(m) - 1
    <3>1. LeftOf(n) = Len(n.req.write) - n.index + (IF n.req.nread > 0 THEN 1 + n.req.nread ELSE 0)
      BY <1>6 DEF LeftOf
    <3>2. LeftOf(u) = Len(n.req.write) - (n.index + 1)
                      + (IF n.req.nread > 0 THEN 1 + n.req.nread ELSE 0)
      BY <1>3, <1>6, <2>3 DEF LeftOf
    <3> DEFINE behind == IF n.req.nread > 0 THEN 1 + n.req.nread ELSE 0
    <3>3. behind \in Nat
      BY <1>1
    <3> HIDE DEF behind
    <3>4. LeftOf(n) = Len(n.req.write) - n.index + behind
      BY <3>1 DEF behind
    <3>5. LeftOf(u) = Len(n.req.write) - (n.index + 1) + behind
      BY <3>2 DEF behind
    <3> QED BY <1>1, <1>4, <3>3, <3>4, <3>5
  <2>6. Closer(u)
    BY <2>3, <2>4, <2>5, ByteCloser DEF Sane, Ending
  <2> QED BY <2>3, <2>4, <2>6 DEF Progressed, Sane, u
<1>7. CASE writing /\ r.index > Len(n.req.write) /\ n.req.nread > 0
  <2>1. u = [r EXCEPT !.second = TRUE, !.index = 0, !.rx = FALSE,
                      !.cur = AddressByte(n.req.addr, TRUE), !.phase = "RS_SDA_RELEASE"]
    <3>1. ~(r.index <= Len(n.req.write))
      BY <1>1, <1>3, <1>7
    <3> QED BY <1>3, <1>5, <1>7, <3>1 DEF Then, Masters
  <2>2. AddressByte(n.req.addr, TRUE) \in Bytes
    BY <1>1, AddressByteFacts
  <2>3. u \in Masters /\ u.phase = "RS_SDA_RELEASE" /\ u.busy /\ u.configured /\ ~u.held /\ ~u.done
        /\ u.pulls = r.pulls /\ u.req = n.req /\ u.second = TRUE /\ u.index = 0
    BY <1>3, <2>1, <2>2, PhaseNames DEF Masters
  <2>4. Underway(u)
    BY <1>1, <1>3, <1>7, <2>3 DEF Underway, Pulling, Segment, Ending
  <2>5. LeftOf(u) = LeftOf(m) - 1
    <3>1. LeftOf(n) = Len(n.req.write) - n.index + (1 + n.req.nread)
      BY <1>7 DEF LeftOf
    <3>2. LeftOf(u) = n.req.nread - 0
      BY <2>3 DEF LeftOf
    <3>3. n.index = Len(n.req.write)
      BY <1>1, <1>2, <1>3, <1>7 DEF Segment
    <3> QED BY <1>1, <1>4, <3>1, <3>2, <3>3
  <2>6. Closer(u)
    BY <2>3, <2>4, <2>5, ByteCloser DEF Sane, Ending
  <2> QED BY <2>3, <2>4, <2>6 DEF Progressed, Sane, u
<1>8. CASE ~writing /\ r.index <= n.req.nread
  <2>1. u = [r EXCEPT !.cur = Zero, !.rx = TRUE, !.phase = "BIT_SET"]
    BY <1>3, <1>5, <1>8 DEF Then, Masters
  <2>2. Zero \in Bytes
    BY DEF Zero, Bytes
  <2>3. u \in Masters /\ u.phase = "BIT_SET" /\ u.busy /\ u.configured /\ ~u.held /\ ~u.done
        /\ u.pulls = r.pulls /\ u.req = n.req /\ u.second = n.second /\ u.index = r.index
        /\ u.bit = 0
    BY <1>3, <2>1, <2>2, PhaseNames DEF Masters
  <2>4. Underway(u)
    BY <1>1, <1>3, <1>8, <2>3 DEF Underway, Pulling, Segment, Ending
  <2>5. LeftOf(u) = LeftOf(m) - 1
    <3>1. LeftOf(n) = n.req.nread - n.index
      BY <1>1, <1>8 DEF LeftOf
    <3>2. LeftOf(u) = n.req.nread - (n.index + 1)
      BY <1>1, <1>3, <1>8, <2>3 DEF LeftOf
    <3> QED BY <1>1, <1>4, <3>1, <3>2
  <2>6. Closer(u)
    BY <2>3, <2>4, <2>5, ByteCloser DEF Sane, Ending
  <2> QED BY <2>3, <2>4, <2>6 DEF Progressed, Sane, u
<1>9. CASE /\ ~(writing /\ r.index <= Len(n.req.write))
           /\ ~(writing /\ r.index > Len(n.req.write) /\ n.req.nread > 0)
           /\ ~(~writing /\ r.index <= n.req.nread)
  <2>1. u = End(r)
    BY <1>5, <1>9
  <2> QED BY <1>1, <1>3, <2>1, EndStep DEF u
<1> QED BY <1>6, <1>7, <1>8, <1>9

LEMMA ByteOverStep ==
    ASSUME Sane(m), m.busy, m.phase = "BIT_SCL_LOW", m.bit = ByteBits, NEW n, ByteEnds(n),
           n.cur \in Bytes
    PROVE  Progressed(ByteOver(n))
<1>1. n \in Masters /\ n.rbuf \in Seq(Bytes) /\ n.acks \in Nat /\ n.rx \in BOOLEAN
  BY DEF ByteEnds, Masters
<1>2. CASE n.rx
  <2> DEFINE v == [n EXCEPT !.rbuf = Append(n.rbuf, n.cur)]
  <2>1. ByteOver(n) = LoadNext(v)
    BY <1>1, <1>2 DEF ByteOver, Masters
  <2>2. Append(n.rbuf, n.cur) \in Seq(Bytes)
    BY <1>1, AppendProperties
  <2>3. ByteEnds(v)
    BY <2>2 DEF ByteEnds, Masters
  <2> HIDE DEF v
  <2> QED BY <2>1, <2>3, LoadNextStep
<1>3. CASE ~n.rx /\ ~n.ack
  <2> DEFINE u == ByteOver(n)
             e == IF n.index = 0 THEN "EIO" ELSE n.error
  <2>1. u = [n EXCEPT !.error = e, !.phase = "STOP_SDA_LOW"]
    BY <1>1, <1>3 DEF ByteOver, Then, Masters
  <2>2. e \in {"none", "EIO", "ETIMEDOUT"}
    BY <1>1 DEF Masters
  <2> HIDE DEF u, e
  <2>3. u \in Masters /\ u.phase = "STOP_SDA_LOW" /\ u.busy /\ u.configured /\ ~u.held
        /\ ~u.done /\ u.pulls = n.pulls /\ u.second = n.second /\ u.req = n.req
    BY <2>1, <2>2, PhaseNames DEF ByteEnds, Masters
  <2>4. Underway(u)
    BY <2>3 DEF Underway, Pulling, Ending, ByteEnds, Sane
  <2>5. Closer(u)
    BY <2>3, EndCloser DEF Sane
  <2> QED BY <2>3, <2>4, <2>5 DEF Progressed, Sane, u
<1>4. CASE ~n.rx /\ n.ack
  <2> DEFINE v == [n EXCEPT !.acks = IF n.index > 0 THEN n.acks + 1 ELSE n.acks]
  <2>1. ByteOver(n) = LoadNext(v)
    BY <1>1, <1>4 DEF ByteOver, Masters
  <2>2. (IF n.index > 0 THEN n.acks + 1 ELSE n.acks) \in Nat
    BY <1>1
  <2>3. ByteEnds(v)
    BY <2>2 DEF ByteEnds, Masters
  <2> HIDE DEF v
  <2> QED BY <2>1, <2>3, LoadNextStep
<1> QED BY <1>1, <1>2, <1>3, <1>4

LEMMA BitSclLowStep ==
    ASSUME Sane(m), m.busy, m.phase = "BIT_SCL_LOW"
    PROVE  Progressed(BitSclLow)
<1> DEFINE n == Drive("scl", TRUE)
<1>1. n \in Masters /\ n = [m EXCEPT !.pulls = m.pulls \cup {"scl"}]
  BY DriveFacts, PhaseNames DEF Sane, Lines
<1>2. BitSclLow = IF m.bit < ByteBits THEN Then([n EXCEPT !.bit = n.bit + 1], "BIT_SET")
                                      ELSE ByteOver(n)
  BY <1>1 DEF BitSclLow, Masters
<1> HIDE DEF n
<1>3. ByteEnds(n) /\ n.cur \in Bytes
  BY <1>1 DEF ByteEnds, Sane, Underway, Masters
<1>4. m.bit \in 0..ByteBits
  BY DEF Sane, Masters
<1>5. CASE m.bit < ByteBits
  <2> DEFINE u == BitSclLow
  <2>1. u = [n EXCEPT !.bit = m.bit + 1, !.phase = "BIT_SET"]
    BY <1>2, <1>3, <1>5 DEF Then, ByteEnds, Masters
  <2>2. m.bit + 1 \in 0..ByteBits
    BY <1>4, <1>5
  <2> HIDE DEF u
  <2>3. u \in Masters /\ u.phase = "BIT_SET" /\ u.busy /\ u.configured /\ ~u.held
        /\ ~u.done /\ u.pulls = n.pulls /\ u.second = n.second /\ u.req = n.req
        /\ u.index = n.index /\ u.bit = m.bit + 1
    BY <1>3, <2>1, <2>2, PhaseNames DEF ByteEnds, Masters
  <2>4. Underway(u)
    BY <1>3, <2>3 DEF Underway, Pulling, Ending, ByteEnds, Sane, Segment
  <2>5. Closer(u)
    BY <1>3, <2>3, <2>4, StepCloser DEF Sane, ByteEnds, Ending
  <2> QED BY <2>3, <2>4, <2>5 DEF Progressed, Sane, u
<1>6. CASE m.bit = ByteBits
  <2>1. BitSclLow = ByteOver(n)
    BY <1>2, <1>6
  <2> QED BY <1>3, <1>6, <2>1, ByteOverStep
<1> QED BY <1>4, <1>5, <1>6

LEMMA StopSdaReleaseStep ==
    ASSUME Sane(m), m.busy, m.phase = "STOP_SDA_RELEASE"
    PROVE  Progressed(StopSdaRelease)
<1> DEFINE n == StopSdaRelease
<1>1. n = [m EXCEPT !.pulls = m.pulls \ {"sda"}, !.held = FALSE, !.phase = "FINISH"]
  BY DEF StopSdaRelease, Then, Drive, Sane, Masters
<1>2. (m.pulls \ {"sda"}) \in SUBSET Lines /\ "FINISH" \in Phases
  BY PhaseNames DEF Sane, Masters
<1> HIDE DEF n
<1>3. n \in Masters
  BY <1>1, <1>2 DEF Sane, Masters
<1>4. /\ n.phase = "FINISH" /\ n.busy /\ n.configured /\ ~n.held /\ ~n.done
      /\ n.pulls = {} /\ n.req = m.req /\ n.second = m.second /\ n.index = m.index
  BY <1>1 DEF Sane, Underway, Pulling, Masters
<1>5. Underway(n)
  BY <1>4 DEF Sane, Underway, Pulling, Segment, Ending
<1>6. Closer(n)
  BY <1>3, <1>4, EndCloser DEF Sane
<1> QED BY <1>3, <1>5, <1>6 DEF Progressed, Sane, n

LEMMA FinishStep ==
    ASSUME Sane(m), m.busy, m.phase = "FINISH"
    PROVE  Progressed(Finish)
<1> DEFINE u == Finish
<1>1. u = Completed(m, "none")
  BY DEF Finish
<1> HIDE DEF u
<1>2. u \in Masters /\ ~u.busy /\ u.phase = "IDLE" /\ u.held = m.held /\ u.pulls = m.pulls
  BY <1>1, CompletedFacts DEF Sane
<1>3. ~m.held /\ m.pulls = {}
  BY DEF Sane, Underway, Pulling
<1>4. Underway(u)
  BY <1>2, <1>3 DEF Underway, Released
<1> QED BY <1>2, <1>4 DEF Progressed, Sane, Closer, u

\* Whatever the action, the master stays sane, and nearer to the end.
LEMMA MasterStep ==
    ASSUME Sane(m), m.busy, Master, line \in [Lines -> BOOLEAN]
    PROVE  Progressed(m')
<1>1. CASE Act("START_CHECK", StartCheck)
  BY <1>1, StartCheckStep DEF Act
<1>2. CASE Act("START_SCL_LOW", StartSclLow)
  BY <1>2, StartSclLowStep DEF Act
<1>3. CASE Act("RS_SDA_RELEASE", RsSdaRelease)
  BY <1>3, RsSdaReleaseStep DEF Act
<1>4. CASE Act("RS_SCL_RELEASE", RsSclRelease)
  BY <1>4, RsSclReleaseStep DEF Act
<1>5. CASE Act("BIT_SET", BitSet)
  BY <1>5, BitSetStep DEF Act
<1>6. CASE Act("BIT_SCL_HIGH", BitSclHigh)
  BY <1>6, BitSclHighStep DEF Act
<1>7. CASE Act("BIT_SAMPLE", BitSample)
  BY <1>7, BitSampleStep DEF Act
<1>8. CASE Act("BIT_SCL_LOW", BitSclLow)
  BY <1>8, BitSclLowStep DEF Act
<1>9. CASE Act("STOP_SDA_LOW", StopSdaLow)
  BY <1>9, StopSdaLowStep DEF Act
<1>10. CASE Act("STOP_SCL_RELEASE", StopSclRelease)
  BY <1>10, StopSclReleaseStep DEF Act
<1>11. CASE Act("STOP_SDA_RELEASE", StopSdaRelease)
  BY <1>11, StopSdaReleaseStep DEF Act
<1>12. CASE Act("FINISH", Finish)
  BY <1>12, FinishStep DEF Act
<1> QED BY <1>1, <1>2, <1>3, <1>4, <1>5, <1>6, <1>7, <1>8, <1>9, <1>10, <1>11, <1>12
         DEF Master

-----------------------------------------------------------------------------
(* Types, what the master leaves on the lines, and the time a transaction   *)
(* takes.                                                                   *)

LEMMA SyncAccepts ==
    ASSUME NEW k \in Targets, NEW t, NEW b \in Bytes \cup {Defer}, Fine(t),
           t.deferred => LevelsSeen(t), line \in [Lines -> BOOLEAN],
           Synced(k, t, b).state = "WRITE", Synced(k, t, b).low, ~t.low
    PROVE  /\ t.state = "WRITE" /\ t.nbits = ByteBits /\ t.shift \in Bytes
           /\ t.known /\ t.scl /\ ~line["scl"]
<1>1. t \in Members /\ Row(t)
  BY DEF Fine
<1>2. line["scl"] \in BOOLEAN /\ line["sda"] \in BOOLEAN
  BY DEF Lines
<1> DEFINE v == Levels(t)
<1>3. /\ v \in Members /\ LevelsSeen(v) /\ Spelled(v) /\ v.known /\ v.scl = line["scl"]
      /\ v.state = t.state /\ v.nbits = t.nbits /\ v.shift = t.shift /\ v.low = t.low
      /\ v.deferred = t.deferred /\ v.masterAck = t.masterAck
  BY <1>1, LevelsFacts DEF LevelsSeen
<1> HIDE DEF v
<1>4. t.known
  BY <1>3 DEF Synced, v
<1>5. line["scl"] # t.scl
  <2>1. SUFFICES ASSUME line["scl"] = t.scl PROVE FALSE
    OBVIOUS
  <2>2. Synced(k, t, b) = IF ~line["scl"] THEN v
                          ELSE IF line["sda"] THEN OnStop(v) ELSE OnStart(v)
    BY <1>4, <2>1 DEF Synced, v
  <2>3. OnStop(v).state = "IDLE" /\ OnStart(v).state = "ADDR"
    BY <1>3, StopFacts, StartFacts
  <2> QED BY <1>3, <2>2, <2>3
<1>6. ~t.deferred
  BY <1>5 DEF LevelsSeen
<1>7. ~line["scl"] /\ t.scl
  <2>1. CASE line["scl"]
    <3>1. Synced(k, t, b) = OnRise(v, line["sda"])
      BY <1>4, <1>5, <2>1 DEF Synced, v
    <3>2. ~t.scl
      BY <1>1, <1>5, <2>1 DEF Members
    <3>3. v.state \notin {"IDLE", "WAIT"} => v.nbits <= ByteBits
      BY <1>1, <1>3, <3>2 DEF Row
    <3>4. Row(v)
      BY <1>3, <1>6, <2>1 DEF Row, Spelled
    <3>5. OnRise(v, line["sda"]).low = v.low
      BY <1>2, <1>3, <1>6, <2>1, <3>3, <3>4, RiseFacts
    <3> QED BY <1>3, <3>1, <3>5
  <2>2. CASE ~line["scl"]
    BY <1>1, <1>2, <1>5, <2>2 DEF Members
  <2> QED BY <2>1, <2>2
<1> DEFINE u == OnFall(k, v, b)
<1>8. Synced(k, t, b) = u
  BY <1>4, <1>5, <1>7 DEF Synced, v
<1>9. /\ Idling(v.state) => u = [v EXCEPT !.low = FALSE]
      /\ ~Idling(v.state) /\ v.nbits = ByteBits => u = Acknowledge(k, v)
      /\ ~Idling(v.state) /\ v.nbits = ByteBits + 1 => u = NextByte(v, b)
      /\ ~Idling(v.state) /\ v.nbits < ByteBits =>
             u = IF v.state = "READ" /\ v.nbits # 0
                 THEN [v EXCEPT !.low = ~v.cur[v.nbits + 1]] ELSE v
  BY <1>3, <1>6, FallFacts
<1> HIDE DEF u
<1>10. u.state = "WRITE" /\ u.low /\ ~v.low
  BY <1>3, <1>8
<1>11. v.nbits \in 0..(ByteBits + 1)
  BY <1>3 DEF Members
<1>12. ~Idling(v.state)
  BY <1>3, <1>9, <1>10 DEF Members
<1>13. v.nbits # ByteBits + 1
  <2>1. SUFFICES ASSUME v.nbits = ByteBits + 1 PROVE FALSE
    OBVIOUS
  <2>2. u = NextByte(v, b)
    BY <1>9, <1>12, <2>1
  <2>3. v.state = "ADDR" => v.shift[ByteBits] \in BOOLEAN
    BY <1>3, <2>1 DEF Spelled
  <2>4. LET reads == (v.state = "ADDR" /\ v.shift[ByteBits]) \/ (v.state = "READ" /\ v.masterAck)
        IN  (reads => u.state = "READ") /\ (~reads => ~u.low)
    BY <1>3, <1>6, <1>12, <2>2, <2>3, NextByteFacts
  <2> QED BY <1>10, <2>4
<1>14. ~(v.nbits < ByteBits)
  <2>1. SUFFICES ASSUME v.nbits < ByteBits PROVE FALSE
    OBVIOUS
  <2>2. CASE v.state = "READ" /\ v.nbits # 0
    BY <1>3, <1>9, <1>10, <1>12, <2>1, <2>2 DEF Members
  <2>3. CASE ~(v.state = "READ" /\ v.nbits # 0)
    BY <1>9, <1>10, <1>12, <2>1, <2>3
  <2> QED BY <2>2, <2>3
<1>15. v.nbits = ByteBits
  BY <1>11, <1>13, <1>14
<1>16. u = Acknowledge(k, v)
  BY <1>9, <1>12, <1>15
<1>17. Row(v)
  BY <1>3, <1>6, <1>15 DEF Row, Spelled
<1>18. /\ v.state = "ADDR" => u.state \in {"ADDR", "WAIT"}
       /\ v.state = "READ" => u.state = "READ"
  BY <1>3, <1>12, <1>15, <1>16, <1>17, AcknowledgeFacts
<1>19. v.state = "WRITE"
  BY <1>3, <1>10, <1>12, <1>18 DEF Members, Idling
<1> QED BY <1>3, <1>4, <1>7, <1>15, <1>19 DEF Spelled, Bytes

TargetsFine ==
    /\ target \in [Targets -> Members]
    /\ \A k \in Targets : Fine(target[k]) /\ (target[k].deferred => Seen(k))

BInv ==
    /\ line \in [Lines -> BOOLEAN] /\ other \subseteq Lines
    /\ Sane(m)
    /\ TargetsFine
    /\ doneWake \in BOOLEAN /\ phase \in {"code", "parked"}
    /\ stack \in Seq(Waits)
    /\ phase = "parked" => stack # <<>>
    /\ bounds \in [xfers : Nat, inits : Nat, faults : Nat]
    /\ clean \in BOOLEAN
    /\ taken \in [Targets -> Seq(Bytes)] /\ given \in [Targets -> Seq(Bytes)]

LEMMA SeenLevels == \A k : Seen(k) <=> LevelsSeen(target[k])
  BY DEF Seen, LevelsSeen

LEMMA SameTargetsFine == ASSUME TargetsFine, target' = target, line' = line PROVE TargetsFine'
  BY DEF TargetsFine, Seen

LEMMA BInvInit == Init => BInv
<1> SUFFICES ASSUME Init PROVE BInv
  OBVIOUS
<1>1. /\ Zero \in Bytes /\ <<>> \in Seq(Bytes) /\ <<>> \in Seq(Waits) /\ "IDLE" \in Phases
      /\ <<>> \in Shifts
  <2>1. Zero \in Bytes
    BY DEF Zero, Bytes
  <2>2. 0 \in 0..ByteBits /\ <<>> \in [1..0 -> BOOLEAN]
    BY ShiftSets
  <2>3. <<>> \in Shifts
    BY <2>2, ShiftSets
  <2> QED BY <2>1, <2>3, EmptySeq, PhaseNames
<1>2. Sane(m)
  <2>1. PICK r \in Requests : m = Fresh(r)
    BY DEF Init
  <2>2. m \in Masters
    BY <1>1, <2>1 DEF Fresh, Masters
  <2> QED BY <2>1, <2>2 DEF Fresh, Sane, Underway, Released
<1>3. TargetsFine
  <2> DEFINE t0 == [known |-> FALSE, scl |-> FALSE, sda |-> FALSE, state |-> "IDLE",
                    nbits |-> 0, shift |-> <<>>, low |-> FALSE, wbuf |-> <<>>,
                    writeOpen |-> FALSE, cur |-> Zero, masterAck |-> FALSE,
                    readOpen |-> FALSE, deferred |-> FALSE]
  <2>1. t0 \in Members
    BY <1>1 DEF Members
  <2>2. Row(t0)
    BY DEF Row
  <2>3. target = [k \in Targets |-> t0]
    BY DEF Init
  <2>4. ~t0.deferred
    OBVIOUS
  <2> HIDE DEF t0
  <2> QED BY <2>1, <2>2, <2>3, <2>4 DEF TargetsFine, Fine
<1> QED BY <1>1, <1>2, <1>3 DEF Init, BInv, Lines

LEMMA BInvTyped == BInv => TypeOK /\ BusReleased
<1> SUFFICES ASSUME BInv PROVE TypeOK /\ BusReleased
  OBVIOUS
<1>1. target \in [Targets -> TargetStates]
  BY SameMembers DEF BInv, TargetsFine
<1>2. BusReleased
  BY DEF BInv, Sane, Underway, Released, BusReleased
<1> QED BY <1>1, <1>2 DEF BInv, TypeOK, Sane

LEMMA BoundsFacts ==
    ASSUME NEW b \in [xfers : Nat, inits : Nat, faults : Nat]
    PROVE  /\ [b EXCEPT !.xfers = @ + 1] \in [xfers : Nat, inits : Nat, faults : Nat]
           /\ [b EXCEPT !.inits = @ + 1] \in [xfers : Nat, inits : Nat, faults : Nat]
           /\ [b EXCEPT !.faults = @ + 1] \in [xfers : Nat, inits : Nat, faults : Nat]
<1>1. \A i \in Nat : i + 1 \in Nat
  OBVIOUS
<1> QED BY <1>1

LEMMA WaitFacts ==
    ASSUME stack \in Seq(Waits), stack # <<>>
    PROVE  /\ Below \in Seq(Waits) /\ Top \in Waits
           /\ \A g \in BOOLEAN :
                  /\ [stack EXCEPT ![Len(stack)].genuine = g] \in Seq(Waits)
                  /\ [stack EXCEPT ![Len(stack)].genuine = g] # <<>>
<1>1. Len(stack) \in Nat /\ Len(stack) > 0 /\ stack \in [1..Len(stack) -> Waits]
  BY LenProperties, EmptySeq
<1>2. Top \in Waits
  BY <1>1 DEF Top
<1>3. Below \in Seq(Waits)
  BY <1>1, SubSeqProperties DEF Below
<1>4. ASSUME NEW g \in BOOLEAN
      PROVE  /\ [stack EXCEPT ![Len(stack)].genuine = g] \in Seq(Waits)
             /\ [stack EXCEPT ![Len(stack)].genuine = g] # <<>>
  <2> DEFINE w == [stack[Len(stack)] EXCEPT !.genuine = g]
             s == [stack EXCEPT ![Len(stack)] = w]
  <2>1. w \in Waits
    BY <1>1 DEF Waits
  <2> HIDE DEF w
  <2>2. s \in Seq(Waits) /\ Len(s) = Len(stack)
    BY <2>1, <1>1, ExceptSeq
  <2>3. s # <<>>
    BY <1>1, <2>2, EmptySeq
  <2> QED BY <2>2, <2>3 DEF w
<1> QED BY <1>2, <1>3, <1>4

\* A step of the program that leaves the bus alone.
LEMMA WorkerTyped ==
    ASSUME BInv, Worker
    PROVE  /\ doneWake' \in BOOLEAN /\ phase' \in {"code", "parked"}
           /\ stack' \in Seq(Waits) /\ (phase' = "parked" => stack' # <<>>)
           /\ bounds' \in [xfers : Nat, inits : Nat, faults : Nat]
           /\ line' = line /\ other' = other /\ target' = target
           /\ taken' = taken /\ given' = given /\ clean' \in BOOLEAN
<1>1. ASSUME NEW kind \in {"xfer", "sleep"}, Park(kind)
      PROVE  stack' \in Seq(Waits) /\ stack' # <<>> /\ phase' = "parked"
  BY <1>1, AppendProperties DEF Park, BInv, Waits
<1>2. ASSUME NEW r \in Requests, Xfer(r)
      PROVE  bounds' \in [xfers : Nat, inits : Nat, faults : Nat]
             /\ doneWake' \in BOOLEAN /\ clean' \in BOOLEAN
  <2>1. bounds' = [bounds EXCEPT !.xfers = @ + 1] /\ doneWake' = FALSE /\ clean' = (other = {})
    BY <1>2 DEF Xfer
  <2> QED BY <2>1, BoundsFacts DEF BInv
<1>3. CASE \E r \in Requests : Xfer(r)
  BY <1>1, <1>2, <1>3 DEF Xfer, bus
<1>4. CASE Sleep
  BY <1>1, <1>4 DEF Sleep, bus, history, BInv
<1>5. CASE \E asked \in BOOLEAN : Wake(asked)
  <2>1. PICK asked \in BOOLEAN : Wake(asked)
    BY <1>5
  <2>2. Genuine(asked) \in BOOLEAN /\ stack # <<>>
    BY <2>1 DEF Genuine, BInv, Wake
  <2> QED BY <2>1, <2>2, WaitFacts DEF Wake, bus, history, BInv
<1>6. CASE WaitAgain
  BY <1>6, WaitFacts DEF WaitAgain, bus, history, BInv
<1>7. ASSUME NEW kind, Returns(kind)
      PROVE  stack' \in Seq(Waits) /\ phase' = "code"
  BY <1>7, WaitFacts DEF Returns, BInv
<1>8. CASE SleepReturns \/ SleepRaises
  BY <1>7, <1>8 DEF SleepReturns, SleepRaises, bus, history, BInv
<1>9. CASE XferReturns
  BY <1>7, <1>9 DEF XferReturns, bus, history, BInv
<1>10. CASE XferRaises
  BY <1>7, <1>10 DEF XferRaises, bus, history, BInv
<1>11. CASE I2cInit
  <2>1. bounds' \in [xfers : Nat, inits : Nat, faults : Nat]
    BY <1>11, BoundsFacts DEF I2cInit, BInv
  <2> QED BY <1>1, <1>11, <2>1 DEF I2cInit, Reset, bus, history, BInv
<1>12. CASE I2cDeinit
  BY <1>1, <1>12 DEF I2cDeinit, Reset, bus, history, BInv
<1> QED BY <1>3, <1>4, <1>5, <1>6, <1>8, <1>9, <1>10, <1>11, <1>12 DEF Worker

\* What a step of the program may do to the master: a new transaction, or
\* none in progress any more.
LEMMA WorkerMaster ==
    ASSUME BInv, Worker
    PROVE  /\ Sane(m')
           /\ \/ m' = m
              \/ ~m.busy /\ m.configured /\ \E r \in Requests : m' = Requested(r)
              \/ ~m'.busy
<1>0. m \in Masters /\ Underway(m)
  BY DEF BInv, Sane
<1>1. CASE \E r \in Requests : Xfer(r)
  <2>1. PICK r \in Requests : Xfer(r)
    BY <1>1
  <2>2. m' = Requested(r) /\ ~m.busy /\ m.configured
    BY <2>1 DEF Xfer
  <2> DEFINE a == AddressByte(r.addr, ~r.hasWrite)
             p == IF m.held THEN "RS_SDA_RELEASE" ELSE "START_CHECK"
             c == [m EXCEPT !.req = r, !.second = ~r.hasWrite, !.index = 0, !.cur = a,
                            !.bit = 0, !.rx = FALSE, !.ack = FALSE, !.rbuf = <<>>]
             n == Requested(r)
  <2>3. r.hasWrite \in BOOLEAN /\ r.nread \in Nat /\ Len(r.write) \in Nat /\ r.addr \in Addresses
    BY RequestFacts
  <2>4. a \in Bytes /\ p \in Phases /\ (~r.hasWrite) \in BOOLEAN
    BY <2>3, AddressByteFacts, PhaseNames
  <2>5. n = [c EXCEPT !.acks = 0, !.error = "none", !.done = FALSE, !.busy = TRUE,
                      !.held = FALSE, !.phase = p]
    BY <1>0 DEF Requested, Masters
  <2> HIDE DEF a, p
  <2>6. <<>> \in Seq(Bytes) /\ 0 \in 0..ByteBits
    BY EmptySeq
  <2>7. /\ c \in Masters /\ c.req = r /\ c.second = (~r.hasWrite) /\ c.index = 0
        /\ c.configured = m.configured /\ c.pulls = m.pulls
    BY <1>0, <2>4, <2>6 DEF Masters
  <2> HIDE DEF c, n
  <2>8. /\ n \in Masters /\ n.req = r /\ n.second = (~r.hasWrite) /\ n.index = 0
        /\ n.configured = m.configured /\ n.pulls = m.pulls /\ n.busy /\ ~n.done /\ ~n.held
        /\ n.phase = p
    BY <2>4, <2>5, <2>7 DEF Masters
  <2>9. Pulling(n)
    BY <1>0, <2>2, <2>8 DEF p, Pulling, Underway, Released
  <2>10. n.index <= Segment(n)
    BY <2>3, <2>8 DEF Segment
  <2>11. n.phase # "IDLE"
    BY <2>8 DEF p
  <2>12. Underway(n)
    BY <2>2, <2>3, <2>8, <2>9, <2>10, <2>11 DEF Underway
  <2> QED BY <2>2, <2>8, <2>12 DEF Sane, n
<1>2. CASE XferRaises
  <2>1. m' = Aborted(m, "EIO")
    BY <1>2 DEF XferRaises
  <2> QED BY <1>0, <2>1, AbortedFacts
<1>3. CASE I2cInit \/ I2cDeinit
  <2>1. PICK x \in BOOLEAN : m' = [Fresh(m.req) EXCEPT !.configured = x]
    BY <1>3 DEF I2cInit, I2cDeinit, Reset
  <2>2. Zero \in Bytes /\ <<>> \in Seq(Bytes) /\ "IDLE" \in Phases /\ 0 \in 0..ByteBits
    BY EmptySeq, PhaseNames DEF Zero, Bytes
  <2>3. Fresh(m.req) \in Masters /\ ~Fresh(m.req).busy /\ Fresh(m.req).phase = "IDLE"
        /\ ~Fresh(m.req).held /\ Fresh(m.req).pulls = {}
    BY <1>0, <2>2 DEF Fresh, Masters
  <2> DEFINE f == Fresh(m.req)
             n == [f EXCEPT !.configured = x]
  <2> HIDE DEF f
  <2>4. n \in Masters /\ ~n.busy /\ n.phase = "IDLE" /\ ~n.held /\ n.pulls = {}
    BY <2>3 DEF f, Masters
  <2>5. m' = n
    BY <2>1 DEF f
  <2> HIDE DEF n
  <2> QED BY <2>4, <2>5 DEF Sane, Underway, Released
<1>4. CASE Sleep \/ (\E asked \in BOOLEAN : Wake(asked)) \/ WaitAgain \/ SleepReturns
           \/ XferReturns \/ SleepRaises
  <2>1. m' = m
    BY <1>4 DEF Sleep, Wake, WaitAgain, SleepReturns, XferReturns, SleepRaises
  <2> QED BY <1>0, <2>1 DEF Sane
<1> QED BY <1>1, <1>2, <1>3, <1>4 DEF Worker

LEMMA WorkerBInv == ASSUME BInv, Worker PROVE BInv'
<1>1. Sane(m')
  BY WorkerMaster
<1>2. TargetsFine'
  BY WorkerTyped, SameTargetsFine DEF BInv
<1> QED BY <1>1, <1>2, WorkerTyped DEF BInv

LEMMA MasterBInv == ASSUME BInv, Master PROVE BInv'
<1>1. m.busy
  BY DEF Master, Act
<1>2. Sane(m')
  BY <1>1, MasterStep DEF BInv, Progressed
<1>3. /\ doneWake' \in BOOLEAN /\ line' = line /\ other' = other /\ target' = target
      /\ phase' = phase /\ stack' = stack /\ bounds' = bounds /\ clean' = clean
  BY DEF Master, Act, bus
<1>4. \/ taken' = taken /\ given' = given
      \/ taken' = [k \in Targets |-> <<>>] /\ given' = [k \in Targets |-> <<>>]
  BY DEF Master, Act
<1>5. taken' \in [Targets -> Seq(Bytes)] /\ given' \in [Targets -> Seq(Bytes)]
  BY <1>4, EmptySeq DEF BInv
<1>6. TargetsFine'
  BY <1>3, SameTargetsFine DEF BInv
<1> QED BY <1>2, <1>3, <1>5, <1>6 DEF BInv

LEMMA SettleBInv == ASSUME BInv, Settle PROVE BInv'
<1>1. /\ Handled /\ target' = target /\ other' = other /\ m' = m /\ doneWake' = doneWake
      /\ phase' = phase /\ stack' = stack /\ bounds' = bounds /\ clean' = clean
      /\ taken' = taken /\ given' = given
  BY DEF Settle, worker, history
<1>2. line' \in [Lines -> BOOLEAN]
  BY DEF Settle, BInv, Wired
<1>3. TargetsFine'
  BY <1>1 DEF BInv, TargetsFine, Handled
<1> QED BY <1>1, <1>2, <1>3 DEF BInv

LEMMA ForeignBInv ==
    ASSUME BInv, NEW held \in {{}} \cup {{l} : l \in Lines}, Foreign(held) PROVE BInv'
<1>1. /\ line' = line /\ target' = target /\ m' = m /\ doneWake' = doneWake
      /\ phase' = phase /\ stack' = stack /\ clean' = FALSE /\ other' = held
      /\ taken' = taken /\ given' = given /\ bounds' = [bounds EXCEPT !.faults = @ + 1]
  BY DEF Foreign, worker, history
<1>2. bounds' \in [xfers : Nat, inits : Nat, faults : Nat]
  BY <1>1, BoundsFacts DEF BInv
<1>3. TargetsFine'
  BY <1>1, SameTargetsFine DEF BInv
<1> QED BY <1>1, <1>2, <1>3 DEF BInv

LEMMA SyncBInv ==
    ASSUME BInv, NEW b \in [Targets -> Answers \cup {Defer}], TargetsSync(b) PROVE BInv'
<1>1. /\ line' = line /\ other' = other /\ m' = m /\ doneWake' = doneWake
      /\ phase' = phase /\ stack' = stack /\ bounds' = bounds /\ clean' = clean
  BY DEF TargetsSync, worker
<1>2. target' = [k \in Targets |-> IF Seen(k) THEN target[k] ELSE Synced(k, target[k], b[k])]
  BY DEF TargetsSync
<1>3. \A k \in Targets : b[k] \in Bytes \cup {Defer}
  BY I2cBusAssumption
<1>4. ASSUME NEW k \in Targets
      PROVE  Fine(target'[k]) /\ LevelsSeen(target'[k])
  <2>1. CASE Seen(k)
    BY <1>2, <2>1 DEF BInv, TargetsFine, Seen, LevelsSeen
  <2>2. CASE ~Seen(k)
    <3>1. Fine(target[k]) /\ ~target[k].deferred /\ ~LevelsSeen(target[k])
      BY <2>2 DEF BInv, TargetsFine, Seen, LevelsSeen
    <3>2. Fine(Synced(k, target[k], b[k])) /\ LevelsSeen(Synced(k, target[k], b[k]))
      BY <1>3, <3>1, SyncedFine DEF BInv
    <3> QED BY <1>2, <2>2, <3>2
  <2> QED BY <2>1, <2>2
<1>5. target' \in [Targets -> Members]
  <2> DEFINE f(k) == IF Seen(k) THEN target[k] ELSE Synced(k, target[k], b[k])
  <2>1. \A k \in Targets : f(k) \in Members
    BY <1>2, <1>4 DEF Fine
  <2>2. target' = [k \in Targets |-> f(k)]
    BY <1>2
  <2> HIDE DEF f
  <2> QED BY <2>1, <2>2
<1>6. TargetsFine'
  BY <1>1, <1>4, <1>5 DEF TargetsFine, Seen, LevelsSeen
<1>7. given' \in [Targets -> Seq(Bytes)]
  <2>1. given' = [k \in Targets |-> IF b[k] # Defer THEN Append(given[k], b[k]) ELSE given[k]]
    BY DEF TargetsSync
  <2>2. \A k \in Targets :
            (IF b[k] # Defer THEN Append(given[k], b[k]) ELSE given[k]) \in Seq(Bytes)
    BY <1>3, AppendProperties DEF BInv
  <2> QED BY <2>1, <2>2
<1>8. taken' \in [Targets -> Seq(Bytes)]
  <2> DEFINE w(k) == Synced(k, target[k], b[k])
             f(k) == IF w(k).state = "WRITE" /\ w(k).low /\ ~target[k].low
                     THEN Append(taken[k], target[k].shift) ELSE taken[k]
  <2>1. taken' = [k \in Targets |-> f(k)]
    BY DEF TargetsSync
  <2>2. ASSUME NEW k \in Targets PROVE f(k) \in Seq(Bytes)
    <3>1. taken[k] \in Seq(Bytes)
      BY DEF BInv
    <3>2. CASE w(k).state = "WRITE" /\ w(k).low /\ ~target[k].low
      <4>1. Fine(target[k]) /\ (target[k].deferred => LevelsSeen(target[k]))
        BY DEF BInv, TargetsFine, Seen, LevelsSeen
      <4>2. target[k].shift \in Bytes
        BY <1>3, <3>2, <4>1, SyncAccepts DEF BInv
      <4> QED BY <3>1, <3>2, <4>2, AppendProperties
    <3>3. CASE ~(w(k).state = "WRITE" /\ w(k).low /\ ~target[k].low)
      BY <3>1, <3>3
    <3> QED BY <3>2, <3>3
  <2> HIDE DEF f
  <2> QED BY <2>1, <2>2
<1> QED BY <1>1, <1>6, <1>7, <1>8 DEF BInv

LEMMA ResumedFacts ==
    ASSUME NEW t, Fine(t), t.deferred, NEW b \in Bytes
    PROVE  LET u == TakeByte([t EXCEPT !.deferred = FALSE], b)
           IN  /\ Fine(u) /\ SameLevels(u, t) /\ ~u.deferred /\ u.nbits = 0 /\ u.cur = b
               /\ u.low = ~b[1] /\ u.state = t.state /\ u.readOpen = t.readOpen
               /\ u.writeOpen = t.writeOpen /\ u.masterAck = t.masterAck /\ u.shift = t.shift
<1> DEFINE c == [t EXCEPT !.deferred = FALSE, !.cur = b]
           u == TakeByte([t EXCEPT !.deferred = FALSE], b)
<1>1. t \in Members /\ Row(t) /\ t.nbits = 0 /\ t.known
  BY DEF Fine, Row
<1>2. /\ c \in Members /\ c.cur = b /\ c.nbits = 0 /\ ~c.deferred /\ c.state = t.state
      /\ c.known = t.known /\ c.scl = t.scl /\ c.sda = t.sda /\ c.shift = t.shift
      /\ c.readOpen = t.readOpen /\ c.writeOpen = t.writeOpen /\ c.masterAck = t.masterAck
  BY <1>1 DEF Members
<1>3. u = DriveBit(c)
  BY <1>1 DEF TakeByte, Members
<1> HIDE DEF c, u
<1>4. u \in Members /\ u.low = ~c.cur[0 + 1] /\ u = [c EXCEPT !.low = u.low]
  <2>1. c \in Members /\ c.nbits < ByteBits
    BY <1>2
  <2>2. DriveBit(c) \in Members /\ DriveBit(c).low = ~c.cur[c.nbits + 1]
        /\ DriveBit(c) = [c EXCEPT !.low = DriveBit(c).low]
    BY <2>1, BitDriven
  <2> QED BY <1>2, <1>3, <2>2
<1>5. /\ u.cur = b /\ u.nbits = 0 /\ ~u.deferred /\ u.state = t.state
      /\ u.known = t.known /\ u.scl = t.scl /\ u.sda = t.sda /\ u.shift = t.shift
      /\ u.readOpen = t.readOpen /\ u.writeOpen = t.writeOpen /\ u.masterAck = t.masterAck
  BY <1>2, <1>4 DEF Members
<1>6. u.low = ~b[1]
  BY <1>2, <1>4
<1>7. Row(u)
  BY <1>1, <1>5 DEF Row
<1> QED BY <1>4, <1>5, <1>6, <1>7 DEF Fine, SameLevels, u

LEMMA ResumeBInv ==
    ASSUME BInv, NEW k \in Targets, NEW b \in Answers, Resume(k, b) PROVE BInv'
<1>1. /\ line' = line /\ other' = other /\ m' = m /\ doneWake' = doneWake
      /\ phase' = phase /\ stack' = stack /\ bounds' = bounds /\ clean' = clean
      /\ taken' = taken /\ given' = [given EXCEPT ![k] = Append(@, b)]
  BY DEF Resume, worker
<1> DEFINE u == TakeByte([target[k] EXCEPT !.deferred = FALSE], b)
<1>2. target' = [target EXCEPT ![k] = u]
  BY DEF Resume
<1>3. b \in Bytes /\ Fine(target[k]) /\ target[k].deferred
  BY I2cBusAssumption DEF BInv, TargetsFine, Resume
<1>4. Fine(u) /\ ~u.deferred
  BY <1>3, ResumedFacts
<1> HIDE DEF u
<1>5. TargetsFine'
  <2>1. target \in [Targets -> Members] /\ u \in Members
    BY <1>4 DEF BInv, TargetsFine, Fine
  <2>2. \A j \in Targets : target'[j] = IF j = k THEN u ELSE target[j]
    BY <1>2, <2>1
  <2>3. target' \in [Targets -> Members]
    BY <1>2, <2>1
  <2> QED BY <1>1, <1>4, <2>2, <2>3 DEF BInv, TargetsFine, Seen
<1>6. given' \in [Targets -> Seq(Bytes)]
  BY <1>1, <1>3, AppendProperties DEF BInv
<1> QED BY <1>1, <1>5, <1>6 DEF BInv

LEMMA BInvNext == BInv /\ [Next]_vars => BInv'
<1> SUFFICES ASSUME BInv, [Next]_vars PROVE BInv'
  OBVIOUS
<1>1. CASE Master
  BY <1>1, MasterBInv
<1>2. CASE Worker
  BY <1>2, WorkerBInv
<1>3. CASE Bus
  BY <1>3, SettleBInv, ForeignBInv, SyncBInv, ResumeBInv DEF Bus
<1>4. CASE UNCHANGED vars
  <2>1. TargetsFine'
    BY <1>4, SameTargetsFine DEF BInv, vars, bus
  <2> QED BY <1>4, <2>1 DEF BInv, vars, bus, worker, history
<1> QED BY <1>1, <1>2, <1>3, <1>4 DEF Next

\* Targets that count as the lines move and a master that pulls what its phase
\* says: whatever the requests, the faults and the exceptions.
THEOREM BInvHolds == Spec => []BInv
  BY BInvInit, BInvNext, PTL DEF Spec

\* The lines, the master, the targets and the waits are well typed.
THEOREM BusTypes == Spec => []TypeOK
  BY BInvHolds, BInvTyped, PTL

\* A master at rest pulls a line exactly when it was asked to keep the bus,
\* whatever ended its transaction.
THEOREM LinesLeft == Spec => []BusReleased
  BY BInvHolds, BInvTyped, PTL

LEMMA BoundedStep ==
    ASSUME BInv, [Next]_vars
    PROVE  m.busy /\ m'.busy /\ m' # m => QuartersLeft > QuartersLeft' /\ QuartersLeft' > 0
<1> SUFFICES ASSUME m.busy, m'.busy, m' # m
             PROVE  QuartersLeft > QuartersLeft' /\ QuartersLeft' > 0
  OBVIOUS
<1>1. Master
  BY WorkerMaster DEF Next, Bus, Settle, Foreign, TargetsSync, Resume, vars
<1>2. Progressed(m')
  BY <1>1, MasterStep DEF BInv
<1>3. Quarters(m') > 0 /\ Quarters(m') < Quarters(m)
  BY <1>2 DEF Progressed, Closer
<1>4. QuartersLeft' = Quarters(m')
  BY SameQuarters DEF QuartersLeft, BytesLeft, Quarters, After, LeftOf, ByteTime
<1> QED BY <1>3, <1>4, SameQuarters

\* A transaction of any length is over in the time known from its length: each
\* action of the master leaves fewer quarters of a period.
THEOREM TransactionEnds == Spec => EndsInTime
  BY BInvHolds, BoundedStep, PTL DEF Spec, EndsInTime

-----------------------------------------------------------------------------
(* A transaction that nothing disturbs.                                     *)

Falls == {"RS_SDA_RELEASE", "BIT_SET", "STOP_SDA_LOW"}
Lows == {"RS_SCL_RELEASE", "BIT_SCL_HIGH", "STOP_SCL_RELEASE"}
Slots == {"BIT_SET", "BIT_SCL_HIGH", "BIT_SAMPLE", "BIT_SCL_LOW"}

CalledBy(n) == {k \in Targets : n.req.addr \in Listens[k]}
\* Behind a repeated START, and before the first START of a transaction.
Again(n) == n.second /\ n.req.hasWrite
Starting(n) == ~Again(n) /\ n.phase \in {"RS_SDA_RELEASE", "RS_SCL_RELEASE", "START_CHECK"}

\* The lines.  The clock is pulled low; it is low; it rises; it is high; it
\* is high and the master takes SDA, or leaves it.
Steady == line["sda"] = Wired["sda"]
ClockFalls ==
    /\ \A k \in Targets :
           LET t == target[k]
           IN  /\ t.known
               /\ line["scl"] => Seen(k)
               /\ t.scl => t.sda = line["sda"] /\ ~t.deferred /\ Steady
    /\ line["scl"] => Steady
    /\ \A j, k \in Targets : target[j].scl = target[k].scl
ClockLow == ~line["scl"] /\ \A k \in Targets : target[k].known /\ ~target[k].scl
ClockRises ==
    /\ Steady
    /\ \A k \in Targets :
           LET t == target[k]
           IN  t.known /\ t.sda = line["sda"] /\ (t.scl => line["scl"]) /\ ~t.deferred
ClockHigh == line["scl"] /\ Steady /\ \A k \in Targets : Seen(k) /\ ~target[k].deferred
DataFalls ==
    /\ line["scl"]
    /\ \A k \in Targets :
           target[k].known /\ target[k].scl /\ (line["sda"] => target[k].sda)
DataRises ==
    /\ line["scl"]
    /\ \A k \in Targets :
           target[k].known /\ target[k].scl /\ (target[k].sda => line["sda"])

Wires ==
    /\ clean => other = {}
    /\ m.held /\ ~m.busy => ClockFalls
    /\ m.busy /\ clean =>
           /\ m.phase \in Falls => ClockFalls
           /\ m.phase \in Lows => ClockLow
           /\ \/ m.phase \in {"BIT_SAMPLE", "STOP_SDA_RELEASE"}
              \/ m.phase = "START_CHECK" /\ Again(m)
              => ClockRises
           /\ m.phase = "BIT_SCL_LOW" => ClockHigh
           /\ m.phase = "START_SCL_LOW" => DataFalls
           /\ m.phase = "FINISH" => DataRises

\* The target k, in state t, in the slot b of the byte i of the master n,
\* e pulses later: it has the bits that passed, and pulls SDA when it is its turn.
Spells(n, t, c) == \A j \in 1..c : t.shift[j] = n.cur[j]
InByte(n, k, t, i, b, e) ==
    /\ i = 0 /\ b < ByteBits =>
           t.state = "ADDR" /\ t.nbits = b + e /\ ~t.low /\ Spells(n, t, b + e)
    /\ i = 0 /\ b = ByteBits /\ k \in CalledBy(n) =>
           t.state = "ADDR" /\ t.nbits = b + e /\ t.low /\ Spells(n, t, b)
    /\ k \notin CalledBy(n) /\ (i > 0 \/ b = ByteBits) => t.state = "WAIT" /\ ~t.low
    /\ i > 0 /\ k \in CalledBy(n) /\ ~n.second =>
           /\ t.state = "WRITE" /\ t.nbits = b + e /\ (t.low <=> b = ByteBits)
           /\ Spells(n, t, IF b < ByteBits THEN b + e ELSE ByteBits)
    /\ i > 0 /\ k \in CalledBy(n) /\ n.second =>
           /\ t.state = "READ" /\ t.nbits = b + e
           /\ b < ByteBits /\ ~t.deferred => (t.low <=> ~t.cur[b + 1])
           /\ b = ByteBits => ~t.low /\ (e = 1 => (t.masterAck <=> i < n.req.nread))
    /\ t.deferred => n.phase = "BIT_SET"

\* The acknowledge of the byte i has passed, and the clock is still high.
ByteDone(n, k, t, i) ==
    /\ ~t.deferred
    /\ k \notin CalledBy(n) => t.state = "WAIT"
    /\ k \in CalledBy(n) =>
           /\ t.nbits = ByteBits + 1
           /\ i = 0 => t.state = "ADDR" /\ (t.shift[ByteBits] <=> n.second)
           /\ i > 0 /\ ~n.second => t.state = "WRITE"
           /\ i > 0 /\ n.second => t.state = "READ" /\ (t.masterAck <=> i < n.req.nread)

\* A target that did not see the clock fall is where the last slot left it.
Early(n, t) == n.phase = "BIT_SET" /\ t.scl
InSlot(n, k, t) ==
    /\ ~Early(n, t) => InByte(n, k, t, n.index, n.bit, IF t.scl THEN 1 ELSE 0)
    /\ Early(n, t) /\ n.bit > 0 => InByte(n, k, t, n.index, n.bit - 1, 1)
    /\ Early(n, t) /\ n.bit = 0 /\ n.index > 0 => ByteDone(n, k, t, n.index - 1)
    /\ Early(n, t) /\ n.bit = 0 /\ n.index = 0 => InByte(n, k, t, 0, 0, 0)

\* No byte is expected of the target: it leaves SDA when the clock falls.
Leaving(t) ==
    /\ ~t.deferred
    /\ ~t.scl => ~t.low
    /\ t.scl => \/ t.state = "WAIT"
                \/ /\ t.nbits = ByteBits + 1
                   /\ \/ t.state = "ADDR" /\ ~t.shift[ByteBits]
                      \/ t.state = "WRITE"
                      \/ t.state = "READ" /\ ~t.masterAck
AtRest(t) == t.state = "IDLE" /\ ~t.low /\ ~t.writeOpen /\ ~t.readOpen

Placed(n, k, t) ==
    /\ n.phase = "START_SCL_LOW" =>
           ~t.low /\ ~t.deferred /\ (~t.sda => InByte(n, k, t, 0, 0, 0))
    /\ n.phase \in Slots => InSlot(n, k, t)
    /\ n.phase \in {"RS_SDA_RELEASE", "STOP_SDA_LOW"} => Leaving(t)
    /\ n.phase \in {"RS_SCL_RELEASE", "START_CHECK", "STOP_SCL_RELEASE", "STOP_SDA_RELEASE"} =>
           ~t.low /\ ~t.deferred
    /\ n.phase = "FINISH" => ~t.low /\ ~t.deferred /\ (t.sda => AtRest(t))
Places ==
    m.busy /\ clean /\ ~Starting(m) => \A k \in Targets : Placed(m, k, target[k])

\* What the master has, by its place in the transaction.
Counted(n) ==
    /\ n.phase \notin Slots => n.index = 0
    /\ n.rx <=> n.second /\ n.index > 0
    /\ n.error = "none"
    /\ n.index = 0 => n.cur = AddressByte(n.req.addr, n.second)
    /\ n.index > 0 /\ ~n.second => n.cur = n.req.write[n.index]
    /\ n.acks = IF n.second THEN Len(n.req.write)
                ELSE IF n.index = 0 THEN 0 ELSE n.index - 1
    /\ Len(n.rbuf) = IF n.second /\ n.index > 0 THEN n.index - 1 ELSE 0
    /\ n.second => n.req.nread > 0
    /\ n.phase \in {"BIT_SCL_HIGH", "BIT_SAMPLE"} =>
           ("sda" \in n.pulls <=> IF n.bit < ByteBits THEN ~n.rx /\ ~n.cur[n.bit + 1]
                                  ELSE n.rx /\ n.index < n.req.nread)
Counts == m.busy /\ clean /\ m.phase \notin Ending => Counted(m)

\* What a target took and gave, gv and tk.
WrittenTo(n, t) ==
    IF n.second THEN Len(n.req.write)
    ELSE IF n.index = 0 THEN 0
    ELSE IF n.phase \in Slots /\ n.bit = ByteBits /\ ~Early(n, t) THEN n.index ELSE n.index - 1
ReadFrom(n, t) ==
    IF ~n.second \/ n.index = 0 THEN 0
    ELSE IF t.deferred \/ (Early(n, t) /\ n.bit = 0) THEN n.index - 1 ELSE n.index
Recorded(n, k, t, tk, gv) ==
    /\ k \notin CalledBy(n) => tk = <<>> /\ gv = <<>>
    /\ k \in CalledBy(n) =>
           /\ tk = SubSeq(n.req.write, 1, WrittenTo(n, t))
           /\ Len(gv) = ReadFrom(n, t)
           /\ n.rx /\ ReadFrom(n, t) = n.index => t.cur = gv[n.index]

\* What the master read, against what the targets gave, gs.
SampledBits(n) == IF n.phase = "BIT_SCL_LOW" /\ n.bit < ByteBits THEN n.bit + 1 ELSE n.bit
Together(n, gs, i, j) == \A k \in CalledBy(n) : gs[k][i][j]
Reads(n, gs) ==
    /\ n.index > 0 \/ Again(n) => CalledBy(n) # {}
    /\ \A i \in 1..Len(n.rbuf) : \A j \in 1..ByteBits : n.rbuf[i][j] <=> Together(n, gs, i, j)
    /\ n.rx => \A j \in 1..SampledBits(n) : n.cur[j] <=> Together(n, gs, n.index, j)
    /\ n.phase = "BIT_SCL_LOW" /\ n.bit = ByteBits /\ ~n.rx => (n.ack <=> CalledBy(n) # {})
Books ==
    m.busy /\ clean /\ m.phase \notin Ending /\ ~Starting(m) =>
        /\ \A k \in Targets : Recorded(m, k, target[k], taken[k], given[k])
        /\ Reads(m, given)

\* The end of the story.
Nothing(n, tk, gs) ==
    (\A k \in Targets : tk[k] = <<>> /\ gs[k] = <<>>) /\ n.acks = 0 /\ n.rbuf = <<>>
Story(n, tk, gs) ==
    /\ n.error = "EIO" => CalledBy(n) = {} /\ Nothing(n, tk, gs)
    /\ n.error = "ETIMEDOUT" => Nothing(n, tk, gs)
    /\ n.error = "none" =>
           /\ CalledBy(n) # {}
           /\ n.acks = Len(n.req.write) /\ Len(n.rbuf) = n.req.nread
           /\ \A k \in CalledBy(n) : tk[k] = n.req.write /\ Len(gs[k]) = n.req.nread
           /\ \A k \in Targets \ CalledBy(n) : tk[k] = <<>> /\ gs[k] = <<>>
           /\ \A i \in 1..n.req.nread : \A j \in 1..ByteBits :
                  n.rbuf[i][j] <=> Together(n, gs, i, j)
Ends == m.busy /\ clean /\ m.phase \in Ending => Story(m, taken, given) /\ m.error # "ETIMEDOUT"
Done ==
    m.done /\ clean =>
        /\ ~m.busy
        /\ Story(m, taken, given)
        /\ m.held => m.error # "ETIMEDOUT" /\ \A k \in Targets : Leaving(target[k])
        /\ ~m.held => /\ line = Wired /\ Handled
                      /\ m.error # "ETIMEDOUT" => \A k \in Targets : AtRest(target[k])

IInv == BInv /\ Wires /\ Places /\ Counts /\ Books /\ Ends /\ Done

LEMMA LineFacts ==
    ASSUME BInv
    PROVE  /\ line["scl"] \in BOOLEAN /\ line["sda"] \in BOOLEAN
           /\ Wired["scl"] = ("scl" \notin m.pulls /\ "scl" \notin other)
           /\ Wired["sda"] = (/\ "sda" \notin m.pulls /\ "sda" \notin other
                              /\ \A k \in Targets : ~target[k].low)
           /\ line = Wired => line["scl"] = Wired["scl"] /\ line["sda"] = Wired["sda"]
  BY DEF BInv, Lines, Wired

LEMMA TargetFacts ==
    ASSUME BInv, NEW k \in Targets
    PROVE  /\ target[k] \in Members /\ Row(target[k]) /\ Fine(target[k])
           /\ target[k].known \in BOOLEAN /\ target[k].scl \in BOOLEAN
           /\ target[k].sda \in BOOLEAN /\ target[k].low \in BOOLEAN
           /\ target[k].deferred \in BOOLEAN
           /\ target[k].deferred => Seen(k) /\ target[k].nbits = 0 /\ target[k].state = "READ"
  BY DEF BInv, TargetsFine, Fine, Row, Members

LEMMA MasterFacts ==
    ASSUME BInv
    PROVE  /\ m \in Masters /\ Sane(m) /\ Underway(m)
           /\ m.held /\ ~m.busy => "scl" \in m.pulls
           /\ m.busy => Pulling(m) /\ m.configured /\ ~m.held /\ ~m.done
           /\ m.busy /\ m.phase \in Falls \cup Lows => "scl" \in m.pulls
           /\ m.busy /\ m.phase \in {"BIT_SAMPLE", "BIT_SCL_LOW", "STOP_SDA_RELEASE",
                                     "START_CHECK", "START_SCL_LOW", "FINISH"}
                  => "scl" \notin m.pulls
           /\ m.busy /\ m.phase \in {"STOP_SCL_RELEASE", "STOP_SDA_RELEASE", "START_SCL_LOW"}
                  => "sda" \in m.pulls
           /\ m.busy /\ m.phase \in {"RS_SCL_RELEASE", "START_CHECK", "FINISH"} => "sda" \notin m.pulls
  BY DEF BInv, Sane, Underway, Released, Pulling, Falls, Lows, Lines

\* One line at least moves, and only towards what pulls it.
LEMMA MovedLines ==
    ASSUME BInv, Settle
    PROVE  /\ Handled /\ target' = target /\ other' = other /\ m' = m /\ clean' = clean
           /\ taken' = taken /\ given' = given /\ Wired' = Wired
           /\ line'["scl"] \in {line["scl"], Wired["scl"]}
           /\ line'["sda"] \in {line["sda"], Wired["sda"]}
           /\ line["scl"] # Wired["scl"] \/ line["sda"] # Wired["sda"]
           /\ line["sda"] = Wired["sda"] => line'["scl"] = Wired["scl"]
           /\ line["scl"] = Wired["scl"] => line'["sda"] = Wired["sda"]
<1>1. /\ Handled /\ target' = target /\ other' = other /\ m' = m /\ clean' = clean
      /\ taken' = taken /\ given' = given
  BY DEF Settle, worker, history
<1>2. Wired' = Wired
  BY <1>1 DEF Wired
<1>3. PICK moving \in SUBSET {l \in Lines : line[l] # Wired[l]} :
          moving # {} /\ line' = [l \in Lines |-> IF l \in moving THEN Wired[l] ELSE line[l]]
  BY DEF Settle
<1> QED BY <1>1, <1>2, <1>3 DEF Lines

LEMMA SettleWires ==
    ASSUME BInv, Wires, Places, Done, Settle
    PROVE  Wires'
<1> USE MovedLines
<1>0. /\ line["scl"] \in BOOLEAN /\ line["sda"] \in BOOLEAN
      /\ \A k \in Targets : Seen(k) /\ ~target[k].deferred
  BY LineFacts DEF Handled
<1>1. ASSUME ClockFalls, "scl" \in m.pulls
      PROVE  ClockFalls'
  <2>1. Wired["scl"] = FALSE
    BY <1>1, LineFacts
  <2>2. line'["scl"] = FALSE
    BY <1>1, <1>0, <2>1 DEF ClockFalls, Steady
  <2>3. line["scl"] => line'["sda"] = line["sda"] /\ Steady'
    BY <1>1, <1>0, <2>1, <2>2 DEF ClockFalls, Steady
  <2>4. ASSUME NEW k \in Targets
        PROVE  /\ target[k].known /\ ~target[k].deferred
               /\ target[k].scl => target[k].sda = line'["sda"] /\ Steady'
    BY <1>0, <2>3, <2>4 DEF Seen
  <2> QED BY <1>1, <2>2, <2>4 DEF ClockFalls
<1>2. ASSUME ClockLow, "scl" \in m.pulls
      PROVE  ClockLow'
  BY <1>2, LineFacts DEF ClockLow
<1>3. ASSUME ClockRises, "scl" \notin m.pulls, other = {}
      PROVE  ClockRises'
  <2>1. Wired["scl"] = TRUE
    BY <1>3, LineFacts
  <2>2. line'["scl"] = TRUE /\ line'["sda"] = line["sda"]
    BY <1>3, <2>1 DEF ClockRises, Steady
  <2> QED BY <1>3, <2>2 DEF ClockRises, Steady
<1>4. ASSUME ClockHigh, "scl" \notin m.pulls, other = {}
      PROVE  FALSE
  BY <1>4, LineFacts DEF ClockHigh, Steady
<1>5. ASSUME DataFalls, m.pulls = {"sda"}, other = {}
      PROVE  DataFalls'
  BY <1>5, <1>0, LineFacts DEF DataFalls
<1>6. ASSUME DataRises, m.pulls = {}, other = {}, \A k \in Targets : ~target[k].low
      PROVE  DataRises'
  BY <1>6, <1>0, LineFacts DEF DataRises
<1>7. m.held /\ ~m.busy => ClockFalls'
  BY <1>1, MasterFacts DEF Wires
<1>8. ASSUME m.busy, clean
      PROVE  /\ other = {}
             /\ m.phase \in Falls => ClockFalls'
             /\ m.phase \in Lows => ClockLow'
             /\ \/ m.phase \in {"BIT_SAMPLE", "STOP_SDA_RELEASE"}
                \/ m.phase = "START_CHECK" /\ Again(m)
                => ClockRises'
             /\ m.phase = "BIT_SCL_LOW" => ClockHigh'
             /\ m.phase = "START_SCL_LOW" => DataFalls'
             /\ m.phase = "FINISH" => DataRises'
  <2>1. other = {}
    BY <1>8 DEF Wires
  <2>2. m.phase \in Falls => ClockFalls'
    BY <1>1, <1>8, MasterFacts DEF Wires
  <2>3. m.phase \in Lows => ClockLow'
    BY <1>2, <1>8, MasterFacts DEF Wires
  <2>4. \/ m.phase \in {"BIT_SAMPLE", "STOP_SDA_RELEASE"}
        \/ m.phase = "START_CHECK" /\ Again(m)
        => ClockRises'
    BY <1>3, <1>8, <2>1, MasterFacts DEF Wires
  <2>5. m.phase # "BIT_SCL_LOW"
    BY <1>4, <1>8, <2>1, MasterFacts DEF Wires
  <2>6. m.phase = "START_SCL_LOW" => DataFalls'
    BY <1>5, <1>8, <2>1, MasterFacts DEF Wires, Pulling
  <2>7. m.phase = "FINISH" => DataRises'
    <3>1. SUFFICES ASSUME m.phase = "FINISH" PROVE DataRises'
      OBVIOUS
    <3>2. \A k \in Targets : ~target[k].low
      BY <1>8, <3>1 DEF Places, Placed, Starting
    <3> QED BY <1>6, <1>8, <2>1, <3>1, <3>2, MasterFacts DEF Wires, Pulling
  <2> QED BY <2>1, <2>2, <2>3, <2>4, <2>5, <2>6, <2>7
<1> QED BY <1>7, <1>8 DEF Wires, Again

LEMMA SettleStep ==
    ASSUME IInv, Settle
    PROVE  IInv'
<1>1. BInv /\ Wires /\ Places /\ Counts /\ Books /\ Ends /\ Done
  BY DEF IInv
<1>2. BInv' /\ Wires'
  BY <1>1, SettleBInv, SettleWires
<1>3. Handled /\ target' = target /\ other' = other /\ m' = m /\ clean' = clean
      /\ taken' = taken /\ given' = given
  BY <1>1, MovedLines
<1>4. Places'
  BY <1>1, <1>3 DEF Places
<1>5. Counts'
  BY <1>1, <1>3 DEF Counts
<1>6. Books'
  BY <1>1, <1>3 DEF Books
<1>7. Ends'
  BY <1>1, <1>3 DEF Ends
<1>8. Done'
  <2>1. SUFFICES ASSUME m.done, clean PROVE Done'
    BY <1>3 DEF Done
  <2>2. m.held
    BY <1>1, <2>1, LineFacts, MovedLines DEF Done
  <2> QED BY <1>1, <1>3, <2>1, <2>2 DEF Done
<1> QED BY <1>2, <1>4, <1>5, <1>6, <1>7, <1>8 DEF IInv

-----------------------------------------------------------------------------
(* An action of the master: the lines have settled and every target has     *)
(* seen them.                                                               *)

\* The lines, and what an action leaves alone.
Stands ==
    /\ line' = line /\ other' = other /\ target' = target /\ clean' = clean
    /\ Settled

SameData(n) == "sda" \in n.pulls <=> "sda" \in m.pulls

LEMMA StandsFacts ==
    ASSUME BInv, Stands
    PROVE  /\ line["scl"] \in BOOLEAN /\ line["sda"] \in BOOLEAN
           /\ line["scl"] = Wired["scl"] /\ line["sda"] = Wired["sda"]
           /\ \A k \in Targets : /\ target[k].known /\ target[k].scl = line["scl"]
                                 /\ target[k].sda = line["sda"] /\ ~target[k].deferred
           /\ SameData(m') => Steady'
           /\ line'["scl"] = line["scl"] /\ line'["sda"] = line["sda"]
           /\ \A k \in Targets : Seen(k)'
<1>1. line = Wired /\ Handled
  BY DEF Stands, Settled
<1>2. /\ line["scl"] = Wired["scl"] /\ line["sda"] = Wired["sda"]
      /\ line["scl"] \in BOOLEAN /\ line["sda"] \in BOOLEAN
  BY <1>1, LineFacts
<1>3. SameData(m') => Wired'["sda"] = Wired["sda"]
  BY DEF Wired, Lines, SameData, Stands
<1> QED BY <1>1, <1>2, <1>3 DEF Handled, Seen, Steady, Stands

LEMMA TakesClock == ASSUME BInv, Stands, SameData(m') PROVE ClockFalls'
  BY StandsFacts DEF ClockFalls, Stands

LEMMA KeepsClock == ASSUME BInv, Stands, ~line["scl"] PROVE ClockLow'
  BY StandsFacts DEF ClockLow, Stands

LEMMA LeavesClock == ASSUME BInv, Stands, SameData(m') PROVE ClockRises'
  BY StandsFacts DEF ClockRises, Stands

LEMMA ReadsClock == ASSUME BInv, Stands, SameData(m'), line["scl"] PROVE ClockHigh'
  BY StandsFacts DEF ClockHigh, Stands

LEMMA TakesData == ASSUME BInv, Stands, line["scl"], line["sda"] PROVE DataFalls'
  BY StandsFacts DEF DataFalls, Stands

LEMMA LeavesData == ASSUME BInv, Stands, line["scl"], ~line["sda"] PROVE DataRises'
  BY StandsFacts DEF DataRises, Stands

\* What holds of the master of a transaction that nothing disturbs.
LEMMA CountedFacts ==
    ASSUME BInv, m.busy, m.phase \notin Ending, Counted(m)
    PROVE  /\ m.req \in Requests /\ m.index \in Nat /\ m.second \in BOOLEAN /\ m.rx \in BOOLEAN
           /\ m.bit \in 0..ByteBits /\ m.cur \in Bytes /\ m.rbuf \in Seq(Bytes) /\ m.acks \in Nat
           /\ m.req.addr \in Addresses /\ m.req.hasWrite \in BOOLEAN
           /\ m.req.write \in Seq(Bytes) /\ Len(m.req.write) \in Nat /\ m.req.nread \in Nat
           /\ ~m.req.hasWrite => m.req.nread > 0 /\ m.req.write = <<>>
           /\ m.second \/ m.req.hasWrite
           /\ m.index <= Segment(m)
<1>1. /\ m.req \in Requests /\ m.index \in Nat /\ m.second \in BOOLEAN /\ m.rx \in BOOLEAN
      /\ m.bit \in 0..ByteBits /\ m.cur \in Bytes /\ m.rbuf \in Seq(Bytes) /\ m.acks \in Nat
  BY MasterFacts DEF Masters
<1>2. (m.second \/ m.req.hasWrite) /\ m.index <= Segment(m)
  BY MasterFacts DEF Underway
<1> QED BY <1>1, <1>2, RequestFacts

\* A clean transaction in progress, at the place of an action.
InTransaction ==
    BInv /\ Stands /\ m.busy /\ clean /\ other = {} /\ (m.phase \notin Ending => Counted(m))

\* What an action of a clean transaction leaves to establish: of the master
\* n, in a phase in which it is busy, and of one at the end.
GoesOn(n) ==
    /\ n.busy /\ ~n.done /\ ~n.held
    /\ Wires'
    /\ ~Starting(n) => \A k \in Targets : Placed(n, k, target[k])
    /\ n.phase \notin Ending => Counted(n)
    /\ n.phase \notin Ending /\ ~Starting(n) =>
          /\ \A k \in Targets : Recorded(n, k, target[k], taken'[k], given'[k])
          /\ Reads(n, given')
    /\ n.phase \in Ending => Story(n, taken', given') /\ n.error # "ETIMEDOUT"

LEMMA GoesOnSuffices ==
    ASSUME BInv', Stands, NEW n, m' = n, GoesOn(n)
    PROVE  IInv'
  BY DEF IInv, GoesOn, Places, Counts, Books, Ends, Done, Stands

\* The lines alone, by the phase the action leads to.
LEMMA NextWires ==
    ASSUME BInv, Stands, m'.busy, ~m'.held, clean => other = {},
           clean =>
             /\ m'.phase \in Falls => ClockFalls'
             /\ m'.phase \in Lows => ClockLow'
             /\ \/ m'.phase \in {"BIT_SAMPLE", "STOP_SDA_RELEASE"}
                \/ m'.phase = "START_CHECK" /\ Again(m')
                => ClockRises'
             /\ m'.phase = "BIT_SCL_LOW" => ClockHigh'
             /\ m'.phase = "START_SCL_LOW" => DataFalls'
             /\ m'.phase = "FINISH" => DataRises'
    PROVE  Wires'
  BY DEF Wires, Again, Stands

\* What an action that only drives a line leaves alone.
Unmoved(n) ==
    /\ n.req = m.req /\ n.second = m.second /\ n.index = m.index /\ n.rx = m.rx
    /\ n.acks = m.acks /\ n.rbuf = m.rbuf /\ n.error = m.error /\ n.bit = m.bit
    /\ n.cur = m.cur /\ n.ack = m.ack
    /\ n.busy = m.busy /\ n.done = m.done /\ n.held = m.held /\ n.configured = m.configured

LEMMA DrivenFacts ==
    ASSUME m \in Masters, NEW S \in SUBSET Lines, NEW p \in Phases,
           NEW n, n = [m EXCEPT !.pulls = S, !.phase = p]
    PROVE  n \in Masters /\ n.phase = p /\ Unmoved(n) /\ n.pulls = S
<1>1. n \in Masters /\ n.phase = p /\ n.pulls = S
  BY DEF Masters
<1>2. /\ n.req = m.req /\ n.second = m.second /\ n.index = m.index /\ n.rx = m.rx
      /\ n.acks = m.acks /\ n.rbuf = m.rbuf /\ n.error = m.error
  BY DEF Masters
<1>3. /\ n.bit = m.bit /\ n.cur = m.cur /\ n.ack = m.ack
      /\ n.busy = m.busy /\ n.done = m.done /\ n.held = m.held /\ n.configured = m.configured
  BY DEF Masters
<1> QED BY <1>1, <1>2, <1>3 DEF Unmoved

LEMMA PullSets ==
    ASSUME m \in Masters
    PROVE  /\ (m.pulls \cup {"sda"}) \in SUBSET Lines /\ (m.pulls \ {"sda"}) \in SUBSET Lines
           /\ (m.pulls \cup {"scl"}) \in SUBSET Lines /\ (m.pulls \ {"scl"}) \in SUBSET Lines
  BY DEF Masters, Lines

\* The bit or the acknowledge that the master puts on SDA.
PutsLow == IF m.bit < ByteBits THEN ~m.rx /\ ~m.cur[m.bit + 1] ELSE m.rx /\ m.index < m.req.nread

LEMMA DrivingActions ==
    ASSUME m \in Masters
    PROVE  /\ line["scl"] /\ line["sda"] =>
                  StartCheck = [m EXCEPT !.pulls = m.pulls \cup {"sda"}, !.phase = "START_SCL_LOW"]
           /\ RsSdaRelease = [m EXCEPT !.pulls = m.pulls \ {"sda"}, !.phase = "RS_SCL_RELEASE"]
           /\ RsSclRelease = [m EXCEPT !.pulls = m.pulls \ {"scl"}, !.phase = "START_CHECK"]
           /\ PutsLow =>
                  BitSet = [m EXCEPT !.pulls = m.pulls \cup {"sda"}, !.phase = "BIT_SCL_HIGH"]
           /\ ~PutsLow =>
                  BitSet = [m EXCEPT !.pulls = m.pulls \ {"sda"}, !.phase = "BIT_SCL_HIGH"]
           /\ BitSclHigh = [m EXCEPT !.pulls = m.pulls \ {"scl"}, !.phase = "BIT_SAMPLE"]
           /\ StopSdaLow = [m EXCEPT !.pulls = m.pulls \cup {"sda"}, !.phase = "STOP_SCL_RELEASE"]
           /\ StopSclRelease = [m EXCEPT !.pulls = m.pulls \ {"scl"}, !.phase = "STOP_SDA_RELEASE"]
<1>1. ASSUME NEW l, NEW p
      PROVE  /\ Then(Drive(l, TRUE), p) = [m EXCEPT !.pulls = m.pulls \cup {l}, !.phase = p]
             /\ Then(Drive(l, FALSE), p) = [m EXCEPT !.pulls = m.pulls \ {l}, !.phase = p]
  BY DEF Then, Drive, Masters
<1>2. /\ line["scl"] /\ line["sda"] => StartCheck = Then(Drive("sda", TRUE), "START_SCL_LOW")
      /\ RsSdaRelease = Then(Drive("sda", FALSE), "RS_SCL_RELEASE")
      /\ RsSclRelease = Then(Drive("scl", FALSE), "START_CHECK")
      /\ BitSclHigh = Then(Drive("scl", FALSE), "BIT_SAMPLE")
      /\ StopSdaLow = Then(Drive("sda", TRUE), "STOP_SCL_RELEASE")
      /\ StopSclRelease = Then(Drive("scl", FALSE), "STOP_SDA_RELEASE")
  BY DEF StartCheck, RsSdaRelease, RsSclRelease, BitSclHigh, StopSdaLow, StopSclRelease
<1>3. BitSet = Then(Drive("sda", PutsLow), "BIT_SCL_HIGH")
  BY DEF BitSet, PutsLow
<1>4. /\ PutsLow => Drive("sda", PutsLow) = Drive("sda", TRUE)
      /\ ~PutsLow => Drive("sda", PutsLow) = Drive("sda", FALSE)
  BY DEF Drive
<1>5. /\ PutsLow => BitSet = Then(Drive("sda", TRUE), "BIT_SCL_HIGH")
      /\ ~PutsLow => BitSet = Then(Drive("sda", FALSE), "BIT_SCL_HIGH")
  BY <1>3, <1>4
<1> QED BY <1>1, <1>2, <1>5

\* The end of a byte keeps what the master pulls.
LEMMA KeepsPulls ==
    ASSUME NEW n \in Masters
    PROVE  ByteOver(n).pulls = n.pulls
<1>1. ASSUME NEW u \in Masters PROVE End(u).pulls = u.pulls
  BY DEF End, Then, Completed, Masters
<1>2. ASSUME NEW u \in Masters PROVE LoadNext(u).pulls = u.pulls
  <2> DEFINE r == [u EXCEPT !.bit = 0, !.index = u.index + 1]
             writing == ~u.second /\ u.req.hasWrite
             v == LoadNext(u)
  <2>1. r \in Masters /\ r.pulls = u.pulls
    <3>1. 0 \in 0..ByteBits /\ u.index + 1 \in Nat
      BY Width DEF Masters
    <3> QED BY <3>1 DEF Masters
  <2>2. v = CASE writing /\ r.index <= Len(u.req.write) ->
                   Then([r EXCEPT !.cur = u.req.write[r.index], !.rx = FALSE], "BIT_SET")
              [] writing /\ r.index > Len(u.req.write) /\ u.req.nread > 0 ->
                   Then([r EXCEPT !.second = TRUE, !.index = 0, !.rx = FALSE,
                                  !.cur = AddressByte(u.req.addr, TRUE)], "RS_SDA_RELEASE")
              [] ~writing /\ r.index <= u.req.nread ->
                   Then([r EXCEPT !.cur = Zero, !.rx = TRUE], "BIT_SET")
              [] OTHER -> End(r)
    BY DEF LoadNext
  <2> HIDE DEF r, v
  <2>3. End(r).pulls = r.pulls
    BY <1>1, <2>1
  <2>4. ASSUME NEW x, NEW y PROVE Then([r EXCEPT !.cur = x, !.rx = y], "BIT_SET").pulls = r.pulls
    BY <2>1 DEF Then, Masters
  <2>5. ASSUME NEW x
        PROVE  Then([r EXCEPT !.second = TRUE, !.index = 0, !.rx = FALSE, !.cur = x],
                    "RS_SDA_RELEASE").pulls = r.pulls
    BY <2>1 DEF Then, Masters
  <2>10. ~(r.index <= Len(u.req.write) /\ r.index > Len(u.req.write))
    <3>1. r.index \in Nat /\ Len(u.req.write) \in Nat
      BY <2>1, RequestFacts DEF Masters
    <3> QED BY <3>1
  <2>6. CASE writing /\ r.index <= Len(u.req.write)
    <3> DEFINE x == u.req.write[r.index]
    <3>1. v = Then([r EXCEPT !.cur = x, !.rx = FALSE], "BIT_SET")
      BY <2>2, <2>6, <2>10
    <3> HIDE DEF x
    <3> QED BY <2>1, <2>4, <3>1 DEF v
  <2>7. CASE writing /\ r.index > Len(u.req.write) /\ u.req.nread > 0
    BY <2>1, <2>2, <2>5, <2>7, <2>10 DEF v
  <2>8. CASE ~writing /\ r.index <= u.req.nread
    BY <2>1, <2>2, <2>4, <2>8 DEF v
  <2>9. CASE /\ ~(writing /\ r.index <= Len(u.req.write))
             /\ ~(writing /\ r.index > Len(u.req.write) /\ u.req.nread > 0)
             /\ ~(~writing /\ r.index <= u.req.nread)
    <3>1. v = End(r)
      BY <2>2, <2>9
    <3> QED BY <2>1, <2>3, <3>1 DEF v
  <2> HIDE DEF writing
  <2> QED BY <2>6, <2>7, <2>8, <2>9, Zenon
<1>3. CASE n.rx
  <2> DEFINE v == [n EXCEPT !.rbuf = Append(n.rbuf, n.cur)]
  <2>1. n.rbuf \in Seq(Bytes) /\ n.cur \in Bytes
    BY DEF Masters
  <2>2. Append(n.rbuf, n.cur) \in Seq(Bytes)
    BY <2>1, AppendProperties
  <2>3. v \in Masters /\ v.pulls = n.pulls
    BY <2>2 DEF Masters
  <2>4. ByteOver(n) = LoadNext(v)
    BY <1>3 DEF ByteOver, Masters
  <2> HIDE DEF v
  <2> QED BY <1>2, <2>3, <2>4
<1>4. CASE ~n.rx /\ ~n.ack
  BY <1>4 DEF ByteOver, Then, Masters
<1>5. CASE ~n.rx /\ n.ack
  <2> DEFINE v == [n EXCEPT !.acks = IF n.index > 0 THEN n.acks + 1 ELSE n.acks]
  <2>1. n.acks \in Nat /\ n.index \in Nat
    BY DEF Masters
  <2>2. (IF n.index > 0 THEN n.acks + 1 ELSE n.acks) \in Nat
    BY <2>1
  <2>3. v \in Masters /\ v.pulls = n.pulls
    BY <2>2 DEF Masters
  <2>4. ByteOver(n) = LoadNext(v)
    BY <1>5 DEF ByteOver, Masters
  <2> HIDE DEF v
  <2> QED BY <1>2, <2>3, <2>4
<1> QED BY <1>3, <1>4, <1>5 DEF Masters

\* A master that keeps the bus has left SDA as it was.
LEMMA HoldsClock ==
    ASSUME BInv, Master, m'.held, ~m'.busy
    PROVE  SameData(m')
<1>0. m \in Masters /\ m.busy /\ ~m.held
  BY MasterFacts DEF Master, Act
<1>1. ASSUME NEW e \in {"EIO", "ETIMEDOUT"}, m' = Aborted(m, e) PROVE FALSE
  BY <1>0, <1>1, AbortedFacts
<1>2. ASSUME NEW S \in SUBSET Lines, NEW p \in Phases,
             m' = [m EXCEPT !.pulls = S, !.phase = p]
      PROVE  FALSE
  BY <1>0, <1>2, DrivenFacts DEF Unmoved
<1>3. /\ {"START_SCL_LOW", "RS_SCL_RELEASE", "START_CHECK", "BIT_SCL_HIGH", "BIT_SAMPLE",
          "STOP_SCL_RELEASE", "STOP_SDA_RELEASE"} \subseteq Phases
  BY PhaseNames DEF Lines
<1>4. CASE Act("START_CHECK", StartCheck)
  <2>1. CASE line["scl"] /\ line["sda"]
    BY <1>0, <1>2, <1>3, <1>4, <2>1, PullSets, DrivingActions DEF Act
  <2>2. CASE ~(line["scl"] /\ line["sda"])
    BY <1>1, <1>4, <2>2 DEF Act, StartCheck
  <2> QED BY <2>1, <2>2
<1>5. CASE Act("START_SCL_LOW", StartSclLow)
  BY <1>0, <1>5 DEF Act, StartSclLow, Then, Drive, Masters
<1>6. CASE Act("RS_SDA_RELEASE", RsSdaRelease)
  BY <1>0, <1>2, <1>3, <1>6, PullSets, DrivingActions DEF Act
<1>7. CASE Act("RS_SCL_RELEASE", RsSclRelease)
  BY <1>0, <1>2, <1>3, <1>7, PullSets, DrivingActions DEF Act
<1>8. CASE Act("BIT_SET", BitSet)
  <2>1. CASE PutsLow
    BY <1>0, <1>2, <1>3, <1>8, <2>1, PullSets, DrivingActions DEF Act
  <2>2. CASE ~PutsLow
    BY <1>0, <1>2, <1>3, <1>8, <2>2, PullSets, DrivingActions DEF Act
  <2> QED BY <2>1, <2>2
<1>9. CASE Act("BIT_SCL_HIGH", BitSclHigh)
  BY <1>0, <1>2, <1>3, <1>9, PullSets, DrivingActions DEF Act
<1>10. CASE Act("BIT_SAMPLE", BitSample)
  <2>1. CASE line["scl"]
    <3>1. m' = [Sampled EXCEPT !.phase = "BIT_SCL_LOW"]
      BY <1>10, <2>1 DEF Act, BitSample, Then
    <3>2. Sampled \in Masters /\ Sampled = [m EXCEPT !.cur = Sampled.cur, !.ack = Sampled.ack]
      BY <1>0, SampledFacts DEF BInv
    <3>3. Sampled.busy = m.busy
      BY <1>0, <3>2 DEF Masters
    <3> QED BY <1>0, <3>1, <3>2, <3>3 DEF Masters
  <2>2. CASE ~line["scl"]
    BY <1>1, <1>10, <2>2 DEF Act, BitSample
  <2> QED BY <2>1, <2>2
<1>11. CASE Act("BIT_SCL_LOW", BitSclLow)
  <2> DEFINE n == Drive("scl", TRUE)
  <2>1. n \in Masters /\ n = [m EXCEPT !.pulls = m.pulls \cup {"scl"}]
    BY <1>0, PullSets DEF Drive, Masters
  <2>2. n.busy /\ n.bit = m.bit /\ n.pulls = m.pulls \cup {"scl"}
    BY <1>0, <2>1 DEF Masters
  <2>3. m' = IF m.bit < ByteBits THEN Then([n EXCEPT !.bit = n.bit + 1], "BIT_SET")
                                 ELSE ByteOver(n)
    BY <1>11, <2>1 DEF Act, BitSclLow, Masters
  <2> HIDE DEF n
  <2>4. CASE m.bit < ByteBits
    BY <2>1, <2>2, <2>3, <2>4 DEF Then, Masters
  <2>5. CASE ~(m.bit < ByteBits)
    <3>1. m'.pulls = m.pulls \cup {"scl"}
      BY <2>1, <2>2, <2>3, <2>5, KeepsPulls
    <3> QED BY <3>1 DEF SameData
  <2> QED BY <2>4, <2>5
<1>12. CASE Act("STOP_SDA_LOW", StopSdaLow)
  BY <1>0, <1>2, <1>3, <1>12, PullSets, DrivingActions DEF Act
<1>13. CASE Act("STOP_SCL_RELEASE", StopSclRelease)
  BY <1>0, <1>2, <1>3, <1>13, PullSets, DrivingActions DEF Act
<1>14. CASE Act("STOP_SDA_RELEASE", StopSdaRelease)
  BY <1>0, <1>14 DEF Act, StopSdaRelease, Then, Drive, Masters
<1>15. CASE Act("FINISH", Finish)
  BY <1>0, <1>15, CompletedFacts DEF Act, Finish
<1> QED BY <1>4, <1>5, <1>6, <1>7, <1>8, <1>9, <1>10, <1>11, <1>12, <1>13, <1>14, <1>15
         DEF Master

LEMMA MasterStands == ASSUME BInv, Master PROVE Stands /\ m.busy
  BY DEF Master, Act, Stands, bus

\* Once it was disturbed, only the bus that it may keep matters.
LEMMA DisturbedStep ==
    ASSUME IInv, Master, ~clean
    PROVE  IInv'
<1>1. BInv /\ BInv' /\ Stands
  BY MasterBInv, MasterStands DEF IInv
<1>2. m'.held /\ ~m'.busy => ClockFalls'
  BY <1>1, HoldsClock, TakesClock
<1> QED BY <1>1, <1>2 DEF IInv, Wires, Places, Counts, Books, Ends, Done, Stands

-----------------------------------------------------------------------------
(* The actions of a transaction that nothing disturbs, phase by phase.      *)

AtAction ==
    /\ InTransaction
    /\ ~Starting(m) => \A k \in Targets : Placed(m, k, target[k])
    /\ m.phase \notin Ending /\ ~Starting(m) =>
          /\ \A k \in Targets : Recorded(m, k, target[k], taken[k], given[k])
          /\ Reads(m, given)
    /\ m.phase \in Ending => Story(m, taken, given) /\ m.error # "ETIMEDOUT"

LEMMA ActionPlace == ASSUME IInv, Master, clean PROVE AtAction /\ BInv /\ BInv' /\ Wires
<1>1. BInv /\ Stands /\ m.busy /\ BInv'
  BY MasterStands, MasterBInv DEF IInv
<1>2. InTransaction
  BY <1>1 DEF InTransaction, IInv, Wires, Counts
<1> QED BY <1>1, <1>2 DEF IInv, AtAction, Places, Books, Ends

\* The lines and the targets, settled.
LEMMA Levelled ==
    ASSUME AtAction
    PROVE  /\ m.phase \in Falls \cup Lows => ~line["scl"]
           /\ m.phase \in {"BIT_SAMPLE", "BIT_SCL_LOW", "STOP_SDA_RELEASE", "START_CHECK",
                           "START_SCL_LOW", "FINISH"} => line["scl"]
           /\ m.phase \in {"STOP_SCL_RELEASE", "STOP_SDA_RELEASE", "START_SCL_LOW"} => ~line["sda"]
           /\ line["sda"] <=> "sda" \notin m.pulls /\ \A k \in Targets : ~target[k].low
           /\ \A k \in Targets : /\ target[k].known /\ target[k].scl = line["scl"]
                                 /\ target[k].sda = line["sda"] /\ ~target[k].deferred
           /\ \A k \in Targets : target[k].low \in BOOLEAN
           /\ line["scl"] \in BOOLEAN /\ line["sda"] \in BOOLEAN
<1>1. BInv /\ Stands /\ m.busy /\ other = {}
  BY DEF AtAction, InTransaction
<1>2. line["scl"] = ("scl" \notin m.pulls)
  BY <1>1, StandsFacts, LineFacts
<1>3. line["sda"] = ("sda" \notin m.pulls /\ \A k \in Targets : ~target[k].low)
  BY <1>1, StandsFacts, LineFacts
<1> QED BY <1>1, <1>2, <1>3, StandsFacts, MasterFacts, TargetFacts

\* Where nothing moved the books say the same.
Alike(n) == n.req = m.req /\ n.second = m.second /\ n.index = m.index /\ n.rx = m.rx

LEMMA AlikeFacts ==
    ASSUME NEW n, Alike(n)
    PROVE  /\ CalledBy(n) = CalledBy(m) /\ (Again(n) <=> Again(m))
           /\ \A gs, i, j : Together(n, gs, i, j) <=> Together(m, gs, i, j)
           /\ \A k, t, tk, gv :
                  WrittenTo(n, t) = WrittenTo(m, t) /\ ReadFrom(n, t) = ReadFrom(m, t)
                  => (Recorded(n, k, t, tk, gv) <=> Recorded(m, k, t, tk, gv))
<1>1. CalledBy(n) = CalledBy(m) /\ (Again(n) <=> Again(m))
  BY DEF Alike, CalledBy, Again
<1>2. \A gs, i, j : Together(n, gs, i, j) <=> Together(m, gs, i, j)
  BY <1>1 DEF Together
<1> QED BY <1>1, <1>2 DEF Alike, Recorded

LEMMA AlikeBooks ==
    ASSUME NEW n, Alike(n), NEW t, ~Early(m, t), ~Early(n, t),
           m.index = 0 \/ (m.phase \in Slots /\ n.phase \in Slots /\ n.bit = m.bit)
    PROVE  WrittenTo(n, t) = WrittenTo(m, t) /\ ReadFrom(n, t) = ReadFrom(m, t)
  BY DEF Alike, WrittenTo, ReadFrom

LEMMA UnmovedStory ==
    ASSUME NEW n, Unmoved(n), NEW tk, NEW gs
    PROVE  Story(n, tk, gs) <=> Story(m, tk, gs)
<1>1. CalledBy(n) = CalledBy(m) /\ (Nothing(n, tk, gs) <=> Nothing(m, tk, gs))
      /\ \A i, j : Together(n, gs, i, j) <=> Together(m, gs, i, j)
  BY DEF Unmoved, CalledBy, Nothing, Together
<1> QED BY <1>1 DEF Story, Unmoved

\* Before the first bit there is nothing in the books of the reader.
LEMMA ReadsNone ==
    ASSUME NEW n, n.index = 0, ~n.rx, Len(n.rbuf) = 0, Again(n) => CalledBy(n) # {}, NEW gs,
           n.phase # "BIT_SCL_LOW"
    PROVE  Reads(n, gs)
<1>1. 1..Len(n.rbuf) = {}
  OBVIOUS
<1> QED BY <1>1 DEF Reads

\* The repeated START, and the START: no byte is in progress.
LEMMA IdleCounted ==
    ASSUME NEW n, Unmoved(n), Counted(m), m.index = 0, n.phase \notin {"BIT_SCL_HIGH", "BIT_SAMPLE"}
    PROVE  Counted(n) /\ n.index = 0 /\ ~n.rx /\ Len(n.rbuf) = 0
  BY DEF Unmoved, Counted

LEMMA RsSdaReleaseGoesOn ==
    ASSUME AtAction, m.phase = "RS_SDA_RELEASE", taken' = taken, given' = given,
           NEW n, m' = n, Unmoved(n), n.phase = "RS_SCL_RELEASE"
    PROVE  GoesOn(n)
<1>1. BInv /\ Stands /\ m.busy /\ other = {} /\ Counted(m) /\ ~line["scl"]
  BY Levelled DEF AtAction, InTransaction, Ending, Falls
<1>2. n.busy /\ ~n.done /\ ~n.held /\ Alike(n)
  BY <1>1, MasterFacts DEF Unmoved, Alike
<1>3. Wires'
  BY <1>1, <1>2, KeepsClock, NextWires DEF Falls, Lows
<1>4. m.index = 0
  BY <1>1 DEF Counted, Slots
<1>5. Counted(n) /\ n.index = 0 /\ ~n.rx /\ Len(n.rbuf) = 0
  BY <1>1, <1>4, IdleCounted
<1>6. ASSUME ~Starting(n)
      PROVE  /\ \A k \in Targets : Placed(n, k, target[k])
             /\ \A k \in Targets : Recorded(n, k, target[k], taken[k], given[k])
             /\ Reads(n, given)
  <2>1. ~Starting(m) /\ Again(m) /\ Again(n)
    BY <1>2, <1>6, AlikeFacts DEF Starting
  <2>2. ASSUME NEW k \in Targets PROVE Placed(n, k, target[k])
    <3>1. Leaving(target[k]) /\ ~target[k].scl /\ ~target[k].deferred
      BY <1>1, <2>1, Levelled DEF AtAction, Placed
    <3> QED BY <3>1 DEF Placed, Leaving, Slots
  <2>3. ASSUME NEW k \in Targets PROVE Recorded(n, k, target[k], taken[k], given[k])
    <3>1. WrittenTo(n, target[k]) = WrittenTo(m, target[k]) /\ ReadFrom(n, target[k]) = ReadFrom(m, target[k])
      BY <1>2, <1>4, AlikeBooks DEF Early
    <3> QED BY <1>2, <2>1, <3>1, AlikeFacts DEF AtAction, Ending
  <2>4. CalledBy(n) # {}
    BY <1>2, <2>1, AlikeFacts DEF AtAction, Ending, Reads
  <2> QED BY <1>5, <2>2, <2>3, <2>4, ReadsNone
<1> QED BY <1>2, <1>3, <1>5, <1>6 DEF GoesOn, Ending

LEMMA RsSclReleaseGoesOn ==
    ASSUME AtAction, m.phase = "RS_SCL_RELEASE", taken' = taken, given' = given,
           NEW n, m' = n, Unmoved(n), n.phase = "START_CHECK", SameData(n)
    PROVE  GoesOn(n)
<1>1. BInv /\ Stands /\ m.busy /\ other = {} /\ Counted(m)
  BY DEF AtAction, InTransaction, Ending
<1>2. n.busy /\ ~n.done /\ ~n.held /\ Alike(n)
  BY <1>1, MasterFacts DEF Unmoved, Alike
<1>3. Wires'
  BY <1>1, <1>2, LeavesClock, NextWires DEF Falls, Lows
<1>4. m.index = 0
  BY <1>1 DEF Counted, Slots
<1>5. Counted(n) /\ n.index = 0 /\ ~n.rx /\ Len(n.rbuf) = 0
  BY <1>1, <1>4, IdleCounted
<1>6. ASSUME ~Starting(n)
      PROVE  /\ \A k \in Targets : Placed(n, k, target[k])
             /\ \A k \in Targets : Recorded(n, k, target[k], taken[k], given[k])
             /\ Reads(n, given)
  <2>1. ~Starting(m) /\ Again(m) /\ Again(n)
    BY <1>2, <1>6, AlikeFacts DEF Starting
  <2>2. ASSUME NEW k \in Targets PROVE Placed(n, k, target[k])
    BY <2>1 DEF Placed, Slots, AtAction
  <2>3. ASSUME NEW k \in Targets PROVE Recorded(n, k, target[k], taken[k], given[k])
    <3>1. WrittenTo(n, target[k]) = WrittenTo(m, target[k]) /\ ReadFrom(n, target[k]) = ReadFrom(m, target[k])
      BY <1>2, <1>4, AlikeBooks DEF Early
    <3> QED BY <1>2, <2>1, <3>1, AlikeFacts DEF AtAction, Ending
  <2>4. CalledBy(n) # {}
    BY <1>2, <2>1, AlikeFacts DEF AtAction, Ending, Reads
  <2> QED BY <1>5, <2>2, <2>3, <2>4, ReadsNone
<1> QED BY <1>2, <1>3, <1>5, <1>6 DEF GoesOn, Ending

\* The START.  The books are closed at the first one of a transaction.
LEMMA NothingRecorded ==
    ASSUME NEW n, n.req \in Requests, n.index = 0, ~n.rx, n.second => ~n.req.hasWrite, NEW k, NEW t
    PROVE  Recorded(n, k, t, <<>>, <<>>)
<1>1. n.req.write \in Seq(Bytes) /\ (~n.req.hasWrite => n.req.write = <<>>)
  BY RequestFacts
<1>2. WrittenTo(n, t) = 0 /\ ReadFrom(n, t) = 0
  BY <1>1 DEF WrittenTo, ReadFrom
<1>3. SubSeq(n.req.write, 1, 0) = <<>>
  BY <1>1, SubSeqProperties
<1> QED BY <1>2, <1>3 DEF Recorded

LEMMA StartGoesOn ==
    ASSUME AtAction, m.phase = "START_CHECK", line["scl"], line["sda"],
           IF ~Again(m) THEN /\ taken' = [k \in Targets |-> <<>>] /\ given' = [k \in Targets |-> <<>>]
                        ELSE taken' = taken /\ given' = given,
           NEW n, m' = n, Unmoved(n), n.phase = "START_SCL_LOW"
    PROVE  GoesOn(n)
<1>1. BInv /\ Stands /\ m.busy /\ other = {} /\ Counted(m)
  BY DEF AtAction, InTransaction, Ending
<1>2. n.busy /\ ~n.done /\ ~n.held /\ Alike(n)
  BY <1>1, MasterFacts DEF Unmoved, Alike
<1>3. Wires'
  BY <1>1, <1>2, TakesData, NextWires DEF Falls, Lows
<1>4. m.index = 0
  BY <1>1 DEF Counted, Slots
<1>5. Counted(n) /\ n.index = 0 /\ ~n.rx /\ Len(n.rbuf) = 0
  BY <1>1, <1>4, IdleCounted
<1>6. ASSUME NEW k \in Targets PROVE Placed(n, k, target[k])
  <2>1. ~target[k].low /\ ~target[k].deferred /\ target[k].sda
    BY Levelled
  <2> QED BY <2>1 DEF Placed, Slots
<1>7. ASSUME NEW k \in Targets PROVE Recorded(n, k, target[k], taken'[k], given'[k])
  <2>1. CASE Again(m)
    <3>1. WrittenTo(n, target[k]) = WrittenTo(m, target[k]) /\ ReadFrom(n, target[k]) = ReadFrom(m, target[k])
      BY <1>2, <1>4, AlikeBooks DEF Early
    <3> QED BY <1>2, <2>1, <3>1, AlikeFacts DEF AtAction, Ending, Starting
  <2>2. CASE ~Again(m)
    <3>1. n.req \in Requests /\ (n.second => ~n.req.hasWrite)
      BY <1>1, <1>2, <2>2, CountedFacts DEF Again, Alike, Ending
    <3> QED BY <1>5, <2>2, <3>1, NothingRecorded
  <2> QED BY <2>1, <2>2
<1>8. Reads(n, given')
  <2>1. Again(n) => CalledBy(n) # {}
    BY <1>2, AlikeFacts DEF AtAction, Ending, Reads, Starting
  <2> QED BY <1>5, <2>1, ReadsNone
<1> QED BY <1>2, <1>3, <1>5, <1>6, <1>7, <1>8 DEF GoesOn, Ending

\* A line is low: nothing was exchanged.
LEMMA StartFails ==
    ASSUME AtAction, BInv', Wires, m.phase = "START_CHECK", ~(line["scl"] /\ line["sda"]),
           IF ~Again(m) THEN /\ taken' = [k \in Targets |-> <<>>] /\ given' = [k \in Targets |-> <<>>]
                        ELSE taken' = taken /\ given' = given,
           m' = Aborted(m, "ETIMEDOUT")
    PROVE  IInv'
<1>1. BInv /\ Stands /\ m.busy /\ other = {} /\ Counted(m)
  BY DEF AtAction, InTransaction, Ending
<1>2. ~Again(m)
  <2>1. SUFFICES ASSUME Again(m) PROVE FALSE
    OBVIOUS
  <2>2. \A k \in Targets : ~target[k].low
    BY <2>1 DEF AtAction, Starting, Placed
  <2>3. "sda" \notin m.pulls
    BY <1>1, MasterFacts
  <2> QED BY <2>2, <2>3, Levelled
<1>3. m \in Masters /\ m.req \in Requests /\ (m.second => m.req.write = <<>>)
      /\ m.rbuf \in Seq(Bytes)
  BY <1>1, <1>2, CountedFacts, MasterFacts DEF Again, Ending
<1>4. /\ ~m'.busy /\ m'.done /\ ~m'.held /\ m'.pulls = {} /\ m'.error = "ETIMEDOUT"
      /\ m'.acks = m.acks /\ m'.rbuf = m.rbuf
  BY <1>1, <1>3, AbortedFacts DEF Counted
<1>5. m.acks = 0 /\ m.rbuf = <<>>
  <2>1. m.index = 0 /\ Len(m.rbuf) = 0
    BY <1>1 DEF Counted, Slots
  <2> QED BY <1>1, <1>3, <2>1, EmptySeq DEF Counted
<1>6. Story(m', taken', given')
  BY <1>2, <1>4, <1>5 DEF Story, Nothing
<1>7. line' = Wired'
  <2>1. m.pulls = {} /\ line = Wired
    BY <1>1 DEF Stands, Settled, BInv, Sane, Underway, Pulling
  <2> QED BY <1>1, <1>4, <2>1 DEF Wired, Stands
<1>8. Handled'
  BY <1>1 DEF Stands, Settled, Handled, Seen
<1>9. clean' => other' = {}
  BY <1>1 DEF Stands
<1> QED BY <1>4, <1>6, <1>7, <1>8, <1>9 DEF IInv, Wires, Places, Counts, Books, Ends, Done

\* Alike masters expect the same of a target that waits for no byte.
LEMMA SameInByte ==
    ASSUME NEW n, Alike(n), n.cur = m.cur \/ (n.second /\ n.index > 0),
           NEW k, NEW t, ~t.deferred, NEW i, i = n.index, NEW b, NEW e, InByte(m, k, t, i, b, e)
    PROVE  InByte(n, k, t, i, b, e)
<1>1. CalledBy(n) = CalledBy(m)
  BY AlikeFacts
<1>2. CASE n.cur = m.cur
  <2>1. \A c : Spells(n, t, c) <=> Spells(m, t, c)
    BY <1>2 DEF Spells
  <2> QED BY <1>1, <2>1 DEF InByte, Alike
<1>3. CASE n.second /\ n.index > 0
  <2>1. i # 0
    BY <1>3
  <2> QED BY <1>1, <1>3, <2>1 DEF InByte, Alike
<1> QED BY <1>2, <1>3

LEMMA StartSclLowGoesOn ==
    ASSUME AtAction, m.phase = "START_SCL_LOW", taken' = taken, given' = given,
           NEW n, m' = n, Alike(n), n.acks = m.acks, n.rbuf = m.rbuf, n.error = m.error,
           n.cur = m.cur, n.busy, ~n.done, ~n.held,
           n.phase = "BIT_SET", n.bit = 0, SameData(n)
    PROVE  GoesOn(n)
<1>1. BInv /\ Stands /\ m.busy /\ other = {} /\ Counted(m) /\ line["scl"] /\ ~line["sda"]
  BY Levelled DEF AtAction, InTransaction, Ending
<1>3. Wires'
  BY <1>1, TakesClock, NextWires DEF Falls, Lows
<1>4. m.index = 0 /\ n.index = 0 /\ ~n.rx /\ Len(n.rbuf) = 0
  BY <1>1 DEF Counted, Slots, Alike
<1>5. Counted(n)
  BY <1>1, <1>4 DEF Counted, Alike
<1>6. ASSUME NEW k \in Targets PROVE Placed(n, k, target[k])
  <2>1. target[k].scl /\ ~target[k].sda /\ ~target[k].deferred
    BY <1>1, Levelled
  <2>2. InByte(m, k, target[k], 0, 0, 0)
    BY <2>1 DEF AtAction, Starting, Placed
  <2>3. InByte(n, k, target[k], 0, 0, 0)
    BY <1>4, <2>1, <2>2, SameInByte
  <2>4. InSlot(n, k, target[k])
    BY <1>4, <2>1, <2>3 DEF InSlot, Early
  <2> QED BY <2>4 DEF Placed
<1>7. ASSUME NEW k \in Targets PROVE Recorded(n, k, target[k], taken[k], given[k])
  <2>1. WrittenTo(n, target[k]) = WrittenTo(m, target[k]) /\ ReadFrom(n, target[k]) = ReadFrom(m, target[k])
    BY <1>4 DEF Alike, WrittenTo, ReadFrom
  <2> QED BY <2>1, AlikeFacts DEF AtAction, Ending, Starting
<1>8. Reads(n, given)
  <2>1. Again(n) => CalledBy(n) # {}
    BY AlikeFacts DEF AtAction, Ending, Reads, Starting
  <2> QED BY <1>4, <2>1, ReadsNone
<1> QED BY <1>3, <1>5, <1>6, <1>7, <1>8 DEF GoesOn, Ending

\* In a byte: the master drives a line and nothing else.
LEMMA SlotGoesOn ==
    ASSUME AtAction, m.phase \in {"BIT_SET", "BIT_SCL_HIGH"}, taken' = taken, given' = given,
           NEW n, m' = n, Unmoved(n),
           \/ m.phase = "BIT_SET" /\ n.phase = "BIT_SCL_HIGH" /\ ("sda" \in n.pulls <=> PutsLow)
           \/ m.phase = "BIT_SCL_HIGH" /\ n.phase = "BIT_SAMPLE" /\ SameData(n)
    PROVE  GoesOn(n)
<1>1. BInv /\ Stands /\ m.busy /\ other = {} /\ Counted(m) /\ ~line["scl"]
  BY Levelled DEF AtAction, InTransaction, Ending, Falls, Lows
<1>2. n.busy /\ ~n.done /\ ~n.held /\ Alike(n)
  BY <1>1, MasterFacts DEF Unmoved, Alike
<1>3. Wires'
  BY <1>1, <1>2, KeepsClock, LeavesClock, NextWires DEF Falls, Lows
<1>4. m.phase \in Slots /\ n.phase \in Slots /\ ~Starting(m)
  BY DEF Slots, Starting
<1>5. Counted(n)
  <2>1. "sda" \in n.pulls <=> IF n.bit < ByteBits THEN ~n.rx /\ ~n.cur[n.bit + 1]
                                                  ELSE n.rx /\ n.index < n.req.nread
    BY <1>1 DEF Counted, PutsLow, Unmoved, SameData
  <2> QED BY <1>1, <1>4, <2>1 DEF Counted, Unmoved
<1>6. ASSUME NEW k \in Targets
      PROVE  Placed(n, k, target[k]) /\ Recorded(n, k, target[k], taken[k], given[k])
  <2>1. ~target[k].scl /\ ~target[k].deferred
    BY <1>1, Levelled
  <2>2. ~Early(m, target[k]) /\ ~Early(n, target[k])
    BY <2>1 DEF Early
  <2>3. InByte(m, k, target[k], m.index, m.bit, 0)
    BY <1>4, <2>1, <2>2 DEF AtAction, Placed, InSlot
  <2>4. InByte(n, k, target[k], n.index, n.bit, 0)
    BY <1>2, <2>1, <2>3, SameInByte DEF Unmoved
  <2>5. InSlot(n, k, target[k])
    BY <2>1, <2>2, <2>4 DEF InSlot
  <2>6. Placed(n, k, target[k])
    BY <2>5 DEF Placed
  <2>7. WrittenTo(n, target[k]) = WrittenTo(m, target[k]) /\ ReadFrom(n, target[k]) = ReadFrom(m, target[k])
    BY <1>2, <1>4, <2>2, AlikeBooks DEF Unmoved
  <2>8. Recorded(m, k, target[k], taken[k], given[k])
    BY <1>4 DEF AtAction, Ending
  <2> QED BY <1>2, <2>6, <2>7, <2>8, AlikeFacts
<1>7. Reads(n, given)
  <2>1. Reads(m, given)
    BY <1>4 DEF AtAction, Ending
  <2>2. SampledBits(n) = SampledBits(m)
    BY DEF SampledBits, Unmoved
  <2> QED BY <1>2, <2>1, <2>2, AlikeFacts DEF Reads, Unmoved
<1> QED BY <1>2, <1>3, <1>5, <1>6, <1>7 DEF GoesOn, Ending

\* The clock is high: the master reads SDA, the targets have counted the pulse.
LEMMA SampleReads ==
    ASSUME AtAction, m.phase = "BIT_SAMPLE"
    PROVE  /\ m.rx /\ m.bit < ByteBits =>
                 (line["sda"] <=> Together(m, given, m.index, m.bit + 1))
           /\ ~m.rx /\ m.bit = ByteBits => (~line["sda"] <=> CalledBy(m) # {})
<1>1. BInv /\ m.busy /\ Counted(m) /\ line["scl"] /\ m.bit \in 0..ByteBits /\ m.index \in Nat
  BY Levelled, CountedFacts DEF AtAction, InTransaction, Ending
<1>2. "sda" \in m.pulls <=> IF m.bit < ByteBits THEN ~m.rx /\ ~m.cur[m.bit + 1]
                                                ELSE m.rx /\ m.index < m.req.nread
  BY <1>1 DEF Counted
<1>3. ASSUME NEW k \in Targets
      PROVE  /\ InByte(m, k, target[k], m.index, m.bit, 1) /\ ~target[k].deferred
             /\ Recorded(m, k, target[k], taken[k], given[k]) /\ ~Early(m, target[k])
  <2>1. target[k].scl /\ ~target[k].deferred
    BY <1>1, Levelled
  <2>2. ~Early(m, target[k])
    BY DEF Early
  <2> QED BY <2>1, <2>2 DEF AtAction, Placed, InSlot, Slots, Starting, Ending
<1>4. ASSUME m.rx, m.bit < ByteBits
      PROVE  line["sda"] <=> Together(m, given, m.index, m.bit + 1)
  <2>1. m.second /\ m.index > 0
    BY <1>1, <1>4 DEF Counted
  <2>2. ASSUME NEW k \in Targets, k \notin CalledBy(m) PROVE ~target[k].low
    BY <1>3, <2>1, <2>2 DEF InByte
  <2>3. ASSUME NEW k \in CalledBy(m)
        PROVE  target[k].low <=> ~given[k][m.index][m.bit + 1]
    <3>1. k \in Targets
      BY DEF CalledBy
    <3>2. target[k].low <=> ~target[k].cur[m.bit + 1]
      BY <1>3, <1>4, <2>1, <3>1 DEF InByte
    <3>3. target[k].cur = given[k][m.index]
      BY <1>3, <1>4, <2>1, <3>1 DEF Recorded, ReadFrom
    <3> QED BY <3>2, <3>3
  <2>4. line["sda"] <=> \A k \in Targets : ~target[k].low
    BY <1>2, <1>4, Levelled
  <2>5. CalledBy(m) \subseteq Targets
    BY DEF CalledBy
  <2> QED BY <2>2, <2>3, <2>4, <2>5 DEF Together
<1>5. ASSUME ~m.rx, m.bit = ByteBits
      PROVE  ~line["sda"] <=> CalledBy(m) # {}
  <2>1. ~(m.second /\ m.index > 0)
    BY <1>1, <1>5 DEF Counted
  <2>2. ASSUME NEW k \in Targets PROVE target[k].low <=> k \in CalledBy(m)
    BY <1>1, <1>3, <1>5, <2>1 DEF InByte
  <2>3. ~line["sda"] <=> \E k \in Targets : target[k].low
    BY <1>2, <1>5, Levelled
  <2> QED BY <2>2, <2>3 DEF CalledBy
<1> QED BY <1>4, <1>5

LEMMA BitSampleGoesOn ==
    ASSUME AtAction, m.phase = "BIT_SAMPLE", taken' = taken, given' = given,
           NEW n, m' = n, Alike(n), n.acks = m.acks, n.rbuf = m.rbuf, n.error = m.error,
           n.bit = m.bit, n.busy, ~n.done, ~n.held, n.pulls = m.pulls, n.phase = "BIT_SCL_LOW",
           n.cur = IF m.bit < ByteBits /\ m.rx
                   THEN [m.cur EXCEPT ![m.bit + 1] = line["sda"]] ELSE m.cur,
           n.ack = IF m.bit = ByteBits /\ ~m.rx THEN ~line["sda"] ELSE m.ack
    PROVE  GoesOn(n)
<1>1. /\ BInv /\ Stands /\ m.busy /\ other = {} /\ Counted(m) /\ line["scl"]
      /\ m.bit \in 0..ByteBits /\ m.cur \in Bytes /\ m.index \in Nat
  BY Levelled, CountedFacts DEF AtAction, InTransaction, Ending
<1>3. Wires'
  BY <1>1, ReadsClock, NextWires DEF Falls, Lows, SameData
<1>4. m.phase \in Slots /\ n.phase \in Slots /\ ~Starting(m)
  BY DEF Slots, Starting
<1>5. n.cur = m.cur \/ (n.second /\ n.index > 0)
  BY <1>1 DEF Counted, Alike
<1>6. Counted(n)
  BY <1>1, <1>4, <1>5 DEF Counted, Alike
<1>7. ASSUME NEW k \in Targets
      PROVE  Placed(n, k, target[k]) /\ Recorded(n, k, target[k], taken[k], given[k])
  <2>1. target[k].scl /\ ~target[k].deferred
    BY <1>1, Levelled
  <2>2. ~Early(m, target[k]) /\ ~Early(n, target[k])
    BY DEF Early
  <2>3. InByte(m, k, target[k], m.index, m.bit, 1)
    BY <1>4, <2>1, <2>2 DEF AtAction, Placed, InSlot
  <2>4. InByte(n, k, target[k], n.index, n.bit, 1)
    BY <1>5, <2>1, <2>3, SameInByte DEF Alike
  <2>5. InSlot(n, k, target[k])
    BY <2>1, <2>2, <2>4 DEF InSlot
  <2>6. Placed(n, k, target[k])
    BY <2>5 DEF Placed
  <2>7. WrittenTo(n, target[k]) = WrittenTo(m, target[k]) /\ ReadFrom(n, target[k]) = ReadFrom(m, target[k])
    BY <1>4, <2>2, AlikeBooks
  <2>8. Recorded(m, k, target[k], taken[k], given[k])
    BY <1>4 DEF AtAction, Ending
  <2> QED BY <2>6, <2>7, <2>8, AlikeFacts
<1>8. Reads(n, given)
  <2>1. Reads(m, given)
    BY <1>4 DEF AtAction, Ending
  <2>2. ASSUME n.rx, NEW j \in 1..SampledBits(n)
        PROVE  n.cur[j] <=> Together(n, given, n.index, j)
    <3>1. m.rx /\ n.index = m.index
      BY <2>2 DEF Alike
    <3>2. CASE j \in 1..m.bit
      <4>1. n.cur[j] = m.cur[j]
        BY <1>1, <3>2 DEF Bytes
      <4>2. m.cur[j] <=> Together(m, given, m.index, j)
        BY <2>1, <3>1, <3>2 DEF Reads, SampledBits
      <4> QED BY <3>1, <4>1, <4>2, AlikeFacts
    <3>3. CASE j \notin 1..m.bit
      <4>1. j = m.bit + 1 /\ m.bit < ByteBits
        BY <1>1, <2>2, <3>3 DEF SampledBits
      <4>2. n.cur[j] = line["sda"]
        BY <1>1, <3>1, <4>1 DEF Bytes
      <4> QED BY <3>1, <4>1, <4>2, SampleReads, AlikeFacts
    <3> QED BY <3>2, <3>3
  <2>3. n.bit = ByteBits /\ ~n.rx => (n.ack <=> CalledBy(n) # {})
    BY SampleReads, AlikeFacts DEF Alike
  <2>4. n.index > 0 \/ Again(n) => CalledBy(n) # {}
    BY <2>1, AlikeFacts DEF Reads, Alike
  <2>5. \A i \in 1..Len(n.rbuf) : \A j \in 1..ByteBits : n.rbuf[i][j] <=> Together(n, given, i, j)
    BY <2>1, AlikeFacts DEF Reads
  <2> QED BY <2>2, <2>3, <2>4, <2>5 DEF Reads
<1> QED BY <1>1, <1>3, <1>6, <1>7, <1>8 DEF GoesOn, Ending

\* The next bit of the byte.
LEMMA NextBitGoesOn ==
    ASSUME AtAction, m.phase = "BIT_SCL_LOW", m.bit < ByteBits, taken' = taken, given' = given,
           NEW n, m' = n, Alike(n), n.acks = m.acks, n.rbuf = m.rbuf, n.error = m.error,
           n.cur = m.cur, n.busy, ~n.done, ~n.held,
           n.phase = "BIT_SET", n.bit = m.bit + 1, SameData(n)
    PROVE  GoesOn(n)
<1>1. /\ BInv /\ Stands /\ m.busy /\ other = {} /\ Counted(m) /\ line["scl"]
      /\ m.bit \in 0..ByteBits /\ m.index \in Nat /\ m.second \in BOOLEAN
  BY Levelled, CountedFacts DEF AtAction, InTransaction, Ending
<1>3. Wires'
  BY <1>1, TakesClock, NextWires DEF Falls, Lows
<1>4. m.phase \in Slots /\ n.phase \in Slots /\ ~Starting(m) /\ n.bit > 0 /\ n.bit - 1 = m.bit
  BY <1>1 DEF Slots, Starting
<1>6. Counted(n)
  BY <1>1, <1>4 DEF Counted, Alike
<1>7. ASSUME NEW k \in Targets
      PROVE  Placed(n, k, target[k]) /\ Recorded(n, k, target[k], taken[k], given[k])
  <2>1. target[k].scl /\ ~target[k].deferred
    BY <1>1, Levelled
  <2>2. ~Early(m, target[k]) /\ Early(n, target[k])
    BY <2>1 DEF Early
  <2>3. InByte(m, k, target[k], m.index, m.bit, 1)
    BY <1>4, <2>1, <2>2 DEF AtAction, Placed, InSlot
  <2>4. InByte(n, k, target[k], n.index, n.bit - 1, 1)
    BY <1>4, <2>1, <2>3, SameInByte DEF Alike
  <2>5. InSlot(n, k, target[k])
    BY <1>4, <2>1, <2>2, <2>4 DEF InSlot
  <2>6. Placed(n, k, target[k])
    BY <2>5 DEF Placed
  <2>7. WrittenTo(n, target[k]) = WrittenTo(m, target[k]) /\ ReadFrom(n, target[k]) = ReadFrom(m, target[k])
    BY <1>1, <1>4, <2>1, <2>2 DEF WrittenTo, ReadFrom, Alike
  <2>8. Recorded(m, k, target[k], taken[k], given[k])
    BY <1>4 DEF AtAction, Ending
  <2> QED BY <2>6, <2>7, <2>8, AlikeFacts
<1>8. Reads(n, given)
  <2>1. Reads(m, given)
    BY <1>4 DEF AtAction, Ending
  <2>2. SampledBits(n) = SampledBits(m)
    BY DEF SampledBits
  <2> QED BY <2>1, <2>2, AlikeFacts DEF Reads, Alike
<1> QED BY <1>1, <1>3, <1>6, <1>7, <1>8 DEF GoesOn, Ending

\* A byte is over, the clock still high.
LEMMA ByteEndFacts ==
    ASSUME AtAction, m.phase = "BIT_SCL_LOW", m.bit = ByteBits
    PROVE  /\ BInv /\ Stands /\ m.busy /\ other = {} /\ Counted(m) /\ line["scl"]
           /\ m.index \in Nat /\ m.second \in BOOLEAN /\ m.rx \in BOOLEAN
           /\ Reads(m, given)
           /\ \A k \in Targets :
                  LET t == target[k]
                  IN  /\ t.scl /\ ~t.deferred /\ ByteDone(m, k, t, m.index)
                      /\ Recorded(m, k, t, taken[k], given[k])
                      /\ WrittenTo(m, t) = IF m.second THEN Len(m.req.write) ELSE m.index
                      /\ ReadFrom(m, t) = IF m.second THEN m.index ELSE 0
<1>1. /\ BInv /\ Stands /\ m.busy /\ other = {} /\ Counted(m) /\ line["scl"]
      /\ m.index \in Nat /\ m.second \in BOOLEAN /\ m.rx \in BOOLEAN
  BY Levelled, CountedFacts DEF AtAction, InTransaction, Ending
<1>2. Reads(m, given)
  BY DEF AtAction, Ending, Starting
<1>3. ASSUME NEW k \in Targets
      PROVE  LET t == target[k]
             IN  /\ t.scl /\ ~t.deferred /\ ByteDone(m, k, t, m.index)
                 /\ Recorded(m, k, t, taken[k], given[k])
                 /\ WrittenTo(m, t) = IF m.second THEN Len(m.req.write) ELSE m.index
                 /\ ReadFrom(m, t) = IF m.second THEN m.index ELSE 0
  <2> DEFINE t == target[k]
  <2>1. t.scl /\ ~t.deferred
    BY <1>1, Levelled
  <2>2. ~Early(m, t)
    BY DEF Early
  <2>3. InByte(m, k, t, m.index, ByteBits, 1)
    BY <2>1, <2>2 DEF AtAction, Placed, InSlot, Slots, Starting
  <2>4. Recorded(m, k, t, taken[k], given[k])
    BY DEF AtAction, Ending, Starting
  <2>5. WrittenTo(m, t) = IF m.second THEN Len(m.req.write) ELSE m.index
    BY <1>1, <2>2 DEF WrittenTo, Slots
  <2>6. ReadFrom(m, t) = IF m.second THEN m.index ELSE 0
    BY <1>1, <2>1, <2>2 DEF ReadFrom
  <2> HIDE DEF t
  <2>7. k \notin CalledBy(m) => t.state = "WAIT"
    BY <2>3 DEF InByte
  <2>8. ASSUME k \in CalledBy(m), m.index = 0
        PROVE  t.nbits = ByteBits + 1 /\ t.state = "ADDR" /\ (t.shift[ByteBits] <=> m.second)
    <3>1. t.nbits = ByteBits + 1 /\ t.state = "ADDR" /\ Spells(m, t, ByteBits)
      BY <2>3, <2>8 DEF InByte
    <3>2. t.shift[ByteBits] = m.cur[ByteBits]
      BY <3>1 DEF Spells
    <3>3. m.cur[ByteBits] = m.second
      BY <1>1, <2>8 DEF Counted, AddressByte
    <3> QED BY <3>1, <3>2, <3>3
  <2>9. ASSUME k \in CalledBy(m), m.index > 0
        PROVE  /\ t.nbits = ByteBits + 1
               /\ ~m.second => t.state = "WRITE"
               /\ m.second => t.state = "READ" /\ (t.masterAck <=> m.index < m.req.nread)
    BY <1>1, <2>3, <2>9 DEF InByte
  <2>10. ByteDone(m, k, t, m.index)
    <3>1. m.index = 0 \/ m.index > 0
      BY <1>1
    <3> QED BY <2>1, <2>7, <2>8, <2>9, <3>1 DEF ByteDone, t
  <2> QED BY <2>1, <2>4, <2>5, <2>6, <2>10 DEF t
<1> QED BY <1>1, <1>2, <1>3

\* The next byte of the segment.
LEMMA ByteFollows ==
    ASSUME AtAction, m.phase = "BIT_SCL_LOW", m.bit = ByteBits, taken' = taken, given' = given,
           NEW n, m' = n, n.req = m.req, n.second = m.second, n.index = m.index + 1,
           n.phase = "BIT_SET", n.bit = 0, n.busy, ~n.done, ~n.held, SameData(n),
           Counted(n), Reads(n, given)
    PROVE  GoesOn(n)
<1>1. /\ BInv /\ Stands /\ m.busy /\ other = {} /\ m.index \in Nat /\ n.index > 0
      /\ n.index - 1 = m.index /\ m.second \in BOOLEAN
  BY ByteEndFacts
<1>2. Wires'
  BY <1>1, TakesClock, NextWires DEF Falls, Lows
<1>3. CalledBy(n) = CalledBy(m)
  BY DEF CalledBy
<1>4. ASSUME NEW k \in Targets
      PROVE  Placed(n, k, target[k]) /\ Recorded(n, k, target[k], taken[k], given[k])
  <2> DEFINE t == target[k]
  <2>1. /\ t.scl /\ ~t.deferred /\ ByteDone(m, k, t, m.index)
        /\ Recorded(m, k, t, taken[k], given[k])
        /\ WrittenTo(m, t) = IF m.second THEN Len(m.req.write) ELSE m.index
        /\ ReadFrom(m, t) = IF m.second THEN m.index ELSE 0
    BY ByteEndFacts
  <2> HIDE DEF t
  <2>2. Early(n, t)
    BY <2>1 DEF Early
  <2>3. ByteDone(n, k, t, n.index - 1)
    BY <1>1, <1>3, <2>1 DEF ByteDone
  <2>4. Placed(n, k, t)
    BY <1>1, <2>2, <2>3 DEF Placed, InSlot
  <2>5. WrittenTo(n, t) = WrittenTo(m, t) /\ ReadFrom(n, t) = ReadFrom(m, t)
    BY <1>1, <2>1, <2>2 DEF WrittenTo, ReadFrom
  <2>6. ReadFrom(n, t) # n.index
    BY <1>1, <2>1, <2>2, <2>5
  <2>7. Recorded(n, k, t, taken[k], given[k])
    BY <1>3, <2>1, <2>5, <2>6 DEF Recorded
  <2> QED BY <2>4, <2>7 DEF t
<1> QED BY <1>2, <1>4 DEF GoesOn, Ending

\* Where the bytes are over the targets leave SDA.
LEMMA BytesOver ==
    ASSUME AtAction, m.phase = "BIT_SCL_LOW", m.bit = ByteBits,
           \/ CalledBy(m) = {}
           \/ ~m.second
           \/ m.second /\ m.index > 0 /\ ~(m.index < m.req.nread)
    PROVE  \A k \in Targets : Leaving(target[k])
  BY ByteEndFacts DEF ByteDone, Leaving

\* The repeated START.
LEMMA RestartGoesOn ==
    ASSUME AtAction, m.phase = "BIT_SCL_LOW", m.bit = ByteBits, taken' = taken, given' = given,
           ~m.second, m.index = Len(m.req.write), m.req.hasWrite, CalledBy(m) # {},
           NEW n, m' = n, n.req = m.req, n.second = TRUE, n.index = 0, ~n.rx,
           n.phase = "RS_SDA_RELEASE", n.busy, ~n.done, ~n.held, SameData(n),
           n.acks = m.index, n.rbuf = m.rbuf, n.error = m.error, m.req.nread > 0,
           n.cur = AddressByte(m.req.addr, TRUE)
    PROVE  GoesOn(n)
<1>1. /\ BInv /\ Stands /\ m.busy /\ other = {} /\ m.index \in Nat /\ Counted(m)
  BY ByteEndFacts
<1>2. Wires'
  BY <1>1, TakesClock, NextWires DEF Falls, Lows
<1>3. CalledBy(n) = CalledBy(m)
  BY DEF CalledBy
<1>4. Len(n.rbuf) = 0 /\ n.error = "none"
  BY <1>1 DEF Counted
<1>5. Counted(n)
  <2>1. n.cur = AddressByte(n.req.addr, n.second)
    OBVIOUS
  <2>2. n.acks = Len(n.req.write) /\ n.req.nread > 0
    OBVIOUS
  <2>3. n.second
    OBVIOUS
  <2>4. /\ n.phase \notin Slots /\ n.phase \notin {"BIT_SCL_HIGH", "BIT_SAMPLE"}
        /\ ~(n.index > 0)
    BY DEF Slots
  <2> QED BY <1>4, <2>1, <2>2, <2>3, <2>4 DEF Counted
<1>6. ASSUME NEW k \in Targets
      PROVE  Placed(n, k, target[k]) /\ Recorded(n, k, target[k], taken[k], given[k])
  <2> DEFINE t == target[k]
  <2>1. /\ Recorded(m, k, t, taken[k], given[k])
        /\ WrittenTo(m, t) = m.index /\ ReadFrom(m, t) = 0 /\ Leaving(t)
    BY ByteEndFacts, BytesOver
  <2> HIDE DEF t
  <2>2. WrittenTo(n, t) = WrittenTo(m, t) /\ ReadFrom(n, t) = ReadFrom(m, t)
    BY <2>1 DEF WrittenTo, ReadFrom
  <2>3. Recorded(n, k, t, taken[k], given[k])
    BY <1>3, <2>1, <2>2 DEF Recorded
  <2>4. Placed(n, k, t)
    BY <2>1 DEF Placed, Slots
  <2> QED BY <2>3, <2>4 DEF t
<1>7. Reads(n, given)
  BY <1>3, <1>4, ReadsNone
<1> QED BY <1>2, <1>5, <1>6, <1>7 DEF GoesOn, Ending

\* The story of a transaction whose bytes were all acknowledged.
LEMMA GoodStory ==
    ASSUME AtAction, m.phase = "BIT_SCL_LOW", m.bit = ByteBits, CalledBy(m) # {},
           IF m.second THEN m.index = m.req.nread
                       ELSE m.index = Len(m.req.write) /\ m.req.nread = 0,
           NEW n, n.req = m.req, n.error = m.error, n.acks = Len(m.req.write),
           m.second => m.rx /\ n.rbuf = Append(m.rbuf, m.cur), ~m.second => n.rbuf = m.rbuf
    PROVE  Story(n, taken, given) /\ n.error = "none"
<1>1. /\ BInv /\ m.index \in Nat /\ m.second \in BOOLEAN /\ Counted(m) /\ Reads(m, given)
      /\ m.busy /\ m.phase \notin Ending
  BY ByteEndFacts DEF Ending
<1>2. /\ m.req.write \in Seq(Bytes) /\ Len(m.req.write) \in Nat /\ m.rbuf \in Seq(Bytes)
      /\ m.cur \in Bytes /\ m.req.nread \in Nat
  BY <1>1, CountedFacts
<1>3. CalledBy(n) = CalledBy(m) /\ \A gs, i, j : Together(n, gs, i, j) <=> Together(m, gs, i, j)
  BY DEF CalledBy, Together
<1>4. n.error = "none"
  BY <1>1 DEF Counted
<1>5. ASSUME NEW k \in Targets
      PROVE  /\ k \in CalledBy(m) => taken[k] = m.req.write /\ Len(given[k]) = m.req.nread
             /\ k \notin CalledBy(m) => taken[k] = <<>> /\ given[k] = <<>>
  <2>1. /\ Recorded(m, k, target[k], taken[k], given[k])
        /\ WrittenTo(m, target[k]) = Len(m.req.write) /\ ReadFrom(m, target[k]) = m.req.nread
    BY <1>1, ByteEndFacts
  <2>2. SubSeq(m.req.write, 1, Len(m.req.write)) = m.req.write
    BY <1>2, SubSeqProperties
  <2> QED BY <2>1, <2>2 DEF Recorded
<1>6. Len(n.rbuf) = m.req.nread
  <2>1. CASE m.second
    <3>1. Len(m.rbuf) = m.index - 1
      BY <1>1, <2>1 DEF Counted
    <3> QED BY <1>1, <1>2, <2>1, <3>1, AppendProperties
  <2>2. CASE ~m.second
    BY <1>1, <2>2 DEF Counted
  <2> QED BY <2>1, <2>2
<1>7. ASSUME NEW i \in 1..m.req.nread, NEW j \in 1..ByteBits
      PROVE  n.rbuf[i][j] <=> Together(m, given, i, j)
  <2>1. m.second /\ m.index = m.req.nread /\ m.rx /\ n.rbuf = Append(m.rbuf, m.cur)
    BY <1>2, <1>7
  <2>2. Len(m.rbuf) = m.index - 1 /\ m.index > 0
    BY <1>1, <2>1 DEF Counted
  <2>3. CASE i = m.index
    <3>1. n.rbuf[i] = m.cur
      BY <1>1, <1>2, <2>1, <2>2, <2>3, AppendProperties
    <3>2. m.cur[j] <=> Together(m, given, m.index, j)
      BY <1>1, <2>1 DEF Reads, SampledBits
    <3> QED BY <2>3, <3>1, <3>2
  <2>4. CASE i # m.index
    <3>1. i \in 1..Len(m.rbuf)
      BY <1>1, <2>1, <2>2, <2>4
    <3>2. n.rbuf[i] = m.rbuf[i]
      BY <1>2, <2>1, <3>1, AppendProperties
    <3> QED BY <1>1, <3>1, <3>2 DEF Reads
  <2> QED BY <2>3, <2>4
<1>8. CalledBy(m) \subseteq Targets
  BY DEF CalledBy
<1> QED BY <1>3, <1>4, <1>5, <1>6, <1>7, <1>8 DEF Story

\* Nobody answers the address.
LEMMA RefusedStory ==
    ASSUME AtAction, m.phase = "BIT_SCL_LOW", m.bit = ByteBits, CalledBy(m) = {},
           NEW n, n.req = m.req, n.error = "EIO", n.acks = m.acks, n.rbuf = m.rbuf
    PROVE  Story(n, taken, given) /\ m.index = 0
<1>1. /\ BInv /\ m.index \in Nat /\ m.second \in BOOLEAN /\ Counted(m) /\ Reads(m, given)
      /\ m.busy /\ m.phase \notin Ending
  BY ByteEndFacts DEF Ending
<1>2. m.index = 0 /\ ~Again(m)
  BY <1>1 DEF Reads
<1>3. CalledBy(n) = {}
  BY DEF CalledBy
<1>4. \A k \in Targets : taken[k] = <<>> /\ given[k] = <<>>
  BY ByteEndFacts DEF Recorded
<1>5. m.rbuf \in Seq(Bytes) /\ (~m.req.hasWrite => m.req.write = <<>>)
  BY <1>1, CountedFacts
<1>6. n.acks = 0
  BY <1>1, <1>2, <1>5, EmptySeq DEF Counted, Again
<1>7. n.rbuf = <<>>
  BY <1>1, <1>2, <1>5, EmptySeq DEF Counted
<1> QED BY <1>2, <1>3, <1>4, <1>6, <1>7 DEF Story, Nothing

\* The STOP comes.
LEMMA StopComes ==
    ASSUME AtAction, m.phase = "BIT_SCL_LOW", m.bit = ByteBits, taken' = taken, given' = given,
           \A k \in Targets : Leaving(target[k]),
           NEW n, m' = n, n.phase = "STOP_SDA_LOW", n.busy, ~n.done, ~n.held, SameData(n),
           Story(n, taken, given), n.error # "ETIMEDOUT"
    PROVE  GoesOn(n)
<1>1. BInv /\ Stands /\ m.busy /\ other = {}
  BY ByteEndFacts
<1>2. Wires'
  BY <1>1, TakesClock, NextWires DEF Falls, Lows
<1>3. \A k \in Targets : Placed(n, k, target[k])
  BY DEF Placed, Slots
<1> QED BY <1>2, <1>3 DEF GoesOn, Ending

\* Or the bus is kept.
LEMMA KeptEnds ==
    ASSUME AtAction, BInv', m.phase = "BIT_SCL_LOW", m.bit = ByteBits,
           taken' = taken, given' = given,
           \A k \in Targets : Leaving(target[k]),
           NEW n, m' = n, ~n.busy, n.held, SameData(n),
           Story(n, taken, given), n.error # "ETIMEDOUT"
    PROVE  IInv'
<1>1. BInv /\ Stands /\ m.busy /\ other = {}
  BY ByteEndFacts
<1>2. Wires'
  BY <1>1, TakesClock DEF Wires, Stands
<1> QED BY <1>1, <1>2 DEF IInv, Places, Counts, Books, Ends, Done, Stands

-----------------------------------------------------------------------------
(* The STOP.                                                                *)

LEMMA StopGoesOn ==
    ASSUME AtAction, Wires, taken' = taken, given' = given,
           NEW n, m' = n, Unmoved(n),
           \/ m.phase = "STOP_SDA_LOW" /\ n.phase = "STOP_SCL_RELEASE"
           \/ m.phase = "STOP_SCL_RELEASE" /\ n.phase = "STOP_SDA_RELEASE" /\ SameData(n)
    PROVE  GoesOn(n)
<1>1. BInv /\ Stands /\ m.busy /\ other = {} /\ ~line["scl"] /\ m.phase \in Ending /\ n.phase \in Ending
  BY Levelled DEF AtAction, InTransaction, Ending, Falls, Lows
<1>2. n.busy /\ ~n.done /\ ~n.held
  BY <1>1, MasterFacts DEF Unmoved
<1>3. Wires'
  BY <1>1, <1>2, KeepsClock, LeavesClock, NextWires DEF Falls, Lows
<1>4. ASSUME NEW k \in Targets PROVE Placed(n, k, target[k])
  <2>1. Placed(m, k, target[k]) /\ ~target[k].scl /\ ~target[k].deferred
    BY <1>1, Levelled DEF AtAction, Starting
  <2>2. ~target[k].low
    BY <2>1 DEF Placed, Leaving
  <2> QED BY <2>1, <2>2 DEF Placed, Slots
<1>5. Story(n, taken, given) /\ n.error # "ETIMEDOUT"
  BY <1>1, UnmovedStory DEF AtAction, Unmoved
<1> QED BY <1>1, <1>2, <1>3, <1>4, <1>5 DEF GoesOn

LEMMA StopSdaReleaseGoesOn ==
    ASSUME AtAction, m.phase = "STOP_SDA_RELEASE", taken' = taken, given' = given,
           NEW n, m' = n, Unmoved(n), n.phase = "FINISH"
    PROVE  GoesOn(n)
<1>1. /\ BInv /\ Stands /\ m.busy /\ other = {} /\ line["scl"] /\ ~line["sda"]
      /\ m.phase \in Ending /\ n.phase \in Ending
  BY Levelled DEF AtAction, InTransaction, Ending
<1>2. n.busy /\ ~n.done /\ ~n.held
  BY <1>1, MasterFacts DEF Unmoved
<1>3. Wires'
  BY <1>1, <1>2, LeavesData, NextWires DEF Falls, Lows
<1>4. ASSUME NEW k \in Targets PROVE Placed(n, k, target[k])
  <2>1. Placed(m, k, target[k]) /\ ~target[k].sda
    BY <1>1, Levelled DEF AtAction, Starting
  <2> QED BY <2>1 DEF Placed, Slots
<1>5. Story(n, taken, given) /\ n.error # "ETIMEDOUT"
  BY <1>1, UnmovedStory DEF AtAction, Unmoved
<1> QED BY <1>1, <1>2, <1>3, <1>4, <1>5 DEF GoesOn

LEMMA FinishEnds ==
    ASSUME AtAction, BInv', m.phase = "FINISH", taken' = taken, given' = given,
           NEW n, m' = n, ~n.busy, ~n.held, n.pulls = m.pulls, n.req = m.req,
           n.acks = m.acks, n.rbuf = m.rbuf, n.error = m.error
    PROVE  IInv'
<1>1. BInv /\ Stands /\ m.busy /\ other = {} /\ line["scl"] /\ m.phase \in Ending
  BY Levelled DEF AtAction, InTransaction, Ending
<1>2. "sda" \notin m.pulls
  BY <1>1, MasterFacts
<1>3. ASSUME NEW k \in Targets PROVE Placed(m, k, target[k]) /\ ~target[k].low
  BY DEF AtAction, Starting, Placed
<1>4. line["sda"]
  BY <1>2, <1>3, Levelled
<1>5. ASSUME NEW k \in Targets PROVE AtRest(target[k])
  <2>1. target[k].sda
    BY <1>4, Levelled
  <2> QED BY <1>3, <2>1 DEF Placed
<1>6. Story(m, taken, given) /\ m.error # "ETIMEDOUT"
  BY <1>1 DEF AtAction
<1>7. Story(n, taken, given)
  <2>1. CalledBy(n) = CalledBy(m) /\ (Nothing(n, taken, given) <=> Nothing(m, taken, given))
        /\ \A i, j : Together(n, given, i, j) <=> Together(m, given, i, j)
    BY DEF CalledBy, Nothing, Together
  <2> QED BY <1>6, <2>1 DEF Story
<1>8. line' = Wired' /\ Handled'
  <2>1. line' = line /\ target' = target /\ other' = other /\ line = Wired /\ Handled
    BY <1>1 DEF Stands, Settled
  <2>2. Wired' = Wired
    BY <2>1 DEF Wired
  <2>3. Handled'
    BY <2>1 DEF Handled, Seen
  <2> QED BY <2>1, <2>2, <2>3
<1> QED BY <1>1, <1>5, <1>6, <1>7, <1>8
        DEF IInv, Wires, Places, Counts, Books, Ends, Done, Stands

-----------------------------------------------------------------------------
(* What the end of a byte makes of the master.                              *)

\* What the choice of the next byte leaves alone.
Keeps(u, n) ==
    /\ u.req = n.req /\ u.acks = n.acks /\ u.rbuf = n.rbuf /\ u.error = n.error
    /\ u.pulls = n.pulls
Onward(u, n) == u.busy = n.busy /\ u.done = n.done /\ u.held = n.held

LEMMA EndFields ==
    ASSUME NEW n \in Masters
    PROVE  LET u == End(n)
           IN  /\ Keeps(u, n)
               /\ n.req.stop => u.phase = "STOP_SDA_LOW" /\ Onward(u, n)
               /\ ~n.req.stop => ~u.busy /\ u.held
<1> DEFINE u == End(n)
<1>1. CASE n.req.stop
  <2>1. u = [n EXCEPT !.phase = "STOP_SDA_LOW"]
    BY <1>1 DEF End, Then
  <2> HIDE DEF u
  <2>2. Keeps(u, n)
    BY <2>1 DEF Masters, Keeps
  <2>3. u.phase = "STOP_SDA_LOW" /\ Onward(u, n)
    BY <2>1 DEF Masters, Onward
  <2> QED BY <1>1, <2>2, <2>3 DEF u
<1>2. CASE ~n.req.stop
  <2> DEFINE v == [n EXCEPT !.held = TRUE]
  <2>1. u = Completed(v, "none")
    BY <1>2 DEF End
  <2>2. v \in Masters
    BY DEF Masters
  <2>3. v.held /\ Keeps(v, n)
    BY DEF Masters, Keeps
  <2> HIDE DEF u, v
  <2>4. ~u.busy /\ u.held = v.held /\ Keeps(u, v)
    BY <2>1, <2>2, CompletedFacts DEF Keeps
  <2> QED BY <1>2, <2>3, <2>4 DEF Keeps, u
<1> QED BY <1>1, <1>2

LEMMA LoadNextFields ==
    ASSUME NEW n \in Masters, n.second \/ n.req.hasWrite
    PROVE  LET u == LoadNext(n)
           IN  /\ ~n.second /\ n.index < Len(n.req.write) =>
                      /\ u.phase = "BIT_SET" /\ u.bit = 0 /\ u.index = n.index + 1
                      /\ u.second = n.second /\ ~u.rx /\ u.cur = n.req.write[n.index + 1]
                      /\ Keeps(u, n) /\ Onward(u, n)
               /\ ~n.second /\ ~(n.index < Len(n.req.write)) /\ n.req.nread > 0 =>
                      /\ u.phase = "RS_SDA_RELEASE" /\ u.second = TRUE /\ u.index = 0 /\ ~u.rx
                      /\ u.cur = AddressByte(n.req.addr, TRUE) /\ Keeps(u, n) /\ Onward(u, n)
               /\ n.second /\ n.index < n.req.nread =>
                      /\ u.phase = "BIT_SET" /\ u.bit = 0 /\ u.index = n.index + 1
                      /\ u.second = n.second /\ u.rx /\ Keeps(u, n) /\ Onward(u, n)
               /\ \/ ~n.second /\ ~(n.index < Len(n.req.write)) /\ ~(n.req.nread > 0)
                  \/ n.second /\ ~(n.index < n.req.nread)
                  => /\ Keeps(u, n)
                     /\ n.req.stop => u.phase = "STOP_SDA_LOW" /\ Onward(u, n)
                     /\ ~n.req.stop => ~u.busy /\ u.held
<1> DEFINE r == [n EXCEPT !.bit = 0, !.index = n.index + 1]
           writing == ~n.second /\ n.req.hasWrite
           u == LoadNext(n)
<1>1. /\ n.req \in Requests /\ n.index \in Nat /\ n.second \in BOOLEAN
      /\ n.req.nread \in Nat /\ Len(n.req.write) \in Nat /\ n.req.hasWrite \in BOOLEAN
  BY RequestFacts DEF Masters
<1>2. r \in Masters /\ r.bit = 0 /\ r.index = n.index + 1 /\ r.second = n.second
      /\ Keeps(r, n) /\ Onward(r, n)
  <2>1. 0 \in 0..ByteBits /\ n.index + 1 \in Nat
    BY <1>1
  <2>2. r \in Masters /\ r.bit = 0 /\ r.index = n.index + 1 /\ r.second = n.second
    BY <2>1 DEF Masters
  <2> QED BY <2>2 DEF Masters, Keeps, Onward
<1>3. u = CASE writing /\ r.index <= Len(n.req.write) ->
                 Then([r EXCEPT !.cur = n.req.write[r.index], !.rx = FALSE], "BIT_SET")
            [] writing /\ r.index > Len(n.req.write) /\ n.req.nread > 0 ->
                 Then([r EXCEPT !.second = TRUE, !.index = 0, !.rx = FALSE,
                                !.cur = AddressByte(n.req.addr, TRUE)], "RS_SDA_RELEASE")
            [] ~writing /\ r.index <= n.req.nread ->
                 Then([r EXCEPT !.cur = Zero, !.rx = TRUE], "BIT_SET")
            [] OTHER -> End(r)
  BY DEF LoadNext
<1> HIDE DEF r, u
<1>4. writing <=> ~n.second
  BY <1>1
<1>5. /\ r.index <= Len(n.req.write) <=> n.index < Len(n.req.write)
      /\ r.index > Len(n.req.write) <=> ~(n.index < Len(n.req.write))
      /\ r.index <= n.req.nread <=> n.index < n.req.nread
  BY <1>1, <1>2
<1> HIDE DEF writing
<1>6. ASSUME ~n.second, n.index < Len(n.req.write)
      PROVE  /\ u.phase = "BIT_SET" /\ u.bit = 0 /\ u.index = n.index + 1
             /\ u.second = n.second /\ ~u.rx /\ u.cur = n.req.write[n.index + 1]
             /\ Keeps(u, n) /\ Onward(u, n)
  <2> DEFINE x == n.req.write[r.index]
  <2>1. u = Then([r EXCEPT !.cur = x, !.rx = FALSE], "BIT_SET")
    BY <1>3, <1>4, <1>5, <1>6
  <2>2. x = n.req.write[n.index + 1]
    BY <1>2
  <2> HIDE DEF x
  <2>3. u = [r EXCEPT !.cur = x, !.rx = FALSE, !.phase = "BIT_SET"]
    BY <1>2, <2>1 DEF Then, Masters
  <2>4. u.phase = "BIT_SET" /\ u.bit = r.bit /\ u.index = r.index /\ u.second = r.second
        /\ ~u.rx /\ u.cur = x
    BY <1>2, <2>3 DEF Masters
  <2>5. Keeps(u, r) /\ Onward(u, r)
    BY <1>2, <2>3 DEF Masters, Keeps, Onward
  <2> QED BY <1>2, <2>2, <2>4, <2>5 DEF Keeps, Onward
<1>7. ASSUME ~n.second, ~(n.index < Len(n.req.write)), n.req.nread > 0
      PROVE  /\ u.phase = "RS_SDA_RELEASE" /\ u.second = TRUE /\ u.index = 0 /\ ~u.rx
             /\ u.cur = AddressByte(n.req.addr, TRUE) /\ Keeps(u, n) /\ Onward(u, n)
  <2> DEFINE x == AddressByte(n.req.addr, TRUE)
  <2>1. u = Then([r EXCEPT !.second = TRUE, !.index = 0, !.rx = FALSE, !.cur = x],
                 "RS_SDA_RELEASE")
    BY <1>3, <1>4, <1>5, <1>7
  <2> HIDE DEF x
  <2>3. u = [r EXCEPT !.second = TRUE, !.index = 0, !.rx = FALSE, !.cur = x,
                      !.phase = "RS_SDA_RELEASE"]
    BY <1>2, <2>1 DEF Then, Masters
  <2>4. u.phase = "RS_SDA_RELEASE" /\ u.second = TRUE /\ u.index = 0 /\ ~u.rx /\ u.cur = x
    BY <1>2, <2>3 DEF Masters
  <2>5. Keeps(u, r) /\ Onward(u, r)
    BY <1>2, <2>3 DEF Masters, Keeps, Onward
  <2> QED BY <1>2, <2>4, <2>5 DEF Keeps, Onward, x
<1>8. ASSUME n.second, n.index < n.req.nread
      PROVE  /\ u.phase = "BIT_SET" /\ u.bit = 0 /\ u.index = n.index + 1
             /\ u.second = n.second /\ u.rx /\ Keeps(u, n) /\ Onward(u, n)
  <2>1. u = Then([r EXCEPT !.cur = Zero, !.rx = TRUE], "BIT_SET")
    BY <1>3, <1>4, <1>5, <1>8
  <2>3. u = [r EXCEPT !.cur = Zero, !.rx = TRUE, !.phase = "BIT_SET"]
    BY <1>2, <2>1 DEF Then, Masters
  <2>4. u.phase = "BIT_SET" /\ u.bit = r.bit /\ u.index = r.index /\ u.second = r.second /\ u.rx
    BY <1>2, <2>3 DEF Masters
  <2>5. Keeps(u, r) /\ Onward(u, r)
    BY <1>2, <2>3 DEF Masters, Keeps, Onward
  <2> QED BY <1>2, <2>4, <2>5 DEF Keeps, Onward
<1>9. ASSUME \/ ~n.second /\ ~(n.index < Len(n.req.write)) /\ ~(n.req.nread > 0)
             \/ n.second /\ ~(n.index < n.req.nread)
      PROVE  /\ Keeps(u, n)
             /\ n.req.stop => u.phase = "STOP_SDA_LOW" /\ Onward(u, n)
             /\ ~n.req.stop => ~u.busy /\ u.held
  <2>1. u = End(r)
    BY <1>3, <1>4, <1>5, <1>9
  <2>2. /\ Keeps(u, r)
        /\ r.req.stop => u.phase = "STOP_SDA_LOW" /\ Onward(u, r)
        /\ ~r.req.stop => ~u.busy /\ u.held
    BY <1>2, <2>1, EndFields
  <2> QED BY <1>2, <2>2 DEF Keeps, Onward
<1> QED BY <1>6, <1>7, <1>8, <1>9 DEF u

\* The master that a byte over leaves to the choice of the next one.
LEMMA ByteOverFields ==
    ASSUME m \in Masters
    PROVE  LET d == Drive("scl", TRUE)
               u == ByteOver(d)
           IN  /\ m.rx => \E v \in Masters :
                      /\ u = LoadNext(v) /\ v.req = m.req /\ v.second = m.second
                      /\ v.index = m.index /\ Onward(v, m) /\ v.error = m.error
                      /\ v.pulls = m.pulls \cup {"scl"}
                      /\ v.rbuf = Append(m.rbuf, m.cur) /\ v.acks = m.acks
               /\ ~m.rx /\ ~m.ack =>
                      /\ u.req = m.req /\ Onward(u, m) /\ u.phase = "STOP_SDA_LOW"
                      /\ u.pulls = m.pulls \cup {"scl"}
                      /\ u.rbuf = m.rbuf /\ u.acks = m.acks
                      /\ u.error = IF m.index = 0 THEN "EIO" ELSE m.error
               /\ ~m.rx /\ m.ack => \E v \in Masters :
                      /\ u = LoadNext(v) /\ v.req = m.req /\ v.second = m.second
                      /\ v.index = m.index /\ Onward(v, m) /\ v.error = m.error
                      /\ v.pulls = m.pulls \cup {"scl"}
                      /\ v.rbuf = m.rbuf
                      /\ v.acks = IF m.index > 0 THEN m.acks + 1 ELSE m.acks
<1> DEFINE d == Drive("scl", TRUE)
<1>1. d = [m EXCEPT !.pulls = m.pulls \cup {"scl"}]
  BY DEF Drive, Masters
<1>2. d \in Masters /\ d.pulls = m.pulls \cup {"scl"}
  BY <1>1, PullSets DEF Masters
<1>3. /\ d.req = m.req /\ d.second = m.second /\ d.index = m.index /\ d.rx = m.rx
      /\ d.acks = m.acks /\ d.rbuf = m.rbuf /\ d.error = m.error
      /\ d.cur = m.cur /\ d.ack = m.ack
  BY <1>1 DEF Masters
<1>4. Onward(d, m)
  BY <1>1 DEF Masters, Onward
<1> HIDE DEF d
<1>5. CASE m.rx
  <2> DEFINE v == [d EXCEPT !.rbuf = Append(d.rbuf, d.cur)]
  <2>1. ByteOver(d) = LoadNext(v)
    BY <1>2, <1>3, <1>5 DEF ByteOver, Masters
  <2>2. d.rbuf \in Seq(Bytes) /\ d.cur \in Bytes
    BY <1>2 DEF Masters
  <2>3. Append(d.rbuf, d.cur) \in Seq(Bytes)
    BY <2>2, AppendProperties
  <2>4. v \in Masters /\ v.rbuf = Append(d.rbuf, d.cur) /\ v.acks = d.acks
        /\ v.req = d.req /\ v.second = d.second
    BY <1>2, <2>3 DEF Masters
  <2>5. v.index = d.index /\ Onward(v, d) /\ v.error = d.error /\ v.pulls = d.pulls
    BY <1>2, <2>3 DEF Masters, Onward
  <2> HIDE DEF v
  <2>6. Onward(v, m)
    BY <1>4, <2>5 DEF Onward
  <2> QED BY <1>2, <1>3, <1>5, <2>1, <2>4, <2>5, <2>6 DEF d
<1>6. CASE ~m.rx /\ ~m.ack
  <2> DEFINE e == IF d.index = 0 THEN "EIO" ELSE d.error
             u == ByteOver(d)
  <2>1. u = [d EXCEPT !.error = e, !.phase = "STOP_SDA_LOW"]
    BY <1>2, <1>3, <1>6 DEF ByteOver, Then, Masters
  <2>2. e = IF m.index = 0 THEN "EIO" ELSE m.error
    BY <1>3
  <2> HIDE DEF e, u
  <2>3. u.req = d.req /\ u.phase = "STOP_SDA_LOW" /\ u.pulls = d.pulls /\ u.rbuf = d.rbuf
        /\ u.acks = d.acks /\ u.error = e
    BY <1>2, <2>1 DEF Masters
  <2>4. Onward(u, d)
    BY <1>2, <2>1 DEF Masters, Onward
  <2>5. Onward(u, m)
    BY <1>4, <2>4 DEF Onward
  <2> QED BY <1>2, <1>3, <1>6, <2>2, <2>3, <2>5 DEF u, d
<1>7. CASE ~m.rx /\ m.ack
  <2> DEFINE a == IF d.index > 0 THEN d.acks + 1 ELSE d.acks
             v == [d EXCEPT !.acks = a]
  <2>1. ByteOver(d) = LoadNext(v)
    BY <1>2, <1>3, <1>7 DEF ByteOver, Masters
  <2>2. a \in Nat
    BY <1>2 DEF Masters
  <2>3. a = IF m.index > 0 THEN m.acks + 1 ELSE m.acks
    BY <1>3
  <2> HIDE DEF a
  <2>4. v \in Masters /\ v.rbuf = d.rbuf /\ v.acks = a
        /\ v.req = d.req /\ v.second = d.second
    BY <1>2, <2>2 DEF Masters
  <2>5. v.index = d.index /\ Onward(v, d) /\ v.error = d.error /\ v.pulls = d.pulls
    BY <1>2, <2>2 DEF Masters, Onward
  <2> HIDE DEF v
  <2>6. Onward(v, m)
    BY <1>4, <2>5 DEF Onward
  <2> QED BY <1>2, <1>3, <1>7, <2>1, <2>3, <2>4, <2>5, <2>6 DEF d
<1>8. m.rx \in BOOLEAN /\ m.ack \in BOOLEAN
  BY DEF Masters
<1> QED BY <1>5, <1>6, <1>7, <1>8

LEMMA GoneOn == ASSUME AtAction, BInv', NEW n, m' = n, GoesOn(n) PROVE IInv'
  BY GoesOnSuffices DEF AtAction, InTransaction

\* The end of the bytes, with the story of a good transaction.
LEMMA EndKeeps ==
    ASSUME AtAction, BInv', m.phase = "BIT_SCL_LOW", m.bit = ByteBits,
           taken' = taken, given' = given,
           \A k \in Targets : Leaving(target[k]),
           NEW n, m' = n, SameData(n), Story(n, taken, given), n.error = "none",
           m.req.stop => n.phase = "STOP_SDA_LOW" /\ Onward(n, m),
           ~m.req.stop => ~n.busy /\ n.held
    PROVE  IInv'
<1>1. CASE m.req.stop
  <2>1. n.busy /\ ~n.done /\ ~n.held
    BY <1>1, MasterFacts DEF Onward, AtAction, InTransaction
  <2> QED BY <1>1, <2>1, StopComes, GoneOn
<1>2. CASE ~m.req.stop
  BY <1>2, KeptEnds
<1> QED BY <1>1, <1>2

\* A byte read is over.
LEMMA ByteReadKeeps ==
    ASSUME AtAction, BInv', m.phase = "BIT_SCL_LOW", m.bit = ByteBits, m.rx,
           taken' = taken, given' = given, m' = ByteOver(Drive("scl", TRUE))
    PROVE  IInv'
<1>1. /\ BInv /\ m.busy /\ Counted(m) /\ Reads(m, given) /\ m \in Masters
      /\ m.index \in Nat /\ m.second /\ m.index > 0 /\ m.phase \notin Ending
  BY ByteEndFacts, MasterFacts DEF Counted, Ending
<1>2. /\ m.index <= m.req.nread /\ m.req.nread \in Nat /\ m.rbuf \in Seq(Bytes) /\ m.cur \in Bytes
      /\ Len(m.req.write) \in Nat
  BY <1>1, CountedFacts DEF Segment
<1>3. PICK v \in Masters :
          /\ m' = LoadNext(v) /\ v.req = m.req /\ v.second = m.second
          /\ v.index = m.index /\ Onward(v, m) /\ v.error = m.error
          /\ v.pulls = m.pulls \cup {"scl"}
          /\ v.rbuf = Append(m.rbuf, m.cur) /\ v.acks = m.acks
  BY <1>1, ByteOverFields
<1> DEFINE n == LoadNext(v)
<1>4. m' = n
  BY <1>3
<1>5. Append(m.rbuf, m.cur) \in Seq(Bytes) /\ Len(Append(m.rbuf, m.cur)) = m.index
  <2>1. Len(m.rbuf) = m.index - 1
    BY <1>1 DEF Counted
  <2> QED BY <1>1, <1>2, <2>1, AppendProperties
<1>6. CASE m.index < m.req.nread
  <2>1. /\ n.phase = "BIT_SET" /\ n.bit = 0 /\ n.index = m.index + 1 /\ n.second = m.second
        /\ n.rx /\ Keeps(n, v) /\ Onward(n, v)
    BY <1>1, <1>3, <1>6, LoadNextFields
  <2> HIDE DEF n
  <2>2. /\ n.busy /\ ~n.done /\ ~n.held /\ n.req = m.req /\ n.acks = m.acks /\ n.error = m.error
        /\ n.rbuf = Append(m.rbuf, m.cur) /\ SameData(n)
    BY <1>1, <1>3, <2>1, MasterFacts DEF Keeps, Onward, SameData
  <2>3. Counted(n)
    <3>1. n.index > 0 /\ n.index - 1 = m.index /\ n.index # 0
      BY <1>1, <2>1
    <3>2. n.error = "none" /\ n.acks = Len(n.req.write) /\ n.req.nread > 0
      BY <1>1, <2>2 DEF Counted
    <3> QED BY <1>1, <1>5, <2>1, <2>2, <3>1, <3>2 DEF Counted, Slots
  <2>4. Reads(n, given)
    <3>1. CalledBy(n) = CalledBy(m) /\ CalledBy(m) # {}
          /\ \A i, j : Together(n, given, i, j) <=> Together(m, given, i, j)
      BY <1>1, <2>2 DEF Reads, CalledBy, Together
    <3>2. ASSUME NEW i \in 1..Len(n.rbuf), NEW j \in 1..ByteBits
          PROVE  n.rbuf[i][j] <=> Together(m, given, i, j)
      <4>1. CASE i = m.index
        <5>1. Len(m.rbuf) + 1 = m.index
          BY <1>1, <1>2 DEF Counted
        <5>2. n.rbuf[i] = m.cur
          BY <1>2, <2>2, <4>1, <5>1, AppendProperties
        <5> QED BY <1>1, <4>1, <5>2 DEF Reads, SampledBits
      <4>2. CASE i # m.index
        <5>1. i \in 1..Len(m.rbuf)
          BY <1>1, <1>2, <1>5, <2>2, <4>2 DEF Counted
        <5>2. n.rbuf[i] = m.rbuf[i]
          BY <1>2, <2>2, <5>1, AppendProperties
        <5> QED BY <1>1, <5>1, <5>2 DEF Reads
      <4> QED BY <4>1, <4>2
    <3>3. SampledBits(n) = 0
      BY <2>1 DEF SampledBits
    <3> QED BY <2>1, <3>1, <3>2, <3>3 DEF Reads
  <2>5. GoesOn(n)
    BY <1>4, <2>1, <2>2, <2>3, <2>4, ByteFollows
  <2> QED BY <1>4, <2>5, GoneOn
<1>7. CASE ~(m.index < m.req.nread)
  <2>1. m.index = m.req.nread
    BY <1>1, <1>2, <1>7
  <2>2. /\ Keeps(n, v)
        /\ v.req.stop => n.phase = "STOP_SDA_LOW" /\ Onward(n, v)
        /\ ~v.req.stop => ~n.busy /\ n.held
    BY <1>1, <1>3, <1>7, LoadNextFields
  <2> HIDE DEF n
  <2>3. /\ n.req = m.req /\ n.acks = m.acks /\ n.error = m.error
        /\ n.rbuf = Append(m.rbuf, m.cur) /\ SameData(n)
        /\ m.req.stop => n.phase = "STOP_SDA_LOW" /\ Onward(n, m)
        /\ ~m.req.stop => ~n.busy /\ n.held
    BY <1>3, <2>2 DEF Keeps, Onward, SameData
  <2>4. CalledBy(m) # {} /\ m.acks = Len(m.req.write)
    BY <1>1 DEF Reads, Counted
  <2>5. Story(n, taken, given) /\ n.error = "none"
    BY <1>1, <2>1, <2>3, <2>4, GoodStory
  <2>6. \A k \in Targets : Leaving(target[k])
    BY <1>1, <1>7, BytesOver
  <2> QED BY <1>4, <2>3, <2>5, <2>6, EndKeeps
<1> QED BY <1>6, <1>7

\* A byte that nobody acknowledged is over.
LEMMA ByteRefusedKeeps ==
    ASSUME AtAction, BInv', m.phase = "BIT_SCL_LOW", m.bit = ByteBits, ~m.rx, ~m.ack,
           taken' = taken, given' = given, m' = ByteOver(Drive("scl", TRUE))
    PROVE  IInv'
<1>1. BInv /\ m.busy /\ Reads(m, given) /\ m \in Masters
  BY ByteEndFacts, MasterFacts
<1>2. CalledBy(m) = {}
  BY <1>1 DEF Reads
<1> DEFINE n == ByteOver(Drive("scl", TRUE))
<1>3. /\ n.req = m.req /\ Onward(n, m) /\ n.phase = "STOP_SDA_LOW"
      /\ n.pulls = m.pulls \cup {"scl"} /\ n.rbuf = m.rbuf /\ n.acks = m.acks
      /\ n.error = IF m.index = 0 THEN "EIO" ELSE m.error
  BY <1>1, ByteOverFields
<1>4. m' = n
  OBVIOUS
<1> HIDE DEF n
<1>5. m.index = 0
  <2> DEFINE u == [n EXCEPT !.error = "EIO"]
  <2>1. m.index \in Nat /\ (m.index > 0 => CalledBy(m) # {})
    BY ByteEndFacts DEF Reads
  <2> QED BY <1>2, <2>1
<1>6. Story(n, taken, given) /\ n.error # "ETIMEDOUT"
  BY <1>2, <1>3, <1>5, RefusedStory
<1>7. n.busy /\ ~n.done /\ ~n.held /\ SameData(n)
  BY <1>1, <1>3, MasterFacts DEF Onward, SameData
<1>8. \A k \in Targets : Leaving(target[k])
  BY <1>2, BytesOver
<1>9. GoesOn(n)
  BY <1>3, <1>4, <1>6, <1>7, <1>8, StopComes
<1> QED BY <1>4, <1>9, GoneOn

\* The address or a byte written is over, and was acknowledged.
LEMMA ByteWrittenKeeps ==
    ASSUME AtAction, BInv', m.phase = "BIT_SCL_LOW", m.bit = ByteBits, ~m.rx, m.ack,
           taken' = taken, given' = given, m' = ByteOver(Drive("scl", TRUE))
    PROVE  IInv'
<1>1. /\ BInv /\ m.busy /\ Counted(m) /\ Reads(m, given) /\ m \in Masters
      /\ m.index \in Nat /\ m.phase \notin Ending /\ m.second \in BOOLEAN
  BY ByteEndFacts, MasterFacts DEF Ending
<1>2. CalledBy(m) # {}
  BY <1>1 DEF Reads
<1>3. /\ m.req.nread \in Nat /\ Len(m.req.write) \in Nat /\ m.req.write \in Seq(Bytes)
      /\ m.acks \in Nat /\ (m.second \/ m.req.hasWrite) /\ m.index <= Segment(m)
  BY <1>1, CountedFacts
<1>4. PICK v \in Masters :
          /\ m' = LoadNext(v) /\ v.req = m.req /\ v.second = m.second
          /\ v.index = m.index /\ Onward(v, m) /\ v.error = m.error
          /\ v.pulls = m.pulls \cup {"scl"}
          /\ v.rbuf = m.rbuf /\ v.acks = IF m.index > 0 THEN m.acks + 1 ELSE m.acks
  BY <1>1, ByteOverFields
<1>5. v.acks = IF m.second THEN Len(m.req.write) ELSE m.index
  BY <1>1, <1>3, <1>4 DEF Counted
<1>6. Len(m.rbuf) = 0 /\ (m.second => m.index = 0) /\ m.error = "none"
  BY <1>1 DEF Counted
<1>7. v.second \/ v.req.hasWrite
  BY <1>3, <1>4
<1>8. ASSUME NEW n, n.req = m.req, NEW gs
      PROVE  /\ CalledBy(n) = CalledBy(m)
             /\ \A i, j : Together(n, gs, i, j) <=> Together(m, gs, i, j)
  BY <1>8 DEF CalledBy, Together
<1> DEFINE n == LoadNext(v)
<1>9. m' = n
  BY <1>4
<1>10. CASE ~m.second /\ m.index < Len(m.req.write)
  <2>1. /\ n.phase = "BIT_SET" /\ n.bit = 0 /\ n.index = m.index + 1 /\ n.second = m.second
        /\ ~n.rx /\ n.cur = m.req.write[m.index + 1] /\ Keeps(n, v) /\ Onward(n, v)
    BY <1>4, <1>7, <1>10, LoadNextFields
  <2> HIDE DEF n
  <2>2. /\ n.busy /\ ~n.done /\ ~n.held /\ n.req = m.req /\ n.acks = m.index
        /\ n.error = m.error /\ n.rbuf = m.rbuf /\ SameData(n)
    BY <1>1, <1>4, <1>5, <1>10, <2>1, MasterFacts DEF Keeps, Onward, SameData
  <2>3. n.index > 0 /\ n.index - 1 = m.index /\ n.index # 0
    BY <1>1, <2>1
  <2>4. Counted(n)
    BY <1>6, <1>10, <2>1, <2>2, <2>3 DEF Counted, Slots
  <2>5. Reads(n, given)
    <3>1. CalledBy(n) # {}
      BY <1>2, <1>8, <2>2
    <3>2. 1..Len(n.rbuf) = {}
      BY <1>6, <2>2
    <3> QED BY <2>1, <3>1, <3>2 DEF Reads
  <2>6. GoesOn(n)
    BY <1>9, <2>1, <2>2, <2>4, <2>5, ByteFollows
  <2> QED BY <1>9, <2>6, GoneOn
<1>11. CASE m.second
  <2>1. m.index < m.req.nread /\ m.index = 0
    BY <1>1, <1>6, <1>11 DEF Counted
  <2>2. /\ n.phase = "BIT_SET" /\ n.bit = 0 /\ n.index = m.index + 1 /\ n.second = m.second
        /\ n.rx /\ Keeps(n, v) /\ Onward(n, v)
    BY <1>4, <1>7, <1>11, <2>1, LoadNextFields
  <2> HIDE DEF n
  <2>3. /\ n.busy /\ ~n.done /\ ~n.held /\ n.req = m.req /\ n.acks = Len(m.req.write)
        /\ n.error = m.error /\ n.rbuf = m.rbuf /\ SameData(n)
    BY <1>1, <1>4, <1>5, <1>11, <2>2, MasterFacts DEF Keeps, Onward, SameData
  <2>4. n.index = 1
    BY <2>1, <2>2
  <2>5. Counted(n)
    <3>1. n.req.nread > 0
      BY <1>3, <2>1, <2>3
    <3>2. n.second /\ n.acks = Len(n.req.write) /\ n.error = "none" /\ Len(n.rbuf) = 0
      BY <1>6, <1>11, <2>2, <2>3
    <3>3. n.index > 0 /\ n.index # 0 /\ n.index - 1 = 0
      BY <2>4
    <3> QED BY <2>2, <3>1, <3>2, <3>3 DEF Counted, Slots
  <2>6. Reads(n, given)
    <3>1. CalledBy(n) # {}
      BY <1>2, <1>8, <2>3
    <3>2. 1..Len(n.rbuf) = {} /\ SampledBits(n) = 0
      BY <1>6, <2>2, <2>3 DEF SampledBits
    <3>3. 1..SampledBits(n) = {}
      BY <3>2
    <3> QED BY <2>2, <3>1, <3>2, <3>3 DEF Reads
  <2>7. GoesOn(n)
    BY <1>9, <2>2, <2>3, <2>5, <2>6, ByteFollows
  <2> QED BY <1>9, <2>7, GoneOn
<1>12. CASE ~m.second /\ ~(m.index < Len(m.req.write)) /\ m.req.nread > 0
  <2>1. m.index = Len(m.req.write)
    BY <1>1, <1>3, <1>12 DEF Segment
  <2>2. /\ n.phase = "RS_SDA_RELEASE" /\ n.second = TRUE /\ n.index = 0 /\ ~n.rx
        /\ n.cur = AddressByte(m.req.addr, TRUE) /\ Keeps(n, v) /\ Onward(n, v)
    BY <1>4, <1>7, <1>12, LoadNextFields
  <2> HIDE DEF n
  <2>3. /\ n.busy /\ ~n.done /\ ~n.held /\ n.req = m.req /\ n.acks = m.index
        /\ n.error = m.error /\ n.rbuf = m.rbuf /\ SameData(n)
    BY <1>1, <1>4, <1>5, <1>12, <2>2, MasterFacts DEF Keeps, Onward, SameData
  <2>4. m.req.hasWrite
    BY <1>3, <1>12
  <2>5. GoesOn(n)
    BY <1>2, <1>9, <1>12, <2>1, <2>2, <2>3, <2>4, RestartGoesOn
  <2> QED BY <1>9, <2>5, GoneOn
<1>13. CASE ~m.second /\ ~(m.index < Len(m.req.write)) /\ ~(m.req.nread > 0)
  <2>1. m.index = Len(m.req.write) /\ m.req.nread = 0
    BY <1>1, <1>3, <1>13 DEF Segment
  <2>2. /\ Keeps(n, v)
        /\ v.req.stop => n.phase = "STOP_SDA_LOW" /\ Onward(n, v)
        /\ ~v.req.stop => ~n.busy /\ n.held
    BY <1>4, <1>7, <1>13, LoadNextFields
  <2> HIDE DEF n
  <2>3. /\ n.req = m.req /\ n.acks = Len(m.req.write) /\ n.error = m.error
        /\ n.rbuf = m.rbuf /\ SameData(n)
        /\ m.req.stop => n.phase = "STOP_SDA_LOW" /\ Onward(n, m)
        /\ ~m.req.stop => ~n.busy /\ n.held
    BY <1>4, <1>5, <1>13, <2>1, <2>2 DEF Keeps, Onward, SameData
  <2>4. Story(n, taken, given) /\ n.error = "none"
    BY <1>2, <1>13, <2>1, <2>3, GoodStory
  <2>5. \A k \in Targets : Leaving(target[k])
    BY <1>13, BytesOver
  <2> QED BY <1>9, <2>3, <2>4, <2>5, EndKeeps
<1> QED BY <1>1, <1>10, <1>11, <1>12, <1>13

LEMMA CleanStep ==
    ASSUME IInv, Master, clean
    PROVE  IInv'
<1>1. AtAction /\ BInv /\ BInv' /\ Wires /\ m \in Masters /\ m.busy
  BY ActionPlace, MasterStands, MasterFacts DEF IInv
<1>2. ASSUME NEW S \in SUBSET Lines, NEW p \in Phases,
             m' = [m EXCEPT !.pulls = S, !.phase = p]
      PROVE  m'.phase = p /\ Unmoved(m') /\ m'.pulls = S
  <2> DEFINE n == m'
  <2>1. n = [m EXCEPT !.pulls = S, !.phase = p]
    BY <1>2
  <2> HIDE DEF n
  <2>2. n.phase = p /\ n.pulls = S
    BY <1>1, <2>1 DEF Masters
  <2>3. /\ n.req = m.req /\ n.second = m.second /\ n.index = m.index /\ n.rx = m.rx
        /\ n.acks = m.acks /\ n.rbuf = m.rbuf /\ n.error = m.error
    BY <1>1, <2>1 DEF Masters
  <2>4. /\ n.bit = m.bit /\ n.cur = m.cur /\ n.ack = m.ack
        /\ n.busy = m.busy /\ n.done = m.done /\ n.held = m.held /\ n.configured = m.configured
    BY <1>1, <2>1 DEF Masters
  <2> QED BY <2>2, <2>3, <2>4 DEF Unmoved, n
<1>3. {"START_SCL_LOW", "RS_SCL_RELEASE", "START_CHECK", "BIT_SCL_HIGH", "BIT_SAMPLE", "FINISH",
       "STOP_SCL_RELEASE", "STOP_SDA_RELEASE", "BIT_SET", "BIT_SCL_LOW"} \subseteq Phases
  BY PhaseNames
<1>4. /\ m.pulls \cup {"sda"} \in SUBSET Lines /\ m.pulls \ {"sda"} \in SUBSET Lines
      /\ m.pulls \cup {"scl"} \in SUBSET Lines /\ m.pulls \ {"scl"} \in SUBSET Lines
  BY <1>1, PullSets
<1>5. m.busy /\ m.configured /\ ~m.held /\ ~m.done
  BY <1>1, MasterFacts
<1>6. CASE Act("START_CHECK", StartCheck)
  <2>1. m.phase = "START_CHECK" /\ m' = StartCheck
        /\ IF m.second = ~m.req.hasWrite
           THEN taken' = [k \in Targets |-> <<>>] /\ given' = [k \in Targets |-> <<>>]
           ELSE taken' = taken /\ given' = given
    BY <1>6 DEF Act
  <2>2. (m.second = ~m.req.hasWrite) <=> ~Again(m)
    <3>1. Counted(m) /\ m.phase \notin Ending
      BY <1>1, <2>1 DEF AtAction, InTransaction, Ending
    <3>2. m.second \in BOOLEAN /\ m.req.hasWrite \in BOOLEAN /\ (m.second \/ m.req.hasWrite)
      BY <1>1, <1>5, <3>1, CountedFacts
    <3> QED BY <3>2 DEF Again
  <2>3. IF ~Again(m) THEN taken' = [k \in Targets |-> <<>>] /\ given' = [k \in Targets |-> <<>>]
                     ELSE taken' = taken /\ given' = given
    BY <2>1, <2>2
  <2>4. CASE line["scl"] /\ line["sda"]
    <3>1. m' = [m EXCEPT !.pulls = m.pulls \cup {"sda"}, !.phase = "START_SCL_LOW"]
      BY <1>1, <2>1, <2>4, DrivingActions
    <3>2. m'.phase = "START_SCL_LOW" /\ Unmoved(m')
      BY <1>2, <1>3, <1>4, <3>1
    <3>3. GoesOn(m')
      BY <1>1, <2>1, <2>3, <2>4, <3>2, StartGoesOn
    <3> QED BY <1>1, <3>3, GoneOn
  <2>5. CASE ~(line["scl"] /\ line["sda"])
    <3>1. m' = Aborted(m, "ETIMEDOUT")
      BY <2>1, <2>5 DEF StartCheck
    <3> QED BY <1>1, <2>1, <2>3, <2>5, <3>1, StartFails
  <2> QED BY <2>4, <2>5
<1>7. ASSUME NEW p, NEW n, Act(p, n), p # "START_CHECK"
      PROVE  m.phase = p /\ m' = n /\ taken' = taken /\ given' = given
  BY <1>7 DEF Act
<1>8. CASE Act("START_SCL_LOW", StartSclLow)
  <2> DEFINE n == [m EXCEPT !.pulls = m.pulls \cup {"scl"}, !.bit = 0, !.phase = "BIT_SET"]
  <2>1. m.phase = "START_SCL_LOW" /\ m' = StartSclLow /\ taken' = taken /\ given' = given
    BY <1>7, <1>8
  <2>2. StartSclLow = n
    BY <1>1 DEF StartSclLow, Then, Drive, Masters
  <2> HIDE DEF n
  <2>3. n.phase = "BIT_SET" /\ n.bit = 0 /\ n.pulls = m.pulls \cup {"scl"} /\ n.busy = m.busy
        /\ n.done = m.done /\ n.held = m.held /\ n.cur = m.cur
    BY <1>1 DEF Masters, n
  <2>4. n.acks = m.acks /\ n.rbuf = m.rbuf /\ n.error = m.error /\ Alike(n)
    BY <1>1 DEF Masters, n, Alike
  <2>5. SameData(n)
    BY <2>3 DEF SameData
  <2>6. GoesOn(n)
    BY <1>1, <1>5, <2>1, <2>2, <2>3, <2>4, <2>5, StartSclLowGoesOn
  <2> QED BY <1>1, <2>1, <2>2, <2>6, GoneOn
<1>9. CASE Act("RS_SDA_RELEASE", RsSdaRelease)
  <2>1. m.phase = "RS_SDA_RELEASE" /\ m' = RsSdaRelease /\ taken' = taken /\ given' = given
    BY <1>7, <1>9
  <2>2. m'.phase = "RS_SCL_RELEASE" /\ Unmoved(m')
    BY <1>1, <1>2, <1>3, <1>4, <2>1, DrivingActions
  <2>3. GoesOn(m')
    BY <1>1, <2>1, <2>2, RsSdaReleaseGoesOn
  <2> QED BY <1>1, <2>3, GoneOn
<1>10. CASE Act("RS_SCL_RELEASE", RsSclRelease)
  <2>1. m.phase = "RS_SCL_RELEASE" /\ m' = RsSclRelease /\ taken' = taken /\ given' = given
    BY <1>7, <1>10
  <2>2. m'.phase = "START_CHECK" /\ Unmoved(m') /\ m'.pulls = m.pulls \ {"scl"}
    BY <1>1, <1>2, <1>3, <1>4, <2>1, DrivingActions
  <2>3. SameData(m')
    BY <2>2 DEF SameData
  <2>4. GoesOn(m')
    BY <1>1, <2>1, <2>2, <2>3, RsSclReleaseGoesOn
  <2> QED BY <1>1, <2>4, GoneOn
<1>11. CASE Act("BIT_SET", BitSet)
  <2>1. m.phase = "BIT_SET" /\ m' = BitSet /\ taken' = taken /\ given' = given
    BY <1>7, <1>11
  <2>2. m'.phase = "BIT_SCL_HIGH" /\ Unmoved(m') /\ ("sda" \in m'.pulls <=> PutsLow)
    <3>1. CASE PutsLow
      <4>1. m' = [m EXCEPT !.pulls = m.pulls \cup {"sda"}, !.phase = "BIT_SCL_HIGH"]
        BY <1>1, <2>1, <3>1, DrivingActions
      <4> QED BY <1>2, <1>3, <1>4, <3>1, <4>1
    <3>2. CASE ~PutsLow
      <4>1. m' = [m EXCEPT !.pulls = m.pulls \ {"sda"}, !.phase = "BIT_SCL_HIGH"]
        BY <1>1, <2>1, <3>2, DrivingActions
      <4> QED BY <1>2, <1>3, <1>4, <3>2, <4>1
    <3> QED BY <3>1, <3>2
  <2>3. GoesOn(m')
    BY <1>1, <2>1, <2>2, SlotGoesOn
  <2> QED BY <1>1, <2>3, GoneOn
<1>12. CASE Act("BIT_SCL_HIGH", BitSclHigh)
  <2>1. m.phase = "BIT_SCL_HIGH" /\ m' = BitSclHigh /\ taken' = taken /\ given' = given
    BY <1>7, <1>12
  <2>2. m'.phase = "BIT_SAMPLE" /\ Unmoved(m') /\ m'.pulls = m.pulls \ {"scl"}
    BY <1>1, <1>2, <1>3, <1>4, <2>1, DrivingActions
  <2>3. SameData(m')
    BY <2>2 DEF SameData
  <2>4. GoesOn(m')
    BY <1>1, <2>1, <2>2, <2>3, SlotGoesOn
  <2> QED BY <1>1, <2>4, GoneOn
<1>13. CASE Act("BIT_SAMPLE", BitSample)
  <2>1. m.phase = "BIT_SAMPLE" /\ m' = BitSample /\ taken' = taken /\ given' = given
    BY <1>7, <1>13
  <2>2. line["scl"] /\ line \in [Lines -> BOOLEAN]
    BY <1>1, <2>1, Levelled DEF BInv
  <2> DEFINE s == Sampled
             n == [s EXCEPT !.phase = "BIT_SCL_LOW"]
  <2>3. BitSample = n
    BY <2>2 DEF BitSample, Then
  <2>4. /\ s \in Masters /\ s = [m EXCEPT !.cur = s.cur, !.ack = s.ack]
        /\ s.cur = IF m.bit < ByteBits /\ m.rx
                   THEN [m.cur EXCEPT ![m.bit + 1] = line["sda"]] ELSE m.cur
        /\ s.ack = IF m.bit = ByteBits /\ ~m.rx THEN ~line["sda"] ELSE m.ack
    BY <1>1, <2>2, SampledFacts
  <2> HIDE DEF s
  <2>5. /\ s.busy = m.busy /\ s.done = m.done /\ s.held = m.held /\ s.pulls = m.pulls
        /\ s.bit = m.bit
    BY <1>1, <2>4 DEF Masters
  <2>6. Alike(s) /\ s.acks = m.acks /\ s.rbuf = m.rbuf /\ s.error = m.error
    BY <1>1, <2>4 DEF Masters, Alike
  <2> HIDE DEF n
  <2>7. n.phase = "BIT_SCL_LOW" /\ n.busy = s.busy /\ n.done = s.done /\ n.held = s.held
        /\ n.pulls = s.pulls /\ n.bit = s.bit /\ n.cur = s.cur /\ n.ack = s.ack
    BY <2>4 DEF Masters, n
  <2>8. n.req = s.req /\ n.second = s.second /\ n.index = s.index /\ n.rx = s.rx
        /\ n.acks = s.acks /\ n.rbuf = s.rbuf /\ n.error = s.error
    BY <2>4 DEF Masters, n
  <2>9. Alike(n)
    BY <2>6, <2>8 DEF Alike
  <2>10. GoesOn(n)
    BY <1>1, <1>5, <2>1, <2>3, <2>4, <2>5, <2>6, <2>7, <2>8, <2>9, BitSampleGoesOn
  <2> QED BY <1>1, <2>1, <2>3, <2>10, GoneOn
<1>14. CASE Act("BIT_SCL_LOW", BitSclLow)
  <2>1. m.phase = "BIT_SCL_LOW" /\ m' = BitSclLow /\ taken' = taken /\ given' = given
    BY <1>7, <1>14
  <2>2. m.bit \in 0..ByteBits /\ m.rx \in BOOLEAN /\ m.ack \in BOOLEAN
    BY <1>1 DEF Masters
  <2>3. CASE m.bit < ByteBits
    <3> DEFINE n == [m EXCEPT !.pulls = m.pulls \cup {"scl"}, !.bit = m.bit + 1, !.phase = "BIT_SET"]
    <3>1. BitSclLow = n
      BY <1>1, <2>3 DEF BitSclLow, Then, Drive, Masters
    <3> HIDE DEF n
    <3>2. n.phase = "BIT_SET" /\ n.bit = m.bit + 1 /\ n.pulls = m.pulls \cup {"scl"}
          /\ n.busy = m.busy /\ n.done = m.done /\ n.held = m.held /\ n.cur = m.cur
      BY <1>1 DEF Masters, n
    <3>3. n.acks = m.acks /\ n.rbuf = m.rbuf /\ n.error = m.error /\ Alike(n)
      BY <1>1 DEF Masters, n, Alike
    <3>4. SameData(n)
      BY <3>2 DEF SameData
    <3>5. GoesOn(n)
      BY <1>1, <1>5, <2>1, <2>3, <3>1, <3>2, <3>3, <3>4, NextBitGoesOn
    <3> QED BY <1>1, <2>1, <3>1, <3>5, GoneOn
  <2>4. CASE m.bit = ByteBits
    <3> DEFINE d == Drive("scl", TRUE)
    <3>0. BitSclLow = IF m.bit < ByteBits THEN Then([d EXCEPT !.bit = @ + 1], "BIT_SET")
                                          ELSE ByteOver(d)
      BY DEF BitSclLow
    <3> HIDE DEF d
    <3>1. m' = ByteOver(d)
      BY <2>1, <2>4, <3>0
    <3> USE DEF d
    <3> QED BY <1>1, <2>1, <2>2, <2>4, <3>1, ByteReadKeeps, ByteRefusedKeeps, ByteWrittenKeeps
  <2> QED BY <2>2, <2>3, <2>4
<1>15. CASE Act("STOP_SDA_LOW", StopSdaLow)
  <2>1. m.phase = "STOP_SDA_LOW" /\ m' = StopSdaLow /\ taken' = taken /\ given' = given
    BY <1>7, <1>15
  <2>2. m'.phase = "STOP_SCL_RELEASE" /\ Unmoved(m')
    BY <1>1, <1>2, <1>3, <1>4, <2>1, DrivingActions
  <2>3. GoesOn(m')
    BY <1>1, <2>1, <2>2, StopGoesOn
  <2> QED BY <1>1, <2>3, GoneOn
<1>16. CASE Act("STOP_SCL_RELEASE", StopSclRelease)
  <2>1. m.phase = "STOP_SCL_RELEASE" /\ m' = StopSclRelease /\ taken' = taken /\ given' = given
    BY <1>7, <1>16
  <2>2. m'.phase = "STOP_SDA_RELEASE" /\ Unmoved(m') /\ m'.pulls = m.pulls \ {"scl"}
    BY <1>1, <1>2, <1>3, <1>4, <2>1, DrivingActions
  <2>3. SameData(m')
    BY <2>2 DEF SameData
  <2>4. GoesOn(m')
    BY <1>1, <2>1, <2>2, <2>3, StopGoesOn
  <2> QED BY <1>1, <2>4, GoneOn
<1>17. CASE Act("STOP_SDA_RELEASE", StopSdaRelease)
  <2> DEFINE n == [m EXCEPT !.pulls = m.pulls \ {"sda"}, !.phase = "FINISH"]
  <2>1. m.phase = "STOP_SDA_RELEASE" /\ m' = StopSdaRelease /\ taken' = taken /\ given' = given
    BY <1>7, <1>17
  <2>2. StopSdaRelease = [m EXCEPT !.pulls = m.pulls \ {"sda"}, !.held = FALSE, !.phase = "FINISH"]
    BY <1>1 DEF StopSdaRelease, Then, Drive, Masters
  <2>3. m.held = FALSE
    BY <1>1, <1>5 DEF Masters
  <2>4. StopSdaRelease = n
    BY <1>1, <2>2, <2>3 DEF Masters
  <2>5. m'.phase = "FINISH" /\ Unmoved(m')
    BY <1>2, <1>3, <1>4, <2>1, <2>4
  <2>6. GoesOn(m')
    BY <1>1, <2>1, <2>5, StopSdaReleaseGoesOn
  <2> QED BY <1>1, <2>6, GoneOn
<1>18. CASE Act("FINISH", Finish)
  <2>1. m.phase = "FINISH" /\ m' = Finish /\ taken' = taken /\ given' = given
    BY <1>7, <1>18
  <2> DEFINE n == Completed(m, "none")
  <2>2. ~n.busy /\ n.held = m.held /\ n.pulls = m.pulls /\ n.req = m.req /\ n.acks = m.acks
        /\ n.rbuf = m.rbuf /\ n.error = m.error
    BY <1>1, CompletedFacts
  <2>3. m' = n
    BY <2>1 DEF Finish
  <2> HIDE DEF n
  <2> QED BY <1>1, <1>5, <2>1, <2>2, <2>3, FinishEnds
<1> QED BY <1>6, <1>8, <1>9, <1>10, <1>11, <1>12, <1>13, <1>14, <1>15, <1>16, <1>17, <1>18
        DEF Master

LEMMA MasterKeeps == ASSUME IInv, Master PROVE IInv'
<1>1. clean \in BOOLEAN
  BY DEF IInv, BInv
<1> QED BY <1>1, CleanStep, DisturbedStep

-----------------------------------------------------------------------------
(* The program, and what else is on the bus.                                *)

LEMMA SameKeeps ==
    ASSUME IInv, BInv', line' = line, other' = other, target' = target, m' = m,
           clean' = clean, taken' = taken, given' = given
    PROVE  IInv'
<1>1. Wires'
  <2>1. Wired' = Wired
    BY DEF Wired
  <2>2. /\ ClockFalls' = ClockFalls /\ ClockLow' = ClockLow /\ ClockRises' = ClockRises
        /\ ClockHigh' = ClockHigh /\ DataFalls' = DataFalls /\ DataRises' = DataRises
    BY <2>1 DEF ClockFalls, ClockLow, ClockRises, ClockHigh, DataFalls, DataRises, Seen, Steady
  <2> QED BY <2>2 DEF IInv, Wires, Again
<1>2. Places' /\ Counts' /\ Books' /\ Ends'
  BY DEF IInv, Places, Counts, Books, Ends
<1>3. Done'
  <2>1. Wired' = Wired /\ Handled' = Handled
    BY DEF Wired, Handled, Seen
  <2> QED BY <2>1 DEF IInv, Done
<1> QED BY <1>1, <1>2, <1>3 DEF IInv

LEMMA XferKeeps ==
    ASSUME IInv, BInv', NEW r \in Requests, Xfer(r)
    PROVE  IInv'
<1>1. /\ BInv /\ ~m.busy /\ m' = Requested(r) /\ clean' = (other = {})
      /\ line' = line /\ other' = other /\ target' = target
  BY DEF IInv, Xfer, bus
<1>2. m \in Masters
  BY <1>1, MasterFacts
<1> DEFINE a == AddressByte(r.addr, ~r.hasWrite)
           p == IF m.held THEN "RS_SDA_RELEASE" ELSE "START_CHECK"
           s == ~r.hasWrite
           c == [m EXCEPT !.req = r, !.second = s, !.index = 0, !.cur = a, !.bit = 0, !.rx = FALSE]
           n == Requested(r)
<1>3. n = [c EXCEPT !.ack = FALSE, !.rbuf = <<>>, !.acks = 0, !.error = "none", !.done = FALSE,
                    !.busy = TRUE, !.held = FALSE, !.phase = p]
  BY <1>2 DEF Requested, Masters
<1> HIDE DEF a, p, s, n
<1>4. c.req = r /\ c.second = s /\ c.index = 0 /\ c.cur = a /\ ~c.rx /\ c.pulls = m.pulls
  BY <1>2 DEF Masters
<1>5. DOMAIN c = DOMAIN m
  BY <1>2 DEF Masters
<1> HIDE DEF c
<1>6. /\ n.req = r /\ n.second = s /\ n.index = 0 /\ n.cur = a /\ ~n.rx /\ n.pulls = m.pulls
  BY <1>2, <1>3, <1>4, <1>5 DEF Masters
<1>7. n.rbuf = <<>> /\ n.acks = 0 /\ n.error = "none" /\ ~n.done /\ n.busy /\ ~n.held /\ n.phase = p
  BY <1>2, <1>3, <1>5 DEF Masters
<1>8. m' = n
  BY <1>1 DEF n
<1>9. Starting(n) /\ ~Again(n) /\ n.phase \notin Ending
  BY <1>6, <1>7 DEF Starting, Again, s, p, Ending
<1>10. Wires'
  <2>1. ~m'.held
    BY <1>7, <1>8
  <2>2. m'.phase \in Falls => ClockFalls'
    <3>1. SUFFICES ASSUME m.held PROVE ClockFalls'
      BY <1>7, <1>8 DEF p, Falls
    <3>2. ClockFalls
      BY <1>1, <3>1 DEF IInv, Wires
    <3>3. Wired' = Wired
      BY <1>1, <1>6, <1>8 DEF Wired
    <3> QED BY <1>1, <3>2, <3>3 DEF ClockFalls, Seen, Steady
  <2>3. clean' => other' = {}
    BY <1>1
  <2>4. ~Again(m)' /\ m'.phase \in {"RS_SDA_RELEASE", "START_CHECK"}
    BY <1>7, <1>8, <1>9 DEF p, Again
  <2> QED BY <2>1, <2>2, <2>3, <2>4 DEF Wires, Falls, Lows
<1>11. Counted(n)
  <2>1. r.hasWrite \in BOOLEAN /\ (~r.hasWrite => r.nread > 0 /\ r.write = <<>>)
    BY RequestFacts
  <2>2. n.cur = AddressByte(n.req.addr, n.second)
    BY <1>6 DEF a, s
  <2>3. n.acks = IF n.second THEN Len(n.req.write) ELSE 0
    BY <1>6, <1>7, <2>1 DEF s
  <2>4. n.phase \notin Slots /\ Len(n.rbuf) = 0
    BY <1>7 DEF p, Slots
  <2>5. n.second => n.req.nread > 0
    BY <1>6, <2>1 DEF s
  <2> QED BY <1>6, <1>7, <2>2, <2>3, <2>4, <2>5 DEF Counted, Slots
<1> QED BY <1>7, <1>8, <1>9, <1>10, <1>11 DEF IInv, Places, Counts, Books, Ends, Done

LEMMA WorkerKeeps == ASSUME IInv, Worker PROVE IInv'
<1>1. BInv /\ BInv' /\ m \in Masters
  BY WorkerBInv, MasterFacts DEF IInv
<1>2. CASE \E r \in Requests : Xfer(r)
  BY <1>1, <1>2, XferKeeps
<1>3. CASE XferRaises
  <2>1. m' = Aborted(m, "EIO") /\ clean' = FALSE
    BY <1>3 DEF XferRaises
  <2>2. ~m'.held
    BY <1>1, <2>1, AbortedFacts
  <2> QED BY <1>1, <2>1, <2>2 DEF IInv, Wires, Places, Counts, Books, Ends, Done
<1>4. CASE I2cInit \/ I2cDeinit
  <2>1. PICK x \in BOOLEAN : m' = [Fresh(m.req) EXCEPT !.configured = x]
    BY <1>4 DEF I2cInit, I2cDeinit, Reset
  <2>2. ~m'.busy /\ ~m'.held /\ ~m'.done
    BY <2>1 DEF Fresh
  <2>3. clean' = clean /\ other' = other
    BY <1>4 DEF I2cInit, I2cDeinit, Reset, bus, history
  <2> QED BY <1>1, <2>2, <2>3 DEF IInv, Wires, Places, Counts, Books, Ends, Done
<1>5. CASE Sleep \/ (\E asked \in BOOLEAN : Wake(asked)) \/ WaitAgain \/ SleepReturns
           \/ XferReturns \/ SleepRaises
  <2>1. /\ line' = line /\ other' = other /\ target' = target /\ m' = m
        /\ clean' = clean /\ taken' = taken /\ given' = given
    BY <1>5 DEF Sleep, Wake, WaitAgain, SleepReturns, XferReturns, SleepRaises, bus, history
  <2> QED BY <1>1, <2>1, SameKeeps
<1> QED BY <1>2, <1>3, <1>4, <1>5 DEF Worker

LEMMA ForeignKeeps ==
    ASSUME IInv, NEW held \in {{}} \cup {{l} : l \in Lines}, Foreign(held)
    PROVE  IInv'
<1>1. BInv' /\ clean' = FALSE /\ m' = m /\ m.busy
  BY ForeignBInv DEF IInv, Foreign
<1> QED BY <1>1 DEF IInv, Wires, Places, Counts, Books, Ends, Done

LEMMA IInvInit == Init => IInv
<1> SUFFICES ASSUME Init PROVE IInv
  OBVIOUS
<1>1. BInv
  BY BInvInit
<1>2. PICK r \in Requests : m = Fresh(r)
  BY DEF Init
<1>3. ~m.busy /\ ~m.held /\ ~m.done /\ clean = FALSE
  BY <1>2 DEF Init, Fresh
<1> QED BY <1>1, <1>3 DEF IInv, Wires, Places, Counts, Books, Ends, Done

-----------------------------------------------------------------------------
(* The targets at an edge.                                                  *)

\* What a synchronisation makes of a target t: u.  Nothing but the levels;
\* a pulse counted; the fall of the clock, with what was taken and given.
Kept(u, t) ==
    /\ u.state = t.state /\ u.nbits = t.nbits /\ u.shift = t.shift /\ u.low = t.low
    /\ u.cur = t.cur /\ u.masterAck = t.masterAck /\ u.deferred = t.deferred
Rose(u, t) ==
    /\ u.state = t.state /\ u.low = t.low /\ u.cur = t.cur /\ u.deferred = t.deferred
    /\ ~Idling(t.state) => u.nbits = t.nbits + 1
    /\ t.state \in {"ADDR", "WRITE"} /\ t.nbits < ByteBits => u.shift = Append(t.shift, line["sda"])
    /\ t.state \in {"ADDR", "WRITE"} /\ ~(t.nbits < ByteBits) => u.shift = t.shift
    /\ t.state = "READ" /\ t.nbits = ByteBits => u.masterAck = ~line["sda"]
FellIdle(u, t) == Idling(t.state) => u.state = t.state /\ ~u.low /\ ~u.deferred
FellInByte(u, t) ==
    ~Idling(t.state) /\ t.nbits < ByteBits =>
        /\ u.state = t.state /\ u.nbits = t.nbits /\ u.shift = t.shift /\ u.cur = t.cur
        /\ u.masterAck = t.masterAck /\ ~u.deferred
        /\ u.low <=> IF t.state = "READ" /\ t.nbits # 0 THEN ~t.cur[t.nbits + 1] ELSE t.low
FellToAnswer(k, u, t) ==
    ~Idling(t.state) /\ t.nbits = ByteBits =>
        /\ u.nbits = ByteBits /\ u.shift = t.shift /\ u.cur = t.cur
        /\ u.masterAck = t.masterAck /\ ~u.deferred
        /\ t.state = "ADDR" /\ SubSeq(t.shift, 1, ByteBits - 1) \in Listens[k] =>
               u.state = "ADDR" /\ u.low
        /\ t.state = "ADDR" /\ SubSeq(t.shift, 1, ByteBits - 1) \notin Listens[k] =>
               u.state = "WAIT" /\ ~u.low
        /\ t.state = "WRITE" => u.state = "WRITE" /\ u.low
        /\ t.state = "READ" => u.state = "READ" /\ ~u.low
ToRead(t) == (t.state = "ADDR" /\ t.shift[ByteBits]) \/ (t.state = "READ" /\ t.masterAck)
FellToNext(u, t) ==
    ~Idling(t.state) /\ t.nbits = ByteBits + 1 =>
        /\ u.nbits = 0
        /\ ToRead(t) => u.state = "READ" /\ (u.deferred => ~u.low) /\ (~u.deferred => (u.low <=> ~u.cur[1]))
        /\ ~ToRead(t) => ~u.low /\ ~u.deferred
        /\ t.state = "ADDR" /\ ~t.shift[ByteBits] => u.state = "WRITE"
        /\ t.state = "READ" /\ ~t.masterAck => u.state = "WAIT"
        /\ t.state = "WRITE" => u.state = "WRITE"
Takes(t) == t.state = "WRITE" /\ t.nbits = ByteBits
Asks(t) == t.nbits = ByteBits + 1 /\ ToRead(t)

\* What the fall of the clock takes and gives, before and behind.
Exchanged(u, t, tk, tk2, gv, gv2) ==
    /\ ~Takes(t) => tk2 = tk
    /\ Takes(t) /\ ~t.low => tk2 = Append(tk, t.shift)
    /\ ~Asks(t) => gv2 = gv
    /\ Asks(t) /\ u.deferred => gv2 = gv
    /\ Asks(t) /\ ~u.deferred => gv2 = Append(gv, u.cur)

LEMMA SyncStep ==
    ASSUME BInv, NEW b \in [Targets -> Answers \cup {Defer}], TargetsSync(b)
    PROVE  /\ line' = line /\ other' = other /\ m' = m /\ clean' = clean
           /\ BInv' /\ \E k \in Targets : ~Seen(k)
           /\ \A k \in Targets :
                  /\ LevelsSeen(target'[k]) /\ target'[k] \in Members
                  /\ Seen(k) => target'[k] = target[k]
                  /\ ~Seen(k) => target'[k] = Synced(k, target[k], b[k]) /\ ~target[k].deferred
<1>1. /\ line' = line /\ other' = other /\ m' = m /\ clean' = clean
      /\ \E k \in Targets : ~Seen(k)
  BY DEF TargetsSync, worker
<1>2. BInv'
  BY SyncBInv
<1>3. target' = [k \in Targets |-> IF Seen(k) THEN target[k] ELSE Synced(k, target[k], b[k])]
  BY DEF TargetsSync
<1>4. \A k \in Targets : b[k] \in Bytes \cup {Defer}
  BY I2cBusAssumption
<1>5. ASSUME NEW k \in Targets
      PROVE  /\ LevelsSeen(target'[k]) /\ target'[k] \in Members
             /\ Seen(k) => target'[k] = target[k]
             /\ ~Seen(k) => target'[k] = Synced(k, target[k], b[k]) /\ ~target[k].deferred
  <2>1. Fine(target[k]) /\ (target[k].deferred => Seen(k)) /\ line \in [Lines -> BOOLEAN]
    BY DEF BInv, TargetsFine
  <2>2. CASE Seen(k)
    BY <1>3, <2>1, <2>2 DEF Seen, LevelsSeen, Fine
  <2>3. CASE ~Seen(k)
    <3>1. ~target[k].deferred /\ ~LevelsSeen(target[k])
      BY <2>1, <2>3, SeenLevels
    <3>2. Fine(Synced(k, target[k], b[k])) /\ LevelsSeen(Synced(k, target[k], b[k]))
      BY <1>4, <2>1, <3>1, SyncedFine
    <3> QED BY <1>3, <2>3, <3>1, <3>2 DEF Fine
  <2> QED BY <2>2, <2>3
<1> QED BY <1>1, <1>2, <1>5

LEMMA SyncBooks ==
    ASSUME BInv, NEW b \in [Targets -> Answers \cup {Defer}], TargetsSync(b), NEW k \in Targets
    PROVE  LET t == target[k]
           IN  /\ b[k] \in Bytes \cup {Defer} /\ (b[k] # Defer => Loads(k))
               /\ given'[k] = IF b[k] # Defer THEN Append(given[k], b[k]) ELSE given[k]
               /\ ~(t.scl /\ ~line["scl"] /\ Takes(t)) => taken'[k] = taken[k]
               /\ LET u == Synced(k, t, b[k])
                  IN  u.state = "WRITE" /\ u.low /\ ~t.low => taken'[k] = Append(taken[k], t.shift)
<1>1. b[k] \in Bytes \cup {Defer} /\ (b[k] # Defer => Loads(k))
      /\ given'[k] = IF b[k] # Defer THEN Append(given[k], b[k]) ELSE given[k]
  BY I2cBusAssumption DEF TargetsSync
<1> DEFINE u == Synced(k, target[k], b[k])
<1>2. taken'[k] = IF u.state = "WRITE" /\ u.low /\ ~target[k].low
                  THEN Append(taken[k], target[k].shift) ELSE taken[k]
  BY DEF TargetsSync
<1>3. Fine(target[k]) /\ (target[k].deferred => LevelsSeen(target[k])) /\ line \in [Lines -> BOOLEAN]
  BY SeenLevels DEF BInv, TargetsFine
<1>4. u.state = "WRITE" /\ u.low /\ ~target[k].low => target[k].scl /\ ~line["scl"] /\ Takes(target[k])
  BY <1>1, <1>3, SyncAccepts DEF Takes
<1> QED BY <1>1, <1>2, <1>4

\* A target that saw everything, and one that waits for an edge.
LEMMA SyncSeen ==
    ASSUME BInv, NEW b \in [Targets -> Answers \cup {Defer}], TargetsSync(b), NEW k \in Targets,
           Seen(k)
    PROVE  target'[k] = target[k] /\ taken'[k] = taken[k] /\ given'[k] = given[k]
<1>1. target[k].scl = line["scl"]
  BY DEF Seen
<1>2. ~Loads(k)
  BY <1>1 DEF Loads
<1> QED BY <1>1, <1>2, SyncStep, SyncBooks

LEMMA SyncQuiet ==
    ASSUME BInv, NEW b \in [Targets -> Answers \cup {Defer}], TargetsSync(b), NEW k \in Targets,
           target[k].known, ~target[k].scl \/ line["scl"]
    PROVE  /\ taken'[k] = taken[k] /\ given'[k] = given[k]
           /\ LET t == target[k]
                  u == target'[k]
              IN  /\ ~line["scl"] => Kept(u, t)
                  /\ ~t.scl /\ line["scl"] => Rose(u, t)
                  /\ t.scl /\ line["scl"] /\ ~Seen(k) =>
                        /\ t.sda # line["sda"]
                        /\ line["sda"] => AtRest(u) /\ ~u.deferred
                        /\ ~line["sda"] => /\ u.state = "ADDR" /\ u.nbits = 0 /\ u.shift = <<>>
                                           /\ ~u.low /\ ~u.deferred
<1> DEFINE t == target[k]
           v == Levels(t)
           u == target'[k]
<1>1. ~Loads(k)
  BY DEF Loads
<1>2. taken'[k] = taken[k] /\ given'[k] = given[k]
  BY <1>1, SyncBooks
<1>3. /\ t \in Members /\ Row(t) /\ line \in [Lines -> BOOLEAN] /\ line["scl"] \in BOOLEAN
      /\ line["sda"] \in BOOLEAN /\ t.scl \in BOOLEAN
  BY TargetFacts, LineFacts DEF BInv
<1>4. /\ v \in Members /\ LevelsSeen(v) /\ Spelled(v)
      /\ v.state = t.state /\ v.nbits = t.nbits /\ v.shift = t.shift
      /\ v.low = t.low /\ v.cur = t.cur /\ v.masterAck = t.masterAck /\ v.deferred = t.deferred
  BY <1>3, LevelsFacts
<1>5. Seen(k) => u = t
  BY SyncStep
<1>6. ~Seen(k) => ~t.deferred /\ u = Synced(k, t, b[k])
  BY SyncStep
<1>7. Synced(k, t, b[k]) =
          IF line["scl"] # t.scl
          THEN IF line["scl"] THEN OnRise(v, line["sda"]) ELSE OnFall(k, v, b[k])
          ELSE IF ~line["scl"] THEN v ELSE IF line["sda"] THEN OnStop(v) ELSE OnStart(v)
  BY DEF Synced
<1>8. Seen(k) <=> LevelsSeen(t)
  BY SeenLevels
<1> HIDE DEF t, v, u
<1>9. ASSUME ~line["scl"] PROVE Kept(u, t)
  <2>1. CASE Seen(k)
    BY <1>5, <2>1 DEF Kept
  <2>2. CASE ~Seen(k)
    <3>1. u = v
      BY <1>3, <1>6, <1>7, <1>9, <2>2 DEF t
    <3> QED BY <1>4, <3>1 DEF Kept
  <2> QED BY <2>1, <2>2
<1>10. ASSUME ~t.scl, line["scl"] PROVE Rose(u, t)
  <2>1. ~Seen(k)
    BY <1>8, <1>10 DEF LevelsSeen
  <2>2. u = OnRise(v, line["sda"]) /\ ~t.deferred
    BY <1>6, <1>7, <1>10, <2>1
  <2>3. v.state \notin {"IDLE", "WAIT"} => v.nbits <= ByteBits
    BY <1>3, <1>4, <1>10 DEF Row
  <2>4. Row(v) /\ v.known /\ v.scl
    BY <1>4, <1>10, <2>2 DEF Row, Spelled, LevelsSeen
  <2> DEFINE x == OnRise(v, line["sda"])
  <2>5. /\ v.state \in {"IDLE", "WAIT"} => x = v
        /\ v.state \notin {"IDLE", "WAIT"} =>
                  /\ x.nbits = v.nbits + 1
                  /\ x.shift = IF v.state # "READ" /\ v.nbits < ByteBits
                                          THEN Append(v.shift, line["sda"]) ELSE v.shift
                  /\ x.masterAck = IF v.state = "READ" /\ v.nbits = ByteBits
                                              THEN ~line["sda"] ELSE v.masterAck
        /\ x.state = v.state /\ x.low = v.low /\ x.cur = v.cur /\ x.deferred = v.deferred
    BY <1>3, <1>4, <2>2, <2>3, <2>4, RiseFacts
  <2> HIDE DEF x
  <2> QED BY <1>4, <2>2, <2>5 DEF Rose, Idling, x
<1>11. ASSUME t.scl, line["scl"], ~Seen(k)
       PROVE  /\ t.sda # line["sda"]
              /\ line["sda"] => AtRest(u) /\ ~u.deferred
              /\ ~line["sda"] => /\ u.state = "ADDR" /\ u.nbits = 0 /\ u.shift = <<>>
                                 /\ ~u.low /\ ~u.deferred
  <2>1. t.sda # line["sda"]
    BY <1>8, <1>11, <1>3 DEF LevelsSeen, t
  <2>2. u = IF line["sda"] THEN OnStop(v) ELSE OnStart(v)
    BY <1>3, <1>6, <1>7, <1>11
  <2>3. line["sda"] => AtRest(u) /\ ~u.deferred
    BY <1>4, <2>2, StopFacts DEF AtRest
  <2>4. ~line["sda"] => /\ u.state = "ADDR" /\ u.nbits = 0 /\ u.shift = <<>>
                        /\ ~u.low /\ ~u.deferred
    BY <1>4, <2>2, StartFacts
  <2> QED BY <2>1, <2>3, <2>4
<1> QED BY <1>2, <1>9, <1>10, <1>11 DEF t, u

LEMMA SyncFell ==
    ASSUME BInv, NEW b \in [Targets -> Answers \cup {Defer}], TargetsSync(b), NEW k \in Targets,
           target[k].known, target[k].scl, ~line["scl"]
    PROVE  LET t == target[k]
               u == target'[k]
           IN  /\ FellIdle(u, t) /\ FellInByte(u, t) /\ FellToAnswer(k, u, t) /\ FellToNext(u, t)
               /\ ~Idling(t.state) =>
                      Exchanged(u, t, taken[k], taken'[k], given[k], given'[k])
               /\ Idling(t.state) => taken'[k] = taken[k] /\ given'[k] = given[k]
               /\ t.nbits \in 0..(ByteBits + 1)
               /\ t.state \in {"IDLE", "ADDR", "WRITE", "READ", "WAIT"}
<1> DEFINE t == target[k]
           v == Levels(t)
           u == target'[k]
           c == b[k]
<1>1. ~Seen(k)
  BY DEF Seen
<1>2. /\ t \in Members /\ Row(t) /\ line \in [Lines -> BOOLEAN] /\ line["scl"] \in BOOLEAN
      /\ t.nbits \in 0..(ByteBits + 1) /\ t.low \in BOOLEAN /\ t.masterAck \in BOOLEAN
      /\ t.state \in {"IDLE", "ADDR", "WRITE", "READ", "WAIT"}
  BY TargetFacts, LineFacts DEF BInv, Members
<1>3. /\ v \in Members /\ LevelsSeen(v) /\ Spelled(v) /\ v.known
      /\ v.state = t.state /\ v.nbits = t.nbits /\ v.shift = t.shift
      /\ v.low = t.low /\ v.cur = t.cur /\ v.masterAck = t.masterAck /\ v.deferred = t.deferred
  BY <1>2, LevelsFacts DEF LevelsSeen
<1>4. ~t.deferred /\ u = Synced(k, t, c)
  BY <1>1, SyncStep
<1>5. Synced(k, t, c) = OnFall(k, v, c)
  BY <1>2 DEF Synced
<1>6. /\ c \in Bytes \cup {Defer} /\ (c # Defer => t.nbits = ByteBits + 1 /\ ToRead(t))
      /\ given'[k] = IF c # Defer THEN Append(given[k], c) ELSE given[k]
      /\ ~Takes(t) => taken'[k] = taken[k]
      /\ u.state = "WRITE" /\ u.low /\ ~t.low => taken'[k] = Append(taken[k], t.shift)
  BY <1>4, SyncBooks DEF Loads, ToRead
<1> HIDE DEF t, v, u, c
<1>7. /\ Idling(v.state) => u = [v EXCEPT !.low = FALSE]
      /\ ~Idling(v.state) /\ v.nbits = ByteBits => u = Acknowledge(k, v)
      /\ ~Idling(v.state) /\ v.nbits = ByteBits + 1 => u = NextByte(v, c)
      /\ ~Idling(v.state) /\ v.nbits < ByteBits =>
             u = IF v.state = "READ" /\ v.nbits # 0
                 THEN [v EXCEPT !.low = ~v.cur[v.nbits + 1]] ELSE v
  BY <1>3, <1>4, <1>5, <1>6, FallFacts
<1>8. CASE Idling(t.state)
  <2>1. u = [v EXCEPT !.low = FALSE]
    BY <1>3, <1>7, <1>8
  <2>2. u.state = t.state /\ ~u.low /\ ~u.deferred
    BY <1>3, <1>4, <2>1 DEF Members
  <2>3. ~Takes(t) /\ ~ToRead(t)
    BY <1>8 DEF Takes, ToRead, Idling
  <2> QED BY <1>2, <1>6, <1>8, <2>2, <2>3 DEF FellIdle, FellInByte, FellToAnswer, FellToNext, t, u
<1>9. CASE ~Idling(t.state) /\ t.nbits < ByteBits
  <2>1. u = IF v.state = "READ" /\ v.nbits # 0 THEN [v EXCEPT !.low = ~v.cur[v.nbits + 1]] ELSE v
    BY <1>3, <1>7, <1>9
  <2>2. /\ u.state = t.state /\ u.nbits = t.nbits /\ u.shift = t.shift /\ u.cur = t.cur
        /\ u.masterAck = t.masterAck /\ ~u.deferred
        /\ u.low <=> IF t.state = "READ" /\ t.nbits # 0 THEN ~t.cur[t.nbits + 1] ELSE t.low
    BY <1>3, <1>4, <2>1 DEF Members
  <2>3. t.nbits # ByteBits /\ t.nbits # ByteBits + 1
    BY <1>9
  <2>4. ~Takes(t) /\ ~Asks(t) /\ taken'[k] = taken[k] /\ given'[k] = given[k]
    BY <1>6, <2>3 DEF Takes, Asks
  <2> QED BY <1>2, <1>9, <2>2, <2>3, <2>4
          DEF FellIdle, FellInByte, FellToAnswer, FellToNext, Exchanged, t, u
<1>10. CASE ~Idling(t.state) /\ t.nbits = ByteBits
  <2>1. u = Acknowledge(k, v)
    BY <1>3, <1>7, <1>10
  <2>2. Row(v) /\ ~Idling(v.state) /\ v.nbits = ByteBits
    BY <1>3, <1>4, <1>10 DEF Row, Spelled
  <2>3. FellToAnswer(k, u, t)
    <3>1. LET x == Acknowledge(k, v)
          IN  /\ x.nbits = ByteBits /\ x.shift = v.shift /\ x.cur = v.cur
              /\ x.masterAck = v.masterAck /\ x.deferred = v.deferred
              /\ v.state = "ADDR" /\ SubSeq(v.shift, 1, ByteBits - 1) \in Listens[k] =>
                      x.low /\ x.state = "ADDR"
              /\ v.state = "ADDR" /\ SubSeq(v.shift, 1, ByteBits - 1) \notin Listens[k] =>
                      ~x.low /\ x.state = "WAIT"
              /\ v.state = "WRITE" => x.low /\ x.state = "WRITE"
              /\ v.state = "READ" => ~x.low /\ x.state = "READ"
      BY <1>3, <2>2, AcknowledgeFacts
    <3> QED BY <1>3, <1>4, <1>10, <2>1, <3>1 DEF FellToAnswer
  <2>4. ~(t.nbits < ByteBits) /\ t.nbits # ByteBits + 1
    BY <1>10
  <2>5. Exchanged(u, t, taken[k], taken'[k], given[k], given'[k])
    <3>1. ~Asks(t) /\ given'[k] = given[k]
      BY <1>6, <2>4 DEF Asks
    <3>2. Takes(t) => u.state = "WRITE" /\ u.low
      BY <1>10, <2>3 DEF Takes, FellToAnswer
    <3> QED BY <1>6, <3>1, <3>2 DEF Exchanged
  <2> QED BY <1>2, <1>10, <2>3, <2>4, <2>5 DEF FellIdle, FellInByte, FellToNext, t, u
<1>11. CASE ~Idling(t.state) /\ t.nbits = ByteBits + 1
  <2>1. u = NextByte(v, c)
    BY <1>3, <1>7, <1>11
  <2>2. v.state = "ADDR" => v.shift[ByteBits] \in BOOLEAN
    BY <1>3, <1>11 DEF Spelled
  <2>3. LET x == NextByte(v, c)
            reads == (v.state = "ADDR" /\ v.shift[ByteBits]) \/ (v.state = "READ" /\ v.masterAck)
        IN  /\ x.nbits = 0
            /\ reads => /\ x.state = "READ" /\ x.deferred = (c = Defer)
                        /\ c = Defer => ~x.low
                        /\ c # Defer => x.cur = c /\ x.low = ~c[1]
            /\ ~reads => ~x.low /\ ~x.deferred
            /\ v.state = "ADDR" /\ ~v.shift[ByteBits] => x.state = "WRITE"
            /\ v.state = "READ" /\ ~v.masterAck => x.state = "WAIT"
            /\ v.state = "WRITE" => x.state = "WRITE"
    BY <1>3, <1>4, <1>6, <1>11, <2>2, NextByteFacts
  <2>4. /\ u.nbits = 0
        /\ ToRead(t) => /\ u.state = "READ" /\ u.deferred = (c = Defer)
                        /\ c = Defer => ~u.low
                        /\ c # Defer => u.cur = c /\ u.low = ~c[1]
        /\ ~ToRead(t) => ~u.low /\ ~u.deferred
        /\ t.state = "ADDR" /\ ~t.shift[ByteBits] => u.state = "WRITE"
        /\ t.state = "READ" /\ ~t.masterAck => u.state = "WAIT"
        /\ t.state = "WRITE" => u.state = "WRITE"
    BY <1>3, <2>1, <2>3 DEF ToRead
  <2>5. FellToNext(u, t)
    <3>1. ASSUME c # Defer, u.cur = c, u.low = ~c[1] PROVE u.low <=> ~u.cur[1]
      <4>1. c[1] \in BOOLEAN
        BY <1>6, <3>1 DEF Bytes
      <4> QED BY <3>1, <4>1
    <3> QED BY <1>11, <2>4, <3>1 DEF FellToNext
  <2>6. ~(t.nbits < ByteBits) /\ t.nbits # ByteBits
    BY <1>11
  <2>7. Exchanged(u, t, taken[k], taken'[k], given[k], given'[k])
    <3>1. ~Takes(t) /\ taken'[k] = taken[k]
      BY <1>6, <2>6 DEF Takes
    <3>2. Asks(t) <=> ToRead(t)
      BY <1>11 DEF Asks
    <3> QED BY <1>6, <2>4, <3>1, <3>2 DEF Exchanged
  <2> QED BY <1>2, <1>11, <2>5, <2>6, <2>7 DEF FellIdle, FellInByte, FellToAnswer, t, u
<1>12. t.nbits < ByteBits \/ t.nbits = ByteBits \/ t.nbits = ByteBits + 1
  BY <1>2
<1> QED BY <1>8, <1>9, <1>10, <1>11, <1>12

LEMMA SyncWires ==
    ASSUME BInv, Wires, NEW b \in [Targets -> Answers \cup {Defer}], TargetsSync(b)
    PROVE  Wires'
<1>1. /\ line' = line /\ other' = other /\ m' = m /\ clean' = clean
      /\ \E k \in Targets : ~Seen(k)
      /\ \A k \in Targets : Seen(k)' /\ target'[k].known /\ target'[k].scl = line["scl"]
                            /\ target'[k].sda = line["sda"]
      /\ line["scl"] \in BOOLEAN /\ line["sda"] \in BOOLEAN
      /\ \A k \in Targets : target[k].scl \in BOOLEAN
  BY SyncStep, LineFacts, TargetFacts DEF LevelsSeen, Seen
<1>2. ASSUME ClockFalls PROVE ClockFalls'
  <2>1. ~line["scl"]
    BY <1>1, <1>2 DEF ClockFalls
  <2> QED BY <1>1, <2>1 DEF ClockFalls
<1>3. ASSUME ClockLow PROVE ClockLow'
  BY <1>1, <1>3 DEF ClockLow
<1>4. ASSUME ClockRises PROVE ClockRises'
  <2>1. ASSUME NEW k \in Targets
        PROVE  target'[k].low = target[k].low /\ ~target'[k].deferred
    <3>1. CASE Seen(k)
      BY <1>4, <3>1, SyncSeen DEF ClockRises
    <3>2. CASE ~Seen(k)
      <4>1. target[k].known /\ ~target[k].scl /\ line["scl"] /\ ~target[k].deferred
        BY <1>1, <1>4, <3>2 DEF ClockRises, Seen
      <4> QED BY <4>1, SyncQuiet DEF Rose
    <3> QED BY <3>1, <3>2
  <2>2. Wired'["sda"] = Wired["sda"]
    BY <1>1, <2>1 DEF Wired, Lines
  <2> QED BY <1>1, <1>4, <2>1, <2>2 DEF ClockRises, Steady
<1>5. ~ClockHigh
  BY <1>1 DEF ClockHigh
<1>6. ASSUME DataFalls PROVE DataFalls'
  BY <1>1, <1>6 DEF DataFalls
<1>7. ASSUME DataRises PROVE DataRises'
  BY <1>1, <1>7 DEF DataRises
<1> QED BY <1>1, <1>2, <1>3, <1>4, <1>5, <1>6, <1>7 DEF Wires, Again

\* A target of which no byte is expected, as the clock falls.
LEMMA SyncLeaves ==
    ASSUME BInv, ClockFalls, NEW b \in [Targets -> Answers \cup {Defer}], TargetsSync(b),
           NEW k \in Targets, Leaving(target[k])
    PROVE  Leaving(target'[k]) /\ taken'[k] = taken[k] /\ given'[k] = given[k]
<1> DEFINE t == target[k]
           u == target'[k]
<1>1. t.known /\ ~line["scl"] /\ t.scl \in BOOLEAN /\ line["scl"] \in BOOLEAN
  BY SyncStep, LineFacts, TargetFacts DEF ClockFalls
<1>2. u.scl = line["scl"]
  BY SyncStep DEF LevelsSeen
<1>3. CASE ~t.scl
  <2>1. Kept(u, t) /\ taken'[k] = taken[k] /\ given'[k] = given[k]
    BY <1>1, <1>3, SyncQuiet
  <2> HIDE DEF t, u
  <2>2. Leaving(t)
    BY DEF t
  <2> QED BY <1>1, <1>2, <1>3, <2>1, <2>2 DEF Kept, Leaving, u
<1>4. CASE t.scl
  <2>1. /\ FellIdle(u, t) /\ FellToNext(u, t)
        /\ ~Idling(t.state) => Exchanged(u, t, taken[k], taken'[k], given[k], given'[k])
        /\ Idling(t.state) => taken'[k] = taken[k] /\ given'[k] = given[k]
    BY <1>1, <1>4, SyncFell
  <2>2. Leaving(t)
    OBVIOUS
  <2> HIDE DEF t, u
  <2>3. CASE t.state = "WAIT"
    BY <1>1, <1>2, <2>1, <2>3 DEF FellIdle, Idling, Leaving, u
  <2>4. CASE t.state # "WAIT"
    <3>1. t.nbits = ByteBits + 1 /\ ~ToRead(t) /\ ~Idling(t.state)
      BY <1>4, <2>2, <2>4 DEF Leaving, ToRead, Idling
    <3>2. ~u.low /\ ~u.deferred
      BY <2>1, <3>1 DEF FellToNext
    <3>3. ~Takes(t) /\ ~Asks(t)
      BY <3>1 DEF Takes, Asks
    <3> QED BY <1>1, <1>2, <2>1, <3>1, <3>2, <3>3 DEF Leaving, Exchanged, u
  <2> QED BY <2>3, <2>4
<1> QED BY <1>1, <1>3, <1>4

\* Eight bits spell the address and the direction.
LEMMA SpelledAddress ==
    ASSUME NEW s \in [1..ByteBits -> BOOLEAN], NEW a \in Addresses, NEW x \in BOOLEAN,
           \A j \in 1..ByteBits : s[j] = AddressByte(a, x)[j]
    PROVE  SubSeq(s, 1, ByteBits - 1) = a /\ s[ByteBits] = x
<1> DEFINE n == ByteBits - 1
           r == SubSeq(s, 1, n)
<1>1. n \in Nat /\ n < ByteBits /\ ByteBits \in 1..ByteBits /\ n >= 1
  OBVIOUS
<1>2. s \in Seq(BOOLEAN) /\ Len(s) = ByteBits
  BY RowFacts
<1>3. a \in [1..n -> BOOLEAN]
  BY DEF Addresses
<1>4. a \in Seq(BOOLEAN) /\ Len(a) = n
  BY <1>1, <1>3, RowFacts
<1>5. \A j \in 1..n : s[j] = a[j]
  BY <1>1 DEF AddressByte
<1>6. s[ByteBits] = x
  BY <1>1 DEF AddressByte
<1> HIDE DEF n
<1>7. r = [i \in 1..n |-> s[1 + i - 1]]
  BY <1>1, <1>2
<1> HIDE DEF r
<1>8. DOMAIN r = 1..n /\ \A i \in 1..n : r[i] = a[i]
  <2>1. ASSUME NEW i \in 1..n PROVE r[i] = a[i]
    <3>1. 1 + i - 1 = i
      BY <1>1
    <3>2. r[i] = s[1 + i - 1]
      BY <1>7
    <3> QED BY <1>5, <3>1, <3>2
  <2> QED BY <1>7, <2>1
<1>9. r = a
  <2>1. r = [i \in 1..n |-> r[i]] /\ a = [i \in 1..n |-> a[i]]
    BY <1>3, <1>7
  <2> QED BY <1>8, <2>1
<1> QED BY <1>6, <1>9 DEF n, r

\* One more byte of those to write.
LEMMA OneMore ==
    ASSUME NEW S, NEW s \in Seq(S), NEW i \in 1..Len(s)
    PROVE  SubSeq(s, 1, i) = Append(SubSeq(s, 1, i - 1), s[i])
<1>1. Len(s) \in Nat /\ i \in Nat /\ i - 1 \in Nat /\ i <= Len(s)
  BY LenProperties
<1> QED BY <1>1

\* Nothing of a byte was taken or given.
LEMMA RecordedSame ==
    ASSUME NEW k, NEW t, NEW u, NEW tk, NEW gv, Recorded(m, k, t, tk, gv),
           WrittenTo(m, u) = WrittenTo(m, t), ReadFrom(m, u) = ReadFrom(m, t), u.cur = t.cur
    PROVE  Recorded(m, k, u, tk, gv)
  BY DEF Recorded

\* The master is about to put a bit on SDA, and the clock falls: a target that
\* did not see it fall yet, and whose books the last slot left.
Falling(k) ==
    /\ BInv /\ m.busy /\ m.phase = "BIT_SET" /\ Counted(m) /\ ~line["scl"]
    /\ target[k].known /\ target[k].scl /\ ~target[k].deferred
    /\ Recorded(m, k, target[k], taken[k], given[k])

LEMMA FallingFacts ==
    ASSUME NEW b \in [Targets -> Answers \cup {Defer}], TargetsSync(b), NEW k \in Targets, Falling(k)
    PROVE  LET t == target[k]
               u == target'[k]
           IN  /\ t \in Members /\ Row(t) /\ t.nbits \in 0..(ByteBits + 1)
               /\ t.low \in BOOLEAN /\ ~u.scl /\ Early(m, t) /\ ~Early(m, u)
               /\ FellIdle(u, t) /\ FellInByte(u, t) /\ FellToAnswer(k, u, t) /\ FellToNext(u, t)
               /\ ~Idling(t.state) => Exchanged(u, t, taken[k], taken'[k], given[k], given'[k])
               /\ Idling(t.state) => taken'[k] = taken[k] /\ given'[k] = given[k]
               /\ m.bit \in 0..ByteBits /\ m.index \in Nat /\ m.second \in BOOLEAN
               /\ m.cur \in Bytes /\ m.req.write \in Seq(Bytes) /\ Len(m.req.write) \in Nat
               /\ m.req.addr \in Addresses /\ m.index <= Segment(m) /\ m.req.nread \in Nat
               /\ taken[k] \in Seq(Bytes) /\ given[k] \in Seq(Bytes)
<1> DEFINE t == target[k]
           u == target'[k]
<1>0. BInv /\ t.known /\ t.scl /\ ~line["scl"] /\ m.busy /\ m.phase = "BIT_SET" /\ Counted(m)
  BY DEF Falling
<1>1. /\ FellIdle(u, t) /\ FellInByte(u, t) /\ FellToAnswer(k, u, t) /\ FellToNext(u, t)
      /\ ~Idling(t.state) => Exchanged(u, t, taken[k], taken'[k], given[k], given'[k])
      /\ Idling(t.state) => taken'[k] = taken[k] /\ given'[k] = given[k]
      /\ t.nbits \in 0..(ByteBits + 1)
  BY <1>0, SyncFell
<1>2. u.scl = line["scl"]
  BY <1>0, SyncStep DEF LevelsSeen
<1>3. t \in Members /\ Row(t) /\ t.low \in BOOLEAN
  BY <1>0, TargetFacts
<1>4. /\ m.bit \in 0..ByteBits /\ m.index \in Nat /\ m.second \in BOOLEAN
      /\ m.cur \in Bytes /\ m.req.write \in Seq(Bytes) /\ Len(m.req.write) \in Nat
      /\ m.req.addr \in Addresses /\ m.index <= Segment(m) /\ m.req.nread \in Nat
  BY <1>0, CountedFacts DEF Ending
<1>5. taken[k] \in Seq(Bytes) /\ given[k] \in Seq(Bytes)
  BY <1>0 DEF BInv
<1> QED BY <1>0, <1>1, <1>2, <1>3, <1>4, <1>5 DEF Early

\* The first bit of the address byte.
LEMMA FallsToStart ==
    ASSUME NEW b \in [Targets -> Answers \cup {Defer}], TargetsSync(b), NEW k \in Targets, Falling(k),
           m.index = 0, m.bit = 0, InByte(m, k, target[k], 0, 0, 0)
    PROVE  InByte(m, k, target'[k], 0, 0, 0) /\ Recorded(m, k, target'[k], taken'[k], given'[k])
<1> DEFINE t == target[k]
           u == target'[k]
<1>1. /\ FellInByte(u, t) /\ Early(m, t) /\ ~Early(m, u)
      /\ ~Idling(t.state) => Exchanged(u, t, taken[k], taken'[k], given[k], given'[k])
      /\ Recorded(m, k, t, taken[k], given[k])
  BY FallingFacts DEF Falling
<1>2. InByte(m, k, t, 0, 0, 0)
  OBVIOUS
<1> HIDE DEF t, u
<1>3. t.state = "ADDR" /\ t.nbits = 0 /\ ~t.low
  BY <1>2 DEF InByte
<1>4. ~Idling(t.state) /\ t.nbits < ByteBits /\ t.nbits # ByteBits /\ t.nbits # ByteBits + 1
  BY <1>3 DEF Idling
<1>5. u.state = "ADDR" /\ u.nbits = 0 /\ ~u.low /\ u.cur = t.cur /\ ~u.deferred
  BY <1>1, <1>3, <1>4 DEF FellInByte
<1>6. InByte(m, k, u, 0, 0, 0)
  BY <1>5 DEF InByte, Spells
<1>7. taken'[k] = taken[k] /\ given'[k] = given[k]
  BY <1>1, <1>4 DEF Exchanged, Takes, Asks
<1>8. WrittenTo(m, u) = WrittenTo(m, t) /\ ReadFrom(m, u) = ReadFrom(m, t)
  BY DEF WrittenTo, ReadFrom
<1>9. Recorded(m, k, u, taken[k], given[k])
  BY <1>1, <1>5, <1>8, RecordedSame
<1> QED BY <1>6, <1>7, <1>9 DEF u

\* The next byte.
LEMMA FallsToByte ==
    ASSUME NEW b \in [Targets -> Answers \cup {Defer}], TargetsSync(b), NEW k \in Targets, Falling(k),
           m.index > 0, m.bit = 0, ByteDone(m, k, target[k], m.index - 1)
    PROVE  InByte(m, k, target'[k], m.index, 0, 0) /\ Recorded(m, k, target'[k], taken'[k], given'[k])
<1> DEFINE t == target[k]
           u == target'[k]
<1>1. /\ Early(m, t) /\ ~Early(m, u) /\ m.index \in Nat /\ m.second \in BOOLEAN
      /\ FellIdle(u, t) /\ FellToNext(u, t)
      /\ ~Idling(t.state) => Exchanged(u, t, taken[k], taken'[k], given[k], given'[k])
      /\ Idling(t.state) => taken'[k] = taken[k] /\ given'[k] = given[k]
      /\ m.index <= Segment(m) /\ m.req.nread \in Nat
      /\ given[k] \in Seq(Bytes)
      /\ Recorded(m, k, t, taken[k], given[k]) /\ ~t.deferred /\ m.phase = "BIT_SET"
      /\ (m.rx <=> m.second /\ m.index > 0)
  BY FallingFacts DEF Falling, Counted
<1>2. ByteDone(m, k, t, m.index - 1)
  OBVIOUS
<1>3. m.index # 0 /\ (m.index - 1 = 0 \/ m.index - 1 > 0) /\ 0 # ByteBits /\ 0 < ByteBits
  BY <1>1
<1>4. WrittenTo(m, u) = WrittenTo(m, t) /\ (~m.second => ReadFrom(m, t) = 0 /\ ReadFrom(m, u) = 0)
  BY <1>1, <1>3 DEF WrittenTo, ReadFrom
<1>5. m.second => /\ ReadFrom(m, t) = m.index - 1
                  /\ ReadFrom(m, u) = IF u.deferred THEN m.index - 1 ELSE m.index
  BY <1>1, <1>3 DEF ReadFrom
<1> HIDE DEF t, u
<1>6. CASE k \notin CalledBy(m)
  <2>1. t.state = "WAIT"
    BY <1>2, <1>6 DEF ByteDone
  <2>2. u.state = "WAIT" /\ ~u.low /\ ~u.deferred /\ taken'[k] = taken[k] /\ given'[k] = given[k]
    BY <1>1, <2>1 DEF FellIdle, Idling
  <2>3. InByte(m, k, u, m.index, 0, 0)
    BY <1>3, <1>6, <2>2 DEF InByte
  <2> QED BY <1>1, <1>6, <2>2, <2>3 DEF Recorded, u
<1>7. CASE k \in CalledBy(m)
  <2>1. t.nbits = ByteBits + 1 /\ ~Idling(t.state)
    BY <1>1, <1>2, <1>3, <1>7 DEF ByteDone, Idling
  <2>2. ~Takes(t) /\ (Asks(t) <=> ToRead(t))
    BY <2>1 DEF Takes, Asks
  <2>3. taken'[k] = taken[k]
    BY <1>1, <2>1, <2>2 DEF Exchanged
  <2>4. taken[k] = SubSeq(m.req.write, 1, WrittenTo(m, t)) /\ Len(given[k]) = ReadFrom(m, t)
    BY <1>1, <1>7 DEF Recorded
  <2>5. CASE m.second
    <3>1. ToRead(t)
      <4>1. CASE m.index - 1 = 0
        BY <1>2, <1>7, <2>5, <4>1 DEF ByteDone, ToRead
      <4>2. CASE m.index - 1 > 0
        <5>1. t.state = "READ" /\ (t.masterAck <=> m.index - 1 < m.req.nread)
          BY <1>2, <1>7, <2>5, <4>2 DEF ByteDone
        <5>2. m.index - 1 < m.req.nread
          BY <1>1, <2>5 DEF Segment
        <5> QED BY <5>1, <5>2 DEF ToRead
      <4> QED BY <1>3, <4>1, <4>2
    <3>2. /\ u.nbits = 0 /\ u.state = "READ" /\ (u.deferred => ~u.low)
          /\ (~u.deferred => (u.low <=> ~u.cur[1]))
      BY <1>1, <2>1, <3>1 DEF FellToNext
    <3>3. InByte(m, k, u, m.index, 0, 0)
      <4>1. ~u.deferred => (u.low <=> ~u.cur[0 + 1])
        BY <3>2
      <4>2. u.state = "READ" /\ u.nbits = 0 + 0
        BY <3>2
      <4> QED BY <1>1, <1>3, <1>7, <2>5, <4>1, <4>2 DEF InByte
    <3>4. Len(given'[k]) = ReadFrom(m, u)
          /\ (m.rx /\ ReadFrom(m, u) = m.index => u.cur = given'[k][m.index])
      <4>1. CASE u.deferred
        <5>1. given'[k] = given[k] /\ ReadFrom(m, u) = m.index - 1
          BY <1>1, <1>5, <2>1, <2>2, <2>5, <3>1, <4>1 DEF Exchanged
        <5>2. m.index - 1 # m.index
          BY <1>1
        <5> QED BY <1>5, <2>4, <2>5, <5>1, <5>2
      <4>2. CASE ~u.deferred
        <5>1. given'[k] = Append(given[k], u.cur) /\ ReadFrom(m, u) = m.index
          BY <1>1, <1>5, <2>1, <2>2, <2>5, <3>1, <4>2 DEF Exchanged
        <5>2. Len(given[k]) = m.index - 1
          BY <1>5, <2>4, <2>5
        <5> QED BY <1>1, <5>1, <5>2
      <4> QED BY <4>1, <4>2
    <3> QED BY <1>1, <1>4, <1>7, <2>3, <2>4, <3>3, <3>4 DEF Recorded, u
  <2>6. CASE ~m.second
    <3>1. ~ToRead(t) /\ u.state = "WRITE" /\ u.nbits = 0 /\ ~u.low /\ ~u.deferred
      <4>1. CASE m.index - 1 = 0
        <5>1. t.state = "ADDR" /\ ~t.shift[ByteBits]
          BY <1>2, <1>7, <2>6, <4>1 DEF ByteDone
        <5> QED BY <1>1, <2>1, <5>1 DEF FellToNext, ToRead
      <4>2. CASE m.index - 1 > 0
        <5>1. t.state = "WRITE"
          BY <1>2, <1>7, <2>6, <4>2 DEF ByteDone
        <5> QED BY <1>1, <2>1, <5>1 DEF FellToNext, ToRead
      <4> QED BY <1>3, <4>1, <4>2
    <3>2. given'[k] = given[k]
      BY <1>1, <2>1, <2>2, <3>1 DEF Exchanged
    <3>3. InByte(m, k, u, m.index, 0, 0)
      BY <1>1, <1>3, <1>7, <2>6, <3>1 DEF InByte, Spells
    <3> QED BY <1>1, <1>4, <1>7, <2>3, <2>4, <2>6, <3>2, <3>3 DEF Recorded, u
  <2> QED BY <1>1, <2>5, <2>6
<1> QED BY <1>6, <1>7

\* The next bit of the byte, or its acknowledge: not called, the address, a
\* byte written, a byte read.
LEMMA FallsUncalled ==
    ASSUME NEW b \in [Targets -> Answers \cup {Defer}], TargetsSync(b), NEW k \in Targets, Falling(k),
           m.bit > 0, InByte(m, k, target[k], m.index, m.bit - 1, 1), m.index > 0, k \notin CalledBy(m)
    PROVE  /\ InByte(m, k, target'[k], m.index, m.bit, 0)
           /\ Recorded(m, k, target'[k], taken'[k], given'[k])
<1> DEFINE t == target[k]
           u == target'[k]
<1>1. /\ FellIdle(u, t) /\ Recorded(m, k, t, taken[k], given[k]) /\ m.index \in Nat
      /\ (Idling(t.state) => taken'[k] = taken[k] /\ given'[k] = given[k])
  BY FallingFacts DEF Falling
<1>2. InByte(m, k, t, m.index, m.bit - 1, 1)
  OBVIOUS
<1> HIDE DEF t, u
<1>3. t.state = "WAIT"
  BY <1>2 DEF InByte
<1>4. u.state = "WAIT" /\ ~u.low /\ ~u.deferred /\ taken'[k] = taken[k] /\ given'[k] = given[k]
  BY <1>1, <1>3 DEF FellIdle, Idling
<1>5. m.index # 0
  BY <1>1
<1> QED BY <1>1, <1>4, <1>5 DEF InByte, Recorded, u

LEMMA FallsInAddress ==
    ASSUME NEW b \in [Targets -> Answers \cup {Defer}], TargetsSync(b), NEW k \in Targets, Falling(k),
           m.bit > 0, InByte(m, k, target[k], m.index, m.bit - 1, 1), m.index = 0
    PROVE  /\ InByte(m, k, target'[k], m.index, m.bit, 0)
           /\ Recorded(m, k, target'[k], taken'[k], given'[k])
<1> DEFINE t == target[k]
           u == target'[k]
<1>1. /\ FellInByte(u, t) /\ FellToAnswer(k, u, t) /\ m.bit \in 0..ByteBits /\ m.second \in BOOLEAN
      /\ ~Idling(t.state) => Exchanged(u, t, taken[k], taken'[k], given[k], given'[k])
      /\ Recorded(m, k, t, taken[k], given[k])
      /\ t \in Members /\ Row(t) /\ m.cur \in Bytes /\ m.req.addr \in Addresses
      /\ m.cur = AddressByte(m.req.addr, m.second) /\ ~m.rx
  BY FallingFacts DEF Falling, Counted
<1>2. InByte(m, k, t, 0, m.bit - 1, 1)
  OBVIOUS
<1>3. m.bit - 1 + 1 = m.bit /\ m.bit - 1 < ByteBits
  BY <1>1
<1> HIDE DEF t, u
<1>4. t.state = "ADDR" /\ t.nbits = m.bit /\ ~t.low /\ Spells(m, t, m.bit)
  BY <1>2, <1>3 DEF InByte
<1>5. ~Idling(t.state) /\ t.nbits # ByteBits + 1
  BY <1>1, <1>4 DEF Idling
<1>6. taken'[k] = taken[k] /\ given'[k] = given[k]
  BY <1>1, <1>4, <1>5 DEF Exchanged, Takes, Asks
<1>7. WrittenTo(m, u) = WrittenTo(m, t) /\ ReadFrom(m, u) = ReadFrom(m, t)
  BY DEF WrittenTo, ReadFrom
<1>8. CASE m.bit < ByteBits
  <2>1. u.state = "ADDR" /\ u.nbits = m.bit /\ ~u.low /\ u.shift = t.shift /\ u.cur = t.cur /\ ~u.deferred
    BY <1>1, <1>4, <1>5, <1>8 DEF FellInByte
  <2>2. Spells(m, u, m.bit)
    BY <1>4, <2>1 DEF Spells
  <2>3. m.bit + 0 = m.bit /\ m.bit # ByteBits
    BY <1>1, <1>8
  <2>4. InByte(m, k, u, 0, m.bit, 0)
    BY <2>1, <2>2, <2>3 DEF InByte
  <2>5. Recorded(m, k, u, taken[k], given[k])
    BY <1>1, <1>7, <2>1, RecordedSame
  <2> QED BY <1>6, <2>4, <2>5 DEF u
<1>9. CASE m.bit = ByteBits
  <2>1. t.shift \in [1..ByteBits -> BOOLEAN]
    BY <1>1, <1>4, <1>9 DEF Row
  <2>2. \A j \in 1..ByteBits : t.shift[j] = AddressByte(m.req.addr, m.second)[j]
    BY <1>1, <1>4, <1>9 DEF Spells
  <2>3. SubSeq(t.shift, 1, ByteBits - 1) = m.req.addr
    <3> DEFINE s == t.shift
               a == m.req.addr
               x == m.second
    <3>1. /\ s \in [1..ByteBits -> BOOLEAN] /\ a \in Addresses /\ x \in BOOLEAN
          /\ \A j \in 1..ByteBits : s[j] = AddressByte(a, x)[j]
      BY <1>1, <2>1, <2>2
    <3> HIDE DEF s, a, x
    <3>2. SubSeq(s, 1, ByteBits - 1) = a
      BY <3>1, SpelledAddress
    <3> QED BY <3>2 DEF s, a
  <2>4. k \in CalledBy(m) <=> SubSeq(t.shift, 1, ByteBits - 1) \in Listens[k]
    BY <2>3 DEF CalledBy
  <2>5. /\ u.nbits = ByteBits /\ u.shift = t.shift /\ u.cur = t.cur /\ ~u.deferred
        /\ k \in CalledBy(m) => u.state = "ADDR" /\ u.low
        /\ k \notin CalledBy(m) => u.state = "WAIT" /\ ~u.low
    BY <1>1, <1>4, <1>5, <1>9, <2>4 DEF FellToAnswer
  <2>6. Spells(m, u, ByteBits)
    BY <1>4, <1>9, <2>5 DEF Spells
  <2>7. ByteBits + 0 = ByteBits /\ ~(ByteBits < ByteBits)
    OBVIOUS
  <2>8. InByte(m, k, u, 0, m.bit, 0)
    BY <1>9, <2>5, <2>6, <2>7 DEF InByte
  <2>9. Recorded(m, k, u, taken[k], given[k])
    BY <1>1, <1>7, <2>5, RecordedSame
  <2> QED BY <1>6, <2>8, <2>9 DEF u
<1> QED BY <1>1, <1>8, <1>9

LEMMA FallsInWrite ==
    ASSUME NEW b \in [Targets -> Answers \cup {Defer}], TargetsSync(b), NEW k \in Targets, Falling(k),
           m.bit > 0, InByte(m, k, target[k], m.index, m.bit - 1, 1), m.index > 0, k \in CalledBy(m),
           ~m.second
    PROVE  /\ InByte(m, k, target'[k], m.index, m.bit, 0)
           /\ Recorded(m, k, target'[k], taken'[k], given'[k])
<1> DEFINE t == target[k]
           u == target'[k]
<1>1. /\ FellInByte(u, t) /\ FellToAnswer(k, u, t) /\ m.bit \in 0..ByteBits /\ m.index \in Nat
      /\ ~Idling(t.state) => Exchanged(u, t, taken[k], taken'[k], given[k], given'[k])
      /\ Recorded(m, k, t, taken[k], given[k])
      /\ t \in Members /\ Row(t) /\ m.cur \in Bytes /\ m.req.write \in Seq(Bytes)
      /\ m.index <= Segment(m) /\ Len(m.req.write) \in Nat
      /\ m.cur = m.req.write[m.index] /\ ~m.rx
      /\ Early(m, t) /\ ~Early(m, u) /\ m.phase = "BIT_SET"
  BY FallingFacts DEF Falling, Counted
<1>2. InByte(m, k, t, m.index, m.bit - 1, 1)
  OBVIOUS
<1>3. m.bit - 1 + 1 = m.bit /\ m.bit - 1 < ByteBits /\ m.bit - 1 # ByteBits /\ m.index # 0
  BY <1>1
<1> HIDE DEF t, u
<1>4. t.state = "WRITE" /\ t.nbits = m.bit /\ ~t.low /\ Spells(m, t, m.bit)
  BY <1>2, <1>3 DEF InByte
<1>5. ~Idling(t.state) /\ t.nbits # ByteBits + 1
  BY <1>1, <1>4 DEF Idling
<1>6. given'[k] = given[k]
  BY <1>1, <1>5 DEF Exchanged, Asks
<1>7. /\ WrittenTo(m, t) = m.index - 1
      /\ WrittenTo(m, u) = IF m.bit = ByteBits THEN m.index ELSE m.index - 1
      /\ ReadFrom(m, u) = 0 /\ ReadFrom(m, t) = 0
  BY <1>1, <1>3 DEF WrittenTo, ReadFrom, Slots
<1>8. taken[k] = SubSeq(m.req.write, 1, m.index - 1) /\ Len(given[k]) = 0
  BY <1>1, <1>7 DEF Recorded
<1>9. CASE m.bit < ByteBits
  <2>1. u.state = "WRITE" /\ u.nbits = m.bit /\ ~u.low /\ u.shift = t.shift /\ u.cur = t.cur /\ ~u.deferred
    BY <1>1, <1>4, <1>5, <1>9 DEF FellInByte
  <2>2. Spells(m, u, m.bit)
    BY <1>4, <2>1 DEF Spells
  <2>3. m.bit + 0 = m.bit /\ m.bit # ByteBits
    BY <1>1, <1>9
  <2>4. InByte(m, k, u, m.index, m.bit, 0)
    BY <1>3, <1>9, <2>1, <2>2, <2>3 DEF InByte
  <2>5. taken'[k] = taken[k]
    BY <1>1, <1>4, <1>5, <2>3 DEF Exchanged, Takes
  <2>6. Recorded(m, k, u, taken[k], given[k])
    BY <1>1, <1>7, <2>1, <2>3, RecordedSame
  <2> QED BY <1>6, <2>4, <2>5, <2>6 DEF u
<1>10. CASE m.bit = ByteBits
  <2>1. t.shift \in [1..ByteBits -> BOOLEAN]
    BY <1>1, <1>4, <1>10 DEF Row
  <2>2. \A j \in 1..ByteBits : t.shift[j] = m.cur[j]
    BY <1>4, <1>10 DEF Spells
  <2>3. t.shift = m.cur
    <3>1. t.shift = [j \in 1..ByteBits |-> t.shift[j]] /\ m.cur = [j \in 1..ByteBits |-> m.cur[j]]
      BY <1>1, <2>1 DEF Bytes
    <3> QED BY <2>2, <3>1
  <2>4. u.nbits = ByteBits /\ u.shift = t.shift /\ ~u.deferred /\ u.state = "WRITE" /\ u.low
    BY <1>1, <1>4, <1>5, <1>10 DEF FellToAnswer
  <2>5. Spells(m, u, ByteBits)
    BY <2>2, <2>4 DEF Spells
  <2>6. ByteBits + 0 = ByteBits /\ ~(ByteBits < ByteBits)
    OBVIOUS
  <2>7. InByte(m, k, u, m.index, m.bit, 0)
    BY <1>3, <1>10, <2>4, <2>5, <2>6 DEF InByte
  <2>8. taken'[k] = Append(taken[k], t.shift)
    BY <1>1, <1>4, <1>5, <1>10 DEF Exchanged, Takes
  <2>9. taken'[k] = SubSeq(m.req.write, 1, m.index)
    <3>1. m.index \in 1..Len(m.req.write)
      BY <1>1 DEF Segment
    <3>2. SubSeq(m.req.write, 1, m.index)
              = Append(SubSeq(m.req.write, 1, m.index - 1), m.req.write[m.index])
      BY <1>1, <3>1, OneMore
    <3> QED BY <1>1, <1>8, <2>3, <2>8, <3>2
  <2>10. Recorded(m, k, u, taken'[k], given[k])
    BY <1>1, <1>7, <1>8, <1>10, <2>9 DEF Recorded
  <2> QED BY <1>6, <2>7, <2>10 DEF u
<1> QED BY <1>1, <1>9, <1>10

LEMMA FallsInRead ==
    ASSUME NEW b \in [Targets -> Answers \cup {Defer}], TargetsSync(b), NEW k \in Targets, Falling(k),
           m.bit > 0, InByte(m, k, target[k], m.index, m.bit - 1, 1), m.index > 0, k \in CalledBy(m),
           m.second
    PROVE  /\ InByte(m, k, target'[k], m.index, m.bit, 0)
           /\ Recorded(m, k, target'[k], taken'[k], given'[k])
<1> DEFINE t == target[k]
           u == target'[k]
<1>1. /\ FellInByte(u, t) /\ FellToAnswer(k, u, t) /\ m.bit \in 0..ByteBits /\ m.index \in Nat
      /\ ~Idling(t.state) => Exchanged(u, t, taken[k], taken'[k], given[k], given'[k])
      /\ Recorded(m, k, t, taken[k], given[k]) /\ ~t.deferred
      /\ Early(m, t) /\ ~Early(m, u) /\ m.phase = "BIT_SET"
  BY FallingFacts DEF Falling
<1>2. InByte(m, k, t, m.index, m.bit - 1, 1)
  OBVIOUS
<1>3. m.bit - 1 + 1 = m.bit /\ m.bit - 1 < ByteBits /\ m.bit - 1 # ByteBits /\ m.index # 0
      /\ m.bit # 0
  BY <1>1
<1> HIDE DEF t, u
<1>4. t.state = "READ" /\ t.nbits = m.bit
  BY <1>2, <1>3 DEF InByte
<1>5. ~Idling(t.state) /\ t.nbits # ByteBits + 1
  BY <1>1, <1>4 DEF Idling
<1>6. taken'[k] = taken[k] /\ given'[k] = given[k]
  BY <1>1, <1>4, <1>5 DEF Exchanged, Takes, Asks
<1>7. WrittenTo(m, u) = WrittenTo(m, t) /\ ReadFrom(m, t) = m.index
      /\ (~u.deferred => ReadFrom(m, u) = m.index)
  BY <1>1, <1>3 DEF WrittenTo, ReadFrom
<1>8. CASE m.bit < ByteBits
  <2>1. /\ u.state = "READ" /\ u.nbits = m.bit /\ u.cur = t.cur /\ ~u.deferred
        /\ u.low <=> ~t.cur[m.bit + 1]
    BY <1>1, <1>3, <1>4, <1>5, <1>8 DEF FellInByte
  <2>2. m.bit + 0 = m.bit /\ m.bit # ByteBits
    BY <1>1, <1>8
  <2>3. InByte(m, k, u, m.index, m.bit, 0)
    BY <1>3, <1>8, <2>1, <2>2 DEF InByte
  <2>4. Recorded(m, k, u, taken[k], given[k])
    BY <1>1, <1>7, <2>1, RecordedSame
  <2> QED BY <1>6, <2>3, <2>4 DEF u
<1>9. CASE m.bit = ByteBits
  <2>1. u.state = "READ" /\ u.nbits = ByteBits /\ u.cur = t.cur /\ ~u.deferred /\ ~u.low
    BY <1>1, <1>4, <1>5, <1>9 DEF FellToAnswer
  <2>2. ByteBits + 0 = ByteBits /\ ~(ByteBits < ByteBits)
    OBVIOUS
  <2>3. InByte(m, k, u, m.index, m.bit, 0)
    BY <1>3, <1>9, <2>1, <2>2 DEF InByte
  <2>4. Recorded(m, k, u, taken[k], given[k])
    BY <1>1, <1>7, <2>1, RecordedSame
  <2> QED BY <1>6, <2>3, <2>4 DEF u
<1> QED BY <1>1, <1>8, <1>9

\* What a synchronisation must keep of the target k in a byte.
InBooks(k) ==
    Placed(m, k, target[k]) /\ Recorded(m, k, target[k], taken[k], given[k])

LEMMA SetSync ==
    ASSUME BInv, m.busy, m.phase = "BIT_SET", Counted(m), ClockFalls,
           NEW b \in [Targets -> Answers \cup {Defer}], TargetsSync(b), NEW k \in Targets, InBooks(k)
    PROVE  Placed(m, k, target'[k]) /\ Recorded(m, k, target'[k], taken'[k], given'[k])
<1> DEFINE t == target[k]
           u == target'[k]
<1>1. /\ ~line["scl"] /\ t.known /\ t.scl \in BOOLEAN /\ ~u.scl
      /\ m.bit \in 0..ByteBits /\ m.index \in Nat
  BY SyncStep, LineFacts, TargetFacts, CountedFacts DEF ClockFalls, LevelsSeen, Ending
<1>2. InSlot(m, k, t) /\ Recorded(m, k, t, taken[k], given[k])
  BY DEF InBooks, Placed, Slots
<1>3. SUFFICES InByte(m, k, u, m.index, m.bit, 0) /\ Recorded(m, k, u, taken'[k], given'[k])
  BY <1>1 DEF Placed, InSlot, Early, Falls
<1>4. CASE ~t.scl
  <2>1. Kept(u, t) /\ taken'[k] = taken[k] /\ given'[k] = given[k]
    BY <1>1, <1>4, SyncQuiet
  <2>2. InByte(m, k, t, m.index, m.bit, 0)
    BY <1>2, <1>4 DEF InSlot, Early
  <2>3. ~Early(m, t) /\ ~Early(m, u)
    BY <1>1, <1>4 DEF Early
  <2> HIDE DEF t, u
  <2>4. InByte(m, k, u, m.index, m.bit, 0)
    BY <2>1, <2>2 DEF InByte, Kept, Spells
  <2>5. WrittenTo(m, u) = WrittenTo(m, t) /\ ReadFrom(m, u) = ReadFrom(m, t) /\ u.cur = t.cur
    BY <2>1, <2>3 DEF WrittenTo, ReadFrom, Kept
  <2>6. Recorded(m, k, u, taken[k], given[k])
    BY <1>2, <2>5, RecordedSame
  <2> QED BY <2>1, <2>4, <2>6 DEF u
<1>5. CASE t.scl
  <2>1. ~t.deferred
    BY <1>5 DEF ClockFalls
  <2>2. Falling(k)
    BY <1>1, <1>2, <1>5, <2>1 DEF Falling
  <2>3. Early(m, t)
    BY <1>5 DEF Early
  <2>4. CASE m.bit > 0
    <3>1. InByte(m, k, target[k], m.index, m.bit - 1, 1)
      BY <1>2, <2>3, <2>4 DEF InSlot
    <3>2. CASE m.index = 0
      BY <2>2, <2>4, <3>1, <3>2, FallsInAddress
    <3>3. CASE m.index > 0
      BY <2>2, <2>4, <3>1, <3>3, FallsUncalled, FallsInWrite, FallsInRead
    <3> QED BY <1>1, <3>2, <3>3
  <2>5. CASE m.bit = 0 /\ m.index > 0
    <3>1. ByteDone(m, k, target[k], m.index - 1)
      BY <1>2, <2>3, <2>5 DEF InSlot
    <3> QED BY <2>2, <2>5, <3>1, FallsToByte
  <2>6. CASE m.bit = 0 /\ m.index = 0
    <3>1. InByte(m, k, target[k], 0, 0, 0)
      BY <1>2, <2>3, <2>6 DEF InSlot
    <3> QED BY <2>2, <2>6, <3>1, FallsToStart
  <2> QED BY <1>1, <2>4, <2>5, <2>6
<1> QED BY <1>1, <1>4, <1>5

LEMMA LowSync ==
    ASSUME BInv, m.busy, m.phase = "BIT_SCL_HIGH", Counted(m), ClockLow,
           NEW b \in [Targets -> Answers \cup {Defer}], TargetsSync(b), NEW k \in Targets, InBooks(k)
    PROVE  Placed(m, k, target'[k]) /\ Recorded(m, k, target'[k], taken'[k], given'[k])
<1> DEFINE t == target[k]
           u == target'[k]
<1>1. ~line["scl"] /\ t.known /\ ~t.scl /\ ~u.scl
  BY SyncStep DEF ClockLow, LevelsSeen
<1>2. InSlot(m, k, t) /\ Recorded(m, k, t, taken[k], given[k])
  BY DEF InBooks, Placed, Slots
<1>3. Kept(u, t) /\ taken'[k] = taken[k] /\ given'[k] = given[k]
  BY <1>1, SyncQuiet
<1>4. InByte(m, k, t, m.index, m.bit, 0)
  BY <1>1, <1>2 DEF InSlot, Early
<1>5. ~Early(m, t) /\ ~Early(m, u)
  BY <1>1 DEF Early
<1> HIDE DEF t, u
<1>6. InByte(m, k, u, m.index, m.bit, 0)
  BY <1>3, <1>4 DEF InByte, Kept, Spells
<1>7. WrittenTo(m, u) = WrittenTo(m, t) /\ ReadFrom(m, u) = ReadFrom(m, t) /\ u.cur = t.cur
  BY <1>3, <1>5 DEF WrittenTo, ReadFrom, Kept
<1>8. Recorded(m, k, u, taken[k], given[k])
  BY <1>2, <1>7, RecordedSame
<1>9. Placed(m, k, u)
  BY <1>1, <1>5, <1>6 DEF Placed, InSlot, Slots
<1> QED BY <1>3, <1>8, <1>9 DEF u

\* The bit on SDA while the clock rises.
LEMMA WireCarries ==
    ASSUME BInv, m.busy, m.phase = "BIT_SAMPLE", Counted(m), ClockRises, other = {},
           \A k \in Targets : Placed(m, k, target[k])
    PROVE  /\ ~(m.second /\ m.index > 0) /\ m.bit < ByteBits => (line["sda"] <=> m.cur[m.bit + 1])
           /\ m.second /\ m.index > 0 /\ m.bit = ByteBits => (~line["sda"] <=> m.index < m.req.nread)
<1>1. m.bit \in 0..ByteBits /\ m.index \in Nat /\ m.second \in BOOLEAN
  BY CountedFacts DEF Ending
<1>2. line["sda"] <=> "sda" \notin m.pulls /\ \A k \in Targets : ~target[k].low
  BY LineFacts DEF ClockRises, Steady
<1>3. /\ "sda" \in m.pulls <=> IF m.bit < ByteBits THEN ~m.rx /\ ~m.cur[m.bit + 1]
                                                   ELSE m.rx /\ m.index < m.req.nread
      /\ m.rx <=> m.second /\ m.index > 0
  BY DEF Counted
<1>4. ASSUME NEW k \in Targets, ~(m.second /\ m.index > 0), m.bit < ByteBits
      PROVE  ~target[k].low
  <2> DEFINE e == IF target[k].scl THEN 1 ELSE 0
  <2>1. InByte(m, k, target[k], m.index, m.bit, e)
    BY DEF Placed, InSlot, Slots, Early
  <2> HIDE DEF e
  <2>2. m.index = 0 \/ (m.index > 0 /\ ~m.second)
    BY <1>1, <1>4
  <2>3. m.bit # ByteBits
    BY <1>4
  <2> QED BY <1>1, <1>4, <2>1, <2>2, <2>3 DEF InByte
<1>5. ASSUME NEW k \in Targets, m.second, m.index > 0, m.bit = ByteBits
      PROVE  ~target[k].low
  <2> DEFINE e == IF target[k].scl THEN 1 ELSE 0
  <2>1. InByte(m, k, target[k], m.index, m.bit, e)
    BY DEF Placed, InSlot, Slots, Early
  <2> HIDE DEF e
  <2> QED BY <1>1, <1>5, <2>1 DEF InByte
<1> QED BY <1>2, <1>3, <1>4, <1>5

LEMMA SampleSync ==
    ASSUME BInv, m.busy, m.phase = "BIT_SAMPLE", Counted(m), ClockRises, other = {},
           \A j \in Targets : Placed(m, j, target[j]),
           NEW b \in [Targets -> Answers \cup {Defer}], TargetsSync(b), NEW k \in Targets, InBooks(k),
           ~Seen(k)
    PROVE  Placed(m, k, target'[k]) /\ Recorded(m, k, target'[k], taken'[k], given'[k])
<1> DEFINE t == target[k]
           u == target'[k]
<1>1. /\ line["scl"] /\ t.known /\ ~t.scl /\ u.scl /\ ~t.deferred
      /\ m.bit \in 0..ByteBits /\ m.index \in Nat /\ m.second \in BOOLEAN /\ m.cur \in Bytes
  BY SyncStep, LineFacts, TargetFacts, CountedFacts DEF ClockRises, Seen, LevelsSeen, Ending
<1>2. InSlot(m, k, t) /\ Recorded(m, k, t, taken[k], given[k])
  BY DEF InBooks, Placed, Slots
<1>3. Rose(u, t) /\ taken'[k] = taken[k] /\ given'[k] = given[k]
  BY <1>1, SyncQuiet
<1>4. InByte(m, k, t, m.index, m.bit, 0)
  BY <1>1, <1>2 DEF InSlot, Early
<1>5. ~Early(m, t) /\ ~Early(m, u)
  BY <1>1 DEF Early
<1>6. t \in Members /\ Row(t)
  BY TargetFacts
<1> HIDE DEF t, u
<1>7. u.low = t.low /\ ~u.deferred /\ u.cur = t.cur /\ u.state = t.state
  BY <1>1, <1>3 DEF Rose
\* The bits it has spell one more, when it has them to tell.
<1>8. ASSUME t.state \in {"ADDR", "WRITE"}, t.nbits = m.bit, Spells(m, t, m.bit), m.bit < ByteBits,
             ~(m.second /\ m.index > 0)
      PROVE  Spells(m, u, m.bit + 1)
  <2>1. t.shift \in [1..m.bit -> BOOLEAN]
    BY <1>6, <1>8 DEF Row
  <2>2. u.shift = Append(t.shift, line["sda"])
    BY <1>3, <1>8 DEF Rose
  <2>3. line["sda"] \in BOOLEAN /\ m.bit \in Nat
    BY <1>1, LineFacts
  <2>4. /\ Append(t.shift, line["sda"])[m.bit + 1] = line["sda"]
        /\ \A i \in 1..m.bit : Append(t.shift, line["sda"])[i] = t.shift[i]
    <3> DEFINE s == t.shift
               x == line["sda"]
               n == m.bit
    <3>1. n \in Nat /\ s \in [1..n -> BOOLEAN] /\ x \in BOOLEAN
      BY <2>1, <2>3
    <3> HIDE DEF s, x, n
    <3>2. Append(s, x)[n + 1] = x /\ \A i \in 1..n : Append(s, x)[i] = s[i]
      BY <3>1, RowGrows
    <3> QED BY <3>2 DEF s, x, n
  <2>5. line["sda"] = m.cur[m.bit + 1]
    <3>1. line["sda"] <=> m.cur[m.bit + 1]
      BY <1>8, WireCarries
    <3>2. m.cur[m.bit + 1] \in BOOLEAN
      BY <1>1, <1>8 DEF Bytes
    <3> QED BY <2>3, <3>1, <3>2
  <2>6. ASSUME NEW j \in 1..(m.bit + 1) PROVE u.shift[j] = m.cur[j]
    <3>1. j \in 1..m.bit \/ j = m.bit + 1
      BY <1>1
    <3> QED BY <1>8, <2>2, <2>4, <2>5, <3>1 DEF Spells
  <2> QED BY <2>6 DEF Spells
<1>9. ASSUME t.state \in {"ADDR", "WRITE"}, t.nbits = ByteBits, Spells(m, t, ByteBits)
      PROVE  Spells(m, u, ByteBits)
  BY <1>3, <1>9 DEF Rose, Spells
<1>10. t.state \in {"ADDR", "WRITE", "READ"} => u.nbits = t.nbits + 1
  BY <1>3 DEF Rose, Idling
<1>11. InByte(m, k, u, m.index, m.bit, 1)
  <2>1. m.bit + 0 = m.bit /\ (m.bit < ByteBits \/ m.bit = ByteBits) /\ (m.index = 0 \/ m.index > 0)
        /\ ~(m.bit < ByteBits /\ m.bit = ByteBits) /\ ~(m.index = 0 /\ m.index > 0)
    BY <1>1
  <2>2. CASE m.index = 0 /\ m.bit < ByteBits
    <3>1. t.state = "ADDR" /\ t.nbits = m.bit /\ ~t.low /\ Spells(m, t, m.bit)
      BY <1>4, <2>1, <2>2 DEF InByte
    <3>2. Spells(m, u, m.bit + 1)
      BY <1>8, <2>2, <2>1, <3>1
    <3> QED BY <1>7, <1>10, <2>1, <2>2, <3>1, <3>2 DEF InByte
  <2>3. CASE m.index = 0 /\ m.bit = ByteBits /\ k \in CalledBy(m)
    <3>1. t.state = "ADDR" /\ t.nbits = m.bit /\ t.low /\ Spells(m, t, ByteBits)
      BY <1>4, <2>1, <2>3 DEF InByte
    <3>2. Spells(m, u, ByteBits)
      BY <1>9, <2>3, <3>1
    <3> QED BY <1>7, <1>10, <2>1, <2>3, <3>1, <3>2 DEF InByte
  <2>4. CASE k \notin CalledBy(m) /\ (m.index > 0 \/ m.bit = ByteBits)
    <3>1. t.state = "WAIT" /\ ~t.low
      BY <1>4, <2>4 DEF InByte
    <3> QED BY <1>7, <2>1, <2>4, <3>1 DEF InByte
  <2>5. CASE m.index > 0 /\ k \in CalledBy(m) /\ ~m.second
    <3>1. /\ t.state = "WRITE" /\ t.nbits = m.bit /\ (t.low <=> m.bit = ByteBits)
          /\ Spells(m, t, m.bit)
      BY <1>4, <2>1, <2>5 DEF InByte
    <3>2. Spells(m, u, IF m.bit < ByteBits THEN m.bit + 1 ELSE ByteBits)
      <4>1. m.bit < ByteBits => Spells(m, u, m.bit + 1)
        BY <1>8, <2>5, <3>1
      <4>2. m.bit = ByteBits => Spells(m, u, ByteBits)
        BY <1>9, <3>1
      <4> QED BY <2>1, <4>1, <4>2
    <3> QED BY <1>7, <1>10, <2>1, <2>5, <3>1, <3>2 DEF InByte
  <2>6. CASE m.index > 0 /\ k \in CalledBy(m) /\ m.second
    <3>1. /\ t.state = "READ" /\ t.nbits = m.bit
          /\ m.bit < ByteBits => (t.low <=> ~t.cur[m.bit + 1])
          /\ m.bit = ByteBits => ~t.low
      BY <1>1, <1>4, <2>1, <2>6 DEF InByte
    <3>2. m.bit = ByteBits => (u.masterAck <=> m.index < m.req.nread)
      <4>1. m.bit = ByteBits => u.masterAck = ~line["sda"]
        BY <1>3, <3>1 DEF Rose
      <4>2. m.bit = ByteBits => (~line["sda"] <=> m.index < m.req.nread)
        BY <2>6, WireCarries
      <4> QED BY <4>1, <4>2
    <3> QED BY <1>7, <1>10, <2>1, <2>6, <3>1, <3>2 DEF InByte
  <2> QED BY <1>1, <2>1, <2>2, <2>3, <2>4, <2>5, <2>6
<1>12. WrittenTo(m, u) = WrittenTo(m, t) /\ ReadFrom(m, u) = ReadFrom(m, t)
  BY <1>1, <1>5, <1>7 DEF WrittenTo, ReadFrom
<1>13. Recorded(m, k, u, taken[k], given[k])
  BY <1>2, <1>7, <1>12, RecordedSame
<1>14. Placed(m, k, u)
  BY <1>1, <1>5, <1>11 DEF Placed, InSlot, Slots, u
<1> QED BY <1>3, <1>13, <1>14 DEF u

\* Out of a byte: the START, the STOP and what leads to them.
LEMMA OutOfByte ==
    ASSUME IInv, m.busy, clean, ~Starting(m), m.phase \notin Slots,
           NEW b \in [Targets -> Answers \cup {Defer}], TargetsSync(b), NEW k \in Targets, ~Seen(k)
    PROVE  Placed(m, k, target'[k]) /\ taken'[k] = taken[k] /\ given'[k] = given[k]
<1> DEFINE t == target[k]
           u == target'[k]
<1>1. /\ BInv /\ Wires /\ Placed(m, k, t) /\ m.phase # "IDLE" /\ m.phase \in Phases
      /\ u.sda = line["sda"] /\ u.scl = line["scl"] /\ ~t.deferred
      /\ line["scl"] \in BOOLEAN /\ line["sda"] \in BOOLEAN /\ t.scl \in BOOLEAN /\ t.sda \in BOOLEAN
  <2>1. BInv /\ Wires /\ Placed(m, k, t)
    BY DEF IInv, Places
  <2> QED BY <2>1, MasterFacts, LineFacts, TargetFacts, SyncStep DEF Underway, Masters, LevelsSeen
<1>2. Placed(m, k, t)
  BY <1>1
<1>3. CASE m.phase = "START_SCL_LOW"
  <2>1. t.known /\ t.scl /\ line["scl"] /\ ~line["sda"]
    BY <1>1, <1>3 DEF Wires, DataFalls, Seen
  <2>2. /\ u.state = "ADDR" /\ u.nbits = 0 /\ ~u.low /\ ~u.deferred
        /\ taken'[k] = taken[k] /\ given'[k] = given[k]
    BY <1>1, <2>1, SyncQuiet
  <2> HIDE DEF t, u
  <2>3. InByte(m, k, u, 0, 0, 0)
    BY <2>2 DEF InByte, Spells
  <2>4. Placed(m, k, u)
    BY <1>3, <2>2, <2>3 DEF Placed, Slots
  <2> QED BY <2>2, <2>4 DEF u
<1>4. CASE m.phase \in {"RS_SDA_RELEASE", "STOP_SDA_LOW"}
  <2>1. ClockFalls /\ Leaving(t)
    BY <1>1, <1>2, <1>4 DEF Wires, Falls, Placed
  <2>2. Leaving(u) /\ taken'[k] = taken[k] /\ given'[k] = given[k]
    BY <1>1, <2>1, SyncLeaves
  <2> HIDE DEF t, u
  <2>3. Placed(m, k, u)
    BY <1>4, <2>2 DEF Placed, Slots
  <2> QED BY <2>2, <2>3 DEF u
<1>5. CASE m.phase \in {"RS_SCL_RELEASE", "STOP_SCL_RELEASE"}
  <2>1. ClockLow /\ ~t.low /\ ~t.deferred
    BY <1>1, <1>2, <1>5 DEF Wires, Lows, Placed
  <2>2. Kept(u, t) /\ taken'[k] = taken[k] /\ given'[k] = given[k]
    BY <1>1, <2>1, SyncQuiet DEF ClockLow
  <2> HIDE DEF t, u
  <2>3. Placed(m, k, u)
    BY <1>5, <2>1, <2>2 DEF Placed, Slots, Kept
  <2> QED BY <2>2, <2>3 DEF u
<1>6. CASE m.phase \in {"START_CHECK", "STOP_SDA_RELEASE"}
  <2>1. ClockRises /\ ~t.low /\ ~t.deferred
    BY <1>1, <1>2, <1>6 DEF Wires, Placed, Starting
  <2>2. t.known /\ ~t.scl /\ line["scl"]
    BY <1>1, <2>1 DEF ClockRises, Seen
  <2>3. Rose(u, t) /\ taken'[k] = taken[k] /\ given'[k] = given[k]
    BY <1>1, <2>2, SyncQuiet
  <2> HIDE DEF t, u
  <2>4. Placed(m, k, u)
    BY <1>6, <2>1, <2>3 DEF Placed, Slots, Rose
  <2> QED BY <2>3, <2>4 DEF u
<1>7. CASE m.phase = "FINISH"
  <2>1. t.known /\ t.scl /\ line["scl"] /\ line["sda"]
    BY <1>1, <1>7 DEF Wires, DataRises, Seen
  <2>2. AtRest(u) /\ ~u.deferred /\ taken'[k] = taken[k] /\ given'[k] = given[k]
    BY <1>1, <2>1, SyncQuiet
  <2> HIDE DEF t, u
  <2>3. Placed(m, k, u)
    BY <1>7, <2>2 DEF Placed, Slots, AtRest
  <2> QED BY <2>2, <2>3 DEF u
<1> QED BY <1>1, <1>3, <1>4, <1>5, <1>6, <1>7 DEF Phases, Slots

LEMMA SyncPlaced ==
    ASSUME IInv, m.busy, clean, ~Starting(m),
           NEW b \in [Targets -> Answers \cup {Defer}], TargetsSync(b), NEW k \in Targets
    PROVE  /\ Placed(m, k, target'[k])
           /\ m.phase \notin Ending => Recorded(m, k, target'[k], taken'[k], given'[k])
<1>1. BInv /\ Wires /\ \A j \in Targets : Placed(m, j, target[j])
  BY DEF IInv, Places
<1>2. m.phase \notin Ending =>
          Counted(m) /\ \A j \in Targets : Recorded(m, j, target[j], taken[j], given[j])
  BY DEF IInv, Counts, Books
<1>3. CASE Seen(k)
  BY <1>1, <1>2, <1>3, SyncSeen
<1>4. CASE ~Seen(k) /\ m.phase \notin Slots
  <2>1. Placed(m, k, target'[k]) /\ taken'[k] = taken[k] /\ given'[k] = given[k]
    BY <1>4, OutOfByte
  <2>2. ASSUME m.phase \notin Ending PROVE Recorded(m, k, target'[k], taken[k], given[k])
    <3>1. m.index = 0 /\ ~m.rx
      BY <1>2, <1>4, <2>2 DEF Counted
    <3>2. /\ WrittenTo(m, target'[k]) = WrittenTo(m, target[k])
          /\ ReadFrom(m, target'[k]) = ReadFrom(m, target[k])
      BY <3>1 DEF WrittenTo, ReadFrom
    <3> QED BY <1>2, <2>2, <3>1, <3>2 DEF Recorded
  <2> QED BY <2>1, <2>2
<1>5. CASE ~Seen(k) /\ m.phase \in Slots
  <2>1. m.phase \notin Ending /\ other = {}
    BY <1>1, <1>5 DEF Slots, Ending, Wires
  <2>2. Counted(m) /\ InBooks(k)
    BY <1>1, <1>2, <2>1 DEF InBooks
  <2>3. CASE m.phase = "BIT_SET"
    BY <1>1, <2>2, <2>3, SetSync DEF Wires, Falls
  <2>4. CASE m.phase = "BIT_SCL_HIGH"
    BY <1>1, <2>2, <2>4, LowSync DEF Wires, Lows
  <2>5. CASE m.phase = "BIT_SAMPLE"
    BY <1>1, <1>5, <2>1, <2>2, <2>5, SampleSync DEF Wires
  <2>6. CASE m.phase = "BIT_SCL_LOW"
    BY <1>1, <1>5, <2>6 DEF Wires, ClockHigh
  <2> QED BY <1>5, <2>3, <2>4, <2>5, <2>6 DEF Slots
<1> QED BY <1>3, <1>4, <1>5

\* The byte that a target gives is not read yet.
LEMMA ReadsKept ==
    ASSUME BInv, m.busy, m.phase \notin Ending, Counted(m), Reads(m, given), NEW gs,
           \A k \in CalledBy(m) :
               \/ gs[k] = given[k]
               \/ /\ m.phase = "BIT_SET" /\ m.bit = 0 /\ m.second /\ m.index > 0
                  /\ Len(given[k]) = m.index - 1 /\ \E x \in Bytes : gs[k] = Append(given[k], x)
    PROVE  Reads(m, gs)
<1>1. m.index \in Nat /\ m.second \in BOOLEAN /\ m.rbuf \in Seq(Bytes) /\ Len(m.rbuf) \in Nat
  BY CountedFacts, LenProperties
<1>2. \A k \in CalledBy(m) : k \in Targets /\ given[k] \in Seq(Bytes)
  BY DEF BInv, CalledBy
<1>3. ASSUME NEW i \in 1..Len(m.rbuf), NEW k \in CalledBy(m) PROVE gs[k][i] = given[k][i]
  <2>1. CASE gs[k] = given[k]
    BY <2>1
  <2>2. CASE gs[k] # given[k]
    <3>1. m.second /\ m.index > 0 /\ Len(given[k]) = m.index - 1
      BY <2>2
    <3>2. PICK x \in Bytes : gs[k] = Append(given[k], x)
      BY <2>2
    <3>3. Len(m.rbuf) = m.index - 1
      BY <3>1 DEF Counted
    <3>4. i \in 1..Len(given[k])
      BY <3>1, <3>3
    <3> QED BY <1>2, <3>2, <3>4
  <2> QED BY <2>1, <2>2
<1>4. \A i \in 1..Len(m.rbuf) : \A j \in 1..ByteBits :
          m.rbuf[i][j] <=> Together(m, gs, i, j)
  BY <1>3 DEF Reads, Together
<1>5. ASSUME m.rx, NEW j \in 1..SampledBits(m) PROVE m.cur[j] <=> Together(m, gs, m.index, j)
  <2>1. \A k \in CalledBy(m) : gs[k] = given[k]
    <3>1. ~(m.phase = "BIT_SET" /\ m.bit = 0)
      BY <1>5 DEF SampledBits
    <3> QED BY <3>1
  <2>2. m.cur[j] <=> Together(m, given, m.index, j)
    BY <1>5 DEF Reads
  <2> QED BY <2>1, <2>2 DEF Together
<1> QED BY <1>4, <1>5 DEF Reads

\* A byte of a target is given where the master has not begun to read it.
LEMMA SyncReads ==
    ASSUME IInv, m.busy, clean, m.phase \notin Ending, ~Starting(m),
           NEW b \in [Targets -> Answers \cup {Defer}], TargetsSync(b)
    PROVE  Reads(m, given')
<1>1. /\ BInv /\ Wires /\ Counted(m) /\ Reads(m, given) /\ m.phase # "IDLE" /\ m.phase \in Phases
      /\ \A k \in Targets : Recorded(m, k, target[k], taken[k], given[k])
  <2>1. BInv /\ Wires /\ Counted(m) /\ Reads(m, given)
        /\ \A k \in Targets : Recorded(m, k, target[k], taken[k], given[k])
    BY DEF IInv, Counts, Books
  <2> QED BY <2>1, MasterFacts DEF Underway, Masters
<1>2. ASSUME NEW k \in CalledBy(m), given'[k] # given[k]
      PROVE  /\ m.phase = "BIT_SET" /\ m.bit = 0 /\ m.second /\ m.index > 0
             /\ Len(given[k]) = m.index - 1 /\ \E x \in Bytes : given'[k] = Append(given[k], x)
  <2> DEFINE t == target[k]
             u == target'[k]
  <2>1. k \in Targets /\ given[k] \in Seq(Bytes)
    BY <1>1 DEF CalledBy, BInv
  <2>2. b[k] \in Bytes /\ given'[k] = Append(given[k], b[k]) /\ Loads(k)
    BY <1>1, <1>2, <2>1, SyncBooks
  <2>3. t.known /\ t.scl /\ ~line["scl"] /\ ~Seen(k)
    BY <2>2 DEF Loads, Seen
  <2>4. ~u.scl /\ ~t.deferred
    BY <1>1, <2>1, <2>3, SyncStep, LineFacts DEF LevelsSeen
  <2>5. m.phase = "BIT_SET"
    <3>1. m.phase \in Slots
      BY <1>2, <2>1, <2>3, OutOfByte
    <3>2. m.phase \notin Lows
      BY <1>1, <2>1, <2>3 DEF Wires, ClockLow
    <3>3. m.phase # "BIT_SAMPLE"
      BY <1>1, <2>1, <2>3 DEF Wires, ClockRises
    <3>4. m.phase # "BIT_SCL_LOW"
      BY <1>1, <2>3 DEF Wires, ClockHigh
    <3> QED BY <3>1, <3>2, <3>3, <3>4 DEF Slots, Lows
  <2>6. Recorded(m, k, u, taken'[k], given'[k]) /\ Recorded(m, k, t, taken[k], given[k])
    BY <1>1, <2>1, SyncPlaced
  <2>7. Len(given'[k]) = Len(given[k]) + 1 /\ Len(given[k]) \in Nat
    BY <2>1, <2>2, AppendProperties, LenProperties
  <2> HIDE DEF t, u
  <2>8. ReadFrom(m, u) = ReadFrom(m, t) + 1 /\ Len(given[k]) = ReadFrom(m, t)
    BY <1>2, <2>6, <2>7 DEF Recorded
  <2>9. ~Early(m, u) /\ m.index \in Nat
    BY <1>1, <2>4, CountedFacts DEF Early
  <2>10. m.second /\ m.index > 0 /\ ReadFrom(m, t) = m.index - 1 /\ m.bit = 0
    BY <2>4, <2>8, <2>9 DEF ReadFrom
  <2> QED BY <2>2, <2>5, <2>8, <2>10
<1> QED BY <1>1, <1>2, ReadsKept

LEMMA SyncKeeps ==
    ASSUME IInv, NEW b \in [Targets -> Answers \cup {Defer}], TargetsSync(b)
    PROVE  IInv'
<1>1. /\ BInv /\ BInv' /\ line' = line /\ other' = other /\ m' = m /\ clean' = clean
      /\ \E k \in Targets : ~Seen(k)
  BY SyncStep DEF IInv
<1>2. Wires'
  BY <1>1, SyncWires DEF IInv
<1>3. ASSUME m.busy, clean, ~Starting(m), NEW k \in Targets
      PROVE  /\ Placed(m, k, target'[k])
             /\ m.phase \notin Ending => Recorded(m, k, target'[k], taken'[k], given'[k])
  BY <1>3, SyncPlaced
<1>4. Places'
  BY <1>1, <1>3 DEF Places, Starting, Again
<1>5. Counts'
  BY <1>1 DEF IInv, Counts
<1>6. Books'
  <2>1. ASSUME m.busy, clean, ~Starting(m), m.phase \notin Ending PROVE Reads(m, given')
    BY <2>1, SyncReads
  <2> QED BY <1>1, <1>3, <2>1 DEF Books, Starting, Again
<1>7. ASSUME \A k \in Targets : taken'[k] = taken[k] /\ given'[k] = given[k]
      PROVE  taken' = taken /\ given' = given
  <2>1. /\ taken = [k \in Targets |-> taken[k]] /\ taken' = [k \in Targets |-> taken'[k]]
        /\ given = [k \in Targets |-> given[k]] /\ given' = [k \in Targets |-> given'[k]]
    BY <1>1 DEF BInv
  <2> QED BY <1>7, <2>1
<1>8. Ends'
  <2> SUFFICES ASSUME m.busy, clean, m.phase \in Ending PROVE taken' = taken /\ given' = given
    BY <1>1 DEF IInv, Ends
  <2>1. ~Starting(m) /\ m.phase \notin Slots
    BY DEF Ending, Starting, Slots
  <2>2. ASSUME NEW k \in Targets PROVE taken'[k] = taken[k] /\ given'[k] = given[k]
    BY <1>1, <2>1, SyncSeen, OutOfByte
  <2> QED BY <1>7, <2>2
<1>9. Done'
  <2> SUFFICES ASSUME m.done, clean PROVE Done'
    BY <1>1 DEF Done
  <2>1. ~m.busy /\ m.held /\ Story(m, taken, given) /\ m.error # "ETIMEDOUT"
        /\ \A k \in Targets : Leaving(target[k])
    BY <1>1 DEF IInv, Done, Handled
  <2>2. ClockFalls
    BY <2>1 DEF IInv, Wires
  <2>3. \A k \in Targets : Leaving(target'[k]) /\ taken'[k] = taken[k] /\ given'[k] = given[k]
    BY <1>1, <2>1, <2>2, SyncLeaves
  <2>4. taken' = taken /\ given' = given
    BY <1>7, <2>3
  <2> QED BY <1>1, <2>1, <2>3, <2>4 DEF Done
<1> QED BY <1>1, <1>2, <1>4, <1>5, <1>6, <1>8, <1>9 DEF IInv

-----------------------------------------------------------------------------
(* A byte that comes late.                                                  *)

LEMMA ResumeStep ==
    ASSUME BInv, NEW k \in Targets, NEW b \in Answers, Resume(k, b)
    PROVE  /\ line' = line /\ other' = other /\ m' = m /\ clean' = clean /\ taken' = taken
           /\ b \in Bytes /\ target[k].deferred
           /\ \A j \in Targets : j # k => target'[j] = target[j] /\ given'[j] = given[j]
           /\ given'[k] = Append(given[k], b)
           /\ LET t == target[k]
                  u == target'[k]
              IN  /\ u.known = t.known /\ u.scl = t.scl /\ u.sda = t.sda /\ ~u.deferred
                  /\ u.state = "READ" /\ u.nbits = 0 /\ u.cur = b /\ (u.low <=> ~u.cur[1])
                  /\ u.masterAck = t.masterAck
<1>1. /\ line' = line /\ other' = other /\ m' = m /\ clean' = clean /\ taken' = taken
      /\ b \in Bytes /\ target[k].deferred
  BY I2cBusAssumption DEF Resume
<1> DEFINE u == TakeByte([target[k] EXCEPT !.deferred = FALSE], b)
<1>2. target' = [target EXCEPT ![k] = u] /\ given' = [given EXCEPT ![k] = Append(@, b)]
  BY DEF Resume
<1>3. Fine(target[k]) /\ target[k].state = "READ"
  BY <1>1, TargetFacts
<1>4. /\ SameLevels(u, target[k]) /\ ~u.deferred /\ u.nbits = 0 /\ u.cur = b /\ u.low = ~b[1]
      /\ u.state = "READ" /\ u.masterAck = target[k].masterAck
  BY <1>1, <1>3, ResumedFacts
<1> HIDE DEF u
<1>5. /\ target'[k] = u /\ given'[k] = Append(given[k], b)
      /\ \A j \in Targets : j # k => target'[j] = target[j] /\ given'[j] = given[j]
  BY <1>2 DEF BInv, TargetsFine
<1>6. b[1] \in BOOLEAN
  BY <1>1 DEF Bytes
<1> QED BY <1>1, <1>4, <1>5, <1>6 DEF SameLevels

LEMMA ResumeWires ==
    ASSUME BInv, Wires, NEW k \in Targets, NEW b \in Answers, Resume(k, b)
    PROVE  Wires'
<1>1. /\ line' = line /\ other' = other /\ m' = m /\ clean' = clean /\ target[k].deferred
      /\ \A j \in Targets : /\ target'[j].known = target[j].known /\ target'[j].scl = target[j].scl
                            /\ target'[j].sda = target[j].sda
                            /\ target'[j].deferred => target[j].deferred
      /\ target[k].scl = line["scl"] /\ target[k].known
      /\ line["scl"] \in BOOLEAN
  BY ResumeStep, TargetFacts, LineFacts DEF Seen
<1>2. \A j \in Targets : Seen(j)' <=> Seen(j)
  BY <1>1 DEF Seen
<1>3. ASSUME ClockFalls PROVE ClockFalls'
  <2>1. ~line["scl"] /\ \A j \in Targets : ~target[j].scl
    BY <1>1, <1>3 DEF ClockFalls
  <2> QED BY <1>1, <1>3, <2>1 DEF ClockFalls
<1>4. ASSUME ClockLow PROVE ClockLow'
  BY <1>1, <1>4 DEF ClockLow
<1>5. ~ClockRises /\ ~ClockHigh
  BY <1>1 DEF ClockRises, ClockHigh
<1>6. ASSUME DataFalls PROVE DataFalls'
  BY <1>1, <1>6 DEF DataFalls
<1>7. ASSUME DataRises PROVE DataRises'
  BY <1>1, <1>7 DEF DataRises
<1> QED BY <1>1, <1>3, <1>4, <1>5, <1>6, <1>7 DEF Wires, Again

\* A target waits for a byte where the master is about to read its first bit.
LEMMA WaitsAt ==
    ASSUME IInv, m.busy, clean, ~Starting(m), NEW k \in Targets, target[k].deferred
    PROVE  /\ m.phase = "BIT_SET" /\ m.bit = 0 /\ m.second /\ m.index > 0 /\ k \in CalledBy(m)
           /\ ~target[k].scl /\ m.phase \notin Ending /\ Counted(m)
           /\ Recorded(m, k, target[k], taken[k], given[k])
<1> DEFINE t == target[k]
<1>1. /\ BInv /\ Wires /\ Placed(m, k, t) /\ m.phase # "IDLE" /\ m.phase \in Phases
      /\ m.phase \notin Ending => Counted(m) /\ Recorded(m, k, t, taken[k], given[k])
  <2>1. /\ BInv /\ Wires /\ Placed(m, k, t)
        /\ m.phase \notin Ending => Counted(m) /\ Recorded(m, k, t, taken[k], given[k])
    BY DEF IInv, Places, Counts, Books
  <2> QED BY <2>1, MasterFacts DEF Underway, Masters
<1>2. t.nbits = 0 /\ t.state = "READ" /\ t.scl \in BOOLEAN /\ t.deferred
  BY <1>1, TargetFacts
<1>3. m.phase = "BIT_SET" => ~t.scl
  BY <1>1, <1>2 DEF Wires, Falls, ClockFalls
<1> HIDE DEF t
<1>4. m.phase \in Slots
  BY <1>1, <1>2 DEF Placed, Leaving, Phases, Slots
<1>5. ~Early(m, t) /\ InByte(m, k, t, m.index, m.bit, IF t.scl THEN 1 ELSE 0)
  BY <1>1, <1>3, <1>4 DEF Placed, InSlot, Early
<1>6. m.phase = "BIT_SET"
  BY <1>2, <1>5 DEF InByte
<1>7. ~t.scl /\ InByte(m, k, t, m.index, m.bit, 0)
  BY <1>3, <1>5, <1>6
<1>8. m.phase \notin Ending /\ Counted(m) /\ Recorded(m, k, t, taken[k], given[k])
  BY <1>1, <1>6 DEF Ending
<1>9. m.index \in Nat /\ m.bit \in 0..ByteBits /\ m.second \in BOOLEAN
  BY <1>1, <1>8, CountedFacts
<1>10. k \in CalledBy(m) /\ m.index > 0 /\ m.second /\ t.nbits = m.bit + 0
  BY <1>2, <1>7, <1>9 DEF InByte
<1> QED BY <1>2, <1>6, <1>7, <1>8, <1>9, <1>10 DEF t

LEMMA ResumePlaced ==
    ASSUME IInv, m.busy, clean, ~Starting(m), NEW k \in Targets, NEW b \in Answers, Resume(k, b)
    PROVE  /\ Placed(m, k, target'[k]) /\ Recorded(m, k, target'[k], taken'[k], given'[k])
           /\ Reads(m, given')
<1> DEFINE t == target[k]
           u == target'[k]
<1>1. /\ BInv /\ taken'[k] = taken[k] /\ b \in Bytes /\ t.deferred /\ given'[k] = Append(given[k], b)
      /\ u.scl = t.scl /\ ~u.deferred
      /\ u.state = "READ" /\ u.nbits = 0 /\ u.cur = b /\ (u.low <=> ~u.cur[1])
      /\ \A j \in Targets : j # k => given'[j] = given[j]
  BY ResumeStep DEF IInv
<1>2. /\ m.phase = "BIT_SET" /\ m.bit = 0 /\ m.second /\ m.index > 0 /\ k \in CalledBy(m)
      /\ ~t.scl /\ m.phase \notin Ending /\ Counted(m)
      /\ Recorded(m, k, t, taken[k], given[k])
  BY <1>1, WaitsAt
<1>3. m.index \in Nat /\ given[k] \in Seq(Bytes) /\ Reads(m, given)
  BY <1>1, <1>2, CountedFacts DEF IInv, Books, BInv
<1> HIDE DEF t, u
<1>4. InByte(m, k, u, m.index, 0, 0)
  <2>1. 0 # ByteBits /\ 0 < ByteBits /\ 0 + 0 = 0 /\ 0 + 1 = 1
    OBVIOUS
  <2> QED BY <1>1, <1>2, <2>1 DEF InByte
<1>5. Placed(m, k, u)
  BY <1>1, <1>2, <1>4 DEF Placed, InSlot, Early, Slots
<1>6. /\ ReadFrom(m, t) = m.index - 1 /\ ReadFrom(m, u) = m.index
      /\ WrittenTo(m, u) = WrittenTo(m, t)
  BY <1>1, <1>2, <1>3 DEF ReadFrom, WrittenTo, Early
<1>7. /\ taken[k] = SubSeq(m.req.write, 1, WrittenTo(m, t)) /\ Len(given[k]) = m.index - 1
  BY <1>2, <1>6 DEF Recorded
<1>8. Len(given'[k]) = m.index /\ given'[k][m.index] = b
  <2>1. Len(given[k]) + 1 = m.index
    BY <1>3, <1>7
  <2> QED BY <1>1, <1>3, <2>1, AppendProperties
<1>9. Recorded(m, k, u, taken'[k], given'[k])
  BY <1>1, <1>2, <1>6, <1>7, <1>8 DEF Recorded
<1>10. Reads(m, given')
  <2>1. ASSUME NEW j \in CalledBy(m)
        PROVE  \/ given'[j] = given[j]
               \/ /\ m.phase = "BIT_SET" /\ m.bit = 0 /\ m.second /\ m.index > 0
                  /\ Len(given[j]) = m.index - 1 /\ \E x \in Bytes : given'[j] = Append(given[j], x)
    BY <1>1, <1>2, <1>7 DEF CalledBy
  <2> QED BY <1>1, <1>2, <1>3, <2>1, ReadsKept
<1> QED BY <1>5, <1>9, <1>10 DEF u

LEMMA ResumeKeeps ==
    ASSUME IInv, NEW k \in Targets, NEW b \in Answers, Resume(k, b)
    PROVE  IInv'
<1>1. /\ BInv /\ BInv' /\ line' = line /\ m' = m /\ clean' = clean /\ taken' = taken
      /\ target[k].deferred
      /\ \A j \in Targets : j # k => target'[j] = target[j] /\ given'[j] = given[j]
  BY ResumeStep, ResumeBInv DEF IInv
<1>2. Wires'
  BY ResumeWires DEF IInv
<1>3. ASSUME m.busy, clean, ~Starting(m)
      PROVE  /\ \A j \in Targets : Placed(m, j, target'[j])
             /\ m.phase \notin Ending
             /\ \A j \in Targets : Recorded(m, j, target'[j], taken'[j], given'[j])
             /\ Reads(m, given')
  <2>1. /\ Placed(m, k, target'[k]) /\ Recorded(m, k, target'[k], taken'[k], given'[k])
        /\ Reads(m, given') /\ m.phase \notin Ending
    BY <1>1, <1>3, ResumePlaced, WaitsAt
  <2>2. ASSUME NEW j \in Targets, j # k
        PROVE  Placed(m, j, target'[j]) /\ Recorded(m, j, target'[j], taken'[j], given'[j])
    BY <1>1, <1>3, <2>1, <2>2 DEF IInv, Places, Books
  <2> QED BY <2>1, <2>2
<1>4. Places'
  BY <1>1, <1>3 DEF Places, Starting, Again
<1>5. Counts'
  BY <1>1 DEF IInv, Counts
<1>6. Books'
  BY <1>1, <1>3 DEF Books, Starting, Again
<1>7. Ends'
  <2>1. m.phase \in Ending => ~Starting(m)
    BY DEF Ending, Starting
  <2> QED BY <1>1, <1>3, <2>1 DEF Ends
<1>8. Done'
  BY <1>1 DEF IInv, Done, Leaving, Handled
<1> QED BY <1>1, <1>2, <1>4, <1>5, <1>6, <1>7, <1>8 DEF IInv

LEMMA IInvNext == IInv /\ [Next]_vars => IInv'
<1> SUFFICES ASSUME IInv, [Next]_vars PROVE IInv'
  OBVIOUS
<1>1. CASE Master
  BY <1>1, MasterKeeps
<1>2. CASE Worker
  BY <1>2, WorkerKeeps
<1>3. CASE Settle
  BY <1>3, SettleStep
<1>4. CASE \E held \in {{}} \cup {{l} : l \in Lines} : Foreign(held)
  BY <1>4, ForeignKeeps
<1>5. CASE \E b \in [Targets -> Answers \cup {Defer}] : TargetsSync(b)
  BY <1>5, SyncKeeps
<1>6. CASE \E k \in Targets : \E b \in Answers : Resume(k, b)
  BY <1>6, ResumeKeeps
<1>7. CASE UNCHANGED vars
  <2>1. BInv'
    BY BInvNext DEF IInv
  <2> QED BY <1>7, <2>1, SameKeeps DEF vars, bus, history
<1> QED BY <1>1, <1>2, <1>3, <1>4, <1>5, <1>6, <1>7 DEF Next, Bus

-----------------------------------------------------------------------------
(* What it says.                                                            *)

\* In a transaction nothing disturbed the lines, the targets and the master
\* are where its phase puts them, and so are the bytes taken and given.
THEOREM IInvHolds == Spec => []IInv
  BY IInvInit, IInvNext, PTL DEF Spec

LEMMA IInvAgreement == IInv => Agreement
<1> SUFFICES ASSUME IInv, m.done, clean PROVE
        CASE m.error = "EIO"       -> Called = {} /\ Quiet
          [] m.error = "ETIMEDOUT" -> Quiet
          [] OTHER ->
               /\ Called # {}
               /\ m.acks = Len(m.req.write) /\ Len(m.rbuf) = m.req.nread
               /\ \A k \in Called :
                      taken[k] = m.req.write /\ Len(given[k]) = m.req.nread
               /\ \A k \in Targets \ Called : taken[k] = <<>> /\ given[k] = <<>>
               /\ \A i \in 1..m.req.nread : \A j \in 1..ByteBits :
                      m.rbuf[i][j] <=> \A k \in Called : given[k][i][j]
  BY DEF Agreement
<1>1. Story(m, taken, given) /\ m.error \in {"none", "EIO", "ETIMEDOUT"}
  BY MasterFacts DEF IInv, Done, Masters
<1>2. Called = CalledBy(m) /\ (Quiet <=> Nothing(m, taken, given))
  BY DEF Called, CalledBy, Quiet, Nothing
<1>3. CASE m.error = "EIO"
  BY <1>1, <1>2, <1>3 DEF Story
<1>4. CASE m.error = "ETIMEDOUT"
  BY <1>1, <1>2, <1>4 DEF Story
<1>5. CASE m.error = "none"
  BY <1>1, <1>2, <1>5 DEF Story, Together
<1> QED BY <1>1, <1>3, <1>4, <1>5

\* Both sides of a transaction nothing disturbed tell the same story when it
\* ends: the bytes, the acknowledges and the error, for any request, targets
\* and answers.
THEOREM SameStory == Spec => []Agreement
  BY IInvHolds, IInvAgreement, PTL

\* After its STOP every target has closed its phases and leaves the line.
THEOREM StopCloses == Spec => []PhasesClosed
<1>1. IInv => PhasesClosed
  BY DEF IInv, Done, AtRest, PhasesClosed
<1> QED BY <1>1, IInvHolds, PTL

\* The clock hides an edge of SDA; one that it does not hide is the master's.
LEMMA SyncConditions ==
    ASSUME IInv, m.busy, clean, NEW b \in [Targets -> Answers \cup {Defer}], TargetsSync(b),
           NEW k \in Targets
    PROVE  /\ target[k].state # "ADDR" /\ target'[k].state = "ADDR"
                  => m.phase \in {"START_CHECK", "START_SCL_LOW"}
           /\ target[k].state # "IDLE" /\ target'[k].state = "IDLE"
                  => m.phase \in {"START_CHECK", "FINISH"}
<1> DEFINE t == target[k]
           u == target'[k]
<1>1. /\ BInv /\ Wires /\ m.phase # "IDLE" /\ m.phase \in Phases
      /\ line["scl"] \in BOOLEAN /\ line["sda"] \in BOOLEAN /\ t.scl \in BOOLEAN /\ t.sda \in BOOLEAN
      /\ t.known \in BOOLEAN /\ t \in Members /\ Row(t) /\ line \in [Lines -> BOOLEAN]
      /\ Seen(k) <=> t.known /\ t.scl = line["scl"] /\ t.sda = line["sda"]
  <2>1. BInv /\ Wires
    BY DEF IInv
  <2> QED BY <2>1, MasterFacts, LineFacts, TargetFacts DEF Underway, Masters, BInv, Seen
<1>2. CASE Seen(k)
  BY <1>1, <1>2, SyncSeen
<1>3. CASE ~t.known
  <2>1. u = Levels(t)
    BY <1>1, <1>3, SyncStep DEF Synced
  <2>2. Levels(t).state = t.state
    BY <1>1, LevelsFacts
  <2> QED BY <2>1, <2>2
<1>4. CASE t.known /\ ~line["scl"] /\ ~t.scl
  BY <1>1, <1>4, SyncQuiet DEF Kept
<1>5. CASE t.known /\ line["scl"] /\ ~t.scl
  BY <1>1, <1>5, SyncQuiet DEF Rose
<1>6. CASE t.known /\ ~line["scl"] /\ t.scl
  <2>1. /\ FellIdle(u, t) /\ FellInByte(u, t) /\ FellToAnswer(k, u, t) /\ FellToNext(u, t)
        /\ t.nbits \in 0..(ByteBits + 1) /\ t.state \in {"IDLE", "ADDR", "WRITE", "READ", "WAIT"}
    BY <1>1, <1>6, SyncFell
  <2> HIDE DEF t, u
  <2>2. CASE Idling(t.state)
    BY <2>1, <2>2 DEF FellIdle, Idling, t, u
  <2>3. CASE ~Idling(t.state) /\ t.nbits < ByteBits
    BY <2>1, <2>3 DEF FellInByte, t, u
  <2>4. CASE ~Idling(t.state) /\ t.nbits = ByteBits
    BY <2>1, <2>4 DEF FellToAnswer, Idling, t, u
  <2>5. CASE ~Idling(t.state) /\ t.nbits = ByteBits + 1
    <3>1. u.state \in {"READ", "WRITE", "WAIT"}
      BY <2>1, <2>5 DEF FellToNext, Idling, ToRead
    <3> QED BY <3>1 DEF u
  <2>6. t.nbits < ByteBits \/ t.nbits = ByteBits \/ t.nbits = ByteBits + 1
    BY <2>1
  <2> QED BY <2>2, <2>3, <2>4, <2>5, <2>6
<1>7. CASE t.known /\ line["scl"] /\ t.scl /\ ~Seen(k)
  <2>1. /\ t.sda # line["sda"]
        /\ line["sda"] => u.state = "IDLE"
        /\ ~line["sda"] => u.state = "ADDR"
    BY <1>1, <1>7, SyncQuiet DEF AtRest
  <2> HIDE DEF u
  <2>2. m.phase \in {"START_CHECK", "START_SCL_LOW", "FINISH"}
    <3>1. m.phase \notin Falls /\ m.phase \notin Lows
      BY <1>1, <1>7 DEF Wires, ClockFalls, ClockLow
    <3>2. m.phase \notin {"BIT_SAMPLE", "STOP_SDA_RELEASE"}
      BY <1>1, <1>7 DEF Wires, ClockRises
    <3>3. m.phase # "BIT_SCL_LOW"
      BY <1>1, <1>7 DEF Wires, ClockHigh
    <3> QED BY <1>1, <3>1, <3>2, <3>3 DEF Phases, Falls, Lows
  <2>3. m.phase = "START_SCL_LOW" => ~line["sda"]
    BY <1>1, <1>7, <2>1 DEF Wires, DataFalls
  <2>4. m.phase = "FINISH" => line["sda"]
    BY <1>1, <1>7, <2>1 DEF Wires, DataRises
  <2> QED BY <1>1, <2>1, <2>2, <2>3, <2>4 DEF u
<1> QED BY <1>1, <1>2, <1>3, <1>4, <1>5, <1>6, <1>7

LEMMA ConditionStep ==
    ASSUME IInv, [Next]_vars, m.busy, clean, NEW k \in Targets
    PROVE  /\ target[k].state # "ADDR" /\ target'[k].state = "ADDR"
                  => m.phase \in {"START_CHECK", "START_SCL_LOW"}
           /\ target[k].state # "IDLE" /\ target'[k].state = "IDLE"
                  => m.phase \in {"START_CHECK", "FINISH"}
<1>1. CASE target' = target
  BY <1>1
<1>2. CASE \E b \in [Targets -> Answers \cup {Defer}] : TargetsSync(b)
  BY <1>2, SyncConditions
<1>3. CASE \E j \in Targets : \E b \in Answers : Resume(j, b)
  <2>1. PICK j \in Targets, b \in Answers : Resume(j, b)
    BY <1>3
  <2>2. target'[j].state = "READ" /\ \A i \in Targets : i # j => target'[i] = target[i]
    BY <2>1, ResumeStep DEF IInv
  <2> QED BY <2>2
<1>4. \/ target' = target
      \/ \E b \in [Targets -> Answers \cup {Defer}] : TargetsSync(b)
      \/ \E j \in Targets : \E b \in Answers : Resume(j, b)
  <2>1. Master => target' = target
    BY DEF Master, Act, bus
  <2>2. Worker => target' = target
    BY DEF Worker, Xfer, Sleep, Wake, WaitAgain, SleepReturns, XferReturns, SleepRaises,
           XferRaises, I2cInit, I2cDeinit, Reset, bus
  <2>3. Settle \/ (\E held \in {{}} \cup {{l} : l \in Lines} : Foreign(held)) => target' = target
    BY DEF Settle, Foreign
  <2> QED BY <2>1, <2>2, <2>3 DEF Next, Bus, vars, bus
<1> QED BY <1>1, <1>2, <1>3, <1>4

\* In a transaction nothing disturbed no bit, acknowledge or late byte makes a
\* START or a STOP that the master did not.
THEOREM OnlyTheMasterFrames == Spec => NoFalseCondition
<1>1. IInv /\ [Next]_vars =>
        [m.busy /\ clean =>
           \A k \in Targets :
               /\ target[k].state # "ADDR" /\ target'[k].state = "ADDR"
                      => m.phase \in {"START_CHECK", "START_SCL_LOW"}
               /\ target[k].state # "IDLE" /\ target'[k].state = "IDLE"
                      => m.phase \in {"START_CHECK", "FINISH"}]_vars
  BY ConditionStep
<1> QED BY <1>1, IInvHolds, PTL DEF Spec, NoFalseCondition
=============================================================================
