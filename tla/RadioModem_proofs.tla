--------------------------- MODULE RadioModem_proofs ---------------------------
(***************************************************************************)
(* Proofs about RadioModem, for any set of modems, channels, sizes of      *)
(* queues, delays and lengths of frames.                                   *)
(***************************************************************************)
EXTENDS RadioModem, TLAPS, SequenceTheorems, FiniteSetTheorems

HeardBytes == ModemBytes \cup {Ghost}

\* The microcontrollers write the bytes 1, 2, ... up to their bound.
Writing ==
    /\ written \in [Modems -> Nat]
    /\ \A n \in Modems : written[n] <= Load[n]
    /\ \A n \in writes : written[n] > 0

IInv ==
    /\ ModemTypeOK
    /\ Writing
    /\ \A m \in Modems \ due : OnTime(engine[m])

-----------------------------------------------------------------------------
(* Bytes and queues.                                                        *)

LEMMA Constants ==
    /\ UpSize \in Nat /\ DownSize \in Nat
    /\ SerFrame \in Nat \ {0} /\ AirFrame \in Nat \ {0} /\ AirStop \in Nat \ {0}
    /\ AirStop <= AirFrame /\ TxDelay \in Nat /\ RxDelay \in Nat
    /\ Load \in [Modems -> Nat] /\ UpSize > 0 /\ DownSize > 0
BY ModemAssumption

LEMMA HalfFacts ==
    /\ Half \in Nat /\ AirStop \in Nat /\ AirFrame \in Nat
    /\ 0 < Half /\ Half <= AirStop /\ AirFrame = AirStop + Half
BY ModemAssumption DEF Half

\* A byte that is sent or decoded is something.
LEMMA ByteFacts ==
    /\ Nothing \notin HeardBytes /\ Ghost \notin ModemBytes
    /\ \A b \in ModemBytes : b[1] \in Modems /\ b[2] \in Nat \ {0} /\ b[2] <= Load[b[1]]
    /\ \A n \in Modems : \A k \in 1..Load[n] : <<n, k>> \in ModemBytes
<1>1. \A b \in ModemBytes : b[1] \in Modems /\ b[2] \in 1..Load[b[1]]
  BY DEF ModemBytes
<1>2. \A n \in Modems : Load[n] \in Nat
  BY Constants
<1>3. Nothing \notin ModemBytes /\ Ghost \notin ModemBytes
  BY <1>1, <1>2 DEF Nothing, Ghost
<1>4. Nothing # Ghost
  BY DEF Nothing, Ghost
<1>5. \A n \in Modems : \A k \in 1..Load[n] : <<n, k>> \in ModemBytes
  BY DEF ModemBytes
<1> QED BY <1>1, <1>2, <1>3, <1>4, <1>5 DEF HeardBytes

Waiters(bytes, delay) == [byte : bytes, wait : 0..delay]

LEMMA PushedType ==
    ASSUME NEW bytes, NEW delay \in Nat, NEW q \in Seq(Waiters(bytes, delay)),
           NEW size \in Nat, NEW b \in bytes, Len(q) <= size
    PROVE  /\ Pushed(q, size, Waiting(b, delay)) \in Seq(Waiters(bytes, delay))
           /\ Len(Pushed(q, size, Waiting(b, delay))) <= size
<1>1. Waiting(b, delay) \in Waiters(bytes, delay)
  BY DEF Waiting, Waiters
<1> HIDE DEF Waiters
<1> QED BY <1>1 DEF Pushed

\* The queues and frames of an engine.
Fits(e) == Len(e.up) <= UpSize /\ Len(e.down) <= DownSize
EngineOK(e) == e \in Engines /\ Fits(e)

LEMMA EngineFields ==
    ASSUME NEW e, e \in Engines
    PROVE  /\ e.up \in Seq(Waiters(ModemBytes, TxDelay))
           /\ e.down \in Seq(Waiters(HeardBytes, RxDelay))
           /\ e.emit \in [byte : ModemBytes \cup {Nothing}, left : 0..AirFrame]
           /\ e.ear \in [byte : HeardBytes \cup {Nothing}, left : 0..AirStop]
           /\ e.ser \in [byte : HeardBytes \cup {Nothing}, left : 0..SerFrame]
           /\ e.jammed \in BOOLEAN
           /\ e = [up |-> e.up, down |-> e.down, emit |-> e.emit, ear |-> e.ear,
                   ser |-> e.ser, jammed |-> e.jammed]
BY DEF Engines, Waiters, HeardBytes

LEMMA EngineMade ==
    ASSUME NEW up \in Seq(Waiters(ModemBytes, TxDelay)),
           NEW down \in Seq(Waiters(HeardBytes, RxDelay)),
           NEW emit \in [byte : ModemBytes \cup {Nothing}, left : 0..AirFrame],
           NEW ear \in [byte : HeardBytes \cup {Nothing}, left : 0..AirStop],
           NEW ser \in [byte : HeardBytes \cup {Nothing}, left : 0..SerFrame],
           NEW jammed \in BOOLEAN
    PROVE  [up |-> up, down |-> down, emit |-> emit, ear |-> ear, ser |-> ser,
            jammed |-> jammed] \in Engines
BY DEF Engines, Waiters, HeardBytes

LEMMA IdleType ==
    \A bytes, n \in Nat : Idle \in [byte : bytes \cup {Nothing}, left : 0..n]
BY DEF Idle

-----------------------------------------------------------------------------
(* The steps of RadioModem_sync: each keeps the types and settles one part. *)

Settled(f) == Active(f) => f.left > 0

LEMMA SerialDoneFacts ==
    ASSUME NEW m \in Modems, NEW e, EngineOK(e), Writing, NEW d, d = SerialDone(m, e)
    PROVE  EngineOK(d) /\ Settled(d.ser)
<1> DEFINE up == IF m \in writes
                 THEN Pushed(e.up, UpSize, Waiting(<<m, written[m]>>, TxDelay)) ELSE e.up
           ser == IF Ended(e.ser) THEN Idle ELSE e.ser
<1>1. d = [up |-> up, down |-> e.down, emit |-> e.emit, ear |-> e.ear, ser |-> ser,
           jammed |-> e.jammed]
  <2> HIDE DEF up, ser
  <2>1. d = [e EXCEPT !.ser = ser, !.up = up]
    BY DEF SerialDone, up, ser
  <2> QED BY <2>1, EngineFields DEF EngineOK
<1>2. up \in Seq(Waiters(ModemBytes, TxDelay)) /\ Len(up) <= UpSize
  <2>1. CASE m \in writes
    <3>1. <<m, written[m]>> \in ModemBytes
      BY <2>1, ByteFacts, Constants DEF Writing
    <3>2. Len(e.up) <= UpSize /\ e.up \in Seq(Waiters(ModemBytes, TxDelay))
      BY EngineFields DEF EngineOK, Fits
    <3> QED BY <2>1, <3>1, <3>2, Constants, PushedType
  <2>2. CASE m \notin writes
    BY <2>2, EngineFields DEF EngineOK, Fits
  <2> QED BY <2>1, <2>2
<1>3. ser \in [byte : HeardBytes \cup {Nothing}, left : 0..SerFrame]
  <2>1. Idle \in [byte : HeardBytes \cup {Nothing}, left : 0..SerFrame]
    BY Constants DEF Idle
  <2> QED BY <2>1, EngineFields DEF EngineOK
<1>4. Settled(ser)
  <2>1. e.ser.left \in Nat
    BY EngineFields, Constants DEF EngineOK
  <2> QED BY <2>1 DEF Settled, Ended, Active, Idle
<1> HIDE DEF up, ser
<1>5. d \in Engines
  BY <1>1, <1>2, <1>3, EngineFields, EngineMade DEF EngineOK
<1>6. Fits(d)
  BY <1>1, <1>2 DEF EngineOK, Fits
<1>7. d.ser = ser
  BY <1>1
<1> QED BY <1>4, <1>5, <1>6, <1>7 DEF EngineOK

\* A queue that is ready gives its head and keeps its type.
LEMMA Popped ==
    ASSUME NEW bytes, NEW delay \in Nat, NEW q \in Seq(Waiters(bytes, delay)), Ready(q)
    PROVE  /\ Head(q).byte \in bytes
           /\ Tail(q) \in Seq(Waiters(bytes, delay)) /\ Len(Tail(q)) <= Len(q)
<1>1. q # <<>>
  BY DEF Ready
<1>2. Head(q) \in Waiters(bytes, delay)
  <2> HIDE DEF Waiters
  <2> QED BY <1>1
<1>3. Tail(q) \in Seq(Waiters(bytes, delay)) /\ Len(Tail(q)) <= Len(q)
  <2> HIDE DEF Waiters
  <2> QED BY <1>1
<1> QED BY <1>2, <1>3 DEF Waiters

LEMMA AirSentFacts ==
    ASSUME NEW m \in Modems, NEW e, EngineOK(e), NEW d, d = AirSent(m, e)
    PROVE  /\ EngineOK(d) /\ d.ser = e.ser
           /\ Settled(d.emit) /\ (Ready(d.up) => Active(d.emit))
<1> DEFINE emit == IF Ended(e.emit) THEN Idle ELSE e.emit
<1>1. emit \in [byte : ModemBytes \cup {Nothing}, left : 0..AirFrame]
  <2>1. Idle \in [byte : ModemBytes \cup {Nothing}, left : 0..AirFrame]
    BY Constants DEF Idle
  <2> QED BY <2>1, EngineFields DEF EngineOK
<1>2. Settled(emit)
  <2>1. e.emit.left \in Nat
    BY EngineFields, Constants DEF EngineOK
  <2> QED BY <2>1 DEF Settled, Ended, Active, Idle
<1> HIDE DEF emit
<1>3. PICK f : f = [up |-> e.up, down |-> e.down, emit |-> emit, ear |-> e.ear,
                    ser |-> e.ser, jammed |-> e.jammed]
  OBVIOUS
<1>4. f = IF Ended(e.emit) THEN [e EXCEPT !.emit = Idle] ELSE e
  BY <1>3, EngineFields DEF EngineOK, emit
<1>5. f \in Engines /\ Fits(f)
  BY <1>1, <1>3, EngineFields, EngineMade DEF EngineOK, Fits
<1>6. CASE ~Active(emit) /\ Ready(e.up)
  <2> DEFINE ear == IF m \in FullDuplex THEN e.ear ELSE Idle
             sent == OnLine(Head(e.up).byte, AirFrame)
             up == Tail(e.up)
  <2>1. /\ Head(e.up).byte \in ModemBytes
        /\ Tail(e.up) \in Seq(Waiters(ModemBytes, TxDelay)) /\ Len(Tail(e.up)) <= UpSize
    <3>1. Len(e.up) \in Nat /\ UpSize \in Nat
      BY EngineFields, Constants DEF EngineOK
    <3>2. /\ Head(e.up).byte \in ModemBytes
          /\ Tail(e.up) \in Seq(Waiters(ModemBytes, TxDelay)) /\ Len(Tail(e.up)) <= Len(e.up)
      BY <1>6, EngineFields, Constants, Popped DEF EngineOK
    <3>3. Len(Tail(e.up)) \in Nat
      BY <3>2
    <3> QED BY <3>1, <3>2, <3>3 DEF EngineOK, Fits
  <2>2. sent \in [byte : ModemBytes \cup {Nothing}, left : 0..AirFrame]
    BY <2>1, Constants DEF OnLine
  <2>3. ear \in [byte : HeardBytes \cup {Nothing}, left : 0..AirStop]
    <3>1. Idle \in [byte : HeardBytes \cup {Nothing}, left : 0..AirStop]
      BY Constants DEF Idle
    <3> QED BY <3>1, EngineFields DEF EngineOK
  <2>4. Active(sent) /\ Settled(sent)
    <3>1. Head(e.up).byte # Nothing
      BY <2>1, ByteFacts DEF HeardBytes
    <3> QED BY <3>1, Constants DEF OnLine, Active, Settled
  <2>5. d = [up |-> up, down |-> e.down, emit |-> sent, ear |-> ear,
             ser |-> e.ser, jammed |-> e.jammed]
    <3>1. f.emit = emit /\ f.up = e.up /\ f.ear = e.ear
      BY <1>3
    <3>2. d = [f EXCEPT !.emit = OnLine(Head(f.up).byte, AirFrame), !.up = Tail(@),
                        !.ear = IF m \in FullDuplex THEN @ ELSE Idle]
      BY <1>4, <1>6, <3>1 DEF AirSent
    <3>3. d = [f EXCEPT !.emit = sent, !.up = up, !.ear = ear]
      BY <3>1, <3>2
    <3> HIDE DEF ear, sent, up
    <3> QED BY <1>3, <3>3
  <2>6. up \in Seq(Waiters(ModemBytes, TxDelay)) /\ Len(up) <= UpSize
    BY <2>1
  <2> HIDE DEF ear, sent, up
  <2>7. d \in Engines
    BY <2>2, <2>3, <2>5, <2>6, EngineFields, EngineMade DEF EngineOK
  <2> QED BY <2>4, <2>5, <2>6, <2>7 DEF EngineOK, Fits
<1>7. CASE ~(~Active(emit) /\ Ready(e.up))
  <2>1. d = f
    BY <1>3, <1>4, <1>7 DEF AirSent
  <2> QED BY <1>2, <1>3, <1>5, <1>7, <2>1 DEF EngineOK
<1> QED BY <1>6, <1>7

LEMMA CollidedFacts ==
    ASSUME NEW m \in Modems, NEW e, EngineOK(e), NEW d, d = Collided(m, e)
    PROVE  /\ EngineOK(d) /\ d.ser = e.ser /\ d.emit = e.emit /\ d.up = e.up
<1> DEFINE ear == IF Jam(m, aired) /\ ~e.jammed THEN Idle ELSE e.ear
           jam == Jam(m, aired)
<1>1. ear \in [byte : HeardBytes \cup {Nothing}, left : 0..AirStop]
  <2>1. Idle \in [byte : HeardBytes \cup {Nothing}, left : 0..AirStop]
    BY Constants DEF Idle
  <2> QED BY <2>1, EngineFields DEF EngineOK
<1>2. jam \in BOOLEAN
  BY DEF Jam
<1>3. d = [e EXCEPT !.jammed = jam, !.ear = ear]
  BY DEF Collided
<1> HIDE DEF ear, jam
<1>4. d = [up |-> e.up, down |-> e.down, emit |-> e.emit, ear |-> ear, ser |-> e.ser,
           jammed |-> jam]
  BY <1>3, EngineFields DEF EngineOK
<1>5. d \in Engines
  BY <1>1, <1>2, <1>4, EngineFields, EngineMade DEF EngineOK
<1> QED BY <1>4, <1>5 DEF EngineOK, Fits

LEMMA ClosedFacts ==
    ASSUME NEW high, NEW e, EngineOK(e), NEW d, d = Closed(e, high)
    PROVE  /\ EngineOK(d) /\ d.ser = e.ser /\ d.emit = e.emit /\ d.up = e.up
           /\ Settled(d.ear)
<1>1. CASE ~Ended(e.ear)
  <2>1. e.ear.left \in Nat
    BY EngineFields, Constants DEF EngineOK
  <2> QED BY <1>1, <2>1 DEF Closed, Ended, Settled
<1>2. CASE Ended(e.ear)
  <2> DEFINE down == IF e.ear.byte = Ghost /\ ~high THEN e.down
                     ELSE Pushed(e.down, DownSize, Waiting(e.ear.byte, RxDelay))
  <2>1. e.ear.byte \in HeardBytes
    BY <1>2, EngineFields DEF EngineOK, Ended, Active
  <2>2. e.down \in Seq(Waiters(HeardBytes, RxDelay)) /\ Len(e.down) <= DownSize
    BY EngineFields DEF EngineOK, Fits
  <2>3. down \in Seq(Waiters(HeardBytes, RxDelay)) /\ Len(down) <= DownSize
    BY <2>1, <2>2, Constants, PushedType
  <2>4. d = [e EXCEPT !.ear = Idle, !.down = down]
    BY <1>2 DEF Closed
  <2> HIDE DEF down
  <2>5. d = [up |-> e.up, down |-> down, emit |-> e.emit, ear |-> Idle, ser |-> e.ser,
             jammed |-> e.jammed]
    BY <2>4, EngineFields DEF EngineOK
  <2>6. Idle \in [byte : HeardBytes \cup {Nothing}, left : 0..AirStop] /\ Settled(Idle)
    BY Constants DEF Idle, Settled, Active
  <2>7. d \in Engines
    BY <2>3, <2>5, <2>6, EngineFields, EngineMade DEF EngineOK
  <2> QED BY <2>3, <2>5, <2>6, <2>7 DEF EngineOK, Fits
<1> QED BY <1>1, <1>2

LEMMA OpenedFacts ==
    ASSUME NEW m \in Modems, NEW falls, NEW e, EngineOK(e), Settled(e.ear),
           aired \in [Modems -> ModemBytes \cup {Nothing}],
           NEW d, d = Opened(m, e, falls)
    PROVE  /\ EngineOK(d) /\ d.ser = e.ser /\ d.emit = e.emit /\ d.up = e.up
           /\ Settled(d.ear)
<1> DEFINE heard == IF Deaf(m, e) THEN {} ELSE Heard(m, aired)
           n == CHOOSE n \in heard : TRUE
<1>1. heard \subseteq Modems
  BY DEF Heard, Others
<1>2. ASSUME NEW b \in HeardBytes \cup {Nothing}, d = [e EXCEPT !.ear = OnLine(b, AirStop)]
      PROVE  /\ EngineOK(d) /\ d.ser = e.ser /\ d.emit = e.emit /\ d.up = e.up
             /\ Settled(d.ear)
  <2> DEFINE ear == OnLine(b, AirStop)
  <2>1. ear \in [byte : HeardBytes \cup {Nothing}, left : 0..AirStop] /\ Settled(ear)
    BY Constants DEF OnLine, Settled
  <2> HIDE DEF ear
  <2>2. d = [up |-> e.up, down |-> e.down, emit |-> e.emit, ear |-> ear, ser |-> e.ser,
             jammed |-> e.jammed]
    BY <1>2, EngineFields DEF EngineOK, ear
  <2>3. d \in Engines
    BY <2>1, <2>2, EngineFields, EngineMade DEF EngineOK
  <2> QED BY <2>1, <2>2, <2>3 DEF EngineOK, Fits
<1>3. \/ d = e
      \/ d = [e EXCEPT !.ear = OnLine(aired[n], AirStop)] /\ heard # {}
      \/ d = [e EXCEPT !.ear = OnLine(Ghost, AirStop)]
  BY DEF Opened
<1> HIDE DEF heard
<1>4. heard # {} => n \in Modems
  BY <1>1
<1>5. heard # {} => aired[n] \in HeardBytes \cup {Nothing}
  BY <1>4 DEF HeardBytes
<1>6. Ghost \in HeardBytes \cup {Nothing}
  BY DEF HeardBytes
<1> HIDE DEF n
<1> QED BY <1>2, <1>3, <1>5, <1>6

LEMMA SerialSentFacts ==
    ASSUME NEW e, EngineOK(e), Settled(e.ser), NEW d, d = SerialSent(e)
    PROVE  /\ EngineOK(d) /\ d.emit = e.emit /\ d.up = e.up /\ d.ear = e.ear
           /\ Settled(d.ser) /\ (Ready(d.down) => Active(d.ser))
<1>1. CASE ~(~Active(e.ser) /\ Ready(e.down))
  BY <1>1 DEF SerialSent
<1>2. CASE ~Active(e.ser) /\ Ready(e.down)
  <2> DEFINE ser == OnLine(Head(e.down).byte, SerFrame)
             down == Tail(e.down)
  <2>1. /\ Head(e.down).byte \in HeardBytes
        /\ Tail(e.down) \in Seq(Waiters(HeardBytes, RxDelay))
        /\ Len(Tail(e.down)) <= DownSize
    <3>1. Len(e.down) \in Nat /\ DownSize \in Nat
      BY EngineFields, Constants DEF EngineOK
    <3>2. /\ Head(e.down).byte \in HeardBytes
          /\ Tail(e.down) \in Seq(Waiters(HeardBytes, RxDelay))
          /\ Len(Tail(e.down)) <= Len(e.down)
      BY <1>2, EngineFields, Constants, Popped DEF EngineOK
    <3>3. Len(Tail(e.down)) \in Nat
      BY <3>2
    <3> QED BY <3>1, <3>2, <3>3 DEF EngineOK, Fits
  <2>2. ser \in [byte : HeardBytes \cup {Nothing}, left : 0..SerFrame]
    BY <2>1, Constants DEF OnLine
  <2>3. Active(ser) /\ Settled(ser)
    <3>1. Head(e.down).byte # Nothing
      BY <2>1, ByteFacts
    <3> QED BY <3>1, Constants DEF OnLine, Active, Settled
  <2>4. d = [e EXCEPT !.ser = ser, !.down = down]
    BY <1>2 DEF SerialSent
  <2> HIDE DEF ser
  <2> HIDE DEF down
  <2>5. d = [up |-> e.up, down |-> down, emit |-> e.emit, ear |-> e.ear,
             ser |-> ser, jammed |-> e.jammed]
    BY <2>4, EngineFields DEF EngineOK
  <2>6. down \in Seq(Waiters(HeardBytes, RxDelay)) /\ Len(down) <= DownSize
    BY <2>1 DEF down
  <2>7. d \in Engines
    BY <2>2, <2>5, <2>6, EngineFields, EngineMade DEF EngineOK
  <2> QED BY <2>3, <2>5, <2>6, <2>7 DEF EngineOK, Fits
<1> QED BY <1>1, <1>2

\* A call of RadioModem_sync leaves nothing due, whatever it hears.
LEMMA SyncedFacts ==
    ASSUME NEW m \in Modems, NEW falls, NEW high, EngineOK(engine[m]), Writing,
           aired \in [Modems -> ModemBytes \cup {Nothing}]
    PROVE  EngineOK(Synced(m, falls, high)) /\ OnTime(Synced(m, falls, high))
<1>1. PICK e1 : e1 = SerialDone(m, engine[m])
  OBVIOUS
<1>2. PICK e2 : e2 = AirSent(m, e1)
  OBVIOUS
<1>3. PICK e3 : e3 = Collided(m, e2)
  OBVIOUS
<1>4. PICK e4 : e4 = Closed(e3, high)
  OBVIOUS
<1>5. PICK e5 : e5 = Opened(m, e4, falls)
  OBVIOUS
<1>6. PICK e6 : e6 = SerialSent(e5)
  OBVIOUS
<1>7. EngineOK(e1) /\ Settled(e1.ser)
  BY <1>1, SerialDoneFacts
<1>8. /\ EngineOK(e2) /\ Settled(e2.ser)
      /\ Settled(e2.emit) /\ (Ready(e2.up) => Active(e2.emit))
  BY <1>2, <1>7, AirSentFacts
<1>9. /\ EngineOK(e3) /\ e3.ser = e2.ser /\ e3.emit = e2.emit /\ e3.up = e2.up
  BY <1>3, <1>8, CollidedFacts
<1>10. /\ EngineOK(e4) /\ e4.ser = e2.ser /\ e4.emit = e2.emit /\ e4.up = e2.up
       /\ Settled(e4.ear)
  BY <1>4, <1>9, ClosedFacts
<1>11. /\ EngineOK(e5) /\ e5.ser = e2.ser /\ e5.emit = e2.emit /\ e5.up = e2.up
       /\ Settled(e5.ear)
  BY <1>5, <1>10, OpenedFacts
<1>12. /\ EngineOK(e6) /\ e6.emit = e2.emit /\ e6.up = e2.up /\ e6.ear = e5.ear
       /\ Settled(e6.ser) /\ (Ready(e6.down) => Active(e6.ser))
  BY <1>6, <1>8, <1>11, SerialSentFacts
<1>13. OnTime(e6)
  BY <1>8, <1>11, <1>12 DEF OnTime, Settled
<1>14. Synced(m, falls, high) = e6
  BY <1>1, <1>2, <1>3, <1>4, <1>5, <1>6 DEF Synced, Interrupted
<1> QED BY <1>12, <1>13, <1>14

-----------------------------------------------------------------------------
(* The passage of time.                                                     *)

LEMMA LessFacts == \A k \in Nat : \A n \in 0..k : Less(n) \in 0..k
BY DEF Less

LEMMA WaitedType ==
    ASSUME NEW bytes, NEW delay \in Nat, NEW q \in Seq(Waiters(bytes, delay)), NEW r,
           r = [i \in DOMAIN q |-> [q[i] EXCEPT !.wait = Less(@)]]
    PROVE  r \in Seq(Waiters(bytes, delay)) /\ Len(r) = Len(q)
<1>1. DOMAIN q = 1..Len(q) /\ Len(q) \in Nat
  <2> HIDE DEF Waiters
  <2> QED OBVIOUS
<1>2. ASSUME NEW i \in 1..Len(q) PROVE r[i] \in Waiters(bytes, delay)
  <2>1. q[i] \in Waiters(bytes, delay)
    <3> HIDE DEF Waiters
    <3> QED BY <1>2
  <2>2. r[i] = [q[i] EXCEPT !.wait = Less(q[i].wait)]
    BY <1>1, <1>2
  <2>3. Less(q[i].wait) \in 0..delay
    BY <2>1, LessFacts DEF Waiters
  <2> QED BY <2>1, <2>2, <2>3 DEF Waiters
<1> HIDE DEF Waiters
<1>3. r = [i \in 1..Len(q) |-> r[i]]
  BY <1>1
<1> QED BY <1>1, <1>2, <1>3

LEMMA FrameTicked ==
    ASSUME NEW bytes, NEW length \in Nat, NEW f \in [byte : bytes, left : 0..length]
    PROVE  [f EXCEPT !.left = Less(f.left)] \in [byte : bytes, left : 0..length]
<1>1. Less(f.left) \in 0..length
  BY LessFacts
<1> QED BY <1>1

LEMMA TickedFacts ==
    ASSUME NEW e, EngineOK(e)
    PROVE  EngineOK(Ticked(e))
<1> DEFINE Waited(q) == [i \in DOMAIN q |-> [q[i] EXCEPT !.wait = Less(@)]]
           up == Waited(e.up)
           down == Waited(e.down)
           emit == [e.emit EXCEPT !.left = Less(e.emit.left)]
           ear == [e.ear EXCEPT !.left = Less(e.ear.left)]
           ser == [e.ser EXCEPT !.left = Less(e.ser.left)]
<1>0. /\ e.up \in Seq(Waiters(ModemBytes, TxDelay)) /\ TxDelay \in Nat
      /\ e.down \in Seq(Waiters(HeardBytes, RxDelay)) /\ RxDelay \in Nat
  BY EngineFields, Constants DEF EngineOK
<1>1. up \in Seq(Waiters(ModemBytes, TxDelay)) /\ Len(up) = Len(e.up)
  BY <1>0, WaitedType
<1>2. down \in Seq(Waiters(HeardBytes, RxDelay)) /\ Len(down) = Len(e.down)
  BY <1>0, WaitedType
<1>3. emit \in [byte : ModemBytes \cup {Nothing}, left : 0..AirFrame]
  BY EngineFields, Constants, FrameTicked DEF EngineOK
<1>4. ear \in [byte : HeardBytes \cup {Nothing}, left : 0..AirStop]
  BY EngineFields, Constants, FrameTicked DEF EngineOK
<1>5. ser \in [byte : HeardBytes \cup {Nothing}, left : 0..SerFrame]
  BY EngineFields, Constants, FrameTicked DEF EngineOK
<1>6. Ticked(e) = [e EXCEPT !.up = up, !.down = down, !.emit = emit, !.ear = ear, !.ser = ser]
  BY EngineFields DEF Ticked, EngineOK
<1> HIDE DEF up, down, emit, ear, ser
<1>7. Ticked(e) = [up |-> up, down |-> down, emit |-> emit, ear |-> ear, ser |-> ser,
                   jammed |-> e.jammed]
  BY <1>6, EngineFields DEF EngineOK
<1>8. Ticked(e) \in Engines
  BY <1>1, <1>2, <1>3, <1>4, <1>5, <1>7, EngineFields, EngineMade DEF EngineOK
<1> QED BY <1>1, <1>2, <1>7, <1>8 DEF EngineOK, Fits

\* An engine that asks for no call has nothing due.
LEMMA NothingDue ==
    ASSUME NEW e, EngineOK(e), ~Wakes(e)
    PROVE  OnTime(e)
<1>1. e.ser.left \in Nat /\ e.emit.left \in Nat /\ e.ear.left \in Nat
  BY EngineFields, Constants DEF EngineOK
<1> QED BY <1>1 DEF Wakes, Ended, OnTime

-----------------------------------------------------------------------------
(* The invariant.                                                           *)

LEMMA InitHolds == ModemInit => IInv
<1> SUFFICES ASSUME ModemInit PROVE IInv
  OBVIOUS
<1>1. ASSUME NEW m \in Modems PROVE EngineOK(engine[m]) /\ OnTime(engine[m])
  <2>1. engine[m] = [up |-> <<>>, down |-> <<>>, emit |-> Idle, ear |-> Idle,
                     ser |-> Idle, jammed |-> FALSE]
    BY DEF ModemInit
  <2>2. engine[m] \in Engines
    BY <2>1, Constants DEF Engines, Idle
  <2> QED BY <2>1, <2>2, Constants DEF EngineOK, Fits, OnTime, Ready, Active, Idle
<1>2. ModemTypeOK
  <2>1. engine \in [Modems -> Engines]
    BY <1>1 DEF ModemInit, EngineOK
  <2>2. \A m \in Modems : Len(engine[m].up) <= UpSize /\ Len(engine[m].down) <= DownSize
    BY <1>1 DEF EngineOK, Fits
  <2>3. gap \in [Modems -> 0..SerFrame] /\ written \in [Modems -> Nat]
    BY Constants DEF ModemInit
  <2>4. reach \in [Modems -> [Modems -> Nat]] /\ aired \in [Modems -> ModemBytes \cup {Nothing}]
    BY DEF ModemInit
  <2>5. {fresh, due, writes} \subseteq SUBSET Modems /\ {spoilt, broken, decoded} \subseteq SUBSET (Modems \X Modems)
    BY DEF ModemInit
  <2> QED BY <2>1, <2>2, <2>3, <2>4, <2>5 DEF ModemTypeOK
<1>3. Writing
  BY Constants DEF Writing, ModemInit
<1> QED BY <1>1, <1>2, <1>3 DEF IInv

LEMMA IterationKeeps ==
    ASSUME IInv, Iteration
    PROVE  IInv'
<1>1. PICK falls, low :
        engine' = [m \in Modems |->
                     IF m \in due THEN Synced(m, m \in falls, m \notin low) ELSE engine[m]]
  BY DEF Iteration
<1>2. ASSUME NEW m \in Modems
      PROVE  EngineOK(engine'[m]) /\ OnTime(engine'[m])
  <2>1. EngineOK(engine[m])
    BY DEF IInv, ModemTypeOK, EngineOK, Fits
  <2>2. CASE m \in due
    BY <1>1, <2>1, <2>2, SyncedFacts DEF IInv, ModemTypeOK
  <2>3. CASE m \notin due
    BY <1>1, <2>1, <2>3 DEF IInv
  <2> QED BY <2>2, <2>3
<1>3. engine' \in [Modems -> Engines]
  BY <1>1, <1>2 DEF EngineOK
<1>4. aired' \in [Modems -> ModemBytes \cup {Nothing}]
  <2>1. aired' = [m \in Modems |-> engine'[m].emit.byte]
    BY DEF Iteration
  <2>2. \A m \in Modems : engine'[m].emit.byte \in ModemBytes \cup {Nothing}
    BY <1>2, EngineFields DEF EngineOK
  <2> QED BY <2>1, <2>2
<1>5. {fresh', due', writes'} \subseteq SUBSET Modems
  BY DEF Iteration
<1>6. reach' \in [Modems -> [Modems -> Nat]]
  <2>1. ASSUME NEW m \in Modems PROVE Delivered(m) \in [Modems -> Nat]
    <3>1. reach[m] \in [Modems -> Nat]
      BY DEF IInv, ModemTypeOK
    <3>2. ASSUME Ended(engine[m].ser), engine[m].ser.byte # Ghost
          PROVE  engine[m].ser.byte[2] \in Nat
      <4>1. engine[m].ser.byte \in ModemBytes \cup {Ghost, Nothing}
        BY DEF IInv, ModemTypeOK, Engines
      <4> QED BY <4>1, <3>2, ByteFacts DEF Ended, Active
    <3> QED BY <3>1, <3>2 DEF Delivered
  <2> QED BY <2>1 DEF Iteration
<1>7. {spoilt', broken', decoded'} \subseteq SUBSET (Modems \X Modems)
  <2>1. /\ spoilt' = OnAir(spoilt, aired') \cup Disturbed(0, engine', aired') \cup Missed(aired')
        /\ broken' = OnAir(broken, aired') \cup Disturbed(Half, engine', aired')
        /\ decoded' = OnAir(decoded \cup Decodes, aired')
    BY DEF Iteration
  <2>2. /\ spoilt \subseteq Modems \X Modems /\ broken \subseteq Modems \X Modems
        /\ decoded \subseteq Modems \X Modems /\ due \subseteq Modems /\ fresh \subseteq Modems
    BY DEF IInv, ModemTypeOK
  <2>3. \A from, eng, air : Disturbed(from, eng, air) \subseteq Modems \X Modems
    BY DEF Disturbed
  <2>4. Missed(aired') \subseteq Modems \X Modems
    BY <2>2 DEF Missed
  <2>5. Decodes \subseteq Modems \X Modems
    BY <2>2 DEF Decodes
  <2>6. \A pairs : OnAir(pairs, aired') \subseteq pairs
    BY DEF OnAir
  <2>7. spoilt' \subseteq Modems \X Modems
    BY <2>1, <2>2, <2>3, <2>4, <2>6
  <2>8. broken' \subseteq Modems \X Modems
    BY <2>1, <2>2, <2>3, <2>6
  <2>9. decoded' \subseteq Modems \X Modems
    BY <2>1, <2>2, <2>5, <2>6
  <2> QED BY <2>7, <2>8, <2>9
<1>8. ModemTypeOK'
  BY <1>2, <1>3, <1>4, <1>5, <1>6, <1>7
     DEF ModemTypeOK, IInv, Iteration, EngineOK, Fits
<1>9. Writing'
  BY DEF Writing, IInv, Iteration
<1> QED BY <1>2, <1>8, <1>9 DEF IInv

LEMMA ElapseKeeps ==
    ASSUME IInv, Elapse
    PROVE  IInv'
<1>1. engine' = [m \in Modems |-> Ticked(engine[m])]
  BY DEF Elapse
<1>2. ASSUME NEW m \in Modems PROVE EngineOK(engine'[m])
  <2>1. EngineOK(engine[m])
    BY DEF IInv, ModemTypeOK, EngineOK, Fits
  <2> QED BY <1>1, <2>1, TickedFacts
<1>3. PICK w \in SUBSET {n \in Modems : gap[n] <= 1 /\ written[n] < Load[n]} :
         /\ writes' = w
         /\ written' = [n \in Modems |-> IF n \in w THEN written[n] + 1 ELSE written[n]]
         /\ gap' = [n \in Modems |-> IF n \in w THEN SerFrame ELSE Less(gap[n])]
  BY DEF Elapse
<1>4. /\ due' \subseteq Modems
      /\ \A m \in Modems \ due' : ~Wakes(engine'[m])
  BY <1>3 DEF Elapse
<1>5. \A m \in Modems \ due' : OnTime(engine'[m])
  BY <1>2, <1>4, NothingDue
<1>6. engine' \in [Modems -> Engines]
  BY <1>1, <1>2 DEF EngineOK
<1>7. /\ written' \in [Modems -> Nat]
      /\ \A n \in Modems : written'[n] <= Load[n]
      /\ \A n \in writes' : written'[n] > 0
  <2>1. \A n \in Modems : written[n] \in Nat /\ written[n] <= Load[n] /\ Load[n] \in Nat
    BY Constants DEF IInv, Writing
  <2> QED BY <1>3, <2>1
<1>8. gap' \in [Modems -> 0..SerFrame]
  <2>1. \A n \in Modems : gap[n] \in 0..SerFrame
    BY DEF IInv, ModemTypeOK
  <2> QED BY <1>3, <2>1, Constants, LessFacts
<1>9. {spoilt', broken', decoded'} \subseteq SUBSET (Modems \X Modems)
  <2>1. /\ spoilt' = spoilt /\ decoded' = decoded
        /\ broken' = broken \cup Disturbed(Half, engine', aired)
    BY DEF Elapse
  <2>2. \A from, eng, air : Disturbed(from, eng, air) \subseteq Modems \X Modems
    BY DEF Disturbed
  <2> QED BY <2>1, <2>2 DEF IInv, ModemTypeOK
<1>10. ModemTypeOK'
  BY <1>2, <1>3, <1>4, <1>6, <1>7, <1>8, <1>9
     DEF ModemTypeOK, IInv, Elapse, EngineOK, Fits
<1> QED BY <1>5, <1>7, <1>10 DEF IInv, Writing

LEMMA StepKeeps == IInv /\ [ModemNext]_modemVars => IInv'
<1> SUFFICES ASSUME IInv, [ModemNext]_modemVars PROVE IInv'
  OBVIOUS
<1>1. CASE Iteration
  BY <1>1, IterationKeeps
<1>2. CASE Elapse
  BY <1>2, ElapseKeeps
<1>3. CASE UNCHANGED modemVars
  BY <1>3 DEF modemVars, antenna, micros, modemHistory, IInv, Writing, ModemTypeOK,
              OnTime, Ready, Active
<1> QED BY <1>1, <1>2, <1>3 DEF ModemNext

\* The variables of the modems keep their types, and no queue of any engine
\* grows beyond the size that its parameters give it (radiomodem_engine.c).
THEOREM ModemTypes == ModemSpec => []ModemTypeOK
<1>1. IInv => ModemTypeOK
  BY DEF IInv
<1> QED BY <1>1, InitHolds, StepKeeps, PTL DEF ModemSpec

\* Between two instants nothing of any modem is overdue: the one wake time that
\* RadioModem_sync returns is enough for every frame to end and every waiting
\* byte to leave when it should.
THEOREM NothingMissed == ModemSpec => []Punctual
<1>1. IInv => Punctual
  BY DEF IInv, Punctual
<1> QED BY <1>1, InitHolds, StepKeeps, PTL DEF ModemSpec
-----------------------------------------------------------------------------
(* The order of the bytes.  From the microcontroller of n to that of m, the  *)
(* bytes of n are in the queue and the emitter of n, on the antenna, in the  *)
(* decoder, the queue and the emitter of m: later ones are nearer to n.      *)

BytesOf(q) == {q[i].byte : i \in DOMAIN q}

\* x is a byte of n, not a ghost nor nothing.
Of(x, n) == x \in ModemBytes /\ x[1] = n

Before(x, y, n) == Of(x, n) /\ Of(y, n) => x[2] < y[2]

Rising(q, n) == \A i, j \in DOMAIN q : i < j => Before(q[i].byte, q[j].byte, n)

\* The bytes of n that its engine has been given.
Counted(n) == IF n \in writes THEN written[n] - 1 ELSE written[n]

\* What the engine e has received of the others.
Received(e) == {e.ser.byte, e.ear.byte} \cup BytesOf(e.down)

\* Those of them that it has decoded.
Stored(e) == {e.ser.byte} \cup BytesOf(e.down)

\* The bytes of n that e has received are in order, all after the number low.
Chain(e, n, low) ==
    /\ Rising(e.down, n)
    /\ \A x \in Received(e) : Of(x, n) => low < x[2]
    /\ \A x \in BytesOf(e.down) : Before(e.ser.byte, x, n) /\ Before(x, e.ear.byte, n)
    /\ Before(e.ser.byte, e.ear.byte, n)

\* The bytes that the engine e of n has yet to send are in order, up to the
\* number top.
Upward(n, e, top) ==
    /\ \A x \in BytesOf(e.up) : Of(x, n) /\ x[2] <= top
    /\ Rising(e.up, n)
    /\ Active(e.emit) => /\ Of(e.emit.byte, n) /\ e.emit.byte[2] <= top
                         /\ \A x \in BytesOf(e.up) : e.emit.byte[2] < x[2]

\* Number k of n is not after what n has yet to send.
Past(n, k) ==
    /\ k <= Counted(n)
    /\ \A x \in BytesOf(engine[n].up) : k < x[2]
    /\ aired[n] # Nothing => k <= aired[n][2]

\* Nor is it the frame whose start can still be heard.
Behind(n, k) == Past(n, k) /\ (Elapsed(n) < Half /\ aired[n] # Nothing => k < aired[n][2])

\* A frame of n in the decoder of m is the one on the air, and ends in its stop
\* bit: in the middle if m saw its start, and before its end.
InStep(m, n) ==
    Of(engine[m].ear.byte, n) =>
      /\ engine[m].ear.byte = aired[n] /\ n \notin fresh
      /\ engine[m].ear.left + Elapsed(n) >= AirStop
      /\ engine[m].ear.left + Elapsed(n) < AirFrame

Ordered ==
    /\ writes \subseteq due
    /\ aired = [m \in Modems |-> engine[m].emit.byte]
    /\ \A n \in fresh : aired[n] # Nothing /\ Elapsed(n) = 0
    /\ \A n \in Modems : Upward(n, engine[n], Counted(n))
    /\ \A m \in Modems : \A x \in Received(engine[m]) : ~Of(x, m)
    /\ \A m, n \in Modems : m # n =>
         /\ Chain(engine[m], n, reach[m][n]) /\ Behind(n, reach[m][n])
         /\ \A x \in Received(engine[m]) : Of(x, n) => Past(n, x[2])
         /\ \A x \in Stored(engine[m]) : Of(x, n) => Behind(n, x[2])
         /\ InStep(m, n)

LEMMA OfFacts ==
    /\ \A n : ~Of(Nothing, n) /\ ~Of(Ghost, n)
    /\ \A x, n : Of(x, n) => x[2] \in Nat \ {0}
    /\ \A n \in Modems : \A k \in 1..Load[n] : Of(<<n, k>>, n)
<1>1. Nothing \notin ModemBytes /\ Ghost \notin ModemBytes
  BY ByteFacts DEF HeardBytes
<1> QED BY <1>1, ByteFacts DEF Of

LEMMA PushedOrder ==
    ASSUME NEW bytes, NEW delay \in Nat, NEW q \in Seq(Waiters(bytes, delay)),
           NEW size \in Nat, NEW b \in bytes,
           NEW r, r = Pushed(q, size, Waiting(b, delay))
    PROVE  /\ BytesOf(r) \subseteq BytesOf(q) \cup {b}
           /\ \A n : Rising(q, n) /\ (\A x \in BytesOf(q) : Before(x, b, n)) => Rising(r, n)
<1>1. CASE r = q
  BY <1>1
<1>2. CASE r = Append(q, Waiting(b, delay))
  <2>1. Waiting(b, delay) \in Waiters(bytes, delay)
    BY DEF Waiting, Waiters
  <2>2. /\ Len(q) \in Nat /\ DOMAIN q = 1..Len(q) /\ DOMAIN r = 1..(Len(q) + 1)
        /\ r[Len(q) + 1] = Waiting(b, delay)
        /\ \A i \in 1..Len(q) : r[i] = q[i]
    <3> HIDE DEF Waiters
    <3> QED BY <1>2, <2>1
  <2>3. Waiting(b, delay).byte = b
    BY DEF Waiting
  <2>4. \A i \in DOMAIN r : \/ i \in DOMAIN q /\ r[i].byte = q[i].byte
                            \/ i = Len(q) + 1 /\ r[i].byte = b
    BY <2>2, <2>3
  <2>5. BytesOf(r) \subseteq BytesOf(q) \cup {b}
    BY <2>4 DEF BytesOf
  <2>6. ASSUME NEW n, Rising(q, n), \A x \in BytesOf(q) : Before(x, b, n)
        PROVE  Rising(r, n)
    <3> SUFFICES ASSUME NEW i \in DOMAIN r, NEW j \in DOMAIN r, i < j
                 PROVE  Before(r[i].byte, r[j].byte, n)
      BY DEF Rising
    <3>1. i \in DOMAIN q /\ r[i].byte = q[i].byte
      BY <2>2, <2>4
    <3>2. CASE j \in DOMAIN q /\ r[j].byte = q[j].byte
      BY <2>6, <3>1, <3>2 DEF Rising
    <3>3. CASE j = Len(q) + 1 /\ r[j].byte = b
      <4>1. r[i].byte \in BytesOf(q)
        BY <3>1 DEF BytesOf
      <4> QED BY <2>6, <3>3, <4>1
    <3> QED BY <2>4, <3>2, <3>3
  <2> QED BY <2>5, <2>6
<1> QED BY <1>1, <1>2 DEF Pushed

LEMMA PoppedOrder ==
    ASSUME NEW bytes, NEW delay, NEW q \in Seq(Waiters(bytes, delay)), Ready(q)
    PROVE  /\ Head(q).byte \in BytesOf(q)
           /\ BytesOf(Tail(q)) \subseteq BytesOf(q)
           /\ \A n : Rising(q, n) =>
                /\ Rising(Tail(q), n)
                /\ \A x \in BytesOf(Tail(q)) : Before(Head(q).byte, x, n)
<1>1. q # <<>>
  BY DEF Ready
<1>2. /\ Len(q) \in Nat /\ Len(q) > 0 /\ DOMAIN q = 1..Len(q) /\ Head(q) = q[1]
      /\ DOMAIN Tail(q) = 1..(Len(q) - 1)
      /\ \A i \in 1..(Len(q) - 1) : Tail(q)[i] = q[i + 1]
  <2> HIDE DEF Waiters
  <2> QED BY <1>1
<1>3. 1 \in DOMAIN q /\ \A i \in DOMAIN Tail(q) : i \in Nat /\ i + 1 \in DOMAIN q /\ 1 < i + 1
  BY <1>2
<1>4. \A i \in DOMAIN Tail(q) : Tail(q)[i].byte = q[i + 1].byte
  BY <1>2
<1>5. Head(q).byte \in BytesOf(q) /\ BytesOf(Tail(q)) \subseteq BytesOf(q)
  BY <1>2, <1>3, <1>4 DEF BytesOf
<1>6. ASSUME NEW n, Rising(q, n)
      PROVE  /\ Rising(Tail(q), n)
             /\ \A x \in BytesOf(Tail(q)) : Before(Head(q).byte, x, n)
  <2>1. Rising(Tail(q), n)
    <3> SUFFICES ASSUME NEW i \in DOMAIN Tail(q), NEW j \in DOMAIN Tail(q), i < j
                 PROVE  Before(Tail(q)[i].byte, Tail(q)[j].byte, n)
      BY DEF Rising
    <3>1. i + 1 \in DOMAIN q /\ j + 1 \in DOMAIN q /\ i + 1 < j + 1
      BY <1>3
    <3> QED BY <1>4, <1>6, <3>1 DEF Rising
  <2>2. ASSUME NEW x \in BytesOf(Tail(q)) PROVE Before(Head(q).byte, x, n)
    <3>1. PICK i \in DOMAIN Tail(q) : x = Tail(q)[i].byte
      BY DEF BytesOf
    <3>2. x = q[i + 1].byte /\ i + 1 \in DOMAIN q /\ 1 < i + 1
      BY <1>3, <1>4, <3>1
    <3> QED BY <1>2, <1>3, <1>6, <3>2 DEF Rising
  <2> QED BY <2>1, <2>2
<1> QED BY <1>5, <1>6

LEMMA WaitedOrder ==
    ASSUME NEW bytes, NEW delay \in Nat, NEW q \in Seq(Waiters(bytes, delay)),
           NEW r, r = [i \in DOMAIN q |-> [q[i] EXCEPT !.wait = Less(@)]]
    PROVE  BytesOf(r) = BytesOf(q) /\ \A n : Rising(q, n) => Rising(r, n)
<1>1. DOMAIN r = DOMAIN q
  OBVIOUS
<1>2. ASSUME NEW i \in DOMAIN q PROVE r[i].byte = q[i].byte
  <2>1. q[i] \in Waiters(bytes, delay)
    <3> HIDE DEF Waiters
    <3> QED OBVIOUS
  <2>2. r[i] = [q[i] EXCEPT !.wait = Less(q[i].wait)]
    OBVIOUS
  <2> QED BY <2>1, <2>2 DEF Waiters
<1>3. BytesOf(r) = BytesOf(q)
  BY <1>1, <1>2 DEF BytesOf
<1>4. \A n : Rising(q, n) => Rising(r, n)
  BY <1>1, <1>2 DEF Rising
<1> QED BY <1>3, <1>4

\* The steps of RadioModem_sync, one by one: the emitter gives a byte back, or
\* hands none; the decoder loses a frame; the frame it ends is queued.
LEMMA ChainLoses ==
    ASSUME NEW n, NEW e, NEW low \in Nat, Chain(e, n, low),
           NEW d, d.down = e.down,
           d.ser.byte \in {e.ser.byte, Nothing}, d.ear.byte \in {e.ear.byte, Nothing},
           NEW top \in Nat,
           \/ top = low
           \/ Of(e.ser.byte, n) /\ top = e.ser.byte[2] /\ d.ser.byte = Nothing
    PROVE  Chain(d, n, top)
<1>1. ~Of(Nothing, n)
  BY OfFacts
<1>2. /\ \A x \in BytesOf(e.down) : Before(e.ser.byte, x, n) /\ Before(x, e.ear.byte, n)
      /\ Before(e.ser.byte, e.ear.byte, n)
      /\ \A x \in Received(e) : Of(x, n) => low < x[2]
  BY DEF Chain
<1>3. ASSUME NEW x \in Received(d), Of(x, n) PROVE top < x[2]
  <2>1. x \in Received(e)
    BY <1>1, <1>3 DEF Received
  <2>2. CASE top = low
    BY <1>2, <1>3, <2>1, <2>2
  <2>3. CASE Of(e.ser.byte, n) /\ top = e.ser.byte[2] /\ d.ser.byte = Nothing
    <3>1. x = e.ear.byte \/ x \in BytesOf(e.down)
      BY <1>1, <1>3, <2>3 DEF Received
    <3> QED BY <1>2, <1>3, <2>3, <3>1 DEF Before
  <2> QED BY <2>2, <2>3
<1>4. /\ \A x \in BytesOf(d.down) : Before(d.ser.byte, x, n) /\ Before(x, d.ear.byte, n)
      /\ Before(d.ser.byte, d.ear.byte, n)
  BY <1>1, <1>2 DEF Before
<1>5. Rising(d.down, n)
  BY DEF Chain
<1> QED BY <1>3, <1>4, <1>5 DEF Chain

LEMMA ClosedOrder ==
    ASSUME NEW high, NEW e, EngineOK(e), NEW d, d = Closed(e, high)
    PROVE  /\ Received(d) \subseteq Received(e) \cup {Nothing}
           /\ \A x \in Stored(d) : x \in Stored(e) \/ (x = e.ear.byte /\ Ended(e.ear))
           /\ \A n : \A low \in Nat : Chain(e, n, low) => Chain(d, n, low)
<1>1. CASE ~Ended(e.ear)
  BY <1>1 DEF Closed
<1>2. CASE Ended(e.ear)
  <2> DEFINE down == IF e.ear.byte = Ghost /\ ~high THEN e.down
                     ELSE Pushed(e.down, DownSize, Waiting(e.ear.byte, RxDelay))
  <2>1. e.ear.byte \in HeardBytes
    BY <1>2, EngineFields DEF EngineOK, Ended, Active
  <2>2. e.down \in Seq(Waiters(HeardBytes, RxDelay)) /\ RxDelay \in Nat /\ DownSize \in Nat
    BY EngineFields, Constants DEF EngineOK
  <2>3. /\ BytesOf(down) \subseteq BytesOf(e.down) \cup {e.ear.byte}
        /\ \A n : Rising(e.down, n) /\ (\A x \in BytesOf(e.down) : Before(x, e.ear.byte, n))
                    => Rising(down, n)
    <3>1. CASE down = e.down
      BY <3>1
    <3>2. CASE down = Pushed(e.down, DownSize, Waiting(e.ear.byte, RxDelay))
      <4> HIDE DEF down
      <4> QED BY <2>1, <2>2, <3>2, PushedOrder
    <3> QED BY <3>1, <3>2
  <2>4. d = [e EXCEPT !.ear = Idle, !.down = down]
    BY <1>2 DEF Closed
  <2> HIDE DEF down
  <2>5. d.down = down /\ d.ear.byte = Nothing /\ d.ser = e.ser
    BY <2>4, EngineFields DEF EngineOK, Idle
  <2>6. /\ Received(d) \subseteq Received(e) \cup {Nothing}
        /\ Stored(d) \subseteq Stored(e) \cup {e.ear.byte}
    BY <2>3, <2>5 DEF Received, Stored
  <2>7. ASSUME NEW n, NEW low \in Nat, Chain(e, n, low) PROVE Chain(d, n, low)
    <3>1. ~Of(Nothing, n)
      BY OfFacts
    <3>2. /\ \A x \in BytesOf(e.down) : Before(e.ser.byte, x, n) /\ Before(x, e.ear.byte, n)
          /\ Before(e.ser.byte, e.ear.byte, n)
          /\ \A x \in Received(e) : Of(x, n) => low < x[2]
          /\ Rising(e.down, n)
      BY <2>7 DEF Chain
    <3>3. Rising(d.down, n)
      BY <2>3, <2>5, <3>2
    <3>4. \A x \in Received(d) : Of(x, n) => low < x[2]
      BY <2>6, <3>1, <3>2
    <3>5. \A x : ~(Of(x, n) /\ Of(Nothing, n))
      BY <3>1
    <3>6. \A x \in BytesOf(d.down) : Before(d.ser.byte, x, n) /\ Before(x, d.ear.byte, n)
      BY <2>3, <2>5, <3>2, <3>5 DEF Before
    <3>7. Before(d.ser.byte, d.ear.byte, n)
      BY <2>5, <3>5 DEF Before
    <3> QED BY <3>3, <3>4, <3>6, <3>7 DEF Chain
  <2> QED BY <1>2, <2>6, <2>7
<1> QED BY <1>1, <1>2

\* The only other one that can be heard.
LEMMA HeardOne ==
    ASSUME NEW m, NEW air
    PROVE  \A x, y \in Heard(m, air) : x = y
<1> SUFFICES ASSUME NEW x \in Heard(m, air), NEW y \in Heard(m, air), x # y PROVE FALSE
  OBVIOUS
<1>1. ~Jam(m, air) /\ {x, y} \subseteq Others(m, air)
  BY DEF Heard
<1>2. IsFiniteSet(Others(m, air))
  BY ModemAssumption, FS_Subset DEF Others
<1>3. Cardinality({x, y}) = 2 /\ IsFiniteSet({x, y})
  <2>1. IsFiniteSet({}) /\ Cardinality({}) = 0
    BY FS_EmptySet
  <2>2. IsFiniteSet({} \cup {x}) /\ Cardinality({} \cup {x}) = 1
    BY <2>1, FS_AddElement
  <2>3. {x} = {} \cup {x} /\ {x, y} = {x} \cup {y} /\ y \notin {x}
    OBVIOUS
  <2>4. IsFiniteSet({x}) /\ Cardinality({x}) = 1
    BY <2>2, <2>3
  <2>5. IsFiniteSet({x} \cup {y}) /\ Cardinality({x} \cup {y}) = 1 + 1
    BY <2>3, <2>4, FS_AddElement
  <2> QED BY <2>3, <2>5
<1>4. Cardinality({x, y}) <= Cardinality(Others(m, air)) /\ Cardinality(Others(m, air)) \in Nat
  BY <1>1, <1>2, FS_Subset, FS_CardinalityType
<1> QED BY <1>1, <1>3, <1>4 DEF Jam

LEMMA OpenedOrder ==
    ASSUME NEW m \in Modems, NEW falls, NEW e, EngineOK(e),
           aired \in [Modems -> ModemBytes \cup {Nothing}],
           NEW d, d = Opened(m, e, falls)
    PROVE  /\ Stored(d) = Stored(e)
           /\ \A x \in Received(d) :
                \/ x \in Received(e) \cup {Nothing, Ghost}
                \/ \E k \in Starting(m) \cap Modems : k # m /\ x = aired[k] /\ x # Nothing
           /\ \A n \in Modems : \A low \in Nat :
                /\ Chain(e, n, low) /\ m # n
                /\ \A k \in Modems : aired[k] # Nothing => Of(aired[k], k)
                /\ n \in Starting(m) /\ ~Active(e.ear) /\ aired[n] # Nothing =>
                     /\ low < aired[n][2]
                     /\ \A x \in Received(e) : Before(x, aired[n], n)
                => Chain(d, n, low)
<1> DEFINE heard == IF Deaf(m, e) THEN {} ELSE Heard(m, aired)
           k == CHOOSE k \in heard : TRUE
<1>1. \/ d = e
      \/ /\ ~Active(e.ear) /\ heard \cap Starting(m) # {}
         /\ d = [e EXCEPT !.ear = OnLine(aired[k], AirStop)]
      \/ /\ ~Active(e.ear) /\ d = [e EXCEPT !.ear = OnLine(Ghost, AirStop)]
  BY DEF Opened
<1>2. CASE d = e
  BY <1>2
<1>3. CASE ~Active(e.ear) /\ d = [e EXCEPT !.ear = OnLine(Ghost, AirStop)]
  <2>1. d.down = e.down /\ d.ser = e.ser /\ d.ear.byte = Ghost
    BY <1>3, EngineFields DEF EngineOK, OnLine
  <2>2. Received(d) \subseteq Received(e) \cup {Ghost}
    BY <2>1 DEF Received
  <2>3. ASSUME NEW n, NEW low, Chain(e, n, low) PROVE Chain(d, n, low)
    <3>1. ~Of(Ghost, n)
      BY OfFacts
    <3> QED BY <2>1, <2>2, <2>3, <3>1 DEF Chain, Before
  <2> QED BY <2>1, <2>2, <2>3 DEF Stored
<1>4. CASE /\ ~Active(e.ear) /\ heard \cap Starting(m) # {}
           /\ d = [e EXCEPT !.ear = OnLine(aired[k], AirStop)]
  <2>1. k \in Heard(m, aired) /\ k \in Starting(m) /\ k \in Modems
    <3>1. heard \subseteq Heard(m, aired)
      OBVIOUS
    <3>2. PICK j \in heard : j \in Starting(m)
      BY <1>4
    <3>3. k \in heard
      BY <3>2
    <3>4. j \in Heard(m, aired) /\ k \in Heard(m, aired)
      BY <3>1, <3>2, <3>3
    <3>5. k = j
      <4> HIDE DEF k, heard
      <4> QED BY <3>4, HeardOne
    <3>6. Heard(m, aired) \subseteq Modems
      BY DEF Heard, Others
    <3> HIDE DEF k, heard
    <3> QED BY <3>2, <3>4, <3>5, <3>6
  <2>2. k # m /\ aired[k] # Nothing
    <3> HIDE DEF k, heard
    <3> QED BY <2>1 DEF Heard, Others
  <2> HIDE DEF k, heard
  <2>3. d.down = e.down /\ d.ser = e.ser /\ d.ear.byte = aired[k] /\ e.ear.byte = Nothing
    BY <1>4, EngineFields DEF EngineOK, OnLine, Active
  <2>4. Received(d) \subseteq Received(e) \cup {aired[k]}
    BY <2>3 DEF Received
  <2>5. ASSUME NEW n \in Modems, NEW low \in Nat, Chain(e, n, low), m # n,
               \A j \in Modems : aired[j] # Nothing => Of(aired[j], j),
               n \in Starting(m) /\ ~Active(e.ear) /\ aired[n] # Nothing =>
                 /\ low < aired[n][2]
                 /\ \A x \in Received(e) : Before(x, aired[n], n)
        PROVE  Chain(d, n, low)
    <3>1. Of(aired[k], k)
      BY <2>1, <2>2, <2>5
    <3>2. CASE k = n
      <4>1. low < aired[k][2] /\ \A x \in Received(e) : Before(x, aired[k], n)
        BY <1>4, <2>1, <2>2, <2>5, <3>2
      <4>2. e.ser.byte \in Received(e) /\ BytesOf(e.down) \subseteq Received(e)
        BY DEF Received
      <4>3. \A x \in BytesOf(d.down) : Before(d.ser.byte, x, n) /\ Before(x, d.ear.byte, n)
        BY <2>3, <2>5, <4>1, <4>2 DEF Chain
      <4>4. Before(d.ser.byte, d.ear.byte, n)
        BY <2>3, <4>1, <4>2
      <4>5. \A x \in Received(d) : Of(x, n) => low < x[2]
        BY <2>4, <2>5, <4>1 DEF Chain
      <4>6. Rising(d.down, n)
        BY <2>3, <2>5 DEF Chain
      <4> QED BY <4>3, <4>4, <4>5, <4>6 DEF Chain
    <3>3. CASE k # n
      <4>1. ~Of(aired[k], n)
        BY <3>1, <3>3 DEF Of
      <4>2. \A x : Before(x, aired[k], n)
        BY <4>1 DEF Before
      <4>3. \A x \in BytesOf(d.down) : Before(d.ser.byte, x, n) /\ Before(x, d.ear.byte, n)
        BY <2>3, <2>5, <4>2 DEF Chain
      <4>4. Before(d.ser.byte, d.ear.byte, n)
        BY <2>3, <4>2
      <4>5. \A x \in Received(d) : Of(x, n) => low < x[2]
        BY <2>4, <2>5, <4>1 DEF Chain
      <4>6. Rising(d.down, n)
        BY <2>3, <2>5 DEF Chain
      <4> QED BY <4>3, <4>4, <4>5, <4>6 DEF Chain
    <3> QED BY <3>2, <3>3
  <2> QED BY <2>1, <2>2, <2>3, <2>4, <2>5 DEF Stored
<1> QED BY <1>1, <1>2, <1>3, <1>4

LEMMA SerialSentOrder ==
    ASSUME NEW e, EngineOK(e), NEW d, d = SerialSent(e)
    PROVE  /\ Received(d) \subseteq Received(e) /\ Stored(d) \subseteq Stored(e)
           /\ \A n : \A low \in Nat : Chain(e, n, low) => Chain(d, n, low)
<1>1. CASE ~(~Active(e.ser) /\ Ready(e.down))
  BY <1>1 DEF SerialSent
<1>2. CASE ~Active(e.ser) /\ Ready(e.down)
  <2> DEFINE b == Head(e.down).byte
             down == Tail(e.down)
  <2>1. d = [e EXCEPT !.ser = OnLine(b, SerFrame), !.down = down]
    BY <1>2 DEF SerialSent
  <2>2. /\ b \in BytesOf(e.down) /\ BytesOf(down) \subseteq BytesOf(e.down)
        /\ \A n : Rising(e.down, n) => /\ Rising(down, n)
                                       /\ \A x \in BytesOf(down) : Before(b, x, n)
    BY <1>2, EngineFields, PoppedOrder DEF EngineOK
  <2> HIDE DEF b, down
  <2>3. d.down = down /\ d.ear = e.ear /\ d.ser.byte = b
    BY <2>1, EngineFields DEF EngineOK, OnLine
  <2>4. Received(d) \subseteq Received(e) /\ Stored(d) \subseteq Stored(e)
    BY <2>2, <2>3 DEF Received, Stored
  <2>5. ASSUME NEW n, NEW low \in Nat, Chain(e, n, low) PROVE Chain(d, n, low)
    <3>1. Rising(d.down, n) /\ \A x \in BytesOf(d.down) : Before(d.ser.byte, x, n)
      BY <2>2, <2>3, <2>5 DEF Chain
    <3>2. \A x \in BytesOf(d.down) \cup {d.ser.byte} : Before(x, d.ear.byte, n)
      BY <2>2, <2>3, <2>5 DEF Chain
    <3>3. \A x \in Received(d) : Of(x, n) => low < x[2]
      BY <2>4, <2>5 DEF Chain
    <3> QED BY <3>1, <3>2, <3>3 DEF Chain
  <2> QED BY <2>4, <2>5
<1> QED BY <1>1, <1>2

\* A call of RadioModem_sync keeps the order of what its engine has received,
\* and adds only the frame it begins to hear.
LEMMA SyncedOrder ==
    ASSUME NEW m \in Modems, NEW falls, NEW high, EngineOK(engine[m]), Writing,
           aired \in [Modems -> ModemBytes \cup {Nothing}],
           NEW d, d = Synced(m, falls, high)
    PROVE  /\ \A x \in Stored(d) :
                \/ x \in Stored(engine[m]) \cup {Nothing}
                \/ x = engine[m].ear.byte /\ Ended(engine[m].ear)
           /\ \A x \in Received(d) :
                \/ x \in Received(engine[m]) \cup {Nothing, Ghost}
                \/ \E k \in Starting(m) \cap Modems : k # m /\ x = aired[k] /\ x # Nothing
           /\ \A n \in Modems : \A low, top \in Nat :
                /\ Chain(engine[m], n, low) /\ m # n
                /\ \A k \in Modems : aired[k] # Nothing => Of(aired[k], k)
                /\ n \in Starting(m) /\ aired[n] # Nothing =>
                     /\ low < aired[n][2]
                     /\ \A x \in Stored(engine[m]) : Before(x, aired[n], n)
                     /\ Ended(engine[m].ear) => Before(engine[m].ear.byte, aired[n], n)
                /\ top = IF Ended(engine[m].ser) /\ Of(engine[m].ser.byte, n)
                         THEN engine[m].ser.byte[2] ELSE low
                => Chain(d, n, top)
<1>1. PICK e : e = engine[m]
  OBVIOUS
<1>2. PICK e1 : e1 = SerialDone(m, e)
  OBVIOUS
<1>3. PICK e2 : e2 = AirSent(m, e1)
  OBVIOUS
<1>4. PICK e3 : e3 = Collided(m, e2)
  OBVIOUS
<1>5. PICK e4 : e4 = Closed(e3, high)
  OBVIOUS
<1>6. PICK e5 : e5 = Opened(m, e4, falls)
  OBVIOUS
<1>7. d = SerialSent(e5)
  BY <1>1, <1>2, <1>3, <1>4, <1>5, <1>6 DEF Synced, Interrupted
<1>8. EngineOK(e) /\ EngineOK(e1)
  BY <1>1, <1>2, SerialDoneFacts
<1>9. EngineOK(e2)
  BY <1>3, <1>8, AirSentFacts
<1>10. EngineOK(e3)
  BY <1>4, <1>9, CollidedFacts
<1>11. EngineOK(e4) /\ Settled(e4.ear)
  BY <1>5, <1>10, ClosedFacts
<1>12. EngineOK(e5)
  BY <1>6, <1>11, OpenedFacts
<1>13. /\ e1.down = e.down /\ e1.ear = e.ear
       /\ e1.ser.byte = IF Ended(e.ser) THEN Nothing ELSE e.ser.byte
  BY <1>2, <1>8, EngineFields DEF SerialDone, EngineOK, Idle
<1>14. e2.down = e1.down /\ e2.ser = e1.ser /\ e2.ear \in {e1.ear, Idle}
  BY <1>3, <1>8, EngineFields DEF AirSent, EngineOK
<1>15. e3.down = e2.down /\ e3.ser = e2.ser /\ e3.ear \in {e2.ear, Idle}
  BY <1>4, <1>9, EngineFields DEF Collided, EngineOK
<1>16. /\ e3.down = e.down /\ e3.ear \in {e.ear, Idle}
       /\ e3.ear.byte \in {e.ear.byte, Nothing}
       /\ e3.ser.byte = IF Ended(e.ser) THEN Nothing ELSE e.ser.byte
  BY <1>13, <1>14, <1>15 DEF Idle
<1>17. Received(e3) \subseteq Received(e) \cup {Nothing} /\ Stored(e3) \subseteq Stored(e) \cup {Nothing}
  BY <1>16 DEF Received, Stored
<1>18. /\ Received(e4) \subseteq Received(e3) \cup {Nothing}
       /\ \A x \in Stored(e4) : x \in Stored(e3) \/ (x = e3.ear.byte /\ Ended(e3.ear))
  BY <1>5, <1>10, ClosedOrder
<1>23. \A x \in Stored(e4) : x \in Stored(e) \cup {Nothing} \/ (x = e.ear.byte /\ Ended(e.ear))
  <2>1. Ended(e3.ear) => e3.ear = e.ear
    BY <1>16 DEF Ended, Active, Idle
  <2> QED BY <1>17, <1>18, <2>1
<1>19. \A x \in Received(e5) :
         \/ x \in Received(e4) \cup {Nothing, Ghost}
         \/ \E k \in Starting(m) \cap Modems : k # m /\ x = aired[k] /\ x # Nothing
  BY <1>6, <1>11, OpenedOrder
<1>24. Stored(e5) = Stored(e4)
  BY <1>6, <1>11, OpenedOrder
<1>20. Received(d) \subseteq Received(e5) /\ Stored(d) \subseteq Stored(e5)
  BY <1>7, <1>12, SerialSentOrder
<1>21. ASSUME NEW n \in Modems, NEW low \in Nat, NEW top \in Nat,
              Chain(e, n, low), m # n,
              \A k \in Modems : aired[k] # Nothing => Of(aired[k], k),
              n \in Starting(m) /\ aired[n] # Nothing =>
                /\ low < aired[n][2]
                /\ \A x \in Stored(e) : Before(x, aired[n], n)
                /\ Ended(e.ear) => Before(e.ear.byte, aired[n], n),
              top = IF Ended(e.ser) /\ Of(e.ser.byte, n) THEN e.ser.byte[2] ELSE low
       PROVE  Chain(d, n, top)
  <2>1. Chain(e3, n, top)
    BY <1>16, <1>21, ChainLoses
  <2>2. Chain(e4, n, top)
    BY <1>5, <1>10, <2>1, ClosedOrder
  <2>3. n \in Starting(m) /\ ~Active(e4.ear) /\ aired[n] # Nothing =>
          /\ top < aired[n][2]
          /\ \A x \in Received(e4) : Before(x, aired[n], n)
    <3>1. SUFFICES ASSUME n \in Starting(m), ~Active(e4.ear), aired[n] # Nothing
                   PROVE  /\ top < aired[n][2]
                          /\ \A x \in Received(e4) : Before(x, aired[n], n)
      OBVIOUS
    <3>2. Of(aired[n], n)
      BY <1>21, <3>1
    <3>3. e.ser.byte \in Stored(e)
      BY DEF Stored
    <3>4. top < aired[n][2]
      BY <1>21, <3>1, <3>2, <3>3 DEF Before
    <3>5. \A x \in Received(e4) : x \in Stored(e4) \/ ~Of(x, n)
      BY <3>1, OfFacts DEF Received, Stored, Active
    <3>6. \A x \in Stored(e4) : ~Of(x, n) \/ x \in Stored(e) \/ (x = e.ear.byte /\ Ended(e.ear))
      BY <1>23, OfFacts
    <3>7. \A x : ~Of(x, n) => Before(x, aired[n], n)
      BY DEF Before
    <3> QED BY <1>21, <3>1, <3>4, <3>5, <3>6, <3>7
  <2>4. Chain(e5, n, top)
    BY <1>6, <1>11, <1>21, <2>2, <2>3, OpenedOrder
  <2> QED BY <1>7, <1>12, <2>4, SerialSentOrder
<1>22. \A x \in Received(d) :
         \/ x \in Received(e) \cup {Nothing, Ghost}
         \/ \E k \in Starting(m) \cap Modems : k # m /\ x = aired[k] /\ x # Nothing
  BY <1>17, <1>18, <1>19, <1>20
<1>25. \A x \in Stored(d) : x \in Stored(e) \cup {Nothing} \/ (x = e.ear.byte /\ Ended(e.ear))
  BY <1>20, <1>23, <1>24
<1> QED BY <1>1, <1>21, <1>22, <1>25

\* The byte that the engine of m is given at this instant.
Given(m) == IF m \in writes THEN {<<m, written[m]>>} ELSE {}

\* What an engine has yet to send after a call: what it had, with the byte of
\* its microcontroller behind; its emitter has kept its frame, or lost it, or
\* taken the head of the queue.
LEMMA SyncedUp ==
    ASSUME NEW m \in Modems, NEW falls, NEW high, EngineOK(engine[m]), Writing,
           aired \in [Modems -> ModemBytes \cup {Nothing}],
           Upward(m, engine[m], Counted(m)),
           NEW d, d = Synced(m, falls, high)
    PROVE  /\ Upward(m, d, written[m])
           /\ BytesOf(d.up) \subseteq BytesOf(engine[m].up) \cup Given(m)
           /\ d.emit.byte \in BytesOf(engine[m].up) \cup Given(m) \cup {engine[m].emit.byte, Nothing}
<1>1. PICK e : e = engine[m]
  OBVIOUS
<1>2. PICK e1 : e1 = SerialDone(m, e)
  OBVIOUS
<1>3. PICK e2 : e2 = AirSent(m, e1)
  OBVIOUS
<1>4. PICK e3 : e3 = Collided(m, e2)
  OBVIOUS
<1>5. PICK e4 : e4 = Closed(e3, high)
  OBVIOUS
<1>6. PICK e5 : e5 = Opened(m, e4, falls)
  OBVIOUS
<1>7. d = SerialSent(e5)
  BY <1>1, <1>2, <1>3, <1>4, <1>5, <1>6 DEF Synced, Interrupted
<1>8. EngineOK(e) /\ EngineOK(e1) /\ Settled(e1.ser)
  BY <1>1, <1>2, SerialDoneFacts
<1>9. EngineOK(e2) /\ e2.ser = e1.ser
  BY <1>3, <1>8, AirSentFacts
<1>10. EngineOK(e3) /\ e3.emit = e2.emit /\ e3.up = e2.up /\ e3.ser = e2.ser
  BY <1>4, <1>9, CollidedFacts
<1>11. EngineOK(e4) /\ Settled(e4.ear) /\ e4.emit = e2.emit /\ e4.up = e2.up /\ e4.ser = e2.ser
  BY <1>5, <1>10, ClosedFacts
<1>12. EngineOK(e5) /\ e5.emit = e2.emit /\ e5.up = e2.up /\ e5.ser = e2.ser
  BY <1>6, <1>11, OpenedFacts
<1>13. d.emit = e2.emit /\ d.up = e2.up
  BY <1>7, <1>8, <1>9, <1>12, SerialSentFacts
<1> DEFINE w == <<m, written[m]>>
           new == Given(m)
<1>14. /\ Counted(m) \in Int /\ Counted(m) <= written[m] /\ written[m] \in Nat
       /\ (m \in writes => Counted(m) < written[m])
  BY DEF Counted, Writing
<1>15. /\ e1.emit = e.emit
       /\ e1.up = IF m \in writes THEN Pushed(e.up, UpSize, Waiting(w, TxDelay)) ELSE e.up
  BY <1>2, <1>8, EngineFields DEF SerialDone, EngineOK
<1>16. m \in writes => Of(w, m) /\ w \in ModemBytes
  BY ByteFacts, Constants DEF Writing, Of
<1>17. /\ \A x \in BytesOf(e.up) : Of(x, m) /\ x[2] <= Counted(m)
       /\ Rising(e.up, m)
       /\ Active(e.emit) => /\ Of(e.emit.byte, m) /\ e.emit.byte[2] <= Counted(m)
                            /\ \A x \in BytesOf(e.up) : e.emit.byte[2] < x[2]
  BY <1>1 DEF Upward
<1>18. BytesOf(e1.up) \subseteq BytesOf(e.up) \cup new /\ Rising(e1.up, m)
  <2>1. CASE m \in writes
    <3>1. e.up \in Seq(Waiters(ModemBytes, TxDelay)) /\ TxDelay \in Nat /\ UpSize \in Nat
      BY <1>8, EngineFields, Constants DEF EngineOK
    <3>2. \A x \in BytesOf(e.up) : Before(x, w, m)
      BY <1>14, <1>17, <2>1, OfFacts DEF Before
    <3> HIDE DEF w
    <3>3. /\ BytesOf(e1.up) \subseteq BytesOf(e.up) \cup {w}
          /\ Rising(e.up, m) /\ (\A x \in BytesOf(e.up) : Before(x, w, m)) => Rising(e1.up, m)
      BY <1>15, <1>16, <2>1, <3>1, PushedOrder
    <3> QED BY <1>17, <2>1, <3>2, <3>3 DEF Given, w
  <2>2. CASE m \notin writes
    BY <1>15, <1>17, <2>2
  <2> QED BY <2>1, <2>2 DEF Given
<1>19. \A x \in new : Of(x, m) /\ x[2] = written[m] /\ Counted(m) < x[2]
  BY <1>14, <1>16 DEF Given
<1> HIDE DEF new
<1>20. \A x \in BytesOf(e1.up) : Of(x, m) /\ x[2] <= written[m] /\ x[2] \in Nat
  <2>1. ASSUME NEW x \in BytesOf(e1.up) PROVE Of(x, m) /\ x[2] <= written[m]
    <3>1. CASE x \in BytesOf(e.up)
      BY <1>14, <1>17, <3>1, OfFacts
    <3>2. CASE x \in new
      BY <1>14, <1>19, <3>2
    <3> QED BY <1>18, <3>1, <3>2
  <2> QED BY <2>1, OfFacts
<1>21. Active(e1.emit) => /\ Of(e1.emit.byte, m) /\ e1.emit.byte[2] <= written[m]
                          /\ \A x \in BytesOf(e1.up) : e1.emit.byte[2] < x[2]
  BY <1>14, <1>15, <1>17, <1>18, <1>19, OfFacts
<1>22. \/ e2.up = e1.up /\ e2.emit.byte \in {e1.emit.byte, Nothing}
       \/ /\ Ready(e1.up) /\ e2.up = Tail(e1.up)
          /\ e2.emit.byte = Head(e1.up).byte
  BY <1>3, <1>8, EngineFields DEF AirSent, EngineOK, Idle, OnLine
<1>23. CASE e2.up = e1.up /\ e2.emit.byte \in {e1.emit.byte, Nothing}
  <2>1. Upward(m, d, written[m])
    BY <1>13, <1>18, <1>20, <1>21, <1>23 DEF Upward, Active
  <2> QED BY <1>1, <1>13, <1>15, <1>18, <1>23, <2>1 DEF new
<1>24. CASE Ready(e1.up) /\ e2.up = Tail(e1.up) /\ e2.emit.byte = Head(e1.up).byte
  <2>1. /\ Head(e1.up).byte \in BytesOf(e1.up) /\ BytesOf(Tail(e1.up)) \subseteq BytesOf(e1.up)
        /\ Rising(Tail(e1.up), m)
        /\ \A x \in BytesOf(Tail(e1.up)) : Before(Head(e1.up).byte, x, m)
    BY <1>8, <1>18, <1>24, EngineFields, PoppedOrder DEF EngineOK
  <2>2. Upward(m, d, written[m])
    BY <1>13, <1>20, <1>24, <2>1 DEF Upward, Before
  <2> QED BY <1>1, <1>13, <1>18, <1>24, <2>1, <2>2 DEF new
<1> QED BY <1>22, <1>23, <1>24

LEMMA TypesUsed ==
    ASSUME IInv
    PROVE  /\ Writing /\ due \subseteq Modems /\ writes \subseteq Modems
           /\ aired \in [Modems -> ModemBytes \cup {Nothing}]
           /\ reach \in [Modems -> [Modems -> Nat]]
           /\ \A n \in Modems : EngineOK(engine[n]) /\ written[n] \in Nat
                                /\ (n \in writes => written[n] > 0)
BY DEF IInv, ModemTypeOK, Writing, EngineOK, Fits

\* The decoder of m is in the frame that n has on the air.
Holds(m, n) == aired[n] # Nothing /\ engine[m].ear.byte = aired[n]

\* The emitter in a call: it keeps its frame, or has ended it and is idle or in
\* a newer one, whose byte is none of those before.
LEMMA SyncedEmit ==
    ASSUME NEW m \in Modems, NEW falls, NEW high, EngineOK(engine[m]), Writing,
           aired \in [Modems -> ModemBytes \cup {Nothing}],
           Upward(m, engine[m], Counted(m)),
           NEW d, d = Synced(m, falls, high)
    PROVE  /\ \/ d.emit = engine[m].emit
              \/ /\ ~Active(engine[m].emit) \/ Ended(engine[m].emit)
                 /\ d.emit.byte # Nothing => d.emit.byte # engine[m].emit.byte /\ d.emit.left = AirFrame
           /\ OnTime(engine[m]) /\ m \notin writes => d.emit = engine[m].emit
<1>1. PICK e : e = engine[m]
  OBVIOUS
<1>2. PICK e1 : e1 = SerialDone(m, e)
  OBVIOUS
<1>3. PICK e2 : e2 = AirSent(m, e1)
  OBVIOUS
<1>4. PICK e3 : e3 = Collided(m, e2)
  OBVIOUS
<1>5. PICK e4 : e4 = Closed(e3, high)
  OBVIOUS
<1>6. PICK e5 : e5 = Opened(m, e4, falls)
  OBVIOUS
<1>7. d = SerialSent(e5)
  BY <1>1, <1>2, <1>3, <1>4, <1>5, <1>6 DEF Synced, Interrupted
<1>8. EngineOK(e) /\ EngineOK(e1) /\ Settled(e1.ser)
  BY <1>1, <1>2, SerialDoneFacts
<1>9. EngineOK(e2) /\ e2.ser = e1.ser
  BY <1>3, <1>8, AirSentFacts
<1>10. EngineOK(e3) /\ e3.emit = e2.emit /\ e3.ser = e2.ser
  BY <1>4, <1>9, CollidedFacts
<1>11. EngineOK(e4) /\ Settled(e4.ear) /\ e4.emit = e2.emit /\ e4.ser = e2.ser
  BY <1>5, <1>10, ClosedFacts
<1>12. EngineOK(e5) /\ e5.emit = e2.emit /\ e5.ser = e2.ser
  BY <1>6, <1>11, OpenedFacts
<1>13. d.emit = e2.emit
  BY <1>7, <1>8, <1>9, <1>12, SerialSentFacts
<1>14. e1.emit = e.emit /\ (m \notin writes => e1.up = e.up)
  BY <1>2, <1>8, EngineFields DEF SerialDone, EngineOK
<1>15. \/ e2.emit = e1.emit
       \/ Ended(e1.emit) /\ e2.emit = Idle
       \/ /\ ~Active(e1.emit) \/ Ended(e1.emit)
          /\ Ready(e1.up) /\ e2.emit = OnLine(Head(e1.up).byte, AirFrame)
  BY <1>3, <1>8, EngineFields DEF AirSent, EngineOK, Idle, Active
<1>16. OnTime(e) /\ m \notin writes => d.emit = e.emit
  <2>1. SUFFICES ASSUME OnTime(e), m \notin writes PROVE d.emit = e.emit
    OBVIOUS
  <2>2. ~Ended(e.emit) /\ (Ready(e.up) => Active(e.emit))
    BY <2>1 DEF OnTime, Ended
  <2> QED BY <1>13, <1>14, <1>15, <2>1, <2>2
<1>17. ASSUME Ready(e1.up), e2.emit = OnLine(Head(e1.up).byte, AirFrame)
       PROVE  d.emit.left = AirFrame /\ d.emit.byte # e.emit.byte
  <2>1. d.emit.byte = Head(e1.up).byte /\ d.emit.left = AirFrame
    BY <1>13, <1>17 DEF OnLine
  <2>2. e1.up = IF m \in writes
                THEN Pushed(e.up, UpSize, Waiting(<<m, written[m]>>, TxDelay)) ELSE e.up
    BY <1>2, <1>8, EngineFields DEF SerialDone, EngineOK
  <2>3. BytesOf(e1.up) \subseteq BytesOf(e.up) \cup Given(m)
    <3>1. CASE m \in writes
      <4>1. e.up \in Seq(Waiters(ModemBytes, TxDelay)) /\ TxDelay \in Nat /\ UpSize \in Nat
        BY <1>8, EngineFields, Constants DEF EngineOK
      <4>2. PICK w : w = <<m, written[m]>>
        OBVIOUS
      <4>3. w \in ModemBytes
        BY <3>1, <4>2, ByteFacts, Constants DEF Writing
      <4>4. BytesOf(e1.up) \subseteq BytesOf(e.up) \cup {w}
        BY <2>2, <3>1, <4>1, <4>2, <4>3, PushedOrder
      <4> QED BY <3>1, <4>2, <4>4 DEF Given
    <3>2. CASE m \notin writes
      BY <2>2, <3>2
    <3> QED BY <3>1, <3>2
  <2>4. Head(e1.up).byte \in BytesOf(e1.up) /\ Head(e1.up).byte \in ModemBytes
    BY <1>8, <1>17, EngineFields, Constants, PoppedOrder, Popped DEF EngineOK
  <2>5. ASSUME Active(e.emit) PROVE Head(e1.up).byte # e.emit.byte
    <3>1. /\ Of(e.emit.byte, m) /\ e.emit.byte[2] <= Counted(m)
          /\ \A x \in BytesOf(e.up) : e.emit.byte[2] < x[2]
      BY <1>1, <2>5 DEF Upward
    <3>2. e.emit.byte[2] \in Nat
      BY <3>1, OfFacts
    <3>3. \A x \in Given(m) : e.emit.byte[2] < x[2]
      BY <3>1, <3>2 DEF Given, Counted, Writing
    <3> QED BY <2>3, <2>4, <3>1, <3>2, <3>3
  <2>6. Head(e1.up).byte # Nothing
    BY <2>4, ByteFacts DEF HeardBytes
  <2> QED BY <2>1, <2>5, <2>6 DEF Active
<1>18. Idle.byte = Nothing
  BY DEF Idle
<1> QED BY <1>1, <1>13, <1>14, <1>15, <1>16, <1>17, <1>18

\* The decoder in a call.  It keeps the frame that it is in unless the modem is
\* half duplex and transmits, or a collision begins; it begins the frame that
\* it hears if it is free.
LEMMA SyncedEar ==
    ASSUME NEW m \in Modems, NEW falls, NEW high, EngineOK(engine[m]), Writing,
           aired \in [Modems -> ModemBytes \cup {Nothing}],
           NEW d, d = Synced(m, falls, high)
    PROVE  /\ d.jammed = Jam(m, aired)
           /\ Active(Interrupted(m).ear) =>
                Interrupted(m).ear = engine[m].ear /\ (Deaf(m, d) => Deaf(m, engine[m]))
           /\ ~Deaf(m, d) /\ ~(Jam(m, aired) /\ ~engine[m].jammed) =>
                Interrupted(m).ear = engine[m].ear
           /\ \/ d.ear = engine[m].ear /\ ~Ended(d.ear)
                 /\ ~(Jam(m, aired) /\ ~engine[m].jammed /\ Active(d.ear))
                 /\ (Deaf(m, d) /\ Active(d.ear) => Deaf(m, engine[m]))
              \/ d.ear.byte \in {Nothing, Ghost}
              \/ \E k \in Heard(m, aired) \cap Starting(m) :
                   d.ear = OnLine(aired[k], AirStop) /\ ~Deaf(m, d)
           /\ /\ Active(engine[m].ear) /\ ~Ended(engine[m].ear) /\ ~Deaf(m, d)
              /\ ~(Jam(m, aired) /\ ~engine[m].jammed)
              => d.ear = engine[m].ear
           /\ \A k \in Heard(m, aired) \cap Starting(m) :
                ~Deaf(m, d) /\ (Active(engine[m].ear) => Ended(engine[m].ear))
                  => d.ear = OnLine(aired[k], AirStop)
<1>1. PICK e : e = engine[m]
  OBVIOUS
<1>2. PICK e1 : e1 = SerialDone(m, e)
  OBVIOUS
<1>3. PICK e2 : e2 = AirSent(m, e1)
  OBVIOUS
<1>4. PICK e3 : e3 = Collided(m, e2)
  OBVIOUS
<1>5. PICK e4 : e4 = Closed(e3, high)
  OBVIOUS
<1>6. PICK e5 : e5 = Opened(m, e4, falls)
  OBVIOUS
<1>7. d = SerialSent(e5)
  BY <1>1, <1>2, <1>3, <1>4, <1>5, <1>6 DEF Synced, Interrupted
<1>8. EngineOK(e) /\ EngineOK(e1) /\ Settled(e1.ser)
  BY <1>1, <1>2, SerialDoneFacts
<1>9. EngineOK(e2) /\ e2.ser = e1.ser
  BY <1>3, <1>8, AirSentFacts
<1>10. EngineOK(e3) /\ e3.emit = e2.emit /\ e3.ser = e2.ser
  BY <1>4, <1>9, CollidedFacts
<1>11. EngineOK(e4) /\ Settled(e4.ear) /\ e4.emit = e2.emit /\ e4.ser = e2.ser
  BY <1>5, <1>10, ClosedFacts
<1>12. EngineOK(e5) /\ e5.emit = e2.emit /\ e5.ser = e2.ser
  BY <1>6, <1>11, OpenedFacts
<1>13. EngineOK(d) /\ d.emit = e2.emit /\ d.ear = e5.ear
  BY <1>7, <1>8, <1>9, <1>12, SerialSentFacts
<1>14. e1.emit = e.emit /\ e1.ear = e.ear /\ e1.jammed = e.jammed
  BY <1>2, <1>8, EngineFields DEF SerialDone, EngineOK
<1>15. /\ e2.jammed = e1.jammed
       /\ \/ e2.ear = e1.ear /\ (e2.emit = e1.emit \/ ~Active(e2.emit) \/ m \in FullDuplex)
          \/ e2.ear = Idle /\ m \notin FullDuplex /\ Active(e2.emit)
  <2>1. CASE e2.emit = e1.emit /\ e2.ear = e1.ear /\ e2.jammed = e1.jammed
    BY <2>1
  <2>2. CASE Ended(e1.emit) /\ e2 = [e1 EXCEPT !.emit = Idle]
    <3>1. e2.emit = Idle /\ e2.ear = e1.ear /\ e2.jammed = e1.jammed
      BY <1>8, <2>2, EngineFields DEF EngineOK
    <3> QED BY <3>1 DEF Active, Idle
  <2>3. CASE /\ Ready(e1.up) /\ e2.emit = OnLine(Head(e1.up).byte, AirFrame)
             /\ e2.ear = IF m \in FullDuplex THEN e1.ear ELSE Idle
             /\ e2.jammed = e1.jammed
    <3>1. Head(e1.up).byte \in ModemBytes
      BY <1>8, <2>3, EngineFields, Constants, Popped DEF EngineOK
    <3>2. Active(e2.emit)
      BY <2>3, <3>1, ByteFacts DEF Active, OnLine, HeardBytes
    <3> QED BY <2>3, <3>2
  <2> QED BY <1>3, <1>8, <2>1, <2>2, <2>3, EngineFields DEF AirSent, EngineOK
<1>16. /\ e3.jammed = Jam(m, aired)
       /\ e3.ear = IF Jam(m, aired) /\ ~e2.jammed THEN Idle ELSE e2.ear
  BY <1>4, <1>9, EngineFields DEF Collided, EngineOK
<1>17. e4.ear = (IF Ended(e3.ear) THEN Idle ELSE e3.ear) /\ e4.jammed = e3.jammed
  BY <1>5, <1>10, EngineFields DEF Closed, EngineOK
<1> DEFINE heard == IF Deaf(m, e4) THEN {} ELSE Heard(m, aired)
           k0 == CHOOSE k \in heard : TRUE
<1>18. /\ e5.jammed = e4.jammed
       /\ e5.ear = IF Active(e4.ear) THEN e4.ear
                   ELSE IF heard \cap Starting(m) # {} THEN OnLine(aired[k0], AirStop)
                   ELSE IF falls /\ \E n \in heard : Elapsed(n) >= Half THEN OnLine(Ghost, AirStop)
                   ELSE e4.ear
  BY <1>6, <1>11, EngineFields DEF Opened, EngineOK
<1>19. d.jammed = e5.jammed
  BY <1>7, <1>12, EngineFields DEF SerialSent, EngineOK
<1>20. Deaf(m, e4) = Deaf(m, d)
  BY <1>11, <1>13 DEF Deaf
<1>21. \A k \in heard : k = k0 /\ k0 \in Heard(m, aired)
  <2>1. ASSUME NEW k \in heard PROVE k = k0 /\ k0 \in Heard(m, aired)
    <3>1. k0 \in heard /\ heard \subseteq Heard(m, aired)
      BY <2>1
    <3> HIDE DEF heard, k0
    <3> QED BY <2>1, <3>1, HeardOne
  <2> HIDE DEF heard, k0
  <2> QED BY <2>1
<1>22. heard = {} \/ (heard = Heard(m, aired) /\ ~Deaf(m, d))
  BY <1>20
<1>23. Jam(m, aired) => heard = {}
  BY DEF Heard
<1>24. Idle.byte = Nothing /\ ~Active(Idle) /\ ~Ended(Idle)
  BY DEF Idle, Active, Ended
<1>25. OnLine(Ghost, AirStop).byte = Ghost
  BY DEF OnLine
<1> HIDE DEF heard, k0
<1>26. \A k \in Heard(m, aired) \cap Starting(m) :
                ~Deaf(m, d) /\ (Active(e.ear) => Ended(e.ear))
                  => d.ear = OnLine(aired[k], AirStop)
  <2>1. SUFFICES ASSUME NEW k \in Heard(m, aired) \cap Starting(m), ~Deaf(m, d),
                        Active(e.ear) => Ended(e.ear)
                 PROVE  d.ear = OnLine(aired[k], AirStop)
    OBVIOUS
  <2>2. k = k0 /\ heard \cap Starting(m) # {}
    BY <1>20, <1>21, <1>23, <2>1 DEF heard
  <2>3. ~Active(e3.ear) \/ Ended(e3.ear)
    BY <1>14, <1>15, <1>16, <1>24, <2>1
  <2>4. ~Active(e4.ear)
    BY <1>17, <1>24, <2>3
  <2> QED BY <1>13, <1>18, <2>2, <2>4
<1>27. Active(e.ear) /\ ~Ended(e.ear) /\ ~Deaf(m, d) /\ ~(Jam(m, aired) /\ ~e.jammed)
         => d.ear = e.ear
  <2>1. SUFFICES ASSUME Active(e.ear), ~Ended(e.ear), ~Deaf(m, d), ~(Jam(m, aired) /\ ~e.jammed)
                 PROVE  d.ear = e.ear
    OBVIOUS
  <2>2. e2.ear = e.ear
    BY <1>13, <1>14, <1>15, <2>1 DEF Deaf
  <2>3. e3.ear = e.ear
    BY <1>14, <1>15, <1>16, <2>1, <2>2
  <2> QED BY <1>13, <1>17, <1>18, <2>1, <2>3
<1>28. \/ d.ear = e.ear /\ ~Ended(d.ear)
          /\ ~(Jam(m, aired) /\ ~e.jammed /\ Active(d.ear))
          /\ (Deaf(m, d) /\ Active(d.ear) => Deaf(m, e))
       \/ d.ear.byte \in {Nothing, Ghost}
       \/ \E k \in Heard(m, aired) \cap Starting(m) : d.ear = OnLine(aired[k], AirStop) /\ ~Deaf(m, d)
  <2>1. CASE Active(e4.ear)
    <3>1. e4.ear = e3.ear /\ ~Ended(e3.ear) /\ e3.ear = e2.ear /\ e2.ear = e1.ear
      BY <1>15, <1>16, <1>17, <1>24, <2>1
    <3>2. ~(Jam(m, aired) /\ ~e.jammed)
      BY <1>14, <1>15, <1>16, <1>24, <2>1, <3>1
    <3>3. Deaf(m, d) => Deaf(m, e)
      BY <1>13, <1>14, <1>15, <1>24, <2>1, <3>1 DEF Deaf
    <3> QED BY <1>13, <1>14, <1>18, <2>1, <3>1, <3>2, <3>3
  <2>2. CASE ~Active(e4.ear) /\ heard \cap Starting(m) # {}
    <3>1. PICK k \in heard : k \in Starting(m)
      BY <2>2
    <3>2. k = k0 /\ k0 \in Heard(m, aired) /\ ~Deaf(m, d)
      BY <1>21, <1>22, <3>1
    <3> QED BY <1>13, <1>18, <2>2, <3>1, <3>2
  <2>3. CASE ~Active(e4.ear) /\ heard \cap Starting(m) = {}
    <3>1. d.ear \in {e4.ear, OnLine(Ghost, AirStop)}
      BY <1>13, <1>18, <2>3
    <3> QED BY <1>25, <2>3, <3>1 DEF Active
  <2> QED BY <2>1, <2>2, <2>3
<1>29. d.jammed = Jam(m, aired)
  BY <1>16, <1>17, <1>18, <1>19
<1>30. Interrupted(m) = e3
  BY <1>1, <1>2, <1>3, <1>4 DEF Interrupted
<1>31. Active(e3.ear) => e3.ear = e.ear /\ (Deaf(m, d) => Deaf(m, e))
  BY <1>13, <1>14, <1>15, <1>16, <1>24 DEF Deaf
<1>32. ~Deaf(m, d) /\ ~(Jam(m, aired) /\ ~e.jammed) => e3.ear = e.ear
  BY <1>13, <1>14, <1>15, <1>16 DEF Deaf
<1> QED BY <1>1, <1>26, <1>27, <1>28, <1>29, <1>30, <1>31, <1>32

\* Two others are a collision, one is not.
LEMMA JamFacts ==
    ASSUME NEW m, NEW air, NEW n \in Others(m, air)
    PROVE  /\ Others(m, air) = {n} => ~Jam(m, air)
           /\ Others(m, air) # {n} => Jam(m, air)
           /\ n \in Heard(m, air) => Others(m, air) = {n} /\ ~Jam(m, air)
           /\ Others(m, air) = {n} /\ Channel[m] = Channel[n] => n \in Heard(m, air)
<1>1. IsFiniteSet({}) /\ Cardinality({}) = 0
  BY FS_EmptySet
<1>2. IsFiniteSet({} \cup {n}) /\ Cardinality({} \cup {n}) = 1
  <2>1. \A x : IsFiniteSet({} \cup {x}) /\ Cardinality({} \cup {x}) = 1
    BY <1>1, FS_AddElement
  <2> QED BY <2>1
<1>3. IsFiniteSet({n}) /\ Cardinality({n}) = 1
  <2>1. {n} = {} \cup {n}
    OBVIOUS
  <2> QED BY <1>2, <2>1
<1>4. Others(m, air) = {n} => ~Jam(m, air)
  BY <1>3 DEF Jam
<1>5. ASSUME Others(m, air) # {n} PROVE Jam(m, air)
  <2>1. PICK x \in Others(m, air) : x # n
    BY <1>5
  <2>2. IsFiniteSet({n} \cup {x}) /\ Cardinality({n} \cup {x}) = 1 + 1
    BY <1>3, <2>1, FS_AddElement
  <2>3. IsFiniteSet(Others(m, air))
    BY ModemAssumption, FS_Subset DEF Others
  <2>4. {n} \cup {x} \in SUBSET Others(m, air)
    BY <2>1
  <2>5. Cardinality({n} \cup {x}) <= Cardinality(Others(m, air)) /\ Cardinality(Others(m, air)) \in Nat
    BY <2>3, <2>4, FS_Subset, FS_CardinalityType
  <2> QED BY <2>2, <2>5 DEF Jam
<1>6. n \in Heard(m, air) => ~Jam(m, air)
  BY DEF Heard
<1>7. Others(m, air) = {n} /\ Channel[m] = Channel[n] => n \in Heard(m, air)
  BY <1>4 DEF Heard
<1> QED BY <1>4, <1>5, <1>6, <1>7

LEMMA ElapsedType ==
    ASSUME IInv, NEW n \in Modems
    PROVE  /\ Elapsed(n) \in 0..AirFrame /\ engine[n].emit.left \in 0..AirFrame
           /\ AirFrame \in Nat /\ AirStop \in Nat /\ 0 < AirStop /\ AirStop < AirFrame
           /\ Elapsed(n) = AirFrame - engine[n].emit.left
           /\ engine[n].ear.left \in Nat
<1>1. engine[n].emit.left \in 0..AirFrame /\ engine[n].ear.left \in 0..AirStop
  BY TypesUsed, EngineFields DEF EngineOK
<1>2. AirFrame \in Nat /\ AirStop \in Nat /\ 0 < AirStop /\ AirStop < AirFrame
  BY ModemAssumption
<1> QED BY <1>1, <1>2 DEF Elapsed

\* The bytes of the emitter of n are past.
LEMMA AiredPast ==
    ASSUME IInv, Ordered, NEW n \in Modems, aired[n] # Nothing
    PROVE  Of(aired[n], n) /\ Past(n, aired[n][2])
<1>1. aired[n] = engine[n].emit.byte /\ Upward(n, engine[n], Counted(n))
  BY DEF Ordered
<1>2. Of(aired[n], n) /\ aired[n][2] <= Counted(n)
         /\ \A x \in BytesOf(engine[n].up) : aired[n][2] < x[2]
  BY <1>1 DEF Upward, Active
<1>3. aired[n][2] \in Nat
  BY <1>2, OfFacts
<1> QED BY <1>2, <1>3 DEF Past

\* A frame keeps its place, or is another one, if it had ended.
LEMMA FrameNext ==
    ASSUME IInv, Ordered, Iteration, NEW n \in Modems
    PROVE  /\ aired'[n] = engine'[n].emit.byte /\ aired[n] = engine[n].emit.byte
           /\ aired'[n] = aired[n] /\ aired[n] # Nothing =>
                Elapsed(n)' = Elapsed(n) /\ n \notin fresh'
           /\ aired'[n] # aired[n] =>
                /\ aired[n] # Nothing => Elapsed(n) = AirFrame
                /\ aired'[n] # Nothing => Elapsed(n)' = 0 /\ n \in fresh'
           /\ n \in fresh' => aired'[n] # aired[n] /\ aired'[n] # Nothing
           /\ OnTime(engine[n]) /\ n \notin writes => engine'[n].emit = engine[n].emit
<1>1. PICK falls, low :
        engine' = [m \in Modems |->
                     IF m \in due THEN Synced(m, m \in falls, m \notin low) ELSE engine[m]]
  BY DEF Iteration
<1>2. /\ \/ engine'[n].emit = engine[n].emit
         \/ /\ ~Active(engine[n].emit) \/ Ended(engine[n].emit)
            /\ engine'[n].emit.byte # Nothing =>
                 engine'[n].emit.byte # engine[n].emit.byte /\ engine'[n].emit.left = AirFrame
      /\ OnTime(engine[n]) /\ n \notin writes => engine'[n].emit = engine[n].emit
  <2>1. CASE n \in due
    <3>1. engine'[n] = Synced(n, n \in falls, n \notin low)
      BY <1>1, <2>1
    <3> QED BY <3>1, TypesUsed, SyncedEmit DEF Ordered
  <2>2. CASE n \notin due
    BY <1>1, <2>2
  <2> QED BY <2>1, <2>2
<1>3. aired'[n] = engine'[n].emit.byte /\ aired[n] = engine[n].emit.byte
  BY DEF Iteration, Ordered
<1>4. n \in fresh' <=> aired'[n] # aired[n] /\ aired'[n] # Nothing
  BY DEF Iteration
<1>5. Elapsed(n)' = AirFrame - engine'[n].emit.left /\ Elapsed(n) = AirFrame - engine[n].emit.left
  BY DEF Elapsed
<1>6. AirFrame \in Nat
  BY Constants
<1> QED BY <1>2, <1>3, <1>4, <1>5, <1>6 DEF Active, Ended

\* The decoder in an iteration.
LEMMA EarNext ==
    ASSUME IInv, Ordered, Iteration, NEW m \in Modems
    PROVE  /\ OnTime(engine'[m])
           /\ m \notin due => engine'[m] = engine[m]
           /\ m \in due => /\ engine'[m].jammed = Jam(m, aired)
                           /\ Active(Interrupted(m).ear) =>
                                /\ Interrupted(m).ear = engine[m].ear
                                /\ Deaf(m, engine'[m]) => Deaf(m, engine[m])
                           /\ ~Deaf(m, engine'[m]) /\ ~(Jam(m, aired) /\ ~engine[m].jammed) =>
                                Interrupted(m).ear = engine[m].ear
           /\ \/ engine'[m].ear = engine[m].ear
                 /\ (m \in due => ~Ended(engine[m].ear)
                      /\ ~(Jam(m, aired) /\ ~engine[m].jammed /\ Active(engine[m].ear)))
                 /\ (Deaf(m, engine'[m]) /\ Active(engine[m].ear) => Deaf(m, engine[m]))
              \/ engine'[m].ear.byte \in {Nothing, Ghost}
              \/ \E k \in Heard(m, aired) \cap Starting(m) :
                   engine'[m].ear = OnLine(aired[k], AirStop) /\ ~Deaf(m, engine'[m]) /\ m \in due
           /\ /\ Active(engine[m].ear) /\ ~Ended(engine[m].ear) /\ ~Deaf(m, engine'[m])
              /\ ~(Jam(m, aired) /\ ~engine[m].jammed)
              => engine'[m].ear = engine[m].ear
           /\ \A k \in Heard(m, aired) \cap Starting(m) :
                /\ m \in due /\ ~Deaf(m, engine'[m])
                /\ Active(engine[m].ear) => Ended(engine[m].ear)
                => engine'[m].ear = OnLine(aired[k], AirStop)
<1>1. PICK falls, low :
        engine' = [i \in Modems |->
                     IF i \in due THEN Synced(i, i \in falls, i \notin low) ELSE engine[i]]
  BY DEF Iteration
<1>2. CASE m \in due
  <2>1. engine'[m] = Synced(m, m \in falls, m \notin low)
    BY <1>1, <1>2
  <2>2. PICK d : d = engine'[m]
    OBVIOUS
  <2>3. /\ d.jammed = Jam(m, aired)
        /\ Active(Interrupted(m).ear) =>
             Interrupted(m).ear = engine[m].ear /\ (Deaf(m, d) => Deaf(m, engine[m]))
        /\ ~Deaf(m, d) /\ ~(Jam(m, aired) /\ ~engine[m].jammed) =>
             Interrupted(m).ear = engine[m].ear
        /\ \/ d.ear = engine[m].ear /\ ~Ended(d.ear)
              /\ ~(Jam(m, aired) /\ ~engine[m].jammed /\ Active(d.ear))
              /\ (Deaf(m, d) /\ Active(d.ear) => Deaf(m, engine[m]))
           \/ d.ear.byte \in {Nothing, Ghost}
           \/ \E k \in Heard(m, aired) \cap Starting(m) :
                d.ear = OnLine(aired[k], AirStop) /\ ~Deaf(m, d)
        /\ /\ Active(engine[m].ear) /\ ~Ended(engine[m].ear) /\ ~Deaf(m, d)
           /\ ~(Jam(m, aired) /\ ~engine[m].jammed)
           => d.ear = engine[m].ear
        /\ \A k \in Heard(m, aired) \cap Starting(m) :
             ~Deaf(m, d) /\ (Active(engine[m].ear) => Ended(engine[m].ear))
               => d.ear = OnLine(aired[k], AirStop)
    BY <2>1, <2>2, TypesUsed, SyncedEar
  <2>4. OnTime(engine'[m])
    BY <2>1, TypesUsed, SyncedFacts
  <2> QED BY <1>2, <2>2, <2>3, <2>4
<1>3. CASE m \notin due
  <2>1. engine'[m] = engine[m]
    BY <1>1, <1>3
  <2>2. OnTime(engine[m])
    BY <1>3 DEF IInv
  <2>3. Active(engine[m].ear) => ~Ended(engine[m].ear)
    BY <2>2 DEF OnTime, Ended
  <2> QED BY <1>3, <2>1, <2>2, <2>3
<1> QED BY <1>2, <1>3

\* A start that can still be heard is less than half a bit old.
LEMMA StartingFacts ==
    ASSUME IInv, Ordered, NEW m \in Modems, NEW n \in Starting(m)
    PROVE  n \in Modems /\ Elapsed(n) < Half
<1>1. CASE n \in fresh
  BY <1>1, HalfFacts DEF Ordered, IInv, ModemTypeOK
<1>2. CASE n \notin fresh
  BY <1>2 DEF Starting
<1> QED BY <1>1, <1>2

\* A decoder is in a frame that it was in, or begins it.
LEMMA HoldsNext ==
    ASSUME IInv, Ordered, Iteration, NEW m \in Modems, NEW n \in Modems, m # n
    PROVE  /\ InStep(m, n)'
           /\ Of(engine'[m].ear.byte, n) =>
                /\ aired[n] # Nothing /\ aired'[n] = aired[n] /\ engine'[m].ear.byte = aired[n]
                /\ \/ /\ Holds(m, n) /\ engine'[m].ear = engine[m].ear
                      /\ m \in due => ~Ended(engine[m].ear) /\ ~(Jam(m, aired) /\ ~engine[m].jammed)
                      /\ Deaf(m, engine'[m]) => Deaf(m, engine[m])
                   \/ /\ n \in Starting(m) /\ n \in Heard(m, aired) /\ m \in due
                      /\ ~Deaf(m, engine'[m])
<1> SUFFICES ASSUME Of(engine'[m].ear.byte, n)
             PROVE  /\ InStep(m, n)'
                    /\ aired[n] # Nothing /\ aired'[n] = aired[n] /\ engine'[m].ear.byte = aired[n]
                    /\ \/ /\ Holds(m, n) /\ engine'[m].ear = engine[m].ear
                          /\ m \in due => ~Ended(engine[m].ear) /\ ~(Jam(m, aired) /\ ~engine[m].jammed)
                          /\ Deaf(m, engine'[m]) => Deaf(m, engine[m])
                       \/ /\ n \in Starting(m) /\ n \in Heard(m, aired) /\ m \in due
                          /\ ~Deaf(m, engine'[m])
  BY DEF InStep
<1>1. /\ ~Of(Nothing, n) /\ ~Of(Ghost, n)
  BY OfFacts
<1>2. engine'[m].ear.byte \notin {Nothing, Ghost}
  BY <1>1
<1>3. CASE /\ engine'[m].ear = engine[m].ear
           /\ (m \in due => ~Ended(engine[m].ear)
                /\ ~(Jam(m, aired) /\ ~engine[m].jammed /\ Active(engine[m].ear)))
           /\ (Deaf(m, engine'[m]) /\ Active(engine[m].ear) => Deaf(m, engine[m]))
  <2>1. /\ engine[m].ear.byte = aired[n] /\ n \notin fresh
        /\ engine[m].ear.left + Elapsed(n) >= AirStop
        /\ engine[m].ear.left + Elapsed(n) < AirFrame
    BY <1>3 DEF Ordered, InStep
  <2>2. Active(engine[m].ear) /\ aired[n] # Nothing
    BY <1>2, <1>3, <2>1 DEF Active
  <2>3. Elapsed(n) # AirFrame
    <3>1. engine[m].ear.left \in Nat
      BY ElapsedType
    <3> QED BY <2>1, <3>1, ElapsedType
  <2>4. aired'[n] = aired[n] /\ Elapsed(n)' = Elapsed(n) /\ n \notin fresh'
    BY <2>2, <2>3, FrameNext
  <2>5. InStep(m, n)'
    BY <1>3, <2>1, <2>4 DEF InStep
  <2> QED BY <1>3, <2>1, <2>2, <2>4, <2>5 DEF Holds
<1>4. CASE \E k \in Heard(m, aired) \cap Starting(m) :
             engine'[m].ear = OnLine(aired[k], AirStop) /\ ~Deaf(m, engine'[m]) /\ m \in due
  <2>1. PICK k \in Heard(m, aired) \cap Starting(m) :
             engine'[m].ear = OnLine(aired[k], AirStop) /\ ~Deaf(m, engine'[m]) /\ m \in due
    BY <1>4
  <2>2. k \in Modems /\ aired[k] # Nothing
    BY DEF Heard, Others
  <2>3. engine'[m].ear.byte = aired[k] /\ engine'[m].ear.left = AirStop
    BY <2>1 DEF OnLine
  <2>4. k = n
    BY <2>2, <2>3, AiredPast DEF Of
  <2>5. Elapsed(n) < Half /\ aired[n] # Nothing /\ Elapsed(n) \in Nat
    BY <2>2, <2>4, StartingFacts, ElapsedType
  <2>6. aired'[n] = aired[n] /\ Elapsed(n)' = Elapsed(n) /\ n \notin fresh'
    BY <2>5, FrameNext, HalfFacts
  <2>7. /\ engine'[m].ear.left + Elapsed(n)' >= AirStop
        /\ engine'[m].ear.left + Elapsed(n)' < AirFrame
    BY <2>3, <2>5, <2>6, HalfFacts
  <2>8. InStep(m, n)'
    BY <2>3, <2>4, <2>6, <2>7 DEF InStep
  <2> QED BY <2>1, <2>3, <2>4, <2>5, <2>6, <2>8
<1> QED BY <1>2, <1>3, <1>4, EarNext

\* What is past stays past: n sends nothing older than what it has sent, and
\* nothing that was not behind is heard again.
LEMMA IterationBehind ==
    ASSUME IInv, Ordered, Iteration, NEW n \in Modems, NEW k \in Nat, Past(n, k)
    PROVE  Past(n, k)' /\ (Behind(n, k) => Behind(n, k)')
<1>1. PICK falls, low :
        engine' = [m \in Modems |->
                     IF m \in due THEN Synced(m, m \in falls, m \notin low) ELSE engine[m]]
  BY DEF Iteration
<1>2. /\ BytesOf(engine'[n].up) \subseteq BytesOf(engine[n].up) \cup Given(n)
      /\ engine'[n].emit.byte \in
           BytesOf(engine[n].up) \cup Given(n) \cup {engine[n].emit.byte, Nothing}
  <2>1. CASE n \in due
    <3>1. engine'[n] = Synced(n, n \in falls, n \notin low)
      BY <1>1, <2>1
    <3> QED BY <3>1, TypesUsed, SyncedUp DEF Ordered
  <2>2. CASE n \notin due
    BY <1>1, <2>2
  <2> QED BY <2>1, <2>2
<1>3. \A x \in Given(n) : k < x[2]
  BY TypesUsed DEF Given, Past, Counted
<1>4. \A x \in BytesOf(engine'[n].up) : k < x[2]
  BY <1>2, <1>3 DEF Past
<1>5. aired'[n] = engine'[n].emit.byte /\ aired[n] = engine[n].emit.byte
  BY DEF Iteration, Ordered
<1>6. aired'[n] # aired[n] /\ aired'[n] # Nothing => k < aired'[n][2]
  BY <1>2, <1>3, <1>5 DEF Past
<1>7. aired[n] # Nothing => aired[n][2] \in Nat
  BY AiredPast, OfFacts
<1>8. aired'[n] # Nothing => aired'[n][2] \in Nat
  <2>1. aired' \in [Modems -> ModemBytes \cup {Nothing}]
    BY IterationKeeps DEF IInv, ModemTypeOK
  <2> QED BY <2>1, ByteFacts
<1>10. aired'[n] # Nothing => k <= aired'[n][2]
  BY <1>6, <1>8 DEF Past
<1>11. ASSUME Behind(n, k), aired'[n] # Nothing, (Elapsed(n) < Half)'
       PROVE  k < aired'[n][2]
  <2>1. CASE aired'[n] = aired[n]
    <3>1. Elapsed(n)' = Elapsed(n)
      BY <1>11, <2>1, FrameNext
    <3>2. Half' = Half
      BY DEF Half
    <3> QED BY <1>11, <2>1, <3>1, <3>2 DEF Behind
  <2>2. CASE aired'[n] # aired[n]
    BY <1>6, <1>11, <2>2
  <2> QED BY <2>1, <2>2
<1>9. k <= Counted(n)'
  <2>1. Counted(n)' = written[n]
    BY DEF Iteration, Counted
  <2> QED BY <2>1, TypesUsed DEF Past, Counted
<1>12. Past(n, k)'
  BY <1>4, <1>9, <1>10 DEF Past
<1>13. Behind(n, k) => Behind(n, k)'
  BY <1>11, <1>12 DEF Behind
<1> QED BY <1>12, <1>13

\* The number that reach counts for n after an iteration.
LEMMA ReachNext ==
    ASSUME IInv, Ordered, Iteration, NEW m \in Modems, NEW n \in Modems, m # n
    PROVE  reach'[m][n] = IF /\ m \in due /\ Ended(engine[m].ser)
                             /\ Of(engine[m].ser.byte, n)
                          THEN engine[m].ser.byte[2] ELSE reach[m][n]
<1>1. reach'[m] = Delivered(m) /\ reach[m] \in [Modems -> Nat]
  BY TypesUsed DEF Iteration
<1>2. engine[m].ser.byte \in ModemBytes \cup {Ghost, Nothing}
  BY TypesUsed, EngineFields DEF EngineOK, HeardBytes
<1>3. Ghost \notin ModemBytes
  BY ByteFacts
<1>4. CASE m \in due /\ Ended(engine[m].ser) /\ engine[m].ser.byte # Ghost
  <2>1. engine[m].ser.byte \in ModemBytes
    BY <1>2, <1>4 DEF Ended, Active
  <2> QED BY <1>1, <1>4, <2>1, ByteFacts DEF Delivered, Of
<1>5. CASE ~(m \in due /\ Ended(engine[m].ser) /\ engine[m].ser.byte # Ghost)
  BY <1>1, <1>3, <1>5 DEF Delivered, Of
<1> QED BY <1>4, <1>5

LEMMA IterationOrders ==
    ASSUME IInv, Ordered, Iteration
    PROVE  Ordered'
<1>1. PICK falls, low :
        engine' = [m \in Modems |->
                     IF m \in due THEN Synced(m, m \in falls, m \notin low) ELSE engine[m]]
  BY DEF Iteration
<1>2. \A m \in Modems : /\ m \in due => engine'[m] = Synced(m, m \in falls, m \notin low)
                        /\ m \notin due => engine'[m] = engine[m]
  BY <1>1
<1>3. writes' = {} /\ aired' = [m \in Modems |-> engine'[m].emit.byte]
  BY DEF Iteration
<1>4. ASSUME NEW n \in Modems PROVE Upward(n, engine[n], Counted(n))' /\ Counted(n)' = written[n]
  <2>1. Counted(n)' = written[n]
    BY DEF Iteration, Counted
  <2>2. Upward(n, engine[n], Counted(n))
    BY DEF Ordered
  <2>3. CASE n \in due
    <3>1. Upward(n, engine'[n], written[n])
      BY <1>2, <2>2, <2>3, TypesUsed, SyncedUp
    <3> QED BY <2>1, <3>1 DEF Upward
  <2>4. CASE n \notin due
    <3>1. Counted(n) = written[n]
      BY <2>4 DEF Ordered, Counted
    <3> QED BY <1>2, <2>1, <2>2, <2>4, <3>1 DEF Upward
  <2> QED BY <2>1, <2>3, <2>4
<1>5. ASSUME NEW m \in Modems
      PROVE  /\ \A x \in Stored(engine'[m]) :
               \/ x \in Stored(engine[m]) \cup {Nothing}
               \/ x = engine[m].ear.byte /\ Ended(engine[m].ear)
             /\ \A x \in Received(engine'[m]) :
               \/ x \in Received(engine[m]) \cup {Nothing, Ghost}
               \/ \E k \in Starting(m) \cap Modems : k # m /\ x = aired[k] /\ x # Nothing
  <2>1. CASE m \in due
    BY <1>2, <2>1, TypesUsed, SyncedOrder
  <2>2. CASE m \notin due
    BY <1>2, <2>2
  <2> QED BY <2>1, <2>2
<1>6. ASSUME NEW m \in Modems, NEW x \in Received(engine'[m]) PROVE ~Of(x, m)
  <2>1. CASE x \in Received(engine[m]) \cup {Nothing, Ghost}
    BY <2>1, OfFacts DEF Ordered
  <2>2. CASE \E k \in Starting(m) \cap Modems : k # m /\ x = aired[k] /\ x # Nothing
    BY <2>2, AiredPast DEF Of
  <2> QED BY <1>5, <2>1, <2>2
<1>7. ASSUME NEW m \in Modems, NEW n \in Modems, m # n
      PROVE  /\ Chain(engine'[m], n, reach'[m][n]) /\ Behind(n, reach[m][n])'
             /\ \A x \in Received(engine'[m]) : Of(x, n) => Past(n, x[2])'
             /\ \A x \in Stored(engine'[m]) : Of(x, n) => Behind(n, x[2])'
             /\ InStep(m, n)'
  <2>1. /\ Chain(engine[m], n, reach[m][n]) /\ Behind(n, reach[m][n])
        /\ \A x \in Received(engine[m]) : Of(x, n) => Past(n, x[2])
        /\ \A x \in Stored(engine[m]) : Of(x, n) => Behind(n, x[2])
        /\ InStep(m, n)
    BY <1>7 DEF Ordered
  <2>2. reach[m][n] \in Nat /\ reach'[m][n] \in Nat
    <3>1. reach' \in [Modems -> [Modems -> Nat]]
      BY IterationKeeps DEF IInv, ModemTypeOK
    <3> QED BY <3>1, TypesUsed
  <2>3. reach'[m][n] = IF m \in due /\ Ended(engine[m].ser) /\ Of(engine[m].ser.byte, n)
                       THEN engine[m].ser.byte[2] ELSE reach[m][n]
    BY <1>7, ReachNext
  <2>4. engine[m].ser.byte \in Stored(engine[m])
    BY DEF Stored
  <2>5. Behind(n, reach'[m][n])
    BY <2>1, <2>3, <2>4
  <2>6. Behind(n, reach[m][n])'
    <3>1. PICK k \in Nat : k = reach'[m][n]
      BY <2>2
    <3>2. Behind(n, k)'
      BY <2>5, <3>1, IterationBehind DEF Behind
    <3> QED BY <3>1, <3>2 DEF Behind, Past
  <2>7. ASSUME NEW x \in Received(engine'[m]), Of(x, n) PROVE Past(n, x[2])'
    <3>1. Past(n, x[2])
      <4>1. CASE x \in Received(engine[m]) \cup {Nothing, Ghost}
        BY <2>1, <2>7, <4>1, OfFacts
      <4>2. CASE \E k \in Starting(m) \cap Modems : k # m /\ x = aired[k] /\ x # Nothing
        <5>1. PICK k \in Starting(m) \cap Modems : x = aired[k] /\ x # Nothing
          BY <4>2
        <5>2. Of(x, k) /\ Past(k, x[2])
          BY <5>1, AiredPast
        <5>3. k = n
          BY <2>7, <5>2 DEF Of
        <5> QED BY <5>2, <5>3
      <4> QED BY <1>5, <2>7, <4>1, <4>2
    <3>2. x[2] \in Nat
      BY <2>7, OfFacts
    <3> QED BY <3>1, <3>2, IterationBehind
  <2>9. Ended(engine[m].ear) /\ Of(engine[m].ear.byte, n) => Elapsed(n) >= Half /\ n \notin fresh
    BY <2>1, ElapsedType, HalfFacts DEF InStep, Ended
  <2>10. ASSUME NEW x \in Stored(engine'[m]), Of(x, n) PROVE Behind(n, x[2])'
    <3>1. Behind(n, x[2])
      <4>1. CASE x \in Stored(engine[m]) \cup {Nothing}
        BY <2>1, <2>10, <4>1, OfFacts
      <4>2. CASE x = engine[m].ear.byte /\ Ended(engine[m].ear)
        <5>1. x \in Received(engine[m])
          BY <4>2 DEF Received
        <5>2. Past(n, x[2]) /\ ~(Elapsed(n) < Half)
          BY <2>1, <2>9, <2>10, <4>2, <5>1, ElapsedType, HalfFacts
        <5> QED BY <5>2 DEF Behind
      <4> QED BY <1>5, <2>10, <4>1, <4>2
    <3>2. x[2] \in Nat /\ Past(n, x[2])
      BY <2>10, <3>1, OfFacts DEF Behind
    <3> QED BY <3>1, <3>2, IterationBehind
  <2>8. Chain(engine'[m], n, reach'[m][n])
    <3>1. CASE m \in due
      <4>1. \A k \in Modems : aired[k] # Nothing => Of(aired[k], k)
        BY AiredPast
      <4>2. n \in Starting(m) /\ aired[n] # Nothing =>
              /\ reach[m][n] < aired[n][2]
              /\ \A x \in Stored(engine[m]) : Before(x, aired[n], n)
              /\ Ended(engine[m].ear) => Before(engine[m].ear.byte, aired[n], n)
        <5>1. SUFFICES ASSUME n \in Starting(m), aired[n] # Nothing
                       PROVE  /\ reach[m][n] < aired[n][2]
                              /\ \A x \in Stored(engine[m]) : Before(x, aired[n], n)
                              /\ Ended(engine[m].ear) => Before(engine[m].ear.byte, aired[n], n)
          OBVIOUS
        <5>2. Elapsed(n) < Half
          BY <5>1, StartingFacts
        <5>3. \A x \in Stored(engine[m]) : Before(x, aired[n], n)
          BY <2>1, <5>1, <5>2 DEF Behind, Before
        <5>4. ~(Ended(engine[m].ear) /\ Of(engine[m].ear.byte, n))
          BY <2>9, <5>2, ElapsedType, HalfFacts
        <5> QED BY <2>1, <5>1, <5>2, <5>3, <5>4 DEF Behind, Before
      <4>3. PICK d : d = Synced(m, m \in falls, m \notin low)
        OBVIOUS
      <4>4. PICK k \in Nat : k = reach'[m][n]
        BY <2>2
      <4>5. Chain(d, n, k)
        BY <1>7, <2>1, <2>2, <2>3, <3>1, <4>1, <4>2, <4>3, <4>4, TypesUsed, SyncedOrder
      <4> QED BY <1>2, <3>1, <4>3, <4>4, <4>5
    <3>2. CASE m \notin due
      BY <1>2, <2>1, <2>3, <3>2
    <3> QED BY <3>1, <3>2
  <2>11. InStep(m, n)'
    BY <1>7, HoldsNext
  <2> QED BY <2>6, <2>7, <2>8, <2>10, <2>11
<1>8. ASSUME NEW n \in fresh' PROVE aired'[n] # Nothing /\ Elapsed(n)' = 0
  <2>1. n \in Modems
    BY <1>8 DEF Iteration
  <2> QED BY <1>8, <2>1, FrameNext
<1> QED BY <1>3, <1>4, <1>6, <1>7, <1>8 DEF Ordered

LEMMA OrderedInit == ModemInit => Ordered
<1> SUFFICES ASSUME ModemInit PROVE Ordered
  OBVIOUS
<1>1. ASSUME NEW m \in Modems
      PROVE  /\ BytesOf(engine[m].up) = {} /\ BytesOf(engine[m].down) = {}
             /\ Received(engine[m]) = {Nothing}
             /\ engine[m].emit.byte = Nothing /\ aired[m] = Nothing
             /\ \A n : Rising(engine[m].up, n) /\ Rising(engine[m].down, n)
  <2>1. /\ engine[m].up = <<>> /\ engine[m].down = <<>> /\ engine[m].emit = Idle
        /\ engine[m].ear = Idle /\ engine[m].ser = Idle /\ aired[m] = Nothing
    BY DEF ModemInit
  <2>2. BytesOf(<<>>) = {} /\ \A n : Rising(<<>>, n)
    BY DEF BytesOf, Rising
  <2> QED BY <2>1, <2>2 DEF Received, Idle
<1>2. \A n \in Modems : Counted(n) = 0 /\ written[n] = 0
  BY DEF ModemInit, Counted
<1>3. \A n \in Modems : Upward(n, engine[n], Counted(n))
  BY <1>1 DEF Upward, Active
<1>4. \A m \in Modems : \A x \in Received(engine[m]) : \A n : ~Of(x, n)
  BY <1>1, OfFacts
<1>5. ASSUME NEW m \in Modems, NEW n \in Modems
      PROVE  Chain(engine[m], n, reach[m][n]) /\ Behind(n, reach[m][n]) /\ InStep(m, n)
  <2>1. reach[m][n] = 0
    BY DEF ModemInit
  <2>2. Chain(engine[m], n, reach[m][n])
    BY <1>1, <1>4, OfFacts DEF Chain, Before, Received
  <2>3. InStep(m, n)
    BY <1>4 DEF InStep, Received
  <2> QED BY <1>1, <1>2, <2>1, <2>2, <2>3 DEF Behind, Past
<1>6. writes \subseteq due /\ aired = [m \in Modems |-> engine[m].emit.byte] /\ fresh = {}
  BY <1>1 DEF ModemInit
<1>7. \A m \in Modems : Stored(engine[m]) \subseteq Received(engine[m])
  BY DEF Stored, Received
<1> QED BY <1>3, <1>4, <1>5, <1>6, <1>7 DEF Ordered

LEMMA TickedOrder ==
    ASSUME NEW e, EngineOK(e), NEW d, d = Ticked(e)
    PROVE  /\ BytesOf(d.up) = BytesOf(e.up) /\ Received(d) = Received(e)
           /\ d.emit.byte = e.emit.byte /\ d.ear.byte = e.ear.byte /\ d.ser.byte = e.ser.byte
           /\ BytesOf(d.down) = BytesOf(e.down)
           /\ \A n : /\ Rising(e.up, n) => Rising(d.up, n)
                     /\ Rising(e.down, n) => Rising(d.down, n)
<1> DEFINE Waited(q) == [i \in DOMAIN q |-> [q[i] EXCEPT !.wait = Less(@)]]
<1>0. /\ e.up \in Seq(Waiters(ModemBytes, TxDelay)) /\ TxDelay \in Nat
      /\ e.down \in Seq(Waiters(HeardBytes, RxDelay)) /\ RxDelay \in Nat
  BY EngineFields, Constants DEF EngineOK
<1>1. PICK up : up = Waited(e.up)
  OBVIOUS
<1>2. PICK down : down = Waited(e.down)
  OBVIOUS
<1>3. BytesOf(up) = BytesOf(e.up) /\ \A n : Rising(e.up, n) => Rising(up, n)
  BY <1>0, <1>1, WaitedOrder
<1>4. BytesOf(down) = BytesOf(e.down) /\ \A n : Rising(e.down, n) => Rising(down, n)
  BY <1>0, <1>2, WaitedOrder
<1>5. /\ d.up = up /\ d.down = down
      /\ d.emit.byte = e.emit.byte /\ d.ear.byte = e.ear.byte /\ d.ser.byte = e.ser.byte
  <2>1. d = [e EXCEPT !.up = up, !.down = down,
                      !.emit = [e.emit EXCEPT !.left = Less(e.emit.left)],
                      !.ear = [e.ear EXCEPT !.left = Less(e.ear.left)],
                      !.ser = [e.ser EXCEPT !.left = Less(e.ser.left)]]
    BY <1>1, <1>2, EngineFields DEF Ticked, EngineOK
  <2> QED BY <2>1, EngineFields DEF EngineOK
<1> QED BY <1>3, <1>4, <1>5 DEF Received

LEMMA TickedFrames ==
    ASSUME NEW e, EngineOK(e), NEW d, d = Ticked(e)
    PROVE  /\ d.jammed = e.jammed
           /\ d.emit.left = Less(e.emit.left) /\ d.ear.left = Less(e.ear.left)
<1> DEFINE Waited(q) == [i \in DOMAIN q |-> [q[i] EXCEPT !.wait = Less(@)]]
<1>1. PICK up, down : up = Waited(e.up) /\ down = Waited(e.down)
  OBVIOUS
<1>2. d = [e EXCEPT !.up = up, !.down = down,
                    !.emit = [e.emit EXCEPT !.left = Less(e.emit.left)],
                    !.ear = [e.ear EXCEPT !.left = Less(e.ear.left)],
                    !.ser = [e.ser EXCEPT !.left = Less(e.ser.left)]]
  BY <1>1, EngineFields DEF Ticked, EngineOK
<1> QED BY <1>2, EngineFields DEF EngineOK

\* A frame in a decoder, or on the air, in the passage of time.
LEMMA TickedElapsed ==
    ASSUME IInv, Ordered, Elapse, NEW n \in Modems
    PROVE  /\ aired[n] # Nothing => Elapsed(n)' = Elapsed(n) + 1
           /\ Active(engine[n].ear) => engine'[n].ear.left = engine[n].ear.left - 1
<1>1. /\ EngineOK(engine[n]) /\ engine'[n] = Ticked(engine[n]) /\ OnTime(engine[n])
  BY TypesUsed DEF Elapse, IInv
<1>2. aired[n] = engine[n].emit.byte
  BY DEF Ordered
<1>3. /\ engine'[n].emit.left = Less(engine[n].emit.left)
      /\ engine'[n].ear.left = Less(engine[n].ear.left)
  BY <1>1, TickedFrames
<1>4. /\ aired[n] # Nothing => engine[n].emit.left > 0
      /\ Active(engine[n].ear) => engine[n].ear.left > 0
  BY <1>1, <1>2 DEF OnTime, Active
<1>5. Elapsed(n)' = AirFrame - engine'[n].emit.left
  BY DEF Elapsed
<1> QED BY <1>3, <1>4, <1>5, ElapsedType DEF Less

LEMMA ElapseOrders ==
    ASSUME IInv, Ordered, Elapse
    PROVE  Ordered'
<1>1. /\ engine' = [m \in Modems |-> Ticked(engine[m])]
      /\ due = {} /\ fresh' = {} /\ aired' = aired /\ reach' = reach
      /\ writes' \subseteq due'
  BY DEF Elapse
<1>2. \A n \in Modems : Counted(n)' = Counted(n) /\ Counted(n) = written[n]
  <2>1. writes = {}
    BY <1>1 DEF Ordered
  <2>2. PICK w \in SUBSET {n \in Modems : gap[n] <= 1 /\ written[n] < Load[n]} :
          /\ writes' = w
          /\ written' = [n \in Modems |-> IF n \in w THEN written[n] + 1 ELSE written[n]]
    BY DEF Elapse
  <2> QED BY <2>1, <2>2, TypesUsed DEF Counted
<1>3. ASSUME NEW m \in Modems
      PROVE  /\ BytesOf(engine'[m].up) = BytesOf(engine[m].up)
             /\ Received(engine'[m]) = Received(engine[m])
             /\ engine'[m].emit.byte = engine[m].emit.byte
             /\ engine'[m].ear.byte = engine[m].ear.byte
             /\ engine'[m].ser.byte = engine[m].ser.byte
             /\ BytesOf(engine'[m].down) = BytesOf(engine[m].down)
             /\ Stored(engine'[m]) = Stored(engine[m])
             /\ \A n : /\ Rising(engine[m].up, n) => Rising(engine'[m].up, n)
                       /\ Rising(engine[m].down, n) => Rising(engine'[m].down, n)
  <2>1. EngineOK(engine[m]) /\ engine'[m] = Ticked(engine[m])
    BY <1>1, TypesUsed
  <2> QED BY <2>1, TickedOrder DEF Stored
<1>4. aired' = [m \in Modems |-> engine'[m].emit.byte]
  BY <1>1, <1>3 DEF Ordered
<1>5. ASSUME NEW n \in Modems PROVE Upward(n, engine[n], Counted(n))'
  <2>1. Upward(n, engine[n], Counted(n))
    BY DEF Ordered
  <2>2. Upward(n, engine'[n], Counted(n))
    BY <1>3, <2>1 DEF Upward, Active
  <2> QED BY <1>2, <2>2 DEF Upward
<1>6. \A m \in Modems : \A x \in Received(engine'[m]) : ~Of(x, m)
  BY <1>3 DEF Ordered
<1>7. \A n \in Modems : \A k : Past(n, k) => Past(n, k)'
  BY <1>1, <1>2, <1>3 DEF Past
<1>9. ASSUME NEW n \in Modems, NEW k, Behind(n, k) PROVE Behind(n, k)'
  <2>1. aired[n] # Nothing /\ (Elapsed(n) < Half)' => Elapsed(n) < Half
    <3>1. Half' = Half
      BY DEF Half
    <3> QED BY <3>1, TickedElapsed, ElapsedType, HalfFacts
  <2> QED BY <1>1, <1>7, <1>9, <2>1 DEF Behind
<1>8. ASSUME NEW m \in Modems, NEW n \in Modems, m # n
      PROVE  /\ Chain(engine[m], n, reach[m][n])' /\ Behind(n, reach[m][n])'
             /\ \A x \in Received(engine'[m]) : Of(x, n) => Past(n, x[2])'
             /\ \A x \in Stored(engine'[m]) : Of(x, n) => Behind(n, x[2])'
             /\ InStep(m, n)'
  <2>1. /\ Chain(engine[m], n, reach[m][n]) /\ Behind(n, reach[m][n])
        /\ \A x \in Received(engine[m]) : Of(x, n) => Past(n, x[2])
        /\ \A x \in Stored(engine[m]) : Of(x, n) => Behind(n, x[2])
        /\ InStep(m, n)
    BY <1>8 DEF Ordered
  <2>2. Chain(engine[m], n, reach[m][n])'
    BY <1>1, <1>3, <2>1 DEF Chain
  <2>3. Behind(n, reach[m][n])'
    <3>1. PICK k : k = reach[m][n]
      OBVIOUS
    <3>2. Behind(n, k)'
      BY <1>9, <2>1, <3>1
    <3> QED BY <1>1, <3>1, <3>2 DEF Behind, Past
  <2>4. ASSUME Of(engine'[m].ear.byte, n)
        PROVE  /\ engine'[m].ear.byte = aired'[n] /\ n \notin fresh'
               /\ engine'[m].ear.left + Elapsed(n)' >= AirStop
               /\ engine'[m].ear.left + Elapsed(n)' < AirFrame
    <3>1. Of(engine[m].ear.byte, n) /\ engine[m].ear.byte = aired[n]
      BY <1>3, <2>1, <2>4 DEF InStep
    <3>2. Active(engine[m].ear) /\ aired[n] # Nothing
      BY <3>1, OfFacts DEF Active
    <3>3. engine'[m].ear.left = engine[m].ear.left - 1 /\ Elapsed(n)' = Elapsed(n) + 1
      BY <3>2, TickedElapsed
    <3>4. /\ engine[m].ear.left + Elapsed(n) >= AirStop
          /\ engine[m].ear.left + Elapsed(n) < AirFrame
      BY <2>1, <3>1 DEF InStep
    <3>5. engine[m].ear.left \in Nat /\ Elapsed(n) \in Nat
      BY ElapsedType
    <3>6. engine'[m].ear.left + Elapsed(n)' = engine[m].ear.left + Elapsed(n)
      BY <3>3, <3>5
    <3> QED BY <1>1, <1>3, <3>1, <3>4, <3>6
  <2>5. InStep(m, n)'
    BY <2>4 DEF InStep
  <2> QED BY <1>3, <1>7, <1>9, <2>1, <2>2, <2>3, <2>5
<1> QED BY <1>1, <1>4, <1>5, <1>6, <1>8 DEF Ordered

LEMMA OrderKept == IInv /\ Ordered /\ [ModemNext]_modemVars => Ordered'
<1> SUFFICES ASSUME IInv, Ordered, [ModemNext]_modemVars PROVE Ordered'
  OBVIOUS
<1>1. CASE Iteration
  BY <1>1, IterationOrders
<1>2. CASE Elapse
  BY <1>2, ElapseOrders
<1>3. CASE UNCHANGED modemVars
  <2>1. /\ engine' = engine /\ aired' = aired /\ fresh' = fresh /\ due' = due
        /\ writes' = writes /\ written' = written /\ reach' = reach
    BY <1>3 DEF modemVars, antenna, micros, modemHistory
  <2>2. \A n, k : Past(n, k)' = Past(n, k)
    BY <2>1 DEF Past, Counted
  <2>3. \A n : Elapsed(n)' = Elapsed(n)
    BY <2>1 DEF Elapsed
  <2>4. \A n, k : Behind(n, k)' = Behind(n, k)
    BY <2>1, <2>2, <2>3 DEF Behind, Half
  <2>5. \A m, n : InStep(m, n)' = InStep(m, n)
    BY <2>1, <2>3 DEF InStep
  <2>6. \A n : Upward(n, engine[n], Counted(n))' = Upward(n, engine[n], Counted(n))
    BY <2>1 DEF Upward, Counted
  <2> QED BY <2>1, <2>2, <2>3, <2>4, <2>5, <2>6 DEF Ordered
<1> QED BY <1>1, <1>2, <1>3 DEF ModemNext

-----------------------------------------------------------------------------
(* The refinement of RadioAir.                                              *)

LEMMA AirStarts == ModemInit => Air!AirInit
BY DEF ModemInit, Air!AirInit

LEMMA AirSteps ==
    ASSUME IInv, Ordered, [ModemNext]_modemVars
    PROVE  [Air!AirNext]_Air!airVars
<1>1. CASE Iteration
  <2>1. written' = written /\ reach' = [m \in Modems |-> Delivered(m)]
    BY <1>1 DEF Iteration
  <2>2. ASSUME NEW m \in Modems, reach'[m] # reach[m]
        PROVE  \E n \in Modems \ {m} : \E k \in 1..written[n] :
                 /\ k > reach[m][n]
                 /\ reach'[m] = [reach[m] EXCEPT ![n] = k]
    <3> DEFINE b == engine[m].ser.byte
    <3>1. /\ Ended(engine[m].ser) /\ b # Ghost
          /\ reach'[m] = [reach[m] EXCEPT ![b[1]] = b[2]]
      BY <2>1, <2>2 DEF Delivered
    <3>2. b \in ModemBytes
      BY <3>1, TypesUsed, EngineFields DEF Ended, Active, EngineOK, HeardBytes
    <3>3. b \in Received(engine[m]) /\ b \in Stored(engine[m])
      BY DEF Received, Stored
    <3> HIDE DEF b
    <3>4. b[1] \in Modems /\ b[2] \in Nat \ {0} /\ Of(b, b[1])
      BY <3>2, ByteFacts DEF Of
    <3>5. b[1] # m
      BY <3>3, <3>4 DEF Ordered
    <3>6. Chain(engine[m], b[1], reach[m][b[1]]) /\ Behind(b[1], b[2])
      BY <3>3, <3>4, <3>5 DEF Ordered
    <3>7. reach[m][b[1]] < b[2]
      BY <3>3, <3>4, <3>6 DEF Chain
    <3>8. b[2] \in 1..written[b[1]]
      <4>1. b[2] <= Counted(b[1])
        BY <3>6 DEF Behind, Past
      <4> QED BY <3>4, <4>1, TypesUsed DEF Counted
    <3> QED BY <3>1, <3>4, <3>5, <3>7, <3>8, TypesUsed
  <2>3. /\ DOMAIN written' = Modems /\ DOMAIN reach' = Modems
        /\ \A m \in Modems : DOMAIN reach'[m] = Modems
    <3>1. reach' \in [Modems -> [Modems -> Nat]] /\ written' \in [Modems -> Nat]
      BY <1>1, IterationKeeps DEF IInv, ModemTypeOK
    <3> QED BY <3>1
  <2> QED BY <2>1, <2>2, <2>3 DEF Air!AirNext
<1>2. CASE Elapse
  <2>1. /\ \A n \in Modems : written'[n] \in {written[n], written[n] + 1}
        /\ reach' = reach /\ DOMAIN written' = Modems
    BY <1>2 DEF Elapse
  <2>2. DOMAIN reach = Modems /\ \A m \in Modems : DOMAIN reach[m] = Modems
    BY TypesUsed
  <2> QED BY <2>1, <2>2 DEF Air!AirNext
<1>3. CASE UNCHANGED modemVars
  BY <1>3 DEF modemVars, modemHistory, micros, Air!airVars
<1> QED BY <1>1, <1>2, <1>3 DEF ModemNext

\* Whatever is lost, what the radio delivers keeps the order: the bytes of a
\* microcontroller reach every other one as it wrote them, none of them twice,
\* and never itself (radiomodem_engine.c with PartialRadioModem.mo).
THEOREM AirKept == ModemSpec => KeepsAir
<1>1. ModemInit => IInv /\ Ordered
  BY InitHolds, OrderedInit
<1>2. IInv /\ Ordered /\ [ModemNext]_modemVars => (IInv /\ Ordered)'
  BY StepKeeps, OrderKept
<1>3. IInv /\ Ordered /\ [ModemNext]_modemVars => [Air!AirNext]_Air!airVars
  BY AirSteps
<1> QED BY <1>1, <1>2, <1>3, AirStarts, PTL DEF ModemSpec, KeepsAir, Air!AirSpec

-----------------------------------------------------------------------------
(* What is heard.                                                            *)

\* It began it at its start, and ends it in the middle of its stop bit.
Timely(m, n) == Holds(m, n) /\ engine[m].ear.left + Elapsed(n) = AirStop

\* A decoder is in a frame only while its modem is silent and has not been
\* called for a collision.
Held(m, n) ==
    Holds(m, n) => ~Deaf(m, engine[m]) /\ (Jam(m, aired) => ~engine[m].jammed)

\* A frame that was decoded is beyond the middle of its stop bit and was not
\* broken; at that very instant m has been called and transmits nothing.
Whole(m, n) ==
    <<m, n>> \in decoded =>
      /\ Elapsed(n) >= AirStop /\ <<m, n>> \notin broken /\ ~Holds(m, n)
      /\ Elapsed(n) = AirStop =>
           ~Deaf(m, engine[m]) /\ OnTime(engine[m]) /\ m \notin writes

\* A frame that is broken is too old to be begun, and is in the decoder only
\* until m is called for the collision.
Cut(m, n) ==
    <<m, n>> \in broken =>
      /\ Elapsed(n) >= Half
      /\ Holds(m, n) => Jam(m, aired) /\ Elapsed(n) < AirStop

\* One that is not spoilt has been alone, with m silent, and is in the decoder,
\* which began it at its start, or in its queue, or is about to be heard.
Clear(m, n) ==
    <<m, n>> \notin spoilt =>
      /\ Timely(m, n) \/ Elapsed(n) < AirStop => Others(m, aired) = {n}
      /\ Elapsed(n) <= AirStop => ~Deaf(m, engine[m])
      /\ Channel[m] = Channel[n] =>
           \/ Timely(m, n)
           \/ Elapsed(n) < AirStop /\ n \in fresh
           \/ Elapsed(n) >= AirStop /\ <<m, n>> \in decoded

Listening ==
    /\ fresh # {} => writes = {} /\ \A m \in Modems : OnTime(engine[m])
    /\ \A m \in Modems \ due : /\ engine[m].jammed = Jam(m, aired)
                               /\ Heard(m, aired) \cap fresh = {}
    /\ \A m, n \in Modems : m # n /\ aired[n] # Nothing =>
         Held(m, n) /\ Whole(m, n) /\ Cut(m, n) /\ Clear(m, n)

\* The histories in an iteration.
Disturbs(m, n) ==
    \/ Elapsed(n)' < AirStop /\ Others(m, aired') # {n}
    \/ Elapsed(n)' <= AirStop /\ Deaf(m, engine'[m])

LEMMA PairHistory ==
    ASSUME IInv, Iteration, NEW m \in Modems, NEW n \in Modems, m # n, aired'[n] # Nothing
    PROVE  /\ <<m, n>> \in spoilt' <=>
                \/ Elapsed(n)' >= 0 /\ Disturbs(m, n)
                \/ n \in fresh /\ Active(engine[m].ear) /\ ~Ended(engine[m].ear)
                \/ aired'[n] = aired[n] /\ <<m, n>> \in spoilt
           /\ <<m, n>> \in broken' <=>
                \/ Elapsed(n)' >= Half /\ Disturbs(m, n)
                \/ aired'[n] = aired[n] /\ <<m, n>> \in broken
           /\ <<m, n>> \in decoded' <=>
                /\ aired'[n] = aired[n]
                /\ \/ <<m, n>> \in decoded
                   \/ /\ m \in due /\ Ended(Interrupted(m).ear)
                      /\ Interrupted(m).ear.byte = aired[n]
<1>1. /\ spoilt' = OnAir(spoilt, aired') \cup Disturbed(0, engine', aired') \cup Missed(aired')
      /\ broken' = OnAir(broken, aired') \cup Disturbed(Half, engine', aired')
      /\ decoded' = OnAir(decoded \cup Decodes, aired')
  BY DEF Iteration
<1>2. \A from : <<m, n>> \in Disturbed(from, engine', aired') <=>
                  Elapsed(n)' >= from /\ Disturbs(m, n)
  <2>1. Elapsed(n)' = AirFrame - engine'[n].emit.left
    BY DEF Elapsed
  <2> QED BY <2>1 DEF Disturbed, Disturbs
<1>3. <<m, n>> \in Missed(aired') <=> n \in fresh /\ Active(engine[m].ear) /\ ~Ended(engine[m].ear)
  BY DEF Missed
<1>4. \A pairs : <<m, n>> \in OnAir(pairs, aired') <=> <<m, n>> \in pairs /\ aired'[n] = aired[n]
  BY DEF OnAir
<1>5. <<m, n>> \in Decodes <=>
        m \in due /\ Ended(Interrupted(m).ear) /\ Interrupted(m).ear.byte = aired[n]
  BY DEF Decodes
<1> QED BY <1>1, <1>2, <1>3, <1>4, <1>5

\* Held, after an iteration.
LEMMA HeldNext ==
    ASSUME IInv, Ordered, Listening, Iteration, NEW m \in Modems, NEW n \in Modems, m # n,
           aired'[n] # Nothing
    PROVE  Held(m, n)'
<1> SUFFICES ASSUME Holds(m, n)'
             PROVE  ~Deaf(m, engine'[m]) /\ (Jam(m, aired') => ~engine'[m].jammed)
  BY DEF Held
<1>1. Of(engine'[m].ear.byte, n)
  <2>1. Upward(n, engine[n], Counted(n))'
    BY IterationOrders DEF Ordered
  <2> QED BY <2>1, FrameNext DEF Holds, Upward, Active
<1>2. /\ aired[n] # Nothing /\ aired'[n] = aired[n] /\ engine'[m].ear.byte = aired[n]
      /\ \/ /\ Holds(m, n) /\ engine'[m].ear = engine[m].ear
            /\ m \in due => ~Ended(engine[m].ear) /\ ~(Jam(m, aired) /\ ~engine[m].jammed)
            /\ Deaf(m, engine'[m]) => Deaf(m, engine[m])
         \/ /\ n \in Starting(m) /\ n \in Heard(m, aired) /\ m \in due
            /\ ~Deaf(m, engine'[m])
  BY <1>1, HoldsNext
<1>3. Held(m, n) /\ (m \notin due => engine[m].jammed = Jam(m, aired))
  BY <1>2 DEF Listening
<1>4. engine'[m].jammed = Jam(m, aired)
  BY <1>3, EarNext
<1>5. n \in Heard(m, aired) => ~Jam(m, aired)
  BY DEF Heard
<1> QED BY <1>2, <1>3, <1>4, <1>5 DEF Held

\* Whole, after an iteration.
LEMMA WholeNext ==
    ASSUME IInv, Ordered, Listening, Iteration, NEW m \in Modems, NEW n \in Modems, m # n,
           aired'[n] # Nothing
    PROVE  Whole(m, n)'
<1> SUFFICES ASSUME <<m, n>> \in decoded'
             PROVE  /\ Elapsed(n)' >= AirStop /\ <<m, n>> \notin broken' /\ ~Holds(m, n)'
                    /\ Elapsed(n)' = AirStop =>
                         ~Deaf(m, engine'[m]) /\ OnTime(engine'[m]) /\ m \notin writes'
  BY DEF Whole
<1>1. /\ aired'[n] = aired[n] /\ aired[n] # Nothing
      /\ \/ <<m, n>> \in decoded
         \/ /\ m \in due /\ Ended(Interrupted(m).ear)
            /\ Interrupted(m).ear.byte = aired[n]
  BY PairHistory
<1>2. Elapsed(n)' = Elapsed(n) /\ Elapsed(n) \in Nat /\ AirStop \in Nat /\ AirStop > 0
  BY <1>1, FrameNext, ElapsedType
<1>3. writes' = {} /\ OnTime(engine'[m])
  BY EarNext DEF Iteration
<1>4. Whole(m, n) /\ Cut(m, n) /\ InStep(m, n) /\ Held(m, n) /\ (n \in fresh => Elapsed(n) = 0)
  BY <1>1 DEF Listening, Ordered
<1>5. Holds(m, n) => Of(engine[m].ear.byte, n)
  BY AiredPast DEF Holds
<1>6. Holds(m, n)' => Of(engine'[m].ear.byte, n)
  <2>1. Of(aired[n], n)
    BY <1>1, AiredPast
  <2> QED BY <1>1, <2>1 DEF Holds
<1>7. CASE <<m, n>> \in decoded
  <2>1. /\ Elapsed(n) >= AirStop /\ <<m, n>> \notin broken /\ ~Holds(m, n)
        /\ Elapsed(n) = AirStop => ~Deaf(m, engine[m]) /\ OnTime(engine[m]) /\ m \notin writes
    BY <1>4, <1>7 DEF Whole
  <2>2. n \notin Starting(m)
    BY <1>2, <2>1, StartingFacts, HalfFacts
  <2>3. Elapsed(n) = AirStop => ~Deaf(m, engine'[m])
    BY <2>1, FrameNext DEF Deaf
  <2>4. ~Disturbs(m, n)
    BY <1>2, <2>1, <2>2, <2>3 DEF Disturbs
  <2>5. <<m, n>> \notin broken'
    BY <2>1, <2>4, PairHistory
  <2>6. ~Holds(m, n)'
    BY <1>6, <2>1, <2>2, HoldsNext
  <2> QED BY <1>2, <1>3, <2>1, <2>3, <2>5, <2>6
<1>8. CASE m \in due /\ Ended(Interrupted(m).ear) /\ Interrupted(m).ear.byte = aired[n]
  <2>1. /\ Ended(engine[m].ear) /\ engine[m].ear.byte = aired[n]
        /\ Deaf(m, engine'[m]) => Deaf(m, engine[m])
    BY <1>8, EarNext DEF Ended
  <2>2. Holds(m, n)
    BY <1>1, <2>1 DEF Holds
  <2>3. ~Deaf(m, engine'[m])
    BY <1>4, <2>1, <2>2 DEF Held
  <2>4. Elapsed(n) >= AirStop
    BY <1>2, <1>4, <1>5, <2>1, <2>2 DEF InStep, Ended
  <2>5. <<m, n>> \notin broken
    BY <1>2, <1>4, <2>2, <2>4 DEF Cut
  <2>6. ~Disturbs(m, n)
    BY <1>2, <2>3, <2>4 DEF Disturbs
  <2>7. <<m, n>> \notin broken'
    BY <2>5, <2>6, PairHistory
  <2>8. n \notin Starting(m)
    BY <1>2, <2>4, StartingFacts, HalfFacts
  <2>9. ~Holds(m, n)'
    BY <1>6, <1>8, <2>1, <2>8, HoldsNext
  <2> QED BY <1>2, <1>3, <2>3, <2>4, <2>7, <2>9
<1> QED BY <1>1, <1>7, <1>8

LEMMA CutNext ==
    ASSUME IInv, Ordered, Listening, Iteration, NEW m \in Modems, NEW n \in Modems, m # n,
           aired'[n] # Nothing
    PROVE  Cut(m, n)'
<1> SUFFICES ASSUME <<m, n>> \in broken'
             PROVE  /\ Elapsed(n)' >= Half
                    /\ Holds(m, n)' => Jam(m, aired') /\ Elapsed(n)' < AirStop
  BY DEF Cut, Half
<1>1. \/ Elapsed(n)' >= Half /\ Disturbs(m, n)
      \/ aired'[n] = aired[n] /\ <<m, n>> \in broken
  BY PairHistory
<1>2. aired'[n] = aired[n] =>
        Elapsed(n)' = Elapsed(n) /\ Held(m, n) /\ Cut(m, n) /\ aired[n] # Nothing
  BY FrameNext DEF Listening
<1>3. Elapsed(n)' >= Half
  BY <1>1, <1>2 DEF Cut
<1>4. ASSUME Holds(m, n)' PROVE Jam(m, aired') /\ Elapsed(n)' < AirStop
  <2>1. Of(engine'[m].ear.byte, n)
    <3>1. Upward(n, engine[n], Counted(n))'
      BY IterationOrders DEF Ordered
    <3> QED BY <1>4, <3>1, FrameNext DEF Holds, Upward, Active
  <2>2. /\ aired'[n] = aired[n]
        /\ \/ /\ Holds(m, n)
              /\ m \in due => ~(Jam(m, aired) /\ ~engine[m].jammed)
           \/ n \in Starting(m)
    BY <2>1, HoldsNext
  <2>3. n \notin Starting(m)
    BY <1>2, <1>3, <2>2, StartingFacts, ElapsedType, HalfFacts
  <2>4. m \notin due => engine[m].jammed = Jam(m, aired)
    BY DEF Listening
  <2>5. <<m, n>> \notin broken
    BY <1>2, <2>2, <2>3, <2>4 DEF Cut, Held
  <2>6. Disturbs(m, n) /\ ~Deaf(m, engine'[m])
    BY <1>1, <1>4, <2>5, HeldNext DEF Held
  <2>7. Elapsed(n)' < AirStop /\ Others(m, aired') # {n}
    BY <2>6 DEF Disturbs
  <2>8. n \in Others(m, aired')
    BY DEF Others
  <2> QED BY <2>7, <2>8, JamFacts
<1> QED BY <1>3, <1>4

LEMMA ClearNext ==
    ASSUME IInv, Ordered, Listening, Iteration, NEW m \in Modems, NEW n \in Modems, m # n,
           aired'[n] # Nothing
    PROVE  Clear(m, n)'
<1> SUFFICES ASSUME <<m, n>> \notin spoilt'
             PROVE  /\ Timely(m, n)' \/ Elapsed(n)' < AirStop => Others(m, aired') = {n}
                    /\ Elapsed(n)' <= AirStop => ~Deaf(m, engine'[m])
                    /\ Channel[m] = Channel[n] =>
                         \/ Timely(m, n)'
                         \/ Elapsed(n)' < AirStop /\ n \in fresh'
                         \/ Elapsed(n)' >= AirStop /\ <<m, n>> \in decoded'
  BY DEF Clear
<1>3. IInv' /\ Ordered'
  BY IterationKeeps, IterationOrders
<1>4. Elapsed(n)' \in Nat /\ AirStop \in Nat /\ AirStop > 0 /\ engine'[m].ear.left \in Nat
  <2>1. /\ EngineOK(engine'[n]) /\ EngineOK(engine'[m])
    BY <1>3 DEF IInv, ModemTypeOK, EngineOK, Fits
  <2>2. engine'[n].emit.left \in 0..AirFrame /\ engine'[m].ear.left \in 0..AirStop
    BY <2>1, EngineFields DEF EngineOK
  <2>3. AirFrame \in Nat /\ AirStop \in Nat /\ AirStop > 0
    BY Constants
  <2> QED BY <2>2, <2>3 DEF Elapsed
<1>1. /\ ~Disturbs(m, n) /\ (aired'[n] = aired[n] => <<m, n>> \notin spoilt)
      /\ ~(n \in fresh /\ Active(engine[m].ear) /\ ~Ended(engine[m].ear))
  BY <1>4, PairHistory
<1>2. /\ Elapsed(n)' < AirStop => Others(m, aired') = {n}
      /\ Elapsed(n)' <= AirStop => ~Deaf(m, engine'[m])
  BY <1>1 DEF Disturbs
<1>6. CASE aired'[n] # aired[n]
  <2>1. n \in fresh' /\ Elapsed(n)' = 0
    BY <1>6, FrameNext
  <2> QED BY <1>2, <1>4, <2>1
<1>7. CASE aired'[n] = aired[n]
  <2>1. Elapsed(n)' = Elapsed(n) /\ aired[n] # Nothing /\ n \in Others(m, aired)
    BY <1>7, FrameNext DEF Others
  <2>2. InStep(m, n) /\ Clear(m, n) /\ (n \in fresh => Elapsed(n) = 0)
    BY <2>1 DEF Listening, Ordered
  <2>3. /\ Timely(m, n) \/ Elapsed(n) < AirStop => Others(m, aired) = {n}
        /\ Elapsed(n) <= AirStop => ~Deaf(m, engine[m])
        /\ Channel[m] = Channel[n] =>
             \/ Timely(m, n)
             \/ Elapsed(n) < AirStop /\ n \in fresh
             \/ Elapsed(n) >= AirStop /\ <<m, n>> \in decoded
    BY <1>1, <1>7, <2>2 DEF Clear
  <2>4. Holds(m, n) => Of(engine[m].ear.byte, n) /\ Active(engine[m].ear)
    BY <2>2, AiredPast DEF Holds, Active
  <2>5. ASSUME Channel[m] = Channel[n]
        PROVE  \/ Timely(m, n)'
               \/ Elapsed(n)' < AirStop /\ n \in fresh'
               \/ Elapsed(n)' >= AirStop /\ <<m, n>> \in decoded'
    <3>1. CASE Timely(m, n) /\ Elapsed(n) < AirStop
      <4>1. ~Ended(engine[m].ear) /\ ~Deaf(m, engine'[m]) /\ ~Jam(m, aired)
        BY <1>2, <1>4, <2>1, <2>3, <2>4, <3>1, ElapsedType, JamFacts DEF Ended, Timely
      <4>2. engine'[m].ear = engine[m].ear
        BY <2>4, <3>1, <4>1, EarNext DEF Timely
      <4> QED BY <1>7, <2>1, <3>1, <4>2 DEF Timely, Holds
    <3>2. CASE n \in fresh /\ Elapsed(n) < AirStop
      <4>1. n \in Heard(m, aired) \cap fresh /\ n \in Starting(m)
        BY <2>1, <2>3, <2>5, <3>2, JamFacts DEF Starting
      <4>2. m \in due
        BY <4>1 DEF Listening
      <4>3. ~Deaf(m, engine'[m]) /\ (Active(engine[m].ear) => Ended(engine[m].ear))
        BY <1>1, <1>2, <1>4, <2>1, <3>2
      <4>4. engine'[m].ear = OnLine(aired[n], AirStop)
        BY <4>1, <4>2, <4>3, EarNext
      <4>5. engine'[m].ear.left + Elapsed(n)' = AirStop
        BY <2>1, <2>2, <3>2, <4>4, HalfFacts DEF OnLine
      <4> QED BY <1>7, <2>1, <4>4, <4>5 DEF Timely, Holds, OnLine
    <3>3. CASE Timely(m, n) /\ Elapsed(n) >= AirStop
      <4>1. Elapsed(n) = AirStop /\ Ended(engine[m].ear)
        BY <2>4, <3>3, ElapsedType DEF Ended, Timely
      <4>2. m \in due
        BY <4>1 DEF IInv, OnTime, Ended
      <4>3. ~Deaf(m, engine'[m]) /\ ~Jam(m, aired)
        BY <1>2, <2>1, <2>3, <3>3, <4>1, ElapsedType, JamFacts
      <4>4. Interrupted(m).ear = engine[m].ear
        BY <4>2, <4>3, EarNext
      <4>5. <<m, n>> \in decoded'
        BY <1>7, <3>3, <4>1, <4>2, <4>4, PairHistory DEF Timely, Holds
      <4> QED BY <2>1, <3>3, <4>5
    <3>4. CASE Elapsed(n) >= AirStop /\ <<m, n>> \in decoded
      <4>1. <<m, n>> \in decoded'
        BY <1>7, <3>4, PairHistory
      <4> QED BY <2>1, <3>4, <4>1
    <3>5. Elapsed(n) < AirStop \/ Elapsed(n) >= AirStop
      BY <1>4, <2>1
    <3> QED BY <2>3, <2>5, <3>1, <3>2, <3>3, <3>4, <3>5
  <2>6. Timely(m, n)' => Others(m, aired') = {n}
    <3>1. SUFFICES ASSUME Timely(m, n)' PROVE Elapsed(n)' < AirStop
      BY <1>2
    <3>2. Active(engine'[m].ear)
      BY <1>7, <2>1, <3>1 DEF Timely, Holds, Active
    <3>3. engine'[m].ear.left > 0
      BY <3>2, EarNext DEF OnTime
    <3> QED BY <1>4, <3>1, <3>3 DEF Timely
  <2> QED BY <1>2, <2>5, <2>6
<1> QED BY <1>6, <1>7

LEMMA IterationListens ==
    ASSUME IInv, Ordered, Listening, Iteration
    PROVE  Listening'
<1>1. fresh' \subseteq Modems /\ writes' = {}
  BY DEF Iteration
<1>2. fresh' # {} => writes' = {} /\ \A m \in Modems : OnTime(engine'[m])
  BY <1>1, EarNext
<1>3. ASSUME NEW m \in Modems \ due'
      PROVE  engine'[m].jammed = Jam(m, aired') /\ Heard(m, aired') \cap fresh' = {}
  <2>1. Jam(m, aired') = Jam(m, aired) /\ Heard(m, aired') \cap fresh' = {}
    BY <1>3 DEF Iteration
  <2>2. engine'[m].jammed = Jam(m, aired)
    BY EarNext DEF Listening
  <2> QED BY <2>1, <2>2
<1>4. \A m, n \in Modems : m # n /\ aired'[n] # Nothing =>
         Held(m, n)' /\ Whole(m, n)' /\ Cut(m, n)' /\ Clear(m, n)'
  BY HeldNext, WholeNext, CutNext, ClearNext
<1> QED BY <1>2, <1>3, <1>4 DEF Listening

LEMMA ElapseListens ==
    ASSUME IInv, Ordered, Listening, Elapse
    PROVE  Listening'
<1>1. /\ engine' = [m \in Modems |-> Ticked(engine[m])]
      /\ due = {} /\ fresh' = {} /\ aired' = aired /\ spoilt' = spoilt /\ decoded' = decoded
      /\ broken' = broken \cup Disturbed(Half, engine', aired)
  BY DEF Elapse
<1>2. ASSUME NEW m \in Modems
      PROVE  /\ engine'[m].emit.byte = engine[m].emit.byte
             /\ engine'[m].ear.byte = engine[m].ear.byte
             /\ engine'[m].jammed = engine[m].jammed
             /\ OnTime(engine[m]) /\ engine[m].jammed = Jam(m, aired)
             /\ Heard(m, aired) \cap fresh = {}
  <2>1. EngineOK(engine[m]) /\ engine'[m] = Ticked(engine[m])
    BY <1>1, TypesUsed
  <2>2. OnTime(engine[m]) /\ engine[m].jammed = Jam(m, aired) /\ Heard(m, aired) \cap fresh = {}
    BY <1>1 DEF IInv, Listening
  <2> QED BY <2>1, <2>2, TickedOrder, TickedFrames
<1>3. ASSUME NEW m \in Modems, NEW n \in Modems, m # n, aired[n] # Nothing
      PROVE  Held(m, n)' /\ Whole(m, n)' /\ Cut(m, n)' /\ Clear(m, n)'
  <2>1. InStep(m, n) /\ Held(m, n) /\ Whole(m, n) /\ Cut(m, n) /\ Clear(m, n)
    BY <1>3 DEF Listening, Ordered
  <2>2. Holds(m, n)' = Holds(m, n) /\ Deaf(m, engine'[m]) = Deaf(m, engine[m])
    BY <1>1, <1>2 DEF Holds, Deaf, Active
  <2>3. /\ Elapsed(n)' = Elapsed(n) + 1 /\ Elapsed(n) \in Nat
        /\ engine[m].ear.left \in Nat
    BY <1>3, TickedElapsed, ElapsedType
  <2>4. Holds(m, n) => /\ Of(engine[m].ear.byte, n) /\ engine[m].ear.left > 0
                       /\ engine'[m].ear.left = engine[m].ear.left - 1
    <3>1. Holds(m, n) => Of(engine[m].ear.byte, n) /\ Active(engine[m].ear)
      BY AiredPast DEF Holds, Active
    <3> QED BY <1>2, <3>1, TickedElapsed DEF OnTime
  <2>5. n \in Others(m, aired)
    BY <1>3 DEF Others
  <2>6. Held(m, n)'
    BY <1>1, <1>2, <2>1, <2>2 DEF Held
  <2>7. Holds(m, n) => Others(m, aired) = {n} /\ ~Deaf(m, engine[m])
    BY <1>2, <2>1, <2>5, JamFacts DEF Held
  <2>8. <<m, n>> \in broken' =>
          \/ <<m, n>> \in broken
          \/ /\ Elapsed(n)' >= Half /\ Elapsed(n)' <= AirStop
             /\ Others(m, aired) # {n} \/ Deaf(m, engine[m])
    <3>1. <<m, n>> \in Disturbed(Half, engine', aired) =>
            /\ Elapsed(n)' >= Half
            /\ \/ Elapsed(n)' < AirStop /\ Others(m, aired) # {n}
               \/ Elapsed(n)' <= AirStop /\ Deaf(m, engine'[m])
      <4>1. Elapsed(n)' = AirFrame - engine'[n].emit.left
        BY DEF Elapsed
      <4> QED BY <4>1 DEF Disturbed
    <3> QED BY <1>1, <2>2, <2>3, <3>1, HalfFacts
  <2>9. Whole(m, n)'
    <3>1. SUFFICES ASSUME <<m, n>> \in decoded'
                   PROVE  /\ Elapsed(n)' > AirStop /\ <<m, n>> \notin broken' /\ ~Holds(m, n)'
      BY <2>3, HalfFacts DEF Whole
    <3>2. Elapsed(n) >= AirStop /\ <<m, n>> \notin broken /\ ~Holds(m, n)
      BY <1>1, <2>1, <3>1 DEF Whole
    <3>3. Elapsed(n)' > AirStop
      BY <2>3, <3>2, HalfFacts
    <3> QED BY <2>2, <2>3, <2>8, <3>2, <3>3, HalfFacts
  <2>10. Cut(m, n)'
    <3>1. SUFFICES ASSUME <<m, n>> \in broken'
                   PROVE  Elapsed(n)' >= Half /\ ~Holds(m, n)
      BY <2>2 DEF Cut, Half
    <3>2. CASE <<m, n>> \in broken
      BY <2>1, <2>3, <2>5, <2>7, <3>2, JamFacts, HalfFacts DEF Cut
    <3>3. CASE <<m, n>> \notin broken
      BY <2>7, <2>8, <3>1, <3>3
    <3> QED BY <3>2, <3>3
  <2>11. Clear(m, n)'
    <3>1. SUFFICES ASSUME <<m, n>> \notin spoilt
                   PROVE  /\ Timely(m, n)' \/ Elapsed(n)' < AirStop => Others(m, aired') = {n}
                          /\ Elapsed(n)' <= AirStop => ~Deaf(m, engine'[m])
                          /\ Channel[m] = Channel[n] =>
                               \/ Timely(m, n)'
                               \/ Elapsed(n)' < AirStop /\ n \in fresh'
                               \/ Elapsed(n)' >= AirStop /\ <<m, n>> \in decoded'
      BY <1>1 DEF Clear
    <3>2. /\ Timely(m, n) \/ Elapsed(n) < AirStop => Others(m, aired) = {n}
          /\ Elapsed(n) <= AirStop => ~Deaf(m, engine[m])
          /\ Channel[m] = Channel[n] =>
               \/ Timely(m, n)
               \/ Elapsed(n) < AirStop /\ n \in fresh
               \/ Elapsed(n) >= AirStop /\ <<m, n>> \in decoded
      BY <2>1, <3>1 DEF Clear
    <3>3. ~(Channel[m] = Channel[n] /\ Elapsed(n) < AirStop /\ n \in fresh)
      <4>1. Channel[m] = Channel[n] /\ Elapsed(n) < AirStop => n \in Heard(m, aired)
        BY <2>5, <3>2, JamFacts
      <4> QED BY <1>2, <4>1
    <3>4. Timely(m, n)' <=> Timely(m, n)
      BY <2>2, <2>3, <2>4 DEF Timely
    <3>5. /\ Elapsed(n)' < AirStop => Elapsed(n) < AirStop
          /\ Elapsed(n)' <= AirStop => Elapsed(n) <= AirStop
          /\ Elapsed(n) >= AirStop => Elapsed(n)' >= AirStop
      BY <2>3, HalfFacts
    <3> QED BY <1>1, <2>2, <3>2, <3>3, <3>4, <3>5
  <2> QED BY <2>6, <2>9, <2>10, <2>11
<1>4. \A m \in Modems : engine'[m].jammed = Jam(m, aired')
  BY <1>1, <1>2
<1> QED BY <1>1, <1>3, <1>4 DEF Listening

LEMMA ListeningInit == ModemInit => Listening
<1> SUFFICES ASSUME ModemInit PROVE Listening
  OBVIOUS
<1>1. ASSUME NEW m \in Modems
      PROVE  engine[m].ear.byte = Nothing /\ engine[m].jammed = FALSE /\ aired[m] = Nothing
  BY DEF ModemInit, Idle
<1>2. \A m : Others(m, aired) = {}
  BY <1>1 DEF Others
<1>3. \A m : ~Jam(m, aired) /\ Heard(m, aired) = {}
  <2>1. Cardinality({}) = 0
    BY FS_EmptySet
  <2> QED BY <1>2, <2>1 DEF Jam, Heard
<1>4. fresh = {} /\ \A n \in Modems : aired[n] = Nothing
  BY DEF ModemInit
<1>6. \A m \in Modems : engine[m].jammed = Jam(m, aired)
  <2>1. \A m : Jam(m, aired) = FALSE
    BY <1>3 DEF Jam
  <2> QED BY <1>1, <2>1
<1> QED BY <1>3, <1>4, <1>6 DEF Listening

LEMMA ListeningKept == IInv /\ Ordered /\ Listening /\ [ModemNext]_modemVars => Listening'
<1> SUFFICES ASSUME IInv, Ordered, Listening, [ModemNext]_modemVars PROVE Listening'
  OBVIOUS
<1>1. CASE Iteration
  BY <1>1, IterationListens
<1>2. CASE Elapse
  BY <1>2, ElapseListens
<1>3. CASE UNCHANGED modemVars
  BY <1>3 DEF modemVars, antenna, micros, modemHistory, Listening, Held, Whole,
              Cut, Clear, Timely, Half, Holds, Elapsed, Deaf, Active, OnTime, Ready
<1> QED BY <1>1, <1>2, <1>3 DEF ModemNext

\* A modem decodes every frame of its channel that it can hear whole, and none
\* that another modem or its own transmission disturbs when half a bit has
\* passed since its start, or later (radiomodem_engine.c, uartcore.c).
THEOREM FramesHeardWhole == ModemSpec => []HeardWhole
<1>1. IInv /\ Ordered /\ Listening => HeardWhole
  <2> SUFFICES ASSUME IInv, Ordered, Listening, NEW m \in Modems, NEW n \in Modems,
                      due = {}, n # m, Channel[m] = Channel[n], aired[n] # Nothing,
                      Elapsed(n) >= AirStop
               PROVE  /\ <<m, n>> \notin spoilt => <<m, n>> \in decoded
                      /\ <<m, n>> \in decoded => <<m, n>> \notin broken
    BY DEF HeardWhole
  <2>1. Whole(m, n) /\ Clear(m, n) /\ OnTime(engine[m])
    BY DEF Listening, IInv
  <2>2. ~Timely(m, n)
    <3>1. Holds(m, n) => engine[m].ear.left > 0
      BY <2>1 DEF Holds, OnTime, Active
    <3> QED BY <3>1, ElapsedType DEF Timely
  <2>3. ~(Elapsed(n) < AirStop)
    BY ElapsedType
  <2> QED BY <2>1, <2>2, <2>3 DEF Whole, Clear
<1>2. ModemInit => IInv /\ Ordered /\ Listening
  BY InitHolds, OrderedInit, ListeningInit
<1>3. IInv /\ Ordered /\ Listening /\ [ModemNext]_modemVars => (IInv /\ Ordered /\ Listening)'
  BY StepKeeps, OrderKept, ListeningKept
<1> QED BY <1>1, <1>2, <1>3, PTL DEF ModemSpec
=============================================================================
