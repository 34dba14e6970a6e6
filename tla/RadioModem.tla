----------------------------- MODULE RadioModem -----------------------------
(* Transparent radio modems on one antenna (radiomodem_engine.c and          *)
(* PartialRadioModem.mo): what a modem receives on its UART leaves on the    *)
(* air, and what it hears on the air comes out on its UART.  Time is counted *)
(* in ticks.  At an instant Modelica calls the engines that have something   *)
(* due, then, in a further iteration, those whose antenna has changed: a     *)
(* carrier and its bits are heard one event iteration after the engine       *)
(* published them.                                                           *)
EXTENDS Naturals, Sequences, FiniteSets

CONSTANTS
    Modems,
    Channel,    \* carrier frequency and modulation of every modem
    FullDuplex, \* the modems that hear while they transmit
    Load,       \* bound: bytes that every microcontroller writes
    UpSize,     \* txBufferSize
    DownSize,   \* rxBufferSize
    TxDelay,    \* txDelay, in ticks
    RxDelay,    \* rxDelay
    SerFrame,   \* length of a frame on the UART
    AirFrame,   \* length of a frame on the air
    AirStop     \* from its start to the middle of its stop bit

ASSUME ModemAssumption ==
    /\ IsFiniteSet(Modems) /\ FullDuplex \subseteq Modems
    /\ DOMAIN Channel = Modems /\ Load \in [Modems -> Nat]
    /\ {UpSize, DownSize, SerFrame, AirFrame} \subseteq Nat \ {0}
    /\ {TxDelay, RxDelay} \subseteq Nat
    /\ AirStop \in 1..(AirFrame - 1) /\ AirFrame <= 2 * AirStop

VARIABLES
    engine,     \* struct RadioModem of every modem, see Engines
    aired,      \* the byte of the frame that every modem has on the antenna
    fresh,      \* the modems whose frame reached it in the last iteration
    due,        \* the modems to call in this iteration
    writes,     \* microcontrollers whose byte ends at this instant
    gap,        \* ticks before another byte of each can end
    written,    \* number of bytes of each
    reach,      \* history: last byte of each that reached each microcontroller
    spoilt,     \* history: <<m, n>> such that m cannot hear the whole frame of n
    broken,     \* history: those that cannot from half a bit after its start
    decoded     \* history: <<m, n>> such that m has decoded the frame of n

antenna == <<aired, fresh>>
micros == <<writes, gap, written>>
modemHistory == <<reach, spoilt, broken, decoded>>
modemVars == <<engine, antenna, due, micros, modemHistory>>

-----------------------------------------------------------------------------
(* Bytes are named for their writer.  Ghost is what a decoder makes of the   *)
(* rest of a frame that it begins to hear half a bit late or later.          *)

Nothing == <<"nothing", 0>>
Ghost == <<"ghost", 0>>
ModemBytes == UNION {{n} \X (1..Load[n]) : n \in Modems}

Idle == [byte |-> Nothing, left |-> 0]
OnLine(b, length) == [byte |-> b, left |-> length]
Active(f) == f.byte # Nothing
Ended(f) == Active(f) /\ f.left = 0

Waiting(b, delay) == [byte |-> b, wait |-> delay]
PushedAll(q, size, e) == Append(q, e)                                    \* mutant
Pushed(q, size, e) == IF Len(q) < size THEN Append(q, e) ELSE q
Ready(q) == q # <<>> /\ Head(q).wait = 0

\* up, down: the queues.  emit, ear: the frames it transmits and decodes on the
\* air.  ser: the frame it gives back to its microcontroller.
Engines ==
    [up : Seq([byte : ModemBytes, wait : 0..TxDelay]),
     down : Seq([byte : ModemBytes \cup {Ghost}, wait : 0..RxDelay]),
     emit : [byte : ModemBytes \cup {Nothing}, left : 0..AirFrame],
     ear : [byte : ModemBytes \cup {Ghost, Nothing}, left : 0..AirStop],
     ser : [byte : ModemBytes \cup {Ghost, Nothing}, left : 0..SerFrame],
     jammed : BOOLEAN]

ModemInit ==
    /\ engine = [m \in Modems |-> [up |-> <<>>, down |-> <<>>, emit |-> Idle,
                                   ear |-> Idle, ser |-> Idle, jammed |-> FALSE]]
    /\ aired = [m \in Modems |-> Nothing] /\ fresh = {} /\ due = {}
    /\ writes = {} /\ gap = [m \in Modems |-> 0] /\ written = [m \in Modems |-> 0]
    /\ reach = [m \in Modems |-> [n \in Modems |-> 0]] /\ spoilt = {} /\ broken = {} /\ decoded = {}

-----------------------------------------------------------------------------
(* The antenna, as m sees it.                                                *)

OthersAndSelf(m, air) == {n \in Modems : air[n] # Nothing}               \* mutant
Others(m, air) == {n \in Modems \ {m} : air[n] # Nothing}

\* Two others at once, whatever their channels.
Jam(m, air) == Cardinality(Others(m, air)) >= 2

\* The only other one, on the channel of m.
Heard(m, air) ==
    IF Jam(m, air) THEN {} ELSE {n \in Others(m, air) : Channel[n] = Channel[m]}

Deaf(m, e) == m \notin FullDuplex /\ Active(e.emit)

Elapsed(n) == AirFrame - engine[n].emit.left

\* Half a bit: the stop bit is the last of a frame.
Half == AirFrame - AirStop

\* At its last call m was deaf or jammed, and took its line for high.
Masked(m) == engine[m].jammed \/ Deaf(m, engine[m])

\* m hears the bits of a frame: its line falls, and is low, at instants that
\* depend on them.
InData(m) == \E n \in Heard(m, aired) \ fresh : Elapsed(n) \in 1..(AirStop - 1)

-----------------------------------------------------------------------------
(* RadioModem_sync: the steps of its heading comment, in their order.        *)

\* 1 and 2: the frame given back ends; a byte comes from the microcontroller.
SerialDone(m, e) ==
    [e EXCEPT
        !.ser = IF Ended(@) THEN Idle ELSE @,
        !.up = IF m \in writes
               THEN Pushed(@, UpSize, Waiting(<<m, written[m]>>, TxDelay)) ELSE @]

\* 3 and 4: the frame on the air ends and the next one leaves; half duplex, it
\* cuts the one that is being received.
AirSent(m, e) ==
    LET f == IF Ended(e.emit) THEN [e EXCEPT !.emit = Idle] ELSE e
    IN IF ~Active(f.emit) /\ Ready(f.up)
       THEN [f EXCEPT !.emit = OnLine(Head(f.up).byte, AirFrame), !.up = Tail(@),
                      !.ear = IF m \in FullDuplex THEN @ ELSE Idle]
       ELSE f

CollidedKept(m, e) == [e EXCEPT !.jammed = Jam(m, aired)]               \* mutant
\* 5: a collision that begins loses the frame being received; a frame that ends
\* is queued; a falling edge starts another.  A line that m takes up again in
\* the first half of a start bit falls there, and each bit is still sampled in
\* its place.  "high": the stop bit of a ghost is high.  "falls": the line
\* falls further in a frame.
Collided(m, e) ==
    [e EXCEPT !.jammed = Jam(m, aired),
              !.ear = IF Jam(m, aired) /\ ~e.jammed THEN Idle ELSE @]

Closed(e, high) ==
    IF ~Ended(e.ear) THEN e
    ELSE [e EXCEPT !.ear = Idle,
                   !.down = IF e.ear.byte = Ghost /\ ~high THEN @
                            ELSE Pushed(@, DownSize, Waiting(e.ear.byte, RxDelay))]

\* The frames whose start m sees in this call.
Starting(m) == fresh \cup {n \in Modems : Masked(m) /\ Elapsed(n) < Half}

Opened(m, e, falls) ==
    LET heard == IF Deaf(m, e) THEN {} ELSE Heard(m, aired)
    IN IF Active(e.ear) THEN e
       ELSE IF heard \cap Starting(m) # {}
       THEN [e EXCEPT !.ear = OnLine(aired[CHOOSE n \in heard : TRUE], AirStop)]
       ELSE IF falls /\ \E n \in heard : Elapsed(n) >= Half
       THEN [e EXCEPT !.ear = OnLine(Ghost, AirStop)]
       ELSE e

\* 6: the next byte for the microcontroller.
SerialSent(e) ==
    IF ~Active(e.ser) /\ Ready(e.down)
    THEN [e EXCEPT !.ser = OnLine(Head(e.down).byte, SerFrame), !.down = Tail(@)]
    ELSE e

WakesOfFrames(e) == Ended(e.ser) \/ Ended(e.emit) \/ Ended(e.ear)         \* mutant
\* 7: nextWakeTime has come.  The head of a queue is no deadline while its
\* emitter is busy.
Wakes(e) ==
    \/ Ended(e.ser) \/ Ended(e.emit) \/ Ended(e.ear)
    \/ ~Active(e.emit) /\ Ready(e.up)
    \/ ~Active(e.ser) /\ Ready(e.down)

\* The engine when its decoder may end a frame.
Interrupted(m) == Collided(m, AirSent(m, SerialDone(m, engine[m])))

Synced(m, falls, high) == SerialSent(Opened(m, Closed(Interrupted(m), high), falls))

-----------------------------------------------------------------------------
(* An instant.  Every iteration calls the engines that are due, together;    *)
(* the antenna then shows what they published, and calls those for which it  *)
(* has changed.                                                              *)

\* The byte that ended on the UART of m.
Delivered(m) ==
    LET b == engine[m].ser.byte
    IN IF m \in due /\ Ended(engine[m].ser) /\ b # Ghost
       THEN [reach[m] EXCEPT ![b[1]] = b[2]] ELSE reach[m]

\* What each half of the histories says of the frames still on the antenna.
OnAir(pairs, air) == {p \in pairs : air[p[2]] = aired[p[2]] /\ air[p[2]] # Nothing}

\* <<m, n>>: from the time "from" of the frame of n on, and before the middle of
\* its stop bit, another modem is on the air or m transmits.
Disturbed(from, eng, air) ==
    {p \in Modems \X Modems :
        LET m == p[1]  n == p[2]  elapsed == AirFrame - eng[n].emit.left
        IN /\ m # n /\ air[n] # Nothing /\ elapsed >= from
           /\ \/ elapsed < AirStop /\ Others(m, air) # {n}
              \/ elapsed <= AirStop /\ Deaf(m, eng[m])}

\* The frame of n starts while the decoder of m is in another.
Missed(air) ==
    {p \in Modems \X fresh :
        LET ear == engine[p[1]].ear
        IN p[1] # p[2] /\ air[p[2]] # Nothing /\ Active(ear) /\ ~Ended(ear)}

Decodes == {p \in due \X Modems : LET ear == Interrupted(p[1]).ear
                                 IN Ended(ear) /\ ear.byte = aired[p[2]]}

Iteration ==
    /\ due # {}
    /\ \E falls \in SUBSET {m \in due : InData(m)}, low \in SUBSET {m \in due : InData(m)} :
         engine' = [m \in Modems |->
                      IF m \in due THEN Synced(m, m \in falls, m \notin low) ELSE engine[m]]
    /\ aired' = [m \in Modems |-> engine'[m].emit.byte]
    /\ fresh' = {m \in Modems : aired'[m] \notin {aired[m], Nothing}}
    /\ due' = {m \in Modems : \/ Jam(m, aired') # Jam(m, aired)
                              \/ Heard(m, aired') # Heard(m, aired)
                              \/ Heard(m, aired') \cap fresh' # {}}
    /\ writes' = {}
    /\ reach' = [m \in Modems |-> Delivered(m)]
    /\ spoilt' = OnAir(spoilt, aired') \cup Disturbed(0, engine', aired') \cup Missed(aired')
    /\ broken' = OnAir(broken, aired') \cup Disturbed(Half, engine', aired')
    /\ decoded' = OnAir(decoded \cup Decodes, aired')
    /\ UNCHANGED <<gap, written>>

Less(n) == IF n = 0 THEN 0 ELSE n - 1

Ticked(e) ==
    LET Waited(q) == [i \in DOMAIN q |-> [q[i] EXCEPT !.wait = Less(@)]]
    IN [e EXCEPT !.up = Waited(@), !.down = Waited(@), !.emit.left = Less(@),
                 !.ear.left = Less(@), !.ser.left = Less(@)]

\* The next instant; an engine is also called when its line falls.
Elapse ==
    /\ due = {}
    /\ engine' = [m \in Modems |-> Ticked(engine[m])]
    /\ \E w \in SUBSET {n \in Modems : gap[n] <= 1 /\ written[n] < Load[n]} :
         /\ writes' = w
         /\ written' = [n \in Modems |-> IF n \in w THEN written[n] + 1 ELSE written[n]]
         /\ gap' = [n \in Modems |-> IF n \in w THEN SerFrame ELSE Less(gap[n])]
    /\ \E falls \in SUBSET {m \in Modems : Heard(m, aired) # {} /\ ~Active(engine[m].ear)} :
         due' = falls \cup writes' \cup {m \in Modems : Wakes(engine'[m])}
    /\ fresh' = {}
    /\ broken' = broken \cup Disturbed(Half, engine', aired)
    /\ UNCHANGED <<aired, reach, spoilt, decoded>>

ModemNext == Iteration \/ Elapse

ModemSpec == ModemInit /\ [][ModemNext]_modemVars

-----------------------------------------------------------------------------
(* Properties.                                                               *)

\* The variables keep their types and the queues their sizes.
ModemTypeOK ==
    /\ engine \in [Modems -> Engines]
    /\ \A m \in Modems : Len(engine[m].up) <= UpSize /\ Len(engine[m].down) <= DownSize
    /\ aired \in [Modems -> ModemBytes \cup {Nothing}]
    /\ {fresh, due, writes} \subseteq SUBSET Modems
    /\ gap \in [Modems -> 0..SerFrame] /\ written \in [Modems -> Nat]
    /\ reach \in [Modems -> [Modems -> Nat]]
    /\ {spoilt, broken, decoded} \subseteq SUBSET (Modems \X Modems)

\* Time never passes over something due: the one deadline that the engine asks
\* for is enough for every frame to end and every waiting byte to leave at its
\* instant, or as soon as the line is free.
OnTime(e) ==
    /\ \A f \in {e.ser, e.emit, e.ear} : Active(f) => f.left > 0
    /\ Ready(e.up) => Active(e.emit)
    /\ Ready(e.down) => Active(e.ser)

Punctual == due = {} => \A m \in Modems : OnTime(engine[m])

\* A modem decodes every frame of its channel that it can hear whole: nobody
\* else is on the air before its stop bit, the modem does not transmit (half
\* duplex) and its decoder is free.  It decodes none that is disturbed when half
\* a bit has passed since its start, or later.  (One that is disturbed before
\* that only is decoded if nothing happens until its late decoder has ended.)
HeardWhole ==
    \A m, n \in Modems :
        /\ due = {} /\ n # m /\ Channel[m] = Channel[n]
        /\ aired[n] # Nothing /\ Elapsed(n) >= AirStop
        => /\ <<m, n>> \notin spoilt => <<m, n>> \in decoded
           /\ <<m, n>> \in decoded => <<m, n>> \notin broken

\* The radio keeps the promise of RadioAir.
Air == INSTANCE RadioAir WITH Stations <- Modems, given <- written, reached <- reach
KeepsAir == Air!AirSpec
=============================================================================
