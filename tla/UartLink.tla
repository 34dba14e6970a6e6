------------------------------ MODULE UartLink ------------------------------
(***************************************************************************)
(* A serial link: the emission of one UART engine (uartcore.c), the wire   *)
(* that Modelica holds between two synchronisations, and the reception of  *)
(* another engine.  An engine serves both directions, which only share its *)
(* format: the link takes one direction of each end.                       *)
(*                                                                         *)
(* Both ends are event driven.  The emitter is synchronised when the level *)
(* changes, the receiver at the edges of the wire and once a byte, in the  *)
(* middle of the stop bit; between two calls it trusts the level it saw.   *)
(* Either may also be synchronised at any instant: tick, sleep, other pin. *)
(*                                                                         *)
(* Time counts in fractions of half a bit (UARTCORE_EPS is 0); a word is   *)
(* the row of its bits, a queue a sequence of at most BufLen - 1 words.    *)
(***************************************************************************)
EXTENDS Integers, Sequences, FiniteSets

CONSTANTS
    WordBits,   \* bits of a word (8)
    Formats,    \* the formats the programs give to UART(...)
    Messages,   \* what a write may send, sequences of words
    BufLen,     \* UART_TX_BUF_LEN, UART_RX_BUF_LEN
    MaxTime,    \* bound: simulated time stops there
    MaxSent,    \* bound: words written since the last configuration
    MaxSetups   \* bound: calls of init and deinit

Words == [1..WordBits -> BOOLEAN]

ASSUME UartLinkAssumption ==
    /\ WordBits \in Nat \ {0} /\ BufLen \in Nat \ {0, 1}
    /\ Formats # {}
    /\ Formats \subseteq [half : Nat \ {0}, data : 1..WordBits,
                          parity : {"none", "even", "odd"}, stops : {1, 2}]
    /\ Messages \subseteq Seq(Words)
    /\ MaxTime \in Nat /\ MaxSent \in Nat /\ MaxSetups \in Nat

-----------------------------------------------------------------------------
(* Frames.                                                                  *)

Bit(f) == 2 * f.half
HasParity(f) == f.parity # "none"
LastData(f) == IF HasParity(f) THEN f.data + 1 ELSE f.data  \* the parity bit, if any
FrameBits(f) == 1 + LastData(f) + f.stops
FrameTime(f) == FrameBits(f) * Bit(f)

\* TRUE is a bit at 1.
ParityBit(f, w) ==
    LET ones == {i \in 1..f.data : w[i]}
    IN  (Cardinality(ones) % 2 = 1) # (f.parity = "odd")

\* Bit k of the frame of a word: start, data (least significant bit first,
\* the others are lost), parity, stop.
FrameBit(f, w, k) ==
    CASE k = 0                 -> FALSE
      [] k \in 1..f.data       -> w[k]
      [] k = f.data + 1 /\ HasParity(f) -> ParityBit(f, w)
      [] OTHER                 -> TRUE

NoBits == [i \in 1..WordBits |-> FALSE]
Masked(f, w) == [i \in 1..WordBits |-> i <= f.data /\ w[i]]

-----------------------------------------------------------------------------
(* Emission: e is the emitting half of an engine.                           *)

\* The bytes that still fit are queued, the others lost.
PushedAll(q, message) == q \o message                                \* mutant
Pushed(q, message) ==
    LET room == BufLen - 1 - Len(q)
    IN  q \o SubSeq(message, 1, IF Len(message) <= room THEN Len(message) ELSE room)

BeginFrame(e, at) ==
    [e EXCEPT !.active = TRUE, !.start = at,
              !.word = Head(e.queue), !.queue = Tail(e.queue)]

KickAlways(e, at) == IF e.queue # <<>> THEN BeginFrame(e, at) ELSE e  \* mutant
Kick(e, at) == IF ~e.active /\ e.queue # <<>> THEN BeginFrame(e, at) ELSE e

\* Nothing in progress; what the fields of a frame then hold is never read.
TxIdle(e) == [e EXCEPT !.active = FALSE, !.word = NoBits, !.start = 0]

TxEnd(e) == e.start + FrameTime(e.format)

\* The frames that have ended are closed; each is followed by the next one
\* without a gap.  n counts them.
TxAdvance(e, t) ==
    LET n == (t - e.start) \div FrameTime(e.format)
    IN  CASE ~e.active \/ t < TxEnd(e) -> e
          [] e.active /\ TxEnd(e) <= t /\ n <= Len(e.queue) ->
                 [e EXCEPT !.start = @ + n * FrameTime(e.format), !.word = e.queue[n],
                           !.queue = SubSeq(@, n + 1, Len(@))]
          [] OTHER -> [TxIdle(e) EXCEPT !.queue = <<>>]

BitIndex(e, t) == (t - e.start) \div Bit(e.format)
TxLevel(e, t) == e.active => FrameBit(e.format, e.word, BitIndex(e, t))

\* The instants after t at which the level changes, or the frame ends.
EdgesAtEnd(e, t) == {TxEnd(e)}                                        \* mutant
Edges(e, t) ==
    LET k == BitIndex(e, t)
        bit(j) == FrameBit(e.format, e.word, j)
    IN  {TxEnd(e)} \cup {e.start + j * Bit(e.format) :
            j \in {i \in (k + 1)..(FrameBits(e.format) - 1) : bit(i) # bit(k)}}

-----------------------------------------------------------------------------
(* Reception: e is the receiving half of an engine.  start is the instant   *)
(* of the start edge, index the next bit to resolve: a bit of data (from 0),*)
(* then the parity bit, then the first stop bit.                            *)

StopIndex(f) == LastData(f)
Middle(e, k) == e.start + 3 * e.format.half + k * Bit(e.format)

\* The bits whose middle has passed, read as the level held until now.
Resolved(e, t) ==
    IF e.receiving THEN {k \in e.index..StopIndex(e.format) : Middle(e, k) <= t}
                   ELSE {}
ReadNow(e, t, level, k) == level                                      \* mutant
Read(e, t, level, k) == IF Middle(e, k) < t THEN e.last ELSE level

\* The word with the data bits resolved so far.
Shifted(e, t, level) ==
    [i \in 1..WordBits |->
        e.word[i] \/ (i <= e.format.data /\ i - 1 \in Resolved(e, t)
                      /\ Read(e, t, level, i - 1))]

\* What is wrong with the frame, known so far.
Errors(e, t, level) ==
    LET f == e.format
        w == Shifted(e, t, level)
        read(k) == Read(e, t, level, k)
    IN  e.errors
        \cup {x \in {"parity"} : /\ HasParity(f) /\ f.data \in Resolved(e, t)
                                 /\ read(f.data) # ParityBit(f, w)}
        \cup {x \in {"framing"} : /\ StopIndex(f) \in Resolved(e, t)
                                  /\ ~read(StopIndex(f))}

\* A frame whose stop bit is resolved is closed: its word is queued, right or
\* wrong, or lost if the queue is full.
RxIdle(e) ==
    [e EXCEPT !.receiving = FALSE, !.index = 0, !.word = NoBits, !.start = 0,
              !.errors = {}]

Closes(e, t) == StopIndex(e.format) \in Resolved(e, t)
Collect(e, t, level) ==
    IF Closes(e, t)
    THEN [RxIdle(e) EXCEPT !.queue = Pushed(@, <<Shifted(e, t, level)>>)]
    ELSE [e EXCEPT !.word = Shifted(e, t, level), !.errors = Errors(e, t, level),
                   !.index = @ + Cardinality(Resolved(e, t))]

\* A falling edge of the idle line is a start bit.
Starts(e, level) == ~e.receiving /\ e.last /\ ~level

RxStep(e, t, level) ==
    LET c == Collect(e, t, level)
    IN  IF Starts(c, level)
        THEN [c EXCEPT !.receiving = TRUE, !.start = t, !.last = level]
        ELSE [c EXCEPT !.last = level]

-----------------------------------------------------------------------------

VARIABLES
    now,
    tx, rx,      \* the two ends
    turn,        \* "none", or the end that is synchronised: "tx" or "rx"
    wakeTx, wakeRx,  \* wakes they asked for, sets: {} for none
    line,        \* level of the wire, as Modelica holds it
    edge,        \* the receiver has to be synchronised: the wire changed
    setups,      \* calls of init and deinit so far
    \* History.
    sent,        \* words accepted by write, as the format cuts them
    received,    \* words queued by the receiver
    reported,    \* errors the receiver reported at its last call
    linked,      \* both ends have been ready, with one format, ever since
    taken,       \* levels of the wire at this instant
    middle       \* levels of the wire in the middle of each bit received

vars == <<now, tx, rx, turn, wakeTx, wakeRx, line, edge, setups, sent, received,
          reported, linked, taken, middle>>

Emitters ==
    [configured : BOOLEAN, format : Formats, queue : Seq(Words),
     active : BOOLEAN, word : Words, start : Nat]
Receivers ==
    [configured : BOOLEAN, format : Formats, queue : Seq(Words),
     receiving : BOOLEAN, last : BOOLEAN, index : Nat, word : Words,
     start : Nat, errors : SUBSET {"parity", "framing"}]

TypeOK ==
    /\ now \in Nat /\ setups \in Nat /\ line \in BOOLEAN /\ edge \in BOOLEAN /\ linked \in BOOLEAN
    /\ tx \in Emitters /\ rx \in Receivers
    /\ Len(tx.queue) < BufLen /\ Len(rx.queue) < BufLen
    /\ turn \in {"none", "tx", "rx"}
    /\ wakeTx \in SUBSET Nat /\ wakeRx \in SUBSET Nat
    /\ reported \in SUBSET {"parity", "framing"}
    /\ sent \in Seq(Words) /\ received \in Seq(Words)
    /\ taken \in SUBSET BOOLEAN /\ middle \in [0..(WordBits + 1) -> SUBSET BOOLEAN]

Init ==
    /\ now = 0 /\ turn = "none" /\ wakeTx = {} /\ wakeRx = {}
    /\ \E f \in Formats :
         /\ tx = [configured |-> FALSE, format |-> f, queue |-> <<>>,
                  active |-> FALSE, word |-> NoBits, start |-> 0]
         /\ rx = [configured |-> FALSE, format |-> f, queue |-> <<>>,
                  receiving |-> FALSE, last |-> FALSE, index |-> 0,
                  word |-> NoBits, start |-> 0, errors |-> {}]
    /\ line = FALSE /\ edge = FALSE /\ setups = 0
    /\ sent = <<>> /\ received = <<>> /\ reported = {} /\ linked = FALSE
    /\ taken = {line} /\ middle = [k \in 0..(WordBits + 1) |-> {}]

-----------------------------------------------------------------------------
(* The Modelica side.                                                       *)

\* Time passes when no synchronisation is due.
Quiet == turn = "none" /\ ~edge /\ \A d \in wakeTx \cup wakeRx : now < d

Advance ==
    /\ Quiet /\ now < MaxTime
    /\ now' = now + 1
    /\ middle' = [k \in DOMAIN middle |->
                     IF ~rx.receiving THEN {}
                     ELSE IF Middle(rx, k) = now THEN taken ELSE middle[k]]
    /\ taken' = {line}
    /\ UNCHANGED <<tx, rx, turn, wakeTx, wakeRx, line, edge, setups, sent, received,
                   reported, linked>>

SyncTx ==
    /\ turn = "none" /\ turn' = "tx"
    /\ tx' = TxAdvance(tx, now)
    /\ UNCHANGED <<now, rx, wakeTx, wakeRx, line, edge, setups, sent, received, reported,
                   linked, taken, middle>>

\* The level is published, and held until the next synchronisation.  A pin the
\* UART does not drive is low.
PublishTx ==
    /\ turn = "tx" /\ turn' = "none"
    /\ line' = (tx.configured /\ TxLevel(tx, now))
    /\ edge' = (edge \/ line' # line)
    /\ taken' = taken \cup {line'}
    /\ \/ /\ tx.configured /\ tx.active
          /\ \E d \in Edges(tx, now) : /\ \A e \in Edges(tx, now) : d <= e
                                       /\ wakeTx' = {d}
       \/ ~(tx.configured /\ tx.active) /\ wakeTx' = {}
    /\ UNCHANGED <<now, tx, rx, wakeRx, setups, sent, received, reported, linked, middle>>

\* Both ends are ready before anything is written.
Linking ==
    /\ tx.configured /\ rx.configured /\ tx.format = rx.format
    /\ sent = <<>> /\ received = <<>> /\ ~tx.active /\ line /\ ~rx.receiving

SyncRx ==
    /\ turn = "none" /\ turn' = "rx"
    /\ edge' = FALSE
    /\ rx' = IF rx.configured THEN RxStep(rx, now, line) ELSE rx
    /\ IF rx.configured /\ Closes(rx, now)
       THEN /\ received' = Append(received, Shifted(rx, now, line))
            /\ reported' = Errors(rx, now, line)
            /\ linked' = (linked /\ Len(rx.queue) < BufLen - 1)
       ELSE /\ received' = received /\ reported' = {}
            /\ linked' = (linked \/ Linking)
    /\ UNCHANGED <<now, tx, wakeTx, wakeRx, line, setups, sent, taken, middle>>

PublishRx ==
    /\ turn = "rx" /\ turn' = "none"
    /\ wakeRx' = IF rx.configured /\ rx.receiving
                 THEN {Middle(rx, StopIndex(rx.format))} ELSE {}
    /\ UNCHANGED <<now, tx, rx, wakeTx, line, edge, setups, sent, received, reported,
                   linked, taken, middle>>

-----------------------------------------------------------------------------
(* The natives of machine.UART, during a synchronisation.                   *)

\* uart_init: the queues are emptied, what is in progress is dropped.  The
\* level seen last is left as it is.
Configured(e, f) == [e EXCEPT !.configured = TRUE, !.format = f, !.queue = <<>>]

Setup ==
    /\ setups < MaxSetups /\ setups' = setups + 1
    /\ sent' = <<>>  /\ received' = <<>> /\ linked' = FALSE /\ reported' = {}

InitTx(f) ==
    /\ turn = "tx"
    /\ tx' = TxIdle(Configured(tx, f))
    /\ Setup
    /\ UNCHANGED <<now, rx, turn, wakeTx, wakeRx, line, edge, taken, middle>>

InitRx(f) ==
    /\ turn = "rx"
    /\ rx' = RxIdle(Configured(rx, f))
    /\ Setup
    /\ UNCHANGED <<now, tx, turn, wakeTx, wakeRx, line, edge, taken, middle>>

\* uart_write: what the queue accepts, and the first frame if none is going on.
Write(message) ==
    /\ turn = "tx" /\ tx.configured
    /\ Len(sent) + Len(message) <= MaxSent
    /\ LET q == Pushed(tx.queue, message)
           new == SubSeq(q, Len(tx.queue) + 1, Len(q))
       IN  /\ tx' = Kick([tx EXCEPT !.queue = q], now)
           /\ sent' = sent \o [i \in 1..Len(new) |-> Masked(tx.format, new[i])]
    /\ UNCHANGED <<now, rx, turn, wakeTx, wakeRx, line, edge, setups, received, reported,
                   linked, taken, middle>>

\* uart_read(n), after its synchronisation: up to n words.
ReadWords(n) ==
    /\ turn = "rx" /\ n <= Len(rx.queue)
    /\ rx' = [rx EXCEPT !.queue = SubSeq(@, n + 1, Len(@))]
    /\ UNCHANGED <<now, tx, turn, wakeTx, wakeRx, line, edge, setups, sent, received,
                   reported, linked, taken, middle>>

\* uart_deinit: the pins are released, the queues are kept.
DeinitTx ==
    /\ turn = "tx"
    /\ tx' = [TxIdle(tx) EXCEPT !.configured = FALSE]
    /\ Setup
    /\ UNCHANGED <<now, rx, turn, wakeTx, wakeRx, line, edge, taken, middle>>

DeinitRx ==
    /\ turn = "rx"
    /\ rx' = [RxIdle(rx) EXCEPT !.configured = FALSE]
    /\ Setup
    /\ UNCHANGED <<now, tx, turn, wakeTx, wakeRx, line, edge, taken, middle>>

Natives ==
    \/ \E f \in Formats : InitTx(f) \/ InitRx(f)
    \/ \E message \in Messages : Write(message)
    \/ \E n \in 1..(BufLen - 1) : ReadWords(n)
    \/ DeinitTx \/ DeinitRx

\* The bound on time.
Ended == Quiet /\ now = MaxTime /\ UNCHANGED vars

Next ==
    \/ Advance \/ SyncTx \/ PublishTx \/ SyncRx \/ PublishRx
    \/ Natives \/ Ended

Spec == Init /\ [][Next]_vars

-----------------------------------------------------------------------------
(* Properties.                                                              *)

\* The level Modelica holds is, at every instant, the one of the frame, although
\* the emitter is only synchronised when it changes (uartcore_tx_next_edge).
LineFollowsFrame == Quiet /\ tx.configured => line = TxLevel(tx, now)

\* A bit is what the wire was in its middle, although the receiver resolves it
\* later, at the next edge: "exactement celui d'un échantillonnage au milieu de
\* chaque bit", with any format at the other end (uartcore_rx_step).
SampledInTheMiddle ==
    [][SyncRx /\ rx.configured =>
        \A k \in Resolved(rx, now) :
            Read(rx, now, line, k) \in
                IF Middle(rx, k) = now THEN taken ELSE middle[k]]_vars

\* What is sent arrives, in order and without errors, if both ends were ready
\* before and the queue of the receiver never filled up.
InOrder ==
    linked => /\ Len(received) <= Len(sent)
              /\ received = SubSeq(sent, 1, Len(received))
              /\ reported = {}
              /\ Quiet /\ ~tx.active => received = sent

\* A byte accepted by write does not wait for ever in an idle emitter.
QueueDrains == tx.configured /\ ~tx.active => tx.queue = <<>>

\* A wake is never asked for in the past, or now: the when would not fire.
WakesAhead ==
    [][/\ PublishTx => \A d \in wakeTx' : now < d
       /\ PublishRx => \A d \in wakeRx' : now < d]_vars

\* A wake of the emitter is worth its event: the level changes or the frame is
\* over.
WakesUseful ==
    [][SyncTx /\ now \in wakeTx => now = TxEnd(tx) \/ TxLevel(tx', now) # line]_vars

\* "Le start se détecte sur un front descendant, jamais sur un simple niveau
\* bas": an idle receiver starts a frame only at a fall of the wire
\* (uartcore_rx_step).  Violated: uartcore_configure keeps the level seen before.
StartsAtEdges ==
    [][SyncRx /\ rx.configured /\ ~rx.receiving =>
        (rx'.receiving => edge /\ ~line)]_vars
=============================================================================
