---------------------------- MODULE RadioPackets ----------------------------
(* The packets of the radio of a micro:bit, as microbit_shim.py makes them   *)
(* over the transparent modem of the board: frames between delimiters, with  *)
(* escapes, a header and a CRC; a stream that the program empties only when  *)
(* it asks for a message; and the calls of the program, each of which gives  *)
(* the turn to Modelica in its middle, where a callback may call the radio   *)
(* too.  The other boards are a channel that loses bytes, adds some, and     *)
(* mixes the bytes of two boards that talk at once.                          *)
EXTENDS Integers, FiniteSets, Sequences, SequencesExt

CONSTANTS
    Peers,      \* the other boards on the air
    Tunings,    \* values of channel, group, address and data_rate, together
    Ending,     \* what the payloads of each hold after the byte that names them
    Depths,     \* values of queue
    Lengths,    \* values of length
    Sizes,      \* lengths of what the program sends
    Overhead,   \* bytes of a frame that are not its payload
    LinkSize,   \* places of the transmit queue of the UART
    FifoSize,   \* places of its receive queue
    MaxFrame,   \* _RADIO_MAX_FRAME
    Kept,       \* what is kept of a candidate that is longer
    Default,    \* what _radio_cfg holds at the start
    MaxSent,    \* bound: messages of a peer
    Budgets     \* bounds: which peers talk, their messages, bytes lost, bytes that nobody
                \* sent, and calls: sends, reads (receive), switches (on, off, config)

ASSUME RadioAssumption ==
    /\ Overhead \in Nat /\ LinkSize \in Nat /\ FifoSize \in Nat
    /\ MaxFrame \in Nat /\ Kept \in 0..MaxFrame
    /\ Depths \subseteq Nat /\ Lengths \subseteq Nat /\ Sizes \subseteq Nat
    /\ MaxSent \in Nat
    /\ Budgets \subseteq 
         [talkers : SUBSET Peers, messages : 0..MaxSent, lost : Nat, noise : Nat, sends : Nat, reads : Nat, switches : Nat]

Configs == [tuning : Tunings, depth : Depths, length : Lengths]

ASSUME DefaultAssumption == Default \in Configs

VARIABLES
    radioOn,    \* _radio_on_flag
    config,     \* _radio_cfg
    queue,      \* _radio_queue
    buffer,     \* _radio_rx_buf
    uart,       \* engine 1: configured, receive queue, transmit queue, frame in progress
    call,       \* where the main program and the callback are in their calls
    polled,     \* what the last uart_tx_busy of each found
    air,        \* bytes of every peer that have not arrived
    sent,       \* number of messages of every peer
    heard,      \* history: bytes taken from the UART since the last on()
    valid,      \* history: the valid frames among them, as they were found, and where
    last,       \* history: last message of every peer that the program took
    left        \* what is left of the budget

module == <<radioOn, config, queue, buffer>>
program == <<call, polled>>
peers == <<air, sent>>
radioHistory == <<heard, valid, last>>
radioVars == <<module, uart, program, peers, radioHistory, left>>

Contexts == {"main", "callback"}

\* A call is named for the native it waits in; "code": no call is in progress.
Waits == {"uart_init", "settle", "uart_deinit", "uart_read", "uart_write", "tx_busy"}

-----------------------------------------------------------------------------
(* Bytes and frames.  A header or a CRC is one byte that says what it was    *)
(* made of: the CRC tells any two bodies apart.                              *)

DEL == <<"7E">>
ESC == <<"7D">>
DelCode == <<"5E">>
EscCode == <<"5D">>
Header(payload, tuning) == <<"header", Len(payload), tuning>>
Crc(bytes) == <<"crc", bytes>>

EscapedByte(b) ==
    CASE b = DEL -> <<ESC, DelCode>>
      [] b = ESC -> <<ESC, EscCode>>
      [] OTHER -> <<b>>

Escape(bytes) == FlattenSeq([i \in DOMAIN bytes |-> EscapedByte(bytes[i])])

Frame(payload, tuning) ==
    LET body == <<Header(payload, tuning)>> \o payload
    IN <<DEL>> \o Escape(Append(body, Crc(body))) \o <<DEL>>

\* One byte of a candidate: state.ok until an escape means nothing.
Unescaped(state, b) ==
    CASE ~state.ok -> state
      [] state.ok /\ state.esc /\ b = DelCode ->
             [state EXCEPT !.body = Append(@, DEL), !.esc = FALSE]
      [] state.ok /\ state.esc /\ b = EscCode ->
             [state EXCEPT !.body = Append(@, ESC), !.esc = FALSE]
      [] state.ok /\ state.esc /\ b \notin {DelCode, EscCode} ->
             [state EXCEPT !.ok = FALSE]
      [] state.ok /\ ~state.esc /\ b = ESC -> [state EXCEPT !.esc = TRUE]
      [] state.ok /\ ~state.esc /\ b # ESC -> [state EXCEPT !.body = Append(@, b)]

Unescape(bytes) ==
    LET after[i \in 0..Len(bytes)] ==
          IF i = 0 THEN [body |-> <<>>, esc |-> FALSE, ok |-> TRUE]
                   ELSE Unescaped(after[i - 1], bytes[i])
    IN after[Len(bytes)]

Payload(body) == SubSeq(body, 2, Len(body) - 1)

\* The CRC and the length agree.
ValidBody(body) ==
    /\ Len(body) >= 2
    /\ body[Len(body)] = Crc(Front(body))
    /\ body[1][1] = "header" /\ body[1][2] = Len(Payload(body))

IsFrame(candidate) ==
    LET u == Unescape(candidate) IN u.ok /\ ~u.esc /\ ValidBody(u.body)

Body(candidate) == Unescape(candidate).body

CutEarly(bytes) ==                                                     \* mutant
    IF Len(bytes) > Kept THEN SubSeq(bytes, Len(bytes) - Kept + 1, Len(bytes)) ELSE bytes
\* Of a candidate that can be no frame any more, the end.
Cut(bytes) ==
    IF Len(bytes) > MaxFrame
    THEN SubSeq(bytes, Len(bytes) - Kept + 1, Len(bytes))
    ELSE bytes

\* The new message is thrown away when the queue is full.
Queued(q, body) ==
    IF body[1][3] = config.tuning /\ Len(q) < config.depth
    THEN Append(q, Payload(body)) ELSE q

\* A candidate that a delimiter closes, at its place in the stream.
Accepted(state, place) ==
    IF IsFrame(state.rest)
    THEN [rest |-> <<>>, queue |-> Queued(state.queue, Body(state.rest)),
          found |-> Append(state.found, [body |-> Body(state.rest), at |-> place])]
    ELSE [state EXCEPT !.rest = <<>>]

\* The candidates that some bytes close, those of the buffer first, and the rest.
Drained(state, b, place) ==
    IF b = DEL THEN Accepted(state, place) ELSE [state EXCEPT !.rest = Append(@, b)]

Drain(bytes) ==
    LET before == Len(heard) - Len(buffer)
        after[i \in 0..Len(bytes)] ==
          IF i = 0 THEN [rest |-> <<>>, queue |-> queue, found |-> <<>>]
                   ELSE Drained(after[i - 1], bytes[i], before + i)
    IN after[Len(bytes)]

-----------------------------------------------------------------------------
(* State.                                                                    *)

\* The first byte of a payload names the message.
Name(p, n) == <<"name", p, n>>
MessageNames == {<<p, n>> : p \in Peers, n \in 1..MaxSent}
Named(payload) == <<payload[1][2], payload[1][3]>>

PayloadOf(p, n) == <<Name(p, n)>> \o Ending[p]
Payloads == {PayloadOf(m[1], m[2]) : m \in MessageNames}
SentBodies == {<<Header(p, t)>> \o p : p \in Payloads, t \in Tunings}
Bytes ==
    {DEL, ESC, DelCode, EscCode} \cup {Name(m[1], m[2]) : m \in MessageNames}
    \cup {b[1] : b \in SentBodies} \cup {Crc(b) : b \in SentBodies}
    \cup (UNION {ToSet(Ending[p]) : p \in Peers})

\* The CRC of a body is no byte of another, and every frame is within the limit
\* (a body and its CRC have 261 bytes at most, 522 if all are escaped, of 600).
ASSUME FrameAssumption ==
    /\ \A p \in Peers :
         /\ Ending[p] \in Seq(ToSet(Ending[p]))
         /\ \A b \in ToSet(Ending[p]) : b[1] # "crc"
    /\ \A b \in SentBodies : Len(Escape(Append(b, Crc(b)))) <= MaxFrame

Uarts ==
    [configured : BOOLEAN, rx : Seq(Bytes), tx : 0..LinkSize, active : BOOLEAN]

RadioInit ==
    /\ radioOn = FALSE /\ config = Default /\ queue = <<>> /\ buffer = <<>>
    /\ uart = [configured |-> FALSE, rx |-> <<>>, tx |-> 0, active |-> FALSE]
    /\ call = [c \in Contexts |-> "code"]
    /\ polled = [c \in Contexts |-> FALSE]
    /\ air = [p \in Peers |-> <<>>] /\ sent = [p \in Peers |-> 0]
    /\ heard = <<>> /\ valid = <<>>
    /\ last = [p \in Peers |-> 0]
    /\ left \in Budgets

Spends(kind) == left[kind] > 0 /\ left' = [left EXCEPT ![kind] = @ - 1]

-----------------------------------------------------------------------------
(* The other boards and the air between.                                     *)

\* A byte that ends arriving: refused by a full queue, not seen by an engine
\* that is not configured.
Received(u, b) ==
    IF u.configured /\ Len(u.rx) < FifoSize THEN [u EXCEPT !.rx = Append(@, b)] ELSE u

PeerSends(p) ==
    /\ p \in left.talkers /\ air[p] = <<>> /\ Spends("messages")
    /\ sent' = [sent EXCEPT ![p] = @ + 1]
    /\ \E t \in Tunings :
         air' = [air EXCEPT ![p] = Frame(PayloadOf(p, sent[p] + 1), t)]
    /\ UNCHANGED <<module, uart, program, radioHistory>>

Arrives(p) ==
    /\ air[p] # <<>>
    /\ air' = [air EXCEPT ![p] = Tail(@)]
    /\ uart' = Received(uart, Head(air[p]))
    /\ UNCHANGED <<module, program, sent, radioHistory, left>>

LostOnAir(p) ==
    /\ air[p] # <<>> /\ Spends("lost")
    /\ air' = [air EXCEPT ![p] = Tail(@)]
    /\ UNCHANGED <<module, uart, program, sent, radioHistory>>

\* A collision that ends in the middle of a frame makes a byte of its rest.
Noise ==
    /\ Spends("noise")
    /\ \E b \in {DEL, ESC} : uart' = Received(uart, b)
    /\ UNCHANGED <<module, program, peers, radioHistory>>

\* The frame in progress on the link to the modem ends; the next one starts.
LinkAdvances ==
    /\ uart.active
    /\ uart' = IF uart.tx > 0 THEN [uart EXCEPT !.tx = @ - 1]
                              ELSE [uart EXCEPT !.active = FALSE]
    /\ UNCHANGED <<module, program, peers, radioHistory, left>>

-----------------------------------------------------------------------------
(* Calls.  A context runs from the start of a call to the native that waits, *)
(* and from its return to the next one.  A callback is called while the main *)
(* program waits in a native, which does not return before the callback.     *)

CanRun(c) ==
    IF c = "main" THEN call["callback"] = "code" ELSE call["main"] \in Waits

Starts(c, kind) == call[c] = "code" /\ CanRun(c) /\ Spends(kind)

Returns(c, native) ==
    /\ call[c] = native /\ CanRun(c)
    /\ UNCHANGED left

Goes(c, label) == call' = [call EXCEPT ![c] = label]

\* radio.on()
OnCalled(c) ==
    /\ Starts(c, "switches")
    /\ uart' = [uart EXCEPT !.configured = TRUE, !.rx = <<>>, !.tx = 0, !.active = FALSE]
    /\ Goes(c, "uart_init")
    /\ UNCHANGED <<module, polled, peers, radioHistory>>

Forgets == queue' = <<>> /\ buffer' = <<>>

OnInitialised(c) ==
    /\ Returns(c, "uart_init")
    /\ Forgets /\ radioOn' = TRUE
    /\ heard' = <<>> /\ valid' = <<>>
    /\ Goes(c, "settle")
    /\ UNCHANGED <<config, uart, polled, peers, last>>

OnReturns(c) ==
    /\ Returns(c, "settle")
    /\ Goes(c, "code")
    /\ UNCHANGED <<module, uart, polled, peers, radioHistory>>

\* radio.off(): the queues of the engine keep what they hold.
OffCalled(c) ==
    /\ Starts(c, "switches")
    /\ radioOn' = FALSE
    /\ uart' = [uart EXCEPT !.configured = FALSE, !.active = FALSE]
    /\ Goes(c, "uart_deinit")
    /\ UNCHANGED <<config, queue, buffer, polled, peers, radioHistory>>

\* Its last line assigns a local variable: the queue stays as it is.
OffReturns(c) ==
    /\ Returns(c, "uart_deinit")
    /\ Goes(c, "code")
    /\ UNCHANGED <<module, uart, polled, peers, radioHistory>>

\* radio.config(): does not wait.
Configures(c) ==
    /\ Starts(c, "switches")
    /\ config' \in Configs \ {config}
    /\ UNCHANGED <<radioOn, queue, buffer, uart, program, peers, radioHistory>>

TakenLast(q) ==                                                        \* mutant
    /\ queue' = (IF q = <<>> THEN q ELSE Front(q))
    /\ last' = IF q = <<>> THEN last
               ELSE [last EXCEPT ![Named(Last(q))[1]] = Named(Last(q))[2]]
\* radio.receive() and its variants: the bytes that have come, then a message.
\* (receive_bytes_into takes the message before it looks at its size.)
Taken(q) ==
    /\ queue' = (IF q = <<>> THEN q ELSE Tail(q))
    /\ last' = IF q = <<>> THEN last
               ELSE [last EXCEPT ![Named(Head(q))[1]] = Named(Head(q))[2]]

ReceivesOff(c) ==
    /\ Starts(c, "reads") /\ ~radioOn
    /\ Taken(queue)
    /\ UNCHANGED <<radioOn, config, buffer, uart, program, peers, heard, valid>>

ReceiveCalled(c) ==
    /\ Starts(c, "reads") /\ radioOn
    /\ Goes(c, "uart_read")
    /\ UNCHANGED <<module, uart, polled, peers, radioHistory>>

ReceiveReturns(c) ==
    LET drained == Drain(buffer \o uart.rx)
    IN /\ Returns(c, "uart_read")
       /\ buffer' = Cut(drained.rest)
       /\ Taken(drained.queue)
       /\ uart' = [uart EXCEPT !.rx = <<>>]
       /\ heard' = heard \o uart.rx /\ valid' = valid \o drained.found
       /\ Goes(c, "code")
       /\ UNCHANGED <<radioOn, config, polled, peers>>

BusyForever == uart.active \/ uart.tx > 0                               \* mutant
\* radio.send(): the frame goes to the queue of the engine, as much of it as
\* there is room for; then the program asks until the engine is idle.
Busy == uart.configured /\ (uart.active \/ uart.tx > 0)

Truncated(n) == IF n > config.length THEN config.length ELSE n

Written(frame) == IF uart.tx + frame > LinkSize THEN LinkSize - uart.tx ELSE frame

Kicked(u) ==
    IF ~u.active /\ u.tx > 0 THEN [u EXCEPT !.active = TRUE, !.tx = @ - 1] ELSE u

SendCalled(c) ==
    \E n \in Sizes :
      LET frame == Overhead + Truncated(n)
      IN /\ Starts(c, "sends") /\ radioOn /\ uart.configured
         /\ uart' = Kicked([uart EXCEPT !.tx = @ + Written(frame)])
         /\ Goes(c, "uart_write")
         /\ UNCHANGED <<module, polled, peers, radioHistory>>

SendPolls(c) ==
    /\ \/ Returns(c, "uart_write")
       \/ Returns(c, "tx_busy") /\ polled[c]
    /\ polled' = [polled EXCEPT ![c] = Busy]
    /\ Goes(c, "tx_busy")
    /\ UNCHANGED <<module, uart, peers, radioHistory>>

SendReturns(c) ==
    /\ Returns(c, "tx_busy") /\ ~polled[c]
    /\ Goes(c, "code")
    /\ UNCHANGED <<module, uart, polled, peers, radioHistory>>

CallStep(c) ==
    \/ OnInitialised(c) \/ OnReturns(c) \/ OffReturns(c) \/ ReceiveReturns(c)
    \/ SendPolls(c) \/ SendReturns(c)

Calls(c) ==
    \/ OnCalled(c) \/ OffCalled(c) \/ Configures(c) \/ ReceivesOff(c)
    \/ ReceiveCalled(c) \/ SendCalled(c)

RadioNext ==
    \/ \E p \in Peers : PeerSends(p) \/ Arrives(p) \/ LostOnAir(p)
    \/ Noise \/ LinkAdvances
    \/ \E c \in Contexts : Calls(c) \/ CallStep(c)

\* The loop of send() goes round.
Spins(c) == call[c] = "tx_busy" /\ polled[c] /\ Busy

\* The engine of the link goes on and a native that waits returns: the second
\* half is WF_radioVars(CallStep(c)), with its ENABLED written out.
RadioFairness ==
    /\ WF_radioVars(LinkAdvances)
    /\ \A c \in Contexts :
         \/ []<>(call[c] = "code" \/ ~CanRun(c) \/ Spins(c))
         \/ []<><<CallStep(c)>>_radioVars

RadioSpec == RadioInit /\ [][RadioNext]_radioVars /\ RadioFairness

-----------------------------------------------------------------------------
(* Properties.                                                               *)

\* The variables keep their types; what is queued was sent by a peer.
RadioTypeOK ==
    /\ radioOn \in BOOLEAN /\ config \in Configs
    /\ queue \in Seq(Payloads) /\ buffer \in Seq(Bytes)
    /\ uart \in Uarts /\ Len(uart.rx) <= FifoSize
    /\ call \in [Contexts -> Waits \cup {"code"}]
    /\ polled \in [Contexts -> BOOLEAN]
    /\ air \in [Peers -> Seq(Bytes)] /\ sent \in [Peers -> 0..MaxSent]
    /\ last \in [Peers -> 0..MaxSent]

\* A piece of the stream: the bytes from j to k, between two delimiters (or from
\* its start to the first).
Delimiters(stream) == {i \in DOMAIN stream : stream[i] = DEL}
Pieces(stream) ==
    {p \in (Delimiters(stream) \cup {0}) \X Delimiters(stream) :
       p[1] < p[2] /\ \A i \in Delimiters(stream) : ~(p[1] < i /\ i < p[2])}

\* Whatever was lost, added or mixed on the way, and wherever the stream was
\* cut by the calls of the program: a frame that the whole stream holds between
\* two delimiters is found (_radio_drain: "le delimiteur suivant resynchronise"),
\* in its order, once; and what is found ends such a piece of the stream (the
\* limit on a candidate takes away what precedes).
WholeStream ==
    /\ \A i, j \in DOMAIN valid : i < j => valid[i].at < valid[j].at
    /\ \A p \in Pieces(heard) :
         LET piece == SubSeq(heard, p[1] + 1, p[2] - 1)
         IN IsFrame(piece) => \E i \in DOMAIN valid : valid[i] = [body |-> Body(piece), at |-> p[2]]
    /\ \A i \in DOMAIN valid :
         \E p \in Pieces(heard) : \E n \in (p[1] + 1)..(p[2] - 1) :
           LET end == SubSeq(heard, n, p[2] - 1)
           IN IsFrame(end) /\ valid[i] = [body |-> Body(end), at |-> p[2]]

\* The messages of a peer are taken in the order it sent them, none twice,
\* also when a callback takes some in the middle of a call of the program.
KeepsOrder ==
    \A i \in DOMAIN queue :
      LET m == Named(queue[i])
      IN /\ last[m[1]] < m[2]
         /\ \A j \in 1..(i - 1) : Named(queue[j])[1] = m[1] => Named(queue[j])[2] < m[2]

\* radio.send() returns, also when a callback turns the radio off or sends in
\* its middle (its loop asks uart_tx_busy until the engine is idle).
SendEnds == \A c \in Contexts : call[c] = "tx_busy" ~> call[c] # "tx_busy"
=============================================================================
