---------------------------- MODULE SerialDevice ----------------------------
(* A serial device (uartdevice_engine.c): it echoes the bytes it receives,   *)
(* answers each line after a delay and speaks by itself at every period, all *)
(* of it through one queue of its UART engine.  Modelica calls it when the   *)
(* wake it asked for is reached, at the edges of its line, and at any other  *)
(* instant, several times if it likes.  Time is counted in ticks; what a     *)
(* frame is on the wire is the business of UartLink.                         *)
EXTENDS Naturals, Sequences

CONSTANTS
    Settings,   \* parameters of the device: echo, delay, period (0: none)
    Sizes,      \* lengths of what on_line and on_tick give; 0: nothing
    QueueSize,  \* UART_TX_BUF_LEN - 1
    RoomSize,   \* UARTDEV_PAYLOAD_MAX
    Frame,      \* length of a frame
    LastTick    \* bound: time stops there

ASSUME DeviceAssumption ==
    /\ Settings \subseteq [echo : BOOLEAN, delay : Nat, period : Nat]
    /\ Sizes \subseteq Nat /\ 0 \in Sizes /\ {QueueSize, RoomSize, Frame} \subseteq Nat \ {0}
    /\ LastTick \in Nat

VARIABLES
    setting,    \* the parameters of this device
    device,     \* struct UartDevice, see Devices
    wake,       \* ticks until the published nextWakeTime
    toCall,     \* the when fires
    silence,    \* ticks before another byte can be received
    made,       \* history: bytes of each kind that the device has decided to send
    begun,      \* history: the last of each kind whose frame has begun
    cut,        \* history: the kinds that lost bytes for want of room
    tick

deviceVars == <<setting, device, wake, toCall, silence, made, begun, cut, tick>>

\* Bytes are named for what they are sent for.
Kinds == {"echo", "reply", "tick"}
Spoken(kind, n) == [i \in 1..n |-> <<kind, made[kind] + i>>]
Still == <<"nothing", 0>>

DeviceInit ==
    /\ setting \in Settings
    /\ device = [queue |-> <<>>, frame |-> Still, left |-> 0, armed |-> FALSE,
                 pending |-> <<>>, wait |-> 0, next |-> setting.period]
    /\ wake = 0 /\ toCall = TRUE /\ silence = 0
    /\ made = [k \in Kinds |-> 0] /\ begun = made /\ cut = {} /\ tick = 0

-----------------------------------------------------------------------------
(* The UART engine, as far as its queue.                                     *)

Room(d) == QueueSize - Len(d.queue)
Upto(bytes, n) == IF Len(bytes) <= n THEN bytes ELSE SubSeq(bytes, 1, n)

\* uartcore_tx_push of each byte, until one is refused.
Queues(d, bytes) == [d EXCEPT !.queue = @ \o Upto(bytes, Room(d))]

\* uartcore_tx_kick.
Kicks(d) ==
    IF d.frame # Still \/ d.queue = <<>> THEN d
    ELSE [d EXCEPT !.frame = Head(d.queue), !.left = Frame, !.queue = Tail(@)]

\* uartcore_tx_advance.
Advances(d) ==
    IF d.frame = Still \/ d.left > 0 THEN d ELSE Kicks([d EXCEPT !.frame = Still])

-----------------------------------------------------------------------------
(* UartDevice_sync, step by step.                                            *)

\* A second answer within the delay of the first follows it.
ArmsOver(d, reply) ==                                                    \* mutant
    IF reply = <<>> THEN d
    ELSE [d EXCEPT !.armed = TRUE, !.wait = setting.delay, !.pending = Upto(reply, RoomSize)]
Arms(d, reply) ==
    IF reply = <<>> THEN d
    ELSE IF d.armed THEN [d EXCEPT !.pending = Upto(@ \o reply, RoomSize)]
    ELSE [d EXCEPT !.armed = TRUE, !.wait = setting.delay, !.pending = Upto(reply, RoomSize)]

\* 4: a byte received is echoed; the last one of a line may arm an answer.
Hears(d, echo, reply) == Kicks(Arms(Queues(d, echo), reply))

\* 5: the answer whose delay is over leaves.
Answers(d) ==
    IF d.armed /\ d.wait = 0
    THEN [Kicks(Queues(d, d.pending)) EXCEPT !.armed = FALSE, !.pending = <<>>]
    ELSE d

Due(d) == setting.period > 0 /\ d.next = 0
Speaks(d, spoken) ==
    IF Due(d) THEN [Kicks(Queues(d, spoken)) EXCEPT !.next = setting.period] ELSE d

SyncedEarly(d, echo, reply, spoken) ==                                   \* mutant
    Hears(Speaks(Answers(Advances(d)), spoken), echo, reply)
Synced(d, echo, reply, spoken) ==
    Speaks(Answers(Hears(Advances(d), echo, reply)), spoken)

\* 7: the earliest deadline.
Deadlines(d) ==
    (IF d.frame # Still THEN {d.left} ELSE {}) \cup (IF d.armed THEN {d.wait} ELSE {})
        \cup (IF setting.period > 0 THEN {d.next} ELSE {})

\* The kinds of bytes that find no room in this call.
Refused(echo, reply, spoken) ==
    LET heard == Advances(device)
        after == Hears(heard, echo, reply)
        waiting == IF heard.armed THEN Len(heard.pending) ELSE 0
    IN (IF Len(echo) > Room(heard) THEN {"echo"} ELSE {})
       \cup (IF waiting + Len(reply) > RoomSize THEN {"reply"} ELSE {})
       \cup (IF after.armed /\ after.wait = 0 /\ Len(after.pending) > Room(after)
             THEN {"reply"} ELSE {})
       \cup (IF Len(spoken) > Room(Answers(after)) THEN {"tick"} ELSE {})

\* A call, with at most one byte received: of a line, or its terminator.
Called ==
    \E byte \in {"none"} \cup (IF silence = 0 THEN {"char", "end"} ELSE {}),
       answer \in Sizes, says \in Sizes :
        LET echo == Spoken("echo", IF setting.echo /\ byte # "none" THEN 1 ELSE 0)
            reply == Spoken("reply", answer)
            spoken == Spoken("tick", says)
        IN /\ answer > 0 => byte = "end"
           /\ says > 0 => Due(device)
           /\ device' = Synced(device, echo, reply, spoken)
           /\ made' = [made EXCEPT !["echo"] = @ + Len(echo), !["reply"] = @ + answer,
                                   !["tick"] = @ + says]
           /\ begun' = IF device'.frame \in {device.frame, Still} THEN begun
                       ELSE [begun EXCEPT ![device'.frame[1]] = device'.frame[2]]
           /\ cut' = cut \cup Refused(echo, reply, spoken)
           /\ silence' = IF byte = "none" THEN silence ELSE Frame
           /\ wake' = IF Deadlines(device') = {} THEN 0
                      ELSE CHOOSE t \in Deadlines(device') : \A u \in Deadlines(device') : t <= u
           /\ toCall' = FALSE /\ UNCHANGED <<setting, tick>>

Before(n) == IF n = 0 THEN 0 ELSE n - 1

\* "when time >= pre(nextWakeTime)" fires when it becomes true.
Elapses ==
    /\ ~toCall /\ tick < LastTick /\ tick' = tick + 1
    /\ device' = [device EXCEPT !.left = Before(@), !.wait = Before(@), !.next = Before(@)]
    /\ wake' = Before(wake) /\ toCall' = (wake = 1)
    /\ silence' = Before(silence)
    /\ UNCHANGED <<setting, made, begun, cut>>

DeviceNext == Called \/ Elapses

DeviceSpec == DeviceInit /\ [][DeviceNext]_deviceVars

-----------------------------------------------------------------------------
(* Properties.                                                               *)

Voice == Kinds \X (Nat \ {0})
Devices ==
    [queue : Seq(Voice), frame : Voice \cup {Still}, left : 0..Frame, armed : BOOLEAN,
     pending : Seq(Voice), wait : Nat, next : Nat]

\* The device keeps its types, its queue and its answer their sizes.
DeviceTypeOK ==
    /\ setting \in Settings /\ device \in Devices
    /\ Len(device.queue) <= QueueSize /\ Len(device.pending) <= RoomSize
    /\ wake \in Nat /\ toCall \in BOOLEAN /\ silence \in 0..Frame
    /\ made \in [Kinds -> Nat] /\ begun \in [Kinds -> Nat] /\ cut \subseteq Kinds
    /\ tick \in 0..LastTick

\* "Rappeler la fonction au MEME instant simule ne refait donc rien": whenever no
\* call is due, another one changes nothing.  Nothing is therefore late either:
\* the one wake asked for is enough (UartDevice_sync, uartdev_deadline).
Settled == ~toCall => \A n \in Sizes : Synced(device, <<>>, <<>>, Spoken("tick", n)) = device

\* Bytes of a kind, by their rank: what a sequence holds of them, and that it
\* holds them in order.
Ranks(bytes, kind) == {bytes[i][2] : i \in {j \in DOMAIN bytes : bytes[j][1] = kind}}
Rising(bytes, kind) ==
    \A i, j \in DOMAIN bytes :
      i < j /\ bytes[i][1] = kind /\ bytes[j][1] = kind => bytes[i][2] < bytes[j][2]

\* Each byte is echoed once, each line answered once and each period served
\* once, in their order: of each kind, the bytes that wait follow those that have
\* left, and are all that were made since, unless there was no room for some
\* (uartdev_on_line, uartdev_on_tick, uartdev_arm_response).
EachOnce ==
    \A kind \in Kinds :
        LET waiting == device.queue \o device.pending
            toCome == (begun[kind] + 1)..made[kind]
        IN /\ Rising(waiting, kind) /\ begun[kind] <= made[kind]
           /\ Ranks(waiting, kind) \subseteq toCome
           /\ kind \notin cut => Ranks(waiting, kind) = toCome
=============================================================================
