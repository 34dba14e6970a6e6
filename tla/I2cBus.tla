------------------------------- MODULE I2cBus -------------------------------
(***************************************************************************)
(* An I2C bus: the master of machine.I2C (pyruntime_i2c.c), which runs a   *)
(* transaction by quarters of a clock period, the targets (i2ctarget.c),   *)
(* which follow the edges of the two lines, the lines, which a part pulls  *)
(* low or releases, and the program that waits for the end of its transfer *)
(* while its callbacks run.                                                *)
(*                                                                         *)
(* Between two actions of the master the lines settle: with the pull-ups   *)
(* of a real bus this takes less than a quarter.  Something else on the    *)
(* bus may hold a line low: that is how a line that does not rise in time  *)
(* is modelled.  A byte is the row of its bits, the first on the wire      *)
(* first; an address byte is an address and the direction.                 *)
(***************************************************************************)
EXTENDS Naturals, Sequences

CONSTANTS
    ByteBits,   \* bits of a byte (8)
    Targets,    \* the targets on the bus
    Listens,    \* the addresses each answers to
    Requests,   \* transactions the program may ask for
    Answers,    \* bytes a target may send
    MaxXfers,   \* bound: transactions
    MaxInits,   \* bound: calls of init
    MaxFaults,  \* bound: times another part takes or leaves a line
    MaxDepth    \* bound: waits nested in callbacks

Lines == {"scl", "sda"}
Bytes == [1..ByteBits -> BOOLEAN]
Addresses == [1..(ByteBits - 1) -> BOOLEAN]
Zero == [i \in 1..ByteBits |-> FALSE]
Defer == <<>>   \* I2CT_DEFER: the byte is not there yet

ASSUME I2cBusAssumption ==
    /\ ByteBits \in Nat \ {0, 1}
    /\ Listens \in [Targets -> SUBSET Addresses]
    /\ Requests # {}
    /\ Requests \subseteq [addr : Addresses, hasWrite : BOOLEAN, write : Seq(Bytes),
                           nread : Nat, stop : BOOLEAN]
    /\ \A r \in Requests : ~r.hasWrite => r.nread > 0 /\ r.write = <<>>
    /\ Answers \subseteq Bytes
    /\ MaxXfers \in Nat /\ MaxInits \in Nat /\ MaxFaults \in Nat /\ MaxDepth \in Nat

VARIABLES
    line,      \* level of each line, TRUE is high
    other,     \* lines that something else holds low
    m,         \* the master
    target,    \* the targets
    doneWake,  \* i2c_done_wake
    phase,     \* of the worker: "code" or "parked"
    stack,     \* its waits: [kind : {"xfer", "sleep"}, genuine : BOOLEAN]
    bounds,    \* what the bounds count
    \* History of the last transaction, the bytes since its first START.
    clean,     \* nothing disturbed it
    taken,     \* bytes each target acknowledged
    given      \* bytes each target sent

bus == <<line, other, target>>
worker == <<doneWake, phase, stack>>
history == <<clean, taken, given>>
vars == <<bus, m, worker, bounds, history>>

Phases ==
    {"IDLE", "START_CHECK", "START_SCL_LOW", "RS_SDA_RELEASE", "RS_SCL_RELEASE",
     "BIT_SET", "BIT_SCL_HIGH", "BIT_SAMPLE", "BIT_SCL_LOW", "STOP_SDA_LOW",
     "STOP_SCL_RELEASE", "STOP_SDA_RELEASE", "FINISH"}

\* second: the segment of reading (segment == 1); index: 0 for the address
\* byte, then the number of the data byte.
Masters ==
    [configured : BOOLEAN, busy : BOOLEAN, done : BOOLEAN, phase : Phases,
     held : BOOLEAN, req : Requests, second : BOOLEAN, index : Nat, cur : Bytes,
     bit : 0..ByteBits, rx : BOOLEAN, ack : BOOLEAN, acks : Nat, rbuf : Seq(Bytes),
     error : {"none", "EIO", "ETIMEDOUT"}, pulls : SUBSET Lines]

TargetStates ==
    [known : BOOLEAN, scl : BOOLEAN, sda : BOOLEAN,
     state : {"IDLE", "ADDR", "WRITE", "READ", "WAIT"}, nbits : 0..(ByteBits + 1),
     shift : UNION {[1..n -> BOOLEAN] : n \in 0..ByteBits}, low : BOOLEAN,
     wbuf : Seq(Bytes), writeOpen : BOOLEAN, cur : Bytes, masterAck : BOOLEAN,
     readOpen : BOOLEAN, deferred : BOOLEAN]

Waits == [kind : {"xfer", "sleep"}, genuine : BOOLEAN]

TypeOK ==
    /\ line \in [Lines -> BOOLEAN] /\ other \subseteq Lines
    /\ m \in Masters
    /\ target \in [Targets -> TargetStates]
    /\ doneWake \in BOOLEAN /\ phase \in {"code", "parked"}
    /\ stack \in Seq(Waits)
    /\ phase = "parked" => stack # <<>>
    /\ bounds \in [xfers : Nat, inits : Nat, faults : Nat]
    /\ clean \in BOOLEAN
    /\ taken \in [Targets -> Seq(Bytes)] /\ given \in [Targets -> Seq(Bytes)]

\* A master that was just set to zero (memset).
Fresh(req) ==
    [configured |-> FALSE, busy |-> FALSE, done |-> FALSE, phase |-> "IDLE",
     held |-> FALSE, req |-> req, second |-> FALSE, index |-> 0, cur |-> Zero, bit |-> 0,
     rx |-> FALSE, ack |-> FALSE, acks |-> 0, rbuf |-> <<>>, error |-> "none",
     pulls |-> {}]

Init ==
    /\ line = [l \in Lines |-> FALSE] /\ other = {}
    /\ \E r \in Requests : m = Fresh(r)
    /\ target = [k \in Targets |->
           [known |-> FALSE, scl |-> FALSE, sda |-> FALSE, state |-> "IDLE", nbits |-> 0,
            shift |-> <<>>, low |-> FALSE, wbuf |-> <<>>, writeOpen |-> FALSE,
            cur |-> Zero, masterAck |-> FALSE, readOpen |-> FALSE, deferred |-> FALSE]]
    /\ doneWake = FALSE /\ phase = "code" /\ stack = <<>>
    /\ bounds = [xfers |-> 0, inits |-> 0, faults |-> 0]
    /\ clean = FALSE
    /\ taken = [k \in Targets |-> <<>>] /\ given = [k \in Targets |-> <<>>]

-----------------------------------------------------------------------------
(* The lines: open drain, pulled up.                                        *)

Wired == [l \in Lines |->
    /\ l \notin m.pulls \cup other
    /\ l = "sda" => \A k \in Targets : ~target[k].low]

Seen(k) ==
    target[k].known /\ target[k].scl = line["scl"] /\ target[k].sda = line["sda"]

\* No event is left to handle at this instant, of any target.
Handled == \A k \in Targets : Seen(k) /\ ~target[k].deferred
Settled == line = Wired /\ Handled

\* Modelica goes on while the program waits, never while it runs.
Running == phase = "parked"

\* One line crosses its threshold, or two at once.
Settle ==
    /\ Running /\ Handled
    /\ \E moving \in SUBSET {l \in Lines : line[l] # Wired[l]} :
         /\ moving # {}
         /\ line' = [l \in Lines |-> IF l \in moving THEN Wired[l] ELSE line[l]]
    /\ UNCHANGED <<other, target, m, worker, bounds, history>>

\* Another part takes a line or leaves it during a transaction.  (What it did
\* before is seen by the check of the lines, the first action.)
Foreign(held) ==
    /\ Running /\ Settled /\ m.busy /\ bounds.faults < MaxFaults
    /\ held # other /\ other' = held
    /\ bounds' = [bounds EXCEPT !.faults = @ + 1]
    /\ clean' = FALSE
    /\ UNCHANGED <<line, target, m, worker, taken, given>>

-----------------------------------------------------------------------------
(* A target, t.                                                             *)

\* The phase in progress is closed, and handed to the host.
ClosedReading(t) == [t EXCEPT !.readOpen = FALSE, !.deferred = FALSE]   \* mutant
Closed(t) == [t EXCEPT !.writeOpen = FALSE, !.wbuf = <<>>, !.readOpen = FALSE,
                       !.deferred = FALSE]

OnStart(t) ==
    [Closed(t) EXCEPT !.state = "ADDR", !.nbits = 0, !.shift = <<>>, !.low = FALSE]
OnStop(t) == [Closed(t) EXCEPT !.state = "IDLE", !.low = FALSE]

\* A pulse is counted when the clock rises: a bit is read, or the acknowledge
\* of the master.
OnRise(t, sda) ==
    IF t.state \in {"IDLE", "WAIT"} THEN t
    ELSE [t EXCEPT
            !.nbits = @ + 1,
            !.shift = IF t.state # "READ" /\ t.nbits < ByteBits THEN Append(@, sda) ELSE @,
            !.masterAck = IF t.state = "READ" /\ t.nbits = ByteBits THEN ~sda ELSE @]

DriveBit(t) == [t EXCEPT !.low = ~t.cur[t.nbits + 1]]
TakeByte(t, b) == DriveBit([t EXCEPT !.cur = b])
LoadReadByte(t, b) ==
    IF b = Defer THEN [t EXCEPT !.deferred = TRUE, !.low = FALSE] ELSE TakeByte(t, b)

\* Eight bits passed: the place of the acknowledge.
Acknowledge(k, t) ==
    CASE t.state = "ADDR" ->
           IF SubSeq(t.shift, 1, ByteBits - 1) \in Listens[k]
           THEN [t EXCEPT !.low = TRUE]
           ELSE [t EXCEPT !.state = "WAIT", !.low = FALSE]
      [] t.state = "WRITE" -> [t EXCEPT !.wbuf = Append(@, t.shift), !.low = TRUE]
      [] OTHER -> [t EXCEPT !.low = FALSE]

NextByteGoesOn(t, b) ==                                               \* mutant
    IF t.state = "READ" THEN LoadReadByte(t, b) ELSE [t EXCEPT !.low = FALSE]
\* The acknowledge passed: the next byte.
NextByte(t, b) ==
    LET r == [t EXCEPT !.nbits = 0, !.shift = <<>>]
    IN  CASE t.state = "ADDR" /\ t.shift[ByteBits] ->
               LoadReadByte([r EXCEPT !.state = "READ", !.readOpen = TRUE], b)
          [] t.state = "ADDR" /\ ~t.shift[ByteBits] ->
               [r EXCEPT !.state = "WRITE", !.writeOpen = TRUE, !.wbuf = <<>>,
                         !.low = FALSE]
          [] t.state = "READ" /\ t.masterAck -> LoadReadByte(r, b)
          [] t.state = "READ" /\ ~t.masterAck ->
               [Closed(r) EXCEPT !.state = "WAIT", !.low = FALSE]
          [] OTHER -> [r EXCEPT !.low = FALSE]

\* When the clock falls the target puts its next bit on SDA.
OnFall(k, t, b) ==
    CASE t.state \in {"IDLE", "WAIT"} -> [t EXCEPT !.low = FALSE]
      [] t.state \notin {"IDLE", "WAIT"} /\ t.nbits = ByteBits -> Acknowledge(k, t)
      [] t.state \notin {"IDLE", "WAIT"} /\ t.nbits = ByteBits + 1 -> NextByte(t, b)
      [] OTHER -> IF t.state = "READ" /\ t.nbits # 0 THEN DriveBit(t) ELSE t

Levels(t) == [t EXCEPT !.known = TRUE, !.scl = line["scl"], !.sda = line["sda"]]

\* The levels against those of the last call: an edge of the clock hides one
\* of SDA; an edge of SDA counts while the clock is high.
Synced(k, t, b) ==
    CASE ~t.known -> Levels(t)
      [] t.known /\ line["scl"] # t.scl ->
             IF line["scl"] THEN OnRise(Levels(t), line["sda"])
                            ELSE OnFall(k, Levels(t), b)
      [] OTHER ->
             IF ~line["scl"] THEN Levels(t)
             ELSE IF line["sda"] THEN OnStop(Levels(t)) ELSE OnStart(Levels(t))

\* The fall of the clock that asks the host for a byte.
Loads(k) ==
    LET t == target[k]
    IN  /\ t.known /\ t.scl /\ ~line["scl"] /\ t.nbits = ByteBits + 1
        /\ \/ t.state = "ADDR" /\ t.shift[ByteBits]
           \/ t.state = "READ" /\ t.masterAck

\* The targets are synchronised at an edge; b is what the hosts that are
\* asked for a byte answer.
TargetsSync(b) ==
    LET u(k) == Synced(k, target[k], b[k])
        accepts(k) == u(k).state = "WRITE" /\ u(k).low /\ ~target[k].low
    IN  /\ Running /\ \E k \in Targets : ~Seen(k)
        /\ \A k \in Targets : ~Loads(k) => b[k] = Defer
        /\ target' = [k \in Targets |-> IF Seen(k) THEN target[k] ELSE u(k)]
        /\ taken' = [k \in Targets |->
               IF accepts(k) THEN Append(taken[k], target[k].shift) ELSE taken[k]]
        /\ given' = [k \in Targets |->
               IF b[k] # Defer THEN Append(given[k], b[k]) ELSE given[k]]
        /\ UNCHANGED <<line, other, m, worker, bounds, clean>>

\* The program of the host had its turn: it gives the byte (i2ct_resume).
Resume(k, b) ==
    /\ Running /\ target[k].deferred
    /\ target' = [target EXCEPT ![k] = TakeByte([@ EXCEPT !.deferred = FALSE], b)]
    /\ given' = [given EXCEPT ![k] = Append(@, b)]
    /\ UNCHANGED <<line, other, m, worker, bounds, clean, taken>>

-----------------------------------------------------------------------------
(* The master, a quarter of a period after its last action.  Each operator  *)
(* gives the master that an action leaves.                                   *)

Drive(l, low) == [m EXCEPT !.pulls = IF low THEN @ \cup {l} ELSE @ \ {l}]
Then(n, next) == [n EXCEPT !.phase = next]

Completed(n, error) ==
    [n EXCEPT !.error = IF error # "none" /\ @ = "none" THEN error ELSE @,
              !.busy = FALSE, !.done = TRUE, !.phase = "IDLE"]
AbortedHolding(n, error) == Completed([n EXCEPT !.held = FALSE], error) \* mutant
Aborted(n, error) == Completed([n EXCEPT !.pulls = {}, !.held = FALSE], error)

StartCheck ==
    IF line["scl"] /\ line["sda"] THEN Then(Drive("sda", TRUE), "START_SCL_LOW")
                                  ELSE Aborted(m, "ETIMEDOUT")
StartSclLow == Then([Drive("scl", TRUE) EXCEPT !.bit = 0], "BIT_SET")
RsSdaRelease == Then(Drive("sda", FALSE), "RS_SCL_RELEASE")
RsSclRelease == Then(Drive("scl", FALSE), "START_CHECK")

\* A bit of data pulls SDA or not; the acknowledge of a byte read is given
\* except after the last one.
BitSet ==
    LET low == IF m.bit < ByteBits THEN ~m.rx /\ ~m.cur[m.bit + 1]
                                   ELSE m.rx /\ m.index < m.req.nread
    IN  Then(Drive("sda", low), "BIT_SCL_HIGH")
BitSclHigh == Then(Drive("scl", FALSE), "BIT_SAMPLE")

SampledLastBitLost ==                                                 \* mutant
    CASE m.bit < ByteBits - 1 /\ m.rx -> [m EXCEPT !.cur[m.bit + 1] = line["sda"]]
      [] m.bit = ByteBits /\ ~m.rx     -> [m EXCEPT !.ack = ~line["sda"]]
      [] OTHER -> m
Sampled ==
    CASE m.bit < ByteBits /\ m.rx  -> [m EXCEPT !.cur[m.bit + 1] = line["sda"]]
      [] m.bit = ByteBits /\ ~m.rx -> [m EXCEPT !.ack = ~line["sda"]]
      [] OTHER -> m
BitSample ==
    IF line["scl"] THEN Then(Sampled, "BIT_SCL_LOW") ELSE Aborted(m, "ETIMEDOUT")

AddressByte(addr, read) == [i \in 1..ByteBits |-> IF i < ByteBits THEN addr[i] ELSE read]

\* After a byte, n: the next of the segment, the segment of reading behind a
\* repeated START, the STOP, or nothing: the bus is kept.
End(n) == IF n.req.stop THEN Then(n, "STOP_SDA_LOW")
                        ELSE Completed([n EXCEPT !.held = TRUE], "none")
LoadNextSame(n) ==                                                    \* mutant
    IF n.index < Len(n.req.write) THEN Then([n EXCEPT !.bit = 0, !.rx = FALSE], "BIT_SET")
                                  ELSE End(n)
LoadNext(n) ==
    LET r == [n EXCEPT !.bit = 0, !.index = @ + 1]
        writing == ~n.second /\ n.req.hasWrite
    IN  CASE writing /\ r.index <= Len(n.req.write) ->
               Then([r EXCEPT !.cur = n.req.write[r.index], !.rx = FALSE], "BIT_SET")
          [] writing /\ r.index > Len(n.req.write) /\ n.req.nread > 0 ->
               Then([r EXCEPT !.second = TRUE, !.index = 0, !.rx = FALSE,
                              !.cur = AddressByte(n.req.addr, TRUE)], "RS_SDA_RELEASE")
          [] ~writing /\ r.index <= n.req.nread ->
               Then([r EXCEPT !.cur = Zero, !.rx = TRUE], "BIT_SET")
          [] OTHER -> End(r)

\* The byte is over when its acknowledge is.  A refusal is an error on the
\* address only, and the STOP comes at once.
ByteOver(n) ==
    CASE n.rx -> LoadNext([n EXCEPT !.rbuf = Append(@, n.cur)])
      [] ~n.rx /\ ~n.ack ->
           Then([n EXCEPT !.error = IF n.index = 0 THEN "EIO" ELSE @], "STOP_SDA_LOW")
      [] OTHER -> LoadNext([n EXCEPT !.acks = IF n.index > 0 THEN @ + 1 ELSE @])
BitSclKept ==                                                         \* mutant
    IF m.bit < ByteBits THEN Then([m EXCEPT !.bit = @ + 1], "BIT_SET") ELSE ByteOver(m)
BitSclLow ==
    LET n == Drive("scl", TRUE)
    IN  IF m.bit < ByteBits THEN Then([n EXCEPT !.bit = @ + 1], "BIT_SET") ELSE ByteOver(n)

StopSdaLow == Then(Drive("sda", TRUE), "STOP_SCL_RELEASE")
StopSclRelease == Then(Drive("scl", FALSE), "STOP_SDA_RELEASE")
StopSdaRelease == Then([Drive("sda", FALSE) EXCEPT !.held = FALSE], "FINISH")
Finish == Completed(m, "none")

\* i2c_act, called from a synchronisation; the end wakes the program.
Act(p, n) ==
    /\ Running /\ Settled
    /\ m.configured /\ m.busy /\ m.phase = p
    /\ m' = n
    /\ doneWake' = (doneWake \/ (n.done /\ ~n.busy))
    /\ IF p = "START_CHECK" /\ m.second = ~m.req.hasWrite
       THEN /\ taken' = [k \in Targets |-> <<>>]
            /\ given' = [k \in Targets |-> <<>>]
       ELSE UNCHANGED <<taken, given>>
    /\ UNCHANGED <<bus, phase, stack, bounds, clean>>

Master ==
    \/ Act("START_CHECK", StartCheck)
    \/ Act("START_SCL_LOW", StartSclLow)
    \/ Act("RS_SDA_RELEASE", RsSdaRelease)
    \/ Act("RS_SCL_RELEASE", RsSclRelease)
    \/ Act("BIT_SET", BitSet)
    \/ Act("BIT_SCL_HIGH", BitSclHigh)
    \/ Act("BIT_SAMPLE", BitSample)
    \/ Act("BIT_SCL_LOW", BitSclLow)
    \/ Act("STOP_SDA_LOW", StopSdaLow)
    \/ Act("STOP_SCL_RELEASE", StopSclRelease)
    \/ Act("STOP_SDA_RELEASE", StopSdaRelease)
    \/ Act("FINISH", Finish)

-----------------------------------------------------------------------------
(* The program.  It runs between two waits; a wait runs the callbacks that  *)
(* are due each time it wakes, and a callback may wait in its turn.          *)

Top == stack[Len(stack)]
Below == SubSeq(stack, 1, Len(stack) - 1)

Park(kind) ==
    /\ Len(stack) < MaxDepth
    /\ stack' = Append(stack, [kind |-> kind, genuine |-> FALSE])
    /\ phase' = "parked"

Requested(req) ==
    [m EXCEPT !.req = req, !.second = ~req.hasWrite, !.index = 0,
              !.cur = AddressByte(req.addr, ~req.hasWrite), !.bit = 0, !.rx = FALSE,
              !.ack = FALSE, !.rbuf = <<>>, !.acks = 0, !.error = "none",
              !.done = FALSE, !.busy = TRUE, !.held = FALSE,
              !.phase = IF m.held THEN "RS_SDA_RELEASE" ELSE "START_CHECK"]

\* A transaction is asked for.  While another one is in progress the call
\* fails (EBUSY) and changes nothing.
Xfer(req) ==
    /\ phase = "code" /\ m.configured /\ ~m.busy
    /\ bounds.xfers < MaxXfers
    /\ bounds' = [bounds EXCEPT !.xfers = @ + 1]
    /\ m' = Requested(req)
    /\ doneWake' = FALSE
    /\ Park("xfer")
    /\ clean' = (other = {})
    /\ UNCHANGED <<bus, taken, given>>

\* Any wait that is not for the bus, for an instant or for long.
Sleep ==
    /\ phase = "code" /\ Park("sleep")
    /\ UNCHANGED <<bus, m, doneWake, bounds, history>>

\* A synchronisation gives the worker its turn: for the end of a transaction,
\* for something the wait asked for (an instant, an input), or for callbacks
\* that are due.  What the wait is worth is settled before they run.
Genuine(asked) == doneWake \/ asked
Wake(asked) ==
    /\ phase = "parked"
    /\ stack' = [stack EXCEPT ![Len(stack)].genuine = Genuine(asked)]
    /\ phase' = "code"
    /\ UNCHANGED <<bus, m, doneWake, bounds, history>>

\* The callbacks, if there were any, are over.  The wait goes on: this was a
\* mere pitstop, or the transaction is not over.
WaitAgain ==
    /\ phase = "code" /\ stack # <<>>
    /\ ~Top.genuine \/ (Top.kind = "xfer" /\ ~m.done)
    /\ phase' = "parked"
    /\ stack' = [stack EXCEPT ![Len(stack)].genuine = FALSE]
    /\ UNCHANGED <<bus, m, doneWake, bounds, history>>

Returns(kind) ==
    /\ phase = "code" /\ stack # <<>> /\ Top.kind = kind
    /\ stack' = Below /\ UNCHANGED phase

SleepReturns ==
    /\ Returns("sleep") /\ Top.genuine
    /\ UNCHANGED <<bus, m, doneWake, bounds, history>>

XferReturns ==
    /\ Returns("xfer") /\ Top.genuine /\ m.done
    /\ doneWake' = FALSE
    /\ UNCHANGED <<bus, m, bounds, history>>

\* A callback raises: the wait it ran in fails, and the exception goes on in
\* the code that waited.
SleepRaises ==
    /\ Returns("sleep")
    /\ UNCHANGED <<bus, m, doneWake, bounds, history>>

\* The transaction is given up.  (Without a configuration i2c_abort drives
\* pin -1, outside the arrays: what that changes is not in the model.)
XferRaises ==
    /\ Returns("xfer")
    /\ m' = Aborted(m, "EIO")
    /\ doneWake' = FALSE
    /\ clean' = FALSE
    /\ UNCHANGED <<bus, bounds, taken, given>>

Reset(configured) ==
    /\ phase = "code"
    /\ m' = [Fresh(m.req) EXCEPT !.configured = configured]
    /\ Park("sleep")
    /\ UNCHANGED <<bus, doneWake, history>>

I2cInit ==
    /\ ~m.busy /\ bounds.inits < MaxInits
    /\ Reset(TRUE)
    /\ bounds' = [bounds EXCEPT !.inits = @ + 1]
\* Not refused during a transaction.
I2cDeinit == m.configured /\ Reset(FALSE) /\ UNCHANGED bounds

Worker ==
    \/ \E r \in Requests : Xfer(r)
    \/ Sleep
    \/ \E asked \in BOOLEAN : Wake(asked)
    \/ WaitAgain
    \/ SleepReturns
    \/ XferReturns
    \/ SleepRaises
    \/ XferRaises
    \/ I2cInit
    \/ I2cDeinit

Bus ==
    \/ Settle
    \/ \E held \in {{}} \cup {{l} : l \in Lines} : Foreign(held)
    \/ \E b \in [Targets -> Answers \cup {Defer}] : TargetsSync(b)
    \/ \E k \in Targets : \E b \in Answers : Resume(k, b)

Next == Master \/ Worker \/ Bus
Spec == Init /\ [][Next]_vars

-----------------------------------------------------------------------------
(* Properties.                                                              *)

Called == {k \in Targets : m.req.addr \in Listens[k]}
Quiet == /\ \A k \in Targets : taken[k] = <<>> /\ given[k] = <<>>
         /\ m.acks = 0 /\ m.rbuf = <<>>

\* Both sides of a transaction nothing disturbed tell the same story when it
\* ends.  It succeeds exactly when some target listens to the address: then
\* all of these took every byte written, what was read is what they gave
\* together, bit by bit, and the others saw nothing.  A line already low at
\* the start makes it fail before a byte is exchanged.
Agreement ==
    m.done /\ clean =>
        CASE m.error = "EIO"       -> Called = {} /\ Quiet
          [] m.error = "ETIMEDOUT" -> Quiet
          [] OTHER ->
               /\ Called # {}
               /\ m.acks = Len(m.req.write) /\ Len(m.rbuf) = m.req.nread
               /\ \A k \in Called :
                      taken[k] = m.req.write /\ Len(given[k]) = m.req.nread
               /\ \A k \in Targets \ Called : taken[k] = <<>> /\ given[k] = <<>>
               /\ \A i \in 1..m.req.nread : \A j \in 1..ByteBits :
                      m.rbuf[i][j] <=> \A k \in Called : given[k][i][j]

\* In such a transaction a target enters the address phase only by the START
\* of the master, and leaves it for rest only by its STOP: no bit of data, no
\* acknowledge and no byte that came late makes a false one.  (Until the
\* check of the lines they may still settle from what came before.)
NoFalseCondition ==
    [][m.busy /\ clean =>
       \A k \in Targets :
           /\ target[k].state # "ADDR" /\ target'[k].state = "ADDR"
                  => m.phase \in {"START_CHECK", "START_SCL_LOW"}
           /\ target[k].state # "IDLE" /\ target'[k].state = "IDLE"
                  => m.phase \in {"START_CHECK", "FINISH"}]_vars

\* The master holds the bus between two transactions exactly when the last
\* one asked for it: whatever ended it, error, exception or deinit.
BusReleased == ~m.busy => (m.held <=> m.pulls # {}) /\ (m.held => "scl" \in m.pulls)

\* After the STOP of such a transaction every target has closed its phases,
\* so that its host was told of them, and leaves the line alone.
PhasesClosed ==
    m.done /\ clean /\ m.error # "ETIMEDOUT" /\ ~m.held /\ Handled =>
        \A k \in Targets :
            LET t == target[k]
            IN  t.state = "IDLE" /\ ~t.low /\ ~t.writeOpen /\ ~t.readOpen

\* What is left of a transaction, at most, in quarters of a period.
BytesLeft ==
    IF m.second THEN m.req.nread - m.index
    ELSE Len(m.req.write) - m.index + (IF m.req.nread > 0 THEN 1 + m.req.nread ELSE 0)
QuartersLeft ==
    LET byte == 4 * (ByteBits + 1)
        after == BytesLeft * (byte + 4) + 4
        inByte(k) == after + byte - 4 * m.bit - k
    IN  CASE m.phase = "RS_SDA_RELEASE"   -> after + byte + 4
          [] m.phase = "RS_SCL_RELEASE"   -> after + byte + 3
          [] m.phase = "START_CHECK"      -> after + byte + 2
          [] m.phase = "START_SCL_LOW"    -> after + byte + 1
          [] m.phase = "BIT_SET"          -> inByte(0)
          [] m.phase = "BIT_SCL_HIGH"     -> inByte(1)
          [] m.phase = "BIT_SAMPLE"       -> inByte(2)
          [] m.phase = "BIT_SCL_LOW"      -> inByte(3)
          [] m.phase = "STOP_SDA_LOW"     -> 4
          [] m.phase = "STOP_SCL_RELEASE" -> 3
          [] m.phase = "STOP_SDA_RELEASE" -> 2
          [] OTHER                        -> 1

\* A transaction is over in a time known from its length, whatever the
\* targets and the lines do: an action of the master waits for nothing, and
\* what is left shrinks with each.
EndsInTime ==
    [][m.busy /\ m'.busy /\ m' # m => QuartersLeft > QuartersLeft' /\ QuartersLeft' > 0]_vars

\* The program that waits for its transaction is woken by its end
\* (docs/fr/interne/i2c.md, i2c_done_wake).
DoneWakes == Running /\ Top.kind = "xfer" /\ m.done => doneWake
=============================================================================
