---------------------------- MODULE I2cTargetSide ----------------------------
(* machine.I2CTarget (pyruntime_i2ctarget.c): what a microcontroller makes of *)
(* the bytes that its target engine hands it - a memory that the controller   *)
(* reads and writes, or two queues and a handler that must answer within the  *)
(* synchronisation.  The bus is seen from the hooks of the engine (edges and  *)
(* acknowledges are I2cBus's); the program runs between them, its callbacks   *)
(* in its waits and in one another.                                           *)
EXTENDS Naturals, Sequences, SequencesExt

CONSTANTS
    Base,       \* values of a byte (256)
    BufMax,     \* I2CT_BUF_MAX
    Setups,     \* cells of mem (0: no memory) and bytes of an address in it
    Triggers,   \* sets of events a handler may be asked for
    Budgets     \* bounds: bytes and phases of the controller, calls of the program

Events == {"match_read", "match_write", "read_req", "write_req", "end_read", "end_write"}
Values == 0..(Base - 1)
High == Base - 1    \* the line is released

ASSUME TargetAssumption ==
    /\ Base \in Nat \ {0} /\ BufMax \in Nat \ {0}
    /\ Setups \subseteq [cells : Nat, width : Nat]
    /\ Triggers \subseteq SUBSET Events
    /\ Budgets \subseteq [bus : Nat, calls : Nat, depth : Nat \ {0}, setup : Setups]

VARIABLES
    side,      \* struct I2cTargetSide
    engine,    \* its engine: open phase, direction, byte going out or owed
    at,        \* "idle", or in a synchronisation: "turn", "finish"
    calls,     \* the program and its callbacks in progress, outermost first
    masked,    \* irq_disabled
    over,      \* script_done
    promised,  \* history: what the program and the controller have agreed on
    budget     \* what is left of the bounds

sideVars == <<side, engine, at, calls, masked, over, promised, budget>>

Off == [on |-> FALSE, width |-> 0, mem |-> <<>>, memaddr |-> 0, seen |-> 0, wrote |-> FALSE,
        rx |-> <<>>, tx |-> <<>>, pos |-> 0, handler |-> FALSE, trigger |-> {},
        pending |-> {}, flags |-> {}]
Silent == [phase |-> "idle", reads |-> FALSE, deferred |-> FALSE, out |-> High]

\* What is promised: the cells, where the next one is ({} when the controller
\* gave half an address), how many bytes of the address were given and their
\* value, the bytes queued, the byte the controller is to read ({} if nothing
\* is said of it), the events not told yet, and whether something kept them
\* from being.
NoPrefix == [bytes |-> 0, value |-> 0]
Nothing == [cells |-> <<>>, next |-> {0}, prefix |-> NoPrefix, queue |-> <<>>, byte |-> {},
            untold |-> {}, held |-> FALSE]

Call(kind, state, due, back) == [kind |-> kind, state |-> state, due |-> due, back |-> back]

TargetInit ==
    /\ side = Off /\ engine = Silent /\ at = "turn"
    /\ calls = <<Call("main", "runs", <<>>, FALSE)>>
    /\ masked = FALSE /\ over = FALSE /\ promised = Nothing
    /\ budget \in Budgets

-----------------------------------------------------------------------------
(* The hooks of the engine.                                                  *)

Flagged(s, event) ==
    IF s.handler /\ event \in s.trigger THEN [s EXCEPT !.pending = @ \cup {event}] ELSE s

CanDefer(s) == s.handler /\ "read_req" \in s.trigger /\ ~over /\ ~masked

Size(s) == Len(s.mem)
Moved(s) == [s EXCEPT !.memaddr = (@ + 1) % Size(s)]

\* Cells are numbered from 0; an address that was cut short may be beyond them,
\* and what is read there is not of the memory.
CellsRead(s) == IF s.memaddr < Size(s) THEN {s.mem[s.memaddr + 1]} ELSE Values

AddrMatch(s, reads) ==
    Flagged(IF reads THEN s ELSE [s EXCEPT !.seen = 0, !.wrote = FALSE],
            IF reads THEN "match_read" ELSE "match_write")

\* A byte of the address.
MemoryAddressed(s, b) ==
    LET n == (IF s.seen = 0 THEN 0 ELSE s.memaddr * Base) + b
    IN [s EXCEPT !.seen = @ + 1,
                 !.memaddr = IF s.seen + 1 = s.width THEN n % Size(s) ELSE n]

WriteByte(s, b) ==
    IF Size(s) = 0
    THEN Flagged(IF Len(s.rx) < BufMax THEN [s EXCEPT !.rx = Append(@, b)] ELSE s, "write_req")
    ELSE IF s.seen < s.width THEN MemoryAddressed(s, b)
    ELSE Moved([s EXCEPT !.mem[s.memaddr + 1] = b, !.wrote = TRUE])

WriteEnd(s) == IF Size(s) > 0 /\ ~s.wrote THEN s ELSE Flagged(s, "end_write")

\* i2ct_hook_read_byte: the byte and what is left.
Taken(s) == IF s.pos + 1 >= Len(s.tx) THEN [s EXCEPT !.tx = <<>>, !.pos = 0]
            ELSE [s EXCEPT !.pos = @ + 1]
ReadByte(s, mayDefer) ==
    IF Size(s) > 0
    THEN {[byte |-> b, left |-> Moved(s), deferred |-> FALSE] : b \in CellsRead(s)}
    ELSE IF s.pos < Len(s.tx)
    THEN {[byte |-> s.tx[s.pos + 1], left |-> Taken(s), deferred |-> FALSE]}
    ELSE IF mayDefer /\ CanDefer(s)
    THEN {[byte |-> High, left |-> Flagged(s, "read_req"), deferred |-> TRUE]}
    ELSE {[byte |-> High, left |-> s, deferred |-> FALSE]}

\* What the controller is told of the memory or the queue when a byte leaves.
Cell(p) == CHOOSE n \in p.next : TRUE
Expected(s, p) ==
    IF Size(s) = 0
    THEN [p EXCEPT !.byte = {IF p.queue = <<>> THEN High ELSE Head(p.queue)},
                   !.queue = IF @ = <<>> THEN <<>> ELSE Tail(@)]
    ELSE [p EXCEPT !.byte = {p.cells[(n % Size(s)) + 1] : n \in p.next},
                   !.next = {n + 1 : n \in @}]

\* And when it writes one.
Addressed(s, p, b) ==
    LET bytes == p.prefix.bytes + 1
        value == p.prefix.value * Base + b
    IN [p EXCEPT !.prefix = [bytes |-> bytes, value |-> value],
                 !.next = IF bytes = s.width THEN {value} ELSE {}]
Heard(s, p, b) ==
    IF Size(s) = 0 THEN p
    ELSE IF p.prefix.bytes < s.width THEN Addressed(s, p, b)
    ELSE [p EXCEPT !.cells[(Cell(p) % Size(s)) + 1] = b, !.next = {n + 1 : n \in @}]

-----------------------------------------------------------------------------
(* A synchronisation: the engine steps, the program may get the turn, and a  *)
(* byte that is still owed leaves (sync_impl).                               *)

Innermost == Last(calls)
Under(call) == Append(Front(calls), call)

\* i2ct_due: what is pending is a reason of its own to give the turn.
NeverDue(s) == FALSE                                                     \* mutant
TargetDue(s) == s.pending # {} /\ ~masked

\* run_due_callbacks: pins and timers first.
Batch(open, s, other) ==
    (IF open /\ other THEN <<"other">> ELSE <<>>)
        \o (IF open /\ s.pending # {} THEN <<"handler">> ELSE <<>>)
Collected(open, s) ==
    IF open /\ s.pending # {} THEN [s EXCEPT !.flags = s.pending, !.pending = {}] ELSE s

\* The wait on top is woken: by its own instant or an input ("back"), by a
\* callback of something else, by the target.
TurnGiven(s, p, others, backs) ==
    /\ promised' = [p EXCEPT !.untold = s.pending, !.held = FALSE]
    /\ \/ /\ ~over /\ at' = "turn"
          /\ \E other \in others, back \in backs :
               /\ other \/ back \/ TargetDue(s)
               /\ calls' = Under([Innermost EXCEPT !.due = Batch(~masked, s, other),
                                                 !.back = back])
          /\ side' = Collected(~masked, s)
       \/ /\ over \/ ~TargetDue(s)
          /\ at' = "finish" /\ side' = s /\ UNCHANGED calls

\* An edge of the bus, and what the engine makes of it.
Stepped(s, e, p) ==
    /\ at = "idle" /\ side.on /\ budget.bus > 0
    /\ budget' = [budget EXCEPT !.bus = @ - 1]
    /\ engine' = e /\ TurnGiven(s, p, {FALSE, TRUE}, {FALSE})
    /\ UNCHANGED <<masked, over>>

Matches ==
    /\ engine.phase = "idle"
    /\ \E reads \in BOOLEAN :
         Stepped(AddrMatch(side, reads), [engine EXCEPT !.phase = "matched", !.reads = reads],
                 IF reads THEN promised ELSE [promised EXCEPT !.prefix = NoPrefix])

\* i2ct_load_read_byte.
ReadsByte ==
    \E r \in ReadByte(side, TRUE) :
        Stepped(r.left, [engine EXCEPT !.phase = "read", !.deferred = r.deferred, !.out = r.byte],
                IF r.deferred THEN [promised EXCEPT !.byte = {}] ELSE Expected(side, promised))

Opens ==
    /\ engine.phase = "matched"
    /\ IF engine.reads THEN ReadsByte
       ELSE Stepped(side, [engine EXCEPT !.phase = "write"], promised)

Receives ==
    /\ engine.phase = "write"
    /\ \E b \in Values : Stepped(WriteByte(side, b), engine, Heard(side, promised, b))

ReadsOn == engine.phase = "read" /\ ReadsByte

\* i2ct_close_phase: by a stop, a start, or the refusal of a byte.
EndsPhase ==
    /\ engine.phase # "idle"
    /\ Stepped(CASE engine.phase = "write" -> WriteEnd(side)
                 [] engine.phase = "read" -> Flagged(side, "end_read")
                 [] OTHER -> side,
               Silent, promised)

\* A synchronisation for something else.
Elsewhere ==
    /\ at = "idle" /\ ~over
    /\ TurnGiven(side, promised, {FALSE, TRUE}, BOOLEAN) /\ at' = "turn"
    /\ UNCHANGED <<engine, masked, over, budget>>

\* i2ct_finish: a byte still owed leaves, whatever the handler did.
Finishes ==
    /\ at = "finish" /\ at' = "idle"
    /\ IF side.on /\ engine.deferred
       THEN \E r \in ReadByte(side, FALSE) :
              /\ side' = r.left
              /\ engine' = [engine EXCEPT !.deferred = FALSE, !.out = r.byte]
              /\ promised' = Expected(side, promised)
       ELSE UNCHANGED <<side, engine, promised>>
    /\ UNCHANGED <<calls, masked, over, budget>>

Controller == Matches \/ Opens \/ Receives \/ ReadsOn \/ EndsPhase \/ Elsewhere \/ Finishes

-----------------------------------------------------------------------------
(* The program and its callbacks.                                            *)

Waiting == at = "turn" /\ Innermost.state = "waits"
InTurn == at = "turn" /\ Innermost.state = "runs"

CallsBack ==
    /\ Waiting /\ Innermost.due # <<>>
    /\ calls' = Append(Under([Innermost EXCEPT !.due = Tail(@)]),
                       Call(Head(Innermost.due), "runs", <<>>, FALSE))
    /\ promised' = IF Head(Innermost.due) = "handler"
                   THEN [promised EXCEPT !.untold = @ \ side.flags] ELSE promised
    /\ UNCHANGED <<side, engine, at, masked, over, budget>>

\* The callbacks are over: the wait is too, or goes on.
WaitGoesOn ==
    /\ Waiting /\ Innermost.due = <<>>
    /\ IF Innermost.back
       THEN at' = at /\ calls' = Under([Innermost EXCEPT !.state = "runs", !.back = FALSE])
       ELSE at' = "finish" /\ UNCHANGED calls
    /\ UNCHANGED <<side, engine, masked, over, promised, budget>>

\* A call until a later instant.
Sleeps ==
    /\ InTurn /\ at' = "finish"
    /\ calls' = Under([Innermost EXCEPT !.state = "waits"])
    /\ promised' = [promised EXCEPT !.held = @ \/ Innermost.kind # "main"]
    /\ UNCHANGED <<side, engine, masked, over, budget>>

Ends ==
    /\ InTurn
    /\ IF Innermost.kind = "main"
       THEN over' = TRUE /\ at' = "finish" /\ UNCHANGED calls
       ELSE over' = over /\ at' = at /\ calls' = Front(calls)
    /\ UNCHANGED <<side, engine, masked, promised, budget>>

\* A callback raises: the others of its batch are dropped, and the call under it
\* goes on with the exception.
Raises ==
    /\ InTurn /\ Innermost.kind # "main"
    /\ LET below == Front(calls)
       IN calls' = Append(Front(below), [Last(below) EXCEPT !.state = "runs", !.due = <<>>,
                                                            !.back = FALSE])
    /\ promised' = [promised EXCEPT !.held = TRUE]
    /\ UNCHANGED <<side, engine, at, masked, over, budget>>

\* A call of the program: it costs one of the bound.
Asks ==
    /\ InTurn /\ budget.calls > 0 /\ at' = at
    /\ budget' = [budget EXCEPT !.calls = @ - 1]
    /\ UNCHANGED over

\* yield_to_modelica for this very instant: the drain loop gives the turn back.
Yields(s) ==
    /\ side' = Collected(~masked, s)
    /\ calls' = Under([Innermost EXCEPT !.state = "waits", !.back = TRUE,
                                        !.due = Batch(~masked, s, FALSE)])

Inits ==
    /\ Asks /\ engine' = Silent
    /\ LET setup == budget.setup
           cells == [i \in 1..setup.cells |-> 0]
       IN /\ Yields([Off EXCEPT !.on = TRUE, !.width = setup.width, !.mem = cells])
          /\ promised' = [Nothing EXCEPT !.cells = cells, !.held = promised.held]
    /\ UNCHANGED masked

Deinits ==
    /\ Asks /\ engine' = Silent /\ promised' = [Nothing EXCEPT !.held = promised.held]
    /\ Yields(Off) /\ UNCHANGED masked

SetsIrq ==
    /\ Asks
    /\ \E t \in Triggers, handler \in BOOLEAN :
         side' = [side EXCEPT !.handler = handler, !.trigger = t, !.pending = {}]
    /\ promised' = [promised EXCEPT !.untold = @ \ side.pending]
    /\ UNCHANGED <<engine, calls, masked>>

\* write: what was sent makes room first.
CompactedShort(s) == [s EXCEPT !.tx = SubSeq(@, s.pos + 1, Len(@))]      \* mutant
Compacted(s) == [s EXCEPT !.tx = SubSeq(@, s.pos + 1, Len(@)), !.pos = 0]
Writes ==
    /\ Asks /\ Size(side) = 0
    /\ \E b \in Values :
         LET s == Compacted(side)
         IN IF Len(s.tx) < BufMax
            THEN /\ side' = [s EXCEPT !.tx = Append(@, b)]
                 /\ promised' = [promised EXCEPT !.queue = Append(@, b)]
            ELSE side' = s /\ UNCHANGED promised
    /\ UNCHANGED <<engine, calls, masked>>

ReadsInto ==
    /\ Asks /\ side.rx # <<>>
    /\ \E n \in 1..Len(side.rx) : side' = [side EXCEPT !.rx = SubSeq(@, n + 1, Len(@))]
    /\ UNCHANGED <<engine, calls, masked, promised>>

\* The program changes a cell of its own bytearray.
Stores ==
    /\ Asks
    /\ \E i \in 1..Size(side), b \in Values :
         /\ side' = [side EXCEPT !.mem[i] = b]
         /\ promised' = [promised EXCEPT !.cells[i] = b]
    /\ UNCHANGED <<engine, calls, masked>>

DisablesIrq == Asks /\ ~masked /\ masked' = TRUE /\ UNCHANGED <<side, engine, calls, promised>>

\* enable_irq runs at once what was held back.
EnablesIrq ==
    /\ Asks /\ masked /\ masked' = FALSE
    /\ side' = Collected(TRUE, side)
    /\ \E other \in BOOLEAN :
         calls' = Under([Innermost EXCEPT !.state = "waits", !.due = Batch(TRUE, side, other),
                                          !.back = TRUE])
    /\ UNCHANGED <<engine, promised>>

\* The supply is lost: the target no longer answers, the program is over.
PowerLost ==
    /\ at = "idle" /\ side.on
    /\ side' = [side EXCEPT !.on = FALSE] /\ over' = TRUE
    /\ UNCHANGED <<engine, at, calls, masked, promised, budget>>

\* A callback at the bound of the nesting does not wait.
Program ==
    \/ CallsBack \/ WaitGoesOn \/ Ends \/ Raises
    \/ SetsIrq \/ Writes \/ ReadsInto \/ Stores \/ DisablesIrq
    \/ Len(calls) <= budget.depth /\ (Sleeps \/ Inits \/ Deinits \/ EnablesIrq)

\* The controller is done, or has nobody to talk to.
BusRests == at = "idle" /\ (budget.bus = 0 \/ ~side.on) /\ UNCHANGED sideVars

TargetNext == Controller \/ Program \/ PowerLost \/ BusRests

TargetSpec == TargetInit /\ [][TargetNext]_sideVars

-----------------------------------------------------------------------------
(* Properties.                                                               *)

TargetTypeOK ==
    /\ side.on \in BOOLEAN /\ side.memaddr \in Nat /\ side.seen \in 0..side.width
    /\ side.mem \in Seq(Values) /\ side.rx \in Seq(Values) /\ side.tx \in Seq(Values)
    /\ Len(side.rx) <= BufMax /\ Len(side.tx) <= BufMax /\ side.pos \in 0..Len(side.tx)
    /\ side.pending \cup side.flags \cup side.trigger \subseteq Events
    /\ engine \in [phase : {"idle", "matched", "write", "read"}, reads : BOOLEAN,
                   deferred : BOOLEAN, out : Values]
    /\ at \in {"idle", "turn", "finish"} /\ masked \in BOOLEAN /\ over \in BOOLEAN
    /\ calls \in Seq([kind : {"main", "handler", "other"}, state : {"runs", "waits"},
                      due : Seq({"handler", "other"}), back : BOOLEAN])

\* The controller reads what it was promised: of a memory, the last value stored
\* at the address it gave, cell after cell and round again (api.md); of a queue,
\* each byte that write() accepted, once and in order, and 0xFF only when there
\* was none.  Between two synchronisations no byte is owed.
ReadsRight ==
    at = "idle" /\ engine.phase = "read" =>
        ~engine.deferred /\ promised.byte \subseteq {engine.out}

\* "The handler runs at the same simulated instant as the event": when a
\* synchronisation ends every event asked for has been told to the handler,
\* unless callbacks are masked, or one of them slept or raised meanwhile.
ToldAtOnce == at = "idle" /\ ~masked /\ ~over /\ ~promised.held => promised.untold = {}
=============================================================================
