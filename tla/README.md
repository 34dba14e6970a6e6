# TLA+ model of the MicroPythonMCU runtime

MicroPythonMCU is an OpenModelica library: boards (`MCU`, `RPi_Pico`, `MicroBit_v2`) on which a
real Python program runs against a MicroPython shim while the circuit around it is simulated.
This directory holds the TLA+ modules of its C runtime
(`src/MicroPythonMCU/Resources/Include`, called `I/` below; `PR/` is `I/pyruntime/`), the TLC
configurations that check them, and TLAPS proofs about them. `PROJECT.json` lists components,
runs, mutants, the source lines each definition stands for, findings, hazards and theorems.

1. [The system](#1-the-system): inventory
2. [Modules](#2-modules): what is modelled, state and actions against the code
3. [Runs](#3-runs): what each shows, bounds, fairness, mutants
4. [Proofs](#4-proofs)
5. [Findings](#5-findings)
6. [Not modelled, and why](#6-not-modelled-and-why)
7. [Plan](#7-plan)

## 1. The system

The simulation executable has one *Modelica thread*, which integrates the circuit and calls the
C runtime at its events, and one *worker thread* per microcontroller, which runs the program of
that microcontroller in a CPython sub-interpreter of its own. All interpreters share one GIL.
The two sides never run at the same time: `turn`, protected by the critical section `cs` and
signalled on one condition variable `cv`, says who may go on. A native of the shim (`machine`,
`time`, `microbit`) that needs simulated time posts the instant at which it wants to be woken
and gives the turn back (`yield_until`); the Modelica thread gives it again at the
synchronisation (`PyRuntime_sync`) where that instant, an input transition, a timer or an I2C
event is due. Between two synchronisations Modelica holds the outputs it was given and watches
three conditions (`Internal/Boards/McuCore.mo:9-15`): the published `nextWakeTime` is reached,
an input crosses its threshold, the tick.

Peripherals written in C (serial, I2C, radio modem, analysers) run on the Modelica thread only;
those described by a Python script take the GIL there. The first component to need CPython
starts it, the last one to be destroyed finalizes it.

| Component | State it keeps | Operations | Interacts through | What makes it hard | What makes it correct |
|---|---|---|---|---|---|
| Turn protocol (`PR/pyruntime_module.c`, `_sync.c`, `_core.h`) | `turn`, `init_state`, `started`, `script_done`, `script_error`, `halted`, `powered_off`, `shutdown`, `cs`, `cv` | `PyRuntime_new`, `sync_impl`, `power_loss`, `PyRuntime_destroy`, `worker_main`, `yield_until` | `cs`/`cv`/`turn`, the GIL | one condition variable for five conditions; two locks; waits without a delay; a worker given up on | one side runs at a time; no signal lost; no lock held over a wait; it ends |
| Host interpreter (`I/pyhost.c`, `I/devscript.c`) | users, abandoned | ensure, release, abandon; load, call, unload | the GIL, process-wide counters | destroyed in any order, after any failure | finalized once, under nobody, when everybody is gone |
| Synchronisation in time (`PR/pyruntime_module.c`, `_sync.c`, `_pin.c`, `_timer.c`) | `sim_time`, `wake_requested_at`, `wake_had_input_change`, sensed pins, irq pending, timers, mask | natives of `Pin`, `Timer`, `time`; `run_due_callbacks` | outputs and `nextWakeTime` of `sync_impl` | waits nested in callbacks; a wake in the past never fires | nothing due is late or forgotten; a wait ends when it said |
| UART engine and `machine.UART` (`I/uartcore.c`, `PR/pyruntime_uart.c`) | frame in progress, two circular queues, level seen last, bit index | `tx_push/kick/advance/level/next_edge`, `rx_step/pop`, `configure`, `stop` | the level of a wire held by Modelica | no sampling clock: edges and one wake per byte | the wire is the frame; bits are those of their middle; bytes arrive in order |
| I2C master (`PR/pyruntime_i2c.c`) | phase, byte, bit, ack, error, `busy`, `done`, `held`, `i2c_done_wake` | `init`, `xfer`, `deinit`, `i2c_act` per quarter of a period | two open-drain lines; wake of the program | timeouts anywhere; aborts; callbacks that use the bus | both sides agree; ends in bounded time; the bus is released |
| I2C target engine (`I/i2ctarget.c`) | levels seen last, state, shift register, bits, deferred byte | `i2ct_sync`, `i2ct_resume` | the two lines; hooks of its host | edges that come together; late bytes; shared addresses | acts on real starts and stops only; closes its phases |
| `machine.I2CTarget` (`PR/pyruntime_i2ctarget.c`) | memory and its address, receive and send queues, pending events | `init`, `irq`, `readinto`, `write`, hooks | target engine, callbacks of the program | an answer prepared by the program in the middle of a frame | events once, in order; bytes of a memory in place |
| micro:bit board (`PR/pyruntime_matrix.c`, `_microbit.c`, `_board.h`) | 5x5 pixels, origin of the scan | boot, enable, disable, set pixels, step, deadline | outputs on pins | deadline recomputed at each event; goes on after the program | one row at a time, each LED lit in proportion to its level |
| Display channel (`PR/pyruntime_display.c`) | queue of texts, sequence number | write, publish | one output per synchronisation | several writes in one instant; bounded queue | no text shown twice, oldest dropped |
| Serial devices (`I/uartdevice/`) | line being received, answer armed, period | `UartDevice_new/sync/destroy` | UART engine, a table or a script | answer and period meet; bounds of the buffers | one answer per line; periods kept |
| I2C devices (`I/i2cdevice/`) | bytes of the phase, outputs | `I2cDevice_new/sync/destroy`, script calls | target engine, a script | calls of Python from inside a frame | one event per phase |
| Radio modem (`I/radiomodem/`) | two UART engines, two delayed queues, counters | `RadioModem_sync` | a serial line and the air, shared by all modems | half duplex, collisions, queues in a row | order kept, nothing twice; every frame that can be heard whole is decoded |
| Analysers (`I/analyzer/`) | edges of the instant, capture | record, finish, exports | files | several changes at one instant | one edge per change of level |
| Output, launch, debugging (`I/simoutput.c`, `I/launch.c`, `debug_host.py`) | buffers, sockets | write, launch | files, processes | input/output | - |
| Shim (`Resources/Scripts/_shim/`) | objects of the program; buffer, frames, timer of the display; stream and queue of the radio | the MicroPython API | natives; callbacks inside its own calls | objects that outlive their slot; calls cut by callbacks that make the same calls | what a call showed stays; a slot of the pool has one owner |
| Boards and circuit (`*.mo`) | continuous state | equations, `when` | calls the C engines | - | environment of the models |

The hazards of each part - what a test would hardly reach - are listed in `PROJECT.json`, each at
its line and with the properties that would catch it.

## 2. Modules

| Module | Role |
|---|---|
| `TurnHandoff` | Modelica thread, workers, locks, condition variables, GIL, host interpreter |
| `TurnAlternation` | its abstract promise: one holder of the right to run, which comes back to Modelica |
| `TurnHandoff_proofs` | proofs about `TurnHandoff` |
| `McuSync` | the synchronisations of one powered microcontroller in simulated time |
| `McuSync_proofs` | proofs about `McuSync` |
| `UartLink` | two UART engines and the wire between them |
| `UartLink_proofs` | proofs about `UartLink` |
| `SerialDevice` | a serial device: echo, answers and period over its UART engine |
| `SerialDevice_proofs` | proofs about `SerialDevice` |
| `I2cBus` | I2C master, targets, lines, and the program that waits |
| `I2cBus_proofs` | proofs about `I2cBus` |
| `I2cTargetSide` | `machine.I2CTarget`: memory, queues and handler behind a target engine |
| `I2cTargetSide_proofs` | proofs about `I2cTargetSide` |
| `LedMatrix` | the scan of the LED matrix of a micro:bit, in simulated time |
| `RadioModem` | the transparent radio modems on one antenna |
| `RadioModem_proofs` | proofs about `RadioModem` |
| `RadioAir` | what such modems promise: bytes in order, each at most once, never back |
| `RadioPackets` | the packets of the radio module of a micro:bit, over its modem |
| `Animation` | the pool of timers, the display of a micro:bit and the callbacks inside its calls |
| `MicroBit_proofs` | proofs about the display and the radio: `LedMatrix`, `Animation` and `RadioPackets` |
| `MC*` | the values of constants for TLC; `MCSerialLine` puts a line, a device and the host of an I2C target side by side in one run, `MCMicroBit` the radio, the matrix and the animations side by side in one run |

### TurnHandoff

Who runs, who waits, and on which lock, from `PyRuntime_new` to the last `pyhost_release`, for
any number of microcontrollers and one scripted peripheral. `pcM`/`cur` say where the Modelica
thread is and for which microcontroller, `pcW[m]` where its worker is. The flags of the handle
are variables of their own (`turn`, `init`, `started`, `done`, `err`, `halted`, `poweredOff`,
`shutdown`), a critical section has its owner, a condition variable its set of sleepers. A piece
of C that runs under `cs` without calling Python is one action, taken when `cs` is free: nobody
can see it half done. Everything else is cut where the other thread can come in: between the
release of the GIL and the entry into `cs`, between a signal and the return of the wait, between
leaving `cs` and taking the GIL. `WakeConditionVariable` wakes any one sleeper;
`SpuriousWakeups` lets a variable wake by itself.

What a program computes is left open: it may at any time call a native that waits (`Yield`),
replace a callback under `cs` (`ClearCallback`), let CPython switch the GIL (`GilSwitch`), end
or fail (`Finish`). Of the wake it asks for only "this instant" (`due`) and "later" are told
apart. Programs of `Swallowers` catch `SystemExit`, those of `Threaded` leave a Python thread
behind, those of `Finalizers` own an object whose `__del__` calls the shim. A construction may fail
at any point after `pyhost_ensure` (`Fails`): what was built is destroyed, and the history variable
`orphaned` remembers that a user of CPython stays counted for ever.

Hidden by the abstraction: a wake that is reached, an input and a timer all reach the same drain
loop, so `SyncDrain` does not say which of them it was (`McuSync` does); `hang_check` only
writes warnings.

### TurnAlternation

The right to run (`holder`) is Modelica's or one microcontroller's; it goes to a program that is
alive and always comes back before it goes to another; a program over never gets it. `Turns` in
`TurnHandoff` instantiates it with `Holder` and `Phase` computed from `turn`, `pcM` and the
flags, and `TakesTurns` is the implementation claim, checked by TLC and proved.

### McuSync

One microcontroller, supplied, with a turn as a phase (that two threads alternate is
`TurnHandoff`'s business). The Modelica side is explicit: `Advance` moves time and evaluates
`time >= pre(nextWakeTime)` *as a when does* - it fires when it becomes true, not while it is
true - `InputChanges` flips an input, the tick fires every `TickPeriod`. `SyncRunning` senses
the inputs, marks the pins whose handler asked for the edge, and gives a turn or not;
`DrainAgain` and `Publish` are the drain loop and the published minimum. On the worker's side
`stack` holds the calls of `yield_until` in progress, outermost first, each with the callbacks
it collected and still has to call; a callback may call any native, so waits nest, raise, mask
and unmask. Pins and timers are numbers because the code visits them in that order.

Abstractions: time is an integer, `PYRUNTIME_EPS` (which absorbs the rounding of doubles) is 0;
a pin taken by the ADC is `"taken"`; the UART and I2C parts of a synchronisation are in their
modules; loss of supply and end of simulation are in `TurnHandoff`.

### UartLink

The emitting half of one `UartEngine`, the wire as Modelica holds it, the receiving half of
another. (An engine serves two directions that share only its format.) Time counts in fractions
of half a bit. A turn (`SyncTx` ... `PublishTx`, `SyncRx` ... `PublishRx`) is a synchronisation,
during which the natives of `machine.UART` may be called. It is forced when a wake is reached or
the wire changed, and may happen at any other instant. `TxAdvance`, `TxLevel`, `Edges`,
`Resolved`, `Read`, `Collect`, `RxStep` are the functions of `uartcore.c`. `sent`, `received`,
`linked`, `taken`, `middle` are history: `middle` remembers what the wire was in the middle of
each bit, which the code never samples.

### I2cBus

The master's phase machine (one operator per phase; `Act` is `i2c_act`, one quarter of a period
after another), the targets (`OnStart`, `OnStop`, `OnRise`, `OnFall` - `i2ctarget.c`), the two
wired-AND lines, and the worker: `stack` holds its waits, for the end of a transaction or for
anything else, since callbacks that run in a wait may use the bus too. Between two actions of
the master the lines settle, in any order and possibly both at once. Something else on the bus
may hold a line (`Foreign`). A target that is asked for a byte may answer at once or later, but
in the same instant (`Resume`: `i2ct_finish`, `pyruntime_module.c:1078`).

Abstractions: lines settle within a quarter of a period (with the pull-ups of the library's
circuits they do; a line that does not is one that `Foreign` holds); all the targets that see an
edge act in one step, since each only reads the lines; one pair of pins; a call refused with
`EBUSY` changes nothing and is no action.

### I2cTargetSide

`pyruntime_i2ctarget.c`, with the part of `sync_impl` and `run_due_callbacks` that it lives from. The bus is seen
from the hooks of the engine: `Matches` to `EndsPhase` are the steps of `i2ctarget.c` that call one, in the orders
`I2cBus` allows. Each opens a synchronisation (`Stepped`): the program gets a turn or not (`TurnGiven`), and
`Finishes` (`i2ct_finish`) sends the byte that is still owed. In between, `calls` holds the program and its
callbacks in progress, outermost first, with what each has collected (`due`); any of them may use the natives of the
target, mask, wait (and so leave the synchronisation in the middle of a handler) or raise. `promised` is history:
the cells as they were last stored, where the address given by the controller points, the bytes `write` accepted,
and the events of this synchronisation not told yet.

Abstractions: a byte has three values and 0xFF is the highest; pins and timers are one callback, `"other"`; loss of
supply comes between two synchronisations (what happens to the program is `TurnHandoff`'s); an address that was
cut short may point beyond the memory, and what is read there is any byte. Levels, claims and pulls of the pins are not part of it.

### LedMatrix

The engine (`scan`: enabled, origin, picture), the pins as they were last published (`shown`) and
the clock. `Stepped` is `matrix_step`, `Deadline` is `earliest_matrix_deadline`. An action is a
whole `PyRuntime_sync`: with a program (`Boot`, `SyncRunning`: the engine goes on before the turn
and after it, and in between the program may draw, switch on or off, or end), after its end
(`SyncEnded`), at the loss of supply (`PowerLost`) or without supply. `Advances` is the `when`: it
calls when the published wake is reached, and may call at any instant for another reason; a wake
that is already past never calls, as in `McuSync`. `sim_time` is a variable of its own because the
finding `mbit_end` is about it.

Here `PYRUNTIME_EPS` is not 0 but `Eps` ticks, shorter than the shortest time a column is low
(`MatrixAssumption`), so that synchronisations just before a change are among the behaviours. The picture
that `ScanPunctual` compares with (`TrueRow`, `TrueLow`) is computed from time alone, as
`docs/fr/interne/microbit.md` states it.

### SerialDevice

`uartdevice_engine.c`. `Synced` composes the steps of `UartDevice_sync` in their order (`Advances`,
`Hears`, `Answers`, `Speaks`); `Called` is a call by the `when` of `PartialUartDevice.mo`, at the wake, at
an edge or at any other instant, and as often as one likes; `Elapses` is a tick without a call. A wake
that is already past never calls. A byte is named for what it is sent for and its rank, so that
`EachOnce` can tell a byte lost, doubled or out of its turn; `made`, `begun` and `cut` are history.

Abstractions: what a line says, and so which answer it gets from the table or the script, is a free choice of
a length; the UART engine is its queue and the time left of its frame (bits and edges are `UartLink`'s);
a byte received at least a frame after another is all that is left of reception.

### RadioModem, RadioAir

Any number of modems on one antenna, time in ticks. `engine[m]` holds the two delayed queues and the
three frames in progress of a modem (sent on the air, heard on the air, given back to its
microcontroller). `Synced` composes the steps 1 to 7 of `RadioModem_sync` in their order.
`Iteration` is one event iteration of Modelica: all the engines that are due are called, then the
antenna shows what they published and those that see it change are due in the next iteration of
the same instant - the order on which half duplex, collisions and simultaneous starts depend.
`Elapse` goes to the next instant, where the wakes asked for and the bytes of the microcontrollers
are due. A frame is its byte and the time left. A decoder samples from 1.5 bits after the edge it takes
for a start (`uartcore.c:273`): an edge less than `Half` a bit late, when a modem becomes able to hear again within
the start bit (`Starting`), still gives the true byte; a later one makes a `Ghost`, whose
start and stop are free. A `Ghost` whose stop bit is high is queued and reaches the microcontroller like any
other byte. `RadioAir` is the abstract promise about the bytes that microcontrollers wrote, with those
as `given` and `reached`, and `KeepsAir` the claim that the modems implement it; it says nothing of a `Ghost`, which is a
byte of nobody.

Abstractions: the equations of the antenna (`PartialRadioModem.mo:108-139`) are taken for what they
compute when the sums of identifiers tell one transmitter from several; the modems have one air
rate, and half a bit is at most half a frame (`ModemAssumption`; a frame has ten bits); the serial side loses nothing (`UartLink` is about that).

### RadioPackets

The radio module of `microbit_shim.py`, as it runs on `native_uart_*` of slot 1. Bytes are values,
a header and a CRC say what they were made of; frames, escapes, delimiters and the limit on a
candidate are those of the code (`Frame`, `Unescape`, `Drain`, `Cut`; `Drain` goes byte by byte where
`_radio_drain` looks for the next delimiter, and notes the place in the stream of what it finds). A call is cut at each native that
gives the turn to Modelica, where bytes arrive, and where a callback may make a call of its own
(`call["callback"]`); what the main program had read before may be stale after. The other boards
send frames that lose bytes, mix, or come with bytes of nobody.

Abstractions: the CRC tells any two bodies apart, and its one byte is no byte of a payload; a frame is within
the limit on a candidate, escapes included (`FrameAssumption`: a body and its CRC have 261 bytes at most, 522
if all are escaped, and the limit is 600, `microbit_shim.py:750`); a peer sends at most `MaxSent` messages, any number; the engine of the link keeps only the number of bytes
to send (their content goes to the modem, which is `RadioModem`'s business); callbacks do not nest
further, and none raises: an exception would end the call at the native in which it waits (`pyruntime_uart.c:148`, `:180`,
`:208`, `:245`, `:271`), which leaves the buffer and the queue as they are there. The modem and the other boards are external
here (`PeerSends`, `Arrives`, `LostOnAir`, `Noise`), although the modem is `RadioModem` and the others run the same
shim; the noise is an ESC or a delimiter, the only bytes that the decoding treats apart, where a `Ghost`
may be any byte.

### Animation

What is drawn, by whom, and with which slot of the pool. `pool` is the table of
`native_timer_new/init/deinit`; `display` holds the fields of `_MicroBitDisplay` (`picture` for
`_buf`, `timer` for the slot of `_timer`, `clear` for `_clear_after`). `stack` holds the calls in
progress, outermost first, each with what is left of it (`then`), the time it still waits and the
callbacks it has collected (`due`): a native of the display gives the turn at the present instant
(`GivesTurn`), where an input may call the program, and a call that sleeps meets the timers too
(`TimePasses`). The main program and its callbacks make the same calls (`Code`), to any depth.
`Ticks` is `_tick`; the actions `Shows` to `Turned` are what follows the wait in each call.
`asked` is history: the picture that the last call left, or `Moving`.

Abstractions: a frame is the name of its animation and its number; `set_pixel` draws without a
wait, as `clear` does; the Timers of the program call the same code as an input; masking and the
published wakes are `McuSync`'s.

A callback may raise in the wait of any call (`Raises`): the exception ends the calls up to the one that catches it, in a
callback or in the main program. If it ends `_stop_anim` in its wait, the slot is free and `_timer` still names it
(`halfway`), until the next call that goes through `_stop_anim`. A Timer of the program that takes the slot
meanwhile is `exposed`, and that next call frees it: a defect of the code (section 5), and the one exception of
`KeepsTimers`. TLC refutes `KeepsTimers` without it.

## 3. Runs

All bounds are constants named in the configurations. A run that passes was also used with a
mutant for each of its properties: a plausible bug put into one definition, which makes exactly
that property fail (`mutants` in `PROJECT.json`; the mutated forms stand next to the originals,
marked `mutant`).

| Run | Expected | What it shows |
|---|---|---|
| `turn_two` | pass | Two microcontrollers, a scripted peripheral, spurious wake-ups, programs that leave threads, constructions that fail: six safety properties and the refinement of `TurnAlternation` |
| `turn_live` | pass | Two microcontrollers under fairness, the second with a program that catches `SystemExit`: a synchronisation returns, a loss of supply too, the worker of the first exits, and the process ends whatever the second does |
| `turn_finalizer` | violation | `LockOrder`, with a finalizer that calls the shim under `cs` |
| `sync_all` | pass | Sleeps, pin accesses, one irq, one timer, masking, nested: nothing forgotten, late or cut short |
| `sync_wake` | violation | `WakeAhead` after a long masking |
| `sync_input` | violation | `InputWakesSleep` when the input changes during a callback |
| `serial_links` | pass | Matched and mismatched formats, any extra synchronisation: the wire, the bits and the bytes are right; or, in other behaviours (`part`), a serial device: nothing is done twice, late or out of order; or `machine.I2CTarget`: the controller reads what it was promised, the handler is told at once |
| `uart_start` | violation | `StartsAtEdges` after a `deinit` and an `init` |
| `i2c_bus` | pass | Two transactions of every shape, two targets, late bytes, a stuck line, callbacks that raise and use the bus |
| `i2c_done` | violation | `DoneWakes` when a callback uses the bus as a transaction ends |
| `mbit_board` | pass | The radio packets, the radio modems, the LED matrix or the animations of a micro:bit (each behaviour is one of the four, `part`) |
| `mbit_end` | violation | `ScanOutlives`: the scan of the matrix after the end of the program |

**Bounds, and why they are enough.**
`turn_two`: the protocol couples two microcontrollers only by the GIL, the counters of the host
and the single Modelica thread, so two workers and one scripted peripheral show every pair; the
state is finite without any bound. `sync_all`: time up to two ticks, one timer of period 1, sleeps of 2, an
access of 1 and a tick of 2 make every deadline meet every other; waits nested two deep give a
callback that waits inside a wait of the program (deeper nests repeat the same step; the proofs
have no bound). `serial_links`: two formats, one twice as fast, with and without parity; words of
two bits of which one is sent, so that truncation shows; queues of one place, so that they are
full; 16 half-bits, more than two frames; three calls of `init`/`deinit`. Its devices echo, answer, speak
or do all three, with a frame of two ticks, delays and periods of the order of a few frames, twelve ticks, a queue of two
bytes and an answer of three, so that both overflow. Its I2C targets: no memory and queues of two bytes,
a memory of two cells with an address of two bytes, one of three cells with one byte; enough steps of the bus and calls of the program
(`MCBudgets`) for a whole write and a read after it, a handler that answers, a queue that is full and one half sent; callbacks
that wait in one another in the first budget only: about 490,000 states. `i2c_bus`: bytes of
three bits (two of address), requests that probe nobody, write with the bus kept, write then
read at an address two targets share, and read two bytes; two transactions, one call of `init`,
one disturbance of the lines, waits two deep: about 2 million states. `turn_live` has no spurious
wake-up and no scripted peripheral (`turn_two` has both): two workers, one of them with a
finalizer, already give 32,000 states over which four temporal properties take two minutes.
`mbit_board`, packets: frames of four bytes and payloads with an escape; two places in the queue of the
link, so that a frame does not fit when another is under way; a candidate is cut beyond five
bytes, of which two are kept, so that the limit is met by one lost delimiter; the bounds come in seven
combinations (`MCBudgets`), each made for a case: two boards at once, the queue full, a byte
lost, a byte of nobody, off and on, sends of the program and of a callback. Modems: two on one
channel, one of them full duplex, and a third on another that can only collide; queues of one byte, delays as
long as a frame on the air, so that delays, frames and collisions overlap in every order; a frame on the air lasts five ticks, its stop bit is sampled after three, so half a bit is two ticks and a modem that hears again one tick after a start is among the cases. Matrix: two
rows, two columns, levels 0 to 3, two pictures, slots of six ticks with `Eps` of one, for sixteen
ticks: one full frame and a third row. Animations: two slots, so that a program can find the pool full and a
slot change owner; one image and four animations (to the end, cleared, for ever, in front) of two frames, so
that each ends, loops and meets the other calls; four calls of the program and its callbacks, so that
a call, a callback in it, a callback in that one and a call after them all draw. About 917,000 states in all. `mbit_end`: the same matrix.

**Fairness.** `turn_live` and `SendEnds` of `mbit_board` use it. In `turn_live` (`FairSpec`): weak fairness for every
step a thread can take by itself: the operating system schedules it. Strong fairness for the
steps that need the GIL, because CPython hands it over on request, so that a thread that keeps
asking gets it. Of the program: it reaches a native or ends (a program that computes for ever
stops the simulation, `hang_check` says so and nothing else), it does not act for ever at one
instant, and, unless it is a swallower, it unwinds when `SystemExit` is raised. A timeout of a
join is weakly fair since time passes. Nothing is assumed of spurious wake-ups or of supply.
In `mbit_board` (`RadioFairness`): the engine of the link goes on (simulated time advances, and it
publishes its wake) and a native in which a call waits returns (`SyncReturns`, of `turn_live`).

`turn_live` and `turn_finalizer` do not check deadlock: a finalizer that sleeps under `cs`
really stops everything, which is the finding of `turn_finalizer`. The properties of `turn_live` say so
(`Frozen`). `mbit_board` and `mbit_end` do not either: they stop at their bounds (`Budgets`, `Load`, `Horizon`).

**What the properties say**, beyond typing:

* `Alternation`, `NoLostWakeup`, `LockOrder` - the design of the hand-over, in the words of the
  comments of `yield_until`; `FinalizedAlone`, `CleanEnd` - the counting of
  the host: CPython is finalized under nobody, and at the end exactly if something was built, no worker was abandoned and
  no constructor failed once counted (`orphaned`: a defect, section 5); `ErrorStops` - a failing program is never masked. `LockOrder` (without finalizers) and `PoweredToRun` are not in
  the configuration of `turn_two`: they are proved.
* `PendingServed`, `NoOversleep`, `TimersPunctual`, `WaitsLast` - the wake
  that is published, the turns that are given and the waits that return fit together.
* `LineFollowsFrame`, `SampledInTheMiddle`, `InOrder` - an engine that is only called at edges does what a sampled one would.
* `Settled` - whenever no call of a serial device is due, another one changes nothing: none of its steps leaves work
  for a later one, and its one wake is enough. `EachOnce` - echo, answers and periods share a queue and overflow it, and each byte
  still leaves once, in the order of its kind.
* `Agreement` (both sides of an undisturbed transaction tell the same story), `NoFalseCondition`,
  `PhasesClosed`, `BusReleased`, `EndsInTime` - the bus. `EndsInTime` is a variant
  that each action of the master decreases: the transaction ends in a number of quarters known
  from its length, whatever targets and lines do.
* `ReadsRight` - the controller reads the cell it asked for as it was last stored, by it or by the program, or each byte of the
  queue once and in order; a byte owed leaves in its synchronisation, whatever the handler does. `ToldAtOnce` - events reach the
  handler in the synchronisation that saw them, unless masked, or unless a callback sleeps or raises meanwhile (section 5).
* `ScanPunctual` - the pins show, at every instant and not only when the engine is called, the picture
  that time alone determines, within `Eps`. One exception is in the code and so in the property: a
  synchronisation less than `Eps` before the release of a column leaves it low to the end of the
  slot (`Overlooked`; `matrix_step` tests the release without the tolerance that its deadline has).
* `Punctual`, `HeardWhole`, `KeepsAir` - an engine that asks for one wake misses no instant; a modem decodes every
  frame that it can hear whole, and none that is disturbed half a bit after its start or later (disturbed before that only, either
  may happen); the bytes of a microcontroller arrive in order, each at most once, never back. What a decoder
  makes of a part of a frame may arrive too, as a byte of nobody, between them.
* `WholeStream`, `KeepsOrder`, `SendEnds` - whatever is lost or added, and wherever calls and
  callbacks cut the stream, each whole frame is found in its place, messages keep their order and
  are taken once, and a send comes to its end.
* `StaysShown` - once a call has left a picture that does not move, it stays until the next call,
  although the callback of a stopped animation may be collected already and calls may be made in the
  middle of calls. `KeepsTimers` - the display, whose Timer objects keep the number of a slot that
  is no longer theirs, takes no slot of a Timer of the program - but one that the Timer took while the
  display was giving it back (`exposed`, section 5).

## 4. Proofs

TLAPS checks every theorem for all values of the constants: any number of microcontrollers, any
set of programs, any pins, timers, periods, durations and any depth of nesting, any formats,
messages and sizes of queues. The assumptions
are those named `...Assumption` in the modules (finiteness of `Mcus`, disjointness of pins and
timers, periods not 0, types); TLC evaluates them on every run.

**TurnHandoff_proofs.** `Alternation` alone is not inductive: it says nothing of where the turn
is when nobody runs. `IInv` adds, for each microcontroller, how far its construction and its end
went (`Construction`, `Stage`, `Ending`), who owns the turn (`TurnOwner`: given only from the
drain loop or from `power_loss`, lost with `script_done`), who may sleep on the condition variable
and for what (`Sleepers`), when `cs` is kept over several steps (`Locks`), and, for the host, that
`users` is exactly the number of components started and not yet released, and one more for a constructor that failed (`Counted`) and what a
count of zero means (`HostEnd`). `TypeCorrect` needs `Counted` too, since `users` is decremented.
From `IInv` follow `ProgramsAlternate`, `WakeupsArrive`, `PowerAndErrors`, `FinalizedUnderNobody`,
`FinalizedAtTheEnd`, `NeverAfterAbandon`, and `LocksOrdered` under `Finalizers = {}` - the
condition `turn_finalizer` shows to be needed. `TurnsAreTaken` is the refinement: each step of the
protocol is a step of `TurnAlternation` or a stutter under the mapping `Holder`, `Phase`; it rests on
`IInv`.

**McuSync_proofs.** The properties speak of the moments between two synchronisations, and a
synchronisation takes many steps. `IInv` adds what holds inside one: `Control` (phases and clock),
`Posted` (the posted wake is the one of the innermost wait), `Fresh` (nothing can be due before
the first wait), `Served` (a pin is pending only until the worker's turn), `Reasons` (a wake
counted as genuine has reached its instant or has seen an input, while callbacks run in it), and
`Ahead` (no deadline is behind the present once its callbacks were collected, and the published
wake bounds all of them). They give `TypeCorrect`, `PendingAreServed`, `WaitsDoLast`,
`WakesAhead`, `SleepsEnd` and `TimersServed`.

**UartLink_proofs.** Neither end sees the wire between two calls, so the properties are about
instants at which nothing runs. `IInv` says what each end may rely on meanwhile. `Wire`: the wake
`d` of the emitter closes a `Stretch` of time over which the frame keeps the level of the wire,
and is the end of the frame or a change of level (`EdgeFacts`, from the arithmetic of
`BitIndex`). `Pending`: each bit not yet resolved whose middle has passed was, in its middle, at
the level the receiver saw last; `ResolvedFirst` shows that bits are resolved in order, so that
those left after a call are ahead of it. `Emission` and `Reception` tie a frame in progress to its
configuration, its start and, once the call is served, its end. They give `TypeCorrect`,
`QueueEmpties`, `WireIsFrame`, `BitsFromTheMiddle`, `WakesAreAhead` and `WakesAreUseful`.

`ArrivesInOrder` needs a second invariant over that one. `Carried` says where the first word not
received yet is: in the frame the receiver follows (`InFrame`: same start, and the bits it has
are the first of that word), in one whose fall it has still to see (`Ahead`), or nowhere - the frame
under way was received (`Arrived`) or there is none (`AtRest`); the words behind it are the queue
(`Queued`). `Punctual` adds that the receiver is called at its stop bit at the latest and that the
emitter's wakes are bounds of bits. The heart is `LineInTheMiddle`: the middle of a bit is an odd
number of half bits from the start (`OffEdges`), so no wake is due then and the wire is bit `k + 1` of
the frame, even when the receiver is called at that very instant. From there each bit, the parity
and the stop bit are those sent (`ReadInFrame`, `WordInFrame`, `NoErrorInFrame`), and the stop bit is read
before the frame ends (`StopBeforeEnd`), so the emitter never runs ahead by a word.

**SerialDevice_proofs.** `Settled` alone does not survive a tick. `IInv` adds to the types that an idle
emitter has an empty queue (`Drained`) and that the wake is ahead of the clock and behind no deadline
(`Awaited`). Each step of a call has its lemma, which says what it settles and what it leaves alone; together they give
`SyncedFacts`: a call leaves `Nothing` due, whatever it receives and says. From this follow `DeviceTypes` and, with
`NothingChanges`, `NothingTwice`.

`EachOnce` speaks of one kind of byte at a time, in three queues. `Owed` counts them in the order in
which they leave: the byte on the wire is the last one begun, those of the transmit queue come next and
those that wait for their delay last. It carries from one step of a call to the next even where the
steps in between are of different kinds (`KicksOwed` to `SpeaksOwed`), because the ranks of a concatenation
rise when those of its parts do and the first end below the second (`ConcatRising`). Between
the calls `Once` holds, and `OnceEach` reads the property from it, giving `OnceOfEach`.

**MicroBit_proofs, LedMatrix.** The engine is called seldom and `ScanPunctual` speaks of every instant.
`ScanInv` adds to the types two facts about the last call: `Published`, that the pins shown are those
of the picture at its instant, and `Paced`, that the wake asked for is ahead of the clock or the
call is due. Since `Deadline` is the earliest of `Changes` (`Least`, from the well-founded order of
the naturals), nothing of the true picture changes between the call and its wake. It gives
`PictureShown` for every number of rows, columns and levels, every slot and every tolerance that
`MatrixAssumption` admits.

**RadioModem_proofs.** `IInv` is `OnTime` of every engine that is not to be called, with the types
and with `Writing` (the bytes that the microcontrollers have written). `Synced` is taken apart
along the steps of `RadioModem_sync`: each lemma (`SerialDoneFacts` to `SerialSentFacts`) says which
part its step settles and which it leaves alone, so that `SyncedFacts` - a call leaves nothing due,
whatever is heard - needs no case analysis over the whole function. `Elapse` keeps `IInv` because
`Wakes` names every reason for which an engine may be late. They give `ModemTypes` and
`NothingMissed`. `AirKept` is the refinement of `RadioAir`; its invariant `Ordered` follows
the bytes of a modem along their way: those in the decoder and the queues of another engine come in
order, each behind those handed on before (`Chain`), and behind the one that its emitter sends now, from the first
half bit on (`Past`, `Behind`); and a frame in the decoder is the one on the air, at most half a bit behind it
(`InStep`). `FramesHeardWhole` compares what the code decides by flags with what was on the
air: `Listening` says of each pair of modems that a frame not spoilt has been alone on the air (`Clear`) and is in the decoder, at its
place, or decoded, or about to be heard (`Held`, `Timely`), that a frame disturbed after its first half bit is cut before its end
(`Cut`), and that none of those was decoded (`Whole`).

**MicroBit_proofs, Animation.** Neither property is inductive, because a call that waits has done half of its
work. `DrawInv` adds to the types `MovesAsAsked`, that the display holds frames only after a call
asked for something that moves, and `Owned`: each slot has one
owner - the program, the display, a `Timer()` whose wait is not over, or nobody - and each of them a
slot of its own kind, but for the slots that are `exposed` and for that of `_timer` while it is `halfway`. The arguments are by action; what a step may do to the calls in progress
(`Leaves`) is said once, for any depth. They give `AnimTypes`, `PictureStays` and `TimersKept`.

**MicroBit_proofs, RadioPackets.** The code reads a stream in loops over its bytes. `Unrolled` is induction on a
sequence, stated for a set of sequences (`Least` gives it), and `LoopGoesOn` says that a loop defined by a
recursive function does one step more for one element more, so that `Unescape`, `Drain` and
`FlattenSeq` are used by their steps (`UnescapeStep`, `DrainStep`, `FlattenStep`). What they rest on is
`FrameSent`: a candidate that passes for a frame ends with the CRC of a message that a peer sent, holds
that message, and is within the limit. `RadioTypes` adds to the types that the buffer holds no delimiter, and gives
`RadioTypesKept`.

`KeepsOrder` says nothing of bytes on their way. `OrderInv` does: the numbers of the messages of a peer rise
along it - the last one taken, those queued, those whose CRC is in the buffer, in the queue of the UART,
on the air - up to the last one sent (`OnTheWay`, `Chain`). A loss takes a number away, noise has none, and a
message is queued with the number of the CRC that closes it (`DrainsDelimiter`). This gives `OrderKept`.

`WholeStream` compares the candidates that the code has seen with the stream as a whole. `WholeInv` says what the
buffer is: the bytes from the last delimiter to the end of the stream or, when these are more than any
frame has, the last of them (`Held`). So a piece that is a frame is in the buffer when its delimiter comes
(`HeldFrame`), the limit takes away only what no frame reaches back to (`HeldCut`), and what is found ends
the piece that the delimiter closes, at a place behind all those before (`WholeDelimiter`). It holds byte by
byte, so also wherever a call ends (`DrainWhole`). This gives `StreamWhole`.

**I2cTargetSide_proofs.** A synchronisation calls hooks of the engine, and a hook may call the
handler, which waits, writes, or configures the target again before the hook has returned. `DInv`
holds at every place where a call may stop. Besides the types (`Typed`: sizes, calls properly
`Nested`) it says that the side, the engine and the pledge agree (`Agrees`): the byte on the bus is the one
promised, what is queued and not sent is what `write` accepted, and the next cell of a memory is that of
the address the controller sent (`Points`), even when the address was cut short. Each hook and each call
of the program has its lemma. `PromiseKept` follows. `TInv` adds that nothing is
pending while the callbacks are open (`Held`), and that what was not told is pending, or that a call in
progress is about to run the handler for it, every wait above coming back by itself (`Told`).
`EventsTold` follows. `TargetTypes` follows from `Typed`.

**I2cBus_proofs.** `BInv` adds to the types what a target has counted (`Fine`: as many bits as pulses,
a byte of the host waited for only between two bytes, nothing before the lines are known) and what a
master is by its phase (`Sane`: the lines it pulls, the segment it is in, the index within it).
Each operator of the target is stated as a lemma on all that it changes and leaves (`RiseFacts`,
`AcknowledgeFacts`, `NextByteFacts`, `FallFacts`, `SyncedFine`), each action of the master as a lemma
that it is `Progressed`: sane again, and with fewer quarters left (`Closer`). They give `BusTypes`,
`LinesLeft` and `TransactionEnds`, the last by arithmetic on bytes and bits for any width of a byte.

What a transaction does cannot be proved from where it starts and ends: `IInv` follows it bit by bit.
A target acts one synchronisation after the line moves, so between two actions of the master each of
them may still be an edge behind. For the phases of the master, `Wires` says which edge is on its way
(`ClockFalls`, `ClockLow`, `ClockRises`, `ClockHigh`, and SDA while the clock is high: `DataFalls`,
`DataRises`); `Places` says where a target is in its byte, with `e` the pulse it has counted and the
slot has not (`InByte`), and that one which did not see the clock fall is where the slot before left it
(`Early`); `Counts` ties the index, the counters and the bit on SDA to the request; `Books` ties what
each target took and gave (`Recorded`) and what the master read (`Reads`: bit by bit, the wired AND
of what those called sent) to that place; `Ends` and `Done` carry the story (`Story`) through the STOP to
the next request. The arguments go by action of the master (one lemma each: `StartGoesOn` to `FinishEnds`)
and, for a synchronisation, by edge (`SyncFell`, `SyncQuiet`) and by slot (`SetSync`, `LowSync`,
`SampleSync`). A transaction that something disturbed (`Foreign`, an exception) is only in `BInv`. They
give `SameStory`, `StopCloses` and `OnlyTheMasterFrames`: a false START needs an edge of SDA seen
while the clock is high, and `Wires` leaves one only where the master makes it.

**Only model-checked**: the liveness properties (liveness under fairness is out of reach of the
prover), and the types of the modules that only put components side by side.

## 5. Findings

Each is a run that TLC refutes, with the counterexample as its explanation; `PROJECT.json` quotes
the lines.

* `turn_finalizer` - `Timer.init`, `Timer.deinit` and `Pin.irq` drop a callback under `cs`
  (`pyruntime_timer.c:93`); a `__del__` that calls the shim then sleeps with `cs` held.
* `sync_wake` - a periodic timer masked for more than its period leaves a wake in the past
  (`pyruntime_sync.c:69`), which the `when` does not see before the tick.
* `sync_input` - an input transition during a callback does not end the sleep under it
  (`pyruntime_sync.c:154`), where `requirements.md:166` says it ends at once.
* `uart_start` - a UART configured again in the middle of a frame may take its low level for a
  start bit (`uartcore.c:68`).
* `i2c_done` - a callback that makes a transaction as the program's ends takes its wake
  (`pyruntime_i2c.c:410`): the program waits for ever, or reads the other's result.
* `mbit_end` - the scan of the LED matrix stops with the program (`pyruntime_matrix.c:103`, where
  `docs/fr/interne/microbit.md:58` and `pyruntime_microbit.c:54` say it goes on): its deadline is computed from a
  `sim_time` that no synchronisation sets any more, and the last one with a program publishes none.

Seen while reading, without a run: `power_loss` waits without a delay, so a program that catches
`SystemExit` stops the simulation when its supply goes (`pyruntime_module.c:831`, where
destruction gives up after a while, `:746`); a constructor that fails after `pyhost_ensure` never gives its
user of CPython back, so that CPython is never finalized (`pyruntime_module.c:654-657`, `:695-698`, `:702-705`, `:717`;
`devscript.c:197-258`), where `pyhost.c:25-27` says that each component gives it back and the last one finalizes;
a collision or an emission that ends within the first half bit of a frame does not lose that frame
(`uartcore.c:273`), where `radiomodem_engine.c:236-238` counts it as lost and `PartialRadioModem.mo:24` says that a frame arriving during
an emission is; what a decoder makes of a part of a frame is kept if its stop bit is high; callbacks collected together are called even if the first one stops or
masks the others (`pyruntime_sync.c:91`); `I2C.init` on other pins while the bus is kept leaves
the former ones driven low (`pyruntime_i2c.c:291`); a `deinit` from a callback leaves the program
that waits for a transaction without anything to wake it (`:440`), and if the callback then
raises, `i2c_abort` drives pin -1 (`:402`); a target cut off while it sends a 0 keeps SDA low and
every later transaction fails; a pin or timer callback of the same batch that sleeps or raises makes the handler of an `I2CTarget` run late
or never, so that the byte it owes is 0xFF and its answer serves the next request (`pyruntime_sync.c:91`, where `docs/en/guide/api.md:282` says it
"runs at the same simulated instant"); a handler called inside another's wait overwrites `irq_flags`, whose events the first then misses
(`pyruntime_sync.c:80`); after an incomplete memory address the next read uses it as it is, not modulo the size
(`pyruntime_i2ctarget.c:67-72`); `uart_init` on other pins never frees the claim of the former
receiving pin (`pyruntime_uart.c:145`); `radio.off` does not empty the queue of messages, because
its last line assigns a local variable (`microbit_shim.py:862`, modelled in `OffReturns`);
`radio.send` ends when the last byte has left for the modem, not when the frame "a quitté
l'antenne" (`microbit_shim.py:900`): the modem keeps each byte for `txDelay` at least and then for
a frame on the air; a frame that does not fit in the queue of the link is cut without a word
(`microbit_shim.py:898`); a full-duplex modem that transmits while several others do may take them
for one whose identifier is their mean (`PartialRadioModem.mo:129-130`); `show` and `scroll` with `wait=False` never draw
the first frame before the second, unless they loop (`microbit_shim.py:362`, `:370`); with `wait` and `loop`
the first frame is shown once only, and a single one loops without ever giving the turn (`:349-352`);
a callback that plays an animation while `_stop_anim` or the constructor of a `Timer` waits leaves a timer that ticks and that
nobody can stop (`:319-320`, `:365`); a callback that raises in the wait of `_stop_anim` (`pyruntime_timer.c:96`) leaves in `_timer` a slot
that is free (`microbit_shim.py:320`), and the next call of the display stops the Timer of the program that has taken it, as does a
callback that draws inside one that started that Timer during the wait (both are `exposed` in `Animation`); the `clear` at the end of an animation erases what a callback has shown meanwhile (`:375-377`); two `deinit` of one
Timer stop the timer that has taken its slot (`machine_time_shim.py:511`).

## 6. Not modelled, and why

* Values that nothing in the runtime reads back: levels driven, PWM, pulls, analogue values,
  texts. Layout, logging, warnings.
* Input and output: files (`pyruntime_fs.c`, analyser exports, `simoutput.c`), processes
  (`launch.c`), sockets of the debugger (`debug_host.py`), lookup of the Python library.
* Rounding of doubles: the tolerances `PYRUNTIME_EPS` and `UARTCORE_EPS` are 0 on integer time
  (but in `LedMatrix`).
* The continuous circuit: its effect is the order in which inputs and lines change, which is free.
* Memory given back too early (engines of the board after an abandoned join).
* Vendored code: CPython headers, debugpy.
* Of the micro:bit: the arguments the shim
  checks; what becomes of a pin that `display.off` released (`pin_released`; that it is set is modelled).
* The remaining engines (display channel, I2C devices,
  claims of UART pins, analyser): planned below.

Most of the Python files of the repository are the vendored debugger; the runtime itself is C and Modelica.

## 7. Plan

In this order; each with its properties, mutants and map entries. Small components share an MC
module and a run where they do not interact, so that the number of runs stays that of the
questions asked.

1. `TurnHandoff`, `TurnAlternation` and their proofs. *Done.*
2. `McuSync` and its proofs. *Done.*
3. `UartLink` and its proofs. *Done.*
4. `I2cBus`. *Done.*
5. `LedMatrix`, `RadioModem` with `RadioAir`, `RadioPackets`, `Animation`. *Done.*
6. `SerialDevice` and its proofs. *Done.*
7. `I2cTargetSide`. *Done.*
8. `UartSlots`, `DisplayLink`, `Analyzer`: small tables and queues.
