---------------------------- MODULE TurnHandoff ----------------------------
(***************************************************************************)
(* The turn protocol between the Modelica thread and the worker threads of *)
(* the microcontrollers: who runs, who waits, and on which lock.           *)
(*                                                                         *)
(* Every microcontroller m has a critical section cs[m], one condition     *)
(* variable (cv[m] is the set of threads asleep on it) and a turn flag.    *)
(* The interpreters of all the microcontrollers share one GIL, which the   *)
(* Modelica thread also takes when a peripheral is described by a script.  *)
(* The module follows these threads from the construction of the model     *)
(* (PyRuntime_new, worker_init) through the synchronisations (sync_impl,   *)
(* yield_until, power_loss) to the end (PyRuntime_destroy, pyhost_release).*)
(*                                                                         *)
(* What a program does between two calls of the shim, and the instant it   *)
(* asks to be woken at, are left open: only "at this instant" and "later"  *)
(* are told apart.  A section of C code that runs under cs without Python  *)
(* is one step, taken when cs is free.                                     *)
(***************************************************************************)
EXTENDS Naturals, FiniteSets

CONSTANTS
    Mcus,            \* the microcontrollers of the model (one worker each)
    NoMcu,           \* not a microcontroller: the Modelica thread is at none
    Swallowers,      \* those whose program catches SystemExit and goes on
    Threaded,        \* those whose program may leave a Python thread of its own
    Finalizers,      \* those whose callbacks own an object with a __del__
                     \* that calls the shim
    HasDevice,       \* is there a peripheral described by a Python script?
    SpuriousWakeups  \* may a condition variable wake a thread by itself?

ASSUME TurnHandoffAssumption ==
    /\ IsFiniteSet(Mcus)
    /\ NoMcu \notin Mcus
    /\ "free" \notin Mcus /\ "M" \notin Mcus
    /\ Swallowers \subseteq Mcus
    /\ Threaded \subseteq Mcus
    /\ Finalizers \subseteq Mcus
    /\ HasDevice \in BOOLEAN
    /\ SpuriousWakeups \in BOOLEAN

VARIABLES
    pcM,         \* where the Modelica thread is
    cur,         \* the microcontroller it is working on
    pcW,         \* where each worker is
    cs,          \* owner of each critical section: "free" or "W" (the worker)
    gil,         \* owner of the GIL: "free", "M" or a microcontroller
    cv,          \* threads asleep on each condition variable
    turn,        \* whose turn it is: "modelica" or "worker"
    wake,        \* wake requested by the worker: "none", "due" or "later"
    init,        \* init_state
    started,     \* the first powered synchronisation has happened
    done,        \* script_done
    err,         \* script_error
    halted,      \* supply lost, the program must unwind
    poweredOff,  \* powered_off
    shutdown,    \* end of the simulation for this microcontroller
    nested,      \* the worker waits from a finalizer run under cs
    ran,         \* history: the program has executed
    device,      \* the script of the peripheral: "none", "loaded" or "gone"
    users,       \* g_pyhost_users
    abandoned,   \* g_pyhost_abandoned
    finalized,   \* Py_FinalizeEx has been called
    orphaned     \* history: a constructor failed once it was counted in users

flags    == <<init, started, done, err, halted, poweredOff, shutdown>>
host     == <<device, users, abandoned, finalized, orphaned>>
modelica == <<pcM, cur>>
vars     == <<modelica, pcW, cs, gil, cv, turn, wake, flags, nested, ran, host>>

Bool == [Mcus -> BOOLEAN]

TypeOK ==
    /\ pcM \in {"build", "new", "newwait", "idle", "sync", "drain", "loss",
                "devgil", "device", "destroy", "join", "release", "final", "end"}
    /\ cur \in Mcus \cup {NoMcu}
    /\ pcW \in [Mcus -> {"none", "initgil", "initrun", "initok", "initfail",
                         "first", "firstgil", "run", "regil", "clear", "yield",
                         "parked", "ygil", "finish", "idle", "endgil", "ending",
                         "exited"}]
    /\ cs \in [Mcus -> {"free", "W"}]
    /\ gil \in {"free", "M"} \cup Mcus
    /\ cv \in [Mcus -> SUBSET {"M", "W"}]
    /\ turn \in [Mcus -> {"modelica", "worker"}]
    /\ wake \in [Mcus -> {"none", "due", "later"}]
    /\ init \in [Mcus -> {"pending", "ok", "failed"}]
    /\ started \in Bool /\ done \in Bool /\ err \in Bool /\ halted \in Bool
    /\ poweredOff \in Bool /\ shutdown \in Bool /\ nested \in Bool /\ ran \in Bool
    /\ device \in {"none", "loaded", "gone"}
    /\ users \in Nat
    /\ abandoned \in BOOLEAN /\ finalized \in BOOLEAN /\ orphaned \in BOOLEAN

Init ==
    /\ pcM = "build" /\ cur = NoMcu
    /\ pcW = [m \in Mcus |-> "none"]
    /\ cs = [m \in Mcus |-> "free"]
    /\ gil = "free"
    /\ cv = [m \in Mcus |-> {}]
    /\ turn = [m \in Mcus |-> "modelica"]
    /\ wake = [m \in Mcus |-> "none"]
    /\ init = [m \in Mcus |-> "pending"]
    /\ started = [m \in Mcus |-> FALSE]
    /\ done = [m \in Mcus |-> FALSE]
    /\ err = [m \in Mcus |-> FALSE]
    /\ halted = [m \in Mcus |-> FALSE]
    /\ poweredOff = [m \in Mcus |-> FALSE]
    /\ shutdown = [m \in Mcus |-> FALSE]
    /\ nested = [m \in Mcus |-> FALSE]
    /\ ran = [m \in Mcus |-> FALSE]
    /\ device = "none"
    /\ users = 0
    /\ abandoned = FALSE
    /\ finalized = FALSE
    /\ orphaned = FALSE

-----------------------------------------------------------------------------
(* Condition variables.                                                     *)

\* WakeConditionVariable: at most one sleeping thread is woken, any of them.
NoSignal(S) == {S}                                                   \* mutant
WakeOne(S) == IF S = {} THEN {S} ELSE {S \ {t} : t \in S}

\* Thread t is asleep on cv[m] or, once woken, waits for cs[m] to look again.
Asleep(m, t) == t \in cv[m]
MayEnter(m, t) == cs[m] = "free" /\ t \notin cv[m]
Sleep(m, t) == cv' = [cv EXCEPT ![m] = @ \cup {t}]

SpuriousWake(m, t) ==
    /\ SpuriousWakeups
    /\ Asleep(m, t)
    /\ cv' = [cv EXCEPT ![m] = @ \ {t}]
    /\ UNCHANGED <<modelica, pcW, cs, gil, turn, wake, flags, nested, ran, host>>

-----------------------------------------------------------------------------
(* The Modelica thread: construction of the model.                          *)

\* PyRuntime_new: CPython is started and counted (pyhost_ensure).
New(m) ==
    /\ pcM = "build" /\ pcW[m] = "none"
    /\ users' = users + 1
    /\ pcM' = "new" /\ cur' = m
    /\ UNCHANGED <<pcW, cs, gil, cv, turn, wake, flags, nested, ran,
                   device, abandoned, finalized, orphaned>>

\* A constructor that fails stops the simulation (ModelicaFormatError): the
\* components already built are destroyed.  It has returned no handle, so
\* nobody will give back the user that pyhost_ensure counted for it.
Fails == pcM' = "destroy" /\ cur' = NoMcu /\ orphaned' = TRUE
\* It registers the explanatory machine module under the GIL, then starts the
\* worker, unless a file of the shim cannot be read or there is no thread.
StartWorker ==
    /\ pcM = "new" /\ gil = "free"
    /\ \/ /\ pcW' = [pcW EXCEPT ![cur] = "initgil"]
          /\ pcM' = "newwait"
          /\ UNCHANGED <<cur, orphaned>>
       \/ Fails /\ UNCHANGED pcW
    /\ UNCHANGED <<cs, gil, cv, turn, wake, flags, nested, ran,
                   device, users, abandoned, finalized>>

\* It waits for the outcome of the initialisation.
AwaitInit ==
    /\ pcM = "newwait" /\ MayEnter(cur, "M")
    /\ \/ init[cur] = "pending" /\ Sleep(cur, "M") /\ UNCHANGED <<modelica, orphaned>>
       \/ /\ init[cur] = "ok" /\ pcM' = "build" /\ cur' = NoMcu
          /\ UNCHANGED <<cv, orphaned>>
       \/ init[cur] = "failed" /\ Fails /\ UNCHANGED cv
    /\ UNCHANGED <<pcW, cs, gil, turn, wake, flags, nested, ran,
                   device, users, abandoned, finalized>>

\* devscript_load: CPython is started and counted, then the peripheral's script
\* is compiled and executed under the GIL, and may raise.
NewDevice ==
    /\ pcM = "build" /\ HasDevice /\ device = "none"
    /\ gil = "free"
    /\ users' = users + 1
    /\ \/ device' = "loaded" /\ UNCHANGED <<modelica, orphaned>>
       \/ Fails /\ UNCHANGED device
    /\ UNCHANGED <<pcW, cs, gil, cv, turn, wake, flags, nested, ran,
                   abandoned, finalized>>

Built ==
    /\ pcM = "build"
    /\ \A m \in Mcus : init[m] = "ok"
    /\ HasDevice => device = "loaded"
    /\ pcM' = "idle"
    /\ UNCHANGED <<cur, pcW, cs, gil, cv, turn, wake, flags, nested, ran, host>>

-----------------------------------------------------------------------------
(* The Modelica thread: one synchronisation, sync_impl.                     *)

\* First powered synchronisation: the program may start.
SyncStart(m) ==
    /\ pcM = "idle" /\ cs[m] = "free"
    /\ ~poweredOff[m] /\ ~started[m]
    /\ started' = [started EXCEPT ![m] = TRUE]
    /\ pcM' = "sync" /\ cur' = m
    /\ UNCHANGED <<pcW, cs, gil, cv, turn, wake, init, done, err, halted,
                   poweredOff, shutdown, nested, ran, host>>

\* A later powered one.  An unpowered microcontroller (never started, or off
\* for good) returns at once and changes nothing.
SyncPowered(m) ==
    /\ pcM = "idle"
    /\ ~poweredOff[m] /\ started[m]
    /\ pcM' = "sync" /\ cur' = m
    /\ UNCHANGED <<pcW, cs, gil, cv, turn, wake, flags, nested, ran, host>>

\* The supply is lost: power_loss makes the program unwind and waits for its
\* end, or has nothing to stop.
SupplyLost(m) ==
    /\ pcM = "idle" /\ cs[m] = "free"
    /\ ~poweredOff[m] /\ started[m]
    /\ IF done[m]
         THEN /\ poweredOff' = [poweredOff EXCEPT ![m] = TRUE]
              /\ UNCHANGED <<modelica, halted, turn, cv>>
         ELSE /\ halted' = [halted EXCEPT ![m] = TRUE]
              /\ turn' = [turn EXCEPT ![m] = "worker"]
              /\ \E S \in WakeOne(cv[m]) : cv' = [cv EXCEPT ![m] = S \cup {"M"}]
              /\ pcM' = "loss" /\ cur' = m
              /\ UNCHANGED poweredOff
    /\ UNCHANGED <<pcW, cs, gil, wake, init, started, done, err, shutdown,
                   nested, ran, host>>

\* The wait of power_loss: no timeout.
AwaitUnwound ==
    /\ pcM = "loss" /\ MayEnter(cur, "M")
    /\ IF done[cur]
         THEN /\ poweredOff' = [poweredOff EXCEPT ![cur] = TRUE]
              /\ pcM' = "idle" /\ cur' = NoMcu
              /\ UNCHANGED cv
         ELSE Sleep(cur, "M") /\ UNCHANGED <<modelica, poweredOff>>
    /\ UNCHANGED <<pcW, cs, gil, turn, wake, init, started, done, err, halted,
                   shutdown, nested, ran, host>>

\* Top of the drain loop: the worker gets the turn, the Modelica thread sleeps.
HandOver(m) ==
    /\ turn' = [turn EXCEPT ![m] = "worker"]
    /\ \E S \in WakeOne(cv[m]) : cv' = [cv EXCEPT ![m] = S \cup {"M"}]

\* How a synchronisation ends: ModelicaFormatError when the program failed.
IgnoreError == "idle"                                                \* mutant
AfterSync == IF err[cur] THEN "destroy" ELSE "idle"

\* Program over: read without the lock, only the peripherals advance.
SyncScriptDone ==
    /\ pcM = "sync" /\ done[cur]
    /\ pcM' = "idle" /\ cur' = NoMcu
    /\ UNCHANGED <<pcW, cs, gil, cv, turn, wake, flags, nested, ran, host>>

\* The worker asked for nothing yet, or for this instant; a wake asked for
\* later may have come, or an input, a timer or an I2C event forces a pit stop.
SyncDrain ==
    /\ pcM = "sync" /\ ~done[cur] /\ cs[cur] = "free"
    /\ HandOver(cur)
    /\ pcM' = "drain"
    /\ UNCHANGED <<cur, pcW, cs, gil, wake, flags, nested, ran, host>>

SyncRefresh ==
    /\ pcM = "sync" /\ ~done[cur] /\ cs[cur] = "free"
    /\ wake[cur] = "later"
    /\ pcM' = AfterSync /\ cur' = NoMcu
    /\ UNCHANGED <<pcW, cs, gil, cv, turn, wake, flags, nested, ran, host>>

\* Back in the drain loop, cs retaken: wait again, hand over again when the
\* worker wants to continue at this instant, or leave the synchronisation.
Drain ==
    /\ pcM = "drain" /\ MayEnter(cur, "M")
    /\ \/ /\ turn[cur] = "worker"
          /\ Sleep(cur, "M") /\ UNCHANGED <<modelica, turn>>
       \/ /\ turn[cur] = "modelica"
          /\ ~done[cur] /\ ~err[cur] /\ wake[cur] = "due"
          /\ HandOver(cur) /\ UNCHANGED modelica
       \/ /\ turn[cur] = "modelica"
          /\ done[cur] \/ err[cur] \/ wake[cur] # "due"
          /\ pcM' = AfterSync /\ cur' = NoMcu
          /\ UNCHANGED <<turn, cv>>
    /\ UNCHANGED <<pcW, cs, gil, wake, flags, nested, ran, host>>

-----------------------------------------------------------------------------
(* The Modelica thread: a peripheral's script, and the end of everything.   *)

\* The synchronisation of a scripted peripheral wants the GIL ...
DeviceSync ==
    /\ pcM = "idle" /\ device = "loaded"
    /\ pcM' = "devgil"
    /\ UNCHANGED <<cur, pcW, cs, gil, cv, turn, wake, flags, nested, ran, host>>

DeviceEnter ==
    /\ pcM = "devgil" /\ gil = "free"
    /\ gil' = "M" /\ pcM' = "device"
    /\ UNCHANGED <<cur, pcW, cs, cv, turn, wake, flags, nested, ran, host>>

\* ... and gives it back.
DeviceLeave ==
    /\ pcM = "device"
    /\ gil' = "free" /\ pcM' = "idle"
    /\ UNCHANGED <<cur, pcW, cs, cv, turn, wake, flags, nested, ran, host>>

\* End of the simulation, or an error of some component (also while building).
Terminate ==
    /\ pcM \in {"build", "idle"}
    /\ pcM' = "destroy"
    /\ UNCHANGED <<cur, pcW, cs, gil, cv, turn, wake, flags, nested, ran, host>>

DestroySilently(m) ==                                                \* mutant
    /\ pcM = "destroy" /\ cs[m] = "free"
    /\ init[m] = "ok" /\ ~shutdown[m]
    /\ shutdown' = [shutdown EXCEPT ![m] = TRUE]
    /\ pcM' = "join" /\ cur' = m
    /\ UNCHANGED <<pcW, cs, gil, cv, turn, wake, init, started, done, err, halted,
                   poweredOff, nested, ran, host>>

\* PyRuntime_destroy, of a handle PyRuntime_new returned: everybody is woken.
Destroy(m) ==
    /\ pcM = "destroy" /\ cs[m] = "free"
    /\ init[m] = "ok" /\ ~shutdown[m]
    /\ shutdown' = [shutdown EXCEPT ![m] = TRUE]
    /\ cv' = [cv EXCEPT ![m] = {}]
    /\ pcM' = "join" /\ cur' = m
    /\ UNCHANGED <<pcW, cs, gil, turn, wake, init, started, done, err, halted,
                   poweredOff, nested, ran, host>>

Join ==
    /\ pcM = "join" /\ pcW[cur] = "exited"
    /\ pcM' = "release" /\ cur' = NoMcu
    /\ UNCHANGED <<pcW, cs, gil, cv, turn, wake, flags, nested, ran, host>>

JoinForever == FALSE                                                 \* mutant

JoinTimeoutUncounted ==                                              \* mutant
    /\ pcM = "join" /\ pcW[cur] # "exited"
    /\ pcM' = "release" /\ cur' = NoMcu
    /\ UNCHANGED <<pcW, cs, gil, cv, turn, wake, flags, nested, ran, host>>

JoinTimeoutReleases ==                                               \* mutant
    /\ pcM = "join" /\ pcW[cur] # "exited"
    /\ abandoned' = TRUE /\ users' = users - 1
    /\ pcM' = "release" /\ cur' = NoMcu
    /\ UNCHANGED <<pcW, cs, gil, cv, turn, wake, flags, nested, ran,
                   device, finalized, orphaned>>

\* SHUTDOWN_WAIT_MS elapsed: the worker is left alone, CPython never finalized.
JoinTimeout ==
    /\ pcM = "join" /\ pcW[cur] # "exited"
    /\ abandoned' = TRUE
    /\ pcM' = "release" /\ cur' = NoMcu
    /\ UNCHANGED <<pcW, cs, gil, cv, turn, wake, flags, nested, ran,
                   device, users, finalized, orphaned>>

\* pyhost_release: the last user finalizes CPython, unless it is abandoned.
MustFinalize(left) == left = 0 /\ ~abandoned

Release ==
    /\ pcM = "release"
    /\ users' = users - 1
    /\ pcM' = IF MustFinalize(users') THEN "final" ELSE "destroy"
    /\ UNCHANGED <<cur, pcW, cs, gil, cv, turn, wake, flags, nested, ran,
                   device, abandoned, finalized, orphaned>>

Finalize ==
    /\ pcM = "final" /\ gil = "free"
    /\ finalized' = TRUE
    /\ pcM' = "destroy"
    /\ UNCHANGED <<cur, pcW, cs, gil, cv, turn, wake, flags, nested, ran,
                   device, users, abandoned, orphaned>>

DestroyDeviceKeepsUser ==                                            \* mutant
    /\ pcM = "destroy" /\ device = "loaded"
    /\ abandoned \/ gil = "free"
    /\ device' = "gone"
    /\ UNCHANGED <<modelica, pcW, cs, gil, cv, turn, wake, flags, nested, ran,
                   users, abandoned, finalized, orphaned>>

\* devscript_unload: references dropped under the GIL, unless abandoned.
DestroyDevice ==
    /\ pcM = "destroy" /\ device = "loaded"
    /\ abandoned \/ gil = "free"
    /\ device' = "gone"
    /\ pcM' = "release"
    /\ UNCHANGED <<cur, pcW, cs, gil, cv, turn, wake, flags, nested, ran,
                   users, abandoned, finalized, orphaned>>

End ==
    /\ pcM = "destroy" /\ device # "loaded"
    /\ \A m \in Mcus : init[m] = "ok" => shutdown[m]
    /\ pcM' = "end"
    /\ UNCHANGED <<cur, pcW, cs, gil, cv, turn, wake, flags, nested, ran, host>>

-----------------------------------------------------------------------------
(* The worker of m: initialisation and first turn, worker_main.             *)

MoveW(m, from, to) == pcW[m] = from /\ pcW' = [pcW EXCEPT ![m] = to]
TakeGil(m) == gil = "free" /\ gil' = m
DropGil(m) == gil = m /\ gil' = "free"

InitEnter(m) ==
    /\ MoveW(m, "initgil", "initrun") /\ TakeGil(m)
    /\ UNCHANGED <<modelica, cs, cv, turn, wake, flags, nested, ran, host>>

\* worker_init returns holding the GIL on success, without it on failure.
InitLeave(m) ==
    /\ \/ MoveW(m, "initrun", "initok") /\ UNCHANGED gil
       \/ MoveW(m, "initrun", "initfail") /\ DropGil(m)
    /\ UNCHANGED <<modelica, cs, cv, turn, wake, flags, nested, ran, host>>

\* The outcome is published to PyRuntime_new; on success the GIL is released
\* next, for the wait of the first turn.
PostInit(m) ==
    /\ cs[m] = "free"
    /\ \/ /\ MoveW(m, "initok", "first") /\ DropGil(m)
          /\ init' = [init EXCEPT ![m] = "ok"]
       \/ /\ MoveW(m, "initfail", "exited") /\ UNCHANGED gil
          /\ init' = [init EXCEPT ![m] = "failed"]
    /\ cv' = [cv EXCEPT ![m] = {}]
    /\ UNCHANGED <<modelica, cs, turn, wake, started, done, err, halted,
                   poweredOff, shutdown, nested, ran, host>>

FirstTurn(m) ==
    /\ pcW[m] = "first" /\ MayEnter(m, "W")
    /\ IF turn[m] = "worker" \/ shutdown[m]
         THEN MoveW(m, "first", "firstgil") /\ UNCHANGED cv
         ELSE Sleep(m, "W") /\ UNCHANGED pcW
    /\ UNCHANGED <<modelica, cs, gil, turn, wake, flags, nested, ran, host>>

\* The program runs, except on a board that was never powered.
Begin(m) ==
    /\ TakeGil(m)
    /\ IF shutdown[m] /\ ~started[m]
         THEN MoveW(m, "firstgil", "finish") /\ UNCHANGED ran
         ELSE MoveW(m, "firstgil", "run") /\ ran' = [ran EXCEPT ![m] = TRUE]
    /\ UNCHANGED <<modelica, cs, cv, turn, wake, flags, nested, host>>

-----------------------------------------------------------------------------
(* The worker of m: the program, and its synchronisation point yield_until. *)

StoppingAtEndOnly(m) == shutdown[m]                                   \* mutant
Stopping(m) == shutdown[m] \/ halted[m]

\* CPython lets another thread have the GIL between two bytecodes.
GilSwitch(m) ==
    /\ MoveW(m, "run", "regil") /\ DropGil(m)
    /\ UNCHANGED <<modelica, cs, cv, turn, wake, flags, nested, ran, host>>

\* A native that replaces or drops a callback does it under cs: Timer.init,
\* Timer.deinit, Pin.irq.
ClearCallback(m) ==
    /\ cs[m] = "free" /\ gil = m
    /\ MoveW(m, "run", "clear")
    /\ cs' = [cs EXCEPT ![m] = "W"]
    /\ UNCHANGED <<modelica, gil, cv, turn, wake, flags, nested, ran, host>>

CallbackCleared(m) ==
    /\ gil = m
    /\ MoveW(m, "clear", "run")
    /\ cs' = [cs EXCEPT ![m] = "free"]
    /\ UNCHANGED <<modelica, gil, cv, turn, wake, flags, nested, ran, host>>

\* The last reference went: its finalizer, Python code, calls the shim and
\* enters yield_until while cs is held.
Finalizer(m) ==
    /\ m \in Finalizers
    /\ MoveW(m, "clear", "yield") /\ DropGil(m)
    /\ nested' = [nested EXCEPT ![m] = TRUE]
    /\ UNCHANGED <<modelica, cs, cv, turn, wake, flags, ran, host>>

\* yield_until: the GIL is released before cs is entered ...
Yield(m) ==
    /\ MoveW(m, "run", "yield") /\ DropGil(m)
    /\ UNCHANGED <<modelica, cs, cv, turn, wake, flags, nested, ran, host>>

\* cs is recursive: from a finalizer, the worker enters the one it owns, and
\* the wait gives back one level only, the worker still owns it.
MayReenter(m) ==
    /\ cs[m] = IF nested[m] THEN "W" ELSE "free"
    /\ ~Asleep(m, "W")

\* ... the wake is posted and the turn given back, unless the program is
\* being stopped: then it does not wait.
Post(m, w) ==
    /\ MayReenter(m) /\ ~Stopping(m)
    /\ MoveW(m, "yield", "parked")
    /\ wake' = [wake EXCEPT ![m] = w]
    /\ turn' = [turn EXCEPT ![m] = "modelica"]
    /\ \E S \in WakeOne(cv[m]) : cv' = [cv EXCEPT ![m] = S \cup {"W"}]
    /\ UNCHANGED <<modelica, cs, gil, flags, nested, ran, host>>

NoPost(m) ==
    /\ MayReenter(m) /\ Stopping(m)
    /\ MoveW(m, "yield", "ygil")
    /\ UNCHANGED <<modelica, cs, gil, cv, turn, wake, flags, nested, ran, host>>

ResumeUnchecked(m) ==                                                \* mutant
    /\ MayReenter(m)
    /\ MoveW(m, "parked", "ygil")
    /\ UNCHANGED <<modelica, cs, gil, cv, turn, wake, flags, nested, ran, host>>

\* The wait: left only when the turn came, or the program is being stopped.
Resume(m) ==
    /\ pcW[m] = "parked" /\ MayReenter(m)
    /\ IF turn[m] = "worker" \/ Stopping(m)
         THEN MoveW(m, "parked", "ygil") /\ UNCHANGED cv
         ELSE Sleep(m, "W") /\ UNCHANGED pcW
    /\ UNCHANGED <<modelica, cs, gil, turn, wake, flags, nested, ran, host>>

\* The GIL is retaken after cs was left; callbacks and the program go on (or
\* SystemExit starts to unwind them).
RetakeGil(m) ==
    /\ TakeGil(m)
    /\ \/ MoveW(m, "regil", "run") /\ UNCHANGED nested
       \/ /\ MoveW(m, "ygil", IF nested[m] THEN "clear" ELSE "run")
          /\ nested' = [nested EXCEPT ![m] = FALSE]
    /\ UNCHANGED <<modelica, cs, cv, turn, wake, flags, ran, host>>

\* The program returns, is unwound by SystemExit, or fails with an exception.
Finish(m, failed) ==
    /\ gil = m
    /\ MoveW(m, "run", "finish")
    /\ err' = [err EXCEPT ![m] = @ \/ failed]
    /\ UNCHANGED <<modelica, cs, gil, cv, turn, wake, init, started, done, halted,
                   poweredOff, shutdown, nested, ran, host>>

\* script_done is published, the turn given back, and the GIL released.
ScriptDone(m) ==
    /\ MoveW(m, "finish", "idle") /\ cs[m] = "free" /\ DropGil(m)
    /\ done' = [done EXCEPT ![m] = TRUE]
    /\ turn' = [turn EXCEPT ![m] = "modelica"]
    /\ \E S \in WakeOne(cv[m]) : cv' = [cv EXCEPT ![m] = S]
    /\ UNCHANGED <<modelica, cs, wake, init, started, err, halted, poweredOff,
                   shutdown, nested, ran, host>>

\* The worker stays parked until the end of the simulation ...
AwaitShutdown(m) ==
    /\ pcW[m] = "idle" /\ MayEnter(m, "W")
    /\ IF shutdown[m]
         THEN MoveW(m, "idle", "endgil") /\ UNCHANGED cv
         ELSE Sleep(m, "W") /\ UNCHANGED pcW
    /\ UNCHANGED <<modelica, cs, gil, turn, wake, flags, nested, ran, host>>

\* ... then ends its sub-interpreter, unless another Python thread lives there
\* still.
EndEnter(m) ==
    /\ MoveW(m, "endgil", "ending") /\ TakeGil(m)
    /\ UNCHANGED <<modelica, cs, cv, turn, wake, flags, nested, ran, host>>

EndInterpreter(m) ==
    /\ MoveW(m, "ending", "exited") /\ DropGil(m)
    /\ abandoned' \in {abandoned, abandoned \/ (m \in Threaded)}
    /\ UNCHANGED <<modelica, cs, cv, turn, wake, flags, nested, ran,
                   device, users, finalized, orphaned>>

-----------------------------------------------------------------------------

\* The process is about to exit: nothing is left to do on the Modelica side.
Ended == pcM = "end" /\ UNCHANGED vars

ModelicaStep ==
    \/ \E m \in Mcus : New(m) \/ SyncStart(m) \/ SyncPowered(m) \/ SupplyLost(m)
                       \/ Destroy(m)
    \/ StartWorker \/ AwaitInit \/ NewDevice \/ Built
    \/ AwaitUnwound \/ SyncScriptDone \/ SyncDrain \/ SyncRefresh \/ Drain
    \/ DeviceSync \/ DeviceEnter \/ DeviceLeave
    \/ Terminate \/ Join \/ JoinTimeout \/ Release \/ Finalize \/ DestroyDevice
    \/ End

WorkerStep(m) ==
    \/ InitEnter(m) \/ InitLeave(m) \/ PostInit(m) \/ FirstTurn(m) \/ Begin(m)
    \/ GilSwitch(m) \/ ClearCallback(m) \/ CallbackCleared(m) \/ Finalizer(m)
    \/ Yield(m) \/ NoPost(m) \/ Resume(m) \/ RetakeGil(m)
    \/ \E w \in {"due", "later"} : Post(m, w)
    \/ \E failed \in BOOLEAN : Finish(m, failed)
    \/ ScriptDone(m) \/ AwaitShutdown(m) \/ EndEnter(m) \/ EndInterpreter(m)

Next ==
    \/ ModelicaStep
    \/ \E m \in Mcus : WorkerStep(m)
    \/ \E m \in Mcus, t \in {"M", "W"} : SpuriousWake(m, t)
    \/ Ended

Spec == Init /\ [][Next]_vars

-----------------------------------------------------------------------------
(* Fairness.  The operating system runs every thread that can run and gives *)
(* a free lock to each of those that keep asking for it; CPython hands its  *)
(* GIL over on request.  Of the program: it calls the shim or ends, it      *)
(* does not act for ever at one instant, and once stopped it unwinds -      *)
(* unless it catches SystemExit.                                            *)

ModelicaProgress ==
    /\ WF_vars(\/ AwaitInit \/ AwaitUnwound \/ SyncScriptDone \/ SyncDrain
               \/ SyncRefresh \/ Drain \/ DeviceLeave \/ Join \/ JoinTimeout
               \/ Release \/ End \/ \E m \in Mcus : Destroy(m))
    /\ SF_vars(StartWorker \/ DeviceEnter \/ Finalize \/ DestroyDevice)

WorkerProgress(m) ==
    /\ WF_vars(\/ InitLeave(m) \/ PostInit(m) \/ FirstTurn(m) \/ CallbackCleared(m)
               \/ NoPost(m) \/ Resume(m) \/ ScriptDone(m) \/ AwaitShutdown(m)
               \/ EndInterpreter(m) \/ \E w \in {"due", "later"} : Post(m, w))
    /\ SF_vars(InitEnter(m) \/ Begin(m) \/ RetakeGil(m) \/ EndEnter(m))

ProgramProgress(m) ==
    /\ SF_vars(Yield(m) \/ \E failed \in BOOLEAN : Finish(m, failed))
    /\ SF_vars(Post(m, "later"))
    /\ m \notin Swallowers =>
         SF_vars(Stopping(m) /\ \E failed \in BOOLEAN : Finish(m, failed))

FairSpec ==
    /\ Spec
    /\ ModelicaProgress
    /\ \A m \in Mcus : WorkerProgress(m) /\ ProgramProgress(m)

-----------------------------------------------------------------------------
(* Safety.                                                                  *)

\* The worker is between the moment it saw its turn and the moment it gives
\* it back: it runs Python, or is about to.
Active(m) == pcW[m] \in {"firstgil", "run", "regil", "clear", "yield", "ygil", "finish"}

\* One thread at a time: until its simulation ends, a program only runs while
\* the Modelica thread sleeps in the drain loop (or in power_loss) of that very
\* microcontroller - so the natives may use the state of the handle, and
\* sync_impl may read script_done and the peripherals, without a lock.
Alternation ==
    \A m \in Mcus : Active(m) /\ ~shutdown[m] =>
        turn[m] = "worker" /\ cur = m /\ pcM \in {"drain", "loss"}

\* What a sleeping thread waits for.
Awaited(m, t) ==
    IF t = "M"
      THEN \/ pcM = "newwait" /\ init[m] # "pending"
           \/ pcM = "drain" /\ turn[m] = "modelica"
           \/ pcM = "loss" /\ done[m]
      ELSE \/ pcW[m] = "first" /\ (turn[m] = "worker" \/ shutdown[m])
           \/ pcW[m] = "parked" /\ (turn[m] = "worker" \/ Stopping(m))
           \/ pcW[m] = "idle" /\ shutdown[m]

\* No lost wake-up: nobody stays asleep on the condition variable when what it
\* waits for is there, although turn, init_state, script_done, halted and
\* shutdown all share one variable and most signals wake a single thread.
NoLostWakeup ==
    \A m \in Mcus : \A t \in cv[m] : ~Awaited(m, t)

\* Lock order (comment of yield_until): no worker asks for the GIL, or sleeps,
\* while it owns cs.
LockOrder ==
    \A m \in Mcus : pcW[m] \in {"firstgil", "regil", "ygil", "endgil", "parked"} =>
        cs[m] = "free"

\* CPython is finalized under nobody: every worker has ended its interpreter
\* and the peripheral's script is unloaded (pyhost_release).
FinalizedAlone ==
    finalized => /\ \A m \in Mcus : pcW[m] \in {"none", "exited"}
                 /\ device # "loaded"

\* What was built: the components that hold a user and will be destroyed.
BuiltAny == device # "none" \/ \E m \in Mcus : init[m] = "ok"

\* CPython is finalized by the end of the simulation exactly when something was
\* built, nobody was abandoned, and no constructor failed after it was counted:
\* on no other path to the end is a user of CPython lost, or given back twice
\* (g_pyhost_users, pyhost_release).
CleanEnd ==
    pcM = "end" => (finalized <=> BuiltAny /\ ~abandoned /\ ~orphaned)

\* A board that was never powered never runs its program, and one that lost
\* its supply never runs it again.
PoweredToRun ==
    \A m \in Mcus : /\ ran[m] => started[m]
                    /\ poweredOff[m] => ~Active(m) /\ done[m]

\* A failing program stops the simulation: its error is never overwritten by
\* a synchronisation that succeeds, unless the program was being stopped.
ErrorStops ==
    \A m \in Mcus : done[m] /\ err[m] /\ ~Stopping(m) =>
        pcM \in {"drain", "destroy", "join", "release", "final", "end"}

\* Once a worker is abandoned, no later component finalizes CPython under it.
AbandonedForGood == [][abandoned => finalized' = finalized]_vars

-----------------------------------------------------------------------------
(* Liveness, under FairSpec.                                                *)

\* A worker sleeps inside a finalizer, the critical section still its own (see
\* LockOrder): nothing moves any more, and nothing is promised.
Frozen == \E m \in Mcus : nested[m] /\ pcW[m] = "parked"

\* A synchronisation returns, whatever wakes, posts and GIL switches it takes.
SyncReturns == pcM = "drain" ~> pcM # "drain" \/ Frozen

\* The synchronisation that sees the supply go returns too, the program being
\* unwound by SystemExit "as at the end of the simulation" - unless it catches
\* SystemExit: power_loss waits for it with no limit.
PowerLossReturns == pcM = "loss" /\ cur \notin Swallowers ~> pcM # "loss" \/ Frozen

\* The process ends, even with a program that never stops.
EndReached == pcM = "destroy" ~> pcM = "end" \/ Frozen

\* A program that lets SystemExit through ends and its worker exits, even if
\* the Modelica thread gave up on it.
WorkerExits == \A m \in Mcus \ Swallowers : shutdown[m] ~> pcW[m] = "exited" \/ Frozen

-----------------------------------------------------------------------------
(* The abstract promise, under a refinement mapping.                        *)

\* The turn of m is out: given, and neither given back nor kept by the end.
Handed(m) ==
    /\ cur = m /\ pcM \in {"drain", "loss"}
    /\ turn[m] = "worker"

Holder == IF \E m \in Mcus : Handed(m) THEN cur ELSE "M"

Phase ==
    [m \in Mcus |->
        IF init[m] # "ok" THEN "unborn"
        ELSE IF pcW[m] = "exited" THEN "gone"
        ELSE IF shutdown[m] THEN "released"
        ELSE IF done[m] THEN "over" ELSE "alive"]

Turns == INSTANCE TurnAlternation WITH
            Modelica <- "M", holder <- Holder, phase <- Phase

\* The protocol implements turns taken one at a time.
TakesTurns == Turns!Spec
=============================================================================
