------------------------------ MODULE McuSync ------------------------------
(***************************************************************************)
(* The synchronisations of one powered microcontroller in simulated time:  *)
(* when the Modelica `when` calls PyRuntime_sync, what sync_impl decides,  *)
(* how yield_until and run_due_callbacks nest the waits of the program and *)
(* of its Timer and Pin.irq callbacks, and the next wake they publish.     *)
(*                                                                         *)
(* TurnHandoff shows that the two threads take turns: here a turn is a     *)
(* phase.  Time counts in steps of the smallest duration of interest; the  *)
(* tolerance PYRUNTIME_EPS, which absorbs the rounding of doubles, is 0.   *)
(* Pins and timers are numbered in the order in which the code visits them.*)
(* What the program computes is left open: any native may be called, in a  *)
(* callback as in the main program.  Supply and end of simulation are in   *)
(* TurnHandoff.                                                            *)
(***************************************************************************)
EXTENDS Naturals, Sequences

CONSTANTS
    Pins, Timers,  \* disjoint sets of numbers
    Periods,       \* periods of timers (at least TIMER_MIN_PERIOD, not 0)
    Durations,     \* arguments of sleep
    Triggers,      \* sets of edges given to Pin.irq ({}: no handler)
    GpioOpTime,    \* duration of an access to a pin
    TickPeriod,    \* period of the Modelica tick
    MaxTime,       \* bound: simulated time stops there
    MaxDepth       \* bound: waits nested in callbacks

ASSUME McuSyncAssumption ==
    /\ Pins \subseteq Nat \ {0} /\ Timers \subseteq Nat \ {0}
    /\ Pins \cap Timers = {}
    /\ Periods \subseteq Nat \ {0} /\ Durations \subseteq Nat
    /\ Triggers \subseteq SUBSET {"rising", "falling"}
    /\ GpioOpTime \in Nat /\ TickPeriod \in Nat \ {0}
    /\ MaxTime \in Nat /\ MaxDepth \in Nat

Callbacks == Pins \cup Timers
OneShot == 0     \* the period of a timer in mode ONE_SHOT

\* One call of yield_until (or of run_due_callbacks by enable_irq): its
\* deadline, whether an input transition ends it, whether the last wake was
\* genuine, the callbacks collected and not called yet, the one that runs (0:
\* none).  seen is history: an input changed since the call.
Frames == [wake : Nat, soft : BOOLEAN, genuine : BOOLEAN,
           due : SUBSET Callbacks, running : Callbacks \cup {0}, seen : BOOLEAN]

VARIABLES
    \* the Modelica side
    now,       \* time
    next,      \* nextWakeTime, a set: {} when no wake is asked for
    reached,   \* the condition "time >= pre(nextWakeTime)" of the when
    event,     \* a condition of the when just became true
    level,     \* pinBoolIn
    \* the handle
    simTime,   \* sim_time
    changed,   \* wake_had_input_change
    wakeAt,    \* wake_requested_at, a set: {} while wake_pending is 0
    mode,      \* of each pin: "in", "out" or "taken" (by the ADC)
    sensed,    \* pin_sensed_value
    trigger,   \* of each pin: the edges its irq handler asked for
    pending,   \* pins whose pin_irq_pending is set
    active,    \* armed timers
    period,    \* of each timer, OneShot or its period
    fire,      \* timer_next_fire
    masked,    \* irq_disabled
    done,      \* script_done
    failed,    \* script_error
    \* the worker
    phase,     \* "idle", "turn", "due", "code", "drain",
               \* "publish" or "stop"
    stack,     \* the waits in progress, outermost first
    maskUsed   \* history: the program masked its callbacks at least once

clock == <<now, next, reached, event, level>>
pins  == <<mode, sensed, trigger, pending>>
timers == <<active, period, fire>>
ended == <<done, failed>>
vars  == <<clock, simTime, changed, wakeAt, pins, timers, masked, ended,
           phase, stack, maskUsed>>

Edges == {"rising", "falling"}

TypeOK ==
    /\ now \in Nat /\ simTime \in Nat
    /\ next \in SUBSET Nat /\ wakeAt \in SUBSET Nat
    /\ reached \in BOOLEAN /\ event \in BOOLEAN /\ changed \in BOOLEAN
    /\ level \in [Pins -> BOOLEAN] /\ sensed \in [Pins -> BOOLEAN]
    /\ mode \in [Pins -> {"in", "out", "taken"}]
    /\ trigger \in [Pins -> SUBSET Edges] /\ pending \in SUBSET Pins
    /\ active \in SUBSET Timers /\ maskUsed \in BOOLEAN
    /\ period \in [Timers -> Periods \cup {OneShot}]
    /\ fire \in [Timers -> Nat]
    /\ masked \in BOOLEAN /\ done \in BOOLEAN /\ failed \in BOOLEAN
    /\ phase \in {"idle", "turn", "due", "code", "drain", "publish", "stop"}
    /\ stack \in Seq(Frames)

Init ==
    /\ now = 0 /\ next = {} /\ reached = FALSE
    /\ event = TRUE                       \* when initial()
    /\ level \in [Pins -> BOOLEAN]
    /\ simTime = 0 /\ changed = FALSE /\ wakeAt = {}
    /\ mode = [p \in Pins |-> "in"]
    /\ sensed = [p \in Pins |-> FALSE]
    /\ trigger = [p \in Pins |-> {}] /\ pending = {}
    /\ active = {} /\ maskUsed = FALSE
    /\ period = [t \in Timers |-> OneShot] /\ fire = [t \in Timers |-> 0]
    /\ masked = FALSE /\ done = FALSE /\ failed = FALSE
    /\ phase = "idle" /\ stack = <<>>

-----------------------------------------------------------------------------
(* The Modelica side: time, inputs, and the conditions of the when.         *)

Reaches(t, wakes) == \E d \in wakes : t >= d

\* Time goes on when every event of the instant is handled.  A condition that
\* was already true does not fire the when again.
Advance ==
    /\ phase = "idle" /\ ~event /\ now < MaxTime
    /\ now' = now + 1
    /\ reached' = Reaches(now', next)
    /\ event' = ((reached' /\ ~reached) \/ now' % TickPeriod = 0)
    /\ UNCHANGED <<next, level, simTime, changed, wakeAt, pins, timers, masked,
                   ended, phase, stack, maskUsed>>

\* change(pinBoolIn[i]) and not pre(pinIsOutput[i])
InputChanges(p) ==
    /\ phase = "idle"
    /\ level' = [level EXCEPT ![p] = ~@]
    /\ event' = (event \/ mode[p] # "out")
    /\ UNCHANGED <<now, next, reached, simTime, changed, wakeAt, pins, timers,
                   masked, ended, phase, stack, maskUsed>>

-----------------------------------------------------------------------------
(* sync_impl.                                                               *)

\* A transition of an input pin that the ADC has not taken.
Transition(p) == mode[p] = "in" /\ level[p] # sensed[p]
Edge(p) == IF level[p] THEN "rising" ELSE "falling"
Triggered == {p \in Pins : Transition(p) /\ Edge(p) \in trigger[p]}

\* Timers the schedule counts: none while callbacks are masked.
Scheduled == IF masked THEN {} ELSE active
TimerDue == \E t \in Scheduled : fire[t] <= now

\* Does the worker get a turn at this synchronisation?
DeadlineIgnored == wakeAt = {} \/ changed' \/ TimerDue                \* mutant
InputsIgnored == wakeAt = {} \/ Reaches(now, wakeAt) \/ TimerDue      \* mutant
WakeDue ==
    \/ wakeAt = {} \/ Reaches(now, wakeAt)
    \/ changed' \/ TimerDue

\* The when calls PyRuntime_sync: inputs are sensed, transitions noted.
SyncRunning ==
    /\ phase = "idle" /\ event /\ ~done
    /\ event' = FALSE
    /\ simTime' = now
    /\ sensed' = level
    /\ pending' = pending \cup Triggered
    /\ changed' = \E p \in Pins : Transition(p)
    /\ stack' = [i \in DOMAIN stack |->
                    [stack[i] EXCEPT !.seen = @ \/ changed']]
    /\ phase' = IF WakeDue THEN "turn" ELSE "publish"
    /\ UNCHANGED <<now, next, reached, level, wakeAt, mode, trigger, timers,
                   masked, ended, maskUsed>>

\* After the program: only peripherals advance, none of them is modelled here.
SyncOver ==
    /\ phase = "idle" /\ event /\ done
    /\ next' = {} /\ reached' = FALSE /\ event' = FALSE
    /\ UNCHANGED <<now, level, simTime, changed, wakeAt, pins, timers, masked,
                   ended, phase, stack, maskUsed>>

\* The instants a wake is asked for at the end of a synchronisation.
DeadlinesOfWorker == wakeAt                                           \* mutant
Deadlines == wakeAt \cup {fire[t] : t \in Scheduled}

\* The drain loop: another turn while the worker asks for this very instant.
DrainAgain ==
    /\ phase = "drain" /\ ~done /\ ~failed
    /\ Reaches(now, wakeAt)
    /\ phase' = "turn"
    /\ UNCHANGED <<clock, simTime, changed, wakeAt, pins, timers, masked, ended,
                   stack, maskUsed>>

\* Otherwise the earliest deadline is published.  The event iteration looks at
\* the conditions again: the when fires if its condition just became true.
Publish ==
    /\ phase = "publish" \/ (phase = "drain" /\ (done \/ ~Reaches(now, wakeAt)))
    /\ ~failed
    /\ \/ /\ done /\ next' = {}
       \/ /\ ~done
          /\ \E d \in Deadlines : (\A e \in Deadlines : d <= e) /\ next' = {d}
    /\ reached' = Reaches(now, next')
    /\ event' = (reached' /\ ~reached)
    /\ phase' = "idle"
    /\ UNCHANGED <<now, level, simTime, changed, wakeAt, pins, timers, masked,
                   ended, stack, maskUsed>>

\* ModelicaFormatError: the simulation stops.
Stop ==
    /\ phase = "drain" /\ failed
    /\ phase' = "stop"
    /\ UNCHANGED <<clock, simTime, changed, wakeAt, pins, timers, masked, ended,
                   stack, maskUsed>>

-----------------------------------------------------------------------------
(* The worker: waits and callbacks.                                         *)

Top == stack[Len(stack)]
Below == SubSeq(stack, 1, Len(stack) - 1)
ReplaceTop(f) == Append(Below, f)

\* run_due_callbacks, first half: the callbacks due now.
DueTimers == {t \in active : fire[t] <= simTime}
Collected == IF masked THEN {} ELSE pending \cup DueTimers

\* Those timers are armed again or disarmed, those pins served.
RearmedOnly == [t \in DueTimers |-> fire[t] + period[t]]              \* mutant
Rearmed == [t \in Timers |-> IF t \in DueTimers THEN fire[t] + period[t] ELSE fire[t]]
Collect ==
    IF masked THEN UNCHANGED <<pending, active, fire>>
    ELSE /\ pending' = {}
         /\ active' = {t \in active : t \in DueTimers => period[t] # OneShot}
         /\ fire' = Rearmed

\* The worker starts the program at its first turn ...
Begin ==
    /\ phase = "turn" /\ stack = <<>>
    /\ phase' = "code"
    /\ UNCHANGED <<clock, simTime, changed, wakeAt, pins, timers, masked, ended,
                   stack, maskUsed>>

\* ... and leaves the wait of yield_until at the others: it notes whether the
\* wake is genuine, then collects what is due.
GenuineSoft(f) == changed \/ simTime >= f.wake                       \* mutant
Genuine(f) == (f.soft /\ changed) \/ simTime >= f.wake
Resume ==
    /\ phase = "turn" /\ stack # <<>>
    /\ stack' = ReplaceTop([Top EXCEPT !.genuine = Genuine(Top), !.due = Collected])
    /\ Collect
    /\ phase' = "due"
    /\ UNCHANGED <<clock, simTime, changed, wakeAt, mode, sensed, trigger, period,
                   masked, ended, maskUsed>>

\* run_due_callbacks, second half: the next callback is called, ...
CallNext ==
    /\ phase = "due"
    /\ \E c \in Top.due :
         /\ \A d \in Top.due : c <= d
         /\ stack' = ReplaceTop([Top EXCEPT !.due = @ \ {c}, !.running = c])
    /\ phase' = "code"
    /\ UNCHANGED <<clock, simTime, changed, wakeAt, pins, timers, masked, ended,
                   maskUsed>>

\* ... and returns.
CallbackReturns ==
    /\ phase = "code" /\ stack # <<>>
    /\ stack' = ReplaceTop([Top EXCEPT !.running = 0])
    /\ phase' = "due"
    /\ UNCHANGED <<clock, simTime, changed, wakeAt, pins, timers, masked, ended,
                   maskUsed>>

\* All called: a genuine wake returns to the caller, ...
WaitReturns ==
    /\ phase = "due" /\ Top.due = {} /\ Top.genuine
    /\ stack' = Below
    /\ phase' = "code"
    /\ UNCHANGED <<clock, simTime, changed, wakeAt, pins, timers, masked, ended,
                   maskUsed>>

\* ... a pit stop posts the same instant again.
WaitAgain ==
    /\ phase = "due" /\ Top.due = {} /\ ~Top.genuine
    /\ wakeAt' = {Top.wake}
    /\ phase' = "drain"
    /\ UNCHANGED <<clock, simTime, changed, pins, timers, masked, ended,
                   stack, maskUsed>>

\* The code that runs raises an exception: the callbacks left are dropped and
\* the wait fails with it, in the code that called it.
Raise ==
    /\ phase = "code" /\ stack # <<>>
    /\ stack' = Below
    /\ UNCHANGED <<clock, simTime, changed, wakeAt, pins, timers, masked, ended,
                   phase, maskUsed>>

\* The main program ends, or fails.
Finish(error) ==
    /\ phase = "code" /\ stack = <<>>
    /\ done' = TRUE /\ failed' = error
    /\ phase' = "drain"
    /\ UNCHANGED <<clock, simTime, changed, wakeAt, pins, timers, masked,
                   stack, maskUsed>>

-----------------------------------------------------------------------------
(* The worker: the natives of the shim.                                     *)

Frame(wake, soft, genuine, due) ==
    [wake |-> wake, soft |-> soft, genuine |-> genuine, due |-> due,
     running |-> 0, seen |-> FALSE]

\* yield_until, up to the wait.
Yield(wake, soft) ==
    /\ phase = "code" /\ Len(stack) < MaxDepth
    /\ stack' = Append(stack, Frame(wake, soft, FALSE, {}))
    /\ wakeAt' = {wake}
    /\ phase' = "drain"

Sleep(d) ==
    /\ Yield(simTime + d, TRUE)
    /\ UNCHANGED <<clock, simTime, changed, pins, timers, masked, ended, maskUsed>>

\* Pin.value(), on(), off(): the processor is busy, whatever the inputs do.
PinAccess ==
    /\ Yield(simTime + GpioOpTime, FALSE)
    /\ UNCHANGED <<clock, simTime, changed, pins, timers, masked, ended, maskUsed>>

\* Pin.init, PWM (output) and ADC (taken).
PinInit(p, m) ==
    /\ mode' = [mode EXCEPT ![p] = m]
    /\ Yield(simTime, TRUE)
    /\ UNCHANGED <<clock, simTime, changed, sensed, trigger, pending, timers,
                   masked, ended, maskUsed>>

\* Pin.irq(handler, trigger), or irq(None) for no edge at all.
PinIrq(p, edges) ==
    /\ trigger' = [trigger EXCEPT ![p] = edges]
    /\ pending' = pending \ {p}
    /\ Yield(simTime, TRUE)
    /\ UNCHANGED <<clock, simTime, changed, mode, sensed, timers, masked, ended,
                   maskUsed>>

TimerInit(t, d, oneShot) ==
    /\ active' = active \cup {t}
    /\ period' = [period EXCEPT ![t] = IF oneShot THEN OneShot ELSE d]
    /\ fire' = [fire EXCEPT ![t] = simTime + d]
    /\ Yield(simTime, TRUE)
    /\ UNCHANGED <<clock, simTime, changed, pins, masked, ended, maskUsed>>

TimerDeinit(t) ==
    /\ active' = active \ {t}
    /\ Yield(simTime, TRUE)
    /\ UNCHANGED <<clock, simTime, changed, pins, period, fire, masked, ended, maskUsed>>

\* No synchronisation point: nothing changes for Modelica.
DisableIrq ==
    /\ phase = "code"
    /\ masked' = TRUE /\ maskUsed' = TRUE
    /\ UNCHANGED <<clock, simTime, changed, wakeAt, pins, timers, ended, phase,
                   stack>>

\* enable_irq(state) that unmasks: what came meanwhile is called at once.
EnableIrq ==
    /\ phase = "code" /\ Len(stack) < MaxDepth
    /\ masked' = FALSE
    /\ pending' = {}
    /\ active' = {t \in active : t \in DueTimers => period[t] # OneShot}
    /\ fire' = Rearmed
    /\ stack' = Append(stack, Frame(simTime, FALSE, TRUE, pending \cup DueTimers))
    /\ phase' = "due"
    /\ UNCHANGED <<clock, simTime, changed, wakeAt, mode, sensed, trigger, period,
                   ended, maskUsed>>

-----------------------------------------------------------------------------

Native ==
    \/ \E d \in Durations : Sleep(d)
    \/ PinAccess
    \/ \E p \in Pins : \/ \E m \in {"in", "out", "taken"} : PinInit(p, m)
                       \/ \E edges \in Triggers : PinIrq(p, edges)
    \/ \E t \in Timers : \/ \E d \in Periods, o \in BOOLEAN : TimerInit(t, d, o)
                         \/ TimerDeinit(t)
    \/ DisableIrq \/ EnableIrq

\* The bound on time, or an error of the program: the model stops.
Ended ==
    /\ phase = "stop" \/ (phase = "idle" /\ ~event /\ now = MaxTime)
    /\ UNCHANGED vars

Next ==
    \/ Advance \/ \E p \in Pins : InputChanges(p)
    \/ SyncRunning \/ SyncOver \/ DrainAgain \/ Publish \/ Stop
    \/ Begin \/ Resume \/ CallNext \/ CallbackReturns \/ WaitReturns \/ WaitAgain
    \/ Raise \/ \E error \in BOOLEAN : Finish(error)
    \/ Native
    \/ Ended

Spec == Init /\ [][Next]_vars

-----------------------------------------------------------------------------
(* Safety.                                                                  *)

\* Modelica is between two synchronisations, the events of the instant handled.
Quiet == phase = "idle" /\ ~event /\ ~done

\* A transition that a handler asked for is never forgotten: between two
\* synchronisations no pin is pending, unless callbacks are masked.
PendingServed == phase = "idle" /\ ~done /\ ~masked => pending = {}

\* The wait for the end of an access to a pin is only ended by its deadline
\* (cycle-de-vie.md): a wait that returns early is a sleep, and an input did
\* change during it - a Timer or an irq never shortens a sleep.
WaitsLast ==
    [][WaitReturns => now >= Top.wake \/ (Top.soft /\ Top.seen)]_vars

\* The wake published is ahead of time whenever Modelica waits for it: a wake
\* in the past would never fire the when again (comment of
\* earliest_timer_deadline).
WakeAhead == Quiet => ~Reaches(now, next)

\* This holds as long as callbacks have not been masked, and while they are,
\* although timers are then overdue (cycle-de-vie.md).
WakeAheadMasking == masked \/ ~maskUsed => WakeAhead

\* Simulated time never passes the instant the innermost wait asked for.
NoOversleep ==
    phase = "idle" /\ ~done /\ ~maskUsed => \A d \in wakeAt : now <= d

\* Time never passes the deadline of a timer: each period is served at its
\* instant, whatever the program and its callbacks do (but mask them).
TimersPunctual ==
    ~done /\ ~maskUsed => \A t \in active : now <= fire[t]

\* An input transition ends the sleep it happens in, at that instant.
InputWakesSleep ==
    Quiet => \A i \in DOMAIN stack : ~(stack[i].soft /\ stack[i].seen)
=============================================================================
