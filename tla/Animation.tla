----------------------------- MODULE Animation -----------------------------
(* The timers of machine and what the display of a micro:bit does with them  *)
(* (machine_time_shim.py, microbit_shim.py, pyruntime_timer.c): a pool of    *)
(* slots, the Timer that moves an animation in the background, and the       *)
(* program, whose callbacks run in the middle of its own calls - also of the *)
(* calls of the display - wherever a native gives the turn to Modelica, and  *)
(* may raise there, which ends those calls.                                  *)
EXTENDS Integers, FiniteSets, Sequences, SequencesExt

CONSTANTS
    MaxTimers,  \* MAX_TIMERS
    Images,     \* what show() draws at once
    Scripts,    \* what show() and scroll() animate, see ScriptRecords
    Lasts,      \* periods of the program's own timers, in ticks
    Quota       \* bound: calls of the program and of its callbacks, exceptions

\* With wait, the frames of a loop follow a first one: one frame alone would
\* spin and never give the turn.
ScriptRecords ==
    {s \in [name : STRING, length : Nat \ {0}, delay : Nat \ {0}, wait : BOOLEAN, loop : BOOLEAN,
            clear : BOOLEAN] : s.wait /\ s.loop => s.length > 1}

ASSUME AnimationAssumption ==
    /\ MaxTimers \in Nat \ {0} /\ Quota \in Nat
    /\ Scripts \subseteq ScriptRecords /\ Lasts \subseteq Nat \ {0}

VARIABLES
    pool,       \* timer_allocated, _active, _mode, _period, _next_fire, _callback
    display,    \* _MicroBitDisplay: _buf, _frames, _fi, _clear_after, slot of _timer, _on
    stack,      \* calls in progress; each with the callbacks that it still has to run
    mine,       \* slots of the Timers of the program
    asked,      \* history: the picture that the last call left, or Moving
    halfway,    \* history: _stop_anim has freed the slot of _timer, not _timer itself
    exposed,    \* history: slots that a Timer of the program took meanwhile
    quota       \* what is left of the bound

doubt == <<halfway, exposed>>
animVars == <<pool, display, stack, mine, asked, doubt, quota>>

Slots == 1..MaxTimers
None == 0
Blank == <<"blank", 0>>
Moving == <<"moving", 0>>
Still(image) == <<image, 0>>
Picture(script, i) == <<script.name, i>>

Unused == [kind |-> "free", active |-> FALSE, once |-> FALSE, period |-> 0, left |-> 0]
Armed(kind, period, once) ==
    [kind |-> kind, active |-> TRUE, once |-> once, period |-> period, left |-> period]

AnimInit ==
    /\ pool = [s \in Slots |-> Unused]
    /\ display = [picture |-> Blank, script |-> {}, at |-> 0, clear |-> FALSE,
                  timer |-> None, on |-> TRUE]
    /\ stack = <<[then |-> "main", arg |-> None, left |-> 0, due |-> {}]>>
    /\ mine = {} /\ asked = Blank /\ halfway = FALSE /\ exposed = {} /\ quota = Quota

-----------------------------------------------------------------------------
(* Calls.  yield_to_modelica gives the turn for this very instant: an input  *)
(* may change meanwhile, whose callback runs before the call goes on.        *)

Top == Last(stack)
Runs(f) == Top.due = {} /\ Top.then = f

\* A callback that was collected: its place among the others and what it calls.
Callbacks == (0..MaxTimers) \X {"tick", "program"}
Next(c) == c \in Top.due /\ \A e \in Top.due : c[1] <= e[1]

\* The calls in progress, once this callback of the call on top has returned.
Below(c) == Append(Front(stack), [Top EXCEPT !.due = @ \ {c}])

\* An input asks for a callback of the program, which comes before the timers.
Inputs == IF quota > 0 THEN {{}, {<<0, "program">>}} ELSE {{}}

GoesOn(under, then, arg) ==
    stack' = Append(under, [then |-> then, arg |-> arg, left |-> 0, due |-> {}])

\* A native gives the turn on behalf of a call, which then goes on at "then".
GivesTurn(under, then, arg) ==
    \E d \in Inputs :
        stack' = Append(under, [then |-> then, arg |-> arg, left |-> 0, due |-> d])

-----------------------------------------------------------------------------
(* The pool: native_timer_new takes the first slot that is free.             *)

Free == {s \in Slots : pool[s].kind = "free"}
First(s) == s \in Free /\ \A r \in Free : s <= r

Deinit(s) == pool' = [pool EXCEPT ![s] = Unused]

DueTimers == {<<s, pool[s].kind>> : s \in {t \in Slots : pool[t].active /\ pool[t].left = 1}}

\* run_due_callbacks, for the timers: a periodic one is armed again before its
\* callback runs.
Fired(t) ==
    IF ~t.active THEN t
    ELSE IF t.left > 1 THEN [t EXCEPT !.left = @ - 1]
    ELSE IF t.once THEN [t EXCEPT !.active = FALSE, !.left = 0]
    ELSE [t EXCEPT !.left = t.period]

Shorter(n) == IF n = 0 THEN 0 ELSE n - 1

\* The program sleeps, or the call on top waits for its next frame.  At the next
\* instant callbacks are collected, those of inputs first; an input ends the sleep.
TimePasses ==
    /\ Runs("main") \/ (Runs("frame") /\ Top.left > 0)
    /\ pool' = [s \in Slots |-> Fired(pool[s])]
    /\ \E d \in Inputs :
         stack' = [i \in DOMAIN stack |->
                     IF i < Len(stack) THEN [stack[i] EXCEPT !.left = Shorter(@)]
                     ELSE [stack[i] EXCEPT
                             !.left = IF d = {} THEN Shorter(@) ELSE 0,
                             !.due = d \cup DueTimers]]
    /\ UNCHANGED <<display, mine, asked, doubt, quota>>

-----------------------------------------------------------------------------
(* _MicroBitDisplay.  What follows the wait of _stop_anim is in the actions  *)
(* of the last section, Stopped first.                                       *)

\* _stop_anim, up to its wait; "then" is the rest of the call.
StopsTimer(under, then, arg) ==
    IF display.timer = None
    THEN GoesOn(under, then, arg) /\ UNCHANGED <<pool, halfway>>
    ELSE Deinit(display.timer) /\ halfway' = TRUE /\ GivesTurn(under, then, arg)

StoppedMoving(d) == [d EXCEPT !.timer = None]                             \* mutant
StoppedHolding(d) == [d EXCEPT !.script = {}]                             \* mutant
Stopped(d) == [d EXCEPT !.timer = None, !.script = {}]

CallsDisplay(then, args) ==
    /\ \E arg \in args : StopsTimer(stack, then, arg)
    /\ UNCHANGED <<display, mine, asked, exposed>>

\* clear: an animation goes on over it.
Clears ==
    /\ display' = [display EXCEPT !.picture = Blank]
    /\ asked' = IF asked = Moving THEN Moving ELSE Blank
    /\ UNCHANGED <<stack, pool, mine, doubt>>

\* Timer(period=..., mode=..., callback=...); without a free slot it raises.
TimerStarts ==
    /\ \E s \in Slots, period \in Lasts, once \in BOOLEAN :
         /\ First(s)
         /\ pool' = [pool EXCEPT ![s] = Armed("program", period, once)]
         /\ mine' = mine \cup {s}
         /\ exposed' = IF halfway /\ s = display.timer THEN exposed \cup {s} ELSE exposed
    /\ GivesTurn(stack, "done", None) /\ UNCHANGED <<display, asked, halfway>>

\* deinit, once for each Timer; one that has lost its slot does not know it.
TimerStops ==
    /\ \E s \in mine \cup exposed : Deinit(s) /\ mine' = mine \ {s}
    /\ GivesTurn(stack, "done", None) /\ UNCHANGED <<display, asked, doubt>>

\* The main program and its callbacks may make any call.
Code ==
    /\ quota > 0 /\ quota' = quota - 1
    /\ \/ CallsDisplay("show", {Still(i) : i \in Images})
       \/ CallsDisplay("play", Scripts)
       \/ CallsDisplay("off", {None})
       \/ ~display.on /\ CallsDisplay("on", {None})
       \/ Clears
       \/ TimerStarts
       \/ TimerStops

\* An exception ends the calls in progress, with the callbacks that they still
\* had to run, up to code of the program that catches it; _tick does not.  In the
\* end the main program catches it, which may have been asleep.
Raises ==
    /\ quota > 0 /\ quota' = quota - 1
    /\ \/ \E k \in 1..(Len(stack) - 1) :
            stack[k + 1].then # "end" /\ stack' = SubSeq(stack, 1, k)
       \/ stack' = <<[stack[1] EXCEPT !.due = {}]>>
    /\ UNCHANGED <<pool, display, mine, asked, doubt>>

\* _tick, called by a Timer; its first test is for a Timer that was stopped after
\* its callback had been collected.
Ticks(under) ==
    IF display.script = {}
    THEN stack' = under /\ UNCHANGED <<pool, display, halfway>>
    ELSE LET script == CHOOSE s \in display.script : TRUE
             at == IF display.at + 1 >= script.length /\ script.loop THEN 0 ELSE display.at + 1
         IN IF at < script.length
            THEN /\ display' = [display EXCEPT !.at = at, !.picture = Picture(script, at)]
                 /\ stack' = under /\ UNCHANGED <<pool, halfway>>
            ELSE /\ StopsTimer(under, "end", None)
                 /\ display' = [display EXCEPT !.at = at]

TickCalled ==
    /\ \E c \in Top.due : Next(c) /\ c[2] = "tick" /\ Ticks(Below(c))
    /\ UNCHANGED <<mine, asked, exposed, quota>>

\* A callback of the program makes its calls, then returns or raises.
ProgramCalled ==
    \E c \in Top.due :
        /\ Next(c) /\ c[2] = "program"
        /\ \/ Code
           \/ Raises
           \/ stack' = Below(c) /\ UNCHANGED <<pool, display, mine, asked, doubt, quota>>

MainCalls == Runs("main") /\ Code

-----------------------------------------------------------------------------
(* A wait ends, its callbacks have run, and the call goes on.                *)

Done == Runs("done") /\ stack' = Front(stack) /\ UNCHANGED <<pool, display, asked>>

\* show of one image.
Shows ==
    /\ Runs("show") /\ stack' = Front(stack)
    /\ display' = [Stopped(display) EXCEPT !.picture = Top.arg]
    /\ asked' = Top.arg /\ UNCHANGED pool

\* _play, wait=False.  The Timer raises when no slot is free.
PlaysBehind ==
    /\ Runs("play") /\ ~Top.arg.wait
    /\ display' = [Stopped(display) EXCEPT !.script = {Top.arg}, !.at = 0,
                                        !.clear = Top.arg.clear]
    /\ asked' = Moving
    /\ IF Free = {} THEN stack' = Front(stack) /\ UNCHANGED pool
       ELSE \E s \in Slots :
              /\ First(s)
              /\ pool' = [pool EXCEPT ![s] = Armed("tick", Top.arg.delay, FALSE)]
              /\ GivesTurn(Front(stack), "keep", s)

Keeps ==
    /\ Runs("keep") /\ stack' = Front(stack)
    /\ display' = [display EXCEPT !.timer = Top.arg] /\ UNCHANGED <<pool, asked>>

\* _play, wait=True: frame i, and a sleep before the next one.
Draws(d, script, i) ==
    LET next == IF i + 1 = script.length /\ script.loop THEN 1 ELSE i + 1
        ends == next = script.length
    IN /\ display' = [d EXCEPT !.picture = IF ends /\ script.clear THEN Blank ELSE Picture(script, i)]
       /\ stack' = IF ends THEN Front(stack)
                   ELSE Append(Front(stack),
                               [then |-> "frame", arg |-> [script |-> script, i |-> next],
                                left |-> script.delay, due |-> {}])
       /\ UNCHANGED pool

PlaysInFront ==
    /\ Runs("play") /\ Top.arg.wait
    /\ Draws(Stopped(display), Top.arg, 0) /\ asked' = display'.picture

NextFrame ==
    /\ Runs("frame") /\ Top.left = 0 /\ Draws(display, Top.arg.script, Top.arg.i)
    /\ asked' = IF asked = Moving THEN Moving ELSE display'.picture

\* The end of _tick: it clears what the last animation asks for, even one that a
\* callback has started in between.
Ends ==
    /\ Runs("end") /\ stack' = Front(stack)
    /\ display' = [Stopped(display) EXCEPT !.picture = IF display.clear THEN Blank ELSE @]
    /\ asked' = display'.picture /\ UNCHANGED pool

\* off and on, around matrix_disable and matrix_enable.
TurnsOff ==
    /\ Runs("off") /\ display' = Stopped(display) /\ asked' = display.picture
    /\ IF display.on THEN GivesTurn(Front(stack), "isOff", None) ELSE stack' = Front(stack)
    /\ UNCHANGED pool

TurnsOn ==
    /\ Runs("on") /\ display' = Stopped(display) /\ asked' = display.picture
    /\ GivesTurn(Front(stack), "isOn", None) /\ UNCHANGED pool

Turned ==
    /\ Runs("isOff") \/ Runs("isOn")
    /\ display' = [display EXCEPT !.on = (Top.then = "isOn")]
    /\ stack' = Front(stack) /\ UNCHANGED <<pool, asked>>

GoOn ==
    /\ \/ (Done \/ NextFrame \/ Turned) /\ UNCHANGED halfway
       \/ /\ Shows \/ PlaysBehind \/ Keeps \/ PlaysInFront \/ Ends \/ TurnsOff \/ TurnsOn
          /\ halfway' = FALSE
    /\ UNCHANGED <<mine, exposed, quota>>

AnimNext == TimePasses \/ TickCalled \/ ProgramCalled \/ MainCalls \/ GoOn

AnimSpec == AnimInit /\ [][AnimNext]_animVars

-----------------------------------------------------------------------------
(* Properties.                                                               *)

Timers == {t \in [kind : {"free", "tick", "program"}, active : BOOLEAN, once : BOOLEAN,
                  period : Nat, left : Nat] : t.active => t.kind # "free"}

Shown == {Blank} \cup {Still(image) : image \in Images}
            \cup UNION {{Picture(s, i) : i \in 0..(s.length - 1)} : s \in Scripts}

Displays == [picture : Shown, script : {{}} \cup {{s} : s \in Scripts}, at : Nat,
             clear : BOOLEAN, timer : Slots \cup {None}, on : BOOLEAN]

InCall(thens, args) ==
    [then : thens, arg : args, left : Nat, due : SUBSET Callbacks]
FramesOf(s) == {[script |-> s, i |-> i] : i \in 0..(s.length - 1)}
CallFrames ==
    InCall({"main", "done", "end", "off", "on", "isOff", "isOn"}, {None})
        \cup InCall({"show"}, {Still(image) : image \in Images})
        \cup InCall({"play"}, Scripts) \cup InCall({"keep"}, Slots)
        \cup InCall({"frame"}, UNION {FramesOf(s) : s \in Scripts})

\* The pool, the display and the calls keep their types: no animation reads
\* beyond its frames.
AnimTypeOK ==
    /\ pool \in [Slots -> Timers] /\ display \in Displays
    /\ stack \in Seq(CallFrames) /\ stack # <<>> /\ stack[1].then = "main"
    /\ {mine, exposed} \subseteq SUBSET Slots /\ halfway \in BOOLEAN
    /\ asked \in Shown \cup {Moving} /\ quota \in 0..Quota

\* What a call left on the display stays there until another call: no Timer that
\* was stopped, whose callback had been collected, and no Timer that the display
\* has lost to a callback, draws over it (_tick, _stop_anim).
StaysShown == asked # Moving => display.picture = asked

\* A Timer of the program keeps its slot until it is deinitialised, although the
\* Timer objects that the display has stopped keep a slot number, which is soon
\* that of a Timer of the program.  The exception is a Timer that takes the slot
\* of _timer before _stop_anim has forgotten it: while it waits, in a callback,
\* or for ever, when a callback raises in that wait (Timer.deinit, _stop_anim).
KeepsTimers == \A s \in mine \ exposed : pool[s].kind = "program"
=============================================================================
