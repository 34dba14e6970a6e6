--------------------------- MODULE McuSync_proofs ---------------------------
(***************************************************************************)
(* Proofs about McuSync, for any pins, timers, durations, periods, tick    *)
(* and depth of nested waits.                                              *)
(*                                                                         *)
(* None of the properties is inductive: they speak of the moments between  *)
(* two synchronisations, and a synchronisation takes many steps.  IInv adds*)
(* what holds inside one: which wait the posted wake belongs to, that no   *)
(* timer is due any more once its callbacks have been collected, and that  *)
(* a wake counted as genuine has its reason.                               *)
(***************************************************************************)
EXTENDS McuSync, TLAPS, SequenceTheorems

\* The phases of a synchronisation.
Control ==
    /\ simTime <= now
    /\ phase \in {"turn", "due", "code", "drain", "publish"} => simTime = now
    /\ phase = "due" => stack # <<>>
    /\ phase \in {"turn", "due", "code", "publish"} => ~done
    /\ phase = "stop" => done
    /\ failed => done
    /\ masked => maskUsed

\* The posted wake is the one of the innermost wait.
Posted ==
    ~done =>
        /\ phase \in {"idle", "turn", "publish"} /\ stack = <<>> => wakeAt = {}
        /\ phase \in {"idle", "turn", "drain", "publish"} /\ stack # <<>> =>
              wakeAt = {Top.wake}
        /\ phase = "drain" => stack # <<>>

\* Before the first wait nothing can be due.
Fresh ==
    wakeAt = {} => /\ pending = {} /\ active = {}
                   /\ \A p \in Pins : trigger[p] = {}

\* A pin is only pending from the synchronisation to the worker's turn.
Served == ~masked /\ phase # "turn" => pending = {}

\* A genuine wake has its reason, and will have it at the turn.
Reasons ==
    /\ \A i \in 1..Len(stack) : stack[i].genuine =>
          simTime >= stack[i].wake \/ (stack[i].soft /\ stack[i].seen)
    /\ phase = "turn" /\ stack # <<>> /\ changed =>
          Top.seen \/ simTime >= Top.wake

\* The wake published, and the timers, are ahead of time.
Ahead ==
    /\ Quiet /\ (masked \/ ~maskUsed) => ~reached /\ ~Reaches(now, next)
    /\ phase = "publish" => \A d \in wakeAt : now < d
    /\ ~done /\ ~maskUsed =>
          /\ phase = "idle" => /\ \A d \in wakeAt : now <= d
                               /\ \A t \in active : now <= fire[t]
          /\ Quiet => \E n \in next : /\ \A d \in wakeAt : n <= d
                                      /\ \A t \in active : n <= fire[t]
          /\ phase = "turn" => \A t \in active : now <= fire[t]
          /\ phase \in {"due", "code", "drain", "publish"} =>
                \A t \in active : now < fire[t]

-----------------------------------------------------------------------------
(* Sequences, used as the stack of waits.                                   *)

\* A nonempty sequence is what lies under its last element, and this element.
LEMMA Popped ==
    ASSUME NEW S, NEW s \in Seq(S), s # <<>>
    PROVE  LET b == SubSeq(s, 1, Len(s) - 1) IN
           /\ Len(s) \in Nat \ {0} /\ s[Len(s)] \in S
           /\ b \in Seq(S) /\ Len(b) = Len(s) - 1
           /\ \A i \in 1..(Len(s) - 1) : b[i] = s[i]
<1>1. Len(s) \in Nat \ {0}
  BY EmptySeq
<1>2. \A i \in 1..Len(s) : s[i] \in S
  BY ElementOfSeq
<1> DEFINE n == Len(s) - 1
           b == SubSeq(s, 1, n)
<1>3. n \in Nat /\ n <= Len(s) /\ n = Len(s) - 1
  BY <1>1
<1> HIDE DEF n
<1>4. /\ b \in Seq(S) /\ Len(b) = n
      /\ \A i \in 1..n : b[i] = s[i]
  BY <1>1, <1>2, <1>3
<1> QED
  BY <1>1, <1>2, <1>3, <1>4

\* Another last element changes nothing under it.
LEMMA Replaced ==
    ASSUME NEW S, NEW s \in Seq(S), s # <<>>, NEW x \in S
    PROVE  LET t == Append(SubSeq(s, 1, Len(s) - 1), x) IN
           /\ t \in Seq(S) /\ t # <<>> /\ Len(t) = Len(s) /\ t[Len(t)] = x
           /\ \A i \in 1..(Len(s) - 1) : t[i] = s[i]
<1> DEFINE b == SubSeq(s, 1, Len(s) - 1)
<1>1. /\ Len(s) \in Nat \ {0}
      /\ b \in Seq(S) /\ Len(b) = Len(s) - 1
      /\ \A i \in 1..(Len(s) - 1) : b[i] = s[i]
  BY Popped
<1>2. /\ Append(b, x) \in Seq(S) /\ Append(b, x) # <<>>
      /\ Len(Append(b, x)) = Len(b) + 1
      /\ \A i \in 1..Len(b) : Append(b, x)[i] = b[i]
      /\ Append(b, x)[Len(b) + 1] = x
  BY <1>1, AppendProperties
<1> HIDE DEF b
<1>3. /\ Len(Append(b, x)) = Len(s) /\ Append(b, x)[Len(Append(b, x))] = x
      /\ \A i \in 1..(Len(s) - 1) : Append(b, x)[i] = s[i]
  BY <1>1, <1>2
<1> QED
  BY <1>2, <1>3 DEF b

\* The waits in progress all learn of a transition.
LEMMA Marked ==
    ASSUME NEW s \in Seq(Frames), NEW c \in BOOLEAN
    PROVE  LET t == [i \in DOMAIN s |-> [s[i] EXCEPT !.seen = @ \/ c]] IN
           /\ t \in Seq(Frames) /\ Len(t) = Len(s)
           /\ s = <<>> <=> t = <<>>
           /\ \A i \in 1..Len(s) :
                 /\ t[i].seen = (s[i].seen \/ c) /\ t[i].wake = s[i].wake
                 /\ t[i].soft = s[i].soft /\ t[i].genuine = s[i].genuine
                 /\ t[i].due = s[i].due
<1> DEFINE t == [i \in DOMAIN s |-> [s[i] EXCEPT !.seen = @ \/ c]]
<1>1. Len(s) \in Nat /\ DOMAIN s = 1..Len(s)
  BY LenProperties
<1>2. \A i \in 1..Len(s) : s[i] \in Frames
  BY ElementOfSeq
<1>3. \A f \in Frames : [f EXCEPT !.seen = @ \/ c] \in Frames
  BY DEF Frames
<1>4. t \in [1..Len(s) -> Frames]
  BY <1>1, <1>2, <1>3
<1>5. t \in Seq(Frames) /\ Len(t) = Len(s)
  BY <1>1, <1>4
<1>6. \A u \in Seq(Frames) : u = <<>> <=> Len(u) = 0
  BY EmptySeq
<1>7. \A i \in 1..Len(s) : t[i] = [s[i] EXCEPT !.seen = @ \/ c]
  BY <1>1
<1>8. \A i \in 1..Len(s) :
          /\ t[i].seen = (s[i].seen \/ c) /\ t[i].wake = s[i].wake
          /\ t[i].soft = s[i].soft /\ t[i].genuine = s[i].genuine
          /\ t[i].due = s[i].due
  BY <1>2, <1>7 DEF Frames
<1> QED
  BY <1>5, <1>6, <1>8

-----------------------------------------------------------------------------

IInv == TypeOK /\ Control /\ Posted /\ Fresh /\ Served /\ Reasons /\ Ahead

\* What lies on top of the stack is a wait.
LEMMA TopTyped ==
    ASSUME TypeOK, stack # <<>>
    PROVE  Len(stack) \in Nat \ {0} /\ Top \in Frames
BY Popped DEF TypeOK, Top

\* The three moves of the stack: the top is replaced, ...
LEMMA TopReplaced ==
    ASSUME TypeOK, stack # <<>>, NEW f \in Frames, stack' = ReplaceTop(f)
    PROVE  /\ stack' \in Seq(Frames) /\ stack' # <<>>
           /\ Len(stack) \in Nat \ {0} /\ Len(stack') = Len(stack)
           /\ Top' = f
           /\ \A i \in 1..(Len(stack) - 1) : stack'[i] = stack[i]
BY TopTyped, Replaced DEF TypeOK, ReplaceTop, Below, Top

\* ... popped, ...
LEMMA TopPopped ==
    ASSUME TypeOK, stack # <<>>, stack' = Below
    PROVE  /\ stack' \in Seq(Frames) /\ Len(stack) \in Nat \ {0}
           /\ Len(stack') = Len(stack) - 1
           /\ \A i \in 1..Len(stack') : stack'[i] = stack[i]
BY Popped DEF TypeOK, Below

\* ... or pushed.
LEMMA TopPushed ==
    ASSUME TypeOK, NEW f \in Frames, stack' = Append(stack, f)
    PROVE  /\ stack' \in Seq(Frames) /\ stack' # <<>>
           /\ Len(stack) \in Nat /\ Len(stack') = Len(stack) + 1
           /\ Top' = f
           /\ \A i \in 1..Len(stack) : stack'[i] = stack[i]
BY AppendProperties, LenProperties DEF TypeOK, Top

\* The calls of yield_until post the deadline of the wait they start.
LEMMA Yielded ==
    ASSUME TypeOK, NEW w \in Nat, NEW s \in BOOLEAN, Yield(w, s)
    PROVE  /\ phase = "code" /\ phase' = "drain" /\ wakeAt' = {w}
           /\ stack' \in Seq(Frames) /\ stack' # <<>>
           /\ Len(stack) \in Nat /\ Len(stack') = Len(stack) + 1
           /\ Top' = Frame(w, s, FALSE, {})
           /\ \A i \in 1..Len(stack) : stack'[i] = stack[i]
<1>1. Frame(w, s, FALSE, {}) \in Frames
  BY DEF Frame, Frames
<1> QED
  BY <1>1, TopPushed DEF Yield

\* The natives that wait.
LEMMA Waits ==
    ASSUME TypeOK, Native
    PROVE  \/ DisableIrq \/ EnableIrq
           \/ \E w \in Nat, b \in BOOLEAN : Yield(w, b)
<1>1. simTime \in Nat /\ simTime + GpioOpTime \in Nat
  BY McuSyncAssumption DEF TypeOK
<1>2. \A d \in Durations : simTime + d \in Nat
  BY McuSyncAssumption DEF TypeOK
<1> QED
  BY <1>1, <1>2 DEF Native, Sleep, PinAccess, PinInit, PinIrq, TimerInit, TimerDeinit

\* The turn replaces the top of the stack.
LEMMA ResumedStack ==
    ASSUME TypeOK, Resume
    PROVE  /\ stack' \in Seq(Frames) /\ stack' # <<>>
           /\ Len(stack) \in Nat \ {0} /\ Len(stack') = Len(stack)
           /\ Top' = [Top EXCEPT !.genuine = Genuine(Top), !.due = Collected]
           /\ \A i \in 1..(Len(stack) - 1) : stack'[i] = stack[i]
<1>1. [Top EXCEPT !.genuine = Genuine(Top), !.due = Collected] \in Frames
  BY TopTyped DEF Resume, Frames, TypeOK, Genuine, Collected, DueTimers, Callbacks
<1> QED
  BY <1>1, TopReplaced DEF Resume

\* A synchronisation only marks the waits in progress.
LEMMA SensedStack ==
    ASSUME TypeOK, SyncRunning
    PROVE  /\ stack' \in Seq(Frames) /\ Len(stack') = Len(stack)
           /\ stack = <<>> <=> stack' = <<>>
           /\ \A i \in 1..Len(stack) :
                 /\ stack'[i].seen = (stack[i].seen \/ changed')
                 /\ stack'[i].wake = stack[i].wake /\ stack'[i].soft = stack[i].soft
                 /\ stack'[i].genuine = stack[i].genuine
<1>1. changed' \in BOOLEAN /\ stack \in Seq(Frames)
  BY DEF SyncRunning, TypeOK
<1> DEFINE t == [i \in DOMAIN stack |-> [stack[i] EXCEPT !.seen = @ \/ changed']]
<1>2. /\ t \in Seq(Frames) /\ Len(t) = Len(stack)
      /\ stack = <<>> <=> t = <<>>
      /\ \A i \in 1..Len(stack) :
            /\ t[i].seen = (stack[i].seen \/ changed') /\ t[i].wake = stack[i].wake
            /\ t[i].soft = stack[i].soft /\ t[i].genuine = stack[i].genuine
  BY <1>1, Marked
<1>3. stack' = t
  BY DEF SyncRunning
<1> HIDE DEF t
<1> QED
  BY <1>2, <1>3

-----------------------------------------------------------------------------
(* Type correctness.                                                        *)

LEMMA TypeInit == ASSUME Init PROVE TypeOK
<1>1. stack \in Seq(Frames) /\ [p \in Pins |-> {}] \in [Pins -> SUBSET Edges]
  BY EmptySeq DEF Init
<1>2. [t \in Timers |-> OneShot] \in [Timers -> Periods \cup {OneShot}]
  OBVIOUS
<1> QED
  BY <1>1, <1>2 DEF Init, TypeOK

LEMMA RearmedTyped == ASSUME TypeOK PROVE Rearmed \in [Timers -> Nat]
<1>1. fire \in [Timers -> Nat] /\ period \in [Timers -> Periods \cup {OneShot}]
  BY DEF TypeOK
<1>2. Periods \cup {OneShot} \subseteq Nat
  BY McuSyncAssumption DEF OneShot
<1>3. \A t \in Timers : fire[t] \in Nat /\ fire[t] + period[t] \in Nat
  BY <1>1, <1>2
<1> QED
  BY <1>3 DEF Rearmed

LEMMA DeadlinesTyped == ASSUME TypeOK PROVE Deadlines \in SUBSET Nat
<1>1. fire \in [Timers -> Nat] /\ Scheduled \subseteq Timers /\ wakeAt \in SUBSET Nat
  BY DEF TypeOK, Scheduled
<1> QED
  BY <1>1 DEF Deadlines

LEMMA TypeStep == ASSUME TypeOK, Control, [Next]_vars PROVE TypeOK'
<1> USE McuSyncAssumption DEF clock, pins, timers, ended
<1>1. CASE Advance
  BY <1>1 DEF Advance, TypeOK, Reaches
<1>2. ASSUME NEW p \in Pins, InputChanges(p) PROVE TypeOK'
  BY <1>2 DEF InputChanges, TypeOK
<1>3. CASE SyncRunning
  <2>1. changed' \in BOOLEAN
    BY <1>3 DEF SyncRunning
  <2>2. stack' \in Seq(Frames)
    <3>1. stack \in Seq(Frames)
      BY DEF TypeOK
    <3>2. [i \in DOMAIN stack |-> [stack[i] EXCEPT !.seen = @ \/ changed']] \in Seq(Frames)
      BY <2>1, <3>1, Marked
    <3> QED
      BY <1>3, <3>2 DEF SyncRunning
  <2>3. pending' \in SUBSET Pins /\ phase' \in {"turn", "publish"}
    BY <1>3 DEF SyncRunning, TypeOK, Triggered
  <2> QED
    BY <1>3, <2>1, <2>2, <2>3 DEF SyncRunning, TypeOK
<1>4. CASE SyncOver
  BY <1>4 DEF SyncOver, TypeOK
<1>5. CASE DrainAgain
  BY <1>5 DEF DrainAgain, TypeOK
<1>6. CASE Publish
  <2>1. Deadlines \in SUBSET Nat
    BY DeadlinesTyped
  <2>2. next' \in SUBSET Nat /\ reached' \in BOOLEAN /\ event' \in BOOLEAN
    BY <1>6, <2>1 DEF Publish, Reaches
  <2> QED
    BY <1>6, <2>2 DEF Publish, TypeOK
<1>7. CASE Stop
  BY <1>7 DEF Stop, TypeOK
<1>8. CASE Begin
  BY <1>8 DEF Begin, TypeOK
<1>9. CASE Resume
  <2>2. stack' \in Seq(Frames)
    BY <1>9, ResumedStack
  <2>3. Rearmed \in [Timers -> Nat]
    BY RearmedTyped
  <2> QED
    BY <1>9, <2>2, <2>3 DEF Resume, TypeOK, Collect, DueTimers
<1>10. CASE CallNext
  <2>1. stack # <<>> /\ Top \in Frames
    BY <1>10, TopTyped DEF CallNext, Control
  <2>2. \A c \in Top.due : [Top EXCEPT !.due = @ \ {c}, !.running = c] \in Frames
    BY <2>1 DEF Frames
  <2>3. stack' \in Seq(Frames)
    BY <1>10, <2>1, <2>2, TopReplaced DEF CallNext
  <2> QED
    BY <1>10, <2>3 DEF CallNext, TypeOK
<1>11. CASE CallbackReturns
  <2>1. [Top EXCEPT !.running = 0] \in Frames
    BY <1>11, TopTyped DEF CallbackReturns, Frames
  <2>2. stack' \in Seq(Frames)
    BY <1>11, <2>1, TopReplaced DEF CallbackReturns
  <2> QED
    BY <1>11, <2>2 DEF CallbackReturns, TypeOK
<1>12. CASE WaitReturns
  <2>1. stack' \in Seq(Frames)
    BY <1>12, TopPopped DEF WaitReturns, Control
  <2> QED
    BY <1>12, <2>1 DEF WaitReturns, TypeOK
<1>13. CASE WaitAgain
  <2>1. Top.wake \in Nat
    BY <1>13, TopTyped DEF WaitAgain, Control, Frames
  <2> QED
    BY <1>13, <2>1 DEF WaitAgain, TypeOK
<1>14. CASE Raise
  <2>1. stack' \in Seq(Frames)
    BY <1>14, TopPopped DEF Raise
  <2> QED
    BY <1>14, <2>1 DEF Raise, TypeOK
<1>15. ASSUME NEW error \in BOOLEAN, Finish(error) PROVE TypeOK'
  BY <1>15 DEF Finish, TypeOK
<1>16. CASE Native
  <2>1. ASSUME NEW d \in Durations, Sleep(d) PROVE TypeOK'
    <3>1. simTime + d \in Nat
      BY DEF TypeOK
    <3>2. wakeAt' = {simTime + d} /\ stack' \in Seq(Frames) /\ phase' = "drain"
      BY <2>1, <3>1, Yielded DEF Sleep
    <3> QED
      BY <2>1, <3>1, <3>2 DEF Sleep, TypeOK
  <2>2. CASE PinAccess
    <3>1. simTime + GpioOpTime \in Nat
      BY DEF TypeOK
    <3>2. wakeAt' = {simTime + GpioOpTime} /\ stack' \in Seq(Frames) /\ phase' = "drain"
      BY <2>2, <3>1, Yielded DEF PinAccess
    <3> QED
      BY <2>2, <3>1, <3>2 DEF PinAccess, TypeOK
  <2>3. ASSUME Yield(simTime, TRUE)
        PROVE  wakeAt' \in SUBSET Nat /\ stack' \in Seq(Frames) /\ phase' = "drain"
    <3>1. simTime \in Nat
      BY DEF TypeOK
    <3> QED
      BY <2>3, <3>1, Yielded
  <2>4. ASSUME NEW p \in Pins, NEW m \in {"in", "out", "taken"}, PinInit(p, m)
        PROVE  TypeOK'
    BY <2>3, <2>4 DEF PinInit, TypeOK
  <2>5. ASSUME NEW p \in Pins, NEW edges \in Triggers, PinIrq(p, edges)
        PROVE  TypeOK'
    BY <2>3, <2>5 DEF PinIrq, TypeOK, Edges
  <2>6. ASSUME NEW t \in Timers, NEW d \in Periods, NEW o \in BOOLEAN, TimerInit(t, d, o)
        PROVE  TypeOK'
    <3>1. simTime + d \in Nat
      BY DEF TypeOK
    <3> QED
      BY <2>3, <2>6, <3>1 DEF TimerInit, TypeOK
  <2>7. ASSUME NEW t \in Timers, TimerDeinit(t) PROVE TypeOK'
    BY <2>3, <2>7 DEF TimerDeinit, TypeOK
  <2>8. CASE DisableIrq
    BY <2>8 DEF DisableIrq, TypeOK
  <2>9. CASE EnableIrq
    <3>1. Frame(simTime, FALSE, TRUE, pending \cup DueTimers) \in Frames
      BY DEF Frame, Frames, TypeOK, DueTimers, Callbacks
    <3>2. stack' \in Seq(Frames)
      BY <2>9, <3>1, TopPushed DEF EnableIrq
    <3>3. Rearmed \in [Timers -> Nat]
      BY RearmedTyped
    <3> QED
      BY <2>9, <3>2, <3>3 DEF EnableIrq, TypeOK
  <2> QED
    BY <1>16, <2>1, <2>2, <2>4, <2>5, <2>6, <2>7, <2>8, <2>9 DEF Native
<1>17. CASE UNCHANGED vars
  BY <1>17 DEF vars, TypeOK
<1> QED
  BY <1>1, <1>2, <1>3, <1>4, <1>5, <1>6, <1>7, <1>8, <1>9, <1>10, <1>11, <1>12,
     <1>13, <1>14, <1>15, <1>16, <1>17 DEF Next, Ended

-----------------------------------------------------------------------------
(* The phases of a synchronisation.                                         *)

LEMMA ControlStep == ASSUME TypeOK, Control, Posted, [Next]_vars PROVE Control'
<1> USE DEF clock, pins, timers, ended
<1>1. CASE Advance
  BY <1>1 DEF Advance, Control, TypeOK
<1>2. ASSUME NEW p \in Pins, InputChanges(p) PROVE Control'
  BY <1>2 DEF InputChanges, Control
<1>3. CASE SyncRunning
  BY <1>3 DEF SyncRunning, Control, TypeOK
<1>4. CASE SyncOver
  BY <1>4 DEF SyncOver, Control
<1>5. CASE DrainAgain
  BY <1>5 DEF DrainAgain, Control
<1>6. CASE Publish
  BY <1>6 DEF Publish, Control
<1>7. CASE Stop
  BY <1>7 DEF Stop, Control
<1>8. CASE Begin
  BY <1>8 DEF Begin, Control
<1>9. CASE Resume
  <2>1. stack' # <<>>
    BY <1>9, ResumedStack
  <2> QED
    BY <1>9, <2>1 DEF Resume, Control
<1>10. CASE CallNext
  BY <1>10 DEF CallNext, Control
<1>11. CASE CallbackReturns
  <2>1. stack' # <<>>
    BY <1>11, AppendProperties, TopTyped, Popped DEF CallbackReturns, ReplaceTop, Below, TypeOK
  <2> QED
    BY <1>11, <2>1 DEF CallbackReturns, Control
<1>12. CASE WaitReturns
  BY <1>12 DEF WaitReturns, Control
<1>13. CASE WaitAgain
  BY <1>13 DEF WaitAgain, Control
<1>14. CASE Raise
  BY <1>14 DEF Raise, Control
<1>15. ASSUME NEW error \in BOOLEAN, Finish(error) PROVE Control'
  BY <1>15 DEF Finish, Control
<1>16. CASE Native
  <2>1. CASE DisableIrq
    BY <2>1 DEF DisableIrq, Control
  <2>2. CASE EnableIrq
    <3>1. Frame(simTime, FALSE, TRUE, pending \cup DueTimers) \in Frames
      BY DEF Frame, Frames, TypeOK, DueTimers, Callbacks
    <3>2. stack' # <<>>
      BY <2>2, <3>1, TopPushed DEF EnableIrq
    <3> QED
      BY <2>2, <3>2 DEF EnableIrq, Control
  <2>3. ASSUME NEW w, NEW b, Yield(w, b), UNCHANGED <<now, simTime, masked, ended, maskUsed>>
        PROVE  Control'
    BY <2>3 DEF Yield, Control
  <2> QED
    BY <1>16, <2>1, <2>2, <2>3
       DEF Native, Sleep, PinAccess, PinInit, PinIrq, TimerInit, TimerDeinit
<1>17. CASE UNCHANGED vars
  BY <1>17 DEF vars, Control
<1> QED
  BY <1>1, <1>2, <1>3, <1>4, <1>5, <1>6, <1>7, <1>8, <1>9, <1>10, <1>11, <1>12,
     <1>13, <1>14, <1>15, <1>16, <1>17 DEF Next, Ended

-----------------------------------------------------------------------------
(* The wake that is posted.                                                 *)

LEMMA PostedStep == ASSUME TypeOK, Control, Posted, [Next]_vars PROVE Posted'
<1> USE DEF clock, pins, timers, ended
<1>1. CASE Advance
  BY <1>1 DEF Advance, Posted, Top
<1>2. ASSUME NEW p \in Pins, InputChanges(p) PROVE Posted'
  BY <1>2 DEF InputChanges, Posted, Top
<1>3. CASE SyncRunning
  <2>1. stack = <<>> <=> stack' = <<>>
    BY <1>3, SensedStack
  <2>2. stack # <<>> => Top'.wake = Top.wake
    BY <1>3, SensedStack, TopTyped DEF Top
  <2> QED
    BY <1>3, <2>1, <2>2 DEF SyncRunning, Posted
<1>4. CASE SyncOver
  BY <1>4 DEF SyncOver, Posted
<1>5. CASE DrainAgain
  BY <1>5 DEF DrainAgain, Posted, Top
<1>6. CASE Publish
  BY <1>6 DEF Publish, Posted, Top
<1>7. CASE Stop
  BY <1>7 DEF Stop, Posted, Control
<1>8. ASSUME phase' \in {"due", "code"} PROVE Posted'
  BY <1>8 DEF Posted
<1>9. CASE WaitAgain
  BY <1>9 DEF WaitAgain, Posted, Control, Top
<1>10. ASSUME NEW error \in BOOLEAN, Finish(error) PROVE Posted'
  BY <1>10 DEF Finish, Posted
<1>11. ASSUME NEW w \in Nat, NEW b \in BOOLEAN, Yield(w, b) PROVE Posted'
  <2>1. /\ phase' = "drain" /\ wakeAt' = {w} /\ stack' # <<>>
        /\ Top' = Frame(w, b, FALSE, {})
    BY <1>11, Yielded
  <2> QED
    BY <2>1 DEF Posted, Frame
<1>12. CASE Native
  BY <1>8, <1>11, <1>12, Waits DEF Native, DisableIrq, EnableIrq
<1>13. CASE UNCHANGED vars
  BY <1>13 DEF vars, Posted, Top
<1> QED
  BY <1>1, <1>2, <1>3, <1>4, <1>5, <1>6, <1>7, <1>8, <1>9, <1>10, <1>12, <1>13
     DEF Next, Ended, Begin, Resume, CallNext, CallbackReturns, WaitReturns, Raise

-----------------------------------------------------------------------------
(* Before the first wait.                                                   *)

LEMMA FreshStep == ASSUME TypeOK, Fresh, [Next]_vars PROVE Fresh'
<1> USE DEF clock, pins, timers, ended
<1>1. CASE SyncRunning
  BY <1>1 DEF SyncRunning, Fresh, Triggered, TypeOK
<1>2. CASE Resume
  BY <1>2 DEF Resume, Collect, Fresh
<1>3. CASE EnableIrq
  BY <1>3 DEF EnableIrq, Fresh
<1>4. ASSUME NEW w \in Nat, NEW b \in BOOLEAN, Yield(w, b) PROVE Fresh'
  BY <1>4 DEF Yield, Fresh
<1>5. CASE WaitAgain
  BY <1>5 DEF WaitAgain, Fresh
<1>6. ASSUME UNCHANGED <<wakeAt, pending, active, trigger>> PROVE Fresh'
  BY <1>6 DEF Fresh
<1>7. CASE Native
  BY <1>3, <1>4, <1>6, <1>7, Waits DEF Native, DisableIrq
<1> QED
  BY <1>1, <1>2, <1>5, <1>6, <1>7
     DEF Next, Ended, vars, Advance, InputChanges, SyncOver, DrainAgain, Publish, Stop,
         Begin, CallNext, CallbackReturns, WaitReturns, Raise, Finish

-----------------------------------------------------------------------------
(* Pins are pending from the synchronisation to the turn.                   *)

LEMMA ServedStep ==
    ASSUME TypeOK, Control, Posted, Fresh, Served, [Next]_vars PROVE Served'
<1> USE DEF clock, pins, timers, ended
<1>1. CASE SyncRunning
  <2>1. phase' # "turn" => changed' = FALSE
    BY <1>1 DEF SyncRunning, WakeDue
  <2>2. changed' = FALSE => Triggered = {}
    BY <1>1 DEF SyncRunning, Triggered
  <2> QED
    BY <1>1, <2>1, <2>2 DEF SyncRunning, Served
<1>2. CASE Begin
  BY <1>2 DEF Begin, Control, Posted, Fresh, Served
<1>3. CASE Resume
  BY <1>3 DEF Resume, Collect, Served
<1>4. CASE EnableIrq
  BY <1>4 DEF EnableIrq, Served
<1>5. ASSUME NEW p \in Pins, NEW edges \in Triggers, PinIrq(p, edges) PROVE Served'
  BY <1>5 DEF PinIrq, Yield, Served
<1>6. ASSUME UNCHANGED <<pending, masked>>, phase # "turn" \/ phase' = "turn"
      PROVE  Served'
  BY <1>6 DEF Served
<1>7. CASE DisableIrq
  BY <1>7 DEF DisableIrq, Served
<1>8. CASE Native
  BY <1>4, <1>5, <1>6, <1>7, <1>8
     DEF Native, Sleep, PinAccess, PinInit, TimerInit, TimerDeinit, Yield
<1> QED
  BY <1>1, <1>2, <1>3, <1>6, <1>8
     DEF Next, Ended, vars, Advance, InputChanges, SyncOver, DrainAgain, Publish, Stop,
         CallNext, CallbackReturns, WaitReturns, WaitAgain, Raise, Finish

-----------------------------------------------------------------------------
(* The reasons of a genuine wake.                                           *)

\* One frame, and one wait in progress.
Reason(f) == f.genuine => simTime >= f.wake \/ (f.soft /\ f.seen)

LEMMA ReasonsStep ==
    ASSUME TypeOK, Control, Posted, Reasons, [Next]_vars PROVE Reasons'
<1> USE DEF clock, pins, timers, ended
<1>1. ASSUME UNCHANGED <<stack, simTime>>, phase' # "turn" PROVE Reasons'
  BY <1>1 DEF Reasons
<1>2. CASE SyncRunning
  <2>1. simTime' >= simTime /\ simTime' \in Nat /\ simTime \in Nat
    BY <1>2 DEF SyncRunning, Control, TypeOK
  <2>2. ASSUME NEW i \in 1..Len(stack'), stack'[i].genuine
        PROVE  simTime' >= stack'[i].wake \/ (stack'[i].soft /\ stack'[i].seen)
    <3>1. /\ i \in 1..Len(stack)
          /\ stack'[i].seen = (stack[i].seen \/ changed')
          /\ stack'[i].wake = stack[i].wake /\ stack'[i].soft = stack[i].soft
          /\ stack[i].genuine
      BY <1>2, <2>2, SensedStack
    <3>2. stack[i].wake \in Nat
      <4>1. stack[i] \in Frames
        BY <3>1, ElementOfSeq DEF TypeOK
      <4> QED
        BY <4>1 DEF Frames
    <3>3. simTime >= stack[i].wake \/ (stack[i].soft /\ stack[i].seen)
      BY <3>1 DEF Reasons
    <3>4. CASE simTime >= stack[i].wake
      BY <2>1, <3>1, <3>2, <3>4
    <3>5. CASE stack[i].soft /\ stack[i].seen
      BY <3>1, <3>5
    <3> QED
      BY <3>3, <3>4, <3>5
  <2>3. stack' # <<>> /\ changed' => Top'.seen
    <3>1. stack' # <<>> => Len(stack') \in 1..Len(stack)
      BY <1>2, SensedStack, TopTyped
    <3> QED
      BY <1>2, <3>1, SensedStack DEF Top
  <2> QED
    BY <2>2, <2>3 DEF Reasons
<1>3. CASE DrainAgain
  <2>1. stack # <<>> => simTime >= Top.wake
    BY <1>3 DEF DrainAgain, Reaches, Posted, Control
  <2> QED
    BY <1>3, <2>1 DEF DrainAgain, Reasons, Top
<1>4. ASSUME stack # <<>>, NEW f \in Frames, stack' = ReplaceTop(f),
             UNCHANGED simTime, phase' # "turn", Reason(f)
      PROVE  Reasons'
  <2>1. /\ Len(stack) \in Nat \ {0} /\ Len(stack') = Len(stack)
        /\ stack'[Len(stack)] = f
        /\ \A i \in 1..(Len(stack) - 1) : stack'[i] = stack[i]
    BY <1>4, TopReplaced DEF Top
  <2>2. ASSUME NEW i \in 1..Len(stack'), stack'[i].genuine
        PROVE  simTime' >= stack'[i].wake \/ (stack'[i].soft /\ stack'[i].seen)
    <3>1. CASE i = Len(stack)
      BY <1>4, <2>1, <2>2, <3>1 DEF Reason
    <3>2. CASE i # Len(stack)
      <4>1. i \in 1..(Len(stack) - 1) /\ i \in 1..Len(stack)
        BY <2>1, <3>2
      <4> QED
        BY <1>4, <2>1, <2>2, <4>1 DEF Reasons
    <3> QED
      BY <3>1, <3>2
  <2> QED
    BY <1>4, <2>2 DEF Reasons
<1>5. CASE Resume
  <2>1. Top \in Frames /\ Top.seen \in BOOLEAN
    BY <1>5, TopTyped DEF Resume, Frames
  <2> DEFINE f == [Top EXCEPT !.genuine = Genuine(Top), !.due = Collected]
  <2>2. f \in Frames
    BY <1>5, ResumedStack, TopTyped
       DEF Resume, Frames, TypeOK, Genuine, Collected, DueTimers, Callbacks
  <2>3. Genuine(Top) => simTime >= Top.wake \/ (Top.soft /\ Top.seen)
    BY <1>5 DEF Resume, Genuine, Reasons
  <2>4. /\ f.genuine = Genuine(Top) /\ f.wake = Top.wake
        /\ f.soft = Top.soft /\ f.seen = Top.seen
    BY <2>1 DEF Frames
  <2>5. Reason(f)
    BY <2>3, <2>4 DEF Reason
  <2>6. stack # <<>> /\ stack' = ReplaceTop(f) /\ UNCHANGED simTime /\ phase' # "turn"
    BY <1>5 DEF Resume
  <2> HIDE DEF f
  <2> QED
    BY <1>4, <2>2, <2>5, <2>6
<1>6. ASSUME stack # <<>> PROVE Reason(Top)
  BY <1>6, TopTyped DEF Reasons, Reason, Top
<1>7. CASE CallNext
  <2>1. stack # <<>> /\ Top \in Frames
    BY <1>7, TopTyped DEF CallNext, Control
  <2>2. PICK c \in Top.due : stack' = ReplaceTop([Top EXCEPT !.due = @ \ {c}, !.running = c])
    BY <1>7 DEF CallNext
  <2> DEFINE f == [Top EXCEPT !.due = @ \ {c}, !.running = c]
  <2>3. /\ f \in Frames /\ f.genuine = Top.genuine /\ f.wake = Top.wake
        /\ f.soft = Top.soft /\ f.seen = Top.seen
    BY <2>1 DEF Frames
  <2>4. Reason(f)
    BY <1>6, <2>1, <2>3 DEF Reason
  <2>5. stack' = ReplaceTop(f) /\ UNCHANGED simTime /\ phase' # "turn"
    BY <1>7, <2>2 DEF CallNext
  <2> HIDE DEF f
  <2> QED
    BY <1>4, <2>1, <2>3, <2>4, <2>5
<1>8. CASE CallbackReturns
  <2>1. stack # <<>> /\ Top \in Frames
    BY <1>8, TopTyped DEF CallbackReturns
  <2> DEFINE f == [Top EXCEPT !.running = 0]
  <2>3. /\ f \in Frames /\ f.genuine = Top.genuine /\ f.wake = Top.wake
        /\ f.soft = Top.soft /\ f.seen = Top.seen
    BY <2>1 DEF Frames
  <2>4. Reason(f)
    BY <1>6, <2>1, <2>3 DEF Reason
  <2>5. stack' = ReplaceTop(f) /\ UNCHANGED simTime /\ phase' # "turn"
    BY <1>8 DEF CallbackReturns
  <2> HIDE DEF f
  <2> QED
    BY <1>4, <2>1, <2>3, <2>4, <2>5
<1>9. ASSUME stack # <<>>, stack' = Below, UNCHANGED simTime, phase' # "turn"
      PROVE  Reasons'
  <2>1. /\ Len(stack) \in Nat \ {0} /\ Len(stack') = Len(stack) - 1
        /\ \A i \in 1..Len(stack') : i \in 1..Len(stack) /\ stack'[i] = stack[i]
    BY <1>9, TopPopped
  <2> QED
    BY <1>9, <2>1 DEF Reasons
<1>10. ASSUME NEW f \in Frames, stack' = Append(stack, f), UNCHANGED simTime,
              phase' # "turn", Reason(f)
       PROVE  Reasons'
  <2>1. /\ Len(stack) \in Nat /\ Len(stack') = Len(stack) + 1
        /\ stack'[Len(stack) + 1] = f
        /\ \A i \in 1..Len(stack) : stack'[i] = stack[i]
    BY <1>10, TopPushed DEF Top
  <2>2. \A i \in 1..Len(stack') : i = Len(stack) + 1 \/ i \in 1..Len(stack)
    BY <2>1
  <2> QED
    BY <1>10, <2>1, <2>2 DEF Reasons, Reason
<1>11. ASSUME NEW w \in Nat, NEW b \in BOOLEAN, Yield(w, b), UNCHANGED simTime
       PROVE  Reasons'
  <2>1. Frame(w, b, FALSE, {}) \in Frames /\ Reason(Frame(w, b, FALSE, {}))
    BY DEF Frame, Frames, Reason
  <2> QED
    BY <1>10, <1>11, <2>1 DEF Yield
<1>12. CASE EnableIrq
  <2>1. Frame(simTime, FALSE, TRUE, pending \cup DueTimers) \in Frames
    BY DEF Frame, Frames, TypeOK, DueTimers, Callbacks
  <2>2. Reason(Frame(simTime, FALSE, TRUE, pending \cup DueTimers))
    BY DEF Frame, Reason, TypeOK
  <2> QED
    BY <1>10, <1>12, <2>1, <2>2 DEF EnableIrq
<1>13. CASE DisableIrq
  BY <1>1, <1>13 DEF DisableIrq
<1>14. CASE Native
  <2>1. DisableIrq \/ EnableIrq \/ UNCHANGED simTime
    BY <1>14 DEF Native, Sleep, PinAccess, PinInit, PinIrq, TimerInit, TimerDeinit
  <2> QED
    BY <1>11, <1>12, <1>13, <1>14, <2>1, Waits
<1>15. CASE UNCHANGED vars
  BY <1>15 DEF vars, Reasons, Top
<1>16. CASE WaitReturns \/ Raise
  BY <1>9, <1>16 DEF WaitReturns, Raise, Control
<1>17. ASSUME UNCHANGED <<stack, simTime, changed, phase>> PROVE Reasons'
  BY <1>17 DEF Reasons, Top
<1> QED
  BY <1>1, <1>2, <1>3, <1>5, <1>7, <1>8, <1>14, <1>15, <1>16, <1>17
     DEF Next, Ended, Advance, InputChanges, SyncOver, Publish, Stop, Begin, WaitAgain,
         Finish

-----------------------------------------------------------------------------
(* The wake published, and the timers.                                      *)

\* The phases in which the program, or the drain loop, is at work.
Busy == phase \in {"due", "code", "drain", "publish"}

LEMMA AheadStep ==
    ASSUME TypeOK, Control, Posted, Fresh, Ahead, [Next]_vars PROVE Ahead'
<1> USE DEF clock, pins, timers, ended
<1>1. now \in Nat /\ simTime \in Nat /\ wakeAt \in SUBSET Nat /\ next \in SUBSET Nat
  BY DEF TypeOK
<1>2. active \subseteq Timers /\ \A t \in Timers : fire[t] \in Nat
  BY DEF TypeOK
<1>3. CASE Advance
  <2>1. phase = "idle" /\ ~event /\ phase' = "idle" /\ now' = now + 1
    BY <1>3 DEF Advance
  <2>2. ASSUME Quiet', masked \/ ~maskUsed PROVE ~reached' /\ ~Reaches(now', next')
    BY <1>3, <2>1, <2>2 DEF Advance, Quiet, Ahead
  <2>3. ASSUME ~done, ~maskUsed
        PROVE  /\ \A d \in wakeAt : now + 1 <= d
               /\ \A t \in active : now + 1 <= fire[t]
               /\ \E n \in next : /\ \A d \in wakeAt : n <= d
                                 /\ \A t \in active : n <= fire[t]
    <3>1. PICK n \in next : /\ \A d \in wakeAt : n <= d
                           /\ \A t \in active : n <= fire[t]
      BY <2>1, <2>3 DEF Ahead, Quiet
    <3>2. ~(now >= n)
      BY <2>1, <2>3, <3>1 DEF Ahead, Quiet, Reaches
    <3>3. n \in Nat /\ now + 1 <= n
      BY <1>1, <3>1, <3>2
    <3>4. \A d \in wakeAt : now + 1 <= d
      BY <1>1, <3>1, <3>3
    <3>5. \A t \in active : now + 1 <= fire[t]
      BY <1>1, <1>2, <3>1, <3>3
    <3> QED
      BY <3>1, <3>4, <3>5
  <2>4. UNCHANGED <<wakeAt, next, active, fire, done, masked, maskUsed>>
    BY <1>3 DEF Advance
  <2> QED
    BY <2>1, <2>2, <2>3, <2>4 DEF Ahead
<1>4. ASSUME NEW p \in Pins, InputChanges(p) PROVE Ahead'
  <2>1. Quiet' => Quiet
    BY <1>4 DEF InputChanges, Quiet, TypeOK
  <2> QED
    BY <1>4, <2>1 DEF InputChanges, Ahead, Reaches
<1>5. CASE SyncRunning
  <2>1. ASSUME phase' = "publish"
        PROVE  /\ \A d \in wakeAt : now < d
               /\ ~maskUsed => \A t \in active : now < fire[t]
    <3>1. ~Reaches(now, wakeAt) /\ ~TimerDue
      BY <1>5, <2>1 DEF SyncRunning, WakeDue
    <3>2. ~maskUsed => Scheduled = active
      BY DEF Control, Scheduled
    <3> QED
      BY <1>1, <1>2, <3>1, <3>2 DEF Reaches, TimerDue
  <2>2. phase' \in {"turn", "publish"} /\ phase = "idle"
    BY <1>5 DEF SyncRunning
  <2>3. UNCHANGED <<now, wakeAt, active, fire, done, maskUsed>>
    BY <1>5 DEF SyncRunning
  <2> QED
    BY <2>1, <2>2, <2>3 DEF Ahead, Quiet
<1>6. CASE SyncOver
  BY <1>6 DEF SyncOver, Ahead, Quiet
<1>7. CASE DrainAgain
  <2>1. ~done /\ ~maskUsed => \A t \in active : now <= fire[t]
    BY <1>1, <1>2, <1>7 DEF DrainAgain, Ahead
  <2> QED
    BY <1>7, <2>1 DEF DrainAgain, Ahead, Quiet
<1>8. CASE Publish
  <2>1. CASE done
    BY <1>8, <2>1 DEF Publish, Ahead, Quiet
  <2>2. CASE ~done
    <3>1. PICK d \in Deadlines : (\A e \in Deadlines : d <= e) /\ next' = {d}
      BY <1>8, <2>2 DEF Publish
    <3>2. \A e \in wakeAt : now < e
      BY <1>1, <1>8, <2>2 DEF Publish, Reaches, Ahead
    <3>3. ~maskUsed => \A t \in active : now < fire[t]
      BY <1>8, <2>2 DEF Publish, Ahead
    <3>4. /\ \A e \in wakeAt : now <= e
          /\ ~maskUsed => \A t \in active : now <= fire[t]
      BY <1>1, <1>2, <3>2, <3>3
    <3>5. ASSUME masked \/ ~maskUsed PROVE ~Reaches(now, next')
      <4>1. masked => Scheduled = {}
        BY DEF Scheduled
      <4>2. ~maskUsed => \A t \in Scheduled : now < fire[t]
        BY <3>3 DEF Scheduled
      <4>3. now < d /\ d \in Nat
        BY <1>1, <1>2, <3>1, <3>2, <3>5, <4>1, <4>2 DEF Deadlines, Scheduled
      <4> QED
        BY <1>1, <3>1, <4>3 DEF Reaches
    <3>6. ~maskUsed => /\ \A e \in wakeAt : d <= e
                       /\ \A t \in active : d <= fire[t]
      <4>1. ~maskUsed => Scheduled = active
        BY DEF Scheduled, Control
      <4> QED
        BY <3>1, <4>1 DEF Deadlines
    <3>7. /\ phase' = "idle" /\ reached' = Reaches(now, next')
          /\ UNCHANGED <<now, wakeAt, active, fire, done, masked, maskUsed>>
      BY <1>8 DEF Publish
    <3> QED
      BY <3>1, <3>4, <3>5, <3>6, <3>7 DEF Ahead
  <2> QED
    BY <2>1, <2>2
<1>9. CASE Stop
  BY <1>9 DEF Stop, Ahead, Quiet
<1>10. CASE Begin
  <2>1. active = {}
    BY <1>10 DEF Begin, Posted, Control, Fresh
  <2> QED
    BY <1>10, <2>1 DEF Begin, Ahead, Quiet
<1>11. CASE Resume
  <2>1. ASSUME ~maskUsed, NEW t \in active' PROVE now < fire'[t]
    <3>1. ~masked /\ ~done /\ simTime = now
      BY <1>11, <2>1 DEF Resume, Control
    <3>2. /\ t \in active /\ t \in Timers /\ fire' = Rearmed
          /\ t \in DueTimers => period[t] # OneShot
      BY <1>2, <1>11, <2>1, <3>1 DEF Resume, Collect
    <3>3. now <= fire[t]
      BY <1>11, <2>1, <3>1, <3>2 DEF Resume, Ahead
    <3>4. CASE t \in DueTimers
      <4>1. period[t] \in Nat \ {0}
        BY <3>2, <3>4, McuSyncAssumption DEF TypeOK
      <4>2. fire'[t] = fire[t] + period[t]
        BY <3>2, <3>4 DEF Rearmed
      <4> QED
        BY <1>1, <1>2, <3>2, <3>3, <4>1, <4>2
    <3>5. CASE t \notin DueTimers
      <4>1. ~(fire[t] <= simTime) /\ fire'[t] = fire[t]
        BY <3>2, <3>5 DEF DueTimers, Rearmed
      <4> QED
        BY <1>1, <1>2, <3>1, <3>2, <4>1
    <3> QED
      BY <3>4, <3>5
  <2> QED
    BY <1>11, <2>1 DEF Resume, Ahead, Quiet
<1>12. ASSUME Busy, Busy', phase' # "publish",
              UNCHANGED <<now, done, maskUsed, active, fire>>
       PROVE  Ahead'
  BY <1>12 DEF Ahead, Quiet, Busy
<1>13. ASSUME NEW error \in BOOLEAN, Finish(error) PROVE Ahead'
  BY <1>13 DEF Finish, Ahead, Quiet
<1>14. CASE Native
  <2>1. CASE DisableIrq
    BY <2>1 DEF DisableIrq, Ahead, Quiet
  <2>2. CASE EnableIrq
    <3>1. ASSUME ~maskUsed PROVE /\ \A t \in active : now < fire[t]
                                 /\ active' = active
                                 /\ \A t \in active : fire'[t] = fire[t]
      <4>1. \A t \in active : now < fire[t]
        BY <2>2, <3>1 DEF EnableIrq, Control, Ahead
      <4>2. simTime = now
        BY <2>2 DEF EnableIrq, Control
      <4>3. DueTimers = {}
        BY <1>1, <1>2, <4>1, <4>2 DEF DueTimers
      <4>4. active' = active /\ fire' = Rearmed
        BY <2>2, <4>3 DEF EnableIrq
      <4>5. \A t \in active : fire'[t] = fire[t]
        BY <1>2, <4>3, <4>4 DEF Rearmed
      <4> QED
        BY <4>1, <4>4, <4>5
    <3> QED
      BY <2>2, <3>1 DEF EnableIrq, Ahead, Quiet
  <2>3. ASSUME NEW t \in Timers, NEW d \in Periods, NEW o \in BOOLEAN, TimerInit(t, d, o)
        PROVE  Ahead'
    <3>1. /\ phase = "code" /\ phase' = "drain" /\ simTime = now
          /\ UNCHANGED <<now, done, maskUsed>> /\ ~done
          /\ active' = active \cup {t}
          /\ fire' = [fire EXCEPT ![t] = simTime + d]
      BY <2>3 DEF TimerInit, Yield, Control
    <3>2. now < now + d
      BY <1>1, McuSyncAssumption
    <3>3. ~maskUsed => \A u \in active' : now < fire'[u]
      <4>1. fire \in [Timers -> Nat]
        BY DEF TypeOK
      <4>2. ~maskUsed => \A u \in active : now < fire[u]
        BY <3>1 DEF Ahead
      <4> QED
        BY <1>2, <3>1, <3>2, <4>1, <4>2
    <3> QED
      BY <3>1, <3>3 DEF Ahead, Quiet
  <2>4. ASSUME NEW t \in Timers, TimerDeinit(t) PROVE Ahead'
    BY <2>4 DEF TimerDeinit, Yield, Ahead, Quiet, Control
  <2>5. ASSUME NEW w, NEW b, Yield(w, b), UNCHANGED <<now, done, maskUsed, active, fire>>
        PROVE  Ahead'
    BY <1>12, <2>5 DEF Yield, Busy
  <2> QED
    BY <1>14, <2>1, <2>2, <2>3, <2>4, <2>5
       DEF Native, Sleep, PinAccess, PinInit, PinIrq
<1>15. CASE UNCHANGED vars
  BY <1>15 DEF vars, Ahead, Quiet, Reaches
<1> QED
  BY <1>3, <1>4, <1>5, <1>6, <1>7, <1>8, <1>9, <1>10, <1>11, <1>12, <1>13, <1>14, <1>15
     DEF Next, Ended, CallNext, CallbackReturns, WaitReturns, WaitAgain, Raise, Busy

-----------------------------------------------------------------------------
(* The theorems.                                                            *)

LEMMA Initially == ASSUME Init PROVE IInv
<1>1. TypeOK
  BY TypeInit
<1>2. stack = <<>> /\ Len(stack) = 0
  BY EmptySeq DEF Init
<1>3. Reasons
  BY <1>2 DEF Init, Reasons
<1> QED
  BY <1>1, <1>2, <1>3
     DEF Init, IInv, Control, Posted, Fresh, Served, Ahead, Quiet

LEMMA Inductive == ASSUME IInv, [Next]_vars PROVE IInv'
BY TypeStep, ControlStep, PostedStep, FreshStep, ServedStep, ReasonsStep, AheadStep
   DEF IInv

LEMMA Invariance == Spec => []IInv
BY Initially, Inductive, PTL DEF Spec

\* Every variable keeps its type.
THEOREM TypeCorrect == Spec => []TypeOK
<1>1. IInv => TypeOK
  BY DEF IInv
<1> QED
  BY <1>1, Invariance, PTL

\* No transition a handler asked for is forgotten: see run_due_callbacks.
THEOREM PendingAreServed == Spec => []PendingServed
<1>1. IInv => PendingServed
  BY DEF IInv, Served, PendingServed
<1> QED
  BY <1>1, Invariance, PTL

\* A wait of yield_until returns at its deadline, or is a sleep in which an
\* input changed, however callbacks nest in it.
THEOREM WaitsDoLast == Spec => WaitsLast
<1>1. ASSUME IInv, [Next]_vars
      PROVE  [WaitReturns => now >= Top.wake \/ (Top.soft /\ Top.seen)]_vars
  <2>1. ASSUME WaitReturns PROVE now >= Top.wake \/ (Top.soft /\ Top.seen)
    <3>1. simTime = now /\ stack # <<>> /\ Top.genuine
      BY <1>1, <2>1 DEF WaitReturns, IInv, Control
    <3>2. Len(stack) \in 1..Len(stack)
      BY <1>1, <3>1, TopTyped DEF IInv
    <3> QED
      BY <1>1, <3>1, <3>2 DEF IInv, Reasons, Top
  <2> QED
    BY <2>1
<1> QED
  BY <1>1, Invariance, PTL DEF Spec, WaitsLast

\* The wake sync_impl publishes is ahead of time, unless callbacks were masked
\* and are not any more.
THEOREM WakesAhead == Spec => []WakeAheadMasking
<1>1. IInv => WakeAheadMasking
  BY DEF IInv, Ahead, WakeAheadMasking, WakeAhead
<1> QED
  BY <1>1, Invariance, PTL

\* Time never passes the instant the innermost wait asked for.
THEOREM SleepsEnd == Spec => []NoOversleep
<1>1. IInv => NoOversleep
  BY DEF IInv, Ahead, NoOversleep
<1> QED
  BY <1>1, Invariance, PTL

\* Time never passes the deadline of a timer.
THEOREM TimersServed == Spec => []TimersPunctual
<1>1. IInv => TimersPunctual
  <2>1. ASSUME IInv, ~done, ~maskUsed PROVE \A t \in active : now <= fire[t]
    <3>1. phase \in {"idle", "turn", "due", "code", "drain", "publish"}
      BY <2>1 DEF IInv, TypeOK, Control
    <3>2. /\ now \in Nat /\ \A t \in active : fire[t] \in Nat
      BY <2>1 DEF IInv, TypeOK
    <3> QED
      BY <2>1, <3>1, <3>2 DEF IInv, Ahead
  <2> QED
    BY <2>1 DEF TimersPunctual
<1> QED
  BY <1>1, Invariance, PTL
=============================================================================
