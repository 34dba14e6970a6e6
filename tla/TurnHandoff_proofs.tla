------------------------ MODULE TurnHandoff_proofs -------------------------
(***************************************************************************)
(* Proofs about TurnHandoff, for any finite set of microcontrollers and    *)
(* any value of the other constants: the type invariant, the alternation   *)
(* of the threads, the absence of lost wake-ups, and the implementation of *)
(* TurnAlternation.                                                        *)
(*                                                                         *)
(* Alternation is not inductive: it says nothing of where the turn is when *)
(* nobody runs.  IInv adds, for each microcontroller, how far its          *)
(* construction and its end went, who owns the turn, and which of the two  *)
(* threads may be asleep on the condition variable, and for what.          *)
(***************************************************************************)
EXTENDS TurnHandoff, TLAPS, FiniteSetTheorems

Initialising == {"initgil", "initrun", "initok", "initfail"}
Over == {"idle", "endgil", "ending", "exited"}

\* The Modelica thread works on a microcontroller in these states.
Target == pcM \in {"new", "newwait", "sync", "drain", "loss", "join"} => cur \in Mcus

\* The construction of m: who is where before init_state is settled.
Construction(m) ==
    /\ pcM = "new" /\ cur = m => pcW[m] = "none"
    /\ pcM = "newwait" /\ cur = m => pcW[m] # "none"
    /\ pcW[m] \in Initialising => pcM = "newwait" /\ cur = m
    /\ init[m] = "pending" <=> pcW[m] \in {"none"} \cup Initialising
    /\ init[m] = "failed" => pcW[m] = "exited"

\* What the Modelica thread has reached bounds what m can be in.
Stage(m) ==
    /\ pcM \in {"idle", "sync", "drain", "loss", "devgil", "device"} =>
          init[m] = "ok" /\ ~shutdown[m]
    /\ pcM \in {"build", "new", "newwait"} => ~started[m] /\ ~shutdown[m]
    /\ started[m] \/ shutdown[m] => init[m] = "ok"
    /\ pcM \in {"sync", "drain", "loss"} /\ cur = m => started[m]
    /\ pcM = "loss" /\ cur = m => halted[m]
    /\ pcM = "join" /\ cur = m => shutdown[m]

\* The end of the program of m.
Ending(m) ==
    /\ done[m] => turn[m] = "modelica"
    /\ init[m] = "ok" => (done[m] <=> pcW[m] \in Over)
    /\ init[m] # "ok" => ~done[m]
    /\ poweredOff[m] => done[m]
    /\ pcW[m] \in {"endgil", "ending"} => shutdown[m]
    /\ pcW[m] = "exited" /\ init[m] = "ok" => shutdown[m]
    /\ err[m] => pcW[m] \in {"finish"} \cup Over
    /\ done[m] /\ err[m] /\ ~Stopping(m) =>
          pcM \in {"drain", "destroy", "join", "release", "final", "end"}
    /\ done[m] /\ err[m] /\ ~Stopping(m) /\ pcM = "drain" => cur = m

\* Who has the turn of m.
TurnOwner(m) ==
    /\ turn[m] = "worker" /\ ~shutdown[m] => cur = m /\ pcM \in {"drain", "loss"}
    /\ Active(m) /\ ~shutdown[m] => turn[m] = "worker"
    /\ halted[m] /\ ~done[m] => turn[m] = "worker"
    /\ ran[m] => started[m]

\* Who may be asleep on the condition variable of m, and for what.
Sleepers(m) ==
    /\ "M" \in cv[m] => cur = m /\ pcM \in {"newwait", "drain", "loss"}
    /\ "W" \in cv[m] => pcW[m] \in {"first", "parked", "idle"}
    /\ \A t \in cv[m] : ~Awaited(m, t)

\* cs is kept across steps by the natives that drop a callback, and then only.
Locks(m) == m \notin Finalizers => (cs[m] = "W" <=> pcW[m] = "clear") /\ ~nested[m]

\* The components counted in g_pyhost_users: built or being built, and not yet
\* released; and the one whose constructor failed, for ever.
Using == {m \in Mcus : \/ init[m] = "ok" /\ ~shutdown[m]
                       \/ pcM \in {"new", "newwait"} /\ cur = m}
Leaving == IF pcM \in {"join", "release"} THEN 1 ELSE 0
Script == IF device = "loaded" THEN 1 ELSE 0
Orphan == IF orphaned THEN 1 ELSE 0
Counted == users = Cardinality(Using) + Leaving + Script + Orphan

Local(m) == Construction(m) /\ Stage(m) /\ Ending(m) /\ TurnOwner(m) /\ Sleepers(m)
            /\ Locks(m)

\* The end of CPython: who has exited when nothing was abandoned, and what a
\* count of zero means.
HostEnd ==
    /\ \A m \in Mcus : shutdown[m] /\ ~abandoned /\ ~(pcM = "join" /\ cur = m) =>
                          pcW[m] = "exited"
    /\ pcM = "final" => users = 0 /\ ~abandoned
    /\ pcM \in {"release", "final"} \/ finalized => BuiltAny
    /\ orphaned => pcM \in {"destroy", "join", "release", "final", "end"}
    /\ finalized => users = 0 /\ ~abandoned /\ pcM \in {"destroy", "end"}
                   /\ \A m \in Mcus : pcW[m] \in {"none", "exited"}
    /\ pcM \in {"destroy", "end"} /\ users = 0 /\ ~abandoned /\ BuiltAny => finalized
    /\ device = "gone" => pcM \in {"destroy", "join", "release", "final", "end"}
    /\ pcM = "end" => /\ device # "loaded"
                      /\ \A m \in Mcus : init[m] = "ok" => shutdown[m]

IInv ==
    /\ TypeOK
    /\ Target
    /\ \A m \in Mcus : Local(m)
    /\ Counted
    /\ HostEnd

-----------------------------------------------------------------------------
(* Types.                                                                   *)

\* A step of the Modelica thread keeps the types: what it counts down, g_pyhost_users,
\* must be positive when it does.
LEMMA TypeModelica ==
    ASSUME TypeOK, Target, pcM = "release" => users > 0, ModelicaStep
    PROVE  TypeOK'
<1> USE TurnHandoffAssumption DEF TypeOK, Bool, Target, flags, host, modelica, MoveW, TakeGil, DropGil,
        Sleep, WakeOne, HandOver, AfterSync, MayEnter, MayReenter, Asleep,
        Stopping
<1>1. ASSUME NEW m \in Mcus, New(m) PROVE TypeOK'
  BY <1>1 DEF New
<1>2. ASSUME NEW m \in Mcus, SyncStart(m) PROVE TypeOK'
  BY <1>2 DEF SyncStart
<1>3. ASSUME NEW m \in Mcus, SyncPowered(m) PROVE TypeOK'
  BY <1>3 DEF SyncPowered
<1>4. ASSUME NEW m \in Mcus, SupplyLost(m) PROVE TypeOK'
  <2>1. pcM' \in {pcM, "loss"} /\ cur' \in {cur, m}
    BY <1>4 DEF SupplyLost
  <2>2. halted' \in Bool /\ poweredOff' \in Bool
    BY <1>4 DEF SupplyLost
  <2>3. turn' \in [Mcus -> {"modelica", "worker"}]
    BY <1>4 DEF SupplyLost
  <2>4. cv' \in [Mcus -> SUBSET {"M", "W"}]
    BY <1>4 DEF SupplyLost
  <2>5. QED BY <1>4, <2>1, <2>2, <2>3, <2>4 DEF SupplyLost
<1>5. ASSUME NEW m \in Mcus, Destroy(m) PROVE TypeOK'
  BY <1>5 DEF Destroy
<1>6. ASSUME StartWorker PROVE TypeOK'
  <2>1. pcM' \in {"newwait", "destroy"} /\ cur' \in {cur, NoMcu} /\ orphaned' \in BOOLEAN
    BY <1>6 DEF StartWorker, Fails
  <2>2. pcW' = pcW \/ pcW' = [pcW EXCEPT ![cur] = "initgil"]
    BY <1>6 DEF StartWorker
  <2>3. QED BY <1>6, <2>1, <2>2 DEF StartWorker
<1>7. ASSUME AwaitInit PROVE TypeOK'
  <2>1. pcM' \in {pcM, "build", "destroy"} /\ cur' \in {cur, NoMcu} /\ orphaned' \in BOOLEAN
    BY <1>7 DEF AwaitInit, Fails
  <2>2. cv' \in [Mcus -> SUBSET {"M", "W"}]
    BY <1>7 DEF AwaitInit
  <2>3. QED BY <1>7, <2>1, <2>2 DEF AwaitInit
<1>8. ASSUME NewDevice PROVE TypeOK'
  <2>1. pcM' \in {pcM, "destroy"} /\ cur' \in {cur, NoMcu} /\ orphaned' \in BOOLEAN
    BY <1>8 DEF NewDevice, Fails
  <2>2. device' \in {"none", "loaded"} /\ users' \in Nat
    BY <1>8 DEF NewDevice
  <2>3. QED BY <1>8, <2>1, <2>2 DEF NewDevice
<1>9. ASSUME Built PROVE TypeOK'
  BY <1>9 DEF Built
<1>10. ASSUME AwaitUnwound PROVE TypeOK'
  <2>1. CASE done[cur] BY <1>10, <2>1 DEF AwaitUnwound
  <2>2. CASE ~done[cur] BY <1>10, <2>2 DEF AwaitUnwound
  <2>3. QED BY <2>1, <2>2
<1>11. ASSUME SyncScriptDone PROVE TypeOK'
  BY <1>11 DEF SyncScriptDone
<1>12. ASSUME SyncDrain PROVE TypeOK'
  BY <1>12 DEF SyncDrain
<1>13. ASSUME SyncRefresh PROVE TypeOK'
  BY <1>13 DEF SyncRefresh
<1>14. ASSUME Drain PROVE TypeOK'
  BY <1>14 DEF Drain
<1>15. ASSUME DeviceSync PROVE TypeOK'
  BY <1>15 DEF DeviceSync
<1>16. ASSUME DeviceEnter PROVE TypeOK'
  BY <1>16 DEF DeviceEnter
<1>17. ASSUME DeviceLeave PROVE TypeOK'
  BY <1>17 DEF DeviceLeave
<1>18. ASSUME Terminate PROVE TypeOK'
  BY <1>18 DEF Terminate
<1>19. ASSUME Join PROVE TypeOK'
  BY <1>19 DEF Join
<1>20. ASSUME JoinTimeout PROVE TypeOK'
  BY <1>20 DEF JoinTimeout
<1>21. ASSUME Release PROVE TypeOK'
  BY <1>21 DEF Release
<1>22. ASSUME Finalize PROVE TypeOK'
  BY <1>22 DEF Finalize
<1>23. ASSUME DestroyDevice PROVE TypeOK'
  BY <1>23 DEF DestroyDevice
<1>24. ASSUME End PROVE TypeOK'
  BY <1>24 DEF End
<1> HIDE DEF TypeOK, Bool, Target, flags, host, modelica, MoveW, TakeGil, DropGil,
        Sleep, WakeOne, HandOver, AfterSync, MayEnter, MayReenter, Asleep,
        Stopping
<1>25. QED
  BY <1>1, <1>2, <1>3, <1>4, <1>5, <1>6, <1>7, <1>8, <1>9, <1>10, <1>11,
     <1>12, <1>13, <1>14, <1>15, <1>16, <1>17, <1>18, <1>19, <1>20, <1>21,
     <1>22, <1>23, <1>24
  DEF ModelicaStep

\* A step of a worker keeps the types.
LEMMA TypeWorker ==
    ASSUME TypeOK, NEW m \in Mcus, WorkerStep(m)
    PROVE  TypeOK'
<1> USE TurnHandoffAssumption DEF TypeOK, Bool, Target, flags, host, modelica, MoveW, TakeGil, DropGil,
        Sleep, WakeOne, HandOver, AfterSync, MayEnter, MayReenter, Asleep,
        Stopping
<1>1. ASSUME InitEnter(m) PROVE TypeOK'
  BY <1>1 DEF InitEnter
<1>2. ASSUME InitLeave(m) PROVE TypeOK'
  BY <1>2 DEF InitLeave
<1>3. ASSUME PostInit(m) PROVE TypeOK'
  BY <1>3 DEF PostInit
<1>4. ASSUME FirstTurn(m) PROVE TypeOK'
  BY <1>4 DEF FirstTurn
<1>5. ASSUME Begin(m) PROVE TypeOK'
  <2>1. pcW' = [pcW EXCEPT ![m] = "finish"] \/ pcW' = [pcW EXCEPT ![m] = "run"]
    BY <1>5 DEF Begin
  <2>2. ran' \in Bool
    BY <1>5 DEF Begin
  <2>3. QED BY <1>5, <2>1, <2>2 DEF Begin
<1>6. ASSUME GilSwitch(m) PROVE TypeOK'
  BY <1>6 DEF GilSwitch
<1>7. ASSUME ClearCallback(m) PROVE TypeOK'
  BY <1>7 DEF ClearCallback
<1>8. ASSUME CallbackCleared(m) PROVE TypeOK'
  BY <1>8 DEF CallbackCleared
<1>9. ASSUME Finalizer(m) PROVE TypeOK'
  BY <1>9 DEF Finalizer
<1>10. ASSUME Yield(m) PROVE TypeOK'
  BY <1>10 DEF Yield
<1>11. ASSUME NoPost(m) PROVE TypeOK'
  BY <1>11 DEF NoPost
<1>12. ASSUME Resume(m) PROVE TypeOK'
  BY <1>12 DEF Resume
<1>13. ASSUME RetakeGil(m) PROVE TypeOK'
  <2>1. pcW' = [pcW EXCEPT ![m] = "run"] \/ pcW' = [pcW EXCEPT ![m] = "clear"]
    BY <1>13 DEF RetakeGil
  <2>2. nested' \in Bool
    BY <1>13 DEF RetakeGil
  <2>3. gil' = m /\ UNCHANGED <<modelica, cs, cv, turn, wake, flags, ran, host>>
    BY <1>13 DEF RetakeGil
  <2>4. QED BY <2>1, <2>2, <2>3
<1>14. ASSUME ScriptDone(m) PROVE TypeOK'
  BY <1>14 DEF ScriptDone
<1>15. ASSUME AwaitShutdown(m) PROVE TypeOK'
  BY <1>15 DEF AwaitShutdown
<1>16. ASSUME EndEnter(m) PROVE TypeOK'
  BY <1>16 DEF EndEnter
<1>17. ASSUME EndInterpreter(m) PROVE TypeOK'
  BY <1>17 DEF EndInterpreter
<1>18. ASSUME NEW w \in {"due", "later"}, Post(m, w) PROVE TypeOK'
  BY <1>18 DEF Post
<1>19. ASSUME NEW failed \in BOOLEAN, Finish(m, failed) PROVE TypeOK'
  BY <1>19 DEF Finish
<1> HIDE DEF TypeOK, Bool, Target, flags, host, modelica, MoveW, TakeGil, DropGil,
        Sleep, WakeOne, HandOver, AfterSync, MayEnter, MayReenter, Asleep,
        Stopping
<1>20. QED
  BY <1>1, <1>2, <1>3, <1>4, <1>5, <1>6, <1>7, <1>8, <1>9, <1>10, <1>11,
     <1>12, <1>13, <1>14, <1>15, <1>16, <1>17, <1>18, <1>19
  DEF WorkerStep

-----------------------------------------------------------------------------
(* What IInv says of each microcontroller n, whichever thread steps.        *)

\* A step of the Modelica thread.
LEMMA LocalModelica ==
    ASSUME IInv, NEW n \in Mcus, ModelicaStep
    PROVE  (Target /\ Local(n))'
<1> USE TurnHandoffAssumption DEF IInv, Local, TypeOK, Bool, Target, Construction, Stage, Ending,
        TurnOwner, Sleepers, Locks, Awaited, Active, Initialising, Over,
        flags, host, modelica, MoveW, TakeGil, DropGil, Sleep, WakeOne,
        HandOver, AfterSync, MayEnter, MayReenter, Asleep, Stopping
<1>1. ASSUME NEW m \in Mcus, New(m) PROVE (Target /\ Local(n))'
  BY <1>1 DEF New
<1>2. ASSUME NEW m \in Mcus, SyncStart(m) PROVE (Target /\ Local(n))'
  BY <1>2 DEF SyncStart
<1>3. ASSUME NEW m \in Mcus, SyncPowered(m) PROVE (Target /\ Local(n))'
  BY <1>3 DEF SyncPowered
<1>4. ASSUME NEW m \in Mcus, SupplyLost(m) PROVE (Target /\ Local(n))'
  BY <1>4 DEF SupplyLost
<1>5. ASSUME NEW m \in Mcus, Destroy(m) PROVE (Target /\ Local(n))'
  BY <1>5 DEF Destroy
<1>6. ASSUME StartWorker PROVE (Target /\ Local(n))'
  BY <1>6 DEF StartWorker, Fails
<1>7. ASSUME AwaitInit PROVE (Target /\ Local(n))'
  BY <1>7 DEF AwaitInit, Fails
<1>8. ASSUME NewDevice PROVE (Target /\ Local(n))'
  BY <1>8 DEF NewDevice, Fails
<1>9. ASSUME Built PROVE (Target /\ Local(n))'
  BY <1>9 DEF Built
<1>10. ASSUME AwaitUnwound PROVE (Target /\ Local(n))'
  BY <1>10 DEF AwaitUnwound
<1>11. ASSUME SyncScriptDone PROVE (Target /\ Local(n))'
  BY <1>11 DEF SyncScriptDone
<1>12. ASSUME SyncDrain PROVE (Target /\ Local(n))'
  BY <1>12 DEF SyncDrain
<1>13. ASSUME SyncRefresh PROVE (Target /\ Local(n))'
  BY <1>13 DEF SyncRefresh
<1>14. ASSUME Drain PROVE (Target /\ Local(n))'
  BY <1>14 DEF Drain
<1>15. ASSUME DeviceSync PROVE (Target /\ Local(n))'
  BY <1>15 DEF DeviceSync
<1>16. ASSUME DeviceEnter PROVE (Target /\ Local(n))'
  BY <1>16 DEF DeviceEnter
<1>17. ASSUME DeviceLeave PROVE (Target /\ Local(n))'
  BY <1>17 DEF DeviceLeave
<1>18. ASSUME Terminate PROVE (Target /\ Local(n))'
  BY <1>18 DEF Terminate
<1>19. ASSUME Join PROVE (Target /\ Local(n))'
  BY <1>19 DEF Join
<1>20. ASSUME JoinTimeout PROVE (Target /\ Local(n))'
  BY <1>20 DEF JoinTimeout
<1>21. ASSUME Release PROVE (Target /\ Local(n))'
  BY <1>21 DEF Release
<1>22. ASSUME Finalize PROVE (Target /\ Local(n))'
  BY <1>22 DEF Finalize
<1>23. ASSUME DestroyDevice PROVE (Target /\ Local(n))'
  BY <1>23 DEF DestroyDevice
<1>24. ASSUME End PROVE (Target /\ Local(n))'
  BY <1>24 DEF End
<1> HIDE DEF IInv, Local, TypeOK, Bool, Target, Construction, Stage, Ending,
        TurnOwner, Sleepers, Locks, Awaited, Active, Initialising, Over,
        flags, host, modelica, MoveW, TakeGil, DropGil, Sleep, WakeOne,
        HandOver, AfterSync, MayEnter, MayReenter, Asleep, Stopping
<1>25. QED
  BY <1>1, <1>2, <1>3, <1>4, <1>5, <1>6, <1>7, <1>8, <1>9, <1>10, <1>11,
     <1>12, <1>13, <1>14, <1>15, <1>16, <1>17, <1>18, <1>19, <1>20, <1>21,
     <1>22, <1>23, <1>24
  DEF ModelicaStep

\* A step of a worker, that of n or of another microcontroller.
LEMMA LocalWorker ==
    ASSUME IInv, NEW n \in Mcus, NEW m \in Mcus, WorkerStep(m)
    PROVE  (Target /\ Local(n))'
<1> USE TurnHandoffAssumption DEF IInv, Local, TypeOK, Bool, Target, Construction, Stage, Ending,
        TurnOwner, Sleepers, Locks, Awaited, Active, Initialising, Over,
        flags, host, modelica, MoveW, TakeGil, DropGil, Sleep, WakeOne,
        HandOver, AfterSync, MayEnter, MayReenter, Asleep, Stopping
<1>1. ASSUME InitEnter(m) PROVE (Target /\ Local(n))'
  BY <1>1 DEF InitEnter
<1>2. ASSUME InitLeave(m) PROVE (Target /\ Local(n))'
  BY <1>2 DEF InitLeave
<1>3. ASSUME PostInit(m) PROVE (Target /\ Local(n))'
  BY <1>3 DEF PostInit
<1>4. ASSUME FirstTurn(m) PROVE (Target /\ Local(n))'
  BY <1>4 DEF FirstTurn
<1>5. ASSUME Begin(m) PROVE (Target /\ Local(n))'
  BY <1>5 DEF Begin
<1>6. ASSUME GilSwitch(m) PROVE (Target /\ Local(n))'
  BY <1>6 DEF GilSwitch
<1>7. ASSUME ClearCallback(m) PROVE (Target /\ Local(n))'
  BY <1>7 DEF ClearCallback
<1>8. ASSUME CallbackCleared(m) PROVE (Target /\ Local(n))'
  BY <1>8 DEF CallbackCleared
<1>9. ASSUME Finalizer(m) PROVE (Target /\ Local(n))'
  BY <1>9 DEF Finalizer
<1>10. ASSUME Yield(m) PROVE (Target /\ Local(n))'
  BY <1>10 DEF Yield
<1>11. ASSUME NoPost(m) PROVE (Target /\ Local(n))'
  BY <1>11 DEF NoPost
<1>12. ASSUME Resume(m) PROVE (Target /\ Local(n))'
  BY <1>12 DEF Resume
<1>13. ASSUME RetakeGil(m) PROVE (Target /\ Local(n))'
  BY <1>13 DEF RetakeGil
<1>14. ASSUME ScriptDone(m) PROVE (Target /\ Local(n))'
  BY <1>14 DEF ScriptDone
<1>15. ASSUME AwaitShutdown(m) PROVE (Target /\ Local(n))'
  BY <1>15 DEF AwaitShutdown
<1>16. ASSUME EndEnter(m) PROVE (Target /\ Local(n))'
  BY <1>16 DEF EndEnter
<1>17. ASSUME EndInterpreter(m) PROVE (Target /\ Local(n))'
  BY <1>17 DEF EndInterpreter
<1>18. ASSUME NEW w \in {"due", "later"}, Post(m, w) PROVE (Target /\ Local(n))'
  BY <1>18 DEF Post
<1>19. ASSUME NEW failed \in BOOLEAN, Finish(m, failed) PROVE (Target /\ Local(n))'
  BY <1>19 DEF Finish
<1> HIDE DEF IInv, Local, TypeOK, Bool, Target, Construction, Stage, Ending,
        TurnOwner, Sleepers, Locks, Awaited, Active, Initialising, Over,
        flags, host, modelica, MoveW, TakeGil, DropGil, Sleep, WakeOne,
        HandOver, AfterSync, MayEnter, MayReenter, Asleep, Stopping
<1>20. QED
  BY <1>1, <1>2, <1>3, <1>4, <1>5, <1>6, <1>7, <1>8, <1>9, <1>10, <1>11,
     <1>12, <1>13, <1>14, <1>15, <1>16, <1>17, <1>18, <1>19
  DEF WorkerStep

-----------------------------------------------------------------------------
(* The count of the users of CPython.                                       *)

LEMMA UsingFinite ==
    /\ IsFiniteSet(Using) /\ Cardinality(Using) \in Nat
    /\ Using = {} <=> Cardinality(Using) = 0
<1>1. IsFiniteSet(Using)
  BY FS_Subset, TurnHandoffAssumption DEF Using
<1>2. QED
  BY <1>1, FS_CardinalityType, FS_EmptySet

\* Nothing that is counted changes.
LEMMA CountFrame ==
    ASSUME Counted, Using' = Using, Leaving' = Leaving, UNCHANGED <<users, device, orphaned>>
    PROVE  Counted'
BY DEF Counted, Script, Orphan

\* The component whose constructor fails leaves the set and keeps its user.
LEMMA CountFails ==
    ASSUME Counted, Fails, ~orphaned, Using' = Using \ {cur}, cur \in Using,
           UNCHANGED <<users, device>>, Leaving' = Leaving
    PROVE  Counted'
<1>1. Cardinality(Using') = Cardinality(Using) - 1
  BY UsingFinite, FS_RemoveElement
<1>2. QED
  BY <1>1, UsingFinite DEF Fails, Counted, Script, Orphan, Leaving

\* Only the construction and the destruction of a component change the count.
LEMMA CountModelica ==
    ASSUME IInv, ModelicaStep
    PROVE  Counted'
<1> USE DEF IInv, TypeOK, Target
<1>1. ASSUME NEW m \in Mcus, New(m) PROVE Counted'
  <2>1. Using' = Using \cup {m} /\ m \notin Using
    BY <1>1 DEF New, Using, flags, Local, Stage, Construction
  <2>2. Cardinality(Using') = Cardinality(Using) + 1
    BY <2>1, UsingFinite, FS_AddElement
  <2>3. QED
    BY <1>1, <2>2, UsingFinite DEF New, Counted, Leaving, Script, Orphan
<1>2. ASSUME NEW m \in Mcus, Destroy(m) PROVE Counted'
  <2>1. m \in Using
    BY <1>2 DEF Destroy, Using
  <2>2. Using' = Using \ {m}
    BY <1>2 DEF Destroy, Using, Bool
  <2>3. Cardinality(Using') = Cardinality(Using) - 1
    BY <2>1, <2>2, UsingFinite, FS_RemoveElement
  <2>4. QED
    BY <1>2, <2>3, UsingFinite DEF Destroy, Counted, Leaving, Script, Orphan, host
<1>3. ASSUME NewDevice PROVE Counted'
  <2>1. Using' = Using /\ Leaving' = Leaving
    BY <1>3 DEF NewDevice, Fails, Using, Leaving, flags, modelica
  <2>2. ~orphaned
    BY <1>3 DEF NewDevice, HostEnd
  <2>3. QED
    BY <1>3, <2>1, <2>2, UsingFinite DEF NewDevice, Fails, Counted, Leaving, Script, Orphan
<1>4. ASSUME Release PROVE Counted'
  <2>1. Using' = Using
    BY <1>4 DEF Release, Using, flags
  <2>2. QED
    BY <1>4, <2>1, UsingFinite DEF Release, Counted, Leaving, Script, Orphan, MustFinalize
<1>5. ASSUME DestroyDevice PROVE Counted'
  <2>1. Using' = Using
    BY <1>5 DEF DestroyDevice, Using, flags
  <2>2. QED
    BY <1>5, <2>1, UsingFinite DEF DestroyDevice, Counted, Leaving, Script, Orphan
<1>6. ASSUME StartWorker PROVE Counted'
  <2>1. cur \in Using /\ ~orphaned
    BY <1>6 DEF StartWorker, Using, HostEnd
  <2>2. CASE Fails
    <3>1. Using' = Using \ {cur}
      BY <1>6, <2>2 DEF StartWorker, Fails, Using, flags, Local, Construction
    <3>2. Leaving' = Leaving /\ UNCHANGED <<users, device>>
      BY <1>6, <2>2 DEF StartWorker, Fails, Leaving
    <3>3. QED
      BY <2>1, <2>2, <3>1, <3>2, CountFails
  <2>3. CASE ~Fails
    BY <1>6, <2>3, CountFrame DEF StartWorker, Using, Leaving, flags
  <2>4. QED
    BY <2>2, <2>3
<1>7. ASSUME AwaitInit PROVE Counted'
  <2>1. cur \in Using /\ ~orphaned
    BY <1>7 DEF AwaitInit, Using, HostEnd
  <2>2. CASE init[cur] = "failed"
    <3>1. Fails
      BY <1>7, <2>2 DEF AwaitInit
    <3>2. Using' = Using \ {cur}
      BY <1>7, <2>2, <3>1 DEF AwaitInit, Fails, Using, flags
    <3>3. Leaving' = Leaving /\ UNCHANGED <<users, device>>
      BY <1>7, <3>1 DEF AwaitInit, Fails, Leaving
    <3>4. QED
      BY <2>1, <3>1, <3>2, <3>3, CountFails
  <2>3. CASE init[cur] # "failed"
    <3>1. Using' = Using
      BY <1>7, <2>3 DEF AwaitInit, Using, Local, Stage, flags, modelica
    <3>2. Leaving' = Leaving /\ UNCHANGED <<users, device, orphaned>>
      BY <1>7, <2>3 DEF AwaitInit, Leaving, modelica
    <3>3. QED
      BY <3>1, <3>2, CountFrame
  <2>4. QED
    BY <2>2, <2>3
<1> DEFINE Framed == /\ Using' = Using /\ Leaving' = Leaving
                     /\ UNCHANGED <<users, device, orphaned>>
<1> USE DEF Using, Leaving, flags, host, modelica
<1>8. ASSUME NEW m \in Mcus, SyncStart(m) \/ SyncPowered(m) \/ SupplyLost(m) PROVE Framed
  BY <1>8 DEF SyncStart, SyncPowered, SupplyLost
<1>9. ASSUME Built \/ AwaitUnwound PROVE Framed
  BY <1>9 DEF Built, AwaitUnwound
<1>10. ASSUME SyncScriptDone \/ SyncDrain \/ SyncRefresh \/ Drain PROVE Framed
  BY <1>10 DEF SyncScriptDone, SyncDrain, SyncRefresh, Drain, AfterSync
<1>11. ASSUME DeviceSync \/ DeviceEnter \/ DeviceLeave PROVE Framed
  BY <1>11 DEF DeviceSync, DeviceEnter, DeviceLeave
<1>12. ASSUME Terminate \/ Join \/ JoinTimeout \/ Finalize \/ End PROVE Framed
  BY <1>12 DEF Terminate, Join, JoinTimeout, Finalize, End
<1> HIDE DEF Using, Leaving
<1>13. QED
  BY <1>1, <1>2, <1>3, <1>4, <1>5, <1>6, <1>7, <1>8, <1>9, <1>10, <1>11, <1>12, CountFrame
  DEF ModelicaStep

\* A worker never counts itself.
LEMMA CountWorker ==
    ASSUME IInv, NEW m \in Mcus, WorkerStep(m)
    PROVE  Counted'
<1>1. pcM' = pcM /\ cur' = cur /\ shutdown' = shutdown /\ users' = users
      /\ device' = device /\ orphaned' = orphaned
  BY DEF WorkerStep, InitEnter, InitLeave, PostInit, FirstTurn, Begin, GilSwitch,
         ClearCallback, CallbackCleared, Finalizer, Yield, NoPost, Resume, RetakeGil,
         Post, Finish, ScriptDone, AwaitShutdown, EndEnter, EndInterpreter,
         modelica, flags, host
<1>2. init' = init \/ (pcW[m] \in Initialising /\ \E i : init' = [init EXCEPT ![m] = i])
  BY DEF WorkerStep, InitEnter, InitLeave, PostInit, FirstTurn, Begin, GilSwitch,
         ClearCallback, CallbackCleared, Finalizer, Yield, NoPost, Resume, RetakeGil,
         Post, Finish, ScriptDone, AwaitShutdown, EndEnter, EndInterpreter,
         MoveW, flags, Initialising
<1>3. Using' = Using
  BY <1>1, <1>2 DEF Using, IInv, TypeOK, Local, Construction
<1>4. QED
  BY <1>1, <1>3, CountFrame DEF Leaving, IInv

-----------------------------------------------------------------------------
(* The end of CPython.                                                      *)

\* A count of zero means that every component is released.
LEMMA ZeroUsers ==
    ASSUME TypeOK, Counted, users = 0
    PROVE  Using = {} /\ device # "loaded" /\ pcM \notin {"join", "release"} /\ ~orphaned
BY UsingFinite DEF Counted, Leaving, Script, Orphan, TypeOK

LEMMA HostEndModelica ==
    ASSUME IInv, ModelicaStep
    PROVE  HostEnd'
<1> USE DEF IInv, HostEnd, BuiltAny, TypeOK, Bool, Target, flags, host, modelica
<1>1. ASSUME NEW m \in Mcus, New(m) PROVE HostEnd'
  BY <1>1 DEF New
<1>2. ASSUME NEW m \in Mcus, SyncStart(m) \/ SyncPowered(m) \/ SupplyLost(m) PROVE HostEnd'
  BY <1>2 DEF SyncStart, SyncPowered, SupplyLost
<1>3. ASSUME NEW m \in Mcus, Destroy(m) PROVE HostEnd'
  <2>1. m \in Using
    BY <1>3 DEF Destroy, Using, Local, Construction
  <2>2. ~finalized
    BY <2>1, ZeroUsers
  <2>3. QED
    BY <1>3, <2>2 DEF Destroy
<1>4. ASSUME StartWorker PROVE HostEnd'
  <2>1. cur \in Using
    BY <1>4 DEF StartWorker, Using
  <2>2. users # 0
    BY <2>1, ZeroUsers
  <2>3. QED
    BY <1>4, <2>2 DEF StartWorker, Fails, Local, Stage
<1>5. ASSUME AwaitInit PROVE HostEnd'
  <2>1. cur \in Using
    BY <1>5 DEF AwaitInit, Using
  <2>2. users # 0
    BY <2>1, ZeroUsers
  <2>3. QED
    BY <1>5, <2>2 DEF AwaitInit, Fails
<1>6. ASSUME NewDevice \/ Built PROVE HostEnd'
  BY <1>6 DEF NewDevice, Fails, Built
<1>7. ASSUME AwaitUnwound \/ SyncScriptDone \/ SyncDrain PROVE HostEnd'
  BY <1>7 DEF AwaitUnwound, SyncScriptDone, SyncDrain
<1>8. ASSUME SyncRefresh \/ Drain PROVE HostEnd'
  <2>1. cur \in Using
    BY <1>8 DEF SyncRefresh, Drain, Using, Local, Construction, Stage
  <2>2. users # 0
    BY <2>1, ZeroUsers
  <2>3. QED
    BY <1>8, <2>2 DEF SyncRefresh, Drain, AfterSync
<1>9. ASSUME DeviceSync \/ DeviceEnter \/ DeviceLeave PROVE HostEnd'
  BY <1>9 DEF DeviceSync, DeviceEnter, DeviceLeave
<1>10. ASSUME Terminate PROVE HostEnd'
  <2>1. ASSUME users = 0 PROVE \A m \in Mcus : init[m] # "ok"
    BY <1>10, <2>1, ZeroUsers DEF Terminate, Using, Local, Construction, Stage
  <2>2. device # "gone" /\ (users = 0 => device = "none")
    BY <1>10, ZeroUsers DEF Terminate
  <2>3. QED
    BY <1>10, <2>1, <2>2 DEF Terminate
<1>11. ASSUME Join PROVE HostEnd'
  <2>1. init[cur] = "ok" /\ users # 0
    BY <1>11, ZeroUsers DEF Join, Local, Stage
  <2>2. QED
    BY <1>11, <2>1 DEF Join
<1>12. ASSUME JoinTimeout PROVE HostEnd'
  <2>1. init[cur] = "ok" /\ users # 0
    BY <1>12, ZeroUsers DEF JoinTimeout, Local, Stage
  <2>2. QED
    BY <1>12, <2>1 DEF JoinTimeout
<1>13. ASSUME Release PROVE HostEnd'
  BY <1>13, ZeroUsers DEF Release, MustFinalize
<1>14. ASSUME Finalize PROVE HostEnd'
  <2>1. \A m \in Mcus : pcW[m] \in {"none", "exited"}
    BY <1>14, ZeroUsers DEF Finalize, Using, Local, Construction, Initialising
  <2>2. QED
    BY <1>14, <2>1 DEF Finalize
<1>15. ASSUME DestroyDevice PROVE HostEnd'
  BY <1>15, ZeroUsers DEF DestroyDevice
<1>16. ASSUME End PROVE HostEnd'
  BY <1>16 DEF End
<1> HIDE DEF IInv, HostEnd, BuiltAny, TypeOK, Bool, Target, flags, host, modelica
<1>17. QED
  BY <1>1, <1>2, <1>3, <1>4, <1>5, <1>6, <1>7, <1>8, <1>9, <1>10, <1>11, <1>12, <1>13,
     <1>14, <1>15, <1>16
  DEF ModelicaStep

\* Once CPython is finalized no worker is left to step; before, a step of a
\* worker only brings it nearer to its exit.
LEMMA HostEndWorker ==
    ASSUME IInv, NEW m \in Mcus, WorkerStep(m)
    PROVE  HostEnd'
<1>1. pcM' = pcM /\ cur' = cur /\ shutdown' = shutdown /\ users' = users
      /\ device' = device /\ finalized' = finalized /\ orphaned' = orphaned
      /\ (abandoned => abandoned')
  BY DEF WorkerStep, InitEnter, InitLeave, PostInit, FirstTurn, Begin, GilSwitch,
         ClearCallback, CallbackCleared, Finalizer, Yield, NoPost, Resume, RetakeGil,
         Post, Finish, ScriptDone, AwaitShutdown, EndEnter, EndInterpreter,
         modelica, flags, host, IInv, TypeOK
<1>2. pcW[m] \notin {"none", "exited"} /\ \E to : pcW' = [pcW EXCEPT ![m] = to]
  BY DEF WorkerStep, InitEnter, InitLeave, PostInit, FirstTurn, Begin, GilSwitch,
         ClearCallback, CallbackCleared, Finalizer, Yield, NoPost, Resume, RetakeGil,
         Post, Finish, ScriptDone, AwaitShutdown, EndEnter, EndInterpreter,
         MoveW, IInv, TypeOK
<1>3. init' = init \/ (pcW[m] \in Initialising /\ \E i : init' = [init EXCEPT ![m] = i])
  BY DEF WorkerStep, InitEnter, InitLeave, PostInit, FirstTurn, Begin, GilSwitch,
         ClearCallback, CallbackCleared, Finalizer, Yield, NoPost, Resume, RetakeGil,
         Post, Finish, ScriptDone, AwaitShutdown, EndEnter, EndInterpreter,
         MoveW, flags, Initialising
<1>4. ~finalized
  BY <1>2 DEF IInv, HostEnd
<1>5. pcW[m] \in Initialising => pcM = "newwait"
  BY DEF IInv, Local, Construction
<1>6. \A n \in Mcus : n # m => pcW'[n] = pcW[n] /\ init'[n] = init[n]
  BY <1>2, <1>3 DEF IInv, TypeOK
<1>7. pcM # "newwait" => init' = init
  BY <1>3, <1>5
<1>8. (\A n \in Mcus : shutdown[n] /\ ~abandoned /\ ~(pcM = "join" /\ cur = n) =>
                          pcW[n] = "exited")'
  BY <1>1, <1>2, <1>6 DEF IInv, HostEnd
<1>9. (pcM = "final" => users = 0 /\ ~abandoned)'
  <2>1. CASE pcM = "final"
    <3>1. m \in Using \/ shutdown[m]
      BY <1>2, <1>5, <2>1 DEF Using, IInv, TypeOK, Local, Construction
    <3>2. FALSE
      BY <2>1, <3>1, <1>2, ZeroUsers DEF IInv, HostEnd
    <3>3. QED BY <3>2
  <2>2. CASE pcM # "final" BY <2>2, <1>1
  <2>3. QED BY <2>1, <2>2
<1>10. QED
  BY <1>1, <1>4, <1>7, <1>8, <1>9 DEF IInv, HostEnd, BuiltAny

-----------------------------------------------------------------------------
(* The inductive invariant.                                                 *)

LEMMA InitIInv == Init => IInv
<1> SUFFICES ASSUME Init PROVE IInv
  OBVIOUS
<1>1. TypeOK /\ Target /\ HostEnd
  BY TurnHandoffAssumption DEF Init, TypeOK, Bool, Target, HostEnd, BuiltAny
<1>2. \A m \in Mcus : Local(m)
  BY DEF Init, Local, Construction, Stage, Ending, TurnOwner, Sleepers, Locks, Active,
         Initialising, Over, Stopping
<1>3. Using = {}
  BY DEF Init, Using
<1>4. Counted
  BY <1>3, FS_EmptySet DEF Init, Counted, Leaving, Script, Orphan
<1>5. QED
  BY <1>1, <1>2, <1>4 DEF IInv

\* A thread woken for nothing looks at what it waits for, and sleeps again.
LEMMA SpuriousIInv ==
    ASSUME IInv, NEW m \in Mcus, NEW t \in {"M", "W"}, SpuriousWake(m, t)
    PROVE  IInv'
<1> USE DEF SpuriousWake, flags, host, modelica
<1>1. TypeOK' /\ Target'
  BY DEF IInv, TypeOK, Target
<1>2. \A n \in Mcus : Local(n)'
  BY DEF IInv, TypeOK, Local, Construction, Stage, Ending, TurnOwner, Sleepers, Locks,
         Awaited, Active, Initialising, Over, Stopping
<1>3. Counted'
  BY CountFrame DEF IInv, Using, Leaving
<1>4. HostEnd'
  BY DEF IInv, HostEnd, BuiltAny
<1>5. QED
  BY <1>1, <1>2, <1>3, <1>4 DEF IInv

LEMMA StutterIInv == IInv /\ UNCHANGED vars => IInv'
<1> SUFFICES ASSUME IInv, UNCHANGED vars PROVE IInv'
  OBVIOUS
<1> USE DEF vars, flags, host, modelica
<1>1. TypeOK' /\ Target'
  BY DEF IInv, TypeOK, Target
<1>2. \A n \in Mcus : Local(n)'
  BY DEF IInv, Local, Construction, Stage, Ending, TurnOwner, Sleepers, Locks,
         Awaited, Active, Initialising, Over, Stopping
<1>3. Counted'
  BY CountFrame DEF IInv, Using, Leaving
<1>4. HostEnd'
  BY DEF IInv, HostEnd, BuiltAny
<1>5. QED
  BY <1>1, <1>2, <1>3, <1>4 DEF IInv

LEMMA NextIInv == IInv /\ [Next]_vars => IInv'
<1> SUFFICES ASSUME IInv, [Next]_vars PROVE IInv'
  OBVIOUS
<1>1. CASE ModelicaStep
  <2>1. pcM = "release" => users > 0
    BY UsingFinite DEF IInv, Counted, Leaving, Script, Orphan
  <2>2. TypeOK'
    BY <1>1, <2>1, TypeModelica DEF IInv
  <2>3. Target' /\ \A n \in Mcus : Local(n)'
    <3>1. \A n \in Mcus : Local(n)'
      BY <1>1, LocalModelica
    <3>2. CASE Mcus = {}
      BY <1>1, <3>2 DEF ModelicaStep, IInv, Target, StartWorker, AwaitInit, NewDevice,
         Built, AwaitUnwound, SyncScriptDone, SyncDrain, SyncRefresh, Drain, DeviceSync,
         DeviceEnter, DeviceLeave, Terminate, Join, JoinTimeout, Release, Finalize,
         DestroyDevice, End, AfterSync, MustFinalize, Fails, modelica
    <3>3. CASE Mcus # {}
      BY <1>1, <3>3, LocalModelica
    <3>4. QED
      BY <3>1, <3>2, <3>3
  <2>4. QED
    BY <1>1, <2>2, <2>3, CountModelica, HostEndModelica DEF IInv
<1>2. CASE \E m \in Mcus : WorkerStep(m)
  <2>1. PICK m \in Mcus : WorkerStep(m)
    BY <1>2
  <2>2. TypeOK'
    BY <2>1, TypeWorker DEF IInv
  <2>3. Target' /\ \A n \in Mcus : Local(n)'
    BY <2>1, LocalWorker
  <2>4. QED
    BY <2>1, <2>2, <2>3, CountWorker, HostEndWorker DEF IInv
<1>3. CASE \E m \in Mcus, t \in {"M", "W"} : SpuriousWake(m, t)
  BY <1>3, SpuriousIInv
<1>4. CASE UNCHANGED vars
  BY <1>4, StutterIInv
<1>5. QED
  BY <1>1, <1>2, <1>3, <1>4 DEF Next, Ended

THEOREM Invariance == Spec => []IInv
BY InitIInv, NextIInv, PTL DEF Spec

-----------------------------------------------------------------------------
(* What follows.                                                            *)

\* The types, the count of the users of CPython among them.
THEOREM TypeCorrect == Spec => []TypeOK
<1>1. IInv => TypeOK BY DEF IInv
<1>2. QED BY <1>1, Invariance, PTL

\* A program runs only while the Modelica thread sleeps in its drain loop.
THEOREM ProgramsAlternate == Spec => []Alternation
<1>1. IInv => Alternation
  BY DEF IInv, Local, TurnOwner, Alternation
<1>2. QED BY <1>1, Invariance, PTL

\* No thread sleeps on a condition that holds.
THEOREM WakeupsArrive == Spec => []NoLostWakeup
<1>1. IInv => NoLostWakeup
  BY DEF IInv, Local, Sleepers, NoLostWakeup
<1>2. QED BY <1>1, Invariance, PTL

\* Without finalizers that call the shim, cs is never kept over a wait or a
\* request for the GIL.
THEOREM LocksOrdered == ASSUME Finalizers = {} PROVE Spec => []LockOrder
<1>1. IInv => LockOrder
  BY DEF IInv, TypeOK, Local, Locks, LockOrder
<1>2. QED BY <1>1, Invariance, PTL

\* A program runs only on a powered board, an error is not overwritten.
THEOREM PowerAndErrors == Spec => [](PoweredToRun /\ ErrorStops)
<1>1. IInv => PoweredToRun /\ ErrorStops
  BY DEF IInv, Local, Ending, TurnOwner, Stage, Construction, Active, Over, PoweredToRun,
         ErrorStops, Initialising
<1>2. QED BY <1>1, Invariance, PTL

\* CPython is finalized when nobody uses it any more ...
THEOREM FinalizedUnderNobody == Spec => []FinalizedAlone
<1>1. IInv => FinalizedAlone
  BY ZeroUsers DEF IInv, HostEnd, FinalizedAlone
<1>2. QED BY <1>1, Invariance, PTL

\* ... at the end exactly when something was built, nobody was abandoned and no
\* constructor failed once counted (pyhost_ensure, pyhost_release) ...
THEOREM FinalizedAtTheEnd == Spec => []CleanEnd
<1> SUFFICES ASSUME IInv PROVE CleanEnd
  BY Invariance, PTL
<1> SUFFICES ASSUME pcM = "end" PROVE finalized <=> BuiltAny /\ ~abandoned /\ ~orphaned
  BY DEF CleanEnd
<1>1. finalized => BuiltAny /\ ~abandoned /\ ~orphaned
  BY ZeroUsers DEF IInv, HostEnd
<1>2. ASSUME BuiltAny, ~abandoned, ~orphaned PROVE finalized
  <2>1. Using = {}
    BY DEF IInv, HostEnd, Using
  <2>2. users = 0
    BY <1>2, <2>1, FS_EmptySet DEF IInv, HostEnd, Counted, Leaving, Script, Orphan
  <2>3. QED
    BY <1>2, <2>2 DEF IInv, HostEnd
<1>3. QED
  BY <1>1, <1>2

\* ... and never after one was.
THEOREM NeverAfterAbandon == Spec => AbandonedForGood
<1>1. IInv /\ [Next]_vars => [abandoned => finalized' = finalized]_vars
  <2> SUFFICES ASSUME IInv, Next, abandoned PROVE finalized' = finalized
    BY DEF vars
  <2> USE DEF IInv, HostEnd, flags, host, modelica
  <2>1. ASSUME ModelicaStep PROVE finalized' = finalized
    BY <2>1 DEF ModelicaStep, New, SyncStart, SyncPowered, SupplyLost, Destroy,
       StartWorker, AwaitInit, NewDevice, Built, AwaitUnwound, SyncScriptDone, SyncDrain,
       SyncRefresh, Drain, DeviceSync, DeviceEnter, DeviceLeave, Terminate, Join,
       JoinTimeout, Release, Finalize, DestroyDevice, End, Fails
  <2>2. ASSUME NEW m \in Mcus, WorkerStep(m) PROVE finalized' = finalized
    BY <2>2 DEF WorkerStep, InitEnter, InitLeave, PostInit, FirstTurn, Begin, GilSwitch,
       ClearCallback, CallbackCleared, Finalizer, Yield, NoPost, Resume, RetakeGil,
       Post, Finish, ScriptDone, AwaitShutdown, EndEnter, EndInterpreter
  <2>3. QED
    BY <2>1, <2>2 DEF Next, SpuriousWake, Ended, vars
<1>2. QED BY <1>1, Invariance, PTL DEF Spec, AbandonedForGood

-----------------------------------------------------------------------------
(* The turn protocol implements TurnAlternation: every step of a thread      *)
(* gives a turn, gives it back, moves one program to its next phase, or      *)
(* changes nothing of what the abstract specification sees.                  *)

\* The mapped holder: the turn that is out is that of the microcontroller the
\* Modelica thread waits for.
LEMMA HolderIs ==
    ASSUME IInv
    PROVE  /\ pcM \notin {"drain", "loss"} => Holder = "M"
           /\ pcM \in {"drain", "loss"} =>
                 Holder = IF turn[cur] = "worker" THEN cur ELSE "M"
           /\ \A m \in Mcus : Active(m) /\ ~shutdown[m] => Holder = m
BY DEF Holder, Handed, IInv, Target, Local, TurnOwner

\* When nothing the mapping reads changes, the abstract state does not.
LEMMA PhaseFrame ==
    ASSUME UNCHANGED <<init, shutdown, done>>,
           \A m \in Mcus : (pcW'[m] = "exited") <=> (pcW[m] = "exited")
    PROVE  Phase' = Phase
BY DEF Phase

LEMMA HolderFrame ==
    ASSUME UNCHANGED <<cur, pcM, turn>>
    PROVE  Holder' = Holder
BY DEF Holder, Handed

\* One program changes phase.
LEMMA PhaseStep ==
    ASSUME NEW m \in Mcus, NEW to,
           \A n \in Mcus : Phase'[n] = IF n = m THEN to ELSE Phase[n]
    PROVE  Phase' = [Phase EXCEPT ![m] = to]
BY DEF Phase

LEMMA ModelicaImplements ==
    ASSUME IInv, IInv', ModelicaStep
    PROVE  [Turns!Next]_(Turns!vars)
<1> DEFINE Step == [Turns!Next]_(Turns!vars)
           Stutter == Holder' = Holder /\ Phase' = Phase
<1>a. ASSUME Stutter PROVE Step
  BY <1>a DEF Turns!vars
<1> USE DEF flags, host, modelica
<1>1. ASSUME NEW m \in Mcus, New(m) \/ SyncStart(m) \/ SyncPowered(m) PROVE Stutter
  <2>1. Phase' = Phase
    BY <1>1, PhaseFrame DEF New, SyncStart, SyncPowered
  <2>2. pcM \notin {"drain", "loss"} /\ pcM' \notin {"drain", "loss"}
    BY <1>1 DEF New, SyncStart, SyncPowered
  <2>3. QED BY <2>1, <2>2 DEF Holder, Handed
<1>2. ASSUME NEW m \in Mcus, SupplyLost(m) PROVE Step
  <2>1. Phase' = Phase
    BY <1>2, PhaseFrame DEF SupplyLost
  <2>2. Holder = "M"
    BY <1>2 DEF SupplyLost, Holder, Handed
  <2>3. CASE done[m]
    BY <1>2, <2>1, <2>3, <1>a, HolderFrame DEF SupplyLost
  <2>4. CASE ~done[m]
    <3>1. Holder' = m
      BY <1>2, <2>4 DEF SupplyLost, Holder, Handed, IInv, TypeOK
    <3>2. Phase[m] = "alive"
      BY <1>2, <2>4 DEF SupplyLost, Phase, IInv, Local, Stage, Ending, Over
    <3>3. Turns!Give(m)
      BY <2>1, <2>2, <3>1, <3>2 DEF Turns!Give
    <3>4. QED BY <3>3 DEF Turns!Next
  <2>5. QED BY <2>3, <2>4
<1>3. ASSUME SyncDrain \/ (Drain /\ turn[cur] = "modelica" /\ pcM' = "drain") PROVE Step
  <2>1. Phase' = Phase
    BY <1>3, PhaseFrame DEF SyncDrain, Drain
  <2>2. Holder = "M"
    BY <1>3, HolderIs DEF SyncDrain, Drain, IInv, TypeOK
  <2>3. cur \in Mcus /\ ~done[cur] /\ cur' = cur /\ pcM' = "drain"
        /\ turn' = [turn EXCEPT ![cur] = "worker"]
    BY <1>3 DEF SyncDrain, Drain, HandOver, AfterSync, IInv, Target
  <2>4. Holder' = cur
    BY <2>3 DEF Holder, Handed, IInv, TypeOK
  <2>5. Phase[cur] = "alive"
    BY <1>3, <2>3 DEF SyncDrain, Drain, Phase, IInv, Local, Stage, Ending, Over
  <2>6. Turns!Give(cur)
    BY <2>1, <2>2, <2>4, <2>5 DEF Turns!Give
  <2>7. QED BY <2>3, <2>6 DEF Turns!Next
<1>4. ASSUME Drain /\ ~(turn[cur] = "modelica" /\ pcM' = "drain") PROVE Stutter
  <2>1. Phase' = Phase
    BY <1>4, PhaseFrame DEF Drain
  <2>2. CASE turn[cur] = "worker"
    BY <1>4, <2>1, <2>2, HolderFrame DEF Drain
  <2>3. CASE turn[cur] # "worker"
    <3>1. pcM' \notin {"drain", "loss"}
      BY <1>4, <2>3 DEF Drain, HandOver, AfterSync
    <3>2. Holder' = "M"
      BY <3>1 DEF Holder, Handed
    <3>3. QED BY <1>4, <2>1, <2>3, <3>2, HolderIs DEF Drain
  <2>4. QED BY <2>2, <2>3
<1>5. ASSUME AwaitUnwound PROVE Stutter
  <2>1. Phase' = Phase
    BY <1>5, PhaseFrame DEF AwaitUnwound
  <2>2. CASE done[cur]
    <3>1. turn[cur] = "modelica"
      BY <1>5, <2>2 DEF AwaitUnwound, IInv, Target, Local, Ending
    <3>2. Holder' = "M"
      BY <1>5, <2>2 DEF AwaitUnwound, Holder, Handed
    <3>3. QED BY <1>5, <2>1, <3>1, <3>2, HolderIs DEF AwaitUnwound
  <2>3. CASE ~done[cur]
    BY <1>5, <2>1, <2>3, HolderFrame DEF AwaitUnwound
  <2>4. QED BY <2>2, <2>3
<1>6. ASSUME NEW m \in Mcus, Destroy(m) PROVE Step
  <2>1. Holder = "M" /\ Holder' = "M"
    BY <1>6 DEF Destroy, Holder, Handed
  <2>2. Phase[m] \in {"alive", "over"} /\ Phase'[m] = "released"
    BY <1>6 DEF Destroy, Phase, IInv, TypeOK, Bool, Local, Ending
  <2>3. Phase' = [Phase EXCEPT ![m] = "released"]
    BY <1>6, <2>2, PhaseStep DEF Destroy, Phase, IInv, TypeOK, Bool
  <2>4. Turns!Release(m)
    BY <2>1, <2>2, <2>3 DEF Turns!Release, Turns!Move
  <2>5. QED BY <2>4 DEF Turns!Next
<1>7. ASSUME StartWorker PROVE Stutter
  <2>1. Phase' = Phase
    BY <1>7, PhaseFrame DEF StartWorker, Fails, IInv, TypeOK, Target, Local, Construction
  <2>2. QED BY <1>7, <2>1 DEF StartWorker, Fails, Holder, Handed
<1>8. ASSUME \/ AwaitInit \/ NewDevice \/ Built \/ SyncScriptDone \/ SyncRefresh
             \/ DeviceSync \/ DeviceEnter \/ DeviceLeave \/ Terminate \/ Join
             \/ JoinTimeout \/ Release \/ Finalize \/ DestroyDevice \/ End
      PROVE Stutter
  <2> USE <1>8 DEF AwaitInit, NewDevice, Built, SyncScriptDone, SyncRefresh, DeviceSync,
        DeviceEnter, DeviceLeave, Terminate, Join, JoinTimeout, Release, Finalize,
        DestroyDevice, End, Fails
  <2>1. UNCHANGED <<init, shutdown, done, pcW>>
    OBVIOUS
  <2>2. pcM \notin {"drain", "loss"} /\ pcM' \notin {"drain", "loss"}
    BY DEF AfterSync
  <2>3. QED BY <2>1, <2>2, PhaseFrame DEF Holder, Handed
<1>9. QED
  BY <1>a, <1>1, <1>2, <1>3, <1>4, <1>5, <1>6, <1>7, <1>8 DEF ModelicaStep

LEMMA WorkerImplements ==
    ASSUME IInv, IInv', NEW m \in Mcus, WorkerStep(m)
    PROVE  [Turns!Next]_(Turns!vars)
<1> DEFINE Step == [Turns!Next]_(Turns!vars)
           Stutter == Holder' = Holder /\ Phase' = Phase
<1>a. ASSUME Stutter PROVE Step
  BY <1>a DEF Turns!vars
<1> USE DEF flags, host, modelica
<1>1. ASSUME PostInit(m) PROVE Step
  <2>1. Holder = "M" /\ Holder' = "M"
    BY <1>1 DEF PostInit, MoveW, Holder, Handed, IInv, Local, Construction, Initialising
  <2>2. init[m] = "pending" /\ Phase[m] = "unborn"
    BY <1>1 DEF PostInit, MoveW, Phase, IInv, Local, Construction, Initialising
  <2>3. \A n \in Mcus : n # m => Phase'[n] = Phase[n]
    BY <1>1 DEF PostInit, MoveW, Phase, IInv, TypeOK
  <2>4. Phase'[m] = IF init'[m] = "ok" THEN "alive" ELSE "unborn"
    BY <1>1, <2>2 DEF PostInit, MoveW, Phase, IInv, TypeOK, Local, Stage, Ending
  <2>5. CASE init'[m] = "ok"
    <3>1. Phase' = [Phase EXCEPT ![m] = "alive"]
      BY <2>3, <2>4, <2>5, PhaseStep
    <3>2. Turns!Birth(m)
      BY <2>1, <2>2, <3>1 DEF Turns!Birth, Turns!Move
    <3>3. QED BY <3>2 DEF Turns!Next
  <2>6. CASE init'[m] # "ok"
    <3>1. Phase' = Phase
      BY <2>2, <2>3, <2>4, <2>6 DEF Phase
    <3>2. QED BY <2>1, <3>1, <1>a
  <2>7. QED BY <2>5, <2>6
<1>2. ASSUME NEW w \in {"due", "later"}, Post(m, w) PROVE Step
  <2>1. Phase' = Phase
    BY <1>2, PhaseFrame DEF Post, MoveW, IInv, TypeOK
  <2>2. Holder = m
    BY <1>2, HolderIs DEF Post, MoveW, Active, Stopping
  <2>3. turn'[m] = "modelica" /\ cur' = cur /\ pcM' = pcM
    BY <1>2 DEF Post, IInv, TypeOK
  <2>4. Holder' = "M"
    BY <2>2, <2>3, TurnHandoffAssumption DEF Holder, Handed
  <2>5. Turns!GiveBack(m)
    BY <2>1, <2>2, <2>4 DEF Turns!GiveBack
  <2>6. QED BY <2>5 DEF Turns!Next
<1>3. ASSUME ScriptDone(m) PROVE Step
  <2>1. done'[m] /\ turn'[m] = "modelica" /\ cur' = cur /\ pcM' = pcM
        /\ \A n \in Mcus : n # m => turn'[n] = turn[n] /\ Phase'[n] = Phase[n]
    BY <1>3 DEF ScriptDone, MoveW, Phase, IInv, TypeOK, Bool
  <2>2. init[m] = "ok" /\ ~done[m] /\ pcW[m] = "finish"
    BY <1>3 DEF ScriptDone, MoveW, IInv, TypeOK, Local, Construction, Ending, Over,
                Initialising
  <2>3. CASE ~shutdown[m]
    <3>1. Holder = m
      BY <2>2, <2>3, HolderIs DEF Active
    <3>2. Holder' = "M"
      BY <2>1, <3>1, TurnHandoffAssumption DEF Holder, Handed
    <3>3. Phase[m] = "alive" /\ Phase'[m] = "over"
      BY <1>3, <2>1, <2>2, <2>3 DEF ScriptDone, MoveW, Phase, IInv, TypeOK
    <3>4. Phase' = [Phase EXCEPT ![m] = "over"]
      BY <2>1, <3>3, PhaseStep
    <3>5. Turns!Finish(m)
      BY <3>1, <3>2, <3>3, <3>4 DEF Turns!Finish, Turns!Move
    <3>6. QED BY <3>5 DEF Turns!Next
  <2>4. CASE shutdown[m]
    <3>1. Holder' = Holder
      BY <2>1, <2>4 DEF Holder, Handed, IInv, Local, Stage
    <3>2. Phase'[m] = Phase[m]
      BY <1>3, <2>2, <2>4 DEF ScriptDone, MoveW, Phase, IInv, TypeOK
    <3>3. Phase' = Phase
      BY <2>1, <3>2 DEF Phase
    <3>4. QED BY <3>1, <3>3, <1>a
  <2>5. QED BY <2>3, <2>4
<1>4. ASSUME EndInterpreter(m) PROVE Step
  <2>1. Holder' = Holder
    BY <1>4, HolderFrame DEF EndInterpreter
  <2>2. init[m] = "ok" /\ shutdown[m] /\ pcW[m] = "ending"
    BY <1>4 DEF EndInterpreter, MoveW, IInv, TypeOK, Local, Ending, Construction,
                Initialising
  <2>3. Phase[m] = "released" /\ Phase'[m] = "gone"
    BY <1>4, <2>2 DEF EndInterpreter, MoveW, Phase, IInv, TypeOK
  <2>4. \A n \in Mcus : n # m => Phase'[n] = Phase[n]
    BY <1>4 DEF EndInterpreter, MoveW, Phase, IInv, TypeOK
  <2>5. Phase' = [Phase EXCEPT ![m] = "gone"]
    BY <2>3, <2>4, PhaseStep
  <2>6. Turns!Exit(m)
    BY <2>1, <2>3, <2>5 DEF Turns!Exit, Turns!Move
  <2>7. QED BY <2>6 DEF Turns!Next
<1>5. ASSUME \/ InitEnter(m) \/ InitLeave(m) \/ FirstTurn(m) \/ Begin(m) \/ GilSwitch(m)
             \/ ClearCallback(m) \/ CallbackCleared(m) \/ Finalizer(m) \/ Yield(m)
             \/ NoPost(m) \/ Resume(m) \/ RetakeGil(m) \/ AwaitShutdown(m) \/ EndEnter(m)
             \/ \E failed \in BOOLEAN : Finish(m, failed)
      PROVE Stutter
  <2> USE <1>5 DEF InitEnter, InitLeave, FirstTurn, Begin, GilSwitch, ClearCallback,
        CallbackCleared, Finalizer, Yield, NoPost, Resume, RetakeGil, AwaitShutdown,
        EndEnter, Finish
  <2>1. UNCHANGED <<init, shutdown, done, cur, pcM, turn>>
    OBVIOUS
  <2>2. \A n \in Mcus : (pcW'[n] = "exited") <=> (pcW[n] = "exited")
    BY DEF MoveW, IInv, TypeOK
  <2>3. QED BY <2>1, <2>2, PhaseFrame, HolderFrame
<1>6. QED
  BY <1>a, <1>1, <1>2, <1>3, <1>4, <1>5 DEF WorkerStep

LEMMA InitImplements == Init => Turns!Init
BY DEF Init, Turns!Init, Holder, Handed, Phase

LEMMA NextImplements == IInv /\ IInv' /\ [Next]_vars => [Turns!Next]_(Turns!vars)
<1> SUFFICES ASSUME IInv, IInv', [Next]_vars PROVE [Turns!Next]_(Turns!vars)
  OBVIOUS
<1>1. CASE ModelicaStep
  BY <1>1, ModelicaImplements
<1>2. CASE \E m \in Mcus : WorkerStep(m)
  BY <1>2, WorkerImplements
<1>3. CASE (\E m \in Mcus, t \in {"M", "W"} : SpuriousWake(m, t)) \/ UNCHANGED vars
  <2>1. UNCHANGED <<init, shutdown, done, pcW, cur, pcM, turn>>
    BY <1>3 DEF SpuriousWake, vars, flags, modelica
  <2>2. QED BY <2>1, PhaseFrame, HolderFrame DEF Turns!vars
<1>4. QED
  BY <1>1, <1>2, <1>3 DEF Next, Ended

\* The protocol of locks, condition variables and flags takes turns, one
\* thread at a time, until the simulation ends.
THEOREM TurnsAreTaken == Spec => TakesTurns
BY InitImplements, NextImplements, Invariance, PTL DEF Spec, TakesTurns, Turns!Spec
=============================================================================
