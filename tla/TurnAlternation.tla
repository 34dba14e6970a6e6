-------------------------- MODULE TurnAlternation --------------------------
(***************************************************************************)
(* What the turn protocol promises, without locks, condition variables or  *)
(* the GIL: until the simulation ends, the Modelica thread and the         *)
(* programs of the microcontrollers take turns, one at a time.             *)
(*                                                                         *)
(* holder is the one that runs.  Only the Modelica thread gives a turn     *)
(* away, the program that has it gives it back or ends; only once released *)
(* by the end of the simulation does a program run outside of its turn.    *)
(***************************************************************************)
CONSTANTS Mcus,      \* the microcontrollers
          Modelica   \* the Modelica thread, not one of them

VARIABLES holder,  \* who runs
          phase    \* of each program

TypeOK ==
    /\ holder \in Mcus \cup {Modelica}
    /\ phase \in [Mcus -> {"unborn", "alive", "over", "released", "gone"}]

Init ==
    /\ holder = Modelica
    /\ phase = [m \in Mcus |-> "unborn"]

Move(m, from, to) ==
    /\ phase[m] = from
    /\ phase' = [phase EXCEPT ![m] = to]

\* Built while the Modelica thread waits for nothing else.
Birth(m) == holder = Modelica /\ Move(m, "unborn", "alive") /\ UNCHANGED holder

Give(m) ==
    /\ holder = Modelica /\ phase[m] = "alive"
    /\ holder' = m
    /\ UNCHANGED phase

GiveBack(m) ==
    /\ holder = m
    /\ holder' = Modelica
    /\ UNCHANGED phase

Finish(m) ==
    /\ holder = m
    /\ holder' = Modelica
    /\ Move(m, "alive", "over")

Release(m) ==
    /\ holder = Modelica
    /\ \E from \in {"alive", "over"} : Move(m, from, "released")
    /\ UNCHANGED holder

Exit(m) == Move(m, "released", "gone") /\ UNCHANGED holder

Next == \E m \in Mcus : \/ Birth(m) \/ Give(m) \/ GiveBack(m) \/ Finish(m)
                        \/ Release(m) \/ Exit(m)

vars == <<holder, phase>>

Spec == Init /\ [][Next]_vars
=============================================================================
