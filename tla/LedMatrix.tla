------------------------------ MODULE LedMatrix ------------------------------
(* The scan of the LED matrix of a micro:bit (pyruntime_matrix.c), as        *)
(* PyRuntime_sync paces it: the rows take their slots in turn, a column      *)
(* stays low for a part of the slot that is the level of its pixel, and each *)
(* synchronisation asks for the next at the next change.  Other causes (the  *)
(* tick, an input, the program) may call it at any instant.  Time is counted *)
(* in ticks, one of which may be shorter than PYRUNTIME_EPS.                 *)
EXTENDS Integers, FiniteSets

CONSTANTS
    Rows,       \* MATRIX_ROWS
    Columns,
    MaxLevel,   \* MATRIX_MAX_LEVEL
    Slot,       \* length of a slot
    Eps,        \* PYRUNTIME_EPS
    Pictures,   \* what the program draws
    Horizon     \* bound: the last instant

Levels == [0..(Rows - 1) -> [Columns -> 0..MaxLevel]]
Dark == [r \in 0..(Rows - 1) |-> [c \in Columns |-> 0]]

ASSUME MatrixAssumption ==
    /\ Rows \in Nat \ {0} /\ MaxLevel \in Nat \ {0} /\ IsFiniteSet(Columns)
    /\ Eps \in Nat /\ Slot \in Nat /\ Slot % MaxLevel = 0 /\ Eps < Slot \div MaxLevel
    /\ Horizon \in Nat
    /\ Pictures \subseteq Levels

VARIABLES
    clock,      \* simulated time
    called,     \* the engine has to be called at this instant
    stage,      \* of the board: not yet supplied, program running, ended, supply lost
    simTime,    \* sim_time: the last synchronisation with a program
    scan,       \* struct MatrixEngine: enabled, t0, pixels
    shown,      \* the pins as published: driven, row that is high, columns that are low
    freed,      \* pin_released: a transition is the settling of a released pin
    scanWake    \* next deadline of the scan that was published: none or one

matrixVars == <<clock, called, stage, simTime, scan, shown, freed, scanWake>>

MatrixInit ==
    /\ clock = 0 /\ called = TRUE /\ stage = "unpowered" /\ simTime = 0
    /\ scan = [enabled |-> FALSE, t0 |-> 0, pixels |-> Dark]
    /\ shown = [driven |-> FALSE, row |-> 0, low |-> {}]
    /\ freed = FALSE /\ scanWake = {}

-----------------------------------------------------------------------------
(* The engine.                                                               *)

\* The slot of an instant, its row and its start.
SlotAt(s, t) == IF t + Eps < s.t0 THEN 0 ELSE (t - s.t0 + Eps) \div Slot
RowAt(s, t) == SlotAt(s, t) % Rows
SlotStart(s, t) == s.t0 + SlotAt(s, t) * Slot
Release(s, t, c) == SlotStart(s, t) + (Slot * s.pixels[RowAt(s, t)][c]) \div MaxLevel

\* matrix_step.  The release is tested without Eps.
Stepped(s, pins) ==
    IF s.enabled
    THEN [driven |-> TRUE, row |-> RowAt(s, clock),
          low |-> {c \in Columns : clock < Release(s, clock, c)
                                     /\ s.pixels[RowAt(s, clock)][c] # 0}]
    ELSE pins

DeadlineOfSlot(s, t) == SlotStart(s, t) + Slot                         \* mutant
\* earliest_matrix_deadline, at the time t of the last synchronisation with a
\* program: the end of the slot, or a release before it that is to come.
Partial(s, t) == {c \in Columns : s.pixels[RowAt(s, t)][c] \in 1..(MaxLevel - 1)}

Changes(s, t) ==
    {SlotStart(s, t) + Slot}
    \cup {r \in {Release(s, t, c) : c \in Partial(s, t)} : r > t + Eps}

Deadline(s, t) == CHOOSE r \in Changes(s, t) : \A q \in Changes(s, t) : r <= q

Asked(s, t) == IF s.enabled THEN {Deadline(s, t)} ELSE {}

-----------------------------------------------------------------------------
(* What a program does with its turn.                                        *)

\* matrix_set_pixels, or nothing that concerns the display.
Drawn(s) == {s} \cup {[s EXCEPT !.pixels = p] : p \in Pictures}

\* matrix_enable (display.on).
TurnedOn(s) == [s EXCEPT !.enabled = TRUE, !.t0 = clock]

\* matrix_disable (display.off): the pins are released.
TurnedOff(s) == [s EXCEPT !.enabled = FALSE]

Turns(s) == Drawn(s) \cup {TurnedOn(s), TurnedOff(s)}

-----------------------------------------------------------------------------
(* PyRuntime_sync.                                                           *)

\* A synchronisation with a program: the engine goes on before the turn and
\* after it.  The one in which the program ends asks for no scan any more.
WithProgram(s) ==
    /\ called /\ called' = FALSE /\ simTime' = clock
    /\ \E turned \in Turns(s) :
         LET off == s.enabled /\ ~turned.enabled
             before == Stepped(s, shown)
         IN /\ scan' = turned
            /\ shown' = Stepped(turned, [before EXCEPT !.driven = @ /\ ~off])
            /\ freed' = off
            /\ \/ stage' = "running" /\ scanWake' = Asked(turned, clock)
               \/ stage' = "ended" /\ scanWake' = {}
    /\ UNCHANGED clock

\* The first one with a supply: microbit_boot switches the display on.
Boot ==
    /\ stage = "unpowered"
    /\ WithProgram(TurnedOn(scan))

SyncRunning == stage = "running" /\ WithProgram(scan)

\* After the end of the program sim_time stays as it was.
SyncEnded ==
    /\ called /\ stage = "ended"
    /\ called' = FALSE
    /\ shown' = Stepped(scan, shown)
    /\ scanWake' = Asked(scan, simTime)
    /\ UNCHANGED <<clock, stage, simTime, scan, freed>>

\* microbit_power_loss, and what is published from then on.
PowerLost ==
    /\ called /\ stage \in {"running", "ended"}
    /\ stage' = "lost" /\ called' = FALSE /\ simTime' = clock
    /\ scan' = [scan EXCEPT !.enabled = FALSE]
    /\ shown' = [driven |-> FALSE, row |-> 0, low |-> {}]
    /\ scanWake' = {}
    /\ UNCHANGED <<clock, freed>>

SyncUnpowered ==
    /\ called /\ stage \in {"unpowered", "lost"}
    /\ called' = FALSE
    /\ UNCHANGED <<clock, stage, simTime, scan, shown, freed, scanWake>>

\* "when time >= pre(nextWakeTime)": the wake is honoured when its instant
\* comes, never when it was already over.  Anything else may call too.
Advances ==
    /\ ~called /\ clock < Horizon
    /\ clock' = clock + 1
    /\ called' \in {TRUE, clock' \in scanWake}
    /\ UNCHANGED <<stage, simTime, scan, shown, freed, scanWake>>

\* Something else at the same instant.
CalledAgain ==
    /\ ~called /\ called' = TRUE
    /\ UNCHANGED <<clock, stage, simTime, scan, shown, freed, scanWake>>

MatrixNext ==
    \/ Boot \/ SyncRunning \/ SyncEnded \/ PowerLost \/ SyncUnpowered
    \/ Advances \/ CalledAgain

MatrixSpec == MatrixInit /\ [][MatrixNext]_matrixVars

-----------------------------------------------------------------------------
(* Properties.                                                               *)

\* The variables keep their types.
MatrixTypeOK ==
    /\ clock \in 0..Horizon /\ called \in BOOLEAN /\ simTime \in 0..Horizon
    /\ stage \in {"unpowered", "running", "ended", "lost"}
    /\ scan \in [enabled : BOOLEAN, t0 : 0..Horizon, pixels : Levels]
    /\ shown \in [driven : BOOLEAN, row : 0..(Rows - 1), low : SUBSET Columns]
    /\ freed \in BOOLEAN
    /\ scanWake \subseteq Nat /\ Cardinality(scanWake) <= 1

\* The picture at an instant, as microbit.md states it: slot and time in it
\* without any tolerance.
Offset(t) == (t - scan.t0) % Slot
TrueRow(t) == ((t - scan.t0) \div Slot) % Rows
TrueLow(t) == {c \in Columns : Offset(t) < (Slot * scan.pixels[TrueRow(t)][c]) \div MaxLevel}

\* Columns whose release was less than Eps ahead at the last synchronisation.
Overlooked == {c \in Columns : simTime < Release(scan, simTime, c)
                                 /\ Release(scan, simTime, c) <= simTime + Eps}

ScanRight ==
    scan.enabled =>
        \E t \in clock..(clock + Eps) :
            /\ shown.driven /\ shown.row = TrueRow(t)
            /\ TrueLow(t) \subseteq shown.low
            /\ shown.low \subseteq TrueLow(t) \cup Overlooked

\* At every instant, called or not, the pins are those of the picture: no
\* change comes late whatever is drawn and whenever the engine is called (but
\* the release of a column that a synchronisation came just before).
ScanPunctual == stage = "running" /\ ~called => ScanRight

\* The scan goes on after the end of the program (microbit.md: "le balayage
\* continue après la fin du programme").  Violated: sim_time stays behind.
ScanOutlives == stage \in {"running", "ended"} /\ ~called => ScanRight
=============================================================================
