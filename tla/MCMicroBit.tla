----------------------------- MODULE MCMicroBit -----------------------------
(* The radio and the display of a micro:bit side by side, for one run: a     *)
(* behaviour is one of the packets, of the modems, of the matrix or of what  *)
(* the program and its timers draw.                                          *)
EXTENDS RadioPackets, RadioModem, MCLedMatrix, Animation

CONSTANTS p1, p2, ma, mb, mc
VARIABLE part

\* Radio packets.
MCEnding == [p \in Peers |-> IF p = p1 THEN <<DEL>> ELSE <<>>]
MCDefault == CHOOSE k \in Configs : k.depth = 2
Budget(who, messages, lost, noise, sends, reads, switches) ==
    [talkers |-> who, messages |-> messages, lost |-> lost, noise |-> noise,
     sends |-> sends, reads |-> reads, switches |-> switches]
MCBudgets == {
    Budget(Peers, 2, 0, 0, 0, 2, 0),    \* two boards talk at once
    Budget({p2}, 3, 0, 0, 0, 4, 1),     \* the queue of messages overflows
    Budget({p1}, 2, 1, 0, 0, 3, 1),     \* a byte is lost
    Budget({p1}, 1, 1, 1, 0, 2, 1),     \* and another comes from nowhere
    Budget({p2}, 2, 0, 0, 0, 2, 2),     \* the radio is switched off and on
    Budget({}, 0, 0, 0, 3, 1, 3),       \* the program and a callback send
    Budget({p2}, 1, 0, 0, 1, 2, 3)}

\* Radio modems: two on a channel, and one that only collides with them.
MCChannel == ma :> 1 @@ mb :> 1 @@ mc :> 2
MCLoad == ma :> 2 @@ mb :> 2 @@ mc :> 1

\* Animations: behind the program, to their end or for ever, and in front of it.
Animated(name, length, delay, wait, loop, clear) ==
    [name |-> name, length |-> length, delay |-> delay, wait |-> wait, loop |-> loop,
     clear |-> clear]
MCScripts == {
    Animated("once", 2, 1, FALSE, FALSE, FALSE),
    Animated("cleared", 2, 1, FALSE, FALSE, TRUE),
    Animated("loop", 2, 1, FALSE, TRUE, FALSE),
    Animated("front", 2, 2, TRUE, FALSE, TRUE)}

allVars == <<part, radioVars, modemVars, matrixVars, animVars>>

BoardInit ==
    /\ part \in {"packets", "modems", "matrix", "animation"}
    /\ RadioInit /\ ModemInit /\ MatrixInit /\ AnimInit
    /\ part # "packets" => left = CHOOSE k \in Budgets : TRUE

BoardNext ==
    /\ UNCHANGED part
    /\ \/ part = "packets" /\ RadioNext /\ UNCHANGED <<modemVars, matrixVars, animVars>>
       \/ part = "modems" /\ ModemNext /\ UNCHANGED <<radioVars, matrixVars, animVars>>
       \/ part = "matrix" /\ MatrixNext /\ UNCHANGED <<radioVars, modemVars, animVars>>
       \/ part = "animation" /\ AnimNext /\ UNCHANGED <<radioVars, modemVars, matrixVars>>

BoardSpec == BoardInit /\ [][BoardNext]_allVars /\ RadioFairness

\* The variables of every part keep their types and the queues their sizes.
BoardTypeOK == RadioTypeOK /\ ModemTypeOK /\ MatrixTypeOK /\ AnimTypeOK
=============================================================================
