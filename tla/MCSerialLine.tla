---------------------------- MODULE MCSerialLine ----------------------------
(* The ends of serial links, for one run: a behaviour is one of the two UART *)
(* engines of a line, of what a device makes of its engine, or of what a     *)
(* microcontroller makes of the bytes of its I2C target.                     *)
EXTENDS MCUartLink, SerialDevice, I2cTargetSide

VARIABLE part

\* Devices that echo, that answer, that speak, and that do all of it.
Device(echo, delay, period) == [echo |-> echo, delay |-> delay, period |-> period]
MCSettings ==
    {Device(TRUE, 0, 0), Device(FALSE, 0, 5), Device(FALSE, 5, 4), Device(TRUE, 3, 7)}

\* Targets without memory, with two cells and an address of two bytes, with
\* three cells and an address of one byte.
Memory(cells, width) == [cells |-> cells, width |-> width]
NoMemory == Memory(0, 0)
Wide == Memory(2, 2)
Narrow == Memory(3, 1)
MCSetups == {NoMemory, Wide, Narrow}

MCTriggers == {{"read_req", "end_write"}, {"write_req", "end_read"}}

Budget(setup, steps, natives, depth) ==
    [setup |-> setup, bus |-> steps, calls |-> natives, depth |-> depth]
MCBudgets ==
    {Budget(NoMemory, 4, 3, 2), Budget(NoMemory, 4, 4, 1), Budget(Wide, 7, 2, 1),
     Budget(Narrow, 6, 2, 1)}

SerialInit ==
    /\ part \in {"line", "device", "target"} /\ Init /\ DeviceInit /\ TargetInit
    /\ part # "line" => tx.format = CHOOSE f \in Formats : TRUE
    /\ part # "device" => setting = CHOOSE s \in Settings : TRUE
    /\ part # "target" => budget = CHOOSE b \in Budgets : TRUE

SerialNext ==
    /\ UNCHANGED part
    /\ \/ part = "line" /\ Next /\ UNCHANGED <<deviceVars, sideVars>>
       \/ part = "device" /\ DeviceNext /\ UNCHANGED <<vars, sideVars>>
       \/ part = "target" /\ TargetNext /\ UNCHANGED <<vars, deviceVars>>

SerialSpec == SerialInit /\ [][SerialNext]_<<part, vars, deviceVars, sideVars>>

\* The engines, the device and the target keep their types, their queues and
\* memory their sizes.
SerialTypeOK == TypeOK /\ DeviceTypeOK /\ TargetTypeOK
=============================================================================
