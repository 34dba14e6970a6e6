----------------------------- MODULE MCI2cBus -----------------------------
(* Bytes of three bits (two of address), an address nobody listens to, one  *)
(* with one target and one that two targets share.                          *)
EXTENDS I2cBus, TLC

CONSTANTS t1, t2

Nobody == <<FALSE, FALSE>>
One == <<FALSE, TRUE>>
Both == <<TRUE, FALSE>>

MCListens == (t1 :> {One, Both}) @@ (t2 :> {Both})
MCAnswers == {<<TRUE, FALSE, TRUE>>, <<FALSE, FALSE, TRUE>>}

Request(addr, write, nread, stop) ==
    [addr |-> addr, hasWrite |-> write # <<>>, write |-> write, nread |-> nread,
     stop |-> stop]
Probe(addr) ==
    [addr |-> addr, hasWrite |-> TRUE, write |-> <<>>, nread |-> 0, stop |-> TRUE]
Byte == <<FALSE, TRUE, TRUE>>

MCRequests ==
    {Probe(Nobody), Request(One, <<Byte, Zero>>, 0, FALSE),
     Request(Both, <<Byte>>, 1, TRUE), Request(One, <<>>, 2, TRUE)}
=============================================================================
