SPECIFICATION Spec
CONSTANTS
    t1 = t1
    t2 = t2
    ByteBits = 3
    Targets = {t1, t2}
    Listens <- MCListens
    Requests <- MCRequests
    Answers <- MCAnswers
    MaxXfers = 2
    MaxInits = 1
    MaxFaults = 1
    MaxDepth = 2
INVARIANTS TypeOK Agreement BusReleased PhasesClosed
PROPERTIES NoFalseCondition EndsInTime
