SPECIFICATION Spec
CONSTANTS
    t1 = t1
    t2 = t2
    ByteBits = 3
    Targets = {t1, t2}
    Listens <- MCListens
    Requests <- MCRequests
    Answers <- MCAnswers
    MaxXfers = 2
    MaxInits = 1
    MaxFaults = 0
    MaxDepth = 2
INVARIANTS DoneWakes
