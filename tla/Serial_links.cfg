SPECIFICATION SerialSpec
CONSTANTS
    WordBits = 2
    Formats <- MCFormats
    Messages <- MCMessages
    BufLen = 2
    MaxTime = 16
    MaxSetups = 3
    MaxSent = 2
    Settings <- MCSettings
    Sizes = {0, 1, 2}
    QueueSize = 2
    RoomSize = 3
    Frame = 2
    LastTick = 12
    Base = 3
    BufMax = 2
    Setups <- MCSetups
    Triggers <- MCTriggers
    Budgets <- MCBudgets
INVARIANTS
    SerialTypeOK LineFollowsFrame InOrder Settled EachOnce ReadsRight ToldAtOnce
PROPERTIES
    SampledInTheMiddle
