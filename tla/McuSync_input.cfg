SPECIFICATION Spec
CONSTANTS
    Pins = {1}
    Timers = {2}
    Periods = {1}
    Durations = {2}
    Triggers = {{}, {"rising"}}
    GpioOpTime = 1
    TickPeriod = 2
    MaxTime = 4
    MaxDepth = 2
INVARIANTS
    InputWakesSleep
