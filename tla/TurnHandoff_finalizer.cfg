SPECIFICATION Spec
CONSTANTS
    Mcus = {m1}
    NoMcu = NoMcu
    Swallowers = {}
    Threaded = {}
    Finalizers = {m1}
    HasDevice = FALSE
    SpuriousWakeups = FALSE
CHECK_DEADLOCK FALSE
INVARIANTS
    LockOrder
