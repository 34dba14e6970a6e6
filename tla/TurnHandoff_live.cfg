SPECIFICATION FairSpec
CONSTANTS
    Mcus = {m1, m2}
    NoMcu = NoMcu
    Swallowers = {m2}
    Threaded = {}
    Finalizers = {m2}
    HasDevice = FALSE
    SpuriousWakeups = FALSE
CHECK_DEADLOCK FALSE
PROPERTIES
    SyncReturns PowerLossReturns WorkerExits EndReached
