SPECIFICATION Spec
CONSTANTS
    Mcus = {m1, m2}
    NoMcu = NoMcu
    Swallowers = {}
    Threaded = {m1, m2}
    Finalizers = {}
    HasDevice = TRUE
    SpuriousWakeups = TRUE
SYMMETRY Symmetry
INVARIANTS
    TypeOK Alternation NoLostWakeup FinalizedAlone CleanEnd ErrorStops
PROPERTIES
    TakesTurns
