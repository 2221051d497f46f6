CONSTANTS
    THRD_COUNT_INI = 1
    THRD_COUNT_MIN = 1
    THRD_COUNT_MAX = 2
    PAUSE_COUNTER = 2
    QUEUE_CAPACITY = 2
    LINKPOOL_CAPACITY = 2
    OTHER_THRDS = 1
    Callers = {main}
    Main = main
    MaxCallbacks = 3
SPECIFICATION FairSpec
INVARIANTS
    CountCoversPool
    CountIsActive
    NoThreadLeftBehind
PROPERTIES
    NeverShrunkBelowMin
    QuitEnds
    SlotSearchEnds
    CallbacksAreCalled
CHECK_DEADLOCK FALSE
