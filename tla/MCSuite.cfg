SPECIFICATION SuiteSpec
CONSTANTS
    Tasks = {t1, t2, t3}
    drainPageSize = 2
    NumTests = 2
INVARIANTS
    SuiteTypeOK
    NothingDropped
    HandledOnceUnlessUndeleted
    CountIsRemoved
    GreenIsReal
    NothingLeftBehind
    FailureIsOwn
PROPERTIES DrainEnds
CHECK_DEADLOCK FALSE
