CONSTANTS
    Writers = {"reader", "h1"}
    Reader = "reader"
    FchCap = 1
    ConcurrentTasks = 1
SPECIFICATION FairSpec
INVARIANTS TypeOK NoSessionLeak FlushPromised
PROPERTIES WriterReturns RunEnds FlusherEnds GateStops
CHECK_DEADLOCK FALSE
