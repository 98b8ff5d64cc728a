SPECIFICATION FairSpec
CONSTANTS
    Nodes = {"a"}
    Versions = {"v1"}
    VersionOf <- OneVersion
    Start <- AllPassing
    Watchers = {w1, w2}
    Objs = {1, 2, 3, 4}
    NoObj = 0
    Cap = 1
    MaxChanges = 2
    Getters = {g1}
    Sessions = {1, 2}
    NoSession = 0
    NoNode = "none"
    NoWatcher = none
    MayFail = TRUE
    MayStop = TRUE
INVARIANTS TypeOK ClosedOnlyWhileRemoved
PROPERTIES CacheConverges CloseEndsLoop
