SPECIFICATION Spec
CONSTANTS
    Nodes = {"a", "b"}
    Versions = {"v1"}
    VersionOf <- OneVersion
    Start <- AllPassing
    Watchers = {w1}
    Objs = {1, 2, 3, 4, 5, 6}
    NoObj = 0
    Cap = 2
    MaxChanges = 1
    Getters = {g1}
    Sessions = {1, 2, 3}
    NoSession = 0
    NoNode = "none"
    NoWatcher = none
    MayFail = FALSE
    MayStop = FALSE
VIEW LiveView
PROPERTIES StableNeverClosed
