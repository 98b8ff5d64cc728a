CONSTANTS
    Backends = {"consul", "etcd"}
    MayFail = TRUE
    Heartbeat = TRUE
    N = 4
    Svc = 3
SPECIFICATION FairSpec
INVARIANTS StoppedIsDeregistered WheelOutlivesModules
PROPERTIES StaysDiscoverable EventuallyGone CloseHangCause
CHECK_DEADLOCK FALSE
