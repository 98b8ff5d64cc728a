CONSTANTS
    NoReq = NoReq
    r1 = r1
    r2 = r2
    Reqs = {r1, r2}
    Settings <- OkSettings
SPECIFICATION Spec
INVARIANT DoneWaitsForRequests
CHECK_DEADLOCK FALSE
