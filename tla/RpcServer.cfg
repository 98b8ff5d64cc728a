CONSTANTS
    NoReq = NoReq
    r1 = r1
    r2 = r2
    Reqs = {r1, r2}
    Settings <- AllSettings
SPECIFICATION FairSpec
INVARIANTS TypeOK AnsweredOnce SlotLeakCause DeathCause
PROPERTIES QuietAfterDone RequestServed ShutdownCompletes
CHECK_DEADLOCK FALSE
