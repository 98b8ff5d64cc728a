CONSTANTS
    NoCall = NoCall
    c1 = c1
    c2 = c2
    nr = nr
    Calls = {c1, c2, nr}
    NRCalls = {nr}
    Timed = {c1}
    MaxReplies <- Replies
SPECIFICATION FairSpec
INVARIANTS TypeOK ReplyNeverBlocks LoopDeathCause NoEntryLeak ClosedOnlyByDone
PROPERTIES CallReturns DoneWakesPending DoneStopsLoop
CHECK_DEADLOCK FALSE
