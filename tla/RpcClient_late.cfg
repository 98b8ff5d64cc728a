CONSTANTS
    NoCall = NoCall
    c1 = c1
    Calls = {c1}
    NRCalls = {}
    Timed = {c1}
    MaxReplies <- Replies
SPECIFICATION Spec
INVARIANT LateReplyHarmless
CHECK_DEADLOCK FALSE
