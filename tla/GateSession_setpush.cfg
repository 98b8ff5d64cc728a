CONSTANTS
    Sessions = {"s1"}
    NoSession = "none"
    Copies = {"c1", "c2"}
    SessionOf <- CopyOf
    Users = {"u1"}
    NoUser = "none"
    Keys = {k1, k2}
    Vals = {1}
    NoVal = 0
    Calls = {i1}
    NoCall = i0
    LocalChanges = FALSE
    MayFail = FALSE
SPECIFICATION Spec
PROPERTIES SetPushLikeSet
