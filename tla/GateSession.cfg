CONSTANTS
    Sessions = {"s1"}
    NoSession = "none"
    Copies = {"c1"}
    SessionOf <- CopyOf
    Users = {"u1", "u2"}
    NoUser = "none"
    Keys = {k1}
    Vals = {1}
    NoVal = 0
    Calls = {i1, i2}
    NoCall = i0
    LocalChanges = TRUE
    MayFail = TRUE
SPECIFICATION Spec
SYMMETRY Alike
INVARIANTS TypeOK StorageCurrent
