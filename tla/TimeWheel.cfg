CONSTANTS
    MaxTimers = 3
    Keys = {k1}
    Delays <- AllDelays
    SlotNum = 3
    Interval = 2
    NoSlot = 99
SPECIFICATION FairSpec
INVARIANTS TypeOK TableExact FiresOnTime
PROPERTIES ImplementsTimers AllFire
CHECK_DEADLOCK FALSE
