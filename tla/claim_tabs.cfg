SPECIFICATION Spec
CONSTANTS
    t1 = t1
    t2 = t2
    Tabs = {t1, t2}
    AllSlots <- MCSlots
    MaxTime = 2
    MaxMessages = 1
PROPERTY NoSpuriousLogout
CHECK_DEADLOCK FALSE
