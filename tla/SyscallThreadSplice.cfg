CONSTANTS
    NumScriptEvents = 2
    Kinds <- AllKinds
SPECIFICATION Spec
INVARIANT BlockedWithoutLock
CHECK_DEADLOCK FALSE
