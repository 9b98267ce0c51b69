CONSTANTS
    NumScriptEvents = 4
    Kinds <- AllKinds
SPECIFICATION FairSpec
INVARIANTS
    TypeOK AssertionsHold EventStaysUntilBegun CallInProgressRecorded
    ThreadOutlivedByState
PROPERTIES WritesUnderLock ImplementsSlot Termination
\* A blocking splice() never gets its lock: the run stops there.
CHECK_DEADLOCK FALSE
