SPECIFICATION Spec
CONSTANTS
    Scripts <- MCScripts
    Tolerance = 1
    StartOffset = 1
    MaxTime = 5
INVARIANTS
    TypeOK
    InboundOnSchedule
    TimesJudged
    ReturnJudged
\* the run ends, or the clock reaches its bound
CHECK_DEADLOCK FALSE
