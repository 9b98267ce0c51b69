CONSTANTS
    Half = 8
    HalfShort = 4
    U8 = 4
    tolerance_usecs = 1
    start_usecs = 2
    ScriptFds = {0, 1, 2}
    MaxLiveFd = 3
    Calls <- MCCalls
    Revents = {1, 2}
    Messages <- MCMessages
    MaxCalls = 6
SPECIFICATION Spec
INVARIANTS TypeOK KernelSeesScript  ConnectionTracked
\* A script ends, or dies with an error.
CHECK_DEADLOCK FALSE
