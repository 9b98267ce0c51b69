CONSTANTS
    ScriptFds = {3, 4, 5}
    MaxLiveFd = 3
    BlockingOps = {"accept", "close"}
    CarefulScripts = TRUE
    MaxCalls = 7
SPECIFICATION Spec
INVARIANTS TypeOK ListMatchesKernel SocketsClosed
\* A run ends when its state has been freed, or with an error.
CHECK_DEADLOCK FALSE
