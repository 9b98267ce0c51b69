CONSTANTS
    MaxStarts = 2
    MaxAttempts = 2
    MaxDatagrams = 1
    MaxPackets = 1
SPECIFICATION FairSpec
PROPERTY IncomingHandled
\* The outgoing thread locks its mutex twice: the tunnel stops there.
CHECK_DEADLOCK FALSE
