CONSTANTS
    MaxStarts = 2
    MaxAttempts = 2
    MaxDatagrams = 2
    MaxPackets = 1
SPECIFICATION FairSpec
INVARIANTS TypeOK DescriptorsInUse TunnelExclusive
PROPERTY ConnectsOrGivesUp
\* The outgoing thread locks its mutex twice: the tunnel stops there.
CHECK_DEADLOCK FALSE
