SPECIFICATION Spec
CONSTANTS
    Descriptions <- MCDescriptions
    GreLengths = {4, 8}
    MplsEntries = {2}
    Noise <- MCNoise
    MaxOuter = 3
    MaxFrames = 2
    PACKET_MAX_HEADERS = 4
INVARIANTS
    TypeOK
    InjectedAsDescribed
    FrameJudged
    TableMatchesFrame
    TunFollowsCapture
\* the script is refused, the tool aborts, or no more packets come
CHECK_DEADLOCK FALSE
