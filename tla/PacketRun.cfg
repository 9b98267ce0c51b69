CONSTANTS
    SeqSpace = 7
    Isns = {0, 6}
    MaxLen = 2
    MaxQueue = 3
    MaxSends = 2
    Configs <- MCConfigs
SPECIFICATION Spec
INVARIANTS TypeOK KernelAccepts EchoIsGenuine VerdictExact OneFlow ResetObeyed
\* A run ends with the socket closed or with an error; a script may also
\* expect a packet that the kernel never sends.
CHECK_DEADLOCK FALSE
