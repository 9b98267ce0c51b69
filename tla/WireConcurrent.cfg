CONSTANTS
    Sessions <- TwoSessions
    MaxEvents = 2
    Kinds <- GoodKinds
    Gateway <- OwnGateways
    Faults <- ProcessFaults
SPECIFICATION Spec
INVARIANT GatewayPresent
