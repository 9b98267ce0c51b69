CONSTANTS
    Sessions <- OneSession
    MaxEvents = 4
    Kinds <- AllKinds
    Gateway <- OneGateway
    Faults <- AllFaults
SPECIFICATION FairSpec
INVARIANTS TypeOK InStep VerdictSound
PROPERTIES ExecutesInOrder BothSidesEnd
