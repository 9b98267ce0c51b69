CONSTANTS
    Sessions <- OneSession
    MaxEvents = 2
    Kinds <- GoodKinds
    Gateway <- OneGateway
    Faults <- ClientFault
SPECIFICATION Spec
INVARIANT DaemonSurvives
