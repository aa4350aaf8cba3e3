SPECIFICATION FairBridgeSpec
CONSTANTS
    Call = {c1, c2}
    Op = {write, wipe, reboot}
    NoOp = NoOp
    ReadOps = {}
    SensitiveOps = {wipe, reboot}
    Mode = "sensitive_only"
    MaxTickets = 2
    TTL = 1
    MaxTime = 1
INVARIANTS
    ApprovedOnce
    RunsAtMostOnce
    NotRunIsTrue
    DenialIsFinal
PROPERTIES
    ImplementsOneShot
    CallsEnd
CHECK_DEADLOCK FALSE
