SPECIFICATION Spec

CONSTANTS
    Caller = {c1, c2}
    Path <- Paths
    Backup <- Backups
    Ops = {"cas", "append"}
    Faults = {}

PROPERTIES
    SwapsAreTransactions

CHECK_DEADLOCK FALSE
