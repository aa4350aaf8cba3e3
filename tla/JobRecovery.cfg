SPECIFICATION Spec

CONSTANTS
    MaxJobs = 3
    Resource = {}
    NoResource = NoResource
    Key = {}
    NoKey = NoKey
    MaxHistory = 1
    MaxConcurrent = 1
    CompactAt = 2
    Faults = {"crash", "torn", "snapshot", "truncate"}

INVARIANTS
    SlotBound
    DurableRecords
    RecoveredAsInterrupted

PROPERTIES
    TerminalRemainsTerminal
