SPECIFICATION Spec

CONSTANTS
    MaxJobs = 1
    Resource = {}
    NoResource = NoResource
    Key = {}
    NoKey = NoKey
    MaxHistory = 1
    MaxConcurrent = 1
    CompactAt = 10
    Faults = {"crash", "append"}

PROPERTIES
    TerminalRemainsTerminal
