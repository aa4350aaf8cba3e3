SPECIFICATION Spec

CONSTANTS
    MaxJobs = 3
    Resource = {r1}
    NoResource = NoResource
    Key = {k1}
    NoKey = NoKey
    MaxHistory = 1
    MaxConcurrent = 2
    CompactAt = 1
    Faults = {}

INVARIANTS
    TypeOK
    ResourceExclusion
    CancelIsHonoured
    OneRunPerKey
