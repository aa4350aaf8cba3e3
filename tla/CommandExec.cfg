SPECIFICATION FairSpec

CONSTANTS
    Proc = {lead, child, grandchild}
    Lead = lead

INVARIANTS
    OutputIsComplete
    InterruptionIsReported

PROPERTIES
    RunEnds

CHECK_DEADLOCK FALSE
