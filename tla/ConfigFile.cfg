SPECIFICATION Spec

CONSTANTS
    Hash = {"h1", "h2"}
    MaxEdits = 2

INVARIANTS
    RestartKeepsPolicy
    TrustIsExplicit
    SupplementStaysReadOnly

CHECK_DEADLOCK FALSE
