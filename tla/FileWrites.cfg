SPECIFICATION Spec

CONSTANTS
    Caller = {c1, c2, c3}
    Path <- Paths
    Backup <- Backups
    Ops = {"write", "write_backup", "cas", "cas_backup", "copy", "append", "delete", "truncate", "move"}
    Faults = {"write", "sync"}

INVARIANTS
    DigestIsOwn

PROPERTIES
    ReplacesWhatItChecked
    OldOrNew

SYMMETRY
    Symmetry

CHECK_DEADLOCK FALSE
