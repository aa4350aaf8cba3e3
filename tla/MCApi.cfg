SPECIFICATION Spec
CONSTANTS
    Module = {"network", "jobs"}
    FanCap = 1
    DiskCap = 1
    Place = {"a", "x"}
    Net = {"n1", "n2"}
    Env = {"PATH", "API_TOKEN"}
    Configs <- MCConfigs
    Requests <- MCRequests
    Documents <- MCDocuments
    Tables <- MCTables
    Neighbors <- MCNeighbors
INVARIANTS
    ChangesAreApproved
    ReadsChangeNothing
    DryRunChangesNothing
    AuditIsHonest
    TablesAreWhole
    LossReportIsExact
    SnapshotFlagIsExact
