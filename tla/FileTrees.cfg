SPECIFICATION ServiceSpec

CONSTANTS
    Order <- names
    Root <- share
    MaxLinks = 4
    Sources <- MCSources
    Targets <- MCTargets
    FileSystems <- MCFileSystems
    Requests <- MCRequests
    MaxOther = 2
    Archivable <- MCArchivable
    Archived <- MCArchived
    ExtractTo <- MCExtractTo

INVARIANTS
    MirrorsSource
    DeletionsAreListed
    ExtractsWhatWasStored

PROPERTY
    StaysInRoot

CHECK_DEADLOCK FALSE
