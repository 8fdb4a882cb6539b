SPECIFICATION FairSpec
CONSTANTS
    Handlers = {h1, h2}
    MaxCalls = 2
    Restricted = TRUE
    MaxFaults = 1
    ParentMayDie = TRUE
    SigPipeKills = TRUE
INVARIANT TypeOK
INVARIANT ReportedDumpFinished
INVARIANT PermissionInTime
INVARIANT NoPipeLeak
PROPERTY CallReturns
PROPERTY CloneEnds
PROPERTY ImplementsDumpService
