SPECIFICATION FairSpec
CONSTANTS
    PageSize = 4096
    RVALimit = 16777216
    AddressLimit = 16777216
    Ashmem = {}
    max_modules_ = 4
    max_string_length_ = 10
    Tids = {1, 2, 3, 4}
    CrashThread = 2
    MainThread = 1
    FirstThreads = {1, 2, 3}
    Stack <- MCStack
    Libraries = {"app", "low", "packed", "late"}
    FirstLibraries = {"app", "low", "packed"}
    Segments <- MCSegments
    Bias <- MCBias
    Unidentified = {"low"}
    EntryPoint = 1007720
    AppMemory <- MCAppMemory
    ProcFiles <- MCProcFiles
    NameLength = 10
    kLimitBaseThreadCount = 1
    kLimitMaxExtraThreadStackLen = 2048
    kLimitAverageThreadStackLength = 8192
    kLimitMinidumpFudgeFactor = 65536
    kStackToCapture = 32768
    Scenarios <- MCScenarios
INVARIANT TypeOK
INVARIANT VisibleStreamsRead
INVARIANT VisibleListsRead
INVARIANT RoundTrip
INVARIANT FailsForAReason
INVARIANT AddressResolves
INVARIANT StackReached
INVARIANT ContextSet
INVARIANT NoneLeftStopped
PROPERTY StoppedResumes
