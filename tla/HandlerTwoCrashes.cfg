SPECIFICATION FairSpec
CONSTANTS
    Threads = {t1, t2}
    Signals = {SEGV, ABRT}
    Segv = SEGV
    Abort = ABRT
    Handlers = {h1}
    Installers = {h1}
    Destroyable = {}
    Owners = {t1}
    Crashers = {t1, t2}
    AsyncTargets = {}
    Simulators = {}
    AppDispositions = {"dfl"}
    AppStacks = {"none"}
    FilterResults = {TRUE}
    CrashHandlerResults = {FALSE}
    WriteResults = {TRUE}
    CallbackResults = {}
    FirstChanceResults = {FALSE}
    SyscallResults = {TRUE}
    CallbackFaults = FALSE
    MaxRestores = 0
    None = None
PROPERTY CrashIsFatal
