SPECIFICATION FairSpec
CONSTANTS
    Threads = {t1, t2}
    Signals = {SEGV, ABRT}
    Segv = SEGV
    Abort = ABRT
    Handlers = {h1, h2}
    Installers = {h1, h2}
    Destroyable = {}
    Owners = {t1, t2}
    Crashers = {t1}
    AsyncTargets = {}
    Simulators = {}
    AppDispositions = {"dfl", "app", "appinfo"}
    AppStacks = {"none"}
    FilterResults = {TRUE, FALSE}
    CrashHandlerResults = {TRUE, FALSE}
    WriteResults = {TRUE, FALSE}
    CallbackResults = {}
    FirstChanceResults = {FALSE}
    SyscallResults = {TRUE}
    CallbackFaults = TRUE
    MaxRestores = 0
    None = None
INVARIANT RedeliveredAsChosen
INVARIANT OneReport
INVARIANT NoSelfDeadlock
PROPERTY CrashIsFatal
