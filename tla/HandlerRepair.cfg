SPECIFICATION FairSpec
CONSTANTS
    Threads = {t1, t2, t3}
    Signals = {SEGV, ABRT}
    Segv = SEGV
    Abort = ABRT
    Handlers = {h1, h2}
    Installers = {h1, h2}
    Destroyable = {}
    Owners = {t1, t2}
    Crashers = {t1}
    AsyncTargets = {}
    Simulators = {t3}
    AppDispositions = {"dfl"}
    AppStacks = {"none"}
    FilterResults = {TRUE}
    CrashHandlerResults = {TRUE, FALSE}
    WriteResults = {TRUE}
    CallbackResults = {}
    FirstChanceResults = {FALSE}
    SyscallResults = {TRUE}
    CallbackFaults = FALSE
    MaxRestores = 2
    None = None
PROPERTY FaultIsFatal
PROPERTY LockIsGranted
