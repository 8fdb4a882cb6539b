SPECIFICATION Spec
CONSTANTS
    Threads = {t1, t2}
    Signals = {SEGV, ABRT}
    Segv = SEGV
    Abort = ABRT
    Handlers = {h1, h2}
    Installers = {h1, h2}
    Destroyable = {h1, h2}
    Owners = {t1}
    Crashers = {t2}
    AsyncTargets = {t1}
    Simulators = {}
    AppDispositions = {"dfl"}
    AppStacks = {"none", "small", "big"}
    FilterResults = {TRUE}
    CrashHandlerResults = {FALSE}
    WriteResults = {TRUE}
    CallbackResults = {}
    FirstChanceResults = {TRUE}
    SyscallResults = {TRUE, FALSE}
    CallbackFaults = FALSE
    MaxRestores = 0
    None = None
INVARIANT AltStackLive
CHECK_DEADLOCK FALSE
