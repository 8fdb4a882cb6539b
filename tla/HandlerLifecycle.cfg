SPECIFICATION Spec
CONSTANTS
    Threads = {t1, t2}
    Signals = {SEGV, ABRT}
    Segv = SEGV
    Abort = ABRT
    Handlers = {h1, h2}
    Installers = {h1}
    Destroyable = {h1, h2}
    Owners = {t1, t2}
    Crashers = {t1, t2}
    AsyncTargets = {}
    Simulators = {}
    AppDispositions = {"dfl"}
    AppStacks = {"none"}
    FilterResults = {TRUE}
    CrashHandlerResults = {FALSE}
    WriteResults = {TRUE, FALSE}
    CallbackResults = {}
    FirstChanceResults = {FALSE}
    SyscallResults = {TRUE}
    CallbackFaults = FALSE
    MaxRestores = 1
    None = None
SYMMETRY ThreadSymmetry
INVARIANT TypeOK
INVARIANT CtxIntegrity
INVARIANT ArmedUntilDispatch
CHECK_DEADLOCK FALSE
