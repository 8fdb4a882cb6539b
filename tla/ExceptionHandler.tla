-------------------------- MODULE ExceptionHandler --------------------------
(***************************************************************************)
(* The Linux/Android crash handler: registration of ExceptionHandler       *)
(* objects, installation and restoration of the process's signal           *)
(* dispositions, and SignalHandler, which every thread that receives an    *)
(* exception signal runs concurrently with the others.                     *)
(*                                                                         *)
(* Sources: client/linux/handler/exception_handler.cc and .h; the wrapper  *)
(* constructs one object of it (init_breakpad in breakpad_wrapper.cc).     *)
(*                                                                         *)
(* The kernel's delivery of a signal is modelled from how this code uses   *)
(* it.  Writing the dump (GenerateDump) is one step here; the handshake    *)
(* with the cloned process that it consists of is module GenerateDump.     *)
(***************************************************************************)
EXTENDS Naturals, Sequences

CONSTANTS
    Threads,              \* threads of the process
    Signals,              \* kExceptionSignals
    Segv, Abort,          \* SIGSEGV and SIGABRT, two elements of Signals
    Handlers,             \* ExceptionHandler objects; each is built once
    Installers,           \* the ones built with install_handler = true
    Destroyable,          \* the ones whose destructor may run
    Owners,               \* threads that construct and destroy handlers
    Crashers,             \* threads whose own code faults (si_code > 0)
    AsyncTargets,         \* threads an exception signal may be sent to (kill)
    Simulators,           \* threads that call SimulateSignalDelivery
    AppDispositions,      \* dispositions before Breakpad, a subset of AppDisp
    AppStacks,            \* alternate stacks before Breakpad
    FilterResults,        \* what filter_ may answer ({TRUE}: filter_ is NULL)
    CrashHandlerResults,  \* what crash_handler_ may answer ({FALSE}: NULL)
    WriteResults,         \* whether the cloned process can write the dump
    CallbackResults,      \* answers of callback_ besides |succeeded|
    FirstChanceResults,   \* g_first_chance_handler_ ({FALSE}: not set)
    SyscallResults,       \* whether sigaction, sigaltstack, tgkill may fail
    CallbackFaults,       \* TRUE if the user callbacks may fault themselves
    MaxRestores,          \* how often other code restores with signal()
    None                  \* no thread, a zeroed crash context

\* A disposition of a signal: the default action, an application handler
\* (installed without or with SA_SIGINFO) or SignalHandler, installed by
\* InstallHandlersLocked ("bp"), by the repair in SignalHandler ("bpreset")
\* or put back by foreign code with signal(), which drops SA_SIGINFO.
AppDisp  == {"dfl", "app", "appinfo"}
Disp     == AppDisp \cup {"bp", "bpreset", "bpnoinfo"}
AppStack == {"none", "small", "big"}

ASSUME ConstantsAssumption ==
    /\ {Segv, Abort} \subseteq Signals
    /\ Installers \subseteq Handlers
    /\ Destroyable \subseteq Handlers
    /\ Owners \subseteq Threads
    /\ Crashers \subseteq Threads
    /\ AsyncTargets \subseteq Threads
    /\ Simulators \subseteq Threads
    /\ AppDispositions \subseteq AppDisp
    /\ AppStacks \subseteq AppStack
    /\ FilterResults \subseteq BOOLEAN
    /\ CrashHandlerResults \subseteq BOOLEAN
    /\ WriteResults \subseteq BOOLEAN
    /\ CallbackResults \subseteq BOOLEAN
    /\ FirstChanceResults \subseteq BOOLEAN
    /\ SyscallResults \subseteq BOOLEAN
    /\ CallbackFaults \in BOOLEAN
    /\ MaxRestores \in Nat
    /\ None \notin Threads

VARIABLES
    disp,                \* kernel: the disposition of each signal
    old_handlers,        \* old_handlers[]
    handlers_installed,
    stack,               \* g_handler_stack_; NULL is the empty sequence
    mutex,               \* holder of g_handler_stack_mutex_, or None
    ctx,                 \* whose data g_crash_context_ holds, or None
    altstack,            \* kernel: each thread's alternate signal stack
    old_stack,
    stack_installed,
    hstate,              \* life of each handler object
    dump,                \* the file at each handler's minidump path
    fate,                \* how the process ended, or "running"
    pc,                  \* where each thread is
    frame,               \* the signal a thread is handling and how it arrived
    idx,                 \* the loop index i of SignalHandler, plus one
    handled,             \* the local |handled| of SignalHandler
    obj,                 \* the object a constructor or a call works on
    restores,            \* how often other code has restored with signal()
    dispatched           \* history: a pass over the handlers ended since the
                         \* stack was last empty

sigVars  == <<disp, old_handlers, handlers_installed>>
altVars  == <<altstack, old_stack, stack_installed>>
loopVars == <<idx, handled>>
vars == <<sigVars, stack, mutex, ctx, altVars, hstate, dump, fate, pc,
          frame, loopVars, obj, restores, dispatched>>

-----------------------------------------------------------------------------
HasSigInfo(d) == d \in {"bp", "bpreset", "appinfo"}
IsBreakpad(d) == d \in {"bp", "bpreset", "bpnoinfo"}

\* Mutant: InstallHandlersLocked does not add the other signals to sa_mask.
MaskedOnlyItself(f) == {f.sig}

\* The exception signals blocked while SignalHandler runs for frame f: all
\* of them if InstallHandlersLocked installed it, else the signal itself.
Masked(f) == IF f.via = "bp" THEN Signals ELSE {f.sig}

InHandler == {"sh_first", "sh_lock", "sh_check", "sh_loop", "sh_dump",
              "sh_reraise", "stuck"}
LockPc    == {"ctor_lock", "dtor_lock", "sh_lock"}
AppPc     == {"run", "ctor_lock", "ctor_cs", "dtor_lock", "dtor_cs"}
Pc        == InHandler \cup LockPc \cup AppPc \cup {"faulted", "sim_dump"}

\* Mutants: no waiting for the mutex; no unlocking.
AcquireAlways(t) == mutex' = t
ReleaseNever     == UNCHANGED mutex

\* g_handler_stack_mutex_, which is not recursive.
Acquire(t) == mutex = None /\ mutex' = t
Release    == mutex' = None

Goto(t, l) == pc' = [pc EXCEPT ![t] = l]
Running    == fate = "running"

Init ==
    /\ disp \in [Signals -> AppDispositions]
    /\ old_handlers = [s \in Signals |-> "dfl"]
    /\ handlers_installed = FALSE
    /\ stack = << >>
    /\ mutex = None
    /\ ctx = None
    /\ altstack \in [Threads -> AppStacks]
    /\ old_stack = "none"
    /\ stack_installed = FALSE
    /\ hstate = [h \in Handlers |-> "none"]
    /\ dump = [h \in Handlers |-> "none"]
    /\ fate = "running"
    /\ pc = [t \in Threads |-> "run"]
    /\ frame = [t \in Threads |->
                  [sig |-> Segv, user |-> FALSE, via |-> "bp", ret |-> "run"]]
    /\ idx = [t \in Threads |-> 0]
    /\ handled = [t \in Threads |-> FALSE]
    /\ obj = [t \in Threads |-> None]
    /\ restores = 0
    /\ dispatched = FALSE

-----------------------------------------------------------------------------
(***************************************************************************)
(* Signal dispositions and the alternate stack.  All four operators run    *)
(* with g_handler_stack_mutex_ held.                                       *)
(***************************************************************************)

\* The sets of signals on which a loop of sigaction calls may succeed.
Changeable == IF FALSE \in SyscallResults THEN SUBSET Signals ELSE {Signals}

\* Fails without installing anything if an old handler cannot be read (the
\* order of kExceptionSignals, hence which ones were read, is left open); a
\* signal whose handler cannot be set is skipped.
InstallHandlersLocked ==
    \/ handlers_installed /\ UNCHANGED sigVars
    \/ /\ ~handlers_installed
       /\ \E S \in Changeable \ {Signals} :
             old_handlers' = [s \in Signals |->
                                IF s \in S THEN disp[s] ELSE old_handlers[s]]
       /\ UNCHANGED <<disp, handlers_installed>>
    \/ /\ ~handlers_installed
       /\ old_handlers' = disp
       /\ \E S \in Changeable :
             disp' = [s \in Signals |-> IF s \in S THEN "bp" ELSE disp[s]]
       /\ handlers_installed' = TRUE

\* Mutant: the flag is cleared and the handlers are left in place.
RestoreHandlersFlagOnly ==
    handlers_installed' = FALSE /\ UNCHANGED <<disp, old_handlers>>

\* A signal whose old handler cannot be restored gets the default action.
RestoreHandlersLocked ==
    \/ ~handlers_installed /\ UNCHANGED sigVars
    \/ /\ handlers_installed
       /\ \E S \in Changeable :
             disp' = [s \in Signals |->
                        IF s \in S THEN old_handlers[s] ELSE "dfl"]
       /\ handlers_installed' = FALSE
       /\ UNCHANGED old_handlers

\* Mutant: the old handlers are restored instead.
DefaultHandlerRestores(s) == RestoreHandlersLocked

InstallDefaultHandler(s) ==
    /\ disp' = [disp EXCEPT ![s] = "dfl"]
    /\ UNCHANGED <<old_handlers, handlers_installed>>

InstallAlternateStackLocked(t) ==
    IF stack_installed
    THEN UNCHANGED altVars
    ELSE \E queried, set \in SyscallResults :
           LET new == /\ ~queried \/ altstack[t] \in {"none", "small"}
                      /\ set
           IN  /\ old_stack' = IF queried THEN altstack[t] ELSE "none"
               /\ stack_installed' = new
               /\ altstack' = IF new THEN [altstack EXCEPT ![t] = "bp"]
                                     ELSE altstack

\* Mutant: new_stack is freed while it is still installed.
RestoredStackFreed(t, u) == IF altstack[u] = "bp" THEN "freed" ELSE altstack[u]

\* The alternate stack of thread u once t has restored its own and freed
\* new_stack: the kernel keeps one per thread, and only t's can be put back.
RestoredStack(t, u) ==
    IF altstack[u] # "bp" THEN altstack[u]
    ELSE IF u = t THEN old_stack ELSE "freed"

RestoreAlternateStackLocked(t) ==
    IF ~stack_installed
    THEN UNCHANGED altVars
    ELSE \E queried, set \in SyscallResults :
           IF ~queried \/ (altstack[t] = "bp" /\ ~set)
           THEN UNCHANGED altVars
           ELSE /\ stack_installed' = FALSE
                /\ altstack' = [u \in Threads |-> RestoredStack(t, u)]
                /\ UNCHANGED old_stack

-----------------------------------------------------------------------------
(***************************************************************************)
(* Construction and destruction of an ExceptionHandler object.             *)
(***************************************************************************)

\* The constructor up to the lock: a fresh minidump path (UpdatePath).
Construct(t, h) ==
    /\ Running
    /\ pc[t] = "run"
    /\ hstate[h] = "none"
    /\ hstate' = [hstate EXCEPT ![h] = "building"]
    /\ obj' = [obj EXCEPT ![t] = h]
    /\ Goto(t, "ctor_lock")
    /\ UNCHANGED <<sigVars, stack, mutex, ctx, altVars, dump, fate, frame,
                   loopVars, restores, dispatched>>

\* The constructor's critical section.
ConstructLocked(t) ==
    /\ Running
    /\ pc[t] = "ctor_cs"
    /\ ctx' = None
    /\ \/ /\ obj[t] \in Installers
          /\ InstallAlternateStackLocked(t)
          /\ InstallHandlersLocked
       \/ obj[t] \notin Installers /\ UNCHANGED <<altVars, sigVars>>
    /\ stack' = Append(stack, obj[t])
    /\ Release
    /\ hstate' = [hstate EXCEPT ![obj[t]] = "live"]
    /\ obj' = [obj EXCEPT ![t] = None]
    /\ Goto(t, "run")
    /\ UNCHANGED <<dump, fate, frame, loopVars, restores, dispatched>>

\* The destructor is entered; no other call on the object is in progress.
Destroy(t, h) ==
    /\ Running
    /\ pc[t] = "run"
    /\ hstate[h] = "live"
    /\ \A u \in Threads : obj[u] # h
    /\ obj' = [obj EXCEPT ![t] = h]
    /\ Goto(t, "dtor_lock")
    /\ UNCHANGED <<sigVars, stack, mutex, ctx, altVars, hstate, dump,
                   fate, frame, loopVars, restores, dispatched>>

\* The sequence without its element at position k.
Erase(s, k) == [i \in 1..(Len(s) - 1) |-> IF i < k THEN s[i] ELSE s[i + 1]]

\* Mutant: the handlers are restored with every destructor.
StackEmptiedAlways == TRUE

\* The handler that is erased is the only one.
StackEmptied == Len(stack) = 1

\* The destructor's critical section: std::find, erase, and, when the stack
\* becomes empty, the restoration of stack and handlers.
DestroyLocked(t) ==
    /\ Running
    /\ pc[t] = "dtor_cs"
    /\ \E k \in 1..Len(stack) :
          /\ stack[k] = obj[t]
          /\ \A j \in 1..(k - 1) : stack[j] # obj[t]
          /\ stack' = Erase(stack, k)
    /\ IF StackEmptied
       THEN /\ RestoreAlternateStackLocked(t)
            /\ RestoreHandlersLocked
            /\ dispatched' = FALSE
       ELSE UNCHANGED <<altVars, sigVars, dispatched>>
    /\ Release
    /\ hstate' = [hstate EXCEPT ![obj[t]] = "gone"]
    /\ obj' = [obj EXCEPT ![t] = None]
    /\ Goto(t, "run")
    /\ UNCHANGED <<ctx, dump, fate, frame, loopVars, restores>>

\* pthread_mutex_lock(&g_handler_stack_mutex_), wherever it is called.
Lock(t) ==
    /\ Running
    /\ pc[t] \in LockPc
    /\ Acquire(t)
    /\ Goto(t, CASE pc[t] = "ctor_lock" -> "ctor_cs"
                 [] pc[t] = "dtor_lock" -> "dtor_cs"
                 [] OTHER -> "sh_check")
    /\ UNCHANGED <<sigVars, stack, ctx, altVars, hstate, dump, fate,
                   frame, loopVars, obj, restores, dispatched>>

-----------------------------------------------------------------------------
(***************************************************************************)
(* Signals.  A thread at "faulted" has a signal to be delivered: the       *)
(* instruction it would execute faults, or the signal is pending.          *)
(***************************************************************************)

\* External.  Thread t's own code faults (u = FALSE) or calls abort(), or
\* the signal is sent to t by kill() or tgkill(), wherever t is.
Crash(t, s, u) ==
    /\ Running
    /\ \/ t \in Crashers /\ pc[t] = "run" /\ u = (s = Abort)
       \/ t \in AsyncTargets /\ pc[t] \in AppPc /\ u
    /\ frame' = [frame EXCEPT ![t].sig = s, ![t].user = u, ![t].ret = pc[t]]
    /\ Goto(t, "faulted")
    /\ UNCHANGED <<sigVars, stack, mutex, ctx, altVars, hstate, dump, fate,
                   loopVars, obj, restores, dispatched>>

\* External.  The kernel acts on the disposition it finds now.  What an
\* application handler does is not modelled: the process is handed over.
Deliver(t) ==
    /\ Running
    /\ pc[t] = "faulted"
    /\ LET d == disp[frame[t].sig] IN
       IF IsBreakpad(d)
       THEN /\ frame' = [frame EXCEPT ![t].via = d]
            /\ Goto(t, "sh_first")
            /\ UNCHANGED fate
       ELSE /\ fate' = IF d = "dfl" THEN "signal" ELSE "old"
            /\ UNCHANGED <<frame, pc>>
    /\ UNCHANGED <<sigVars, stack, mutex, ctx, altVars, hstate, dump,
                   loopVars, obj, restores, dispatched>>

\* A fault of the handler's own code.  A blocked signal that is forced kills
\* the process; one that is not blocked enters SignalHandler again, which
\* waits for the mutex its own thread holds.
SegvInHandler(t) ==
    LET d == disp[Segv] IN
    IF Segv \notin Masked(frame[t]) /\ IsBreakpad(d)
    THEN Goto(t, "stuck") /\ UNCHANGED fate
    ELSE /\ fate' = IF Segv \in Masked(frame[t]) THEN "nested"
                    ELSE IF d = "dfl" THEN "signal" ELSE "old"
         /\ UNCHANGED pc

\* g_first_chance_handler_ runs before the mutex is taken.
FirstChance(t) ==
    /\ Running
    /\ pc[t] = "sh_first"
    /\ \E recovered \in FirstChanceResults :
          Goto(t, IF recovered THEN frame[t].ret ELSE "sh_lock")
    /\ UNCHANGED <<sigVars, stack, mutex, ctx, altVars, hstate, dump, fate,
                   frame, loopVars, obj, restores, dispatched>>

\* Mutant: SA_SIGINFO is not set when the handler is installed again.
RepairedDispositionNoInfo == "bpnoinfo"

RepairedDisposition == "bpreset"

\* The repair of a disposition that lost SA_SIGINFO; SignalHandler returns,
\* after which a fault recurs and a signal that was sent does not.
RepairHandler(t) ==
    /\ Running
    /\ pc[t] = "sh_check"
    /\ TRUE \in SyscallResults
    /\ ~HasSigInfo(disp[frame[t].sig])
    /\ \E set \in SyscallResults :
          disp' = [disp EXCEPT ![frame[t].sig] =
                     IF set THEN RepairedDisposition ELSE "dfl"]
    /\ Release
    /\ Goto(t, IF frame[t].user THEN frame[t].ret ELSE "faulted")
    /\ UNCHANGED <<old_handlers, handlers_installed, stack, ctx, altVars,
                   hstate, dump, fate, frame, loopVars, obj, restores,
                   dispatched>>

\* The loop starts with the handler registered last; the stack may be NULL.
BeginLoop(t) ==
    /\ Running
    /\ pc[t] = "sh_check"
    /\ HasSigInfo(disp[frame[t].sig]) \/ FALSE \in SyscallResults
    /\ idx' = [idx EXCEPT ![t] = Len(stack)]
    /\ handled' = [handled EXCEPT ![t] = FALSE]
    /\ IF stack = << >> THEN SegvInHandler(t)
                        ELSE Goto(t, "sh_loop") /\ UNCHANGED fate
    /\ UNCHANGED <<sigVars, stack, mutex, ctx, altVars, hstate, dump,
                   frame, obj, restores, dispatched>>

\* Mutants: the loop goes on after a handler handled the signal; it skips one.
LoopGoesOnPastHandled(t) == idx[t] > 0
NextHandlerSkipsOne(t)   == idx' = [idx EXCEPT ![t] = @ - 2]

\* The condition and the increment of the loop over g_handler_stack_.
LoopGoesOn(t)  == ~handled[t] /\ idx[t] > 0
NextHandler(t) == idx' = [idx EXCEPT ![t] = @ - 1]

\* HandleSignal up to the crash handler: the filter, then the crash context.
\* Through a disposition without SA_SIGINFO, info and uc are garbage:
\* copying them faults or yields a context of no thread.
HandleFilter(t) ==
    /\ Running
    /\ pc[t] = "sh_loop"
    /\ LoopGoesOn(t)
    /\ \/ /\ FALSE \in FilterResults
          /\ NextHandler(t)
          /\ UNCHANGED <<ctx, fate, pc>>
       \/ /\ TRUE \in FilterResults
          /\ ctx' = IF frame[t].via = "bpnoinfo" THEN None ELSE t
          /\ Goto(t, "sh_dump")
          /\ UNCHANGED <<idx, fate>>
       \/ /\ TRUE \in FilterResults
          /\ frame[t].via = "bpnoinfo"
          /\ SegvInHandler(t)
          /\ UNCHANGED <<idx, ctx>>
    /\ UNCHANGED <<sigVars, stack, mutex, altVars, hstate, dump, frame,
                   handled, obj, restores, dispatched>>

\* GenerateDump for handler h.  The path is fixed at construction and opened
\* with O_EXCL, so a second dump fails; |result| is what callback_ answers.
GenerateDump(h, result) ==
    \/ /\ dump[h] # "none"
       /\ result \in {FALSE} \cup CallbackResults
       /\ UNCHANGED dump
    \/ /\ dump[h] = "none" /\ TRUE \in WriteResults
       /\ result \in {TRUE} \cup CallbackResults
       /\ dump' = [dump EXCEPT ![h] = "complete"]
    \/ /\ dump[h] = "none" /\ FALSE \in WriteResults
       /\ result \in {FALSE} \cup CallbackResults
       /\ \E left \in {"none", "partial"} : dump' = [dump EXCEPT ![h] = left]

\* The rest of HandleSignal: crash_handler_, then GenerateDump.
HandleDump(t) ==
    /\ Running
    /\ pc[t] = "sh_dump"
    /\ \/ /\ TRUE \in CrashHandlerResults
          /\ handled' = [handled EXCEPT ![t] = TRUE]
          /\ UNCHANGED dump
       \/ /\ FALSE \in CrashHandlerResults
          /\ \E result \in BOOLEAN :
                /\ GenerateDump(stack[idx[t]], result)
                /\ handled' = [handled EXCEPT ![t] = result]
    /\ NextHandler(t)
    /\ Goto(t, "sh_loop")
    /\ UNCHANGED <<sigVars, stack, mutex, ctx, altVars, hstate, fate, frame,
                   obj, restores, dispatched>>

\* A filter, crash handler or minidump callback faults.
NestedFault(t) ==
    /\ Running
    /\ CallbackFaults
    /\ \/ pc[t] = "sh_dump"
       \/ pc[t] = "sh_loop" /\ LoopGoesOn(t)
    /\ SegvInHandler(t)
    /\ UNCHANGED <<sigVars, stack, mutex, ctx, altVars, hstate, dump, frame,
                   loopVars, obj, restores, dispatched>>

\* After the loop: choose who receives the signal when it recurs, unlock.
Finish(t) ==
    /\ Running
    /\ pc[t] = "sh_loop"
    /\ ~LoopGoesOn(t)
    /\ IF handled[t] THEN InstallDefaultHandler(frame[t].sig)
                     ELSE RestoreHandlersLocked
    /\ Release
    /\ dispatched' = TRUE
    /\ Goto(t, "sh_reraise")
    /\ UNCHANGED <<stack, ctx, altVars, hstate, dump, fate, frame, loopVars,
                   obj, restores>>

\* A signal that was sent, and SIGABRT, is queued again with tgkill; a fault
\* recurs.  info may be garbage (see HandleFilter).
Reraise(t) ==
    /\ Running
    /\ pc[t] = "sh_reraise"
    /\ \E fromuser \in IF frame[t].via = "bpnoinfo" THEN BOOLEAN
                                                    ELSE {frame[t].user} :
          IF fromuser \/ frame[t].sig = Abort
          THEN \E queued \in SyscallResults :
                 IF queued
                 THEN /\ frame' = [frame EXCEPT ![t].user = TRUE]
                      /\ Goto(t, "faulted")
                      /\ UNCHANGED fate
                 ELSE fate' = "exit" /\ UNCHANGED <<frame, pc>>
          ELSE /\ Goto(t, IF frame[t].user THEN frame[t].ret ELSE "faulted")
               /\ UNCHANGED <<frame, fate>>
    /\ UNCHANGED <<sigVars, stack, mutex, ctx, altVars, hstate, dump,
                   loopVars, obj, restores, dispatched>>

-----------------------------------------------------------------------------
(***************************************************************************)
(* SimulateSignalDelivery calls HandleSignal without taking the mutex.     *)
(***************************************************************************)
SimulateBegin(t, h) ==
    /\ Running
    /\ t \in Simulators
    /\ pc[t] = "run"
    /\ hstate[h] = "live"
    /\ \A u \in Threads : obj[u] # h
    /\ TRUE \in FilterResults
    /\ ctx' = t
    /\ obj' = [obj EXCEPT ![t] = h]
    /\ Goto(t, "sim_dump")
    /\ UNCHANGED <<sigVars, stack, mutex, altVars, hstate, dump, fate,
                   frame, loopVars, restores, dispatched>>

SimulateDump(t) ==
    /\ Running
    /\ pc[t] = "sim_dump"
    /\ \/ TRUE \in CrashHandlerResults /\ UNCHANGED dump
       \/ /\ FALSE \in CrashHandlerResults
          /\ \E result \in BOOLEAN : GenerateDump(obj[t], result)
    /\ obj' = [obj EXCEPT ![t] = None]
    /\ Goto(t, "run")
    /\ UNCHANGED <<sigVars, stack, mutex, ctx, altVars, hstate, fate, frame,
                   loopVars, restores, dispatched>>

\* External.  Other code saves and restores a handler with signal(), which
\* loses SA_SIGINFO (the comment in SignalHandler describes it).
LoseSigInfo(s) ==
    /\ Running
    /\ restores < MaxRestores
    /\ disp[s] \in {"bp", "bpreset"}
    /\ disp' = [disp EXCEPT ![s] = "bpnoinfo"]
    /\ restores' = restores + 1
    /\ UNCHANGED <<old_handlers, handlers_installed, stack, mutex, ctx,
                   altVars, hstate, dump, fate, pc, frame, loopVars, obj,
                   dispatched>>

\* The process has ended, or no thread is inside the library.
Rest ==
    /\ ~Running \/ \A t \in Threads : pc[t] = "run"
    /\ UNCHANGED vars

\* What thread t does by itself once it is inside the library or has faulted.
ThreadStep(t) ==
    \/ Lock(t) \/ ConstructLocked(t) \/ DestroyLocked(t)
    \/ Deliver(t) \/ FirstChance(t) \/ RepairHandler(t) \/ BeginLoop(t)
    \/ HandleFilter(t) \/ HandleDump(t) \/ Finish(t) \/ Reraise(t)
    \/ SimulateDump(t)

Next ==
    \/ \E t \in Threads : ThreadStep(t)
    \/ \E t \in Owners, h \in Handlers : Construct(t, h)
    \/ \E t \in Owners, h \in Destroyable : Destroy(t, h)
    \/ \E t \in Threads, s \in Signals, u \in BOOLEAN : Crash(t, s, u)
    \/ \E t \in Threads : NestedFault(t)
    \/ \E t \in Threads, h \in Handlers : SimulateBegin(t, h)
    \/ \E s \in Signals : LoseSigInfo(s)
    \/ Rest

Spec == Init /\ [][Next]_vars

\* A thread that can run is eventually run, and the mutex does not starve it.
FairSpec ==
    /\ Spec
    /\ \A t \in Threads : WF_vars(ThreadStep(t)) /\ SF_vars(Lock(t))

-----------------------------------------------------------------------------
(***************************************************************************)
(* Properties.                                                             *)
(***************************************************************************)

Frame == [sig : Signals, user : BOOLEAN, via : Disp, ret : AppPc]

SigType ==
    /\ disp \in [Signals -> Disp]
    /\ old_handlers \in [Signals -> Disp]
    /\ handlers_installed \in BOOLEAN

AltType ==
    /\ altstack \in [Threads -> AppStack \cup {"bp", "freed"}]
    /\ old_stack \in AppStack \cup {"bp", "freed"}
    /\ stack_installed \in BOOLEAN

LibType ==
    /\ stack \in Seq(Handlers)
    /\ mutex \in Threads \cup {None}
    /\ ctx \in Threads \cup {None}
    /\ hstate \in [Handlers -> {"none", "building", "live", "gone"}]
    /\ fate \in {"running", "signal", "old", "exit", "nested"}
    /\ restores \in Nat
    /\ dispatched \in BOOLEAN

DumpType == dump \in [Handlers -> {"none", "partial", "complete"}]

ThreadType ==
    /\ pc \in [Threads -> Pc]
    /\ frame \in [Threads -> Frame]
    /\ idx \in [Threads -> Nat]
    /\ handled \in [Threads -> BOOLEAN]
    /\ obj \in [Threads -> Handlers \cup {None}]

\* Every variable has its type: the globals of exception_handler.cc, the
\* kernel's tables, the dump files and the threads stay in their domains.
TypeOK == SigType /\ AltType /\ LibType /\ DumpType /\ ThreadType

\* A thread that is about to write a dump for its own fault finds its own
\* context in the global g_crash_context_, whatever the other threads that
\* fault, construct or destroy handlers do meanwhile (HandleSignal fills the
\* global, GenerateDump reads it).  SimulateSignalDelivery breaks this.
CtxIntegrity ==
    \A t \in Threads :
        pc[t] = "sh_dump" /\ frame[t].via # "bpnoinfo" => ctx = t

\* Between the construction of a handler with install_handler = true and the
\* end of the first dispatch, every exception signal enters SignalHandler,
\* although other handlers come and go and foreign code uses signal().
ArmedUntilDispatch ==
    (\E k \in 1..Len(stack) : stack[k] \in Installers) /\ ~dispatched
        => \A s \in Signals : IsBreakpad(disp[s])

\* No thread is left with an alternate signal stack whose memory
\* RestoreAlternateStackLocked has freed.
AltStackLive == \A t \in Threads : altstack[t] # "freed"

\* No thread waits in SignalHandler for the mutex it holds itself, in an
\* outer SignalHandler or in a constructor or destructor.
NoSelfDeadlock ==
    \A t \in Threads :
        mutex = t => pc[t] \notin {"sh_first", "sh_lock", "stuck"}

\* The signal recurs at the handler SignalHandler chose: the default action
\* if a handler took the crash, the disposition saved before Breakpad if all
\* refused.  For one crashing thread and no destructor.
RedeliveredAsChosen ==
    \A t \in Threads :
        dispatched /\ pc[t] = "faulted" /\ fate \in {"signal", "old"} =>
            fate = IF handled[t] \/ old_handlers[frame[t].sig] = "dfl"
                   THEN "signal" ELSE "old"

\* One crash is reported once: the loop of SignalHandler stops at the first
\* handler that writes a dump, and the recurring signal is not dumped again.
\* For one crashing thread.
OneReport ==
    \A g, h \in Handlers :
        dump[g] = "complete" /\ dump[h] = "complete" => g = h

\* A fault ends the process: the signal that recurs when SignalHandler
\* returns is fatal, or is handed to the application's own handler.
CrashIsFatal ==
    \A t \in Threads : pc[t] = "faulted" ~> ~Running

\* As CrashIsFatal, for a hard fault.  A signal that was sent is consumed by
\* the repair when other code has dropped SA_SIGINFO (see RepairHandler).
FaultIsFatal ==
    \A t \in Threads : pc[t] = "faulted" /\ ~frame[t].user ~> ~Running

\* Every thread that wants the mutex gets it or the process ends: neither does
\* a constructor wait for ever for SignalHandler, which holds the mutex while
\* it writes a dump and while it repairs the disposition, nor SignalHandler
\* for a constructor of another thread.
LockIsGranted ==
    \A t \in Threads : pc[t] \in LockPc ~> (pc[t] \notin LockPc \/ ~Running)
=============================================================================
