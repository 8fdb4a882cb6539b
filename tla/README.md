# TLA+ verification of BreakPader

BreakPader wraps Google Breakpad for Android. An application calls `init()` to
catch fatal signals and write minidumps, `symbol()` to turn its native libraries
into symbol files, and `translate()` to read a minidump with those symbols. This
directory models the parts of that system whose correctness depends on order,
concurrency or failure, checks them with TLC and proves the central invariants
with TLAPS. Paths below are relative to
`src/breakpader-core/src/main/jni/breakpad/src/` unless they say otherwise.

## 1. Inventory

**Exception handler** (`client/linux/handler/exception_handler.cc`).
State: the process-wide `g_handler_stack_`, its mutex, `g_crash_context_`,
`old_handlers` and `handlers_installed`, the alternate signal stack
(`old_stack`, `stack_installed`), and the kernel's dispositions. Operations:
constructor, destructor, `SignalHandler`, `HandleSignal`,
`SimulateSignalDelivery`. Any thread may be in `SignalHandler` at any time, a
signal may interrupt a constructor, other code may overwrite the dispositions.
Correct if: an installed handler stays armed until it has dispatched a signal; a
dump holds the context of the thread that crashed; one crash gives one report;
nobody waits for the mutex for ever; the crash finally ends the process; freed
stack memory is not left installed.

**Dump hand-over** (`GenerateDump`, `ThreadEntry`, the continue signal, in the
same file; `MinidumpWriter::Init`; `LinuxPtraceDumper::ThreadsSuspend`).
State: a pipe and a cloned process per request, the one `PR_SET_PTRACER`
register of the process, the dump file. The requesting thread and the clone run
concurrently and share no memory; system calls fail, a clone is killed, the
process dies. Correct if: success is reported only for a file that this request's
clone wrote to the end (whether `write` succeeded on the way, the code does not
look); no descriptor leaks; requests return; clones end.

**Symbol store** (`Breakpader.symbol` and `getSymbolTargetPath` in Java,
`native_breakpad.cpp`, `wrap/breakpad_wrapper.cc`, `common/linux/dump_symbols.cc`,
`common/module.cc`, `processor/simple_symbol_supplier.cc`).
State: files, the temporary `root/name.sym` and the published
`root/name/id/name.sym`. `symbol()` deletes, creates, fills and moves the
temporary file without any lock; `translate()` looks for a published file and
reads it in a second step; the process may crash in between, which is what this
library is used for. Correct if: a published file is whole, belongs to its path
and stays; failures are reported.

**Minidump writer** (`client/minidump_file_writer.cc`,
`client/linux/minidump_writer/`, `common/memory_allocator.h`). Runs in the clone.
State: the lists of threads and mappings, which threads are stopped, the file
with its directory, the position up to which it is allocated and its size, the
blocks of memory written so far, the location of the crash context. It lists a
process that goes on, then stops it thread by thread, writes thirteen streams,
resumes and closes. Threads end or are created meanwhile, the process or the
writer is killed, the file cannot grow, the disk is full. Correct if: each
stream that the directory names is whole at every moment (a killed writer leaves
a readable file); success means that the reader gives back the process; a change
in the process does not make the dump fail; no thread stays stopped.

**Minidump reader** (`processor/minidump.cc`). Sequential: each stream is
refused or returned as a whole, modules are entered in a range map in which (on
Android) they may overlap. Correct if it reads what the writer writes.

**Translation** (`wrap/breakpad_wrapper.cc`, `processor/minidump_processor.cc`,
`stackwalker.cc`, `stackwalker_arm.cc`, `stack_frame_symbolizer.cc`,
`basic_source_line_resolver.cc`, `cfi_frame_info.cc`, `range_map-inl.h`,
`address_map-inl.h`). State: the loaded symbols and the modules known to have
none, the stacks found so far, the walk in progress. Symbol files appear in the
store meanwhile. Correct if: it ends, on any stack; it reports the thread that
crashed; a correct stack gives the calls that were made; a look-up gives what the
symbol file says; one module is not judged in two ways.

**Not part of the Android build or without logic of their own:** clients for
Windows, Mac, iOS and Solaris, uploaders, microdumps, core-dump tools,
out-of-process generation (`server_fd` is -1 here), the demo application,
vendored code and tests. `PROJECT.json` lists each with the reason.

**Interactions.** `init()` constructs one static `ExceptionHandler`. A signal
enters `SignalHandler`, which asks the handlers from last to first; each one's
`HandleSignal` fills `g_crash_context_` and calls `GenerateDump`, which clones a
process that attaches to its parent, writes the file and exits; its status goes
to the callback, whose answer decides who receives the signal again. Later
`translate()` reads the dump and, through `SimpleSymbolSupplier`, the files that
`symbol()` published.

## 2. Modules

| Module | Models |
| --- | --- |
| `ExceptionHandler` | registration, dispositions, alternate stack, `SignalHandler`, `HandleSignal` |
| `GenerateDump` | the handshake of thread and clone inside one `GenerateDump` |
| `DumpService` | what `GenerateDump` promises its caller (abstract) |
| `SymbolStore` | `symbol()` and the look-up half of `translate()` |
| `RangeMap` | `RangeMap` with shrink-down, `AddressMap` (operators) |
| `MinidumpFileWriter` | space, copies and strings in the dump file (operators) |
| `MinidumpWriter` | the process that lists, stops, dumps and resumes another one |
| `MinidumpReader` | what `Minidump` and its streams return for a file (operators) |
| `DumpFile` | writer and reader together: properties of the file |
| `SourceLineResolver` | loading of symbol files and look-ups, with their meaning as a reference (operators) |
| `Stackwalker` | symbolizer, CFI and scanning on ARM (operators) |
| `Translate` | `translate()` beside `symbol()` |
| `MC...` | instances for TLC: symmetry sets, model values |
| `ExceptionHandlerProofs` | theorems and proofs about `ExceptionHandler` |
| `GenerateDumpProofs` | theorems and proofs about `GenerateDump`, and that it implements `DumpService` |
| `SymbolStoreProofs` | theorems and proofs about `SymbolStore` |
| `RangeMapProofs` | theorems and proofs about `RangeMap` |
| `TranslateProofs` | theorems and proofs about `Translate` |
| `MinidumpFileWriterProofs` | theorems and proofs about `MinidumpFileWriter` |
| `DumpFileProofs` | theorems and proofs about the dumper in `MinidumpWriter`: lists, stopped threads, failure, what it writes |
| `DumpLayoutProofs` | theorem and proof about where `MinidumpWriter` writes: a stream in the directory is whole |

### ExceptionHandler

A thread's position is `pc[t]`: application code (`run`), the lock and the
critical section of constructor and destructor, the parts of `SignalHandler`
between which other threads can run (first chance handler, lock, `SA_SIGINFO`
check, loop, dump, re-raise), and `faulted`, where a signal is to be delivered.
A critical section of the constructor or destructor is one step (`ConstructLocked`,
`DestroyLocked`), since everything it touches is guarded by the mutex except the
dispositions, which it sets in one loop. `disp` keeps how a disposition was
installed: by `InstallHandlersLocked` ("bp"), by the repair branch
("bpreset", whose mask has only its own signal) or put back with `signal()` by
other code ("bpnoinfo", so that `info` and `uc` are garbage). `dump[h]` is the file
at the handler's path, opened with O_EXCL. What the filter, crash handler,
callback, first chance handler and the system calls answer are CONSTANT sets.
`Deliver`, `Crash`, `SegvInHandler` and `LoseSigInfo` are the kernel and foreign
code, modelled from how this code uses them.

Left open or simplified: `InstallDefaultHandler` is assumed to succeed; what an
application's own handler does (fate "old") and the fallback inside `abort()` are
outside the model; writing the dump is one step (see `GenerateDump`).
`AddMappingInfo`, `RegisterAppMemory` and their inverses only fill lists for the
writer and are left out.

### GenerateDump and DumpService

Requests are numbered; a request's number names its pipe, its clone and, after
`UpdatePath`, its file. Requests of different handlers overlap freely; two
requests on one handler at a time are not modelled (that is listed as a hazard),
so the requesting thread is named by its handler. A clone copies the member
`fdes`, the path and all open descriptors. Writing to a pipe without readers
raises SIGPIPE, which kills the process unless it is ignored. Attaching, opening
and writing the dump are one step each of the clone; while a clone has the
process attached, the process's threads do not run. `WriteFile` has the three
outcomes of `MinidumpWriter::Dump`: a complete file and exit status 0; a file with
holes ("holed") and exit status 0, since `Dump` does not look at what `Copy` and
`Flush` return; a file broken off and exit status 1. `overlap` is a history
variable that tells whether two requests have been in progress at once.

`DumpService` has a request's outcome and the state of the file written for it.
It promises no more than the code keeps: success only for a *finished* file, one
that its writer brought to the end of `Dump`, and a finished file never changes.
That a finished file can have holes is the run `dump_disk_full`.
`GenerateDump` implements it under `report[c]` = the state of the file at the
path of clone `c`, if `c` wrote it.

### SymbolStore

A file is an inode named by the call of `symbol()` that created it, and its
content tells for every record which library wrote it, so a file two threads
wrote to shows the mixture. `Module::Write` ends every line with `endl`:
records reach the file one by one. `Detected` says which failures it notices.
The target directory is read back from the MODULE line of the file that is at
the temporary path at that moment; a library name with white space makes the
line have other than five words, and the target becomes `root/null/null`.
`DumpSymbolsFile` returns `JNI_OK` whatever the dump returned, hence `symbol()`
always goes on to move the file.

### MinidumpFileWriter, MinidumpWriter, MinidumpReader and DumpFile

The writer object is a record `w`: position, size and flags as in the code, and
the file as the objects written to it, `disk[rva] = [len, data]`. Sizes are the
format's, so positions are real file offsets; contents are what identifies an
object (a thread number, a name). A write over part of another object damages
it. `ftruncate` fails beyond `maxLength`, or always on kernels with the EACCES
bug that `SetFile` looks for; `write` fails after `room` calls, as a whole (one
that stores a part of its bytes, which `Copy` takes for a failure, is left out). A
string whose characters are written but whose length is not reads as an empty
one. The build is for
armeabi-v7a only, hence `kInvalidMDRVA + size` wraps and passes the test in
`Copy`.

`MinidumpWriter` has one action for each step between which the process can
move: listing threads, listing mappings, attaching to one thread, `LateInit` and
`Open`, the header, and then the start, each turn and the end of each list
stream, each single-object stream, each copied file, and after every stream the
copy of its entry, the local `dirent`, into the directory (`EnterStream`): the
writer may be killed between the two. ELF headers are read through the main
thread, so that load biases are found only if that one is attached
(`MainThread`); a library may have no identifier (`Unidentified`), and its module
then has an empty CodeView record. The environment's
actions (threads start and end, a library is loaded, the process dies, the
writer is killed) are external; `moves` bounds them. A thread that was created
after the list was made is never stopped and goes on during the whole dump.
A `scenario` fixes what one dump cannot change: whether there is a context
of the signal handler, descriptor or path, the size limit, unreferenced stacks
that are skipped, threads that somebody else traces, unreadable files.

The reader's operators return sets, `{}` for a stream that is refused, and are
evaluated by the properties of `DumpFile` on the file as it is in each state. Its
limits on modules and strings are CONSTANTS; those on threads and regions are
lifted by `breakpad_wrapper.cc` (lines 163-164).

Two properties name an exception. `VisibleListsRead`: between the entry of the
module list and that of the system information the reader does not yet know that
the dump is from Android and does not shrink ranges. A list whose first module, the
executable, is taken into another one by its load bias is then refused; without
that overlap (`MainApart`) the list is read in this window too. `StackReached`: a
stack that is cut, with its stack pointer on the boundary of two chunks, is kept
from the chunk below, of which nothing is in use (see section 4).

Simplified: mappings the caller adds, sanitizing of stacks and the texts of CPU
and OS information are left out; the reader's failbit (after a read that was too
short every later seek of that `Minidump` fails) is described but not carried.

### RangeMap, SourceLineResolver, Stackwalker and Translate

`Stored` is the recursive `StoreRangeInternal` in closed form: the new range
starts behind the last range that ends inside it, and the range that reaches
above it starts behind its high address. `LoadMapFromMemory` folds the records of
a symbol file as the parser's loop does, with `cur_func` and the error count;
`Meaning` says, record by record and without range maps, what the same file
says about an address. In `Stackwalker`, a CFI rule is a register plus a
constant, or the word at that address, which is what compilers emit for ARM;
the frame-pointer walk is for iOS only. A word is read at any address, aligned or
not, if it lies in the region as a whole; for that a register has four bytes
of `ByteLimit` values each (32 in the run, so that all numbers stay within TLC's).
A null character inside a symbol file is one error of the parser. Left out: STACK
WIN lines, which no Android library has, and the symbolizer's exits that are never
taken (`kInterrupt`, which stands for a `new` that returns NULL, and a load of a
module that is loaded). `Translate` takes a step for each frame
symbolized, each caller sought and each word scanned, because looking a word up
may load symbols and `symbol()` may publish them between any two steps. The dump
is given as what `MinidumpReader` returns. `files` is the result of
`LoadMapFromMemory` for each file, a pure function of its content.

## 3. Runs

| Run | Instance | Shows |
| --- | --- | --- |
| `handler_lifecycle` | 2 threads, 2 handlers (one installs), 2 signals, both threads construct, destroy and fault, one foreign `signal()`; 659,910 states | `TypeOK`, `CtxIntegrity`, `ArmedUntilDispatch` |
| `handler_one_crash` | one crashing thread, a second one constructing; every answer of filter, crash handler and writer, faulting callbacks, three kinds of earlier handlers; 15,723 states | `RedeliveredAsChosen`, `OneReport`, `NoSelfDeadlock`, `CrashIsFatal` |
| `handler_alt_stack` | one owner, system calls fail at will, signals sent to the owner anywhere; 145,581 states | `AltStackLive` |
| `handler_repair` | 3 threads, two of which construct handlers, one of these faults and the third simulates deliveries; SA_SIGINFO lost twice; 58,339 states | `FaultIsFatal`, `LockIsGranted` |
| `dump_handshake` | 2 handlers, 2 requests, one failure of any kind, the process may die; 219,548 states | `TypeOK`, `ReportedDumpFinished`, `PermissionInTime`, `NoPipeLeak`, `CallReturns`, `CloneEnds`, `ImplementsDumpService` |
| `symbol_publish` | 4 libraries (two builds with one name, a broken one, a spaced name), 3 calls, 1 look-up, 1 crash, 2 failures; 915,291 states | `TypeOK`, `StoredComplete`, `StoredOwn`, `LoadedWhole`, `PublishedStays` |
| `symbol_concurrent` | 3 threads, 4 calls on one library; 564,272 states | `AnsweredIsStored` |
| `dump_file` | 3 threads and one that may be created, 4 libraries of which two have a load bias inside another and one has no identifier, a stack cut at its stack pointer; 8 scenarios with 2 to 4 moves of the process, and files that may grow to 0..14 pages; 89,559 states | `TypeOK`, `VisibleStreamsRead`, `VisibleListsRead`, `RoundTrip`, `FailsForAReason`, `AddressResolves`, `StackReached`, `ContextSet`, `NoneLeftStopped`, `StoppedResumes` |
| `translate` | 425 call chains, 1,125 stacks of 3 arbitrary words with an aligned or unaligned frame pointer, 2,380 symbol files of up to 3 records, 98 dumps with several threads or missing parts; 118,642 states | `TypeOK`, `ReportsTheCrash`, `OneVerdict`, `WalkBounded`, `LookupRight`, `WalkIsChain`, `TranslationEnds` |
| `handler_two_crashes` | two threads fault | violates `CrashIsFatal` |
| `dump_disk_full` | the disk is full after 0..100 writes | violates `RoundTrip` |
| `symbol_failure_hidden` | an unreadable library | violates `DumpFailureReported` |

**Bounds.** Two threads are enough for every race over the one mutex and the
global context (one holds, one waits, and the roles change); two handlers show
the order of the loop and a stack that does and does not become empty. Two
requests are enough for pipes, clones and the ptrace register to be confused
with each other; a first dump followed by a second one on the same path is among
them. Three calls let one that was cut off by a crash be followed by another and
a third build be published beside it. In `dump_file` four moves let one thread
end, one start, a library be loaded and the process die, each before or after
any step; every number of pages makes another allocation the one that fails, the
exception stream's among them; the size limit, thread counts and stack lengths
are small versions of `kLimit...` such that a stack is cut. In `translate`,
chains of four calls have every combination of a leaf at its entry, a frame with
and without saved registers, a frame pointer, and a call as the last
instruction; three arbitrary words are enough for a scan, a caller found by CFI
and a caller that leads back; `max_frames` is above the bound of `WalkBounded`, as
the code's `1 << 20` is above the bytes of a captured stack. Symbol files of three records reach every pair of
records and what a third does to them (a function dropped, `cur_func` cleared,
the error limit, set to 1). `MaxRestores`, `MaxCalls`, `MaxLookups`,
`MaxCrashes` and `MaxFaults` cap what would be unbounded.

**Deadlock** is checked except in `handler_lifecycle` and `handler_alt_stack`,
where threads really can stop for ever: a signal that interrupts a constructor
inside its critical section waits for its own thread, and so does a fault in the
loop after the repair branch has installed the smaller mask. `Rest` is the step
of a system that has nothing to do.

**Fairness.** Each thread that can take a step of its own inside the library
eventually does (WF of `ThreadStep`: the scheduler), and the mutex is not
granted to others for ever (SF of `Lock`). A clone's steps are weakly fair. The
writer of a minidump runs until it has ended or is killed (`FairSpec` of
`MinidumpWriter`, written without ENABLED for TLC's sake), and the thread that
called `translate()` runs (WF of `TranslateStep`); publishing symbols is not
fair. Nothing else is: constructing, crashing, sending signals, killing, failing
and `WaitFails` may or may not happen.

## 4. What the violated runs show

- `handler_two_crashes`: the comment in `exception_handler.cc` (lines 117-119)
  expects the re-thrown signal to be fatal. A second thread that faults on the
  same signal waits for the mutex, then finds the SIG_DFL that the first dispatch
  has installed, takes the missing SA_SIGINFO for a lost handler and installs
  `SignalHandler` again. Both threads then fault and dispatch for ever. It needs
  earlier dispositions without SA_SIGINFO; Android's debuggerd handlers have it.
- `dump_disk_full`: the header says that `succeeded` tells whether a minidump
  was successfully written (`exception_handler.h`, lines 90-91). `Dump` tests
  every allocation but ignores the result of every copy, so a `write` that fails
  leaves holes in the file and the dump is reported as written.
- `symbol_failure_hidden`: `dumpSymbolFile` documents a result code that is OK
  for a library that cannot be read.

Seen while modelling, without a run of their own. Handler: a handler with
`install_handler = false` is documented to write dumps only when `WriteMinidump`
is called, but it is put on the stack and asked first when another handler is
installed; a clone closes its own copy of the write end so that it fails if the
parent dies, but it also holds copies of the ends of other requests' pipes, so
overlapping requests can leave clones behind; `SimulateSignalDelivery` uses
`g_crash_context_` without the mutex (against the comment at lines 215-218);
after the repair branch "All the exception signals are blocked" (line 347) does
not hold; a signal sent with `kill()` is consumed by the repair;
`Module::Write` does not notice a failed PUBLIC record or a failed last STACK CFI
record; two threads that symbolize two builds with one file name at the same
time may mix them up; a second `init()` with another directory has no effect
(the handler is a function-local static) and the alternate stack belongs to the
thread that called it first.

Writer and reader: a typed object whose allocation failed is flushed all the
same by its destructor; in the 32-bit build the test in `Copy` wraps and the
zeros go to wherever the descriptor stands, over the directory or the thread
list (the dump is reported as failed then, and `VisibleStreamsRead` and
`VisibleListsRead` exclude it);
with a path instead of a descriptor the ftruncate workaround is never looked
for, so on such kernels every dump fails and the descriptor stays open; the
location of the crash context is never initialized, and stays so if the crashing
thread is dropped from the list because somebody else traces it; the linker's
list is walked twice while a thread that was never stopped may change it; a
memory list with one overlap, or a module list with one module that cannot be
stored, is refused as a whole; the comment in `FillThreadStack`
(`minidump_writer.cc`, line 332) says that empty chunks of a cut stack are skipped,
but the loop at line 335 stops one chunk early when the stack pointer is the end of
a chunk, and the kept piece then holds nothing in use (`dump_file` has such a
stack).

Translation: the cache of modules without symbols and the resolver are keyed by
the code file, not by the identifier; an empty symbol file counts as found and
makes scans pass over its module; a failed translation cannot be told from a dump
without a crash; `StackFrameARM` does not override `ReturnAddress()`, so the
reported `instruction` of a caller is two below the return address that
`google_breakpad/processor/stack_frame.h` (lines 112-113) describes;
the array of frames is not freed by the JNI glue.

## 5. Proofs

### ExceptionHandler

`ExceptionHandlerProofs` proves, for any numbers of threads, signals and handlers
and any answers of callbacks and system calls except where said:

| Theorem | Statement |
| --- | --- |
| `TypeCorrect` | `Spec => []TypeOK` |
| `IndInvHolds` | `Spec => []IndInv` |
| `CrashContextIntegrity` | `Spec => []CtxIntegrity`, if nobody calls `SimulateSignalDelivery` |
| `StaysArmed` | `Spec => []ArmedUntilDispatch`, if system calls succeed |
| `AltStackNeverFreed` | `Spec => []AltStackLive`, if one thread owns all handlers; system calls may fail |

`TypeOK` alone is not inductive: that `idx` stays a natural number and that the
object of a constructor is a handler need to know where a thread is. `IndInv`
adds `MutexInv` (a thread in a critical section, running or interrupted there by a
signal, holds the mutex), `RetInv` (a thread that got the mutex in
`SignalHandler` did not interrupt a critical section, since it would have waited
for itself), `ObjInv` and `IdxInv`. `TypeStep` and `LockStep` show that every
action preserves it, action by action. `CtxIntegrity` then follows because only
holders of the mutex write `ctx`; `ArmedUntilDispatch` needs `ArmedInv`
(`handlers_installed` tells the truth about the dispositions, and is set while an
installing handler is on the stack); `AltStackLive` needs that only the owner's
stack is ever Breakpad's. The three conditions are necessary: without them TLC
finds counterexamples. The assumption on the constants is
`ConstantsAssumption`, which TLC evaluates in every handler run.

### ExceptionHandler, one crashing thread

Three invariants of the handler hold only while one thread crashes. `OneCrash`
says so of the constants: one thread faults, no signals are sent from elsewhere,
no handler is destroyed, and no foreign code resets the handler; any number of
other threads construct handlers meanwhile.

| Theorem | Statement, with `OneCrash` |
| --- | --- |
| `NeverSelfDeadlocked` | `Spec => []NoSelfDeadlock` |
| `ReportedOnce` | `Spec => []OneReport`, if nobody simulates a signal and no callback answers FALSE to a dump |
| `Redelivered` | `Spec => []RedeliveredAsChosen`, if system calls succeed |

The invariant `CrashInv` is inductive with `IndInv`. It says that `SignalHandler` is
installed only while `handlers_installed` says so, and that what it replaced is the
application's (`DispInv`); that only the crasher is in `SignalHandler`, that it
interrupted no critical section, and that the disposition it came through stays
until it chooses another (`EntryInv`); that who holds the mutex is in a critical
section (`HolderInv`); and that after a handled crash the signal has the default
action, which no constructor replaces (`HandledInv`). `ReportInv` adds that a
complete dump means that a handler took the crash; `AfterInv`, what the dispositions
are after a dispatch.

The hypotheses are needed: a signal sent to a thread in a constructor makes it wait
for the mutex it holds; a destructor followed by another constructor installs
`SignalHandler` again, and the recurring signal is dumped a second time or meets
another disposition; after the repair of a handler that foreign code replaced, a
crash in the callback enters `SignalHandler` a second time; a callback that answers
FALSE to a complete dump lets the next handler write one more; and a failed
`sigaction` leaves the default action where the previous handler was chosen.

### GenerateDump

`GenerateDumpProofs` proves, for any set of handlers, any number of requests and any
failures of system calls and clones, without further hypotheses:

| Theorem | Statement |
| --- | --- |
| `IndInvHolds` | `Spec => []IndInv` |
| `TypeCorrect` | `Spec => []TypeOK` |
| `ReportedFinished` | `Spec => []ReportedDumpFinished` |
| `PermittedInTime` | `Spec => []PermissionInTime` |
| `PipesClosed` | `Spec => []NoPipeLeak` |
| `HandshakeImplementsService` | `Spec => DS!Spec`, the refinement of `DumpService` |

None of these is inductive alone: each speaks of the moment at which caller, pipe
and clone meet. `IndInv` relates them at every step:

- `CallPart`: a request in progress was begun, has not returned and belongs to one
  thread; what has not begun has no clone; the clone's copy of the path is the
  handler's.
- `FilePart`: a file belongs to the clone that created it; exit status 0 means that
  it is finished, complete or with holes, and `ok` means exit status 0.
- `PipePart`: thread and clone have only descriptors of their own pipe, and one that
  is open is one the thread is still going to use.
- `PermitPart`: a byte is in a pipe, or was read from it, only after
  `PR_SET_PTRACER`, and the register names this clone as long as no two requests
  have overlapped.

For the refinement every action is shown to be a step of `DumpService` or to leave
its variables unchanged under the mapping `report`, with `IndInv` for the one step
that is not obvious: a clone that writes changes no other request's dump.

### SymbolStore

`SymbolStoreProofs` proves, for any set of libraries and any bounds on failures and
process deaths except where said:

| Theorem | Hypotheses | Statement |
| --- | --- | --- |
| `TypeCorrect` | none | `Spec => []TypeOK` |
| `StoredIsComplete` | one thread in `symbol()` | `Spec => []StoredComplete` |
| `StoredIsOwn` | one thread in `symbol()` | `Spec => []StoredOwn` |
| `LoadedIsWhole` | one thread in `symbol()` | `Spec => []LoadedWhole` |
| `PublishedRemains` | and every library has a directory of its own | `Spec => PublishedStays` |
| `AnsweredAreStored` | any number of threads, one library, no failures | `Spec => []AnsweredIsStored` |

The inductive invariant for one thread, `OneInv`, is the reason why a temporary
file and `rename` make publication atomic: a temporary file is never also in the
store (`InodeInv`), it is about one library (`OneLibInv`) and holds the records
written so far (`OpenFileInv`), the directory it will be moved to is that of the
library its MODULE line names (`DirInv`), and between the last write and `rename` it
is whole if nothing failed (`WholeInv`). Libraries with white space in their names
share a directory
(`root/name/null`), so that their files replace one another; this is the hypothesis
of `PublishedRemains`.

For many threads, `ManyInv` says that a record which a file lacks is going to be
written by a thread that has the file open (`RecordInv`), and that as long as nothing
is published someone is going to publish (`PublishInv`); when all threads are done
there is nobody left to do either. `GoodInv` and `TargetInv` exclude failed streams
and foreign directories. Without the hypothesis on
process deaths this is false: a thread publishes a file that another has just
truncated, and the process dies before the other thread has filled it.

### RangeMap

`RangeMapProofs` proves, for every address width (`AddressLimitAssumption`, also
evaluated by TLC) and every map that `IsRangeMap` describes:

| Theorem | Statement |
| --- | --- |
| `RetrieveRangeRight` | `RetrieveRange` is the set of the range that holds the address |
| `StoredDisjoint` | `Stored` takes a range map to a range map, when `CanStore` |
| `StoredResolves` | without shrink-down the new range resolves everywhere, all other addresses as before |

`IsRangeMap` (every range ends at its key, a lower key lies below the base of a
higher one) is the invariant of `StoreRange`: the empty map has it and
`StoredDisjoint` preserves it. It is what makes one `lower_bound` enough for a
look-up. `HighRight` shows that the overflow test of `StoreRange` rejects exactly
the sums that wrap; `ShrunkBaseRight`, that a shrunk range is not empty and starts
behind all it gives way to. `StoredResolves` has no counterpart with shrink-down:
there a range that contains the new one loses the addresses below it.

### Translate

`TranslateProofs` proves, for any dump that the reader accepts, any symbol files, any
limits on frames and any moments at which `symbol()` publishes:

| Theorem | Statement |
| --- | --- |
| `TranslateInv` | `Spec => []IndInv` |
| `TranslateTypes` | `Spec => []TypeOK` |
| `VerdictsAgree` | `Spec => []OneVerdict` |
| `CrashReported` | `Spec => []ReportsTheCrash` |
| `WalksBounded` | `StandardJobs /\ Spec => []WalkBounded` |

What the reader accepts is `JobsAssumption`, which TLC evaluates in the run: at most
one of each stream (`Minidump::Read` refuses a second one), no thread twice
(`MinidumpThreadList::Read` refuses that), contexts that were read whole, and modules
at addresses. The last is an assumption only because
`CodeModules` is a fold over the module list, about which nothing can be proved by
induction here.

`OneVerdict` speaks of frames and modules, but what makes it true is the symbolizer's
state: `SymbolsInv` says that no module is both in `no_symbol_modules_` and in the
resolver, `VerdictInv` that every module reported without symbols is in the former and
that every frame with a function is in a module of the latter. A publication changes
neither (`SymbolsGrow`: a look-up only adds to them). `ReportsTheCrash` speaks of
the end; `DoneThreadInv` and `ThisThreadInv` carry it through the loop: from the turn
of the thread that crashed on, `requesting` is the place in `threads_` of its stack,
or the next place while it is walked, and its first frame is at the program counter of
the exception. That no other thread takes `requesting` over needs that thread
identifiers are distinct.

`WalkBounded` says that a walk ends on any stack, also on one whose frames lead back
to each other, before it has more frames than the stack has bytes (bytes and not
words, since nothing keeps the stack pointer aligned). Its hypothesis `StandardJobs`
(evaluated by TLC as an assumption of `MCTranslate`) is what a process and its
compiler guarantee: a stack does not lie at the top of the address space, blocks of
memory do not overlap, a thread has at most one stack, CFI restores neither `sp` nor
`lr`, and finds the return address in `lr` or in a word below the .cfa. The argument
is `WalkInv`: `LoadedInv` (what the resolver holds came from a symbol file of this
dump), `PlacedInv` (the stack pointer of frame i, from the third on, lies at least
i - 3 bytes above the first word of the stack and below the highest .cfa whose return
address is in it, so that i is bounded) and `BoundInv` (the same of the stacks that
are finished). The first caller may be found through `lr`
alone with the stack pointer unchanged, hence the 2. `TerminateWalk` stops the walk
when the stack pointer does not grow; `CfaRight` and `FoundRight` show that CFI
evaluation, which wraps at 2^32, cannot make it grow out of the stack: the word at
the return address was read from the stack.

### MinidumpFileWriter

`MinidumpFileWriterProofs` proves, for every page size and width of the file position
(`FileWriterAssumption`) and every writer that `IsWriter` describes:

| Theorem | Statement |
| --- | --- |
| `AllocateInside` | `Allocate` reserves at least `n` bytes inside the file and takes a writer to a writer |
| `ObjectsApart` | an object copied into the space just allocated is there, and no object written before is changed |
| `EntryWritten` | an entry copied into a list touches neither the count nor another entry |

`IsWriter` (`position_` is at most `size_`, and aligned; the file is `size_` long) holds
for a new writer (`NewWriterRight`) and is preserved by `Allocate` and `Copy`. The
theorems about `Copy` ask that the position and the length do not wrap, since there the
check "the data will fit" is of no use: a failed allocation gives `kInvalidMDRVA`,
whose sum with a small length wraps to a small number, and the destructor's flush
goes to wherever the descriptor is (`FlushInvalid`). That is why `VisibleStreamsRead`
and `VisibleListsRead` exclude files whose growth has failed.

The second half of the module follows a sequence of calls: `Kept(x, y, top, lo, s)`
says that from the writer `x` to the writer `y` the file only grows, what lies between
`top` and `lo` stays as it is, and below `top` nothing is entered except at `s`.
Allocations keep everything (`AllocateStays`), a copy does so if it is `Harmless`
(above `lo`, or zeros or the object of `s` below `top`: `CopyStays`), and what is kept
by two calls is kept by both (`KeptFurther`).

### DumpFile

`DumpFileProofs` proves, for any number of threads, any scenarios and any behaviour of
the process:

| Theorem | Hypotheses | Statement |
| --- | --- | --- |
| `WriterInvHolds` | none | `Spec => []WriterInv` |
| `NobodyLeftStopped` | none | `Spec => []NoneLeftStopped` |
| `CrashContextSet` | nobody else traces the thread that crashed | `Spec => []ContextSet` |
| `DumpFailsForAReason` | nobody else traces the thread that crashed | `Spec => []FailsForAReason` |

A thread is resumed only if it is in the list of threads, and `ThreadsSuspend` removes
from that list while it goes through it. `StoppedInv` says that a stopped thread is
in the list, before the place where the loop is, and that `threads_suspended_` is set
after the loop. It needs that the list names no thread twice (`ListingRight`, by
counting the smaller ids; `RemoveAtRight`). `ContextInv` says that the thread that
crashed ends only with the process, so that it is dropped only from a dump of a
process that is dead, that in such a dump the loop over the threads ends at the first
thread that it cannot read, and so that whoever comes to the end of the loop has
come past the crash. The hypothesis is needed: with a tracer on the crashing thread
alone, the list of threads would not have it and the location would be written as the
constructor left it.

`FailsForAReason` says that a dump which could be written is written: it fails only if
the process died, the file could not grow, the path was taken or the crash was to be
left out. That it does not fail at the mappings rests on `MergedMappings` being in
closed form (a mapping is a run of lines from one that does not join the line before
to the next such line); TLC compares it with the loop of the code, line by line, on
sample files (`MergedByLine` in `MCDumpFile`).

It also proves, for any sizes, limits and contents:

| Theorem | Statement |
| --- | --- |
| `ContentInvHolds` | `Spec => []ContentInv` |
| `DumpTypesRight` | `Spec => []TypeOK` |
| `StacksReach` | `Spec => []StackReached` |

`TypeOK` says that what is allocated lies inside the file by which it has grown and
that the loops stay inside their lists. `StackReached` is about what the reader finds,
and a reader finds an object at any place where one was written, so `ContentInv` says
it of all objects: every object with the fields of a thread, wherever it lies on the
disk, names a stack that holds the word at its stack pointer, or is the chunk below it
(`InPiece`; `Holds` of the disk, `IsContent`
of what is copied; `Grows` is what every operation of the writer keeps). A damaged
object has no fields, so overwriting cannot spoil it. `LimitedRight` shows that a stack
that is cut is cut in chunks, so that the chunk with the stack pointer is the one
kept, or the one before it if the stack pointer is the first address of a chunk. `MemoryAssumption` (mappings end with a page, names are not empty) and
`LimitAssumption` (the limits are positive and at least a page) are evaluated by TLC.

`DumpLayoutProofs` proves, for any number of threads, libraries, memory blocks and
files, wherever the writer fails or is killed:

| Theorem | Hypotheses | Statement |
| --- | --- | --- |
| `StreamsWhole` | the file stays below the width of its positions | `Spec /\ []SmallFile => []VisibleStreamsRead` |

`VisibleStreamsRead` is what a crash report is worth after the writer was killed: the
thread list, the exception and the system information that the directory names are
whole, with the registers and stacks that the threads refer to. It is not inductive,
since it says nothing of a stream before its entry is written. The inductive invariant
is `LayoutInv`: as long as no allocation has failed, `Layout` holds. Its parts are that
the header and every entry of the directory are right and what they name lies between
the end of the directory and `Low` (`Table`, `IsWhole`); that a stream whose entry
is still in `dirent` is whole (at the places of `Entering`); that `Low` is the start of the
list in progress, or `position_` between two streams; that the entries of the thread
list written so far are whole, above the list, though the list itself is not yet in
the directory; and where the descriptor stands before the system information, whose
string may be flushed there. Each step then writes only above `Low` or one entry of the
directory, and enters a stream when it is whole (`EntryLaid`, `EnterLays`,
`LayoutNext`; one lemma per action). Where the disk is full (`room` is 0) nothing is written any more, so the
parts about what is in progress are asked only before that. `SmallFile` is needed
because a position is an `MDRVA` of fixed width whose largest value stands for none;
TLC finds it true in all states of `dump_file` and `dump_disk_full`, as it does
`LayoutInv`. `DirectoryAssumption` (the directory has an entry for each stream, and no
file that is copied has the type of one of the five) is evaluated by TLC; in the code it is
`kNumWriters` and the list of calls in `Dump`.

### Only model-checked

- Liveness, for fairness and ENABLED are out of the prover's reach:
  `CrashIsFatal`, `FaultIsFatal`, `LockIsGranted`, `CallReturns`, `CloneEnds`,
  `StoppedResumes` and `TranslationEnds`.
- What the folds compute for every input: `LoadMapFromMemory`, and with it
  `LookupRight` and `WalkIsChain`; `ModuleRanges` and the range map of the memory
  list, and with them `AddressResolves`, `RoundTrip` and `VisibleListsRead` (a list is
  read only if every entry can be stored in the map). This needs induction over
  sequences, which is out of the prover's reach too.

## 6. Plan

`PageAllocator` and `wasteful_vector`, then two requests on one handler.

Not modelled, with the reasons in `PROJECT.json`: the clients of other systems
(a large part of the sources), DWARF, STABS and ELF parsing, disassembly and
exploitability (functions of byte sequences without interaction, out of TLC's
reach), uploads (pure I/O), microdumps, core dumps and the crash-generation server
(not started by Breakpader).
