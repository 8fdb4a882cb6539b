--------------------------- MODULE MinidumpWriter ---------------------------
(***************************************************************************)
(* The process that writes a minidump (MinidumpWriter on a                 *)
(* LinuxPtraceDumper): list the threads, then the mappings, stop the       *)
(* threads one by one, open the file and write the streams one after the   *)
(* other, each entered in the directory, in a step of its own, when it is  *)
(* finished; resume the threads and close the file.  Until it is stopped   *)
(* the process goes on: threads start and end and libraries are loaded,    *)
(* also by a thread that was created after the list was made and is        *)
(* therefore never stopped.  The process may be killed, and so may the     *)
(* writer, at any time.                                                    *)
(***************************************************************************)
EXTENDS MinidumpFileWriter, Integers, Sequences, SequencesExt

CONSTANTS
    Tids,                   \* thread ids, natural numbers
    CrashThread,            \* dumper_->crash_thread()
    MainThread,             \* dumper_->pid_, the thread the process began as
    FirstThreads,           \* the threads there are when the dump begins
    Stack,                  \* tid -> [start, size, sp, ip]
    Libraries,              \* what may be loaded
    FirstLibraries,         \* what is loaded when the dump begins
    Segments,               \* library -> its lines of /proc/maps
    Bias,                   \* library -> start minus effective load bias
    Unidentified,           \* the libraries of whose file no id can be made
    EntryPoint,             \* auxv[AT_ENTRY]
    AppMemory,              \* sequence of [start, size]
    ProcFiles,              \* sequence of the files copied into the dump
    NameLength,             \* characters of a path
    kLimitBaseThreadCount, kLimitMaxExtraThreadStackLen,
    kLimitAverageThreadStackLength, kLimitMinidumpFudgeFactor,
    kStackToCapture,
    Scenarios               \* what is fixed for one dump, see Init

ASSUME WriterAssumption == /\ Tids \subseteq Nat /\ IsFiniteSet(Tids)
                           /\ CrashThread \in FirstThreads
                           /\ MainThread \in FirstThreads
                           /\ FirstThreads \subseteq Tids
                           /\ FirstLibraries \subseteq Libraries
                           /\ IsFiniteSet(Libraries)

\* A piece of memory; what is mapped ends at the end of a page.
IsBlock(b) == {"start", "size"} \subseteq DOMAIN b
              /\ b.start \in Nat /\ b.size \in Nat
EndsAPage(m) == (m.start + m.size) % PageSize = 0

ASSUME MemoryAssumption ==
    /\ \A t \in Tids : /\ IsBlock(Stack[t]) /\ EndsAPage(Stack[t])
                       /\ Stack[t].sp \in Nat /\ Stack[t].ip \in Nat
    /\ \A l \in Libraries :
        /\ l # NoName /\ Bias[l] \in Nat /\ IsFiniteSet(Segments[l])
        /\ \A line \in Segments[l] :
            /\ IsBlock(line) /\ EndsAPage(line) /\ line.name = l
            /\ {"name", "exec", "offset"} \subseteq DOMAIN line
    /\ AppMemory \in Seq(Range(AppMemory))
    /\ \A i \in DOMAIN AppMemory : IsBlock(AppMemory[i])
    /\ ProcFiles \in Seq(Range(ProcFiles))
    /\ \A i \in DOMAIN ProcFiles : ProcFiles[i].size \in Nat

ASSUME LimitAssumption ==
    /\ NameLength \in Nat /\ kLimitMaxExtraThreadStackLen \in Nat \ {0}
    /\ kStackToCapture \in Nat /\ PageSize <= kStackToCapture
    /\ \A s \in Scenarios : s.room \in Nat

VARIABLES
    scenario,   \* [context, fd, limit, skip, refers, traced, readable, exists]
    moves,      \* steps the process may still take (bounds the model)
    thread,     \* tid -> "absent", "running", "stopped" or "gone"
    loaded,     \* libraries in memory
    pc,         \* where the writer is
    next,       \* index of the loop the writer is in
    threads, mappings, suspended,           \* members of the dumper
    crash_address,
    w,                                      \* minidump_writer_
    dir, list,  \* positions of the directory and of the list being written
    dirent,     \* the local of Dump: the entry of the stream being written
    extra_thread_stack_len, memory_blocks, crashing_thread_context,
    dso_count,
    result,     \* what WriteMinidump returns
    faulty      \* an allocation in the file has failed

vars == <<scenario, moves, thread, loaded, pc, next, threads, mappings,
          suspended, crash_address, w, dir, list, dirent,
          extra_thread_stack_len, memory_blocks, crashing_thread_context,
          dso_count, result, faulty>>

process == <<scenario, moves, thread, loaded>>
dumper == <<threads, mappings, suspended>>
stream == <<dir, list, dirent, extra_thread_stack_len, memory_blocks,
            dso_count, crashing_thread_context, crash_address>>

Uninitialized == [size |-> 0, rva |-> kInvalidMDRVA]
kNumWriters == 13

Dirent(type, size, rva) == [type |-> type, size |-> size, rva |-> rva]
Unused == Dirent("unused", 0, 0)

Present(t) == thread[t] \in {"running", "stopped"}
Dead == \A t \in Tids : ~Present(t)

Init ==
    \E s \in Scenarios :
        /\ scenario = [context |-> s.context, fd |-> s.fd, limit |-> s.limit,
                       skip |-> s.skip, refers |-> s.refers,
                       traced |-> s.traced, readable |-> s.readable,
                       exists |-> s.exists]
        /\ moves = s.moves
        /\ w = NewWriter(s.bug, s.maxLength, s.room)
        /\ thread = [t \in Tids |->
                        IF t \in FirstThreads THEN "running" ELSE "absent"]
        /\ loaded = FirstLibraries
        /\ pc = "threads" /\ next = 1
        /\ threads = <<>> /\ mappings = <<>> /\ suspended = FALSE
        /\ dir = 0 /\ list = 0 /\ dirent = Unused
        /\ extra_thread_stack_len = -1
        /\ memory_blocks = <<>> /\ dso_count = 0
        /\ crashing_thread_context = Uninitialized
        /\ crash_address = IF s.context THEN "siginfo" ELSE "none"
        /\ result = "none" /\ faulty = FALSE

-----------------------------------------------------------------------------
\* The process.  The crashing thread waits in the signal handler.

Active == {t \in Tids \ {CrashThread} : thread[t] = "running"}

ThreadStarts(t) ==
    /\ thread[t] = "absent" /\ Active # {}
    /\ thread' = [thread EXCEPT ![t] = "running"]
    /\ UNCHANGED <<scenario, loaded, pc, next, dumper, w, stream, result,
                   faulty>>

ThreadExits(t) ==
    /\ t \in Active
    /\ thread' = [thread EXCEPT ![t] = "gone"]
    /\ UNCHANGED <<scenario, loaded, pc, next, dumper, w, stream, result,
                   faulty>>

LoadLibrary(l) ==
    /\ l \notin loaded /\ Active # {}
    /\ loaded' = loaded \cup {l}
    /\ UNCHANGED <<scenario, thread, pc, next, dumper, w, stream, result,
                   faulty>>

ProcessDies ==
    /\ ~Dead
    /\ thread' = [t \in Tids |->
                    IF Present(t) THEN "gone" ELSE thread[t]]
    /\ UNCHANGED <<scenario, loaded, pc, next, dumper, w, stream, result,
                   faulty>>

\* The kernel detaches the threads of a tracer that dies.
WriterKilled ==
    /\ pc \notin {"done", "killed"}
    /\ pc' = "killed"
    /\ thread' = [t \in Tids |->
                    IF thread[t] = "stopped" THEN "running" ELSE thread[t]]
    /\ UNCHANGED <<scenario, moves, loaded, next, dumper, w, stream, result,
                   faulty>>

-----------------------------------------------------------------------------
\* MinidumpWriter::Init

Exit == pc' = "exit" /\ result' = "failed"

\* A set of numbers in order: /proc/pid/task names every thread once, in the
\* order of the ids, and /proc/pid/maps has its lines in the order of the
\* addresses.
Listing(numbers) ==
    LET below(n) == {m \in numbers : m < n}
    IN  [i \in 1..Cardinality(numbers) |->
            CHOOSE n \in numbers : Cardinality(below(n)) = i - 1]

\* ReadAuxv and EnumerateThreads.
EnumerateThreads ==
    /\ pc = "threads"
    /\ IF Dead THEN Exit /\ UNCHANGED threads
       ELSE /\ threads' = Listing({t \in Tids : Present(t)})
            /\ pc' = "mappings" /\ UNCHANGED result
    /\ UNCHANGED <<process, next, mappings, suspended, w, stream, faulty>>

\* The lines of /proc/pid/maps, in order.
Maps ==
    LET stack(t) == [start |-> Stack[t].start, size |-> Stack[t].size,
                     name |-> NoName, exec |-> FALSE, offset |-> 0]
        lines == {stack(t) : t \in {u \in Tids : Present(u)}}
                    \cup UNION {Segments[l] : l \in loaded}
        order == Listing({line.start : line \in lines})
    IN  [i \in DOMAIN order |->
            CHOOSE line \in lines : line.start = order[i]]

\* A line and the one before it in the file, or the mapping that ends with
\* that one: adjacent lines of one file become one mapping.
Merges(m, line) ==
    /\ line.name # NoName /\ line.name = m.name
    /\ line.start = m.start + m.size
    /\ line.exec = m.exec \/ line.exec

\* The loop over the lines.  A mapping is executable if its last line is, so
\* whether a line joins the mapping before depends on the line before only: a
\* mapping is a run of lines from one that does not join to the next.
MergedMappings(lines) ==
    LET heads == {i \in DOMAIN lines :
                    i = 1 \/ ~Merges(lines[i - 1], lines[i])}
        head == Listing(heads)
        last(k) == lines[IF k = Len(head) THEN Len(lines)
                         ELSE head[k + 1] - 1]
    IN  [k \in DOMAIN head |->
            LET m == lines[head[k]]
            IN  [start |-> m.start,
                 size |-> last(k).start + last(k).size - m.start,
                 name |-> m.name, exec |-> last(k).exec,
                 offset |-> m.offset]]

MappingContains(m, address) == m.start <= address /\ address < m.start + m.size

\* The mapping with the entry point comes first.
EntryFirst(found) ==
    LET at == {i \in DOMAIN found : MappingContains(found[i], EntryPoint)}
    IN  IF at = {} THEN found
        ELSE LET i == CHOOSE i \in at : \A j \in at : i <= j
             IN  <<found[i]>> \o RemoveAt(found, i)

EnumerateMappings ==
    /\ pc = "mappings"
    /\ mappings' = IF Dead THEN <<>>
                   ELSE EntryFirst(MergedMappings(Maps))
    /\ IF mappings' = <<>> THEN Exit
       ELSE pc' = "suspend" /\ UNCHANGED result
    /\ next' = 1
    /\ UNCHANGED <<process, threads, suspended, w, stream, faulty>>

CanAttach(t) == thread[t] = "running" /\ t \notin scenario.traced

SuspendKeepsLost ==
    /\ pc = "suspend" /\ next <= Len(threads)
    /\ IF CanAttach(threads[next])
       THEN thread' = [thread EXCEPT ![threads[next]] = "stopped"]
       ELSE UNCHANGED thread
    /\ next' = next + 1
    /\ UNCHANGED <<scenario, moves, loaded, pc, threads, mappings,
                   suspended, w, stream, result, faulty>>

SuspendDropsPrevious ==
    /\ pc = "suspend" /\ next <= Len(threads)
    /\ IF CanAttach(threads[next])
       THEN /\ thread' = [thread EXCEPT ![threads[next]] = "stopped"]
            /\ next' = next + 1 /\ UNCHANGED threads
       ELSE /\ threads' = RemoveAt(threads, IF next = 1 THEN 1 ELSE next - 1)
            /\ UNCHANGED <<thread, next>>
    /\ UNCHANGED <<scenario, moves, loaded, pc, mappings, suspended, w, stream,
                   result, faulty>>

\* One turn of the loop of ThreadsSuspend: a thread that has ended, or that
\* somebody else traces, is dropped from the list.
SuspendThread ==
    /\ pc = "suspend" /\ next <= Len(threads)
    /\ IF CanAttach(threads[next])
       THEN /\ thread' = [thread EXCEPT ![threads[next]] = "stopped"]
            /\ next' = next + 1 /\ UNCHANGED threads
       ELSE threads' = RemoveAt(threads, next) /\ UNCHANGED <<thread, next>>
    /\ UNCHANGED <<scenario, moves, loaded, pc, mappings, suspended, w, stream,
                   result, faulty>>

ThreadsSuspended ==
    /\ pc = "suspend" /\ next > Len(threads)
    /\ suspended' = TRUE
    /\ IF threads = <<>> THEN Exit ELSE pc' = "open" /\ UNCHANGED result
    /\ UNCHANGED <<process, next, threads, mappings, w, stream, faulty>>

Attached(t) == thread[t] = "stopped"

BiasedKeepsSize(m) ==
    IF m.exec /\ m.name # NoName /\ Attached(MainThread)
    THEN [m EXCEPT !.start = @ - Bias[m.name]] ELSE m

\* LatePostprocessMappings: a library with packed relocations is reported at
\* its load bias.  Its ELF header is read from the memory of the process,
\* through the main thread: if that one is not attached, nothing is read.
Biased(m) ==
    IF m.exec /\ m.name # NoName /\ Attached(MainThread)
    THEN [m EXCEPT !.start = @ - Bias[m.name], !.size = @ + Bias[m.name]]
    ELSE m

\* LateInit, CrashingThreadReferencesPrincipalMapping, SetFile or Open.
LateInit ==
    /\ pc = "open"
    /\ mappings' = [i \in DOMAIN mappings |-> Biased(mappings[i])]
    /\ IF \/ scenario.skip
             /\ ~(scenario.context /\ CrashThread \in scenario.refers)
          \/ ~scenario.fd /\ scenario.exists
       THEN Exit /\ UNCHANGED w
       ELSE /\ w' = IF scenario.fd THEN SetFile(w) ELSE Open(w)
            /\ pc' = "header" /\ UNCHANGED result
    /\ UNCHANGED <<process, next, threads, suspended, stream, faulty>>

-----------------------------------------------------------------------------
\* MinidumpWriter::Dump.  A step that allocates either goes on with the
\* writer it leaves or fails with it.

GoOn(writer, where) ==
    w' = writer /\ pc' = where /\ UNCHANGED <<result, faulty>>
Fail(writer) == w' = writer /\ Exit /\ faulty' = TRUE

Entered(writer, index, entry) ==
    CopyIndex(writer, dir, index, SizeOf.dirent, entry)

\* The destructor of the list flushes its count.
FlushCount(writer, count) ==
    Copy(writer, list, SizeOf.count, [count |-> count])

\* A list of count entries, or its bare count.
ListBytes(count, size) == SizeOf.count + count * size

WriteHeader ==
    LET afterHeader == Allocate(w, SizeOf.header)
        dirBytes == kNumWriters * SizeOf.dirent
        header == [count |-> kNumWriters, dir |-> afterHeader.position]
    IN  /\ pc = "header"
        /\ dir' = afterHeader.position
        /\ IF ~CanAllocate(w, SizeOf.header)
           THEN Fail(FlushInvalid(w, SizeOf.header))
           ELSE IF ~CanAllocate(afterHeader, dirBytes)
           THEN Fail(Copy(afterHeader, w.position, SizeOf.header, Zeros))
           ELSE GoOn(Copy(Allocate(afterHeader, dirBytes), w.position,
                          SizeOf.header, header), "thread_list")
        /\ UNCHANGED <<process, next, dumper, list, dirent, memory_blocks,
                       extra_thread_stack_len, dso_count,
                       crashing_thread_context, crash_address>>

\* The space for a list of count entries; then the loop that fills it.
AllocateList(count, size, loop) ==
    /\ list' = w.position /\ next' = 1
    /\ IF CanAllocate(w, ListBytes(count, size))
       THEN GoOn(Allocate(w, ListBytes(count, size)), loop)
       ELSE Fail(FlushInvalid(w, SizeOf.count))

StartThreadList ==
    LET position == w.position + Reserved(w, ListBytes(Len(threads),
                                                       SizeOf.thread))
        estimate == position + kLimitMinidumpFudgeFactor
                    + Len(threads) * kLimitAverageThreadStackLength
    IN  /\ pc = "thread_list"
        /\ AllocateList(Len(threads), SizeOf.thread, "thread")
        /\ extra_thread_stack_len' =
                IF scenario.limit >= 0 /\ estimate > scenario.limit
                THEN kLimitMaxExtraThreadStackLen ELSE -1
        /\ UNCHANGED <<process, dumper, dir, dirent, memory_blocks, dso_count,
                       crashing_thread_context, crash_address>>

\* Data of the process as CopyFromProcess reads it through thread t.
Peek(t, data) == IF Attached(t) THEN data ELSE Zeros

FindMapping(address) ==
    {i \in DOMAIN mappings :
        /\ MappingContains(mappings[i], address)
        /\ \A j \in DOMAIN mappings :
                MappingContains(mappings[j], address) => i <= j}

\* GetStackInfo: from the bottom of the page of sp, at most kStackToCapture.
StackInfo(sp) ==
    LET page == sp - (sp % PageSize)
        rest(m) == m.start + m.size - page
    IN  {[start |-> page,
          size |-> IF rest(mappings[i]) > kStackToCapture
                   THEN kStackToCapture ELSE rest(mappings[i])] :
            i \in FindMapping(page)}

LimitedAtBottom(info, sp, max) ==
    IF max < 0 \/ info.size <= max THEN info
    ELSE [start |-> info.start, size |-> max]

\* Cut to max bytes: chunks that end below sp are skipped.
Limited(info, sp, max) ==
    IF max < 0 \/ info.size <= max THEN info
    ELSE [start |-> info.start
                    + (IF sp > info.start
                       THEN ((sp - info.start - 1) \div max) * max ELSE 0),
          size |-> max]

\* A piece of memory (if any), read through thread t, at the end of the file.
\* done: whether all went well so far, the writer, the descriptors.
WriteBlock(done, t, blocks) ==
    LET b == CHOOSE b \in blocks : TRUE
    IN  IF ~done.ok \/ blocks = {} THEN done
        ELSE IF ~CanAllocate(done.w, b.size)
        THEN [ok |-> FALSE, w |-> done.w, found |-> done.found]
        ELSE [ok |-> TRUE,
              w |-> Copy(Allocate(done.w, b.size), done.w.position, b.size,
                         Peek(t, [start |-> b.start, size |-> b.size])),
              found |-> Append(done.found,
                               [start |-> b.start, size |-> b.size,
                                rva |-> done.w.position])]

NothingYet == [ok |-> TRUE, w |-> w, found |-> <<>>]

\* FillThreadStack: what is written of the stack of t, if anything.
StackBlocks(t, max) ==
    IF scenario.skip /\ t \notin scenario.refers THEN {}
    ELSE {Limited(info, Stack[t].sp, max) : info \in StackInfo(Stack[t].sp)}

kIPMemorySize == 256

\* The memory around the crash address, inside its mapping.
IpBlocks ==
    LET ip == Stack[CrashThread].ip
        low(m) == IF m.start + kIPMemorySize \div 2 > ip THEN m.start
                  ELSE ip - kIPMemorySize \div 2
        high(m) == IF ip + kIPMemorySize \div 2 < m.start + m.size
                   THEN ip + kIPMemorySize \div 2 ELSE m.start + m.size
    IN  {[start |-> low(mappings[i]),
          size |-> high(mappings[i]) - low(mappings[i])] :
            i \in FindMapping(ip)}

FromHandlerNever(t) == FALSE

\* The crashing thread is found in the signal handler: its registers come
\* from the handler's context, those of the others are read now.
FromHandler(t) == t = CrashThread /\ scenario.context

MaxStackLen(t) ==
    IF ~FromHandler(t) /\ scenario.limit >= 0 /\ next > kLimitBaseThreadCount
    THEN extra_thread_stack_len ELSE -1

CrashContextOfHandler(t, context) ==
    IF FromHandler(t) THEN context ELSE crashing_thread_context

\* Both branches of the loop record where the context of the crash is.
CrashContext(t, context) ==
    IF t = CrashThread THEN context ELSE crashing_thread_context

\* One turn of the loop of WriteThreadListStream.
WriteThread ==
    LET t == threads[next]
        stack == StackBlocks(t, MaxStackLen(t))
        ip == IF FromHandler(t) THEN IpBlocks ELSE {}
        wrote == WriteBlock(WriteBlock(NothingYet, t, stack), t, ip)
        context == [size |-> SizeOf.context, rva |-> wrote.w.position]
        withContext == Copy(Allocate(wrote.w, SizeOf.context),
                            wrote.w.position, SizeOf.context,
                            [thread |-> t, crashed |-> FromHandler(t)])
        raw == [thread |-> t, context |-> context,
                stack |-> IF stack # {} THEN wrote.found[1]
                          ELSE [start |-> Stack[t].sp, size |-> 0,
                                rva |-> w.position]]
    IN  /\ pc = "thread" /\ next <= Len(threads)
        /\ IF ~FromHandler(t) /\ ~Attached(t)
           THEN /\ w' = FlushCount(w, Len(threads))
                /\ Exit /\ UNCHANGED <<next, stream, faulty>>
           ELSE IF ~wrote.ok
           THEN /\ Fail(FlushCount(wrote.w, Len(threads)))
                /\ UNCHANGED <<next, stream>>
           ELSE IF ~CanAllocate(wrote.w, SizeOf.context)
           THEN /\ Fail(FlushCount(FlushInvalid(wrote.w, SizeOf.context),
                                   Len(threads)))
                /\ UNCHANGED <<next, stream>>
           ELSE /\ GoOn(CopyIndexAfterObject(withContext, list, SizeOf.count,
                                next - 1, SizeOf.thread, raw), "thread")
                /\ next' = next + 1
                /\ memory_blocks' = memory_blocks \o wrote.found
                /\ crashing_thread_context' = CrashContext(t, context)
                /\ crash_address' = IF t = CrashThread /\ ~FromHandler(t)
                                    THEN "ip" ELSE crash_address
                /\ UNCHANGED <<dir, list, dirent, extra_thread_stack_len,
                               dso_count>>
        /\ UNCHANGED <<process, dumper>>

\* What a stream leaves when it is finished: its entry, in the local dirent.
\* Dump enters it in the directory in its next step.
Leaves(entry) ==
    /\ dirent' = entry
    /\ UNCHANGED <<dir, list, extra_thread_stack_len, memory_blocks, dso_count,
                   crashing_thread_context, crash_address>>

EndStreamUnflushed(type, count, size, where) ==
    /\ GoOn(w, where)
    /\ Leaves(Dirent(type, ListBytes(count, size), list))

\* The end of a list stream: its count is flushed.
EndStream(type, count, size, where) ==
    /\ GoOn(FlushCount(w, count), where)
    /\ Leaves(Dirent(type, ListBytes(count, size), list))

EndThreadList ==
    /\ pc = "thread" /\ next > Len(threads)
    /\ EndStream("threads", Len(threads), SizeOf.thread, "enter_threads")
    /\ UNCHANGED <<process, next, dumper>>

ShouldIncludeMapping(m) ==
    m.name # NoName /\ (m.offset = 0 \/ m.exec) /\ m.size >= 4096

Modules ==
    LET included == {i \in DOMAIN mappings : ShouldIncludeMapping(mappings[i])}
        order == Listing(included)
    IN  [k \in DOMAIN order |-> mappings[order[k]]]

StartModuleList ==
    /\ pc = "module_list"
    /\ AllocateList(Len(Modules), SizeOf.module, "module")
    /\ UNCHANGED <<process, dumper, dir, dirent, extra_thread_stack_len,
                   memory_blocks, dso_count, crashing_thread_context,
                   crash_address>>

\* FillRawModule: the build id if there is one, the path, then the entry of
\* the list.
WriteModule ==
    LET m == Modules[next]
        idSize == IF m.name \in Unidentified THEN 0 ELSE SizeOf.buildid
        withId == IF m.name \in Unidentified THEN w
                  ELSE Copy(Allocate(w, idSize), w.position, idSize,
                            [id |-> m.name])
        withName == WriteString(withId, NameLength, [name |-> m.name])
        raw == [start |-> m.start, size |-> m.size,
                cv |-> [size |-> idSize, rva |-> w.position],
                name |-> withId.position]
    IN  /\ pc = "module" /\ next <= Len(Modules)
        /\ IF m.name \notin Unidentified /\ ~CanAllocate(w, idSize)
           THEN Fail(FlushCount(w, Len(Modules))) /\ UNCHANGED next
           ELSE IF ~WriteStringOK(withId, NameLength)
           THEN Fail(FlushCount(withName, Len(Modules))) /\ UNCHANGED next
           ELSE /\ GoOn(CopyIndexAfterObject(withName, list, SizeOf.count,
                                next - 1, SizeOf.module, raw), "module")
                /\ next' = next + 1
        /\ UNCHANGED <<process, dumper, stream>>

EndModuleList ==
    /\ pc = "module" /\ next > Len(Modules)
    /\ EndStream("modules", Len(Modules), SizeOf.module, "enter_modules")
    /\ next' = 1
    /\ UNCHANGED <<process, dumper>>

\* One turn of the loop of WriteAppMemory.
WriteAppMemory ==
    LET wrote == WriteBlock(NothingYet, CrashThread, {AppMemory[next]})
    IN  /\ pc = "app" /\ next <= Len(AppMemory)
        /\ IF wrote.ok THEN GoOn(wrote.w, "app") ELSE Fail(wrote.w)
        /\ next' = next + 1
        /\ memory_blocks' = memory_blocks \o wrote.found
        /\ UNCHANGED <<process, dumper, dir, list, dirent, dso_count,
                       extra_thread_stack_len, crashing_thread_context,
                       crash_address>>

StartMemoryList ==
    /\ pc = "app" /\ next > Len(AppMemory)
    /\ AllocateList(Len(memory_blocks), SizeOf.memory, "memory")
    /\ UNCHANGED <<process, dumper, dir, dirent, extra_thread_stack_len,
                   memory_blocks, dso_count, crashing_thread_context,
                   crash_address>>

WriteMemory ==
    /\ pc = "memory" /\ next <= Len(memory_blocks)
    /\ GoOn(CopyIndexAfterObject(w, list, SizeOf.count, next - 1,
                            SizeOf.memory, memory_blocks[next]), "memory")
    /\ next' = next + 1
    /\ UNCHANGED <<process, dumper, stream>>

EndMemoryList ==
    /\ pc = "memory" /\ next > Len(memory_blocks)
    /\ EndStream("memory", Len(memory_blocks), SizeOf.memory, "enter_memory")
    /\ UNCHANGED <<process, next, dumper>>

\* A stream of one object at the end of the file, for which writer has the
\* space.
WriteObject(writer, type, size, data, where) ==
    /\ GoOn(Copy(writer, w.position, size, data), where)
    /\ Leaves(Dirent(type, size, w.position))

WriteExceptionStream ==
    /\ pc = "exception"
    /\ IF CanAllocate(w, SizeOf.exception)
       THEN WriteObject(Allocate(w, SizeOf.exception), "exception",
                        SizeOf.exception,
                        [thread |-> CrashThread, address |-> crash_address,
                         context |-> crashing_thread_context],
                        "enter_exception")
       ELSE Fail(FlushInvalid(w, SizeOf.exception)) /\ UNCHANGED stream
    /\ UNCHANGED <<process, next, dumper>>

\* A version string that cannot be written is left out.
WriteSystemInfoStream ==
    /\ pc = "system"
    /\ IF CanAllocate(w, SizeOf.system)
       THEN WriteObject(WriteString(Allocate(w, SizeOf.system), NameLength,
                                    [name |-> "uname"]),
                        "system", SizeOf.system, [platform |-> "android"],
                        "enter_system")
       ELSE Fail(FlushInvalid(w, SizeOf.system)) /\ UNCHANGED stream
    /\ next' = 1
    /\ UNCHANGED <<process, dumper>>

Readable(f) == f.name \in scenario.readable /\ (f.proc => ~Dead)

\* NullifyDirectoryEntry: a stream that could not be written is left out;
\* failed tells whether for want of space.
Nullify(writer, failed, where) ==
    /\ w' = writer
    /\ dirent' = Unused
    /\ faulty' = (faulty \/ failed)
    /\ pc' = where /\ UNCHANGED result

\* WriteFile or WriteProcFile.
WriteFile ==
    LET f == ProcFiles[next]
    IN  /\ pc = "file" /\ next <= Len(ProcFiles)
        /\ IF Readable(f) /\ CanAllocate(w, f.size)
           THEN WriteObject(Allocate(w, f.size), f.name, f.size,
                            [file |-> f.name], "enter_file")
           ELSE /\ Nullify(w, Readable(f), "enter_file")
                /\ UNCHANGED <<dir, list, extra_thread_stack_len,
                               memory_blocks, dso_count,
                               crashing_thread_context, crash_address>>
        /\ next' = next + 1
        /\ UNCHANGED <<process, dumper>>

\* WriteDSODebugStream, first pass: count the libraries of the linker, then
\* allocate an array for as many, if there are any.
CountDSOs ==
    LET count == Cardinality(loaded)
    IN  /\ pc = "file" /\ next > Len(ProcFiles)
        /\ IF ~Attached(CrashThread)
           THEN /\ Nullify(w, FALSE, "enter_dso")
                /\ UNCHANGED <<list, dso_count>>
           ELSE /\ dso_count' = count
                /\ list' = IF count > 0 THEN w.position ELSE kInvalidMDRVA
                /\ IF CanAllocate(w, count * SizeOf.linkmap)
                   THEN /\ GoOn(Allocate(w, count * SizeOf.linkmap), "dso")
                        /\ UNCHANGED dirent
                   ELSE Nullify(w, TRUE, "enter_dso")
        /\ next' = 1
        /\ UNCHANGED <<process, dumper, dir, extra_thread_stack_len,
                       memory_blocks, crashing_thread_context, crash_address>>

\* The second pass is as long as the list is by now.
MoreDSOs == dso_count > 0 /\ next <= Cardinality(loaded)

\* One turn of it: the name and the entry of the array.  A link_map that
\* cannot be read is the last one.
WriteDSO ==
    LET named == WriteString(w, NameLength, [name |-> "dso"])
    IN  /\ pc = "dso" /\ MoreDSOs
        /\ IF WriteStringOK(w, NameLength)
           THEN /\ GoOn(CopyIndex(named, list, next - 1, SizeOf.linkmap,
                                  [name |-> w.position]), "dso")
                /\ UNCHANGED dirent
           ELSE Nullify(named, TRUE, "enter_dso")
        /\ next' = IF Attached(CrashThread) THEN next + 1
                   ELSE Cardinality(loaded) + 1
        /\ UNCHANGED <<process, dumper, dir, list, extra_thread_stack_len,
                       memory_blocks, dso_count, crashing_thread_context,
                       crash_address>>

WriteDSODebugStream ==
    /\ pc = "dso" /\ ~MoreDSOs
    /\ IF CanAllocate(w, 2 * SizeOf.debug)
       THEN WriteObject(Allocate(w, 2 * SizeOf.debug), "dso",
                        2 * SizeOf.debug,
                        [map |-> list, count |-> dso_count], "enter_dso")
       ELSE /\ Nullify(FlushInvalid(w, SizeOf.debug), TRUE, "enter_dso")
            /\ UNCHANGED <<dir, list, extra_thread_stack_len, memory_blocks,
                           dso_count, crashing_thread_context, crash_address>>
    /\ UNCHANGED <<process, next, dumper>>

\* dir.CopyIndex(dir_index++, &dirent), after each of the streams.
Enter(from, index, where) ==
    /\ pc = from
    /\ GoOn(Entered(w, index, dirent), where)
    /\ UNCHANGED <<process, next, dumper, stream>>

EnterStream ==
    \/ Enter("enter_threads", 0, "module_list")
    \/ Enter("enter_modules", 1, "app")
    \/ Enter("enter_memory", 2, "exception")
    \/ Enter("enter_exception", 3, "system")
    \/ Enter("enter_system", 4, "file")
    \/ Enter("enter_file", next + 3, "file")
    \/ Enter("enter_dso", kNumWriters - 1, "resume")

-----------------------------------------------------------------------------
Resumed ==
    [t \in Tids |-> IF suspended /\ thread[t] = "stopped"
                       /\ \E i \in DOMAIN threads : threads[i] = t
                    THEN "running" ELSE thread[t]]

\* The end of Dump.
ThreadsResume ==
    /\ pc = "resume"
    /\ thread' = Resumed /\ suspended' = FALSE
    /\ result' = "ok" /\ pc' = "exit"
    /\ UNCHANGED <<scenario, moves, loaded, next, threads, mappings, w, stream,
                   faulty>>

\* ~MinidumpWriter, then ~MinidumpFileWriter.
Destroyed == IF scenario.fd THEN w ELSE Close(Close(w))

DestroyNoResume ==
    /\ pc = "exit"
    /\ w' = Destroyed
    /\ pc' = "done"
    /\ UNCHANGED <<process, next, dumper, stream, result, faulty>>

Destroy ==
    /\ pc = "exit"
    /\ w' = Destroyed
    /\ thread' = Resumed /\ suspended' = FALSE
    /\ pc' = "done"
    /\ UNCHANGED <<scenario, moves, loaded, next, threads, mappings, stream,
                   result, faulty>>

InitStep == EnumerateThreads \/ EnumerateMappings \/ SuspendThread
            \/ ThreadsSuspended \/ LateInit

DumpStep == WriteHeader
            \/ StartThreadList \/ WriteThread \/ EndThreadList
            \/ StartModuleList \/ WriteModule \/ EndModuleList
            \/ WriteAppMemory \/ StartMemoryList \/ WriteMemory
            \/ EndMemoryList \/ WriteExceptionStream
            \/ WriteSystemInfoStream \/ WriteFile \/ CountDSOs
            \/ WriteDSO \/ WriteDSODebugStream \/ EnterStream

WriterStep == InitStep \/ DumpStep \/ ThreadsResume \/ Destroy

\* What the process does when the writer has ended is of no interest.
Ended == pc \in {"done", "killed"}

ProcessStep ==
    /\ ~Ended /\ moves > 0 /\ moves' = moves - 1
    /\ \/ \E t \in Tids : ThreadStarts(t) \/ ThreadExits(t)
       \/ \E l \in Libraries : LoadLibrary(l)
       \/ ProcessDies

Rest == Ended /\ UNCHANGED vars

Next == WriterStep \/ WriterKilled \/ ProcessStep \/ Rest

Spec == Init /\ [][Next]_vars

\* The writer runs.  A WriterStep is enabled until the writer has ended, so
\* this is WF_vars(WriterStep) with that condition in place of ENABLED.
FairSpec == Spec /\ ([]<>Ended \/ []<><<WriterStep>>_vars)
=============================================================================
