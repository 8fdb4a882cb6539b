------------------------------ MODULE DumpFile ------------------------------
(***************************************************************************)
(* What the minidump reader finds in the file that the minidump writer     *)
(* makes, at any moment of the writing.                                    *)
(***************************************************************************)
EXTENDS MinidumpWriter, MinidumpReader

\* The directory has entries for the five streams below, the files and the
\* libraries of the linker; no file is written as one of the five.
ASSUME DirectoryAssumption ==
    /\ 5 + Len(ProcFiles) < kNumWriters
    /\ \A i \in DOMAIN ProcFiles : ProcFiles[i].name \notin UniqueStreams

File == [length |-> w.length, disk |-> w.disk]

\* The crashing thread ends only with its process.
Died == thread[CrashThread] = "gone"

Tuple(S) == UNION {[1..n -> S] : n \in 0..Cardinality(S)}

\* The length of the list that the writer is going over.
LoopLength ==
    CASE pc \in {"suspend", "thread"} -> Len(threads)
      [] pc = "module" -> Len(Modules)
      [] pc \in {"enter_modules", "app"} -> Len(AppMemory)
      [] pc = "memory" -> Len(memory_blocks)
      [] pc \in {"enter_system", "enter_file", "file"} -> Len(ProcFiles)
      [] pc = "dso" -> Cardinality(loaded)
      [] OTHER -> next

\* The writer's loops stay inside their lists, what is allocated lies inside
\* the space by which Allocate has grown the file, and so does the context
\* that the exception stream will refer to.
TypeOK ==
    /\ thread \in [Tids -> {"absent", "running", "stopped", "gone"}]
    /\ loaded \subseteq Libraries
    /\ threads \in Tuple(Tids)
    /\ suspended \in BOOLEAN /\ faulty \in BOOLEAN
    /\ next \in 1..(LoopLength + 1)
    /\ \/ crashing_thread_context = Uninitialized
       \/ crashing_thread_context.rva + crashing_thread_context.size
            <= w.position
    /\ result \in {"none", "ok", "failed"}
    /\ w.position <= w.size
    /\ w.workaround \/ w.size <= w.length \/ ~w.open

Readable1(read) == read # {} /\ Damaged \notin read

ThreadReads(t) == /\ Readable1(t.context)
                  /\ t.stack.size > 0 => Readable1(t.memory)

\* Whether the directory names a stream of this type.
Shown(type) == Streams(File, type) # {}

\* Whenever the writer is stopped, each of these streams that the directory
\* names can be read and is whole, the registers and the stacks that the
\* threads refer to included: Dump enters a stream after it has written it.
\* On a file whose growth has not failed (a failed allocation is flushed over
\* whatever lies at the offset of the descriptor).
VisibleStreamsRead ==
    ~faulty =>
        /\ Shown("threads") =>
            \E l \in MinidumpThreadList(File) :
                \A i \in DOMAIN l : ThreadReads(l[i])
        /\ Shown("exception") => MinidumpException(File) # {}
        /\ Shown("system") => IsAndroid(File)

\* No module overlaps the one that is listed first, the executable.
MainApart ==
    \A i \in DOMAIN Modules :
        i = 1 \/ Modules[i].start + Modules[i].size <= Modules[1].start
        \/ Modules[1].start + Modules[1].size <= Modules[i].start

\* So can the lists that the reader puts into a range map, which refuses a
\* list with an entry that it cannot store.  The list of modules has one
\* exception: until the system stream is entered the reader does not know
\* that the dump is from Android and does not shrink ranges.  It still backs
\* a module out of the one before it, which the order of the addresses makes
\* enough for all but the first; when the load bias of that one takes it into
\* another module, the list of a writer killed in between is refused.
VisibleListsRead ==
    ~faulty =>
        /\ Shown("modules") /\ (Shown("system") \/ MainApart)
               => MinidumpModuleList(File) # {}
        /\ Shown("memory") => MinidumpMemoryList(File) # {}

\* The thread t of the dump is the thread of the process.
IsThread(t) ==
    /\ t.context = {[thread |-> t.thread, crashed |-> FromHandler(t.thread)]}
    /\ \/ scenario.skip /\ t.thread \notin scenario.refers
       \/ t.memory = {[start |-> t.stack.start, size |-> t.stack.size]}

\* The module m of the dump is that of the mapping.
IsModule(m, mapping) ==
    /\ m.name = {[name |-> mapping.name]}
    /\ m.id = {[id |-> l] : l \in {mapping.name} \ Unidentified}

\* If WriteMinidump reports success, the reader gives back the process: every
\* thread that was there all the time once, with its own registers and stack,
\* the modules, the memory, and the crash with the registers it happened in.
RoundTrip ==
    result = "ok" /\ ~Died =>
        /\ \E l \in MinidumpThreadList(File) :
            /\ [i \in DOMAIN l |-> l[i].thread] = threads
            /\ \A i \in DOMAIN l : IsThread(l[i])
            /\ \A t \in FirstThreads \ scenario.traced :
                    Present(t) => \E i \in DOMAIN l : l[i].thread = t
        /\ \E l \in MinidumpModuleList(File) :
            /\ Len(l.modules) = Len(Modules)
            /\ \A i \in DOMAIN Modules : IsModule(l.modules[i], Modules[i])
        /\ \E map \in MinidumpMemoryList(File) :
            \A i \in DOMAIN memory_blocks :
                RetrieveRange(map, memory_blocks[i].start) # {}
        /\ \E e \in MinidumpException(File) :
            /\ e.thread = CrashThread
            /\ MinidumpContext(File, e.context) =
                {[thread |-> CrashThread, crashed |-> scenario.context]}

\* The dump fails only for a reason: threads that end or start, libraries
\* that are loaded and other tracers, while the process is being listed and
\* stopped, do not make it fail.
FailsForAReason ==
    pc = "done" /\ result = "failed" =>
        \/ Died \/ faulty \/ scenario.exists
        \/ scenario.skip
           /\ ~(scenario.context /\ CrashThread \in scenario.refers)

\* Code addresses of the libraries that were listed resolve to these very
\* libraries, although their ranges are reported at the load bias and may
\* overlap, and the main module comes first.
AddressResolves ==
    result = "ok" /\ ~Died =>
        \A l \in MinidumpModuleList(File), i \in DOMAIN mappings :
            \A line \in IF mappings[i].name = NoName THEN {}
                        ELSE Segments[mappings[i].name] :
                line.exec =>
                \A a \in {line.start, line.start + line.size - 1} :
                    {m.name : m \in GetModuleForAddress(l, a)} =
                        {{[name |-> line.name]}}

\* The word at sp is in the piece that is kept of a stack, also of one that
\* is cut to keep the dump small.  There is one exception: a stack that is cut
\* and whose sp lies on the boundary of two chunks.  The comment in
\* FillThreadStack says "Skip empty chunks of length max_stack_len", but the
\* loop stops at the chunk that ends at sp and keeps that one, of which
\* nothing is in use.
StackReached ==
    result = "ok" /\ ~Died =>
        \A l \in MinidumpThreadList(File) : \A i \in DOMAIN l :
            LET kept == l[i].stack
                sp == Stack[l[i].thread].sp
            IN  kept.size > 0 =>
                /\ kept.start <= sp
                /\ \/ sp < kept.start + kept.size
                   \/ /\ sp = kept.start + kept.size
                      /\ kept.size = kLimitMaxExtraThreadStackLen
                      /\ sp % PageSize # 0

\* The location of the crash context, which the constructor leaves
\* uninitialized, has been set when it is written to the file.
ContextSet ==
    pc = "exception" => crashing_thread_context # Uninitialized

\* When the writer has ended, at whichever step, it has left no thread
\* stopped: the destructor resumes exactly the threads that are still in the
\* list, so no stopped thread may ever be dropped from it.
NoneLeftStopped == Ended => \A t \in Tids : thread[t] # "stopped"

\* A thread that is stopped goes on (or is gone) in the end, whether the dump
\* succeeds, fails in any of its steps or the writer is killed: the writer
\* always comes to its end, and ThreadsResume or the destructor detaches.
StoppedResumes ==
    \A t \in Tids : thread[t] = "stopped" ~> thread[t] # "stopped"
=============================================================================
