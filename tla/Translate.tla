------------------------------ MODULE Translate -----------------------------
(***************************************************************************)
(* Breakpader.translate(): translate_crash_file reads a minidump, walks    *)
(* the stack of every thread (MinidumpProcessor::Process, Stackwalker::    *)
(* Walk) and reports the stack of the thread that crashed.  Meanwhile      *)
(* Breakpader.symbol() may publish symbol files in the directory that the  *)
(* translation takes its symbols from.                                     *)
(*                                                                         *)
(* job is what the translation is given: the minidump as the reader of     *)
(* MinidumpReader returns it (sets stand for what may be missing), and the *)
(* contents of the symbol files, which do not change once published.       *)
(***************************************************************************)
EXTENDS Stackwalker

CONSTANTS Jobs,                 \* see Init
          MAX_STACK_FRAME_NUM

AtMostOne(S) == \A x, y \in S : x = y

\* The registers of a context the reader accepts.
IsContext(context) ==
    /\ AtMostOne(context)
    /\ \A regs \in context : {"pc", "sp"} \subseteq DOMAIN regs

\* What the reader returns: at most one of each stream, every thread once, and
\* modules at addresses; what was published is a symbol file.
ASSUME JobsAssumption ==
    /\ MAX_STACK_FRAME_NUM \in Nat \ {0}
    /\ \A j \in Jobs :
        /\ j.store \subseteq DOMAIN j.records
        /\ DOMAIN CodeModules(j.modules, j.shrink) \subseteq Nat
        /\ AtMostOne(j.exception) /\ AtMostOne(j.threads)
        /\ \A e \in j.exception : IsContext(e.context)
        /\ \A list \in j.threads :
            /\ list \in Seq(Range(list))
            /\ \A i \in DOMAIN list : IsContext(list[i].context)
            /\ \A i, k \in DOMAIN list :
                    list[i].thread = list[k].thread => i = k

VARIABLES
    job,            \* [readable, exception, info, modules, shrink, regions,
                    \*  threads, records, store, words, chain]
    files,          \* LoadMapFromMemory of each symbol file
    store,          \* identifiers of the symbol files that are published
    pc,
    modules_,       \* process_state->modules_
    symbols,        \* the symbolizer and the resolver
    index,          \* thread_index, counted from 1
    requesting,     \* process_state->requesting_thread_, {} for -1
    threads_,       \* process_state->threads_
    without,        \* modules_without_symbols_
    corrupt,        \* modules_with_corrupt_symbols_
    frame,          \* the frame of Walk, {} for NULL
    stack,          \* the CallStack being made
    location,       \* where the scan is
    result          \* struct_translate_result

vars == <<job, files, store, pc, modules_, symbols, index, requesting,
          threads_, without, corrupt, frame, stack, location, result>>
input == <<job, files>>
walk == <<frame, stack, location>>
state == <<symbols, index, requesting, threads_, without, corrupt>>

EmptyResult == [crashed |-> FALSE, frames |-> <<>>]

Init ==
    /\ job \in Jobs
    /\ files = [id \in DOMAIN job.records |->
                    LoadMapFromMemory(job.records[id])]
    /\ store = job.store
    /\ pc = "read" /\ modules_ = EmptyMap /\ symbols = NoSymbols
    /\ index = 1 /\ requesting = {}
    /\ threads_ = <<>> /\ without = {} /\ corrupt = {}
    /\ frame = {} /\ stack = <<>> /\ location = 0
    /\ result = EmptyResult

ThreadList == CHOOSE list \in job.threads : TRUE

\* Minidump::Read, and Process up to the loop over the threads.
ReadDump ==
    /\ pc = "read"
    /\ modules_' = CodeModules(job.modules, job.shrink)
    /\ pc' = IF job.readable /\ job.threads # {} THEN "thread" ELSE "done"
    /\ UNCHANGED <<input, store, state, walk, result>>

\* The thread that wrote the dump, if the dump says so, is left out.
Skipped(t) == t.thread \in job.info.dump

RequestingThread ==
    IF job.exception # {} THEN {e.thread : e \in job.exception}
    ELSE job.info.requesting

\* The context of the exception, if it is valid, is that of the crash.
Context(t) ==
    LET ofCrash == UNION {e.context : e \in job.exception}
    IN  IF t.thread \in RequestingThread /\ ofCrash # {}
        THEN ofCrash ELSE t.context

\* The memory of the thread, else a region of the memory list.
StackMemory(t) ==
    IF t.memory # {} THEN t.memory
    ELSE {r \in job.regions :
            /\ t.start # 0 /\ r.start <= t.start
            /\ t.start < r.start + WordSize * Len(r.words)}

Memory == StackMemory(ThreadList[index])

RequestingAtIndex(t) ==
    IF t.thread \in RequestingThread THEN {index} ELSE requesting

\* Where the thread will be in threads_.
Requesting(t) ==
    IF t.thread \in RequestingThread THEN {Len(threads_) + 1} ELSE requesting

InThreadLoop == pc = "thread" /\ index <= Len(ThreadList)

SkipThreadStays ==
    /\ InThreadLoop /\ Skipped(ThreadList[index])
    /\ UNCHANGED vars

SkipThread ==
    /\ InThreadLoop /\ Skipped(ThreadList[index])
    /\ index' = index + 1
    /\ UNCHANGED <<input, store, pc, modules_, symbols, requesting, threads_,
                   without, corrupt, walk, result>>

\* No stack walker without a context: the stack has no frames.  (The reader
\* refuses a list with one thread twice, so there is never a second
\* requesting thread.)
ThreadWithoutContext ==
    LET t == ThreadList[index]
    IN  /\ InThreadLoop /\ ~Skipped(t) /\ Context(t) = {}
        /\ requesting' = Requesting(t)
        /\ threads_' = Append(threads_, [tid |-> t.thread, frames |-> <<>>])
        /\ index' = index + 1
        /\ UNCHANGED <<input, store, pc, modules_, symbols, without, corrupt,
                       walk, result>>

StartWalk ==
    LET t == ThreadList[index]
    IN  /\ InThreadLoop /\ ~Skipped(t) /\ Context(t) # {}
        /\ requesting' = Requesting(t)
        /\ frame' = {ContextFrame(r) : r \in Context(t)}
        /\ stack' = <<>> /\ pc' = "frame"
        /\ UNCHANGED <<input, store, modules_, symbols, index, threads_,
                       without, corrupt, location, result>>

\* The end of a walk: the stack is one of the process state.
EndWalk(frames) ==
    /\ threads_' = Append(threads_, [tid |-> ThreadList[index].thread,
                                     frames |-> frames])
    /\ index' = index + 1
    /\ frame' = {} /\ stack' = <<>> /\ pc' = "thread"

\* The first half of Walk's loop: symbols for the frame, then the frame goes
\* onto the stack.
SymbolizeFrame ==
    LET f == CHOOSE f \in frame : TRUE
        info == FillSourceLineInfo(symbols, modules_, store, files,
                                   f.instruction)
        pushed == Append(stack, Filled(f, info))
    IN  /\ pc = "frame"
        /\ symbols' = info.symbols
        /\ without' = IF info.result = "kError"
                      THEN without \cup info.module ELSE without
        /\ corrupt' = IF info.result = "kWarningCorruptSymbols"
                      THEN corrupt \cup info.module ELSE corrupt
        /\ IF Len(pushed) > max_frames THEN EndWalk(pushed)
           ELSE /\ stack' = pushed /\ frame' = {} /\ pc' = "caller"
                /\ UNCHANGED <<index, threads_>>
        /\ UNCHANGED <<input, modules_, store, requesting, location, result>>

First == Len(stack) = 1

\* The caller that was found becomes the next frame, unless the walk ends.
Found(caller) ==
    IF TerminateWalk(caller.regs, Last(stack).regs, First)
    THEN EndWalk(stack)
    ELSE /\ frame' = {NewFrame(caller)} /\ pc' = "frame"
         /\ UNCHANGED <<stack, index, threads_>>

ScanAllowed ==
    Cardinality({i \in DOMAIN stack : stack[i].trust = "SCAN"})
        < max_frames_scanned

\* GetCallerFrame: by CFI, else begin to scan the stack.
GetCallerFrame ==
    LET callers == UNION {CallerByCFI(symbols, Last(stack), memory) :
                          memory \in Memory}
    IN  /\ pc = "caller"
        /\ IF callers # {}
           THEN Found(CHOOSE c \in callers : TRUE) /\ UNCHANGED location
           ELSE IF Memory # {} /\ ScanAllowed
           THEN /\ location' = Last(stack).regs.sp /\ pc' = "scan"
                /\ UNCHANGED <<frame, stack, index, threads_>>
           ELSE EndWalk(stack) /\ UNCHANGED location
        /\ UNCHANGED <<input, modules_, store, symbols, requesting, without,
                       corrupt, result>>

\* One turn of the loop of ScanForReturnAddress.  Asking whether a word
\* looks like an address may load symbols.
ScanWord ==
    LET read == UNION {GetMemoryAtAddress(m, location) : m \in Memory}
        ip == CHOOSE v \in read : TRUE
        info == FillSourceLineInfo(symbols, modules_, store, files, ip)
        last == LastScanned(Last(stack).regs.sp, First)
    IN  /\ pc = "scan"
        /\ IF location > last \/ read = {}
           THEN EndWalk(stack) /\ UNCHANGED <<symbols, location>>
           ELSE /\ symbols' = info.symbols
                /\ IF SeemsValid(info)
                   THEN Found(CallerByScan(location, ip))
                        /\ UNCHANGED location
                   ELSE /\ location' = location + WordSize
                        /\ UNCHANGED <<frame, stack, index, threads_, pc>>
        /\ UNCHANGED <<input, modules_, store, requesting, without, corrupt,
                       result>>

\* fill_stack_frames.
Reported(f) ==
    [code_file |-> {m.code_file : m \in f.module},
     function |-> {s.name : s \in f.source},
     instruction |-> f.instruction,
     offset |->
        LET start == (CHOOSE m \in f.module : TRUE).start
            source == CHOOSE s \in f.source : TRUE
            line == CHOOSE l \in source.line : TRUE
        IN  IF f.module = {} THEN f.instruction
            ELSE IF f.source = {} THEN f.instruction - start
            ELSE IF source.line # {} /\ line.file
                 THEN f.instruction - (start + line.base)
            ELSE f.instruction - (start + source.base)]

FillAllFrames(frames) == [i \in DOMAIN frames |-> Reported(frames[i])]

FillStackFrames(frames) ==
    LET num == IF Len(frames) > MAX_STACK_FRAME_NUM
               THEN MAX_STACK_FRAME_NUM ELSE Len(frames)
    IN  [i \in 1..num |-> Reported(frames[i])]

\* The end of Process and of translate_crash_file.
Finish ==
    /\ pc = "thread" /\ index > Len(ThreadList)
    /\ result' = IF job.exception = {} THEN EmptyResult
                 ELSE [crashed |-> TRUE,
                       frames |-> IF requesting = {} THEN <<>>
                                  ELSE FillStackFrames(threads_[
                                        CHOOSE i \in requesting : TRUE
                                       ].frames)]
    /\ pc' = "done"
    /\ UNCHANGED <<input, modules_, store, state, walk>>

\* symbol() renames a finished file into the directory.
Publish(id) ==
    /\ pc # "done" /\ id \notin store
    /\ store' = store \cup {id}
    /\ UNCHANGED <<input, modules_, pc, state, walk, result>>

TranslateStep == ReadDump \/ SkipThread \/ ThreadWithoutContext \/ StartWalk
                 \/ SymbolizeFrame \/ GetCallerFrame \/ ScanWord \/ Finish

Rest == pc = "done" /\ UNCHANGED vars

Next == TranslateStep \/ (\E id \in DOMAIN job.records : Publish(id)) \/ Rest

Spec == Init /\ [][Next]_vars

\* The thread that called translate() runs.
FairSpec == Spec /\ WF_vars(TranslateStep)
-----------------------------------------------------------------------------
Stacks == {threads_[t].frames : t \in DOMAIN threads_} \cup {stack}
Frames == UNION {Range(s) : s \in Stacks}

\* Every frame has an instruction and a stack pointer, a module is never both
\* loaded and missing, and fill_stack_frames stays inside its array.
TypeOK ==
    /\ pc \in {"read", "thread", "frame", "caller", "scan", "done"}
    /\ store \subseteq DOMAIN job.records
    /\ Cardinality(requesting) <= 1
    /\ symbols.missing \cap DOMAIN symbols.loaded = {}
    /\ Cardinality(frame) <= 1 /\ (pc = "frame" => frame # {})
    /\ pc \in {"caller", "scan"} => stack # <<>>
    /\ \A f \in Frames : {"pc", "sp"} \subseteq DOMAIN f.regs
    /\ Len(result.frames) <= MAX_STACK_FRAME_NUM

\* The reported stack is that of the thread which the exception names and
\* begins with the registers of the exception, not those of the handler,
\* whatever other threads the dump has, lacks, or leaves out.
ReportsTheCrash ==
    pc = "done" /\ job.readable =>
        \A e \in job.exception, list \in job.threads : \A i \in DOMAIN list :
            list[i].thread = e.thread /\ ~Skipped(list[i]) =>
                \E s \in {threads_[j] : j \in DOMAIN threads_} :
                    /\ s.tid = e.thread
                    /\ Context(list[i]) # {} => result.frames # <<>>
                    /\ \A j \in DOMAIN result.frames :
                            result.frames[j] = Reported(s.frames[j])
                    /\ \A c \in e.context : result.frames[1].instruction = c.pc

\* Within one translation a module either has symbols or it has none, even
\* if its file is published between two of its frames.
OneVerdict ==
    /\ \A f \in Frames : f.module \cap without # {} => f.source = {}
    /\ \A m \in without : m.code_file \notin DOMAIN symbols.loaded

\* What dumps and symbol files are when the dumped system has a stack in the
\* range of its registers and compilers wrote its CFI: the return address of
\* a function is in lr or lies below its .cfa, and there are rules for
\* neither sp nor lr.  words is as many as there are from the start of a
\* stack to a .cfa whose return address is in it.
Word == 0..(RegisterLimit - 1)
HoldsWords(context) ==
    \A regs \in context : \A name \in DOMAIN regs : regs[name] \in Word

End(m) == m.start + WordSize * Len(m.words)
StacksOf(j) ==
    j.regions \cup UNION {UNION {list[i].memory : i \in DOMAIN list} :
                            list \in j.threads}

IsStack(m, j) ==
    /\ m.start \in Nat /\ m.words \in Seq(Word) /\ Len(m.words) <= j.words
    /\ m.start + WordSize * (j.words + 1) <= RegisterLimit

StandardRule(name, rule, j) ==
    /\ name \notin {"sp", "lr"} /\ rule.add \in Nat
    /\ name = ".ra" =>
        \/ rule.reg = "lr" /\ ~rule.deref
        \/ /\ rule.reg = ".cfa" /\ rule.deref
           /\ rule.add + WordSize <= RegisterLimit
           /\ \A m \in StacksOf(j) :
                WordSize * Len(m.words) + (RegisterLimit - rule.add)
                    <= WordSize * (j.words + 1)

StandardRules(rules, j) ==
    \A name \in DOMAIN rules : StandardRule(name, rules[name], j)

StandardSymbols(m, j) ==
    /\ DOMAIN m.delta \subseteq 0..(AddressLimit - 1)
    /\ \A k \in DOMAIN m.initial : StandardRules(m.initial[k].entry.rules, j)
    /\ \A d \in DOMAIN m.delta : StandardRules(m.delta[d].rules, j)

StandardJob(j) ==
    /\ j.words \in Nat
    /\ \A m \in StacksOf(j) : IsStack(m, j)
    /\ \A r, s \in j.regions : r = s \/ End(r) <= s.start \/ End(s) <= r.start
    /\ \A list \in j.threads : \A i \in DOMAIN list :
            /\ AtMostOne(list[i].memory) /\ list[i].start \in Nat
            /\ HoldsWords(list[i].context)
    /\ \A e \in j.exception : HoldsWords(e.context)
    /\ \A id \in DOMAIN j.records :
            StandardSymbols(LoadMapFromMemory(j.records[id]), j)

StandardJobs ==
    /\ RegisterLimit \in Nat \ {0}
    /\ \A j \in Jobs : StandardJob(j)

\* Whatever is on the stack, a walk of such a dump makes no more frames than
\* its stack has bytes, the context's and one whose address was in a register:
\* the stack pointer grows, though it may be unaligned, and from the third
\* frame on it lies in the stack.  So max_frames, far above the bytes of a
\* captured stack, never ends a walk.
WalkBounded ==
    \A s \in Stacks : Len(s) <= 2 + WordSize * job.words

\* The answers from a symbol file are what the file means.
LookupRight ==
    pc = "done" =>
        \A m \in {x \in {job.modules[i] : i \in DOMAIN job.modules} :
                    x.code_file \in DOMAIN symbols.loaded} :
            LET loaded == symbols.loaded[m.code_file]
                records == job.records[CHOOSE id \in m.id : TRUE]
            IN  loaded.errors <= kMaxErrorsBeforeBailing =>
                \A a \in 0..(m.size - 1) :
                    {<<s.name, {l.line : l \in s.line}>> :
                        s \in LookupAddress(loaded, a)} = Meaning(records, a)

\* On the stack of a chain of calls, with the CFI of its functions, the walk
\* finds exactly these calls: each frame is in its function.
WalkIsChain ==
    pc = "done" /\ job.chain # <<>> =>
        \E s \in {threads_[i] : i \in DOMAIN threads_} :
            /\ \E e \in job.exception : s.tid = e.thread
            /\ [i \in DOMAIN s.frames |->
                    {x.name : x \in s.frames[i].source}] =
               [i \in DOMAIN job.chain |-> {job.chain[i]}]

\* Every translation ends.
TranslationEnds == <>(pc = "done")
=============================================================================
