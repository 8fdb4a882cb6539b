--------------------------- MODULE TranslateProofs --------------------------
(***************************************************************************)
(* Proofs about Translate for any dump, any symbol files and any moment of *)
(* publication: that the reported stack is that of the crash, and that a   *)
(* module has symbols in all of its frames or in none.                     *)
(***************************************************************************)
EXTENDS Translate, TLAPS, FiniteSetTheorems, NaturalsInduction,
        WellFoundedInduction

Walking == {"frame", "caller", "scan"}

IsSeq(s) == s \in Seq(Range(s))

\* A frame has a program counter and a stack pointer.
IsFrame(f) ==
    /\ f = [trust |-> f.trust, regs |-> f.regs, instruction |-> f.instruction,
            module |-> f.module, source |-> f.source]
    /\ {"pc", "sp"} \subseteq DOMAIN f.regs

\* The input, and where the loop over the threads is.
LoopInv ==
    /\ job \in Jobs
    /\ pc \in {"read", "thread", "done"} \cup Walking
    /\ store \subseteq DOMAIN job.records
    /\ DOMAIN modules_ \subseteq Nat
    /\ index \in Nat \ {0}
    /\ pc \in {"thread"} \cup Walking => job.threads # {}
    /\ pc \in Walking => index <= Len(ThreadList)

\* The stacks that were made and the one being made.
StackInv ==
    /\ IsSeq(stack)
    /\ IsSeq(threads_)
    /\ \A i \in DOMAIN threads_ : IsSeq(threads_[i].frames)
    /\ pc \in {"caller", "scan"} => stack # <<>>
    /\ frame = {} \/ \E f : frame = {f} /\ IsFrame(f)
    /\ pc = "frame" => frame # {}
    /\ \A f \in Frames : {"pc", "sp"} \subseteq DOMAIN f.regs

\* The verdict on a module's symbols is final.
SymbolsInv ==
    /\ symbols = [missing |-> symbols.missing, loaded |-> symbols.loaded]
    /\ symbols.missing \cap DOMAIN symbols.loaded = {}

\* The verdicts that were given are the symbolizer's.
VerdictInv ==
    /\ \A m \in without : m.code_file \in symbols.missing
    /\ \A f \in Frames :
            f.source # {} =>
                \A m \in f.module : m.code_file \in DOMAIN symbols.loaded

\* requesting is the place of a stack, which may not have been made yet.
RequestingInv ==
    \/ requesting = {}
    \/ \E r \in 1..(Len(threads_) + 1) :
            requesting = {r} /\ (pc \in Walking \/ r \in DOMAIN threads_)

\* Thread i of the dump is the one that the exception e names.
Crashed(e, i) ==
    ThreadList[i].thread = e.thread /\ ~Skipped(ThreadList[i])

\* The stack s begins where the crash happened.
BeginsAt(e, s) ==
    s # <<>> => \A c \in e.context : s[1].instruction = c.pc

\* Thread i of the dump has its stack at requesting.
HasStack(e, i) ==
    \E r \in DOMAIN threads_ :
        /\ requesting = {r}
        /\ threads_[r].tid = e.thread
        /\ Context(ThreadList[i]) # {} => threads_[r].frames # <<>>
        /\ BeginsAt(e, threads_[r].frames)

\* After its turn, the thread that crashed has its stack there.
DoneThreadInv ==
    job.threads # {} =>
    \A e \in job.exception, i \in DOMAIN ThreadList :
        Crashed(e, i) /\ i < index => HasStack(e, i)

\* During its turn, it will have it there.
ThisThreadInv ==
    \A e \in job.exception :
        pc \in Walking /\ Crashed(e, index) =>
            /\ requesting = {Len(threads_) + 1}
            /\ BeginsAt(e, stack)
            /\ stack = <<>> => \A f \in frame : \A c \in e.context :
                                    f.instruction = c.pc

CrashInv == RequestingInv /\ DoneThreadInv /\ ThisThreadInv

\* What is reported.
ResultInv ==
    /\ Len(result.frames) <= MAX_STACK_FRAME_NUM
    /\ ReportsTheCrash

IndInv == LoopInv /\ StackInv /\ SymbolsInv /\ VerdictInv /\ CrashInv
              /\ ResultInv

-----------------------------------------------------------------------------
\* A sequence is one of its elements.
LEMMA RangeSeq ==
    ASSUME NEW S, NEW s \in Seq(S)
    PROVE  IsSeq(s)
<1>1. /\ Len(s) \in Nat /\ DOMAIN s = 1..Len(s)
      /\ s = [i \in 1..Len(s) |-> s[i]]
  OBVIOUS
<1>2. \A i \in 1..Len(s) : s[i] \in Range(s)
  BY <1>1 DEF Range
<1>3. ASSUME NEW R, \A i \in 1..Len(s) : s[i] \in R PROVE s \in Seq(R)
  BY <1>1, <1>3
<1>4. s \in Seq(Range(s))
  BY <1>2, <1>3
<1> QED
  BY <1>4 DEF IsSeq

LEMMA EmptyIsSeq == IsSeq(<<>>) /\ DOMAIN <<>> = {}
<1>1. <<>> \in Seq({}) /\ DOMAIN <<>> = {}
  OBVIOUS
<1> QED
  BY <1>1, RangeSeq

\* The sequence s with one more element.
LEMMA AppendSeq ==
    ASSUME NEW s, IsSeq(s), NEW e
    PROVE  /\ IsSeq(Append(s, e))
           /\ Append(s, e) # <<>>
           /\ DOMAIN s = 1..Len(s) /\ Len(s) \in Nat
           /\ DOMAIN Append(s, e) = 1..(Len(s) + 1)
           /\ \A i \in 1..Len(s) : Append(s, e)[i] = s[i]
           /\ Append(s, e)[Len(s) + 1] = e
<1> DEFINE S == Range(s) \cup {e}
           a == Append(s, e)
<1>1. s \in Seq(S) /\ e \in S /\ s \in Seq(Range(s))
  BY DEF IsSeq
<1> HIDE DEF S
<1>2. /\ a \in Seq(S) /\ Len(a) = Len(s) + 1
      /\ \A i \in 1..Len(s) : a[i] = s[i]
      /\ a[Len(s) + 1] = e
      /\ Len(s) \in Nat /\ DOMAIN s = 1..Len(s) /\ DOMAIN a = 1..Len(a)
  BY <1>1
<1>3. IsSeq(a)
  BY <1>2, RangeSeq DEF a
<1>4. a # <<>>
  BY <1>2
<1> QED
  BY <1>2, <1>3, <1>4

\* Symbols that were found missing or loaded stay so.
Grown(old, new) ==
    /\ new = [missing |-> new.missing, loaded |-> new.loaded]
    /\ new.missing \cap DOMAIN new.loaded = {}
    /\ old.missing \subseteq new.missing
    /\ DOMAIN old.loaded \subseteq DOMAIN new.loaded

LEMMA SymbolsGrow ==
    ASSUME SymbolsInv, NEW m, NEW st, NEW fs
    PROVE  LET after == SymbolsAfter(symbols, m, st, fs)
           IN  /\ Grown(symbols, after)
               /\ m.code_file \in after.missing \cup DOMAIN after.loaded
<1> DEFINE after == SymbolsAfter(symbols, m, st, fs)
           loaded == LoadModule(symbols.loaded, m, st, fs)
<1>1. DOMAIN loaded = DOMAIN symbols.loaded \cup {m.code_file}
  BY DEF LoadModule
<1> HIDE DEF loaded
<1>2. CASE m.code_file \in symbols.missing \cup DOMAIN symbols.loaded
  BY <1>2 DEF SymbolsAfter, SymbolsInv, Grown
<1>3. CASE /\ m.code_file \notin symbols.missing \cup DOMAIN symbols.loaded
           /\ GetSymbolFile(m, st) = {}
  <2>1. after = [missing |-> symbols.missing \cup {m.code_file},
                 loaded |-> symbols.loaded]
    BY <1>3 DEF SymbolsAfter, SymbolsInv
  <2> QED
    BY <2>1, <1>3 DEF SymbolsInv, Grown
<1>4. CASE /\ m.code_file \notin symbols.missing \cup DOMAIN symbols.loaded
           /\ GetSymbolFile(m, st) # {}
  <2>1. after = [missing |-> symbols.missing, loaded |-> loaded]
    BY <1>4 DEF SymbolsAfter, SymbolsInv, loaded
  <2> QED
    BY <2>1, <1>1, <1>4 DEF SymbolsInv, Grown
<1> QED
  BY <1>2, <1>3, <1>4

\* An address has one module at most.
LEMMA OneModule ==
    ASSUME NEW map, DOMAIN map \subseteq Nat, NEW a,
           GetModule(map, a) # {}
    PROVE  \E m : GetModule(map, a) = {m}
<1>1. ASSUME NEW j \in RetrieveRange(map, a), NEW k \in RetrieveRange(map, a)
      PROVE  j = k
  BY <1>1 DEF RetrieveRange, LowerBound
<1>2. PICK k : k \in RetrieveRange(map, a)
  BY DEF GetModule
<1>3. GetModule(map, a) = {map[k].entry}
  BY <1>1, <1>2 DEF GetModule
<1> QED
  BY <1>3

\* What FillSourceLineInfo answers agrees with the symbols it leaves.
LEMMA FillRight ==
    ASSUME SymbolsInv, DOMAIN modules_ \subseteq Nat, NEW a
    PROVE  LET info == FillSourceLineInfo(symbols, modules_, store, files, a)
           IN  /\ Grown(symbols, info.symbols)
               /\ info.result = "kError" => \A m \in info.module :
                      m.code_file \in info.symbols.missing
               /\ info.source # {} => \A m \in info.module :
                      m.code_file \in DOMAIN info.symbols.loaded
<1> DEFINE info == FillSourceLineInfo(symbols, modules_, store, files, a)
           found == GetModule(modules_, a)
<1>1. CASE found = {}
  <2>1. info = [symbols |-> symbols, module |-> {}, source |-> {},
                result |-> "kError"]
    BY <1>1 DEF FillSourceLineInfo
  <2> QED
    BY <2>1 DEF SymbolsInv, Grown
<1>2. CASE found # {}
  <2>1. PICK m : found = {m}
    BY <1>2, OneModule
  <2>2. m = CHOOSE x \in found : TRUE
    BY <2>1
  <2> DEFINE after == SymbolsAfter(symbols, m, store, files)
             has == m.code_file \in DOMAIN after.loaded
  <2>3. /\ Grown(symbols, after)
        /\ m.code_file \in after.missing \cup DOMAIN after.loaded
    BY SymbolsGrow
  <2>4. /\ info.symbols = after /\ info.module = {m}
        /\ ~has => info.source = {}
        /\ info.result = "kError" => ~has
    BY <1>2, <2>1, <2>2 DEF FillSourceLineInfo
  <2> HIDE DEF after, info
  <2>5. /\ Grown(symbols, info.symbols)
        /\ info.result = "kError" => \A x \in info.module :
               x.code_file \in info.symbols.missing
        /\ info.source # {} => \A x \in info.module :
               x.code_file \in DOMAIN info.symbols.loaded
    BY <2>3, <2>4
  <2> QED
    BY <2>5 DEF info
<1> QED
  BY <1>1, <1>2

\* A caller has the registers of a frame.
LEMMA CFICaller ==
    ASSUME NEW y, NEW f, NEW memory, NEW c \in CallerByCFI(y, f, memory)
    PROVE  {"pc", "sp"} \subseteq DOMAIN c.regs
<1>1. PICK d : c = [trust |-> "CFI", regs |-> CallerRegs(d, f.regs)]
  BY DEF CallerByCFI
<1> QED
  BY <1>1 DEF CallerRegs

LEMMA ScanCaller ==
    ASSUME NEW at, NEW ip
    PROVE  {"pc", "sp"} \subseteq DOMAIN CallerByScan(at, ip).regs
BY DEF CallerByScan

LEMMA NewFrameRight ==
    ASSUME NEW c, {"pc", "sp"} \subseteq DOMAIN c.regs
    PROVE  IsFrame(NewFrame(c))
BY DEF NewFrame, IsFrame

\* The list of the threads, and the contexts and regions in it.
LEMMA ListRight ==
    ASSUME LoopInv, job.threads # {}
    PROVE  /\ job.threads = {ThreadList}
           /\ IsSeq(ThreadList)
           /\ \A i \in DOMAIN ThreadList : IsContext(ThreadList[i].context)
           /\ \A i, k \in DOMAIN ThreadList :
                  ThreadList[i].thread = ThreadList[k].thread => i = k
<1>1. ThreadList \in job.threads
  BY DEF ThreadList
<1>2. job \in Jobs
  BY DEF LoopInv
<1> HIDE DEF ThreadList
<1> QED
  BY <1>1, <1>2, JobsAssumption DEF AtMostOne, IsSeq

\* The contexts of an exception.
LEMMA ExceptionRight ==
    ASSUME LoopInv
    PROVE  /\ AtMostOne(job.exception)
           /\ \A e \in job.exception : IsContext(e.context)
BY JobsAssumption DEF LoopInv

\* There is one context at most.
LEMMA ContextRight ==
    ASSUME LoopInv, job.threads # {}, NEW i \in DOMAIN ThreadList
    PROVE  IsContext(Context(ThreadList[i]))
<1> DEFINE ofCrash == UNION {e.context : e \in job.exception}
<1>1. IsContext(ofCrash)
  BY ExceptionRight DEF IsContext, AtMostOne
<1> QED
  BY <1>1, ListRight DEF Context

\* One more stack: its frames are the only new ones.
LEMMA StackAdded ==
    ASSUME StackInv, NEW x, NEW s, IsSeq(s),
           threads_' = Append(threads_, [tid |-> x, frames |-> s]),
           stack' = <<>> \/ stack' = stack
    PROVE  /\ IsSeq(threads_') /\ IsSeq(stack')
           /\ \A i \in DOMAIN threads_' : IsSeq(threads_'[i].frames)
           /\ Frames' \subseteq Frames \cup {s[i] : i \in DOMAIN s}
<1> DEFINE new == [tid |-> x, frames |-> s]
<1>1. threads_' = Append(threads_, new) /\ new.frames = s
  OBVIOUS
<1> HIDE DEF new
<1>2. /\ IsSeq(threads_') /\ DOMAIN threads_ = 1..Len(threads_)
      /\ Len(threads_) \in Nat
      /\ DOMAIN threads_' = 1..(Len(threads_) + 1)
      /\ \A i \in 1..Len(threads_) : threads_'[i] = threads_[i]
      /\ threads_'[Len(threads_) + 1] = new
  BY <1>1, AppendSeq DEF StackInv
<1>3. IsSeq(stack')
  BY EmptyIsSeq DEF StackInv
<1>4. ASSUME NEW i \in DOMAIN threads_'
      PROVE  \/ threads_'[i] = new
             \/ i \in DOMAIN threads_ /\ threads_'[i] = threads_[i]
  BY <1>2
<1>5. \A i \in DOMAIN threads_' : IsSeq(threads_'[i].frames)
  BY <1>1, <1>4 DEF StackInv
<1>6. ASSUME NEW f \in Frames'
      PROVE  f \in Frames \cup {s[i] : i \in DOMAIN s}
  <2>1. PICK q \in Stacks' : f \in Range(q)
    BY DEF Frames
  <2>2. q \in Stacks \/ q = s \/ q = <<>>
    BY <1>1, <1>4 DEF Stacks
  <2>3. Range(<<>>) = {}
    BY EmptyIsSeq DEF Range
  <2> QED
    BY <2>1, <2>2, <2>3 DEF Frames, Range
<1> QED
  BY <1>2, <1>3, <1>5, <1>6

\* What the steps that look for a caller do.
LEMMA CallerShape ==
    ASSUME LoopInv, StackInv, GetCallerFrame \/ ScanWord
    PROVE  /\ UNCHANGED <<input, modules_, store, requesting, without, corrupt,
                          result>>
           /\ stack # <<>> /\ pc \in {"caller", "scan"}
           /\ \/ EndWalk(stack)
              \/ /\ \E g : IsFrame(g) /\ frame' = {g}
                 /\ pc' = "frame" /\ UNCHANGED <<stack, index, threads_>>
              \/ /\ pc' = "scan" /\ UNCHANGED <<frame, stack, index, threads_>>
           /\ \/ UNCHANGED symbols
              \/ \E a : symbols' = FillSourceLineInfo(symbols, modules_, store,
                                                      files, a).symbols
<1>1. ASSUME NEW c, {"pc", "sp"} \subseteq DOMAIN c.regs, Found(c)
      PROVE  \/ EndWalk(stack)
             \/ /\ \E g : IsFrame(g) /\ frame' = {g}
                /\ pc' = "frame" /\ UNCHANGED <<stack, index, threads_>>
  BY <1>1, NewFrameRight DEF Found
<1>2. CASE GetCallerFrame
  <2> DEFINE callers == UNION {CallerByCFI(symbols, Last(stack), memory) :
                               memory \in Memory}
             c == CHOOSE x \in callers : TRUE
  <2>1. callers # {} => {"pc", "sp"} \subseteq DOMAIN c.regs
    BY CFICaller
  <2>2. /\ pc = "caller"
        /\ IF callers # {} THEN Found(c)
           ELSE IF Memory # {} /\ ScanAllowed
           THEN pc' = "scan" /\ UNCHANGED <<frame, stack, index, threads_>>
           ELSE EndWalk(stack)
        /\ UNCHANGED <<input, modules_, store, symbols, requesting, without,
                       corrupt, result>>
    BY <1>2 DEF GetCallerFrame
  <2> HIDE DEF callers, c
  <2> QED
    BY <1>1, <2>1, <2>2 DEF StackInv
<1>3. CASE ScanWord
  <2> DEFINE read == UNION {GetMemoryAtAddress(m, location) : m \in Memory}
             ip == CHOOSE v \in read : TRUE
             info == FillSourceLineInfo(symbols, modules_, store, files, ip)
             last == LastScanned(Last(stack).regs.sp, First)
  <2>1. /\ pc = "scan"
        /\ \/ EndWalk(stack) /\ UNCHANGED symbols
           \/ symbols' = info.symbols /\ Found(CallerByScan(location, ip))
           \/ /\ symbols' = info.symbols
              /\ UNCHANGED <<frame, stack, index, threads_, pc>>
        /\ UNCHANGED <<input, modules_, store, requesting, without, corrupt,
                       result>>
    BY <1>3 DEF ScanWord
  <2>2. {"pc", "sp"} \subseteq DOMAIN CallerByScan(location, ip).regs
    BY ScanCaller
  <2> HIDE DEF read, ip, last
  <2> QED
    BY <1>1, <2>1, <2>2 DEF StackInv
<1> QED
  BY <1>2, <1>3

\* What the step that pushes a frame does.
LEMMA SymbolizeShape ==
    ASSUME LoopInv, StackInv, SymbolizeFrame
    PROVE  \E f, g, a :
             LET info == FillSourceLineInfo(symbols, modules_, store, files, a)
             IN  /\ pc = "frame" /\ frame = {f} /\ IsFrame(g)
                 /\ g.instruction = f.instruction
                 /\ g.module = info.module /\ g.source = info.source
                 /\ symbols' = info.symbols
                 /\ without' = IF info.result = "kError"
                               THEN without \cup info.module ELSE without
                 /\ \/ EndWalk(Append(stack, g))
                    \/ /\ stack' = Append(stack, g)
                       /\ frame' = {} /\ pc' = "caller"
                       /\ UNCHANGED <<index, threads_>>
                 /\ UNCHANGED <<input, modules_, store, requesting, result>>
<1>1. PICK f : frame = {f} /\ IsFrame(f) /\ pc = "frame"
  BY DEF SymbolizeFrame, StackInv
<1>2. f = CHOOSE x \in frame : TRUE
  BY <1>1
<1> DEFINE info == FillSourceLineInfo(symbols, modules_, store, files,
                                      f.instruction)
           g == Filled(f, info)
<1>3. IsFrame(g) /\ g.instruction = f.instruction
      /\ g.module = info.module /\ g.source = info.source
  BY <1>1 DEF IsFrame, Filled
<1>4. /\ symbols' = info.symbols
      /\ without' = IF info.result = "kError"
                    THEN without \cup info.module ELSE without
      /\ \/ EndWalk(Append(stack, g))
         \/ /\ stack' = Append(stack, g)
            /\ frame' = {} /\ pc' = "caller"
            /\ UNCHANGED <<index, threads_>>
      /\ UNCHANGED <<input, modules_, store, requesting, result>>
  BY <1>2 DEF SymbolizeFrame
<1> HIDE DEF g
<1> QED
  BY <1>1, <1>3, <1>4

-----------------------------------------------------------------------------
LEMMA LoopStep == IndInv /\ [Next]_vars => LoopInv'
<1> SUFFICES ASSUME IndInv, [Next]_vars PROVE LoopInv'
  OBVIOUS
<1> USE DEF IndInv, Walking
<1>1. ASSUME UNCHANGED <<job, store, pc, modules_, index>> PROVE LoopInv'
  BY <1>1 DEF LoopInv, ThreadList
<1>2. CASE UNCHANGED vars
  BY <1>1, <1>2 DEF vars
<1>3. CASE ReadDump
  <2>1. DOMAIN modules_' \subseteq Nat
    BY <1>3, JobsAssumption DEF ReadDump, LoopInv
  <2> QED
    BY <1>3, <2>1 DEF ReadDump, LoopInv, input, state
<1>4. CASE SkipThread \/ ThreadWithoutContext
  BY <1>4 DEF SkipThread, ThreadWithoutContext, InThreadLoop, LoopInv, input
<1>5. CASE StartWalk
  BY <1>5 DEF StartWalk, InThreadLoop, LoopInv, input, ThreadList
<1>6. ASSUME NEW s, EndWalk(s), pc \in Walking,
             UNCHANGED <<job, store, modules_>>
      PROVE  LoopInv'
  BY <1>6 DEF EndWalk, LoopInv
<1>7. CASE SymbolizeFrame
  <2>1. /\ pc = "frame" /\ UNCHANGED <<job, store, modules_>>
        /\ \/ \E s : EndWalk(s)
           \/ pc' = "caller" /\ UNCHANGED index
    BY <1>7, SymbolizeShape DEF input
  <2> QED
    BY <2>1, <1>6 DEF LoopInv, ThreadList
<1>8. CASE GetCallerFrame \/ ScanWord
  <2>1. /\ pc \in Walking /\ UNCHANGED <<job, store, modules_>>
        /\ \/ \E s : EndWalk(s)
           \/ pc' \in Walking /\ UNCHANGED index
    BY <1>8, CallerShape DEF input
  <2> QED
    BY <2>1, <1>6 DEF LoopInv, ThreadList
<1>9. CASE Finish
  BY <1>9 DEF Finish, LoopInv, input, state
<1>10. ASSUME NEW id \in DOMAIN job.records, Publish(id) PROVE LoopInv'
  BY <1>10 DEF Publish, LoopInv, input, state, ThreadList
<1> QED
  BY <1>2, <1>3, <1>4, <1>5, <1>7, <1>8, <1>9, <1>10
     DEF Next, TranslateStep, Rest

LEMMA StackStep == IndInv /\ [Next]_vars => StackInv'
<1> SUFFICES ASSUME IndInv, [Next]_vars PROVE StackInv'
  OBVIOUS
<1> USE DEF IndInv, Walking
<1>1. ASSUME UNCHANGED <<frame, stack, threads_>>,
             pc' \in {"caller", "scan"} => pc \in {"caller", "scan"},
             pc' = "frame" => pc = "frame"
      PROVE  StackInv'
  BY <1>1 DEF StackInv, Frames, Stacks
<1>2. CASE UNCHANGED vars
  BY <1>1, <1>2 DEF vars
<1>3. CASE ReadDump
  BY <1>1, <1>3 DEF ReadDump, state, walk
<1>4. CASE SkipThread
  BY <1>1, <1>4 DEF SkipThread, walk
<1>5. ASSUME NEW x, NEW s, IsSeq(s),
             threads_' = Append(threads_, [tid |-> x, frames |-> s]),
             stack' = <<>> \/ stack' = stack, frame' = {} \/ frame' = frame,
             pc' = "thread",
             \A i \in DOMAIN s : {"pc", "sp"} \subseteq DOMAIN s[i].regs
      PROVE  StackInv'
  <2>1. /\ IsSeq(threads_') /\ IsSeq(stack')
        /\ \A i \in DOMAIN threads_' : IsSeq(threads_'[i].frames)
        /\ Frames' \subseteq Frames \cup {s[i] : i \in DOMAIN s}
    BY <1>5, StackAdded
  <2>2. \A f \in Frames' : {"pc", "sp"} \subseteq DOMAIN f.regs
    BY <1>5, <2>1 DEF StackInv
  <2> QED
    BY <1>5, <2>1, <2>2 DEF StackInv
<1>6. CASE ThreadWithoutContext
  <2> QED
    BY <1>5, <1>6, EmptyIsSeq DEF ThreadWithoutContext, walk, InThreadLoop
<1>7. ASSUME NEW s, IsSeq(s), EndWalk(s),
             \A i \in DOMAIN s : {"pc", "sp"} \subseteq DOMAIN s[i].regs
      PROVE  StackInv'
  BY <1>5, <1>7 DEF EndWalk
<1>8. IsSeq(stack)
      /\ \A i \in DOMAIN stack : {"pc", "sp"} \subseteq DOMAIN stack[i].regs
  BY DEF StackInv, Frames, Stacks, Range
<1>9. CASE StartWalk
  <2>1. /\ index \in DOMAIN ThreadList /\ job.threads # {}
        /\ frame' = {ContextFrame(r) : r \in Context(ThreadList[index])}
        /\ Context(ThreadList[index]) # {}
        /\ stack' = <<>> /\ pc' = "frame" /\ UNCHANGED threads_
    <3>1. job.threads # {} /\ index \in Nat \ {0}
          /\ index <= Len(ThreadList)
      BY <1>9 DEF StartWalk, InThreadLoop, LoopInv
    <3>2. index \in DOMAIN ThreadList
      BY <3>1, ListRight DEF IsSeq
    <3> QED
      BY <1>9, <3>1, <3>2 DEF StartWalk
  <2>2. PICK r : /\ Context(ThreadList[index]) = {r}
                 /\ {"pc", "sp"} \subseteq DOMAIN r
    BY <2>1, ContextRight DEF IsContext, AtMostOne
  <2>3. frame' = {ContextFrame(r)} /\ IsFrame(ContextFrame(r))
    BY <2>1, <2>2 DEF ContextFrame, IsFrame
  <2>4. IsSeq(stack') /\ DOMAIN stack' = {}
    BY <2>1, EmptyIsSeq
  <2>5. Frames' \subseteq Frames
    BY <2>1, <2>4 DEF Frames, Stacks, Range
  <2> QED
    BY <2>1, <2>3, <2>4, <2>5 DEF StackInv
<1>10. CASE SymbolizeFrame
  <2>1. PICK g : /\ IsFrame(g)
                 /\ \/ EndWalk(Append(stack, g))
                    \/ /\ stack' = Append(stack, g)
                       /\ frame' = {} /\ pc' = "caller"
                       /\ UNCHANGED <<index, threads_>>
    BY <1>10, SymbolizeShape
  <2>2. /\ IsSeq(Append(stack, g)) /\ Append(stack, g) # <<>>
        /\ \A i \in DOMAIN Append(stack, g) :
              \/ Append(stack, g)[i] = g
              \/ i \in DOMAIN stack /\ Append(stack, g)[i] = stack[i]
    <3>1. /\ IsSeq(Append(stack, g)) /\ Append(stack, g) # <<>>
          /\ DOMAIN stack = 1..Len(stack) /\ Len(stack) \in Nat
          /\ DOMAIN Append(stack, g) = 1..(Len(stack) + 1)
          /\ \A i \in 1..Len(stack) : Append(stack, g)[i] = stack[i]
          /\ Append(stack, g)[Len(stack) + 1] = g
      BY <1>8, AppendSeq
    <3> DEFINE a == Append(stack, g)
    <3> HIDE DEF a
    <3>2. /\ IsSeq(a) /\ a # <<>>
          /\ \A i \in DOMAIN a : \/ a[i] = g
                                 \/ i \in DOMAIN stack /\ a[i] = stack[i]
      BY <3>1 DEF a
    <3> QED
      BY <3>2 DEF a
  <2> DEFINE a == Append(stack, g)
  <2> HIDE DEF a
  <2>3. \A i \in DOMAIN a : {"pc", "sp"} \subseteq DOMAIN a[i].regs
    BY <1>8, <2>1, <2>2 DEF IsFrame, a
  <2>4. CASE EndWalk(a)
    BY <1>7, <2>2, <2>3, <2>4 DEF a
  <2>5. CASE stack' = a /\ frame' = {} /\ pc' = "caller"
             /\ UNCHANGED threads_
    <3>1. IsSeq(stack') /\ stack' # <<>>
      BY <2>2, <2>5 DEF a
    <3>2. \A f \in Frames' : {"pc", "sp"} \subseteq DOMAIN f.regs
      BY <2>3, <2>5 DEF StackInv, Frames, Stacks, Range
    <3> QED
      BY <2>5, <3>1, <3>2 DEF StackInv
  <2> QED
    BY <2>1, <2>4, <2>5 DEF a
<1>11. CASE GetCallerFrame \/ ScanWord
  <2>1. \/ EndWalk(stack)
        \/ /\ \E g : IsFrame(g) /\ frame' = {g}
           /\ pc' = "frame" /\ UNCHANGED <<stack, threads_>>
        \/ /\ pc \in {"caller", "scan"} /\ pc' = "scan"
           /\ UNCHANGED <<frame, stack, threads_>>
    BY <1>11, CallerShape
  <2>2. ASSUME NEW g, IsFrame(g), frame' = {g}, pc' = "frame",
               UNCHANGED <<stack, threads_>>
        PROVE  StackInv'
    BY <2>2 DEF StackInv, Frames, Stacks
  <2> QED
    BY <1>1, <1>7, <1>8, <2>1, <2>2
<1>12. CASE Finish
  BY <1>1, <1>12 DEF Finish, state, walk
<1>13. ASSUME NEW id \in DOMAIN job.records, Publish(id) PROVE StackInv'
  BY <1>1, <1>13 DEF Publish, state, walk
<1> QED
  BY <1>2, <1>3, <1>4, <1>6, <1>9, <1>10, <1>11, <1>12, <1>13
     DEF Next, TranslateStep, Rest

\* The symbolizer's verdicts are final, and every frame has the verdict on
\* its module.
LEMMA VerdictStep == IndInv /\ [Next]_vars => SymbolsInv' /\ VerdictInv'
<1> SUFFICES ASSUME IndInv, [Next]_vars PROVE SymbolsInv' /\ VerdictInv'
  OBVIOUS
<1> USE DEF IndInv
<1>1. ASSUME Grown(symbols, symbols'),
             \A m \in without' : m \in without
                                 \/ m.code_file \in symbols'.missing,
             \A f \in Frames' :
                 f \in Frames \/ f.source = {} \/ \A m \in f.module :
                     m.code_file \in DOMAIN symbols'.loaded
      PROVE  SymbolsInv' /\ VerdictInv'
  BY <1>1 DEF Grown, SymbolsInv, VerdictInv
<1>2. Grown(symbols, symbols)
  BY DEF SymbolsInv, Grown
<1>3. ASSUME UNCHANGED <<symbols, without>>, Frames' \subseteq Frames
      PROVE  SymbolsInv' /\ VerdictInv'
  BY <1>1, <1>2, <1>3
<1>4. ASSUME UNCHANGED <<symbols, without, stack, threads_>>
      PROVE  SymbolsInv' /\ VerdictInv'
  BY <1>3, <1>4 DEF Frames, Stacks
<1>5. CASE UNCHANGED vars
  BY <1>4, <1>5 DEF vars
<1>6. CASE ReadDump \/ SkipThread \/ Finish
  BY <1>4, <1>6 DEF ReadDump, SkipThread, Finish, state, walk
<1>7. CASE ThreadWithoutContext
  <2>1. Frames' \subseteq Frames
    BY <1>7, StackAdded, EmptyIsSeq DEF ThreadWithoutContext, walk
  <2> QED
    BY <1>3, <1>7, <2>1 DEF ThreadWithoutContext
<1>8. CASE StartWalk
  <2>1. stack' = <<>> /\ UNCHANGED <<symbols, without, threads_>>
    BY <1>8 DEF StartWalk
  <2>2. Frames' \subseteq Frames
    BY <2>1, EmptyIsSeq DEF Frames, Stacks, Range
  <2> QED
    BY <1>3, <2>1, <2>2
<1>9. CASE SymbolizeFrame
  <2>1. PICK g, a :
            LET info == FillSourceLineInfo(symbols, modules_, store, files, a)
            IN  /\ g.module = info.module /\ g.source = info.source
                /\ symbols' = info.symbols
                /\ without' = IF info.result = "kError"
                              THEN without \cup info.module ELSE without
                /\ \/ EndWalk(Append(stack, g))
                   \/ stack' = Append(stack, g) /\ UNCHANGED threads_
    BY <1>9, SymbolizeShape
  <2> DEFINE info == FillSourceLineInfo(symbols, modules_, store, files, a)
             new == Append(stack, g)
  <2>2. /\ Grown(symbols, info.symbols)
        /\ info.result = "kError" => \A m \in info.module :
               m.code_file \in info.symbols.missing
        /\ info.source # {} => \A m \in info.module :
               m.code_file \in DOMAIN info.symbols.loaded
    BY FillRight DEF LoopInv
  <2>3. /\ g.module = info.module /\ g.source = info.source
        /\ symbols' = info.symbols
        /\ without' = IF info.result = "kError"
                      THEN without \cup info.module ELSE without
    BY <2>1
  <2> HIDE DEF info
  <2>4. /\ IsSeq(new)
        /\ \A i \in DOMAIN new : \/ new[i] = g
                                 \/ i \in DOMAIN stack /\ new[i] = stack[i]
    <3>1. /\ IsSeq(new)
          /\ DOMAIN stack = 1..Len(stack) /\ Len(stack) \in Nat
          /\ DOMAIN new = 1..(Len(stack) + 1)
          /\ \A i \in 1..Len(stack) : new[i] = stack[i]
          /\ new[Len(stack) + 1] = g
      BY AppendSeq DEF StackInv
    <3> HIDE DEF new
    <3> QED
      BY <3>1
  <2>5. EndWalk(new) \/ (stack' = new /\ UNCHANGED threads_)
    BY <2>1
  <2> HIDE DEF new
  <2>6. Range(new) \subseteq Frames \cup {g}
    BY <2>4 DEF Frames, Stacks, Range
  <2>7. Frames' \subseteq Frames \cup {g}
    <3>1. CASE EndWalk(new)
      <4>1. Frames' \subseteq Frames \cup {new[i] : i \in DOMAIN new}
        BY <2>4, <3>1, StackAdded DEF EndWalk
      <4> QED
        BY <2>6, <4>1 DEF Range
    <3>2. CASE stack' = new /\ UNCHANGED threads_
      BY <2>6, <3>2 DEF Frames, Stacks
    <3> QED
      BY <2>5, <3>1, <3>2
  <2>8. Grown(symbols, symbols')
    BY <2>2, <2>3
  <2>9. \A m \in without' : m \in without \/ m.code_file \in symbols'.missing
    BY <2>2, <2>3
  <2>10. g.source = {} \/ \A m \in g.module :
                              m.code_file \in DOMAIN symbols'.loaded
    BY <2>2, <2>3
  <2> QED
    BY <1>1, <2>7, <2>8, <2>9, <2>10
<1>10. CASE GetCallerFrame \/ ScanWord
  <2>1. /\ EndWalk(stack) \/ UNCHANGED <<stack, threads_>>
        /\ UNCHANGED without
    BY <1>10, CallerShape
  <2>2. Grown(symbols, symbols')
    BY <1>2, <1>10, CallerShape, FillRight DEF LoopInv
  <2>3. Frames' \subseteq Frames
    <3>1. CASE EndWalk(stack)
      <4>1. Frames' \subseteq Frames \cup {stack[i] : i \in DOMAIN stack}
        BY <3>1, StackAdded DEF EndWalk, StackInv
      <4> QED
        BY <4>1 DEF Frames, Stacks, Range
    <3>2. CASE UNCHANGED <<stack, threads_>>
      BY <3>2 DEF Frames, Stacks
    <3> QED
      BY <2>1, <3>1, <3>2
  <2> QED
    BY <1>1, <2>1, <2>2, <2>3
<1>11. ASSUME NEW id \in DOMAIN job.records, Publish(id)
       PROVE  SymbolsInv' /\ VerdictInv'
  BY <1>4, <1>11 DEF Publish, state, walk
<1> QED
  BY <1>5, <1>6, <1>7, <1>8, <1>9, <1>10, <1>11
     DEF Next, TranslateStep, Rest

\* Stacks that are added change nothing.
LEMMA StackKept ==
    ASSUME StackInv, UNCHANGED <<job, requesting>>, NEW e, NEW i,
           HasStack(e, i),
           UNCHANGED threads_ \/ \E s : threads_' = Append(threads_, s)
    PROVE  HasStack(e, i)'
<1>1. PICK r \in DOMAIN threads_ :
            /\ requesting = {r}
            /\ threads_[r].tid = e.thread
            /\ Context(ThreadList[i]) # {} => threads_[r].frames # <<>>
            /\ BeginsAt(e, threads_[r].frames)
  BY DEF HasStack
<1>2. r \in DOMAIN threads_' /\ threads_'[r] = threads_[r]
  <2>1. CASE UNCHANGED threads_
    BY <2>1
  <2>2. ASSUME NEW s, threads_' = Append(threads_, s)
        PROVE  r \in DOMAIN threads_' /\ threads_'[r] = threads_[r]
    <3>1. /\ DOMAIN threads_ = 1..Len(threads_) /\ Len(threads_) \in Nat
          /\ DOMAIN threads_' = 1..(Len(threads_) + 1)
          /\ \A k \in 1..Len(threads_) : threads_'[k] = threads_[k]
      BY <2>2, AppendSeq DEF StackInv
    <3> QED
      BY <3>1
  <2> QED
    BY <2>1, <2>2
<1>3. Context(ThreadList[i])' = Context(ThreadList[i])
  BY DEF Context, ThreadList, RequestingThread
<1> QED
  BY <1>1, <1>2, <1>3 DEF HasStack, BeginsAt

\* The thread that the exception names is the requesting one, and no other is.
LEMMA RequestingRight ==
    ASSUME LoopInv, NEW e \in job.exception, NEW t
    PROVE  Requesting(t) = IF t.thread = e.thread THEN {Len(threads_) + 1}
                           ELSE requesting
<1>1. RequestingThread = {e.thread}
  BY ExceptionRight DEF RequestingThread, AtMostOne
<1> QED
  BY <1>1 DEF Requesting

\* Its context is that of the exception, if there is one.
LEMMA CrashContext ==
    ASSUME LoopInv, NEW e \in job.exception, NEW t, t.thread = e.thread,
           NEW c \in e.context
    PROVE  Context(t) = {c}
<1>1. RequestingThread = {e.thread}
  BY ExceptionRight DEF RequestingThread, AtMostOne
<1>2. UNION {x.context : x \in job.exception} = {c}
  BY ExceptionRight DEF IsContext, AtMostOne
<1> QED
  BY <1>1, <1>2 DEF Context

LEMMA CrashStep == IndInv /\ [Next]_vars => CrashInv'
<1> SUFFICES ASSUME IndInv, [Next]_vars PROVE CrashInv'
  OBVIOUS
<1> USE DEF IndInv, Walking
<1>1. UNCHANGED job
  BY DEF Next, TranslateStep, Rest, ReadDump, SkipThread,
     ThreadWithoutContext, StartWalk, SymbolizeFrame, GetCallerFrame,
     ScanWord, Finish, Publish, vars, input
<1>2. /\ Len(threads_) \in Nat /\ DOMAIN threads_ = 1..Len(threads_)
      /\ index \in Nat \ {0}
  BY AppendSeq DEF StackInv, LoopInv
<1>3. /\ ThreadList' = ThreadList
      /\ \A e, i : Crashed(e, i)' <=> Crashed(e, i)
  BY <1>1 DEF ThreadList, Crashed, Skipped
<1>4. /\ DoneThreadInv <=>
            (job.threads # {} =>
             \A e \in job.exception, i \in DOMAIN ThreadList :
                 Crashed(e, i) /\ i < index => HasStack(e, i))
      /\ DoneThreadInv' <=>
            (job.threads # {} =>
             \A e \in job.exception, i \in DOMAIN ThreadList :
                 Crashed(e, i) /\ i < index' => HasStack(e, i)')
  BY <1>1, <1>3 DEF DoneThreadInv
<1>5. ASSUME UNCHANGED <<requesting, threads_, index>>,
             \/ pc \notin Walking /\ pc' \notin Walking
             \/ /\ pc \in Walking /\ pc' \in Walking /\ stack' = stack
                /\ frame' = frame \/ stack # <<>>
      PROVE  CrashInv'
  <2>1. RequestingInv'
    BY <1>5 DEF CrashInv, RequestingInv
  <2>2. DoneThreadInv'
    BY <1>1, <1>3, <1>4, <1>5, StackKept DEF CrashInv
  <2>3. ThisThreadInv'
    BY <1>1, <1>2, <1>3, <1>5 DEF CrashInv, ThisThreadInv, BeginsAt, Crashed
  <2> QED
    BY <2>1, <2>2, <2>3 DEF CrashInv
<1>6. CASE UNCHANGED vars
  BY <1>5, <1>6 DEF vars
<1>7. CASE ReadDump \/ Finish
  <2>1. /\ pc \notin Walking /\ pc' \notin Walking
        /\ UNCHANGED <<requesting, threads_, index>>
    BY <1>7 DEF ReadDump, Finish, state
  <2> QED
    BY <1>5, <2>1
<1>8. ASSUME NEW id \in DOMAIN job.records, Publish(id) PROVE CrashInv'
  BY <1>5, <1>8 DEF Publish, state, walk
<1>9. (pc = "thread" /\ index <= Len(ThreadList)) \/ pc \in Walking =>
          index \in DOMAIN ThreadList /\ job.threads # {}
  <2>1. ASSUME job.threads # {}, index <= Len(ThreadList)
        PROVE  index \in DOMAIN ThreadList
    BY <1>2, <2>1, ListRight DEF IsSeq
  <2> QED
    BY <2>1 DEF LoopInv
<1>10. CASE SkipThread
  <2>1. /\ pc = "thread" /\ index <= Len(ThreadList)
        /\ Skipped(ThreadList[index]) /\ index' = index + 1
        /\ pc' = pc /\ UNCHANGED <<requesting, threads_>>
    BY <1>10 DEF SkipThread, InThreadLoop
  <2>2. RequestingInv' /\ ThisThreadInv'
    BY <2>1 DEF CrashInv, RequestingInv, ThisThreadInv
  <2>3. ASSUME NEW e \in job.exception, NEW i \in DOMAIN ThreadList,
               job.threads # {}, Crashed(e, i), i < index'
        PROVE  HasStack(e, i)'
    <3>1. i # index
      BY <2>1, <2>3 DEF Crashed
    <3>2. i < index
      BY <1>2, <2>1, <2>3, <3>1, ListRight DEF IsSeq
    <3> QED
      BY <1>1, <1>4, <2>1, <2>3, <3>2, StackKept DEF CrashInv
  <2> QED
    BY <1>4, <2>2, <2>3 DEF CrashInv
<1>11. ASSUME job.threads # {}, index \in DOMAIN ThreadList,
              requesting' = Requesting(ThreadList[index]),
              NEW e \in job.exception, NEW i \in DOMAIN ThreadList,
              Crashed(e, i), i < index,
              UNCHANGED threads_ \/ \E s : threads_' = Append(threads_, s)
       PROVE  HasStack(e, i)'
  <2>1. ThreadList[index].thread # e.thread
    BY <1>2, <1>11, ListRight DEF Crashed
  <2>2. requesting' = requesting
    BY <1>11, <2>1, RequestingRight
  <2> QED
    BY <1>1, <1>4, <1>11, <2>2, StackKept DEF CrashInv
<1>12. ASSUME index \in DOMAIN ThreadList,
              requesting' = Requesting(ThreadList[index])
       PROVE  \/ requesting' = requesting
              \/ requesting' = {Len(threads_) + 1}
  BY <1>12 DEF Requesting
<1>13. CASE ThreadWithoutContext
  <2> DEFINE t == ThreadList[index]
             new == [tid |-> t.thread, frames |-> <<>>]
  <2>1. /\ pc = "thread" /\ index <= Len(ThreadList) /\ Context(t) = {}
        /\ requesting' = Requesting(t) /\ threads_' = Append(threads_, new)
        /\ index' = index + 1 /\ pc' = pc
    BY <1>13 DEF ThreadWithoutContext, InThreadLoop
  <2>2. index \in DOMAIN ThreadList /\ job.threads # {}
    BY <1>9, <2>1
  <2>3. /\ Len(threads_') = Len(threads_) + 1
        /\ Len(threads_) + 1 \in DOMAIN threads_'
        /\ threads_'[Len(threads_) + 1] = new
    <3> HIDE DEF new
    <3>1. /\ IsSeq(threads_')
          /\ DOMAIN threads_' = 1..(Len(threads_) + 1)
          /\ threads_'[Len(threads_) + 1] = new
      BY <2>1, AppendSeq DEF StackInv
    <3> QED
      BY <1>2, <3>1, AppendSeq
  <2>4. RequestingInv'
    BY <1>2, <1>12, <2>1, <2>2, <2>3 DEF CrashInv, RequestingInv
  <2>5. ThisThreadInv'
    BY <2>1 DEF ThisThreadInv
  <2>6. ASSUME NEW e \in job.exception, NEW i \in DOMAIN ThreadList,
               Crashed(e, i), i < index'
        PROVE  HasStack(e, i)'
    <3>1. CASE i = index
      <4>1. requesting' = {Len(threads_) + 1}
        BY <2>1, <2>6, <3>1, RequestingRight DEF Crashed
      <4>2. Context(ThreadList[i])' = {}
        BY <1>1, <1>3, <2>1, <3>1 DEF Context, RequestingThread
      <4> QED
        BY <2>3, <2>6, <3>1, <4>1, <4>2 DEF HasStack, BeginsAt, Crashed
    <3>2. CASE i # index
      <4>1. i < index
        BY <1>2, <2>1, <2>2, <2>6, <3>2, ListRight DEF IsSeq
      <4> QED
        BY <1>11, <2>1, <2>2, <2>6, <4>1
    <3> QED
      BY <3>1, <3>2
  <2> QED
    BY <1>4, <2>4, <2>5, <2>6 DEF CrashInv
<1>14. CASE StartWalk
  <2> DEFINE t == ThreadList[index]
  <2>1. /\ pc = "thread" /\ index <= Len(ThreadList) /\ Context(t) # {}
        /\ requesting' = Requesting(t)
        /\ frame' = {ContextFrame(r) : r \in Context(t)}
        /\ stack' = <<>> /\ pc' = "frame" /\ UNCHANGED <<threads_, index>>
    BY <1>14 DEF StartWalk, InThreadLoop
  <2>2. index \in DOMAIN ThreadList /\ job.threads # {}
    BY <1>9, <2>1
  <2>3. RequestingInv'
    BY <1>2, <1>12, <2>1, <2>2 DEF CrashInv, RequestingInv
  <2>4. DoneThreadInv'
    BY <1>4, <1>11, <2>1, <2>2
  <2>5. ASSUME NEW e \in job.exception, Crashed(e, index)
        PROVE  /\ requesting' = {Len(threads_) + 1}
               /\ \A f \in frame' : \A c \in e.context :
                      f.instruction = c.pc
    <3>1. t.thread = e.thread
      BY <2>5 DEF Crashed
    <3>2. requesting' = {Len(threads_) + 1}
      BY <2>1, <3>1, RequestingRight
    <3>3. ASSUME NEW f \in frame', NEW c \in e.context
          PROVE  f.instruction = c.pc
      BY <2>1, <3>1, <3>3, CrashContext DEF ContextFrame
    <3> QED
      BY <3>2, <3>3
  <2>6. ThisThreadInv'
    BY <1>1, <1>3, <2>1, <2>5 DEF ThisThreadInv, BeginsAt, Crashed
  <2> QED
    BY <2>3, <2>4, <2>6 DEF CrashInv
<1>15. ASSUME NEW s, s # <<>>, EndWalk(s), pc \in Walking,
              UNCHANGED requesting,
              \A e \in job.exception : Crashed(e, index) => BeginsAt(e, s)
       PROVE  CrashInv'
  <2> DEFINE new == [tid |-> ThreadList[index].thread, frames |-> s]
  <2>1. /\ threads_' = Append(threads_, new) /\ index' = index + 1
        /\ pc' = "thread"
    BY <1>15 DEF EndWalk
  <2>2. index \in DOMAIN ThreadList /\ job.threads # {}
    BY <1>9, <1>15
  <2>3. /\ Len(threads_') = Len(threads_) + 1
        /\ Len(threads_) + 1 \in DOMAIN threads_'
        /\ threads_'[Len(threads_) + 1] = new
    <3> HIDE DEF new
    <3>1. /\ IsSeq(threads_')
          /\ DOMAIN threads_' = 1..(Len(threads_) + 1)
          /\ threads_'[Len(threads_) + 1] = new
      BY <2>1, AppendSeq DEF StackInv
    <3> QED
      BY <1>2, <3>1, AppendSeq
  <2>4. RequestingInv'
    BY <1>2, <1>15, <2>3 DEF CrashInv, RequestingInv
  <2>5. ThisThreadInv'
    BY <2>1 DEF ThisThreadInv
  <2>6. ASSUME NEW e \in job.exception, NEW i \in DOMAIN ThreadList,
               Crashed(e, i), i < index'
        PROVE  HasStack(e, i)'
    <3>1. CASE i = index
      <4>1. requesting' = {Len(threads_) + 1} /\ BeginsAt(e, s)
        BY <1>15, <2>6, <3>1 DEF CrashInv, ThisThreadInv
      <4> QED
        BY <1>15, <2>3, <2>6, <3>1, <4>1 DEF HasStack, BeginsAt, Crashed
    <3>2. CASE i # index
      <4>1. i < index
        BY <1>2, <2>1, <2>2, <2>6, <3>2, ListRight DEF IsSeq
      <4>2. HasStack(e, i)
        BY <1>4, <2>2, <2>6, <4>1 DEF CrashInv
      <4> QED
        BY <1>1, <1>15, <2>1, <4>2, StackKept
    <3> QED
      BY <3>1, <3>2
  <2> QED
    BY <1>4, <2>4, <2>5, <2>6 DEF CrashInv
<1>16. CASE SymbolizeFrame
  <2>1. PICK f, g : /\ pc = "frame" /\ frame = {f}
                    /\ g.instruction = f.instruction
                    /\ \/ EndWalk(Append(stack, g))
                       \/ /\ stack' = Append(stack, g)
                          /\ frame' = {} /\ pc' = "caller"
                          /\ UNCHANGED <<index, threads_>>
                    /\ UNCHANGED requesting
    BY <1>16, SymbolizeShape
  <2> DEFINE s == Append(stack, g)
  <2>2. /\ s # <<>>
        /\ stack = <<>> => s[1] = g
        /\ stack # <<>> => s[1] = stack[1]
    <3>1. /\ s # <<>> /\ Len(stack) \in Nat /\ DOMAIN stack = 1..Len(stack)
          /\ \A i \in 1..Len(stack) : s[i] = stack[i]
          /\ s[Len(stack) + 1] = g
      BY AppendSeq DEF StackInv
    <3>2. stack = <<>> => Len(stack) = 0
      OBVIOUS
    <3>3. stack # <<>> => Len(stack) # 0
      BY DEF StackInv, IsSeq
    <3> HIDE DEF s
    <3> QED
      BY <3>1, <3>2, <3>3
  <2> HIDE DEF s
  <2>3. ASSUME NEW e \in job.exception, Crashed(e, index)
        PROVE  BeginsAt(e, s) /\ requesting = {Len(threads_) + 1}
    BY <2>1, <2>2, <2>3 DEF CrashInv, ThisThreadInv, BeginsAt
  <2>4. CASE EndWalk(s)
    BY <1>15, <2>1, <2>2, <2>3, <2>4
  <2>5. CASE stack' = s /\ pc' = "caller" /\ UNCHANGED <<index, threads_>>
    <3>1. RequestingInv'
      BY <2>1, <2>5 DEF CrashInv, RequestingInv
    <3>2. DoneThreadInv'
      BY <1>1, <1>4, <2>1, <2>5, StackKept DEF CrashInv
    <3>3. ThisThreadInv'
      BY <1>1, <1>3, <2>1, <2>2, <2>3, <2>5
         DEF ThisThreadInv, BeginsAt, Crashed
    <3> QED
      BY <3>1, <3>2, <3>3 DEF CrashInv
  <2> QED
    BY <2>1, <2>4, <2>5 DEF s
<1>17. CASE GetCallerFrame \/ ScanWord
  <2>1. /\ UNCHANGED requesting /\ stack # <<>> /\ pc \in Walking
        /\ \/ EndWalk(stack)
           \/ pc' \in Walking /\ UNCHANGED <<stack, index, threads_>>
    BY <1>17, CallerShape
  <2>2. \A e \in job.exception : Crashed(e, index) => BeginsAt(e, stack)
    BY <2>1 DEF CrashInv, ThisThreadInv
  <2> QED
    BY <1>5, <1>15, <2>1, <2>2
<1> QED
  BY <1>6, <1>7, <1>8, <1>10, <1>13, <1>14, <1>16, <1>17
     DEF Next, TranslateStep, Rest

\* What fill_stack_frames fills in.
LEMMA FillFrames ==
    ASSUME NEW s, IsSeq(s)
    PROVE  /\ Len(FillStackFrames(s)) <= MAX_STACK_FRAME_NUM
           /\ \A j \in DOMAIN FillStackFrames(s) :
                  FillStackFrames(s)[j] = Reported(s[j])
           /\ s # <<>> => /\ FillStackFrames(s) # <<>>
                          /\ 1 \in DOMAIN FillStackFrames(s)
<1> DEFINE num == IF Len(s) > MAX_STACK_FRAME_NUM
                  THEN MAX_STACK_FRAME_NUM ELSE Len(s)
           r == FillStackFrames(s)
<1>1. /\ Len(s) \in Nat /\ s # <<>> => Len(s) # 0
      /\ MAX_STACK_FRAME_NUM \in Nat \ {0}
  BY JobsAssumption DEF IsSeq
<1>2. /\ num \in Nat /\ num <= MAX_STACK_FRAME_NUM
      /\ s # <<>> => num # 0
  BY <1>1 DEF IsSeq
<1>3. r = [i \in 1..num |-> Reported(s[i])]
  BY DEF FillStackFrames
<1> HIDE DEF num, r
<1>4. DOMAIN r = 1..num /\ Len(r) = num
  BY <1>2, <1>3
<1>5. s # <<>> => r # <<>> /\ 1 \in DOMAIN r
  BY <1>2, <1>4
<1> QED
  BY <1>2, <1>3, <1>4, <1>5 DEF r

LEMMA ResultStep == IndInv /\ [Next]_vars => ResultInv'
<1> SUFFICES ASSUME IndInv, [Next]_vars PROVE ResultInv'
  OBVIOUS
<1> USE DEF IndInv, Walking
<1>1. ASSUME UNCHANGED result, pc' # "done" PROVE ResultInv'
  BY <1>1 DEF ResultInv, ReportsTheCrash
<1>2. CASE UNCHANGED vars
  <2>1. UNCHANGED <<job, pc, threads_, result>>
    BY <1>2 DEF vars
  <2>2. \A t : Skipped(t)' = Skipped(t) /\ Context(t)' = Context(t)
    BY <2>1 DEF Skipped, Context, RequestingThread
  <2> QED
    BY <2>1, <2>2 DEF ResultInv, ReportsTheCrash
<1>3. CASE ReadDump
  <2>1. CASE job.readable /\ job.threads # {}
    BY <1>1, <1>3, <2>1 DEF ReadDump
  <2>2. CASE ~(job.readable /\ job.threads # {})
    BY <1>3, <2>2 DEF ReadDump, input, ResultInv, ReportsTheCrash
  <2> QED
    BY <2>1, <2>2
<1>4. CASE SkipThread \/ ThreadWithoutContext \/ StartWalk
  BY <1>1, <1>4 DEF SkipThread, ThreadWithoutContext, StartWalk, InThreadLoop
<1>5. CASE SymbolizeFrame
  BY <1>1, <1>5, SymbolizeShape DEF EndWalk
<1>6. CASE GetCallerFrame \/ ScanWord
  BY <1>1, <1>6, CallerShape DEF EndWalk
<1>7. ASSUME NEW id \in DOMAIN job.records, Publish(id) PROVE ResultInv'
  BY <1>1, <1>7 DEF Publish
<1>8. CASE Finish
  <2>1. /\ pc = "thread" /\ index > Len(ThreadList) /\ job.threads # {}
        /\ UNCHANGED <<job, threads_, requesting>>
    BY <1>8 DEF Finish, input, state, LoopInv
  <2>2. job.threads = {ThreadList} /\ IsSeq(ThreadList)
    BY <2>1, ListRight
  <2> DEFINE F(r) == FillStackFrames(threads_[r].frames)
  <2>3. \/ result'.frames = <<>>
        \/ \E r \in requesting : result'.frames = F(r)
    <3>1. CASE job.exception = {}
      BY <1>8, <3>1 DEF Finish, EmptyResult
    <3>2. CASE job.exception # {} /\ requesting = {}
      BY <1>8, <3>2 DEF Finish
    <3>3. CASE job.exception # {} /\ requesting # {}
      <4>1. result'.frames = F(CHOOSE i \in requesting : TRUE)
        BY <1>8, <3>3 DEF Finish
      <4> QED
        BY <3>3, <4>1
    <3> QED
      BY <3>1, <3>2, <3>3
  <2>4. ASSUME NEW e \in job.exception, NEW i \in DOMAIN ThreadList,
               Crashed(e, i)
        PROVE  \E r \in DOMAIN threads_ :
                  /\ threads_[r].tid = e.thread
                  /\ result'.frames = F(r)
                  /\ Context(ThreadList[i]) # {} => threads_[r].frames # <<>>
                  /\ BeginsAt(e, threads_[r].frames)
    <3>1. i < index
      BY <2>1, <2>2, <2>4 DEF IsSeq, LoopInv
    <3>2. PICK r \in DOMAIN threads_ :
                /\ requesting = {r}
                /\ threads_[r].tid = e.thread
                /\ Context(ThreadList[i]) # {} => threads_[r].frames # <<>>
                /\ BeginsAt(e, threads_[r].frames)
      BY <2>1, <2>4, <3>1 DEF CrashInv, DoneThreadInv, HasStack
    <3>3. result'.frames = F(CHOOSE k \in requesting : TRUE)
      BY <1>8, <2>4, <3>2 DEF Finish
    <3> QED
      BY <3>2, <3>3
  <2>5. Len(result'.frames) <= MAX_STACK_FRAME_NUM
    <3>1. ASSUME result'.frames = <<>>
          PROVE  Len(result'.frames) <= MAX_STACK_FRAME_NUM
      BY <3>1, JobsAssumption
    <3>2. ASSUME NEW r \in requesting, result'.frames = F(r)
          PROVE  Len(result'.frames) <= MAX_STACK_FRAME_NUM
      <4>1. r \in DOMAIN threads_
        BY <2>1, <3>2 DEF CrashInv, RequestingInv
      <4>2. IsSeq(threads_[r].frames)
        BY <4>1 DEF StackInv
      <4> QED
        BY <3>2, <4>2, FillFrames
    <3> QED
      BY <2>3, <3>1, <3>2
  <2>6. ASSUME NEW e \in job.exception, NEW i \in DOMAIN ThreadList,
               Crashed(e, i)
        PROVE  \E j \in DOMAIN threads_ :
                  /\ threads_[j].tid = e.thread
                  /\ Context(ThreadList[i]) # {} => result'.frames # <<>>
                  /\ \A k \in DOMAIN result'.frames :
                        result'.frames[k] = Reported(threads_[j].frames[k])
                  /\ \A c \in e.context :
                        result'.frames[1].instruction = c.pc
    <3>1. PICK r \in DOMAIN threads_ :
                /\ threads_[r].tid = e.thread
                /\ result'.frames = F(r)
                /\ Context(ThreadList[i]) # {} => threads_[r].frames # <<>>
                /\ BeginsAt(e, threads_[r].frames)
      BY <2>4, <2>6
    <3>2. IsSeq(threads_[r].frames)
      BY DEF StackInv
    <3> DEFINE s == threads_[r].frames
    <3>3. /\ \A k \in DOMAIN F(r) : F(r)[k] = Reported(s[k])
          /\ s # <<>> => F(r) # <<>> /\ 1 \in DOMAIN F(r)
      BY <3>2, FillFrames
    <3> HIDE DEF F
    <3>4. ASSUME NEW c \in e.context
          PROVE  result'.frames[1].instruction = c.pc
      <4>1. Context(ThreadList[i]) = {c}
        BY <2>6, CrashContext DEF Crashed
      <4>2. s # <<>> /\ s[1].instruction = c.pc
        BY <3>1, <4>1 DEF BeginsAt
      <4>3. F(r)[1] = Reported(s[1])
        BY <3>3, <4>2
      <4>4. Reported(s[1]).instruction = s[1].instruction
        BY DEF Reported
      <4> QED
        BY <3>1, <4>2, <4>3, <4>4
    <3> QED
      BY <3>1, <3>3, <3>4
  <2>7. ReportsTheCrash'
    <3>1. \A t : Skipped(t)' = Skipped(t) /\ Context(t)' = Context(t)
      BY <2>1 DEF Skipped, Context, RequestingThread
    <3>2. \A e \in job.exception, list \in job.threads :
              \A i \in DOMAIN list :
                  list[i].thread = e.thread /\ ~Skipped(list[i]) =>
                      list = ThreadList /\ Crashed(e, i)
      BY <2>2 DEF Crashed
    <3> HIDE DEF F
    <3> QED
      BY <2>1, <2>6, <3>1, <3>2 DEF ReportsTheCrash
  <2> QED
    BY <2>5, <2>7 DEF ResultInv
<1> QED
  BY <1>2, <1>3, <1>4, <1>5, <1>6, <1>7, <1>8
     DEF Next, TranslateStep, Rest

-----------------------------------------------------------------------------
\* A translation that was just called.
LEMMA InitRight == Init => IndInv
<1> SUFFICES ASSUME Init PROVE IndInv
  OBVIOUS
<1> USE DEF Walking
<1>1. Frames = {}
  <2>1. Stacks = {<<>>}
    BY EmptyIsSeq DEF Init, Stacks
  <2>2. Range(<<>>) = {}
    BY EmptyIsSeq DEF Range
  <2> QED
    BY <2>1, <2>2 DEF Frames
<1>2. LoopInv
  <2>1. DOMAIN modules_ = {}
    BY DEF Init, EmptyMap
  <2> QED
    BY <2>1, JobsAssumption DEF Init, LoopInv
<1>3. StackInv
  BY <1>1, EmptyIsSeq DEF Init, StackInv
<1>4. SymbolsInv /\ VerdictInv
  BY <1>1 DEF Init, SymbolsInv, VerdictInv, NoSymbols
<1>5. RequestingInv /\ ThisThreadInv
  BY DEF Init, RequestingInv, ThisThreadInv
<1>6. DoneThreadInv
  <2>1. ASSUME job.threads # {} PROVE \A i \in DOMAIN ThreadList : ~(i < 1)
    BY <1>2, <2>1, ListRight DEF IsSeq
  <2> QED
    BY <2>1 DEF Init, DoneThreadInv
<1>7. ResultInv
  BY JobsAssumption DEF Init, ResultInv, ReportsTheCrash, EmptyResult
<1> QED
  BY <1>2, <1>3, <1>4, <1>5, <1>6, <1>7 DEF IndInv, CrashInv

\* The invariant holds throughout a translation, whatever the dump lacks and
\* whenever Breakpader.symbol() publishes a file.
THEOREM TranslateInv == Spec => []IndInv
<1>1. IndInv /\ [Next]_vars => IndInv'
  BY LoopStep, StackStep, VerdictStep, CrashStep, ResultStep DEF IndInv
<1> QED
  BY InitRight, <1>1, PTL DEF Spec

\* MinidumpProcessor::Process and translate_crash_file keep their types: at
\* most one requesting thread, registers to walk on from in every frame, and
\* fill_stack_frames never writes past stack_frames[MAX_STACK_FRAME_NUM].
THEOREM TranslateTypes == Spec => []TypeOK
<1>1. IndInv => TypeOK
  <2> SUFFICES ASSUME IndInv PROVE TypeOK
    OBVIOUS
  <2>1. ASSUME NEW S, S = {} \/ \E x : S = {x}
        PROVE  Cardinality(S) <= 1
    <3>1. Cardinality(S) = 0 \/ Cardinality(S) = 1
      BY <2>1, FS_EmptySet, FS_Singleton, Zenon
    <3> QED
      BY <3>1
  <2>2. Cardinality(requesting) <= 1 /\ Cardinality(frame) <= 1
    BY <2>1 DEF IndInv, CrashInv, RequestingInv, StackInv
  <2> QED
    BY <2>2 DEF IndInv, LoopInv, StackInv, SymbolsInv, ResultInv,
       Walking, TypeOK
<1> QED
  BY <1>1, TranslateInv, PTL

\* A module that once had no symbols (no_symbol_modules_ of
\* StackFrameSymbolizer) has none for the rest of the translation, even if
\* Breakpader.symbol() publishes its file between two of its frames.
THEOREM VerdictsAgree == Spec => []OneVerdict
<1>1. IndInv => OneVerdict
  <2> SUFFICES ASSUME IndInv PROVE OneVerdict
    OBVIOUS
  <2>1. \A m \in without : m.code_file \notin DOMAIN symbols.loaded
    BY DEF IndInv, VerdictInv, SymbolsInv
  <2> QED
    BY <2>1 DEF IndInv, VerdictInv, OneVerdict
<1> QED
  BY <1>1, TranslateInv, PTL

\* translate_crash_file reports the stack of the thread that the exception
\* names, from the registers of the exception on, wherever that thread is in
\* the list and whichever thread the processor leaves out.
THEOREM CrashReported == Spec => []ReportsTheCrash
<1>1. IndInv => ReportsTheCrash
  BY DEF IndInv, ResultInv
<1> QED
  BY <1>1, TranslateInv, PTL

-----------------------------------------------------------------------------
\* The walk is bounded.

HasWords(regs) == \A name \in DOMAIN regs : regs[name] \in Word

\* The symbols that are loaded are those of the files.
LoadedInv ==
    /\ files = [id \in DOMAIN job.records |->
                    LoadMapFromMemory(job.records[id])]
    /\ \A c \in DOMAIN symbols.loaded : \E id \in DOMAIN job.records :
            symbols.loaded[c] = LoadMapFromMemory(job.records[id])

\* The registers of frame i of a stack: lr is known in the first frame only,
\* and from the third on the stack pointer has grown and is in the stack.
Placed(f, i) ==
    /\ HasWords(f.regs)
    /\ i >= 2 => "lr" \notin DOMAIN f.regs
    /\ i >= 3 => \E m \in Memory :
            /\ m.start + WordSize + (i - 3) <= f.regs.sp
            /\ f.regs.sp < m.start + WordSize * (job.words + 1)

PlacedInv ==
    /\ pc \notin Walking => stack = <<>>
    /\ \A i \in DOMAIN stack : Placed(stack[i], i)
    /\ pc = "frame" => \A f \in frame : Placed(f, Len(stack) + 1)
    /\ pc = "scan" => location \in Nat

BoundInv ==
    \A i \in DOMAIN threads_ :
        Len(threads_[i].frames) <= 2 + WordSize * job.words

WalkInv == LoadedInv /\ PlacedInv /\ BoundInv

\* Addresses that are bounded have a greatest one.
LEMMA GreatestRight ==
    ASSUME NEW n \in Nat, NEW S \in SUBSET 0..(n - 1), S # {}
    PROVE  \E d \in S : \A other \in S : other <= d
<1> DEFINE T == {n - d : d \in S}
           less == OpToRel(<, Nat)
<1>1. T \subseteq Nat /\ T # {}
  OBVIOUS
<1>2. IsWellFoundedOn(less, Nat)
  BY NatLessThanWellFounded
<1>3. \A x, y \in Nat : <<x, y>> \in less <=> x < y
  BY DEF OpToRel
<1> HIDE DEF less
<1>4. PICK x \in T : \A y \in T : ~(<<y, x>> \in less)
  <2> HIDE DEF T
  <2> QED
    BY <1>1, <1>2, WFMin
<1>5. PICK d \in S : x = n - d
  OBVIOUS
<1>6. ASSUME NEW other \in S PROVE other <= d
  <2>1. n - other \in T /\ n - other \in Nat /\ x \in Nat
    BY <1>1
  <2>2. ~(n - other < x)
    BY <1>3, <1>4, <2>1
  <2> QED
    BY <1>5, <2>2
<1> QED
  BY <1>6

\* FindCFIFrameInfo makes its rules of those in the file.
LEMMA RulesRight ==
    ASSUME NEW m, NEW j, StandardSymbols(m, j), NEW a,
           NEW rules \in FindCFIFrameInfo(m, a)
    PROVE  StandardRules(rules, j)
<1> DEFINE deltas(base, name) ==
               {d \in DOMAIN m.delta : /\ base <= d /\ d <= a
                                       /\ name \in DOMAIN m.delta[d].rules}
           last(base, name) ==
               CHOOSE d \in deltas(base, name) :
                   \A other \in deltas(base, name) : other <= d
           names(k) == DOMAIN m.initial[k].entry.rules
                           \cup UNION {DOMAIN m.delta[d].rules :
                                       d \in DOMAIN m.delta}
           rule(k, name) ==
               IF deltas(m.initial[k].base, name) # {}
               THEN {m.delta[last(m.initial[k].base, name)].rules[name]}
               ELSE {m.initial[k].entry.rules[n] :
                       n \in DOMAIN m.initial[k].entry.rules \cap {name}}
           set(k) == {name \in names(k) : rule(k, name) # {}}
<1>1. PICK k \in RetrieveRange(m.initial, a) :
            rules = [name \in set(k) |-> CHOOSE e \in rule(k, name) : TRUE]
  BY DEF FindCFIFrameInfo
<1>2. k \in DOMAIN m.initial
  BY DEF RetrieveRange, LowerBound
<1>3. ASSUME NEW name, NEW e \in rule(k, name)
      PROVE  StandardRule(name, e, j)
  <2> DEFINE base == m.initial[k].base
             D == deltas(base, name)
  <2>1. CASE D # {}
    <3>1. D \in SUBSET (0..(AddressLimit - 1)) /\ AddressLimit \in Nat
      BY AddressLimitAssumption DEF StandardSymbols
    <3>2. \E d \in D : \A other \in D : other <= d
      <4> HIDE DEF D
      <4> QED
        BY <2>1, <3>1, GreatestRight
    <3>3. last(base, name) \in D
      <4> HIDE DEF D
      <4>1. last(base, name) = CHOOSE d \in D : \A other \in D : other <= d
        BY DEF D
      <4> QED
        BY <3>2, <4>1
    <3>4. e = m.delta[last(base, name)].rules[name]
      BY <1>3, <2>1
    <3> QED
      BY <3>3, <3>4 DEF StandardSymbols, StandardRules
  <2>2. CASE D = {}
    <3>1. /\ name \in DOMAIN m.initial[k].entry.rules
          /\ e = m.initial[k].entry.rules[name]
      BY <1>3, <2>2
    <3> QED
      BY <1>2, <3>1 DEF StandardSymbols, StandardRules
  <2> QED
    BY <2>1, <2>2
<1>4. ASSUME NEW name \in DOMAIN rules
      PROVE  StandardRule(name, rules[name], j)
  <2>1. rule(k, name) # {} /\ rules[name] = CHOOSE e \in rule(k, name) : TRUE
    BY <1>1, <1>4
  <2>2. rules[name] \in rule(k, name)
    <3> HIDE DEF rule
    <3> QED
      BY <2>1
  <2> QED
    BY <1>3, <2>2
<1> QED
  BY <1>4 DEF StandardRules

\* The bytes of two words make a word.
LEMMA JoinedRight ==
    ASSUME NEW low \in Nat, NEW high \in Nat, NEW k \in 1..3
    PROVE  Joined(low, high, k) \in Word
<1> DEFINE b == BytesLimit(k)
<1>1. b \in Nat \ {0}
  <2>1. ByteLimit \in Nat \ {0}
    BY WordAssumption
  <2>2. ASSUME NEW x \in Nat \ {0}, NEW y \in Nat \ {0}
        PROVE  x * y \in Nat \ {0}
    BY <2>2
  <2>3. /\ ByteLimit * ByteLimit \in Nat \ {0}
        /\ (ByteLimit * ByteLimit) * ByteLimit \in Nat \ {0}
    BY <2>1, <2>2
  <2>4. b \in {ByteLimit, ByteLimit * ByteLimit,
               (ByteLimit * ByteLimit) * ByteLimit}
    BY DEF BytesLimit
  <2> HIDE DEF b
  <2> QED
    BY <2>1, <2>3, <2>4
<1>2. RegisterLimit \in Nat \ {0}
  <2>1. ByteLimit \in Nat \ {0}
    BY WordAssumption
  <2>2. ASSUME NEW x \in Nat \ {0}, NEW y \in Nat \ {0}
        PROVE  x * y \in Nat \ {0}
    BY <2>2
  <2>3. ((ByteLimit * ByteLimit) * ByteLimit) * ByteLimit \in Nat \ {0}
    BY <2>1, <2>2
  <2> QED
    BY <2>3, WordAssumption
<1> HIDE DEF b
<1>3. ASSUME NEW d \in Nat \ {0}, NEW limit \in Nat \ {0}
      PROVE  (low \div d + (high % d) * (limit \div d)) % limit
                \in 0..(limit - 1)
  <2>1. low \div d \in Int /\ high % d \in Int /\ limit \div d \in Int
    BY <1>3
  <2>2. ASSUME NEW x \in Int, NEW y \in Int, NEW z \in Int
        PROVE  x + y * z \in Int
    BY <2>2
  <2>3. low \div d + (high % d) * (limit \div d) \in Int
    BY <2>1, <2>2
  <2>4. ASSUME NEW x \in Int PROVE x % limit \in 0..(limit - 1)
    BY <1>3, <2>4
  <2> QED
    BY <2>3, <2>4
<1> QED
  BY <1>1, <1>2, <1>3 DEF Joined, Word, b

\* What is read from a stack is a word, and as a whole in it.
LEMMA ReadRight ==
    ASSUME NEW j, NEW m, IsStack(m, j), j.words \in Nat, NEW a \in Nat,
           NEW v \in GetMemoryAtAddress(m, a)
    PROVE  /\ v \in Word /\ m.start <= a
           /\ a < m.start + WordSize * Len(m.words)
<1> DEFINE at == (a - m.start) \div WordSize + 1
           k == (a - m.start) % WordSize
<1>1. /\ m.start \in Nat /\ m.words \in Seq(Word)
      /\ Len(m.words) \in Nat
      /\ ~(a < m.start)
      /\ ~((a - m.start) + WordSize > WordSize * Len(m.words))
      /\ \/ k = 0 /\ v = m.words[at]
         \/ k # 0 /\ v = Joined(m.words[at], m.words[at + 1], k)
  BY DEF IsStack, GetMemoryAtAddress
<1>2. ASSUME NEW s \in Nat, NEW n \in Nat, s <= a,
             ~((a - s) + 4 > 4 * n)
      PROVE  /\ a < s + 4 * n /\ (a - s) \div 4 + 1 \in 1..n
             /\ (a - s) % 4 \in 0..3
             /\ (a - s) % 4 # 0 => (a - s) \div 4 + 2 \in 1..n
  BY <1>2, Z3
<1>3. /\ a < m.start + 4 * Len(m.words) /\ at \in 1..Len(m.words)
      /\ k \in 0..3
      /\ k # 0 => at + 1 \in 1..Len(m.words)
  <2> DEFINE s == m.start
             n == Len(m.words)
  <2>1. /\ s \in Nat /\ n \in Nat /\ s <= a
        /\ ~((a - s) + 4 > 4 * n)
    BY <1>1 DEF WordSize
  <2>2. at = (a - s) \div 4 + 1 /\ k = (a - s) % 4
    BY DEF WordSize
  <2> HIDE DEF s, n, at, k
  <2>3. /\ a < s + 4 * n /\ (a - s) \div 4 + 1 \in 1..n
        /\ (a - s) % 4 \in 0..3
        /\ (a - s) % 4 # 0 => (a - s) \div 4 + 2 \in 1..n
    BY <1>2, <2>1
  <2>4. (a - s) \div 4 + 2 = ((a - s) \div 4 + 1) + 1
    <3>1. ASSUME NEW x \in Int PROVE x \div 4 + 2 = (x \div 4 + 1) + 1
      BY <3>1
    <3> QED
      BY <2>1, <3>1
  <2>5. a < s + 4 * n /\ at \in 1..n /\ k \in 0..3
        /\ (k # 0 => at + 1 \in 1..n)
    BY <2>2, <2>3, <2>4
  <2> QED
    BY <2>5 DEF s, n
<1> HIDE DEF at, k
<1>4. ASSUME NEW i \in 1..Len(m.words) PROVE m.words[i] \in Word
  BY <1>1, <1>4
<1>5. v \in Word
  <2>1. CASE k = 0
    BY <1>1, <1>3, <1>4, <2>1
  <2>2. CASE k # 0
    <3>1. m.words[at] \in Word /\ m.words[at + 1] \in Word /\ k \in 1..3
      BY <1>3, <1>4, <2>2
    <3>2. m.words[at] \in Nat /\ m.words[at + 1] \in Nat
      BY <3>1 DEF Word
    <3> QED
      BY <1>1, <2>2, <3>1, <3>2, JoinedRight
  <2> QED
    BY <2>1, <2>2
<1> QED
  BY <1>1, <1>3, <1>5 DEF WordSize

\* A register plus a constant, or the word there.
LEMMA EvaluateRight ==
    ASSUME RegisterLimit \in Nat \ {0},
           NEW j, NEW m, IsStack(m, j), j.words \in Nat,
           NEW regs, HasWords(regs), NEW rule, rule.add \in Nat,
           NEW v \in Evaluate(rule, regs, m)
    PROVE  LET value == (regs[rule.reg] + rule.add) % RegisterLimit
           IN  /\ rule.reg \in DOMAIN regs /\ v \in Word
               /\ rule.deref => /\ m.start <= value
                                /\ value < m.start + WordSize * Len(m.words)
<1> DEFINE value == (regs[rule.reg] + rule.add) % RegisterLimit
<1>1. rule.reg \in DOMAIN regs
  BY DEF Evaluate
<1>2. regs[rule.reg] \in Nat
  BY <1>1 DEF HasWords, Word
<1>3. value \in Word /\ value \in Nat
  <2>1. ASSUME NEW x \in Nat, NEW b \in Nat \ {0}
        PROVE  x % b \in 0..(b - 1)
    OBVIOUS
  <2> DEFINE sum == regs[rule.reg] + rule.add
  <2>2. sum \in Nat
    BY <1>2
  <2> HIDE DEF sum
  <2>3. sum % RegisterLimit \in 0..(RegisterLimit - 1)
    BY <2>1, <2>2
  <2>4. value \in 0..(RegisterLimit - 1)
    BY <2>3 DEF sum
  <2> HIDE DEF value
  <2> QED
    BY <2>4 DEF Word
<1> HIDE DEF value
<1>4. v \in IF rule.deref THEN GetMemoryAtAddress(m, value) ELSE {value}
  BY <1>1 DEF Evaluate, value
<1>5. CASE rule.deref
  <2>1. v \in GetMemoryAtAddress(m, value)
    BY <1>4, <1>5
  <2> QED
    BY <1>1, <1>3, <2>1, ReadRight DEF value
<1>6. CASE ~rule.deref
  BY <1>1, <1>3, <1>4, <1>6
<1> QED
  BY <1>5, <1>6

\* A .cfa whose return address is in the stack.
InStack(cfa, m, j) ==
    m.start + WordSize <= cfa /\ cfa < m.start + WordSize * (j.words + 1)

\* A constant that stands for a negative one wraps once.
LEMMA WrapRight ==
    ASSUME NEW b \in Nat \ {0}, NEW cfa \in 0..(b - 1), NEW add \in Nat,
           add < b
    PROVE  \/ cfa + add < b /\ (cfa + add) % b = cfa + add
           \/ (cfa + add) % b = (cfa + add) - b
<1> DEFINE n == cfa + add
<1>1. n \in Nat /\ n < b + b
  OBVIOUS
<1> HIDE DEF n
<1>2. ASSUME n < b PROVE n % b = n
  BY <1>1, <1>2, Z3
<1>3. ASSUME b <= n PROVE n % b = n - b
  BY <1>1, <1>3, Z3
<1> QED
  BY <1>1, <1>2, <1>3 DEF n

LEMMA CfaRight ==
    ASSUME RegisterLimit \in Nat \ {0}, NEW j, j.words \in Nat,
           NEW m \in StacksOf(j), IsStack(m, j),
           NEW cfa \in Word, NEW rule, StandardRule(".ra", rule, j),
           rule.deref,
           LET value == (cfa + rule.add) % RegisterLimit
           IN  /\ m.start <= value
               /\ value < m.start + WordSize * Len(m.words)
    PROVE  InStack(cfa, m, j)
<1> DEFINE value == (cfa + rule.add) % RegisterLimit
           n == WordSize * Len(m.words)
           top == WordSize * (j.words + 1)
<1>1. /\ rule.add \in Nat /\ rule.add + WordSize <= RegisterLimit
      /\ n + (RegisterLimit - rule.add) <= top
  BY DEF StandardRule
<1>2. /\ m.start \in Nat /\ n \in Nat /\ top \in Nat /\ cfa \in Nat
      /\ m.start + top <= RegisterLimit /\ cfa < RegisterLimit
      /\ m.start <= value /\ value < m.start + n
  <2>1. Len(m.words) \in Nat
    BY DEF IsStack
  <2> QED
    BY <2>1 DEF IsStack, Word, WordSize
<1>3. \/ cfa + rule.add < RegisterLimit /\ value = cfa + rule.add
      \/ value = (cfa + rule.add) - RegisterLimit
  <2>1. rule.add < RegisterLimit /\ cfa \in 0..(RegisterLimit - 1)
    BY <1>1 DEF WordSize, Word
  <2> QED
    BY <1>1, <2>1, WrapRight
<1> HIDE DEF value, n, top
<1>4. ASSUME NEW b \in Nat, NEW add \in Nat, NEW c \in Nat, NEW s \in Nat,
             NEW k \in Nat, NEW t \in Nat, NEW x,
             add + 4 <= b, k + (b - add) <= t, s + t <= b, s <= x, x < s + k,
             x = c + add \/ x = (c + add) - b
      PROVE  s + 4 <= c /\ c < s + t
  BY <1>4
<1>5. m.start + WordSize <= cfa /\ cfa < m.start + top
  BY <1>1, <1>2, <1>3, <1>4 DEF WordSize
<1> QED
  BY <1>5 DEF InStack, top

\* FindCallerRegs finds words; without lr, it finds the return address in
\* the stack, below .cfa.
LEMMA FoundRight ==
    ASSUME RegisterLimit \in Nat \ {0}, NEW j, j.words \in Nat,
           NEW m \in StacksOf(j), IsStack(m, j),
           NEW rules, StandardRules(rules, j),
           NEW regs, HasWords(regs),
           NEW found \in FindCallerRegs(rules, regs, m)
    PROVE  /\ DOMAIN found = DOMAIN rules
           /\ {".cfa", ".ra"} \subseteq DOMAIN found
           /\ HasWords(found)
           /\ "lr" \notin DOMAIN regs => InStack(found[".cfa"], m, j)
<1> DEFINE withCfa(cfa) == [name \in DOMAIN regs \cup {".cfa"} |->
                              IF name = ".cfa" THEN cfa ELSE regs[name]]
           values(cfa) == [name \in DOMAIN rules \ {".cfa"} |->
                              Evaluate(rules[name], withCfa(cfa), m)]
<1>1. /\ {".cfa", ".ra"} \subseteq DOMAIN rules
      /\ \E cfa \in Evaluate(rules[".cfa"], regs, m) :
            /\ \A name \in DOMAIN rules \ {".cfa"} : values(cfa)[name] # {}
            /\ found = [name \in DOMAIN rules |->
                          IF name = ".cfa" THEN cfa
                          ELSE CHOOSE v \in values(cfa)[name] : TRUE]
  BY DEF FindCallerRegs
<1>2. PICK cfa \in Evaluate(rules[".cfa"], regs, m) :
            /\ \A name \in DOMAIN rules \ {".cfa"} : values(cfa)[name] # {}
            /\ found = [name \in DOMAIN rules |->
                          IF name = ".cfa" THEN cfa
                          ELSE CHOOSE v \in values(cfa)[name] : TRUE]
  BY <1>1
<1>3. \A name \in DOMAIN rules :
          rules[name].add \in Nat /\ StandardRule(name, rules[name], j)
  BY DEF StandardRules, StandardRule
<1>4. cfa \in Word
  BY <1>1, <1>2, <1>3, EvaluateRight
<1> DEFINE all == withCfa(cfa)
<1>5. /\ HasWords(all) /\ all[".cfa"] = cfa
      /\ DOMAIN all = DOMAIN regs \cup {".cfa"}
  BY <1>4 DEF HasWords
<1> HIDE DEF all
<1>6. ASSUME NEW name \in DOMAIN rules, name # ".cfa"
      PROVE  found[name] \in Evaluate(rules[name], all, m)
  <2>1. /\ Evaluate(rules[name], all, m) # {}
        /\ found[name] = CHOOSE v \in Evaluate(rules[name], all, m) : TRUE
    BY <1>2, <1>6 DEF all
  <2> QED
    BY <2>1
<1>7. found[".cfa"] = cfa /\ DOMAIN found = DOMAIN rules
  BY <1>1, <1>2
<1>8. HasWords(found)
  <2> SUFFICES ASSUME NEW name \in DOMAIN rules, name # ".cfa"
               PROVE  found[name] \in Word
    BY <1>4, <1>7 DEF HasWords
  <2> QED
    BY <1>3, <1>5, <1>6, EvaluateRight
<1>9. ASSUME "lr" \notin DOMAIN regs PROVE InStack(cfa, m, j)
  <2> DEFINE ra == rules[".ra"]
             value == (all[ra.reg] + ra.add) % RegisterLimit
  <2>1. found[".ra"] \in Evaluate(ra, all, m)
    BY <1>1, <1>6
  <2>2. StandardRule(".ra", ra, j) /\ ra.add \in Nat
    BY <1>1, <1>3
  <2> HIDE DEF ra
  <2>3. /\ ra.reg \in DOMAIN all
        /\ ra.deref => /\ m.start <= value
                       /\ value < m.start + WordSize * Len(m.words)
    BY <1>5, <2>1, <2>2, EvaluateRight
  <2>4. ra.reg # "lr"
    BY <1>5, <1>9, <2>3
  <2>5. ra.deref /\ ra.reg = ".cfa"
    BY <2>2, <2>4 DEF StandardRule
  <2>6. value = (cfa + ra.add) % RegisterLimit
    BY <1>5, <2>5
  <2> QED
    BY <1>4, <2>2, <2>3, <2>5, <2>6, CfaRight
<1> QED
  BY <1>1, <1>7, <1>8, <1>9

\* The registers of a caller found by CFI.
LEMMA CallerRight ==
    ASSUME RegisterLimit \in Nat \ {0}, NEW j, j.words \in Nat,
           NEW m \in StacksOf(j), IsStack(m, j),
           NEW y, \A c \in DOMAIN y.loaded : StandardSymbols(y.loaded[c], j),
           NEW f, HasWords(f.regs), NEW c \in CallerByCFI(y, f, m)
    PROVE  /\ HasWords(c.regs) /\ "lr" \notin DOMAIN c.regs
           /\ "lr" \notin DOMAIN f.regs => InStack(c.regs.sp, m, j)
<1> DEFINE code_file == (CHOOSE x \in f.module : TRUE).code_file
           start == (CHOOSE x \in f.module : TRUE).start
<1>1. PICK rules, found :
             /\ code_file \in DOMAIN y.loaded
             /\ rules \in FindCFIFrameInfo(y.loaded[code_file],
                                           f.instruction - start)
             /\ found \in FindCallerRegs(rules, f.regs, m)
             /\ c = [trust |-> "CFI", regs |-> CallerRegs(found, f.regs)]
  BY DEF CallerByCFI
<1>2. StandardRules(rules, j)
  BY <1>1, RulesRight
<1>3. /\ DOMAIN found = DOMAIN rules
      /\ {".cfa", ".ra"} \subseteq DOMAIN found
      /\ HasWords(found)
      /\ "lr" \notin DOMAIN f.regs => InStack(found[".cfa"], m, j)
  BY <1>1, <1>2, FoundRight
<1>4. "lr" \notin DOMAIN rules /\ "sp" \notin DOMAIN rules
  BY <1>2 DEF StandardRules, StandardRule
<1>5. c.regs = CallerRegs(found, f.regs)
  BY <1>1
<1>6. /\ "lr" \notin DOMAIN c.regs /\ c.regs.sp = found[".cfa"]
  BY <1>3, <1>4, <1>5 DEF CallerRegs, CalleeSaved
<1>7. HasWords(c.regs)
  BY <1>3, <1>5 DEF CallerRegs, HasWords
<1> QED
  BY <1>3, <1>6, <1>7

\* The registers of a caller found by scanning.
LEMMA ScannedRight ==
    ASSUME RegisterLimit \in Nat \ {0}, NEW j, j.words \in Nat,
           NEW m, IsStack(m, j),
           NEW at \in Nat, NEW ip \in GetMemoryAtAddress(m, at)
    PROVE  LET regs == CallerByScan(at, ip).regs
           IN  /\ HasWords(regs) /\ "lr" \notin DOMAIN regs
               /\ InStack(regs.sp, m, j)
<1> DEFINE regs == CallerByScan(at, ip).regs
           n == WordSize * Len(m.words)
           top == WordSize * (j.words + 1)
<1>1. ip \in Word /\ m.start <= at /\ at < m.start + n
  BY ReadRight
<1>2. /\ m.start \in Nat /\ n \in Nat /\ top \in Nat /\ n + WordSize <= top
      /\ m.start + top <= RegisterLimit
  <2>1. Len(m.words) \in Nat
    BY DEF IsStack
  <2> QED
    BY <2>1 DEF IsStack, WordSize
<1>3. /\ DOMAIN regs = {"pc", "sp"} /\ regs.pc = ip
      /\ regs.sp = (at + WordSize) % RegisterLimit
  BY DEF CallerByScan
<1> HIDE DEF regs, n, top
<1>4. /\ at + WordSize \in 0..(RegisterLimit - 1)
      /\ m.start + WordSize <= at + WordSize /\ at + WordSize < m.start + top
  BY <1>1, <1>2 DEF WordSize
<1>5. ASSUME NEW b \in Nat \ {0}, NEW x \in 0..(b - 1) PROVE x % b = x
  BY Z3
<1>6. regs.sp = at + WordSize
  BY <1>3, <1>4, <1>5
<1>7. HasWords(regs)
  BY <1>1, <1>3, <1>4, <1>6 DEF HasWords, Word
<1> QED
  BY <1>3, <1>4, <1>6, <1>7 DEF InStack, regs, top

\* What is loaded comes from the files.
LEMMA LoadRight ==
    ASSUME LoopInv, SymbolsInv, LoadedInv, NEW a,
           NEW y, y = FillSourceLineInfo(symbols, modules_, store, files,
                                         a).symbols,
           NEW c \in DOMAIN y.loaded
    PROVE  \E id \in DOMAIN job.records :
                y.loaded[c] = LoadMapFromMemory(job.records[id])
<1> DEFINE found == GetModule(modules_, a)
           m == CHOOSE x \in found : TRUE
           after == SymbolsAfter(symbols, m, store, files)
           new == LoadModule(symbols.loaded, m, store, files)
<1>1. y = symbols \/ y = after
  BY DEF FillSourceLineInfo
<1> HIDE DEF m
<1>2. \/ y.loaded = symbols.loaded
      \/ GetSymbolFile(m, store) # {} /\ y.loaded = new
  BY <1>1 DEF SymbolsAfter, SymbolsInv
<1>3. CASE y.loaded = symbols.loaded
  BY <1>3 DEF LoadedInv
<1>4. CASE GetSymbolFile(m, store) # {} /\ y.loaded = new
  <2> DEFINE id == CHOOSE x \in GetSymbolFile(m, store) : TRUE
  <2>1. id \in DOMAIN job.records
    <3>1. id \in GetSymbolFile(m, store)
      BY <1>4
    <3> QED
      BY <3>1 DEF GetSymbolFile, LoopInv
  <2>2. files[id] = LoadMapFromMemory(job.records[id])
    BY <2>1 DEF LoadedInv
  <2>3. \/ y.loaded[c] = files[id]
        \/ c \in DOMAIN symbols.loaded /\ y.loaded[c] = symbols.loaded[c]
    BY <1>4 DEF LoadModule
  <2> HIDE DEF id
  <2> QED
    BY <2>1, <2>2, <2>3 DEF LoadedInv
<1> QED
  BY <1>2, <1>3, <1>4

\* The translation keeps its input.
LEMMA InputKept == [Next]_vars => UNCHANGED <<job, files>>
BY DEF Next, TranslateStep, Rest, ReadDump, SkipThread,
   ThreadWithoutContext, StartWalk, SymbolizeFrame, GetCallerFrame,
   ScanWord, Finish, Publish, vars, input

LEMMA LoadedStep == IndInv /\ LoadedInv /\ [Next]_vars => LoadedInv'
<1> SUFFICES ASSUME IndInv, LoadedInv, [Next]_vars PROVE LoadedInv'
  OBVIOUS
<1> USE DEF IndInv
<1>1. UNCHANGED <<job, files>>
  BY InputKept
<1>2. \/ UNCHANGED symbols
      \/ \E a : symbols' = FillSourceLineInfo(symbols, modules_, store,
                                              files, a).symbols
  <2>1. CASE SymbolizeFrame
    BY <2>1 DEF SymbolizeFrame
  <2>2. CASE GetCallerFrame \/ ScanWord
    BY <2>2, CallerShape
  <2>3. CASE ~(SymbolizeFrame \/ GetCallerFrame \/ ScanWord)
    BY <2>3 DEF Next, TranslateStep, Rest, ReadDump, SkipThread,
       ThreadWithoutContext, StartWalk, Finish, Publish, vars, state
  <2> QED
    BY <2>1, <2>2, <2>3
<1>3. ASSUME NEW c \in DOMAIN symbols'.loaded
      PROVE  \E id \in DOMAIN job.records :
                symbols'.loaded[c] = LoadMapFromMemory(job.records[id])
  <2>1. CASE UNCHANGED symbols
    BY <2>1 DEF LoadedInv
  <2>2. ASSUME NEW a, symbols' = FillSourceLineInfo(symbols, modules_, store,
                                                    files, a).symbols
        PROVE  \E id \in DOMAIN job.records :
                  symbols'.loaded[c] = LoadMapFromMemory(job.records[id])
    BY <2>2, LoadRight
  <2> QED
    BY <1>2, <2>1, <2>2
<1> QED
  BY <1>1, <1>3 DEF LoadedInv

\* The stack of the thread being walked, if the dump has it.
LEMMA MemoryRight ==
    ASSUME StandardJobs, LoopInv, pc \in Walking
    PROVE  /\ AtMostOne(Memory) /\ job.words \in Nat
           /\ \A m \in Memory : m \in StacksOf(job) /\ IsStack(m, job)
<1> DEFINE t == ThreadList[index]
<1>1. /\ job \in Jobs /\ job.threads # {} /\ index \in DOMAIN ThreadList
      /\ ThreadList \in job.threads
  <2>1. job.threads # {} /\ index \in Nat \ {0} /\ index <= Len(ThreadList)
    BY DEF LoopInv
  <2>2. index \in DOMAIN ThreadList
    BY <2>1, ListRight DEF IsSeq
  <2> QED
    BY <2>1, <2>2 DEF LoopInv, ThreadList
<1>2. StandardJob(job)
  BY <1>1 DEF StandardJobs
<1>3. AtMostOne(t.memory) /\ t.start \in Nat
  BY <1>1, <1>2 DEF StandardJob
<1>4. t.memory \subseteq StacksOf(job) /\ job.regions \subseteq StacksOf(job)
  BY <1>1 DEF StacksOf
<1>5. \A m \in StacksOf(job) : IsStack(m, job)
  BY <1>2 DEF StandardJob
<1>6. Memory \subseteq StacksOf(job)
  BY <1>4 DEF Memory, StackMemory
<1>7. AtMostOne(Memory)
  <2> SUFFICES ASSUME NEW r \in Memory, NEW s \in Memory PROVE r = s
    BY DEF AtMostOne
  <2>1. CASE t.memory # {}
    BY <1>3, <2>1 DEF Memory, StackMemory, AtMostOne
  <2>2. CASE t.memory = {}
    <3>1. /\ r \in job.regions /\ s \in job.regions
          /\ r.start <= t.start /\ t.start < End(r)
          /\ s.start <= t.start /\ t.start < End(s)
      BY <2>2 DEF Memory, StackMemory, End
    <3>2. r = s \/ End(r) <= s.start \/ End(s) <= r.start
      BY <1>2, <3>1 DEF StandardJob
    <3>3. /\ r.start \in Nat /\ s.start \in Nat
          /\ End(r) \in Nat /\ End(s) \in Nat
      <4>1. IsStack(r, job) /\ IsStack(s, job)
        BY <1>4, <1>5, <3>1
      <4>2. /\ r.start \in Nat /\ Len(r.words) \in Nat
            /\ s.start \in Nat /\ Len(s.words) \in Nat
        BY <4>1 DEF IsStack
      <4> QED
        BY <4>2 DEF End, WordSize
    <3> QED
      BY <1>3, <3>1, <3>2, <3>3
  <2> QED
    BY <2>1, <2>2
<1> QED
  BY <1>2, <1>5, <1>6, <1>7 DEF StandardJob

\* The last frame.
LEMMA LastRight ==
    ASSUME StackInv, PlacedInv, pc \in {"caller", "scan"}
    PROVE  /\ Len(stack) \in Nat \ {0} /\ Placed(Last(stack), Len(stack))
           /\ {"pc", "sp"} \subseteq DOMAIN Last(stack).regs
<1>1. /\ stack \in Seq(Range(stack)) /\ stack # <<>>
  BY DEF StackInv, IsSeq
<1>2. /\ Len(stack) \in Nat \ {0} /\ Len(stack) \in DOMAIN stack
      /\ Last(stack) = stack[Len(stack)]
  BY <1>1 DEF Last
<1>3. Last(stack) \in Frames
  BY <1>2 DEF Frames, Stacks, Range
<1> QED
  BY <1>2, <1>3 DEF PlacedInv, StackInv

\* A caller that Walk accepts has its place.
LEMMA PlacedNext ==
    ASSUME StandardJobs, IndInv, PlacedInv, pc \in {"caller", "scan"},
           NEW m \in Memory, NEW c, {"pc", "sp"} \subseteq DOMAIN c.regs,
           HasWords(c.regs), "lr" \notin DOMAIN c.regs,
           Len(stack) >= 2 => InStack(c.regs.sp, m, job),
           ~TerminateWalk(c.regs, Last(stack).regs, First)
    PROVE  Placed(NewFrame(c), Len(stack) + 1)
<1> DEFINE n == Len(stack)
           last == Last(stack).regs
           top == WordSize * (job.words + 1)
<1>1. /\ n \in Nat \ {0} /\ Placed(Last(stack), n)
      /\ {"pc", "sp"} \subseteq DOMAIN last
  BY LastRight DEF IndInv
<1>2. /\ AtMostOne(Memory) /\ job.words \in Nat /\ m.start \in Nat
  BY MemoryRight DEF IndInv, IsStack, Walking
<1>3. NewFrame(c).regs = c.regs
  BY DEF NewFrame
<1>4. c.regs.sp \in Int /\ last.sp \in Int
  BY <1>1 DEF Placed, HasWords, Word
<1>5. ASSUME n >= 2
      PROVE  m.start + WordSize + (n + 1 - 3) <= c.regs.sp
  <2>1. c.regs.sp > last.sp
    <3>1. ~First
      <4>1. ASSUME NEW k \in Nat, k >= 2 PROVE k # 1
        BY <4>1
      <4>2. Len(stack) # 1
        BY <1>1, <1>5, <4>1, Zenon
      <4> QED
        BY <4>2, Zenon DEF First
    <3>2. ~(c.regs.sp <= last.sp)
      BY <3>1 DEF TerminateWalk
    <3> QED
      BY <1>4, <3>2
  <2>2. m.start + WordSize <= c.regs.sp
    BY <1>5 DEF InStack
  <2>3. ASSUME n >= 3 PROVE m.start + WordSize + (n - 3) <= last.sp
    BY <1>1, <1>2, <2>3 DEF Placed, AtMostOne
  <2> HIDE DEF n, last
  <2> QED
    BY <1>1, <1>2, <1>4, <1>5, <2>1, <2>2, <2>3 DEF WordSize
<1>6. n >= 2 => c.regs.sp < m.start + top
  BY DEF InStack
<1> HIDE DEF n
<1>7. n + 1 >= 3 <=> n >= 2
  BY <1>1
<1> QED
  BY <1>3, <1>5, <1>6, <1>7 DEF Placed, n

\* A stack whose frames have their places is bounded.
LEMMA PlacedBounded ==
    ASSUME StandardJobs, LoopInv, pc \in Walking, NEW s, IsSeq(s),
           \A i \in DOMAIN s : "sp" \in DOMAIN s[i].regs /\ Placed(s[i], i)
    PROVE  Len(s) <= 2 + WordSize * job.words
<1>1. Len(s) \in Nat /\ DOMAIN s = 1..Len(s)
  BY AppendSeq
<1>2. job.words \in Nat /\ \A m \in Memory : m.start \in Nat
  BY MemoryRight DEF IsStack
<1>3. CASE Len(s) >= 3
  <2>1. Placed(s[Len(s)], Len(s)) /\ "sp" \in DOMAIN s[Len(s)].regs
    BY <1>1, <1>3
  <2>2. PICK m \in Memory :
            /\ m.start + WordSize + (Len(s) - 3) <= s[Len(s)].regs.sp
            /\ s[Len(s)].regs.sp < m.start + WordSize * (job.words + 1)
    BY <1>3, <2>1 DEF Placed
  <2> DEFINE x == s[Len(s)].regs.sp
             n == Len(s)
  <2>3. ASSUME NEW b \in Nat, NEW k \in Nat, NEW w \in Nat, NEW v,
               b + 4 + (k - 3) <= v, v < b + 4 * (w + 1), v \in Int
        PROVE  k <= 2 + 4 * w
    BY <2>3
  <2>4. CASE x \in Int
    BY <1>1, <1>2, <2>2, <2>3, <2>4 DEF WordSize
  <2>5. CASE x \notin Int
    BY <2>1, <2>5 DEF Placed, HasWords, Word
  <2> QED
    BY <2>4, <2>5
<1>4. CASE ~(Len(s) >= 3)
  BY <1>1, <1>2, <1>4 DEF WordSize
<1> QED
  BY <1>3, <1>4

\* What a step to the next frame or thread does.
LEMMA PlacedAfter ==
    ASSUME StandardJobs, IndInv, LoadedInv, PlacedInv,
           GetCallerFrame \/ ScanWord
    PROVE  /\ UNCHANGED job
           /\ \/ EndWalk(stack)
              \/ /\ \E g : Placed(g, Len(stack) + 1) /\ frame' = {g}
                 /\ pc' = "frame" /\ UNCHANGED <<stack, index, threads_>>
              \/ /\ pc' = "scan" /\ UNCHANGED <<frame, stack, index, threads_>>
                 /\ location' \in Nat
<1> USE DEF IndInv
<1>1. /\ Len(stack) \in Nat \ {0} /\ Placed(Last(stack), Len(stack))
      /\ {"pc", "sp"} \subseteq DOMAIN Last(stack).regs
      /\ pc \in {"caller", "scan"} /\ UNCHANGED job
  BY LastRight, CallerShape DEF input
<1>2. /\ RegisterLimit \in Nat \ {0} /\ job.words \in Nat
      /\ \A m \in Memory : m \in StacksOf(job) /\ IsStack(m, job)
  BY <1>1, MemoryRight DEF StandardJobs, Walking
<1>3. ASSUME NEW m \in Memory, NEW c, {"pc", "sp"} \subseteq DOMAIN c.regs,
             HasWords(c.regs), "lr" \notin DOMAIN c.regs,
             Len(stack) >= 2 => InStack(c.regs.sp, m, job), Found(c)
      PROVE  \/ EndWalk(stack)
             \/ /\ \E g : Placed(g, Len(stack) + 1) /\ frame' = {g}
                /\ pc' = "frame" /\ UNCHANGED <<stack, index, threads_>>
  <2>1. CASE TerminateWalk(c.regs, Last(stack).regs, First)
    BY <1>3, <2>1, Zenon DEF Found
  <2>2. CASE ~TerminateWalk(c.regs, Last(stack).regs, First)
    <3>1. Placed(NewFrame(c), Len(stack) + 1)
      BY <1>1, <1>3, <2>2, PlacedNext, Zenon
    <3>2. /\ frame' = {NewFrame(c)} /\ pc' = "frame"
          /\ UNCHANGED <<stack, index, threads_>>
      BY <1>3, <2>2, Zenon DEF Found
    <3> QED
      BY <3>1, <3>2, Zenon
  <2> QED
    BY <2>1, <2>2, Zenon
<1>4. CASE GetCallerFrame
  <2> DEFINE callers == UNION {CallerByCFI(symbols, Last(stack), memory) :
                               memory \in Memory}
             c == CHOOSE x \in callers : TRUE
  <2>1. \/ callers # {} /\ Found(c)
        \/ /\ location' = Last(stack).regs.sp /\ pc' = "scan"
           /\ UNCHANGED <<frame, stack, index, threads_>>
        \/ EndWalk(stack)
    BY <1>4, Zenon DEF GetCallerFrame
  <2>2. Last(stack).regs.sp \in Nat
    BY <1>1 DEF Placed, HasWords, Word
  <2>3. CASE callers # {} /\ Found(c)
    <3>1. c \in callers
      BY <2>3
    <3> HIDE DEF c
    <3>2. PICK m \in Memory : c \in CallerByCFI(symbols, Last(stack), m)
      BY <3>1
    <3>3. \A x \in DOMAIN symbols.loaded :
              StandardSymbols(symbols.loaded[x], job)
      BY DEF LoadedInv, StandardJobs, StandardJob, LoopInv
    <3>4. HasWords(Last(stack).regs)
      BY <1>1 DEF Placed
    <3>5. /\ HasWords(c.regs) /\ "lr" \notin DOMAIN c.regs
          /\ "lr" \notin DOMAIN Last(stack).regs =>
                InStack(c.regs.sp, m, job)
      BY <1>2, <3>2, <3>3, <3>4, CallerRight
    <3>6. Len(stack) >= 2 => InStack(c.regs.sp, m, job)
      BY <1>1, <3>5 DEF Placed
    <3>7. {"pc", "sp"} \subseteq DOMAIN c.regs
      BY <3>2, CFICaller
    <3> QED
      BY <1>1, <1>3, <2>3, <3>5, <3>6, <3>7, Zenon
  <2> HIDE DEF callers, c
  <2> QED
    BY <1>1, <2>1, <2>2, <2>3
<1>5. CASE ScanWord
  <2> DEFINE read == UNION {GetMemoryAtAddress(m, location) : m \in Memory}
             ip == CHOOSE v \in read : TRUE
             c == CallerByScan(location, ip)
  <2>1. \/ EndWalk(stack)
        \/ read # {} /\ Found(c)
        \/ /\ location' = location + WordSize /\ pc = "scan"
           /\ UNCHANGED <<frame, stack, index, threads_, pc>>
    BY <1>5, Zenon DEF ScanWord
  <2>2. location \in Nat /\ location + WordSize \in Nat
    <3>1. pc = "scan"
      BY <1>5 DEF ScanWord
    <3> QED
      BY <3>1 DEF PlacedInv, WordSize
  <2>3. CASE read # {} /\ Found(c)
    <3>1. ip \in read
      BY <2>3
    <3> HIDE DEF ip
    <3>2. PICK m \in Memory : ip \in GetMemoryAtAddress(m, location)
      BY <3>1
    <3>3. /\ HasWords(c.regs) /\ "lr" \notin DOMAIN c.regs
          /\ InStack(c.regs.sp, m, job)
      BY <1>2, <2>2, <3>2, ScannedRight
    <3>4. {"pc", "sp"} \subseteq DOMAIN c.regs
      BY ScanCaller
    <3> HIDE DEF c
    <3> QED
      BY <1>1, <1>3, <2>3, <3>3, <3>4, Zenon
  <2> HIDE DEF read, c
  <2> QED
    BY <1>1, <2>1, <2>2, <2>3
<1> QED
  BY <1>1, <1>4, <1>5

LEMMA PlacedStep ==
    StandardJobs /\ IndInv /\ WalkInv /\ [Next]_vars
        => PlacedInv' /\ BoundInv'
<1> SUFFICES ASSUME StandardJobs, IndInv, WalkInv, [Next]_vars
             PROVE  PlacedInv' /\ BoundInv'
  OBVIOUS
<1> USE DEF IndInv, WalkInv
<1>1. UNCHANGED job
  BY InputKept
<1>2. \A f, i : UNCHANGED index => (Placed(f, i)' <=> Placed(f, i))
  BY <1>1 DEF Placed, Memory, StackMemory, ThreadList, HasWords
<1>3. /\ IsSeq(stack)
      /\ \A i \in DOMAIN stack :
            "sp" \in DOMAIN stack[i].regs /\ Placed(stack[i], i)
  BY DEF StackInv, Frames, Stacks, Range, PlacedInv
<1>4. ASSUME UNCHANGED <<frame, stack, location, index, threads_>>,
             pc' = pc \/ (pc \notin Walking /\ pc' \notin Walking)
      PROVE  PlacedInv' /\ BoundInv'
  BY <1>1, <1>2, <1>4 DEF PlacedInv, BoundInv, Walking
<1>5. CASE UNCHANGED vars
  BY <1>4, <1>5 DEF vars
<1>6. CASE ReadDump \/ Finish
  BY <1>4, <1>6 DEF ReadDump, Finish, state, walk, Walking
<1>7. ASSUME NEW id \in DOMAIN job.records, Publish(id)
      PROVE  PlacedInv' /\ BoundInv'
  BY <1>4, <1>7 DEF Publish, state, walk
<1>8. ASSUME stack' = <<>>, pc' = "thread" PROVE PlacedInv'
  BY <1>8, EmptyIsSeq DEF PlacedInv, Walking
<1>9. ASSUME NEW x, NEW s, Len(s) <= 2 + WordSize * job.words,
             threads_' = Append(threads_, [tid |-> x, frames |-> s])
      PROVE  BoundInv'
  <2> DEFINE new == [tid |-> x, frames |-> s]
  <2>1. new.frames = s /\ threads_' = Append(threads_, new)
    BY <1>9
  <2> HIDE DEF new
  <2>2. /\ DOMAIN threads_ = 1..Len(threads_) /\ Len(threads_) \in Nat
        /\ DOMAIN threads_' = 1..(Len(threads_) + 1)
        /\ \A i \in 1..Len(threads_) : threads_'[i] = threads_[i]
        /\ threads_'[Len(threads_) + 1] = new
    BY <2>1, AppendSeq DEF StackInv
  <2>3. ASSUME NEW i \in DOMAIN threads_'
        PROVE  \/ threads_'[i] = new
               \/ i \in DOMAIN threads_ /\ threads_'[i] = threads_[i]
    BY <2>2
  <2> QED
    BY <1>1, <1>9, <2>1, <2>3 DEF BoundInv
<1>10. CASE SkipThread
  BY <1>1, <1>10, EmptyIsSeq
     DEF SkipThread, InThreadLoop, walk, PlacedInv, BoundInv, Walking
<1>11. CASE ThreadWithoutContext
  <2>1. /\ pc = "thread" /\ pc' = pc /\ UNCHANGED stack
        /\ threads_' = Append(threads_, [tid |-> ThreadList[index].thread,
                                         frames |-> <<>>])
    BY <1>11 DEF ThreadWithoutContext, InThreadLoop, walk
  <2>2. stack = <<>>
    BY <2>1 DEF PlacedInv, Walking
  <2>3. Len(<<>>) <= 2 + WordSize * job.words
    <3>1. job.words \in Nat
      BY DEF StandardJobs, StandardJob, LoopInv
    <3> QED
      BY <3>1 DEF WordSize
  <2> QED
    BY <1>8, <1>9, <2>1, <2>2, <2>3
<1>12. CASE StartWalk
  <2>1. /\ pc = "thread" /\ index <= Len(ThreadList) /\ pc' = "frame"
        /\ frame' = {ContextFrame(r) : r \in Context(ThreadList[index])}
        /\ stack' = <<>> /\ UNCHANGED <<threads_, index>>
    BY <1>12 DEF StartWalk, InThreadLoop
  <2>2. /\ job.threads # {} /\ index \in DOMAIN ThreadList
        /\ ThreadList \in job.threads /\ job \in Jobs
    <3>1. job.threads # {} /\ index \in Nat \ {0}
      BY <2>1 DEF LoopInv
    <3>2. index \in DOMAIN ThreadList
      BY <2>1, <3>1, ListRight DEF IsSeq
    <3> QED
      BY <3>1, <3>2 DEF ThreadList, LoopInv
  <2>3. HoldsWords(Context(ThreadList[index]))
    <3>1. /\ HoldsWords(ThreadList[index].context)
          /\ \A e \in job.exception : HoldsWords(e.context)
      BY <2>2 DEF StandardJobs, StandardJob
    <3> QED
      BY <3>1 DEF HoldsWords, Context
  <2>4. ASSUME NEW f \in frame' PROVE HasWords(f.regs)
    BY <2>1, <2>3 DEF HoldsWords, HasWords, ContextFrame
  <2>5. \A f \in frame' : Placed(f, 1)
    BY <2>4 DEF Placed
  <2>6. Len(stack') + 1 = 1 /\ DOMAIN stack' = {}
    BY <2>1, EmptyIsSeq
  <2>7. PlacedInv'
    BY <1>2, <2>1, <2>5, <2>6 DEF PlacedInv, Walking
  <2> QED
    BY <1>1, <2>1, <2>7 DEF BoundInv
<1>13. ASSUME NEW s, IsSeq(s), pc \in Walking, EndWalk(s),
              \A i \in DOMAIN s : "sp" \in DOMAIN s[i].regs /\ Placed(s[i], i)
       PROVE  PlacedInv' /\ BoundInv'
  <2>1. Len(s) <= 2 + WordSize * job.words
    BY <1>13, PlacedBounded
  <2> QED
    BY <1>8, <1>9, <1>13, <2>1 DEF EndWalk
<1>14. CASE SymbolizeFrame
  <2>1. PICK f : frame = {f} /\ IsFrame(f) /\ pc = "frame"
    BY <1>14 DEF SymbolizeFrame, StackInv
  <2>2. f = CHOOSE x \in frame : TRUE
    BY <2>1
  <2> DEFINE info == FillSourceLineInfo(symbols, modules_, store, files,
                                        f.instruction)
             g == Filled(f, info)
             a == Append(stack, g)
  <2>3. \/ EndWalk(a)
        \/ stack' = a /\ pc' = "caller" /\ UNCHANGED <<index, threads_>>
    BY <1>14, <2>2 DEF SymbolizeFrame
  <2>4. Placed(f, Len(stack) + 1)
    BY <2>1 DEF PlacedInv
  <2>5. Placed(g, Len(stack) + 1) /\ "sp" \in DOMAIN g.regs
    BY <2>1, <2>4 DEF Filled, Placed, IsFrame
  <2> HIDE DEF g
  <2>6. /\ IsSeq(a) /\ DOMAIN stack = 1..Len(stack) /\ Len(stack) \in Nat
        /\ DOMAIN a = 1..(Len(stack) + 1)
        /\ \A i \in 1..Len(stack) : a[i] = stack[i]
        /\ a[Len(stack) + 1] = g
    BY <1>3, AppendSeq
  <2> HIDE DEF a
  <2>7. ASSUME NEW i \in DOMAIN a
        PROVE  "sp" \in DOMAIN a[i].regs /\ Placed(a[i], i)
    <3>1. CASE i = Len(stack) + 1
      BY <2>5, <2>6, <3>1
    <3>2. CASE i \in DOMAIN stack
      BY <1>3, <2>6, <3>2
    <3> QED
      BY <2>6, <3>1, <3>2
  <2>8. CASE EndWalk(a)
    BY <1>13, <2>1, <2>6, <2>7, <2>8 DEF Walking
  <2>9. CASE stack' = a /\ pc' = "caller" /\ UNCHANGED <<index, threads_>>
    BY <1>1, <1>2, <2>7, <2>9 DEF PlacedInv, BoundInv, Walking
  <2> QED
    BY <2>3, <2>8, <2>9
<1>15. CASE GetCallerFrame \/ ScanWord
  <2>1. \/ EndWalk(stack)
        \/ /\ \E g : Placed(g, Len(stack) + 1) /\ frame' = {g}
           /\ pc' = "frame" /\ UNCHANGED <<stack, index, threads_>>
        \/ /\ pc' = "scan" /\ UNCHANGED <<frame, stack, index, threads_>>
           /\ location' \in Nat
    BY <1>15, PlacedAfter
  <2>2. pc \in Walking
    BY <1>15, CallerShape DEF Walking
  <2>3. CASE EndWalk(stack)
    BY <1>3, <1>13, <2>2, <2>3
  <2>4. ASSUME NEW g, Placed(g, Len(stack) + 1), frame' = {g}, pc' = "frame",
               UNCHANGED <<stack, index, threads_>>
        PROVE  PlacedInv' /\ BoundInv'
    BY <1>1, <1>2, <1>3, <2>4 DEF PlacedInv, BoundInv, Walking
  <2>5. CASE pc' = "scan" /\ UNCHANGED <<frame, stack, index, threads_>>
             /\ location' \in Nat
    BY <1>1, <1>2, <1>3, <2>5 DEF PlacedInv, BoundInv, Walking
  <2> QED
    BY <2>1, <2>3, <2>4, <2>5
<1> QED
  BY <1>5, <1>6, <1>7, <1>10, <1>11, <1>12, <1>14, <1>15
     DEF Next, TranslateStep, Rest

StandardInv == StandardJobs /\ WalkInv

LEMMA InitPlaced == Init => WalkInv
<1> SUFFICES ASSUME Init PROVE WalkInv
  OBVIOUS
<1>1. LoadedInv
  BY DEF Init, LoadedInv, NoSymbols
<1>2. PlacedInv /\ BoundInv
  BY EmptyIsSeq DEF Init, PlacedInv, BoundInv, Walking
<1> QED
  BY <1>1, <1>2 DEF WalkInv

\* Stackwalker::Walk ends by itself: TerminateWalk makes the stack pointer
\* grow and a return address must be in the stack, so no dump of the expected
\* form gives more frames than its stack has bytes and two more, whatever the
\* words of the stack are, however callers are found, and whichever symbols
\* are published meanwhile.
THEOREM WalksBounded == StandardJobs /\ Spec => []WalkBounded
<1>1. IndInv /\ StandardInv /\ [Next]_vars => StandardInv'
  BY LoadedStep, PlacedStep DEF StandardInv, WalkInv
<1>2. IndInv /\ StandardInv => WalkBounded
  <2> SUFFICES ASSUME IndInv, StandardJobs, WalkInv,
                      NEW s \in Stacks
               PROVE  Len(s) <= 2 + WordSize * job.words
    BY DEF WalkBounded, StandardInv
  <2>1. CASE s # stack
    BY <2>1 DEF Stacks, WalkInv, BoundInv
  <2>2. CASE s = stack /\ pc \in Walking
    <3>1. /\ IsSeq(stack)
          /\ \A i \in DOMAIN stack :
                "sp" \in DOMAIN stack[i].regs /\ Placed(stack[i], i)
      BY DEF IndInv, WalkInv, StackInv, Frames, Stacks, Range, PlacedInv
    <3> QED
      BY <2>2, <3>1, PlacedBounded DEF IndInv
  <2>3. CASE s = stack /\ pc \notin Walking
    <3>1. s = <<>> /\ job.words \in Nat
      BY <2>3 DEF WalkInv, PlacedInv, IndInv, LoopInv, StandardJobs,
                  StandardJob
    <3> QED
      BY <3>1 DEF WordSize
  <2> QED
    BY <2>1, <2>2, <2>3
<1>3. StandardJobs /\ Init => StandardInv
  BY InitPlaced DEF StandardInv
<1> QED
  BY TranslateInv, <1>1, <1>2, <1>3, PTL DEF Spec
=============================================================================
