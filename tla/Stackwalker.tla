----------------------------- MODULE Stackwalker ----------------------------
(***************************************************************************)
(* StackFrameSymbolizer and StackwalkerARM.  The registers of a frame are  *)
(* a function on the ones that are valid, among pc, sp, lr and fp (fp      *)
(* stands for the callee-saved r4..r11).  The stack is a region            *)
(* [start, words] of words that lie at multiples of 4 from its start and   *)
(* are read at any address.  The system is Android, so fp_register_ is -1: *)
(* a caller is found by STACK CFI rules or by scanning, never by a frame   *)
(* pointer.                                                                *)
(*                                                                         *)
(* A rule is [reg, add, deref]: register plus constant, or the word there. *)
(***************************************************************************)
EXTENDS SourceLineResolver

CONSTANTS
    kRASearchWords,
    max_frames, max_frames_scanned,     \* static members of Stackwalker
    RegisterLimit,                      \* 2^w, w the width of a register
    ByteLimit                           \* 2^(w/4), w/4 the width of a byte

WordSize == 4
CalleeSaved == {"fp"}
kEndOfStack == 4096     \* no code below

\* A register is a word of four bytes.
ASSUME WordAssumption ==
    /\ ByteLimit \in Nat \ {0}
    /\ RegisterLimit = ByteLimit * ByteLimit * ByteLimit * ByteLimit

\* What k bytes can count.
BytesLimit(k) ==
    <<1, ByteLimit, ByteLimit * ByteLimit,
      ByteLimit * ByteLimit * ByteLimit>>[k + 1]

\* The bytes from the k-th of a word on, and the first k of the next one.
Joined(low, high, k) ==
    (low \div BytesLimit(k)
        + (high % BytesLimit(k)) * (RegisterLimit \div BytesLimit(k)))
    % RegisterLimit

\* The word at any address, aligned or not, that lies in the region as a whole.
GetMemoryAtAddress(memory, address) ==
    LET offset == address - memory.start
        at == offset \div WordSize + 1
        k == offset % WordSize
    IN  IF \/ address < memory.start
           \/ offset + WordSize > WordSize * Len(memory.words) THEN {}
        ELSE IF k = 0 THEN {memory.words[at]}
        ELSE {Joined(memory.words[at], memory.words[at + 1], k)}

-----------------------------------------------------------------------------
\* The symbolizer: no_symbol_modules_ of the symbolizer, and modules_ of the
\* resolver with the symbols it has loaded, both keyed by the code file.
\* files[id] is what LoadMapFromMemory makes of a symbol file.

NoSymbols == [missing |-> {}, loaded |-> [code_file \in {} |-> 0]]

\* BasicCodeModules: a copy of the module list.  What cannot be stored is
\* left out.
CodeModules(modules, shrink) ==
    LET add(map, m) ==
            IF CanStore(map, m.start, m.size, shrink)
            THEN Stored(map, m.start, m.size, m, shrink) ELSE map
    IN  FoldLeft(add, EmptyMap, modules)

GetModule(modules, address) ==
    {modules[k].entry : k \in RetrieveRange(modules, address)}

\* SimpleSymbolSupplier: the file of the module, by its identifier, among
\* those that are in the store now.
GetSymbolFile(m, store) == m.id \cap store

\* The resolver's modules with m, loaded from its file.
LoadModule(loaded, m, store, files) ==
    [code_file \in DOMAIN loaded \cup {m.code_file} |->
        IF code_file = m.code_file
        THEN files[CHOOSE id \in GetSymbolFile(m, store) : TRUE]
        ELSE loaded[code_file]]

SymbolsAfterUncached(symbols, m, store, files) ==
    IF m.code_file \in DOMAIN symbols.loaded THEN symbols
    ELSE IF GetSymbolFile(m, store) = {} THEN symbols
    ELSE [symbols EXCEPT !.loaded = LoadModule(@, m, store, files)]

\* The caches after module m has been asked for: what was found missing
\* stays missing, what was loaded stays loaded.
SymbolsAfter(symbols, m, store, files) ==
    IF m.code_file \in symbols.missing \cup DOMAIN symbols.loaded
    THEN symbols
    ELSE IF GetSymbolFile(m, store) = {}
    THEN [symbols EXCEPT !.missing = @ \cup {m.code_file}]
    ELSE [symbols EXCEPT !.loaded = LoadModule(@, m, store, files)]

\* FillSourceLineInfo: the caches afterwards, the module of the address, the
\* function and line, and kError, kNoError or kWarningCorruptSymbols.  The
\* code's other ways out are never taken: a load fails only for a module that
\* is loaded already, which was asked just before, and kInterrupt stands for
\* a new char[] that returns NULL, where it throws.
FillSourceLineInfo(symbols, modules, store, files, address) ==
    LET found == GetModule(modules, address)
        m == CHOOSE x \in found : TRUE
        after == SymbolsAfter(symbols, m, store, files)
        has == m.code_file \in DOMAIN after.loaded
    IN  IF found = {}
        THEN [symbols |-> symbols, module |-> {}, source |-> {},
              result |-> "kError"]
        ELSE [symbols |-> after, module |-> found,
              source |-> IF ~has THEN {}
                         ELSE LookupAddress(after.loaded[m.code_file],
                                            address - m.start),
              result |-> IF ~has THEN "kError"
                         ELSE IF IsCorrupt(after.loaded[m.code_file])
                         THEN "kWarningCorruptSymbols" ELSE "kNoError"]

\* InstructionAddressSeemsValid, of what FillSourceLineInfo has filled in: a
\* module that has symbols must have one for the address.
SeemsValid(info) ==
    /\ info.module # {}
    /\ info.result = "kError" \/ info.source # {}

-----------------------------------------------------------------------------
\* CFIFrameInfo::FindCallerRegs.

Evaluate(rule, registers, memory) ==
    LET value == (registers[rule.reg] + rule.add) % RegisterLimit
    IN  IF rule.reg \notin DOMAIN registers THEN {}
        ELSE IF rule.deref THEN GetMemoryAtAddress(memory, value)
        ELSE {value}

FindCallerRegs(rules, registers, memory) ==
    LET withCfa(cfa) == [name \in DOMAIN registers \cup {".cfa"} |->
                            IF name = ".cfa" THEN cfa ELSE registers[name]]
        values(cfa) == [name \in DOMAIN rules \ {".cfa"} |->
                            Evaluate(rules[name], withCfa(cfa), memory)]
        all(cfa) == \A name \in DOMAIN rules \ {".cfa"} :
                        values(cfa)[name] # {}
    IN  IF ~({".cfa", ".ra"} \subseteq DOMAIN rules) THEN {}
        ELSE {[name \in DOMAIN rules |->
                IF name = ".cfa" THEN cfa
                ELSE CHOOSE v \in values(cfa)[name] : TRUE] :
                cfa \in {c \in Evaluate(rules[".cfa"], registers, memory) :
                            all(c)}}

\* The registers of the caller: those with rules, the callee-saved ones
\* without; pc and sp are .ra and .cfa unless they have rules of their own.
CallerRegs(found, registers) ==
    LET recovered == DOMAIN found \ {".cfa", ".ra"}
        kept == CalleeSaved \cap DOMAIN registers
    IN  [name \in recovered \cup kept \cup {"pc", "sp"} |->
            IF name \in recovered THEN found[name]
            ELSE IF name = "pc" THEN found[".ra"]
            ELSE IF name = "sp" THEN found[".cfa"]
            ELSE registers[name]]

\* GetCallerByCFIFrameInfo.
CallerByCFI(symbols, frame, memory) ==
    LET code_file == (CHOOSE m \in frame.module : TRUE).code_file
        start == (CHOOSE m \in frame.module : TRUE).start
        infos == IF frame.module = {} THEN {}
                 ELSE IF code_file \notin DOMAIN symbols.loaded THEN {}
                 ELSE FindCFIFrameInfo(symbols.loaded[code_file],
                                       frame.instruction - start)
        found == UNION {FindCallerRegs(rules, frame.regs, memory) :
                        rules \in infos}
    IN  {[trust |-> "CFI", regs |-> CallerRegs(f, frame.regs)] : f \in found}

\* GetCallerByStackScan, when the word at location looks like an address.
CallerByScan(location, ip) ==
    [trust |-> "SCAN",
     regs |-> [name \in {"pc", "sp"} |->
                IF name = "pc" THEN ip
                ELSE (location + WordSize) % RegisterLimit]]

\* One word more than the number says, because the loop uses <=.
LastScanned(sp, first) ==
    sp + WordSize * (IF first THEN 4 * kRASearchWords ELSE kRASearchWords)

TerminateWalkLoose(caller, callee, first) ==
    caller.pc < kEndOfStack \/ caller.sp < callee.sp

\* The stack pointer must grow, except in the first unwind.
TerminateWalk(caller, callee, first) ==
    \/ caller.pc < kEndOfStack
    \/ IF first THEN caller.sp < callee.sp ELSE caller.sp <= callee.sp

NewFrameAtReturn(caller) ==
    [trust |-> caller.trust, regs |-> caller.regs,
     instruction |-> caller.regs.pc, module |-> {}, source |-> {}]

\* The frame of a caller: its instruction is inside the call, not after it.
NewFrame(caller) ==
    [trust |-> caller.trust, regs |-> caller.regs,
     instruction |-> caller.regs.pc - 2, module |-> {}, source |-> {}]

\* A frame with what FillSourceLineInfo has filled in.
Filled(f, info) ==
    [trust |-> f.trust, regs |-> f.regs, instruction |-> f.instruction,
     module |-> info.module, source |-> info.source]

ContextFrame(regs) ==
    [trust |-> "CONTEXT", regs |-> regs, instruction |-> regs.pc,
     module |-> {}, source |-> {}]
=============================================================================
