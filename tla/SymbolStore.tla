----------------------------- MODULE SymbolStore ----------------------------
(***************************************************************************)
(* The symbol store of Breakpader: symbol() dumps a library's symbols to a *)
(* temporary file and moves it to root/name/id/name.sym, where translate() *)
(* looks for it.                                                           *)
(*                                                                         *)
(* Sources: Breakpader.java (symbol, getSymbolTargetPath), the native      *)
(* DumpSymbolsFile (native_breakpad.cpp, breakpad_wrapper.cc),             *)
(* WriteSymbolFile and Module::Write (dump_symbols.cc, module.cc) and      *)
(* SimpleSymbolSupplier (simple_symbol_supplier.cc).                       *)
(*                                                                         *)
(* A file is an inode, named by the call that created it; its contents are *)
(* the records of a symbol file in order, each with the library it is      *)
(* about.  Module::Write ends every line with endl, so records reach the   *)
(* file one by one, at the offset of the writer.  Any number of threads    *)
(* may be in symbol() and in translate(), and the process may crash: that  *)
(* is what the library is for.                                             *)
(***************************************************************************)
EXTENDS Naturals, Sequences

CONSTANTS
    Symbolizers,   \* threads that call symbol()
    Translators,   \* threads that call translate()
    Libs,          \* library files
    Name,          \* [Libs -> file names]
    Id,            \* [Libs -> identifiers of the MODULE line]
    Records,       \* [Libs -> Seq(RecordKinds)]: what Module::Write writes
    Readable,      \* libraries ReadSymbolData can read
    Spaced,        \* libraries with white space in their name
    MaxCalls,      \* calls of symbol() in a behaviour
    MaxLookups,    \* calls of translate() in a behaviour
    MaxCrashes,    \* crashes of the process
    MaxFaults      \* failures of delete, open, write and rename

RecordKinds == {"module", "func", "public", "cfi"}

ASSUME StoreAssumption ==
    /\ Symbolizers \cap Translators = {}
    /\ Records \in [Libs -> Seq(RecordKinds)]
    /\ \A l \in Libs : Records[l] # <<>> /\ Records[l][1] = "module"
    /\ Readable \subseteq Libs
    /\ Spaced \subseteq Libs
    /\ {MaxCalls, MaxLookups, MaxCrashes, MaxFaults} \subseteq Nat
    /\ 0 \notin Libs

Calls == 1..MaxCalls
NoFile == 0
NoLib  == 0
Threads == Symbolizers \cup Translators
Names   == {Name[l] : l \in Libs}
Path(l) == <<Name[l], Id[l]>>       \* root/name/id/name.sym

\* The path getSymbolTargetPath makes of a MODULE line: a line that does not
\* have five words gives root/null/null, a directory all such names share.
Target(l) == IF l \in Spaced THEN <<Name[l], "null">> ELSE Path(l)

Paths    == {Path(l) : l \in Libs} \cup {Target(l) : l \in Libs}
NullPath == <<>>                    \* getSymbolTargetPath returned null
Offsets == UNION {DOMAIN Records[l] : l \in Libs}
Empty   == [k \in Offsets |-> NoLib]

VARIABLES
    pc,        \* where each thread is
    lib,       \* the library it works on
    call,      \* its call of symbol()
    fd,        \* the file its ofstream writes
    pos,       \* records written to the stream
    good,      \* stream.good()
    dir,       \* its target directory
    ncalls, nlookups, ncrashes, faults,
    temp,      \* root/name.sym for each name
    store,     \* root/name/id/name.sym
    content,   \* the contents of each file
    nres,      \* what dump_symbols_file returned, per call
    answered,  \* per call, the library symbol() returned OK for
    loaded     \* what translate() read last, per thread

localVars == <<lib, call, fd, pos, good, dir>>
diskVars  == <<temp, store, content>>
counts    == <<ncalls, nlookups, ncrashes, faults>>
vars == <<pc, localVars, counts, diskVars, nres, answered, loaded>>

Goto(t, l) == pc' = [pc EXCEPT ![t] = l]

\* An operation on a file fails.
Fault == faults < MaxFaults /\ faults' = faults + 1
otherCounts == <<ncalls, nlookups, ncrashes>>

Init ==
    /\ pc = [t \in Threads |-> "idle"]
    /\ lib \in [Threads -> Libs]
    /\ call = [t \in Threads |-> 0]
    /\ fd = [t \in Threads |-> NoFile]
    /\ pos = [t \in Threads |-> 0]
    /\ good = [t \in Threads |-> FALSE]
    /\ dir = [t \in Threads |-> NullPath]
    /\ ncalls = 0 /\ nlookups = 0 /\ ncrashes = 0 /\ faults = 0
    /\ temp = [n \in Names |-> NoFile]
    /\ store = [p \in Paths |-> NoFile]
    /\ content = [c \in Calls |-> Empty]
    /\ nres = [c \in Calls |-> "none"]
    /\ answered = [c \in Calls |-> NoLib]
    /\ loaded = [t \in Threads |-> Empty]

-----------------------------------------------------------------------------
(***************************************************************************)
(* Breakpader.symbol(libPath)                                              *)
(***************************************************************************)
Symbol(t, l) ==
    /\ pc[t] = "idle"
    /\ ncalls < MaxCalls
    /\ ncalls' = ncalls + 1
    /\ call' = [call EXCEPT ![t] = ncalls + 1]
    /\ lib' = [lib EXCEPT ![t] = l]
    /\ Goto(t, "exists")
    /\ UNCHANGED <<fd, pos, good, dir, nlookups, ncrashes, faults, diskVars,
                   nres, answered, loaded>>

\* symbolTemp.exists() is one call and symbolTemp.delete() another.
Exists(t) ==
    /\ pc[t] = "exists"
    /\ Goto(t, IF temp[Name[lib[t]]] # NoFile THEN "delete" ELSE "open")
    /\ UNCHANGED <<localVars, counts, diskVars, nres, answered, loaded>>

Delete(t) ==
    /\ pc[t] = "delete"
    /\ \/ temp' = [temp EXCEPT ![Name[lib[t]]] = NoFile] /\ UNCHANGED faults
       \/ Fault /\ UNCHANGED temp
    /\ Goto(t, "open")
    /\ UNCHANGED <<localVars, otherCounts, store, content, nres, answered,
                   loaded>>

\* dump_symbols_file: file.open creates the file or truncates the one that is
\* there; its failure only shows in the state of the stream.
Open(t) ==
    LET n == Name[lib[t]]
        f == IF temp[n] = NoFile THEN call[t] ELSE temp[n]
    IN  /\ pc[t] = "open"
        /\ \/ /\ good' = [good EXCEPT ![t] = TRUE]
              /\ fd' = [fd EXCEPT ![t] = f]
              /\ temp' = [temp EXCEPT ![n] = f]
              /\ content' = [content EXCEPT ![f] = Empty]
              /\ UNCHANGED faults
           \/ /\ Fault
              /\ good' = [good EXCEPT ![t] = FALSE]
              /\ UNCHANGED <<fd, temp, content>>
        /\ pos' = [pos EXCEPT ![t] = 0]
        /\ Goto(t, "read")
        /\ UNCHANGED <<lib, call, dir, otherCounts, store, nres, answered,
                       loaded>>

\* dump_symbols_file is left; its result is recorded in nres.
DumpReturns(t, r) ==
    /\ nres' = [nres EXCEPT ![call[t]] = r]
    /\ Goto(t, "target")

\* ReadSymbolData: the library is read before anything is written.
ReadSymbols(t) ==
    /\ pc[t] = "read"
    /\ IF lib[t] \in Readable THEN Goto(t, "write") /\ UNCHANGED nres
                              ELSE DumpReturns(t, "error")
    /\ UNCHANGED <<localVars, counts, diskVars, answered, loaded>>

\* Mutant: only the header is written (WriteSymbolFileHeader).
LastRecordHeader(t, k) == k = 1

LastRecord(t, k) == k = Len(Records[lib[t]])

\* Module::Write tests stream.good() after the line for MODULE, FILE, FUNC and
\* line records; before the final endl for STACK CFI, whose own line is still
\* buffered then; and never for PUBLIC.
Detected(kind, before, after) ==
    \/ kind \in {"module", "func"} /\ ~after
    \/ kind = "cfi" /\ ~before

\* One record.  A stream that has failed writes nothing any more.
WriteRecord(t) ==
    LET k == pos[t] + 1 IN
    /\ pc[t] = "write"
    /\ \/ /\ good[t]
          /\ content' = [content EXCEPT ![fd[t]][k] = lib[t]]
          /\ UNCHANGED <<good, faults>>
       \/ /\ good[t] /\ Fault
          /\ good' = [good EXCEPT ![t] = FALSE]
          /\ UNCHANGED content
       \/ /\ ~good[t]
          /\ UNCHANGED <<good, content, faults>>
    /\ pos' = [pos EXCEPT ![t] = k]
    /\ IF Detected(Records[lib[t]][k], good[t], good'[t])
       THEN DumpReturns(t, "error")
       ELSE IF LastRecord(t, k)
       THEN DumpReturns(t, "ok")
       ELSE UNCHANGED <<pc, nres>>
    /\ UNCHANGED <<lib, call, fd, dir, otherCounts, temp, store, answered,
                   loaded>>

\* The library the MODULE line of a file names.
ModuleOf(f) == content[f][1]

\* Mutants: the directory is taken from the request, not from the file; the
\* identifier is not part of it; the MODULE line is never split into words.
TargetOfRequest(t, f) == Target(lib[t])
TargetOfName(t, f) ==
    Target(CHOOSE l \in Libs : Name[l] = Name[ModuleOf(f)])
TargetOfLine(t, f) == <<Name[ModuleOf(f)], "null">>

TargetOf(t, f) == Target(ModuleOf(f))

\* getSymbolTargetPath: the file now at the temporary path is read for its
\* MODULE line; without it, or without the file, the result is null.  Whether
\* mkdirs succeeds is not looked at: if not, the rename will fail.
TargetPath(t) ==
    LET f == temp[Name[lib[t]]] IN
    /\ pc[t] = "target"
    /\ dir' = [dir EXCEPT ![t] =
                  IF f = NoFile \/ ModuleOf(f) = NoLib THEN NullPath
                                                       ELSE TargetOf(t, f)]
    /\ Goto(t, "rename")
    /\ UNCHANGED <<lib, call, fd, pos, good, counts, diskVars, nres, answered,
                   loaded>>

\* DumpSymbolsFile returns JNI_OK whatever dump_symbols_file returned.
Answer(t) == lib[t]

\* The result of renameTo is dropped too: symbol() returns OK.
Rename(t) ==
    LET n == Name[lib[t]] IN
    /\ pc[t] = "rename"
    /\ \/ /\ dir[t] # NullPath /\ temp[n] # NoFile
          /\ store' = [store EXCEPT ![dir[t]] = temp[n]]
          /\ temp' = [temp EXCEPT ![n] = NoFile]
          /\ UNCHANGED faults
       \/ /\ dir[t] # NullPath /\ temp[n] # NoFile
          /\ Fault
          /\ UNCHANGED <<temp, store>>
       \/ /\ dir[t] = NullPath \/ temp[n] = NoFile
          /\ UNCHANGED <<temp, store, faults>>
    /\ answered' = [answered EXCEPT ![call[t]] = Answer(t)]
    /\ Goto(t, "idle")
    /\ UNCHANGED <<localVars, otherCounts, content, nres, loaded>>

-----------------------------------------------------------------------------
(***************************************************************************)
(* translate(): the symbols of one module of a crash.                      *)
(***************************************************************************)

\* SimpleSymbolSupplier looks for the file (stat) ...
Lookup(t, l) ==
    /\ pc[t] = "idle"
    /\ nlookups < MaxLookups
    /\ nlookups' = nlookups + 1
    /\ lib' = [lib EXCEPT ![t] = l]
    /\ loaded' = [loaded EXCEPT ![t] = Empty]
    /\ IF store[Path(l)] # NoFile THEN Goto(t, "load") ELSE UNCHANGED pc
    /\ UNCHANGED <<call, fd, pos, good, dir, ncalls, ncrashes, faults,
                   diskVars, nres, answered>>

\* ... and reads it, whichever file is there by then.
Load(t) ==
    /\ pc[t] = "load"
    /\ loaded' = [loaded EXCEPT ![t] = content[store[Path(lib[t])]]]
    /\ Goto(t, "idle")
    /\ UNCHANGED <<localVars, counts, diskVars, nres, answered>>

-----------------------------------------------------------------------------
\* External.  The process crashes and the application is started again; the
\* files stay as they are.
Crash ==
    /\ ncrashes < MaxCrashes
    /\ ncrashes' = ncrashes + 1
    /\ pc' = [t \in Threads |-> "idle"]
    /\ loaded' = [t \in Threads |-> Empty]
    /\ UNCHANGED <<localVars, ncalls, nlookups, faults, diskVars, nres,
                   answered>>

SymbolStep(t) ==
    \/ Exists(t) \/ Delete(t) \/ Open(t) \/ ReadSymbols(t) \/ WriteRecord(t)
    \/ TargetPath(t) \/ Rename(t)

\* No call is in progress.
Rest ==
    /\ \A t \in Threads : pc[t] = "idle"
    /\ UNCHANGED vars

Next ==
    \/ \E t \in Symbolizers : SymbolStep(t) \/ \E l \in Libs : Symbol(t, l)
    \/ \E t \in Translators : Load(t) \/ \E l \in Libs : Lookup(t, l)
    \/ Crash
    \/ Rest

Spec == Init /\ [][Next]_vars

-----------------------------------------------------------------------------
(***************************************************************************)
(* Properties.                                                             *)
(***************************************************************************)
\* All records of l and nothing else.
SymbolsOf(l) ==
    [k \in Offsets |-> IF k \in DOMAIN Records[l] THEN l ELSE NoLib]

LocalType ==
    /\ pc \in [Threads -> {"idle", "exists", "delete", "open", "read", "write",
                           "target", "rename", "load"}]
    /\ lib \in [Threads -> Libs]
    /\ call \in [Threads -> 0..MaxCalls]
    /\ fd \in [Threads -> Calls \cup {NoFile}]
    /\ pos \in [Threads -> Offsets \cup {0}]
    /\ good \in [Threads -> BOOLEAN]
    /\ dir \in [Threads -> Paths \cup {NullPath}]
    /\ loaded \in [Threads -> [Offsets -> Libs \cup {NoLib}]]

CountType ==
    /\ ncalls \in 0..MaxCalls
    /\ nlookups \in 0..MaxLookups
    /\ ncrashes \in 0..MaxCrashes
    /\ faults \in 0..MaxFaults

DiskType ==
    /\ temp \in [Names -> Calls \cup {NoFile}]
    /\ store \in [Paths -> Calls \cup {NoFile}]
    /\ content \in [Calls -> [Offsets -> Libs \cup {NoLib}]]

ResultType ==
    /\ nres \in [Calls -> {"none", "ok", "error"}]
    /\ answered \in [Calls -> Libs \cup {NoLib}]

\* Every variable has its type: in particular a target directory is one of a
\* library's, and only files that were created are in the store.
TypeOK == LocalType /\ CountType /\ DiskType /\ ResultType

\* The temporary file makes publication atomic: with one thread in symbol(),
\* wherever the process crashes, a file in the store is the whole symbol file
\* of a library that belongs there.  As long as no operation on files fails:
\* symbol() also publishes what a failed write has left.
StoredComplete ==
    \A p \in Paths :
        faults = 0 /\ store[p] # NoFile =>
            \E l \in Libs : Target(l) = p /\ content[store[p]] = SymbolsOf(l)

\* With one thread in symbol(), whatever fails, and whatever an earlier crash
\* left at the temporary path, the symbols found at a path are those of a
\* library that belongs there.
StoredOwn ==
    \A p \in Paths :
        store[p] # NoFile =>
            \A k \in Offsets :
                LET l == content[store[p]][k] IN l # NoLib => Target(l) = p

\* translate() never works with part of a symbol file, although it looks for
\* the file and reads it in two steps while symbol() runs.  One thread in
\* symbol(), no failures.
LoadedWhole ==
    \A t \in Translators :
        faults = 0 /\ loaded[t] # Empty =>
            \E l \in Libs : /\ Target(l) = Path(lib[t])
                            /\ loaded[t] = SymbolsOf(l)

\* Threads that symbolize the same library at the same time delete, truncate
\* and move each other's temporary file, and yet: when none of them is busy
\* and nothing failed, a library for which symbol() returned OK has its whole
\* symbol file.  (Two builds with one name at the same time may be mixed up.)
AnsweredIsStored ==
    (\A t \in Symbolizers : pc[t] = "idle") =>
        \A c \in Calls :
            LET l == answered[c] IN
            l # NoLib => /\ store[Target(l)] # NoFile
                         /\ content[store[Target(l)]] = SymbolsOf(l)

\* What symbol() publishes stays published: no step makes a file of the store
\* incomplete or removes it.  One thread in symbol(), no failures.
PublishedStays ==
    [][\A l \in Libs :
          /\ faults' = 0
          /\ store[Target(l)] # NoFile
          /\ content[store[Target(l)]] = SymbolsOf(l)
          => /\ store'[Target(l)] # NoFile
             /\ content'[store'[Target(l)]] = SymbolsOf(l)]_vars

\* "dump so symbol file ... @return result code" (NativeBreakpader.java): a
\* dump that failed is not reported as OK.
DumpFailureReported ==
    \A c \in Calls : nres[c] = "error" => answered[c] = NoLib
=============================================================================
