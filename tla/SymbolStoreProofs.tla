-------------------------- MODULE SymbolStoreProofs -------------------------
(***************************************************************************)
(* Proofs about SymbolStore for any libraries, records, calls, crashes and *)
(* failures: what translate() finds at a path, and what a call of symbol() *)
(* that returned OK has left there, also when any number of threads        *)
(* symbolize one library at the same time.                                 *)
(***************************************************************************)
EXTENDS SymbolStore, TLAPS

Working == {"exists", "delete", "open", "read", "write", "target", "rename"}

\* Where a thread can be and what it has then: a call that was begun, an open
\* file, a record to write, a file to read.
ThreadInv ==
    \A t \in Threads :
        /\ pc[t] \in Working => t \in Symbolizers /\ call[t] \in 1..ncalls
        /\ pc[t] = "load" => /\ t \in Translators
                             /\ store[Path(lib[t])] # NoFile
        /\ pc[t] \in {"read", "write"} /\ good[t] => fd[t] \in Calls
        /\ pc[t] = "read" => pos[t] = 0
        /\ pc[t] = "write" => pos[t] < Len(Records[lib[t]])

\* The inductive invariant for any number of threads.
IndInv == TypeOK /\ ThreadInv

-----------------------------------------------------------------------------
(***************************************************************************)
(* One thread in symbol().                                                 *)
(***************************************************************************)
OneSymbolizer == \A t, u \in Symbolizers : t = u

\* A file has one name: the file of a new call is nowhere, and a temporary
\* file is neither in the store nor at another temporary path.
InodeInv ==
    /\ \A n \in Names : temp[n] <= ncalls
    /\ \A p \in Paths : store[p] <= ncalls
    /\ \A t \in Symbolizers :
            pc[t] \in {"exists", "delete", "open"} =>
                /\ \A n \in Names : temp[n] # call[t]
                /\ \A p \in Paths : store[p] # call[t]
    /\ \A n \in Names :
            temp[n] # NoFile => /\ \A p \in Paths : store[p] # temp[n]
                                /\ \A m \in Names : temp[m] = temp[n] => m = n

\* The first k records of l.
Written(l, k) ==
    [i \in Offsets |-> IF i \in DOMAIN Records[l] /\ i <= k THEN l ELSE NoLib]

\* A temporary file is about one library, the one its MODULE line names.
OneLibInv ==
    \A n \in Names : temp[n] # NoFile =>
        \A k \in Offsets : content[temp[n]][k] # NoLib =>
            content[temp[n]][k] = content[temp[n]][1]

\* The file a thread writes is the temporary file of its library, and it has
\* the records that were written.
OpenFileInv ==
    \A t \in Symbolizers :
        pc[t] \in {"read", "write"} /\ good[t] =>
            /\ fd[t] = temp[Name[lib[t]]]
            /\ content[fd[t]] = Written(lib[t], pos[t])

\* The target directory is that of the file to be moved.
DirInv ==
    \A t \in Symbolizers :
        LET f == temp[Name[lib[t]]] IN
        pc[t] = "rename" /\ dir[t] # NullPath =>
            /\ f # NoFile /\ ModuleOf(f) # NoLib
            /\ dir[t] = Target(ModuleOf(f))

ContentInv == OneLibInv /\ OpenFileInv /\ DirInv

\* Without failures the file to be moved is whole, or has no MODULE line.
WholeInv ==
    faults = 0 =>
        \A t \in Symbolizers :
            LET f == temp[Name[lib[t]]] IN
            /\ pc[t] \in {"read", "write"} => good[t]
            /\ pc[t] \in {"target", "rename"} =>
                   f # NoFile /\ content[f] \in {Empty, SymbolsOf(lib[t])}

OneInv == InodeInv /\ ContentInv /\ StoredOwn /\ WholeInv /\ StoredComplete
              /\ LoadedWhole

-----------------------------------------------------------------------------
(***************************************************************************)
(* Any number of threads that symbolize one library.                       *)
(***************************************************************************)
\* Thread t is going to write record k of file f.
WillWrite(t, f, k) ==
    /\ pc[t] \in {"read", "write"} /\ fd[t] = f
    /\ pos[t] < k

\* Nothing fails, so streams stay good.
GoodInv == \A t \in Symbolizers : pc[t] \in {"read", "write"} => good[t]

\* A record that a file lacks is going to be written.
RecordInv ==
    \A f \in Calls : (\E n \in Names : temp[n] = f)
                     \/ (\E p \in Paths : store[p] = f) =>
        \A k \in Offsets :
            \/ content[f][k] # NoLib
            \/ \E t \in Symbolizers : WillWrite(t, f, k)

\* Thread t is going to publish the file at the temporary path of library l,
\* or one it will put there.
WillPublish(t, l) ==
    LET f == temp[Name[l]] IN
    \/ pc[t] = "open"
    \/ f # NoFile /\ pc[t] = "delete"
    \/ f # NoFile /\ pc[t] \in {"read", "write"} /\ fd[t] = f
    \/ f # NoFile /\ pc[t] = "target" /\ ModuleOf(f) # NoLib
    \/ f # NoFile /\ pc[t] = "rename" /\ dir[t] # NullPath

\* Some call has got as far as opening the temporary file.
Begun ==
    \/ \E n \in Names : temp[n] # NoFile
    \/ \E t \in Symbolizers : pc[t] \in {"read", "write", "target", "rename"}
    \/ \E c \in Calls : answered[c] # NoLib

\* As long as nothing is published, someone is going to publish.
PublishInv ==
    \A l \in Libs :
        Begun /\ store[Target(l)] = NoFile =>
            \E t \in Symbolizers : WillPublish(t, l)

\* A file is moved to the directory of a library.
TargetInv ==
    \A t \in Symbolizers :
        dir[t] # NullPath => \E l \in Libs : dir[t] = Target(l)

ManyInv == GoodInv /\ RecordInv /\ PublishInv /\ TargetInv

\* All threads symbolize one library, which can be read; nothing fails and the
\* process does not crash.
OneLibrary == \E l \in Readable : Libs = {l}
NoFailures == MaxFaults = 0 /\ MaxCrashes = 0

-----------------------------------------------------------------------------
\* What the names and paths of the library a thread works on are.
LEMMA LibTypes ==
    ASSUME TypeOK, NEW t \in Threads
    PROVE  /\ lib[t] \in Libs /\ Name[lib[t]] \in Names
           /\ Path(lib[t]) \in Paths /\ Target(lib[t]) \in Paths
           /\ 1 \in Offsets
<1>1. lib[t] \in Libs
  BY DEF TypeOK, LocalType
<1>2. 1 \in DOMAIN Records[lib[t]]
  BY <1>1, StoreAssumption DEF RecordKinds
<1> QED
  BY <1>1, <1>2 DEF Names, Paths, Offsets

\* A thread in symbol() has a call.
LEMMA CallType ==
    ASSUME IndInv, NEW t \in Threads, pc[t] \in Working
    PROVE  call[t] \in Calls
BY StoreAssumption DEF IndInv, TypeOK, CountType, ThreadInv, Calls

\* The file that file.open creates or truncates.
OpenedFile(t) ==
    IF temp[Name[lib[t]]] = NoFile THEN call[t] ELSE temp[Name[lib[t]]]

LEMMA OpenedType ==
    ASSUME IndInv, NEW t \in Threads, pc[t] = "open"
    PROVE  OpenedFile(t) \in Calls
<1>1. call[t] \in Calls
  BY CallType DEF Working
<1>2. temp[Name[lib[t]]] \in Calls \cup {NoFile}
  BY LibTypes DEF IndInv, TypeOK, DiskType
<1> QED
  BY <1>1, <1>2 DEF OpenedFile

\* A thread that writes has a record to write.
LEMMA NextRecord ==
    ASSUME IndInv, NEW t \in Threads, pc[t] = "write"
    PROVE  /\ pos[t] \in Nat /\ pos[t] + 1 \in DOMAIN Records[lib[t]]
           /\ DOMAIN Records[lib[t]] = 1..Len(Records[lib[t]])
           /\ Len(Records[lib[t]]) \in Nat
           /\ pos[t] + 1 \in Offsets
<1>1. lib[t] \in Libs /\ Records[lib[t]] \in Seq(RecordKinds)
  BY StoreAssumption, LibTypes DEF IndInv
<1>2. /\ DOMAIN Records[lib[t]] = 1..Len(Records[lib[t]])
      /\ Len(Records[lib[t]]) \in Nat
  BY <1>1
<1>3. \A l \in Libs : DOMAIN Records[l] \subseteq Nat
  BY StoreAssumption
<1>4. pos[t] \in Nat /\ pos[t] < Len(Records[lib[t]])
  BY <1>3 DEF IndInv, TypeOK, LocalType, ThreadInv, Offsets
<1>5. pos[t] + 1 \in DOMAIN Records[lib[t]]
  BY <1>2, <1>4
<1> QED
  BY <1>1, <1>2, <1>4, <1>5 DEF Offsets

\* Every step keeps every variable in its domain.
LEMMA TypeStep == IndInv /\ [Next]_vars => TypeOK'
<1> SUFFICES ASSUME IndInv, [Next]_vars PROVE TypeOK'
  OBVIOUS
<1> USE StoreAssumption DEF IndInv
<1>1. CASE UNCHANGED vars
  BY <1>1 DEF vars, localVars, counts, diskVars, TypeOK, LocalType, CountType,
     DiskType, ResultType
<1>2. ASSUME NEW t \in Symbolizers, Exists(t)
      PROVE  TypeOK'
  <2> t \in Threads
    BY DEF Threads
  <2>1. LocalType'
    BY <1>2 DEF Exists, Goto, localVars, counts, diskVars, TypeOK, LocalType
  <2>2. CountType'
    BY <1>2 DEF Exists, Goto, localVars, counts, diskVars, TypeOK, CountType
  <2>3. DiskType'
    BY <1>2 DEF Exists, Goto, localVars, counts, diskVars, TypeOK, DiskType
  <2>4. ResultType'
    BY <1>2 DEF Exists, Goto, localVars, counts, diskVars, TypeOK, ResultType
  <2> QED
    BY <2>1, <2>2, <2>3, <2>4 DEF TypeOK
<1>3. ASSUME NEW t \in Symbolizers, Delete(t)
      PROVE  TypeOK'
  <2> t \in Threads
    BY DEF Threads
  <2>1. LocalType'
    BY <1>3 DEF Delete, Fault, Goto, localVars, otherCounts, TypeOK, LocalType
  <2>2. CountType'
    BY <1>3 DEF Delete, Fault, Goto, localVars, otherCounts, TypeOK, CountType
  <2>3. DiskType'
    BY <1>3, LibTypes DEF Delete, TypeOK, DiskType
  <2>4. ResultType'
    BY <1>3 DEF Delete, Fault, Goto, localVars, otherCounts, TypeOK, ResultType
  <2> QED
    BY <2>1, <2>2, <2>3, <2>4 DEF TypeOK
<1>4. ASSUME NEW t \in Symbolizers, Open(t)
      PROVE  TypeOK'
  <2> t \in Threads
    BY DEF Threads
  <2>1. LocalType'
    <3>1. OpenedFile(t) \in Calls
      BY <1>4, OpenedType DEF Open
    <3> QED
      BY <1>4, <3>1 DEF Open, OpenedFile, Goto, TypeOK, LocalType
  <2>2. CountType'
    BY <1>4 DEF Open, Fault, Goto, otherCounts, TypeOK, CountType
  <2>3. DiskType'
    <3>1. OpenedFile(t) \in Calls /\ Name[lib[t]] \in Names
      BY <1>4, OpenedType, LibTypes DEF Open
    <3>2. Empty \in [Offsets -> Libs \cup {NoLib}]
      BY DEF Empty
    <3>3. temp' \in [Names -> Calls \cup {NoFile}]
      BY <1>4, <3>1 DEF Open, OpenedFile, TypeOK, DiskType
    <3>4. \/ content' = [content EXCEPT ![OpenedFile(t)] = Empty]
          \/ content' = content
      BY <1>4 DEF Open, OpenedFile
    <3>5. content' \in [Calls -> [Offsets -> Libs \cup {NoLib}]]
      BY <3>2, <3>4 DEF TypeOK, DiskType
    <3> QED
      BY <1>4, <3>3, <3>5 DEF Open, TypeOK, DiskType
  <2>4. ResultType'
    BY <1>4 DEF Open, Fault, Goto, otherCounts, TypeOK, ResultType
  <2> QED
    BY <2>1, <2>2, <2>3, <2>4 DEF TypeOK
<1>5. ASSUME NEW t \in Symbolizers, ReadSymbols(t)
      PROVE  TypeOK'
  <2> t \in Threads
    BY DEF Threads
  <2>1. LocalType'
    BY <1>5 DEF ReadSymbols, DumpReturns, Goto, localVars, counts, diskVars,
       TypeOK, LocalType
  <2>2. CountType'
    BY <1>5 DEF ReadSymbols, DumpReturns, Goto, localVars, counts, diskVars,
       TypeOK, CountType
  <2>3. DiskType'
    BY <1>5 DEF ReadSymbols, DumpReturns, Goto, localVars, counts, diskVars,
       TypeOK, DiskType
  <2>4. ResultType'
    <3>1. call[t] \in Calls
      BY <1>5, CallType DEF ReadSymbols, Working
    <3> QED
      BY <1>5, <3>1 DEF ReadSymbols, DumpReturns, TypeOK, ResultType
  <2> QED
    BY <2>1, <2>2, <2>3, <2>4 DEF TypeOK
<1>6. ASSUME NEW t \in Symbolizers, WriteRecord(t)
      PROVE  TypeOK'
  <2> t \in Threads
    BY DEF Threads
  <2>1. LocalType'
    <3>1. pos[t] + 1 \in Offsets
      BY <1>6, NextRecord DEF WriteRecord
    <3> QED
      BY <1>6, <3>1 DEF WriteRecord, DumpReturns, Goto, TypeOK, LocalType
  <2>2. CountType'
    BY <1>6 DEF WriteRecord, DumpReturns, Fault, Goto, otherCounts, TypeOK,
       CountType
  <2>3. DiskType'
    <3>1. lib[t] \in Libs
      BY DEF TypeOK, LocalType
    <3>2. CASE content' = [content EXCEPT ![fd[t]][pos[t] + 1] = lib[t]]
      BY <1>6, <3>1, <3>2 DEF WriteRecord, TypeOK, DiskType
    <3>3. CASE UNCHANGED content
      BY <1>6, <3>3 DEF WriteRecord, TypeOK, DiskType
    <3> QED
      BY <1>6, <3>2, <3>3 DEF WriteRecord
  <2>4. ResultType'
    <3>1. call[t] \in Calls
      BY <1>6, CallType DEF WriteRecord, Working
    <3> QED
      BY <1>6, <3>1 DEF WriteRecord, DumpReturns, TypeOK, ResultType
  <2> QED
    BY <2>1, <2>2, <2>3, <2>4 DEF TypeOK
<1>7. ASSUME NEW t \in Symbolizers, TargetPath(t)
      PROVE  TypeOK'
  <2> t \in Threads
    BY DEF Threads
  <2>1. LocalType'
    <3> DEFINE f == temp[Name[lib[t]]]
    <3>1. f \in Calls \cup {NoFile}
      BY LibTypes DEF TypeOK, DiskType
    <3>2. f # NoFile => ModuleOf(f) \in Libs \cup {NoLib}
      BY <3>1, LibTypes DEF TypeOK, DiskType, ModuleOf
    <3>3. \A l \in Libs : Target(l) \in Paths
      BY DEF Paths
    <3>4. dir' \in [Threads -> Paths \cup {NullPath}]
      BY <1>7, <3>1, <3>2, <3>3 DEF TargetPath, TargetOf, TypeOK, LocalType
    <3> QED
      BY <1>7, <3>4 DEF TargetPath, Goto, TypeOK, LocalType
  <2>2. CountType'
    BY <1>7 DEF TargetPath, TargetOf, Goto, counts, diskVars, TypeOK, CountType
  <2>3. DiskType'
    BY <1>7 DEF TargetPath, TargetOf, Goto, counts, diskVars, TypeOK, DiskType
  <2>4. ResultType'
    BY <1>7 DEF TargetPath, TargetOf, Goto, counts, diskVars, TypeOK,
       ResultType
  <2> QED
    BY <2>1, <2>2, <2>3, <2>4 DEF TypeOK
<1>8. ASSUME NEW t \in Symbolizers, Rename(t)
      PROVE  TypeOK'
  <2> t \in Threads
    BY DEF Threads
  <2>1. LocalType'
    BY <1>8 DEF Rename, Answer, Fault, Goto, localVars, otherCounts, TypeOK,
       LocalType
  <2>2. CountType'
    BY <1>8 DEF Rename, Answer, Fault, Goto, localVars, otherCounts, TypeOK,
       CountType
  <2>3. DiskType'
    <3>1. Name[lib[t]] \in Names
      BY LibTypes
    <3>2. dir[t] # NullPath => dir[t] \in Paths
      BY DEF TypeOK, LocalType
    <3>3. temp' \in [Names -> Calls \cup {NoFile}]
      BY <1>8, <3>1 DEF Rename, TypeOK, DiskType
    <3>4. store' \in [Paths -> Calls \cup {NoFile}]
      BY <1>8, <3>1, <3>2 DEF Rename, TypeOK, DiskType
    <3> QED
      BY <1>8, <3>3, <3>4 DEF Rename, TypeOK, DiskType
  <2>4. ResultType'
    <3>1. call[t] \in Calls /\ lib[t] \in Libs
      BY <1>8, CallType, LibTypes DEF Rename, Working
    <3> QED
      BY <1>8, <3>1 DEF Rename, Answer, TypeOK, ResultType
  <2> QED
    BY <2>1, <2>2, <2>3, <2>4 DEF TypeOK
<1>9. ASSUME NEW t \in Symbolizers, NEW l \in Libs, Symbol(t, l)
      PROVE  TypeOK'
  <2> t \in Threads
    BY DEF Threads
  <2>1. LocalType'
    <3>1. ncalls + 1 \in 0..MaxCalls
      BY <1>9 DEF Symbol, TypeOK, CountType
    <3> QED
      BY <1>9, <3>1 DEF Symbol, Goto, TypeOK, LocalType
  <2>2. CountType'
    BY <1>9 DEF Symbol, Goto, diskVars, TypeOK, CountType
  <2>3. DiskType'
    BY <1>9 DEF Symbol, Goto, diskVars, TypeOK, DiskType
  <2>4. ResultType'
    BY <1>9 DEF Symbol, Goto, diskVars, TypeOK, ResultType
  <2> QED
    BY <2>1, <2>2, <2>3, <2>4 DEF TypeOK
<1>10. ASSUME NEW t \in Translators, Load(t)
      PROVE  TypeOK'
  <2> t \in Threads
    BY DEF Threads
  <2>1. LocalType'
    <3>1. store[Path(lib[t])] \in Calls
      BY <1>10, LibTypes DEF Load, ThreadInv, TypeOK, DiskType
    <3>2. content[store[Path(lib[t])]] \in [Offsets -> Libs \cup {NoLib}]
      BY <3>1 DEF TypeOK, DiskType
    <3> QED
      BY <1>10, <3>2 DEF Load, Goto, localVars, TypeOK, LocalType
  <2>2. CountType'
    BY <1>10 DEF Load, Goto, localVars, counts, diskVars, TypeOK, CountType
  <2>3. DiskType'
    BY <1>10 DEF Load, Goto, localVars, counts, diskVars, TypeOK, DiskType
  <2>4. ResultType'
    BY <1>10 DEF Load, Goto, localVars, counts, diskVars, TypeOK, ResultType
  <2> QED
    BY <2>1, <2>2, <2>3, <2>4 DEF TypeOK
<1>11. ASSUME NEW t \in Translators, NEW l \in Libs, Lookup(t, l)
      PROVE  TypeOK'
  <2> t \in Threads
    BY DEF Threads
  <2>1. LocalType'
    <3>1. Empty \in [Offsets -> Libs \cup {NoLib}]
      BY DEF Empty
    <3> QED
      BY <1>11, <3>1 DEF Lookup, Goto, TypeOK, LocalType
  <2>2. CountType'
    BY <1>11 DEF Lookup, Goto, diskVars, TypeOK, CountType
  <2>3. DiskType'
    BY <1>11 DEF Lookup, Goto, diskVars, TypeOK, DiskType
  <2>4. ResultType'
    BY <1>11 DEF Lookup, Goto, diskVars, TypeOK, ResultType
  <2> QED
    BY <2>1, <2>2, <2>3, <2>4 DEF TypeOK
<1>12. CASE Crash
  <2>1. LocalType'
    <3>1. Empty \in [Offsets -> Libs \cup {NoLib}]
      BY DEF Empty
    <3> QED
      BY <1>12, <3>1 DEF Crash, localVars, TypeOK, LocalType
  <2>2. CountType'
    BY <1>12 DEF Crash, localVars, diskVars, TypeOK, CountType
  <2>3. DiskType'
    BY <1>12 DEF Crash, localVars, diskVars, TypeOK, DiskType
  <2>4. ResultType'
    BY <1>12 DEF Crash, localVars, diskVars, TypeOK, ResultType
  <2> QED
    BY <2>1, <2>2, <2>3, <2>4 DEF TypeOK
<1> QED
  BY <1>1, <1>2, <1>3, <1>4, <1>5, <1>6, <1>7, <1>8, <1>9, <1>10, <1>11,
     <1>12 DEF Next, SymbolStep, Rest
-----------------------------------------------------------------------------
\* Threads stay where they can be.
LEMMA ThreadStep == IndInv /\ [Next]_vars => ThreadInv'
<1> SUFFICES ASSUME IndInv, [Next]_vars PROVE ThreadInv'
  OBVIOUS
<1> USE StoreAssumption DEF IndInv
<1>1. CASE UNCHANGED vars
  BY <1>1 DEF vars, localVars, counts, diskVars, ThreadInv
<1>2. ASSUME NEW t \in Symbolizers, Exists(t)
      PROVE  ThreadInv'
  <2> t \in Threads
    BY DEF Threads
  <2> QED
    BY <1>2 DEF Exists, Goto, localVars, counts, diskVars, TypeOK, LocalType,
       ThreadInv, Working
<1>3. ASSUME NEW t \in Symbolizers, Delete(t)
      PROVE  ThreadInv'
  <2> t \in Threads
    BY DEF Threads
  <2> QED
    BY <1>3 DEF Delete, Fault, Goto, localVars, otherCounts, TypeOK, LocalType,
       ThreadInv, Working
<1>4. ASSUME NEW t \in Symbolizers, Open(t)
      PROVE  ThreadInv'
  <2> t \in Threads
    BY DEF Threads
  <2>1. OpenedFile(t) \in Calls
    BY <1>4, OpenedType DEF Open
  <2> QED
    BY <1>4, <2>1 DEF Open, OpenedFile, Goto, otherCounts, TypeOK, LocalType,
       ThreadInv, Working
<1>5. ASSUME NEW t \in Symbolizers, ReadSymbols(t)
      PROVE  ThreadInv'
  <2> t \in Threads
    BY DEF Threads
  <2>1. 0 < Len(Records[lib[t]])
    BY LibTypes DEF RecordKinds
  <2> QED
    BY <1>5, <2>1 DEF ReadSymbols, DumpReturns, Goto, localVars, counts,
       diskVars, TypeOK, LocalType, ThreadInv, Working
<1>6. ASSUME NEW t \in Symbolizers, WriteRecord(t)
      PROVE  ThreadInv'
  <2> t \in Threads
    BY DEF Threads
  <2>1. /\ pos[t] \in Nat /\ Len(Records[lib[t]]) \in Nat
        /\ pos[t] + 1 <= Len(Records[lib[t]])
    BY <1>6, NextRecord DEF WriteRecord
  <2>2. UNCHANGED <<lib, call, fd, ncalls, store>>
    BY <1>6 DEF WriteRecord, otherCounts
  <2>3. \A u \in Threads : u # t =>
            /\ pc'[u] = pc[u] /\ pos'[u] = pos[u] /\ good'[u] = good[u]
    BY <1>6 DEF WriteRecord, DumpReturns, Goto, TypeOK, LocalType
  <2>4. /\ pc[t] = "write" /\ pc'[t] \in {"write", "target"}
        /\ good'[t] => good[t]
        /\ pos'[t] = pos[t] + 1
        /\ pc'[t] = "write" => pos[t] + 1 # Len(Records[lib[t]])
    BY <1>6 DEF WriteRecord, DumpReturns, LastRecord, Goto, TypeOK, LocalType
  <2>5. ASSUME NEW u \in Threads, u # t
        PROVE  /\ pc'[u] \in Working => /\ u \in Symbolizers
                                        /\ call'[u] \in 1..ncalls'
               /\ pc'[u] = "load" => /\ u \in Translators
                                     /\ store'[Path(lib'[u])] # NoFile
               /\ pc'[u] \in {"read", "write"} /\ good'[u] => fd'[u] \in Calls
               /\ pc'[u] = "read" => pos'[u] = 0
               /\ pc'[u] = "write" => pos'[u] < Len(Records[lib'[u]])
    BY <2>2, <2>3, <2>5 DEF ThreadInv
  <2>6. /\ pc'[t] \in Working => /\ t \in Symbolizers
                                 /\ call'[t] \in 1..ncalls'
        /\ pc'[t] \in {"read", "write"} /\ good'[t] => fd'[t] \in Calls
        /\ pc'[t] = "write" => pos'[t] < Len(Records[lib'[t]])
    BY <2>1, <2>2, <2>4 DEF ThreadInv, Working
  <2> QED
    BY <2>4, <2>5, <2>6 DEF ThreadInv
<1>7. ASSUME NEW t \in Symbolizers, TargetPath(t)
      PROVE  ThreadInv'
  <2> t \in Threads
    BY DEF Threads
  <2> QED
    BY <1>7 DEF TargetPath, TargetOf, Goto, counts, diskVars, TypeOK,
       LocalType, ThreadInv, Working
<1>8. ASSUME NEW t \in Symbolizers, Rename(t)
      PROVE  ThreadInv'
  <2> t \in Threads
    BY DEF Threads
  <2>1. ASSUME NEW p \in Paths, store[p] # NoFile PROVE store'[p] # NoFile
    BY <1>8, <2>1, LibTypes DEF Rename, TypeOK, DiskType
  <2>2. \A u \in Threads : Path(lib[u]) \in Paths
    BY LibTypes
  <2> QED
    BY <1>8, <2>1, <2>2 DEF Rename, Goto, localVars, otherCounts, TypeOK,
       LocalType, ThreadInv, Working
<1>9. ASSUME NEW t \in Symbolizers, NEW l \in Libs, Symbol(t, l)
      PROVE  ThreadInv'
  <2> t \in Threads
    BY DEF Threads
  <2>1. ncalls + 1 \in 1..(ncalls + 1) /\ \A c \in 1..ncalls : c \in 1..ncalls'
    BY <1>9 DEF Symbol, TypeOK, CountType
  <2> QED
    BY <1>9, <2>1 DEF Symbol, Goto, diskVars, TypeOK, LocalType, ThreadInv,
       Working
<1>10. ASSUME NEW t \in Translators, Load(t)
      PROVE  ThreadInv'
  <2> t \in Threads
    BY DEF Threads
  <2> QED
    BY <1>10 DEF Load, Goto, localVars, counts, diskVars, TypeOK, LocalType,
       ThreadInv, Working
<1>11. ASSUME NEW t \in Translators, NEW l \in Libs, Lookup(t, l)
      PROVE  ThreadInv'
  <2> t \in Threads
    BY DEF Threads
  <2> QED
    BY <1>11 DEF Lookup, Goto, diskVars, TypeOK, LocalType, ThreadInv, Working
<1>12. CASE Crash
  BY <1>12 DEF Crash, ThreadInv, Working
<1> QED
  BY <1>1, <1>2, <1>3, <1>4, <1>5, <1>6, <1>7, <1>8, <1>9, <1>10, <1>11,
     <1>12 DEF Next, SymbolStep, Rest
-----------------------------------------------------------------------------

\* The initial state: no call has begun.
LEMMA InitIndInv == Init => IndInv
<1> SUFFICES ASSUME Init PROVE IndInv
  OBVIOUS
<1> USE StoreAssumption DEF Init
<1>1. Empty \in [Offsets -> Libs \cup {NoLib}]
  BY DEF Empty
<1>2. LocalType
  BY <1>1 DEF LocalType
<1>3. CountType /\ DiskType /\ ResultType
  <2>1. CountType
    BY DEF CountType
  <2>2. DiskType /\ ResultType
    BY <1>1 DEF DiskType, ResultType
  <2> QED
    BY <2>1, <2>2
<1>4. ThreadInv
  BY DEF ThreadInv, Working
<1> QED
  BY <1>2, <1>3, <1>4 DEF IndInv, TypeOK

\* The invariant of every thread is inductive.
LEMMA IndInvHolds == Spec => []IndInv
<1>1. IndInv /\ [Next]_vars => IndInv'
  BY TypeStep, ThreadStep DEF IndInv
<1> QED
  BY <1>1, InitIndInv, PTL DEF Spec

\* Type correctness, for any number of threads: what getSymbolTargetPath
\* names is the directory of a library, and the store holds files that calls
\* of symbol() created.
THEOREM TypeCorrect == Spec => []TypeOK
<1>1. IndInv => TypeOK
  BY DEF IndInv
<1> QED
  BY <1>1, IndInvHolds, PTL

-----------------------------------------------------------------------------
(***************************************************************************)
(* One thread in symbol().                                                 *)
(***************************************************************************)
\* The prefixes of a symbol file: none of it, all of it, one record more.
LEMMA Prefixes ==
    ASSUME NEW l \in Libs
    PROVE  /\ Written(l, 0) = Empty
           /\ Written(l, Len(Records[l])) = SymbolsOf(l)
           /\ \A k \in DOMAIN Records[l] :
                 [Written(l, k - 1) EXCEPT ![k] = l] = Written(l, k)
           /\ 1 \in DOMAIN Records[l] /\ 1 \in Offsets
<1>1. Records[l] \in Seq(RecordKinds) /\ Records[l] # <<>>
  BY StoreAssumption
<1>2. DOMAIN Records[l] = 1..Len(Records[l]) /\ Len(Records[l]) \in Nat \ {0}
  BY <1>1
<1>3. DOMAIN Records[l] \subseteq Offsets
  BY DEF Offsets
<1>4. \A m \in Libs : DOMAIN Records[m] \subseteq Nat \ {0}
  BY StoreAssumption
<1>5. Offsets \subseteq Nat \ {0}
  BY <1>4 DEF Offsets
<1>6. Written(l, 0) = Empty
  BY <1>5 DEF Written, Empty
<1>7. Written(l, Len(Records[l])) = SymbolsOf(l)
  BY <1>2 DEF Written, SymbolsOf
<1>8. ASSUME NEW k \in DOMAIN Records[l]
      PROVE  [Written(l, k - 1) EXCEPT ![k] = l] = Written(l, k)
  <2>1. k \in Offsets /\ k \in Nat
    BY <1>2, <1>3
  <2>2. \A i \in Offsets : i # k => (i <= k - 1 <=> i <= k)
    BY <1>5, <2>1
  <2> DEFINE w == [Written(l, k - 1) EXCEPT ![k] = l]
  <2>3. w = [i \in Offsets |-> IF i = k THEN l ELSE Written(l, k - 1)[i]]
    BY DEF Written
  <2>4. ASSUME NEW i \in Offsets
        PROVE  (IF i = k THEN l ELSE Written(l, k - 1)[i])
                 = IF i \in DOMAIN Records[l] /\ i <= k THEN l ELSE NoLib
    <3>1. CASE i = k
      BY <2>1, <3>1
    <3>2. CASE i # k
      BY <2>2, <3>2 DEF Written
    <3> QED
      BY <3>1, <3>2
  <2> QED
    BY <2>3, <2>4 DEF Written
<1> QED
  BY <1>2, <1>3, <1>6, <1>7, <1>8

\* Only a rename changes the store: it puts the temporary file there.
LEMMA StoreMoves ==
    ASSUME [Next]_vars
    PROVE  \/ UNCHANGED store
           \/ \E t \in Symbolizers :
                 /\ Rename(t) /\ dir[t] # NullPath
                 /\ temp[Name[lib[t]]] # NoFile /\ UNCHANGED content
                 /\ store' = [store EXCEPT ![dir[t]] = temp[Name[lib[t]]]]
<1>1. CASE UNCHANGED vars
  BY <1>1 DEF vars, diskVars
<1>2. ASSUME NEW t \in Symbolizers, SymbolStep(t), ~Rename(t)
      PROVE  UNCHANGED store
  BY <1>2 DEF SymbolStep, Exists, Delete, Open, ReadSymbols, WriteRecord,
     TargetPath, diskVars
<1>3. ASSUME NEW t \in Symbolizers, Rename(t), store' # store
      PROVE  /\ dir[t] # NullPath /\ temp[Name[lib[t]]] # NoFile
             /\ UNCHANGED content
             /\ store' = [store EXCEPT ![dir[t]] = temp[Name[lib[t]]]]
  BY <1>3 DEF Rename
<1>4. ASSUME NEW t \in Threads, NEW l \in Libs,
             Symbol(t, l) \/ Lookup(t, l) \/ Load(t) \/ Crash
      PROVE  UNCHANGED store
  BY <1>4 DEF Symbol, Lookup, Load, Crash, diskVars
<1>5. ASSUME NEW t \in Threads, Load(t) \/ Crash
      PROVE  UNCHANGED store
  BY <1>5 DEF Load, Crash, diskVars
<1>6. CASE Crash
  BY <1>6 DEF Crash, diskVars
<1> QED
  BY <1>1, <1>2, <1>3, <1>4, <1>5, <1>6 DEF Next, Rest, Threads

\* A file in the store is never written to: what is open is the temporary
\* file, and a file has one name.
LEMMA StoredUntouched ==
    ASSUME OneSymbolizer, IndInv, OneInv, [Next]_vars,
           NEW p \in Paths, store[p] # NoFile
    PROVE  content'[store[p]] = content[store[p]]
<1>1. store[p] \in Calls
  BY DEF IndInv, TypeOK, DiskType
<1>2. ASSUME NEW t \in Symbolizers, Open(t)
      PROVE  content'[store[p]] = content[store[p]]
  <2>1. t \in Threads
    BY DEF Threads
  <2>2. OpenedFile(t) # store[p]
    BY <1>2, <2>1, LibTypes DEF Open, OpenedFile, OneInv, InodeInv, IndInv
  <2>3. OpenedFile(t) \in Calls
    BY <1>2, <2>1, OpenedType DEF Open
  <2>4. \/ content' = [content EXCEPT ![OpenedFile(t)] = Empty]
        \/ content' = content
    BY <1>2 DEF Open, OpenedFile
  <2> QED
    BY <1>1, <2>2, <2>4 DEF IndInv, TypeOK, DiskType
<1>3. ASSUME NEW t \in Symbolizers, WriteRecord(t)
      PROVE  content'[store[p]] = content[store[p]]
  <2>1. t \in Threads
    BY DEF Threads
  <2>2. CASE ~good[t]
    BY <1>3, <2>2 DEF WriteRecord
  <2>3. CASE good[t]
    <3>1. fd[t] = temp[Name[lib[t]]] /\ fd[t] \in Calls
      BY <1>3, <2>1, <2>3 DEF WriteRecord, OneInv, ContentInv,
         OpenFileInv, IndInv, ThreadInv
    <3>2. fd[t] # store[p]
      BY <2>1, <3>1, LibTypes DEF OneInv, InodeInv, IndInv, Calls, NoFile
    <3>3. \/ content' = content
          \/ content' = [content EXCEPT ![fd[t]][pos[t] + 1] = lib[t]]
      BY <1>3 DEF WriteRecord
    <3> QED
      BY <1>1, <3>2, <3>3 DEF IndInv, TypeOK, DiskType
  <2> QED
    BY <2>2, <2>3
<1>4. ASSUME NEW t \in Symbolizers, SymbolStep(t), ~Open(t), ~WriteRecord(t)
      PROVE  UNCHANGED content
  BY <1>4 DEF SymbolStep, Exists, Delete, ReadSymbols, TargetPath, Rename,
     diskVars
<1>5. ASSUME NEW t \in Threads, NEW l \in Libs, Symbol(t, l) \/ Lookup(t, l)
      PROVE  UNCHANGED content
  BY <1>5 DEF Symbol, Lookup, diskVars
<1>6. ASSUME NEW t \in Threads, Load(t)
      PROVE  UNCHANGED content
  BY <1>6 DEF Load, diskVars
<1>7. CASE Crash \/ UNCHANGED vars
  BY <1>7 DEF Crash, vars, diskVars
<1> QED
  BY <1>2, <1>3, <1>4, <1>5, <1>6, <1>7 DEF Next, Rest, Threads

\* Failures are counted up.
LEMMA FaultsGrow ==
    ASSUME IndInv, [Next]_vars, faults' = 0
    PROVE  faults = 0
<1>1. faults \in Nat
  BY StoreAssumption DEF IndInv, TypeOK, CountType
<1>2. faults' = faults \/ faults' = faults + 1
  BY DEF Next, SymbolStep, Exists, Delete, Open, ReadSymbols, WriteRecord,
     TargetPath, Rename, Symbol, Lookup, Load, Crash, Rest, Fault, vars,
     counts
<1> QED
  BY <1>1, <1>2

\* What is moved to the store is about the library of the directory.
LEMMA OwnStep == OneSymbolizer /\ IndInv /\ OneInv /\ [Next]_vars => StoredOwn'
<1> SUFFICES ASSUME OneSymbolizer, IndInv, OneInv, [Next]_vars,
                    NEW p \in Paths, store'[p] # NoFile, NEW k \in Offsets,
                    content'[store'[p]][k] # NoLib
             PROVE  Target(content'[store'[p]][k]) = p
  BY DEF StoredOwn
<1>1. CASE store'[p] = store[p]
  <2>1. content'[store[p]] = content[store[p]]
    BY <1>1, StoredUntouched
  <2> QED
    BY <1>1, <2>1 DEF OneInv, StoredOwn
<1>2. CASE store'[p] # store[p]
  <2>1. PICK t \in Symbolizers :
            /\ Rename(t) /\ dir[t] # NullPath
            /\ temp[Name[lib[t]]] # NoFile /\ UNCHANGED content
            /\ store' = [store EXCEPT ![dir[t]] = temp[Name[lib[t]]]]
    BY <1>2, StoreMoves
  <2> DEFINE f == temp[Name[lib[t]]]
  <2>2. t \in Threads /\ pc[t] = "rename" /\ Name[lib[t]] \in Names
    BY <2>1, LibTypes DEF Threads, Rename, IndInv
  <2>3. store'[p] = f /\ dir[t] = p
    BY <1>2, <2>1 DEF IndInv, TypeOK, DiskType
  <2>4. dir[t] = Target(content[f][1])
    BY <2>1, <2>2 DEF OneInv, ContentInv, DirInv, ModuleOf
  <2>5. content[f][k] = content[f][1]
    BY <2>1, <2>2, <2>3 DEF OneInv, ContentInv, OneLibInv
  <2> QED
    BY <2>1, <2>3, <2>4, <2>5
<1> QED
  BY <1>1, <1>2

\* Without failures what is moved to the store is whole.
LEMMA CompleteStep ==
    OneSymbolizer /\ IndInv /\ OneInv /\ [Next]_vars => StoredComplete'
<1> SUFFICES ASSUME OneSymbolizer, IndInv, OneInv, [Next]_vars,
                    NEW p \in Paths, faults' = 0, store'[p] # NoFile
             PROVE  \E l \in Libs : /\ Target(l) = p
                                    /\ content'[store'[p]] = SymbolsOf(l)
  BY DEF StoredComplete
<1>1. faults = 0
  BY FaultsGrow
<1>2. CASE store'[p] = store[p]
  <2>1. content'[store[p]] = content[store[p]]
    BY <1>2, StoredUntouched
  <2> QED
    BY <1>1, <1>2, <2>1 DEF OneInv, StoredComplete
<1>3. CASE store'[p] # store[p]
  <2>1. PICK t \in Symbolizers :
            /\ Rename(t) /\ dir[t] # NullPath
            /\ temp[Name[lib[t]]] # NoFile /\ UNCHANGED content
            /\ store' = [store EXCEPT ![dir[t]] = temp[Name[lib[t]]]]
    BY <1>3, StoreMoves
  <2> DEFINE f == temp[Name[lib[t]]]
  <2>2. t \in Threads /\ pc[t] = "rename" /\ lib[t] \in Libs
    BY <2>1, LibTypes DEF Threads, Rename, IndInv
  <2>3. store'[p] = f /\ dir[t] = p
    BY <1>3, <2>1 DEF IndInv, TypeOK, DiskType
  <2>4. dir[t] = Target(content[f][1]) /\ content[f][1] # NoLib
    BY <2>1, <2>2 DEF OneInv, ContentInv, DirInv, ModuleOf
  <2>5. content[f] \in {Empty, SymbolsOf(lib[t])}
    BY <1>1, <2>2 DEF OneInv, WholeInv
  <2>6. 1 \in Offsets /\ 1 \in DOMAIN Records[lib[t]]
    BY <2>2, Prefixes
  <2>7. Empty[1] = NoLib /\ SymbolsOf(lib[t])[1] = lib[t]
    BY <2>6 DEF Empty, SymbolsOf
  <2>8. content[f] = SymbolsOf(lib[t]) /\ dir[t] = Target(lib[t])
    BY <2>4, <2>5, <2>7
  <2> QED
    BY <2>1, <2>2, <2>3, <2>8
<1> QED
  BY <1>2, <1>3

\* Without failures translate() reads whole files.
LEMMA LoadedStep ==
    OneSymbolizer /\ IndInv /\ OneInv /\ [Next]_vars => LoadedWhole'
<1> SUFFICES ASSUME OneSymbolizer, IndInv, OneInv, [Next]_vars,
                    NEW t \in Translators, faults' = 0, loaded'[t] # Empty
             PROVE  \E l \in Libs : /\ Target(l) = Path(lib'[t])
                                    /\ loaded'[t] = SymbolsOf(l)
  BY DEF LoadedWhole
<1>1. faults = 0 /\ t \in Threads
  BY FaultsGrow DEF Threads
<1>2. CASE loaded'[t] = loaded[t] /\ lib'[t] = lib[t]
  BY <1>1, <1>2 DEF OneInv, LoadedWhole
<1>3. CASE Load(t)
  <2>1. store[Path(lib[t])] # NoFile /\ Path(lib[t]) \in Paths
    BY <1>1, <1>3, LibTypes DEF Load, IndInv, ThreadInv
  <2>2. loaded'[t] = content[store[Path(lib[t])]] /\ lib' = lib
    BY <1>1, <1>3 DEF Load, localVars, IndInv, TypeOK, LocalType
  <2> QED
    BY <1>1, <2>1, <2>2 DEF OneInv, StoredComplete
<1>4. ASSUME NEW u \in Translators, Load(u), u # t
      PROVE  loaded'[t] = loaded[t] /\ lib'[t] = lib[t]
  BY <1>1, <1>4 DEF Load, localVars, IndInv, TypeOK, LocalType
<1>5. ASSUME NEW u \in Translators, NEW l \in Libs, Lookup(u, l)
      PROVE  \/ loaded'[t] = Empty
             \/ loaded'[t] = loaded[t] /\ lib'[t] = lib[t]
  BY <1>1, <1>5 DEF Lookup, IndInv, TypeOK, LocalType
<1>6. ASSUME NEW u \in Symbolizers, NEW l \in Libs, Symbol(u, l)
      PROVE  loaded'[t] = loaded[t] /\ lib'[t] = lib[t]
  BY <1>1, <1>6, StoreAssumption DEF Symbol, IndInv, TypeOK, LocalType
<1>7. ASSUME NEW u \in Symbolizers, SymbolStep(u)
      PROVE  UNCHANGED <<loaded, lib>>
  BY <1>7 DEF SymbolStep, Exists, Delete, Open, ReadSymbols, WriteRecord,
     TargetPath, Rename, localVars
<1>8. CASE Crash
  BY <1>1, <1>8 DEF Crash
<1>9. CASE UNCHANGED vars
  BY <1>9, <1>2 DEF vars, localVars
<1> QED
  BY <1>2, <1>3, <1>4, <1>5, <1>6, <1>7, <1>8, <1>9 DEF Next, Rest

\* A step of translate() changes nothing symbol() uses.
SameForSymbolizers ==
    /\ UNCHANGED <<call, fd, pos, good, dir, ncalls, faults, temp, store,
                   content>>
    /\ \A t \in Symbolizers : pc'[t] = pc[t] /\ lib'[t] = lib[t]

LEMMA OthersQuiet ==
    ASSUME IndInv, [Next]_vars
    PROVE  \/ SameForSymbolizers
           \/ \E t \in Symbolizers :
                 SymbolStep(t) \/ \E l \in Libs : Symbol(t, l)
           \/ Crash
<1>1. CASE UNCHANGED vars
  BY <1>1 DEF vars, localVars, counts, diskVars, SameForSymbolizers
<1>2. ASSUME NEW t \in Translators, Load(t)
      PROVE  SameForSymbolizers
  BY <1>2, StoreAssumption DEF Load, Goto, localVars, counts, diskVars,
     SameForSymbolizers, IndInv, TypeOK, LocalType, Threads
<1>3. ASSUME NEW t \in Translators, NEW l \in Libs, Lookup(t, l)
      PROVE  SameForSymbolizers
  BY <1>3, StoreAssumption DEF Lookup, Goto, diskVars, SameForSymbolizers,
     IndInv, TypeOK, LocalType, Threads
<1> QED
  BY <1>1, <1>2, <1>3 DEF Next, Rest

\* A file keeps having one name.
LEMMA InodeStep ==
    OneSymbolizer /\ IndInv /\ OneInv /\ [Next]_vars => InodeInv'
<1> SUFFICES ASSUME OneSymbolizer, IndInv, OneInv, [Next]_vars
             PROVE  InodeInv'
  OBVIOUS
<1> USE StoreAssumption DEF IndInv, OneInv
<1>1. CASE SameForSymbolizers
  BY <1>1 DEF SameForSymbolizers, InodeInv
<1>2. ASSUME NEW t \in Symbolizers, Exists(t)
      PROVE  InodeInv'
  <2> t \in Threads /\ \A u \in Symbolizers : u = t
    BY DEF OneSymbolizer, Threads
  <2> QED
    BY <1>2 DEF Exists, Goto, localVars, counts, diskVars, InodeInv
<1>3. ASSUME NEW t \in Symbolizers, Delete(t)
      PROVE  InodeInv'
  <2> t \in Threads /\ \A u \in Symbolizers : u = t
    BY DEF OneSymbolizer, Threads
  <2>1. Name[lib[t]] \in Names /\ lib[t] \in Libs
    BY LibTypes
  <2>2. \A n \in Names : temp'[n] \in {NoFile, temp[n]}
    BY <1>3, <2>1 DEF Delete, TypeOK, DiskType
  <2>3. UNCHANGED <<ncalls, call, store>> /\ pc[t] = "delete"
    BY <1>3 DEF Delete, localVars, otherCounts
  <2>4. \A n \in Names : temp'[n] <= ncalls
    BY <2>2 DEF InodeInv, NoFile, TypeOK, CountType
  <2>5. \A n \in Names : temp'[n] # call[t]
    <3>1. call[t] # NoFile
      BY <2>3, CallType DEF Working, Calls, NoFile
    <3> QED
      BY <2>2, <2>3, <3>1 DEF InodeInv
  <2> QED
    BY <2>2, <2>3, <2>4, <2>5 DEF InodeInv
<1>4. ASSUME NEW t \in Symbolizers, Open(t)
      PROVE  InodeInv'
  <2> t \in Threads /\ \A u \in Symbolizers : u = t
    BY DEF OneSymbolizer, Threads
  <2>1. Name[lib[t]] \in Names /\ lib[t] \in Libs
    BY LibTypes
  <2>2. CASE temp' = temp
    BY <1>4, <2>2 DEF Open, Goto, otherCounts, InodeInv, TypeOK, LocalType
  <2>3. CASE temp' # temp
    <3>1. temp[Name[lib[t]]] = NoFile
      BY <1>4, <2>1, <2>3 DEF Open, TypeOK, DiskType
    <3>2. temp' = [temp EXCEPT ![Name[lib[t]]] = call[t]]
      BY <1>4, <2>3, <3>1 DEF Open
    <3>3. call[t] <= ncalls
      BY <1>4 DEF Open, ThreadInv, Working, TypeOK, CountType
    <3>4. /\ UNCHANGED <<ncalls, call, store>>
          /\ pc[t] = "open" /\ pc'[t] = "read"
      BY <1>4 DEF Open, Goto, otherCounts, TypeOK, LocalType
    <3>5. /\ temp'[Name[lib[t]]] = call[t]
          /\ \A n \in Names : n # Name[lib[t]] => temp'[n] = temp[n]
      BY <2>1, <3>2 DEF TypeOK, DiskType
    <3>6. \A n \in Names : temp'[n] <= ncalls
      BY <3>3, <3>5 DEF InodeInv
    <3>7. ASSUME NEW n \in Names, temp'[n] # NoFile, NEW p \in Paths
          PROVE  store[p] # temp'[n]
      BY <3>4, <3>5, <3>7 DEF InodeInv
    <3>8. ASSUME NEW n \in Names, temp'[n] # NoFile, NEW m \in Names,
                 temp'[m] = temp'[n]
          PROVE  m = n
      BY <3>4, <3>5, <3>8 DEF InodeInv
    <3> QED
      BY <3>4, <3>6, <3>7, <3>8 DEF InodeInv
  <2> QED
    BY <2>2, <2>3
<1>5. ASSUME NEW t \in Symbolizers, ReadSymbols(t)
      PROVE  InodeInv'
  <2> t \in Threads /\ \A u \in Symbolizers : u = t
    BY DEF OneSymbolizer, Threads
  <2> QED
    BY <1>5 DEF ReadSymbols, DumpReturns, Goto, localVars, counts, diskVars,
       InodeInv, TypeOK, LocalType
<1>6. ASSUME NEW t \in Symbolizers, WriteRecord(t)
      PROVE  InodeInv'
  <2> t \in Threads /\ \A u \in Symbolizers : u = t
    BY DEF OneSymbolizer, Threads
  <2>1. UNCHANGED <<temp, store, ncalls>> /\ pc'[t] \in {"write", "target"}
    BY <1>6 DEF WriteRecord, DumpReturns, Goto, otherCounts, TypeOK, LocalType
  <2> QED
    BY <2>1 DEF InodeInv
<1>7. ASSUME NEW t \in Symbolizers, TargetPath(t)
      PROVE  InodeInv'
  <2> t \in Threads /\ \A u \in Symbolizers : u = t
    BY DEF OneSymbolizer, Threads
  <2> QED
    BY <1>7 DEF TargetPath, Goto, counts, diskVars, InodeInv, TypeOK, LocalType
<1>8. ASSUME NEW t \in Symbolizers, Rename(t)
      PROVE  InodeInv'
  <2> t \in Threads /\ \A u \in Symbolizers : u = t
    BY DEF OneSymbolizer, Threads
  <2>1. Name[lib[t]] \in Names /\ lib[t] \in Libs
    BY LibTypes
  <2>2. UNCHANGED ncalls /\ pc'[t] = "idle"
    BY <1>8 DEF Rename, Goto, otherCounts, TypeOK, LocalType
  <2>3. CASE UNCHANGED <<temp, store>>
    BY <2>2, <2>3 DEF InodeInv
  <2>4. CASE ~UNCHANGED <<temp, store>>
    <3>1. /\ store' = [store EXCEPT ![dir[t]] = temp[Name[lib[t]]]]
          /\ temp' = [temp EXCEPT ![Name[lib[t]]] = NoFile]
          /\ temp[Name[lib[t]]] # NoFile
      BY <1>8, <2>4 DEF Rename
    <3>2. /\ temp'[Name[lib[t]]] = NoFile
          /\ \A n \in Names : n # Name[lib[t]] => temp'[n] = temp[n]
      BY <2>1, <3>1 DEF TypeOK, DiskType
    <3>3. \A p \in Paths : store'[p] \in {store[p], temp[Name[lib[t]]]}
      BY <3>1 DEF TypeOK, DiskType
    <3>4. \A n \in Names : temp'[n] <= ncalls
      BY <3>2 DEF InodeInv, NoFile, TypeOK, CountType
    <3>5. \A p \in Paths : store'[p] <= ncalls
      BY <2>1, <3>3 DEF InodeInv
    <3>6. ASSUME NEW n \in Names, temp'[n] # NoFile
          PROVE  /\ \A p \in Paths : store'[p] # temp'[n]
                 /\ \A m \in Names : temp'[m] = temp'[n] => m = n
      BY <2>1, <3>1, <3>2, <3>3, <3>6 DEF InodeInv
    <3> QED
      BY <2>2, <3>4, <3>5, <3>6 DEF InodeInv
  <2> QED
    BY <2>3, <2>4
<1>9. ASSUME NEW t \in Symbolizers, NEW l \in Libs, Symbol(t, l)
      PROVE  InodeInv'
  <2> t \in Threads /\ \A u \in Symbolizers : u = t
    BY DEF OneSymbolizer, Threads
  <2>1. UNCHANGED <<temp, store>> /\ ncalls' = ncalls + 1
    BY <1>9 DEF Symbol, diskVars
  <2>2. call'[t] = ncalls + 1 /\ ncalls \in Nat
    BY <1>9 DEF Symbol, TypeOK, CountType, LocalType
  <2>3. /\ \A n \in Names : temp[n] <= ncalls /\ temp[n] \in Nat
        /\ \A p \in Paths : store[p] <= ncalls /\ store[p] \in Nat
    BY DEF InodeInv, TypeOK, DiskType, Calls, NoFile
  <2>4. /\ \A n \in Names : temp[n] <= ncalls + 1 /\ temp[n] # ncalls + 1
        /\ \A p \in Paths : store[p] <= ncalls + 1 /\ store[p] # ncalls + 1
    BY <2>2, <2>3
  <2> QED
    BY <2>1, <2>2, <2>4 DEF InodeInv
<1>10. CASE Crash
  <2>1. \A t \in Symbolizers : pc'[t] = "idle"
    BY <1>10 DEF Crash, Threads
  <2> QED
    BY <1>10, <2>1 DEF Crash, diskVars, InodeInv
<1> QED
  BY <1>1, <1>2, <1>3, <1>4, <1>5, <1>6, <1>7, <1>8, <1>9, <1>10, OthersQuiet
     DEF SymbolStep

\* The first records of a file and the next one.
LEMMA WriteAdds ==
    ASSUME IndInv, OpenFileInv, NEW t \in Symbolizers,
           pc[t] = "write", good[t],
           content' = [content EXCEPT ![fd[t]][pos[t] + 1] = lib[t]]
    PROVE  content'[fd[t]] = Written(lib[t], pos[t] + 1)
<1>1. t \in Threads
  BY DEF Threads
<1>2. fd[t] \in Calls /\ lib[t] \in Libs
  BY <1>1, LibTypes DEF IndInv, ThreadInv
<1>3. content'[fd[t]] = [content[fd[t]] EXCEPT ![pos[t] + 1] = lib[t]]
  BY <1>2 DEF IndInv, TypeOK, DiskType
<1>4. content[fd[t]] = Written(lib[t], pos[t])
  BY DEF OpenFileInv
<1>5. pos[t] + 1 \in DOMAIN Records[lib[t]] /\ (pos[t] + 1) - 1 = pos[t]
  BY <1>1, NextRecord
<1>6. PICK k \in DOMAIN Records[lib[t]] : k = pos[t] + 1 /\ k - 1 = pos[t]
  BY <1>5
<1>7. [Written(lib[t], k - 1) EXCEPT ![k] = lib[t]] = Written(lib[t], k)
  BY <1>2, Prefixes
<1> QED
  BY <1>3, <1>4, <1>6, <1>7

\* A file stays about one library: what is appended is about the same one.
LEMMA OneLibStep ==
    OneSymbolizer /\ IndInv /\ OneInv /\ [Next]_vars => OneLibInv'
<1> SUFFICES ASSUME OneSymbolizer, IndInv, OneInv, [Next]_vars
             PROVE  OneLibInv'
  OBVIOUS
<1> USE StoreAssumption DEF IndInv, OneInv, ContentInv
<1>1. CASE SameForSymbolizers
  BY <1>1 DEF SameForSymbolizers, OneLibInv
<1>2. ASSUME NEW t \in Symbolizers, Exists(t)
      PROVE  OneLibInv'
  <2> t \in Threads /\ \A u \in Symbolizers : u = t
    BY DEF OneSymbolizer, Threads
  <2> QED
    BY <1>2 DEF Exists, diskVars, OneLibInv
<1>3. ASSUME NEW t \in Symbolizers, Delete(t)
      PROVE  OneLibInv'
  <2> t \in Threads /\ \A u \in Symbolizers : u = t
    BY DEF OneSymbolizer, Threads
  <2>1. Name[lib[t]] \in Names /\ lib[t] \in Libs
    BY LibTypes
  <2>2. \A n \in Names : temp'[n] \in {NoFile, temp[n]}
    BY <1>3, <2>1 DEF Delete, TypeOK, DiskType
  <2> QED
    BY <1>3, <2>2 DEF Delete, OneLibInv
<1>4. ASSUME NEW t \in Symbolizers, Open(t)
      PROVE  OneLibInv'
  <2> t \in Threads /\ \A u \in Symbolizers : u = t
    BY DEF OneSymbolizer, Threads
  <2>1. Name[lib[t]] \in Names /\ lib[t] \in Libs
    BY LibTypes
  <2>2. CASE content' = content /\ temp' = temp
    BY <2>2 DEF OneLibInv
  <2>3. CASE ~(content' = content /\ temp' = temp)
    <3> DEFINE f == OpenedFile(t)
    <3>1. /\ content' = [content EXCEPT ![f] = Empty]
          /\ temp' = [temp EXCEPT ![Name[lib[t]]] = f]
      BY <1>4, <2>3 DEF Open, OpenedFile
    <3>2. f \in Calls
      BY <1>4, OpenedType DEF Open
    <3>3. /\ temp'[Name[lib[t]]] = f
          /\ \A n \in Names : n # Name[lib[t]] => temp'[n] = temp[n]
      BY <2>1, <3>1 DEF TypeOK, DiskType
    <3>4. \A g \in Calls : content'[g] = IF g = f THEN Empty ELSE content[g]
      BY <3>1 DEF TypeOK, DiskType
    <3>5. \A k \in Offsets : Empty[k] = NoLib
      BY DEF Empty
    <3>6. \A n \in Names : temp[n] # NoFile => temp[n] \in Calls
      BY DEF TypeOK, DiskType
    <3> HIDE DEF f
    <3> QED
      BY <3>2, <3>3, <3>4, <3>5, <3>6 DEF OneLibInv
  <2> QED
    BY <2>2, <2>3
<1>5. ASSUME NEW t \in Symbolizers, ReadSymbols(t)
      PROVE  OneLibInv'
  <2> t \in Threads /\ \A u \in Symbolizers : u = t
    BY DEF OneSymbolizer, Threads
  <2> QED
    BY <1>5 DEF ReadSymbols, diskVars, OneLibInv
<1>6. ASSUME NEW t \in Symbolizers, WriteRecord(t)
      PROVE  OneLibInv'
  <2> t \in Threads /\ \A u \in Symbolizers : u = t
    BY DEF OneSymbolizer, Threads
  <2>1. Name[lib[t]] \in Names /\ lib[t] \in Libs
    BY LibTypes
  <2>2. UNCHANGED temp
    BY <1>6 DEF WriteRecord
  <2>3. CASE UNCHANGED content
    BY <2>2, <2>3 DEF OneLibInv
  <2>4. CASE ~UNCHANGED content
    <3>1. good[t] /\ pc[t] = "write"
      BY <1>6, <2>4 DEF WriteRecord
    <3>2. content' = [content EXCEPT ![fd[t]][pos[t] + 1] = lib[t]]
      BY <1>6, <2>4 DEF WriteRecord
    <3>3. content'[fd[t]] = Written(lib[t], pos[t] + 1)
      BY <3>1, <3>2, WriteAdds
    <3>4. \A g \in Calls : g # fd[t] => content'[g] = content[g]
      BY <3>2 DEF TypeOK, DiskType
    <3>5. /\ \A k \in Offsets :
                Written(lib[t], pos[t] + 1)[k] \in {lib[t], NoLib}
          /\ Written(lib[t], pos[t] + 1)[1] = lib[t]
      BY <2>1, <3>1, Prefixes, NextRecord DEF Written
    <3>6. \A n \in Names : temp[n] # NoFile => temp[n] \in Calls
      BY DEF TypeOK, DiskType
    <3> QED
      BY <2>2, <3>3, <3>4, <3>5, <3>6 DEF OneLibInv
  <2> QED
    BY <2>3, <2>4
<1>7. ASSUME NEW t \in Symbolizers, TargetPath(t)
      PROVE  OneLibInv'
  <2> t \in Threads /\ \A u \in Symbolizers : u = t
    BY DEF OneSymbolizer, Threads
  <2> QED
    BY <1>7 DEF TargetPath, diskVars, OneLibInv
<1>8. ASSUME NEW t \in Symbolizers, Rename(t)
      PROVE  OneLibInv'
  <2> t \in Threads /\ \A u \in Symbolizers : u = t
    BY DEF OneSymbolizer, Threads
  <2>1. Name[lib[t]] \in Names /\ lib[t] \in Libs
    BY LibTypes
  <2>2. \A n \in Names : temp'[n] \in {NoFile, temp[n]}
    BY <1>8, <2>1 DEF Rename, TypeOK, DiskType
  <2> QED
    BY <1>8, <2>2 DEF Rename, OneLibInv
<1>9. ASSUME NEW t \in Symbolizers, NEW l \in Libs, Symbol(t, l)
      PROVE  OneLibInv'
  <2> t \in Threads /\ \A u \in Symbolizers : u = t
    BY DEF OneSymbolizer, Threads
  <2> QED
    BY <1>9 DEF Symbol, diskVars, OneLibInv
<1>10. CASE Crash
  BY <1>10 DEF Crash, diskVars, OneLibInv
<1> QED
  BY <1>1, <1>2, <1>3, <1>4, <1>5, <1>6, <1>7, <1>8, <1>9, <1>10, OthersQuiet
     DEF SymbolStep

\* The open file has the records that were written to it.
LEMMA OpenFileStep ==
    OneSymbolizer /\ IndInv /\ OneInv /\ [Next]_vars => OpenFileInv'
<1> SUFFICES ASSUME OneSymbolizer, IndInv, OneInv, [Next]_vars
             PROVE  OpenFileInv'
  OBVIOUS
<1> USE StoreAssumption DEF IndInv, OneInv, ContentInv
<1>1. CASE SameForSymbolizers
  BY <1>1 DEF SameForSymbolizers, OpenFileInv
<1>2. ASSUME NEW t \in Symbolizers, Exists(t)
      PROVE  OpenFileInv'
  <2> t \in Threads /\ \A u \in Symbolizers : u = t
    BY DEF OneSymbolizer, Threads
  <2>1. pc'[t] \notin {"read", "write"}
    BY <1>2 DEF Exists, Goto, TypeOK, LocalType
  <2> QED
    BY <2>1 DEF OpenFileInv
<1>3. ASSUME NEW t \in Symbolizers, Delete(t)
      PROVE  OpenFileInv'
  <2> t \in Threads /\ \A u \in Symbolizers : u = t
    BY DEF OneSymbolizer, Threads
  <2>1. pc'[t] \notin {"read", "write"}
    BY <1>3 DEF Delete, Goto, TypeOK, LocalType
  <2> QED
    BY <2>1 DEF OpenFileInv
<1>4. ASSUME NEW t \in Symbolizers, Open(t)
      PROVE  OpenFileInv'
  <2> t \in Threads /\ \A u \in Symbolizers : u = t
    BY DEF OneSymbolizer, Threads
  <2>1. Name[lib[t]] \in Names /\ lib[t] \in Libs
    BY LibTypes
  <2>2. CASE ~good'[t]
    BY <2>2 DEF OpenFileInv
  <2>3. CASE good'[t]
    <3> DEFINE f == OpenedFile(t)
    <3>1. /\ content' = [content EXCEPT ![f] = Empty]
          /\ temp' = [temp EXCEPT ![Name[lib[t]]] = f]
          /\ fd' = [fd EXCEPT ![t] = f]
          /\ pos' = [pos EXCEPT ![t] = 0] /\ lib' = lib
      BY <1>4, <2>3 DEF Open, OpenedFile, TypeOK, LocalType
    <3>2. f \in Calls
      BY <1>4, OpenedType DEF Open
    <3> HIDE DEF f
    <3>3. /\ temp'[Name[lib[t]]] = f /\ fd'[t] = f /\ pos'[t] = 0
          /\ content'[f] = Empty
      BY <2>1, <3>1, <3>2 DEF TypeOK, LocalType, DiskType
    <3> QED
      BY <2>1, <3>1, <3>3, Prefixes DEF OpenFileInv
  <2> QED
    BY <2>2, <2>3
<1>5. ASSUME NEW t \in Symbolizers, ReadSymbols(t)
      PROVE  OpenFileInv'
  <2> t \in Threads /\ \A u \in Symbolizers : u = t
    BY DEF OneSymbolizer, Threads
  <2>1. UNCHANGED <<localVars, diskVars>> /\ pc[t] = "read"
    BY <1>5 DEF ReadSymbols
  <2> QED
    BY <2>1 DEF localVars, diskVars, OpenFileInv
<1>6. ASSUME NEW t \in Symbolizers, WriteRecord(t)
      PROVE  OpenFileInv'
  <2> t \in Threads /\ \A u \in Symbolizers : u = t
    BY DEF OneSymbolizer, Threads
  <2>1. CASE ~good'[t]
    BY <2>1 DEF OpenFileInv
  <2>2. CASE good'[t]
    <3>1. /\ good[t] /\ pc[t] = "write" /\ UNCHANGED <<lib, fd, temp>>
          /\ content' = [content EXCEPT ![fd[t]][pos[t] + 1] = lib[t]]
          /\ pos'[t] = pos[t] + 1
      BY <1>6, <2>2 DEF WriteRecord, TypeOK, LocalType
    <3>2. content'[fd[t]] = Written(lib[t], pos[t] + 1)
      BY <3>1, WriteAdds
    <3> QED
      BY <3>1, <3>2 DEF OpenFileInv
  <2> QED
    BY <2>1, <2>2
<1>7. ASSUME NEW t \in Symbolizers, TargetPath(t)
      PROVE  OpenFileInv'
  <2> t \in Threads /\ \A u \in Symbolizers : u = t
    BY DEF OneSymbolizer, Threads
  <2>1. pc'[t] \notin {"read", "write"}
    BY <1>7 DEF TargetPath, Goto, TypeOK, LocalType
  <2> QED
    BY <2>1 DEF OpenFileInv
<1>8. ASSUME NEW t \in Symbolizers, Rename(t)
      PROVE  OpenFileInv'
  <2> t \in Threads /\ \A u \in Symbolizers : u = t
    BY DEF OneSymbolizer, Threads
  <2>1. pc'[t] \notin {"read", "write"}
    BY <1>8 DEF Rename, Goto, TypeOK, LocalType
  <2> QED
    BY <2>1 DEF OpenFileInv
<1>9. ASSUME NEW t \in Symbolizers, NEW l \in Libs, Symbol(t, l)
      PROVE  OpenFileInv'
  <2> t \in Threads /\ \A u \in Symbolizers : u = t
    BY DEF OneSymbolizer, Threads
  <2>1. pc'[t] \notin {"read", "write"}
    BY <1>9 DEF Symbol, Goto, TypeOK, LocalType
  <2> QED
    BY <2>1 DEF OpenFileInv
<1>10. CASE Crash
  <2>1. \A t \in Symbolizers : pc'[t] = "idle"
    BY <1>10 DEF Crash, Threads
  <2> QED
    BY <2>1 DEF OpenFileInv
<1> QED
  BY <1>1, <1>2, <1>3, <1>4, <1>5, <1>6, <1>7, <1>8, <1>9, <1>10, OthersQuiet
     DEF SymbolStep

\* The target directory is made of the file that will be moved: with one thread
\* the file cannot be another one by then.
LEMMA DirStep ==
    OneSymbolizer /\ IndInv /\ OneInv /\ [Next]_vars => DirInv'
<1> SUFFICES ASSUME OneSymbolizer, IndInv, OneInv, [Next]_vars
             PROVE  DirInv'
  OBVIOUS
<1> USE StoreAssumption DEF IndInv, OneInv, ContentInv
<1>1. CASE SameForSymbolizers
  BY <1>1 DEF SameForSymbolizers, DirInv, ModuleOf
<1>2. ASSUME NEW t \in Symbolizers, Exists(t)
      PROVE  DirInv'
  <2> t \in Threads /\ \A u \in Symbolizers : u = t
    BY DEF OneSymbolizer, Threads
  <2>1. pc'[t] # "rename"
    BY <1>2 DEF Exists, DumpReturns, Goto, TypeOK, LocalType
  <2> QED
    BY <2>1 DEF DirInv
<1>3. ASSUME NEW t \in Symbolizers, Delete(t)
      PROVE  DirInv'
  <2> t \in Threads /\ \A u \in Symbolizers : u = t
    BY DEF OneSymbolizer, Threads
  <2>1. pc'[t] # "rename"
    BY <1>3 DEF Delete, DumpReturns, Goto, TypeOK, LocalType
  <2> QED
    BY <2>1 DEF DirInv
<1>4. ASSUME NEW t \in Symbolizers, Open(t)
      PROVE  DirInv'
  <2> t \in Threads /\ \A u \in Symbolizers : u = t
    BY DEF OneSymbolizer, Threads
  <2>1. pc'[t] # "rename"
    BY <1>4 DEF Open, DumpReturns, Goto, TypeOK, LocalType
  <2> QED
    BY <2>1 DEF DirInv
<1>5. ASSUME NEW t \in Symbolizers, ReadSymbols(t)
      PROVE  DirInv'
  <2> t \in Threads /\ \A u \in Symbolizers : u = t
    BY DEF OneSymbolizer, Threads
  <2>1. pc'[t] # "rename"
    BY <1>5 DEF ReadSymbols, DumpReturns, Goto, TypeOK, LocalType
  <2> QED
    BY <2>1 DEF DirInv
<1>6. ASSUME NEW t \in Symbolizers, WriteRecord(t)
      PROVE  DirInv'
  <2> t \in Threads /\ \A u \in Symbolizers : u = t
    BY DEF OneSymbolizer, Threads
  <2>1. pc'[t] # "rename"
    BY <1>6 DEF WriteRecord, DumpReturns, Goto, TypeOK, LocalType
  <2> QED
    BY <2>1 DEF DirInv
<1>7. ASSUME NEW t \in Symbolizers, TargetPath(t)
      PROVE  DirInv'
  <2> t \in Threads /\ \A u \in Symbolizers : u = t
    BY DEF OneSymbolizer, Threads
  <2> DEFINE f == temp[Name[lib[t]]]
  <2>1. /\ UNCHANGED <<lib, temp, content>>
        /\ dir'[t] = IF f = NoFile \/ ModuleOf(f) = NoLib
                     THEN NullPath ELSE TargetOf(t, f)
    BY <1>7 DEF TargetPath, diskVars, TypeOK, LocalType
  <2> QED
    BY <2>1 DEF DirInv, TargetOf, ModuleOf
<1>8. ASSUME NEW t \in Symbolizers, Rename(t)
      PROVE  DirInv'
  <2> t \in Threads /\ \A u \in Symbolizers : u = t
    BY DEF OneSymbolizer, Threads
  <2>1. pc'[t] # "rename"
    BY <1>8 DEF Rename, DumpReturns, Goto, TypeOK, LocalType
  <2> QED
    BY <2>1 DEF DirInv
<1>9. ASSUME NEW t \in Symbolizers, NEW l \in Libs, Symbol(t, l)
      PROVE  DirInv'
  <2> t \in Threads /\ \A u \in Symbolizers : u = t
    BY DEF OneSymbolizer, Threads
  <2>1. pc'[t] # "rename"
    BY <1>9 DEF Symbol, DumpReturns, Goto, TypeOK, LocalType
  <2> QED
    BY <2>1 DEF DirInv
<1>10. CASE Crash
  <2>1. \A t \in Symbolizers : pc'[t] = "idle"
    BY <1>10 DEF Crash, Threads
  <2> QED
    BY <2>1 DEF DirInv
<1> QED
  BY <1>1, <1>2, <1>3, <1>4, <1>5, <1>6, <1>7, <1>8, <1>9, <1>10, OthersQuiet
     DEF SymbolStep

\* Without failures a file is whole when it is about to be moved.
LEMMA WholeStep ==
    OneSymbolizer /\ IndInv /\ OneInv /\ [Next]_vars => WholeInv'
<1> SUFFICES ASSUME OneSymbolizer, IndInv, OneInv, [Next]_vars
             PROVE  WholeInv'
  OBVIOUS
<1> USE StoreAssumption DEF IndInv, OneInv, ContentInv
<1>1. CASE SameForSymbolizers
  BY <1>1 DEF SameForSymbolizers, WholeInv
<1>2. ASSUME NEW t \in Symbolizers, Exists(t)
      PROVE  WholeInv'
  <2> t \in Threads /\ \A u \in Symbolizers : u = t
    BY DEF OneSymbolizer, Threads
  <2>1. pc'[t] \notin {"read", "write", "target", "rename"}
    BY <1>2 DEF Exists, Goto, TypeOK, LocalType
  <2> QED
    BY <2>1 DEF WholeInv
<1>3. ASSUME NEW t \in Symbolizers, Delete(t)
      PROVE  WholeInv'
  <2> t \in Threads /\ \A u \in Symbolizers : u = t
    BY DEF OneSymbolizer, Threads
  <2>1. pc'[t] \notin {"read", "write", "target", "rename"}
    BY <1>3 DEF Delete, Goto, TypeOK, LocalType
  <2> QED
    BY <2>1 DEF WholeInv
<1>4. ASSUME NEW t \in Symbolizers, Open(t)
      PROVE  WholeInv'
  <2> t \in Threads /\ \A u \in Symbolizers : u = t
    BY DEF OneSymbolizer, Threads
  <2>1. pc'[t] = "read"
    BY <1>4 DEF Open, Goto, TypeOK, LocalType
  <2>2. faults' = 0 => good'[t]
    BY <1>4 DEF Open, Fault, TypeOK, LocalType, CountType
  <2> QED
    BY <2>1, <2>2 DEF WholeInv
<1>5. ASSUME NEW t \in Symbolizers, ReadSymbols(t)
      PROVE  WholeInv'
  <2> t \in Threads /\ \A u \in Symbolizers : u = t
    BY DEF OneSymbolizer, Threads
  <2>1. /\ UNCHANGED <<localVars, diskVars, faults>>
        /\ pc[t] = "read" /\ pc'[t] \in {"write", "target"}
    BY <1>5 DEF ReadSymbols, DumpReturns, Goto, counts, TypeOK, LocalType
  <2>2. ASSUME faults = 0
        PROVE  /\ good[t] /\ fd[t] # NoFile
               /\ temp[Name[lib[t]]] = fd[t] /\ content[fd[t]] = Empty
    <3>1. good[t] /\ pos[t] = 0 /\ lib[t] \in Libs
      BY <2>1, <2>2, LibTypes DEF WholeInv, ThreadInv
    <3>2. fd[t] # NoFile
      BY <2>1, <3>1 DEF ThreadInv, Calls, NoFile
    <3> QED
      BY <2>1, <3>1, <3>2, Prefixes DEF OpenFileInv
  <2> QED
    BY <2>1, <2>2 DEF WholeInv, localVars, diskVars
<1>6. ASSUME NEW t \in Symbolizers, WriteRecord(t)
      PROVE  WholeInv'
  <2> t \in Threads /\ \A u \in Symbolizers : u = t
    BY DEF OneSymbolizer, Threads
  <2>1. UNCHANGED <<lib, fd, temp>> /\ pc[t] = "write"
    BY <1>6 DEF WriteRecord
  <2>2. pc'[t] \in {"write", "target"}
    BY <1>6 DEF WriteRecord, DumpReturns, Goto, TypeOK, LocalType
  <2>3. ASSUME faults' = 0
        PROVE  /\ good[t] /\ good'[t]
               /\ content' = [content EXCEPT ![fd[t]][pos[t] + 1] = lib[t]]
    <3>1. faults = 0
      BY <2>3, FaultsGrow
    <3>2. good[t]
      BY <2>1, <3>1 DEF WholeInv
    <3> QED
      BY <1>6, <2>3, <3>1, <3>2 DEF WriteRecord, Fault
  <2>4. ASSUME faults' = 0, pc'[t] = "target"
        PROVE  /\ temp[Name[lib[t]]] # NoFile
               /\ content'[temp[Name[lib[t]]]] = SymbolsOf(lib[t])
    <3>1. pos[t] + 1 = Len(Records[lib[t]])
      BY <1>6, <2>3, <2>4 DEF WriteRecord, Detected, LastRecord
    <3>2. content'[fd[t]] = Written(lib[t], pos[t] + 1)
      BY <2>1, <2>3, <2>4, WriteAdds
    <3>3. fd[t] = temp[Name[lib[t]]] /\ fd[t] # NoFile
      BY <2>1, <2>3, <2>4 DEF OpenFileInv, ThreadInv, Calls, NoFile
    <3> QED
      BY <3>1, <3>2, <3>3, LibTypes, Prefixes
  <2> QED
    BY <2>1, <2>2, <2>3, <2>4 DEF WholeInv
<1>7. ASSUME NEW t \in Symbolizers, TargetPath(t)
      PROVE  WholeInv'
  <2> t \in Threads /\ \A u \in Symbolizers : u = t
    BY DEF OneSymbolizer, Threads
  <2> QED
    BY <1>7 DEF TargetPath, Goto, counts, diskVars, WholeInv, TypeOK, LocalType
<1>8. ASSUME NEW t \in Symbolizers, Rename(t)
      PROVE  WholeInv'
  <2> t \in Threads /\ \A u \in Symbolizers : u = t
    BY DEF OneSymbolizer, Threads
  <2>1. pc'[t] \notin {"read", "write", "target", "rename"}
    BY <1>8 DEF Rename, Goto, TypeOK, LocalType
  <2> QED
    BY <2>1 DEF WholeInv
<1>9. ASSUME NEW t \in Symbolizers, NEW l \in Libs, Symbol(t, l)
      PROVE  WholeInv'
  <2> t \in Threads /\ \A u \in Symbolizers : u = t
    BY DEF OneSymbolizer, Threads
  <2>1. pc'[t] \notin {"read", "write", "target", "rename"}
    BY <1>9 DEF Symbol, Goto, TypeOK, LocalType
  <2> QED
    BY <2>1 DEF WholeInv
<1>10. CASE Crash
  <2>1. \A t \in Symbolizers : pc'[t] = "idle"
    BY <1>10 DEF Crash, Threads
  <2> QED
    BY <2>1 DEF WholeInv
<1> QED
  BY <1>1, <1>2, <1>3, <1>4, <1>5, <1>6, <1>7, <1>8, <1>9, <1>10, OthersQuiet
     DEF SymbolStep

\* The invariant of one thread in symbol() is inductive.
LEMMA OneInvHolds ==
    ASSUME OneSymbolizer
    PROVE  Spec => [](IndInv /\ OneInv)
<1>1. Init => OneInv
  <2> SUFFICES ASSUME Init PROVE OneInv
    OBVIOUS
  <2>1. InodeInv
    BY DEF Init, InodeInv, Threads, NoFile
  <2>2. ContentInv /\ WholeInv
    BY DEF Init, ContentInv, OneLibInv, OpenFileInv, DirInv, WholeInv, Threads
  <2>3. StoredOwn /\ StoredComplete /\ LoadedWhole
    BY DEF Init, StoredOwn, StoredComplete, LoadedWhole, Threads
  <2> QED
    BY <2>1, <2>2, <2>3 DEF OneInv
<1>2. IndInv /\ OneInv /\ [Next]_vars => IndInv' /\ OneInv'
  <2> SUFFICES ASSUME IndInv, OneInv, [Next]_vars PROVE IndInv' /\ OneInv'
    OBVIOUS
  <2>1. IndInv'
    BY TypeStep, ThreadStep DEF IndInv
  <2>2. InodeInv' /\ ContentInv' /\ WholeInv'
    BY InodeStep, OneLibStep, OpenFileStep, DirStep, WholeStep DEF ContentInv
  <2>3. StoredOwn' /\ StoredComplete' /\ LoadedWhole'
    BY OwnStep, CompleteStep, LoadedStep
  <2> QED
    BY <2>1, <2>2, <2>3 DEF OneInv
<1> QED
  BY <1>1, <1>2, InitIndInv, PTL DEF Spec

\* With one thread in symbol(), and as long as nothing fails, every file
\* translate() can find is the whole symbol file of a library that belongs
\* there, wherever the process has crashed and whatever temporary files the
\* crashes left.
THEOREM StoredIsComplete ==
    ASSUME OneSymbolizer
    PROVE  Spec => []StoredComplete
<1>1. OneInv => StoredComplete
  BY DEF OneInv
<1> QED
  BY <1>1, OneInvHolds, PTL

\* With one thread in symbol(), whatever fails: the records of a file in the
\* store are about a library whose directory that is.
THEOREM StoredIsOwn ==
    ASSUME OneSymbolizer
    PROVE  Spec => []StoredOwn
<1>1. OneInv => StoredOwn
  BY DEF OneInv
<1> QED
  BY <1>1, OneInvHolds, PTL

\* With one thread in symbol() and any number in translate(), which look for
\* a file and read it in two steps: what is read is whole.
THEOREM LoadedIsWhole ==
    ASSUME OneSymbolizer
    PROVE  Spec => []LoadedWhole
<1>1. OneInv => LoadedWhole
  BY DEF OneInv
<1> QED
  BY <1>1, OneInvHolds, PTL

\* Each directory of the store is that of one library.  Names with white
\* space in them share theirs, and their files replace one another.
DistinctTargets == \A l, m \in Libs : Target(l) = Target(m) => l = m

\* What symbol() has published stays published: another call for the library
\* replaces the file in one step, by a whole one.
THEOREM PublishedRemains ==
    ASSUME OneSymbolizer, DistinctTargets
    PROVE  Spec => PublishedStays
<1> DEFINE Stays(l) ==
        /\ faults' = 0
        /\ store[Target(l)] # NoFile
        /\ content[store[Target(l)]] = SymbolsOf(l)
        => /\ store'[Target(l)] # NoFile
           /\ content'[store'[Target(l)]] = SymbolsOf(l)
<1>1. IndInv /\ OneInv /\ [Next]_vars => [\A l \in Libs : Stays(l)]_vars
  <2> SUFFICES ASSUME IndInv, OneInv, [Next]_vars, NEW l \in Libs,
                      faults' = 0, store[Target(l)] # NoFile,
                      content[store[Target(l)]] = SymbolsOf(l)
               PROVE  /\ store'[Target(l)] # NoFile
                      /\ content'[store'[Target(l)]] = SymbolsOf(l)
    OBVIOUS
  <2>1. Target(l) \in Paths
    BY DEF Paths
  <2>2. StoredComplete'
    BY CompleteStep
  <2>3. store'[Target(l)] # NoFile
    <3>1. CASE UNCHANGED store
      BY <3>1
    <3>2. CASE ~UNCHANGED store
      <4>1. PICK t \in Symbolizers :
                /\ temp[Name[lib[t]]] # NoFile
                /\ store' = [store EXCEPT ![dir[t]] = temp[Name[lib[t]]]]
        BY <3>2, StoreMoves
      <4> QED
        BY <2>1, <4>1 DEF IndInv, TypeOK, DiskType
    <3> QED
      BY <3>1, <3>2
  <2>4. PICK m \in Libs : /\ Target(m) = Target(l)
                          /\ content'[store'[Target(l)]] = SymbolsOf(m)
    BY <2>1, <2>2, <2>3 DEF StoredComplete
  <2> QED
    BY <2>3, <2>4 DEF DistinctTargets
<1> QED
  BY <1>1, OneInvHolds, PTL DEF Spec, PublishedStays

-----------------------------------------------------------------------------
(***************************************************************************)
(* Any number of threads that symbolize one library.                       *)
(***************************************************************************)
\* What there is of one library.
LEMMA Single ==
    ASSUME OneLibrary, IndInv, NEW l \in Libs
    PROVE  /\ \A t \in Threads : lib[t] = l
           /\ Libs = {l} /\ l \in Readable /\ Names = {Name[l]}
           /\ Offsets = 1..Len(Records[l]) /\ Len(Records[l]) \in Nat
           /\ 1 \in Offsets /\ l # NoLib
<1>1. Libs = {l} /\ l \in Readable /\ l # NoLib
  BY StoreAssumption DEF OneLibrary, NoLib
<1>2. Records[l] \in Seq(RecordKinds) /\ Records[l] # <<>>
  BY StoreAssumption
<1>3. DOMAIN Records[l] = 1..Len(Records[l]) /\ Len(Records[l]) \in Nat \ {0}
  BY <1>2
<1>4. Offsets = DOMAIN Records[l]
  BY <1>1 DEF Offsets
<1>5. Names = {Name[l]}
  BY <1>1 DEF Names
<1>6. \A t \in Threads : lib[t] = l
  BY <1>1 DEF IndInv, TypeOK, LocalType
<1> QED
  BY <1>1, <1>3, <1>4, <1>5, <1>6

\* The steps there are without crashes.
LEMMA NoFailureSteps ==
    ASSUME NoFailures, IndInv, [Next]_vars
    PROVE  \/ SameForSymbolizers /\ UNCHANGED answered
           \/ \E t \in Symbolizers :
                 SymbolStep(t) \/ \E l \in Libs : Symbol(t, l)
<1>1. ~Crash
  BY DEF NoFailures, Crash, IndInv, TypeOK, CountType
<1>2. ASSUME NEW t \in Translators, NEW l \in Libs, Lookup(t, l) \/ Load(t)
      PROVE  UNCHANGED answered
  BY <1>2 DEF Lookup, Load
<1>3. ASSUME NEW t \in Translators, Load(t)
      PROVE  UNCHANGED answered
  BY <1>3 DEF Load
<1>4. CASE UNCHANGED vars
  BY <1>4 DEF vars, localVars, counts, diskVars, SameForSymbolizers
<1> QED
  BY <1>1, <1>2, <1>3, <1>4, OthersQuiet DEF Next, Rest

\* No operation on files fails.
LEMMA NoFault ==
    ASSUME NoFailures, IndInv
    PROVE  ~Fault
BY DEF NoFailures, Fault, IndInv, TypeOK, CountType

\* What a write does when nothing fails.
LEMMA GoodWrite ==
    ASSUME NoFailures, IndInv, GoodInv, NEW t \in Symbolizers, WriteRecord(t)
    PROVE  /\ good[t] /\ good'[t] /\ fd[t] \in Calls
           /\ UNCHANGED <<lib, call, fd, dir, temp, store, answered>>
           /\ content' = [content EXCEPT ![fd[t]][pos[t] + 1] = lib[t]]
           /\ pos' = [pos EXCEPT ![t] = pos[t] + 1]
           /\ pc' = [pc EXCEPT ![t] = IF pos[t] + 1 = Len(Records[lib[t]])
                                      THEN "target" ELSE "write"]
<1>1. t \in Threads /\ pc[t] = "write"
  BY DEF Threads, WriteRecord
<1>2. good[t] /\ fd[t] \in Calls
  BY <1>1 DEF GoodInv, IndInv, ThreadInv
<1>3. /\ good' = good
      /\ content' = [content EXCEPT ![fd[t]][pos[t] + 1] = lib[t]]
  BY <1>2, NoFault DEF WriteRecord
<1>4. IF pos[t] + 1 = Len(Records[lib[t]]) THEN Goto(t, "target")
                                           ELSE pc' = pc
  BY <1>2, <1>3 DEF WriteRecord, Detected, LastRecord, DumpReturns
<1>5. pc' = [pc EXCEPT ![t] = IF pos[t] + 1 = Len(Records[lib[t]])
                              THEN "target" ELSE "write"]
  BY <1>1, <1>4 DEF Goto, IndInv, TypeOK, LocalType
<1> QED
  BY <1>2, <1>3, <1>5 DEF WriteRecord

\* Records are only added by a write.
LEMMA WriteKeeps ==
    ASSUME NoFailures, IndInv, GoodInv, NEW t \in Symbolizers, WriteRecord(t),
           NEW f \in Calls, NEW k \in Offsets
    PROVE  /\ content[f][k] # NoLib => content'[f][k] # NoLib
           /\ f = fd[t] /\ k = pos[t] + 1 => content'[f][k] # NoLib
<1>1. t \in Threads /\ lib[t] # NoLib
  BY StoreAssumption, LibTypes DEF Threads, IndInv, NoLib
<1>2. /\ content' = [content EXCEPT ![fd[t]][pos[t] + 1] = lib[t]]
      /\ fd[t] \in Calls
  BY GoodWrite
<1>3. content'[f] = IF f = fd[t]
                    THEN [content[f] EXCEPT ![pos[t] + 1] = lib[t]]
                    ELSE content[f]
  BY <1>2 DEF IndInv, TypeOK, DiskType
<1>4. content[f] \in [Offsets -> Libs \cup {NoLib}]
  BY DEF IndInv, TypeOK, DiskType
<1>5. content'[f][k] = IF f = fd[t] /\ k = pos[t] + 1 THEN lib[t]
                                                      ELSE content[f][k]
  BY <1>3, <1>4
<1> QED
  BY <1>1, <1>5

\* A truncation when nothing fails.
LEMMA GoodOpen ==
    ASSUME NoFailures, IndInv, NEW t \in Symbolizers, Open(t)
    PROVE  /\ OpenedFile(t) \in Calls /\ OpenedFile(t) # NoFile
           /\ pc[t] = "open" /\ pc'[t] = "read" /\ good'[t]
           /\ fd'[t] = OpenedFile(t) /\ pos'[t] = 0
           /\ temp' = [temp EXCEPT ![Name[lib[t]]] = OpenedFile(t)]
           /\ content' = [content EXCEPT ![OpenedFile(t)] = Empty]
           /\ UNCHANGED <<lib, store, dir, answered>>
           /\ \A u \in Threads : u # t =>
                 /\ pc'[u] = pc[u] /\ fd'[u] = fd[u] /\ pos'[u] = pos[u]
                 /\ good'[u] = good[u]
<1>1. t \in Threads
  BY DEF Threads
<1>2. OpenedFile(t) \in Calls /\ OpenedFile(t) # NoFile
  BY <1>1, OpenedType DEF Open, Calls, NoFile
<1>3. /\ good' = [good EXCEPT ![t] = TRUE]
      /\ fd' = [fd EXCEPT ![t] = OpenedFile(t)]
      /\ temp' = [temp EXCEPT ![Name[lib[t]]] = OpenedFile(t)]
      /\ content' = [content EXCEPT ![OpenedFile(t)] = Empty]
  BY NoFault DEF Open, OpenedFile
<1>4. /\ pos' = [pos EXCEPT ![t] = 0] /\ pc' = [pc EXCEPT ![t] = "read"]
      /\ pc[t] = "open" /\ UNCHANGED <<lib, store, dir, answered>>
  BY DEF Open, Goto
<1> QED
  BY <1>1, <1>2, <1>3, <1>4 DEF IndInv, TypeOK, LocalType

\* Records are numbered from 1.
LEMMA RecordNumbers ==
    ASSUME NEW k \in Offsets
    PROVE  k \in Nat /\ 0 < k
<1>1. \A l \in Libs : DOMAIN Records[l] \subseteq Nat \ {0}
  BY StoreAssumption
<1> QED
  BY <1>1 DEF Offsets

\* Streams stay good.
LEMMA GoodStep ==
    OneLibrary /\ NoFailures /\ IndInv /\ ManyInv /\ [Next]_vars => GoodInv'
<1> SUFFICES ASSUME OneLibrary, NoFailures, IndInv, ManyInv, [Next]_vars
             PROVE  GoodInv'
  OBVIOUS
<1> USE StoreAssumption DEF IndInv, ManyInv
<1>1. CASE SameForSymbolizers /\ UNCHANGED answered
  BY <1>1 DEF SameForSymbolizers, GoodInv
<1>2. ASSUME NEW t \in Symbolizers, Exists(t)
      PROVE  GoodInv'
  <2> t \in Threads
    BY DEF Threads
  <2>1. /\ pc[t] \notin {"read", "write"} /\ pc'[t] \notin {"read", "write"}
        /\ \A u \in Threads : u # t => pc'[u] = pc[u]
    BY <1>2 DEF Exists, Goto, TypeOK, LocalType
  <2>2. UNCHANGED good
    BY <1>2 DEF Exists, localVars
  <2> QED
    BY <2>1, <2>2 DEF GoodInv, Threads
<1>3. ASSUME NEW t \in Symbolizers, Delete(t)
      PROVE  GoodInv'
  <2> t \in Threads
    BY DEF Threads
  <2>1. /\ pc[t] \notin {"read", "write"} /\ pc'[t] \notin {"read", "write"}
        /\ \A u \in Threads : u # t => pc'[u] = pc[u]
    BY <1>3 DEF Delete, Goto, TypeOK, LocalType
  <2>2. UNCHANGED good
    BY <1>3 DEF Delete, localVars
  <2> QED
    BY <2>1, <2>2 DEF GoodInv, Threads
<1>4. ASSUME NEW t \in Symbolizers, Open(t)
      PROVE  GoodInv'
  <2> t \in Threads
    BY DEF Threads
  <2> QED
    BY <1>4, GoodOpen DEF GoodInv, Threads
<1>5. ASSUME NEW t \in Symbolizers, ReadSymbols(t)
      PROVE  GoodInv'
  <2> t \in Threads
    BY DEF Threads
  <2> QED
    BY <1>5 DEF ReadSymbols, DumpReturns, Goto, localVars, GoodInv, TypeOK,
       LocalType, Threads
<1>6. ASSUME NEW t \in Symbolizers, WriteRecord(t)
      PROVE  GoodInv'
  <2> t \in Threads
    BY DEF Threads
  <2>1. good' = good
    BY <1>6, GoodWrite, NoFault DEF WriteRecord
  <2>2. \A u \in Threads : pc'[u] \in {"read", "write"} =>
            pc[u] \in {"read", "write"}
    <3>1. pc[t] = "write" /\ \E w \in {"target", "write"} :
                                  pc' = [pc EXCEPT ![t] = w]
      BY <1>6, GoodWrite DEF WriteRecord
    <3> QED
      BY <3>1 DEF TypeOK, LocalType
  <2> QED
    BY <2>1, <2>2 DEF GoodInv, Threads
<1>7. ASSUME NEW t \in Symbolizers, TargetPath(t)
      PROVE  GoodInv'
  <2> t \in Threads
    BY DEF Threads
  <2>1. /\ pc[t] \notin {"read", "write"} /\ pc'[t] \notin {"read", "write"}
        /\ \A u \in Threads : u # t => pc'[u] = pc[u]
    BY <1>7 DEF TargetPath, Goto, TypeOK, LocalType
  <2>2. UNCHANGED good
    BY <1>7 DEF TargetPath, localVars
  <2> QED
    BY <2>1, <2>2 DEF GoodInv, Threads
<1>8. ASSUME NEW t \in Symbolizers, Rename(t)
      PROVE  GoodInv'
  <2> t \in Threads
    BY DEF Threads
  <2>1. /\ pc[t] \notin {"read", "write"} /\ pc'[t] \notin {"read", "write"}
        /\ \A u \in Threads : u # t => pc'[u] = pc[u]
    BY <1>8 DEF Rename, Goto, TypeOK, LocalType
  <2>2. UNCHANGED good
    BY <1>8 DEF Rename, localVars
  <2> QED
    BY <2>1, <2>2 DEF GoodInv, Threads
<1>9. ASSUME NEW t \in Symbolizers, NEW l \in Libs, Symbol(t, l)
      PROVE  GoodInv'
  <2> t \in Threads
    BY DEF Threads
  <2>1. /\ pc[t] \notin {"read", "write"} /\ pc'[t] \notin {"read", "write"}
        /\ \A u \in Threads : u # t => pc'[u] = pc[u]
    BY <1>9 DEF Symbol, Goto, TypeOK, LocalType
  <2>2. UNCHANGED good
    BY <1>9 DEF Symbol, localVars
  <2> QED
    BY <2>1, <2>2 DEF GoodInv, Threads
<1> QED
  BY <1>1, <1>2, <1>3, <1>4, <1>5, <1>6, <1>7, <1>8, <1>9, NoFailureSteps DEF
     SymbolStep

\* A target directory is made of a MODULE line.
LEMMA TargetStep ==
    OneLibrary /\ NoFailures /\ IndInv /\ ManyInv /\ [Next]_vars => TargetInv'
<1> SUFFICES ASSUME OneLibrary, NoFailures, IndInv, ManyInv, [Next]_vars
             PROVE  TargetInv'
  OBVIOUS
<1> USE StoreAssumption DEF IndInv, ManyInv
<1>1. CASE SameForSymbolizers /\ UNCHANGED answered
  BY <1>1 DEF SameForSymbolizers, TargetInv
<1>2. ASSUME NEW t \in Symbolizers, Exists(t)
      PROVE  TargetInv'
  <2> t \in Threads
    BY DEF Threads
  <2> QED
    BY <1>2 DEF Exists, localVars, TargetInv
<1>3. ASSUME NEW t \in Symbolizers, Delete(t)
      PROVE  TargetInv'
  <2> t \in Threads
    BY DEF Threads
  <2> QED
    BY <1>3 DEF Delete, localVars, TargetInv
<1>4. ASSUME NEW t \in Symbolizers, Open(t)
      PROVE  TargetInv'
  <2> t \in Threads
    BY DEF Threads
  <2> QED
    BY <1>4 DEF Open, localVars, TargetInv
<1>5. ASSUME NEW t \in Symbolizers, ReadSymbols(t)
      PROVE  TargetInv'
  <2> t \in Threads
    BY DEF Threads
  <2> QED
    BY <1>5 DEF ReadSymbols, localVars, TargetInv
<1>6. ASSUME NEW t \in Symbolizers, WriteRecord(t)
      PROVE  TargetInv'
  <2> t \in Threads
    BY DEF Threads
  <2> QED
    BY <1>6 DEF WriteRecord, localVars, TargetInv
<1>7. ASSUME NEW t \in Symbolizers, TargetPath(t)
      PROVE  TargetInv'
  <2> t \in Threads
    BY DEF Threads
  <2> DEFINE f == temp[Name[lib[t]]]
  <2>1. dir' = [dir EXCEPT ![t] = IF f = NoFile \/ ModuleOf(f) = NoLib
                                  THEN NullPath ELSE Target(ModuleOf(f))]
    BY <1>7 DEF TargetPath, TargetOf
  <2>2. f # NoFile => ModuleOf(f) \in Libs \cup {NoLib}
    BY LibTypes DEF TypeOK, DiskType, ModuleOf
  <2> QED
    BY <2>1, <2>2 DEF TargetInv, TypeOK, LocalType, Threads
<1>8. ASSUME NEW t \in Symbolizers, Rename(t)
      PROVE  TargetInv'
  <2> t \in Threads
    BY DEF Threads
  <2> QED
    BY <1>8 DEF Rename, localVars, TargetInv
<1>9. ASSUME NEW t \in Symbolizers, NEW l \in Libs, Symbol(t, l)
      PROVE  TargetInv'
  <2> t \in Threads
    BY DEF Threads
  <2> QED
    BY <1>9 DEF Symbol, localVars, TargetInv
<1> QED
  BY <1>1, <1>2, <1>3, <1>4, <1>5, <1>6, <1>7, <1>8, <1>9, NoFailureSteps DEF
     SymbolStep

\* A record that is missing is going to be written: the thread that truncates
\* a file has all of its records to write.
LEMMA RecordStep ==
    OneLibrary /\ NoFailures /\ IndInv /\ ManyInv /\ [Next]_vars => RecordInv'
<1> SUFFICES ASSUME OneLibrary, NoFailures, IndInv, ManyInv, [Next]_vars
             PROVE  RecordInv'
  OBVIOUS
<1> USE StoreAssumption DEF IndInv, ManyInv
<1>1. CASE SameForSymbolizers /\ UNCHANGED answered
  BY <1>1 DEF SameForSymbolizers, RecordInv, WillWrite
<1>2. ASSUME NEW t \in Symbolizers, Exists(t)
      PROVE  RecordInv'
  <2> t \in Threads
    BY DEF Threads
  <2>1. /\ pc[t] \notin {"read", "write"} /\ pc'[t] \notin {"read", "write"}
        /\ \A u \in Threads : u # t => pc'[u] = pc[u]
    BY <1>2 DEF Exists, Goto, TypeOK, LocalType
  <2>2. UNCHANGED <<fd, pos, temp, store, content>>
    BY <1>2 DEF Exists, localVars, diskVars
  <2> QED
    BY <2>1, <2>2 DEF RecordInv, WillWrite, Threads
<1>3. ASSUME NEW t \in Symbolizers, Delete(t)
      PROVE  RecordInv'
  <2> t \in Threads
    BY DEF Threads
  <2>1. /\ pc[t] \notin {"read", "write"} /\ pc'[t] \notin {"read", "write"}
        /\ \A u \in Threads : u # t => pc'[u] = pc[u]
    BY <1>3 DEF Delete, Goto, TypeOK, LocalType
  <2>2. UNCHANGED <<fd, pos, store, content>>
    BY <1>3 DEF Delete, localVars
  <2>3. \A f \in Calls : \A n \in Names : temp'[n] = f => temp[n] = f
    BY <1>3, LibTypes DEF Delete, TypeOK, DiskType, Calls, NoFile
  <2> QED
    BY <2>1, <2>2, <2>3 DEF RecordInv, WillWrite, Threads
<1>4. ASSUME NEW t \in Symbolizers, Open(t)
      PROVE  RecordInv'
  <2> t \in Threads
    BY DEF Threads
  <2> DEFINE g == OpenedFile(t)
  <2>1. Name[lib[t]] \in Names
    BY LibTypes
  <2> SUFFICES ASSUME NEW f \in Calls, (\E n \in Names : temp'[n] = f)
                                       \/ (\E p \in Paths : store'[p] = f),
                      NEW k \in Offsets, content'[f][k] = NoLib
               PROVE  (\E u \in Symbolizers : WillWrite(u, f, k))'
    BY DEF RecordInv
  <2>2. CASE f = g
    <3>1. 0 < k
      BY RecordNumbers
    <3> QED
      BY <1>4, <2>2, <3>1, GoodOpen DEF WillWrite
  <2>3. CASE f # g
    <3>1. content'[f] = content[f]
      BY <1>4, <2>3, GoodOpen DEF TypeOK, DiskType
    <3>2. (\E n \in Names : temp[n] = f) \/ (\E p \in Paths : store[p] = f)
      BY <1>4, <2>1, <2>3, GoodOpen DEF TypeOK, DiskType
    <3>3. PICK u \in Symbolizers : WillWrite(u, f, k)
      BY <3>1, <3>2 DEF RecordInv
    <3>4. u \in Threads /\ u # t
      BY <1>4, <3>3, GoodOpen DEF WillWrite, Threads
    <3>5. pc'[u] = pc[u] /\ fd'[u] = fd[u] /\ pos'[u] = pos[u]
      BY <1>4, <3>4, GoodOpen
    <3> QED
      BY <3>3, <3>5 DEF WillWrite
  <2> QED
    BY <2>2, <2>3
<1>5. ASSUME NEW t \in Symbolizers, ReadSymbols(t)
      PROVE  RecordInv'
  <2> t \in Threads
    BY DEF Threads
  <2>1. lib[t] \in Readable
    BY LibTypes, Single
  <2>2. /\ UNCHANGED <<fd, pos, temp, store, content>> /\ pc[t] = "read"
        /\ pc' = [pc EXCEPT ![t] = "write"]
    BY <1>5, <2>1 DEF ReadSymbols, Goto, localVars, diskVars
  <2>3. \A u \in Threads : pc[u] \in {"read", "write"} =>
            pc'[u] \in {"read", "write"}
    BY <2>2 DEF TypeOK, LocalType
  <2> QED
    BY <2>2, <2>3 DEF RecordInv, WillWrite, Threads
<1>6. ASSUME NEW t \in Symbolizers, WriteRecord(t)
      PROVE  RecordInv'
  <2> t \in Threads
    BY DEF Threads
  <2> SUFFICES ASSUME NEW f \in Calls, (\E n \in Names : temp'[n] = f)
                                       \/ (\E p \in Paths : store'[p] = f),
                      NEW k \in Offsets, content'[f][k] = NoLib
               PROVE  (\E u \in Symbolizers : WillWrite(u, f, k))'
    BY DEF RecordInv
  <2>1. UNCHANGED <<temp, store, fd, lib>> /\ pc[t] = "write"
    BY <1>6, GoodWrite DEF WriteRecord
  <2>2. content[f][k] = NoLib
    BY <1>6, WriteKeeps
  <2>3. PICK u \in Symbolizers : WillWrite(u, f, k)
    BY <2>1, <2>2 DEF RecordInv
  <2>4. CASE u # t
    <3>1. u \in Threads /\ pc'[u] = pc[u] /\ pos'[u] = pos[u]
      BY <1>6, <2>4, GoodWrite DEF Threads, TypeOK, LocalType
    <3> QED
      BY <2>1, <2>3, <3>1 DEF WillWrite
  <2>5. CASE u = t
    <3>1. fd[t] = f /\ pos[t] < k /\ k # pos[t] + 1
      BY <1>6, <2>3, <2>5, WriteKeeps DEF WillWrite
    <3>2. pos[t] \in Nat /\ k \in Nat /\ k <= Len(Records[lib[t]])
          /\ Len(Records[lib[t]]) \in Nat
      BY <2>1, LibTypes, Single, NextRecord
    <3>3. pos[t] + 1 < k /\ pos[t] + 1 # Len(Records[lib[t]])
      BY <3>1, <3>2
    <3>4. /\ pos' = [pos EXCEPT ![t] = pos[t] + 1]
          /\ pc' = [pc EXCEPT ![t] = "write"]
      BY <1>6, <3>3, GoodWrite
    <3>5. pos'[t] = pos[t] + 1 /\ pc'[t] = "write"
      BY <3>4 DEF TypeOK, LocalType
    <3> QED
      BY <2>1, <2>5, <3>1, <3>3, <3>5 DEF WillWrite
  <2> QED
    BY <2>4, <2>5
<1>7. ASSUME NEW t \in Symbolizers, TargetPath(t)
      PROVE  RecordInv'
  <2> t \in Threads
    BY DEF Threads
  <2>1. /\ pc[t] \notin {"read", "write"} /\ pc'[t] \notin {"read", "write"}
        /\ \A u \in Threads : u # t => pc'[u] = pc[u]
    BY <1>7 DEF TargetPath, Goto, TypeOK, LocalType
  <2>2. UNCHANGED <<fd, pos, temp, store, content>>
    BY <1>7 DEF TargetPath, localVars, diskVars
  <2> QED
    BY <2>1, <2>2 DEF RecordInv, WillWrite, Threads
<1>8. ASSUME NEW t \in Symbolizers, Rename(t)
      PROVE  RecordInv'
  <2> t \in Threads
    BY DEF Threads
  <2>1. /\ pc[t] \notin {"read", "write"} /\ pc'[t] \notin {"read", "write"}
        /\ \A u \in Threads : u # t => pc'[u] = pc[u]
    BY <1>8 DEF Rename, Goto, TypeOK, LocalType
  <2>2. UNCHANGED <<fd, pos, content>>
    BY <1>8 DEF Rename, localVars
  <2>3. Name[lib[t]] \in Names
    BY LibTypes
  <2>4. ASSUME NEW f \in Calls, (\E n \in Names : temp'[n] = f)
                                \/ (\E p \in Paths : store'[p] = f)
        PROVE  \/ \E n \in Names : temp[n] = f
               \/ \E p \in Paths : store[p] = f
    BY <1>8, <2>3, <2>4 DEF Rename, TypeOK, DiskType, Calls, NoFile
  <2> QED
    BY <2>1, <2>2, <2>4 DEF RecordInv, WillWrite, Threads
<1>9. ASSUME NEW t \in Symbolizers, NEW l \in Libs, Symbol(t, l)
      PROVE  RecordInv'
  <2> t \in Threads
    BY DEF Threads
  <2>1. /\ pc[t] \notin {"read", "write"} /\ pc'[t] \notin {"read", "write"}
        /\ \A u \in Threads : u # t => pc'[u] = pc[u]
    BY <1>9 DEF Symbol, Goto, TypeOK, LocalType
  <2>2. UNCHANGED <<fd, pos, temp, store, content>>
    BY <1>9 DEF Symbol, localVars, diskVars
  <2> QED
    BY <2>1, <2>2 DEF RecordInv, WillWrite, Threads
<1> QED
  BY <1>1, <1>2, <1>3, <1>4, <1>5, <1>6, <1>7, <1>8, <1>9, NoFailureSteps DEF
     SymbolStep

\* Someone is always going to publish: a thread that finds the temporary file
\* gone, or without a MODULE line, leaves it to the one that did that.
LEMMA PublishStep ==
    OneLibrary /\ NoFailures /\ IndInv /\ ManyInv /\ [Next]_vars => PublishInv'
<1> SUFFICES ASSUME OneLibrary, NoFailures, IndInv, ManyInv, [Next]_vars
             PROVE  PublishInv'
  OBVIOUS
<1> USE StoreAssumption DEF IndInv, ManyInv
<1>1. CASE SameForSymbolizers /\ UNCHANGED answered
  BY <1>1 DEF SameForSymbolizers, PublishInv, Begun, WillPublish, ModuleOf
<1>2. ASSUME NEW t \in Symbolizers, Exists(t)
      PROVE  PublishInv'
  <2> t \in Threads
    BY DEF Threads
  <2> SUFFICES ASSUME NEW m \in Libs, Begun', store'[Target(m)] = NoFile
               PROVE  (\E u \in Symbolizers : WillPublish(u, m))'
    BY DEF PublishInv
  <2>1. /\ pc[t] = "exists" /\ pc'[t] \in {"exists", "delete", "open"}
        /\ \A u \in Threads : u # t => pc'[u] = pc[u]
    BY <1>2 DEF Exists, Goto, TypeOK, LocalType
  <2>2. UNCHANGED <<fd, dir, temp, store, content, answered>>
    BY <1>2 DEF Exists, localVars, diskVars
  <2>3. Begun
    BY <2>1, <2>2 DEF Begun, Threads
  <2>4. PICK u \in Symbolizers : WillPublish(u, m)
    BY <2>2, <2>3 DEF PublishInv
  <2>5. u \in Threads /\ u # t
    BY <2>1, <2>4 DEF WillPublish, Threads
  <2> QED
    BY <2>1, <2>2, <2>4, <2>5 DEF WillPublish, ModuleOf
<1>3. ASSUME NEW t \in Symbolizers, Delete(t)
      PROVE  PublishInv'
  <2> t \in Threads
    BY DEF Threads
  <2> SUFFICES ASSUME NEW m \in Libs, Begun', store'[Target(m)] = NoFile
               PROVE  (\E u \in Symbolizers : WillPublish(u, m))'
    BY DEF PublishInv
  <2>1. pc'[t] = "open"
    BY <1>3 DEF Delete, Goto, TypeOK, LocalType
  <2> QED
    BY <2>1 DEF WillPublish
<1>4. ASSUME NEW t \in Symbolizers, Open(t)
      PROVE  PublishInv'
  <2> t \in Threads
    BY DEF Threads
  <2> SUFFICES ASSUME NEW m \in Libs, Begun', store'[Target(m)] = NoFile
               PROVE  (\E u \in Symbolizers : WillPublish(u, m))'
    BY DEF PublishInv
  <2>1. Name[lib[t]] \in Names /\ lib[t] = m
    BY LibTypes, Single
  <2>2. temp'[Name[m]] = OpenedFile(t)
    BY <1>4, <2>1, GoodOpen DEF TypeOK, DiskType
  <2> QED
    BY <1>4, <2>2, GoodOpen DEF WillPublish
<1>5. ASSUME NEW t \in Symbolizers, ReadSymbols(t)
      PROVE  PublishInv'
  <2> t \in Threads
    BY DEF Threads
  <2> SUFFICES ASSUME NEW m \in Libs, Begun', store'[Target(m)] = NoFile
               PROVE  (\E u \in Symbolizers : WillPublish(u, m))'
    BY DEF PublishInv
  <2>1. lib[t] \in Readable
    BY LibTypes, Single
  <2>2. /\ UNCHANGED <<fd, dir, temp, store, content, answered>>
        /\ pc[t] = "read" /\ pc' = [pc EXCEPT ![t] = "write"]
    BY <1>5, <2>1 DEF ReadSymbols, Goto, localVars, diskVars
  <2>3. /\ pc'[t] = "write"
        /\ \A u \in Threads : u # t => pc'[u] = pc[u]
    BY <2>2 DEF TypeOK, LocalType
  <2>4. Begun
    BY <2>2 DEF Begun
  <2>5. PICK u \in Symbolizers : WillPublish(u, m)
    BY <2>2, <2>4 DEF PublishInv
  <2> QED
    BY <2>2, <2>3, <2>5 DEF WillPublish, ModuleOf, Threads
<1>6. ASSUME NEW t \in Symbolizers, WriteRecord(t)
      PROVE  PublishInv'
  <2> t \in Threads
    BY DEF Threads
  <2> SUFFICES ASSUME NEW m \in Libs, Begun', store'[Target(m)] = NoFile
               PROVE  (\E u \in Symbolizers : WillPublish(u, m))'
    BY DEF PublishInv
  <2> DEFINE f == temp[Name[m]]
  <2>1. /\ UNCHANGED <<fd, dir, temp, store, answered>> /\ pc[t] = "write"
        /\ \E w \in {"target", "write"} : pc' = [pc EXCEPT ![t] = w]
    BY <1>6, GoodWrite DEF WriteRecord
  <2>2. /\ pc'[t] \in {"target", "write"}
        /\ \A u \in Threads : u # t => pc'[u] = pc[u]
    BY <2>1 DEF TypeOK, LocalType
  <2>3. Begun
    BY <2>1 DEF Begun
  <2>4. PICK u \in Symbolizers : WillPublish(u, m)
    BY <2>1, <2>3 DEF PublishInv
  <2>5. Name[m] \in Names /\ (f # NoFile => f \in Calls) /\ 1 \in Offsets
    BY Single DEF Names, TypeOK, DiskType
  <2>6. f # NoFile /\ ModuleOf(f) # NoLib => ModuleOf(f)' # NoLib
    BY <1>6, <2>1, <2>5, WriteKeeps DEF ModuleOf
  <2>7. CASE u # t
    BY <2>1, <2>2, <2>4, <2>6, <2>7 DEF WillPublish, Threads
  <2>8. CASE u = t
    <3>1. f # NoFile /\ fd[t] = f
      BY <2>1, <2>4, <2>8 DEF WillPublish
    <3>2. CASE ModuleOf(f) # NoLib
      BY <2>1, <2>2, <2>6, <3>1, <3>2 DEF WillPublish
    <3>3. CASE ModuleOf(f) = NoLib
      <4>1. PICK v \in Symbolizers : WillWrite(v, f, 1)
        BY <2>5, <3>1, <3>3 DEF RecordInv, ModuleOf
      <4>2. CASE v # t
        BY <2>1, <2>2, <3>1, <4>1, <4>2 DEF WillPublish, WillWrite, Threads
      <4>3. CASE v = t
        <5>1. pos[t] + 1 = 1
          BY <2>1, <4>1, <4>3, NextRecord DEF WillWrite
        <5>2. content'[f][1] # NoLib
          BY <1>6, <2>5, <3>1, <5>1, WriteKeeps
        <5> QED
          BY <2>1, <2>2, <3>1, <5>2 DEF WillPublish, ModuleOf
      <4> QED
        BY <4>2, <4>3
    <3> QED
      BY <3>2, <3>3
  <2> QED
    BY <2>7, <2>8
<1>7. ASSUME NEW t \in Symbolizers, TargetPath(t)
      PROVE  PublishInv'
  <2> t \in Threads
    BY DEF Threads
  <2> SUFFICES ASSUME NEW m \in Libs, Begun', store'[Target(m)] = NoFile
               PROVE  (\E u \in Symbolizers : WillPublish(u, m))'
    BY DEF PublishInv
  <2> DEFINE f == temp[Name[m]]
  <2>1. /\ UNCHANGED <<fd, temp, store, content, answered>>
        /\ pc[t] = "target" /\ pc'[t] = "rename"
        /\ \A u \in Threads : u # t => pc'[u] = pc[u] /\ dir'[u] = dir[u]
    BY <1>7 DEF TargetPath, Goto, diskVars, TypeOK, LocalType
  <2>2. Begun
    BY <2>1 DEF Begun
  <2>3. PICK u \in Symbolizers : WillPublish(u, m)
    BY <2>1, <2>2 DEF PublishInv
  <2>4. CASE u # t
    BY <2>1, <2>3, <2>4 DEF WillPublish, ModuleOf, Threads
  <2>5. CASE u = t
    <3>1. f # NoFile /\ ModuleOf(f) # NoLib
      BY <2>1, <2>3, <2>5 DEF WillPublish
    <3>2. lib[t] = m
      BY Single
    <3>3. dir'[t] = Target(ModuleOf(f))
      BY <1>7, <3>1, <3>2 DEF TargetPath, TargetOf, TypeOK, LocalType
    <3>4. dir'[t] # NullPath
      BY <3>3 DEF Target, Path, NullPath
    <3> QED
      BY <2>1, <3>1, <3>4 DEF WillPublish
  <2> QED
    BY <2>4, <2>5
<1>8. ASSUME NEW t \in Symbolizers, Rename(t)
      PROVE  PublishInv'
  <2> t \in Threads
    BY DEF Threads
  <2> SUFFICES ASSUME NEW m \in Libs, Begun', store'[Target(m)] = NoFile
               PROVE  (\E u \in Symbolizers : WillPublish(u, m))'
    BY DEF PublishInv
  <2> DEFINE f == temp[Name[m]]
  <2>1. /\ UNCHANGED <<fd, dir, content>>
        /\ pc[t] = "rename" /\ pc'[t] = "idle"
        /\ \A u \in Threads : u # t => pc'[u] = pc[u]
    BY <1>8 DEF Rename, Goto, localVars, TypeOK, LocalType
  <2>2. lib[t] = m /\ Target(m) \in Paths
    BY Single DEF Paths
  <2>3. Begun
    BY <2>1 DEF Begun
  <2>4. CASE dir[t] # NullPath /\ f # NoFile
    <3>1. dir[t] = Target(m)
      BY <2>4, Single DEF TargetInv
    <3>2. store' = [store EXCEPT ![dir[t]] = f]
      BY <1>8, <2>2, <2>4, NoFault DEF Rename
    <3> QED
      BY <2>2, <2>4, <3>1, <3>2 DEF TypeOK, DiskType
  <2>5. CASE ~(dir[t] # NullPath /\ f # NoFile)
    <3>1. UNCHANGED <<temp, store>>
      BY <1>8, <2>2, <2>5 DEF Rename
    <3>2. PICK u \in Symbolizers : WillPublish(u, m)
      BY <2>3, <3>1 DEF PublishInv
    <3>3. u # t
      BY <2>1, <2>5, <3>2 DEF WillPublish
    <3> QED
      BY <2>1, <3>1, <3>2, <3>3 DEF WillPublish, ModuleOf, Threads
  <2> QED
    BY <2>4, <2>5
<1>9. ASSUME NEW t \in Symbolizers, NEW l \in Libs, Symbol(t, l)
      PROVE  PublishInv'
  <2> t \in Threads
    BY DEF Threads
  <2> SUFFICES ASSUME NEW m \in Libs, Begun', store'[Target(m)] = NoFile
               PROVE  (\E u \in Symbolizers : WillPublish(u, m))'
    BY DEF PublishInv
  <2>1. /\ pc[t] = "idle" /\ pc'[t] \in {"exists", "delete", "open"}
        /\ \A u \in Threads : u # t => pc'[u] = pc[u]
    BY <1>9 DEF Symbol, Goto, TypeOK, LocalType
  <2>2. UNCHANGED <<fd, dir, temp, store, content, answered>>
    BY <1>9 DEF Symbol, localVars, diskVars
  <2>3. Begun
    BY <2>1, <2>2 DEF Begun, Threads
  <2>4. PICK u \in Symbolizers : WillPublish(u, m)
    BY <2>2, <2>3 DEF PublishInv
  <2>5. u \in Threads /\ u # t
    BY <2>1, <2>4 DEF WillPublish, Threads
  <2> QED
    BY <2>1, <2>2, <2>4, <2>5 DEF WillPublish, ModuleOf
<1> QED
  BY <1>1, <1>2, <1>3, <1>4, <1>5, <1>6, <1>7, <1>8, <1>9, NoFailureSteps DEF
     SymbolStep

\* The invariant of the threads that symbolize one library is inductive.
LEMMA ManyInvHolds ==
    ASSUME OneLibrary, NoFailures
    PROVE  Spec => [](IndInv /\ ManyInv)
<1>1. Init => ManyInv
  <2> SUFFICES ASSUME Init PROVE ManyInv
    OBVIOUS
  <2>1. GoodInv /\ TargetInv
    BY DEF Init, GoodInv, TargetInv, Threads
  <2>2. RecordInv
    BY DEF Init, RecordInv, Calls, NoFile
  <2>3. PublishInv
    BY DEF Init, PublishInv, Begun, Threads
  <2> QED
    BY <2>1, <2>2, <2>3 DEF ManyInv
<1>2. IndInv /\ ManyInv /\ [Next]_vars => IndInv' /\ ManyInv'
  BY TypeStep, ThreadStep, GoodStep, TargetStep, RecordStep, PublishStep
     DEF IndInv, ManyInv
<1> QED
  BY <1>1, <1>2, InitIndInv, PTL DEF Spec

\* Any number of threads that symbolize one library delete, truncate and move
\* each other's temporary file; when all of them are done, the library has its
\* whole symbol file if symbol() returned OK to one of them.
THEOREM AnsweredAreStored ==
    ASSUME OneLibrary, NoFailures
    PROVE  Spec => []AnsweredIsStored
<1>1. IndInv /\ ManyInv => AnsweredIsStored
  <2> SUFFICES ASSUME IndInv, ManyInv,
                      \A t \in Symbolizers : pc[t] = "idle",
                      NEW c \in Calls, answered[c] # NoLib
               PROVE  LET l == answered[c] IN
                      /\ store[Target(l)] # NoFile
                      /\ content[store[Target(l)]] = SymbolsOf(l)
    BY DEF AnsweredIsStored
  <2> DEFINE l == answered[c]
             f == store[Target(l)]
  <2>1. l \in Libs
    BY DEF IndInv, TypeOK, ResultType
  <2>2. Target(l) \in Paths
    BY <2>1 DEF Paths
  <2>3. f # NoFile
    BY <2>1 DEF ManyInv, PublishInv, Begun, WillPublish
  <2>4. f \in Calls
    BY <2>2, <2>3 DEF IndInv, TypeOK, DiskType
  <2>5. content[f] \in [Offsets -> Libs \cup {NoLib}]
    BY <2>4 DEF IndInv, TypeOK, DiskType
  <2>6. \A k \in Offsets : content[f][k] # NoLib
    BY <2>2, <2>4 DEF ManyInv, RecordInv, WillWrite
  <2>7. Libs = {l}
    BY <2>1, Single
  <2>8. Offsets = DOMAIN Records[l]
    BY <2>7 DEF Offsets
  <2>9. \A k \in Offsets : content[f][k] = l
    BY <2>5, <2>6, <2>7
  <2>10. content[f] = [k \in Offsets |-> l]
    BY <2>5, <2>9
  <2>11. SymbolsOf(l) = [k \in Offsets |-> l]
    BY <2>8 DEF SymbolsOf
  <2> QED
    BY <2>3, <2>10, <2>11
<1> QED
  BY <1>1, ManyInvHolds, PTL
=============================================================================
