--------------------------- MODULE MinidumpReader ---------------------------
(***************************************************************************)
(* The reader of minidumps (Minidump and its streams in minidump.cc), as   *)
(* what it returns for a file f = [length, disk].  Sets stand for results: *)
(* {} is the code's NULL or false, a singleton what was read.  Each is the *)
(* result on a stream that is still good: a read that is too short sets    *)
(* the failbit, and then every later seek of the same Minidump fails too.  *)
(***************************************************************************)
EXTENDS MinidumpFileWriter, RangeMap, Sequences, SequencesExt

CONSTANTS Ashmem,               \* names that begin with /dev/ashmem/
          max_modules_,         \* MinidumpModuleList::max_modules_
          max_string_length_    \* Minidump::max_string_length_

ASSUME ReaderAssumption == max_modules_ \in Nat /\ max_string_length_ \in Nat

\* n bytes at rva: what was written there as one object, zeros if nothing
\* was, else a damaged object.  Too short a file yields nothing.
ReadBytes(f, rva, n) ==
    LET touches(p) == p < rva + n /\ rva < p + f.disk[p].len
    IN  IF rva + n > f.length THEN {}
        ELSE IF rva \in DOMAIN f.disk /\ f.disk[rva].len >= n
             THEN {f.disk[rva].data}
        ELSE IF \E p \in DOMAIN f.disk : touches(p) THEN {Damaged}
        ELSE {Zeros}

\* The objects that really are of the type with this field.
Typed(read, field) == {data \in read : field \in DOMAIN data}

UniqueStreams == {"threads", "modules", "memory", "exception", "system"}

\* The entries of the directory; one that was never written has type 0,
\* MD_UNUSED_STREAM.
DirEntries(f, header) ==
    [i \in 1..header.count |->
        LET read == Typed(ReadBytes(f, header.dir + (i - 1) * SizeOf.dirent,
                                    SizeOf.dirent), "type")
        IN  IF read = {} THEN [type |-> "unused", size |-> 0, rva |-> 0]
            ELSE CHOOSE entry \in read : TRUE]

\* Minidump::Read: the directory of a file with a valid header, in which no
\* type that must be unique occurs twice.
Directory(f) ==
    LET fits(h) == h.dir + h.count * SizeOf.dirent <= f.length
        unique(d) == \A i, j \in DOMAIN d :
            d[i].type = d[j].type /\ d[i].type \in UniqueStreams => i = j
    IN  {d \in {DirEntries(f, h) :
                h \in {g \in Typed(ReadBytes(f, 0, SizeOf.header), "dir") :
                        fits(g)}} : unique(d)}

\* SeekToStreamType.
Streams(f, type) ==
    UNION {{d[i] : i \in {j \in DOMAIN d : d[j].type = type}} :
            d \in Directory(f)}

\* The entries of a list stream whose size agrees with its count (4 bytes of
\* padding are allowed).
ListOf(f, s, size) ==
    {[i \in 1..c.count |->
        ReadBytes(f, s.rva + (s.size - c.count * size) + (i - 1) * size,
                  size)] :
        c \in {d \in Typed(ReadBytes(f, s.rva, SizeOf.count), "count") :
                    s.size - (SizeOf.count + d.count * size) \in {0, 4}}}

MinidumpSystemInfo(f) ==
    UNION {Typed(ReadBytes(f, s.rva, SizeOf.system), "platform") :
            s \in {t \in Streams(f, "system") : t.size = SizeOf.system}}

IsAndroid(f) == \E si \in MinidumpSystemInfo(f) : si.platform = "android"

MinidumpContext(f, location) ==
    {c \in Typed(ReadBytes(f, location.rva, location.size), "crashed") :
        location.size = SizeOf.context}

\* MinidumpMemoryRegion::GetMemory.
GetMemory(f, d) ==
    IF d.rva = 0 \/ d.size = 0 THEN {} ELSE ReadBytes(f, d.rva, d.size)

\* MinidumpThreadList::Read, with the context and the stack of each thread.
ReadThread(f, read) ==
    LET raw == CHOOSE r \in read : TRUE
    IN  [thread |-> raw.thread, stack |-> raw.stack,
         memory |-> GetMemory(f, raw.stack),
         context |-> MinidumpContext(f, raw.context)]

MinidumpThreadList(f) ==
    {[i \in DOMAIN l |-> ReadThread(f, l[i])] :
        l \in {r \in UNION {ListOf(f, s, SizeOf.thread) :
                            s \in Streams(f, "threads")} :
                /\ \A i \in DOMAIN r : Typed(r[i], "stack") # {}
                /\ \A i, j \in DOMAIN r :
                        (CHOOSE a \in r[i] : TRUE).thread =
                        (CHOOSE b \in r[j] : TRUE).thread => i = j}}

\* Minidump::ReadString.  A length that was never written is 0, and the
\* string is empty.
ReadString(f, rva) ==
    LET read == ReadBytes(f, rva, StringLen(0))
    IN  {s \in Typed(read, "name") :
            f.disk[rva].len <= StringLen(max_string_length_)}
        \cup {[name |-> NoName] : zeros \in read \cap {Zeros}}

\* MinidumpModule::Read and ReadAuxiliaryData: a module needs a size and a
\* name; its identifier may be missing.
ReadModule(f, read) ==
    LET raw == CHOOSE r \in read : TRUE
    IN  [start |-> raw.start, size |-> raw.size,
         name |-> ReadString(f, raw.name),
         id |-> IF raw.cv.size = 0 THEN {}
                ELSE Typed(ReadBytes(f, raw.cv.rva, raw.cv.size), "id")]

\* One module into the range map; overlap with the one before is backed out
\* and tried again, and what still cannot be stored refuses the list.  A
\* mapping of shared memory may be missing from the map.
StoreModule(acc, m, index, shrink) ==
    LET back == acc.end - m.start
        retry == m.start < acc.end /\ back < m.size
    IN  IF ~acc.ok THEN acc
        ELSE IF CanStore(acc.map, m.start, m.size, shrink)
        THEN [ok |-> TRUE, end |-> m.start + m.size,
              map |-> Stored(acc.map, m.start, m.size, index, shrink)]
        ELSE IF \E n \in m.name : n.name \in Ashmem
        THEN [acc EXCEPT !.end = m.start + m.size]
        ELSE IF retry /\ CanStore(acc.map, acc.end, m.size - back, shrink)
        THEN [ok |-> TRUE, end |-> m.start + m.size,
              map |-> Stored(acc.map, acc.end, m.size - back, index, shrink)]
        ELSE [acc EXCEPT !.ok = FALSE]

ModuleRanges(modules, shrink) ==
    LET add(acc, i) == StoreModule(acc, modules[i], i, shrink)
    IN  FoldLeft(add, [ok |-> TRUE, end |-> 0, map |-> EmptyMap],
                 [i \in DOMAIN modules |-> i])

MinidumpModuleList(f) ==
    LET whole(l) == /\ Len(l) <= max_modules_
                    /\ \A i \in DOMAIN l : Typed(l[i], "cv") # {}
        lists == {[i \in DOMAIN l |-> ReadModule(f, l[i])] :
                    l \in {r \in UNION {ListOf(f, s, SizeOf.module) :
                                        s \in Streams(f, "modules")} :
                            whole(r)}}
        valid(l) == \A i \in DOMAIN l : l[i].size # 0 /\ l[i].name # {}
        stored == {[modules |-> l, ranges |-> ModuleRanges(l, IsAndroid(f))] :
                    l \in {r \in lists : valid(r)}}
    IN  {[modules |-> s.modules, ranges |-> s.ranges.map] :
            s \in {t \in stored : t.ranges.ok}}

GetModuleForAddress(list, address) ==
    {list.modules[list.ranges[high].entry] :
        high \in RetrieveRange(list.ranges, address)}

\* MinidumpMemoryList::Read: an empty or an overlapping region refuses the
\* whole list.
MinidumpMemoryList(f) ==
    LET lists == UNION {ListOf(f, s, SizeOf.memory) :
                        s \in Streams(f, "memory")}
        region(read) == CHOOSE r \in read : TRUE
        add(acc, read) ==
            IF acc.ok /\ CanStore(acc.map, region(read).start,
                                  region(read).size, FALSE)
            THEN [ok |-> TRUE,
                  map |-> Stored(acc.map, region(read).start,
                                 region(read).size, region(read), FALSE)]
            ELSE [acc EXCEPT !.ok = FALSE]
        ranges(l) == FoldLeft(add, [ok |-> TRUE, map |-> EmptyMap], l)
    IN  {ranges(l).map :
            l \in {r \in lists : /\ \A i \in DOMAIN r :
                                        Typed(r[i], "rva") # {}
                                 /\ ranges(r).ok}}

MinidumpException(f) ==
    UNION {Typed(ReadBytes(f, s.rva, SizeOf.exception), "address") :
            s \in {t \in Streams(f, "exception") :
                    t.size = SizeOf.exception}}
=============================================================================
