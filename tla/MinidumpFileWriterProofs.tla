---------------------- MODULE MinidumpFileWriterProofs ----------------------
(***************************************************************************)
(* Proofs about the allocation of space in the file: pieces that are       *)
(* allocated one after the other lie inside the file and apart from each   *)
(* other, so that copying into one leaves the others as they are.          *)
(***************************************************************************)
EXTENDS MinidumpFileWriter, Integers, TLAPS

\* What holds between the calls of a MinidumpFileWriter: what was allocated
\* is inside size_, and the file is that long, unless ftruncate is avoided.
IsWriter(w) ==
    /\ {"open", "position", "size", "length", "offset", "disk", "room",
        "workaround", "maxLength", "bug"} \subseteq DOMAIN w
    /\ w.position \in Nat /\ w.size \in Nat /\ w.length \in Nat
    /\ w.offset \in Nat /\ w.room \in Nat
    /\ w.position <= w.size
    /\ w.workaround \/ (w.size <= w.length /\ w.position % 8 = 0)

\* The objects that were written lie in what is allocated.
IsFilled(w) ==
    \A p \in DOMAIN w.disk :
        /\ p \in Nat /\ w.disk[p].len \in Nat
        /\ p + w.disk[p].len <= w.position

\* What is written has a length.
LEMMA SizesRight ==
    /\ SizeOf.header \in Nat /\ SizeOf.dirent \in Nat /\ SizeOf.count \in Nat
    /\ SizeOf.thread \in Nat /\ SizeOf.module \in Nat /\ SizeOf.memory \in Nat
    /\ SizeOf.context \in Nat /\ SizeOf.exception \in Nat
    /\ SizeOf.system \in Nat /\ SizeOf.string \in Nat /\ SizeOf.debug \in Nat
    /\ SizeOf.linkmap \in Nat /\ SizeOf.buildid \in Nat
BY DEF SizeOf

\* Rounding up to a multiple of 8.
LEMMA AlignedRight ==
    ASSUME NEW n \in Nat
    PROVE  /\ Aligned(n) \in Nat /\ Aligned(n) % 8 = 0
           /\ n <= Aligned(n) /\ Aligned(n) < n + 8
BY DEF Aligned

\* A writer that was just made.
LEMMA NewWriterRight ==
    ASSUME NEW bug, NEW maxLength, NEW room \in Nat
    PROVE  /\ IsWriter(NewWriter(bug, maxLength, room))
           /\ IsFilled(NewWriter(bug, maxLength, room))
BY DEF IsWriter, IsFilled, NewWriter

\* Allocate(n) reserves at least n bytes from position_ on inside the file,
\* grown by a page or by as much as is needed, keeps position_ aligned and
\* writes nothing.
THEOREM AllocateInside ==
    ASSUME NEW w, IsWriter(w), NEW n \in Nat
    PROVE  /\ IsWriter(Allocate(w, n))
           /\ w.position + n <= Allocate(w, n).position
           /\ Allocate(w, n).disk = w.disk
<1> DEFINE size == IF w.workaround THEN w.size + n
                   ELSE IF MustGrow(w, n) THEN w.size + Growth(n) ELSE w.size
           position == w.position + Reserved(w, n)
           length == IF w.workaround THEN w.length ELSE size
           a == Allocate(w, n)
<1>1. a = [w EXCEPT !.position = position, !.size = size, !.length = length]
  BY DEF Allocate
<1>2. /\ position \in Nat /\ w.position + n <= position
      /\ size \in Nat /\ position <= size
      /\ w.workaround \/ position % 8 = 0
  <2>1. /\ Aligned(n) \in Nat /\ Aligned(n) % 8 = 0 /\ n <= Aligned(n)
        /\ PageSize \in Nat
    BY AlignedRight, FileWriterAssumption
  <2>2. CASE w.workaround
    BY <2>2 DEF Reserved, IsWriter
  <2>3. CASE ~w.workaround
    <3>1. position = w.position + Aligned(n) /\ w.position % 8 = 0
      BY <2>3 DEF Reserved, IsWriter
    <3>2. position % 8 = 0
      BY <2>1, <3>1 DEF IsWriter
    <3>3. size \in Nat /\ position <= size
      BY <2>1, <2>3, <3>1 DEF MustGrow, Growth, IsWriter
    <3> QED
      BY <2>1, <3>1, <3>2, <3>3 DEF IsWriter
  <2> QED
    BY <2>2, <2>3
<1>3. length \in Nat /\ (w.workaround \/ length = size)
  BY <1>2 DEF IsWriter
<1> HIDE DEF position, size, length, a
<1>4. /\ a.position = position /\ a.size = size /\ a.length = length
      /\ a.offset = w.offset /\ a.disk = w.disk /\ a.room = w.room
      /\ a.workaround = w.workaround
      /\ DOMAIN a = DOMAIN w
  BY <1>1 DEF IsWriter
<1>5. IsWriter(a)
  BY <1>2, <1>3, <1>4 DEF IsWriter
<1> QED
  BY <1>2, <1>4, <1>5 DEF a

\* Where Copy writes, if its position and length do not wrap: where it was
\* told to, inside size_.  (kInvalidMDRVA is excluded: the sum wraps there,
\* the bounds check passes and the data goes to the offset of the file.)
LEMMA CopyWrites ==
    ASSUME NEW w, IsWriter(w), NEW rva \in Nat, NEW len \in Nat, NEW data,
           rva + len < RVALimit, rva # kInvalidMDRVA, CopyOK(w, rva, len)
    PROVE  LET c == Copy(w, rva, len, data)
           IN  /\ c.disk = Written(w.disk, rva, len, data)
               /\ rva + len <= w.size
               /\ c.position = w.position
               /\ w.workaround \/ c.length = w.length
               /\ IsWriter(c)
<1> DEFINE length == IF w.length < rva + len THEN rva + len ELSE w.length
           c == Copy(w, rva, len, data)
           disk == Written(w.disk, rva, len, data)
<1>1. rva + len <= w.size /\ w.room > 0
  <2>1. (len + rva) % RVALimit = rva + len
    BY FileWriterAssumption
  <2> QED
    BY <2>1 DEF CopyOK, Fits
<1>2. c = [w EXCEPT !.disk = disk, !.room = w.room - 1, !.offset = rva + len,
                    !.length = length]
  BY DEF Copy
<1>3. length \in Nat /\ w.length <= length
      /\ (w.workaround \/ length = w.length)
  BY <1>1 DEF IsWriter
<1>4. w.room - 1 \in Nat /\ rva + len \in Nat
  BY <1>1 DEF IsWriter
<1> HIDE DEF disk, length, c
<1>5. /\ c.disk = disk /\ c.room = w.room - 1 /\ c.offset = rva + len
      /\ c.length = length /\ c.position = w.position /\ c.size = w.size
      /\ c.workaround = w.workaround /\ DOMAIN c = DOMAIN w
  BY <1>2 DEF IsWriter
<1>6. IsWriter(c)
  BY <1>3, <1>4, <1>5 DEF IsWriter
<1> QED
  BY <1>1, <1>3, <1>5, <1>6 DEF c, disk

\* Whatever Copy is asked for, it allocates nothing, and it writes the data
\* as one object or leaves the file as it is.
LEMMA CopyRight ==
    ASSUME NEW w, IsWriter(w), NEW rva \in Nat, NEW len \in Nat, NEW data,
           NEW c, c = Copy(w, rva, len, data)
    PROVE  /\ IsWriter(c) /\ c.position = w.position
           /\ \/ c.disk = w.disk
              \/ \E at \in Nat : c.disk = Written(w.disk, at, len, data)
<1> DEFINE at == IF rva = kInvalidMDRVA THEN w.offset ELSE rva
           length == IF w.length < at + len THEN at + len ELSE w.length
           disk == Written(w.disk, at, len, data)
<1>1. at \in Nat /\ length \in Nat /\ w.length <= length
  BY DEF IsWriter
<1>2. CASE CopyOK(w, rva, len)
  <2>1. c = [w EXCEPT !.disk = disk, !.room = w.room - 1, !.offset = at + len,
                      !.length = length]
    BY <1>2 DEF Copy
  <2>2. w.room - 1 \in Nat /\ at + len \in Nat
    BY <1>1, <1>2 DEF CopyOK, IsWriter
  <2> HIDE DEF disk, length, at
  <2>3. /\ c.disk = disk /\ c.room = w.room - 1 /\ c.offset = at + len
        /\ c.length = length /\ c.position = w.position /\ c.size = w.size
        /\ c.workaround = w.workaround /\ DOMAIN c = DOMAIN w
    BY <2>1 DEF IsWriter
  <2>4. IsWriter(c)
    BY <1>1, <2>2, <2>3 DEF IsWriter
  <2> QED
    BY <1>1, <2>3, <2>4 DEF disk
<1>3. CASE ~CopyOK(w, rva, len) /\ Fits(w, rva, len)
  <2>1. c = [w EXCEPT !.offset = at]
    BY <1>3 DEF Copy
  <2> HIDE DEF at
  <2>2. /\ c.offset = at /\ c.disk = w.disk /\ c.room = w.room
        /\ c.length = w.length /\ c.position = w.position /\ c.size = w.size
        /\ c.workaround = w.workaround /\ DOMAIN c = DOMAIN w
    BY <2>1 DEF IsWriter
  <2> QED
    BY <1>1, <2>2 DEF IsWriter
<1>4. CASE ~CopyOK(w, rva, len) /\ ~Fits(w, rva, len)
  BY <1>4 DEF Copy
<1> QED
  BY <1>2, <1>3, <1>4

\* WriteString allocates what it needs or nothing, and writes one object.
LEMMA WriteStringRight ==
    ASSUME NEW w, IsWriter(w), NEW n \in Nat, NEW data,
           NEW c, c = WriteString(w, n, data)
    PROVE  /\ IsWriter(c) /\ w.position <= c.position
           /\ \/ c.disk = w.disk
              \/ \E at, len \in Nat :
                    \/ c.disk = Written(w.disk, at, len, data)
                    \/ c.disk = Written(w.disk, at, len, Zeros)
<1> DEFINE a == Allocate(w, StringLen(n))
           d == Copy(a, w.position, StringLen(n), data)
<1>1. StringLen(n) \in Nat /\ SizeOf.string \in Nat /\ w.position \in Nat
  BY DEF StringLen, SizeOf, IsWriter
<1>2. IsWriter(a) /\ w.position + StringLen(n) <= a.position /\ a.disk = w.disk
  BY <1>1, AllocateInside
<1>3. /\ IsWriter(d) /\ d.position = a.position
      /\ \/ d.disk = a.disk
         \/ \E at \in Nat : d.disk = Written(a.disk, at, StringLen(n), data)
  BY <1>1, <1>2, CopyRight
<1>4. w.position <= a.position /\ a.position \in Nat
  BY <1>1, <1>2 DEF IsWriter
<1>5. CASE ~CanAllocate(w, StringLen(n))
  <2>1. c = Copy(w, kInvalidMDRVA, SizeOf.string, Zeros)
    BY <1>5 DEF WriteString, FlushInvalid
  <2>2. kInvalidMDRVA \in Nat
    BY FileWriterAssumption DEF kInvalidMDRVA
  <2>3. /\ IsWriter(c) /\ c.position = w.position
        /\ \/ c.disk = w.disk
           \/ \E at \in Nat :
                    c.disk = Written(w.disk, at, SizeOf.string, Zeros)
    BY <1>1, <2>1, <2>2, CopyRight
  <2> QED
    BY <1>1, <2>3
<1>6. CASE CanAllocate(w, StringLen(n)) /\ w.room > n + 1
  <2>1. c = [d EXCEPT !.room = w.room - (n + 2),
                      !.offset = w.position + SizeOf.string]
    BY <1>6 DEF WriteString
  <2>2. w.room - (n + 2) \in Nat /\ w.position + SizeOf.string \in Nat
    BY <1>1, <1>6 DEF IsWriter
  <2> HIDE DEF d
  <2>3. /\ c.room = w.room - (n + 2) /\ c.offset = w.position + SizeOf.string
        /\ c.disk = d.disk /\ c.length = d.length
        /\ c.position = d.position /\ c.size = d.size
        /\ c.workaround = d.workaround /\ DOMAIN c = DOMAIN d
    BY <1>3, <2>1 DEF IsWriter
  <2>4. IsWriter(c)
    BY <1>3, <2>2, <2>3 DEF IsWriter
  <2> QED
    BY <1>1, <1>2, <1>3, <1>4, <2>3, <2>4
<1>7. CASE CanAllocate(w, StringLen(n)) /\ ~(w.room > n + 1)
  <2>1. c = [a EXCEPT !.room = 0]
    BY <1>7 DEF WriteString
  <2> HIDE DEF a
  <2>2. /\ c.room = 0 /\ c.offset = a.offset
        /\ c.disk = a.disk /\ c.length = a.length
        /\ c.position = a.position /\ c.size = a.size
        /\ c.workaround = a.workaround /\ DOMAIN c = DOMAIN a
    BY <1>2, <2>1 DEF IsWriter
  <2>3. IsWriter(c)
    BY <1>2, <2>2 DEF IsWriter
  <2> QED
    BY <1>2, <1>4, <2>2, <2>3
<1> QED
  BY <1>5, <1>6, <1>7

\* What is written is there afterwards.
LEMMA WrittenIsThere ==
    ASSUME NEW disk, NEW rva, NEW len, NEW data,
           NEW d, d = Written(disk, rva, len, data)
    PROVE  d[rva] = [len |-> len, data |-> data]
BY DEF Written

\* An object that lies apart from what is written stays as it is.
LEMMA UntouchedKept ==
    ASSUME NEW disk, NEW rva \in Nat, NEW len \in Nat, NEW data,
           NEW d, d = Written(disk, rva, len, data),
           NEW p \in DOMAIN disk, p # rva, p \in Nat, disk[p].len \in Nat,
           p + disk[p].len <= rva \/ rva + len <= p
    PROVE  d[p] = disk[p]
BY DEF Written

\* An object that is copied into the space just allocated for it is in the
\* file, and every object that was there before is as it was: allocations
\* are disjoint.
THEOREM ObjectsApart ==
    ASSUME NEW w, IsWriter(w), IsFilled(w), NEW n \in Nat,
           NEW len \in 1..n, NEW data, w.position + n < RVALimit,
           CopyOK(Allocate(w, n), w.position, len)
    PROVE  LET c == Copy(Allocate(w, n), w.position, len, data)
           IN  /\ IsWriter(c) /\ IsFilled(c)
               /\ c.disk[w.position] = [len |-> len, data |-> data]
               /\ \A p \in DOMAIN w.disk \ {w.position} :
                     c.disk[p] = w.disk[p]
<1> DEFINE a == Allocate(w, n)
           c == Copy(a, w.position, len, data)
<1>1. /\ IsWriter(a) /\ w.position + n <= a.position /\ a.disk = w.disk
      /\ a.position \in Nat /\ w.position \in Nat
  <2>1. /\ IsWriter(a) /\ w.position + n <= a.position /\ a.disk = w.disk
    BY AllocateInside
  <2> QED
    BY <2>1 DEF IsWriter
<1>2. /\ w.position # kInvalidMDRVA /\ w.position + len < RVALimit
      /\ len \in Nat
  BY <1>1, FileWriterAssumption DEF kInvalidMDRVA
<1> HIDE DEF a
<1>3. /\ IsWriter(c) /\ c.position = a.position
      /\ c.disk = Written(w.disk, w.position, len, data)
  BY <1>1, <1>2, CopyWrites DEF a
<1> HIDE DEF c
<1>4. /\ DOMAIN c.disk = DOMAIN w.disk \cup {w.position}
      /\ c.disk[w.position] = [len |-> len, data |-> data]
      /\ \A p \in DOMAIN w.disk \ {w.position} : c.disk[p] = w.disk[p]
  <2>1. DOMAIN c.disk = DOMAIN w.disk \cup {w.position}
    BY <1>3 DEF Written
  <2>2. c.disk[w.position] = [len |-> len, data |-> data]
    BY <1>3, WrittenIsThere
  <2>3. ASSUME NEW p \in DOMAIN w.disk \ {w.position}
        PROVE  c.disk[p] = w.disk[p]
    <3>1. /\ p \in Nat /\ w.disk[p].len \in Nat
          /\ p + w.disk[p].len <= w.position
      BY DEF IsFilled
    <3> QED
      BY <1>1, <1>2, <1>3, <3>1, UntouchedKept
  <2> QED
    BY <2>1, <2>2, <2>3
<1>5. ASSUME NEW p \in DOMAIN c.disk
      PROVE  /\ p \in Nat /\ c.disk[p].len \in Nat
             /\ p + c.disk[p].len <= c.position
  <2>1. CASE p = w.position
    BY <1>1, <1>2, <1>3, <1>4, <2>1
  <2>2. CASE p # w.position
    BY <1>1, <1>3, <1>4, <2>2 DEF IsFilled
  <2> QED
    BY <2>1, <2>2
<1>6. IsFilled(c)
  BY <1>5 DEF IsFilled
<1> QED
  BY <1>3, <1>4, <1>6 DEF c, a

\* The entries of an array do not overlap.
LEMMA EntriesApart ==
    ASSUME NEW i \in Nat, NEW j \in Nat, NEW len \in Nat, i < j
    PROVE  i * len + len <= j * len
<1>1. PICK k \in Nat : j = i + 1 + k
  <2>1. j - i - 1 \in Nat /\ j = i + 1 + (j - i - 1)
    OBVIOUS
  <2> QED
    BY <2>1
<1>2. j * len = i * len + len + k * len
  BY <1>1
<1>3. k * len \in Nat /\ i * len \in Nat
  OBVIOUS
<1> QED
  BY <1>2, <1>3

\* TypedMDRVA::CopyIndexAfterObject: the entries of a list may be written in
\* any order, and more than once; none touches the count before them or
\* another entry.
THEOREM EntryWritten ==
    ASSUME NEW w, IsWriter(w), NEW object \in Nat, NEW objectLen \in Nat \ {0},
           NEW i \in Nat, NEW len \in Nat \ {0}, NEW data,
           object + objectLen + i * len + len < RVALimit,
           CopyOK(w, object + objectLen + i * len, len)
    PROVE  LET at(j) == object + objectLen + j * len
               c == CopyIndexAfterObject(w, object, objectLen, i, len, data)
           IN  /\ c.disk[at(i)] = [len |-> len, data |-> data]
               /\ object \in DOMAIN w.disk /\ w.disk[object].len = objectLen
                    => c.disk[object] = w.disk[object]
               /\ \A j \in Nat \ {i} :
                     at(j) \in DOMAIN w.disk /\ w.disk[at(j)].len = len =>
                        c.disk[at(j)] = w.disk[at(j)]
<1> DEFINE at(j) == object + objectLen + j * len
           c == CopyIndexAfterObject(w, object, objectLen, i, len, data)
<1>1. \A j \in Nat : j * len \in Nat
  OBVIOUS
<1>2. at(i) \in Nat /\ at(i) + len < RVALimit /\ at(i) # kInvalidMDRVA
  BY <1>1, FileWriterAssumption DEF kInvalidMDRVA
<1>3. c.disk = Written(w.disk, at(i), len, data)
  <2>1. c = Copy(w, at(i), len, data)
    BY DEF CopyIndexAfterObject
  <2>2. CopyOK(w, at(i), len)
    OBVIOUS
  <2> HIDE DEF c, at
  <2> QED
    BY <1>2, <2>1, <2>2, CopyWrites
<1>4. ASSUME NEW p \in DOMAIN w.disk, p \in Nat, p # at(i),
             w.disk[p].len \in Nat,
             p + w.disk[p].len <= at(i) \/ at(i) + len <= p
      PROVE  c.disk[p] = w.disk[p]
  <2> HIDE DEF c, at
  <2> QED
    BY <1>2, <1>3, <1>4, UntouchedKept
<1>5. c.disk[at(i)] = [len |-> len, data |-> data]
  <2> HIDE DEF c, at
  <2> QED
    BY <1>3, WrittenIsThere
<1>6. ASSUME object \in DOMAIN w.disk, w.disk[object].len = objectLen
      PROVE  c.disk[object] = w.disk[object]
  <2>1. object + objectLen <= at(i) /\ object # at(i)
    BY <1>1
  <2> QED
    BY <1>4, <1>6, <2>1
<1>7. ASSUME NEW j \in Nat \ {i}, at(j) \in DOMAIN w.disk,
             w.disk[at(j)].len = len
      PROVE  c.disk[at(j)] = w.disk[at(j)]
  <2>1. i * len \in Nat /\ j * len \in Nat
    BY <1>1
  <2>2. i * len + len <= j * len \/ j * len + len <= i * len
    <3>1. i < j \/ j < i
      OBVIOUS
    <3> QED
      BY <3>1, EntriesApart
  <2>3. /\ at(j) \in Nat /\ at(j) # at(i)
        /\ at(j) + len <= at(i) \/ at(i) + len <= at(j)
    BY <2>1, <2>2
  <2> HIDE DEF c, at
  <2> QED
    BY <1>4, <1>7, <2>3
<1> QED
  BY <1>5, <1>6, <1>7
-----------------------------------------------------------------------------
\* Where things are in the file.

\* Every object in the file has a place and a length.
Tidy(d) ==
    \A p \in DOMAIN d : /\ p \in Nat /\ {"len", "data"} \subseteq DOMAIN d[p]
                        /\ d[p].len \in Nat

\* The file is as long as what was written, or as what was allocated.
Long(x) ==
    IF x.workaround
    THEN \A p \in DOMAIN x.disk : p + x.disk[p].len <= x.length
    ELSE x.position <= x.length

\* A writer and its file.
IsKept(x) == IsWriter(x) /\ Tidy(x.disk) /\ Long(x)

\* What lies from a to b is in e as it was in d.
Apart(d, e, a, b) ==
    \A p \in DOMAIN d :
        a <= p /\ p < b /\ p + d[p].len <= b => p \in DOMAIN e /\ e[p] = d[p]

\* What lies below top is at most blotted out, except at s.
Blank == {Zeros, Damaged}
Marks(d, e, top, s) ==
    \A p \in DOMAIN e :
        p < top /\ p # s =>
            e[p].data \in Blank \/ (p \in DOMAIN d /\ e[p] = d[p])

\* No place in the file.
Nowhere == -1

\* The file e after an object has been written to d.
HasWritten(d, e, at, len, data) ==
    /\ Tidy(e) /\ DOMAIN e = DOMAIN d \cup {at}
    /\ e[at] = [len |-> len, data |-> data]
    /\ \A p \in DOMAIN d : p # at => e[p].len = d[p].len
    /\ \A p \in DOMAIN d : p # at => e[p] = d[p] \/ e[p].data = Damaged
    /\ \A p \in DOMAIN d :
        p # at /\ (p + d[p].len <= at \/ at + len <= p) => e[p] = d[p]

\* Written puts the object in and damages only what it overlaps.
LEMMA WrittenTidy ==
    ASSUME NEW d, Tidy(d), NEW at \in Nat, NEW len \in Nat, NEW data,
           NEW e, e = Written(d, at, len, data)
    PROVE  HasWritten(d, e, at, len, data)
<1>1. DOMAIN e = DOMAIN d \cup {at} /\ e[at] = [len |-> len, data |-> data]
  BY DEF Written
<1>2. ASSUME NEW p \in DOMAIN d, p # at
      PROVE  /\ e[p] = d[p] \/ e[p] = [d[p] EXCEPT !.data = Damaged]
             /\ p + d[p].len <= at \/ at + len <= p => e[p] = d[p]
             /\ {"len", "data"} \subseteq DOMAIN d[p] /\ d[p].len \in Nat
             /\ p \in Nat
  <2>1. /\ {"len", "data"} \subseteq DOMAIN d[p] /\ d[p].len \in Nat
        /\ p \in Nat
    BY DEF Tidy
  <2>2. e[p] = IF p < at + len /\ at < p + d[p].len
               THEN [d[p] EXCEPT !.data = Damaged] ELSE d[p]
    BY <1>1, <1>2 DEF Written
  <2> QED
    BY <2>1, <2>2
<1>3. ASSUME NEW p \in DOMAIN d, p # at
      PROVE  /\ e[p].len = d[p].len /\ DOMAIN e[p] = DOMAIN d[p]
             /\ e[p] = d[p] \/ e[p].data = Damaged
  BY <1>2, <1>3
<1>4. Tidy(e)
  <2> SUFFICES ASSUME NEW p \in DOMAIN e
               PROVE  /\ p \in Nat /\ {"len", "data"} \subseteq DOMAIN e[p]
                      /\ e[p].len \in Nat
    BY DEF Tidy
  <2>1. CASE p = at
    BY <1>1, <2>1
  <2>2. CASE p # at
    BY <1>1, <1>2, <1>3, <2>2
  <2> QED
    BY <2>1, <2>2
<1> QED
  BY <1>1, <1>2, <1>3, <1>4 DEF HasWritten

\* What a write does not reach stays.
LEMMA WrittenApart ==
    ASSUME NEW d, Tidy(d), NEW at \in Nat, NEW len \in Nat, NEW data,
           NEW e, e = Written(d, at, len, data), NEW a \in Nat, NEW b \in Nat,
           b <= at \/ (at < a /\ at + len <= a)
    PROVE  Apart(d, e, a, b)
<1> SUFFICES ASSUME NEW p \in DOMAIN d, a <= p, p < b, p + d[p].len <= b
             PROVE  p \in DOMAIN e /\ e[p] = d[p]
  BY DEF Apart
<1>1. p \in Nat /\ d[p].len \in Nat
  BY DEF Tidy
<1>2. p # at /\ (p + d[p].len <= at \/ at + len <= p)
  BY <1>1
<1>3. HasWritten(d, e, at, len, data)
  BY WrittenTidy
<1> QED
  BY <1>2, <1>3 DEF HasWritten

\* A write above top, at s or of zeros enters nothing else below top.
LEMMA WrittenMarks ==
    ASSUME NEW d, Tidy(d), NEW at \in Nat, NEW len \in Nat, NEW data,
           NEW e, e = Written(d, at, len, data), NEW top \in Nat, NEW s,
           top <= at \/ at = s \/ data \in Blank
    PROVE  Marks(d, e, top, s)
<1> SUFFICES ASSUME NEW p \in DOMAIN e, p < top, p # s
             PROVE  e[p].data \in Blank \/ (p \in DOMAIN d /\ e[p] = d[p])
  BY DEF Marks
<1>3. HasWritten(d, e, at, len, data)
  BY WrittenTidy
<1>1. CASE p = at
  <2>1. data \in Blank
    BY <1>1
  <2>2. e[at] = [len |-> len, data |-> data]
    BY <1>3 DEF HasWritten
  <2> QED
    BY <1>1, <2>1, <2>2
<1>2. CASE p # at
  <2>1. /\ p \in DOMAIN d
        /\ e[p] = d[p] \/ e[p].data = Damaged
    BY <1>2, <1>3 DEF HasWritten
  <2> QED
    BY <2>1 DEF Blank
<1> QED
  BY <1>1, <1>2

\* What two calls leave alone, both leave alone.
LEMMA ApartFurther ==
    ASSUME NEW d, NEW e, NEW f, NEW a, NEW b, Apart(d, e, a, b),
           Apart(e, f, a, b)
    PROVE  Apart(d, f, a, b)
BY DEF Apart

\* What lies within stays too.
LEMMA ApartWithin ==
    ASSUME NEW d, NEW e, NEW a \in Nat, NEW b \in Nat, Tidy(d),
           Apart(d, e, a, b), NEW a2 \in Nat, NEW b2 \in Nat, a <= a2, b2 <= b
    PROVE  Apart(d, e, a2, b2)
<1> SUFFICES ASSUME NEW p \in DOMAIN d, a2 <= p, p < b2, p + d[p].len <= b2
             PROVE  p \in DOMAIN e /\ e[p] = d[p]
  BY DEF Apart
<1>1. p \in Nat /\ d[p].len \in Nat
  BY DEF Tidy
<1>2. a <= p /\ p < b /\ p + d[p].len <= b
  BY <1>1
<1> QED
  BY <1>2 DEF Apart

\* What two calls do not enter, neither enters.
LEMMA MarksFurther ==
    ASSUME NEW d, NEW e, NEW f, NEW top, NEW s, Marks(d, e, top, s),
           Marks(e, f, top, s)
    PROVE  Marks(d, f, top, s)
BY DEF Marks

\* Copy writes what it is given, where it is told to, or nothing at all.
LEMMA CopyKept ==
    ASSUME NEW x, IsKept(x), NEW rva \in Nat, NEW len \in Nat, NEW data,
           NEW c, c = Copy(x, rva, len, data)
    PROVE  /\ IsKept(c) /\ c.position = x.position /\ c.size = x.size
           /\ c.room <= x.room
           /\ \/ c.disk = x.disk /\ (rva + len <= x.size => x.room = 0)
              \/ LET at == IF rva = kInvalidMDRVA THEN x.offset ELSE rva
                 IN  /\ at \in Nat /\ x.room > 0
                     /\ c.disk = Written(x.disk, at, len, data)
                     /\ c.offset = at + len
<1> DEFINE at == IF rva = kInvalidMDRVA THEN x.offset ELSE rva
           length == IF x.length < at + len THEN at + len ELSE x.length
           disk == Written(x.disk, at, len, data)
<1>1. at \in Nat /\ length \in Nat /\ x.length <= length /\ at + len <= length
      /\ x.room \in Nat /\ x.length \in Nat
  BY DEF IsWriter, IsKept
<1>2. IsWriter(c) /\ c.position = x.position
  BY CopyRight DEF IsKept
<1>3. CASE CopyOK(x, rva, len)
  <2>1. c = [x EXCEPT !.disk = disk, !.room = @ - 1, !.offset = at + len,
                      !.length = length]
    BY <1>3 DEF Copy
  <2>2. x.room > 0
    BY <1>3 DEF CopyOK
  <2> HIDE DEF length, disk, at
  <2>3. /\ c.disk = disk /\ c.room = x.room - 1 /\ c.offset = at + len
        /\ c.size = x.size /\ c.workaround = x.workaround
        /\ c.length = length
    BY <2>1 DEF IsKept, IsWriter
  <2>4. /\ Tidy(c.disk) /\ DOMAIN c.disk = DOMAIN x.disk \cup {at}
        /\ c.disk[at].len = len
        /\ \A p \in DOMAIN x.disk : p # at => c.disk[p].len = x.disk[p].len
    <3>1. Tidy(x.disk) /\ c.disk = Written(x.disk, at, len, data)
      BY <2>3 DEF disk, IsKept
    <3>2. HasWritten(x.disk, c.disk, at, len, data)
      BY <1>1, <3>1, WrittenTidy
    <3> QED
      BY <3>2 DEF HasWritten
  <2>5. Long(c)
    <3>1. CASE x.workaround
      <4>1. ASSUME NEW p \in DOMAIN c.disk
            PROVE  p + c.disk[p].len <= c.length
        <5>1. CASE p = at
          BY <1>1, <2>3, <2>4, <5>1
        <5>2. CASE p # at
          <6>1. /\ p \in DOMAIN x.disk /\ c.disk[p].len = x.disk[p].len
                /\ p + x.disk[p].len <= x.length
            BY <2>4, <3>1, <5>2 DEF IsKept, Long
          <6>2. p + x.disk[p].len \in Nat
            BY <6>1 DEF IsKept, Tidy
          <6> QED
            BY <1>1, <2>3, <6>1, <6>2
        <5> QED
          BY <5>1, <5>2
      <4> QED
        BY <2>3, <3>1, <4>1 DEF Long
    <3>2. CASE ~x.workaround
      <4>1. x.position <= x.length /\ x.position \in Nat
        BY <3>2 DEF IsKept, Long, IsWriter
      <4> QED
        BY <1>1, <1>2, <2>3, <3>2, <4>1 DEF Long
    <3> QED
      BY <3>1, <3>2
  <2>6. c.room <= x.room
    BY <1>1, <2>3
  <2> QED
    BY <1>1, <1>2, <2>2, <2>3, <2>4, <2>5, <2>6 DEF IsKept, at, disk
<1>4. CASE ~CopyOK(x, rva, len)
  <2>1. c = x \/ c = [x EXCEPT !.offset = at]
    BY <1>4 DEF Copy
  <2> HIDE DEF at
  <2>2. /\ c.disk = x.disk /\ c.room = x.room /\ c.size = x.size
        /\ c.workaround = x.workaround /\ c.length = x.length
    BY <2>1 DEF IsKept, IsWriter
  <2>3. Tidy(c.disk) /\ Long(c) /\ c.room <= x.room
    BY <1>1, <1>2, <2>2 DEF IsKept, Long
  <2>4. rva + len <= x.size => x.room = 0
    <3>1. ASSUME rva + len <= x.size PROVE (len + rva) % RVALimit <= x.size
      <4>1. ASSUME NEW n \in Nat, NEW b \in Nat \ {0} PROVE n % b <= n
        BY Z3
      <4>2. (len + rva) % RVALimit <= len + rva
        BY <4>1, FileWriterAssumption
      <4>3. (len + rva) % RVALimit \in Int /\ x.size \in Nat
        BY FileWriterAssumption DEF IsKept, IsWriter
      <4> QED
        BY <3>1, <4>2, <4>3
    <3> QED
      BY <1>1, <1>4, <3>1 DEF CopyOK, Fits
  <2> QED
    BY <1>2, <2>2, <2>3, <2>4 DEF IsKept
<1> QED
  BY <1>3, <1>4

\* Allocating grows the file and writes nothing.
LEMMA AllocateKept ==
    ASSUME NEW x, IsKept(x), NEW n \in Nat, NEW a, a = Allocate(x, n)
    PROVE  /\ IsKept(a) /\ x.position + n <= a.position /\ x.size <= a.size
           /\ a.disk = x.disk /\ a.room = x.room /\ a.offset = x.offset
<1>1. IsWriter(a) /\ x.position + n <= a.position /\ a.disk = x.disk
  BY AllocateInside DEF IsKept
<1> DEFINE size == IF x.workaround THEN x.size + n
                   ELSE IF MustGrow(x, n) THEN x.size + Growth(n) ELSE x.size
           position == x.position + Reserved(x, n)
           length == IF x.workaround THEN x.length ELSE size
<1>2. a = [x EXCEPT !.position = position, !.size = size, !.length = length]
  BY DEF Allocate
<1>3. x.size \in Nat /\ Growth(n) \in Nat
  <2>1. Aligned(n) \in Nat /\ PageSize \in Nat
    BY AlignedRight, FileWriterAssumption
  <2> QED
    BY <2>1 DEF Growth, IsKept, IsWriter
<1>4. x.size <= size
  BY <1>3
<1> HIDE DEF size, position
<1>5. /\ a.room = x.room /\ a.offset = x.offset /\ a.size = size
      /\ a.workaround = x.workaround /\ a.length = length
  BY <1>2 DEF IsKept, IsWriter
<1>6. Long(a)
  <2>1. CASE x.workaround
    BY <1>1, <1>5, <2>1 DEF IsKept, Long
  <2>2. CASE ~x.workaround
    BY <1>1, <1>5, <2>2 DEF IsWriter, Long
  <2> QED
    BY <2>1, <2>2
<1> QED
  BY <1>1, <1>4, <1>5, <1>6 DEF IsKept

-----------------------------------------------------------------------------
\* What calls of the writer do to what lies below lo: nothing from top to lo;
\* below top they blot out or write at s.
Kept(x, y, top, lo, s) ==
    /\ IsKept(y) /\ x.position <= y.position /\ x.size <= y.size
    /\ y.room <= x.room
    /\ Apart(x.disk, y.disk, top, lo) /\ Marks(x.disk, y.disk, top, s)

\* The file is below the width of its positions, so that no position in it
\* is the one that stands for none.
Small(x) == x.size < kInvalidMDRVA

\* One call after another.
LEMMA KeptFurther ==
    ASSUME NEW x, NEW y, NEW z, NEW top, NEW lo, NEW s, IsKept(x),
           Kept(x, y, top, lo, s), Kept(y, z, top, lo, s)
    PROVE  Kept(x, z, top, lo, s)
<1>1. /\ Apart(x.disk, z.disk, top, lo) /\ Marks(x.disk, z.disk, top, s)
  BY ApartFurther, MarksFurther DEF Kept
<1>2. /\ x.position \in Nat /\ y.position \in Nat /\ z.position \in Nat
      /\ x.size \in Nat /\ y.size \in Nat /\ z.size \in Nat
      /\ x.room \in Nat /\ y.room \in Nat /\ z.room \in Nat
  BY DEF Kept, IsKept, IsWriter
<1>3. /\ x.position <= z.position /\ x.size <= z.size /\ z.room <= x.room
  BY <1>2 DEF Kept
<1> QED
  BY <1>1, <1>3 DEF Kept

\* No call at all.
LEMMA SameKept ==
    ASSUME NEW d, NEW top, NEW lo, NEW s
    PROVE  Apart(d, d, top, lo) /\ Marks(d, d, top, s)
BY DEF Apart, Marks

\* An allocation keeps all that lies in the file.
LEMMA AllocateStays ==
    ASSUME NEW x, IsKept(x), NEW n \in Nat, NEW a, a = Allocate(x, n),
           NEW top, NEW lo, NEW s
    PROVE  Kept(x, a, top, lo, s) /\ x.position + n <= a.position
<1>1. /\ IsKept(a) /\ x.position + n <= a.position /\ x.size <= a.size
      /\ a.disk = x.disk /\ a.room = x.room
  BY AllocateKept
<1>2. x.position <= a.position /\ a.room <= x.room
  BY <1>1 DEF IsKept, IsWriter
<1>3. /\ Apart(x.disk, a.disk, top, lo) /\ Marks(x.disk, a.disk, top, s)
  BY <1>1, SameKept
<1> QED
  BY <1>1, <1>2, <1>3 DEF Kept

\* Where a copy goes.
Place(x, rva) == IF rva = kInvalidMDRVA THEN x.offset ELSE rva

\* A write that leaves what lies from top to lo as it is, and does not fill
\* in anything below top, except at s.
Harmless(at, len, data, top, lo, s) ==
    \/ lo <= at
    \/ at < top /\ at + len <= top /\ (at = s \/ data \in Blank)

\* So does a copy that is harmless.
LEMMA CopyStays ==
    ASSUME NEW x, IsKept(x), NEW rva \in Nat, NEW len \in Nat, NEW data,
           NEW c, c = Copy(x, rva, len, data),
           NEW top \in Nat, NEW lo \in Nat, top <= lo, NEW s,
           Harmless(Place(x, rva), len, data, top, lo, s)
    PROVE  Kept(x, c, top, lo, s) /\ c.position = x.position
<1> DEFINE at == Place(x, rva)
<1>5. at = IF rva = kInvalidMDRVA THEN x.offset ELSE rva
  BY DEF Place
<1>1. /\ IsKept(c) /\ c.position = x.position /\ c.size = x.size
      /\ c.room <= x.room
      /\ \/ c.disk = x.disk
         \/ c.disk = Written(x.disk, at, len, data)
  <2> HIDE DEF at
  <2> QED
    BY <1>5, CopyKept
<1>2. at \in Nat /\ Tidy(x.disk)
  BY DEF IsKept, IsWriter, Place
<1> HIDE DEF at
<1>3. /\ Apart(x.disk, c.disk, top, lo) /\ Marks(x.disk, c.disk, top, s)
  <2>1. CASE c.disk = x.disk
    BY <2>1, SameKept
  <2>2. CASE c.disk = Written(x.disk, at, len, data)
    <3>1. \/ lo <= at
          \/ at < top /\ at + len <= top /\ (at = s \/ data \in Blank)
      BY DEF at, Harmless
    <3>2. Apart(x.disk, c.disk, top, lo)
      BY <1>2, <2>2, <3>1, WrittenApart
    <3>3. top <= at \/ at = s \/ data \in Blank
      BY <1>2, <3>1
    <3>4. Marks(x.disk, c.disk, top, s)
      BY <1>2, <2>2, <3>3, WrittenMarks
    <3> QED
      BY <3>2, <3>4
  <2> QED
    BY <1>1, <2>1, <2>2
<1>4. x.position <= c.position /\ x.size <= c.size
  BY <1>1 DEF IsKept, IsWriter
<1> QED
  BY <1>1, <1>3, <1>4 DEF Kept

\* A copy inside the file is done unless the disk is full.
Copied(x, c, rva, len, data) ==
    /\ x.room > 0 /\ HasWritten(x.disk, c.disk, rva, len, data)
    /\ c.offset = rva + len

\* Such a copy is done, or the disk has become full.
LEMMA CopyDone ==
    ASSUME NEW x, IsKept(x), NEW rva \in Nat, NEW len \in Nat, NEW data,
           NEW c, c = Copy(x, rva, len, data), rva + len <= x.size, Small(x)
    PROVE  \/ Copied(x, c, rva, len, data)
           \/ c.disk = x.disk /\ c.room = 0
<1>1. rva # kInvalidMDRVA
  BY FileWriterAssumption DEF Small, kInvalidMDRVA, IsKept, IsWriter
<1>2. /\ IsKept(c) /\ c.room <= x.room
      /\ \/ c.disk = x.disk /\ x.room = 0
         \/ /\ x.room > 0 /\ c.disk = Written(x.disk, rva, len, data)
            /\ c.offset = rva + len
  BY <1>1, CopyKept
<1>3. CASE c.disk = x.disk /\ x.room = 0
  BY <1>2, <1>3 DEF IsKept, IsWriter
<1>4. CASE /\ x.room > 0 /\ c.disk = Written(x.disk, rva, len, data)
           /\ c.offset = rva + len
  <2>1. HasWritten(x.disk, c.disk, rva, len, data)
    BY <1>4, WrittenTidy DEF IsKept
  <2> QED
    BY <1>4, <2>1 DEF Copied
<1> QED
  BY <1>2, <1>3, <1>4

\* An object written into what was just allocated for it.
LEMMA ObjectStays ==
    ASSUME NEW x, IsKept(x), Small(x), NEW n \in Nat, NEW len \in Nat,
           len <= n, NEW data, NEW c,
           c = Copy(Allocate(x, n), x.position, len, data),
           NEW top \in Nat, NEW lo \in Nat, top <= lo, lo <= x.position, NEW s
    PROVE  /\ Kept(x, c, top, lo, s) /\ x.position + n <= c.position
           /\ Small(c) /\ c.room > 0 => Copied(x, c, x.position, len, data)
<1> DEFINE a == Allocate(x, n)
<1>1. /\ Kept(x, a, top, lo, s) /\ x.position + n <= a.position
      /\ a.disk = x.disk /\ a.room = x.room
  BY AllocateStays, AllocateKept
<1>2. c = Copy(a, x.position, len, data) /\ IsKept(a) /\ x.position \in Nat
      /\ x.position <= x.size /\ x.size \in Nat
  BY <1>1 DEF IsKept, IsWriter, Kept
<1> HIDE DEF a
<1>3. Place(a, x.position) = x.position
  BY <1>2, FileWriterAssumption DEF Place, Small, kInvalidMDRVA
<1>7. Harmless(Place(a, x.position), len, data, top, lo, s)
  BY <1>3 DEF Harmless
<1>4. Kept(a, c, top, lo, s) /\ c.position = a.position
  BY <1>2, <1>7, CopyStays
<1>5. Kept(x, c, top, lo, s)
  BY <1>1, <1>4, KeptFurther
<1>6. ASSUME Small(c)
      PROVE  \/ Copied(x, c, x.position, len, data)
             \/ c.disk = x.disk /\ c.room = 0
  <2>1. c.size = a.size /\ a.size \in Nat /\ a.position <= a.size
        /\ a.position \in Nat
    BY <1>2, CopyKept DEF IsKept, IsWriter
  <2>2. x.position + len <= a.size /\ Small(a)
    BY <1>1, <1>2, <1>6, <2>1 DEF Small
  <2>3. \/ Copied(a, c, x.position, len, data)
        \/ c.disk = a.disk /\ c.room = 0
    BY <1>2, <2>2, CopyDone
  <2> QED
    BY <1>1, <2>3 DEF Copied
<1> QED
  BY <1>1, <1>4, <1>5, <1>6

\* A string at the end of the file.
LEMMA StringStays ==
    ASSUME NEW x, IsKept(x), Small(x), NEW n \in Nat, NEW data, NEW c,
           c = WriteString(x, n, data), CanAllocate(x, StringLen(n)),
           NEW top \in Nat, NEW lo \in Nat, top <= lo, lo <= x.position, NEW s
    PROVE  /\ Kept(x, c, top, lo, s)
           /\ c.room > 0 => c.offset = x.position + SizeOf.string
<1> DEFINE bytes == StringLen(n)
           a == Allocate(x, bytes)
           o == Copy(a, x.position, bytes, data)
<1>1. bytes \in Nat
  BY SizesRight DEF StringLen
<1>2. x.room \in Nat /\ x.position \in Nat /\ SizeOf.string \in Nat
  BY SizesRight DEF IsKept, IsWriter
<1> HIDE DEF bytes
<1>3. Kept(x, a, top, lo, s) /\ a.room = x.room
  BY <1>1, AllocateStays, AllocateKept
<1>4. Kept(x, o, top, lo, s)
  <2>1. bytes <= bytes /\ o = Copy(Allocate(x, bytes), x.position, bytes, data)
    BY <1>1
  <2> HIDE DEF o
  <2> QED
    BY <1>1, <2>1, ObjectStays
<1>5. CASE x.room > n + 1
  <2>1. c = [o EXCEPT !.room = x.room - (n + 2),
                      !.offset = x.position + SizeOf.string]
    BY <1>5 DEF WriteString, bytes
  <2>2. x.room - (n + 2) \in Nat /\ x.room - (n + 2) <= x.room
    BY <1>2, <1>5
  <2> HIDE DEF o
  <2>3. /\ c.room = x.room - (n + 2) /\ c.offset = x.position + SizeOf.string
        /\ c.position = o.position /\ c.size = o.size /\ c.disk = o.disk
        /\ c.length = o.length /\ c.workaround = o.workaround
        /\ DOMAIN c = DOMAIN o
    BY <1>4, <2>1 DEF Kept, IsKept, IsWriter
  <2>4. c.offset \in Nat
    BY <1>2, <2>3
  <2>5. IsKept(c)
    BY <1>4, <2>2, <2>3, <2>4 DEF Kept, IsKept, IsWriter, Long
  <2> QED
    BY <1>4, <2>2, <2>3, <2>5 DEF Kept
<1>6. CASE ~(x.room > n + 1)
  <2>1. c = [a EXCEPT !.room = 0]
    BY <1>6 DEF WriteString, bytes
  <2> HIDE DEF a
  <2>2. /\ c.room = 0 /\ c.offset = a.offset
        /\ c.position = a.position /\ c.size = a.size /\ c.disk = a.disk
        /\ c.length = a.length /\ c.workaround = a.workaround
        /\ DOMAIN c = DOMAIN a
    BY <1>3, <2>1 DEF Kept, IsKept, IsWriter
  <2>3. IsKept(c)
    BY <1>3, <2>2 DEF Kept, IsKept, IsWriter, Long
  <2> QED
    BY <1>2, <1>3, <1>6, <2>2, <2>3 DEF Kept
<1> QED
  BY <1>5, <1>6
=============================================================================
