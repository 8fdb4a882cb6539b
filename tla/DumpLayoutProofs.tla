-------------------------- MODULE DumpLayoutProofs --------------------------
(***************************************************************************)
(* Proofs about where the writer of DumpFile puts things: whatever number  *)
(* of threads, libraries and streams there is, each step writes above what *)
(* is finished or into the directory, so a stream that the directory names *)
(* is whole whenever the writer is stopped.                                *)
(***************************************************************************)
EXTENDS DumpFileProofs
-----------------------------------------------------------------------------
\* The directory, and the streams that it names.
Slot(dr, i) == dr + i * SizeOf.dirent
Top(dr) == dr + kNumWriters * SizeOf.dirent

\* An object of n bytes lies at p, from lo to hi.
Lies(d, p, n, lo, hi) ==
    p \in DOMAIN d /\ d[p].len = n /\ lo <= p /\ p + n <= hi

\* The entry of thread t at p; its context and its stack lie from lo to hi.
ContextLies(d, context, lo, hi) ==
    /\ context.size = SizeOf.context
    /\ Lies(d, context.rva, SizeOf.context, lo, hi)
    /\ "crashed" \in DOMAIN d[context.rva].data
StackLies(d, stack, lo, hi) ==
    stack.size > 0 => /\ Lies(d, stack.rva, stack.size, lo, hi)
                      /\ d[stack.rva].data # Damaged
IsThreadEntry(d, raw, t, lo, hi) ==
    /\ {"thread", "context", "stack"} \subseteq DOMAIN raw
    /\ raw.thread = t
    /\ ContextLies(d, raw.context, lo, hi)
    /\ StackLies(d, raw.stack, lo, hi)
ThreadAt(d, p, t, lo, hi) ==
    /\ p \in DOMAIN d /\ d[p].len = SizeOf.thread
    /\ IsThreadEntry(d, d[p].data, t, lo, hi)

\* The first k entries of the list at l.
ThreadPlace(l, j) == l + SizeOf.count + (j - 1) * SizeOf.thread
ThreadListEnd(l, th) == l + ListBytes(Len(th), SizeOf.thread)
ThreadsUpTo(d, th, l, k, hi) ==
    \A j \in 1..k :
        ThreadAt(d, ThreadPlace(l, j), th[j], ThreadListEnd(l, th), hi)

\* The list at l is whole.
ThreadList(d, th, l, lo, hi) ==
    /\ Lies(d, l, SizeOf.count, lo, hi)
    /\ d[l].data = [count |-> Len(th)]
    /\ ThreadListEnd(l, th) <= hi
    /\ ThreadsUpTo(d, th, l, Len(th), hi)

\* An entry of the directory whose stream is whole, from lo to hi.
IsWhole(entry, th, d, lo, hi) ==
    /\ entry.type = "threads" =>
        /\ entry.size = ListBytes(Len(th), SizeOf.thread)
        /\ ThreadList(d, th, entry.rva, lo, hi)
    /\ entry.type = "exception" =>
        /\ entry.size = SizeOf.exception
        /\ Lies(d, entry.rva, SizeOf.exception, lo, hi)
        /\ "address" \in DOMAIN d[entry.rva].data
    /\ entry.type = "system" =>
        /\ entry.size = SizeOf.system
        /\ Lies(d, entry.rva, SizeOf.system, lo, hi)
        /\ d[entry.rva].data = [platform |-> "android"]

\* What d has at s, if it is an entry of the directory, is whole.
WholeAt(s, th, d, lo, hi) ==
    s \in DOMAIN d /\ "type" \in DOMAIN d[s].data =>
        IsWhole(d[s].data, th, d, lo, hi)
HeaderRight(dr, d) ==
    0 \in DOMAIN d /\ "dir" \in DOMAIN d[0].data =>
        d[0].data = [count |-> kNumWriters, dir |-> dr]

\* The header and every entry of the directory are right.
Table(dr, th, d, hi) ==
    /\ HeaderRight(dr, d)
    /\ \A i \in 0..(kNumWriters - 1) : WholeAt(Slot(dr, i), th, d, Top(dr), hi)

\* The sizes that the layout depends on.
LEMMA SizesAre ==
    /\ SizeOf.header = 32 /\ SizeOf.dirent = 12 /\ SizeOf.count = 4
    /\ SizeOf.thread = 48 /\ SizeOf.memory = 16 /\ SizeOf.context = 368
    /\ SizeOf.exception = 168 /\ SizeOf.system = 56 /\ kNumWriters = 13
BY DEF SizeOf, kNumWriters

\* The entries of the directory lie below its end.
LEMMA SlotsRight ==
    ASSUME NEW dr \in Nat, NEW i \in 0..(kNumWriters - 1)
    PROVE  /\ Slot(dr, i) \in Nat /\ Top(dr) \in Nat /\ dr <= Slot(dr, i)
           /\ Slot(dr, i) < Top(dr) /\ Slot(dr, i) + SizeOf.dirent <= Top(dr)
BY SizesAre DEF Slot, Top

\* What lies there stays there.
LEMMA LiesKept ==
    ASSUME NEW d, Tidy(d), NEW e, NEW lo \in Nat, NEW hi \in Nat,
           Apart(d, e, lo, hi), NEW n, n > 0, NEW p, Lies(d, p, n, lo, hi),
           NEW hi2 \in Nat, hi <= hi2
    PROVE  Lies(e, p, n, lo, hi2) /\ e[p] = d[p]
<1>1. /\ p \in DOMAIN d /\ d[p].len = n /\ lo <= p /\ p + n <= hi
      /\ p \in Nat /\ n \in Nat
  BY DEF Lies, Tidy
<1>2. p < hi /\ p + n <= hi2
  BY <1>1
<1>3. p \in DOMAIN e /\ e[p] = d[p]
  BY <1>1, <1>2 DEF Apart
<1> QED
  BY <1>1, <1>2, <1>3 DEF Lies

\* So does what an entry of the list of threads refers to.
LEMMA EntryKept ==
    ASSUME NEW d, Tidy(d), NEW e, NEW lo \in Nat, NEW hi \in Nat,
           Apart(d, e, lo, hi), NEW hi2 \in Nat, hi <= hi2,
           NEW raw, NEW t, IsThreadEntry(d, raw, t, lo, hi)
    PROVE  IsThreadEntry(e, raw, t, lo, hi2)
<1>1. ContextLies(e, raw.context, lo, hi2)
  <2>1. /\ Lies(e, raw.context.rva, SizeOf.context, lo, hi2)
        /\ e[raw.context.rva] = d[raw.context.rva]
    <3>1. Lies(d, raw.context.rva, SizeOf.context, lo, hi)
      BY DEF IsThreadEntry, ContextLies
    <3>2. SizeOf.context > 0
      BY SizesAre
    <3> QED
      BY <3>1, <3>2, LiesKept
  <2> QED
    BY <2>1 DEF IsThreadEntry, ContextLies
<1>2. StackLies(e, raw.stack, lo, hi2)
  <2> SUFFICES ASSUME raw.stack.size > 0
               PROVE  /\ Lies(e, raw.stack.rva, raw.stack.size, lo, hi2)
                      /\ e[raw.stack.rva].data # Damaged
    BY DEF StackLies
  <2>1. /\ Lies(d, raw.stack.rva, raw.stack.size, lo, hi)
        /\ d[raw.stack.rva].data # Damaged
    BY DEF IsThreadEntry, StackLies
  <2>2. /\ Lies(e, raw.stack.rva, raw.stack.size, lo, hi2)
        /\ e[raw.stack.rva] = d[raw.stack.rva]
    BY <2>1, LiesKept
  <2> QED
    BY <2>1, <2>2
<1> QED
  BY <1>1, <1>2 DEF IsThreadEntry

\* The entries of the list lie one after another.
LEMMA ThreadPlacesRight ==
    ASSUME NEW l \in Nat, NEW n \in Nat, NEW j \in 1..n
    PROVE  /\ ThreadPlace(l, j) \in Nat
           /\ l + SizeOf.count <= ThreadPlace(l, j)
           /\ ThreadPlace(l, j) + SizeOf.thread
                <= l + ListBytes(n, SizeOf.thread)
BY SizesAre DEF ThreadPlace, ListBytes

\* A whole list of threads stays whole.
LEMMA ThreadListKept ==
    ASSUME NEW d, Tidy(d), NEW e, NEW lo \in Nat, NEW hi \in Nat,
           Apart(d, e, lo, hi), NEW hi2 \in Nat, hi <= hi2,
           NEW th, Len(th) \in Nat, NEW l, ThreadList(d, th, l, lo, hi)
    PROVE  ThreadList(e, th, l, lo, hi2)
<1>1. /\ Lies(d, l, SizeOf.count, lo, hi) /\ d[l].data = [count |-> Len(th)]
      /\ ThreadListEnd(l, th) <= hi /\ ThreadsUpTo(d, th, l, Len(th), hi)
  BY DEF ThreadList
<1>2. SizeOf.count > 0
  BY SizesAre
<1>3. Lies(e, l, SizeOf.count, lo, hi2) /\ e[l] = d[l]
  BY <1>1, <1>2, LiesKept
<1>4. l \in Nat /\ lo <= l
  BY <1>1 DEF Lies, Tidy
<1>5. ThreadListEnd(l, th) \in Nat /\ lo <= ThreadListEnd(l, th)
  BY <1>4, SizesAre DEF ThreadListEnd, ListBytes
<1>6. ThreadListEnd(l, th) <= hi2
  BY <1>1, <1>5
<1>7. ASSUME NEW j \in 1..Len(th)
      PROVE  ThreadAt(e, ThreadPlace(l, j), th[j], ThreadListEnd(l, th), hi2)
  <2> DEFINE p == ThreadPlace(l, j)
             base == ThreadListEnd(l, th)
  <2>1. ThreadAt(d, p, th[j], base, hi)
    BY <1>1 DEF ThreadsUpTo
  <2>2. p \in Nat /\ l <= p /\ p + SizeOf.thread <= base
    <3>1. /\ p \in Nat /\ l + SizeOf.count <= p
          /\ p + SizeOf.thread <= l + ListBytes(Len(th), SizeOf.thread)
      BY <1>4, ThreadPlacesRight
    <3>2. base = l + ListBytes(Len(th), SizeOf.thread)
      BY DEF ThreadListEnd
    <3> HIDE DEF p, base
    <3> QED
      BY <1>4, <3>1, <3>2, SizesAre
  <2>3. Lies(d, p, SizeOf.thread, lo, hi)
    BY <1>1, <1>4, <1>5, <2>1, <2>2, SizesAre DEF Lies, ThreadAt
  <2>4. p \in DOMAIN e /\ e[p] = d[p]
    <3>1. SizeOf.thread > 0
      BY SizesAre
    <3> HIDE DEF p
    <3>2. Lies(e, p, SizeOf.thread, lo, hi2) /\ e[p] = d[p]
      BY <2>3, <3>1, LiesKept
    <3> QED
      BY <3>2 DEF Lies
  <2>5. Apart(d, e, base, hi)
    BY <1>5, ApartWithin
  <2> HIDE DEF p, base
  <2>6. IsThreadEntry(e, d[p].data, th[j], base, hi2)
    BY <1>5, <2>1, <2>5, EntryKept DEF ThreadAt, base
  <2>7. ThreadAt(e, p, th[j], base, hi2)
    BY <2>1, <2>4, <2>6 DEF ThreadAt
  <2> QED
    BY <2>7 DEF p, base
<1> QED
  BY <1>1, <1>3, <1>6, <1>7 DEF ThreadList, ThreadsUpTo

\* A whole stream stays whole.
LEMMA WholeKept ==
    ASSUME NEW d, Tidy(d), NEW e, NEW lo \in Nat, NEW hi \in Nat,
           Apart(d, e, lo, hi), NEW hi2 \in Nat, hi <= hi2,
           NEW th, Len(th) \in Nat, NEW entry, IsWhole(entry, th, d, lo, hi)
    PROVE  IsWhole(entry, th, e, lo, hi2)
<1>4. ASSUME NEW p, NEW n, n > 0, Lies(d, p, n, lo, hi)
      PROVE  Lies(e, p, n, lo, hi2) /\ e[p] = d[p]
  BY <1>4, LiesKept
<1>1. ASSUME entry.type = "threads"
      PROVE  /\ entry.size = ListBytes(Len(th), SizeOf.thread)
             /\ ThreadList(e, th, entry.rva, lo, hi2)
  BY <1>1, ThreadListKept DEF IsWhole
<1>2. ASSUME entry.type = "exception"
      PROVE  /\ entry.size = SizeOf.exception
             /\ Lies(e, entry.rva, SizeOf.exception, lo, hi2)
             /\ "address" \in DOMAIN e[entry.rva].data
  <2>1. SizeOf.exception > 0
    BY SizesAre
  <2>2. /\ entry.size = SizeOf.exception
        /\ Lies(d, entry.rva, SizeOf.exception, lo, hi)
        /\ "address" \in DOMAIN d[entry.rva].data
    BY <1>2 DEF IsWhole
  <2>3. /\ Lies(e, entry.rva, SizeOf.exception, lo, hi2)
        /\ e[entry.rva] = d[entry.rva]
    BY <1>4, <2>1, <2>2
  <2> QED
    BY <2>2, <2>3
<1>3. ASSUME entry.type = "system"
      PROVE  /\ entry.size = SizeOf.system
             /\ Lies(e, entry.rva, SizeOf.system, lo, hi2)
             /\ e[entry.rva].data = [platform |-> "android"]
  <2>1. SizeOf.system > 0
    BY SizesAre
  <2>2. /\ entry.size = SizeOf.system
        /\ Lies(d, entry.rva, SizeOf.system, lo, hi)
        /\ d[entry.rva].data = [platform |-> "android"]
    BY <1>3 DEF IsWhole
  <2>3. /\ Lies(e, entry.rva, SizeOf.system, lo, hi2)
        /\ e[entry.rva] = d[entry.rva]
    BY <1>4, <2>1, <2>2
  <2> QED
    BY <2>2, <2>3
<1> QED
  BY <1>1, <1>2, <1>3 DEF IsWhole

\* The directory after a step.
LEMMA TableKept ==
    ASSUME NEW dr \in Nat, 32 <= dr, NEW th, Len(th) \in Nat,
           NEW d, Tidy(d), NEW e, NEW hi \in Nat, Top(dr) <= hi,
           Apart(d, e, Top(dr), hi), NEW s, Marks(d, e, Top(dr), s), s # 0,
           NEW hi2 \in Nat, hi <= hi2, Table(dr, th, d, hi),
           WholeAt(s, th, e, Top(dr), hi2)
    PROVE  Table(dr, th, e, hi2)
<1>1. Top(dr) \in Nat /\ 0 < Top(dr)
  BY SizesAre DEF Top
<1>2. ASSUME NEW p \in DOMAIN e, p < Top(dr), p # s
      PROVE  e[p].data \in Blank \/ (p \in DOMAIN d /\ e[p] = d[p])
  BY <1>2 DEF Marks
<1>3. \A data \in Blank : "type" \notin DOMAIN data /\ "dir" \notin DOMAIN data
  BY DEF Blank, Zeros, Damaged
<1>4. HeaderRight(dr, e)
  <2> SUFFICES ASSUME 0 \in DOMAIN e, "dir" \in DOMAIN e[0].data
               PROVE  e[0].data = [count |-> kNumWriters, dir |-> dr]
    BY DEF HeaderRight
  <2>1. 0 \in DOMAIN d /\ e[0] = d[0]
    BY <1>1, <1>2, <1>3
  <2> QED
    BY <2>1 DEF Table, HeaderRight
<1>5. ASSUME NEW i \in 0..(kNumWriters - 1)
      PROVE  WholeAt(Slot(dr, i), th, e, Top(dr), hi2)
  <2> DEFINE p == Slot(dr, i)
  <2>1. p < Top(dr)
    BY SlotsRight
  <2>2. WholeAt(p, th, d, Top(dr), hi)
    BY DEF Table
  <2> HIDE DEF p
  <2>3. CASE p = s
    BY <2>3 DEF p
  <2>4. CASE p # s
    <3> SUFFICES ASSUME p \in DOMAIN e, "type" \in DOMAIN e[p].data
                 PROVE  IsWhole(e[p].data, th, e, Top(dr), hi2)
      BY DEF WholeAt, p
    <3>1. p \in DOMAIN d /\ e[p] = d[p]
      BY <1>2, <1>3, <2>1, <2>4
    <3>2. IsWhole(e[p].data, th, d, Top(dr), hi)
      BY <2>2, <3>1 DEF WholeAt
    <3> QED
      BY <1>1, <3>2, WholeKept
  <2> QED
    BY <2>3, <2>4
<1> QED
  BY <1>4, <1>5 DEF Table
-----------------------------------------------------------------------------
\* Up to where the file is finished.
Low == IF \/ pc \in {"thread", "module", "memory"}
          \/ pc = "dso" /\ dso_count > 0
       THEN list ELSE w.position

\* Before there is a directory, and after the last stream.
Outside == NotOpen \cup {"header", "exit", "done", "killed"}

\* A stream is finished and not yet entered.
Entering == {"enter_threads", "enter_modules", "enter_memory",
             "enter_exception", "enter_system", "enter_file", "enter_dso"}

\* Where the list of the memory ends.
MemoryListEnd == list + ListBytes(Len(memory_blocks), SizeOf.memory)

\* The inductive invariant: what the directory names is whole and lies below
\* what is in progress; what is in progress lies above the directory and
\* inside the file; of the list of threads the entries so far are whole;
\* an entry that is about to be copied into the directory names a whole stream;
\* and a string of the system information for which there is no space, which
\* is flushed where the last write ended, meets the entry of that stream,
\* which is written after it.
Layout ==
    /\ Tidy(w.disk) /\ Long(w) /\ w.length \in Nat
    /\ Table(dir, threads, w.disk, Low)
    /\ pc \in NotOpen \cup {"header"} => DOMAIN w.disk = {} /\ w.position = 0
    /\ pc \notin Outside => 32 <= dir /\ Top(dir) <= Low /\ Low <= w.position
    /\ pc = "memory" => MemoryListEnd <= w.position
    /\ pc = "thread" =>
        /\ ThreadListEnd(list, threads) <= w.position
        /\ w.room > 0 =>
            ThreadsUpTo(w.disk, threads, list, next - 1, w.position)
    /\ pc \in Entering /\ w.room > 0 =>
        IsWhole(dirent, threads, w.disk, Top(dir), w.position)
    /\ pc = "system" /\ w.room > 0 => w.offset = Slot(dir, 4)

\* A failed allocation is flushed over position 0: after it nothing is said.
LayoutInv == ~faulty => Layout

\* The file stays below the width of its positions.
SmallFile == Small(w)

\* What a step between two streams knows.
InStream ==
    /\ IsKept(w) /\ Small(w) /\ dir \in Nat /\ list \in Nat /\ Low \in Nat
    /\ Top(dir) \in Nat /\ 32 <= dir /\ Top(dir) <= Low /\ Low <= w.position
    /\ w.position \in Nat /\ Len(threads) \in Nat
    /\ Table(dir, threads, w.disk, Low)

\* What the invariants say of such a step.
LEMMA StreamRight ==
    ASSUME WriterInv, ContentInv, Layout, SmallFile, pc \notin Outside
    PROVE  InStream
<1>1. IsWriter(w) /\ dir \in Nat /\ list \in Nat /\ Len(threads) \in Nat
  BY DEF WriterInv, TypeInv, ContentInv, FileInv, Outside
<1>2. IsKept(w) /\ w.position \in Nat
  BY <1>1 DEF IsKept, Layout, IsWriter
<1>3. Low \in Nat
  BY <1>1, <1>2 DEF Low
<1>4. Top(dir) \in Nat
  BY <1>1, SizesAre DEF Top
<1> QED
  BY <1>1, <1>2, <1>3, <1>4 DEF InStream, Layout, SmallFile

\* The streams that are finished stay as they are, and one may be entered.
Laid(x, hi) ==
    \E s : /\ Kept(w, x, Top(dir), Low, s) /\ s # 0
           /\ WholeAt(s, threads, x.disk, Top(dir), hi)

\* A step that enters nothing in the directory keeps the streams whole.
LEMMA PlainLaid ==
    ASSUME NEW x, Kept(w, x, Top(dir), Low, Nowhere), NEW hi
    PROVE  Laid(x, hi)
<1>1. Tidy(x.disk)
  BY DEF Kept, IsKept
<1>2. Nowhere \notin DOMAIN x.disk /\ Nowhere # 0
  BY <1>1 DEF Tidy, Nowhere
<1>3. WholeAt(Nowhere, threads, x.disk, Top(dir), hi)
  BY <1>2 DEF WholeAt
<1> QED
  BY <1>2, <1>3 DEF Laid

\* Entered in the directory.
LEMMA EntryLaid ==
    ASSUME InStream, NEW x, Kept(w, x, Top(dir), Low, Nowhere), Small(x),
           NEW i \in 0..(kNumWriters - 1), NEW entry,
           NEW y, y = Entered(x, i, entry),
           NEW hi \in Nat, Top(dir) <= hi,
           x.room > 0 => IsWhole(entry, threads, x.disk, Top(dir), hi)
    PROVE  /\ Laid(y, hi) /\ y.position = x.position
           /\ y.room > 0 => y.offset = Slot(dir, i + 1)
<1> DEFINE s == Slot(dir, i)
<1>1. /\ s \in Nat /\ dir <= s /\ s < Top(dir)
      /\ s + SizeOf.dirent <= Top(dir) /\ dir \in Nat /\ 32 <= dir
  BY SlotsRight DEF InStream
<1>2. y = Copy(x, s, SizeOf.dirent, entry)
  BY DEF Entered, CopyIndex, Slot
<1>3. IsKept(x) /\ Tidy(x.disk) /\ x.size \in Nat /\ x.position <= x.size
      /\ x.position \in Nat /\ w.position <= x.position
  BY DEF Kept, IsKept, IsWriter
<1>4. SizeOf.dirent \in Nat /\ s + SizeOf.dirent <= x.size
  <2>1. /\ Top(dir) \in Nat /\ Low \in Nat /\ w.position \in Nat
        /\ Top(dir) <= Low /\ Low <= w.position
    BY DEF InStream
  <2> HIDE DEF s
  <2> QED
    BY <1>1, <1>3, <2>1, SizesAre
<1> HIDE DEF s
<1>5. Place(x, s) = s
  BY <1>1, <1>3, <1>4, FileWriterAssumption, SizesAre
     DEF Place, Small, kInvalidMDRVA
<1>6. \A lo : Harmless(Place(x, s), SizeOf.dirent, entry, Top(dir), lo, s)
  BY <1>1, <1>5 DEF Harmless
<1>7. /\ Kept(x, y, Top(dir), Low, s) /\ Kept(x, y, Top(dir), hi, s)
      /\ y.position = x.position
  BY <1>1, <1>2, <1>3, <1>4, <1>6, CopyStays DEF InStream
<1>8. \/ Copied(x, y, s, SizeOf.dirent, entry)
      \/ y.disk = x.disk /\ y.room = 0
  BY <1>1, <1>2, <1>3, <1>4, CopyDone
<1>9. CASE y.disk = x.disk /\ y.room = 0
  <2>1. Kept(w, y, Top(dir), Low, Nowhere)
    <3>1. IsKept(y) /\ x.size <= y.size
      BY <1>7 DEF Kept
    <3>2. /\ w.position <= y.position /\ w.size <= y.size /\ y.room <= w.room
      <4>1. w.size \in Nat /\ y.size \in Nat /\ w.room \in Nat
        BY <3>1 DEF InStream, IsKept, IsWriter
      <4>2. w.size <= x.size /\ 0 <= w.room
        BY <4>1 DEF Kept
      <4> QED
        BY <1>3, <1>7, <1>9, <3>1, <4>1, <4>2
    <3> QED
      BY <1>9, <3>1, <3>2 DEF Kept
  <2>2. Laid(y, hi)
    BY <2>1, PlainLaid
  <2> QED
    BY <1>7, <1>9, <2>2
<1>10. CASE Copied(x, y, s, SizeOf.dirent, entry)
  <2>1. x.room > 0 /\ y.disk[s].data = entry
        /\ y.offset = s + SizeOf.dirent
    BY <1>10 DEF Copied, HasWritten
  <2>2. Apart(x.disk, y.disk, Top(dir), hi)
    BY <1>7 DEF Kept
  <2>3. IsWhole(entry, threads, x.disk, Top(dir), hi)
    BY <2>1
  <2>4. IsWhole(entry, threads, y.disk, Top(dir), hi)
    <3>1. hi <= hi
      OBVIOUS
    <3> QED
      BY <1>3, <2>2, <2>3, <3>1, WholeKept DEF InStream
  <2>5. WholeAt(s, threads, y.disk, Top(dir), hi)
    BY <2>1, <2>4 DEF WholeAt
  <2>6. Kept(w, x, Top(dir), Low, s)
    <3>1. Marks(w.disk, x.disk, Top(dir), Nowhere)
      BY DEF Kept
    <3>2. Nowhere \notin DOMAIN x.disk
      BY <1>3 DEF Tidy, Nowhere
    <3>3. Marks(w.disk, x.disk, Top(dir), s)
      BY <3>1, <3>2 DEF Marks
    <3> QED
      BY <3>3 DEF Kept
  <2>7. Kept(w, y, Top(dir), Low, s)
    BY <1>7, <2>6, KeptFurther DEF InStream
  <2>8. s # 0
    BY <1>1
  <2>9. Laid(y, hi)
    BY <2>5, <2>7, <2>8 DEF Laid
  <2>10. y.offset = Slot(dir, i + 1)
    BY <1>1, <2>1, SizesAre DEF Slot, s
  <2> QED
    BY <1>7, <2>9, <2>10
<1> QED
  BY <1>8, <1>9, <1>10

\* After such a step the layout is right if what is in progress is.
LEMMA LayoutNext ==
    ASSUME InStream, UNCHANGED <<dir, threads>>, Laid(w', Low'),
           Low <= Low', Low' \in Nat, Low' <= w'.position,
           pc' \notin NotOpen \cup {"header"},
           (pc = "memory" => MemoryListEnd <= w.position)',
           (pc = "thread" =>
                /\ ThreadListEnd(list, threads) <= w.position
                /\ w.room > 0 =>
                    ThreadsUpTo(w.disk, threads, list, next - 1,
                                w.position))',
           (pc \in Entering /\ w.room > 0 =>
                IsWhole(dirent, threads, w.disk, Top(dir), w.position))',
           (pc = "system" /\ w.room > 0 => w.offset = Slot(dir, 4))'
    PROVE  Layout'
<1>1. PICK s : /\ Kept(w, w', Top(dir), Low, s) /\ s # 0
               /\ WholeAt(s, threads, w'.disk, Top(dir), Low')
  BY DEF Laid
<1>2. Tidy(w'.disk) /\ Long(w') /\ w'.length \in Nat
  BY <1>1 DEF Kept, IsKept, IsWriter
<1>3. Table(dir, threads, w'.disk, Low')
  <2>1. /\ Apart(w.disk, w'.disk, Top(dir), Low)
        /\ Marks(w.disk, w'.disk, Top(dir), s) /\ Tidy(w.disk)
    BY <1>1 DEF Kept, InStream, IsKept
  <2> QED
    BY <1>1, <2>1, TableKept DEF InStream
<1>4. 32 <= dir' /\ Top(dir') <= Low' /\ Low' <= w'.position
  BY DEF InStream
<1>5. Table(dir', threads', w'.disk, Low')
  BY <1>3
<1> QED
  BY <1>2, <1>4, <1>5 DEF Layout
-----------------------------------------------------------------------------
\* No position in a small file stands for none.
LEMMA InvalidRight ==
    ASSUME NEW x, Small(x), x.size \in Nat, NEW rva \in Nat, rva <= x.size
    PROVE  Place(x, rva) = rva
BY FileWriterAssumption DEF Place, Small, kInvalidMDRVA

\* A step that calls nothing.
LEMMA StaysKept ==
    ASSUME NEW x, IsKept(x), NEW top, NEW lo, NEW s
    PROVE  Kept(x, x, top, lo, s)
BY SameKept DEF Kept, IsKept, IsWriter

\* The start of a list.
LEMMA StartLays ==
    ASSUME InStream, NEW count \in Nat, NEW size \in Nat,
           NEW loop \in {"thread", "module", "memory"},
           AllocateList(count, size, loop), ~faulty'
    PROVE  /\ Laid(w', Low') /\ Low <= Low' /\ Low' \in Nat
           /\ Low' <= w'.position /\ pc' = loop /\ next' = 1
           /\ list' + ListBytes(count, size) <= w'.position
<1> DEFINE n == ListBytes(count, size)
<1>1. /\ w' = Allocate(w, n) /\ pc' = loop /\ next' = 1 /\ list' = w.position
  BY DEF AllocateList, GoOn, Fail
<1>2. n \in Nat
  BY ListBytesRight
<1> HIDE DEF n
<1>3. Kept(w, w', Top(dir), Low, Nowhere) /\ w.position + n <= w'.position
  BY <1>1, <1>2, AllocateStays DEF InStream
<1>4. Low' = w.position
  BY <1>1 DEF Low
<1>5. w'.position \in Nat /\ w.position \in Nat /\ Low <= w.position
  BY <1>3 DEF Kept, IsKept, IsWriter, InStream
<1> QED
  BY <1>1, <1>2, <1>3, <1>4, <1>5, PlainLaid DEF n

\* The count of a list.
LEMMA FlushStays ==
    ASSUME InStream, Low = list, NEW count, NEW c, c = FlushCount(w, count)
    PROVE  /\ Kept(w, c, Top(dir), Low, Nowhere) /\ c.position = w.position
           /\ c.size = w.size
<1>1. /\ IsKept(w) /\ list \in Nat /\ w.size \in Nat /\ list <= w.size
      /\ Small(w) /\ SizeOf.count \in Nat
  BY SizesRight DEF InStream, IsKept, IsWriter
<1>2. c = Copy(w, list, SizeOf.count, [count |-> count])
  BY DEF FlushCount
<1>3. Place(w, list) = list
  BY <1>1, InvalidRight
<1>4. Harmless(Place(w, list), SizeOf.count, [count |-> count], Top(dir), Low,
               Nowhere)
  BY <1>1, <1>3 DEF Harmless
<1>5. Kept(w, c, Top(dir), Low, Nowhere) /\ c.position = w.position
  BY <1>1, <1>2, <1>4, CopyStays DEF InStream
<1>6. c.size = w.size
  BY <1>1, <1>2, CopyKept
<1> QED
  BY <1>5, <1>6

\* A stream is finished: nothing below it has changed, and its entry is right.
Ready ==
    /\ Kept(w, w', Top(dir), Low, Nowhere)
    /\ w.position <= w'.position /\ w'.position \in Nat
    /\ w'.room > 0 =>
        IsWhole(dirent', threads, w'.disk, Top(dir), w'.position)

\* Then it can be entered.
LEMMA EnteringNext ==
    ASSUME InStream, UNCHANGED <<dir, threads>>, Ready, pc' \in Entering
    PROVE  Layout'
<1>1. Low' = w'.position
  BY DEF Low, Entering
<1>2. /\ Laid(w', Low') /\ Low <= Low' /\ Low' \in Nat /\ Low' <= w'.position
  <2>1. Laid(w', Low')
    BY PlainLaid DEF Ready
  <2>2. Low <= w.position /\ w.position \in Nat /\ Low \in Nat
    BY DEF InStream
  <2>3. w.position <= w'.position /\ w'.position \in Nat
    BY DEF Ready
  <2> QED
    BY <1>1, <2>1, <2>2, <2>3
<1>3. /\ pc' \notin NotOpen \cup {"header"}
      /\ pc' \notin {"memory", "thread", "system"}
  BY DEF NotOpen, Enumerating, Entering
<1>4. (pc \in Entering /\ w.room > 0 =>
        IsWhole(dirent, threads, w.disk, Top(dir), w.position))'
  BY DEF Ready
<1> QED
  BY <1>2, <1>3, <1>4, LayoutNext

\* The end of a list.
LEMMA EndLays ==
    ASSUME InStream, Low = list, NEW type, NEW count, NEW size, NEW where,
           EndStream(type, count, size, where),
           FlushCount(w, count).room > 0 =>
                IsWhole(Dirent(type, ListBytes(count, size), list), threads,
                        FlushCount(w, count).disk, Top(dir), w.position)
    PROVE  Ready
<1> DEFINE c == FlushCount(w, count)
           entry == Dirent(type, ListBytes(count, size), list)
<1>1. Kept(w, c, Top(dir), Low, Nowhere) /\ c.position = w.position
  BY FlushStays
<1>2. w' = c /\ dirent' = entry
  BY DEF EndStream, GoOn, Leaves
<1>3. c.room > 0 => IsWhole(entry, threads, c.disk, Top(dir), w.position)
  OBVIOUS
<1> HIDE DEF c, entry
<1>4. w.position \in Nat /\ w.position <= w.position
  BY DEF InStream
<1> QED
  BY <1>1, <1>2, <1>3, <1>4 DEF Ready

\* A stream of one object.
Fills(type, size, data, hi) ==
    \A d : Lies(d, w.position, size, Top(dir), hi) /\ d[w.position].data = data
            => IsWhole(Dirent(type, size, w.position), threads, d, Top(dir),
                       hi)

\* A stream of one object is written.
LEMMA ObjectLays ==
    ASSUME InStream, NEW x,
           Kept(w, x, Top(dir), Low, Nowhere), NEW size \in Nat,
           w.position + size <= x.position, NEW type, NEW data, NEW where,
           WriteObject(x, type, size, data, where), Small(w'),
           Fills(type, size, data, x.position)
    PROVE  Ready
<1> DEFINE c == Copy(x, w.position, size, data)
           entry == Dirent(type, size, w.position)
<1>1. /\ IsKept(x) /\ x.size \in Nat /\ x.position \in Nat
      /\ x.position <= x.size /\ w.position <= x.position
      /\ w.position \in Nat /\ w.position <= x.size
      /\ w.position + size <= x.size /\ Top(dir) <= x.position
  BY DEF Kept, IsKept, IsWriter, InStream
<1>2. w' = c /\ dirent' = entry /\ c = Copy(x, w.position, size, data)
  BY DEF WriteObject, GoOn, Leaves
<1> HIDE DEF c, entry
<1>3. /\ IsKept(c) /\ c.size = x.size /\ c.position = x.position
  BY <1>1, <1>2, CopyKept
<1>5. Small(x)
  BY <1>2, <1>3 DEF Small
<1>6. Kept(w, c, Top(dir), Low, Nowhere)
  <2>1. Place(x, w.position) = w.position
    BY <1>1, <1>5, InvalidRight
  <2>2. Harmless(Place(x, w.position), size, data, Top(dir), Low, Nowhere)
    BY <1>1, <2>1 DEF Harmless, InStream
  <2>3. Kept(x, c, Top(dir), Low, Nowhere)
    BY <1>1, <1>2, <2>2, CopyStays DEF InStream
  <2> QED
    BY <2>3, KeptFurther DEF InStream
<1>7. c.room > 0 => IsWhole(entry, threads, c.disk, Top(dir), x.position)
  <2> SUFFICES ASSUME c.room > 0
               PROVE  IsWhole(entry, threads, c.disk, Top(dir), x.position)
    OBVIOUS
  <2>1. Copied(x, c, w.position, size, data)
    <3>1. \/ Copied(x, c, w.position, size, data)
          \/ c.disk = x.disk /\ c.room = 0
      BY <1>1, <1>2, <1>5, CopyDone
    <3> QED
      BY <3>1
  <2>2. /\ w.position \in DOMAIN c.disk
        /\ c.disk[w.position] = [len |-> size, data |-> data]
    BY <2>1 DEF Copied, HasWritten
  <2>3. Lies(c.disk, w.position, size, Top(dir), x.position)
    BY <1>1, <2>2 DEF Lies, InStream
  <2> QED
    BY <2>2, <2>3 DEF Fills, entry
<1> QED
  BY <1>1, <1>2, <1>3, <1>6, <1>7 DEF Ready

\* A stream that is left out.
LEMMA UnusedLays ==
    ASSUME InStream, w' = w, dirent' = Unused
    PROVE  Ready
<1>1. Kept(w, w, Top(dir), Low, Nowhere)
  BY StaysKept DEF InStream
<1>2. IsWhole(Unused, threads, w.disk, Top(dir), w.position)
  BY DEF IsWhole, Unused, Dirent
<1>3. w.position \in Nat /\ w.position <= w.position
  BY DEF InStream
<1> QED
  BY <1>1, <1>2, <1>3 DEF Ready
-----------------------------------------------------------------------------
\* The file never becomes smaller.
LEMMA ObjectLarger ==
    ASSUME NEW x, IsKept(x), NEW n \in Nat, NEW len \in Nat, NEW data,
           NEW c, c = Copy(Allocate(x, n), x.position, len, data)
    PROVE  IsKept(c) /\ x.size <= c.size
<1> DEFINE a == Allocate(x, n)
<1>1. IsKept(a) /\ x.size <= a.size
  BY AllocateKept
<1>2. c = Copy(a, x.position, len, data) /\ x.position \in Nat
  BY DEF IsKept, IsWriter
<1> HIDE DEF a
<1>3. IsKept(c) /\ c.size = a.size
  BY <1>1, <1>2, CopyKept
<1> QED
  BY <1>1, <1>3

\* Nor does a string make it smaller.
LEMMA StringLarger ==
    ASSUME NEW x, IsKept(x), NEW n \in Nat, NEW data, NEW c,
           c = WriteString(x, n, data)
    PROVE  IsKept(c) /\ x.size <= c.size /\ c.size \in Nat
<1> DEFINE bytes == StringLen(n)
           a == Allocate(x, bytes)
           o == Copy(a, x.position, bytes, data)
           f == Copy(x, kInvalidMDRVA, SizeOf.string, Zeros)
<1>1. bytes \in Nat /\ SizeOf.string \in Nat /\ kInvalidMDRVA \in Nat
  BY SizesRight, FileWriterAssumption DEF StringLen, kInvalidMDRVA
<1>2. \/ c = f
      \/ x.room > n + 1 /\
         c = [o EXCEPT !.room = x.room - (n + 2),
                       !.offset = x.position + SizeOf.string]
      \/ c = [a EXCEPT !.room = 0]
  BY DEF WriteString, FlushInvalid
<1> HIDE DEF bytes
<1>3. IsKept(o) /\ x.size <= o.size
  BY <1>1, ObjectLarger
<1>4. IsKept(a) /\ x.size <= a.size
  BY <1>1, AllocateKept
<1>5. IsKept(f) /\ f.size = x.size
  BY <1>1, CopyKept
<1> HIDE DEF a, o, f
<1>6. ASSUME NEW y, IsKept(y), x.size <= y.size, NEW room \in Nat,
             NEW offset \in Nat,
             c = [y EXCEPT !.room = room, !.offset = offset]
      PROVE  IsKept(c) /\ x.size <= c.size
  <2>1. /\ c.room = room /\ c.offset = offset
        /\ c.position = y.position /\ c.size = y.size /\ c.disk = y.disk
        /\ c.length = y.length /\ c.workaround = y.workaround
        /\ DOMAIN c = DOMAIN y
    BY <1>6 DEF IsKept, IsWriter
  <2> QED
    BY <1>6, <2>1 DEF IsKept, IsWriter, Long
<1>7. IsKept(c) /\ x.size <= c.size
  <2>1. CASE c = f
    BY <1>5, <2>1 DEF IsKept, IsWriter
  <2>2. CASE /\ x.room > n + 1
             /\ c = [o EXCEPT !.room = x.room - (n + 2),
                              !.offset = x.position + SizeOf.string]
    <3>1. x.room - (n + 2) \in Nat /\ x.position + SizeOf.string \in Nat
      BY <1>1, <2>2 DEF IsKept, IsWriter
    <3> QED
      BY <1>3, <1>6, <2>2, <3>1
  <2>3. CASE c = [a EXCEPT !.room = 0]
    <3>1. c = [a EXCEPT !.room = 0, !.offset = a.offset] /\ 0 \in Nat
          /\ a.offset \in Nat
      BY <1>4, <2>3 DEF IsKept, IsWriter
    <3> QED
      BY <1>4, <1>6, <3>1
  <2> QED
    BY <1>2, <2>1, <2>2, <2>3
<1> QED
  BY <1>7 DEF IsKept, IsWriter

\* Nor does a block of memory.
LEMMA BlockLarger ==
    ASSUME NEW done, IsKept(done.w), NEW t, NEW blocks, IsBlocks(blocks),
           NEW r, r = WriteBlock(done, t, blocks)
    PROVE  IsKept(r.w) /\ done.w.size <= r.w.size
<1>1. done.w.size <= done.w.size
  BY DEF IsKept, IsWriter
<1>2. CASE ~done.ok \/ blocks = {}
  BY <1>1, <1>2 DEF WriteBlock
<1>3. CASE ~(~done.ok \/ blocks = {})
  <2> DEFINE b == CHOOSE b \in blocks : TRUE
             data == Peek(t, [start |-> b.start, size |-> b.size])
             c == Copy(Allocate(done.w, b.size), done.w.position, b.size, data)
  <2>1. b.size \in Nat
    BY <1>3 DEF IsBlocks
  <2>2. r.w = done.w \/ r.w = c
    BY <1>3 DEF WriteBlock
  <2> HIDE DEF b, data
  <2>3. IsKept(c) /\ done.w.size <= c.size
    BY <2>1, ObjectLarger
  <2> HIDE DEF c
  <2> QED
    BY <1>1, <2>2, <2>3
<1> QED
  BY <1>2, <1>3

\* A piece of memory, where it is in the file.
BlockAt(done, blocks, r) ==
    \E b \in blocks : \E data :
        /\ data # Damaged /\ b.size \in Nat
        /\ r.found = Append(done.found, [start |-> b.start, size |-> b.size,
                                         rva |-> done.w.position])
        /\ done.w.position + b.size <= r.w.position
        /\ Small(r.w) /\ r.w.room > 0 =>
            Copied(done.w, r.w, done.w.position, b.size, data)

\* A block is written above what was finished.
LEMMA BlockStays ==
    ASSUME NEW done, IsKept(done.w), Small(done.w), NEW t, NEW blocks,
           IsBlocks(blocks), NEW r, r = WriteBlock(done, t, blocks),
           NEW top \in Nat, NEW lo \in Nat, top <= lo, lo <= done.w.position,
           NEW s
    PROVE  /\ Kept(done.w, r.w, top, lo, s) /\ (r.ok => done.ok)
           /\ blocks = {} => r = done
           /\ r.ok /\ blocks # {} => BlockAt(done, blocks, r)
<1>1. Kept(done.w, done.w, top, lo, s)
  BY StaysKept
<1>4. ASSUME NEW x, IsKept(x), Small(x), lo <= x.position, NEW n \in Nat,
             NEW data, NEW c, c = Copy(Allocate(x, n), x.position, n, data)
      PROVE  /\ Kept(x, c, top, lo, s) /\ x.position + n <= c.position
             /\ Small(c) /\ c.room > 0 => Copied(x, c, x.position, n, data)
  <2>1. n <= n
    OBVIOUS
  <2>2. /\ Kept(x, c, top, lo, s) /\ x.position + n <= c.position
        /\ Small(c) /\ c.room > 0 => Copied(x, c, x.position, n, data)
    BY <1>4, <2>1, ObjectStays
  <2> QED
    BY <2>2
<1>2. CASE ~done.ok \/ blocks = {}
  BY <1>1, <1>2 DEF WriteBlock
<1>3. CASE ~(~done.ok \/ blocks = {})
  <2> DEFINE b == CHOOSE b \in blocks : TRUE
             data == Peek(t, [start |-> b.start, size |-> b.size])
             c == Copy(Allocate(done.w, b.size), done.w.position, b.size, data)
             piece == [start |-> b.start, size |-> b.size,
                       rva |-> done.w.position]
  <2>1. b \in blocks /\ b.size \in Nat
    BY <1>3 DEF IsBlocks
  <2>2. data # Damaged
    <3>1. "damaged" \notin DOMAIN data /\ "damaged" \in DOMAIN Damaged
      BY DEF Peek, Zeros, Damaged
    <3> QED
      BY <3>1
  <2>3. CASE ~CanAllocate(done.w, b.size)
    <3>1. r = [ok |-> FALSE, w |-> done.w, found |-> done.found]
      BY <1>3, <2>3 DEF WriteBlock
    <3> QED
      BY <1>1, <1>3, <3>1
  <2>4. CASE CanAllocate(done.w, b.size)
    <3>1. r = [ok |-> TRUE, w |-> c, found |-> Append(done.found, piece)]
      BY <1>3, <2>4 DEF WriteBlock
    <3>2. c = Copy(Allocate(done.w, b.size), done.w.position, b.size, data)
      OBVIOUS
    <3> HIDE DEF b, data, c
    <3>3. /\ Kept(done.w, c, top, lo, s)
          /\ done.w.position + b.size <= c.position
          /\ Small(c) /\ c.room > 0 =>
                Copied(done.w, c, done.w.position, b.size, data)
      BY <1>4, <2>1, <3>2
    <3>4. r.ok /\ r.w = c /\ r.found = Append(done.found, piece)
      BY <3>1
    <3>5. r.found = Append(done.found, [start |-> b.start, size |-> b.size,
                                        rva |-> done.w.position])
      BY <3>4
    <3>7. /\ done.w.position + b.size <= r.w.position
          /\ Small(r.w) /\ r.w.room > 0 =>
                Copied(done.w, r.w, done.w.position, b.size, data)
      BY <3>3, <3>4
    <3> HIDE DEF piece
    <3>6. BlockAt(done, blocks, r)
      BY <2>1, <2>2, <3>5, <3>7, Zenon DEF BlockAt
    <3> QED
      BY <1>3, <3>3, <3>4, <3>6
  <2> QED
    BY <2>3, <2>4
<1> QED
  BY <1>2, <1>3
-----------------------------------------------------------------------------
\* The starts of the lists.
LEMMA ThreadListStarts ==
    ASSUME InStream, StartThreadList, ~faulty'
    PROVE  Layout'
<1>1. /\ AllocateList(Len(threads), SizeOf.thread, "thread")
      /\ UNCHANGED <<dir, threads>>
  BY DEF StartThreadList, dumper
<1>2. Len(threads) \in Nat /\ SizeOf.thread \in Nat
  BY SizesRight DEF InStream
<1>3. "thread" \in {"thread", "module", "memory"}
  OBVIOUS
<1>4. /\ Laid(w', Low') /\ Low <= Low' /\ Low' \in Nat
      /\ Low' <= w'.position /\ pc' = "thread" /\ next' = 1
      /\ list' + ListBytes(Len(threads), SizeOf.thread) <= w'.position
  BY <1>1, <1>2, <1>3, StartLays
<1>5. (/\ ThreadListEnd(list, threads) <= w.position
       /\ ThreadsUpTo(w.disk, threads, list, next - 1, w.position))'
  BY <1>1, <1>4 DEF ThreadListEnd, ThreadsUpTo
<1>6. pc' \notin NotOpen \cup {"header"} \cup Entering
  BY <1>4 DEF NotOpen, Enumerating, Entering
<1> QED
  BY <1>1, <1>4, <1>5, <1>6, LayoutNext

\* The list of modules.
LEMMA ModuleListStarts ==
    ASSUME InStream, ListInv, StartModuleList, ~faulty'
    PROVE  Layout'
<1>1. /\ AllocateList(Len(Modules), SizeOf.module, "module")
      /\ UNCHANGED <<dir, threads>>
  BY DEF StartModuleList, dumper
<1>2. Len(Modules) \in Nat /\ SizeOf.module \in Nat
  BY SizesRight, ModulesRight DEF ListInv
<1>3. "module" \in {"thread", "module", "memory"}
  OBVIOUS
<1>4. /\ Laid(w', Low') /\ Low <= Low' /\ Low' \in Nat
      /\ Low' <= w'.position /\ pc' = "module"
  BY <1>1, <1>2, <1>3, StartLays
<1>5. pc' \notin NotOpen \cup {"header"} \cup Entering
  BY <1>4 DEF NotOpen, Enumerating, Entering
<1> QED
  BY <1>1, <1>4, <1>5, LayoutNext

\* The list of the memory.
LEMMA MemoryListStarts ==
    ASSUME InStream, ListInv, StartMemoryList, ~faulty'
    PROVE  Layout'
<1>1. /\ AllocateList(Len(memory_blocks), SizeOf.memory, "memory")
      /\ UNCHANGED <<dir, threads, memory_blocks>>
  BY DEF StartMemoryList, dumper
<1>2. Len(memory_blocks) \in Nat /\ SizeOf.memory \in Nat
  BY SizesRight DEF ListInv
<1>3. "memory" \in {"thread", "module", "memory"}
  OBVIOUS
<1>4. /\ Laid(w', Low') /\ Low <= Low' /\ Low' \in Nat
      /\ Low' <= w'.position /\ pc' = "memory"
      /\ list' + ListBytes(Len(memory_blocks), SizeOf.memory) <= w'.position
  BY <1>1, <1>2, <1>3, StartLays
<1>5. (MemoryListEnd <= w.position)'
  BY <1>1, <1>4 DEF MemoryListEnd
<1>6. pc' \notin NotOpen \cup {"header"} \cup Entering
  BY <1>4 DEF NotOpen, Enumerating, Entering
<1> QED
  BY <1>1, <1>4, <1>5, <1>6, LayoutNext

\* A step to a place where nothing is in progress.
LEMMA PlainNext ==
    ASSUME InStream, UNCHANGED <<dir, threads>>, Laid(w', w'.position),
           w.position <= w'.position, w'.position \in Nat,
           pc' \in {"module_list", "app", "exception", "file", "resume",
                    "exit", "killed"}
    PROVE  Layout'
<1>1. Low' = w'.position
  BY DEF Low
<1>2. /\ Laid(w', Low') /\ Low <= Low' /\ Low' \in Nat /\ Low' <= w'.position
  <2>1. Low <= w.position /\ w.position \in Nat /\ Low \in Nat
    BY DEF InStream
  <2> QED
    BY <1>1, <2>1
<1>3. pc' \notin NotOpen \cup {"header"} \cup Entering
  BY DEF NotOpen, Enumerating, Entering
<1> QED
  BY <1>2, <1>3, LayoutNext

\* The ends of the lists of modules and of memory.
LEMMA OtherListEnds ==
    ASSUME InStream, EndModuleList \/ EndMemoryList
    PROVE  Layout'
<1>1. /\ Low = list /\ UNCHANGED <<dir, threads>>
      /\ pc' \in Entering
  BY DEF EndModuleList, EndMemoryList, EndStream, GoOn, Leaves, dumper, Low,
     Entering
<1>2. \/ EndStream("modules", Len(Modules), SizeOf.module, "enter_modules")
      \/ EndStream("memory", Len(memory_blocks), SizeOf.memory,
                   "enter_memory")
  BY DEF EndModuleList, EndMemoryList
<1>3. ASSUME NEW type \in {"modules", "memory"}, NEW size, NEW d, NEW hi
      PROVE  IsWhole(Dirent(type, size, list), threads, d, Top(dir), hi)
  BY <1>3 DEF IsWhole, Dirent
<1>4. /\ "modules" \in {"modules", "memory"}
      /\ "memory" \in {"modules", "memory"}
  OBVIOUS
<1>5. Ready
  BY <1>1, <1>2, <1>3, <1>4, EndLays
<1> QED
  BY <1>1, <1>5, EnteringNext

\* A turn of a loop that leaves what is finished as it is.
LEMMA LoopNext ==
    ASSUME InStream, UNCHANGED <<dir, threads>>, Low' = Low,
           Kept(w, w', Top(dir), Low, Nowhere),
           pc' \in {"module", "memory", "dso"},
           (pc = "memory" => MemoryListEnd <= w.position)'
    PROVE  Layout'
<1>1. Laid(w', Low')
  BY PlainLaid
<1>2. /\ Low <= Low' /\ Low' \in Nat /\ Low' <= w'.position
  <2>1. /\ Low \in Nat /\ Low <= w.position /\ w.position \in Nat
        /\ w.position <= w'.position /\ w'.position \in Nat
    BY DEF InStream, Kept, IsKept, IsWriter
  <2> QED
    BY <2>1
<1>3. pc' \notin NotOpen \cup {"header"} \cup Entering
  BY DEF NotOpen, Enumerating, Entering
<1> QED
  BY <1>1, <1>2, <1>3, LayoutNext

\* On a full disk nothing is written.
LEMMA FullStays ==
    ASSUME NEW x, IsKept(x), NEW at \in Nat, NEW len \in Nat, NEW data,
           NEW c, c = Copy(x, at, len, data), ~(x.room > 0), NEW top, NEW lo,
           NEW s
    PROVE  Kept(x, c, top, lo, s) /\ c.position = x.position
<1>1. /\ IsKept(c) /\ c.position = x.position /\ c.size = x.size
      /\ c.room <= x.room /\ c.disk = x.disk
  BY CopyKept
<1>2. /\ Apart(x.disk, c.disk, top, lo)
      /\ Marks(x.disk, c.disk, top, s)
  BY <1>1, SameKept
<1>3. x.position <= c.position /\ x.size <= c.size
  BY <1>1 DEF IsKept, IsWriter
<1> QED
  BY <1>1, <1>2, <1>3 DEF Kept

\* The entry of a list, or of an array, that is above lo.
LEMMA AboveStays ==
    ASSUME NEW x, IsKept(x), NEW at \in Nat, NEW len \in Nat, NEW data,
           NEW c, c = Copy(x, at, len, data), NEW top \in Nat,
           NEW lo \in Nat, top <= lo, NEW s, lo <= at,
           x.room > 0 => lo <= x.offset
    PROVE  Kept(x, c, top, lo, s) /\ c.position = x.position
<1>1. CASE x.room > 0
  <2>1. Harmless(Place(x, at), len, data, top, lo, s)
    BY <1>1 DEF Harmless, Place
  <2> QED
    BY <2>1, CopyStays
<1>2. CASE ~(x.room > 0)
  BY <1>2, FullStays
<1> QED
  BY <1>1, <1>2

\* A module: its identifier, its name, its entry in the list.
LEMMA ModuleLays ==
    ASSUME InStream, next \in Nat \ {0}, WriteModule, SmallFile', ~faulty'
    PROVE  Layout'
<1> DEFINE m == Modules[next]
           idSize == IF m.name \in Unidentified THEN 0 ELSE SizeOf.buildid
           withId == IF m.name \in Unidentified THEN w
                     ELSE Copy(Allocate(w, idSize), w.position, idSize,
                               [id |-> m.name])
           withName == WriteString(withId, NameLength, [name |-> m.name])
           raw == [start |-> m.start, size |-> m.size,
                   cv |-> [size |-> idSize, rva |-> w.position],
                   name |-> withId.position]
           at == list + SizeOf.count + (next - 1) * SizeOf.module
<1>1. /\ w' = Copy(withName, at, SizeOf.module, raw) /\ pc = "module"
      /\ pc' = "module" /\ WriteStringOK(withId, NameLength)
      /\ UNCHANGED <<dir, list, threads>>
  BY DEF WriteModule, Fail, GoOn, CopyIndexAfterObject, dumper, stream
<1>2. Low = list /\ Low' = list
  BY <1>1 DEF Low
<1>3. /\ at \in Nat /\ list <= at /\ SizeOf.module \in Nat
      /\ idSize \in Nat /\ idSize <= idSize
  <2>1. list \in Nat
    BY DEF InStream
  <2> QED
    BY <2>1 DEF SizeOf
<1>4. NameLength \in Nat
  BY LimitAssumption
<1>5. /\ \/ withId = w
         \/ withId = Copy(Allocate(w, idSize), w.position, idSize,
                          [id |-> m.name])
      /\ withName = WriteString(withId, NameLength, [name |-> m.name])
  OBVIOUS
<1> HIDE DEF m, raw, at, idSize, withId, withName
<1>6. /\ IsKept(w) /\ Small(w) /\ Top(dir) \in Nat /\ list \in Nat
      /\ Top(dir) <= list /\ list <= w.position /\ w.position \in Nat
  BY <1>2 DEF InStream
<1>7. /\ Kept(w, withId, Top(dir), list, Nowhere)
  <2>1. CASE withId = w
    BY <1>6, <2>1, StaysKept
  <2>2. CASE withId = Copy(Allocate(w, idSize), w.position, idSize,
                           [id |-> m.name])
    BY <1>3, <1>6, <2>2, ObjectStays
  <2> QED
    BY <1>5, <2>1, <2>2
<1>8. IsKept(withId) /\ list <= withId.position /\ withId.position \in Nat
  BY <1>6, <1>7 DEF Kept, IsKept, IsWriter
<1>9. /\ IsKept(withName) /\ withId.size <= withName.size
      /\ withName.size \in Nat /\ withId.size \in Nat
  <2>1. /\ IsKept(withName) /\ withId.size <= withName.size
        /\ withName.size \in Nat
    BY <1>4, <1>5, <1>8, StringLarger
  <2> QED
    BY <1>8, <2>1 DEF IsKept, IsWriter
<1>10. Small(withId)
  <2>1. w'.size = withName.size
    BY <1>1, <1>3, <1>9, CopyKept
  <2> QED
    BY <1>9, <2>1, FileWriterAssumption DEF SmallFile, Small, kInvalidMDRVA
<1>11. CanAllocate(withId, StringLen(NameLength))
  BY <1>1 DEF WriteStringOK
<1>12. /\ Kept(withId, withName, Top(dir), list, Nowhere)
       /\ withName.room > 0 =>
            withName.offset = withId.position + SizeOf.string
  BY <1>1, <1>4, <1>5, <1>6, <1>8, <1>10, <1>11, StringStays
<1>13. withName.room > 0 => list <= withName.offset
  BY <1>6, <1>8, <1>12, SizesRight
<1>14. Kept(withName, w', Top(dir), list, Nowhere)
  BY <1>1, <1>3, <1>6, <1>9, <1>13, AboveStays
<1>15. Kept(w, w', Top(dir), Low, Nowhere)
  BY <1>2, <1>6, <1>7, <1>8, <1>12, <1>14, KeptFurther
<1> QED
  BY <1>1, <1>2, <1>15, LoopNext

\* Memory that the application registered.
LEMMA AppMemoryLays ==
    ASSUME InStream, next \in Nat \ {0}, WriteAppMemory, ~faulty'
    PROVE  Layout'
<1> DEFINE blocks == {AppMemory[next]}
           wrote == WriteBlock(NothingYet, CrashThread, blocks)
<1>1. /\ pc = "app" /\ pc' = "app" /\ w' = wrote.w
      /\ next <= Len(AppMemory) /\ UNCHANGED <<dir, threads>>
  BY DEF WriteAppMemory, GoOn, Fail, dumper
<1>2. Low = w.position /\ NothingYet.w = w
  BY <1>1 DEF Low, NothingYet
<1>3. IsBlocks(blocks)
  <2>1. next \in DOMAIN AppMemory
    BY <1>1, MemoryAssumption
  <2> QED
    BY <2>1, MemoryAssumption DEF IsBlocks, IsBlock
<1>4. wrote = WriteBlock(NothingYet, CrashThread, blocks)
  OBVIOUS
<1> HIDE DEF wrote, blocks
<1>5. Kept(w, wrote.w, Top(dir), Low, Nowhere)
  <2>1. /\ IsKept(NothingYet.w) /\ Small(NothingYet.w) /\ Top(dir) \in Nat
        /\ Low \in Nat /\ Top(dir) <= Low /\ Low <= NothingYet.w.position
    BY <1>2 DEF InStream
  <2>2. Kept(NothingYet.w, wrote.w, Top(dir), Low, Nowhere)
    BY <1>3, <1>4, <2>1, BlockStays
  <2> QED
    BY <1>2, <2>2
<1>6. Laid(w', w'.position)
  BY <1>1, <1>5, PlainLaid
<1>7. w.position <= w'.position /\ w'.position \in Nat
  BY <1>1, <1>5 DEF Kept, IsKept, IsWriter
<1> QED
  BY <1>1, <1>6, <1>7, PlainNext

\* An entry of the list of the memory.
LEMMA MemoryLays ==
    ASSUME InStream, ListInv, Layout, next \in Nat \ {0}, WriteMemory
    PROVE  Layout'
<1> DEFINE at == list + SizeOf.count + (next - 1) * SizeOf.memory
           data == memory_blocks[next]
<1>1. /\ pc = "memory" /\ pc' = "memory" /\ next <= Len(memory_blocks)
      /\ w' = Copy(w, at, SizeOf.memory, data)
      /\ UNCHANGED <<dir, list, threads, memory_blocks>>
  BY DEF WriteMemory, GoOn, CopyIndexAfterObject, dumper, stream
<1>2. Low = list /\ Low' = list /\ MemoryListEnd' = MemoryListEnd
  BY <1>1 DEF Low, MemoryListEnd
<1>3. /\ IsKept(w) /\ Small(w) /\ Top(dir) \in Nat /\ list \in Nat
      /\ Top(dir) <= list /\ w.position \in Nat
      /\ w.size \in Nat /\ w.position <= w.size
  BY <1>2 DEF InStream, IsKept, IsWriter
<1>4. MemoryListEnd <= w.position
  BY <1>1 DEF Layout
<1>5. at \in Nat /\ list <= at /\ SizeOf.memory \in Nat /\ at <= w.size
  <2>1. MemoryListEnd = list + 4 + Len(memory_blocks) * 16
    BY <1>3, SizesAre DEF MemoryListEnd, ListBytes, ListInv
  <2>2. at = list + 4 + (next - 1) * 16
    BY SizesAre
  <2>3. Len(memory_blocks) \in Nat
    BY DEF ListInv
  <2>4. ASSUME NEW n \in Nat, next <= n, NEW a, NEW e,
               a = list + 4 + (next - 1) * 16, e = list + 4 + n * 16
        PROVE  a \in Nat /\ e \in Nat /\ list <= a /\ a <= e
    BY <1>3, <2>4
  <2> HIDE DEF at
  <2>5. at \in Nat /\ MemoryListEnd \in Nat /\ list <= at
        /\ at <= MemoryListEnd
    BY <1>1, <2>1, <2>2, <2>3, <2>4
  <2> QED
    BY <1>3, <1>4, <2>5, SizesRight
<1> HIDE DEF at, data
<1>6. Place(w, at) = at
  BY <1>3, <1>5, InvalidRight
<1>7. Harmless(Place(w, at), SizeOf.memory, data, Top(dir), list, Nowhere)
  BY <1>5, <1>6 DEF Harmless
<1>8. Kept(w, w', Top(dir), list, Nowhere) /\ w'.position = w.position
  BY <1>1, <1>3, <1>5, <1>7, CopyStays
<1>9. (MemoryListEnd <= w.position)'
  BY <1>2, <1>4, <1>8
<1> QED
  BY <1>1, <1>2, <1>8, <1>9, LoopNext

\* The count is written: the list of threads is finished.
LEMMA ThreadListEnds ==
    ASSUME InStream, Layout, next <= Len(threads) + 1, next \in Nat,
           EndThreadList
    PROVE  Layout'
<1> DEFINE c == FlushCount(w, Len(threads))
           size == ListBytes(Len(threads), SizeOf.thread)
           entry == Dirent("threads", size, list)
<1>1. /\ Low = list /\ UNCHANGED <<dir, threads>> /\ pc = "thread"
      /\ pc' = "enter_threads" /\ next > Len(threads)
      /\ EndStream("threads", Len(threads), SizeOf.thread, "enter_threads")
  BY DEF EndThreadList, EndStream, GoOn, Leaves, dumper, Low
<1>2. /\ Len(threads) \in Nat /\ list \in Nat /\ IsKept(w) /\ Small(w)
      /\ w.position \in Nat /\ w.size \in Nat /\ w.position <= w.size
      /\ Top(dir) \in Nat /\ Top(dir) <= list
  BY <1>1 DEF InStream, IsKept, IsWriter
<1>3. next - 1 = Len(threads)
  BY <1>1, <1>2
<1>4. /\ ThreadListEnd(list, threads) <= w.position
      /\ w.room > 0 =>
            ThreadsUpTo(w.disk, threads, list, Len(threads), w.position)
  BY <1>1, <1>3 DEF Layout
<1>5. /\ ThreadListEnd(list, threads) = list + 4 + Len(threads) * 48
      /\ size = 4 + Len(threads) * 48
  BY <1>2, SizesAre DEF ThreadListEnd, ListBytes
<1> DEFINE last == ThreadListEnd(list, threads)
<1>6. /\ last \in Nat /\ list + SizeOf.count <= last /\ list < last
       /\ SizeOf.count \in Nat
  <2>1. ASSUME NEW n \in Nat, NEW e, e = list + 4 + n * 48
        PROVE  e \in Nat /\ list + 4 <= e /\ list < e
    BY <1>2, <2>1
  <2> HIDE DEF last
  <2>2. last = list + 4 + Len(threads) * 48
    BY <1>5 DEF last
  <2> QED
    BY <1>2, <2>1, <2>2, SizesAre
<1>7. list + SizeOf.count <= w.position /\ list + SizeOf.count <= w.size
  <2>1. last <= w.position
    BY <1>4
  <2> HIDE DEF last
  <2> QED
    BY <1>2, <1>6, <2>1
<1>8. c = Copy(w, list, SizeOf.count, [count |-> Len(threads)])
  BY DEF FlushCount
<1> HIDE DEF c
<1>9. ASSUME c.room > 0
      PROVE  ThreadList(c.disk, threads, list, Top(dir), w.position)
  <2>1. SizeOf.count \in Nat /\ list + SizeOf.count <= w.size
    BY <1>6, <1>7
  <2>2. Copied(w, c, list, SizeOf.count, [count |-> Len(threads)])
    <3>1. \/ Copied(w, c, list, SizeOf.count, [count |-> Len(threads)])
          \/ c.disk = w.disk /\ c.room = 0
      BY <1>2, <1>8, <2>1, CopyDone
    <3> QED
      BY <1>9, <3>1
  <2>3. /\ w.room > 0
        /\ HasWritten(w.disk, c.disk, list, SizeOf.count,
                      [count |-> Len(threads)])
    BY <2>2 DEF Copied
  <2>4. /\ list \in DOMAIN c.disk /\ DOMAIN c.disk = DOMAIN w.disk \cup {list}
        /\ c.disk[list] = [len |-> SizeOf.count,
                           data |-> [count |-> Len(threads)]]
        /\ \A p \in DOMAIN w.disk :
            p # list /\ list + SizeOf.count <= p => c.disk[p] = w.disk[p]
    BY <2>3 DEF HasWritten
  <2>5. Lies(c.disk, list, SizeOf.count, Top(dir), w.position)
    <3>1. Top(dir) <= list /\ list + SizeOf.count <= w.position
      BY <1>2, <1>7
    <3>2. list \in DOMAIN c.disk /\ c.disk[list].len = SizeOf.count
      BY <2>4
    <3> QED
      BY <3>1, <3>2 DEF Lies
  <2>6. ThreadsUpTo(c.disk, threads, list, Len(threads), w.position)
    <3> SUFFICES ASSUME NEW j \in 1..Len(threads)
                 PROVE  ThreadAt(c.disk, ThreadPlace(list, j), threads[j],
                                 ThreadListEnd(list, threads), w.position)
      BY DEF ThreadsUpTo
    <3> DEFINE p == ThreadPlace(list, j)
               end == ThreadListEnd(list, threads)
    <3>1. ThreadAt(w.disk, p, threads[j], end, w.position)
      BY <1>4, <2>3 DEF ThreadsUpTo
    <3>2. p = list + 4 + (j - 1) * 48
      BY SizesAre DEF ThreadPlace
    <3> HIDE DEF p
    <3>3. p \in DOMAIN w.disk /\ p # list /\ list + SizeOf.count <= p
      BY <1>2, <3>1, <3>2, SizesAre DEF ThreadAt
    <3>4. p \in DOMAIN c.disk /\ c.disk[p] = w.disk[p]
      BY <2>4, <3>3
    <3>5. Apart(w.disk, c.disk, end, w.position)
      <4>1. end \in Nat /\ list + SizeOf.count <= end /\ list < end
        BY <1>6
      <4> HIDE DEF end
      <4>2. ASSUME NEW q \in DOMAIN w.disk, end <= q
            PROVE  q \in DOMAIN c.disk /\ c.disk[q] = w.disk[q]
        <5>1. q \in Nat
          BY <1>2 DEF IsKept, Tidy
        <5>2. q # list /\ list + SizeOf.count <= q
          BY <1>2, <2>1, <4>1, <4>2, <5>1
        <5> QED
          BY <2>4, <5>2
      <4> QED
        BY <4>2 DEF Apart
    <3>6. end \in Nat /\ w.position <= w.position /\ Tidy(w.disk)
      BY <1>2, <1>5 DEF IsKept
    <3> HIDE DEF end
    <3>7. IsThreadEntry(c.disk, w.disk[p].data, threads[j], end, w.position)
      <4>1. IsThreadEntry(w.disk, w.disk[p].data, threads[j], end, w.position)
        BY <3>1 DEF ThreadAt
      <4> QED
        BY <1>2, <3>5, <3>6, <4>1, EntryKept
    <3> QED
      BY <3>1, <3>4, <3>7 DEF ThreadAt, p, end
  <2> QED
    BY <1>4, <2>4, <2>5, <2>6 DEF ThreadList
<1>10. c.room > 0 => IsWhole(entry, threads, c.disk, Top(dir), w.position)
  <2> SUFFICES ASSUME c.room > 0
               PROVE  IsWhole(entry, threads, c.disk, Top(dir), w.position)
    OBVIOUS
  <2>1. entry.type = "threads" /\ entry.size = size /\ entry.rva = list
    BY DEF Dirent
  <2> HIDE DEF entry
  <2> QED
    BY <1>9, <2>1 DEF IsWhole
<1>11. Ready
  BY <1>1, <1>10, EndLays DEF c
<1>12. pc' \in Entering
  BY <1>1 DEF Entering
<1> QED
  BY <1>1, <1>11, <1>12, EnteringNext

\* The stack, the memory around the crash and the registers of a thread.
LEMMA ThreadStays ==
    ASSUME IsKept(w), Small(w), NEW t, NEW stack, IsBlocks(stack), NEW ip,
           IsBlocks(ip), NEW first, first = WriteBlock(NothingYet, t, stack),
           NEW wrote, wrote = WriteBlock(first, t, ip), NEW data, NEW c,
           c = Copy(Allocate(wrote.w, SizeOf.context), wrote.w.position,
                    SizeOf.context, data), Small(c),
           NEW top \in Nat, NEW lo \in Nat, top <= lo, lo <= w.position, NEW s
    PROVE  /\ Kept(w, first.w, top, lo, s) /\ Kept(w, wrote.w, top, lo, s)
           /\ Kept(w, c, top, lo, s) /\ Small(first.w) /\ Small(wrote.w)
<1>1. NothingYet.w = w
  BY DEF NothingYet
<1>2. IsKept(first.w) /\ w.size <= first.w.size
  <2>1. IsKept(NothingYet.w)
    BY <1>1
  <2>2. IsKept(first.w) /\ NothingYet.w.size <= first.w.size
    BY <2>1, BlockLarger
  <2> QED
    BY <1>1, <2>2
<1>3. IsKept(wrote.w) /\ first.w.size <= wrote.w.size
  BY <1>2, BlockLarger
<1>4. /\ IsKept(c) /\ wrote.w.size <= c.size
  BY <1>3, ObjectLarger, SizesRight
<1>5. /\ w.size \in Nat /\ first.w.size \in Nat /\ wrote.w.size \in Nat
      /\ c.size \in Nat /\ w.position \in Nat
  BY <1>2, <1>3, <1>4 DEF IsKept, IsWriter
<1>6. Small(first.w) /\ Small(wrote.w)
  BY <1>2, <1>3, <1>4, <1>5, FileWriterAssumption DEF Small, kInvalidMDRVA
<1>7. Kept(w, first.w, top, lo, s)
  <2>1. /\ IsKept(NothingYet.w) /\ Small(NothingYet.w)
        /\ lo <= NothingYet.w.position
    BY <1>1
  <2>2. Kept(NothingYet.w, first.w, top, lo, s)
    BY <2>1, BlockStays
  <2> QED
    BY <1>1, <2>2
<1>8. lo <= first.w.position /\ first.w.position \in Nat
  BY <1>5, <1>7 DEF Kept, IsKept, IsWriter
<1>9. Kept(first.w, wrote.w, top, lo, s)
  BY <1>2, <1>6, <1>8, BlockStays
<1>10. lo <= wrote.w.position /\ wrote.w.position \in Nat
  BY <1>8, <1>9 DEF Kept, IsKept, IsWriter
<1>11. Kept(wrote.w, c, top, lo, s)
  <2>1. SizeOf.context \in Nat /\ SizeOf.context <= SizeOf.context
    BY SizesRight
  <2> DEFINE x == wrote.w
             n == SizeOf.context
  <2>2. /\ IsKept(x) /\ Small(x) /\ n \in Nat /\ n <= n /\ lo <= x.position
        /\ c = Copy(Allocate(x, n), x.position, n, data)
    BY <1>3, <1>6, <1>10, <2>1
  <2> HIDE DEF x, n
  <2>3. Kept(x, c, top, lo, s)
    BY <2>2, ObjectStays
  <2> QED
    BY <2>3 DEF x
<1>12. Kept(w, wrote.w, top, lo, s)
  BY <1>7, <1>9, KeptFurther
<1>13. Kept(w, c, top, lo, s)
  BY <1>11, <1>12, KeptFurther
<1> QED
  BY <1>6, <1>7, <1>12, <1>13

\* The registers and the stack that the entry of a thread refers to lie in
\* the file above the list.
LEMMA ThreadWritten ==
    ASSUME IsKept(w), Small(w), NEW t, NEW stack, IsBlocks(stack), NEW ip,
           IsBlocks(ip), NEW first, first = WriteBlock(NothingYet, t, stack),
           NEW wrote, wrote = WriteBlock(first, t, ip), wrote.ok, NEW data,
           NEW c, c = Copy(Allocate(wrote.w, SizeOf.context),
                           wrote.w.position, SizeOf.context, data),
           Small(c), c.room > 0, "crashed" \in DOMAIN data,
           NEW end \in Nat, end <= w.position, NEW raw,
           {"thread", "context", "stack"} \subseteq DOMAIN raw,
           raw.thread = t, raw.context.size = SizeOf.context,
           raw.context.rva = wrote.w.position,
           raw.stack = IF stack # {} THEN wrote.found[1]
                       ELSE [start |-> Stack[t].sp, size |-> 0,
                             rva |-> w.position]
    PROVE  IsThreadEntry(c.disk, raw, t, end, c.position)
<1>1. NothingYet.w = w /\ NothingYet.found = <<>>
  BY DEF NothingYet
<1>2. end <= end
  OBVIOUS
<1>3. /\ Kept(w, first.w, end, end, Nowhere)
      /\ Kept(w, wrote.w, end, end, Nowhere)
      /\ Small(first.w) /\ Small(wrote.w)
  BY <1>2, ThreadStays
<1>4. /\ IsKept(first.w) /\ IsKept(wrote.w) /\ first.w.position \in Nat
      /\ wrote.w.position \in Nat /\ w.position \in Nat
      /\ w.position <= first.w.position /\ w.position <= wrote.w.position
  BY <1>3 DEF Kept, IsKept, IsWriter
<1>5. Kept(first.w, wrote.w, end, first.w.position, Nowhere)
      /\ (wrote.ok => first.ok) /\ (ip = {} => wrote = first)
      /\ (wrote.ok /\ ip # {} => BlockAt(first, ip, wrote))
  <2>1. first.w.position <= first.w.position /\ end <= first.w.position
    BY <1>4
  <2> QED
    BY <1>3, <1>4, <2>1, BlockStays
<1>6. /\ Kept(wrote.w, c, end, first.w.position, Nowhere)
      /\ wrote.w.position + SizeOf.context <= c.position
      /\ Copied(wrote.w, c, wrote.w.position, SizeOf.context, data)
  <2>1. SizeOf.context \in Nat /\ SizeOf.context <= SizeOf.context
    BY SizesRight
  <2> DEFINE x == wrote.w
             n == SizeOf.context
             lo == first.w.position
  <2>2. /\ IsKept(x) /\ Small(x) /\ n \in Nat /\ n <= n /\ lo <= x.position
        /\ c = Copy(Allocate(x, n), x.position, n, data) /\ lo \in Nat
        /\ end <= lo
    BY <1>3, <1>4, <1>5, <2>1 DEF Kept
  <2> HIDE DEF x, n, lo
  <2>3. /\ Kept(x, c, end, lo, Nowhere) /\ x.position + n <= c.position
        /\ Small(c) /\ c.room > 0 => Copied(x, c, x.position, n, data)
    BY <2>2, ObjectStays
  <2> QED
    BY <2>3 DEF x, n, lo
<1>7. /\ IsKept(c) /\ c.position \in Nat /\ first.w.position <= c.position
      /\ first.w.room > 0
  <2>1. /\ IsKept(c) /\ c.position \in Nat /\ c.room \in Nat
        /\ wrote.w.room \in Nat /\ first.w.room \in Nat
        /\ c.room <= wrote.w.room /\ wrote.w.room <= first.w.room
        /\ first.w.position <= wrote.w.position
        /\ wrote.w.position <= c.position
    BY <1>4, <1>5, <1>6 DEF Kept, IsKept, IsWriter
  <2> QED
    BY <1>4, <2>1
<1>8. ContextLies(c.disk, raw.context, end, c.position)
  <2>1. /\ wrote.w.position \in DOMAIN c.disk
        /\ c.disk[wrote.w.position] = [len |-> SizeOf.context, data |-> data]
    BY <1>6 DEF Copied, HasWritten
  <2>2. Lies(c.disk, wrote.w.position, SizeOf.context, end, c.position)
    BY <1>4, <1>6, <2>1 DEF Lies
  <2> QED
    BY <2>1, <2>2 DEF ContextLies
<1>9. StackLies(c.disk, raw.stack, end, c.position)
  <2>1. CASE stack = {}
    BY <2>1 DEF StackLies
  <2>2. CASE stack # {}
    <3>1. BlockAt(NothingYet, stack, first)
      <4>1. /\ IsKept(NothingYet.w) /\ Small(NothingYet.w) /\ end <= end
            /\ end <= NothingYet.w.position
        BY <1>1
      <4>2. first.ok /\ stack # {} => BlockAt(NothingYet, stack, first)
        BY <4>1, BlockStays
      <4> QED
        BY <1>5, <2>2, <4>2
    <3>2. PICK b \in stack : \E d :
            /\ d # Damaged /\ b.size \in Nat
            /\ first.found = Append(NothingYet.found,
                    [start |-> b.start, size |-> b.size,
                     rva |-> NothingYet.w.position])
            /\ NothingYet.w.position + b.size <= first.w.position
            /\ Small(first.w) /\ first.w.room > 0 =>
                Copied(NothingYet.w, first.w, NothingYet.w.position, b.size, d)
      BY <3>1, Zenon DEF BlockAt
    <3>3. PICK d :
            /\ d # Damaged /\ b.size \in Nat
            /\ first.found = Append(NothingYet.found,
                    [start |-> b.start, size |-> b.size,
                     rva |-> NothingYet.w.position])
            /\ NothingYet.w.position + b.size <= first.w.position
            /\ Small(first.w) /\ first.w.room > 0 =>
                Copied(NothingYet.w, first.w, NothingYet.w.position, b.size, d)
      BY <3>2, Zenon
    <3>4. /\ d # Damaged /\ b.size \in Nat
          /\ first.found = Append(<<>>, [start |-> b.start,
                                  size |-> b.size, rva |-> w.position])
          /\ w.position + b.size <= first.w.position
          /\ Small(first.w) /\ first.w.room > 0 =>
                Copied(w, first.w, w.position, b.size, d)
      BY <1>1, <3>3
    <3> DEFINE piece == [start |-> b.start, size |-> b.size,
                         rva |-> w.position]
    <3>5. first.found[1] = piece /\ first.found \in Seq({piece})
          /\ Len(first.found) = 1
      BY <3>4
    <3>6. wrote.found[1] = piece
      <4>1. CASE ip = {}
        BY <1>5, <3>5, <4>1
      <4>2. CASE ip # {}
        <5>1. PICK z : wrote.found = Append(first.found, z)
          BY <1>5, <4>2 DEF BlockAt
        <5> QED
          BY <3>5, <5>1
      <4> QED
        BY <4>1, <4>2
    <3>7. raw.stack = piece
      BY <2>2, <3>6
    <3>8. raw.stack.size = b.size /\ raw.stack.rva = w.position
      BY <3>7
    <3>9. Copied(w, first.w, w.position, b.size, d)
      BY <1>3, <1>7, <3>4
    <3>10. /\ w.position \in DOMAIN first.w.disk
          /\ first.w.disk[w.position] = [len |-> b.size, data |-> d]
      BY <3>9 DEF Copied, HasWritten
    <3>11. Lies(first.w.disk, w.position, b.size, end, first.w.position)
      BY <3>4, <3>10 DEF Lies
    <3>12. Apart(first.w.disk, c.disk, end, first.w.position)
      BY <1>5, <1>6, ApartFurther DEF Kept
    <3>13. ASSUME b.size > 0
           PROVE  /\ Lies(c.disk, w.position, b.size, end, c.position)
                  /\ c.disk[w.position] = first.w.disk[w.position]
      <4> DEFINE e == first.w.disk
                 f == c.disk
                 hi == first.w.position
                 hi2 == c.position
                 n == b.size
                 p == w.position
      <4>1. /\ Tidy(e) /\ hi \in Nat /\ hi2 \in Nat /\ hi <= hi2 /\ n > 0
            /\ Apart(e, f, end, hi) /\ Lies(e, p, n, end, hi)
        BY <1>4, <1>7, <3>11, <3>12, <3>13 DEF IsKept
      <4> HIDE DEF e, f, hi, hi2, n, p
      <4>2. Lies(f, p, n, end, hi2) /\ f[p] = e[p]
        BY <4>1, LiesKept
      <4> QED
        BY <4>2 DEF e, f, hi2, n, p
    <3>14. first.w.disk[w.position].data # Damaged
      BY <3>4, <3>10
    <3>15. raw.stack.size > 0 =>
            /\ Lies(c.disk, raw.stack.rva, raw.stack.size, end, c.position)
            /\ c.disk[raw.stack.rva].data # Damaged
      <4>1. b.size > 0 =>
              /\ Lies(c.disk, w.position, b.size, end, c.position)
              /\ c.disk[w.position] = first.w.disk[w.position]
        BY <3>13, Zenon
      <4>2. b.size > 0 =>
              /\ Lies(c.disk, w.position, b.size, end, c.position)
              /\ c.disk[w.position].data # Damaged
        BY <3>14, <4>1, Zenon
      <4> QED
        BY <3>8, <4>2, Zenon
    <3> QED
      BY <3>15 DEF StackLies
  <2> QED
    BY <2>1, <2>2
<1> QED
  BY <1>8, <1>9 DEF IsThreadEntry

\* The entry of a thread leaves the entries before it as they are.
LEMMA ThreadEntered ==
    ASSUME NEW x, IsKept(x), Small(x), NEW l \in Nat, NEW n \in Nat \ {0},
           Len(threads) \in Nat, n <= Len(threads),
           ThreadListEnd(l, threads) <= x.position, NEW raw, NEW c,
           c = Copy(x, ThreadPlace(l, n), SizeOf.thread, raw), c.room > 0,
           ThreadsUpTo(x.disk, threads, l, n - 1, x.position),
           IsThreadEntry(x.disk, raw, threads[n], ThreadListEnd(l, threads),
                         x.position)
    PROVE  ThreadsUpTo(c.disk, threads, l, n, x.position)
<1> DEFINE end == ThreadListEnd(l, threads)
           at == ThreadPlace(l, n)
<1>1. end = l + 4 + Len(threads) * 48 /\ at = l + 4 + (n - 1) * 48
  BY SizesAre DEF ThreadListEnd, ListBytes, ThreadPlace
<1>2. /\ x.position \in Nat /\ x.size \in Nat /\ x.position <= x.size
      /\ Tidy(x.disk)
  BY DEF IsKept, IsWriter
<1> HIDE DEF end, at
<1>3. /\ end \in Nat /\ at \in Nat /\ at + SizeOf.thread <= end
      /\ at + SizeOf.thread <= x.size /\ SizeOf.thread \in Nat /\ at < end
  <2>1. end <= x.position
    BY DEF end
  <2>2. ASSUME NEW m \in Nat, n <= m, NEW a, NEW b,
               b = l + 4 + m * 48, a = l + 4 + (n - 1) * 48
        PROVE  b \in Nat /\ a \in Nat /\ a + 48 <= b /\ a < b
    BY <2>2
  <2>3. end \in Nat /\ at \in Nat /\ at + 48 <= end /\ at < end
    BY <1>1, <2>2
  <2> QED
    BY <1>2, <2>1, <2>3, SizesAre
<1>4. HasWritten(x.disk, c.disk, at, SizeOf.thread, raw)
  <2>1. \/ Copied(x, c, at, SizeOf.thread, raw)
        \/ c.disk = x.disk /\ c.room = 0
    BY <1>3, CopyDone DEF at
  <2> QED
    BY <2>1 DEF Copied
<1>5. /\ at \in DOMAIN c.disk
      /\ c.disk[at] = [len |-> SizeOf.thread, data |-> raw]
      /\ DOMAIN c.disk = DOMAIN x.disk \cup {at}
      /\ \A p \in DOMAIN x.disk :
            p # at /\ (p + x.disk[p].len <= at \/ at + SizeOf.thread <= p)
                => c.disk[p] = x.disk[p]
  BY <1>4 DEF HasWritten
<1>6. Apart(x.disk, c.disk, end, x.position)
  <2>1. ASSUME NEW q \in DOMAIN x.disk, end <= q
        PROVE  q \in DOMAIN c.disk /\ c.disk[q] = x.disk[q]
    <3>1. q \in Nat
      BY <1>2 DEF Tidy
    <3>2. q # at /\ at + SizeOf.thread <= q
      BY <1>3, <2>1, <3>1
    <3> QED
      BY <1>5, <3>2
  <2> QED
    BY <2>1 DEF Apart
<1>7. ASSUME NEW data, NEW t, IsThreadEntry(x.disk, data, t, end, x.position)
      PROVE  IsThreadEntry(c.disk, data, t, end, x.position)
  <2>1. x.position <= x.position
    BY <1>2
  <2> QED
    BY <1>2, <1>3, <1>6, <1>7, <2>1, EntryKept
<1>8. ASSUME NEW j \in 1..n
      PROVE  ThreadAt(c.disk, ThreadPlace(l, j), threads[j], end, x.position)
  <2>1. CASE j = n
    <3>1. IsThreadEntry(c.disk, raw, threads[n], end, x.position)
      BY <1>7 DEF end
    <3> QED
      BY <1>5, <2>1, <3>1 DEF ThreadAt, at
  <2>2. CASE j # n
    <3> DEFINE p == ThreadPlace(l, j)
    <3>1. j \in 1..(n - 1)
      BY <2>2
    <3>2. ThreadAt(x.disk, p, threads[j], end, x.position)
      BY <3>1 DEF ThreadsUpTo, end
    <3>3. p = l + 4 + (j - 1) * 48
      BY SizesAre DEF ThreadPlace
    <3> HIDE DEF p
    <3>4. /\ p \in DOMAIN x.disk /\ x.disk[p].len = SizeOf.thread
          /\ IsThreadEntry(x.disk, x.disk[p].data, threads[j], end, x.position)
      BY <3>2 DEF ThreadAt
    <3>5. p # at /\ p + SizeOf.thread <= at
      <4>1. j + 1 <= n
        BY <3>1
      <4> QED
        BY <1>1, <3>3, <4>1, SizesAre
    <3>6. p \in DOMAIN c.disk /\ c.disk[p] = x.disk[p]
      BY <1>5, <3>4, <3>5
    <3>7. IsThreadEntry(c.disk, x.disk[p].data, threads[j], end, x.position)
      BY <1>7, <3>4
    <3> QED
      BY <3>4, <3>6, <3>7 DEF ThreadAt, p
  <2> QED
    BY <2>1, <2>2
<1> QED
  BY <1>8 DEF ThreadsUpTo, end

\* Entries stay when what lies below lo does.
LEMMA ThreadsStay ==
    ASSUME NEW x, IsKept(x), NEW y, NEW l \in Nat, NEW top \in Nat, top <= l,
           NEW s, Kept(x, y, top, x.position, s), Len(threads) \in Nat,
           ThreadListEnd(l, threads) <= x.position, NEW k \in Nat,
           k <= Len(threads),
           ThreadsUpTo(x.disk, threads, l, k, x.position)
    PROVE  ThreadsUpTo(y.disk, threads, l, k, y.position)
<1> DEFINE end == ThreadListEnd(l, threads)
<1>1. end = l + 4 + Len(threads) * 48
  BY SizesAre DEF ThreadListEnd, ListBytes
<1>2. /\ x.position \in Nat /\ y.position \in Nat /\ Tidy(x.disk)
      /\ x.position <= y.position /\ Apart(x.disk, y.disk, top, x.position)
      /\ end <= x.position
  BY DEF IsKept, IsWriter, Kept
<1> HIDE DEF end
<1>3. end \in Nat /\ top <= end /\ x.position <= x.position
  BY <1>1, <1>2
<1>4. Apart(x.disk, y.disk, end, x.position)
  BY <1>2, <1>3, ApartWithin
<1>5. ASSUME NEW j \in 1..k
      PROVE  ThreadAt(y.disk, ThreadPlace(l, j), threads[j], end, y.position)
  <2> DEFINE p == ThreadPlace(l, j)
  <2>1. ThreadAt(x.disk, p, threads[j], end, x.position)
    BY DEF ThreadsUpTo, end
  <2>2. p = l + 4 + (j - 1) * 48
    BY SizesAre DEF ThreadPlace
  <2> HIDE DEF p
  <2>3. /\ p \in DOMAIN x.disk /\ x.disk[p].len = SizeOf.thread
        /\ IsThreadEntry(x.disk, x.disk[p].data, threads[j], end, x.position)
    BY <2>1 DEF ThreadAt
  <2>4. p \in Nat /\ top <= p /\ p + 48 <= x.position /\ p < x.position
    BY <1>1, <1>2, <2>2
  <2>5. p \in DOMAIN y.disk /\ y.disk[p] = x.disk[p]
    <3>1. top <= p /\ p < x.position /\ p + x.disk[p].len <= x.position
      BY <2>3, <2>4, SizesAre
    <3> QED
      BY <1>2, <2>3, <3>1 DEF Apart
  <2>6. IsThreadEntry(y.disk, x.disk[p].data, threads[j], end, y.position)
    BY <1>2, <1>3, <1>4, <2>3, EntryKept
  <2> QED
    BY <2>3, <2>5, <2>6 DEF ThreadAt, p
<1> QED
  BY <1>5 DEF ThreadsUpTo, end

\* A thread: its memory, its registers, its entry in the list.
LEMMA ThreadLays ==
    ASSUME InStream, TypeInv, ListInv, FileInv, Layout, WriteThread,
           SmallFile', ~faulty'
    PROVE  Layout'
<1> DEFINE t == threads[next]
           stack == StackBlocks(t, MaxStackLen(t))
           ip == IF FromHandler(t) THEN IpBlocks ELSE {}
           first == WriteBlock(NothingYet, t, stack)
           wrote == WriteBlock(first, t, ip)
           context == [size |-> SizeOf.context, rva |-> wrote.w.position]
           data == [thread |-> t, crashed |-> FromHandler(t)]
           withContext == Copy(Allocate(wrote.w, SizeOf.context),
                               wrote.w.position, SizeOf.context, data)
           raw == [thread |-> t, context |-> context,
                   stack |-> IF stack # {} THEN wrote.found[1]
                             ELSE [start |-> Stack[t].sp, size |-> 0,
                                   rva |-> w.position]]
           flushed == FlushCount(w, Len(threads))
           at == ThreadPlace(list, next)
           end == ThreadListEnd(list, threads)
<1>1. /\ pc = "thread" /\ next <= Len(threads) /\ next \in Nat \ {0}
      /\ UNCHANGED <<dir, list, threads>> /\ Len(threads) \in Nat
  BY DEF WriteThread, TypeInv, dumper, stream
<1>2. \/ w' = flushed /\ pc' = "exit"
      \/ /\ wrote.ok /\ w' = Copy(withContext, at, SizeOf.thread, raw)
         /\ pc' = "thread" /\ next' = next + 1
  BY DEF WriteThread, Fail, Exit, GoOn, CopyIndexAfterObject, ThreadPlace
<1>3. t \in Tids
  BY <1>1 DEF TypeInv
<1>4. IsBlocks(stack)
  <2>1. MaxStackLen(t) \in {-1, kLimitMaxExtraThreadStackLen}
    BY DEF MaxStackLen, FileInv
  <2> QED
    BY <1>3, <2>1, StackBlocksRight DEF ListInv, IsBlocks
<1>5. IsBlocks(ip)
  BY IpBlocksRight DEF ListInv, IsBlocks
<1>6. /\ Low = list /\ IsKept(w) /\ Small(w) /\ Top(dir) \in Nat
      /\ list \in Nat /\ Top(dir) <= list /\ list <= w.position
      /\ w.position \in Nat /\ Top(dir) <= w.position
  BY <1>1 DEF InStream, Low
<1>7. CASE w' = flushed /\ pc' = "exit"
  <2>1. /\ Kept(w, flushed, Top(dir), Low, Nowhere)
        /\ flushed.position = w.position
    BY <1>6, FlushStays
  <2> HIDE DEF flushed
  <2>2. Laid(w', w'.position)
    BY <1>7, <2>1, PlainLaid
  <2>3. w.position <= w'.position /\ w'.position \in Nat
    BY <1>6, <1>7, <2>1
  <2> QED
    BY <1>1, <1>7, <2>2, <2>3, PlainNext
<1>8. CASE /\ wrote.ok /\ w' = Copy(withContext, at, SizeOf.thread, raw)
           /\ pc' = "thread" /\ next' = next + 1
  <2>1. /\ first = WriteBlock(NothingYet, t, stack)
        /\ wrote = WriteBlock(first, t, ip)
        /\ withContext = Copy(Allocate(wrote.w, SizeOf.context),
                              wrote.w.position, SizeOf.context, data)
        /\ "crashed" \in DOMAIN data
    OBVIOUS
  <2>2. /\ {"thread", "context", "stack"} \subseteq DOMAIN raw
        /\ raw.thread = t /\ raw.context.size = SizeOf.context
        /\ raw.context.rva = wrote.w.position
        /\ raw.stack = IF stack # {} THEN wrote.found[1]
                       ELSE [start |-> Stack[t].sp, size |-> 0,
                             rva |-> w.position]
    OBVIOUS
  <2>3. /\ at = list + 4 + (next - 1) * 48
        /\ end = list + 4 + Len(threads) * 48
        /\ end <= w.position
    <3>1. at = list + 4 + (next - 1) * 48
      BY SizesAre DEF ThreadPlace
    <3>2. end = list + 4 + Len(threads) * 48
      BY <1>1, <1>6, SizesAre DEF ThreadListEnd, ListBytes
    <3>3. end <= w.position
      BY <1>1 DEF Layout
    <3> QED
      BY <3>1, <3>2, <3>3
  <2> HIDE DEF stack, ip, first, wrote, data, withContext, raw, at, end,
               flushed
  <2>4. at \in Nat /\ list <= at /\ at <= w.position /\ end \in Nat
        /\ SizeOf.thread \in Nat
    <3>1. ASSUME NEW m \in Nat, next <= m, NEW a, NEW b,
                 b = list + 4 + m * 48, a = list + 4 + (next - 1) * 48
          PROVE  b \in Nat /\ a \in Nat /\ a <= b /\ list <= a
      BY <1>1, <1>6, <3>1
    <3>2. end \in Nat /\ at \in Nat /\ at <= end /\ list <= at
      BY <1>1, <2>3, <3>1
    <3>3. ASSUME NEW a \in Nat, NEW b \in Nat, NEW c \in Nat, a <= b, b <= c
          PROVE  a <= c
      BY <3>3
    <3>4. at <= w.position
      BY <1>6, <2>3, <3>2, <3>3
    <3> QED
      BY <3>2, <3>4, SizesRight
  <2>5. Small(withContext) /\ IsKept(withContext)
        /\ w'.size = withContext.size
    <3>1. IsKept(withContext)
      <4>1. IsKept(first.w)
        <5>1. IsKept(NothingYet.w)
          BY <1>6 DEF NothingYet
        <5> QED
          BY <1>4, <2>1, <5>1, BlockLarger
      <4>2. IsKept(wrote.w)
        BY <1>5, <2>1, <4>1, BlockLarger
      <4> QED
        BY <2>1, <4>2, ObjectLarger, SizesRight
    <3>2. w'.size = withContext.size
      BY <1>8, <2>4, <3>1, CopyKept
    <3> QED
      BY <3>1, <3>2 DEF SmallFile, Small
  <2>6. Kept(w, withContext, Top(dir), w.position, Nowhere)
        /\ Kept(w, withContext, Top(dir), list, Nowhere)
    <3>1. w.position <= w.position
      BY <1>6
    <3> QED
      BY <1>4, <1>5, <1>6, <2>1, <2>5, <3>1, ThreadStays
  <2>7. /\ w.position <= withContext.position /\ withContext.position \in Nat
        /\ withContext.size \in Nat /\ withContext.position <= withContext.size
    BY <2>6 DEF Kept, IsKept, IsWriter
  <2>8. Kept(withContext, w', Top(dir), list, Nowhere)
        /\ w'.position = withContext.position
    <3>1. at <= withContext.size
      BY <1>6, <2>4, <2>7
    <3>2. Place(withContext, at) = at
      BY <2>4, <2>5, <2>7, <3>1, InvalidRight
    <3>3. Harmless(Place(withContext, at), SizeOf.thread, raw, Top(dir), list,
                   Nowhere)
      BY <2>4, <3>2 DEF Harmless
    <3> QED
      BY <1>6, <1>8, <2>4, <2>5, <3>3, CopyStays
  <2>9. Kept(w, w', Top(dir), Low, Nowhere)
    BY <1>6, <2>6, <2>8, KeptFurther
  <2>10. Laid(w', Low')
    BY <2>9, PlainLaid
  <2>11. Low' = list
    BY <1>1, <1>8 DEF Low
  <2>12. /\ Low <= Low' /\ Low' \in Nat /\ Low' <= w'.position
         /\ end <= w'.position /\ end <= withContext.position
    BY <1>6, <2>3, <2>4, <2>7, <2>8, <2>11
  <2>13. ASSUME w'.room > 0
         PROVE  ThreadsUpTo(w'.disk, threads, list, next, w'.position)
    <3>1. withContext.room > 0 /\ w.room > 0
      <4>1. /\ w'.room \in Nat /\ withContext.room \in Nat /\ w.room \in Nat
            /\ w'.room <= withContext.room /\ withContext.room <= w.room
        BY <1>6, <2>6, <2>8 DEF Kept, IsKept, IsWriter
      <4> QED
        BY <2>13, <4>1
    <3>2. ThreadsUpTo(w.disk, threads, list, next - 1, w.position)
      BY <1>1, <3>1 DEF Layout
    <3>3. next - 1 \in Nat /\ next - 1 <= Len(threads)
      BY <1>1
    <3>4. ThreadsUpTo(withContext.disk, threads, list, next - 1,
                      withContext.position)
      BY <1>1, <1>6, <2>3, <2>6, <3>2, <3>3, ThreadsStay DEF end
    <3>5. IsThreadEntry(withContext.disk, raw, t, end, withContext.position)
      BY <1>4, <1>5, <1>6, <1>8, <2>1, <2>2, <2>3, <2>4, <2>5, <3>1,
         ThreadWritten
    <3>6. ThreadsUpTo(w'.disk, threads, list, next, withContext.position)
      BY <1>1, <1>6, <1>8, <2>5, <2>12, <2>13, <3>4, <3>5, ThreadEntered
         DEF at, end
    <3> QED
      BY <2>8, <3>6
  <2>14. (/\ ThreadListEnd(list, threads) <= w.position
          /\ w.room > 0 =>
              ThreadsUpTo(w.disk, threads, list, next - 1, w.position))'
    <3>1. next' - 1 = next
      BY <1>1, <1>8
    <3> QED
      BY <1>1, <2>12, <2>13, <3>1 DEF end
  <2>15. pc' \notin NotOpen \cup {"header"} \cup Entering
    BY <1>8 DEF NotOpen, Enumerating, Entering
  <2> QED
    BY <1>1, <1>8, <2>10, <2>12, <2>14, <2>15, LayoutNext
<1> QED
  BY <1>2, <1>7, <1>8

\* A stream of one object does not change the size of the file.
LEMMA ObjectSize ==
    ASSUME InStream, NEW x, IsKept(x), NEW type, NEW size \in Nat, NEW data,
           NEW where, WriteObject(x, type, size, data, where)
    PROVE  IsKept(w') /\ w'.size = x.size
<1>1. w' = Copy(x, w.position, size, data) /\ w.position \in Nat
  BY DEF WriteObject, GoOn, InStream
<1> QED
  BY <1>1, CopyKept

\* A stream of one object that needs no more than its space.
LEMMA AllocatedLays ==
    ASSUME InStream, NEW n \in Nat, NEW type, NEW data, NEW where,
           WriteObject(Allocate(w, n), type, n, data, where), Small(w'),
           \A hi : Fills(type, n, data, hi)
    PROVE  Ready
<1> DEFINE x == Allocate(w, n)
<1>1. Kept(w, x, Top(dir), Low, Nowhere) /\ w.position + n <= x.position
  BY AllocateStays DEF InStream
<1>2. WriteObject(x, type, n, data, where)
  OBVIOUS
<1> HIDE DEF x
<1>3. Fills(type, n, data, x.position)
  OBVIOUS
<1> QED
  BY <1>1, <1>2, <1>3, ObjectLays

\* The stream of the crash.
LEMMA ExceptionLays ==
    ASSUME InStream, WriteExceptionStream, SmallFile', ~faulty'
    PROVE  Layout'
<1> DEFINE data == [thread |-> CrashThread, address |-> crash_address,
                    context |-> crashing_thread_context]
           n == SizeOf.exception
<1>1. /\ pc' = "enter_exception" /\ UNCHANGED <<dir, threads>>
      /\ WriteObject(Allocate(w, n), "exception", n, data,
                     "enter_exception")
  BY DEF WriteExceptionStream, WriteObject, GoOn, Leaves, Fail, dumper
<1>2. "address" \in DOMAIN data
  OBVIOUS
<1> HIDE DEF data
<1>3. \A hi : Fills("exception", n, data, hi)
  <2> SUFFICES ASSUME NEW hi, NEW d, Lies(d, w.position, n, Top(dir), hi),
                      d[w.position].data = data
               PROVE  IsWhole(Dirent("exception", n, w.position), threads, d,
                              Top(dir), hi)
    BY DEF Fills
  <2> DEFINE entry == Dirent("exception", n, w.position)
  <2>1. /\ entry.type = "exception" /\ entry.size = n
        /\ entry.rva = w.position
    BY DEF Dirent
  <2> HIDE DEF entry
  <2>2. IsWhole(entry, threads, d, Top(dir), hi)
    BY <1>2, <2>1 DEF IsWhole
  <2> QED
    BY <2>2 DEF entry
<1>4. n \in Nat
  BY SizesAre
<1> HIDE DEF n
<1>5. Small(w')
  BY DEF SmallFile, Small
<1>6. Ready
  BY <1>1, <1>3, <1>4, <1>5, AllocatedLays
<1>7. pc' \in Entering
  BY <1>1 DEF Entering
<1> QED
  BY <1>1, <1>6, <1>7, EnteringNext

\* The stream of the system, whose string is written before it.
LEMMA SystemInfoLays ==
    ASSUME InStream, Layout, WriteSystemInfoStream, SmallFile', ~faulty'
    PROVE  Layout'
<1> DEFINE n == SizeOf.system
           data == [platform |-> "android"]
           a == Allocate(w, n)
           x == WriteString(a, NameLength, [name |-> "uname"])
<1>1. /\ pc = "system" /\ pc' = "enter_system" /\ UNCHANGED <<dir, threads>>
      /\ WriteObject(x, "system", n, data, "enter_system")
  BY DEF WriteSystemInfoStream, WriteObject, GoOn, Leaves, Fail, dumper
<1>2. n \in Nat /\ NameLength \in Nat
  BY SizesAre, LimitAssumption
<1>3. a = Allocate(w, n) /\ x = WriteString(a, NameLength, [name |-> "uname"])
  OBVIOUS
<1>4. \A hi : Fills("system", n, data, hi)
  <2> SUFFICES ASSUME NEW hi, NEW d, Lies(d, w.position, n, Top(dir), hi),
                      d[w.position].data = data
               PROVE  IsWhole(Dirent("system", n, w.position), threads, d,
                              Top(dir), hi)
    BY DEF Fills
  <2> DEFINE entry == Dirent("system", n, w.position)
  <2>1. /\ entry.type = "system" /\ entry.size = n
        /\ entry.rva = w.position
    BY DEF Dirent
  <2> HIDE DEF entry
  <2>2. IsWhole(entry, threads, d, Top(dir), hi)
    BY <2>1 DEF IsWhole
  <2> QED
    BY <2>2 DEF entry
<1> HIDE DEF n, data, a, x
<1>5. /\ IsKept(w) /\ Top(dir) \in Nat /\ Low \in Nat /\ Top(dir) <= Low
      /\ Low = w.position /\ w.position \in Nat /\ dir \in Nat
  BY <1>1 DEF InStream, Low
<1>6. /\ Kept(w, a, Top(dir), Low, Nowhere) /\ w.position + n <= a.position
      /\ a.disk = w.disk /\ a.room = w.room /\ a.offset = w.offset /\ IsKept(a)
  <2>1. Kept(w, a, Top(dir), Low, Nowhere) /\ w.position + n <= a.position
    BY <1>2, <1>3, <1>5, AllocateStays
  <2>2. a.disk = w.disk /\ a.room = w.room /\ a.offset = w.offset /\ IsKept(a)
    <3>1. a = Allocate(w, n)
      BY <1>3
    <3> QED
      BY <1>2, <1>5, <3>1, AllocateKept, Zenon
  <2> QED
    BY <2>1, <2>2
<1>7. IsKept(x) /\ a.size <= x.size /\ x.size \in Nat
  BY <1>2, <1>3, <1>6, StringLarger
<1>8. Small(w') /\ w'.size = x.size
  <2>1. w'.size = x.size
    BY <1>1, <1>2, <1>7, ObjectSize
  <2> QED
    BY <2>1 DEF SmallFile, Small
<1>9. Small(a)
  <2>1. a.size \in Nat
    BY <1>6 DEF IsKept, IsWriter
  <2> QED
    BY <1>7, <1>8, <2>1, FileWriterAssumption DEF Small, kInvalidMDRVA
<1>10. a.position \in Nat /\ Low <= a.position
  BY <1>5, <1>6 DEF Kept, IsKept, IsWriter
<1>11. Kept(a, x, Top(dir), Low, Nowhere)
  <2>1. CASE CanAllocate(a, StringLen(NameLength))
    BY <1>2, <1>3, <1>5, <1>6, <1>9, <1>10, <2>1, StringStays
  <2>2. CASE ~CanAllocate(a, StringLen(NameLength))
    <3>1. x = Copy(a, kInvalidMDRVA, SizeOf.string, Zeros)
      BY <1>3, <2>2 DEF WriteString, FlushInvalid
    <3>2. kInvalidMDRVA \in Nat /\ SizeOf.string \in Nat
      BY SizesRight, FileWriterAssumption DEF kInvalidMDRVA
    <3>3. CASE a.room > 0
      <4>1. Place(a, kInvalidMDRVA) = Slot(dir, 4)
        BY <1>1, <1>6, <3>3 DEF Place, Layout
      <4>2. Slot(dir, 4) = dir + 48 /\ Top(dir) = dir + 156
            /\ SizeOf.string = 4
        BY <1>5, SizesAre DEF Slot, Top, SizeOf
      <4>3. Zeros \in Blank
        BY DEF Blank
      <4>4. Harmless(Place(a, kInvalidMDRVA), SizeOf.string, Zeros, Top(dir),
                     Low, Nowhere)
        BY <1>5, <4>1, <4>2, <4>3 DEF Harmless
      <4> QED
        BY <1>5, <1>6, <3>1, <3>2, <4>4, CopyStays
    <3>4. CASE ~(a.room > 0)
      BY <1>6, <3>1, <3>2, <3>4, FullStays
    <3> QED
      BY <3>3, <3>4
  <2> QED
    BY <2>1, <2>2
<1>12. Kept(w, x, Top(dir), Low, Nowhere)
  BY <1>5, <1>6, <1>11, KeptFurther
<1>13. w.position + n <= x.position
  <2>1. a.position <= x.position /\ x.position \in Nat
    BY <1>11 DEF Kept, IsKept, IsWriter
  <2> QED
    BY <1>2, <1>5, <1>6, <1>10, <2>1
<1>14. Fills("system", n, data, x.position)
  BY <1>4
<1>15. Ready
  BY <1>1, <1>2, <1>8, <1>12, <1>13, <1>14, ObjectLays
<1>16. pc' \in Entering
  BY <1>1 DEF Entering
<1> QED
  BY <1>1, <1>15, <1>16, EnteringNext

\* A stream that the theorem does not look into.
LEMMA OtherFills ==
    ASSUME NEW type, type \notin {"threads", "exception", "system"},
           NEW n, NEW data, NEW hi
    PROVE  Fills(type, n, data, hi)
<1>1. Dirent(type, n, w.position).type = type
  BY DEF Dirent
<1> QED
  BY <1>1 DEF Fills, IsWhole

\* A file that is copied whole.
LEMMA FileLays ==
    ASSUME InStream, next \in Nat \ {0}, WriteFile, SmallFile', ~faulty'
    PROVE  Layout'
<1> DEFINE f == ProcFiles[next]
           data == [file |-> f.name]
<1>1. /\ pc = "file" /\ pc' = "enter_file" /\ next <= Len(ProcFiles)
      /\ UNCHANGED <<dir, threads>>
      /\ \/ WriteObject(Allocate(w, f.size), f.name, f.size, data,
                        "enter_file")
         \/ w' = w /\ dirent' = Unused
  BY DEF WriteFile, WriteObject, GoOn, Leaves, Nullify, dumper
<1>2. /\ next \in DOMAIN ProcFiles /\ Len(ProcFiles) \in Nat
  BY <1>1, MemoryAssumption
<1>3. f.size \in Nat /\ f.name \notin UniqueStreams
  BY <1>2, MemoryAssumption, DirectoryAssumption
<1>5. f.name \notin {"threads", "exception", "system"}
  BY <1>3 DEF UniqueStreams
<1> HIDE DEF f, data
<1>6. \A hi : Fills(f.name, f.size, data, hi)
  BY <1>5, OtherFills
<1>7. Small(w')
  BY DEF SmallFile, Small
<1>8. Ready
  <2>1. CASE WriteObject(Allocate(w, f.size), f.name, f.size, data,
                         "enter_file")
    BY <1>3, <1>6, <1>7, <2>1, AllocatedLays
  <2>2. CASE w' = w /\ dirent' = Unused
    BY <2>2, UnusedLays
  <2> QED
    BY <1>1, <2>1, <2>2
<1>9. pc' \in Entering
  BY <1>1 DEF Entering
<1> QED
  BY <1>1, <1>8, <1>9, EnteringNext

\* The libraries of the linker are counted, and their list allocated.
LEMMA CountLays ==
    ASSUME InStream, TypeInv, CountDSOs, SmallFile', ~faulty'
    PROVE  Layout'
<1> DEFINE n == Cardinality(loaded) * SizeOf.linkmap
<1>1. /\ pc = "file" /\ UNCHANGED <<dir, threads>>
      /\ \/ w' = w /\ dirent' = Unused /\ pc' = "enter_dso"
         \/ /\ w' = Allocate(w, n) /\ pc' = "dso"
            /\ list' = IF dso_count' > 0 THEN w.position ELSE kInvalidMDRVA
  BY DEF CountDSOs, GoOn, Nullify, dumper
<1>2. n \in Nat
  <2>1. Cardinality(loaded) \in Nat
    BY LoadedFinite
  <2> QED
    BY <2>1, SizesRight
<1> HIDE DEF n
<1>3. CASE w' = w /\ dirent' = Unused /\ pc' = "enter_dso"
  <2>1. Ready
    BY <1>3, UnusedLays
  <2>2. pc' \in Entering
    BY <1>3 DEF Entering
  <2> QED
    BY <1>1, <2>1, <2>2, EnteringNext
<1>4. CASE /\ w' = Allocate(w, n) /\ pc' = "dso"
           /\ list' = IF dso_count' > 0 THEN w.position ELSE kInvalidMDRVA
  <2>1. Kept(w, w', Top(dir), Low, Nowhere)
    BY <1>2, <1>4, AllocateStays DEF InStream
  <2>2. Laid(w', Low')
    BY <2>1, PlainLaid
  <2>3. Low = w.position /\ Low' \in {w.position, w'.position}
    BY <1>1, <1>4 DEF Low
  <2>4. w.position \in Nat /\ w'.position \in Nat /\ w.position <= w'.position
    BY <2>1 DEF InStream, Kept, IsKept, IsWriter
  <2>5. Low <= Low' /\ Low' \in Nat /\ Low' <= w'.position
    BY <2>3, <2>4
  <2>6. pc' \notin NotOpen \cup {"header"} \cup Entering
    BY <1>4 DEF NotOpen, Enumerating, Entering
  <2> QED
    BY <1>1, <1>4, <2>2, <2>5, <2>6, LayoutNext
<1> QED
  BY <1>1, <1>3, <1>4

\* A library of the linker: its name, its entry in the list.
LEMMA DSOLays ==
    ASSUME InStream, next \in Nat \ {0}, WriteDSO, ~faulty'
    PROVE  Layout'
<1> DEFINE named == WriteString(w, NameLength, [name |-> "dso"])
           at == list + (next - 1) * SizeOf.linkmap
           data == [name |-> w.position]
<1>1. /\ pc = "dso" /\ dso_count > 0 /\ pc' = "dso"
      /\ w' = Copy(named, at, SizeOf.linkmap, data)
      /\ WriteStringOK(w, NameLength)
      /\ UNCHANGED <<dir, threads, list, dso_count>>
  BY DEF WriteDSO, MoreDSOs, GoOn, Nullify, CopyIndex, dumper, stream
<1>2. Low = list /\ Low' = list
  BY <1>1 DEF Low
<1>3. /\ IsKept(w) /\ Small(w) /\ Top(dir) \in Nat /\ list \in Nat
      /\ Top(dir) <= list /\ list <= w.position /\ w.position \in Nat
      /\ NameLength \in Nat
  BY <1>2, LimitAssumption DEF InStream
<1>4. at \in Nat /\ list <= at /\ SizeOf.linkmap \in Nat
  BY <1>3 DEF SizeOf
<1>5. named = WriteString(w, NameLength, [name |-> "dso"])
      /\ CanAllocate(w, StringLen(NameLength))
  BY <1>1 DEF WriteStringOK
<1> HIDE DEF named, at, data
<1>6. /\ Kept(w, named, Top(dir), list, Nowhere)
      /\ named.room > 0 => named.offset = w.position + SizeOf.string
  BY <1>1, <1>3, <1>5, StringStays
<1>7. /\ IsKept(named)
      /\ named.room > 0 => list <= named.offset
  BY <1>3, <1>6, SizesRight DEF Kept
<1>8. Kept(named, w', Top(dir), list, Nowhere)
  BY <1>1, <1>3, <1>4, <1>7, AboveStays
<1>9. Kept(w, w', Top(dir), Low, Nowhere)
  BY <1>2, <1>3, <1>6, <1>8, KeptFurther
<1> QED
  BY <1>1, <1>2, <1>9, LoopNext

\* The stream of the linker.
LEMMA DebugLays ==
    ASSUME InStream, WriteDSODebugStream, SmallFile', ~faulty'
    PROVE  Layout'
<1> DEFINE n == 2 * SizeOf.debug
           data == [map |-> list, count |-> dso_count]
<1>1. /\ pc' = "enter_dso" /\ UNCHANGED <<dir, threads>>
      /\ WriteObject(Allocate(w, n), "dso", n, data, "enter_dso")
  BY DEF WriteDSODebugStream, WriteObject, GoOn, Leaves, Nullify, dumper
<1>2. n \in Nat
  BY SizesRight
<1> HIDE DEF n, data
<1>3. \A hi : Fills("dso", n, data, hi)
  BY OtherFills
<1>4. Small(w')
  BY DEF SmallFile, Small
<1>5. Ready
  BY <1>1, <1>2, <1>3, <1>4, AllocatedLays
<1>6. pc' \in Entering
  BY <1>1 DEF Entering
<1> QED
  BY <1>1, <1>5, <1>6, EnteringNext

\* The entry of a finished stream is copied into the directory.
LEMMA EnterLays ==
    ASSUME InStream, ListInv, Layout, next \in Nat \ {0}, EnterStream
    PROVE  Layout'
<1>1. PICK i : /\ w' = Entered(w, i, dirent) /\ UNCHANGED <<dir, threads>>
               /\ pc \in Entering /\ i \in 0..(kNumWriters - 1)
               /\ \/ pc' \in {"module_list", "app", "exception", "file",
                             "resume"}
                  \/ i = 3 /\ pc' = "system"
  <2> DEFINE From(from, i, where) ==
        /\ w' = Entered(w, i, dirent) /\ UNCHANGED <<dir, threads>>
        /\ pc \in Entering /\ pc' = where
  <2>1. ASSUME NEW from \in Entering, NEW i, NEW where, Enter(from, i, where)
        PROVE  From(from, i, where)
    BY <2>1 DEF Enter, GoOn, dumper, stream
  <2>2. \/ Enter("enter_threads", 0, "module_list")
        \/ Enter("enter_modules", 1, "app")
        \/ Enter("enter_memory", 2, "exception")
        \/ Enter("enter_exception", 3, "system")
        \/ Enter("enter_system", 4, "file")
        \/ Enter("enter_file", next + 3, "file")
        \/ Enter("enter_dso", kNumWriters - 1, "resume")
    BY DEF EnterStream
  <2>3. /\ "enter_threads" \in Entering /\ "enter_modules" \in Entering
        /\ "enter_memory" \in Entering /\ "enter_exception" \in Entering
        /\ "enter_system" \in Entering /\ "enter_file" \in Entering
        /\ "enter_dso" \in Entering
    BY DEF Entering
  <2>4. \/ From("enter_threads", 0, "module_list")
        \/ From("enter_modules", 1, "app")
        \/ From("enter_memory", 2, "exception")
        \/ From("enter_exception", 3, "system")
        \/ From("enter_system", 4, "file")
        \/ From("enter_file", next + 3, "file") /\ pc = "enter_file"
        \/ From("enter_dso", kNumWriters - 1, "resume")
    <3>1. Enter("enter_file", next + 3, "file") => pc = "enter_file"
      BY DEF Enter
    <3> HIDE DEF From
    <3> QED
      BY <2>1, <2>2, <2>3, <3>1
  <2>5. pc = "enter_file" => next + 3 \in 0..(kNumWriters - 1)
    <3> SUFFICES ASSUME pc = "enter_file"
                 PROVE  next + 3 \in 0..(kNumWriters - 1)
      OBVIOUS
    <3>1. LoopLength = Len(ProcFiles)
      BY DEF LoopLength
    <3>2. next <= Len(ProcFiles) + 1
      BY <3>1 DEF ListInv
    <3>3. Len(ProcFiles) \in Nat /\ 5 + Len(ProcFiles) < 13
      BY DirectoryAssumption, MemoryAssumption DEF kNumWriters
    <3> QED
      BY <3>2, <3>3 DEF kNumWriters
  <2>6. {0, 1, 2, 3, 4, kNumWriters - 1} \subseteq 0..(kNumWriters - 1)
    BY DEF kNumWriters
  <2> QED
    BY <2>4, <2>5, <2>6
<1>2. w.room > 0 => IsWhole(dirent, threads, w.disk, Top(dir), w.position)
  BY <1>1 DEF Layout
<1>3. Kept(w, w, Top(dir), Low, Nowhere)
  BY StaysKept DEF InStream
<1>4. Small(w) /\ w.position \in Nat /\ Top(dir) <= w.position
  BY DEF InStream
<1>5. /\ Laid(w', w.position) /\ w'.position = w.position
      /\ w'.room > 0 => w'.offset = Slot(dir, i + 1)
  BY <1>1, <1>2, <1>3, <1>4, EntryLaid
<1>6. Laid(w', w'.position) /\ w.position <= w'.position
      /\ w'.position \in Nat
  BY <1>4, <1>5
<1>7. CASE pc' \in {"module_list", "app", "exception", "file", "resume"}
  BY <1>1, <1>6, <1>7, PlainNext
<1>8. CASE i = 3 /\ pc' = "system"
  <2>1. Low' = w'.position
    BY <1>8 DEF Low
  <2>2. /\ Laid(w', Low') /\ Low <= Low' /\ Low' \in Nat
        /\ Low' <= w'.position
    <3>1. Low <= w.position /\ w.position \in Nat /\ Low \in Nat
      BY DEF InStream
    <3> QED
      BY <1>6, <2>1, <3>1
  <2>3. (w.room > 0 => w.offset = Slot(dir, 4))'
    BY <1>1, <1>5, <1>8
  <2>4. pc' \notin NotOpen \cup {"header"} \cup Entering
    BY <1>8 DEF NotOpen, Enumerating, Entering
  <2> QED
    BY <1>1, <1>8, <2>2, <2>3, <2>4, LayoutNext
<1> QED
  BY <1>1, <1>7, <1>8

\* The header, and the space for the directory.
LEMMA HeaderLays ==
    ASSUME IsWriter(w), Layout, WriteHeader, SmallFile', ~faulty'
    PROVE  Layout'
<1> DEFINE n == SizeOf.header
           dirBytes == kNumWriters * SizeOf.dirent
           a == Allocate(w, n)
           b == Allocate(a, dirBytes)
           header == [count |-> kNumWriters, dir |-> a.position]
<1>1. /\ pc = "header" /\ pc' = "thread_list" /\ dir' = a.position
      /\ w' = Copy(b, w.position, n, header) /\ UNCHANGED threads
  BY DEF WriteHeader, GoOn, Fail, dumper
<1>2. /\ n = 32 /\ dirBytes = 156
  BY SizesAre
<1>3. /\ IsKept(w) /\ DOMAIN w.disk = {} /\ w.position = 0
  BY <1>1 DEF Layout, IsKept
<1>4. a = Allocate(w, n) /\ b = Allocate(a, dirBytes)
  OBVIOUS
<1>10. header = [count |-> kNumWriters, dir |-> dir']
  BY <1>1
<1> HIDE DEF n, dirBytes, a, b, header
<1>5. /\ IsKept(a) /\ 0 + n <= a.position /\ a.disk = w.disk
  BY <1>2, <1>3, <1>4, AllocateKept
<1>6. /\ IsKept(b) /\ a.position + dirBytes <= b.position /\ b.disk = a.disk
  BY <1>2, <1>4, <1>5, AllocateKept
<1>7. /\ IsKept(w') /\ w'.position = b.position /\ w'.size = b.size
      /\ \/ w'.disk = b.disk
         \/ w'.disk = Written(b.disk, Place(b, 0), n, header)
  <2>1. 0 \in Nat /\ n \in Nat /\ w' = Copy(b, 0, n, header)
    BY <1>1, <1>2, <1>3
  <2>2. /\ IsKept(w') /\ w'.position = b.position /\ w'.size = b.size
        /\ \/ w'.disk = b.disk
           \/ LET at == IF 0 = kInvalidMDRVA THEN b.offset ELSE 0
              IN  w'.disk = Written(b.disk, at, n, header)
    BY <1>6, <2>1, CopyKept
  <2> QED
    BY <2>2 DEF Place
<1>8. /\ a.position \in Nat /\ b.position \in Nat /\ b.size \in Nat
      /\ b.position <= b.size /\ Small(b)
  BY <1>5, <1>6, <1>7 DEF IsKept, IsWriter, SmallFile, Small
<1>9. Place(b, 0) = 0
  BY <1>8, InvalidRight
<1>11. /\ 32 <= dir' /\ dir' \in Nat /\ Top(dir') = dir' + 156
       /\ Top(dir') <= w'.position /\ w'.position \in Nat
  BY <1>1, <1>2, <1>5, <1>6, <1>7, <1>8, SizesAre DEF Top
<1>12. /\ DOMAIN w'.disk \subseteq {0}
       /\ 0 \in DOMAIN w'.disk => w'.disk[0].data = header
  BY <1>3, <1>5, <1>6, <1>7, <1>9 DEF Written
<1>13. Table(dir', threads', w'.disk, w'.position)
  <2>1. HeaderRight(dir', w'.disk)
    BY <1>10, <1>12 DEF HeaderRight
  <2>2. ASSUME NEW i \in 0..(kNumWriters - 1)
        PROVE  Slot(dir', i) \notin DOMAIN w'.disk
    <3>1. Slot(dir', i) = dir' + i * 12
      BY SizesAre DEF Slot
    <3>2. Slot(dir', i) # 0
      <4>1. ASSUME NEW d \in Nat, 32 <= d, NEW k \in Nat PROVE d + k * 12 # 0
        BY <4>1
      <4>2. i \in Nat
        BY DEF kNumWriters
      <4> QED
        BY <1>11, <3>1, <4>1, <4>2
    <3> QED
      BY <1>12, <3>2
  <2> QED
    BY <2>1, <2>2 DEF Table, WholeAt
<1>14. Low' = w'.position
  BY <1>1 DEF Low
<1>15. pc' \notin NotOpen \cup {"header"} \cup Entering
  BY <1>1 DEF NotOpen, Enumerating, Entering
<1>16. Tidy(w'.disk) /\ Long(w') /\ w'.length \in Nat
  BY <1>7 DEF IsKept, IsWriter
<1> QED
  BY <1>1, <1>11, <1>13, <1>14, <1>15, <1>16 DEF Layout

\* A step of Dump.
LEMMA DumpLays ==
    ASSUME WriterInv, ContentInv, Layout, SmallFile, SmallFile', ~faulty',
           DumpStep
    PROVE  Layout'
<1>1. /\ TypeInv /\ ListInv /\ FileInv /\ next \in Nat \ {0}
  BY DEF WriterInv, ContentInv, TypeInv
<1>2. CASE WriteHeader
  <2>1. IsWriter(w)
    BY <1>1, <1>2 DEF WriteHeader, FileInv
  <2> QED
    BY <1>2, <2>1, HeaderLays
<1>3. CASE ~WriteHeader
  <2>1. pc \notin Outside
    BY <1>3 DEF DumpStep, StartThreadList, WriteThread, EndThreadList,
       StartModuleList, WriteModule, EndModuleList, WriteAppMemory,
       StartMemoryList, WriteMemory, EndMemoryList, WriteExceptionStream,
       WriteSystemInfoStream, WriteFile, CountDSOs, WriteDSO,
       WriteDSODebugStream, EnterStream, Enter, Outside, NotOpen, Enumerating
  <2>2. InStream
    BY <2>1, StreamRight
  <2>3. CASE EndThreadList
    <3>1. LoopLength = Len(threads)
      BY <2>3 DEF EndThreadList, LoopLength
    <3>2. next <= Len(threads) + 1
      BY <1>1, <3>1 DEF ListInv
    <3> QED
      BY <1>1, <2>2, <2>3, <3>2, ThreadListEnds
  <2>4. CASE StartThreadList \/ StartModuleList \/ StartMemoryList
    BY <1>1, <2>2, <2>4, ThreadListStarts, ModuleListStarts, MemoryListStarts
  <2>5. CASE EndModuleList \/ EndMemoryList
    BY <2>2, <2>5, OtherListEnds
  <2>6. CASE WriteThread \/ WriteModule
    BY <1>1, <2>2, <2>6, ThreadLays, ModuleLays
  <2>7. CASE WriteAppMemory \/ WriteMemory
    BY <1>1, <2>2, <2>7, AppMemoryLays, MemoryLays
  <2>8. CASE WriteExceptionStream \/ WriteSystemInfoStream
    BY <2>2, <2>8, ExceptionLays, SystemInfoLays
  <2>9. CASE WriteFile
    BY <1>1, <2>2, <2>9, FileLays
  <2>10. CASE CountDSOs \/ WriteDSO \/ WriteDSODebugStream
    BY <1>1, <2>2, <2>10, CountLays, DSOLays, DebugLays
  <2>11. CASE EnterStream
    BY <1>1, <2>2, <2>11, EnterLays
  <2> QED
    BY <1>3, <2>3, <2>4, <2>5, <2>6, <2>7, <2>8, <2>9, <2>10, <2>11
       DEF DumpStep
<1> QED
  BY <1>2, <1>3

\* A failed allocation is not forgotten.
LEMMA FaultyStays ==
    ASSUME [Next]_vars, ~faulty'
    PROVE  ~faulty
<1>1. CASE DumpStep
  <2>1. CASE WriteHeader \/ StartThreadList \/ WriteThread \/ EndThreadList
    BY <2>1 DEF WriteHeader, StartThreadList, AllocateList, WriteThread,
       EndThreadList, EndStream, GoOn, Fail
  <2>2. CASE StartModuleList \/ WriteModule \/ EndModuleList
             \/ WriteAppMemory \/ StartMemoryList \/ WriteMemory
             \/ EndMemoryList
    BY <2>2 DEF StartModuleList, WriteModule, EndModuleList, WriteAppMemory,
       StartMemoryList, WriteMemory, EndMemoryList, EndStream, AllocateList,
       GoOn, Fail
  <2>3. CASE WriteExceptionStream \/ WriteSystemInfoStream
    BY <2>3 DEF WriteExceptionStream, WriteSystemInfoStream, WriteObject,
       GoOn, Fail
  <2>4. CASE WriteFile
    BY <2>4, Zenon DEF WriteFile, WriteObject, GoOn, Nullify
  <2>5. CASE CountDSOs
    BY <2>5, Zenon DEF CountDSOs, GoOn, Nullify
  <2>6. CASE WriteDSO
    BY <2>6, Zenon DEF WriteDSO, GoOn, Nullify
  <2>7. CASE WriteDSODebugStream
    BY <2>7, Zenon DEF WriteDSODebugStream, WriteObject, GoOn, Nullify
  <2>8. CASE EnterStream
    BY <2>8 DEF EnterStream, Enter, GoOn
  <2> QED
    BY <1>1, <2>1, <2>2, <2>3, <2>4, <2>5, <2>6, <2>7, <2>8 DEF DumpStep
<1>2. CASE InitStep \/ ThreadsResume \/ Destroy \/ WriterKilled
  BY <1>2 DEF InitStep, EnumerateThreads, EnumerateMappings, SuspendThread,
     ThreadsSuspended, LateInit, ThreadsResume, Destroy, WriterKilled
<1>3. CASE ProcessStep
  BY <1>3 DEF ProcessStep, ThreadStarts, ThreadExits, LoadLibrary, ProcessDies
<1>4. CASE UNCHANGED vars
  BY <1>4 DEF vars
<1> QED
  BY <1>1, <1>2, <1>3, <1>4 DEF Next, WriterStep, Rest

\* Before there is a file.
LEMMA InitLays ==
    ASSUME WriterInv, ContentInv, Layout, InitStep
    PROVE  Layout'
<1>1. pc \in NotOpen /\ pc' \in NotOpen \cup {"header", "exit"}
  BY DEF InitStep, EnumerateThreads, EnumerateMappings, SuspendThread,
     ThreadsSuspended, LateInit, NotOpen, Enumerating, Exit
<1>2. w' \in {w, SetFile(w), Open(w)}
  BY DEF InitStep, EnumerateThreads, EnumerateMappings, SuspendThread,
     ThreadsSuspended, LateInit
<1>3. /\ DOMAIN w.disk = {} /\ w.position = 0 /\ IsWriter(w)
  <2>1. pc # "done"
    BY <1>1 DEF NotOpen, Enumerating
  <2> QED
    BY <1>1, <2>1 DEF Layout, ContentInv, FileInv
<1>4. /\ w'.position = w.position /\ w'.length = w.length /\ w'.disk = w.disk
  BY <1>2, <1>3 DEF IsWriter, SetFile, Open
<1>5. Tidy(w'.disk) /\ Long(w') /\ w'.length \in Nat
  BY <1>3, <1>4 DEF Tidy, Long, IsWriter
<1>6. /\ pc' \notin {"memory", "thread", "system", "dso", "module"}
      /\ pc' \notin Entering /\ pc' \in Outside
  BY <1>1 DEF NotOpen, Enumerating, Outside, Entering
<1>7. Table(dir', threads', w'.disk, Low')
  BY <1>3, <1>4 DEF Table, HeaderRight, WholeAt
<1> QED
  BY <1>3, <1>4, <1>5, <1>6, <1>7 DEF Layout

\* The end of the dump, of the writer or of its process.
LEMMA EndsLay ==
    ASSUME WriterInv, ContentInv, Layout, SmallFile,
           ThreadsResume \/ Destroy \/ WriterKilled
    PROVE  Layout'
<1>1. /\ UNCHANGED <<dir, threads>> /\ pc # "done"
      /\ pc' \in {"exit", "killed", "done"}
  BY DEF ThreadsResume, Destroy, WriterKilled, stream, dumper
<1>2. IsWriter(w) /\ w.position \in Nat
  BY <1>1 DEF ContentInv, FileInv, IsWriter
<1>3. CASE pc \notin Outside
  <2>1. InStream
    BY <1>3, StreamRight
  <2>2. w' = w /\ pc' \in {"exit", "killed"}
    BY <1>3 DEF ThreadsResume, Destroy, WriterKilled, Outside
  <2>3. Kept(w, w, Top(dir), Low, Nowhere)
    BY <2>1, StaysKept DEF InStream
  <2>4. Laid(w', w'.position) /\ w.position <= w'.position
        /\ w'.position \in Nat
    BY <1>2, <2>2, <2>3, PlainLaid
  <2> QED
    BY <1>1, <2>1, <2>2, <2>4, PlainNext
<1>4. CASE pc \in Outside
  <2>1. /\ w'.disk = w.disk /\ w'.position = w.position /\ Long(w')
        /\ w'.length \in Nat
    <3>1. CASE w' = w
      BY <3>1 DEF Layout
    <3>2. CASE w' # w
      <4>1. w' = Close(Close(w))
        BY <3>2 DEF ThreadsResume, Destroy, WriterKilled, Destroyed
      <4>2. ASSUME NEW x, {"open", "length"} \subseteq DOMAIN x, Long(x),
                   x.position \in Nat, x.length \in Nat
            PROVE  LET c == Close(x)
                   IN  /\ Long(c) /\ c.disk = x.disk /\ DOMAIN c = DOMAIN x
                       /\ c.position = x.position /\ c.length \in Nat
        <5> DEFINE c == Close(x)
                   length == IF x.workaround THEN x.length ELSE x.position
        <5>1. c = x \/ c = [x EXCEPT !.open = FALSE, !.length = length]
          BY DEF Close
        <5>2. CASE c = x
          BY <4>2, <5>2
        <5>3. CASE c = [x EXCEPT !.open = FALSE, !.length = length]
          <6> HIDE DEF c
          <6>1. /\ c.length = length /\ c.position = x.position
                /\ c.workaround = x.workaround /\ c.disk = x.disk
                /\ DOMAIN c = DOMAIN x
            BY <4>2, <5>3
          <6>2. Long(c) /\ c.length \in Nat
            BY <4>2, <6>1 DEF Long
          <6> QED
            BY <6>1, <6>2 DEF c
        <5> QED
          BY <5>1, <5>2, <5>3
      <4>3. /\ {"open", "length"} \subseteq DOMAIN w /\ Long(w)
            /\ w.length \in Nat
        BY DEF ContentInv, FileInv, IsClosed, Layout
      <4>4. PICK c : /\ c = Close(w) /\ Long(c) /\ c.disk = w.disk
                     /\ DOMAIN c = DOMAIN w /\ c.position = w.position
                     /\ c.length \in Nat
        BY <1>2, <4>2, <4>3
      <4> QED
        BY <1>2, <4>1, <4>2, <4>3, <4>4
    <3> QED
      BY <3>1, <3>2
  <2>2. Low' = w.position /\ Low = w.position
    BY <1>1, <1>4, <2>1 DEF Low, Outside, NotOpen, Enumerating
  <2>3. pc' \in Outside /\ pc' \notin NotOpen \cup {"header"}
        /\ pc' \notin {"memory", "thread", "system"} \cup Entering
    BY <1>1 DEF Outside, NotOpen, Enumerating, Entering
  <2>4. Tidy(w'.disk) /\ Table(dir', threads', w'.disk, Low')
    BY <1>1, <2>1, <2>2 DEF Layout
  <2> QED
    BY <2>1, <2>3, <2>4 DEF Layout
<1> QED
  BY <1>3, <1>4

\* A step of the process changes nothing of the file.
LEMMA LayoutSame ==
    ASSUME Layout, UNCHANGED <<pc, next, threads, w, stream>>
    PROVE  Layout'
<1>1. UNCHANGED <<pc, next, threads, w, dir, list, dirent, memory_blocks,
                  dso_count>>
  BY DEF stream
<1>2. UNCHANGED <<Low, MemoryListEnd>>
  BY <1>1 DEF Low, MemoryListEnd
<1> QED
  BY <1>1, <1>2 DEF Layout

\* Every step leaves the streams of the directory whole.
LEMMA LayoutStep ==
    ASSUME WriterInv, ContentInv, LayoutInv, SmallFile, SmallFile', [Next]_vars
    PROVE  LayoutInv'
<1> SUFFICES ASSUME ~faulty' PROVE Layout'
  BY DEF LayoutInv
<1>1. Layout
  BY FaultyStays DEF LayoutInv
<1>2. CASE DumpStep
  BY <1>1, <1>2, DumpLays
<1>3. CASE InitStep
  BY <1>1, <1>3, InitLays
<1>4. CASE ThreadsResume \/ Destroy \/ WriterKilled
  BY <1>1, <1>4, EndsLay
<1>5. CASE ProcessStep
  <2>1. UNCHANGED <<pc, next, threads, w, stream>>
    BY <1>5 DEF ProcessStep, ThreadStarts, ThreadExits, LoadLibrary,
       ProcessDies, dumper
  <2> QED
    BY <1>1, <2>1, LayoutSame
<1>6. CASE UNCHANGED vars
  <2>1. UNCHANGED <<pc, next, threads, w, stream>>
    BY <1>6 DEF vars, stream
  <2> QED
    BY <1>1, <2>1, LayoutSame
<1> QED
  BY <1>2, <1>3, <1>4, <1>5, <1>6 DEF Next, WriterStep, Rest

\* An empty file is laid out.
LEMMA InitLayout == Init => LayoutInv
<1> SUFFICES ASSUME Init PROVE Layout
  BY DEF LayoutInv
<1>1. PICK s \in Scenarios : /\ w = NewWriter(s.bug, s.maxLength, s.room)
                             /\ pc = "threads"
  BY DEF Init
<1>2. DOMAIN w.disk = {} /\ w.position = 0 /\ w.length = 0
  BY <1>1 DEF NewWriter
<1>3. Tidy(w.disk) /\ Long(w) /\ Table(dir, threads, w.disk, Low)
      /\ w.length \in Nat
  BY <1>2 DEF Tidy, Long, Table, HeaderRight, WholeAt
<1>4. pc \in Outside /\ pc \notin Entering
  BY <1>1 DEF Outside, NotOpen, Enumerating, Entering
<1> QED
  BY <1>1, <1>2, <1>3, <1>4 DEF Layout

-----------------------------------------------------------------------------
\* What lies in the file is read as it was written.
LEMMA ReadWhole ==
    ASSUME Layout, IsClosed(w), NEW p, NEW n, NEW lo, NEW hi \in Nat,
           Lies(w.disk, p, n, lo, hi), hi <= w.position
    PROVE  ReadBytes(File, p, n) = {w.disk[p].data}
<1>1. /\ p \in DOMAIN w.disk /\ w.disk[p].len = n /\ p + n <= hi
      /\ p \in Nat /\ n \in Nat
  BY DEF Lies, Layout, Tidy
<1>2. p + n <= w.length
  <2>1. CASE w.workaround
    BY <1>1, <2>1 DEF Layout, Long
  <2>2. CASE ~w.workaround
    <3>1. w.position <= w.length /\ w.position \in Nat
      BY <2>2 DEF Layout, Long, IsClosed
    <3>2. w.length \in Nat
      BY DEF Layout
    <3> QED
      BY <1>1, <3>1, <3>2
  <2> QED
    BY <2>1, <2>2
<1>3. /\ ~(p + n > File.length) /\ p \in DOMAIN File.disk
      /\ File.disk[p].len >= n /\ File.disk = w.disk
  BY <1>1, <1>2 DEF File, Layout
<1> QED
  BY <1>3 DEF ReadBytes

\* What is finished is in the file.
LEMMA LowRight ==
    ASSUME WriterInv, ContentInv, Layout
    PROVE  /\ Low \in Nat /\ Low <= w.position /\ w.position \in Nat
           /\ IsClosed(w) /\ dir \in Nat /\ list \in Nat
<1>1. /\ w.position \in Nat /\ IsClosed(w) /\ dir \in Nat /\ list \in Nat
  BY DEF ContentInv, FileInv, IsClosed
<1>2. CASE pc \in Outside
  <2>1. Low = w.position
    BY <1>2 DEF Outside, NotOpen, Enumerating, Low
  <2> QED
    BY <1>1, <2>1
<1>3. CASE pc \notin Outside
  BY <1>1, <1>3 DEF Layout, Low
<1> QED
  BY <1>1, <1>2, <1>3

\* What the directory names is whole.
LEMMA StreamWhole ==
    ASSUME WriterInv, ContentInv, Layout, NEW type, type # "unused",
           NEW s \in Streams(File, type)
    PROVE  s.type = type /\ IsWhole(s, threads, w.disk, Top(dir), Low)
<1>1. PICK d \in Directory(File) : \E i \in DOMAIN d : s = d[i]
                                                      /\ d[i].type = type
  BY DEF Streams
<1>2. PICK h \in Typed(ReadBytes(File, 0, SizeOf.header), "dir") :
        d = DirEntries(File, h)
  BY DEF Directory
<1>3. \A data \in {Damaged, Zeros} :
        "dir" \notin DOMAIN data /\ "type" \notin DOMAIN data
  BY DEF Damaged, Zeros
<1>4. ASSUME NEW rva, NEW n, NEW data \in ReadBytes(File, rva, n)
      PROVE  \/ rva \in DOMAIN w.disk /\ data = w.disk[rva].data
             \/ data \in {Damaged, Zeros}
  BY DEF ReadBytes, File
<1>5. h = [count |-> kNumWriters, dir |-> dir]
  <2>1. 0 \in DOMAIN w.disk /\ h = w.disk[0].data /\ "dir" \in DOMAIN h
    BY <1>3, <1>4 DEF Typed
  <2> QED
    BY <2>1 DEF Layout, Table, HeaderRight
<1>6. PICK i \in 1..kNumWriters : s = d[i] /\ d[i].type = type
  BY <1>1, <1>2, <1>5 DEF DirEntries
<1> DEFINE at == Slot(dir, i - 1)
           read == Typed(ReadBytes(File, at, SizeOf.dirent), "type")
<1>7. d[i] = IF read = {} THEN [type |-> "unused", size |-> 0, rva |-> 0]
             ELSE CHOOSE entry \in read : TRUE
  BY <1>2, <1>5 DEF DirEntries, Slot
<1> HIDE DEF at
<1>8. s \in read
  BY <1>6, <1>7
<1>9. at \in DOMAIN w.disk /\ s = w.disk[at].data /\ "type" \in DOMAIN s
  BY <1>3, <1>4, <1>8 DEF Typed
<1>10. WholeAt(at, threads, w.disk, Top(dir), Low)
  <2>1. i - 1 \in 0..(kNumWriters - 1)
    BY DEF kNumWriters
  <2> QED
    BY <2>1 DEF Layout, Table, at
<1> QED
  BY <1>6, <1>9, <1>10 DEF WholeAt

\* The reader finds the crash.
LEMMA ExceptionReads ==
    ASSUME WriterInv, ContentInv, Layout, Shown("exception")
    PROVE  MinidumpException(File) # {}
<1>1. PICK s \in Streams(File, "exception") : TRUE
  BY DEF Shown
<1>2. s.type = "exception" /\ IsWhole(s, threads, w.disk, Top(dir), Low)
  BY StreamWhole
<1>3. /\ s.size = SizeOf.exception
      /\ Lies(w.disk, s.rva, SizeOf.exception, Top(dir), Low)
      /\ "address" \in DOMAIN w.disk[s.rva].data
  BY <1>2 DEF IsWhole
<1>4. ReadBytes(File, s.rva, SizeOf.exception) = {w.disk[s.rva].data}
  BY <1>3, LowRight, ReadWhole
<1>5. w.disk[s.rva].data \in MinidumpException(File)
  BY <1>3, <1>4 DEF MinidumpException, Typed
<1> QED
  BY <1>5

\* The reader finds the system.
LEMMA SystemReads ==
    ASSUME WriterInv, ContentInv, Layout, Shown("system")
    PROVE  IsAndroid(File)
<1>1. PICK s \in Streams(File, "system") : TRUE
  BY DEF Shown
<1>2. s.type = "system" /\ IsWhole(s, threads, w.disk, Top(dir), Low)
  BY StreamWhole
<1>3. /\ s.size = SizeOf.system
      /\ Lies(w.disk, s.rva, SizeOf.system, Top(dir), Low)
      /\ w.disk[s.rva].data = [platform |-> "android"]
  BY <1>2 DEF IsWhole
<1>4. ReadBytes(File, s.rva, SizeOf.system) = {w.disk[s.rva].data}
  BY <1>3, LowRight, ReadWhole
<1>5. w.disk[s.rva].data \in MinidumpSystemInfo(File)
  BY <1>3, <1>4 DEF MinidumpSystemInfo, Typed
<1> QED
  BY <1>3, <1>5 DEF IsAndroid

\* A thread of the list, with its registers and its stack.
LEMMA ThreadReadsWell ==
    ASSUME WriterInv, ContentInv, Layout, NEW raw, NEW t, NEW lo \in Nat,
           0 < lo, IsThreadEntry(w.disk, raw, t, lo, Low),
           NEW read, read = {raw}
    PROVE  ThreadReads(ReadThread(File, read))
<1> DEFINE r == ReadThread(File, read)
<1>1. /\ r.stack = raw.stack /\ r.memory = GetMemory(File, raw.stack)
      /\ r.context = MinidumpContext(File, raw.context)
  <2>1. (CHOOSE x \in read : TRUE) = raw
    OBVIOUS
  <2> QED
    BY <2>1 DEF ReadThread
<1> HIDE DEF r
<1>2. Readable1(r.context)
  <2> DEFINE data == w.disk[raw.context.rva].data
  <2>1. /\ raw.context.size = SizeOf.context
        /\ Lies(w.disk, raw.context.rva, SizeOf.context, lo, Low)
        /\ "crashed" \in DOMAIN data
    BY DEF IsThreadEntry, ContextLies
  <2>2. ReadBytes(File, raw.context.rva, SizeOf.context) = {data}
    BY <2>1, LowRight, ReadWhole
  <2> HIDE DEF data
  <2>3. r.context = {data}
    BY <1>1, <2>1, <2>2 DEF MinidumpContext, Typed
  <2>4. data # Damaged
    BY <2>1 DEF Damaged
  <2> QED
    BY <2>3, <2>4 DEF Readable1
<1>3. ASSUME r.stack.size > 0 PROVE Readable1(r.memory)
  <2> DEFINE p == raw.stack.rva
             n == raw.stack.size
  <2>1. Lies(w.disk, p, n, lo, Low) /\ w.disk[p].data # Damaged
    BY <1>1, <1>3 DEF IsThreadEntry, StackLies
  <2>2. ReadBytes(File, p, n) = {w.disk[p].data}
    BY <2>1, LowRight, ReadWhole
  <2>3. p # 0 /\ n # 0
    <3>1. p \in Nat /\ n \in Nat /\ lo <= p
      BY <2>1 DEF Lies, Layout, Tidy
    <3> QED
      BY <1>1, <1>3, <3>1
  <2>4. r.memory = {w.disk[p].data}
    BY <1>1, <2>2, <2>3 DEF GetMemory
  <2> QED
    BY <2>1, <2>4 DEF Readable1
<1> QED
  BY <1>2, <1>3 DEF ThreadReads, r

\* The reader finds the threads, with their registers and stacks.
LEMMA ThreadListReads ==
    ASSUME WriterInv, ContentInv, Layout, Shown("threads")
    PROVE  \E l \in MinidumpThreadList(File) :
                \A i \in DOMAIN l : ThreadReads(l[i])
<1>1. PICK s \in Streams(File, "threads") : TRUE
  BY DEF Shown
<1>2. s.type = "threads" /\ IsWhole(s, threads, w.disk, Top(dir), Low)
  BY StreamWhole
<1> DEFINE m == Len(threads)
           end == ThreadListEnd(s.rva, threads)
           raw(i) == w.disk[ThreadPlace(s.rva, i)].data
           reads == [i \in 1..m |-> {raw(i)}]
           list0 == [i \in DOMAIN reads |-> ReadThread(File, reads[i])]
<1>3. /\ s.size = ListBytes(m, SizeOf.thread)
      /\ Lies(w.disk, s.rva, SizeOf.count, Top(dir), Low)
      /\ w.disk[s.rva].data = [count |-> m] /\ end <= Low
      /\ \A i \in 1..m : ThreadAt(w.disk, ThreadPlace(s.rva, i), threads[i],
                                  end, Low)
  BY <1>2 DEF IsWhole, ThreadList, ThreadsUpTo
<1>4. m \in Nat /\ threads \in Seq(Tids)
  BY DEF WriterInv, TypeInv
<1>5. s.rva \in Nat
  BY <1>3 DEF Lies, Layout, Tidy
<1>6. /\ end = s.rva + 4 + m * 48 /\ s.size = 4 + m * 48
      /\ end \in Nat /\ 0 < end
  BY <1>3, <1>4, <1>5, SizesAre DEF ThreadListEnd, ListBytes
<1> HIDE DEF end
<1>7. ASSUME NEW i \in 1..m
      PROVE  /\ ReadBytes(File, ThreadPlace(s.rva, i), SizeOf.thread)
                    = {raw(i)}
             /\ IsThreadEntry(w.disk, raw(i), threads[i], end, Low)
  <2> DEFINE p == ThreadPlace(s.rva, i)
  <2>1. /\ p \in DOMAIN w.disk /\ w.disk[p].len = SizeOf.thread
        /\ IsThreadEntry(w.disk, w.disk[p].data, threads[i], end, Low)
    BY <1>3 DEF ThreadAt
  <2>2. p = s.rva + 4 + (i - 1) * 48
    BY SizesAre DEF ThreadPlace
  <2>3. ASSUME NEW a \in Nat, NEW k \in Nat, i <= k
        PROVE  /\ a <= a + 4 + (i - 1) * 48
               /\ a + 4 + (i - 1) * 48 + 48 <= a + 4 + k * 48
    BY <2>3
  <2> HIDE DEF p
  <2>4. p + 48 <= end /\ s.rva <= p
    BY <1>4, <1>5, <1>6, <2>2, <2>3
  <2>5. p \in Nat
    BY <2>1 DEF Layout, Tidy
  <2>6. Lies(w.disk, p, SizeOf.thread, s.rva, Low)
    BY <1>3, <1>6, <2>1, <2>4, <2>5, LowRight, SizesAre DEF Lies
  <2>7. ReadBytes(File, p, SizeOf.thread) = {w.disk[p].data}
    BY <2>6, LowRight, ReadWhole
  <2> QED
    BY <2>1, <2>7 DEF p
<1>8. reads \in ListOf(File, s, SizeOf.thread)
  <2> DEFINE c == [count |-> m]
             place(i) == s.rva + (s.size - c.count * SizeOf.thread)
                         + (i - 1) * SizeOf.thread
             read == [i \in 1..c.count |->
                        ReadBytes(File, place(i), SizeOf.thread)]
  <2>1. c \in Typed(ReadBytes(File, s.rva, SizeOf.count), "count")
    <3>1. ReadBytes(File, s.rva, SizeOf.count) = {c}
      BY <1>3, LowRight, ReadWhole
    <3> QED
      BY <3>1 DEF Typed
  <2>2. s.size - (SizeOf.count + c.count * SizeOf.thread) \in {0, 4}
    <3>1. SizeOf.count + m * SizeOf.thread = s.size /\ s.size \in Nat
      BY <1>4, <1>6, SizesAre
    <3>2. s.size - (SizeOf.count + m * SizeOf.thread) = 0
      BY <3>1
    <3> QED
      BY <3>2
  <2>3. read \in ListOf(File, s, SizeOf.thread)
    BY <2>1, <2>2 DEF ListOf
  <2>4. ASSUME NEW i \in 1..m PROVE place(i) = ThreadPlace(s.rva, i)
    <3>1. s.size - c.count * SizeOf.thread = 4
      BY <1>4, <1>6, SizesAre
    <3> QED
      BY <3>1, SizesAre DEF ThreadPlace
  <2>5. ASSUME NEW i \in 1..m
        PROVE  ReadBytes(File, place(i), SizeOf.thread) = {raw(i)}
    BY <1>7, <2>4
  <2> HIDE DEF place, raw
  <2>6. read = reads
    BY <2>5
  <2> QED
    BY <2>3, <2>6
<1>9. /\ DOMAIN reads = 1..m
      /\ \A i \in 1..m : reads[i] = {raw(i)}
  OBVIOUS
<1>10. \A i \in 1..m :
          /\ {"thread", "context", "stack"} \subseteq DOMAIN raw(i)
          /\ raw(i).thread = threads[i]
  BY <1>7 DEF IsThreadEntry
<1> HIDE DEF reads, raw
<1>11. \A i \in DOMAIN reads : Typed(reads[i], "stack") # {}
  BY <1>9, <1>10 DEF Typed
<1>12. \A i, j \in DOMAIN reads :
        (CHOOSE a \in reads[i] : TRUE).thread =
        (CHOOSE b \in reads[j] : TRUE).thread => i = j
  <2>1. \A i \in 1..m : (CHOOSE a \in reads[i] : TRUE) = raw(i)
    BY <1>9
  <2>2. \A i, j \in 1..m : threads[i] = threads[j] => i = j
    BY <1>4 DEF WriterInv, TypeInv
  <2>3. \A i, j \in 1..m : raw(i).thread = raw(j).thread => i = j
    BY <1>10, <2>2
  <2> QED
    BY <1>9, <2>1, <2>3
<1>13. list0 \in MinidumpThreadList(File)
  <2>1. reads \in UNION {ListOf(File, r, SizeOf.thread) :
                         r \in Streams(File, "threads")}
    BY <1>1, <1>8
  <2> QED
    BY <1>11, <1>12, <2>1 DEF MinidumpThreadList
<1>14. ASSUME NEW i \in DOMAIN list0 PROVE ThreadReads(list0[i])
  <2>1. i \in 1..m /\ list0[i] = ReadThread(File, reads[i])
    BY <1>9
  <2>2. /\ IsThreadEntry(w.disk, raw(i), threads[i], end, Low)
        /\ reads[i] = {raw(i)}
    BY <1>7, <1>9, <2>1
  <2>3. ThreadReads(ReadThread(File, reads[i]))
    BY <1>6, <2>2, ThreadReadsWell
  <2> QED
    BY <2>1, <2>3
<1> QED
  BY <1>13, <1>14

\* For any number of threads, blocks of memory and files copied, whatever
\* the process does meanwhile and wherever the writer is stopped: as long as
\* the file stays below the width of its positions, the streams that its
\* directory names are whole.
THEOREM StreamsWhole == Spec /\ []SmallFile => []VisibleStreamsRead
<1>1. WriterInv /\ ContentInv /\ LayoutInv /\ SmallFile /\ SmallFile'
      /\ [Next]_vars => LayoutInv'
  BY LayoutStep
<1>2. WriterInv /\ ContentInv /\ LayoutInv => VisibleStreamsRead
  <2> SUFFICES ASSUME WriterInv, ContentInv, Layout
               PROVE  /\ Shown("threads") =>
                            \E l \in MinidumpThreadList(File) :
                                \A i \in DOMAIN l : ThreadReads(l[i])
                      /\ Shown("exception") => MinidumpException(File) # {}
                      /\ Shown("system") => IsAndroid(File)
    BY DEF LayoutInv, VisibleStreamsRead
  <2> QED
    BY ThreadListReads, ExceptionReads, SystemReads
<1> QED
  BY <1>1, <1>2, InitLayout, WriterInvHolds, ContentInvHolds, PTL DEF Spec
=============================================================================
