--------------------------- MODULE DumpFileProofs ---------------------------
(***************************************************************************)
(* Proofs about the writer of DumpFile for any number of threads, however  *)
(* the process behaves meanwhile and whatever fails: no thread is left     *)
(* stopped, and the registers of the crash are found; the loops stay       *)
(* inside their lists, everything lies inside the space by which the file  *)
(* has grown, and a stack that is kept reaches its stack pointer.          *)
(***************************************************************************)
EXTENDS DumpFile, MinidumpFileWriterProofs, FiniteSetTheorems,
        SequenceTheorems

\* Where the writer is: before it stops the first thread, before it has
\* written the threads, before it has written the crash, and after that.
Enumerating == {"threads", "mappings"}
AtThreads == {"open", "header", "thread_list", "thread"}
AtCrash == {"enter_threads", "module_list", "module", "enter_modules", "app",
            "memory", "enter_memory", "exception"}
AtRest == {"enter_exception", "system", "enter_system", "file", "enter_file",
           "dso", "enter_dso", "resume"}

InList(t) == \E i \in DOMAIN threads : threads[i] = t

\* What the variables hold.
TypeInv ==
    /\ thread \in [Tids -> {"absent", "running", "stopped", "gone"}]
    /\ threads \in Seq(Tids)
    /\ \A i, j \in DOMAIN threads : threads[i] = threads[j] => i = j
    /\ next \in Nat \ {0}
    /\ suspended \in BOOLEAN
    /\ loaded \subseteq Libraries
    /\ pc \in Enumerating \cup {"suspend", "exit", "done", "killed"}
                  \cup AtThreads \cup AtCrash \cup AtRest

\* A thread that is stopped is in the list, before the place where
\* ThreadsSuspend is, and then there is something to resume.
StoppedInv ==
    \A t \in Tids : thread[t] = "stopped" =>
        /\ pc \notin Enumerating \cup {"done", "killed"}
        /\ \E i \in DOMAIN threads :
                threads[i] = t /\ (pc = "suspend" => i < next)
        /\ pc = "suspend" \/ suspended

WriterInv == TypeInv /\ StoppedInv

\* Nobody traces the thread that crashed.
CrashNotTraced == \A s \in Scenarios : CrashThread \notin s.traced

\* The thread that crashed ends with the process and is not dropped before.
CrashedInv ==
    /\ CrashThread \notin scenario.traced
    /\ thread[CrashThread] # "absent"
    /\ Died => Dead
    /\ pc \in {"mappings", "suspend"} \cup AtThreads =>
            Died \/ InList(CrashThread)

\* A thread that was stopped stays so until the process dies.
AttachedInv ==
    /\ pc \in AtThreads => threads # <<>>
    /\ pc \in {"suspend"} \cup AtThreads =>
            \A i \in DOMAIN threads :
                (pc = "suspend" => i < next) =>
                    thread[threads[i]] = "stopped" \/ Dead

\* The loop over the threads comes past the one that crashed.
FoundInv ==
    /\ pc = "thread" =>
            /\ InList(CrashThread) \/ next = 1
            /\ \A i \in DOMAIN threads :
                    i < next /\ threads[i] = CrashThread =>
                        crashing_thread_context # Uninitialized
    /\ pc \in AtCrash => crashing_thread_context # Uninitialized

ContextInv == CrashedInv /\ AttachedInv /\ FoundInv

-----------------------------------------------------------------------------
\* The list of a set of numbers has each of them exactly once, in order.
LEMMA ListingRight ==
    ASSUME NEW S \in SUBSET Nat, IsFiniteSet(S)
    PROVE  /\ Listing(S) \in Seq(S)
           /\ \A t \in S : \E i \in DOMAIN Listing(S) : Listing(S)[i] = t
           /\ \A i, j \in DOMAIN Listing(S) :
                  Listing(S)[i] = Listing(S)[j] => i = j
           /\ \A i, j \in DOMAIN Listing(S) :
                  i < j => Listing(S)[i] < Listing(S)[j]
<1> DEFINE n == Cardinality(S)
           below(k) == {m \in S : m < k}
           rank == [t \in S |-> Cardinality(below(t))]
           tasks == Listing(S)
<1>1. n \in Nat
  BY FS_CardinalityType
<1>2. ASSUME NEW t \in S PROVE rank[t] \in 0..(n - 1)
  <2>1. below(t) \in SUBSET S /\ below(t) # S
    OBVIOUS
  <2>2. /\ IsFiniteSet(below(t)) /\ Cardinality(below(t)) <= n
        /\ n # Cardinality(below(t))
    BY <2>1, FS_Subset
  <2>3. Cardinality(below(t)) \in Nat
    BY <2>2, FS_CardinalityType
  <2> HIDE DEF below
  <2> QED
    BY <1>1, <2>2, <2>3
<1>3. ASSUME NEW t \in S, NEW u \in S, t < u PROVE rank[t] < rank[u]
  <2>1. below(t) \in SUBSET below(u) /\ below(u) \in SUBSET S
    <3>1. \A x \in S : x < t => x < u
      BY <1>3
    <3> QED
      BY <3>1
  <2>2. t \in below(u) /\ t \notin below(t)
    BY <1>3
  <2>3. IsFiniteSet(below(u))
    BY <2>1, FS_Subset
  <2>4. /\ Cardinality(below(t)) <= Cardinality(below(u))
        /\ Cardinality(below(u)) # Cardinality(below(t))
    BY <2>1, <2>2, <2>3, FS_Subset
  <2>5. rank[t] \in Int /\ rank[u] \in Int
    BY <1>1, <1>2
  <2>6. rank[t] = Cardinality(below(t)) /\ rank[u] = Cardinality(below(u))
    OBVIOUS
  <2> HIDE DEF rank, below
  <2> QED
    BY <2>4, <2>5, <2>6
<1>4. \A t, u \in S : rank[t] = rank[u] => t = u
  <2>1. \A t \in S : rank[t] \in Int /\ t \in Nat
    BY <1>1, <1>2
  <2> HIDE DEF rank
  <2> QED
    BY <1>3, <2>1
<1>5. rank \in Injection(S, 0..(n - 1))
  BY <1>2, <1>4 DEF Injection, IsInjective
<1>6. /\ IsFiniteSet(0..(n - 1)) /\ Cardinality(0..(n - 1)) = n
  <2>1. n - 1 \in Int /\ 0 \in Int
    BY <1>1
  <2>2. /\ IsFiniteSet(0..(n - 1))
        /\ Cardinality(0..(n - 1)) =
               IF 0 > n - 1 THEN 0 ELSE (n - 1) - 0 + 1
    BY <2>1, FS_Interval
  <2> QED
    BY <1>1, <2>2
<1>7. rank \in Surjection(S, 0..(n - 1))
  BY <1>5, <1>6, FS_Injection
<1>8. \A k \in 0..(n - 1) : \E t \in S : rank[t] = k
  BY <1>7 DEF Surjection
<1>9. /\ tasks = [i \in 1..n |->
                      CHOOSE k \in S : Cardinality(below(k)) = i - 1]
      /\ \A t \in S : rank[t] = Cardinality(below(t))
  BY DEF Listing
<1> HIDE DEF n, rank, tasks
<1>10. ASSUME NEW i \in 1..n PROVE tasks[i] \in S /\ rank[tasks[i]] = i - 1
  <2>1. i - 1 \in 0..(n - 1)
    BY <1>1
  <2> QED
    BY <1>8, <1>9, <2>1
<1>11. DOMAIN tasks = 1..n /\ tasks \in Seq(S)
  <2>1. DOMAIN tasks = 1..n
    BY <1>9
  <2>2. tasks \in [1..n -> S]
    BY <1>9, <1>10
  <2> QED
    BY <1>1, <2>1, <2>2, IsASeq
<1>12. \A i, j \in 1..n : tasks[i] = tasks[j] => i = j
  BY <1>1, <1>10
<1>13. ASSUME NEW t \in S PROVE \E i \in 1..n : tasks[i] = t
  <2>1. rank[t] + 1 \in 1..n /\ rank[t] = (rank[t] + 1) - 1
    BY <1>1, <1>2
  <2>2. rank[tasks[rank[t] + 1]] = rank[t] /\ tasks[rank[t] + 1] \in S
    BY <1>10, <2>1
  <2> QED
    BY <1>4, <2>1, <2>2
<1>14. ASSUME NEW i \in 1..n, NEW j \in 1..n, i < j
       PROVE  tasks[i] < tasks[j]
  <2>1. /\ tasks[i] \in S /\ tasks[j] \in S
        /\ rank[tasks[i]] = i - 1 /\ rank[tasks[j]] = j - 1
    BY <1>10
  <2>3. /\ tasks[i] \in Nat /\ tasks[j] \in Nat
        /\ ~(rank[tasks[j]] < rank[tasks[i]])
    <3>1. tasks[i] \in Nat /\ tasks[j] \in Nat
      BY <2>1
    <3>2. ~(j - 1 < i - 1)
      BY <1>1, <1>14
    <3> QED
      BY <2>1, <3>1, <3>2
  <2>2. tasks[i] # tasks[j] /\ ~(tasks[j] < tasks[i])
    BY <1>3, <1>12, <1>14, <2>1, <2>3
  <2> QED
    BY <2>2, <2>3
<1> QED
  BY <1>11, <1>12, <1>13, <1>14 DEF tasks

\* A tasks without its element i.
LEMMA RemoveAtRight ==
    ASSUME NEW S, NEW s \in Seq(S), NEW i \in DOMAIN s
    PROVE  /\ RemoveAt(s, i) \in Seq(S)
           /\ DOMAIN RemoveAt(s, i) = 1..(Len(s) - 1)
           /\ \A j \in 1..(Len(s) - 1) :
                  RemoveAt(s, i)[j] = IF j < i THEN s[j] ELSE s[j + 1]
<1> DEFINE a == SubSeq(s, 1, i - 1)
           b == SubSeq(s, i + 1, Len(s))
<1>1. /\ Len(s) \in Nat /\ DOMAIN s = 1..Len(s) /\ i \in 1..Len(s)
      /\ \A j \in 1..Len(s) : s[j] \in S
  OBVIOUS
<1>2. /\ a \in Seq(S) /\ Len(a) = i - 1
      /\ \A j \in 1..(i - 1) : a[j] = s[j]
  BY <1>1, SubSeqProperties
<1>3. /\ b \in Seq(S) /\ Len(b) = Len(s) - i
      /\ \A j \in 1..(Len(s) - i) : b[j] = s[i + j]
  BY <1>1, SubSeqProperties
<1> HIDE DEF a, b
<1>4. /\ a \o b \in Seq(S) /\ Len(a \o b) = Len(s) - 1
      /\ \A j \in 1..(Len(s) - 1) :
            (a \o b)[j] = IF j <= i - 1 THEN a[j] ELSE b[j - (i - 1)]
  <2>1. /\ a \o b \in Seq(S) /\ Len(a \o b) = Len(a) + Len(b)
        /\ \A j \in 1..(Len(a) + Len(b)) :
              (a \o b)[j] = IF j <= Len(a) THEN a[j] ELSE b[j - Len(a)]
    BY <1>2, <1>3, ConcatProperties
  <2>2. Len(a) + Len(b) = Len(s) - 1
    BY <1>1, <1>2, <1>3
  <2> QED
    BY <1>2, <2>1, <2>2
<1>5. ASSUME NEW j \in 1..(Len(s) - 1)
      PROVE  (a \o b)[j] = IF j < i THEN s[j] ELSE s[j + 1]
  <2>1. CASE j < i
    BY <1>1, <1>2, <1>4, <2>1
  <2>2. CASE ~(j < i)
    <3>1. j - (i - 1) \in 1..(Len(s) - i) /\ i + (j - (i - 1)) = j + 1
      BY <1>1, <2>2
    <3>2. (a \o b)[j] = b[j - (i - 1)]
      <4>1. ~(j <= i - 1)
        BY <1>1, <2>2
      <4>2. (a \o b)[j] = IF j <= i - 1 THEN a[j] ELSE b[j - (i - 1)]
        BY <1>4, Zenon
      <4> QED
        BY <4>1, <4>2, Zenon
    <3>3. b[j - (i - 1)] = s[i + (j - (i - 1))]
      BY <1>3, <3>1
    <3> QED
      BY <2>2, <3>1, <3>2, <3>3
  <2> QED
    BY <2>1, <2>2
<1> DEFINE c == a \o b
<1>6. RemoveAt(s, i) = c
  BY DEF RemoveAt, a, b
<1>7. /\ c \in Seq(S) /\ Len(c) = Len(s) - 1
      /\ \A j \in 1..(Len(s) - 1) :
            c[j] = IF j < i THEN s[j] ELSE s[j + 1]
  BY <1>4, <1>5
<1> HIDE DEF c
<1>8. DOMAIN c = 1..(Len(s) - 1)
  BY <1>7
<1> QED
  BY <1>6, <1>7, <1>8
-----------------------------------------------------------------------------
LEMMA LoadedFinite ==
    ASSUME TypeInv PROVE IsFiniteSet(loaded) /\ Cardinality(loaded) \in Nat
<1>1. IsFiniteSet(loaded)
  BY WriterAssumption, FS_Subset DEF TypeInv
<1> QED
  BY <1>1, FS_CardinalityType

-----------------------------------------------------------------------------
\* What a mapping is, before and after LatePostprocessMappings.
IsMapping(m) ==
    /\ {"start", "size", "name", "exec"} \subseteq DOMAIN m
    /\ m.start \in Int /\ m.size \in Int /\ EndsAPage(m)
    /\ m.name # NoName => m.name \in Libraries

IsMappings(found) ==
    /\ found \in Seq(Range(found))
    /\ \A i \in DOMAIN found : IsMapping(found[i])

\* The image of a finite set.
LEMMA ImageFinite ==
    ASSUME NEW f, IsFiniteSet(DOMAIN f)
    PROVE  IsFiniteSet({f[x] : x \in DOMAIN f})
<1> DEFINE T == {f[x] : x \in DOMAIN f}
           g == [x \in DOMAIN f |-> f[x]]
<1>1. g \in Surjection(DOMAIN f, T)
  BY DEF Surjection
<1> QED
  BY <1>1, FS_Surjection

\* The least number of a finite set.
LEMMA LeastRight ==
    ASSUME NEW S \in SUBSET Nat, IsFiniteSet(S), S # {}
    PROVE  \E n \in S : \A m \in S : n <= m
<1> DEFINE order == Listing(S)
<1>1. /\ order \in Seq(S) /\ \A t \in S : \E i \in DOMAIN order : order[i] = t
      /\ \A i, j \in DOMAIN order : i < j => order[i] < order[j]
  BY ListingRight
<1> HIDE DEF order
<1>2. /\ DOMAIN order = 1..Len(order) /\ Len(order) \in Nat
      /\ \A i \in DOMAIN order : order[i] \in S
  BY <1>1
<1>3. 1 \in DOMAIN order /\ order[1] \in S /\ order[1] \in Nat
  <2>1. PICK m \in S : TRUE
    OBVIOUS
  <2>2. PICK i \in DOMAIN order : order[i] = m
    BY <1>1, <2>1
  <2>3. 1 \in DOMAIN order
    BY <1>2, <2>2
  <2> QED
    BY <1>2, <2>3
<1>4. ASSUME NEW m \in S PROVE order[1] <= m
  <2>1. PICK i \in DOMAIN order : order[i] = m
    BY <1>1
  <2>2. i = 1 \/ 1 < i
    BY <1>2
  <2>3. m \in Nat /\ (1 < i => order[1] < m)
    BY <1>1, <1>3, <2>1
  <2> QED
    BY <1>3, <2>1, <2>2, <2>3
<1> QED
  BY <1>2, <1>3, <1>4

\* /proc/pid/maps of a process that lives has lines, and they are mappings.
LEMMA MapsRight ==
    ASSUME TypeInv, ~Dead
    PROVE  IsMappings(Maps) /\ Maps # <<>>
<1> DEFINE stack(t) == [start |-> Stack[t].start, size |-> Stack[t].size,
                        name |-> NoName, exec |-> FALSE, offset |-> 0]
           live == {u \in Tids : Present(u)}
           lines == {stack(t) : t \in live}
                        \cup UNION {Segments[l] : l \in loaded}
           starts == {line.start : line \in lines}
           order == Listing(starts)
<1>1. IsFiniteSet(lines)
  <2>1. IsFiniteSet({stack(t) : t \in live})
    <3> DEFINE f == [t \in live |-> stack(t)]
    <3>1. DOMAIN f = live /\ {f[t] : t \in DOMAIN f} = {stack(t) : t \in live}
      OBVIOUS
    <3>2. IsFiniteSet(live)
      BY WriterAssumption, FS_Subset
    <3> HIDE DEF f
    <3> QED
      BY <3>1, <3>2, ImageFinite
  <2>2. IsFiniteSet(UNION {Segments[l] : l \in loaded})
    <3> DEFINE f == [l \in loaded |-> Segments[l]]
    <3>1. DOMAIN f = loaded
          /\ {f[l] : l \in DOMAIN f} = {Segments[l] : l \in loaded}
      OBVIOUS
    <3>2. IsFiniteSet(loaded)
      BY LoadedFinite
    <3> HIDE DEF f
    <3>3. IsFiniteSet({Segments[l] : l \in loaded})
      BY <3>1, <3>2, ImageFinite
    <3>4. \A l \in loaded : IsFiniteSet(Segments[l])
      BY MemoryAssumption DEF TypeInv
    <3>5. \A T \in {Segments[l] : l \in loaded} : IsFiniteSet(T)
      BY <3>4
    <3> QED
      BY <3>3, <3>5, FS_UNION
  <2> QED
    BY <2>1, <2>2, FS_Union
<1>2. ASSUME NEW line \in lines PROVE IsMapping(line) /\ line.start \in Nat
  <2>1. CASE line \in {stack(t) : t \in live}
    <3>1. PICK t \in live : line = stack(t)
      BY <2>1
    <3>2. /\ Stack[t].start \in Nat /\ Stack[t].size \in Nat
          /\ (Stack[t].start + Stack[t].size) % PageSize = 0
      BY MemoryAssumption DEF IsBlock, EndsAPage
    <3>3. /\ line.start = Stack[t].start /\ line.size = Stack[t].size
          /\ line.name = NoName /\ DOMAIN line =
                {"start", "size", "name", "exec", "offset"}
      BY <3>1
    <3> QED
      BY <3>2, <3>3 DEF IsMapping, EndsAPage
  <2>2. CASE line \in UNION {Segments[l] : l \in loaded}
    <3>1. PICK l \in Libraries : line \in Segments[l]
      BY <2>2 DEF TypeInv
    <3>2. /\ line.start \in Nat /\ line.size \in Nat /\ EndsAPage(line)
          /\ line.name = l /\ {"start", "size"} \subseteq DOMAIN line
          /\ {"name", "exec", "offset"} \subseteq DOMAIN line
      BY <3>1, MemoryAssumption DEF IsBlock
    <3> QED
      BY <3>2 DEF IsMapping
  <2> QED
    BY <2>1, <2>2
<1>3. PICK t \in Tids : Present(t)
  BY DEF Dead
<1>4. stack(t) \in lines
  BY <1>3
<1>5. Maps = [i \in DOMAIN order |->
                 CHOOSE line \in lines : line.start = order[i]]
  BY DEF Maps
<1> HIDE DEF lines
<1>6. starts \in SUBSET Nat /\ IsFiniteSet(starts) /\ starts # {}
  <2>1. IsFiniteSet(starts)
    <3> DEFINE f == [line \in lines |-> line.start]
    <3>1. DOMAIN f = lines /\ {f[x] : x \in DOMAIN f} = starts
      OBVIOUS
    <3> HIDE DEF f
    <3> QED
      BY <1>1, <3>1, ImageFinite
  <2> QED
    BY <1>2, <1>4, <2>1
<1> HIDE DEF starts
<1>7. /\ order \in Seq(starts)
      /\ \A s \in starts : \E i \in DOMAIN order : order[i] = s
  BY <1>6, ListingRight
<1> HIDE DEF order
<1>8. /\ DOMAIN order = 1..Len(order) /\ Len(order) \in Nat \ {0}
      /\ \A i \in DOMAIN order : order[i] \in starts
  <2>1. /\ DOMAIN order = 1..Len(order) /\ Len(order) \in Nat
        /\ \A i \in DOMAIN order : order[i] \in starts
    BY <1>7
  <2>2. PICK s \in starts : TRUE
    BY <1>6
  <2>3. PICK i \in DOMAIN order : order[i] = s
    BY <1>7, <2>2
  <2> QED
    BY <2>1, <2>3
<1>9. ASSUME NEW i \in DOMAIN order PROVE Maps[i] \in lines
  <2>1. \E line \in lines : line.start = order[i]
    BY <1>8 DEF starts
  <2> QED
    BY <1>5, <2>1
<1>10. Maps \in [1..Len(order) -> Range(Maps)]
  BY <1>5, <1>8 DEF Range
<1>11. Maps \in Seq(Range(Maps)) /\ DOMAIN Maps = 1..Len(order)
  BY <1>8, <1>10
<1> QED
  BY <1>2, <1>8, <1>9, <1>11 DEF IsMappings

\* Merged lines are mappings, and there are some.
LEMMA MergedRight ==
    ASSUME NEW lines, IsMappings(lines), lines # <<>>
    PROVE  IsMappings(MergedMappings(lines)) /\ MergedMappings(lines) # <<>>
<1> DEFINE heads == {i \in DOMAIN lines :
                        i = 1 \/ ~Merges(lines[i - 1], lines[i])}
           head == Listing(heads)
           last(k) == lines[IF k = Len(head) THEN Len(lines)
                            ELSE head[k + 1] - 1]
           merged == MergedMappings(lines)
<1>1. DOMAIN lines = 1..Len(lines) /\ Len(lines) \in Nat \ {0}
  BY DEF IsMappings
<1>2. 1 \in heads
  BY <1>1
<1>3. heads \in SUBSET (1..Len(lines))
  BY <1>1
<1>4. merged = [k \in DOMAIN head |->
                  LET m == lines[head[k]]
                  IN  [start |-> m.start,
                       size |-> last(k).start + last(k).size - m.start,
                       name |-> m.name, exec |-> last(k).exec,
                       offset |-> m.offset]]
  BY DEF MergedMappings
<1> HIDE DEF heads, merged
<1>5. heads \in SUBSET Nat /\ IsFiniteSet(heads)
  <2>1. IsFiniteSet(1..Len(lines))
    BY <1>1, FS_Interval
  <2>2. 1..Len(lines) \in SUBSET Nat
    BY <1>1
  <2> QED
    BY <1>3, <2>1, <2>2, FS_Subset
<1>6. /\ head \in Seq(heads)
      /\ \A h \in heads : \E k \in DOMAIN head : head[k] = h
      /\ \A i, j \in DOMAIN head : i < j => head[i] < head[j]
  BY <1>5, ListingRight
<1> HIDE DEF head
<1>7. /\ DOMAIN head = 1..Len(head) /\ Len(head) \in Nat
      /\ \A k \in DOMAIN head : head[k] \in 1..Len(lines)
  <2>1. /\ DOMAIN head = 1..Len(head) /\ Len(head) \in Nat
        /\ \A k \in DOMAIN head : head[k] \in heads
    BY <1>6
  <2> QED
    BY <1>3, <2>1
<1>8. Len(head) \in Nat \ {0}
  BY <1>2, <1>6, <1>7
<1>9. ASSUME NEW k \in DOMAIN head
      PROVE  \E i \in DOMAIN lines : last(k) = lines[i]
  <2>1. CASE k = Len(head)
    BY <1>1, <2>1
  <2>2. CASE k # Len(head)
    <3>1. k + 1 \in DOMAIN head /\ head[k] < head[k + 1]
      BY <1>6, <1>7, <2>2
    <3>2. head[k + 1] - 1 \in 1..Len(lines)
      BY <1>1, <1>7, <3>1
    <3> QED
      BY <1>1, <2>2, <3>2
  <2> QED
    BY <2>1, <2>2
<1>10. ASSUME NEW k \in DOMAIN head PROVE IsMapping(merged[k])
  <2>1. IsMapping(lines[head[k]])
    BY <1>1, <1>7 DEF IsMappings
  <2>2. IsMapping(last(k))
    BY <1>9 DEF IsMappings
  <2> DEFINE m == lines[head[k]]
             n == last(k)
  <2>3. merged[k] = [start |-> m.start, size |-> n.start + n.size - m.start,
                     name |-> m.name, exec |-> n.exec, offset |-> m.offset]
    BY <1>4
  <2>4. IsMapping(m) /\ IsMapping(n)
    BY <2>1, <2>2
  <2> HIDE DEF m, n
  <2>5. m.start + (n.start + n.size - m.start) = n.start + n.size
    BY <2>4 DEF IsMapping
  <2>6. /\ merged[k].start = m.start /\ merged[k].name = m.name
        /\ merged[k].size = n.start + n.size - m.start
        /\ DOMAIN merged[k] = {"start", "size", "name", "exec", "offset"}
    BY <2>3
  <2> QED
    BY <2>4, <2>5, <2>6 DEF IsMapping, EndsAPage
<1>11. merged \in [1..Len(head) -> Range(merged)]
  BY <1>4, <1>7 DEF Range
<1>12. merged \in Seq(Range(merged)) /\ DOMAIN merged = 1..Len(head)
  BY <1>7, <1>11
<1> QED
  BY <1>7, <1>8, <1>10, <1>12 DEF IsMappings, merged

LEMMA EntryFirstRight ==
    ASSUME NEW found, IsMappings(found), found # <<>>
    PROVE  IsMappings(EntryFirst(found)) /\ EntryFirst(found) # <<>>
<1> DEFINE at == {i \in DOMAIN found : MappingContains(found[i], EntryPoint)}
           i == CHOOSE k \in at : \A j \in at : k <= j
           S == Range(found)
<1>1. DOMAIN found = 1..Len(found) /\ Len(found) \in Nat /\ found \in Seq(S)
  BY DEF IsMappings
<1>2. CASE at = {}
  BY <1>2 DEF EntryFirst
<1>3. CASE at # {}
  <2>1. at \in SUBSET (1..Len(found)) /\ at \in SUBSET Nat
    BY <1>1
  <2>2. IsFiniteSet(at)
    <3>1. IsFiniteSet(1..Len(found))
      BY <1>1, FS_Interval
    <3> QED
      BY <2>1, <3>1, FS_Subset
  <2>3. EntryFirst(found) = <<found[i]>> \o RemoveAt(found, i)
    BY <1>3 DEF EntryFirst
  <2> HIDE DEF at
  <2>4. i \in at
    BY <1>3, <2>1, <2>2, LeastRight
  <2>5. i \in DOMAIN found
    BY <1>1, <2>1, <2>4
  <2> HIDE DEF i
  <2>6. RemoveAt(found, i) \in Seq(S)
    BY <1>1, <2>5, RemoveAtRight
  <2>7. <<found[i]>> \in Seq(S) /\ Len(<<found[i]>>) = 1
    BY <2>5 DEF Range
  <2> DEFINE e == EntryFirst(found)
  <2>8. e \in Seq(S) /\ Len(e) = 1 + Len(RemoveAt(found, i))
    BY <2>3, <2>6, <2>7, ConcatProperties
  <2>9. e # <<>>
    BY <2>6, <2>8
  <2> HIDE DEF e
  <2>10. DOMAIN e = 1..Len(e) /\ \A k \in DOMAIN e : e[k] \in S
    BY <2>8
  <2>11. \A m \in S : IsMapping(m)
    BY DEF IsMappings, Range
  <2>12. e \in Seq(Range(e))
    BY <2>8, <2>10 DEF Range
  <2> QED
    BY <2>9, <2>10, <2>11, <2>12 DEF IsMappings, e
<1> QED
  BY <1>2, <1>3

\* EnumerateMappings finds something as long as the process lives.
LEMMA MappingsRight ==
    ASSUME TypeInv, ~Dead
    PROVE  /\ IsMappings(EntryFirst(MergedMappings(Maps)))
           /\ EntryFirst(MergedMappings(Maps)) # <<>>
BY MapsRight, MergedRight, EntryFirstRight

\* The steps of Dump: they change neither the threads nor the list of them,
\* and go on to a later place of the writer or to the end.
LEMMA DumpStepShape ==
    ASSUME TypeInv, DumpStep
    PROVE  /\ UNCHANGED <<scenario, thread, threads, suspended, loaded>>
           /\ pc \in AtThreads \cup AtCrash \cup AtRest
           /\ pc' \in AtThreads \cup AtCrash \cup AtRest \cup {"exit"}
           /\ next' \in Nat \ {0}
<1> USE DEF TypeInv, AtThreads, AtCrash, AtRest, dumper, process, GoOn, Fail,
            Exit, Nullify, AllocateList, EndStream, WriteObject
<1>1. CASE WriteHeader
  BY <1>1 DEF WriteHeader
<1>2. CASE StartThreadList
  BY <1>2 DEF StartThreadList
<1>3. CASE WriteThread
  BY <1>3 DEF WriteThread
<1>4. CASE EndThreadList
  BY <1>4 DEF EndThreadList
<1>5. CASE StartModuleList
  BY <1>5 DEF StartModuleList
<1>6. CASE WriteModule
  BY <1>6 DEF WriteModule
<1>7. CASE EndModuleList
  BY <1>7 DEF EndModuleList
<1>8. CASE WriteAppMemory
  BY <1>8 DEF WriteAppMemory
<1>9. CASE StartMemoryList
  BY <1>9 DEF StartMemoryList
<1>10. CASE WriteMemory
  BY <1>10 DEF WriteMemory
<1>11. CASE EndMemoryList
  BY <1>11 DEF EndMemoryList
<1>12. CASE WriteExceptionStream
  BY <1>12 DEF WriteExceptionStream
<1>13. CASE WriteSystemInfoStream
  BY <1>13 DEF WriteSystemInfoStream
<1>14. CASE WriteFile
  BY <1>14 DEF WriteFile
<1>15. CASE CountDSOs
  BY <1>15 DEF CountDSOs
<1>16. CASE WriteDSODebugStream
  BY <1>16 DEF WriteDSODebugStream
<1>17. CASE WriteDSO
  <2>1. Cardinality(loaded) \in Nat
    BY LoadedFinite
  <2> QED
    BY <1>17, <2>1 DEF WriteDSO
<1>18. CASE EnterStream
  BY <1>18 DEF EnterStream, Enter
<1> QED
  BY <1>1, <1>2, <1>3, <1>4, <1>5, <1>6, <1>7, <1>8, <1>9, <1>10, <1>11,
     <1>12, <1>13, <1>14, <1>15, <1>16, <1>17, <1>18 DEF DumpStep

\* The process only ever starts threads and ends them.
LEMMA ProcessShape ==
    ASSUME TypeInv, ProcessStep
    PROVE  /\ UNCHANGED <<scenario, pc, next, threads, suspended,
                          crashing_thread_context>>
           /\ thread' \in [Tids -> {"absent", "running", "stopped", "gone"}]
           /\ loaded' \subseteq Libraries
           /\ \A t \in Tids :
                 thread'[t] = "stopped" => thread[t] = "stopped"
<1>1. ASSUME NEW t \in Tids, NEW v \in {"running", "gone"},
             thread' = [thread EXCEPT ![t] = v]
      PROVE  /\ thread' \in [Tids ->
                                {"absent", "running", "stopped", "gone"}]
             /\ \A u \in Tids :
                   thread'[u] = "stopped" => thread[u] = "stopped"
  BY <1>1 DEF TypeInv
<1>2. ASSUME NEW t \in Tids, ThreadStarts(t) \/ ThreadExits(t)
      PROVE  /\ \E v \in {"running", "gone"} :
                    thread' = [thread EXCEPT ![t] = v]
             /\ UNCHANGED <<scenario, pc, next, threads, suspended,
                            crashing_thread_context, loaded>>
  BY <1>2 DEF ThreadStarts, ThreadExits, dumper, stream
<1>3. ASSUME NEW l \in Libraries, LoadLibrary(l)
      PROVE  /\ UNCHANGED <<scenario, pc, next, thread, threads, suspended,
                            crashing_thread_context>>
             /\ loaded' \subseteq Libraries
  BY <1>3 DEF TypeInv, LoadLibrary, dumper, stream
<1>4. CASE ProcessDies
  BY <1>4 DEF ProcessDies, TypeInv, Present, dumper, stream
<1> QED
  BY <1>1, <1>2, <1>3, <1>4 DEF ProcessStep, TypeInv

\* What ThreadsResume and the destructor leave.
LEMMA ResumedRight ==
    ASSUME WriterInv, pc # "suspend"
    PROVE  /\ Resumed \in [Tids -> {"absent", "running", "stopped", "gone"}]
           /\ \A t \in Tids : Resumed[t] # "stopped"
BY DEF WriterInv, TypeInv, StoppedInv, Resumed

LEMMA WriterStepKeeps == WriterInv /\ [Next]_vars => WriterInv'
<1> SUFFICES ASSUME WriterInv, [Next]_vars PROVE WriterInv'
  OBVIOUS
<1> USE DEF WriterInv, Enumerating, AtThreads, AtCrash, AtRest
<1>1. CASE UNCHANGED vars
  BY <1>1 DEF vars, TypeInv, StoppedInv
<1>2. CASE ProcessStep
  BY <1>2, ProcessShape DEF TypeInv, StoppedInv
<1>3. CASE DumpStep
  BY <1>3, DumpStepShape DEF TypeInv, StoppedInv
<1>4. CASE WriterKilled
  BY <1>4 DEF WriterKilled, TypeInv, StoppedInv, dumper
<1>5. CASE EnumerateThreads
  <2>1. pc = "threads" /\ UNCHANGED <<thread, next, suspended, loaded>>
    BY <1>5 DEF EnumerateThreads, process
  <2>2. CASE Dead
    BY <1>5, <2>1, <2>2 DEF EnumerateThreads, Exit, TypeInv, StoppedInv
  <2>3. CASE ~Dead
    <3> DEFINE S == {t \in Tids : Present(t)}
    <3>1. threads' = Listing(S) /\ pc' = "mappings"
      BY <1>5, <2>3 DEF EnumerateThreads
    <3>2. S \in SUBSET Nat /\ IsFiniteSet(S) /\ S \in SUBSET Tids
      BY WriterAssumption, FS_Subset
    <3> HIDE DEF S
    <3>3. /\ threads' \in Seq(S)
          /\ \A i, j \in DOMAIN threads' : threads'[i] = threads'[j] => i = j
      BY <3>1, <3>2, ListingRight
    <3>4. threads' \in Seq(Tids)
      BY <3>2, <3>3, SeqMonotonic
    <3> QED
      BY <2>1, <3>1, <3>3, <3>4 DEF TypeInv, StoppedInv
  <2> QED
    BY <2>2, <2>3
<1>6. CASE EnumerateMappings
  BY <1>6 DEF EnumerateMappings, Exit, process, TypeInv, StoppedInv
<1>7. CASE SuspendThread
  <2>1. /\ pc = "suspend" /\ pc' = pc /\ next <= Len(threads)
        /\ UNCHANGED <<suspended, loaded>>
    BY <1>7 DEF SuspendThread
  <2>2. next \in DOMAIN threads /\ threads[next] \in Tids
    BY <2>1 DEF TypeInv
  <2>3. CASE CanAttach(threads[next])
    <3>1. /\ thread' = [thread EXCEPT ![threads[next]] = "stopped"]
          /\ next' = next + 1 /\ UNCHANGED threads
      BY <1>7, <2>3 DEF SuspendThread
    <3>2. TypeInv'
      BY <2>1, <3>1 DEF TypeInv
    <3>3. ASSUME NEW t \in Tids, thread'[t] = "stopped"
          PROVE  \E i \in DOMAIN threads' : threads'[i] = t /\ i < next'
      <4>1. CASE t = threads[next]
        BY <2>2, <3>1, <4>1 DEF TypeInv
      <4>2. CASE t # threads[next]
        <5>1. thread[t] = "stopped"
          BY <2>2, <3>1, <3>3, <4>2 DEF TypeInv
        <5>2. PICK i \in DOMAIN threads : threads[i] = t /\ i < next
          BY <2>1, <5>1 DEF StoppedInv
        <5>3. i < next'
          BY <3>1, <5>2 DEF TypeInv
        <5> QED
          BY <3>1, <5>2, <5>3
      <4> QED
        BY <4>1, <4>2
    <3> QED
      BY <2>1, <3>2, <3>3 DEF StoppedInv
  <2>4. CASE ~CanAttach(threads[next])
    <3>1. /\ threads' = RemoveAt(threads, next)
          /\ UNCHANGED <<thread, next>>
      BY <1>7, <2>4 DEF SuspendThread
    <3>2. /\ Len(threads) \in Nat /\ DOMAIN threads = 1..Len(threads)
          /\ next \in 1..Len(threads)
      BY <2>2 DEF TypeInv
    <3>3. /\ threads' \in Seq(Tids)
          /\ DOMAIN threads' = 1..(Len(threads) - 1)
          /\ \A j \in 1..(Len(threads) - 1) :
                threads'[j] = IF j < next THEN threads[j] ELSE threads[j + 1]
      BY <2>2, <3>1, RemoveAtRight DEF TypeInv
    <3>4. ASSUME NEW i \in DOMAIN threads', NEW j \in DOMAIN threads',
                 threads'[i] = threads'[j]
          PROVE  i = j
      <4> DEFINE k(x) == IF x < next THEN x ELSE x + 1
      <4>1. /\ k(i) \in DOMAIN threads /\ threads'[i] = threads[k(i)]
            /\ k(j) \in DOMAIN threads /\ threads'[j] = threads[k(j)]
        BY <3>2, <3>3
      <4>2. k(i) = k(j)
        BY <3>4, <4>1 DEF TypeInv
      <4> QED
        BY <3>2, <3>3, <4>2
    <3>5. ASSUME NEW t \in Tids, thread'[t] = "stopped"
          PROVE  \E i \in DOMAIN threads' : threads'[i] = t /\ i < next'
      <4>1. PICK i \in DOMAIN threads : threads[i] = t /\ i < next
        BY <2>1, <3>1, <3>5 DEF StoppedInv
      <4>2. i \in 1..(Len(threads) - 1)
        BY <3>2, <4>1
      <4> QED
        BY <3>1, <3>3, <4>1, <4>2
    <3>6. TypeInv'
      BY <2>1, <3>1, <3>3, <3>4 DEF TypeInv
    <3> QED
      BY <2>1, <3>5, <3>6 DEF StoppedInv
  <2> QED
    BY <2>3, <2>4
<1>8. CASE ThreadsSuspended
  BY <1>8 DEF ThreadsSuspended, Exit, process, TypeInv, StoppedInv
<1>9. CASE LateInit
  BY <1>9 DEF LateInit, Exit, process, TypeInv, StoppedInv
<1>10. CASE ThreadsResume
  BY <1>10, ResumedRight DEF ThreadsResume, TypeInv, StoppedInv
<1>11. CASE Destroy
  BY <1>11, ResumedRight DEF Destroy, TypeInv, StoppedInv
<1> QED
  BY <1>1, <1>2, <1>3, <1>4, <1>5, <1>6, <1>7, <1>8, <1>9, <1>10, <1>11
     DEF Next, WriterStep, InitStep, Rest

\* The threads of the process are stopped as the writer's list says, from the
\* constructor of LinuxPtraceDumper to its destructor.
THEOREM WriterInvHolds == Spec => []WriterInv
<1>1. Init => WriterInv
  <2> SUFFICES ASSUME Init PROVE WriterInv
    OBVIOUS
  <2>1. /\ thread = [t \in Tids |->
                        IF t \in FirstThreads THEN "running" ELSE "absent"]
        /\ pc = "threads" /\ next = 1 /\ threads = <<>>
        /\ suspended = FALSE /\ loaded = FirstLibraries
    BY DEF Init
  <2>2. threads \in Seq(Tids) /\ DOMAIN threads = {}
    BY <2>1
  <2>3. thread \in [Tids -> {"absent", "running", "stopped", "gone"}]
    BY <2>1
  <2>4. \A t \in Tids : thread[t] # "stopped"
    BY <2>1
  <2>5. TypeInv
    <3>1. next \in Nat \ {0} /\ pc \in Enumerating
      BY <2>1 DEF Enumerating
    <3>2. suspended \in BOOLEAN
      BY <2>1, Zenon
    <3>3. \A i, j \in DOMAIN threads : threads[i] = threads[j] => i = j
      BY <2>2
    <3> QED
      BY <2>1, <2>2, <2>3, <3>1, <3>2, <3>3, WriterAssumption, Zenon
         DEF TypeInv
  <2> QED
    BY <2>4, <2>5 DEF WriterInv, StoppedInv
<1> QED
  BY <1>1, WriterStepKeeps, PTL DEF Spec

\* Whether WriteMinidump succeeds, fails in any of its steps or the writer
\* is killed, ThreadsResume, the destructor and the kernel between them let
\* every thread go on that ThreadsSuspend has stopped.
THEOREM NobodyLeftStopped == Spec => []NoneLeftStopped
<1>1. WriterInv => NoneLeftStopped
  BY DEF WriterInv, StoppedInv, NoneLeftStopped, Ended
<1> QED
  BY <1>1, WriterInvHolds, PTL

-----------------------------------------------------------------------------
\* What the process does to the threads that the writer has listed.
LEMMA ProcessKeeps ==
    ASSUME WriterInv, ContextInv, ProcessStep
    PROVE  ContextInv'
<1> USE DEF WriterInv, ContextInv, Present
<1>1. UNCHANGED <<scenario, pc, next, threads, crashing_thread_context>>
  BY ProcessShape
<1>2. /\ InList(CrashThread)' <=> InList(CrashThread)
      /\ FoundInv'
  BY <1>1 DEF InList, FoundInv
<1>3. /\ CrashThread \in Tids
      /\ \A i \in DOMAIN threads : threads[i] \in Tids
  BY WriterAssumption DEF TypeInv
<1>4. ASSUME \/ /\ Died' <=> Died
                /\ Dead => Dead'
                /\ \A t \in Tids :
                        thread[t] = "stopped" => thread'[t] = "stopped"
             \/ Died' /\ Dead',
             thread'[CrashThread] # "absent"
      PROVE  ContextInv'
  <2>1. CrashedInv'
    BY <1>1, <1>2, <1>4 DEF CrashedInv
  <2>2. AttachedInv'
    <3>1. CASE Dead'
      BY <1>1, <3>1 DEF AttachedInv
    <3>2. CASE ~Dead'
      BY <1>1, <1>3, <1>4, <3>2 DEF AttachedInv
    <3> QED
      BY <3>1, <3>2
  <2> QED
    BY <1>2, <2>1, <2>2
<1>5. ASSUME NEW t \in Tids, ThreadStarts(t) PROVE ContextInv'
  <2>1. /\ thread[t] = "absent" /\ thread' = [thread EXCEPT ![t] = "running"]
        /\ ~Dead
    BY <1>5 DEF ThreadStarts, Active, Dead
  <2>2. t # CrashThread
    BY <2>1 DEF CrashedInv
  <2> QED
    BY <1>3, <1>4, <2>1, <2>2 DEF TypeInv, CrashedInv, Died
<1>6. ASSUME NEW t \in Tids, ThreadExits(t) PROVE ContextInv'
  <2>1. /\ t # CrashThread /\ thread[t] = "running"
        /\ thread' = [thread EXCEPT ![t] = "gone"]
    BY <1>6 DEF ThreadExits, Active
  <2> QED
    BY <1>3, <1>4, <2>1 DEF TypeInv, CrashedInv, Died, Dead
<1>7. ASSUME NEW l, LoadLibrary(l) PROVE ContextInv'
  BY <1>4, <1>7 DEF LoadLibrary, CrashedInv, Died, Dead
<1>8. CASE ProcessDies
  BY <1>3, <1>4, <1>8 DEF ProcessDies, TypeInv, CrashedInv, Died, Dead
<1> QED
  BY <1>5, <1>6, <1>7, <1>8 DEF ProcessStep

\* The steps of Dump up to the exception stream.
LEMMA DumpKeeps ==
    ASSUME WriterInv, ContextInv, DumpStep
    PROVE  ContextInv'
<1> USE DEF WriterInv, ContextInv, AtThreads, AtCrash, AtRest
<1>1. /\ UNCHANGED <<scenario, thread, threads, suspended>>
      /\ pc \in AtThreads \cup AtCrash \cup AtRest
      /\ pc' \in AtThreads \cup AtCrash \cup AtRest \cup {"exit"}
  BY DumpStepShape
<1>2. /\ Died' <=> Died
      /\ Dead' <=> Dead
      /\ InList(CrashThread)' <=> InList(CrashThread)
  BY <1>1 DEF Died, Dead, Present, InList
<1>3. ASSUME pc' \in AtThreads => pc \in AtThreads, FoundInv'
      PROVE  ContextInv'
  BY <1>1, <1>2, <1>3 DEF CrashedInv, AttachedInv
<1>4. ASSUME pc \in AtCrash \cup AtRest,
             pc' \notin AtThreads, pc' \in AtCrash => pc \in AtCrash,
             UNCHANGED crashing_thread_context
      PROVE  ContextInv'
  BY <1>3, <1>4 DEF FoundInv
<1>5. CASE WriteHeader
  <2>1. pc = "header" /\ pc' \in {"thread_list", "exit"}
    BY <1>5 DEF WriteHeader, GoOn, Fail, Exit
  <2> QED
    BY <1>3, <2>1 DEF FoundInv
<1>6. CASE StartThreadList
  <2>1. pc = "thread_list" /\ pc' \in {"thread", "exit"} /\ next' = 1
    BY <1>6 DEF StartThreadList, AllocateList, GoOn, Fail, Exit
  <2>2. DOMAIN threads = 1..Len(threads)
    BY DEF TypeInv
  <2> QED
    BY <1>1, <1>3, <2>1, <2>2 DEF FoundInv
<1>7. CASE WriteThread
  <2> DEFINE t == threads[next]
  <2>1. /\ pc = "thread" /\ next <= Len(threads)
        /\ \/ pc' = "exit"
           \/ /\ FromHandler(t) \/ Attached(t)
              /\ pc' = "thread" /\ next' = next + 1
              /\ \E rva : crashing_thread_context' =
                    CrashContext(t, [size |-> SizeOf.context, rva |-> rva])
    BY <1>7 DEF WriteThread, GoOn, Fail, Exit
  <2>2. /\ DOMAIN threads = 1..Len(threads) /\ Len(threads) \in Nat
        /\ next \in Nat \ {0} /\ t \in Tids
    BY <2>1 DEF TypeInv
  <2>3. CASE pc' = "exit"
    BY <1>3, <2>1, <2>3 DEF FoundInv
  <2>4. CASE pc' = "thread"
    <3>1. PICK rva : /\ FromHandler(t) \/ Attached(t)
                     /\ next' = next + 1
                     /\ crashing_thread_context' =
                          CrashContext(t, [size |-> SizeOf.context,
                                           rva |-> rva])
      BY <2>1, <2>4
    <3>2. [size |-> SizeOf.context, rva |-> rva] # Uninitialized
      BY DEF SizeOf, Uninitialized
    <3>3. /\ t = CrashThread =>
                crashing_thread_context' # Uninitialized
          /\ t # CrashThread => UNCHANGED crashing_thread_context
      BY <3>1, <3>2 DEF CrashContext
    <3>4. InList(CrashThread)
      <4>1. t = CrashThread => InList(CrashThread)
        BY <2>1, <2>2 DEF InList
      <4>2. t # CrashThread => ~Dead
        BY <2>2, <3>1 DEF FromHandler, Attached, Dead, Present
      <4> QED
        BY <2>1, <4>1, <4>2 DEF CrashedInv
    <3>5. ASSUME NEW i \in DOMAIN threads, i < next + 1,
                 threads[i] = CrashThread
          PROVE  crashing_thread_context' # Uninitialized
      <4>1. i = next \/ i < next
        BY <2>2, <3>5
      <4> QED
        BY <2>1, <3>3, <3>5, <4>1 DEF FoundInv
    <3>6. FoundInv'
      BY <1>1, <1>2, <2>4, <3>1, <3>4, <3>5 DEF FoundInv
    <3> QED
      BY <1>3, <2>1, <3>6
  <2> QED
    BY <2>1, <2>3, <2>4
<1>8. CASE EndThreadList
  <2>1. /\ pc = "thread" /\ next > Len(threads) /\ pc' = "enter_threads"
        /\ UNCHANGED crashing_thread_context
    BY <1>8 DEF EndThreadList, EndStream, GoOn, Leaves
  <2>2. /\ Len(threads) \in Nat \ {0} /\ DOMAIN threads = 1..Len(threads)
        /\ next \in Nat
    BY <2>1 DEF TypeInv, AttachedInv
  <2>3. PICK i \in DOMAIN threads : threads[i] = CrashThread
    BY <2>1, <2>2 DEF FoundInv, InList
  <2>4. crashing_thread_context # Uninitialized
    BY <2>1, <2>2, <2>3 DEF FoundInv
  <2> QED
    BY <1>3, <2>1, <2>4 DEF FoundInv
<1>9. CASE StartModuleList \/ StartMemoryList
  BY <1>4, <1>9 DEF StartModuleList, StartMemoryList, AllocateList, GoOn,
     Fail, Exit
<1>10. CASE WriteModule \/ EndModuleList
  BY <1>4, <1>10 DEF WriteModule, EndModuleList, EndStream, Leaves, GoOn,
     Fail, Exit, stream
<1>11. CASE WriteAppMemory
  BY <1>4, <1>11 DEF WriteAppMemory, GoOn, Fail, Exit
<1>12. CASE WriteMemory \/ EndMemoryList
  BY <1>4, <1>12 DEF WriteMemory, EndMemoryList, EndStream, Leaves, GoOn,
     stream
<1>13. CASE WriteExceptionStream
  BY <1>4, <1>13 DEF WriteExceptionStream, WriteObject, Leaves, GoOn, Fail,
     Exit, stream
<1>14. CASE WriteSystemInfoStream
  BY <1>4, <1>14 DEF WriteSystemInfoStream, WriteObject, Leaves, GoOn, Fail,
     Exit, stream
<1>15. CASE WriteFile
  BY <1>4, <1>15 DEF WriteFile, WriteObject, Leaves, GoOn, Nullify
<1>16. CASE CountDSOs
  BY <1>4, <1>16 DEF CountDSOs, GoOn, Nullify
<1>17. CASE WriteDSO \/ WriteDSODebugStream
  BY <1>4, <1>17 DEF WriteDSO, WriteDSODebugStream, WriteObject, Leaves,
     GoOn, Nullify
<1>18. CASE EnterStream
  BY <1>4, <1>18 DEF EnterStream, Enter, GoOn, stream
<1> QED
  BY <1>5, <1>6, <1>7, <1>8, <1>9, <1>10, <1>11, <1>12, <1>13, <1>14, <1>15,
     <1>16, <1>17, <1>18 DEF DumpStep

LEMMA ContextStep == WriterInv /\ ContextInv /\ [Next]_vars => ContextInv'
<1> SUFFICES ASSUME WriterInv, ContextInv, [Next]_vars PROVE ContextInv'
  OBVIOUS
<1> USE DEF WriterInv, ContextInv, Enumerating, AtThreads, AtCrash, AtRest
<1>1. /\ CrashThread \in Tids
      /\ Len(threads) \in Nat /\ DOMAIN threads = 1..Len(threads)
      /\ \A i \in DOMAIN threads : threads[i] \in Tids
  BY WriterAssumption DEF TypeInv
<1>2. CASE UNCHANGED vars
  BY <1>2 DEF vars, CrashedInv, AttachedInv, FoundInv, Died, Dead, Present,
     InList
<1>3. CASE ProcessStep
  BY <1>3, ProcessKeeps
<1>4. CASE DumpStep
  BY <1>4, DumpKeeps
<1>5. ASSUME pc' \in {"exit", "done", "killed"}, UNCHANGED scenario,
             \A t \in Tids : /\ Present(t)' <=> Present(t)
                             /\ (thread'[t] = "gone") <=> (thread[t] = "gone")
      PROVE  ContextInv'
  <2>1. (Died' <=> Died) /\ (Dead' <=> Dead)
    BY <1>1, <1>5 DEF Died, Dead
  <2>2. thread'[CrashThread] # "absent"
    BY <1>1, <1>5 DEF CrashedInv, Present, TypeInv
  <2> QED
    BY <1>5, <2>1, <2>2 DEF CrashedInv, AttachedInv, FoundInv
<1>6. CASE WriterKilled
  BY <1>5, <1>6 DEF WriterKilled, Present, TypeInv
<1>7. CASE ThreadsResume \/ Destroy
  BY <1>5, <1>7 DEF ThreadsResume, Destroy, Resumed, Present, TypeInv
<1>8. ASSUME UNCHANGED <<scenario, thread>>
      PROVE  (Died' <=> Died) /\ (Dead' <=> Dead)
  BY <1>8 DEF Died, Dead, Present
<1>9. CASE EnumerateThreads
  <2>1. pc = "threads" /\ UNCHANGED <<scenario, thread>>
    BY <1>9 DEF EnumerateThreads, process
  <2>2. CASE Dead
    <3>1. pc' = "exit"
      BY <1>9, <2>2 DEF EnumerateThreads, Exit
    <3> QED
      BY <1>8, <2>1, <3>1 DEF CrashedInv, AttachedInv, FoundInv
  <2>3. CASE ~Dead
    <3> DEFINE S == {t \in Tids : Present(t)}
    <3>1. threads' = Listing(S) /\ pc' = "mappings"
      BY <1>9, <2>3 DEF EnumerateThreads
    <3>2. S \in SUBSET Nat /\ IsFiniteSet(S)
      BY WriterAssumption, FS_Subset
    <3>3. CrashThread \in S
      BY <1>1, <2>3 DEF CrashedInv, Died, Present, TypeInv
    <3> HIDE DEF S
    <3>4. InList(CrashThread)'
      BY <3>1, <3>2, <3>3, ListingRight DEF InList
    <3> QED
      BY <1>8, <2>1, <3>1, <3>4 DEF CrashedInv, AttachedInv, FoundInv
  <2> QED
    BY <2>2, <2>3
<1>10. CASE EnumerateMappings
  <2>1. /\ pc = "mappings" /\ UNCHANGED <<scenario, thread, threads>>
        /\ next' = 1 /\ pc' \in {"suspend", "exit"}
    BY <1>10 DEF EnumerateMappings, Exit, process
  <2> QED
    BY <1>1, <1>8, <2>1 DEF CrashedInv, AttachedInv, FoundInv, InList
<1>11. CASE SuspendThread
  <2>1. /\ pc = "suspend" /\ pc' = pc /\ next <= Len(threads)
        /\ UNCHANGED scenario
    BY <1>11 DEF SuspendThread
  <2>2. next \in DOMAIN threads /\ threads[next] \in Tids /\ next \in Nat
    BY <1>1, <2>1 DEF TypeInv
  <2>3. CASE CanAttach(threads[next])
    <3>1. /\ thread' = [thread EXCEPT ![threads[next]] = "stopped"]
          /\ thread[threads[next]] = "running"
          /\ next' = next + 1 /\ UNCHANGED threads
      BY <1>11, <2>3 DEF SuspendThread, CanAttach
    <3>2. \A t \in Tids : /\ Present(t)' <=> Present(t)
                          /\ (thread'[t] = "gone") <=> (thread[t] = "gone")
      BY <2>2, <3>1 DEF Present, TypeInv
    <3>3. (Died' <=> Died) /\ (Dead' <=> Dead)
      BY <1>1, <3>2 DEF Died, Dead
    <3>4. CrashedInv'
      BY <1>1, <2>1, <2>2, <3>1, <3>3 DEF CrashedInv, InList, TypeInv
    <3>5. ASSUME NEW i \in DOMAIN threads, i < next + 1
          PROVE  thread'[threads[i]] = "stopped" \/ Dead'
      <4>1. CASE threads[i] = threads[next]
        BY <2>2, <3>1, <4>1 DEF TypeInv
      <4>2. CASE threads[i] # threads[next]
        <5>1. i < next
          BY <1>1, <2>2, <3>5, <4>2
        <5> QED
          BY <1>1, <2>1, <2>2, <3>1, <3>3, <4>2, <5>1
             DEF AttachedInv, TypeInv
      <4> QED
        BY <4>1, <4>2
    <3> QED
      BY <2>1, <3>1, <3>4, <3>5 DEF AttachedInv, FoundInv
  <2>4. CASE ~CanAttach(threads[next])
    <3>1. /\ threads' = RemoveAt(threads, next)
          /\ UNCHANGED <<thread, next>>
      BY <1>11, <2>4 DEF SuspendThread
    <3>2. /\ DOMAIN threads' = 1..(Len(threads) - 1)
          /\ \A j \in 1..(Len(threads) - 1) :
                threads'[j] = IF j < next THEN threads[j] ELSE threads[j + 1]
      BY <2>2, <3>1, RemoveAtRight DEF TypeInv
    <3>3. (Died' <=> Died) /\ (Dead' <=> Dead)
      BY <1>8, <2>1, <3>1
    <3>4. ASSUME ~Died PROVE InList(CrashThread)'
      <4>1. PICK i \in DOMAIN threads : threads[i] = CrashThread
        BY <2>1, <3>4 DEF CrashedInv, InList
      <4>2. thread[CrashThread] \in {"running", "stopped"}
        BY <1>1, <3>4 DEF CrashedInv, Died, TypeInv
      <4>3. i # next
        <5>1. thread[CrashThread] = "running" => i # next
          BY <2>4, <4>1 DEF CanAttach, CrashedInv
        <5>2. thread[CrashThread] = "stopped" => i # next
          <6>1. ASSUME thread[CrashThread] = "stopped"
                PROVE  \E k \in DOMAIN threads :
                            threads[k] = CrashThread /\ k < next
            BY <1>1, <2>1, <6>1 DEF StoppedInv
          <6> QED
            BY <1>1, <2>2, <4>1, <6>1 DEF TypeInv
        <5> QED
          BY <4>2, <5>1, <5>2
      <4> DEFINE k == IF i < next THEN i ELSE i - 1
      <4>4. k \in DOMAIN threads' /\ threads'[k] = CrashThread
        BY <1>1, <2>2, <3>2, <4>1, <4>3
      <4> QED
        BY <4>4 DEF InList
    <3>5. CrashedInv'
      BY <2>1, <3>1, <3>3, <3>4 DEF CrashedInv
    <3>6. \A i \in DOMAIN threads' : i < next => threads'[i] = threads[i]
                                               /\ i \in DOMAIN threads
      BY <1>1, <3>2
    <3>7. AttachedInv'
      BY <2>1, <3>1, <3>3, <3>6 DEF AttachedInv
    <3> QED
      BY <2>1, <3>5, <3>7 DEF FoundInv
  <2> QED
    BY <2>3, <2>4
<1>12. CASE ThreadsSuspended
  <2>1. /\ pc = "suspend" /\ next > Len(threads)
        /\ UNCHANGED <<scenario, thread, threads>>
        /\ pc' \in {"open", "exit"} /\ (pc' = "open" => threads # <<>>)
    BY <1>12 DEF ThreadsSuspended, Exit, process
  <2>2. \A i \in DOMAIN threads : i < next
    BY <1>1, <2>1 DEF TypeInv
  <2> QED
    BY <1>8, <2>1, <2>2 DEF CrashedInv, AttachedInv, FoundInv, InList
<1>13. CASE LateInit
  <2>1. /\ pc = "open" /\ UNCHANGED <<scenario, thread, threads>>
        /\ pc' \in {"header", "exit"}
    BY <1>13 DEF LateInit, Exit, process
  <2> QED
    BY <1>8, <2>1 DEF CrashedInv, AttachedInv, FoundInv, InList
<1> QED
  BY <1>2, <1>3, <1>4, <1>6, <1>7, <1>9, <1>10, <1>11, <1>12, <1>13
     DEF Next, WriterStep, InitStep, Rest

LEMMA InitContext == CrashNotTraced /\ Init => ContextInv
<1> SUFFICES ASSUME CrashNotTraced, Init PROVE ContextInv
  OBVIOUS
<1>1. /\ CrashThread \notin scenario.traced /\ pc = "threads"
      /\ thread = [t \in Tids |->
                      IF t \in FirstThreads THEN "running" ELSE "absent"]
  BY DEF Init, CrashNotTraced
<1>2. thread[CrashThread] = "running"
  BY <1>1, WriterAssumption
<1> QED
  BY <1>1, <1>2 DEF ContextInv, CrashedInv, AttachedInv, FoundInv, Died,
     AtThreads, AtCrash

\* WriteExceptionStream never writes the crash context's location as the
\* constructor of MinidumpWriter left it, whichever threads end or die while
\* they are being listed, stopped and written.
THEOREM CrashContextSet == CrashNotTraced /\ Spec => []ContextSet
<1>1. ContextInv => ContextSet
  BY DEF ContextInv, FoundInv, ContextSet, AtCrash
<1> QED
  BY <1>1, InitContext, ContextStep, WriterInvHolds, PTL DEF Spec

-----------------------------------------------------------------------------
\* Why a dump may fail.
Reason ==
    \/ Died \/ faulty \/ scenario.exists
    \/ scenario.skip /\ ~(scenario.context /\ CrashThread \in scenario.refers)

ReasonInv == result = "failed" => Reason

\* A process without threads has lost the one that crashed.
LEMMA DeadDied == ASSUME WriterInv, ContextInv, Dead PROVE Died
BY WriterAssumption DEF WriterInv, TypeInv, ContextInv, CrashedInv, Dead, Died,
   Present

\* A reason remains one.
LEMMA ReasonKept ==
    ASSUME UNCHANGED scenario, faulty => faulty',
           thread[CrashThread] = "gone" => thread'[CrashThread] = "gone"
    PROVE  Reason => Reason'
BY DEF Reason, Died

\* A step of Dump fails because an allocation in the file did, or because a
\* thread could not be read any more.
LEMMA DumpFailure ==
    ASSUME WriterInv, ContextInv, DumpStep
    PROVE  /\ UNCHANGED scenario /\ UNCHANGED thread
           /\ faulty => faulty'
           /\ result' = "failed" => result = "failed" \/ faulty' \/ Dead
<1> USE DEF process, GoOn, Fail, Exit, Nullify, AllocateList, EndStream,
            WriteObject
<1>1. CASE WriteHeader
  BY <1>1 DEF WriteHeader
<1>2. CASE StartThreadList
  BY <1>2 DEF StartThreadList
<1>3. CASE WriteThread
  <2>1. /\ pc = "thread" /\ next <= Len(threads)
        /\ UNCHANGED scenario /\ UNCHANGED thread /\ (faulty => faulty')
        /\ result' = "failed" => \/ result = "failed" \/ faulty'
                                 \/ ~Attached(threads[next])
    BY <1>3 DEF WriteThread
  <2>2. next \in DOMAIN threads
    BY <2>1 DEF WriterInv, TypeInv
  <2>3. Attached(threads[next]) \/ Dead
    BY <2>1, <2>2 DEF ContextInv, AttachedInv, AtThreads, Attached
  <2> QED
    BY <2>1, <2>3
<1>4. CASE EndThreadList
  BY <1>4 DEF EndThreadList
<1>5. CASE StartModuleList
  BY <1>5 DEF StartModuleList
<1>6. CASE WriteModule
  BY <1>6 DEF WriteModule
<1>7. CASE EndModuleList
  BY <1>7 DEF EndModuleList
<1>8. CASE WriteAppMemory
  BY <1>8 DEF WriteAppMemory
<1>9. CASE StartMemoryList
  BY <1>9 DEF StartMemoryList
<1>10. CASE WriteMemory
  BY <1>10 DEF WriteMemory
<1>11. CASE EndMemoryList
  BY <1>11 DEF EndMemoryList
<1>12. CASE WriteExceptionStream
  BY <1>12 DEF WriteExceptionStream
<1>13. CASE WriteSystemInfoStream
  BY <1>13 DEF WriteSystemInfoStream
<1>14. CASE WriteFile
  BY <1>14 DEF WriteFile
<1>15. CASE CountDSOs
  BY <1>15 DEF CountDSOs
<1>16. CASE WriteDSO
  BY <1>16 DEF WriteDSO
<1>17. CASE WriteDSODebugStream
  BY <1>17 DEF WriteDSODebugStream
<1>18. CASE EnterStream
  BY <1>18 DEF EnterStream, Enter
<1> QED
  BY <1>1, <1>2, <1>3, <1>4, <1>5, <1>6, <1>7, <1>8, <1>9, <1>10, <1>11,
     <1>12, <1>13, <1>14, <1>15, <1>16, <1>17, <1>18 DEF DumpStep

LEMMA ReasonStep ==
    WriterInv /\ ContextInv /\ ReasonInv /\ [Next]_vars => ReasonInv'
<1> SUFFICES ASSUME WriterInv, ContextInv, ReasonInv, [Next]_vars
             PROVE  ReasonInv'
  OBVIOUS
<1>1. ASSUME UNCHANGED <<scenario, faulty>>,
             result' # "failed" \/ UNCHANGED result,
             thread[CrashThread] = "gone" => thread'[CrashThread] = "gone"
      PROVE  ReasonInv'
  BY <1>1, ReasonKept DEF ReasonInv
<1>2. ASSUME UNCHANGED <<scenario, faulty, thread>>,
             result' = "failed" => Reason \/ Dead \/ UNCHANGED result
      PROVE  ReasonInv'
  <2>1. Dead => Reason
    BY DeadDied DEF Reason
  <2> QED
    BY <1>2, <2>1, ReasonKept DEF ReasonInv
<1>3. CrashThread \in Tids /\ DOMAIN thread = Tids
  BY WriterAssumption DEF WriterInv, TypeInv
<1>4. CASE UNCHANGED vars
  BY <1>1, <1>4 DEF vars
<1>5. CASE ProcessStep
  <2>1. UNCHANGED <<scenario, faulty, result>>
    BY <1>5 DEF ProcessStep, ThreadStarts, ThreadExits, LoadLibrary,
       ProcessDies
  <2>2. thread[CrashThread] = "gone" => thread'[CrashThread] = "gone"
    BY <1>3, <1>5 DEF ProcessStep, ThreadStarts, ThreadExits, LoadLibrary,
       ProcessDies, Present
  <2> QED
    BY <1>1, <2>1, <2>2
<1>6. CASE DumpStep
  <2>1. /\ UNCHANGED <<scenario, thread>> /\ (faulty => faulty')
        /\ result' = "failed" => result = "failed" \/ faulty' \/ Dead
    BY <1>6, DumpFailure
  <2>2. Reason => Reason'
    BY <2>1, ReasonKept
  <2>3. Dead => Reason'
    BY <2>2, DeadDied DEF Reason
  <2>4. faulty' => Reason'
    BY DEF Reason
  <2> QED
    BY <2>1, <2>2, <2>3, <2>4 DEF ReasonInv
<1>7. CASE WriterKilled
  BY <1>1, <1>3, <1>7 DEF WriterKilled
<1>8. CASE EnumerateThreads
  BY <1>2, <1>8 DEF EnumerateThreads, process
<1>9. CASE EnumerateMappings
  <2>1. /\ UNCHANGED <<scenario, faulty, thread>>
        /\ mappings' = IF Dead THEN <<>>
                       ELSE EntryFirst(MergedMappings(Maps))
        /\ mappings' # <<>> => UNCHANGED result
    BY <1>9 DEF EnumerateMappings, process
  <2>2. ~Dead => mappings' # <<>>
    BY <2>1, MappingsRight DEF WriterInv
  <2> QED
    BY <1>2, <2>1, <2>2
<1>10. CASE SuspendThread
  <2>1. UNCHANGED <<scenario, faulty, result>>
    BY <1>10 DEF SuspendThread
  <2>2. thread[CrashThread] = "gone" => thread'[CrashThread] = "gone"
    BY <1>3, <1>10 DEF SuspendThread, CanAttach
  <2> QED
    BY <1>1, <2>1, <2>2
<1>11. CASE ThreadsSuspended
  <2>1. /\ UNCHANGED <<scenario, faulty, thread>> /\ pc = "suspend"
        /\ threads # <<>> => UNCHANGED result
    BY <1>11 DEF ThreadsSuspended, process
  <2>2. threads = <<>> => Died
    BY <2>1 DEF ContextInv, CrashedInv, InList
  <2> QED
    BY <1>2, <2>1, <2>2 DEF Reason
<1>12. CASE LateInit
  <2>1. /\ UNCHANGED <<scenario, faulty, thread>>
        /\ result' = "failed" => Reason \/ UNCHANGED result
    BY <1>12 DEF LateInit, process, Reason
  <2> QED
    BY <1>2, <2>1
<1>13. CASE ThreadsResume
  BY <1>1, <1>3, <1>13 DEF ThreadsResume, Resumed
<1>14. CASE Destroy
  BY <1>1, <1>3, <1>14 DEF Destroy, Resumed
<1> QED
  BY <1>4, <1>5, <1>6, <1>7, <1>8, <1>9, <1>10, <1>11, <1>12, <1>13, <1>14
     DEF Next, WriterStep, InitStep, Rest

\* WriteMinidump fails only if the process died, the file could not grow, it
\* existed before, or the caller asked to leave out a crash that does not
\* refer to the principal mapping: whatever threads start and end and
\* whatever libraries are loaded while Init lists and stops the process,
\* there is a thread in the list, a mapping, and every thread can be read.
THEOREM DumpFailsForAReason == CrashNotTraced /\ Spec => []FailsForAReason
<1>1. Init => ReasonInv
  BY DEF Init, ReasonInv
<1>2. ReasonInv => FailsForAReason
  BY DEF ReasonInv, Reason, FailsForAReason
<1> QED
  BY <1>1, <1>2, InitContext, ReasonStep, ContextStep, WriterInvHolds, PTL
     DEF Spec
-----------------------------------------------------------------------------
\* A piece of the stack of thread t, if it is not empty, has the word at sp
\* in it, or it is the chunk that ends there.
InPiece(stack, sp) ==
    \/ sp < stack.start + stack.size
    \/ /\ sp = stack.start + stack.size
       /\ stack.size = kLimitMaxExtraThreadStackLen
       /\ sp % PageSize # 0

Reaches(stack, t) ==
    stack.size > 0 => stack.start <= Stack[t].sp /\ InPiece(stack, Stack[t].sp)

\* What is written as an entry of the thread list describes such a piece.
IsContent(data) ==
    "stack" \in DOMAIN data => Reaches(data.stack, data.thread)

Holds(disk) ==
    \A p \in DOMAIN disk : /\ {"len", "data"} \subseteq DOMAIN disk[p]
                           /\ IsContent(disk[p].data)

\* A writer between two calls, and what any call leaves.
Sound(x) == IsWriter(x) /\ Holds(x.disk)
Grows(x, y) == Sound(y) /\ x.position <= y.position

\* The descriptor of a piece of memory in the file.
Piece == [start : Int, size : Nat, rva : Nat]

\* Writing an object keeps the others or damages them.
LEMMA WrittenHolds ==
    ASSUME NEW disk, Holds(disk), NEW at, NEW len, NEW data, IsContent(data),
           NEW d, d = Written(disk, at, len, data)
    PROVE  Holds(d)
<1>1. DOMAIN d = DOMAIN disk \cup {at}
  BY DEF Written
<1>2. ASSUME NEW p \in DOMAIN d
      PROVE  {"len", "data"} \subseteq DOMAIN d[p] /\ IsContent(d[p].data)
  <2>1. CASE p = at
    <3>1. d[p] = [len |-> len, data |-> data]
      BY <2>1 DEF Written
    <3> QED
      BY <3>1
  <2>2. CASE p # at
    <3>1. p \in DOMAIN disk
      BY <1>1, <2>2
    <3>2. d[p] = disk[p] \/ d[p] = [disk[p] EXCEPT !.data = Damaged]
      BY <1>1, <2>2 DEF Written
    <3>3. {"len", "data"} \subseteq DOMAIN disk[p] /\ IsContent(disk[p].data)
      BY <3>1 DEF Holds
    <3>4. IsContent(Damaged)
      BY DEF IsContent, Damaged
    <3>5. CASE d[p] = [disk[p] EXCEPT !.data = Damaged]
      <4>1. d[p].data = Damaged /\ DOMAIN d[p] = DOMAIN disk[p]
        BY <3>3, <3>5
      <4> QED
        BY <3>3, <3>4, <4>1
    <3> QED
      BY <3>2, <3>3, <3>5
  <2> QED
    BY <2>1, <2>2
<1> QED
  BY <1>2 DEF Holds

LEMMA GrowsFurther ==
    ASSUME NEW x, NEW y, NEW z, Sound(x), Grows(x, y), Grows(y, z)
    PROVE  Grows(x, z)
BY DEF Grows, Sound, IsWriter

LEMMA CopyGrows ==
    ASSUME NEW x, Sound(x), NEW rva \in Nat, NEW len \in Nat, NEW data,
           IsContent(data)
    PROVE  /\ Grows(x, Copy(x, rva, len, data))
           /\ Copy(x, rva, len, data).position = x.position
<1> DEFINE c == Copy(x, rva, len, data)
<1>1. /\ IsWriter(c) /\ c.position = x.position
      /\ \/ c.disk = x.disk
         \/ \E at \in Nat : c.disk = Written(x.disk, at, len, data)
  BY CopyRight DEF Sound
<1> HIDE DEF c
<1>2. Holds(c.disk)
  BY <1>1, WrittenHolds DEF Sound
<1>3. x.position <= c.position
  BY <1>1 DEF Sound, IsWriter
<1> QED
  BY <1>1, <1>2, <1>3 DEF Grows, Sound, c

LEMMA AllocateGrows ==
    ASSUME NEW x, Sound(x), NEW n \in Nat
    PROVE  /\ Grows(x, Allocate(x, n))
           /\ x.position + n <= Allocate(x, n).position
<1> DEFINE a == Allocate(x, n)
<1>1. IsWriter(a) /\ x.position + n <= a.position /\ a.disk = x.disk
  BY AllocateInside DEF Sound
<1> HIDE DEF a
<1>2. x.position <= a.position
  BY <1>1 DEF Sound, IsWriter
<1> QED
  BY <1>1, <1>2 DEF Grows, Sound, a

LEMMA ZerosContent == IsContent(Zeros)
BY DEF IsContent, Zeros

LEMMA StringGrows ==
    ASSUME NEW x, Sound(x), NEW data, IsContent(data)
    PROVE  Grows(x, WriteString(x, NameLength, data))
<1> DEFINE c == WriteString(x, NameLength, data)
<1>1. NameLength \in Nat
  BY LimitAssumption
<1>2. /\ IsWriter(c) /\ x.position <= c.position
      /\ \/ c.disk = x.disk
         \/ \E at, len \in Nat :
               \/ c.disk = Written(x.disk, at, len, data)
               \/ c.disk = Written(x.disk, at, len, Zeros)
  BY <1>1, WriteStringRight DEF Sound
<1> HIDE DEF c
<1>3. Holds(c.disk)
  BY <1>2, WrittenHolds, ZerosContent DEF Sound
<1> QED
  BY <1>2, <1>3 DEF Grows, Sound, c

\* The file after an object has been written into what was allocated for it.
LEMMA ObjectGrows ==
    ASSUME NEW x, Sound(x), NEW n \in Nat, NEW len \in Nat, NEW data,
           IsContent(data)
    PROVE  LET c == Copy(Allocate(x, n), x.position, len, data)
           IN  Grows(x, c) /\ x.position + n <= c.position
<1> DEFINE a == Allocate(x, n)
           c == Copy(a, x.position, len, data)
<1>1. Grows(x, a) /\ x.position + n <= a.position
  BY AllocateGrows
<1>2. Sound(a) /\ x.position \in Nat
  BY <1>1 DEF Grows, Sound, IsWriter
<1> HIDE DEF a
<1>3. Grows(a, c) /\ c.position = a.position
  BY <1>2, CopyGrows
<1> HIDE DEF c
<1>4. Grows(x, c)
  BY <1>1, <1>3, GrowsFurther
<1> QED
  BY <1>1, <1>3, <1>4 DEF a, c

LEMMA InvalidGrows ==
    ASSUME NEW x, Sound(x), NEW len \in Nat
    PROVE  Grows(x, FlushInvalid(x, len))
<1>1. kInvalidMDRVA \in Nat
  BY FileWriterAssumption DEF kInvalidMDRVA
<1> QED
  BY <1>1, CopyGrows, ZerosContent DEF FlushInvalid

\* The entries of the directory and of the lists, and the count of a list.
LEMMA EnteredGrows ==
    ASSUME NEW x, Sound(x), dir \in Nat, NEW index \in Nat, NEW entry,
           IsContent(entry)
    PROVE  Grows(x, Entered(x, index, entry))
<1>1. dir + index * SizeOf.dirent \in Nat /\ SizeOf.dirent \in Nat
  BY SizesRight
<1> QED
  BY <1>1, CopyGrows DEF Entered, CopyIndex

LEMMA DirentContent ==
    ASSUME NEW type, NEW size, NEW rva PROVE IsContent(Dirent(type, size, rva))
BY DEF IsContent, Dirent

LEMMA CountGrows ==
    ASSUME NEW x, Sound(x), list \in Nat, NEW count
    PROVE  Grows(x, FlushCount(x, count))
<1>1. IsContent([count |-> count])
  BY DEF IsContent
<1> QED
  BY <1>1, SizesRight, CopyGrows DEF FlushCount

LEMMA IndexGrows ==
    ASSUME NEW x, Sound(x), list \in Nat, NEW i \in Nat \ {0}, NEW len \in Nat,
           NEW data, IsContent(data)
    PROVE  /\ Grows(x, CopyIndexAfterObject(x, list, SizeOf.count, i - 1, len,
                                            data))
           /\ Grows(x, CopyIndex(x, list, i - 1, len, data))
<1>1. i - 1 \in Nat /\ (i - 1) * len \in Nat
  OBVIOUS
<1>2. /\ list + SizeOf.count + (i - 1) * len \in Nat
      /\ list + (i - 1) * len \in Nat
  BY <1>1, SizesRight
<1> QED
  BY <1>2, CopyGrows DEF CopyIndexAfterObject, CopyIndex

\* A stream of one object, written with what x already has of the file.
LEMMA StreamGrows ==
    ASSUME Sound(w), NEW x, Grows(w, x), NEW type, NEW size \in Nat, NEW data,
           IsContent(data), NEW where, WriteObject(x, type, size, data, where)
    PROVE  /\ Grows(w, w') /\ pc' = where /\ IsContent(dirent')
           /\ UNCHANGED <<result, dir, list, extra_thread_stack_len,
                          memory_blocks, dso_count, crashing_thread_context>>
<1> DEFINE c == Copy(x, w.position, size, data)
<1>1. Sound(x) /\ w.position \in Nat
  BY DEF Grows, Sound, IsWriter
<1>2. Grows(x, c)
  BY <1>1, CopyGrows
<1>3. /\ w' = c /\ pc' = where /\ dirent' = Dirent(type, size, w.position)
      /\ UNCHANGED <<result, dir, list, extra_thread_stack_len, memory_blocks,
                     dso_count, crashing_thread_context>>
  BY DEF WriteObject, Leaves, GoOn
<1> HIDE DEF c
<1>4. Grows(w, c)
  BY <1>2, GrowsFurther
<1> QED
  BY <1>3, <1>4, DirentContent
-----------------------------------------------------------------------------
\* The page of an address, and what follows it in a mapping.
LEMMA PageRight ==
    ASSUME NEW sp \in Nat, NEW end \in Int, end % PageSize = 0,
           sp - (sp % PageSize) < end
    PROVE  LET page == sp - (sp % PageSize)
           IN  /\ page \in Int /\ page <= sp /\ sp < page + PageSize
               /\ page + PageSize <= end
<1> DEFINE page == sp - (sp % PageSize)
           q == end \div PageSize
           r == page \div PageSize
<1>1. PageSize \in Nat \ {0}
  BY FileWriterAssumption
<1>2. sp % PageSize \in 0..(PageSize - 1)
  BY <1>1
<1>3. page % PageSize = 0
  BY <1>1
<1>4. page \in Int /\ page <= sp /\ sp < page + PageSize
  BY <1>1, <1>2
<1> HIDE DEF page
<1>5. page = r * PageSize /\ end = q * PageSize /\ r \in Int /\ q \in Int
  BY <1>1, <1>3, <1>4
<1> HIDE DEF q, r
<1>6. r < q
  <2>1. SUFFICES ASSUME q <= r PROVE FALSE
    BY <1>5
  <2>2. r - q \in Nat
    BY <1>5, <2>1
  <2>3. (r - q) * PageSize \in Nat
    BY <1>1, <2>2
  <2>4. (r - q) * PageSize = r * PageSize - q * PageSize
    BY <1>1, <1>5
  <2>5. page < end
    BY DEF page
  <2> QED
    BY <1>4, <1>5, <2>3, <2>4, <2>5
<1>7. (q - r - 1) * PageSize \in Nat
  <2>1. q - r - 1 \in Nat
    BY <1>5, <1>6
  <2> QED
    BY <1>1, <2>1
<1>8. (q - r - 1) * PageSize = q * PageSize - r * PageSize - PageSize
  BY <1>1, <1>5
<1> QED
  BY <1>1, <1>4, <1>5, <1>7, <1>8 DEF page

\* GetStackInfo: the page of sp is mapped to its end, so sp lies inside what
\* is captured.
LEMMA StackInfoRight ==
    ASSUME IsMappings(mappings), NEW sp \in Nat, NEW info \in StackInfo(sp)
    PROVE  /\ info.start \in Int /\ info.size \in Nat
           /\ info.start <= sp /\ sp < info.start + info.size
           /\ sp % PageSize = 0 => info.start = sp
<1> DEFINE page == sp - (sp % PageSize)
<1>1. PICK i \in FindMapping(page) :
        info = [start |-> page,
                size |-> IF mappings[i].start + mappings[i].size - page
                              > kStackToCapture
                         THEN kStackToCapture
                         ELSE mappings[i].start + mappings[i].size - page]
  BY DEF StackInfo
<1> DEFINE end == mappings[i].start + mappings[i].size
<1>2. i \in DOMAIN mappings /\ MappingContains(mappings[i], page)
  BY DEF FindMapping
<1>3. IsMapping(mappings[i])
  BY <1>2 DEF IsMappings
<1>4. end \in Int /\ end % PageSize = 0
  BY <1>3 DEF IsMapping, EndsAPage
<1>5. page < end
  BY <1>2 DEF MappingContains
<1> DEFINE rest == mappings[i].start + mappings[i].size - page
<1>6. info.start = page /\ info.size = IF rest > kStackToCapture
                                       THEN kStackToCapture ELSE rest
  BY <1>1
<1>7. page \in Int
  BY FileWriterAssumption
<1>8. rest = end - page
  <2> HIDE DEF page
  <2> QED
    BY <1>3, <1>7 DEF IsMapping
<1> HIDE DEF end, rest
<1>9. /\ page \in Int /\ page <= sp /\ sp < page + PageSize
      /\ page + PageSize <= end
  BY <1>4, <1>5, PageRight
<1>10. sp % PageSize = 0 => page = sp
  OBVIOUS
<1> HIDE DEF page
<1> QED
  BY <1>4, <1>6, <1>9, <1>8, <1>10, LimitAssumption, FileWriterAssumption

\* A stack that is cut still has the word at sp, or ends there.
LEMMA LimitedRight ==
    ASSUME NEW info, info.start \in Int, info.size \in Nat,
           NEW sp \in Nat, info.start <= sp, sp < info.start + info.size,
           NEW max \in {-1, kLimitMaxExtraThreadStackLen},
           NEW b, b = Limited(info, sp, max)
    PROVE  /\ b.start \in Int /\ b.size \in Nat /\ b.start <= sp
           /\ \/ sp < b.start + b.size
              \/ /\ sp = b.start + b.size /\ info.start # sp
                 /\ b.size = kLimitMaxExtraThreadStackLen
<1>1. max = -1 \/ max \in Nat \ {0}
  BY LimitAssumption
<1>2. CASE max < 0 \/ info.size <= max
  BY <1>2 DEF Limited
<1>3. CASE ~(max < 0 \/ info.size <= max)
  <2> DEFINE n == sp - info.start - 1
             skip == IF sp > info.start THEN (n \div max) * max ELSE 0
  <2>1. max \in Nat \ {0}
    BY <1>1, <1>3
  <2>2. /\ b = [start |-> info.start + skip, size |-> max]
        /\ max = kLimitMaxExtraThreadStackLen
    BY <1>3 DEF Limited
  <2>3. CASE sp > info.start
    <3>1. n \in Nat
      BY <2>3
    <3>2. /\ (n \div max) * max <= n /\ n < (n \div max) * max + max
          /\ (n \div max) * max \in Nat
      <4> HIDE DEF n
      <4> QED
        BY <2>1, <3>1
    <3>3. skip = (n \div max) * max
      BY <2>3
    <3> HIDE DEF skip
    <3>4. skip \in Nat /\ skip <= n /\ n < skip + max
      BY <3>2, <3>3
    <3>5. sp = info.start + n + 1
      BY <2>3
    <3> HIDE DEF n
    <3>6. sp < info.start + skip + max \/ sp = info.start + skip + max
      BY <2>1, <3>1, <3>4, <3>5
    <3> QED
      BY <2>1, <2>2, <2>3, <3>1, <3>4, <3>5, <3>6
  <2>4. CASE ~(sp > info.start)
    BY <2>1, <2>2, <2>4
  <2> QED
    BY <2>3, <2>4
<1> QED
  BY <1>2, <1>3

\* FillThreadStack writes nothing, or a piece that reaches sp.
LEMMA StackBlocksRight ==
    ASSUME IsMappings(mappings), NEW t \in Tids,
           NEW max \in {-1, kLimitMaxExtraThreadStackLen},
           NEW b \in StackBlocks(t, max)
    PROVE  b.start \in Int /\ b.size \in Nat /\ Reaches(b, t)
<1>1. Stack[t].sp \in Nat
  BY MemoryAssumption
<1>2. PICK info \in StackInfo(Stack[t].sp) :
            b = Limited(info, Stack[t].sp, max)
  BY DEF StackBlocks
<1> DEFINE sp == Stack[t].sp
<1>3. /\ info.start \in Int /\ info.size \in Nat /\ info.start <= sp
      /\ sp < info.start + info.size
      /\ sp % PageSize = 0 => info.start = sp
  BY <1>1, <1>2, StackInfoRight
<1>4. /\ b.start \in Int /\ b.size \in Nat /\ b.start <= sp
      /\ \/ sp < b.start + b.size
         \/ /\ sp = b.start + b.size /\ info.start # sp
            /\ b.size = kLimitMaxExtraThreadStackLen
  BY <1>1, <1>2, <1>3, LimitedRight
<1> QED
  BY <1>3, <1>4 DEF Reaches, InPiece

\* The memory around the crash address is some bytes of its mapping.
LEMMA IpBlocksRight ==
    ASSUME IsMappings(mappings), NEW b \in IpBlocks
    PROVE  b.start \in Int /\ b.size \in Nat
<1> DEFINE ip == Stack[CrashThread].ip
           low(m) == IF m.start + kIPMemorySize \div 2 > ip THEN m.start
                     ELSE ip - kIPMemorySize \div 2
           high(m) == IF ip + kIPMemorySize \div 2 < m.start + m.size
                      THEN ip + kIPMemorySize \div 2 ELSE m.start + m.size
<1>1. ip \in Nat
  BY MemoryAssumption, WriterAssumption
<1>2. PICK i \in FindMapping(ip) :
        b = [start |-> low(mappings[i]),
             size |-> high(mappings[i]) - low(mappings[i])]
  BY DEF IpBlocks
<1> DEFINE m == mappings[i]
<1>3. i \in DOMAIN mappings /\ m.start <= ip /\ ip < m.start + m.size
  BY DEF FindMapping, MappingContains
<1>4. m.start \in Int /\ m.size \in Int
  BY <1>3 DEF IsMappings, IsMapping
<1>5. b.start = low(m) /\ b.size = high(m) - low(m)
  BY <1>2
<1>6. kIPMemorySize \div 2 = 128
  BY DEF kIPMemorySize
<1> HIDE DEF ip, m
<1>7. low(m) \in Int /\ high(m) \in Int /\ low(m) <= ip /\ ip <= high(m)
  BY <1>1, <1>3, <1>4, <1>6
<1> HIDE DEF low, high
<1> QED
  BY <1>1, <1>5, <1>7
-----------------------------------------------------------------------------
IsBlocks(blocks) == \A b \in blocks : b.start \in Int /\ b.size \in Nat

\* The descriptors found with that of one more block, at rva.
OneMore(found, blocks, rva, more) ==
    \E b \in blocks :
        more = Append(found, [start |-> b.start, size |-> b.size, rva |-> rva])

\* A piece of memory at the end of the file, and its descriptor.
LEMMA BlockGrows ==
    ASSUME NEW done, Sound(done.w), done.found \in Seq(Piece), NEW t,
           NEW blocks, IsBlocks(blocks),
           NEW r, r = WriteBlock(done, t, blocks)
    PROVE  /\ Grows(done.w, r.w) /\ r.found \in Seq(Piece) /\ (r.ok => done.ok)
           /\ r.ok /\ blocks # {} =>
                OneMore(done.found, blocks, done.w.position, r.found)
           /\ blocks = {} => r = done
<1>1. Grows(done.w, done.w)
  BY DEF Grows, Sound, IsWriter
<1>2. CASE ~done.ok \/ blocks = {}
  BY <1>1, <1>2 DEF WriteBlock
<1>3. CASE ~(~done.ok \/ blocks = {})
  <2> DEFINE b == CHOOSE b \in blocks : TRUE
             piece == [start |-> b.start, size |-> b.size,
                       rva |-> done.w.position]
             data == Peek(t, [start |-> b.start, size |-> b.size])
             c == Copy(Allocate(done.w, b.size), done.w.position, b.size, data)
  <2>1. b \in blocks
    BY <1>3
  <2>2. b.start \in Int /\ b.size \in Nat
    BY <2>1 DEF IsBlocks
  <2>3. piece \in Piece
    BY <2>2 DEF Piece, Sound, IsWriter
  <2>4. IsContent(data)
    BY ZerosContent DEF Peek, IsContent
  <2>5. CASE ~CanAllocate(done.w, b.size)
    <3>1. r = [ok |-> FALSE, w |-> done.w, found |-> done.found]
      BY <1>3, <2>5 DEF WriteBlock
    <3> QED
      BY <1>1, <1>3, <3>1
  <2>6. CASE CanAllocate(done.w, b.size)
    <3>1. r = [ok |-> TRUE, w |-> c, found |-> Append(done.found, piece)]
      BY <1>3, <2>6 DEF WriteBlock
    <3> HIDE DEF b, data
    <3>2. Grows(done.w, c)
      BY <2>2, <2>4, ObjectGrows
    <3> HIDE DEF c
    <3>3. Append(done.found, piece) \in Seq(Piece)
      BY <2>3
    <3>4. r.found = Append(done.found, piece) /\ r.w = c
      BY <3>1
    <3>5. OneMore(done.found, blocks, done.w.position, r.found)
      BY <2>1, <3>4 DEF OneMore
    <3> HIDE DEF piece
    <3> QED
      BY <1>3, <3>2, <3>3, <3>4, <3>5
  <2> QED
    BY <2>5, <2>6
<1> QED
  BY <1>2, <1>3

\* The modules are mappings.
LEMMA ModulesRight ==
    ASSUME IsMappings(mappings)
    PROVE  /\ Len(Modules) \in Nat /\ DOMAIN Modules = 1..Len(Modules)
           /\ \A i \in DOMAIN Modules : IsMapping(Modules[i])
<1> DEFINE included == {i \in DOMAIN mappings :
                            ShouldIncludeMapping(mappings[i])}
           order == Listing(included)
           S == {mappings[i] : i \in DOMAIN mappings}
<1>1. DOMAIN mappings = 1..Len(mappings) /\ Len(mappings) \in Nat
  BY DEF IsMappings
<1>2. included \in SUBSET Nat /\ IsFiniteSet(included)
  <2>1. IsFiniteSet(1..Len(mappings))
    BY <1>1, FS_Interval
  <2> QED
    BY <1>1, <2>1, FS_Subset
<1>3. order \in Seq(included)
  BY <1>2, ListingRight
<1>4. Modules = [k \in DOMAIN order |-> mappings[order[k]]]
  BY DEF Modules
<1>5. \A i \in included : i \in DOMAIN mappings
  OBVIOUS
<1> HIDE DEF included, order
<1>6. /\ DOMAIN order = 1..Len(order) /\ Len(order) \in Nat
      /\ \A k \in DOMAIN order : order[k] \in DOMAIN mappings
  BY <1>3, <1>5
<1>7. Modules \in [1..Len(order) -> S]
  BY <1>4, <1>6
<1>8. Modules \in Seq(S)
  BY <1>6, <1>7
<1>9. \A m \in S : IsMapping(m)
  BY DEF IsMappings
<1> HIDE DEF S
<1> QED
  BY <1>8, <1>9

\* LatePostprocessMappings.
LEMMA BiasedRight ==
    ASSUME IsMappings(mappings)
    PROVE  IsMappings([i \in DOMAIN mappings |-> Biased(mappings[i])])
<1> DEFINE f == [i \in DOMAIN mappings |-> Biased(mappings[i])]
<1>1. DOMAIN mappings = 1..Len(mappings) /\ Len(mappings) \in Nat
  BY DEF IsMappings
<1>2. ASSUME NEW m, IsMapping(m) PROVE IsMapping(Biased(m))
  <2>1. CASE m.exec /\ m.name # NoName /\ Attached(MainThread)
    <3> DEFINE b == Bias[m.name]
               n == Biased(m)
    <3>1. b \in Nat
      BY <1>2, <2>1, MemoryAssumption DEF IsMapping
    <3>2. n = [m EXCEPT !.start = m.start - b, !.size = m.size + b]
      BY <2>1 DEF Biased
    <3> HIDE DEF b, n
    <3>3. /\ n.start = m.start - b /\ n.size = m.size + b /\ n.name = m.name
          /\ DOMAIN n = DOMAIN m
      BY <1>2, <3>2 DEF IsMapping
    <3>4. (m.start - b) + (m.size + b) = m.start + m.size
      BY <1>2, <3>1 DEF IsMapping
    <3>5. n.start + n.size = m.start + m.size
      BY <3>3, <3>4
    <3>6. EndsAPage(n)
      BY <1>2, <3>5 DEF IsMapping, EndsAPage
    <3>7. n.start \in Int /\ n.size \in Int
      BY <1>2, <3>1, <3>3 DEF IsMapping
    <3> QED
      BY <1>2, <3>3, <3>6, <3>7 DEF IsMapping, n
  <2>2. CASE ~(m.exec /\ m.name # NoName /\ Attached(MainThread))
    BY <1>2, <2>2 DEF Biased
  <2> QED
    BY <2>1, <2>2
<1>3. \A i \in DOMAIN f : IsMapping(f[i])
  BY <1>2 DEF IsMappings
<1>4. f \in [1..Len(mappings) -> Range(f)]
  BY <1>1 DEF Range
<1>5. f \in Seq(Range(f))
  BY <1>1, <1>4
<1> QED
  BY <1>3, <1>5 DEF IsMappings
-----------------------------------------------------------------------------
\* The lists that the writer goes over, and how far it is.
ListInv ==
    /\ IsMappings(mappings)
    /\ memory_blocks \in Seq(Piece)
    /\ next <= LoopLength + 1

\* The writer after its destructor.
IsClosed(x) ==
    /\ {"open", "length"} \subseteq DOMAIN x
    /\ x.position \in Nat /\ x.position <= x.size
    /\ x.workaround \/ x.size <= x.length \/ ~x.open

\* The writer has no file yet.
NotOpen == Enumerating \cup {"suspend", "open"}

\* What is in the file, and what the writer knows of it.
FileInv ==
    /\ dir \in Nat /\ list \in Nat /\ dso_count \in Nat
    /\ IsContent(dirent)
    /\ extra_thread_stack_len \in {-1, kLimitMaxExtraThreadStackLen}
    /\ \/ crashing_thread_context = Uninitialized
       \/ /\ crashing_thread_context.rva \in Nat
          /\ crashing_thread_context.size \in Nat
          /\ crashing_thread_context.rva + crashing_thread_context.size
                <= w.position
    /\ pc # "done" => IsWriter(w)
    /\ pc \in NotOpen => ~w.workaround
    /\ IsClosed(w) /\ Holds(w.disk)
    /\ result \in {"none", "ok", "failed"}

LEMMA WriterClosed == ASSUME NEW x, IsWriter(x) PROVE IsClosed(x)
BY DEF IsWriter, IsClosed

LEMMA CloseRight ==
    ASSUME NEW x, IsClosed(x), NEW c, c = Close(x)
    PROVE  IsClosed(c) /\ c.position = x.position /\ c.disk = x.disk
<1>1. CASE ~x.open \/ ~CloseOK(x)
  BY <1>1 DEF Close
<1>2. CASE ~(~x.open \/ ~CloseOK(x))
  <2> DEFINE length == IF x.workaround THEN x.length ELSE x.position
  <2>1. c = [x EXCEPT !.open = FALSE, !.length = length]
    BY <1>2 DEF Close
  <2> HIDE DEF length
  <2>2. /\ c.open = FALSE /\ c.position = x.position /\ c.size = x.size
        /\ c.workaround = x.workaround /\ c.disk = x.disk
        /\ DOMAIN c = DOMAIN x
    BY <2>1 DEF IsClosed
  <2> QED
    BY <2>2 DEF IsClosed
<1> QED
  BY <1>1, <1>2

\* Where the writer goes over a list, or is about to.
Looping == {"suspend", "thread", "module", "enter_modules", "app", "memory",
            "enter_system", "file", "enter_file", "dso"}

\* A loop is never longer than LoopLength says.
LoopShape ==
    TypeInv /\ IsMappings(mappings) /\ memory_blocks \in Seq(Piece) =>
        /\ LoopLength \in Nat
        /\ next = 1 => next <= LoopLength + 1
        /\ pc \notin Looping => next <= LoopLength + 1

LEMMA LoopRight == LoopShape
<1> SUFFICES ASSUME TypeInv, IsMappings(mappings),
                    memory_blocks \in Seq(Piece)
             PROVE  /\ LoopLength \in Nat
                    /\ next = 1 => next <= LoopLength + 1
                    /\ pc \notin Looping
                            => next <= LoopLength + 1
  BY DEF LoopShape
<1>1. Len(threads) \in Nat /\ next \in Nat /\ Cardinality(loaded) \in Nat
  BY LoadedFinite DEF TypeInv
<1>2. Len(Modules) \in Nat /\ Len(memory_blocks) \in Nat
  BY ModulesRight
<1>3. Len(AppMemory) \in Nat /\ Len(ProcFiles) \in Nat
  BY MemoryAssumption
<1>4. LoopLength \in Nat
  BY <1>1, <1>2, <1>3 DEF LoopLength
<1>5. ASSUME pc \notin Looping
      PROVE  LoopLength = next
  BY <1>5 DEF LoopLength, Looping
<1> QED
  BY <1>1, <1>4, <1>5

\* WriteThread leaves the file larger and sound; the entry of the list
\* describes a piece that reaches the stack pointer.
LEMMA ThreadGrows ==
    ASSUME TypeInv, ListInv, FileInv, WriteThread
    PROVE  /\ Grows(w, w') /\ memory_blocks' \in Seq(Piece)
           /\ \/ UNCHANGED crashing_thread_context
              \/ /\ crashing_thread_context'.rva \in Nat
                 /\ crashing_thread_context'.size \in Nat
                 /\ crashing_thread_context'.rva
                        + crashing_thread_context'.size <= w'.position
           /\ UNCHANGED <<dir, list, dirent, extra_thread_stack_len,
                          dso_count, mappings>>
           /\ pc' \in {"thread", "exit"} /\ next' <= next + 1
           /\ UNCHANGED next \/ next <= Len(threads)
           /\ result' \in {result, "failed"}
<1> DEFINE t == threads[next]
           stack == StackBlocks(t, MaxStackLen(t))
           ip == IF FromHandler(t) THEN IpBlocks ELSE {}
           first == WriteBlock(NothingYet, t, stack)
           wrote == WriteBlock(first, t, ip)
           context == [size |-> SizeOf.context, rva |-> wrote.w.position]
           withContext == Copy(Allocate(wrote.w, SizeOf.context),
                               wrote.w.position, SizeOf.context,
                               [thread |-> t, crashed |-> FromHandler(t)])
           raw == [thread |-> t, context |-> context,
                   stack |-> IF stack # {} THEN wrote.found[1]
                             ELSE [start |-> Stack[t].sp, size |-> 0,
                                   rva |-> w.position]]
           entered == CopyIndexAfterObject(withContext, list, SizeOf.count,
                                           next - 1, SizeOf.thread, raw)
           flushed == FlushCount(w, Len(threads))
           failed == FlushCount(wrote.w, Len(threads))
           lost == FlushInvalid(wrote.w, SizeOf.context)
           lostFlushed == FlushCount(lost, Len(threads))
<1>1. /\ pc = "thread" /\ next <= Len(threads) /\ next \in Nat \ {0}
      /\ UNCHANGED mappings
  BY DEF WriteThread, TypeInv, dumper
<1>2. t \in Tids
  BY <1>1 DEF TypeInv
<1>3. Sound(w) /\ list \in Nat /\ NothingYet.w = w /\ NothingYet.found = <<>>
  BY <1>1 DEF FileInv, Sound, NothingYet
<1>4. \A b \in stack : b.start \in Int /\ b.size \in Nat /\ Reaches(b, t)
  <2>1. MaxStackLen(t) \in {-1, kLimitMaxExtraThreadStackLen}
    BY DEF MaxStackLen, FileInv
  <2> QED
    BY <1>2, <2>1, StackBlocksRight DEF ListInv
<1>5. IsBlocks(ip)
  BY IpBlocksRight DEF ListInv, IsBlocks
<1> HIDE DEF t, stack, ip
<1>6. /\ Grows(w, first.w) /\ first.found \in Seq(Piece)
      /\ first.ok /\ stack # {} =>
            OneMore(<<>>, stack, w.position, first.found)
  <2>1. NothingYet.found \in Seq(Piece) /\ Sound(NothingYet.w)
    BY <1>3
  <2>2. first = WriteBlock(NothingYet, t, stack)
    OBVIOUS
  <2>3. IsBlocks(stack)
    BY <1>4 DEF IsBlocks
  <2> HIDE DEF first
  <2>4. /\ Grows(NothingYet.w, first.w) /\ first.found \in Seq(Piece)
        /\ first.ok /\ stack # {} => OneMore(NothingYet.found, stack,
                                     NothingYet.w.position, first.found)
    BY <2>1, <2>2, <2>3, BlockGrows
  <2> QED
    BY <1>3, <2>4
<1>7. Sound(first.w)
  BY <1>6 DEF Grows
<1> HIDE DEF first
<1>8. /\ Grows(first.w, wrote.w) /\ wrote.found \in Seq(Piece)
      /\ wrote.ok => first.ok
      /\ wrote.ok /\ ip # {} =>
            OneMore(first.found, ip, first.w.position, wrote.found)
      /\ ip = {} => wrote = first
  <2>1. wrote = WriteBlock(first, t, ip)
    OBVIOUS
  <2> HIDE DEF wrote
  <2> QED
    BY <1>5, <1>6, <1>7, <2>1, BlockGrows
<1>9. Grows(w, wrote.w) /\ Sound(wrote.w)
  <2>1. Grows(w, wrote.w)
    BY <1>3, <1>6, <1>8, GrowsFurther
  <2> QED
    BY <2>1 DEF Grows
<1> HIDE DEF wrote
<1>10. ASSUME wrote.ok PROVE IsContent(raw)
  <2>1. CASE stack = {}
    BY <2>1 DEF IsContent, Reaches
  <2>2. CASE stack # {}
    <3>1. PICK b \in stack :
            first.found = Append(<<>>, [start |-> b.start, size |-> b.size,
                                        rva |-> w.position])
      BY <1>6, <1>8, <1>10, <2>2 DEF OneMore
    <3> DEFINE piece == [start |-> b.start, size |-> b.size,
                         rva |-> w.position]
    <3>2. first.found[1] = piece /\ Len(first.found) = 1
      BY <3>1
    <3>3. wrote.found[1] = piece
      <4>1. CASE ip = {}
        BY <1>8, <3>2, <4>1
      <4>2. CASE ip # {}
        <5>1. PICK c : wrote.found = Append(first.found, c)
          BY <1>8, <1>10, <4>2 DEF OneMore
        <5> QED
          BY <1>6, <3>2, <5>1
      <4> QED
        BY <4>1, <4>2
    <3>4. raw.stack = piece /\ raw.thread = t
      BY <2>2, <3>3
    <3> HIDE DEF raw
    <3> QED
      BY <1>4, <3>4 DEF IsContent, Reaches, InPiece
  <2> QED
    BY <2>1, <2>2
<1> HIDE DEF raw
<1>11. Grows(w, flushed)
  BY <1>3, CountGrows
<1>12. Grows(w, failed)
  BY <1>3, <1>9, CountGrows, GrowsFurther
<1>13. Grows(w, lostFlushed)
  <2>1. Grows(wrote.w, lost)
    BY <1>9, InvalidGrows, SizesRight
  <2> HIDE DEF lost
  <2>2. Grows(w, lost) /\ Sound(lost)
    BY <1>3, <1>9, <2>1, GrowsFurther DEF Grows
  <2> QED
    BY <1>3, <2>2, CountGrows, GrowsFurther
<1>14. /\ Grows(w, withContext)
       /\ wrote.w.position + SizeOf.context <= withContext.position
  <2>1. IsContent([thread |-> t, crashed |-> FromHandler(t)])
    BY DEF IsContent
  <2>2. /\ Grows(wrote.w, withContext)
        /\ wrote.w.position + SizeOf.context <= withContext.position
    BY <1>9, <2>1, ObjectGrows, SizesRight
  <2> HIDE DEF withContext
  <2> QED
    BY <1>3, <1>9, <2>2, GrowsFurther
<1>15. Sound(withContext)
  BY <1>14 DEF Grows
<1> HIDE DEF withContext
<1>16. ASSUME wrote.ok PROVE Grows(withContext, entered)
  BY <1>1, <1>3, <1>10, <1>15, <1>16, IndexGrows, SizesRight
<1>17. \/ /\ w' = flushed /\ UNCHANGED <<next, stream>>
          /\ pc' = "exit" /\ result' = "failed"
       \/ /\ w' = failed /\ UNCHANGED <<next, stream>>
          /\ pc' = "exit" /\ result' = "failed"
       \/ /\ w' = lostFlushed /\ UNCHANGED <<next, stream>>
          /\ pc' = "exit" /\ result' = "failed"
       \/ /\ wrote.ok /\ w' = entered /\ next' = next + 1
          /\ pc' = "thread" /\ UNCHANGED result
          /\ memory_blocks' = memory_blocks \o wrote.found
          /\ crashing_thread_context' = CrashContext(t, context)
          /\ UNCHANGED <<dir, list, dirent, extra_thread_stack_len, dso_count>>
  BY DEF WriteThread, Fail, Exit, GoOn, t, stack, ip, first, wrote,
     withContext, raw
<1> HIDE DEF flushed, failed, lost, lostFlushed, entered
<1>18. CASE UNCHANGED <<next, stream>> /\ w' \in {flushed, failed, lostFlushed}
            /\ pc' = "exit" /\ result' = "failed"
  BY <1>1, <1>11, <1>12, <1>13, <1>18 DEF stream, ListInv
<1>19. CASE /\ wrote.ok /\ w' = entered /\ next' = next + 1
            /\ pc' = "thread" /\ UNCHANGED result
            /\ memory_blocks' = memory_blocks \o wrote.found
            /\ crashing_thread_context' = CrashContext(t, context)
            /\ UNCHANGED <<dir, list, dirent, extra_thread_stack_len,
                           dso_count>>
  <2>1. Grows(withContext, entered)
    BY <1>16, <1>19
  <2>2. Grows(w, w')
    BY <1>3, <1>14, <1>19, <2>1, GrowsFurther
  <2>3. memory_blocks' \in Seq(Piece)
    BY <1>8, <1>19, ConcatProperties DEF ListInv
  <2>4. /\ context.rva \in Nat /\ context.size \in Nat
        /\ context.rva + context.size <= w'.position
    <3>1. /\ wrote.w.position \in Nat /\ withContext.position \in Nat
          /\ entered.position \in Nat
      BY <1>9, <1>15, <2>1 DEF Grows, Sound, IsWriter
    <3>2. withContext.position <= entered.position
      BY <2>1 DEF Grows
    <3>3. context.rva = wrote.w.position /\ context.size = SizeOf.context
      OBVIOUS
    <3>4. w'.position = entered.position
      BY <1>19
    <3> HIDE DEF context
    <3> QED
      BY <1>14, <3>1, <3>2, <3>3, <3>4, SizesRight
  <2> HIDE DEF context
  <2> QED
    BY <1>1, <1>19, <2>2, <2>3, <2>4 DEF CrashContext
<1> QED
  BY <1>17, <1>18, <1>19

\* What a step of Dump does to the file, to the lists and to the loop.
DumpKeepsFile ==
    /\ Grows(w, w')
    /\ \/ UNCHANGED crashing_thread_context
       \/ /\ crashing_thread_context'.rva \in Nat
          /\ crashing_thread_context'.size \in Nat
          /\ crashing_thread_context'.rva + crashing_thread_context'.size
                <= w'.position
    /\ dir' \in Nat /\ list' \in Nat /\ dso_count' \in Nat
    /\ IsContent(dirent')
    /\ extra_thread_stack_len' \in {-1, kLimitMaxExtraThreadStackLen}
    /\ result' \in {result, "failed"}
    /\ memory_blocks' \in Seq(Piece)
    /\ UNCHANGED mappings
    /\ \/ next' = 1
       \/ pc' \notin Looping
       \/ /\ pc' = pc /\ pc \in {"thread", "module", "app", "dso"}
          /\ next' <= LoopLength + 1
       \/ /\ pc' = pc /\ pc = "memory" /\ UNCHANGED memory_blocks
          /\ next' <= LoopLength + 1
       \/ pc' = "app" /\ next' <= Len(AppMemory) + 1
       \/ pc' \in {"file", "enter_file"} /\ next' <= Len(ProcFiles) + 1

LEMMA ListBytesRight ==
    ASSUME NEW count \in Nat, NEW size \in Nat
    PROVE  ListBytes(count, size) \in Nat
BY SizesRight DEF ListBytes

\* The start of a list.
LEMMA ListGrows ==
    ASSUME Sound(w), NEW count \in Nat, NEW size \in Nat, NEW loop,
           AllocateList(count, size, loop)
    PROVE  Grows(w, w') /\ list' \in Nat /\ next' = 1
           /\ result' \in {result, "failed"}
<1>1. ListBytes(count, size) \in Nat
  BY ListBytesRight
<1>2. /\ Grows(w, Allocate(w, ListBytes(count, size)))
      /\ Grows(w, FlushInvalid(w, SizeOf.count))
  BY <1>1, AllocateGrows, InvalidGrows, SizesRight
<1>3. /\ w' \in {Allocate(w, ListBytes(count, size)),
                 FlushInvalid(w, SizeOf.count)}
      /\ list' = w.position /\ next' = 1 /\ result' \in {result, "failed"}
  BY DEF AllocateList, GoOn, Fail, Exit
<1> QED
  BY <1>2, <1>3 DEF Sound, IsWriter

\* The end of a list.
LEMMA EndGrows ==
    ASSUME Sound(w), list \in Nat, NEW type, NEW count, NEW size, NEW where,
           EndStream(type, count, size, where)
    PROVE  /\ Grows(w, w') /\ pc' = where /\ IsContent(dirent')
           /\ UNCHANGED <<result, dir, list, extra_thread_stack_len,
                          memory_blocks, dso_count, crashing_thread_context>>
<1>1. /\ w' = FlushCount(w, count) /\ pc' = where
      /\ dirent' = Dirent(type, ListBytes(count, size), list)
      /\ UNCHANGED <<result, dir, list, extra_thread_stack_len, memory_blocks,
                     dso_count, crashing_thread_context>>
  BY DEF EndStream, Leaves, GoOn
<1> QED
  BY <1>1, CountGrows, DirentContent

\* FillRawModule.
LEMMA ModuleGrows ==
    ASSUME Sound(w), list \in Nat, next \in Nat \ {0}, WriteModule
    PROVE  Grows(w, w')
<1> DEFINE m == Modules[next]
           idSize == IF m.name \in Unidentified THEN 0 ELSE SizeOf.buildid
           copied == Copy(Allocate(w, idSize), w.position, idSize,
                          [id |-> m.name])
           withId == IF m.name \in Unidentified THEN w ELSE copied
           withName == WriteString(withId, NameLength, [name |-> m.name])
           raw == [start |-> m.start, size |-> m.size,
                   cv |-> [size |-> idSize, rva |-> w.position],
                   name |-> withId.position]
           entered == CopyIndexAfterObject(withName, list, SizeOf.count,
                                           next - 1, SizeOf.module, raw)
           flushed == FlushCount(w, Len(Modules))
           failed == FlushCount(withName, Len(Modules))
<1>1. w' \in {flushed, failed, entered}
  BY DEF WriteModule, Fail, GoOn
<1>2. Grows(w, flushed)
  BY CountGrows
<1>3. Grows(w, withId)
  <2>1. IsContent([id |-> m.name]) /\ idSize \in Nat
    BY SizesRight DEF IsContent
  <2>2. Grows(w, w)
    BY DEF Grows, Sound, IsWriter
  <2> HIDE DEF idSize
  <2>3. Grows(w, copied)
    BY <2>1, ObjectGrows
  <2> HIDE DEF copied
  <2> QED
    BY <2>2, <2>3
<1>4. IsContent(raw)
  BY DEF IsContent
<1> HIDE DEF withId, raw
<1>5. Grows(withId, withName)
  <2>1. IsContent([name |-> m.name])
    BY DEF IsContent
  <2> QED
    BY <1>3, <2>1, StringGrows DEF Grows
<1> HIDE DEF withName
<1>6. Grows(w, withName) /\ Sound(withName)
  <2>1. Grows(w, withName)
    BY <1>3, <1>5, GrowsFurther
  <2> QED
    BY <2>1 DEF Grows
<1>7. Grows(withName, entered)
  BY <1>4, <1>6, IndexGrows, SizesRight
<1>8. Grows(withName, failed)
  BY <1>6, CountGrows
<1> HIDE DEF entered, failed, flushed
<1> QED
  BY <1>1, <1>2, <1>6, <1>7, <1>8, GrowsFurther

\* The streams of lists.
LEMMA ListStreamsKeep ==
    ASSUME TypeInv, ListInv, FileInv, pc # "done",
           WriteHeader \/ StartThreadList \/ EndThreadList \/ StartModuleList
           \/ WriteModule \/ EndModuleList \/ WriteAppMemory
           \/ StartMemoryList \/ WriteMemory \/ EndMemoryList
    PROVE  DumpKeepsFile
<1>1. /\ Sound(w) /\ dir \in Nat /\ list \in Nat /\ dso_count \in Nat
      /\ extra_thread_stack_len \in {-1, kLimitMaxExtraThreadStackLen}
      /\ memory_blocks \in Seq(Piece) /\ next \in Nat \ {0}
      /\ IsContent(dirent)
  BY DEF TypeInv, ListInv, FileInv, Sound
<1>2. /\ Len(threads) \in Nat /\ Len(Modules) \in Nat
      /\ Len(memory_blocks) \in Nat /\ Len(AppMemory) \in Nat
  BY ModulesRight, MemoryAssumption DEF TypeInv, ListInv
<1>3. ASSUME Grows(w, w'), result' \in {result, "failed"},
             UNCHANGED <<mappings, crashing_thread_context, dso_count, dir,
                         extra_thread_stack_len, memory_blocks>>,
             list' \in Nat, IsContent(dirent'),
             \/ next' = 1
             \/ pc' \notin Looping
             \/ /\ pc' = pc /\ pc \in {"module", "memory"}
                /\ next' <= LoopLength + 1
      PROVE  DumpKeepsFile
  BY <1>1, <1>3 DEF DumpKeepsFile
<1>4. CASE WriteHeader
  <2> DEFINE a == Allocate(w, SizeOf.header)
             bytes == kNumWriters * SizeOf.dirent
             zeros == Copy(a, w.position, SizeOf.header, Zeros)
             header == [count |-> kNumWriters, dir |-> a.position]
             all == Copy(Allocate(a, bytes), w.position, SizeOf.header, header)
  <2>1. /\ w' \in {FlushInvalid(w, SizeOf.header), zeros, all}
        /\ dir' = a.position /\ pc' \in {"exit", "thread_list"}
        /\ result' \in {result, "failed"}
        /\ UNCHANGED <<mappings, list, dirent, extra_thread_stack_len,
                       memory_blocks, dso_count, crashing_thread_context>>
    BY <1>4 DEF WriteHeader, Fail, GoOn, Exit, dumper
  <2>2. Grows(w, FlushInvalid(w, SizeOf.header))
    BY <1>1, InvalidGrows, SizesRight
  <2>3. Grows(w, a)
    BY <1>1, AllocateGrows, SizesRight
  <2>4. Sound(a) /\ a.position \in Nat /\ w.position \in Nat
    BY <1>1, <2>3 DEF Grows, Sound, IsWriter
  <2>5. IsContent(header) /\ bytes \in Nat
    BY SizesRight DEF IsContent, kNumWriters
  <2> HIDE DEF a, bytes, header
  <2>6. Grows(w, zeros)
    BY <1>1, <2>3, <2>4, CopyGrows, ZerosContent, GrowsFurther, SizesRight
  <2>7. Grows(w, all)
    <3> DEFINE b == Allocate(a, bytes)
    <3>1. Grows(a, b)
      BY <2>4, <2>5, AllocateGrows
    <3>2. Sound(b)
      BY <3>1 DEF Grows
    <3> HIDE DEF b
    <3>3. Grows(b, Copy(b, w.position, SizeOf.header, header))
      BY <2>4, <2>5, <3>2, CopyGrows, SizesRight
    <3>4. Grows(w, b)
      BY <1>1, <2>3, <3>1, GrowsFurther
    <3> QED
      BY <1>1, <3>3, <3>4, GrowsFurther DEF b
  <2> HIDE DEF zeros, all
  <2> QED
    BY <1>1, <2>1, <2>2, <2>4, <2>6, <2>7 DEF DumpKeepsFile, Looping
<1>5. CASE StartThreadList
  <2>1. AllocateList(Len(threads), SizeOf.thread, "thread")
    BY <1>5 DEF StartThreadList
  <2>2. /\ Grows(w, w') /\ list' \in Nat /\ next' = 1
        /\ result' \in {result, "failed"}
    BY <1>1, <1>2, <2>1, ListGrows, SizesRight
  <2>3. /\ extra_thread_stack_len' \in {-1, kLimitMaxExtraThreadStackLen}
        /\ UNCHANGED <<mappings, dir, dirent, memory_blocks, dso_count,
                       crashing_thread_context>>
    BY <1>5 DEF StartThreadList, dumper
  <2> QED
    BY <1>1, <2>2, <2>3 DEF DumpKeepsFile
<1>6. CASE EndThreadList
  <2>1. /\ EndStream("threads", Len(threads), SizeOf.thread, "enter_threads")
        /\ UNCHANGED mappings
    BY <1>6 DEF EndThreadList, dumper
  <2>2. /\ Grows(w, w') /\ pc' = "enter_threads" /\ IsContent(dirent')
        /\ UNCHANGED <<result, dir, list, extra_thread_stack_len,
                       memory_blocks, dso_count, crashing_thread_context>>
    BY <1>1, <2>1, EndGrows
  <2> QED
    BY <1>1, <1>3, <2>1, <2>2 DEF Looping
<1>7. CASE StartModuleList
  <2>1. AllocateList(Len(Modules), SizeOf.module, "module")
    BY <1>7 DEF StartModuleList
  <2>2. /\ Grows(w, w') /\ list' \in Nat /\ next' = 1
        /\ result' \in {result, "failed"}
    BY <1>1, <1>2, <2>1, ListGrows, SizesRight
  <2>3. UNCHANGED <<mappings, dir, dirent, memory_blocks, dso_count,
                    extra_thread_stack_len, crashing_thread_context>>
    BY <1>7 DEF StartModuleList, dumper
  <2> QED
    BY <1>1, <1>3, <2>2, <2>3
<1>8. CASE WriteModule
  <2>1. /\ pc = "module" /\ next <= Len(Modules)
        /\ pc' = "exit" \/ (pc' = "module" /\ next' = next + 1)
        /\ result' \in {result, "failed"}
        /\ UNCHANGED <<mappings, dir, list, dirent, extra_thread_stack_len,
                       memory_blocks, dso_count, crashing_thread_context>>
    BY <1>8 DEF WriteModule, GoOn, Fail, Exit, dumper, stream
  <2>2. Grows(w, w')
    BY <1>1, <1>8, ModuleGrows
  <2>3. LoopLength = Len(Modules)
    BY <2>1 DEF LoopLength
  <2>4. next + 1 <= LoopLength + 1
    BY <1>1, <1>2, <2>1, <2>3
  <2> QED
    BY <1>1, <1>3, <2>1, <2>2, <2>4 DEF Looping
<1>9. CASE EndModuleList
  <2>1. /\ EndStream("modules", Len(Modules), SizeOf.module, "enter_modules")
        /\ next' = 1 /\ UNCHANGED mappings
    BY <1>9 DEF EndModuleList, dumper
  <2>2. /\ Grows(w, w') /\ IsContent(dirent')
        /\ UNCHANGED <<result, dir, list, extra_thread_stack_len,
                       memory_blocks, dso_count, crashing_thread_context>>
    BY <1>1, <2>1, EndGrows
  <2> QED
    BY <1>1, <1>3, <2>1, <2>2
<1>10. CASE WriteAppMemory
  <2> DEFINE blocks == {AppMemory[next]}
             wrote == WriteBlock(NothingYet, CrashThread, blocks)
  <2>1. /\ pc = "app" /\ next <= Len(AppMemory) /\ next' = next + 1
        /\ w' = wrote.w /\ pc' \in {"app", "exit"}
        /\ memory_blocks' = memory_blocks \o wrote.found
        /\ result' \in {result, "failed"}
        /\ UNCHANGED <<mappings, dir, list, dirent, extra_thread_stack_len,
                       dso_count, crashing_thread_context>>
    BY <1>10 DEF WriteAppMemory, GoOn, Fail, Exit, dumper
  <2>2. IsBlocks(blocks)
    <3>1. next \in DOMAIN AppMemory
      BY <1>1, <2>1, MemoryAssumption
    <3> QED
      BY <3>1, MemoryAssumption DEF IsBlock, IsBlocks
  <2>3. /\ NothingYet.w = w /\ NothingYet.found \in Seq(Piece)
    BY DEF NothingYet
  <2>4. wrote = WriteBlock(NothingYet, CrashThread, blocks)
    OBVIOUS
  <2> HIDE DEF wrote, blocks
  <2>5. Grows(w, wrote.w) /\ wrote.found \in Seq(Piece)
    BY <1>1, <2>2, <2>3, <2>4, BlockGrows
  <2>6. memory_blocks' \in Seq(Piece)
    BY <1>1, <2>1, <2>5, ConcatProperties
  <2>7. LoopLength = Len(AppMemory)
    BY <2>1 DEF LoopLength
  <2>8. next + 1 <= LoopLength + 1
    BY <1>1, <1>2, <2>1, <2>7
  <2> QED
    BY <1>1, <2>1, <2>5, <2>6, <2>8 DEF DumpKeepsFile, Looping
<1>11. CASE StartMemoryList
  <2>1. AllocateList(Len(memory_blocks), SizeOf.memory, "memory")
    BY <1>11 DEF StartMemoryList
  <2>2. /\ Grows(w, w') /\ list' \in Nat /\ next' = 1
        /\ result' \in {result, "failed"}
    BY <1>1, <1>2, <2>1, ListGrows, SizesRight
  <2>3. UNCHANGED <<mappings, dir, dirent, memory_blocks, dso_count,
                    extra_thread_stack_len, crashing_thread_context>>
    BY <1>11 DEF StartMemoryList, dumper
  <2> QED
    BY <1>1, <1>3, <2>2, <2>3
<1>12. CASE WriteMemory
  <2>1. /\ pc = "memory" /\ next <= Len(memory_blocks)
        /\ pc' = pc /\ next' = next + 1
        /\ w' = CopyIndexAfterObject(w, list, SizeOf.count, next - 1,
                                     SizeOf.memory, memory_blocks[next])
        /\ UNCHANGED <<result, mappings, dir, list, dirent,
                       extra_thread_stack_len, memory_blocks, dso_count,
                       crashing_thread_context>>
    BY <1>12 DEF WriteMemory, GoOn, dumper, stream
  <2>2. IsContent(memory_blocks[next])
    <3>1. memory_blocks[next] \in Piece
      BY <1>1, <2>1
    <3> QED
      BY <3>1 DEF IsContent, Piece
  <2>3. Grows(w, w')
    BY <1>1, <2>1, <2>2, IndexGrows, SizesRight
  <2>4. LoopLength = Len(memory_blocks)
    BY <2>1 DEF LoopLength
  <2>5. next' <= LoopLength + 1
    BY <1>1, <1>2, <2>1, <2>4
  <2> QED
    BY <1>1, <1>3, <2>1, <2>3, <2>5
<1>13. CASE EndMemoryList
  <2>1. /\ EndStream("memory", Len(memory_blocks), SizeOf.memory,
                     "enter_memory")
        /\ UNCHANGED mappings
    BY <1>13 DEF EndMemoryList, dumper
  <2>2. /\ Grows(w, w') /\ pc' = "enter_memory" /\ IsContent(dirent')
        /\ UNCHANGED <<result, dir, list, extra_thread_stack_len,
                       memory_blocks, dso_count, crashing_thread_context>>
    BY <1>1, <2>1, EndGrows
  <2> QED
    BY <1>1, <1>3, <2>1, <2>2 DEF Looping
<1> QED
  BY <1>4, <1>5, <1>6, <1>7, <1>8, <1>9, <1>10, <1>11, <1>12, <1>13

\* The streams of one object, and the array of the libraries.
LEMMA ObjectStreamsKeep ==
    ASSUME TypeInv, ListInv, FileInv, pc # "done",
           WriteExceptionStream \/ WriteSystemInfoStream \/ WriteFile
           \/ CountDSOs \/ WriteDSO \/ WriteDSODebugStream
    PROVE  DumpKeepsFile
<1>1. /\ Sound(w) /\ dir \in Nat /\ list \in Nat /\ dso_count \in Nat
      /\ extra_thread_stack_len \in {-1, kLimitMaxExtraThreadStackLen}
      /\ memory_blocks \in Seq(Piece) /\ next \in Nat \ {0}
      /\ w.position \in Nat /\ IsContent(dirent)
  BY DEF TypeInv, ListInv, FileInv, Sound, IsWriter
<1>2. Cardinality(loaded) \in Nat /\ Len(ProcFiles) \in Nat
  BY LoadedFinite, MemoryAssumption
<1>3. ASSUME Grows(w, w'), result' \in {result, "failed"},
             UNCHANGED <<mappings, crashing_thread_context, dir,
                         extra_thread_stack_len, memory_blocks>>,
             list' \in Nat, dso_count' \in Nat, IsContent(dirent'),
             \/ next' = 1
             \/ pc' \notin Looping
             \/ pc' = "enter_file" /\ next' <= Len(ProcFiles) + 1
             \/ pc' = pc /\ pc = "dso" /\ next' <= LoopLength + 1
      PROVE  DumpKeepsFile
  BY <1>1, <1>3 DEF DumpKeepsFile
<1>4. IsContent(Unused)
  BY DirentContent DEF Unused
<1>5. Grows(w, w)
  BY <1>1 DEF Grows, Sound, IsWriter
<1>6. ASSUME NEW n \in Nat PROVE Grows(w, Allocate(w, n))
  BY <1>1, AllocateGrows
<1>7. CASE WriteExceptionStream
  <2> DEFINE data == [thread |-> CrashThread, address |-> crash_address,
                      context |-> crashing_thread_context]
             a == Allocate(w, SizeOf.exception)
             lost == FlushInvalid(w, SizeOf.exception)
  <2>1. /\ UNCHANGED mappings
        /\ \/ WriteObject(a, "exception", SizeOf.exception, data,
                          "enter_exception")
           \/ w' = lost /\ pc' = "exit" /\ result' = "failed"
              /\ UNCHANGED stream
    BY <1>7 DEF WriteExceptionStream, Fail, Exit, dumper
  <2>2. IsContent(data)
    BY DEF IsContent
  <2>3. Grows(w, a)
    BY <1>6, SizesRight
  <2>4. Grows(w, lost)
    BY <1>1, InvalidGrows, SizesRight
  <2> HIDE DEF data, a, lost
  <2>5. CASE WriteObject(a, "exception", SizeOf.exception, data,
                         "enter_exception")
    <3>1. /\ Grows(w, w') /\ pc' = "enter_exception" /\ IsContent(dirent')
          /\ UNCHANGED <<result, dir, list, extra_thread_stack_len,
                         memory_blocks, dso_count, crashing_thread_context>>
      BY <1>1, <2>2, <2>3, <2>5, StreamGrows, SizesRight
    <3> QED
      BY <1>1, <1>3, <2>1, <3>1 DEF Looping
  <2>6. CASE w' = lost /\ pc' = "exit" /\ result' = "failed"
             /\ UNCHANGED stream
    BY <1>1, <1>3, <2>1, <2>4, <2>6 DEF Looping, stream
  <2> QED
    BY <2>1, <2>5, <2>6
<1>8. CASE WriteSystemInfoStream
  <2> DEFINE a == Allocate(w, SizeOf.system)
             named == WriteString(a, NameLength, [name |-> "uname"])
             data == [platform |-> "android"]
             lost == FlushInvalid(w, SizeOf.system)
  <2>1. /\ UNCHANGED mappings /\ next' = 1
        /\ \/ WriteObject(named, "system", SizeOf.system, data, "enter_system")
           \/ w' = lost /\ result' = "failed" /\ UNCHANGED stream
    BY <1>8 DEF WriteSystemInfoStream, Fail, Exit, dumper
  <2>2. IsContent([name |-> "uname"]) /\ IsContent(data)
    BY DEF IsContent
  <2>3. Grows(w, a)
    BY <1>6, SizesRight
  <2> HIDE DEF a
  <2>4. Grows(w, named)
    <3>1. Grows(a, named)
      BY <2>2, <2>3, StringGrows DEF Grows
    <3> HIDE DEF named
    <3> QED
      BY <1>1, <2>3, <3>1, GrowsFurther
  <2>5. Grows(w, lost)
    BY <1>1, InvalidGrows, SizesRight
  <2> HIDE DEF named, data, lost
  <2>6. CASE WriteObject(named, "system", SizeOf.system, data, "enter_system")
    <3>1. /\ Grows(w, w') /\ IsContent(dirent')
          /\ UNCHANGED <<result, dir, list, extra_thread_stack_len,
                         memory_blocks, dso_count, crashing_thread_context>>
      BY <1>1, <2>2, <2>4, <2>6, StreamGrows, SizesRight
    <3> QED
      BY <1>1, <1>3, <2>1, <3>1
  <2>7. CASE w' = lost /\ result' = "failed" /\ UNCHANGED stream
    BY <1>1, <1>3, <2>1, <2>5, <2>7 DEF stream
  <2> QED
    BY <2>1, <2>6, <2>7
<1>9. CASE WriteFile
  <2> DEFINE f == ProcFiles[next]
             a == Allocate(w, f.size)
             data == [file |-> f.name]
  <2>1. /\ pc = "file" /\ next <= Len(ProcFiles) /\ next' = next + 1
        /\ UNCHANGED mappings
        /\ \/ WriteObject(a, f.name, f.size, data, "enter_file")
           \/ /\ w' = w /\ dirent' = Unused /\ pc' = "enter_file"
              /\ UNCHANGED <<result, dir, list, extra_thread_stack_len,
                             memory_blocks, dso_count,
                             crashing_thread_context>>
    BY <1>9 DEF WriteFile, Nullify, dumper
  <2>2. f.size \in Nat
    <3>1. next \in DOMAIN ProcFiles
      BY <1>1, <2>1, MemoryAssumption
    <3> QED
      BY <3>1, MemoryAssumption
  <2>3. IsContent(data)
    BY DEF IsContent
  <2> HIDE DEF f, data
  <2>4. Grows(w, a)
    BY <1>6, <2>2
  <2> HIDE DEF a
  <2>5. next' <= Len(ProcFiles) + 1
    BY <1>1, <1>2, <2>1
  <2>6. CASE WriteObject(a, f.name, f.size, data, "enter_file")
    <3>1. /\ Grows(w, w') /\ pc' = "enter_file" /\ IsContent(dirent')
          /\ UNCHANGED <<result, dir, list, extra_thread_stack_len,
                         memory_blocks, dso_count, crashing_thread_context>>
      BY <1>1, <2>2, <2>3, <2>4, <2>6, StreamGrows
    <3> QED
      BY <1>1, <1>3, <2>1, <2>5, <3>1
  <2>7. CASE /\ w' = w /\ dirent' = Unused /\ pc' = "enter_file"
             /\ UNCHANGED <<result, dir, list, extra_thread_stack_len,
                            memory_blocks, dso_count, crashing_thread_context>>
    BY <1>1, <1>3, <1>4, <1>5, <2>1, <2>5, <2>7
  <2> QED
    BY <2>1, <2>6, <2>7
<1>10. CASE CountDSOs
  <2> DEFINE count == Cardinality(loaded)
             a == Allocate(w, count * SizeOf.linkmap)
  <2>1. /\ w' \in {w, a} /\ next' = 1 /\ UNCHANGED result
        /\ dirent' \in {dirent, Unused}
        /\ list' \in {list, w.position, kInvalidMDRVA}
        /\ dso_count' \in {dso_count, count}
        /\ UNCHANGED <<mappings, dir, extra_thread_stack_len, memory_blocks,
                       crashing_thread_context>>
    BY <1>10 DEF CountDSOs, GoOn, Nullify, dumper
  <2>2. kInvalidMDRVA \in Nat /\ count * SizeOf.linkmap \in Nat
    BY <1>2, FileWriterAssumption, SizesRight DEF kInvalidMDRVA
  <2>3. Grows(w, a)
    BY <1>6, <2>2
  <2> HIDE DEF a
  <2> QED
    BY <1>1, <1>2, <1>3, <1>4, <1>5, <2>1, <2>2, <2>3
<1>11. CASE WriteDSO
  <2> DEFINE named == WriteString(w, NameLength, [name |-> "dso"])
             e == CopyIndex(named, list, next - 1, SizeOf.linkmap,
                            [name |-> w.position])
  <2>1. /\ pc = "dso" /\ next <= Cardinality(loaded)
        /\ w' \in {e, named} /\ UNCHANGED result
        /\ pc' \in {"dso", "enter_dso"} /\ dirent' \in {dirent, Unused}
        /\ next' \in {next + 1, Cardinality(loaded) + 1}
        /\ UNCHANGED <<mappings, dir, list, extra_thread_stack_len,
                       memory_blocks, dso_count, crashing_thread_context>>
    BY <1>11 DEF WriteDSO, MoreDSOs, GoOn, Nullify, dumper
  <2>2. IsContent([name |-> "dso"]) /\ IsContent([name |-> w.position])
    BY DEF IsContent
  <2>3. Grows(w, named)
    BY <1>1, <2>2, StringGrows
  <2> HIDE DEF named
  <2>4. Grows(w, e)
    <3>1. Grows(named, e)
      BY <1>1, <2>2, <2>3, IndexGrows, SizesRight DEF Grows
    <3> HIDE DEF e
    <3> QED
      BY <1>1, <2>3, <3>1, GrowsFurther
  <2> HIDE DEF e
  <2>5. LoopLength = Cardinality(loaded)
    BY <2>1 DEF LoopLength
  <2>6. next' <= LoopLength + 1
    BY <1>1, <1>2, <2>1, <2>5
  <2> QED
    BY <1>1, <1>3, <1>4, <2>1, <2>3, <2>4, <2>6 DEF Looping
<1>12. CASE WriteDSODebugStream
  <2> DEFINE n == 2 * SizeOf.debug
             a == Allocate(w, n)
             data == [map |-> list, count |-> dso_count]
             lost == FlushInvalid(w, SizeOf.debug)
  <2>1. /\ UNCHANGED mappings
        /\ \/ WriteObject(a, "dso", n, data, "enter_dso")
           \/ /\ w' = lost /\ dirent' = Unused /\ pc' = "enter_dso"
              /\ UNCHANGED <<result, dir, list, extra_thread_stack_len,
                             memory_blocks, dso_count,
                             crashing_thread_context>>
    BY <1>12 DEF WriteDSODebugStream, Nullify, dumper
  <2>2. IsContent(data) /\ n \in Nat
    BY SizesRight DEF IsContent
  <2> HIDE DEF n, data
  <2>3. Grows(w, a)
    BY <1>6, <2>2
  <2>4. Grows(w, lost)
    BY <1>1, InvalidGrows, SizesRight
  <2> HIDE DEF a, lost
  <2>5. CASE WriteObject(a, "dso", n, data, "enter_dso")
    <3>1. /\ Grows(w, w') /\ pc' = "enter_dso" /\ IsContent(dirent')
          /\ UNCHANGED <<result, dir, list, extra_thread_stack_len,
                         memory_blocks, dso_count, crashing_thread_context>>
      BY <1>1, <2>2, <2>3, <2>5, StreamGrows
    <3> QED
      BY <1>1, <1>3, <2>1, <3>1 DEF Looping
  <2>6. CASE /\ w' = lost /\ dirent' = Unused /\ pc' = "enter_dso"
             /\ UNCHANGED <<result, dir, list, extra_thread_stack_len,
                            memory_blocks, dso_count, crashing_thread_context>>
    BY <1>1, <1>3, <1>4, <2>1, <2>4, <2>6 DEF Looping
  <2> QED
    BY <2>1, <2>5, <2>6
<1> QED
  BY <1>7, <1>8, <1>9, <1>10, <1>11, <1>12

\* The entry of a finished stream.
LEMMA EnterKeeps ==
    ASSUME TypeInv, ListInv, FileInv, pc # "done", EnterStream
    PROVE  DumpKeepsFile
<1>1. /\ Sound(w) /\ dir \in Nat /\ list \in Nat /\ dso_count \in Nat
      /\ extra_thread_stack_len \in {-1, kLimitMaxExtraThreadStackLen}
      /\ memory_blocks \in Seq(Piece) /\ next \in Nat \ {0}
      /\ IsContent(dirent)
  BY DEF TypeInv, ListInv, FileInv, Sound
<1>2. /\ UNCHANGED <<next, mappings, dir, list, dirent, result, memory_blocks,
                     extra_thread_stack_len, dso_count,
                     crashing_thread_context>>
      /\ \/ pc' \notin Looping
         \/ pc = "enter_modules" /\ pc' = "app"
         \/ pc \in {"enter_system", "enter_file"} /\ pc' = "file"
  BY DEF EnterStream, Enter, GoOn, dumper, stream, Looping
<1>3. Grows(w, w')
  <2>1. ASSUME NEW index \in Nat PROVE Grows(w, Entered(w, index, dirent))
    BY <1>1, EnteredGrows
  <2>2. next + 3 \in Nat /\ kNumWriters - 1 \in Nat
    BY <1>1 DEF kNumWriters
  <2>3. \E index \in {0, 1, 2, 3, 4, next + 3, kNumWriters - 1} :
            w' = Entered(w, index, dirent)
    BY DEF EnterStream, Enter, GoOn
  <2>4. {0, 1, 2, 3, 4, next + 3, kNumWriters - 1} \subseteq Nat
    BY <2>2
  <2> QED
    BY <2>1, <2>3, <2>4
<1>4. /\ pc = "enter_modules" => next <= Len(AppMemory) + 1
      /\ pc \in {"enter_system", "enter_file"} => next <= Len(ProcFiles) + 1
  BY DEF ListInv, LoopLength
<1> QED
  BY <1>1, <1>2, <1>3, <1>4 DEF DumpKeepsFile
-----------------------------------------------------------------------------
ContentInv == ListInv /\ FileInv

\* The writer was just made.
LEMMA InitContent == Init => ContentInv
<1> SUFFICES ASSUME Init PROVE ContentInv
  OBVIOUS
<1>1. PICK s \in Scenarios :
        /\ w = NewWriter(s.bug, s.maxLength, s.room)
        /\ pc = "threads" /\ next = 1 /\ mappings = <<>>
        /\ dir = 0 /\ list = 0 /\ extra_thread_stack_len = -1
        /\ dirent = Unused /\ memory_blocks = <<>> /\ dso_count = 0
        /\ result = "none"
        /\ crashing_thread_context = Uninitialized
  BY DEF Init
<1>2. s.room \in Nat
  BY LimitAssumption
<1>3. IsWriter(w)
  BY <1>1, <1>2, NewWriterRight
<1>4. Holds(w.disk)
  BY <1>1 DEF NewWriter, Holds
<1>5. FileInv
  <2>1. IsContent(dirent)
    BY <1>1, DirentContent DEF Unused
  <2> QED
    BY <1>1, <1>3, <1>4, <2>1, WriterClosed DEF FileInv, NewWriter
<1>6. IsMappings(mappings) /\ memory_blocks \in Seq(Piece)
  BY <1>1 DEF IsMappings
<1>7. LoopLength = 1
  BY <1>1 DEF LoopLength
<1> QED
  BY <1>1, <1>5, <1>6, <1>7 DEF ContentInv, ListInv

\* A step of Dump.
LEMMA DumpContent ==
    ASSUME WriterInv, WriterInv', ContentInv, DumpStep
    PROVE  ContentInv'
<1> USE DEF WriterInv, ContentInv
<1>1. /\ UNCHANGED <<threads, loaded>> /\ pc # "done" /\ pc' # "done"
      /\ next' \in Nat \ {0} /\ pc' \notin NotOpen
  <2>1. /\ UNCHANGED <<threads, loaded>> /\ pc # "done" /\ pc' # "done"
        /\ next' \in Nat \ {0}
    BY DumpStepShape DEF AtThreads, AtCrash, AtRest
  <2>2. pc' \notin NotOpen
    BY DEF DumpStep, WriteHeader, StartThreadList, WriteThread, EndThreadList,
       StartModuleList, WriteModule, EndModuleList, WriteAppMemory,
       StartMemoryList, WriteMemory, EndMemoryList, WriteExceptionStream,
       WriteSystemInfoStream, WriteFile, CountDSOs, WriteDSO,
       WriteDSODebugStream, EnterStream, Enter, EndStream, WriteObject, GoOn,
       Fail, Exit, Nullify, AllocateList, NotOpen, Enumerating
  <2> QED
    BY <2>1, <2>2
<1>2. DumpKeepsFile
  <2>1. CASE WriteThread
    <3>1. /\ Grows(w, w') /\ memory_blocks' \in Seq(Piece)
          /\ \/ UNCHANGED crashing_thread_context
             \/ /\ crashing_thread_context'.rva \in Nat
                /\ crashing_thread_context'.size \in Nat
                /\ crashing_thread_context'.rva
                       + crashing_thread_context'.size <= w'.position
          /\ UNCHANGED <<dir, list, dirent, extra_thread_stack_len,
                         dso_count, mappings>>
          /\ pc' \in {"thread", "exit"} /\ next' <= next + 1
          /\ result' \in {result, "failed"}
      BY <2>1, ThreadGrows
    <3>2. pc = "thread" /\ next <= Len(threads) /\ LoopLength = Len(threads)
      BY <2>1 DEF WriteThread, LoopLength
    <3>3. next' <= LoopLength + 1
      BY <1>1, <3>1, <3>2 DEF TypeInv
    <3> QED
      BY <3>1, <3>2, <3>3 DEF DumpKeepsFile, FileInv, Looping
  <2> QED
    BY <1>1, <2>1, ListStreamsKeep, ObjectStreamsKeep, EnterKeeps DEF DumpStep
<1>3. IsMappings(mappings)' /\ memory_blocks' \in Seq(Piece)
  BY <1>2 DEF DumpKeepsFile, ListInv
<1>4. (next <= LoopLength + 1)'
  <2>1. /\ (LoopLength \in Nat)'
        /\ next' = 1 => (next <= LoopLength + 1)'
        /\ pc' \notin Looping => (next <= LoopLength + 1)'
    <3>1. LoopShape'
      BY LoopRight, PTL
    <3> QED
      BY <1>3, <3>1 DEF LoopShape
  <2>2. ASSUME pc' = pc, pc \in {"thread", "module", "app", "dso"}
        PROVE  LoopLength' = LoopLength
    <3>1. Modules' = Modules
      BY <1>2 DEF Modules, DumpKeepsFile
    <3> QED
      BY <1>1, <2>2, <3>1 DEF LoopLength
  <2>3. ASSUME pc' = pc, pc = "memory", UNCHANGED memory_blocks
        PROVE  LoopLength' = LoopLength
    BY <2>3 DEF LoopLength
  <2>4. /\ pc' = "app" => LoopLength' = Len(AppMemory)
        /\ pc' \in {"file", "enter_file"} => LoopLength' = Len(ProcFiles)
    BY DEF LoopLength
  <2> QED
    BY <1>2, <2>1, <2>2, <2>3, <2>4 DEF DumpKeepsFile
<1>5. FileInv'
  <2>1. /\ IsWriter(w') /\ Holds(w'.disk) /\ w.position <= w'.position
        /\ w.position \in Nat /\ w'.position \in Nat
    BY <1>1, <1>2 DEF DumpKeepsFile, Grows, Sound, FileInv, IsWriter
  <2>2. IsClosed(w')
    BY <2>1, WriterClosed
  <2>3. (\/ crashing_thread_context = Uninitialized
         \/ /\ crashing_thread_context.rva \in Nat
            /\ crashing_thread_context.size \in Nat
            /\ crashing_thread_context.rva + crashing_thread_context.size
                  <= w.position)'
    BY <1>2, <2>1 DEF DumpKeepsFile, FileInv
  <2>4. /\ dir' \in Nat /\ list' \in Nat /\ dso_count' \in Nat
        /\ IsContent(dirent')
        /\ extra_thread_stack_len' \in {-1, kLimitMaxExtraThreadStackLen}
        /\ result' \in {"none", "ok", "failed"}
    BY <1>2 DEF DumpKeepsFile, FileInv
  <2> QED
    BY <1>1, <2>1, <2>2, <2>3, <2>4 DEF FileInv
<1> QED
  BY <1>3, <1>4, <1>5 DEF ListInv

LEMMA ContentStep ==
    WriterInv /\ WriterInv' /\ ContentInv /\ [Next]_vars => ContentInv'
<1> SUFFICES ASSUME WriterInv, WriterInv', ContentInv, [Next]_vars
             PROVE  ContentInv'
  OBVIOUS
<1> USE DEF WriterInv, ContentInv, NotOpen, Enumerating
<1>1. /\ next \in Nat \ {0} /\ next' \in Nat \ {0} /\ Len(threads) \in Nat
      /\ LoopLength \in Nat /\ next <= LoopLength + 1
  BY LoopRight DEF LoopShape, TypeInv, ListInv
<1>2. ASSUME UNCHANGED memory_blocks, IsMappings(mappings)',
             \/ next' = 1
             \/ pc' \notin Looping
      PROVE  ListInv'
  <2>1. memory_blocks' \in Seq(Piece)
    BY <1>2 DEF ListInv
  <2>2. LoopShape'
    BY LoopRight, PTL
  <2> QED
    BY <1>2, <2>1, <2>2 DEF ListInv, LoopShape
<1>3. ASSUME UNCHANGED <<w, stream>>, pc # "done", pc' # "done",
             pc' \in NotOpen => pc \in NotOpen,
             result' \in {"none", "ok", "failed"}
      PROVE  FileInv'
  BY <1>3 DEF FileInv, stream
<1>4. CASE UNCHANGED vars
  <2>1. UNCHANGED LoopLength
    BY <1>4 DEF vars, LoopLength, Modules
  <2> QED
    BY <1>4, <2>1 DEF vars, ListInv, FileInv
<1>5. CASE ProcessStep
  <2>1. /\ UNCHANGED <<pc, next, threads, mappings, w, stream, result>>
        /\ loaded \subseteq loaded' /\ pc # "done"
    BY <1>5 DEF ProcessStep, ThreadStarts, ThreadExits, LoadLibrary,
       ProcessDies, dumper, Ended
  <2>2. FileInv'
    BY <1>3, <2>1 DEF FileInv
  <2>3. Cardinality(loaded) <= Cardinality(loaded')
    <3>1. IsFiniteSet(loaded')
      BY WriterAssumption, FS_Subset DEF TypeInv
    <3> QED
      BY <2>1, <3>1, FS_Subset
  <2>4. IsMappings(mappings)' /\ memory_blocks' \in Seq(Piece)
    BY <2>1 DEF ListInv, stream
  <2>5. (LoopLength \in Nat)' /\ Cardinality(loaded) \in Nat
        /\ Cardinality(loaded') \in Nat
    <3>1. LoopShape'
      BY LoopRight, PTL
    <3>2. IsFiniteSet(loaded')
      BY WriterAssumption, FS_Subset DEF TypeInv
    <3> QED
      BY <2>4, <3>1, <3>2, LoadedFinite, FS_CardinalityType DEF LoopShape
  <2>6. next' <= LoopLength' + 1
    <3>1. CASE pc = "dso"
      <4>1. LoopLength = Cardinality(loaded)
            /\ LoopLength' = Cardinality(loaded')
        BY <2>1, <3>1 DEF LoopLength
      <4> QED
        BY <1>1, <2>1, <2>3, <2>5, <4>1
    <3>2. CASE pc # "dso"
      <4>1. LoopLength' = LoopLength
        BY <2>1, <3>2 DEF LoopLength, Modules, stream
      <4> QED
        BY <1>1, <2>1, <4>1
    <3> QED
      BY <3>1, <3>2
  <2> QED
    BY <2>2, <2>4, <2>6 DEF ListInv
<1>6. CASE WriterKilled
  <2>1. /\ pc' = "killed" /\ pc # "done"
        /\ UNCHANGED <<mappings, w, stream, result>>
    BY <1>6 DEF WriterKilled, dumper
  <2> QED
    BY <1>2, <1>3, <2>1 DEF ListInv, FileInv, stream, Looping
<1>7. CASE EnumerateThreads
  <2>1. /\ pc = "threads" /\ pc' \in {"mappings", "exit"}
        /\ UNCHANGED <<mappings, w, stream>> /\ result' \in {result, "failed"}
    BY <1>7 DEF EnumerateThreads, Exit
  <2> QED
    BY <1>2, <1>3, <2>1 DEF ListInv, FileInv, stream, Looping
<1>8. CASE EnumerateMappings
  <2>1. /\ pc = "mappings" /\ pc' \in {"suspend", "exit"} /\ next' = 1
        /\ mappings' = IF Dead THEN <<>>
                       ELSE EntryFirst(MergedMappings(Maps))
        /\ UNCHANGED <<w, stream>> /\ result' \in {result, "failed"}
    BY <1>8 DEF EnumerateMappings, Exit
  <2>2. IsMappings(mappings)'
    <3>1. CASE Dead
      BY <2>1, <3>1 DEF IsMappings
    <3>2. CASE ~Dead
      <4>1. PICK found : /\ found = EntryFirst(MergedMappings(Maps))
                         /\ IsMappings(found)
        BY <3>2, MappingsRight
      <4>2. mappings' = found
        BY <2>1, <3>2, <4>1
      <4> QED
        BY <4>1, <4>2 DEF IsMappings
    <3> QED
      BY <3>1, <3>2
  <2> QED
    BY <1>2, <1>3, <2>1, <2>2 DEF FileInv, stream
<1>9. CASE SuspendThread
  <2>1. /\ pc = "suspend" /\ pc' = pc /\ next <= Len(threads)
        /\ UNCHANGED <<mappings, w, stream, result>>
    BY <1>9 DEF SuspendThread
  <2>2. FileInv'
    BY <1>3, <2>1 DEF FileInv
  <2>3. IsMappings(mappings)' /\ memory_blocks' \in Seq(Piece)
    BY <2>1 DEF ListInv, stream
  <2>4. LoopLength' = Len(threads')
    BY <2>1 DEF LoopLength
  <2>5. next' <= Len(threads') + 1
    <3>1. CASE CanAttach(threads[next])
      BY <1>1, <1>9, <2>1, <3>1 DEF SuspendThread
    <3>2. CASE ~CanAttach(threads[next])
      <4>1. threads' = RemoveAt(threads, next) /\ UNCHANGED next
        BY <1>9, <3>2 DEF SuspendThread
      <4>2. next \in DOMAIN threads
        BY <1>1, <2>1 DEF TypeInv
      <4>3. DOMAIN threads' = 1..(Len(threads) - 1) /\ threads' \in Seq(Tids)
        BY <4>1, <4>2, RemoveAtRight DEF TypeInv
      <4>4. Len(threads') = Len(threads) - 1
        BY <1>1, <2>1, <4>3
      <4> QED
        BY <1>1, <2>1, <4>1, <4>4
    <3> QED
      BY <3>1, <3>2
  <2> QED
    BY <2>2, <2>3, <2>4, <2>5 DEF ListInv
<1>10. CASE ThreadsSuspended
  <2>1. /\ pc = "suspend" /\ pc' \in {"open", "exit"}
        /\ UNCHANGED <<mappings, w, stream>> /\ result' \in {result, "failed"}
    BY <1>10 DEF ThreadsSuspended, Exit
  <2> QED
    BY <1>2, <1>3, <2>1 DEF ListInv, FileInv, stream, Looping
<1>11. CASE LateInit
  <2>1. /\ pc = "open" /\ pc' \in {"header", "exit"}
        /\ mappings' = [i \in DOMAIN mappings |-> Biased(mappings[i])]
        /\ UNCHANGED stream /\ result' \in {result, "failed"}
        /\ w' \in {w, SetFile(w), Open(w)}
    BY <1>11 DEF LateInit, Exit
  <2>2. IsMappings(mappings)'
    <3>1. PICK found : /\ found = [i \in DOMAIN mappings |->
                                      Biased(mappings[i])]
                       /\ IsMappings(found)
      BY BiasedRight DEF ListInv
    <3>2. mappings' = found
      BY <2>1, <3>1
    <3> QED
      BY <3>1, <3>2 DEF IsMappings
  <2>3. ListInv'
    BY <1>2, <2>1, <2>2 DEF stream, Looping
  <2>4. IsWriter(w) /\ ~w.workaround
    BY <2>1 DEF FileInv, NotOpen
  <2>5. /\ w'.position = w.position /\ w'.size = w.size
        /\ w'.length = w.length /\ w'.offset = w.offset
        /\ w'.room = w.room /\ w'.disk = w.disk /\ DOMAIN w' = DOMAIN w
    BY <2>1, <2>4 DEF IsWriter, SetFile, Open
  <2>6. IsWriter(w')
    BY <2>4, <2>5 DEF IsWriter
  <2>7. IsClosed(w')
    BY <2>6, WriterClosed
  <2>8. pc' \notin NotOpen
    BY <2>1 DEF NotOpen, Enumerating
  <2>9. FileInv'
    BY <2>1, <2>5, <2>6, <2>7, <2>8 DEF FileInv, stream
  <2> QED
    BY <2>3, <2>9
<1>12. CASE ThreadsResume
  <2>1. /\ pc = "resume" /\ pc' = "exit" /\ result' = "ok"
        /\ UNCHANGED <<mappings, w, stream>>
    BY <1>12 DEF ThreadsResume
  <2> QED
    BY <1>2, <1>3, <2>1 DEF ListInv, stream, Looping
<1>13. CASE Destroy
  <2>1. /\ pc = "exit" /\ pc' = "done" /\ w' = Destroyed
        /\ UNCHANGED <<mappings, stream, result>>
    BY <1>13 DEF Destroy
  <2>2. PICK c : c = Close(w) /\ IsClosed(c) /\ c.position = w.position
                 /\ c.disk = w.disk
    BY CloseRight DEF FileInv
  <2>3. PICK d : d = Close(c) /\ IsClosed(d) /\ d.position = w.position
                 /\ d.disk = w.disk
    BY <2>2, CloseRight
  <2>4. w' = w \/ w' = d
    BY <2>1, <2>2, <2>3 DEF Destroyed
  <2>5. IsClosed(w') /\ w'.position = w.position /\ w'.disk = w.disk
    BY <2>3, <2>4 DEF FileInv
  <2>6. FileInv'
    BY <2>1, <2>5 DEF FileInv, stream
  <2> QED
    BY <1>2, <2>1, <2>6 DEF ListInv, stream, Looping
<1>14. CASE DumpStep
  BY <1>14, DumpContent
<1> QED
  BY <1>4, <1>5, <1>6, <1>7, <1>8, <1>9, <1>10, <1>11, <1>12, <1>13, <1>14
     DEF Next, WriterStep, InitStep, Rest

\* What is written while the dump goes on, at every moment of it.
THEOREM ContentInvHolds == Spec => []ContentInv
<1>1. WriterInv /\ WriterInv' /\ ContentInv /\ [Next]_vars => ContentInv'
  BY ContentStep
<1> QED
  BY <1>1, InitContent, WriterInvHolds, PTL DEF Spec

FaultyInv == faulty \in BOOLEAN

LEMMA FaultyRight == Spec => []FaultyInv
<1>1. Init => FaultyInv
  BY DEF Init, FaultyInv
<1>2. FaultyInv /\ [Next]_vars => FaultyInv'
  <2> SUFFICES ASSUME faulty \in BOOLEAN, [Next]_vars
               PROVE  faulty' \in BOOLEAN
    BY DEF FaultyInv
  <2>1. CASE UNCHANGED faulty
    BY <2>1
  <2>2. CASE faulty' = TRUE
    BY <2>2
  <2>3. CASE ProcessStep \/ WriterKilled \/ InitStep \/ ThreadsResume
             \/ Destroy \/ Rest \/ UNCHANGED vars
    <3>1. UNCHANGED faulty
      BY <2>3 DEF ProcessStep, ThreadStarts, ThreadExits, LoadLibrary,
         ProcessDies, WriterKilled, InitStep, EnumerateThreads,
         EnumerateMappings, SuspendThread, ThreadsSuspended, LateInit,
         ThreadsResume, Destroy, Rest, vars
    <3> QED
      BY <2>1, <3>1
  <2>4. CASE EnterStream
    BY <2>1, <2>4 DEF EnterStream, Enter, GoOn
  <2>5. ASSUME NEW x, NEW failed, NEW where, Nullify(x, failed, where)
        PROVE  faulty' \in BOOLEAN
    <3>1. faulty' = (faulty \/ failed)
      BY <2>5 DEF Nullify
    <3> QED
      BY <3>1, Zenon
  <2>6. CASE WriteFile \/ CountDSOs \/ WriteDSO \/ WriteDSODebugStream
    BY <2>1, <2>5, <2>6 DEF WriteFile, CountDSOs, WriteDSO,
       WriteDSODebugStream, WriteObject, GoOn
  <2>7. CASE WriteHeader \/ StartThreadList \/ WriteThread \/ EndThreadList
             \/ StartModuleList \/ WriteModule \/ EndModuleList
    BY <2>1, <2>2, <2>7 DEF WriteHeader, StartThreadList, WriteThread,
       EndThreadList, StartModuleList, WriteModule, EndModuleList,
       AllocateList, EndStream, GoOn, Fail
  <2>8. CASE WriteAppMemory \/ StartMemoryList \/ WriteMemory
             \/ EndMemoryList \/ WriteExceptionStream \/ WriteSystemInfoStream
    BY <2>1, <2>2, <2>8 DEF WriteAppMemory, StartMemoryList, WriteMemory,
       EndMemoryList, WriteExceptionStream, WriteSystemInfoStream,
       AllocateList, EndStream, WriteObject, GoOn, Fail
  <2> QED
    BY <2>3, <2>4, <2>6, <2>7, <2>8 DEF Next, WriterStep, DumpStep
<1> QED
  BY <1>1, <1>2, PTL DEF Spec

\* A list of different elements is not longer than the set of them.
LEMMA TupleRight ==
    ASSUME NEW S, IsFiniteSet(S), NEW s \in Seq(S),
           \A i, j \in DOMAIN s : s[i] = s[j] => i = j
    PROVE  s \in Tuple(S)
<1> DEFINE n == Len(s)
<1>1. n \in Nat /\ DOMAIN s = 1..n /\ s \in [1..n -> S]
  OBVIOUS
<1>2. s \in Injection(1..n, S)
  BY <1>1 DEF Injection, IsInjective
<1>3. Cardinality(1..n) <= Cardinality(S)
  BY <1>2, FS_Injection
<1>4. Cardinality(1..n) = n
  <2>1. Cardinality(1..n) = IF 1 > n THEN 0 ELSE n - 1 + 1
    BY <1>1, FS_Interval
  <2> QED
    BY <1>1, <2>1
<1>5. Cardinality(S) \in Nat
  BY FS_CardinalityType
<1> HIDE DEF n
<1>6. n \in 0..Cardinality(S)
  BY <1>1, <1>3, <1>4, <1>5
<1> QED
  BY <1>1, <1>6 DEF Tuple

\* The loops of the writer stay inside their lists, what is allocated lies
\* inside the space by which Allocate has grown the file, and so does the
\* context that WriteExceptionStream refers to: for any number of threads,
\* libraries and files, and whichever allocation or write fails.
THEOREM DumpTypesRight == Spec => []TypeOK
<1>1. WriterInv /\ ContentInv /\ FaultyInv => TypeOK
  <2> SUFFICES ASSUME WriterInv, ContentInv, faulty \in BOOLEAN
               PROVE  TypeOK
    BY DEF FaultyInv
  <2>1. threads \in Tuple(Tids)
    BY TupleRight, WriterAssumption DEF WriterInv, TypeInv
  <2>2. next \in 1..(LoopLength + 1)
    BY LoopRight DEF WriterInv, TypeInv, ContentInv, ListInv, LoopShape
  <2>3. /\ w.position <= w.size
        /\ w.workaround \/ w.size <= w.length \/ ~w.open
        /\ \/ crashing_thread_context = Uninitialized
           \/ crashing_thread_context.rva + crashing_thread_context.size
                <= w.position
        /\ result \in {"none", "ok", "failed"}
    BY DEF ContentInv, FileInv, IsClosed
  <2> QED
    BY <2>1, <2>2, <2>3 DEF TypeOK, WriterInv, TypeInv
<1> QED
  BY <1>1, ContentInvHolds, WriterInvHolds, FaultyRight, PTL

\* What the reader takes for an entry of the thread list was written as one.
LEMMA ReadContent ==
    ASSUME NEW f, Holds(f.disk), NEW rva, NEW n,
           Typed(ReadBytes(f, rva, n), "stack") # {}
    PROVE  LET raw == CHOOSE r \in ReadBytes(f, rva, n) : TRUE
           IN  Reaches(raw.stack, raw.thread)
<1> DEFINE read == ReadBytes(f, rva, n)
           raw == CHOOSE r \in read : TRUE
<1>1. PICK data \in read : "stack" \in DOMAIN data
  BY DEF Typed
<1>2. "stack" \notin DOMAIN Damaged /\ "stack" \notin DOMAIN Zeros
  BY DEF Damaged, Zeros
<1>3. rva \in DOMAIN f.disk /\ read = {f.disk[rva].data}
  BY <1>1, <1>2 DEF ReadBytes
<1> HIDE DEF read
<1>4. raw = f.disk[rva].data /\ raw = data
  BY <1>1, <1>3
<1>5. IsContent(raw)
  BY <1>3, <1>4 DEF Holds
<1> HIDE DEF raw
<1>6. Reaches(raw.stack, raw.thread)
  BY <1>1, <1>4, <1>5 DEF IsContent
<1> QED
  BY <1>6 DEF raw, read

\* Every stack that the reader finds in a dump, however short the limit made
\* it and whatever its thread, has the word at the stack pointer of this
\* thread in it, unless sp is the boundary of two chunks of a stack that was
\* cut: then it may be the chunk that ends there.
THEOREM StacksReach == Spec => []StackReached
<1>1. ContentInv => StackReached
  <2> SUFFICES ASSUME ContentInv, NEW l \in MinidumpThreadList(File),
                      NEW i \in DOMAIN l, l[i].stack.size > 0
               PROVE  /\ l[i].stack.start <= Stack[l[i].thread].sp
                      /\ InPiece(l[i].stack, Stack[l[i].thread].sp)
    BY DEF StackReached, InPiece
  <2>1. PICK r \in UNION {ListOf(File, s, SizeOf.thread) :
                          s \in Streams(File, "threads")} :
            /\ \A k \in DOMAIN r : Typed(r[k], "stack") # {}
            /\ l = [k \in DOMAIN r |-> ReadThread(File, r[k])]
    BY DEF MinidumpThreadList
  <2>2. PICK s, c : r = [k \in 1..c.count |->
                ReadBytes(File, s.rva + (s.size - c.count * SizeOf.thread)
                                + (k - 1) * SizeOf.thread, SizeOf.thread)]
    BY <2>1 DEF ListOf
  <2>3. i \in DOMAIN r /\ Typed(r[i], "stack") # {}
    BY <2>1
  <2>4. PICK rva : r[i] = ReadBytes(File, rva, SizeOf.thread)
    BY <2>2, <2>3
  <2>5. Holds(File.disk)
    BY DEF File, ContentInv, FileInv
  <2> DEFINE raw == CHOOSE d \in r[i] : TRUE
  <2>6. Reaches(raw.stack, raw.thread)
    BY <2>3, <2>4, <2>5, ReadContent
  <2>7. l[i].stack = raw.stack /\ l[i].thread = raw.thread
    BY <2>1, <2>3 DEF ReadThread
  <2> HIDE DEF raw
  <2> QED
    BY <2>6, <2>7 DEF Reaches
<1> QED
  BY <1>1, ContentInvHolds, PTL
=============================================================================
