------------------------- MODULE MinidumpFileWriter -------------------------
(***************************************************************************)
(* MinidumpFileWriter and the MDRVA classes: space is allocated from the   *)
(* front of the file, data is copied to an allocated position later.  A    *)
(* writer is a record of the object's members (open for file_, position_,  *)
(* size_, close_file_when_destroyed_, the ftruncate workaround) and of the *)
(* file itself: its length, the offset of the descriptor and what was      *)
(* written, disk[rva] = [len, data].  The system calls fail as the fields  *)
(* say: ftruncate beyond maxLength, or always on the kernels with the      *)
(* EACCES bug; write after room calls.  A write() that stores a part of    *)
(* what it is given, which Copy takes for a failure, is left out.          *)
(*                                                                         *)
(* The build is 32-bit (armeabi-v7a): MDRVA, ssize_t and off_t have the    *)
(* same width, RVALimit = 2^w.  So kInvalidMDRVA + size wraps, and lseek   *)
(* to kInvalidMDRVA returns -1, which is that very position.               *)
(***************************************************************************)
EXTENDS Naturals, FiniteSets

CONSTANTS PageSize,     \* getpagesize()
          RVALimit      \* 2^w

ASSUME FileWriterAssumption == /\ PageSize \in Nat \ {0}
                               /\ RVALimit \in Nat \ {0}

kInvalidMDRVA == RVALimit - 1

Zeros == [zeros |-> TRUE]       \* what nobody wrote
Damaged == [damaged |-> TRUE]   \* an object partly overwritten by another

NoName == ""    \* of a mapping of no file, and an empty string in the dump

SizeOf == [header |-> 32, dirent |-> 12, count |-> 4, thread |-> 48,
           module |-> 108, memory |-> 16, context |-> 368,
           exception |-> 168, system |-> 56, string |-> 4, debug |-> 24,
           linkmap |-> 12, buildid |-> 24]

NewWriter(bug, maxLength, room) ==
    [open |-> FALSE, position |-> 0, size |-> 0, closes |-> TRUE,
     workaround |-> FALSE, length |-> 0, offset |-> 0,
     disk |-> [rva \in {} |-> 0],
     bug |-> bug, maxLength |-> maxLength, room |-> room]

FTruncateOK(w, length) == ~w.bug /\ length <= w.maxLength

Open(w) == [w EXCEPT !.open = TRUE]

\* Only SetFile looks for the kernel bug.
SetFile(w) ==
    [w EXCEPT !.open = TRUE, !.closes = FALSE, !.workaround = w.bug]

Aligned(n) == ((n + 7) \div 8) * 8

\* What Allocate reserves for n bytes.
Reserved(w, n) == IF w.workaround THEN n ELSE Aligned(n)

GrowthOfAPage(n) == PageSize

Growth(n) == IF Aligned(n) < PageSize THEN PageSize ELSE Aligned(n)

MustGrow(w, n) == ~w.workaround /\ w.position + Aligned(n) > w.size

CanAllocate(w, n) == MustGrow(w, n) => FTruncateOK(w, w.size + Growth(n))

\* The writer after Allocate(n); the position returned is w.position.
Allocate(w, n) ==
    LET size == IF w.workaround THEN w.size + n
                ELSE IF MustGrow(w, n) THEN w.size + Growth(n) ELSE w.size
    IN  [w EXCEPT !.position = @ + Reserved(w, n), !.size = size,
                  !.length = IF w.workaround THEN @ ELSE size]

\* The objects of disk after len bytes have been written at rva.
Written(disk, rva, len, data) ==
    LET hit(p) == p # rva /\ p < rva + len /\ rva < p + disk[p].len
    IN  [p \in DOMAIN disk \cup {rva} |->
            IF p = rva THEN [len |-> len, data |-> data]
            ELSE IF hit(p) THEN [disk[p] EXCEPT !.data = Damaged]
            ELSE disk[p]]

\* "Ensure that the data will fit in the allocated space".
Fits(w, rva, len) == (len + rva) % RVALimit <= w.size

CopyOK(w, rva, len) == Fits(w, rva, len) /\ w.room > 0

Copy(w, rva, len, data) ==
    LET at == IF rva = kInvalidMDRVA THEN w.offset ELSE rva
    IN  IF CopyOK(w, rva, len)
        THEN [w EXCEPT !.disk = Written(@, at, len, data), !.room = @ - 1,
                       !.offset = at + len,
                       !.length = IF @ < at + len THEN at + len ELSE @]
        ELSE IF Fits(w, rva, len) THEN [w EXCEPT !.offset = at] ELSE w

\* The destructor of a typed object whose allocation failed flushes it all
\* the same: zeros, at kInvalidMDRVA.
FlushInvalid(w, len) == Copy(w, kInvalidMDRVA, len, Zeros)

CopyIndex(w, array, index, len, data) ==
    Copy(w, array + index * len, len, data)

CopyIndexAfterObject(w, object, objectLen, index, len, data) ==
    Copy(w, object + objectLen + index * len, len, data)

\* A string of n characters is one object.  The characters and the NUL are
\* copied one by one until a copy fails; the length is flushed last, by the
\* destructor, and nobody learns when that fails.
StringLen(n) == SizeOf.string + 2 * (n + 1)

WriteStringOK(w, n) ==
    CanAllocate(w, StringLen(n)) /\ w.room > n

\* Without its length a string is an empty one: what was never written.
WriteString(w, n, data) ==
    IF ~CanAllocate(w, StringLen(n)) THEN FlushInvalid(w, SizeOf.string)
    ELSE IF w.room > n + 1
         THEN [Copy(Allocate(w, StringLen(n)), w.position, StringLen(n), data)
                    EXCEPT !.room = w.room - (n + 2),
                           !.offset = w.position + SizeOf.string]
    ELSE [Allocate(w, StringLen(n)) EXCEPT !.room = 0]

\* Close: cut the file at position_ and close it.  If ftruncate fails the
\* file stays open and the destructor tries again.
CloseOK(w) == w.workaround \/ FTruncateOK(w, w.position)

Close(w) ==
    IF ~w.open \/ ~CloseOK(w) THEN w
    ELSE [w EXCEPT !.open = FALSE,
                   !.length = IF w.workaround THEN @ ELSE w.position]
=============================================================================
