--------------------------- MODULE RangeMapProofs ---------------------------
(***************************************************************************)
(* What StoreRange and RetrieveRange do, for every map, range and address  *)
(* width.                                                                  *)
(***************************************************************************)
EXTENDS RangeMap, WellFoundedInduction, TLAPS

Ranges(Entries) == [base : Nat, delta : Nat, entry : Entries]

\* A map as StoreRange makes them: every range ends at its key, and no two
\* ranges overlap.
IsRangeMap(map, Entries) ==
    /\ DOMAIN map \subseteq Nat
    /\ map \in [DOMAIN map -> Ranges(Entries)]
    /\ \A k \in DOMAIN map : map[k].base <= k
    /\ \A j, k \in DOMAIN map : j < k => j < map[k].base

-----------------------------------------------------------------------------
\* A set of natural numbers has a least element.
LEMMA LeastExists ==
    ASSUME NEW S \in SUBSET Nat, S # {}
    PROVE  \E x \in S : \A y \in S : x <= y
<1>1. PICK x \in S : \A y \in S : ~(<<y, x>> \in OpToRel(<, Nat))
  BY NatLessThanWellFounded, WFMin
<1>2. \A y \in S : ~(y < x)
  BY <1>1 DEF OpToRel
<1> QED
  BY <1>2

\* A bounded set of natural numbers has a greatest element.
LEMMA GreatestExists ==
    ASSUME NEW S \in SUBSET Nat, S # {},
           NEW n \in Nat, \A y \in S : y <= n
    PROVE  \E x \in S : \A y \in S : y <= x
<1> DEFINE T == {m \in Nat : n - m \in S}
<1>1. T \in SUBSET Nat /\ T # {}
  <2>1. PICK y \in S : TRUE
    OBVIOUS
  <2>2. n - y \in Nat /\ n - (n - y) = y
    OBVIOUS
  <2> QED
    BY <2>1, <2>2
<1> HIDE DEF T
<1>2. PICK m \in T : \A o \in T : m <= o
  BY <1>1, LeastExists
<1>3. m \in Nat /\ n - m \in S
  BY <1>2 DEF T
<1>4. ASSUME NEW y \in S
      PROVE  y <= n - m
  <2>1. n - y \in Nat /\ n - (n - y) = y
    OBVIOUS
  <2>2. n - y \in T
    BY <2>1 DEF T
  <2> QED
    BY <1>2, <1>3, <2>1, <2>2
<1> QED
  BY <1>3, <1>4

\* A range that is neither empty nor beyond the address space ends where it
\* should.
LEMMA HighRight ==
    ASSUME NEW base \in Nat, base < AddressLimit, NEW size \in Nat,
           size < AddressLimit, ~BadRange(base, size)
    PROVE  High(base, size) = base + size - 1
<1> DEFINE x == base + size - 1
           L == AddressLimit
<1>1. L \in Nat \ {0} /\ size >= 1 /\ x \in Nat
  BY AddressLimitAssumption DEF BadRange
<1>2. High(base, size) = (x + L) % L
  BY <1>1 DEF High
<1>3. CASE x < L
  <2>1. x + L = L * 1 + x
    BY <1>1
  <2> QED
    BY <1>1, <1>2, <1>3, <2>1
<1>4. CASE x >= L
  <2>1. x - L \in 0..(L - 1) /\ x - L < base
    BY <1>1, <1>4
  <2>2. (x + L) % L = x - L
    BY <1>1, <2>1
  <2> QED
    BY <1>2, <2>1, <2>2 DEF BadRange
<1> QED
  BY <1>1, <1>3, <1>4

\* Where a new range starts, with shrink-down: not below its base, not above
\* its high address, and behind every range that ends inside it.
LEMMA ShrunkBaseRight ==
    ASSUME NEW map, DOMAIN map \subseteq Nat, NEW base \in Nat,
           NEW high \in Nat, base <= high
    PROVE  LET low == ShrunkBase(map, base, high)
           IN  /\ low \in Nat /\ base <= low /\ low <= high
               /\ \A k \in DOMAIN map : k < high /\ base <= k => k < low
<1> DEFINE E == EndInside(map, base, high)
           low == ShrunkBase(map, base, high)
<1>1. CASE E = {}
  BY <1>1 DEF ShrunkBase, EndInside
<1>2. CASE E # {}
  <2>1. E \in SUBSET Nat /\ \A y \in E : y <= high
    BY DEF EndInside
  <2>2. \E x \in E : \A y \in E : y <= x
    BY <1>2, <2>1, GreatestExists
  <2> DEFINE top == CHOOSE k \in E : \A other \in E : other <= k
  <2>3. top \in E /\ \A y \in E : y <= top
    BY <2>2
  <2>4. low = 1 + top
    BY <1>2 DEF ShrunkBase
  <2> HIDE DEF top, low
  <2>5. top \in Nat /\ base <= top /\ top < high
    BY <2>3 DEF EndInside
  <2>6. \A k \in DOMAIN map : k < high /\ base <= k => k <= top
    BY <2>3 DEF EndInside
  <2> QED
    BY <2>4, <2>5, <2>6 DEF low
<1> QED
  BY <1>1, <1>2

-----------------------------------------------------------------------------
\* RetrieveRange, which only looks at the first range that ends at or above
\* the address, finds the range that holds the address whenever there is one.
THEOREM RetrieveRangeRight ==
    ASSUME NEW Entries, NEW map, IsRangeMap(map, Entries),
           NEW address \in Nat
    PROVE  RetrieveRange(map, address) =
             {k \in DOMAIN map : map[k].base <= address /\ address <= k}
<1> USE DEF IsRangeMap, Ranges
<1>1. ASSUME NEW k \in DOMAIN map, map[k].base <= address, address <= k,
             NEW other \in DOMAIN map, address <= other
      PROVE  k <= other
  <2>1. k \in Nat /\ other \in Nat /\ map[k].base \in Nat
    OBVIOUS
  <2>2. CASE other < k
    <3>1. other < map[k].base
      BY <2>2
    <3> QED
      BY <1>1, <2>1, <3>1
  <2> QED
    BY <2>1, <2>2
<1> QED
  BY <1>1 DEF RetrieveRange, LowerBound

\* The range that stands in the way at the upper end of a new range is the
\* only one above it that can touch it.
LEMMA AboveRight ==
    ASSUME NEW Entries, NEW map, IsRangeMap(map, Entries), NEW high \in Nat
    PROVE  /\ Above(map, high) \subseteq DOMAIN map
           /\ \A k \in DOMAIN map : k \in Above(map, high)
                                      <=> high <= k /\ map[k].base <= high
<1>1. Above(map, high) = RetrieveRange(map, high)
  BY DEF Above, RetrieveRange
<1> QED
  BY <1>1, RetrieveRangeRight

\* A map starts as a range map.
LEMMA EmptyIsRangeMap ==
    ASSUME NEW Entries
    PROVE  IsRangeMap(EmptyMap, Entries)
BY DEF IsRangeMap, EmptyMap, Ranges

\* StoreRange keeps the map a range map, with and without shrink-down: no
\* two ranges overlap afterwards, and every range still ends at its key.
THEOREM StoredDisjoint ==
    ASSUME NEW Entries, NEW map, IsRangeMap(map, Entries),
           NEW base \in Nat, base < AddressLimit,
           NEW size \in Nat, size < AddressLimit,
           NEW entry \in Entries, NEW shrink \in BOOLEAN,
           CanStore(map, base, size, shrink)
    PROVE  IsRangeMap(Stored(map, base, size, entry, shrink), Entries)
<1> DEFINE high == High(base, size)
           low == IF shrink THEN ShrunkBase(map, base, high) ELSE base
           A == Above(map, high)
           new == Stored(map, base, size, entry, shrink)
<1>1. high = base + size - 1 /\ high \in Nat /\ base <= high
  <2>1. ~BadRange(base, size)
    BY DEF CanStore
  <2>2. high = base + size - 1 /\ size # 0
    BY <2>1, HighRight DEF BadRange
  <2> QED
    BY <2>2
<1>2. /\ low \in Nat /\ base <= low /\ low <= high
      /\ \A k \in DOMAIN map : k < high => k < low
  <2>1. CASE shrink
    <3>1. ASSUME NEW k \in DOMAIN map, k < high
          PROVE  k < ShrunkBase(map, base, high)
      <4>1. k \in Nat /\ DOMAIN map \subseteq Nat
        BY DEF IsRangeMap
      <4>2. /\ ShrunkBase(map, base, high) \in Nat
            /\ base <= ShrunkBase(map, base, high)
            /\ base <= k => k < ShrunkBase(map, base, high)
        BY <1>1, <3>1, <4>1, ShrunkBaseRight
      <4> QED
        BY <4>1, <4>2
    <3>2. /\ ShrunkBase(map, base, high) \in Nat
          /\ base <= ShrunkBase(map, base, high)
          /\ ShrunkBase(map, base, high) <= high
      BY <1>1, ShrunkBaseRight DEF IsRangeMap
    <3> QED
      BY <2>1, <3>1, <3>2
  <2>2. CASE ~shrink
    <3>1. EndInside(map, base, high) = {}
      BY <2>2 DEF CanStore
    <3>2. \A k \in DOMAIN map : k < high => k < base
      BY <3>1 DEF EndInside, IsRangeMap
    <3> QED
      BY <1>1, <2>2, <3>2
  <2> QED
    BY <2>1, <2>2
<1>3. /\ A \subseteq DOMAIN map
      /\ \A k \in DOMAIN map : k \in A <=> high <= k /\ map[k].base <= high
  BY <1>1, AboveRight
<1>4. high \notin A
  BY DEF CanStore
<1>5. /\ DOMAIN new = DOMAIN map \cup {high}
      /\ new[high] = [base |-> low, delta |-> low - base, entry |-> entry]
      /\ \A k \in DOMAIN map \ {high} :
           new[k] = IF k \in A
                    THEN [map[k] EXCEPT !.base = high + 1,
                            !.delta = @ + (high + 1 - map[k].base)]
                    ELSE map[k]
      /\ new = [k \in DOMAIN new |-> new[k]]
  BY DEF Stored
<1> HIDE DEF high, low, A, new
<1>6. high \notin DOMAIN map
  <2>1. ASSUME high \in DOMAIN map PROVE FALSE
    <3>1. map[high].base <= high
      BY <2>1 DEF IsRangeMap
    <3> QED
      BY <1>1, <1>3, <1>4, <2>1, <3>1
  <2> QED
    BY <2>1
<1>7. ASSUME NEW k \in DOMAIN map
      PROVE  /\ k \in Nat /\ map[k] \in Ranges(Entries) /\ map[k].base <= k
             /\ k # high
             /\ k \in A => /\ new[k].base = high + 1
                           /\ high < k /\ map[k].base <= high
                           /\ new[k] \in Ranges(Entries)
             /\ k \notin A => /\ new[k] = map[k]
                              /\ k < low \/ high < map[k].base
  <2>1. k \in Nat /\ map[k] \in Ranges(Entries) /\ map[k].base <= k
        /\ k # high
    BY <1>6 DEF IsRangeMap
  <2>2. CASE k \in A
    <3>1. high < k /\ map[k].base <= high
      BY <1>1, <1>3, <2>1, <2>2
    <3>2. new[k] = [map[k] EXCEPT !.base = high + 1,
                      !.delta = @ + (high + 1 - map[k].base)]
      BY <1>5, <2>1, <2>2
    <3>3. map[k].delta + (high + 1 - map[k].base) \in Nat
      BY <1>1, <2>1, <3>1 DEF Ranges
    <3> QED
      <4> DEFINE d == map[k].delta + (high + 1 - map[k].base)
      <4>1. high + 1 \in Nat /\ d \in Nat
        BY <1>1, <3>3
      <4>2. new[k] = [map[k] EXCEPT !.base = high + 1, !.delta = d]
        BY <3>2
      <4> HIDE DEF d
      <4>3. /\ [map[k] EXCEPT !.base = high + 1, !.delta = d]
                  \in Ranges(Entries)
            /\ [map[k] EXCEPT !.base = high + 1, !.delta = d].base = high + 1
        <5> DEFINE r == map[k]
                   b == high + 1
        <5>1. r \in Ranges(Entries) /\ b \in Nat
          BY <2>1, <4>1
        <5> HIDE DEF r, b
        <5>2. /\ [r EXCEPT !.base = b, !.delta = d] \in Ranges(Entries)
              /\ [r EXCEPT !.base = b, !.delta = d].base = b
          BY <4>1, <5>1 DEF Ranges
        <5> QED
          BY <5>2 DEF r, b
      <4>4. new[k] \in Ranges(Entries) /\ new[k].base = high + 1
        BY <4>2, <4>3
      <4> QED
        BY <2>1, <2>2, <3>1, <4>4
  <2>3. CASE k \notin A
    <3>1. new[k] = map[k]
      BY <1>5, <2>1, <2>3
    <3>2. k < low \/ high < map[k].base
      BY <1>1, <1>2, <1>3, <2>1, <2>3 DEF Ranges
    <3> QED
      BY <2>1, <2>3, <3>1, <3>2
  <2> QED
    BY <2>2, <2>3, <2>1
<1>8. new[high] \in Ranges(Entries) /\ new[high].base = low
  <2>1. low - base \in Nat
    BY <1>1, <1>2
  <2>2. [base |-> low, delta |-> low - base, entry |-> entry]
          \in Ranges(Entries)
    BY <1>2, <2>1 DEF Ranges
  <2>3. new[high] = [base |-> low, delta |-> low - base, entry |-> entry]
    BY <1>5
  <2> QED
    BY <2>2, <2>3
<1>9. DOMAIN new \subseteq Nat
  BY <1>1, <1>5, <1>7
<1>10. new \in [DOMAIN new -> Ranges(Entries)]
  <2>1. \A k \in DOMAIN new : new[k] \in Ranges(Entries)
    BY <1>5, <1>7, <1>8
  <2> QED
    BY <1>5, <2>1
<1>11. \A k \in DOMAIN new : new[k].base <= k
  <2>1. new[high].base <= high
    BY <1>2, <1>8
  <2>2. ASSUME NEW k \in DOMAIN map
        PROVE  new[k].base <= k
    BY <1>1, <1>7
  <2> QED
    BY <1>5, <2>1, <2>2
<1>12. ASSUME NEW j \in DOMAIN new, NEW k \in DOMAIN new, j < k
       PROVE  j < new[k].base
  <2>1. CASE k = high
    <3>1. j \in DOMAIN map /\ j < high
      <4>1. DOMAIN new = DOMAIN map \cup {high}
        BY <1>5
      <4>2. j # high
        BY <1>1, <1>12, <2>1
      <4> QED
        BY <1>12, <2>1, <4>1, <4>2
    <3>2. new[k].base = low
      BY <1>8, <2>1
    <3> QED
      BY <1>2, <3>1, <3>2
  <2>2. CASE k # high /\ k \in A
    <3>1. k \in DOMAIN map /\ new[k].base = high + 1 /\ map[k].base <= high
      BY <1>5, <1>7, <2>2
    <3>2. CASE j = high
      BY <1>1, <3>1, <3>2
    <3>3. CASE j # high
      <4>1. j \in DOMAIN map /\ j \in Nat /\ map[k].base \in Nat
        BY <1>5, <1>7, <3>1, <3>3 DEF Ranges
      <4>2. j < map[k].base
        BY <1>12, <3>1, <4>1 DEF IsRangeMap
      <4> QED
        BY <1>1, <3>1, <4>1, <4>2
    <3> QED
      BY <3>2, <3>3
  <2>3. CASE k # high /\ k \notin A
    <3>1. /\ k \in DOMAIN map /\ new[k] = map[k] /\ map[k].base \in Nat
          /\ k < low \/ high < map[k].base
      BY <1>5, <1>7, <2>3 DEF Ranges
    <3>2. CASE j = high
      BY <1>1, <1>2, <1>7, <1>12, <3>1, <3>2
    <3>3. CASE j # high
      BY <1>5, <1>12, <3>1, <3>3 DEF IsRangeMap
    <3> QED
      BY <3>2, <3>3
  <2> QED
    BY <2>1, <2>2, <2>3
<1> QED
  BY <1>9, <1>10, <1>11, <1>12 DEF IsRangeMap, new

\* After StoreRange without shrink-down every address of the new range
\* resolves to it, and every other address resolves as it did before.
THEOREM StoredResolves ==
    ASSUME NEW Entries, NEW map, IsRangeMap(map, Entries),
           NEW base \in Nat, base < AddressLimit,
           NEW size \in Nat, size < AddressLimit,
           NEW entry \in Entries, CanStore(map, base, size, FALSE),
           NEW address \in Nat
    PROVE  RetrieveRange(Stored(map, base, size, entry, FALSE), address) =
             IF base <= address /\ address <= base + size - 1
             THEN {base + size - 1} ELSE RetrieveRange(map, address)
<1> DEFINE high == base + size - 1
           new == Stored(map, base, size, entry, FALSE)
<1>1. size # 0 /\ high = High(base, size) /\ high \in Nat /\ base <= high
  <2>1. ~BadRange(base, size)
    BY DEF CanStore
  <2>2. size # 0 /\ high = High(base, size)
    BY <2>1, HighRight DEF BadRange
  <2> QED
    BY <2>2
<1>2. IsRangeMap(new, Entries)
  <2>1. FALSE \in BOOLEAN
    OBVIOUS
  <2> QED
    BY <2>1, StoredDisjoint
<1>3. EndInside(map, base, high) = {} /\ Above(map, high) = {}
  BY <1>1 DEF CanStore
<1> HIDE DEF high
<1>4. ASSUME NEW k \in DOMAIN map
      PROVE  /\ k \in Nat /\ map[k].base \in Nat /\ map[k].base <= k
             /\ k # high /\ (k < base \/ high < map[k].base)
  <2>1. k \in Nat /\ map[k].base \in Nat /\ map[k].base <= k
    BY DEF IsRangeMap, Ranges
  <2>2. ~(high <= k /\ map[k].base <= high)
    BY <1>1, <1>3, AboveRight
  <2>3. ~(base <= k /\ k < high)
    BY <1>3 DEF EndInside
  <2> QED
    BY <1>1, <2>1, <2>2, <2>3
<1>5. /\ DOMAIN new = DOMAIN map \cup {high}
      /\ new[high].base = base
      /\ \A k \in DOMAIN map : new[k] = map[k]
  <2>1. new = [k \in DOMAIN map \cup {high} |->
                 IF k = high
                 THEN [base |-> base, delta |-> base - base,
                       entry |-> entry]
                 ELSE map[k]]
    BY <1>1, <1>3 DEF Stored
  <2> HIDE DEF new
  <2>2. DOMAIN new = DOMAIN map \cup {high}
    BY <2>1
  <2>3. new[high] = [base |-> base, delta |-> base - base, entry |-> entry]
    BY <2>1
  <2>4. ASSUME NEW k \in DOMAIN map
        PROVE  new[k] = map[k]
    <3>1. k # high
      BY <1>4
    <3> QED
      BY <2>1, <3>1
  <2> QED
    BY <2>2, <2>3, <2>4
<1> HIDE DEF new
<1>6. RetrieveRange(new, address) =
        {k \in DOMAIN new : new[k].base <= address /\ address <= k}
  BY <1>2, RetrieveRangeRight
<1>7. RetrieveRange(map, address) =
        {k \in DOMAIN map : map[k].base <= address /\ address <= k}
  BY RetrieveRangeRight
<1>8. CASE base <= address /\ address <= high
  <2>1. ASSUME NEW k \in DOMAIN map
        PROVE  ~(map[k].base <= address /\ address <= k)
    BY <1>1, <1>4, <1>8
  <2>2. RetrieveRange(new, address) = {high}
    BY <1>5, <1>6, <1>8, <2>1
  <2> QED
    BY <1>8, <2>2 DEF high, new
<1>9. CASE ~(base <= address /\ address <= high)
  <2>1. RetrieveRange(new, address) = RetrieveRange(map, address)
    BY <1>4, <1>5, <1>6, <1>7, <1>9
  <2> QED
    BY <1>9, <2>1 DEF high, new
<1> QED
  BY <1>8, <1>9
=============================================================================
