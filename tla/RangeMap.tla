------------------------------ MODULE RangeMap ------------------------------
(***************************************************************************)
(* RangeMap and AddressMap of the Breakpad processor.  A RangeMap keeps    *)
(* disjoint address ranges keyed by their highest address:                 *)
(*     map[high] = [base, delta, entry]                                    *)
(* A look-up returns the set of the key it found: {} is the code's false.  *)
(* With shrink-down (Android) a new range gives way to the ranges below    *)
(* its high address and pushes up the range that reaches above it; delta   *)
(* counts how far a range was moved from where it was stored.              *)
(***************************************************************************)
EXTENDS Naturals, FiniteSets, Functions

CONSTANT AddressLimit    \* 2^w for the code's w-bit AddressType

ASSUME AddressLimitAssumption == AddressLimit \in Nat \ {0}

EmptyMap == [high \in {} |-> 0]

\* map_.lower_bound(address): the least key not below address.
LowerBound(map, address) ==
    {high \in DOMAIN map :
        /\ address <= high
        /\ \A other \in DOMAIN map : address <= other => high <= other}

\* upper_bound, one step back: the greatest key not above address.
LastNotAbove(map, address) ==
    {key \in DOMAIN map :
        /\ key <= address
        /\ \A other \in DOMAIN map : other <= address => other <= key}

High(base, size) == (base + size + AddressLimit - 1) % AddressLimit

\* Undersize or overflow.
BadRange(base, size) == size = 0 \/ High(base, size) < base

\* The keys of ranges that end inside the new range, below its high address.
EndInside(map, base, high) == {k \in DOMAIN map : base <= k /\ k < high}

\* Where shrink-down lets the new range start: behind the last of them.
ShrunkBase(map, base, high) ==
    IF EndInside(map, base, high) = {} THEN base
    ELSE 1 + CHOOSE k \in EndInside(map, base, high) :
                \A other \in EndInside(map, base, high) : other <= k

\* The range at or above high that begins inside the new range.
Above(map, high) == {k \in LowerBound(map, high) : map[k].base <= high}

CanStore(map, base, size, shrink) ==
    /\ ~BadRange(base, size)
    /\ IF shrink THEN High(base, size) \notin Above(map, High(base, size))
       ELSE /\ EndInside(map, base, High(base, size)) = {}
            /\ Above(map, High(base, size)) = {}

\* The map after StoreRange(base, size, entry) has returned true.
Stored(map, base, size, entry, shrink) ==
    LET high == High(base, size)
        low == IF shrink THEN ShrunkBase(map, base, high) ELSE base
        moved == [k \in Above(map, high) |->
                    [map[k] EXCEPT !.base = high + 1,
                                   !.delta = @ + (high + 1 - map[k].base)]]
        new == [k \in {high} |->
                    [base |-> low, delta |-> low - base, entry |-> entry]]
    IN  [k \in DOMAIN map \cup {high} |->
            IF k = high THEN new[k]
            ELSE IF k \in Above(map, high) THEN moved[k] ELSE map[k]]

RetrieveRange(map, address) ==
    {high \in LowerBound(map, address) : map[high].base <= address}

RetrieveNearestRange(map, address) ==
    IF RetrieveRange(map, address) # {} THEN RetrieveRange(map, address)
    ELSE LastNotAbove(map, address)

\* AddressMap: map[address] = entry.
AddressCanStore(map, address) == address \notin DOMAIN map

AddressStored(map, address, entry) ==
    [a \in DOMAIN map \cup {address} |->
        IF a = address THEN entry ELSE map[a]]

AddressRetrieve(map, address) == LastNotAbove(map, address)
=============================================================================
