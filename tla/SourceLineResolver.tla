------------------------- MODULE SourceLineResolver -------------------------
(***************************************************************************)
(* BasicSourceLineResolver: what it makes of a symbol file, and what it    *)
(* answers.  A symbol file is a sequence of records                        *)
(*     [type, ok, address, size, ...]                                      *)
(* type is FILE, FUNC, LINE, PUBLIC, INIT or DELTA (STACK CFI), or OTHER   *)
(* for MODULE and INFO; ok is FALSE where the code's parser refuses the    *)
(* line; a line with a null character in it has a field null.  Addresses   *)
(* are relative to the module.  Look-ups return sets, {} for nothing.      *)
(* STACK WIN lines, which dump_syms writes for no Android library, are     *)
(* left out.                                                               *)
(***************************************************************************)
EXTENDS RangeMap, Sequences, SequencesExt, TLC

CONSTANT kMaxErrorsBeforeBailing

EmptyModule ==
    [functions |-> EmptyMap,    \* functions_, entry = [name, func]
     lines |-> <<>>,            \* the lines of each Function made
     current |-> 0,             \* cur_func, an index of lines, or 0
     public |-> EmptyMap,       \* public_symbols_
     files |-> {},              \* files_
     initial |-> EmptyMap,      \* cfi_initial_rules_
     delta |-> EmptyMap,        \* cfi_delta_rules_
     errors |-> 0]

Error(m) == [m EXCEPT !.errors = @ + 1]

Store(map, r, entry) ==
    IF CanStore(map, r.address, r.size, FALSE)
    THEN Stored(map, r.address, r.size, entry, FALSE) ELSE map

\* A function that overlaps another is dropped without an error, and the
\* lines that follow go with it.
AddFunction(m, r) ==
    IF ~r.ok THEN Error([m EXCEPT !.current = 0])
    ELSE [m EXCEPT !.lines = Append(@, EmptyMap),
                   !.current = Len(m.lines) + 1,
                   !.functions = Store(@, r, [name |-> r.name,
                                              func |-> Len(m.lines) + 1])]

AddLineIgnoresSymbol(m, r) ==
    IF m.lines = <<>> \/ ~r.ok THEN Error(m)
    ELSE [m EXCEPT !.lines[Len(m.lines)] = Store(@, r, r)]

AddLine(m, r) ==
    IF m.current = 0 \/ ~r.ok THEN Error(m)
    ELSE [m EXCEPT !.lines[m.current] = Store(@, r, r)]

\* Symbols at address 0 are accepted and ignored.
AddPublicSymbol(m, r) ==
    LET cleared == [m EXCEPT !.current = 0]
    IN  IF ~r.ok THEN Error(cleared)
        ELSE IF r.address = 0 THEN cleared
        ELSE IF ~AddressCanStore(m.public, r.address) THEN Error(cleared)
        ELSE [cleared EXCEPT !.public = AddressStored(@, r.address, r.name)]

AddStackInfo(m, r) ==
    IF ~r.ok THEN Error(m)
    ELSE IF r.type = "INIT"
         THEN [m EXCEPT !.initial = Store(@, r, r.rules)]
         ELSE [m EXCEPT !.delta = (r.address :> r.rules) @@ @]

AddFile(m, r) ==
    IF r.ok THEN [m EXCEPT !.files = @ \cup {r.file}] ELSE Error(m)

\* One line of the file; after too many errors the rest is not read.
AddRecord(m, r) ==
    IF m.errors > kMaxErrorsBeforeBailing THEN m
    ELSE CASE r.type = "FILE" -> AddFile(m, r)
           [] r.type \in {"INIT", "DELTA"} -> AddStackInfo(m, r)
           [] r.type = "FUNC" -> AddFunction(m, r)
           [] r.type = "PUBLIC" -> AddPublicSymbol(m, r)
           [] r.type = "LINE" -> AddLine(m, r)
           [] OTHER -> m

\* A null character in the middle of the file is replaced, and is one error,
\* counted before the first line is read.
HasNull(r) == "null" \in DOMAIN r

LoadMapFromMemory(records) ==
    FoldLeft(AddRecord,
             IF \E i \in DOMAIN records : HasNull(records[i])
             THEN Error(EmptyModule) ELSE EmptyModule, records)

IsCorrupt(m) == m.errors > 0

LineAt(m, func, address) ==
    {[line |-> m.lines[func][k].entry.line, base |-> m.lines[func][k].base,
      file |-> m.lines[func][k].entry.file \in m.files] :
        k \in RetrieveRange(m.lines[func], address)}

\* The function that covers the address; else the last public symbol before
\* it, if no function lies between them.
LookupAddress(m, address) ==
    LET near == RetrieveNearestRange(m.functions, address)
        base(k) == m.functions[k].base
        covering == {k \in near : base(k) <= address /\ address <= k}
        public == {p \in AddressRetrieve(m.public, address) :
                    \A k \in near : p > base(k)}
    IN  IF covering # {}
        THEN {[name |-> m.functions[k].entry.name, base |-> base(k),
               line |-> LineAt(m, m.functions[k].entry.func, address)] :
                k \in covering}
        ELSE {[name |-> m.public[p], base |-> p, line |-> {}] : p \in public}

\* The rules of STACK CFI at an address: those of the INIT record, each
\* replaced by that of the last delta record up to the address.  A rule set
\* is [rules, whole]; whole is FALSE if its end could not be parsed.
FindCFIFrameInfo(m, address) ==
    LET deltas(base, name) ==
            {d \in DOMAIN m.delta : /\ base <= d /\ d <= address
                                    /\ name \in DOMAIN m.delta[d].rules}
        last(base, name) ==
            CHOOSE d \in deltas(base, name) :
                \A other \in deltas(base, name) : other <= d
        names(k) == DOMAIN m.initial[k].entry.rules
                        \cup UNION {DOMAIN m.delta[d].rules :
                                    d \in DOMAIN m.delta}
        rule(k, name) ==
            IF deltas(m.initial[k].base, name) # {}
            THEN {m.delta[last(m.initial[k].base, name)].rules[name]}
            ELSE {m.initial[k].entry.rules[n] :
                    n \in DOMAIN m.initial[k].entry.rules \cap {name}}
        set(k) == {name \in names(k) : rule(k, name) # {}}
    IN  {[name \in set(k) |-> CHOOSE e \in rule(k, name) : TRUE] :
            k \in {i \in RetrieveRange(m.initial, address) :
                    m.initial[i].entry.whole}}

-----------------------------------------------------------------------------
\* What a symbol file means, record by record and without range maps.

Covers(r, address) == r.address <= address /\ address < r.address + r.size

Overlap(r, s) ==
    r.address < s.address + s.size /\ s.address < r.address + r.size

\* Of the records in is, those that do not overlap an earlier one kept.
Kept(records, is) ==
    LET kept[n \in 0..Len(records)] ==
            IF n = 0 THEN {}
            ELSE IF /\ n \in is /\ records[n].size > 0
                    /\ \A i \in kept[n - 1] : ~Overlap(records[i], records[n])
                 THEN kept[n - 1] \cup {n} ELSE kept[n - 1]
    IN  kept[Len(records)]

KeptFunctions(records) ==
    Kept(records, {i \in DOMAIN records :
                    records[i].type = "FUNC" /\ records[i].ok})

\* The lines after function i and before the next symbol.
LinesOf(records, i) ==
    Kept(records, {j \in DOMAIN records :
                    /\ j > i /\ records[j].type = "LINE" /\ records[j].ok
                    /\ \A k \in (i + 1)..j :
                            records[k].type \notin {"FUNC", "PUBLIC"}})

\* The name and the line numbers at an address: of the function that covers
\* it, else of the nearest symbol that starts below if that is a public one.
Meaning(records, address) ==
    LET covering == {i \in KeptFunctions(records) :
                        Covers(records[i], address)}
        below(i) == records[i].address <= address
        public == {i \in DOMAIN records :
                    /\ records[i].type = "PUBLIC" /\ records[i].ok
                    /\ records[i].address # 0 /\ below(i)}
        nearest == {i \in public :
                    /\ \A j \in public :
                        \/ records[j].address < records[i].address
                        \/ records[j].address = records[i].address /\ i <= j
                    /\ \A j \in KeptFunctions(records) : below(j) =>
                        records[j].address < records[i].address}
    IN  IF covering # {}
        THEN {<<records[i].name, {records[j].line : j \in
                {l \in LinesOf(records, i) : Covers(records[l], address)}}>> :
                    i \in covering}
        ELSE {<<records[i].name, {}>> : i \in nearest}
=============================================================================
