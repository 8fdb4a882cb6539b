SPECIFICATION Spec
CONSTANTS
    build1 = build1
    build2 = build2
    broken = broken
    spaced = spaced
    Symbolizers = {s1, s2, s3}
    Translators = {}
    Libs = {build1}
    Name <- MCName
    Id <- MCId
    Records <- MCRecords
    Readable = {build1}
    Spaced = {}
    MaxCalls = 4
    MaxLookups = 0
    MaxCrashes = 0
    MaxFaults = 0
SYMMETRY SymbolizersSymmetry
INVARIANT AnsweredIsStored
