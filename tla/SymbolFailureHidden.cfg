SPECIFICATION Spec
CONSTANTS
    build1 = build1
    build2 = build2
    broken = broken
    spaced = spaced
    Symbolizers = {s1}
    Translators = {}
    Libs = {build1, build2, broken, spaced}
    Name <- MCName
    Id <- MCId
    Records <- MCRecords
    Readable = {build1, build2, spaced}
    Spaced = {spaced}
    MaxCalls = 1
    MaxLookups = 0
    MaxCrashes = 0
    MaxFaults = 0
INVARIANT DumpFailureReported
