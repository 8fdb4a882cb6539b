SPECIFICATION Spec
CONSTANTS
    build1 = build1
    build2 = build2
    broken = broken
    spaced = spaced
    Symbolizers = {s1}
    Translators = {t1}
    Libs = {build1, build2, broken, spaced}
    Name <- MCName
    Id <- MCId
    Records <- MCRecords
    Readable = {build1, build2, spaced}
    Spaced = {spaced}
    MaxCalls = 3
    MaxLookups = 1
    MaxCrashes = 1
    MaxFaults = 2
INVARIANT TypeOK
INVARIANT StoredComplete
INVARIANT StoredOwn
INVARIANT LoadedWhole
PROPERTY PublishedStays
