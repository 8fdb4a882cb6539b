SPECIFICATION FairSpec
CONSTANTS
    AddressLimit = 1048576
    RegisterLimit = 1048576
    ByteLimit = 32
    kMaxErrorsBeforeBailing = 1
    kRASearchWords = 1
    max_frames = 20
    max_frames_scanned = 2
    MAX_STACK_FRAME_NUM = 3
    Jobs <- MCJobs
INVARIANT TypeOK
INVARIANT ReportsTheCrash
INVARIANT OneVerdict
INVARIANT WalkBounded
INVARIANT LookupRight
INVARIANT WalkIsChain
PROPERTY TranslationEnds
