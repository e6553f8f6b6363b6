SPECIFICATION FairSpec
CONSTANTS
    Files <- MCFiles
    BufSize = 30
    MinRead = 3
    WrapLen = 3
    PerSample = 2
    Word = 1000
    MaxTurns = 2
INVARIANT TypeOK
INVARIANT SampleAligned
PROPERTY PlaysWanted
PROPERTY DecodeEnds
\* The program waits for the next track.
CHECK_DEADLOCK FALSE
