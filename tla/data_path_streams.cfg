SPECIFICATION FairSpec
CONSTANTS
    s1 = s1  s2 = s2
    short = short  long = long  oversize = oversize
    Alphanumeric <- Letters
    Lower <- LowerCase
    MaxConns = 2
    Streams = {s1, s2}
    Foreign = {s2}
    Files <- OneFile
    PathOf <- OnePath
    Payloads = {short, oversize}
    Length <- Lengths
    TooLong = {oversize}
    MaxFrames <- OneTwo
    MaxTime = 0
    MaxCrashes = 1
    PipeCap = 1
    UniCap = 1
    EndpointCap = 1
INVARIANTS
    SeqTracksLoss
PROPERTIES
    FileReleased
CHECK_DEADLOCK FALSE
