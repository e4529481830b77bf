SPECIFICATION Spec
CONSTANTS
    s1 = s1  s2 = s2
    short = short  long = long  oversize = oversize
    Alphanumeric <- Letters
    Lower <- LowerCase
    MaxConns = 2
    Streams = {s1, s2}
    Foreign = {s2}
    Files <- OneFile
    PathOf <- OnePath
    Payloads = {short, long, oversize}
    Length <- Lengths
    TooLong = {oversize}
    MaxFrames <- One
    MaxTime = 1
    MaxCrashes = 1
    PipeCap = 1
    UniCap = 1
    EndpointCap = 1
INVARIANTS
    TypeOK
    TimelineIsPlayable
    ReportedIsDurable
    RecordingIsOwn
PROPERTIES
    TimelineSpec
CHECK_DEADLOCK FALSE
