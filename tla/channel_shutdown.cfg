SPECIFICATION FairSpec
CONSTANTS
    c1 = c1  c2 = c2  s1 = s1  NoCall = NoCall
    Calls = {c1}
    StreamIds = {s1}
    StreamOf <- OneCall
    ClientKinds = {"Event"}
    HubKinds = {"Command"}
    MaxClientSends = 0
    MaxHubSends = 0
    MaxFrames = 1
    PipeCap = 1
    UniCap = 1
PROPERTY
    ShutdownReleasesSocket
CHECK_DEADLOCK FALSE
