SPECIFICATION FairSpec
CONSTANTS
    c1 = c1  c2 = c2  s1 = s1  NoCall = NoCall
    Calls = {c1}
    StreamIds = {s1}
    StreamOf <- OneCall
    ClientKinds = {"Ack", "Ping"}
    HubKinds = {"Command", "Ping"}
    MaxClientSends = 1
    MaxHubSends = 1
    MaxFrames = 0
    PipeCap = 1
    UniCap = 1
PROPERTIES
    StreamAnswered
CHECK_DEADLOCK FALSE
