SPECIFICATION Spec
CONSTANTS
    c1 = c1  c2 = c2  s1 = s1  NoCall = NoCall
    Calls = {c1, c2}
    StreamIds = {s1}
    StreamOf <- SameId
    ClientKinds = {"Event", "Ack"}
    HubKinds = {"Command"}
    MaxClientSends = 0
    MaxHubSends = 0
    MaxFrames = 1
    PipeCap = 1
    UniCap = 1
INVARIANTS
    TypeOK
    FramesFollowStreamOpened
    LifecycleOrder
    GrantsSpentOnce
    NoLostWakeup
    NoStrandedStream
    EndsAreTold
    UnreportedFramesAreHeld
PROPERTIES
    GateSpec
SYMMETRY SameIdSymmetry
CHECK_DEADLOCK FALSE
