SPECIFICATION FairSpec
CONSTANTS
    r1 = r1  r2 = r2  r3 = r3
    RopeIds = {r1, r2, r3}
    MaxConns = 3
    RopeOf <- Cast
    Gate = r2
    Light = r3
    Camera = r1
    Owner = r1
    Administrators = {r1}
    Mistyping = {3}
    MaxMotions = 1
INVARIANTS
    TypeOK
    SettledByPin
    ChallengeUnderWay
    AlarmUnderWay
    CommandUnderWay
PROPERTIES
    ChallengeSettles
    MotionLocksGate
    CommandIsAcked
CHECK_DEADLOCK FALSE
