SPECIFICATION FairSpec
CONSTANTS
    c1 = c1  c2 = c2  n1 = n1  n2 = n2  i1 = i1  i2 = i2  r1 = r1  r2 = r2
    good = good  bad = bad  NoConn = NoConn
    Conns = {c1, c2}
    Nodes = {n1, n2}
    NodeOf <- TwoNodes
    Foreign = {c1}
    Identities = {i1, i2}
    RopeIds = {r1, r2}
    AssignedId <- Apart
    Tokens = {good}
    CapSets = {good, bad}
    JoinPolicy <- Custom
    CapValidator = {good}
INVARIANTS
    TypeOK
    AdmissionIsRight
    UniqueConnectionIds
    ServedIsReachable
    PartedAreForgotten
PROPERTIES
    HandshakeEnds
    DepartedForgotten
    MembershipSpec
CHECK_DEADLOCK FALSE
