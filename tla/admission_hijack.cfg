SPECIFICATION Spec
CONSTANTS
    c1 = c1  c2 = c2  n1 = n1  n2 = n2  i1 = i1  i2 = i2  r1 = r1  r2 = r2
    good = good  bad = bad  NoConn = NoConn
    Conns = {c1, c2}
    Nodes = {n1, n2}
    NodeOf <- TwoNodes
    Foreign = {}
    Identities = {i1}
    RopeIds = {r1}
    AssignedId <- OneRope
    Tokens = {good}
    CapSets = {good}
    JoinPolicy <- TokenRequired
    CapValidator = {good}
INVARIANT
    RopeIdHasOneNode
CHECK_DEADLOCK FALSE
