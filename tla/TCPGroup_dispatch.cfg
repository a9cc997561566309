SPECIFICATION GroupFairSpec
CONSTANTS
    Member = {m1, m2}
    Group = {g1, g2}
    GroupName = {n1}
    GPort = {p1}
    Asked = {p1, Zero}
    Zero = Zero
    Elsewhere = Elsewhere
    Key = {k1}
    User = {u1}
    NoGroup = NoGroup
CHECK_DEADLOCK FALSE
INVARIANT
    MemberIsDispatchedTo
