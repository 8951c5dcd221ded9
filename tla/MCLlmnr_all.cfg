\* A resolver on each family, lost queries and replies, renames and readdressing.
CONSTANTS
    r4 = r4
    r6 = r6
    i4 = i4
    i6 = i6
    NoAddr = NoAddr
    NoQuery = NoQuery
    NoReply = NoReply
    Asker = {r4, r6}
    Addr = {i4, i6}
    V6 = {r6, i6}
    OnSubnet <- MCOnSubnet
    HostName <- MCHostName
    Lower <- MCLower
    Query <- MCQuery
    RxCap = 1
    MaxAsks <- MCMaxAsks
SPECIFICATION Spec
INVARIANTS TypeOK AnsweredTruly
PROPERTY RegularIsServed
