\* One invocation at a time, only verbs that remove, names of shares.
CONSTANTS
    alpha = alpha
    public = public
    bob = bob
    eve = eve
    Proc = {p1}
    Name = {alpha, public, bob, eve}
    Alpha = alpha
    PROTECTED_USERS = {alpha}
    PROTECTED_SHARES = {alpha, public}
    InitConf <- MCConf
    InitUid <- SystemUid
    Uid = {1001}
    Ops <- RemoverOps
    Faults = {}
    MaxSections = 3
    PowerCuts = FALSE
SPECIFICATION Spec
INVARIANT ProtectedSharesStay
