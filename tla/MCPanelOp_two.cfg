\* Two invocations at a time, of any verb, copies and writes that may come short, a
\* testparm that may refuse them, and power cuts at any point.
CONSTANTS
    alpha = alpha
    public = public
    bob = bob
    eve = eve
    Proc = {p1, p2}
    Name = {alpha, public, bob, eve}
    Alpha = alpha
    PROTECTED_USERS = {alpha}
    PROTECTED_SHARES = {alpha, public}
    InitConf <- MCConf
    InitUid <- MCUid
    Uid = {1001}
    Ops <- OverlapOps
    Faults = {"cat"}
    MaxSections = 2
    PowerCuts = TRUE
SPECIFICATION Spec
SYMMETRY Symm
VIEW ProgramView
INVARIANTS TypeOK SmbdCatchesUp
