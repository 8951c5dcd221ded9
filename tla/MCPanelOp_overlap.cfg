\* Two invocations that write smb.conf, neither touching a protected share.
CONSTANTS
    alpha = alpha
    public = public
    bob = bob
    eve = eve
    Proc = {p1, p2}
    Name = {alpha, public, bob, eve}
    Alpha = alpha
    PROTECTED_USERS = {alpha}
    PROTECTED_SHARES = {alpha, public}
    InitConf <- MCConf
    InitUid <- MCUid
    Uid = {1001}
    Ops <- WriterOps
    Faults = {}
    MaxSections = 3
    PowerCuts = FALSE
SPECIFICATION Spec
INVARIANT SmbdKeepsProtected
