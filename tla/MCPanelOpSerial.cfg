\* Invocations one after the other, any of whose commands may fail but smbpasswd -x.
CONSTANTS
    alpha = alpha
    public = public
    bob = bob
    eve = eve
    Proc = {p1}
    Name = {alpha, public, bob, eve}
    Alpha = alpha
    PROTECTED_USERS = {alpha}
    PROTECTED_SHARES = {alpha, public}
    InitConf <- MCConf
    InitUid <- MCUid
    Uid = {1001}
    Ops <- AllOps
    Faults = {"mktemp", "adduser", "usermod", "smbpasswd-a", "smbpasswd-n",
              "mkdir", "chown", "cat", "testparm", "deluser"}
    MaxSections = 2
    PowerCuts = FALSE
SPECIFICATION SSpec
VIEW SerialView
INVARIANTS SambaUserHasAccount OkMeansDone UniqueSections DirMatchesOwner ErrLeavesConf
PROPERTY RegistrySpec
