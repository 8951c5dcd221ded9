\* One peer on TCP: requests cut anywhere between two pieces.
CONSTANTS
    a = a
    b = b
    u = u
    Peer = {a}
    Tcp = {a}
    OffLink = {}
    Request <- MCRequest
    BufSize = 6
    NoPeer = NoPeer
SPECIFICATION Spec
INVARIANT CutHeaderIsParsed
CHECK_DEADLOCK FALSE
