\* Two peers on TCP and one on UDP, every request and every place to cut it.
CONSTANTS
    a = a
    b = b
    u = u
    Peer = {a, b, u}
    Tcp = {a, b}
    OffLink = {}
    Request <- MCRequest
    BufSize = 6
    NoPeer = NoPeer
SPECIFICATION FairSpec
INVARIANTS TypeOK WholeRequestAnswered OwnAnswer
PROPERTIES NoCollateral EveryPeerIsSeenTo
\* The process may be gone.
CHECK_DEADLOCK FALSE
