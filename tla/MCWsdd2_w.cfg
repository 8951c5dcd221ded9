\* wsdd2 -w: Hello, Bye and the requests over UDP and HTTP.  Of two IPv4 addresses
\* one is on an interface without multicast; the IPv6 address is on an excluded one.
CONSTANTS
    Addr = {a1, a2, a6}
    V6 = {a6}
    Excluded = {a6}
    Multicast = {a1, a6}
    ipv46 = {}
    tcpudp = {}
    llmnrwsdd = {"wsdd"}
    ReusePort = FALSE
    Signals = {"HUP", "TERM"}
    NlCap = 2
SPECIFICATION FairSpec
INVARIANTS TypeOK StaleOnlyIfMissed OutcomeHasCause NetlinkFirst
PROPERTIES PresenceSpec ChangeIsReread TermEndsWait
\* The process ends.
CHECK_DEADLOCK FALSE
