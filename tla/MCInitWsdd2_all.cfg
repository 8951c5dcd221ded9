\* Two invocations at a time over two process numbers, within two seconds.
CONSTANTS
    Caller = {c1, c2}
    Pid = {p1, p2}
    NoPid = NoPid
    MaxTime = 2
    MaxMsg = 2
SPECIFICATION FairSpec
INVARIANTS TypeOK OnlyDaemonIsNamed
PROPERTIES MessagesInOrder InvocationEnds
