SPECIFICATION Spec
CONSTANTS
    console = console
    md1 = md1
    sda4 = sda4
    Node <- MCNode
    BaseNode <- MCBaseNode
    MaxStrays = 2
INVARIANTS
    TypeOK
    NodesStayInTree
    CleanUnlessStray
    StageTwoBakes
    PackedIsWhole
