CONSTANTS
    i1 = i1  i2 = i2
    Ids <- MCIds
    DigestLen = 2
    BufSize = 4
    Failures <- Lasting
    Bundles <- MCBundles
    MaxIds = 3
SPECIFICATION FairSpec
INVARIANTS
    IInv
    WithinBuffers
    ParsedIsAppended
    CompleteParses
    ThreadEndsFirst
    MissingOfBundle
PROPERTY ParseEnds
CHECK_DEADLOCK FALSE
