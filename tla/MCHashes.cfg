CONSTANTS
    WordBits = 8
    ByteBits = 3
    WindowSize = 3
    Polys <- MCPolys
    Bytes <- MCBytes
    Zero = 0
    BlockBytes = 3
    WordMax = 5
    MaxLength = 9
    Data <- MCData
SPECIFICATION MCSpec
INVARIANTS
    ValueIsWindow
    DigestOfMessage
    InBounds
    IInv
    KnownAnswers
PROPERTY ImplementsWindow
