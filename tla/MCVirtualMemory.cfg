SPECIFICATION Spec
CONSTANTS
    NumPages = 3
    NumPhysPages = 2
    TLBSize = 2
    Values = {"zero", "one"}
    Zero = "zero"
    Image <- MCImage
    NoBytes = NoBytes
INVARIANTS FramesExact UntouchedPagesFlat
PROPERTY StoreCompletes
CHECK_DEADLOCK FALSE
