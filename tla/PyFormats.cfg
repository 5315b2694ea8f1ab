CONSTANTS
    Scalars <- MCScalars
    SizeBits = 12
    Lengths = {0, 3}
    MaxFields = 2
    MaxTypes = 6
SPECIFICATION Spec
INVARIANTS PortableFaithful NativeFaithful BufferFaithful
CHECK_DEADLOCK FALSE
