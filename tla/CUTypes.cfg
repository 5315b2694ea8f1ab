SPECIFICATION Spec
CONSTANTS
    DIType <- MCDIType
    DI <- MCDI
    NoNode = NoNode
    Roots <- MCRoots
    Reserved = {}
    BasicAlign <- MCBasicAlign
    PtrAlign = 8
    IntAlign = 4
INVARIANTS TypeOK NoAbort MembersFaithful NamesFaithful AlignBounded
PROPERTIES Settled CompileReturns
