SPECIFICATION Spec
CONSTANTS
    CType = {"A", "A*", "int*", "A[]", "F", "int", "E"}
    Composite = {"A"}
    Array = {"A[]"}
    FuncTy = {"F"}
    Enum = {"E"}
    IntTy = "int"
    PtrTo <- MCPtrTo
    FieldTy <- MCFieldTy
    RetTy <- MCRetTy
    NoType = NoType
    Programs <- MCPrograms
    MaxFFI = 1
    MaxObjs = 5
INVARIANTS TypeOK StillUsable NothingLeaks UnitsUsable
CHECK_DEADLOCK FALSE
