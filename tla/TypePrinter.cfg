SPECIFICATION Spec
CONSTANTS
    NoType = NoType
    Type <- MCType
    Def <- MCDef
    FuncTy <- MCFuncTy
    VarArgs <- MCVarArgs
INVARIANTS TypeOK WrappersCompile DefinedOnce TagsDeclared
PROPERTY EveryWrapperMade
