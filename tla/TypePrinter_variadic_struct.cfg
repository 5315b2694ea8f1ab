SPECIFICATION Spec
CONSTANTS
    NoType = NoType
    Type <- VaType
    Def <- VaDef
    FuncTy <- VaFuncTy
    VarArgs <- VaVarArgs
INVARIANT WrappersCompile
