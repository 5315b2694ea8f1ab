CONSTANTS
    none = none long1 = long1 ptr1 = ptr1 cptr1 = cptr1 arr1 = arr1 carr1 = carr1
    str1 = str1 badstr1 = badstr1 bytes1 = bytes1 buf1 = buf1 struct1 = struct1
    inc = inc put = put fill = fill copyin = copyin log = log
    Val = {long1, ptr1, cptr1, arr1, carr1, str1, badstr1, bytes1, buf1, struct1}
    Py <- MCPy
    Fun = {inc, put, fill, copyin, log}
    Params <- MCParams
    VarFun = {log}
    Fmt <- MCFmt
    Ty = {"int", "long", "char", "uchar", "S"}
    CharTy = "char"
    Encodes = {str1}
    NoVal = none
    SizeBits = 8
    MaxSize = 100
    MaxArgs = 2
    MaxDepth = 2
    MaxDropped = 1
    MaxMoves = 1
    ResizesPassed = FALSE
SPECIFICATION Spec
INVARIANTS TypeOK ArgumentsAlive PointerConstKept WrapperFits
