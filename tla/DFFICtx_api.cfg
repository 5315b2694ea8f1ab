SPECIFICATION Spec
CONSTANTS
    BasicKind = {Int}
    Count = {1, 2}
    Flags = {plain, variadic}
    ParamCount = {0, 1}
    ArrayEltConst = {TRUE, FALSE}
    MaxTypes = 3
INVARIANTS TypeOK Interned LookupSound UniqueByStructure
CHECK_DEADLOCK FALSE
