SPECIFICATION Spec
CONSTANTS
    header = header
    adder = adder
    adder2 = adder2
    printer = printer
    broken = broken
    redirected = redirected
    chain = chain
    warning = warning
    f = f
    p = p
    g = g
    r = r
    q = q
    fnSig = fnSig
    dblSig = dblSig
    varSig = varSig
    varSig0 = varSig0
    varSig1 = varSig1
    varSig2 = varSig2
    int = int
    dbl = dbl
    NoCode = NoCode
    NoBuf = NoBuf
    NoAddr = NoAddr
    Prog <- MCProg
    SpecSig <- MCSpecSig
    CompileCode = {adder, adder2, warning, redirected, chain}
    CdefCode = {header, redirected}
    Code <- MCCode
    Sym = {f, p, g, r, q}
    Sig = {fnSig, dblSig, varSig, varSig0, varSig1, varSig2}
    VarSig = {varSig}
    ArgTy = {int, dbl}
    BadSig = {dblSig}
    HostSym = {p}
    UserName = {"lib.h"}
    Buf = {1}
    LazyJITWrappers = FALSE
    hasCXX = FALSE
    LastErrorOpts = {TRUE, FALSE}
    ReusesNames = TRUE
    ReusesBufs = TRUE
    LLVMSig = {fnSig, varSig}
    MaxCUIdx = 4
    MaxWrapperIdx = 4
INVARIANTS
    TypesHaveWrappers WrapperIdsUnique
CHECK_DEADLOCK FALSE
