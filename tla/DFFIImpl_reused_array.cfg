SPECIFICATION Spec
CONSTANTS
    header = header
    adder = adder
    adder2 = adder2
    printer = printer
    broken = broken
    redirected = redirected
    chain = chain
    warning = warning
    f = f
    p = p
    g = g
    r = r
    q = q
    fnSig = fnSig
    dblSig = dblSig
    varSig = varSig
    varSig0 = varSig0
    varSig1 = varSig1
    varSig2 = varSig2
    int = int
    dbl = dbl
    NoCode = NoCode
    NoBuf = NoBuf
    NoAddr = NoAddr
    Prog <- MCProg
    SpecSig <- MCSpecSig
    CompileCode = {printer}
    CdefCode = {}
    Code <- MCCode
    Sym = {p}
    Sig = {fnSig, dblSig, varSig, varSig0, varSig1, varSig2}
    VarSig = {varSig}
    ArgTy = {int, dbl}
    BadSig = {}
    HostSym = {p}
    UserName = {}
    Buf = {1}
    LazyJITWrappers = TRUE
    hasCXX = FALSE
    LastErrorOpts = {FALSE}
    ReusesNames = FALSE
    ReusesBufs = TRUE
    LLVMSig = {fnSig}
    MaxCUIdx = 6
    MaxWrapperIdx = 4
INVARIANTS
    TrampolineMatches
CHECK_DEADLOCK FALSE
