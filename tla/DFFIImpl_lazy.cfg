SPECIFICATION Spec
CONSTANTS
    header = header
    adder = adder
    adder2 = adder2
    printer = printer
    broken = broken
    redirected = redirected
    chain = chain
    warning = warning
    f = f
    p = p
    g = g
    r = r
    q = q
    fnSig = fnSig
    dblSig = dblSig
    varSig = varSig
    varSig0 = varSig0
    varSig1 = varSig1
    varSig2 = varSig2
    int = int
    dbl = dbl
    NoCode = NoCode
    NoBuf = NoBuf
    NoAddr = NoAddr
    Prog <- MCProg
    SpecSig <- MCSpecSig
    CompileCode = {adder, printer, broken}
    CdefCode = {header}
    Code <- MCCode
    Sym = {f, p, g}
    Sig = {fnSig, dblSig, varSig, varSig0, varSig1, varSig2}
    VarSig = {varSig}
    ArgTy = {int, dbl}
    BadSig = {}
    HostSym = {p}
    UserName = {"lib.h"}
    Buf = {1, 2}
    LazyJITWrappers = TRUE
    hasCXX = TRUE
    LastErrorOpts = {FALSE}
    ReusesNames = FALSE
    ReusesBufs = FALSE
    LLVMSig = {fnSig}
    MaxCUIdx = 5
    MaxWrapperIdx = 4
INVARIANTS
    TypeOK TypesHaveWrappers WrapperIdsUnique TrampolineMatches CompiledOnce UnitsFaithful ErrorsAreOwn CallsOwnDefinition
CHECK_DEADLOCK FALSE
