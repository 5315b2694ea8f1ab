------------------------------ MODULE DFFIImpl ------------------------------
(***************************************************************************)
(* The engine of DragonFFI (lib/dffi_impl.h, lib/dffi_impl.cpp): source    *)
(* texts become compilation units, and functions of those units become     *)
(* NativeFuncs, a code address paired with a compiled call wrapper         *)
(* ("trampoline") for the function's type.  The library is sequential:     *)
(* one API call is one action, and the host program makes the calls in any *)
(* order and with any arguments.                                           *)
(*                                                                         *)
(* A source text is opaque; Prog says what clang makes of it.  Function    *)
(* types are values here: DFFICtx interns them, so equal types are equal   *)
(* pointers.                                                               *)
(***************************************************************************)
EXTENDS Naturals, Sequences, FiniteSets

CONSTANTS
    Code,          \* source texts
    CompileCode,   \* the ones the host passes to compile
    CdefCode,      \* the ones the host passes to cdef
    Sym,           \* C function names
    Sig,           \* C function signatures
    VarSig,        \* the variadic ones
    ArgTy,         \* types of variadic arguments
    Prog,          \* Code -> what the front end makes of the text:
                   \*   ok, warn : does it compile? does clang warn about it?
                   \*   defs, decls : functions it defines, declares; Sym -> Sig
                   \*     (the ones compile exposes: in C++ the extern "C" ones,
                   \*     and no function that never returns)
                   \*   name, place : of a definition, its name in the source,
                   \*     which an asm label makes differ from its symbol (in
                   \*     C++ compile skips such functions), and its place
                   \*     among the functions of the module
                   \*   alias : asm labels of the first declarations of functions
                   \*     other than definitions; Sym -> Sym
    SpecSig,       \* SpecSig[s][l]: variadic s without its ellipsis, with the
                   \* parameters of list l added
    BadSig,        \* signatures whose wrapper clang rejects
    HostSym,       \* names the process' dynamic libraries define
    UserName,      \* names the host gives to compilation units
    Buf,           \* arrays of `Type const*` the host passes as VarArgs
    NoCode, NoBuf, NoAddr,  \* null values
    LazyJITWrappers, hasCXX,   \* CCOpts
    LastErrorOpts, \* the UseLastError arguments the host uses
    ReusesNames,   \* may the host give one name to two source texts?
    ReusesBufs,    \* may the host overwrite a VarArgs array after a call?
    LLVMSig,       \* signatures the host calls getWrapperLLVM on
    MaxCUIdx,      \* bound on CUIdx_
    MaxWrapperIdx  \* bound on WrapperIdx_

(* Lists of variadic argument types: none, or one.                         *)
ArgList == {<<>>} \cup {<<t>> : t \in ArgTy}

ASSUME EngineAssumption ==
    /\ IsFiniteSet(Sym)
    /\ CompileCode \subseteq Code /\ CdefCode \subseteq Code
    /\ VarSig \subseteq Sig /\ BadSig \subseteq Sig /\ LLVMSig \subseteq Sig
    /\ SpecSig \in [VarSig -> [ArgList -> Sig \ VarSig]]
    /\ NoCode \notin Code /\ NoBuf \notin Buf
    /\ \A c \in Code :
         /\ Prog[c].ok \in BOOLEAN /\ Prog[c].warn \in BOOLEAN
         /\ DOMAIN Prog[c].defs \subseteq Sym /\ DOMAIN Prog[c].decls \subseteq Sym
         /\ \A s \in DOMAIN Prog[c].defs : Prog[c].defs[s] \in Sig
         /\ \A s \in DOMAIN Prog[c].decls : Prog[c].decls[s] \in Sig
         /\ Prog[c].name \in [DOMAIN Prog[c].defs -> Sym]
         /\ Prog[c].place \in [DOMAIN Prog[c].defs -> Nat]
         /\ hasCXX => \A s \in DOMAIN Prog[c].defs : Prog[c].name[s] = s
         /\ DOMAIN Prog[c].alias \subseteq Sym
         /\ \A s \in DOMAIN Prog[c].alias : Prog[c].alias[s] \in Sym
    /\ LazyJITWrappers \in BOOLEAN /\ hasCXX \in BOOLEAN
    /\ LastErrorOpts \subseteq BOOLEAN
    /\ ReusesNames \in BOOLEAN /\ ReusesBufs \in BOOLEAN
    /\ MaxCUIdx \in Nat /\ MaxWrapperIdx \in Nat

VARIABLES
    VFS_,           \* InMemoryFileSystem: file name -> contents
    ErrorMsg_,      \* texts whose diagnostics the buffer holds, in order
    LangOpts,       \* [cxx, debug]: language mode and debug info of clang
    CUIdx_,         \* numbers the private files
    WrapperIdx_,    \* next wrapper number
    FuncTyWrappers_,        \* FunctionType -> wrapper number
    VarArgsFuncTyWrappers_, \* entries of the variadic wrapper map
    CUs_,           \* the compilation units
    jitDefs,        \* EE_: Sym -> the text whose definition the name links to
    jitWrappers,    \* EE_: the compiled wrappers
    mem,            \* contents of the host's VarArgs arrays
    ret,            \* result of the last call
    status          \* "running", or how the process died

frontVars == <<VFS_, LangOpts, CUIdx_>>
idVars    == <<WrapperIdx_, FuncTyWrappers_, VarArgsFuncTyWrappers_>>
vars == <<VFS_, ErrorMsg_, LangOpts, CUIdx_, WrapperIdx_, FuncTyWrappers_,
          VarArgsFuncTyWrappers_, CUs_, jitDefs, jitWrappers, mem, ret, status>>

FunctionType == [sig : Sig, lasterror : BOOLEAN]
hasVarArgs(FTy) == FTy.sig \in VarSig

WrapperDef == [id : Nat, ty : FunctionType, args : ArgList]
-----------------------------------------------------------------------------
(***************************************************************************)
(* Files.  The virtual file system holds source texts under the host's     *)
(* names, and private files numbered by CUIdx_: anonymous source texts,    *)
(* texts completed with forced declarations, and wrappers.                 *)
(***************************************************************************)
UserFile(u)     == <<"user", u>>
AnonFile(n)     == <<"anon_cu", n>>
ForceFile(f)    == <<"force_decls", f>>
WrapperFile(n)  == <<"wrappers", n>>

SourceText(c)   == [code |-> c, decls |-> NoCode, wraps |-> {}]
ForcedText(c, d) == [code |-> c, decls |-> d, wraps |-> {}]
WrapperText(ws) == [code |-> NoCode, decls |-> NoCode, wraps |-> ws]

Extend(f, x, v) == [y \in DOMAIN f \cup {x} |-> IF y = x THEN v ELSE f[y]]

(* InMemoryFileSystem::addFile leaves a file that exists as it is (it      *)
(* returns false when the contents differ, which no caller looks at).      *)
addFile(fs, name, text) ==
    IF name \in DOMAIN fs THEN fs ELSE Extend(fs, name, text)

(* Mutant: whatever is compiled leaves a message, the text it was          *)
(* completed with included.                                                *)
MutDiagnosed(text) == <<text.code, text.decls>>

(* What clang writes to the diagnostics stream while it compiles a text.   *)
Diagnosed(text) ==
    IF Prog[text.code].ok /\ ~Prog[text.code].warn THEN <<>> ELSE <<text.code>>

-----------------------------------------------------------------------------
(***************************************************************************)
(* What a compilation unit exposes: the functions its text defines and,    *)
(* for cdef, the ones whose declarations the AST pass found (they are      *)
(* emitted as __dffi_force_decl_ functions and removed from the module).   *)
(***************************************************************************)
Declared(text) == IF text.decls = NoCode THEN {} ELSE DOMAIN Prog[text.decls].decls

FuncTys(text, UseLastError) ==
    [s \in DOMAIN Prog[text.code].defs \cup Declared(text) |->
        [sig |-> IF s \in Declared(text) THEN Prog[text.decls].decls[s]
                                         ELSE Prog[text.code].defs[s],
         lasterror |-> UseLastError]]

(* Definitions whose name in the source is not their symbol.               *)
Renamed(text) ==
    {s \in DOMAIN Prog[text.code].defs : Prog[text.code].name[s] # s}

(* parseFunctionAlias records the names of these, from the debug info, and *)
(* HandleFD those of declarations with asm labels, from the AST.           *)
AliasesOfDefs(text) == {Prog[text.code].name[s] : s \in Renamed(text)}
AliasesOfDecls(text) ==
    IF text.decls = NoCode THEN {} ELSE DOMAIN Prog[text.decls].alias

FuncAliases(text) ==
    [s \in AliasesOfDefs(text) \cup AliasesOfDecls(text) |->
        IF s \in AliasesOfDefs(text)
        THEN CHOOSE d \in Renamed(text) : Prog[text.code].name[d] = s
        ELSE Prog[text.decls].alias[s]]

(* The name of a definition is the symbol of an earlier one ("function     *)
(* alias already defined!").  Forced declarations come after definitions.  *)
DefinedBefore(text) ==
    \E s \in Renamed(text) :
        LET name == Prog[text.code].name[s] IN
        /\ name \in DOMAIN Prog[text.code].defs
        /\ Prog[text.code].place[name] < Prog[text.code].place[s]

(* It is in FuncAliases_ ("function alias already in alias list!"): of     *)
(* another definition, or of the declaration that has the asm label, which *)
(* HandleFD has seen before the definition.                                *)
AliasTwice(text) ==
    \E s \in Renamed(text) :
        LET name == Prog[text.code].name[s] IN
        \/ name \in AliasesOfDecls(text)
        \/ \E d \in Renamed(text) \ {s} : Prog[text.code].name[d] = name

(* parseFunctionAlias asserts that neither is the case.                    *)
AliasAssertFails(text) == DefinedBefore(text) \/ AliasTwice(text)

-----------------------------------------------------------------------------
(***************************************************************************)
(* Wrappers.                                                               *)
(***************************************************************************)
UserLang == [cxx |-> hasCXX, debug |-> TRUE]

(* Mutant: CUIdx_ is not incremented, so the next wrappers find an old     *)
(* file under their name.                                                  *)
MutCompileWrappersStale(ws, i, fs, after) ==
    /\ i < MaxCUIdx
    /\ CUIdx_' = i
    /\ VFS_' = addFile(fs, WrapperFile(i), WrapperText(ws))
    /\ jitWrappers' = jitWrappers \cup VFS_'[WrapperFile(i)].wraps
    /\ LangOpts' = UserLang
    /\ status' = after

(* Mutant: the options wrappers are compiled with are not put back.        *)
MutCompileWrappersNoRestore(ws, i, fs, after) ==
    /\ i < MaxCUIdx
    /\ CUIdx_' = i + 1
    /\ VFS_' = addFile(fs, WrapperFile(i), WrapperText(ws))
    /\ jitWrappers' = jitWrappers \cup VFS_'[WrapperFile(i)].wraps
    /\ LangOpts' = [cxx |-> FALSE, debug |-> FALSE]
    /\ status' = after

(* compileWrappers: compiles one private file with the wrappers in it, as  *)
(* C and without debug info, then puts the language options back.  A text  *)
(* clang rejects is a fatal error.  i and fs are CUIdx_ and VFS_ as the    *)
(* caller has left them; `after` is the status of a call that goes on.     *)
compileWrappers(ws, i, fs, after) ==
    /\ i < MaxCUIdx
    /\ CUIdx_' = i + 1
    /\ VFS_' = addFile(fs, WrapperFile(i), WrapperText(ws))
    /\ LET compiled == VFS_'[WrapperFile(i)].wraps
           ok == \A w \in compiled : w.ty.sig \notin BadSig
       IN  /\ jitWrappers' = IF ok THEN jitWrappers \cup compiled ELSE jitWrappers
           /\ LangOpts' = IF ok THEN UserLang ELSE [cxx |-> FALSE, debug |-> TRUE]
           /\ status' = IF ok THEN after ELSE "fatal"

(* The result of a call, if it gets that far.                              *)
Returns(r) == ret' = IF status' = "running" THEN r ELSE ret

(* getFuncTypeWrapperId(FTy) followed, for a new number, by                *)
(* genFuncTypeWrapper and compileWrappers: getWrapperAddress(FTy).  The    *)
(* caller assigns WrapperIdx_.                                             *)
getWrapperAddress(FTy, after) ==
    IF FTy \in DOMAIN FuncTyWrappers_
    THEN /\ status' = after
         /\ UNCHANGED <<frontVars, FuncTyWrappers_, jitWrappers>>
    ELSE /\ WrapperIdx_ < MaxWrapperIdx
         /\ FuncTyWrappers_' = Extend(FuncTyWrappers_, FTy, WrapperIdx_)
         /\ compileWrappers({[id |-> WrapperIdx_, ty |-> FTy, args |-> <<>>]},
                            CUIdx_, VFS_, after)

(* Mutant: a number is used and not consumed.                              *)
MutWrapperIdxAfter(FTy) == WrapperIdx_

WrapperIdxAfter(FTy) ==
    IF FTy \in DOMAIN FuncTyWrappers_ THEN WrapperIdx_ ELSE WrapperIdx_ + 1

(***************************************************************************)
(* The variadic map is a DenseMap whose keys hold an ArrayRef: the address *)
(* of the host's array, not a copy of it.  Hashing and comparing a key     *)
(* reads the array as it is now; `placed` is what it held when the entry   *)
(* was put in its bucket.  An entry whose array still holds that is always *)
(* found; one whose array has come to hold the list asked for is found     *)
(* only if the probes for the list meet its bucket.                        *)
(***************************************************************************)
Contents(b) == IF b = NoBuf THEN <<>> ELSE <<mem[b]>>

(* Mutant: keys compared by the address of the array, so that only the     *)
(* empty list, which has none, is found again.                             *)
MutSureHits(FTy, args) ==
    {e \in VarArgsFuncTyWrappers_ : e.ty = FTy /\ args = <<>> /\ e.placed = args}

(* Mutant: the list of arguments is not part of the key.                   *)
MutPossibleHits(FTy, args) == {e \in VarArgsFuncTyWrappers_ : e.ty = FTy}

SureHits(FTy, args) ==
    {e \in VarArgsFuncTyWrappers_ :
        e.ty = FTy /\ Contents(e.buf) = args /\ e.placed = args}
PossibleHits(FTy, args) ==
    {e \in VarArgsFuncTyWrappers_ : e.ty = FTy /\ Contents(e.buf) = args}

(* Insertion; a DenseMap that grows first moves every entry to the bucket  *)
(* of what its array holds now.                                            *)
InsertVarArgs(FTy, b, id) ==
    \E grows \in BOOLEAN :
        VarArgsFuncTyWrappers_' =
            {IF grows THEN [e EXCEPT !.placed = Contents(e.buf)] ELSE e :
                e \in VarArgsFuncTyWrappers_}
              \cup {[ty |-> FTy, buf |-> b, placed |-> Contents(b), id |-> id]}

-----------------------------------------------------------------------------
(***************************************************************************)
(* DFFIImpl::compile.                                                      *)
(***************************************************************************)

(* Mutant: the buffer is copied out and not emptied.                       *)
MutCompileError(c, i, fs, msgs) ==
    /\ VFS_' = fs
    /\ CUIdx_' = i
    /\ ErrorMsg_' = msgs
    /\ ret' = [kind |-> "error", code |-> c, msgs |-> msgs]
    /\ UNCHANGED <<LangOpts, idVars, CUs_, jitDefs, jitWrappers, mem, status>>

(* A failed pass: the whole buffer is handed out, and no unit is created.  *)
CompileError(c, i, fs, msgs) ==
    /\ VFS_' = fs
    /\ CUIdx_' = i
    /\ ErrorMsg_' = <<>>
    /\ ret' = [kind |-> "error", code |-> c, msgs |-> msgs]
    /\ UNCHANGED <<LangOpts, idVars, CUs_, jitDefs, jitWrappers, mem, status>>

(* Function types of the new unit that have no wrapper yet, numbered in    *)
(* the order of the module's functions (left open).                        *)
NewTypes(FTys) ==
    IF LazyJITWrappers THEN {} ELSE {FTys[s] : s \in DOMAIN FTys} \ DOMAIN FuncTyWrappers_

Numberings(Tys) ==
    {num \in [Tys -> WrapperIdx_..(WrapperIdx_ + Cardinality(Tys) - 1)] :
        \A t, u \in Tys : num[t] = num[u] => t = u}

(* The rest of compile once `text` has compiled with LangOpts: types and   *)
(* functions are read from the debug info, the module is linked into the   *)
(* JIT, the missing wrappers are compiled and the unit is registered.  A   *)
(* definition linked later replaces an earlier one of the same name.       *)
CompileModule(c, text, i, fs, msgs, UseLastError) ==
    LET FTys == FuncTys(text, UseLastError)
        new  == NewTypes(FTys)
    IN  /\ WrapperIdx_ + Cardinality(new) <= MaxWrapperIdx
        /\ \E num \in Numberings(new) :
              /\ FuncTyWrappers_' = [t \in DOMAIN FuncTyWrappers_ \cup new |->
                                       IF t \in new THEN num[t] ELSE FuncTyWrappers_[t]]
              /\ compileWrappers({[id |-> num[t], ty |-> t, args |-> <<>>] : t \in new},
                                 i, fs, "running")
        /\ WrapperIdx_' = WrapperIdx_ + Cardinality(new)
        /\ jitDefs' = [s \in Sym |-> IF s \in DOMAIN Prog[text.code].defs
                                     THEN text.code ELSE jitDefs[s]]
        /\ ErrorMsg_' = msgs
        /\ Returns([kind |-> "cu"])
        /\ CUs_' = IF status' = "running"
                   THEN Append(CUs_, [code |-> c, text |-> text, lang |-> LangOpts,
                                      FuncTys_ |-> FTys, FuncAliases_ |-> FuncAliases(text)])
                   ELSE CUs_
        /\ UNCHANGED <<VarArgsFuncTyWrappers_, mem>>

AliasAssertion(i, fs) ==
    /\ VFS_' = fs
    /\ CUIdx_' = i
    /\ status' = "assert"
    /\ UNCHANGED <<ErrorMsg_, LangOpts, idVars, CUs_, jitDefs, jitWrappers, mem, ret>>

(* compile_llvm and what follows it, on file `name` of the file system fs; *)
(* msgs is what the buffer holds already.                                  *)
compile_llvm(c, name, text, i, fs, msgs, UseLastError) ==
    LET fs2  == addFile(fs, name, text)
        read == fs2[name]
        all  == msgs \o Diagnosed(read)
    IN  \/ ~Prog[read.code].ok /\ CompileError(c, i, fs2, all)
        \/ Prog[read.code].ok /\ AliasAssertFails(read) /\ AliasAssertion(i, fs2)
        \/ /\ Prog[read.code].ok /\ ~AliasAssertFails(read)
           /\ CompileModule(c, read, i, fs2, all, UseLastError)

(* compile_llvm_with_decls: a first pass over the AST collects the forced  *)
(* declarations, a second one compiles the text completed with them.       *)
compile_llvm_with_decls(c, name, i, UseLastError) ==
    LET fs1    == addFile(VFS_, name, SourceText(c))
        parsed == fs1[name]
        msgs   == ErrorMsg_ \o Diagnosed(parsed)
    IN  \/ ~Prog[parsed.code].ok /\ CompileError(c, i, fs1, msgs)
        \/ /\ Prog[parsed.code].ok
           /\ compile_llvm(c, ForceFile(name), ForcedText(c, parsed.code), i, fs1, msgs,
                           UseLastError)

(* DFFI::compile                                                           *)
compile(c, UseLastError) ==
    /\ status = "running"
    /\ CUIdx_ < MaxCUIdx
    /\ compile_llvm(c, AnonFile(CUIdx_), SourceText(c), CUIdx_ + 1, VFS_, ErrorMsg_,
                    UseLastError)

(* DFFI::cdef without and with a name for the compilation unit.            *)
cdefAnonymous(c, UseLastError) ==
    /\ status = "running"
    /\ CUIdx_ < MaxCUIdx
    /\ compile_llvm_with_decls(c, AnonFile(CUIdx_), CUIdx_ + 1, UseLastError)

cdefNamed(c, u, UseLastError) ==
    /\ status = "running"
    /\ ~ReusesNames /\ UserFile(u) \in DOMAIN VFS_ => VFS_[UserFile(u)].code = c
    /\ compile_llvm_with_decls(c, UserFile(u), CUIdx_, UseLastError)

-----------------------------------------------------------------------------
(***************************************************************************)
(* Functions of a compilation unit.                                        *)
(***************************************************************************)
Null == [kind |-> "null"]

ReturnsNull ==
    /\ ret' = Null
    /\ UNCHANGED <<VFS_, ErrorMsg_, LangOpts, CUIdx_, idVars, CUs_, jitDefs,
                   jitWrappers, mem, status>>

(* Mutant: the symbols of the process go first.                            *)
MutGetFunctionAddress(s) ==
    IF s \in HostSym THEN [sym |-> s, code |-> NoCode]
    ELSE IF jitDefs[s] # NoCode THEN [sym |-> s, code |-> jitDefs[s]]
    ELSE NoAddr

(* DFFIImpl::getFunctionAddress: a definition of the JIT, of any unit,     *)
(* goes before the symbols of the process.                                 *)
getFunctionAddress(s) ==
    IF jitDefs[s] # NoCode THEN [sym |-> s, code |-> jitDefs[s]]
    ELSE IF s \in HostSym THEN [sym |-> s, code |-> NoCode]
    ELSE NoAddr

(* CUImpl::getFunctionAddressAndTy: aliases first, then FuncTys_.          *)
Resolve(cu, s) ==
    IF s \in DOMAIN cu.FuncAliases_ THEN cu.FuncAliases_[s] ELSE s

Callable(cu, s) ==
    /\ Resolve(cu, s) \in DOMAIN cu.FuncTys_
    /\ getFunctionAddress(Resolve(cu, s)) # NoAddr

TypeIn(cu, s) == cu.FuncTys_[Resolve(cu, s)]

(* NativeFunc{TFPtr, FPtr, FTy}; base and args are the type and list the   *)
(* wrapper was looked up with.                                             *)
NativeFunc(tramp, FPtr, FTy, base, args, cu) ==
    [kind |-> "func", tramp |-> tramp, fptr |-> FPtr, ty |-> FTy,
     base |-> base, args |-> args, cu |-> cu]

(* CUImpl::getFunction(Name), and FunctionType::getFunction(Ptr) for the   *)
(* type of a function already found.                                       *)
getFunction(cu, s) ==
    /\ status = "running"
    /\ \/ ~Callable(cu, s) /\ ReturnsNull
       \/ /\ Callable(cu, s)
          /\ LET FTy == TypeIn(cu, s)
             IN  /\ getWrapperAddress(FTy, "running")
                 /\ WrapperIdx_' = WrapperIdxAfter(FTy)
                 /\ Returns(NativeFunc(FuncTyWrappers_'[FTy],
                              getFunctionAddress(Resolve(cu, s)), FTy, FTy, <<>>, cu.code))
          /\ UNCHANGED <<ErrorMsg_, VarArgsFuncTyWrappers_, CUs_, jitDefs, mem>>

(* The type getFunction makes for a list of variadic arguments.            *)
Specialised(FTy, args) ==
    [FTy EXCEPT !.sig = SpecSig[FTy.sig][args]]

(* getWrapperAddress(FTy, VarArgs) on a hit and on a miss.                 *)
FoundVarArgs(FTy, b, FPtr, cu) ==
    \E e \in PossibleHits(FTy, Contents(b)) :
        /\ ret' = NativeFunc(e.id, FPtr, Specialised(FTy, Contents(b)), FTy, Contents(b), cu)
        /\ UNCHANGED <<VFS_, ErrorMsg_, LangOpts, CUIdx_, idVars, CUs_, jitDefs,
                       jitWrappers, mem, status>>

(* Mutant: the number given to a new list is not consumed.                 *)
MutNewVarArgs(FTy, b, FPtr, cu) ==
    /\ SureHits(FTy, Contents(b)) = {}
    /\ WrapperIdx_ < MaxWrapperIdx
    /\ InsertVarArgs(FTy, b, WrapperIdx_)
    /\ compileWrappers({[id |-> WrapperIdx_, ty |-> FTy, args |-> Contents(b)]},
                       CUIdx_, VFS_, "running")
    /\ Returns(NativeFunc(WrapperIdx_, FPtr, Specialised(FTy, Contents(b)), FTy,
                          Contents(b), cu))
    /\ UNCHANGED <<WrapperIdx_, ErrorMsg_, FuncTyWrappers_, CUs_, jitDefs, mem>>

NewVarArgs(FTy, b, FPtr, cu) ==
    /\ SureHits(FTy, Contents(b)) = {}
    /\ WrapperIdx_ < MaxWrapperIdx
    /\ InsertVarArgs(FTy, b, WrapperIdx_)
    /\ WrapperIdx_' = WrapperIdx_ + 1
    /\ compileWrappers({[id |-> WrapperIdx_, ty |-> FTy, args |-> Contents(b)]},
                       CUIdx_, VFS_, "running")
    /\ Returns(NativeFunc(WrapperIdx_, FPtr, Specialised(FTy, Contents(b)), FTy,
                          Contents(b), cu))
    /\ UNCHANGED <<ErrorMsg_, FuncTyWrappers_, CUs_, jitDefs, mem>>

(* CUImpl::getFunction(Name, VarArgs)                                      *)
getFunctionVarArgs(cu, s, b) ==
    /\ status = "running"
    /\ \/ ~(Callable(cu, s) /\ hasVarArgs(TypeIn(cu, s))) /\ ReturnsNull
       \/ /\ Callable(cu, s) /\ hasVarArgs(TypeIn(cu, s))
          /\ LET FPtr == getFunctionAddress(Resolve(cu, s))
             IN  \/ FoundVarArgs(TypeIn(cu, s), b, FPtr, cu.code)
                 \/ NewVarArgs(TypeIn(cu, s), b, FPtr, cu.code)

(* getWrapperLLVMFunc(FTy, None), for FunctionType::getWrapperLLVM.  For a *)
(* variadic type the number it looks up is not the one it has just made    *)
(* sure of; a new number fails the assertion that follows.                 *)
getWrapperLLVM(FTy) ==
    /\ status = "running"
    /\ \/ /\ ~hasVarArgs(FTy)
          /\ getWrapperAddress(FTy, "running")
          /\ WrapperIdx_' = WrapperIdxAfter(FTy)
          /\ Returns([kind |-> "llvm", id |-> FuncTyWrappers_'[FTy], ty |-> FTy])
          /\ UNCHANGED VarArgsFuncTyWrappers_
       \/ /\ hasVarArgs(FTy)
          /\ \E e \in SureHits(FTy, <<>>) :
                /\ getWrapperAddress(FTy, "running")
                /\ WrapperIdx_' = WrapperIdxAfter(FTy)
                /\ Returns([kind |-> "llvm", id |-> e.id, ty |-> FTy])
          /\ UNCHANGED VarArgsFuncTyWrappers_
       \/ /\ hasVarArgs(FTy) /\ SureHits(FTy, <<>>) = {}
          /\ getWrapperAddress(FTy, "assert")
          /\ InsertVarArgs(FTy, NoBuf, WrapperIdxAfter(FTy))
          /\ WrapperIdx_' = WrapperIdxAfter(FTy) + 1
          /\ UNCHANGED ret
    /\ UNCHANGED <<ErrorMsg_, CUs_, jitDefs, mem>>

(* The host fills one of its arrays with another list (or frees it, and    *)
(* the allocator hands the memory to the next call's array).               *)
HostWrites(b, t) ==
    /\ status = "running"
    /\ ReusesBufs
    /\ mem' = [mem EXCEPT ![b] = t]
    /\ ret' = Null
    /\ UNCHANGED <<VFS_, ErrorMsg_, LangOpts, CUIdx_, idVars, CUs_, jitDefs,
                   jitWrappers, status>>

-----------------------------------------------------------------------------
Init ==
    /\ VFS_ = [f \in {} |-> SourceText(NoCode)]
    /\ ErrorMsg_ = <<>>
    /\ LangOpts = UserLang
    /\ CUIdx_ = 0
    /\ WrapperIdx_ = 0
    /\ FuncTyWrappers_ = [t \in {} |-> 0]
    /\ VarArgsFuncTyWrappers_ = {}
    /\ CUs_ = <<>>
    /\ jitDefs = [s \in Sym |-> NoCode]
    /\ jitWrappers = {}
    /\ mem \in [Buf -> ArgTy]
    /\ ret = Null
    /\ status = "running"

CU == {CUs_[i] : i \in DOMAIN CUs_}

Next ==
    \/ \E c \in CompileCode, le \in LastErrorOpts : compile(c, le)
    \/ \E c \in CdefCode, le \in LastErrorOpts : cdefAnonymous(c, le)
    \/ \E c \in CdefCode, u \in UserName, le \in LastErrorOpts : cdefNamed(c, u, le)
    \/ \E cu \in CU, s \in Sym : getFunction(cu, s)
    \/ \E cu \in CU, s \in Sym, b \in Buf \cup {NoBuf} : getFunctionVarArgs(cu, s, b)
    \/ \E cu \in CU : \E s \in DOMAIN cu.FuncTys_ :
          cu.FuncTys_[s].sig \in LLVMSig /\ getWrapperLLVM(cu.FuncTys_[s])
    \/ \E b \in Buf, t \in ArgTy : HostWrites(b, t)

Spec == Init /\ [][Next]_vars

-----------------------------------------------------------------------------
(***************************************************************************)
(* Properties                                                              *)
(***************************************************************************)
Text == [code : Code \cup {NoCode}, decls : Code \cup {NoCode}, wraps : SUBSET WrapperDef]

Map(S, T) == UNION {[D -> T] : D \in SUBSET S}

Unit == [code : Code, text : Text, lang : [cxx : BOOLEAN, debug : BOOLEAN],
         FuncTys_ : Map(Sym, FunctionType), FuncAliases_ : Map(Sym, Sym)]

Entry == [ty : FunctionType, buf : Buf \cup {NoBuf}, placed : ArgList, id : Nat]

(* Type invariant.  The result of the last call and the names of files are *)
(* left to the properties about them.                                      *)
TypeOK ==
    /\ \A f \in DOMAIN VFS_ : VFS_[f] \in Text
    /\ ErrorMsg_ \in Seq(Code)
    /\ LangOpts \in [cxx : BOOLEAN, debug : BOOLEAN]
    /\ CUIdx_ \in Nat
    /\ WrapperIdx_ \in Nat
    /\ DOMAIN FuncTyWrappers_ \subseteq FunctionType
    /\ \A t \in DOMAIN FuncTyWrappers_ : FuncTyWrappers_[t] \in Nat
    /\ VarArgsFuncTyWrappers_ \subseteq Entry
    /\ CUs_ \in Seq(Unit)
    /\ jitDefs \in [Sym -> Code \cup {NoCode}]
    /\ jitWrappers \subseteq WrapperDef
    /\ mem \in [Buf -> ArgTy]
    /\ status \in {"running", "fatal", "assert"}

(* A wrapper number given to a function type names a compiled wrapper for  *)
(* that type, in whichever call, eager or lazy, the number was drawn.      *)
TypesHaveWrappers ==
    status = "running" =>
        \A t \in DOMAIN FuncTyWrappers_ :
            [id |-> FuncTyWrappers_[t], ty |-> t, args |-> <<>>] \in jitWrappers

(* The two wrapper maps draw from one counter and the JIT links wrappers   *)
(* by number: no two compiled wrappers may have the same one.              *)
WrapperIdsUnique ==
    \A v, w \in jitWrappers : v.id = w.id => v = w

(* The NativeFunc a call returns goes through a wrapper made for the very  *)
(* type and list of variadic arguments it was asked for.                   *)
TrampolineMatches ==
    ret.kind = "func" =>
        [id |-> ret.tramp, ty |-> ret.base, args |-> ret.args] \in jitWrappers

(* A wrapper is compiled once: asking again for a type, or for a variadic  *)
(* type and an equal list in another array, finds the first one.  (The     *)
(* empty list of a variadic type has a second wrapper, in the other map.)  *)
CompiledOnce ==
    \A v, w \in jitWrappers :
        /\ v.ty = w.ty /\ v.args = w.args
        /\ v.args # <<>> \/ ~hasVarArgs(v.ty)
        => v.id = w.id

(* A compilation unit is made from the text it was asked for, completed    *)
(* with the declarations of that same text, and compiled in the language   *)
(* of the engine's options whatever wrappers were compiled in between.     *)
UnitsFaithful ==
    \A cu \in CU :
        /\ cu.text.code = cu.code
        /\ cu.text.decls \in {NoCode, cu.code}
        /\ cu.lang = UserLang

(* The error text of a failed call is about the text of that call, and     *)
(* nothing else: getCompileError leaves nothing behind for the next one.   *)
ErrorsAreOwn ==
    ret.kind = "error" => ret.msgs = <<ret.code>>

(* A function taken from a unit is code of the type it is called with; if  *)
(* the unit's text defines it, it is that definition.                      *)
CallsOwnDefinition ==
    ret.kind = "func" =>
        /\ ret.fptr.code # NoCode => Prog[ret.fptr.code].defs[ret.fptr.sym] = ret.base.sig
        /\ ret.fptr.sym \in DOMAIN Prog[ret.cu].defs => ret.fptr.code = ret.cu
=============================================================================
