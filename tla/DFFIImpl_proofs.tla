--------------------------- MODULE DFFIImpl_proofs ---------------------------
(***************************************************************************)
(* The bookkeeping of wrappers is right, for any programs, any host and    *)
(* any options: a number names one wrapper, and the number of a type names *)
(* a wrapper of that type.  The second part is about hosts that follow     *)
(* rules.                                                                  *)
(***************************************************************************)
EXTENDS DFFIImpl, FiniteSetTheorems, TLAPS

(* The strengthening.  compileWrappers reads the file it has just asked to *)
(* be added, so the numbers CUIdx_ has not reached must be free of wrapper *)
(* files: private files are numbered below it, and the others hold source  *)
(* texts.                                                                  *)
FilesOK(fs, i) ==
    \A f \in DOMAIN fs :
        /\ fs[f] \in Text
        /\ IF f[1] = "wrappers" THEN f[2] \in 0..(i - 1) ELSE fs[f].code \in Code

(* Wrappers are numbered below WrapperIdx_, each one once.                 *)
IdsOK(idx, jit) ==
    /\ \A w \in jit : w \in WrapperDef /\ w.id < idx
    /\ \A v, w \in jit : v.id = w.id => v = w

-----------------------------------------------------------------------------
(* Advancing CUIdx_ keeps the files in order.                              *)
LEMMA FilesLater ==
    ASSUME NEW fs, NEW i \in Nat, FilesOK(fs, i)
    PROVE  FilesOK(fs, i + 1)
BY DEF FilesOK

(* Adding a source text, under a name that is new or not, keeps the files  *)
(* in order, and the file read back holds a source text.                   *)
LEMMA AddSourceFile ==
    ASSUME NEW fs, NEW i \in Nat, FilesOK(fs, i),
           NEW name, name[1] # "wrappers", NEW text \in Text, text.code \in Code
    PROVE  /\ FilesOK(addFile(fs, name, text), i)
           /\ addFile(fs, name, text)[name] \in Text
           /\ addFile(fs, name, text)[name].code \in Code
BY DEF FilesOK, addFile, Extend

(* compileWrappers compiles the wrappers it is given, all of them or none. *)
LEMMA WrappersCompiled ==
    ASSUME NEW ws \in SUBSET WrapperDef, NEW i \in Nat, NEW fs, FilesOK(fs, i),
           NEW after, compileWrappers(ws, i, fs, after)
    PROVE  /\ CUIdx_' \in Nat
           /\ FilesOK(VFS_', CUIdx_')
           /\ LangOpts' \in [cxx : BOOLEAN, debug : BOOLEAN]
           /\ \/ jitWrappers' = jitWrappers \cup ws /\ status' = after
              \/ jitWrappers' = jitWrappers /\ status' = "fatal"
<1> DEFINE name == WrapperFile(i)
           new  == WrapperText(ws)
<1>1. name[1] = "wrappers" /\ name[2] = i BY DEF WrapperFile
<1>2. name \notin DOMAIN fs BY <1>1 DEF FilesOK
<1>3. VFS_' = Extend(fs, name, new) BY <1>2 DEF compileWrappers, addFile
<1>4. VFS_'[name] = new /\ new.wraps = ws BY <1>3 DEF Extend, WrapperText
<1>5. new \in Text BY DEF Text, WrapperText
<1>6. CUIdx_' = i + 1 BY DEF compileWrappers
<1>7. FilesOK(VFS_', i + 1) BY <1>1, <1>3, <1>5 DEF FilesOK, Extend
<1>8. LangOpts' \in [cxx : BOOLEAN, debug : BOOLEAN]
      BY EngineAssumption DEF compileWrappers, UserLang
<1>9. \/ jitWrappers' = jitWrappers \cup ws /\ status' = after
      \/ jitWrappers' = jitWrappers /\ status' = "fatal"
      BY <1>4 DEF compileWrappers
<1> QED BY <1>6, <1>7, <1>8, <1>9

(* k new wrappers with the next k numbers.                                 *)
LEMMA NewIds ==
    ASSUME NEW jit, NEW idx \in Nat, NEW k \in Nat, IdsOK(idx, jit),
           NEW ws \in SUBSET WrapperDef,
           \A w \in ws : w.id >= idx /\ w.id < idx + k,
           \A v, w \in ws : v.id = w.id => v = w
    PROVE  IdsOK(idx + k, jit) /\ IdsOK(idx + k, jit \cup ws)
<1>1. \A w \in jit : w.id \in Nat BY DEF IdsOK, WrapperDef
<1>2. \A w \in ws : w.id \in Nat BY DEF WrapperDef
<1> QED BY <1>1, <1>2 DEF IdsOK

-----------------------------------------------------------------------------
(* The invariant: what TypeOK says of the variables that wrappers and      *)
(* files do not touch, and what is known of those.                         *)
OthersTyped ==
    /\ ErrorMsg_ \in Seq(Code)
    /\ VarArgsFuncTyWrappers_ \subseteq Entry
    /\ CUs_ \in Seq(Unit)
    /\ jitDefs \in [Sym -> Code \cup {NoCode}]
    /\ mem \in [Buf -> ArgTy]

WrappersOK ==
    /\ CUIdx_ \in Nat
    /\ FilesOK(VFS_, CUIdx_)
    /\ LangOpts \in [cxx : BOOLEAN, debug : BOOLEAN]
    /\ WrapperIdx_ \in Nat
    /\ IdsOK(WrapperIdx_, jitWrappers)
    /\ DOMAIN FuncTyWrappers_ \subseteq FunctionType
    /\ \A t \in DOMAIN FuncTyWrappers_ : FuncTyWrappers_[t] \in Nat
    /\ TypesHaveWrappers
    /\ status \in {"running", "fatal", "assert"}

IInv == OthersTyped /\ WrappersOK

(* getWrapperAddress leaves a wrapper for its type.                        *)
LEMMA WrapperForType ==
    ASSUME WrappersOK, status = "running", NEW FTy \in FunctionType,
           NEW after \in {"running", "assert"}, getWrapperAddress(FTy, after)
    PROVE  /\ CUIdx_' \in Nat
           /\ FilesOK(VFS_', CUIdx_')
           /\ LangOpts' \in [cxx : BOOLEAN, debug : BOOLEAN]
           /\ WrapperIdxAfter(FTy) \in Nat
           /\ IdsOK(WrapperIdxAfter(FTy), jitWrappers')
           /\ DOMAIN FuncTyWrappers_' \subseteq FunctionType
           /\ \A t \in DOMAIN FuncTyWrappers_' : FuncTyWrappers_'[t] \in Nat
           /\ TypesHaveWrappers'
           /\ status' \in {"running", "fatal", "assert"}
<1>1. CASE FTy \in DOMAIN FuncTyWrappers_
  <2>1. status' = after /\ UNCHANGED <<frontVars, FuncTyWrappers_, jitWrappers>>
        BY <1>1 DEF getWrapperAddress
  <2> QED BY <1>1, <2>1 DEF WrappersOK, frontVars, TypesHaveWrappers, WrapperIdxAfter
<1>2. CASE FTy \notin DOMAIN FuncTyWrappers_
  <2> DEFINE w  == [id |-> WrapperIdx_, ty |-> FTy, args |-> <<>>]
             ws == {w}
  <2>1. /\ FuncTyWrappers_' = Extend(FuncTyWrappers_, FTy, WrapperIdx_)
        /\ compileWrappers(ws, CUIdx_, VFS_, after)
        BY <1>2 DEF getWrapperAddress
  <2>2. WrapperIdxAfter(FTy) = WrapperIdx_ + 1 BY <1>2 DEF WrapperIdxAfter
  <2>3. w \in WrapperDef BY DEF WrappersOK, WrapperDef, ArgList
  <2>4. /\ CUIdx_' \in Nat
        /\ FilesOK(VFS_', CUIdx_')
        /\ LangOpts' \in [cxx : BOOLEAN, debug : BOOLEAN]
        /\ \/ jitWrappers' = jitWrappers \cup ws /\ status' = after
           \/ jitWrappers' = jitWrappers /\ status' = "fatal"
    <3> HIDE DEF ws
    <3>1. ws \in SUBSET WrapperDef BY <2>3 DEF ws
    <3> QED BY <2>1, <3>1, WrappersCompiled DEF WrappersOK
  <2>5. IdsOK(WrapperIdx_ + 1, jitWrappers) /\ IdsOK(WrapperIdx_ + 1, jitWrappers \cup ws)
    <3>1. ws \in SUBSET WrapperDef /\ w.id = WrapperIdx_ BY <2>3
    <3>2. \A x \in ws : x.id >= WrapperIdx_ /\ x.id < WrapperIdx_ + 1 BY DEF WrappersOK
    <3>3. \A x, y \in ws : x.id = y.id => x = y OBVIOUS
    <3> HIDE DEF ws
    <3> QED BY <3>1, <3>2, <3>3, NewIds DEF WrappersOK
  <2>6. IdsOK(WrapperIdxAfter(FTy), jitWrappers') BY <2>2, <2>4, <2>5
  <2>7. /\ DOMAIN FuncTyWrappers_' \subseteq FunctionType
        /\ \A t \in DOMAIN FuncTyWrappers_' : FuncTyWrappers_'[t] \in Nat
        BY <2>1 DEF Extend, WrappersOK
  <2>8. TypesHaveWrappers'
    <3> SUFFICES ASSUME status' = "running", NEW t \in DOMAIN FuncTyWrappers_'
                 PROVE  [id |-> FuncTyWrappers_'[t], ty |-> t, args |-> <<>>] \in jitWrappers'
        BY DEF TypesHaveWrappers
    <3>1. jitWrappers' = jitWrappers \cup ws BY <2>4
    <3>2. CASE t = FTy BY <2>1, <3>1, <3>2 DEF Extend
    <3>3. CASE t # FTy
      <4>1. t \in DOMAIN FuncTyWrappers_ /\ FuncTyWrappers_'[t] = FuncTyWrappers_[t]
            BY <2>1, <3>3 DEF Extend
      <4> QED BY <3>1, <4>1 DEF WrappersOK, TypesHaveWrappers
    <3> QED BY <3>2, <3>3
  <2> QED BY <2>2, <2>4, <2>6, <2>7, <2>8 DEF WrappersOK
<1> QED BY <1>1, <1>2

-----------------------------------------------------------------------------
(* What clang finds in a source text is typed.                             *)
LEMMA ProgTyped ==
    ASSUME NEW c \in Code
    PROVE  /\ DOMAIN Prog[c].defs \subseteq Sym /\ DOMAIN Prog[c].decls \subseteq Sym
           /\ \A s \in DOMAIN Prog[c].defs : Prog[c].defs[s] \in Sig
           /\ \A s \in DOMAIN Prog[c].decls : Prog[c].decls[s] \in Sig
           /\ Prog[c].name \in [DOMAIN Prog[c].defs -> Sym]
           /\ DOMAIN Prog[c].alias \subseteq Sym
           /\ \A s \in DOMAIN Prog[c].alias : Prog[c].alias[s] \in Sym
BY EngineAssumption

(* A text completed with declarations has them from a source text.         *)
LEMMA DeclsTyped ==
    ASSUME NEW text \in Text, text.decls # NoCode
    PROVE  text.decls \in Code
BY DEF Text

(* FuncTys_ of a unit made from a source text is a map from names to       *)
(* function types.                                                         *)
LEMMA FuncTysTyped ==
    ASSUME NEW text \in Text, text.code \in Code, NEW le \in BOOLEAN
    PROVE  FuncTys(text, le) \in Map(Sym, FunctionType)
<1> DEFINE D == DOMAIN Prog[text.code].defs \cup Declared(text)
<1>1. D \subseteq Sym BY ProgTyped, DeclsTyped DEF Declared
<1>2. \A s \in Declared(text) : Prog[text.decls].decls[s] \in Sig
      BY ProgTyped, DeclsTyped DEF Declared
<1>3. \A s \in DOMAIN Prog[text.code].defs : Prog[text.code].defs[s] \in Sig BY ProgTyped
<1>4. FuncTys(text, le) \in [D -> FunctionType]
      BY <1>2, <1>3 DEF FuncTys, FunctionType
<1> QED BY <1>1, <1>4 DEF Map

(* FuncAliases_ of a unit made from a source text is a map between names.  *)
LEMMA FuncAliasesTyped ==
    ASSUME NEW text \in Text, text.code \in Code
    PROVE  FuncAliases(text) \in Map(Sym, Sym)
<1> DEFINE D == AliasesOfDefs(text) \cup AliasesOfDecls(text)
<1> DEFINE named(s) == CHOOSE d \in Renamed(text) : Prog[text.code].name[d] = s
<1>0. Renamed(text) \subseteq Sym BY ProgTyped DEF Renamed
<1>1. /\ AliasesOfDefs(text) \subseteq Sym
      /\ \A s \in AliasesOfDefs(text) : named(s) \in Sym
  <2>1. AliasesOfDefs(text) \subseteq Sym BY ProgTyped DEF AliasesOfDefs, Renamed
  <2>2. ASSUME NEW s \in AliasesOfDefs(text) PROVE named(s) \in Renamed(text)
        BY DEF AliasesOfDefs
  <2> QED BY <1>0, <2>1, <2>2
<1>2. /\ AliasesOfDecls(text) \subseteq Sym
      /\ \A s \in AliasesOfDecls(text) : Prog[text.decls].alias[s] \in Sym
      BY ProgTyped, DeclsTyped DEF AliasesOfDecls
<1>3. D \subseteq Sym BY <1>1, <1>2
<1>4. FuncAliases(text) \in [D -> Sym] BY <1>1, <1>2 DEF FuncAliases
<1> QED BY <1>3, <1>4 DEF Map

(* The functions of a registered unit have function types.                 *)
LEMMA TypeInTyped ==
    ASSUME OthersTyped, NEW cu \in CU
    PROVE  \A s \in DOMAIN cu.FuncTys_ : cu.FuncTys_[s] \in FunctionType
<1>1. cu \in Unit BY DEF OthersTyped, CU
<1>2. cu.FuncTys_ \in Map(Sym, FunctionType) BY <1>1 DEF Unit
<1>3. PICK D \in SUBSET Sym : cu.FuncTys_ \in [D -> FunctionType] BY <1>2 DEF Map
<1> QED BY <1>3

(* The types that get a wrapper with a unit are finitely many.             *)
LEMMA NewTypesFinite ==
    ASSUME NEW FTys \in Map(Sym, FunctionType)
    PROVE  /\ NewTypes(FTys) \subseteq FunctionType
           /\ Cardinality(NewTypes(FTys)) \in Nat
<1>1. PICK D \in SUBSET Sym : FTys \in [D -> FunctionType] BY DEF Map
<1> DEFINE all == {FTys[s] : s \in DOMAIN FTys}
<1>2. IsFiniteSet(D) BY <1>1, FS_Subset, EngineAssumption
<1>3. IsFiniteSet(all)
  <2>1. FTys \in Surjection(D, all) BY <1>1 DEF Surjection
  <2> HIDE DEF all
  <2> QED BY <1>2, <2>1, FS_Surjection
<1>4. NewTypes(FTys) \subseteq all BY DEF NewTypes
<1>5. all \subseteq FunctionType BY <1>1
<1>6. IsFiniteSet(NewTypes(FTys)) BY <1>3, <1>4, FS_Subset
<1> QED BY <1>4, <1>5, <1>6, FS_CardinalityType

-----------------------------------------------------------------------------
(* DFFIImpl::compile from its compiled module on preserves the invariant,  *)
(* with or without new wrappers, and also when they do not compile.        *)
LEMMA ModuleStep ==
    ASSUME OthersTyped, WrappersOK, status = "running",
           NEW c \in Code, NEW text \in Text, text.code \in Code,
           NEW i \in Nat, NEW fs, FilesOK(fs, i), NEW msgs \in Seq(Code),
           NEW le \in BOOLEAN, CompileModule(c, text, i, fs, msgs, le)
    PROVE  OthersTyped' /\ WrappersOK'
<1> DEFINE FTys == FuncTys(text, le)
           new  == NewTypes(FTys)
           k    == Cardinality(new)
<1>1. FTys \in Map(Sym, FunctionType) BY FuncTysTyped
<1>2. new \subseteq FunctionType /\ k \in Nat BY <1>1, NewTypesFinite
<1>3. PICK num \in Numberings(new) :
        /\ FuncTyWrappers_' = [t \in DOMAIN FuncTyWrappers_ \cup new |->
                                 IF t \in new THEN num[t] ELSE FuncTyWrappers_[t]]
        /\ compileWrappers({[id |-> num[t], ty |-> t, args |-> <<>>] : t \in new},
                           i, fs, "running")
      BY DEF CompileModule
<1>4. /\ WrapperIdx_' = WrapperIdx_ + k
      /\ jitDefs' = [s \in Sym |-> IF s \in DOMAIN Prog[text.code].defs
                                   THEN text.code ELSE jitDefs[s]]
      /\ ErrorMsg_' = msgs
      /\ CUs_' = IF status' = "running"
                 THEN Append(CUs_, [code |-> c, text |-> text, lang |-> LangOpts,
                                    FuncTys_ |-> FTys, FuncAliases_ |-> FuncAliases(text)])
                 ELSE CUs_
      /\ UNCHANGED <<VarArgsFuncTyWrappers_, mem>>
      BY DEF CompileModule
<1> DEFINE ws == {[id |-> num[t], ty |-> t, args |-> <<>>] : t \in new}
<1> HIDE DEF FTys, new, k
<1>5. /\ \A t \in new : num[t] \in Nat /\ num[t] >= WrapperIdx_ /\ num[t] < WrapperIdx_ + k
      /\ \A t, u \in new : num[t] = num[u] => t = u
  <2>1. /\ num \in [new -> WrapperIdx_..(WrapperIdx_ + k - 1)]
        /\ \A t, u \in new : num[t] = num[u] => t = u
        BY <1>3 DEF Numberings, k
  <2>2. WrapperIdx_ \in Nat BY DEF WrappersOK
  <2> QED BY <1>2, <2>1, <2>2
<1>6. ws \in SUBSET WrapperDef BY <1>2, <1>5 DEF WrapperDef, ArgList
<1>7. /\ \A w \in ws : w.id >= WrapperIdx_ /\ w.id < WrapperIdx_ + k
      /\ \A v, w \in ws : v.id = w.id => v = w
      BY <1>5
<1>8. \A t \in new : [id |-> num[t], ty |-> t, args |-> <<>>] \in ws OBVIOUS
<1>9. compileWrappers(ws, i, fs, "running") BY <1>3
<1> HIDE DEF ws
<1>10. IdsOK(WrapperIdx_ + k, jitWrappers) /\ IdsOK(WrapperIdx_ + k, jitWrappers \cup ws)
       BY <1>2, <1>6, <1>7, NewIds DEF WrappersOK
<1>11. /\ CUIdx_' \in Nat
       /\ FilesOK(VFS_', CUIdx_')
       /\ LangOpts' \in [cxx : BOOLEAN, debug : BOOLEAN]
       /\ \/ jitWrappers' = jitWrappers \cup ws /\ status' = "running"
          \/ jitWrappers' = jitWrappers /\ status' = "fatal"
       BY <1>6, <1>9, WrappersCompiled
<1>12. TypesHaveWrappers'
  <2> SUFFICES ASSUME status' = "running", NEW t \in DOMAIN FuncTyWrappers_'
               PROVE  [id |-> FuncTyWrappers_'[t], ty |-> t, args |-> <<>>] \in jitWrappers'
      BY DEF TypesHaveWrappers
  <2>1. jitWrappers' = jitWrappers \cup ws BY <1>11
  <2>2. CASE t \in new
    <3>1. FuncTyWrappers_'[t] = num[t] BY <1>3, <2>2
    <3> QED BY <1>8, <2>1, <2>2, <3>1
  <2>3. CASE t \notin new
    <3>1. t \in DOMAIN FuncTyWrappers_ /\ FuncTyWrappers_'[t] = FuncTyWrappers_[t]
          BY <1>3, <2>3
    <3> QED BY <2>1, <3>1 DEF WrappersOK, TypesHaveWrappers
  <2> QED BY <2>2, <2>3
<1>13. /\ DOMAIN FuncTyWrappers_' \subseteq FunctionType
       /\ \A t \in DOMAIN FuncTyWrappers_' : FuncTyWrappers_'[t] \in Nat
       BY <1>2, <1>3, <1>5 DEF WrappersOK
<1>14. WrappersOK'
  <2>1. IdsOK(WrapperIdx_', jitWrappers') BY <1>4, <1>10, <1>11
  <2>2. WrapperIdx_' \in Nat BY <1>2, <1>4 DEF WrappersOK
  <2>3. status' \in {"running", "fatal", "assert"} BY <1>11
  <2> QED BY <1>11, <1>12, <1>13, <2>1, <2>2, <2>3 DEF WrappersOK
<1>15. CUs_' \in Seq(Unit)
  <2>1. FuncAliases(text) \in Map(Sym, Sym) BY FuncAliasesTyped
  <2>2. [code |-> c, text |-> text, lang |-> LangOpts,
         FuncTys_ |-> FTys, FuncAliases_ |-> FuncAliases(text)] \in Unit
        BY <1>1, <2>1 DEF Unit, WrappersOK
  <2> QED BY <1>4, <2>2 DEF OthersTyped, FTys
<1>16. OthersTyped' BY <1>4, <1>15 DEF OthersTyped
<1> QED BY <1>14, <1>16

(* compile_llvm and what follows it preserve the invariant, whether the    *)
(* text compiles or not.                                                   *)
LEMMA CompileStep ==
    ASSUME OthersTyped, WrappersOK, status = "running",
           NEW c \in Code, NEW name, name[1] # "wrappers",
           NEW text \in Text, text.code \in Code,
           NEW i \in Nat, NEW fs, FilesOK(fs, i), NEW msgs \in Seq(Code),
           NEW le \in BOOLEAN, compile_llvm(c, name, text, i, fs, msgs, le)
    PROVE  OthersTyped' /\ WrappersOK'
<1> DEFINE fs2  == addFile(fs, name, text)
           read == fs2[name]
           all  == msgs \o Diagnosed(read)
<1>1. FilesOK(fs2, i) /\ read \in Text /\ read.code \in Code BY AddSourceFile
<1>2. all \in Seq(Code) BY <1>1 DEF Diagnosed
<1>3. \/ CompileError(c, i, fs2, all)
      \/ AliasAssertion(i, fs2)
      \/ CompileModule(c, read, i, fs2, all, le)
      BY DEF compile_llvm
<1> HIDE DEF fs2, read, all
<1>4. CASE CompileError(c, i, fs2, all)
      BY <1>1, <1>4 DEF CompileError, OthersTyped, WrappersOK, TypesHaveWrappers, idVars
<1>5. CASE AliasAssertion(i, fs2)
      BY <1>1, <1>5 DEF AliasAssertion, OthersTyped, WrappersOK, TypesHaveWrappers, idVars
<1>6. CASE CompileModule(c, read, i, fs2, all, le)
      BY <1>1, <1>2, <1>6, ModuleStep
<1> QED BY <1>3, <1>4, <1>5, <1>6

(* The two passes of cdef preserve the invariant.                          *)
LEMMA DeclsStep ==
    ASSUME OthersTyped, WrappersOK, status = "running",
           NEW c \in Code, NEW name, name[1] # "wrappers",
           NEW i \in Nat, i >= CUIdx_, i <= CUIdx_ + 1, NEW le \in BOOLEAN,
           compile_llvm_with_decls(c, name, i, le)
    PROVE  OthersTyped' /\ WrappersOK'
<1> DEFINE fs1    == addFile(VFS_, name, SourceText(c))
           parsed == fs1[name]
           msgs   == ErrorMsg_ \o Diagnosed(parsed)
           forced == ForcedText(c, parsed.code)
<1>1. FilesOK(VFS_, i) BY FilesLater DEF WrappersOK
<1>2. SourceText(c) \in Text /\ SourceText(c).code \in Code BY DEF SourceText, Text
<1>3. FilesOK(fs1, i) /\ parsed \in Text /\ parsed.code \in Code
  <2> HIDE DEF fs1
  <2> QED BY <1>1, <1>2, AddSourceFile DEF fs1
<1>4. msgs \in Seq(Code) BY <1>3 DEF Diagnosed, OthersTyped
<1>5. forced \in Text /\ forced.code \in Code BY <1>3 DEF ForcedText, Text
<1>6. ForceFile(name)[1] # "wrappers" BY DEF ForceFile
<1>7. \/ CompileError(c, i, fs1, msgs)
      \/ compile_llvm(c, ForceFile(name), forced, i, fs1, msgs, le)
      BY DEF compile_llvm_with_decls
<1> HIDE DEF fs1, parsed, msgs, forced
<1>8. CASE CompileError(c, i, fs1, msgs)
      BY <1>3, <1>8 DEF CompileError, OthersTyped, WrappersOK, TypesHaveWrappers, idVars
<1>9. CASE compile_llvm(c, ForceFile(name), forced, i, fs1, msgs, le)
      BY <1>3, <1>4, <1>5, <1>6, <1>9, CompileStep
<1> QED BY <1>7, <1>8, <1>9

-----------------------------------------------------------------------------
(* getFunction preserves the invariant.                                    *)
LEMMA FunctionStep ==
    ASSUME OthersTyped, WrappersOK, NEW cu \in CU, NEW s \in Sym, getFunction(cu, s)
    PROVE  OthersTyped' /\ WrappersOK'
<1>0. status = "running" BY DEF getFunction
<1>1. CASE ReturnsNull
      BY <1>1 DEF ReturnsNull, OthersTyped, WrappersOK, TypesHaveWrappers, idVars
<1>2. CASE Callable(cu, s) /\ ~ReturnsNull
  <2> DEFINE FTy == TypeIn(cu, s)
  <2>1. /\ getWrapperAddress(FTy, "running")
        /\ WrapperIdx_' = WrapperIdxAfter(FTy)
        /\ UNCHANGED <<ErrorMsg_, VarArgsFuncTyWrappers_, CUs_, jitDefs, mem>>
        BY <1>2 DEF getFunction
  <2>2. FTy \in FunctionType BY <1>2, TypeInTyped DEF TypeIn, Callable
  <2> HIDE DEF FTy
  <2>3. WrappersOK' BY <1>0, <2>1, <2>2, WrapperForType DEF WrappersOK
  <2> QED BY <2>1, <2>3 DEF OthersTyped
<1> QED BY <1>1, <1>2 DEF getFunction

(* A list the host passes is one of the lists.                             *)
LEMMA ContentsTyped ==
    ASSUME OthersTyped, NEW b \in Buf \cup {NoBuf}
    PROVE  Contents(b) \in ArgList
<1>1. b # NoBuf => mem[b] \in ArgTy BY DEF OthersTyped
<1> QED BY <1>1 DEF Contents, ArgList

(* Insertion into the variadic map keeps its entries typed, whether or not *)
(* the map grows.                                                          *)
LEMMA InsertTyped ==
    ASSUME OthersTyped, NEW FTy \in FunctionType, NEW b \in Buf \cup {NoBuf},
           NEW id \in Nat, InsertVarArgs(FTy, b, id)
    PROVE  VarArgsFuncTyWrappers_' \subseteq Entry
<1>1. PICK grows \in BOOLEAN :
        VarArgsFuncTyWrappers_' =
            {IF grows THEN [e EXCEPT !.placed = Contents(e.buf)] ELSE e :
                e \in VarArgsFuncTyWrappers_}
              \cup {[ty |-> FTy, buf |-> b, placed |-> Contents(b), id |-> id]}
      BY DEF InsertVarArgs
<1>2. \A e \in VarArgsFuncTyWrappers_ : e \in Entry /\ e.buf \in Buf \cup {NoBuf}
      BY DEF OthersTyped, Entry
<1>3. \A e \in VarArgsFuncTyWrappers_ : Contents(e.buf) \in ArgList BY <1>2, ContentsTyped
<1>4. \A e \in VarArgsFuncTyWrappers_ : [e EXCEPT !.placed = Contents(e.buf)] \in Entry
      BY <1>2, <1>3 DEF Entry
<1>5. [ty |-> FTy, buf |-> b, placed |-> Contents(b), id |-> id] \in Entry
      BY ContentsTyped DEF Entry
<1> QED BY <1>1, <1>2, <1>4, <1>5

(* getFunction with variadic arguments preserves the invariant, whichever  *)
(* entry the lookup finds.                                                 *)
LEMMA VarArgsStep ==
    ASSUME OthersTyped, WrappersOK, NEW cu \in CU, NEW s \in Sym,
           NEW b \in Buf \cup {NoBuf}, getFunctionVarArgs(cu, s, b)
    PROVE  OthersTyped' /\ WrappersOK'
<1> DEFINE FTy  == TypeIn(cu, s)
           FPtr == getFunctionAddress(Resolve(cu, s))
<1>0. status = "running" BY DEF getFunctionVarArgs
<1>1. \/ ReturnsNull
      \/ Callable(cu, s) /\ FoundVarArgs(FTy, b, FPtr, cu.code)
      \/ Callable(cu, s) /\ NewVarArgs(FTy, b, FPtr, cu.code)
      BY DEF getFunctionVarArgs
<1> HIDE DEF FPtr
<1>2. CASE ReturnsNull
      BY <1>2 DEF ReturnsNull, OthersTyped, WrappersOK, TypesHaveWrappers, idVars
<1>3. CASE FoundVarArgs(FTy, b, FPtr, cu.code)
      BY <1>3 DEF FoundVarArgs, OthersTyped, WrappersOK, TypesHaveWrappers, idVars
<1>4. CASE Callable(cu, s) /\ NewVarArgs(FTy, b, FPtr, cu.code)
  <2> DEFINE w  == [id |-> WrapperIdx_, ty |-> FTy, args |-> Contents(b)]
             ws == {w}
  <2>1. FTy \in FunctionType BY <1>4, TypeInTyped DEF TypeIn, Callable
  <2> HIDE DEF FTy
  <2>2. /\ InsertVarArgs(FTy, b, WrapperIdx_)
        /\ WrapperIdx_' = WrapperIdx_ + 1
        /\ compileWrappers(ws, CUIdx_, VFS_, "running")
        /\ UNCHANGED <<ErrorMsg_, FuncTyWrappers_, CUs_, jitDefs, mem>>
        BY <1>4 DEF NewVarArgs
  <2>3. WrapperIdx_ \in Nat BY DEF WrappersOK
  <2>4. OthersTyped' BY <2>1, <2>2, <2>3, InsertTyped DEF OthersTyped
  <2>5. ws \in SUBSET WrapperDef
        BY <2>1, <2>3, ContentsTyped DEF WrapperDef
  <2>6. /\ \A x \in ws : x.id >= WrapperIdx_ /\ x.id < WrapperIdx_ + 1
        /\ \A x, y \in ws : x.id = y.id => x = y
        BY <2>3
  <2> HIDE DEF ws
  <2>7. IdsOK(WrapperIdx_ + 1, jitWrappers) /\ IdsOK(WrapperIdx_ + 1, jitWrappers \cup ws)
        BY <2>3, <2>5, <2>6, NewIds DEF WrappersOK
  <2>8. /\ CUIdx_' \in Nat
        /\ FilesOK(VFS_', CUIdx_')
        /\ LangOpts' \in [cxx : BOOLEAN, debug : BOOLEAN]
        /\ \/ jitWrappers' = jitWrappers \cup ws /\ status' = "running"
           \/ jitWrappers' = jitWrappers /\ status' = "fatal"
        BY <2>2, <2>5, WrappersCompiled DEF WrappersOK
  <2>9. IdsOK(WrapperIdx_', jitWrappers') BY <2>2, <2>7, <2>8
  <2>10. TypesHaveWrappers' BY <1>0, <2>2, <2>8 DEF WrappersOK, TypesHaveWrappers
  <2>11. WrappersOK' BY <2>2, <2>3, <2>8, <2>9, <2>10 DEF WrappersOK
  <2> QED BY <2>4, <2>11
<1> QED BY <1>1, <1>2, <1>3, <1>4

(* getWrapperLLVM preserves the invariant, the call whose assertion fails  *)
(* included.                                                               *)
LEMMA LLVMStep ==
    ASSUME OthersTyped, WrappersOK, NEW FTy \in FunctionType, getWrapperLLVM(FTy)
    PROVE  OthersTyped' /\ WrappersOK'
<1>0. status = "running" BY DEF getWrapperLLVM
<1>1. PICK after \in {"running", "assert"} : getWrapperAddress(FTy, after)
      BY DEF getWrapperLLVM
<1> DEFINE n == WrapperIdxAfter(FTy)
<1>2. /\ CUIdx_' \in Nat
      /\ FilesOK(VFS_', CUIdx_')
      /\ LangOpts' \in [cxx : BOOLEAN, debug : BOOLEAN]
      /\ n \in Nat
      /\ IdsOK(n, jitWrappers')
      /\ DOMAIN FuncTyWrappers_' \subseteq FunctionType
      /\ \A t \in DOMAIN FuncTyWrappers_' : FuncTyWrappers_'[t] \in Nat
      /\ TypesHaveWrappers'
      /\ status' \in {"running", "fatal", "assert"}
      BY <1>0, <1>1, WrapperForType
<1>3. UNCHANGED <<ErrorMsg_, CUs_, jitDefs, mem>> BY DEF getWrapperLLVM
<1>4. CASE WrapperIdx_' = n /\ UNCHANGED VarArgsFuncTyWrappers_
      BY <1>2, <1>3, <1>4 DEF OthersTyped, WrappersOK
<1>5. CASE WrapperIdx_' = n + 1 /\ InsertVarArgs(FTy, NoBuf, n)
  <2> HIDE DEF n
  <2>1. VarArgsFuncTyWrappers_' \subseteq Entry BY <1>2, <1>5, InsertTyped
  <2>2. IdsOK(n + 1, jitWrappers')
    <3>1. \A w \in jitWrappers' : w.id \in Nat BY <1>2 DEF IdsOK, WrapperDef
    <3> QED BY <1>2, <3>1 DEF IdsOK
  <2> QED BY <1>2, <1>3, <1>5, <2>1, <2>2 DEF OthersTyped, WrappersOK
<1> QED BY <1>4, <1>5 DEF getWrapperLLVM

(* A host that overwrites its arrays preserves the invariant.              *)
LEMMA WritesStep ==
    ASSUME OthersTyped, WrappersOK, NEW b \in Buf, NEW t \in ArgTy, HostWrites(b, t)
    PROVE  OthersTyped' /\ WrappersOK'
BY DEF HostWrites, OthersTyped, WrappersOK, TypesHaveWrappers, idVars

-----------------------------------------------------------------------------
(* The invariant is inductive.                                             *)
THEOREM EngineInvariant == Spec => []IInv
<1>1. Init => IInv
  <2> SUFFICES ASSUME Init PROVE OthersTyped /\ WrappersOK BY DEF IInv
  <2>1. OthersTyped BY DEF Init, OthersTyped
  <2>2. FilesOK(VFS_, CUIdx_) /\ IdsOK(WrapperIdx_, jitWrappers) /\ TypesHaveWrappers
        BY DEF Init, FilesOK, IdsOK, TypesHaveWrappers
  <2>3. LangOpts \in [cxx : BOOLEAN, debug : BOOLEAN]
        BY EngineAssumption DEF Init, UserLang
  <2> QED BY <2>1, <2>2, <2>3 DEF Init, WrappersOK
<1>2. IInv /\ [Next]_vars => IInv'
  <2> SUFFICES ASSUME OthersTyped, WrappersOK, [Next]_vars PROVE OthersTyped' /\ WrappersOK'
      BY DEF IInv
  <2>0. /\ CUIdx_ \in Nat /\ FilesOK(VFS_, CUIdx_) /\ FilesOK(VFS_, CUIdx_ + 1)
        /\ ErrorMsg_ \in Seq(Code)
        BY FilesLater DEF WrappersOK, OthersTyped
  <2>1. ASSUME NEW c \in CompileCode, NEW le \in LastErrorOpts, compile(c, le)
        PROVE  OthersTyped' /\ WrappersOK'
    <3>1. c \in Code /\ le \in BOOLEAN BY EngineAssumption
    <3>2. AnonFile(CUIdx_)[1] # "wrappers" BY DEF AnonFile
    <3>3. SourceText(c) \in Text /\ SourceText(c).code \in Code
          BY <3>1 DEF SourceText, Text
    <3>4. status = "running" /\ compile_llvm(c, AnonFile(CUIdx_), SourceText(c), CUIdx_ + 1,
                                             VFS_, ErrorMsg_, le)
          BY <2>1 DEF compile
    <3>5. CUIdx_ + 1 \in Nat BY <2>0
    <3> QED BY <2>0, <3>1, <3>2, <3>3, <3>4, <3>5, CompileStep
  <2>2. ASSUME NEW c \in CdefCode, NEW le \in LastErrorOpts, cdefAnonymous(c, le)
        PROVE  OthersTyped' /\ WrappersOK'
    <3>1. c \in Code /\ le \in BOOLEAN BY EngineAssumption
    <3>2. AnonFile(CUIdx_)[1] # "wrappers" BY DEF AnonFile
    <3>3. status = "running" /\ compile_llvm_with_decls(c, AnonFile(CUIdx_), CUIdx_ + 1, le)
          BY <2>2 DEF cdefAnonymous
    <3>4. CUIdx_ + 1 \in Nat /\ CUIdx_ + 1 >= CUIdx_ /\ CUIdx_ + 1 <= CUIdx_ + 1 BY <2>0
    <3> QED BY <3>1, <3>2, <3>3, <3>4, DeclsStep
  <2>3. ASSUME NEW c \in CdefCode, NEW u \in UserName, NEW le \in LastErrorOpts,
               cdefNamed(c, u, le)
        PROVE  OthersTyped' /\ WrappersOK'
    <3>1. c \in Code /\ le \in BOOLEAN BY EngineAssumption
    <3>2. UserFile(u)[1] # "wrappers" BY DEF UserFile
    <3>3. status = "running" /\ compile_llvm_with_decls(c, UserFile(u), CUIdx_, le)
          BY <2>3 DEF cdefNamed
    <3>4. CUIdx_ >= CUIdx_ /\ CUIdx_ <= CUIdx_ + 1 BY <2>0
    <3> QED BY <2>0, <3>1, <3>2, <3>3, <3>4, DeclsStep
  <2>4. ASSUME NEW cu \in CU, NEW s \in Sym, getFunction(cu, s)
        PROVE  OthersTyped' /\ WrappersOK'
        BY <2>4, FunctionStep
  <2>5. ASSUME NEW cu \in CU, NEW s \in Sym, NEW b \in Buf \cup {NoBuf},
               getFunctionVarArgs(cu, s, b)
        PROVE  OthersTyped' /\ WrappersOK'
        BY <2>5, VarArgsStep
  <2>6. ASSUME NEW cu \in CU, NEW s \in DOMAIN cu.FuncTys_, getWrapperLLVM(cu.FuncTys_[s])
        PROVE  OthersTyped' /\ WrappersOK'
    <3>1. cu.FuncTys_[s] \in FunctionType BY TypeInTyped
    <3> QED BY <2>6, <3>1, LLVMStep
  <2>7. ASSUME NEW b \in Buf, NEW t \in ArgTy, HostWrites(b, t)
        PROVE  OthersTyped' /\ WrappersOK'
        BY <2>7, WritesStep
  <2>8. CASE UNCHANGED vars
        BY <2>8 DEF vars, OthersTyped, WrappersOK, TypesHaveWrappers
  <2> QED BY <2>1, <2>2, <2>3, <2>4, <2>5, <2>6, <2>7, <2>8 DEF Next
<1> QED BY <1>1, <1>2, PTL DEF Spec

(* The state of the engine stays well typed.                               *)
THEOREM TypeCorrect == Spec => []TypeOK
<1>1. IdsOK(WrapperIdx_, jitWrappers) => jitWrappers \subseteq WrapperDef BY DEF IdsOK
<1>2. FilesOK(VFS_, CUIdx_) => \A f \in DOMAIN VFS_ : VFS_[f] \in Text BY DEF FilesOK
<1>3. IInv => TypeOK BY <1>1, <1>2 DEF IInv, OthersTyped, WrappersOK, TypeOK
<1> QED BY <1>3, EngineInvariant, PTL

(* compile and getFunction never give a function type the number of a      *)
(* wrapper that was not compiled for it, whatever the host does with names *)
(* and arrays.                                                             *)
THEOREM TypesWrapped == Spec => []TypesHaveWrappers
<1>1. IInv => TypesHaveWrappers BY DEF IInv, WrappersOK
<1> QED BY <1>1, EngineInvariant, PTL

(* The two wrapper maps never give two wrappers one number.                *)
THEOREM IdsUnique == Spec => []WrapperIdsUnique
<1>1. IInv => WrapperIdsUnique BY DEF IInv, WrappersOK, IdsOK, WrapperIdsUnique
<1> QED BY <1>1, EngineInvariant, PTL
-----------------------------------------------------------------------------
(***************************************************************************)
(* What the engine promises to hosts that follow rules of their own: one   *)
(* that leaves its arrays of variadic types alone, one that gives a name   *)
(* to one text only, texts that clang does not warn about, texts that      *)
(* agree on the functions they share.  Each theorem states the rule it     *)
(* needs.  They rest on the invariant above, which holds for any host.     *)
(***************************************************************************)
(* What the steps do to the two maps of wrappers, other than to add a list *)
(* of variadic types: compiled wrappers stay, types keep their numbers,    *)
(* and what is compiled is the wrapper of a type, under its number.        *)
Grows ==
    /\ jitWrappers \subseteq jitWrappers'
    /\ \A t \in DOMAIN FuncTyWrappers_ :
          t \in DOMAIN FuncTyWrappers_' /\ FuncTyWrappers_'[t] = FuncTyWrappers_[t]
    /\ \A w \in jitWrappers' \ jitWrappers :
          w.args = <<>> /\ w.ty \in DOMAIN FuncTyWrappers_' /\ FuncTyWrappers_'[w.ty] = w.id

(* Names under which files are read back: private ones are used once, and  *)
(* the host's hold, with the completed text beside them, the text given    *)
(* first.                                                                  *)
FilesOwn(fs, i) ==
    /\ \A n \in Nat :
          /\ AnonFile(n) \in DOMAIN fs => n < i
          /\ ForceFile(AnonFile(n)) \in DOMAIN fs => n < i
    /\ \A u \in UserName :
          /\ UserFile(u) \in DOMAIN fs => fs[UserFile(u)].decls = NoCode
          /\ ForceFile(UserFile(u)) \in DOMAIN fs =>
                /\ UserFile(u) \in DOMAIN fs
                /\ fs[ForceFile(UserFile(u))].code = fs[UserFile(u)].code
                /\ fs[ForceFile(UserFile(u))].decls = fs[UserFile(u)].code

-----------------------------------------------------------------------------
LEMMA NamesDiffer ==
    ASSUME NEW m, NEW n, NEW u, NEW v
    PROVE  /\ AnonFile(m) # UserFile(u) /\ AnonFile(m) # WrapperFile(n)
           /\ UserFile(u) # WrapperFile(n)
           /\ ForceFile(m) # UserFile(u) /\ ForceFile(m) # AnonFile(n)
           /\ ForceFile(m) # WrapperFile(n)
           /\ AnonFile(m) = AnonFile(n) => m = n
           /\ UserFile(u) = UserFile(v) => u = v
           /\ ForceFile(m) = ForceFile(n) => m = n
BY DEF AnonFile, UserFile, ForceFile, WrapperFile

LEMMA OwnLater ==
    ASSUME NEW fs, NEW i \in Nat, FilesOwn(fs, i)
    PROVE  FilesOwn(fs, i + 1)
BY DEF FilesOwn

(* A file added beside the named ones.                                     *)
LEMMA WrapperFileOwn ==
    ASSUME NEW fs, NEW i \in Nat, FilesOwn(fs, i), NEW text
    PROVE  FilesOwn(addFile(fs, WrapperFile(i), text), i + 1)
<1> DEFINE fs2 == addFile(fs, WrapperFile(i), text)
<1>1. \A f : f # WrapperFile(i) =>
          (f \in DOMAIN fs2 <=> f \in DOMAIN fs) /\ (f \in DOMAIN fs => fs2[f] = fs[f])
      BY DEF addFile, Extend
<1>2. \A n : AnonFile(n) # WrapperFile(i) /\ ForceFile(n) # WrapperFile(i)
             /\ UserFile(n) # WrapperFile(i)
      BY NamesDiffer
<1> HIDE DEF fs2
<1>3. ASSUME NEW n \in Nat
      PROVE  /\ AnonFile(n) \in DOMAIN fs2 => n < i + 1
             /\ ForceFile(AnonFile(n)) \in DOMAIN fs2 => n < i + 1
      BY <1>1, <1>2 DEF FilesOwn
<1>4. ASSUME NEW u \in UserName
      PROVE  /\ UserFile(u) \in DOMAIN fs2 => fs2[UserFile(u)].decls = NoCode
             /\ ForceFile(UserFile(u)) \in DOMAIN fs2 =>
                   /\ UserFile(u) \in DOMAIN fs2
                   /\ fs2[ForceFile(UserFile(u))].code = fs2[UserFile(u)].code
                   /\ fs2[ForceFile(UserFile(u))].decls = fs2[UserFile(u)].code
      BY <1>1, <1>2 DEF FilesOwn
<1> QED BY <1>3, <1>4 DEF FilesOwn, fs2

(* compileWrappers leaves the names as they are, and the language of the   *)
(* engine's options if the process lives.                                  *)
LEMMA CompileWrappersOwn ==
    ASSUME NEW ws, NEW i \in Nat, NEW fs, NEW after, compileWrappers(ws, i, fs, after)
    PROVE  /\ FilesOwn(fs, i) => FilesOwn(VFS_', CUIdx_')
           /\ status' \in {after, "fatal"}
           /\ status' = "fatal" \/ LangOpts' = UserLang
<1>1. VFS_' = addFile(fs, WrapperFile(i), WrapperText(ws)) /\ CUIdx_' = i + 1
      BY DEF compileWrappers
<1>2. /\ status' \in {after, "fatal"}
      /\ status' = "fatal" \/ LangOpts' = UserLang
      BY DEF compileWrappers
<1> QED BY <1>1, <1>2, WrapperFileOwn

(* What getWrapperAddress does.                                            *)
LEMMA AddressGrows ==
    ASSUME WrappersOK, NEW FTy \in FunctionType, NEW after, getWrapperAddress(FTy, after)
    PROVE  /\ Grows /\ FTy \in DOMAIN FuncTyWrappers_'
           /\ status' \in {after, "fatal"}
           /\ FilesOwn(VFS_, CUIdx_) => FilesOwn(VFS_', CUIdx_')
           /\ status' = "fatal" \/ LangOpts' \in {LangOpts, UserLang}
<1>1. CASE FTy \in DOMAIN FuncTyWrappers_
      BY <1>1 DEF getWrapperAddress, Grows, frontVars
<1>2. CASE FTy \notin DOMAIN FuncTyWrappers_
  <2> DEFINE w  == [id |-> WrapperIdx_, ty |-> FTy, args |-> <<>>]
             ws == {w}
  <2>1. /\ FuncTyWrappers_' = Extend(FuncTyWrappers_, FTy, WrapperIdx_)
        /\ compileWrappers(ws, CUIdx_, VFS_, after)
        BY <1>2 DEF getWrapperAddress
  <2>2. CUIdx_ \in Nat /\ FilesOK(VFS_, CUIdx_) BY DEF WrappersOK
  <2>3. w \in WrapperDef BY DEF WrappersOK, WrapperDef, ArgList
  <2>4. /\ FTy \in DOMAIN FuncTyWrappers_' /\ FuncTyWrappers_'[FTy] = WrapperIdx_
        /\ \A t \in DOMAIN FuncTyWrappers_ :
              t \in DOMAIN FuncTyWrappers_' /\ FuncTyWrappers_'[t] = FuncTyWrappers_[t]
        BY <1>2, <2>1 DEF Extend
  <2>5. \A x \in ws : x.args = <<>> /\ x.ty = FTy /\ x.id = WrapperIdx_ OBVIOUS
  <2>6. ws \in SUBSET WrapperDef BY <2>3
  <2> HIDE DEF ws
  <2>7. jitWrappers' = jitWrappers \cup ws \/ jitWrappers' = jitWrappers
        BY <2>1, <2>2, <2>6, WrappersCompiled
  <2>8. Grows BY <2>4, <2>5, <2>7 DEF Grows
  <2> QED BY <2>1, <2>2, <2>4, <2>8, CompileWrappersOwn
<1> QED BY <1>1, <1>2

(* What compile does once the module is there.                             *)
LEMMA ModuleGrows ==
    ASSUME WrappersOK, NEW c, NEW text \in Text, text.code \in Code,
           NEW i \in Nat, NEW fs, FilesOK(fs, i), NEW msgs, NEW le \in BOOLEAN,
           CompileModule(c, text, i, fs, msgs, le)
    PROVE  /\ Grows
           /\ status' \in {"running", "fatal"}
           /\ FilesOwn(fs, i) => FilesOwn(VFS_', CUIdx_')
           /\ status' = "fatal" \/ LangOpts' = UserLang
<1> DEFINE FTys == FuncTys(text, le)
           new  == NewTypes(FTys)
<1>1. FTys \in Map(Sym, FunctionType) BY FuncTysTyped
<1>2. new \subseteq FunctionType /\ new \cap DOMAIN FuncTyWrappers_ = {}
      BY <1>1, NewTypesFinite DEF NewTypes
<1>3. PICK num \in Numberings(new) :
        /\ FuncTyWrappers_' = [t \in DOMAIN FuncTyWrappers_ \cup new |->
                                 IF t \in new THEN num[t] ELSE FuncTyWrappers_[t]]
        /\ compileWrappers({[id |-> num[t], ty |-> t, args |-> <<>>] : t \in new},
                           i, fs, "running")
      BY DEF CompileModule
<1> DEFINE ws == {[id |-> num[t], ty |-> t, args |-> <<>>] : t \in new}
           k  == Cardinality(new)
<1>4. \A t \in new : num[t] \in Nat
  <2>1. k \in Nat BY <1>1, NewTypesFinite
  <2>2. num \in [new -> WrapperIdx_..(WrapperIdx_ + k - 1)] BY <1>3 DEF Numberings
  <2>3. WrapperIdx_ \in Nat BY DEF WrappersOK
  <2> HIDE DEF new, k
  <2> QED BY <2>1, <2>2, <2>3
<1>5. compileWrappers(ws, i, fs, "running") BY <1>3
<1> HIDE DEF FTys, new
<1>6. ws \in SUBSET WrapperDef BY <1>2, <1>4 DEF WrapperDef, ArgList
<1>7. /\ \A t \in new : t \in DOMAIN FuncTyWrappers_' /\ FuncTyWrappers_'[t] = num[t]
      /\ \A t \in DOMAIN FuncTyWrappers_ :
            t \in DOMAIN FuncTyWrappers_' /\ FuncTyWrappers_'[t] = FuncTyWrappers_[t]
      BY <1>2, <1>3
<1>8. \A w \in ws : w.args = <<>> /\ w.ty \in new /\ w.id = num[w.ty] OBVIOUS
<1> HIDE DEF ws
<1>9. jitWrappers' = jitWrappers \cup ws \/ jitWrappers' = jitWrappers
      BY <1>5, <1>6, WrappersCompiled
<1>10. Grows BY <1>7, <1>8, <1>9 DEF Grows
<1> QED BY <1>5, <1>10, CompileWrappersOwn

-----------------------------------------------------------------------------
(* How a call of compile or cdef for text c ends.  `read` is the text the  *)
(* call came to compile: c itself, completed with its own declarations or  *)
(* not, if the host does not give c the name of another text.              *)
Clean(c) == IF Prog[c].ok /\ ~Prog[c].warn THEN <<>> ELSE <<c>>

ReadsOwn(c, read, i, fs) ==
    /\ FilesOwn(fs, i)
    /\ read.code = c
    /\ read.decls = NoCode \/ (read.decls = c /\ c \in CdefCode)

Ends(c, le, i, fs, read, msgs) ==
    \/ ~Prog[read.code].ok /\ CompileError(c, i, fs, msgs)
    \/ Prog[read.code].ok /\ AliasAssertFails(read) /\ AliasAssertion(i, fs)
    \/ Prog[read.code].ok /\ CompileModule(c, read, i, fs, msgs, le)

OwnMsgs(c, msgs) ==
    /\ Prog[c].ok => msgs \in {ErrorMsg_ \o Clean(c), ErrorMsg_ \o Clean(c) \o Clean(c)}
    /\ ~Prog[c].ok => msgs = ErrorMsg_ \o Clean(c)

Outcome(c, le) ==
    \E i \in Nat : \E fs, read, msgs :
        /\ FilesOK(fs, i) /\ read \in Text /\ read.code \in Code
        /\ Ends(c, le, i, fs, read, msgs)
        /\ ~ReusesNames /\ FilesOwn(VFS_, CUIdx_) =>
              /\ ReadsOwn(c, read, i, fs)
              /\ OwnMsgs(c, msgs)

(* Files of compile and cdef: a private text, a text under the host's      *)
(* name, and a completed text beside either.                               *)
LEMMA AnonOwn ==
    ASSUME NEW fs, NEW i \in Nat, FilesOwn(fs, i), NEW text
    PROVE  /\ AnonFile(i) \notin DOMAIN fs /\ ForceFile(AnonFile(i)) \notin DOMAIN fs
           /\ FilesOwn(addFile(fs, AnonFile(i), text), i + 1)
<1> DEFINE fs2 == addFile(fs, AnonFile(i), text)
<1>1. AnonFile(i) \notin DOMAIN fs /\ ForceFile(AnonFile(i)) \notin DOMAIN fs
      BY DEF FilesOwn
<1>2. DOMAIN fs2 = DOMAIN fs \cup {AnonFile(i)} /\ \A f \in DOMAIN fs : fs2[f] = fs[f]
      BY <1>1 DEF addFile, Extend
<1> HIDE DEF fs2
<1>3. ASSUME NEW n \in Nat
      PROVE  /\ AnonFile(n) \in DOMAIN fs2 => n < i + 1
             /\ ForceFile(AnonFile(n)) \in DOMAIN fs2 => n < i + 1
  <2>1. ForceFile(AnonFile(n)) # AnonFile(i) /\ (AnonFile(n) = AnonFile(i) => n = i)
        BY NamesDiffer
  <2> QED BY <1>2, <2>1 DEF FilesOwn
<1>4. ASSUME NEW u \in UserName
      PROVE  /\ UserFile(u) \in DOMAIN fs2 => fs2[UserFile(u)].decls = NoCode
             /\ ForceFile(UserFile(u)) \in DOMAIN fs2 =>
                   /\ UserFile(u) \in DOMAIN fs2
                   /\ fs2[ForceFile(UserFile(u))].code = fs2[UserFile(u)].code
                   /\ fs2[ForceFile(UserFile(u))].decls = fs2[UserFile(u)].code
  <2>1. ForceFile(UserFile(u)) # AnonFile(i) /\ UserFile(u) # AnonFile(i) BY NamesDiffer
  <2> QED BY <1>2, <2>1 DEF FilesOwn
<1> QED BY <1>1, <1>3, <1>4 DEF FilesOwn, fs2

LEMMA UserOwn ==
    ASSUME NEW fs, NEW i \in Nat, FilesOwn(fs, i), NEW u \in UserName, NEW c,
           UserFile(u) \in DOMAIN fs => fs[UserFile(u)].code = c
    PROVE  LET fs2 == addFile(fs, UserFile(u), SourceText(c))
           IN  /\ FilesOwn(fs2, i)
               /\ UserFile(u) \in DOMAIN fs2
               /\ fs2[UserFile(u)].code = c /\ fs2[UserFile(u)].decls = NoCode
<1> DEFINE fs2 == addFile(fs, UserFile(u), SourceText(c))
<1>1. CASE UserFile(u) \in DOMAIN fs BY <1>1 DEF addFile, FilesOwn
<1>2. CASE UserFile(u) \notin DOMAIN fs
  <2>1. /\ fs2[UserFile(u)] = SourceText(c)
        /\ DOMAIN fs2 = DOMAIN fs \cup {UserFile(u)}
        /\ \A f \in DOMAIN fs : fs2[f] = fs[f]
        BY <1>2 DEF addFile, Extend
  <2>2. SourceText(c).code = c /\ SourceText(c).decls = NoCode BY DEF SourceText
  <2>3. ForceFile(UserFile(u)) \notin DOMAIN fs BY <1>2 DEF FilesOwn
  <2> HIDE DEF fs2
  <2>4. ASSUME NEW n \in Nat
        PROVE  /\ AnonFile(n) \in DOMAIN fs2 => n < i
               /\ ForceFile(AnonFile(n)) \in DOMAIN fs2 => n < i
    <3>1. ForceFile(AnonFile(n)) # UserFile(u) /\ AnonFile(n) # UserFile(u) BY NamesDiffer
    <3> QED BY <2>1, <3>1 DEF FilesOwn
  <2>5. ASSUME NEW v \in UserName
        PROVE  /\ UserFile(v) \in DOMAIN fs2 => fs2[UserFile(v)].decls = NoCode
               /\ ForceFile(UserFile(v)) \in DOMAIN fs2 =>
                     /\ UserFile(v) \in DOMAIN fs2
                     /\ fs2[ForceFile(UserFile(v))].code = fs2[UserFile(v)].code
                     /\ fs2[ForceFile(UserFile(v))].decls = fs2[UserFile(v)].code
    <3>1. ForceFile(UserFile(v)) # UserFile(u) BY NamesDiffer
    <3>2. CASE v = u BY <2>1, <2>2, <2>3, <3>1, <3>2
    <3>3. CASE v # u
      <4>1. UserFile(v) # UserFile(u) BY <3>3, NamesDiffer
      <4> QED BY <2>1, <3>1, <4>1 DEF FilesOwn
    <3> QED BY <3>2, <3>3
  <2>6. FilesOwn(fs2, i) BY <2>4, <2>5 DEF FilesOwn
  <2> QED BY <2>1, <2>2, <2>6 DEF fs2
<1> QED BY <1>1, <1>2

LEMMA ForcedOwn ==
    ASSUME NEW fs, NEW i \in Nat, FilesOwn(fs, i), NEW c, NEW name,
           \/ \E n \in Nat : name = AnonFile(n) /\ n < i /\ ForceFile(name) \notin DOMAIN fs
           \/ \E u \in UserName : /\ name = UserFile(u) /\ name \in DOMAIN fs
                                  /\ fs[name].code = c
    PROVE  LET fs2  == addFile(fs, ForceFile(name), ForcedText(c, c))
               read == fs2[ForceFile(name)]
           IN  /\ FilesOwn(fs2, i)
               /\ read.code = c /\ read.decls = c
<1> DEFINE fs2  == addFile(fs, ForceFile(name), ForcedText(c, c))
<1>0. ForcedText(c, c).code = c /\ ForcedText(c, c).decls = c BY DEF ForcedText
<1>1. CASE ForceFile(name) \in DOMAIN fs
  <2>1. PICK u \in UserName : name = UserFile(u) /\ name \in DOMAIN fs /\ fs[name].code = c
        BY <1>1
  <2>2. fs2 = fs BY <1>1 DEF addFile
  <2>3. fs[ForceFile(name)].code = c /\ fs[ForceFile(name)].decls = c
        BY <1>1, <2>1 DEF FilesOwn
  <2> QED BY <2>2, <2>3
<1>2. CASE ForceFile(name) \notin DOMAIN fs
  <2>1. /\ fs2[ForceFile(name)] = ForcedText(c, c)
        /\ DOMAIN fs2 = DOMAIN fs \cup {ForceFile(name)}
        /\ \A f \in DOMAIN fs : fs2[f] = fs[f]
        BY <1>2 DEF addFile, Extend
  <2> HIDE DEF fs2
  <2>2. ASSUME NEW n \in Nat
        PROVE  /\ AnonFile(n) \in DOMAIN fs2 => n < i
               /\ ForceFile(AnonFile(n)) \in DOMAIN fs2 => n < i
    <3>1. ForceFile(name) # AnonFile(n) BY NamesDiffer
    <3>2. ForceFile(AnonFile(n)) = ForceFile(name) => AnonFile(n) = name BY NamesDiffer
    <3>3. AnonFile(n) = name => n < i
      <4>1. \A u : AnonFile(n) # UserFile(u) BY NamesDiffer
      <4>2. \A m : AnonFile(n) = AnonFile(m) => n = m BY NamesDiffer
      <4> QED BY <4>1, <4>2
    <3> QED BY <2>1, <3>1, <3>2, <3>3 DEF FilesOwn
  <2>3. ASSUME NEW v \in UserName
        PROVE  /\ UserFile(v) \in DOMAIN fs2 => fs2[UserFile(v)].decls = NoCode
               /\ ForceFile(UserFile(v)) \in DOMAIN fs2 =>
                     /\ UserFile(v) \in DOMAIN fs2
                     /\ fs2[ForceFile(UserFile(v))].code = fs2[UserFile(v)].code
                     /\ fs2[ForceFile(UserFile(v))].decls = fs2[UserFile(v)].code
    <3>1. ForceFile(name) # UserFile(v) BY NamesDiffer
    <3>2. ForceFile(UserFile(v)) = ForceFile(name) => UserFile(v) = name BY NamesDiffer
    <3>3. CASE UserFile(v) = name
      <4>1. \A n : UserFile(v) # AnonFile(n) BY NamesDiffer
      <4>2. name \in DOMAIN fs /\ fs[name].code = c BY <3>3, <4>1
      <4>3. fs[UserFile(v)].decls = NoCode BY <3>3, <4>2 DEF FilesOwn
      <4> QED BY <1>0, <2>1, <3>1, <3>3, <4>2, <4>3
    <3>4. CASE UserFile(v) # name
      BY <2>1, <3>1, <3>2, <3>4 DEF FilesOwn
    <3> QED BY <3>3, <3>4
  <2>4. FilesOwn(fs2, i) BY <2>2, <2>3 DEF FilesOwn
  <2> QED BY <1>0, <2>1, <2>4 DEF fs2
<1> QED BY <1>1, <1>2

(* How compile and cdef end.                                               *)
LEMMA CompileOutcome ==
    ASSUME WrappersOK, NEW c \in CompileCode, NEW le, compile(c, le)
    PROVE  Outcome(c, le)
<1> DEFINE i    == CUIdx_ + 1
           fs   == addFile(VFS_, AnonFile(CUIdx_), SourceText(c))
           read == fs[AnonFile(CUIdx_)]
           msgs == ErrorMsg_ \o Diagnosed(read)
<1>1. /\ i \in Nat /\ CUIdx_ \in Nat /\ FilesOK(VFS_, i)
      BY FilesLater DEF WrappersOK
<1>2. c \in Code BY EngineAssumption
<1>3. FilesOK(fs, i) /\ read \in Text /\ read.code \in Code
  <2>1. AnonFile(CUIdx_)[1] # "wrappers" BY DEF AnonFile
  <2>2. SourceText(c) \in Text /\ SourceText(c).code \in Code BY <1>2 DEF SourceText, Text
  <2> QED BY <1>1, <2>1, <2>2, AddSourceFile
<1>4. Ends(c, le, i, fs, read, msgs) BY DEF compile, compile_llvm, Ends
<1>5. ASSUME FilesOwn(VFS_, CUIdx_)
      PROVE  ReadsOwn(c, read, i, fs) /\ OwnMsgs(c, msgs)
  <2>1. FilesOwn(fs, i) /\ AnonFile(CUIdx_) \notin DOMAIN VFS_ BY <1>1, <1>5, AnonOwn
  <2>2. read = SourceText(c) BY <2>1 DEF addFile, Extend
  <2>3. read.code = c /\ read.decls = NoCode BY <2>2 DEF SourceText
  <2> HIDE DEF read, fs
  <2> QED BY <2>1, <2>3 DEF ReadsOwn, OwnMsgs, Clean, Diagnosed
<1> HIDE DEF i, fs, read, msgs
<1> QED BY <1>1, <1>3, <1>4, <1>5 DEF Outcome

LEMMA DeclsOutcome ==
    ASSUME WrappersOK, NEW c \in CdefCode, NEW le, NEW name, NEW i \in Nat,
           i >= CUIdx_, i <= CUIdx_ + 1,
           compile_llvm_with_decls(c, name, i, le), name[1] # "wrappers",
           ~ReusesNames /\ FilesOwn(VFS_, CUIdx_) =>
              LET fs1 == addFile(VFS_, name, SourceText(c))
              IN  /\ FilesOwn(fs1, i)
                  /\ fs1[name].code = c /\ fs1[name].decls = NoCode
                  /\ \/ \E n \in Nat : /\ name = AnonFile(n) /\ n < i
                                       /\ ForceFile(name) \notin DOMAIN fs1
                     \/ \E u \in UserName : /\ name = UserFile(u) /\ name \in DOMAIN fs1
    PROVE  Outcome(c, le)
<1> DEFINE fs1    == addFile(VFS_, name, SourceText(c))
           parsed == fs1[name]
           msgs1  == ErrorMsg_ \o Diagnosed(parsed)
           forced == ForcedText(c, parsed.code)
           fs2    == addFile(fs1, ForceFile(name), forced)
           read   == fs2[ForceFile(name)]
           msgs2  == msgs1 \o Diagnosed(read)
<1>1. c \in Code BY EngineAssumption
<1>2. FilesOK(VFS_, i) BY FilesLater DEF WrappersOK
<1>3. FilesOK(fs1, i) /\ parsed \in Text /\ parsed.code \in Code
  <2>1. SourceText(c) \in Text /\ SourceText(c).code \in Code BY <1>1 DEF SourceText, Text
  <2> QED BY <1>2, <2>1, AddSourceFile
<1>4. FilesOK(fs2, i) /\ read \in Text /\ read.code \in Code
  <2>1. forced \in Text /\ forced.code \in Code BY <1>1, <1>3 DEF ForcedText, Text
  <2>2. ForceFile(name)[1] # "wrappers" BY DEF ForceFile
  <2> HIDE DEF fs1, forced
  <2> QED BY <1>3, <2>1, <2>2, AddSourceFile
<1>5. \/ Ends(c, le, i, fs1, parsed, msgs1) /\ ~Prog[parsed.code].ok
      \/ Ends(c, le, i, fs2, read, msgs2) /\ Prog[parsed.code].ok
      BY DEF compile_llvm_with_decls, compile_llvm, Ends
<1>6. ASSUME ~ReusesNames, FilesOwn(VFS_, CUIdx_)
      PROVE  /\ ReadsOwn(c, parsed, i, fs1) /\ ReadsOwn(c, read, i, fs2)
             /\ ~Prog[parsed.code].ok => OwnMsgs(c, msgs1)
             /\ Prog[parsed.code].ok => OwnMsgs(c, msgs2)
  <2>1. /\ FilesOwn(fs1, i) /\ parsed.code = c /\ parsed.decls = NoCode
        /\ \/ \E n \in Nat : name = AnonFile(n) /\ n < i /\ ForceFile(name) \notin DOMAIN fs1
           \/ \E u \in UserName : name = UserFile(u) /\ name \in DOMAIN fs1
        BY <1>6
  <2>2. forced = ForcedText(c, c) BY <2>1
  <2>3. fs2 = addFile(fs1, ForceFile(name), ForcedText(c, c)) BY <2>2
  <2>4. /\ FilesOwn(addFile(fs1, ForceFile(name), ForcedText(c, c)), i)
        /\ addFile(fs1, ForceFile(name), ForcedText(c, c))[ForceFile(name)].code = c
        /\ addFile(fs1, ForceFile(name), ForcedText(c, c))[ForceFile(name)].decls = c
    <3> HIDE DEF fs1
    <3>1. parsed = fs1[name] OBVIOUS
    <3> HIDE DEF parsed
    <3> QED BY <2>1, <3>1, ForcedOwn
  <2>5. FilesOwn(fs2, i) /\ read.code = c /\ read.decls = c BY <2>3, <2>4
  <2>6. Diagnosed(parsed) = Clean(c) /\ Diagnosed(read) = Clean(c)
        BY <2>1, <2>5 DEF Diagnosed, Clean
  <2>7. msgs1 = ErrorMsg_ \o Clean(c) /\ msgs2 = ErrorMsg_ \o Clean(c) \o Clean(c)
        BY <2>6
  <2> HIDE DEF fs1, fs2, parsed, read, msgs1, msgs2
  <2> QED BY <2>1, <2>5, <2>7 DEF ReadsOwn, OwnMsgs
<1> HIDE DEF fs1, fs2, parsed, read, msgs1, msgs2
<1> QED BY <1>3, <1>4, <1>5, <1>6 DEF Outcome

LEMMA CdefOutcome ==
    ASSUME WrappersOK, NEW c \in CdefCode, NEW le,
           cdefAnonymous(c, le) \/ \E u \in UserName : cdefNamed(c, u, le)
    PROVE  Outcome(c, le)
<1>0. CUIdx_ \in Nat BY DEF WrappersOK
<1>1. CASE cdefAnonymous(c, le)
  <2> DEFINE name == AnonFile(CUIdx_)
             fs1  == addFile(VFS_, name, SourceText(c))
  <2>1. compile_llvm_with_decls(c, name, CUIdx_ + 1, le) BY <1>1 DEF cdefAnonymous
  <2>2. name[1] # "wrappers" BY DEF AnonFile
  <2>3. ASSUME FilesOwn(VFS_, CUIdx_)
        PROVE  /\ FilesOwn(fs1, CUIdx_ + 1)
               /\ fs1[name].code = c /\ fs1[name].decls = NoCode
               /\ CUIdx_ < CUIdx_ + 1 /\ ForceFile(name) \notin DOMAIN fs1
    <3>1. FilesOwn(fs1, CUIdx_ + 1) /\ name \notin DOMAIN VFS_
          /\ ForceFile(name) \notin DOMAIN VFS_
          BY <1>0, <2>3, AnonOwn
    <3>2. fs1[name] = SourceText(c) /\ DOMAIN fs1 = DOMAIN VFS_ \cup {name}
          BY <3>1 DEF addFile, Extend
    <3>3. ForceFile(name) # name BY NamesDiffer
    <3>4. SourceText(c).code = c /\ SourceText(c).decls = NoCode BY DEF SourceText
    <3> HIDE DEF fs1
    <3> QED BY <1>0, <3>1, <3>2, <3>3, <3>4
  <2>4. CUIdx_ + 1 \in Nat /\ CUIdx_ + 1 >= CUIdx_ /\ CUIdx_ + 1 <= CUIdx_ + 1 BY <1>0
  <2> QED BY <1>0, <2>1, <2>2, <2>3, <2>4, DeclsOutcome
<1>2. ASSUME NEW u \in UserName, cdefNamed(c, u, le) PROVE Outcome(c, le)
  <2> DEFINE name == UserFile(u)
             fs1  == addFile(VFS_, name, SourceText(c))
  <2>1. /\ compile_llvm_with_decls(c, name, CUIdx_, le)
        /\ ~ReusesNames /\ name \in DOMAIN VFS_ => VFS_[name].code = c
        BY <1>2 DEF cdefNamed
  <2>2. name[1] # "wrappers" BY DEF UserFile
  <2>3. ASSUME ~ReusesNames, FilesOwn(VFS_, CUIdx_)
        PROVE  /\ FilesOwn(fs1, CUIdx_) /\ name \in DOMAIN fs1
               /\ fs1[name].code = c /\ fs1[name].decls = NoCode
        BY <1>0, <2>1, <2>3, UserOwn
  <2>4. CUIdx_ >= CUIdx_ /\ CUIdx_ <= CUIdx_ + 1 BY <1>0
  <2> QED BY <1>0, <2>1, <2>2, <2>3, <2>4, DeclsOutcome
<1> QED BY <1>1, <1>2

-----------------------------------------------------------------------------
(* Every step is a call that compiles a text, or leaves the units, the     *)
(* definitions and the diagnostics alone.                                  *)
Given == CompileCode \cup CdefCode

IsFunctionOf(r, cu, s) ==
    /\ Callable(cu, s)
    /\ r.fptr = getFunctionAddress(Resolve(cu, s))
    /\ r.base = TypeIn(cu, s)
    /\ r.cu = cu.code

Lookup ==
    /\ UNCHANGED <<ErrorMsg_, CUs_, jitDefs>>
    /\ FilesOwn(VFS_, CUIdx_) => FilesOwn(VFS_', CUIdx_')
    /\ status' = "running" => status = "running" /\ LangOpts' \in {LangOpts, UserLang}
    /\ status' = "assert" => status = "assert" \/ LLVMSig \cap VarSig # {}
    /\ \/ ret' = ret
       \/ ret'.kind \in {"null", "llvm"}
       \/ ret'.kind = "func" /\ \E cu \in CU, s \in Sym : IsFunctionOf(ret', cu, s)

LEMMA FunctionLookup ==
    ASSUME IInv, NEW cu \in CU, NEW s \in Sym, getFunction(cu, s)
    PROVE  Lookup
<1>0. status = "running" BY DEF getFunction
<1>1. CASE ReturnsNull
      BY <1>0, <1>1 DEF ReturnsNull, Lookup, Null
<1>2. CASE ~ReturnsNull
  <2> DEFINE FTy == TypeIn(cu, s)
             r   == NativeFunc(FuncTyWrappers_'[FTy],
                               getFunctionAddress(Resolve(cu, s)), FTy, FTy, <<>>, cu.code)
  <2>1. /\ Callable(cu, s)
        /\ getWrapperAddress(FTy, "running")
        /\ Returns(r)
        /\ UNCHANGED <<ErrorMsg_, CUs_, jitDefs>>
        BY <1>2 DEF getFunction
  <2>2. FTy \in FunctionType BY <2>1, TypeInTyped DEF TypeIn, Callable, IInv
  <2>3. r.kind = "func" /\ IsFunctionOf(r, cu, s)
        BY <2>1 DEF NativeFunc, IsFunctionOf
  <2> HIDE DEF FTy, r
  <2>4. /\ status' \in {"running", "fatal"}
        /\ FilesOwn(VFS_, CUIdx_) => FilesOwn(VFS_', CUIdx_')
        /\ status' = "fatal" \/ LangOpts' \in {LangOpts, UserLang}
        BY <2>1, <2>2, AddressGrows DEF IInv
  <2>5. ret' = ret \/ ret' = r BY <2>1 DEF Returns
  <2> QED BY <1>0, <2>1, <2>3, <2>4, <2>5 DEF Lookup
<1> QED BY <1>1, <1>2

LEMMA VarArgsLookup ==
    ASSUME IInv, NEW cu \in CU, NEW s \in Sym, NEW b \in Buf \cup {NoBuf},
           getFunctionVarArgs(cu, s, b)
    PROVE  Lookup
<1> DEFINE FTy  == TypeIn(cu, s)
           FPtr == getFunctionAddress(Resolve(cu, s))
           r(n) == NativeFunc(n, FPtr, Specialised(FTy, Contents(b)), FTy, Contents(b), cu.code)
<1>0. status = "running" BY DEF getFunctionVarArgs
<1>1. \/ ReturnsNull
      \/ Callable(cu, s) /\ FoundVarArgs(FTy, b, FPtr, cu.code)
      \/ Callable(cu, s) /\ NewVarArgs(FTy, b, FPtr, cu.code)
      BY DEF getFunctionVarArgs
<1>2. Callable(cu, s) => \A n : r(n).kind = "func" /\ IsFunctionOf(r(n), cu, s)
      BY DEF NativeFunc, IsFunctionOf
<1>3. CASE ReturnsNull
      BY <1>0, <1>3 DEF ReturnsNull, Lookup, Null
<1>4. CASE Callable(cu, s) /\ FoundVarArgs(FTy, b, FPtr, cu.code)
  <2>1. /\ \E e \in PossibleHits(FTy, Contents(b)) : ret' = r(e.id)
        /\ UNCHANGED <<VFS_, ErrorMsg_, LangOpts, CUIdx_, CUs_, jitDefs, status>>
        BY <1>4 DEF FoundVarArgs
  <2> HIDE DEF r, FTy, FPtr
  <2> QED BY <1>0, <1>2, <1>4, <2>1 DEF Lookup
<1>5. CASE Callable(cu, s) /\ NewVarArgs(FTy, b, FPtr, cu.code)
  <2> DEFINE ws == {[id |-> WrapperIdx_, ty |-> FTy, args |-> Contents(b)]}
  <2>1. /\ compileWrappers(ws, CUIdx_, VFS_, "running")
        /\ Returns(r(WrapperIdx_))
        /\ UNCHANGED <<ErrorMsg_, CUs_, jitDefs>>
        BY <1>5 DEF NewVarArgs
  <2> HIDE DEF r, FTy, FPtr, ws
  <2>2. CUIdx_ \in Nat BY DEF IInv, WrappersOK
  <2>3. /\ FilesOwn(VFS_, CUIdx_) => FilesOwn(VFS_', CUIdx_')
        /\ status' \in {"running", "fatal"}
        /\ status' = "fatal" \/ LangOpts' = UserLang
        BY <2>1, <2>2, CompileWrappersOwn
  <2>4. ret' = ret \/ ret' = r(WrapperIdx_) BY <2>1 DEF Returns
  <2> QED BY <1>0, <1>2, <1>5, <2>1, <2>3, <2>4 DEF Lookup
<1> QED BY <1>1, <1>3, <1>4, <1>5

LEMMA LLVMLookup ==
    ASSUME IInv, NEW FTy \in FunctionType, FTy.sig \in LLVMSig, getWrapperLLVM(FTy)
    PROVE  Lookup
<1>0. status = "running" /\ UNCHANGED <<ErrorMsg_, CUs_, jitDefs>> BY DEF getWrapperLLVM
<1>1. \/ /\ getWrapperAddress(FTy, "running")
         /\ ret' = ret \/ ret'.kind = "llvm"
      \/ /\ hasVarArgs(FTy) /\ getWrapperAddress(FTy, "assert")
         /\ ret' = ret
      BY DEF getWrapperLLVM, Returns
<1>2. WrappersOK BY DEF IInv
<1>3. CASE /\ getWrapperAddress(FTy, "running")
           /\ ret' = ret \/ ret'.kind = "llvm"
  <2>1. /\ status' \in {"running", "fatal"}
        /\ FilesOwn(VFS_, CUIdx_) => FilesOwn(VFS_', CUIdx_')
        /\ status' = "fatal" \/ LangOpts' \in {LangOpts, UserLang}
        BY <1>2, <1>3, AddressGrows
  <2> QED BY <1>0, <1>3, <2>1 DEF Lookup
<1>4. CASE hasVarArgs(FTy) /\ getWrapperAddress(FTy, "assert") /\ ret' = ret
  <2>1. /\ status' \in {"assert", "fatal"}
        /\ FilesOwn(VFS_, CUIdx_) => FilesOwn(VFS_', CUIdx_')
        BY <1>2, <1>4, AddressGrows
  <2>2. LLVMSig \cap VarSig # {} BY <1>4 DEF hasVarArgs
  <2> QED BY <1>0, <1>4, <2>1, <2>2 DEF Lookup
<1> QED BY <1>1, <1>3, <1>4

LEMMA StepsSplit ==
    ASSUME IInv, [Next]_vars
    PROVE  \/ status = "running" /\ \E c \in Given, le \in BOOLEAN : Outcome(c, le)
           \/ Lookup
<1>0. WrappersOK /\ OthersTyped BY DEF IInv
<1>1. ASSUME NEW c \in CompileCode, NEW le \in LastErrorOpts, compile(c, le)
      PROVE  status = "running" /\ Outcome(c, le) /\ le \in BOOLEAN /\ c \in Given
  <2>1. le \in BOOLEAN BY EngineAssumption
  <2>2. status = "running" BY <1>1 DEF compile
  <2> QED BY <1>0, <1>1, <2>1, <2>2, CompileOutcome DEF Given
<1>2. ASSUME NEW c \in CdefCode, NEW le \in LastErrorOpts,
             cdefAnonymous(c, le) \/ \E u \in UserName : cdefNamed(c, u, le)
      PROVE  status = "running" /\ Outcome(c, le) /\ le \in BOOLEAN /\ c \in Given
  <2>1. le \in BOOLEAN BY EngineAssumption
  <2>2. status = "running" BY <1>2 DEF cdefAnonymous, cdefNamed
  <2> QED BY <1>0, <1>2, <2>1, <2>2, CdefOutcome DEF Given
<1>3. ASSUME NEW cu \in CU, NEW s \in Sym, getFunction(cu, s) PROVE Lookup
      BY <1>3, FunctionLookup
<1>4. ASSUME NEW cu \in CU, NEW s \in Sym, NEW b \in Buf \cup {NoBuf},
             getFunctionVarArgs(cu, s, b)
      PROVE  Lookup
      BY <1>4, VarArgsLookup
<1>5. ASSUME NEW cu \in CU, NEW s \in DOMAIN cu.FuncTys_, cu.FuncTys_[s].sig \in LLVMSig,
             getWrapperLLVM(cu.FuncTys_[s])
      PROVE  Lookup
  <2>1. cu.FuncTys_[s] \in FunctionType BY <1>0, TypeInTyped
  <2> QED BY <1>5, <2>1, LLVMLookup
<1>6. ASSUME NEW b \in Buf, NEW t \in ArgTy, HostWrites(b, t) PROVE Lookup
      BY <1>6 DEF HostWrites, Lookup, Null
<1>7. CASE UNCHANGED vars BY <1>7 DEF vars, Lookup
<1> QED BY <1>1, <1>2, <1>3, <1>4, <1>5, <1>6, <1>7 DEF Next

-----------------------------------------------------------------------------
(* A host that gives a name to one text only.  The invariant: files hold   *)
(* what their names say, the options are the engine's between calls, and   *)
(* every unit is made of the text it was asked for.                        *)
UnitOwn(cu) ==
    /\ cu.code \in Given
    /\ cu.text.code = cu.code
    /\ cu.text.decls \in {NoCode, cu.code}
    /\ cu.lang = UserLang
    /\ \E le \in BOOLEAN : cu.FuncTys_ = FuncTys(cu.text, le)

OwnInv ==
    /\ FilesOwn(VFS_, CUIdx_)
    /\ status = "running" => LangOpts = UserLang
    /\ \A cu \in CU : UnitOwn(cu)

(* The three ways in which a call for text c then ends.                    *)
Fails(c) ==
    /\ ~Prog[c].ok
    /\ ret'.kind = "error" /\ ret'.code = c /\ ret'.msgs = ErrorMsg_ \o Clean(c)
    /\ ErrorMsg_' = <<>>
    /\ UNCHANGED <<CUs_, jitDefs, status>>

Asserts ==
    /\ status' = "assert"
    /\ UNCHANGED <<ErrorMsg_, CUs_, jitDefs, ret>>

Links(c) ==
    /\ Prog[c].ok
    /\ status' \in {"running", "fatal"}
    /\ OwnMsgs(c, ErrorMsg_')
    /\ jitDefs' = [s \in Sym |-> IF s \in DOMAIN Prog[c].defs THEN c ELSE jitDefs[s]]
    /\ ret' = ret \/ ret'.kind = "cu"
    /\ \/ CUs_' = CUs_
       \/ \E cu : cu.code = c /\ UnitOwn(cu) /\ CUs_' = Append(CUs_, cu)

LEMMA OwnOutcome ==
    ASSUME IInv, OwnInv, ~ReusesNames, status = "running",
           NEW c \in Given, NEW le \in BOOLEAN, Outcome(c, le)
    PROVE  /\ FilesOwn(VFS_', CUIdx_')
           /\ status' = "running" => LangOpts' = UserLang
           /\ Fails(c) \/ Asserts \/ Links(c)
<1>0. FilesOwn(VFS_, CUIdx_) /\ LangOpts = UserLang /\ WrappersOK BY DEF OwnInv, IInv
<1>1. PICK i \in Nat : \E fs, read, msgs :
        /\ FilesOK(fs, i) /\ read \in Text /\ read.code \in Code
        /\ Ends(c, le, i, fs, read, msgs)
        /\ ReadsOwn(c, read, i, fs) /\ OwnMsgs(c, msgs)
      BY <1>0 DEF Outcome
<1>2. PICK fs, read, msgs :
        /\ FilesOK(fs, i) /\ read \in Text /\ read.code \in Code
        /\ Ends(c, le, i, fs, read, msgs)
        /\ ReadsOwn(c, read, i, fs) /\ OwnMsgs(c, msgs)
      BY <1>1
<1>3. /\ FilesOwn(fs, i) /\ read.code = c
      /\ read.decls = NoCode \/ (read.decls = c /\ c \in CdefCode)
      BY <1>2 DEF ReadsOwn
<1>4. CASE ~Prog[c].ok /\ CompileError(c, i, fs, msgs)
  <2>1. msgs = ErrorMsg_ \o Clean(c) BY <1>2, <1>4 DEF OwnMsgs
  <2>2. /\ VFS_' = fs /\ CUIdx_' = i /\ LangOpts' = LangOpts /\ Fails(c)
        BY <1>4, <2>1 DEF CompileError, Fails
  <2> QED BY <1>0, <1>3, <2>2
<1>5. CASE AliasAssertFails(read) /\ AliasAssertion(i, fs)
  <2>1. /\ VFS_' = fs /\ CUIdx_' = i /\ status' = "assert"
        /\ UNCHANGED <<ErrorMsg_, CUs_, jitDefs, ret>>
        BY <1>5 DEF AliasAssertion
  <2>2. Asserts BY <2>1 DEF Asserts
  <2> QED BY <1>3, <2>1, <2>2
<1>6. CASE Prog[c].ok /\ CompileModule(c, read, i, fs, msgs, le)
  <2>1. /\ status' \in {"running", "fatal"}
        /\ FilesOwn(VFS_', CUIdx_')
        /\ status' = "fatal" \/ LangOpts' = UserLang
        BY <1>0, <1>2, <1>3, <1>6, ModuleGrows
  <2> DEFINE cu == [code |-> c, text |-> read, lang |-> LangOpts,
                    FuncTys_ |-> FuncTys(read, le), FuncAliases_ |-> FuncAliases(read)]
  <2>2. /\ jitDefs' = [s \in Sym |-> IF s \in DOMAIN Prog[c].defs THEN c ELSE jitDefs[s]]
        /\ ErrorMsg_' = msgs
        /\ Returns([kind |-> "cu"])
        /\ CUs_' = IF status' = "running" THEN Append(CUs_, cu) ELSE CUs_
        BY <1>3, <1>6 DEF CompileModule
  <2>3. cu.code = c /\ UnitOwn(cu)
        BY <1>0, <1>3 DEF UnitOwn
  <2>4. ret' = ret \/ ret'.kind = "cu" BY <2>2 DEF Returns
  <2> HIDE DEF cu
  <2>5. Links(c) BY <1>2, <1>6, <2>1, <2>2, <2>3, <2>4 DEF Links
  <2> QED BY <2>1, <2>5
<1> QED BY <1>2, <1>3, <1>4, <1>5, <1>6 DEF Ends

(* Units of a longer list.                                                 *)
LEMMA CUAppend ==
    ASSUME CUs_ \in Seq(Unit), NEW x, CUs_' = Append(CUs_, x)
    PROVE  \A cu \in CU' : cu \in CU \/ cu = x
<1>1. /\ Len(CUs_) \in Nat /\ DOMAIN CUs_ = 1..Len(CUs_)
      /\ DOMAIN Append(CUs_, x) = 1..(Len(CUs_) + 1)
      /\ Append(CUs_, x)[Len(CUs_) + 1] = x
      /\ \A j \in 1..Len(CUs_) : Append(CUs_, x)[j] = CUs_[j]
  <2> HIDE DEF Unit
  <2> QED OBVIOUS
<1>2. \A j \in 1..(Len(CUs_) + 1) : j \in 1..Len(CUs_) \/ j = Len(CUs_) + 1 BY <1>1
<1> QED BY <1>1, <1>2 DEF CU

LEMMA OwnStep ==
    ASSUME IInv, OwnInv, ~ReusesNames, [Next]_vars
    PROVE  OwnInv'
<1>0. CUs_ \in Seq(Unit) /\ WrappersOK BY DEF IInv, OthersTyped
<1>1. ASSUME NEW c \in Given, NEW le \in BOOLEAN, status = "running", Outcome(c, le)
      PROVE  OwnInv'
  <2>1. /\ FilesOwn(VFS_', CUIdx_')
        /\ status' = "running" => LangOpts' = UserLang
        /\ Fails(c) \/ Asserts \/ Links(c)
        BY <1>1, OwnOutcome
  <2>2. CUs_' = CUs_ \/ \E cu : UnitOwn(cu) /\ CUs_' = Append(CUs_, cu)
        BY <2>1 DEF Fails, Asserts, Links
  <2>3. CASE CUs_' = CUs_ BY <2>1, <2>3 DEF OwnInv, CU
  <2>4. ASSUME NEW x, UnitOwn(x), CUs_' = Append(CUs_, x) PROVE OwnInv'
    <3>1. \A cu \in CU' : UnitOwn(cu) BY <1>0, <2>4, CUAppend DEF OwnInv
    <3> QED BY <2>1, <3>1 DEF OwnInv
  <2> QED BY <2>2, <2>3, <2>4
<1>2. CASE Lookup BY <1>2 DEF Lookup, OwnInv, CU
<1> QED BY <1>1, <1>2, StepsSplit

LEMMA OwnInit == Init => OwnInv
BY DEF Init, OwnInv, FilesOwn, CU

(* The files, the options and the units, in every behaviour.               *)
LEMMA OwnAlways ==
    ASSUME ~ReusesNames PROVE Spec => [](IInv /\ OwnInv)
<1>1. Init => OwnInv BY OwnInit
<1>2. IInv /\ OwnInv /\ [Next]_vars => OwnInv' BY OwnStep
<1> QED BY <1>1, <1>2, EngineInvariant, PTL DEF Spec

(* A unit is made from the text the call was given, completed with that    *)
(* text's own declarations and compiled in the engine's language, if the   *)
(* host gives a name to one text only: InMemoryFileSystem::addFile never   *)
(* replaces a file, so a name used twice brings back the first text.       *)
THEOREM UnitsAreOwn ==
    ASSUME ~ReusesNames PROVE Spec => []UnitsFaithful
<1>1. OwnInv => UnitsFaithful BY DEF OwnInv, UnitsFaithful, UnitOwn
<1> QED BY <1>1, OwnAlways, PTL

-----------------------------------------------------------------------------
(* Texts that compile without a warning leave the diagnostics empty, so    *)
(* what a failed call hands out is its own.                                *)
NoWarnings == \A c \in Given : Prog[c].ok => ~Prog[c].warn

NoRest == ErrorMsg_ = <<>> /\ ErrorsAreOwn

LEMMA RestStep ==
    ASSUME IInv, OwnInv, NoRest, ~ReusesNames, NoWarnings, [Next]_vars
    PROVE  NoRest'
<1>1. ASSUME NEW c \in Given, NEW le \in BOOLEAN, status = "running", Outcome(c, le)
      PROVE  NoRest'
  <2>0. c \in Code BY EngineAssumption DEF Given
  <2>1. Fails(c) \/ Asserts \/ Links(c) BY <1>1, OwnOutcome
  <2>2. CASE Fails(c)
    <3>1. ErrorMsg_ \o Clean(c) = <<c>>
      <4>1. Clean(c) = <<c>> BY <2>2 DEF Fails, Clean
      <4>2. ErrorMsg_ = <<>> BY DEF NoRest
      <4> QED BY <2>0, <4>1, <4>2
    <3> QED BY <2>2, <3>1 DEF Fails, NoRest, ErrorsAreOwn
  <2>3. CASE Asserts BY <2>3 DEF Asserts, NoRest, ErrorsAreOwn
  <2>4. CASE Links(c)
    <3>1. ErrorMsg_' = <<>>
      <4>1. Clean(c) = <<>> BY <2>4 DEF Links, Clean, NoWarnings
      <4>2. ErrorMsg_ = <<>> BY DEF NoRest
      <4>3. <<>> \o <<>> = <<>> OBVIOUS
      <4> QED BY <2>4, <4>1, <4>2, <4>3 DEF Links, OwnMsgs
    <3> QED BY <2>4, <3>1 DEF Links, NoRest, ErrorsAreOwn
  <2> QED BY <2>1, <2>2, <2>3, <2>4
<1>2. CASE Lookup
      BY <1>2 DEF Lookup, NoRest, ErrorsAreOwn
<1> QED BY <1>1, <1>2, StepsSplit

(* The error of a failed compile or cdef is about its own text and nothing *)
(* else, for texts clang does not warn about: getCompileError empties the  *)
(* buffer on every path that writes to it.  (A warning of a text that      *)
(* compiles stays in the buffer, for the next error to show.)              *)
THEOREM ErrorsOwn ==
    ASSUME ~ReusesNames, NoWarnings PROVE Spec => []ErrorsAreOwn
<1>1. Init => NoRest BY DEF Init, NoRest, ErrorsAreOwn, Null
<1>2. IInv /\ OwnInv /\ NoRest /\ [Next]_vars => NoRest' BY RestStep
<1>3. NoRest => ErrorsAreOwn BY DEF NoRest
<1> QED BY <1>1, <1>2, <1>3, OwnAlways, PTL DEF Spec

-----------------------------------------------------------------------------
(* A function is defined in one text, and declared as it is defined.       *)
OneDefinition ==
    \A c, d \in Given :
        /\ \A s \in DOMAIN Prog[c].defs \cap DOMAIN Prog[d].defs : c = d
        /\ \A s \in DOMAIN Prog[c].decls \cap DOMAIN Prog[d].defs :
              Prog[c].decls[s] = Prog[d].defs[s]

(* What the JIT links a name to defines it, and all that units define is   *)
(* linked.                                                                 *)
Linked ==
    /\ \A s \in Sym : jitDefs[s] # NoCode =>
          jitDefs[s] \in Given /\ s \in DOMAIN Prog[jitDefs[s]].defs
    /\ \A cu \in CU : \A s \in DOMAIN Prog[cu.code].defs : jitDefs[s] # NoCode

LinkInv == Linked /\ CallsOwnDefinition

LEMMA LinkStep ==
    ASSUME IInv, OwnInv, LinkInv, ~ReusesNames, OneDefinition, [Next]_vars
    PROVE  LinkInv'
<1>0. /\ CUs_ \in Seq(Unit) /\ Linked /\ CallsOwnDefinition
      /\ jitDefs \in [Sym -> Code \cup {NoCode}]
      BY DEF IInv, OthersTyped, LinkInv
<1>1. ASSUME NEW c \in Given, NEW le \in BOOLEAN, status = "running", Outcome(c, le)
      PROVE  LinkInv'
  <2>0. c \in Code /\ c # NoCode BY EngineAssumption DEF Given
  <2>1. Fails(c) \/ Asserts \/ Links(c) BY <1>1, OwnOutcome
  <2>2. CASE Fails(c)
        BY <1>0, <2>2 DEF Fails, LinkInv, Linked, CU, CallsOwnDefinition
  <2>3. CASE Asserts
        BY <1>0, <2>3 DEF Asserts, LinkInv, Linked, CU, CallsOwnDefinition
  <2>4. CASE Links(c)
    <3>1. CallsOwnDefinition' BY <1>0, <2>4 DEF Links, CallsOwnDefinition
    <3>2. /\ \A s \in Sym : jitDefs'[s] = IF s \in DOMAIN Prog[c].defs THEN c ELSE jitDefs[s]
          /\ DOMAIN Prog[c].defs \subseteq Sym
          BY <2>0, <2>4, ProgTyped DEF Links
    <3>3. \A s \in Sym : jitDefs'[s] # NoCode =>
              jitDefs'[s] \in Given /\ s \in DOMAIN Prog[jitDefs'[s]].defs
          BY <1>0, <3>2 DEF Linked
    <3>4. \A cu \in CU' : cu \in CU \/ cu.code = c
          BY <1>0, <2>4, CUAppend DEF Links, CU
    <3>5. \A cu \in CU : DOMAIN Prog[cu.code].defs \subseteq Sym
          BY ProgTyped, EngineAssumption DEF OwnInv, UnitOwn, Given
    <3>6. \A cu \in CU' : \A s \in DOMAIN Prog[cu.code].defs : jitDefs'[s] # NoCode
          BY <1>0, <2>0, <3>2, <3>4, <3>5 DEF Linked
    <3> QED BY <3>1, <3>3, <3>6 DEF LinkInv, Linked
  <2> QED BY <2>1, <2>2, <2>3, <2>4
<1>2. CASE Lookup
  <2>1. Linked' BY <1>0, <1>2 DEF Lookup, Linked, CU
  <2>2. CASE ret' = ret \/ ret'.kind \in {"null", "llvm"}
        BY <1>0, <2>1, <2>2 DEF LinkInv, CallsOwnDefinition
  <2>3. ASSUME NEW cu \in CU, NEW s \in Sym, IsFunctionOf(ret', cu, s)
        PROVE  LinkInv'
    <3> DEFINE t == Resolve(cu, s)
               d == jitDefs[t]
    <3>1. /\ t \in DOMAIN cu.FuncTys_
          /\ ret'.base = cu.FuncTys_[t] /\ ret'.cu = cu.code
          /\ ret'.fptr = getFunctionAddress(t) /\ ret'.fptr # NoAddr
          BY <2>3 DEF IsFunctionOf, Callable, TypeIn
    <3>2. /\ UnitOwn(cu) /\ cu.code \in Code
          BY EngineAssumption DEF OwnInv, UnitOwn, Given
    <3>3. PICK le \in BOOLEAN : cu.FuncTys_ = FuncTys(cu.text, le) BY <3>2 DEF UnitOwn
    <3>4. \/ /\ t \in DOMAIN Prog[cu.code].decls
             /\ cu.FuncTys_[t].sig = Prog[cu.code].decls[t]
          \/ /\ t \in DOMAIN Prog[cu.code].defs
             /\ cu.FuncTys_[t].sig = Prog[cu.code].defs[t]
      <4> DEFINE text == cu.text
                 D    == DOMAIN Prog[text.code].defs \cup Declared(text)
      <4>1. text.code = cu.code /\ text.decls \in {NoCode, cu.code} BY <3>2 DEF UnitOwn
      <4> HIDE DEF t, text
      <4>2. t \in D /\ FuncTys(text, le)[t].sig =
               IF t \in Declared(text) THEN Prog[text.decls].decls[t] ELSE Prog[text.code].defs[t]
        <5>1. DOMAIN FuncTys(text, le) = D BY DEF FuncTys
        <5>2. t \in D BY <3>1, <3>3, <5>1 DEF text
        <5> QED BY <5>2 DEF FuncTys
      <4>3. t \in Declared(text) =>
               t \in DOMAIN Prog[cu.code].decls /\ Prog[text.decls].decls[t] = Prog[cu.code].decls[t]
            BY <4>1 DEF Declared
      <4>4. cu.FuncTys_[t].sig = FuncTys(text, le)[t].sig BY <3>3 DEF text
      <4> QED BY <4>1, <4>2, <4>3, <4>4
    <3>5. t \in Sym BY <3>2, <3>4, ProgTyped
    <3>6. ret'.fptr.sym = t /\ ret'.fptr.code = d
      <4> HIDE DEF t
      <4>1. ret'.fptr = [sym |-> t, code |-> d]
            BY <3>1 DEF getFunctionAddress
      <4> QED BY <4>1
    <3>7. d # NoCode => d \in Given /\ t \in DOMAIN Prog[d].defs BY <1>0, <3>5 DEF Linked
    <3>8. cu.code \in Given BY <3>2 DEF UnitOwn
    <3>9. d # NoCode => Prog[d].defs[t] = cu.FuncTys_[t].sig
          BY <3>4, <3>7, <3>8 DEF OneDefinition
    <3>10. t \in DOMAIN Prog[cu.code].defs => d = cu.code
          BY <1>0, <3>7, <3>8 DEF Linked, OneDefinition
    <3> HIDE DEF t, d
    <3> QED BY <2>1, <3>1, <3>6, <3>9, <3>10 DEF LinkInv, CallsOwnDefinition
  <2> QED BY <1>2, <2>2, <2>3 DEF Lookup
<1> QED BY <1>1, <1>2, StepsSplit

(* A function taken from a unit is code of the type it is called with, and *)
(* the unit's own definition if it has one, whichever units were linked    *)
(* before or since: the JIT has one namespace, so the texts must agree on  *)
(* the functions they share.                                               *)
THEOREM CallsOwn ==
    ASSUME ~ReusesNames, OneDefinition PROVE Spec => []CallsOwnDefinition
<1>1. Init => LinkInv BY DEF Init, LinkInv, Linked, CallsOwnDefinition, CU, Null
<1>2. IInv /\ OwnInv /\ LinkInv /\ [Next]_vars => LinkInv' BY LinkStep
<1>3. LinkInv => CallsOwnDefinition BY DEF LinkInv
<1> QED BY <1>1, <1>2, <1>3, OwnAlways, PTL DEF Spec

-----------------------------------------------------------------------------
(* A host that leaves its arrays alone.  The invariant: an entry of the    *)
(* variadic map is in the bucket of its list, its wrapper is compiled, no  *)
(* list has two entries with different numbers, and every wrapper has its  *)
(* number from one of the maps.                                            *)
FromTypes(w) ==
    w.args = <<>> /\ w.ty \in DOMAIN FuncTyWrappers_ /\ FuncTyWrappers_[w.ty] = w.id

FromEntry(w, entries) ==
    \E e \in entries : e.ty = w.ty /\ e.placed = w.args /\ e.id = w.id

VarArgsInv ==
    /\ \A e \in VarArgsFuncTyWrappers_ : e.placed = Contents(e.buf) /\ hasVarArgs(e.ty)
    /\ status = "running" =>
          \A e \in VarArgsFuncTyWrappers_ :
              [id |-> e.id, ty |-> e.ty, args |-> e.placed] \in jitWrappers
    /\ \A e, f \in VarArgsFuncTyWrappers_ : e.ty = f.ty /\ e.placed = f.placed => e.id = f.id
    /\ \A w \in jitWrappers :
          \/ FromTypes(w)
          \/ hasVarArgs(w.ty) /\ FromEntry(w, VarArgsFuncTyWrappers_)

(* Steps that leave the variadic map alone.                                *)
LEMMA GrowsKeeps ==
    ASSUME VarArgsInv, Grows, UNCHANGED <<VarArgsFuncTyWrappers_, mem>>,
           status' = "running" => status = "running"
    PROVE  VarArgsInv'
<1>1. \A b : Contents(b)' = Contents(b) BY DEF Contents
<1>2. \A e \in VarArgsFuncTyWrappers_' : e.placed = Contents(e.buf)' /\ hasVarArgs(e.ty)
      BY DEF VarArgsInv, Contents
<1>3. status' = "running" =>
          \A e \in VarArgsFuncTyWrappers_' :
              [id |-> e.id, ty |-> e.ty, args |-> e.placed] \in jitWrappers'
      BY DEF VarArgsInv, Grows
<1>4. \A w \in jitWrappers' :
          \/ FromTypes(w)'
          \/ hasVarArgs(w.ty) /\ FromEntry(w, VarArgsFuncTyWrappers_')
  <2> TAKE w \in jitWrappers'
  <2>1. CASE w \in jitWrappers BY <2>1 DEF VarArgsInv, Grows, FromTypes
  <2>2. CASE w \notin jitWrappers BY <2>2 DEF Grows, FromTypes
  <2> QED BY <2>1, <2>2
<1> QED BY <1>2, <1>3, <1>4 DEF VarArgsInv

(* Growing the map moves no entry.                                         *)
LEMMA InsertMovesNothing ==
    ASSUME OthersTyped, VarArgsInv, NEW FTy, NEW b, NEW id, InsertVarArgs(FTy, b, id)
    PROVE  VarArgsFuncTyWrappers_' = VarArgsFuncTyWrappers_ \cup
               {[ty |-> FTy, buf |-> b, placed |-> Contents(b), id |-> id]}
<1>1. PICK grows \in BOOLEAN :
        VarArgsFuncTyWrappers_' =
            {IF grows THEN [e EXCEPT !.placed = Contents(e.buf)] ELSE e :
                e \in VarArgsFuncTyWrappers_}
              \cup {[ty |-> FTy, buf |-> b, placed |-> Contents(b), id |-> id]}
      BY DEF InsertVarArgs
<1>2. \A e \in VarArgsFuncTyWrappers_ : [e EXCEPT !.placed = Contents(e.buf)] = e
  <2> TAKE e \in VarArgsFuncTyWrappers_
  <2>1. e \in Entry /\ e.placed = Contents(e.buf) BY DEF OthersTyped, VarArgsInv
  <2> QED BY <2>1 DEF Entry
<1>3. {IF grows THEN [e EXCEPT !.placed = Contents(e.buf)] ELSE e :
                e \in VarArgsFuncTyWrappers_} = VarArgsFuncTyWrappers_
      BY <1>2
<1> QED BY <1>1, <1>3

(* A new entry, for a list that has none.                                  *)
LEMMA NewEntryKeeps ==
    ASSUME OthersTyped, VarArgsInv, NEW FTy, hasVarArgs(FTy), NEW b, NEW id,
           SureHits(FTy, Contents(b)) = {}, InsertVarArgs(FTy, b, id), UNCHANGED mem,
           \A t \in DOMAIN FuncTyWrappers_ :
              t \in DOMAIN FuncTyWrappers_' /\ FuncTyWrappers_'[t] = FuncTyWrappers_[t],
           jitWrappers \subseteq jitWrappers',
           \A w \in jitWrappers' \ jitWrappers :
              FromTypes(w)' \/ w = [id |-> id, ty |-> FTy, args |-> Contents(b)],
           status' = "running" =>
              status = "running" /\ [id |-> id, ty |-> FTy, args |-> Contents(b)] \in jitWrappers'
    PROVE  VarArgsInv'
<1> DEFINE new == [ty |-> FTy, buf |-> b, placed |-> Contents(b), id |-> id]
<1>1. VarArgsFuncTyWrappers_' = VarArgsFuncTyWrappers_ \cup {new} BY InsertMovesNothing
<1>2. new.ty = FTy /\ new.buf = b /\ new.placed = Contents(b) /\ new.id = id OBVIOUS
<1> HIDE DEF new
<1>3. \A e \in VarArgsFuncTyWrappers_' : e.placed = Contents(e.buf)' /\ hasVarArgs(e.ty)
      BY <1>1, <1>2 DEF VarArgsInv, Contents
<1>4. status' = "running" =>
          \A e \in VarArgsFuncTyWrappers_' :
              [id |-> e.id, ty |-> e.ty, args |-> e.placed] \in jitWrappers'
      BY <1>1, <1>2 DEF VarArgsInv
<1>5. \A e \in VarArgsFuncTyWrappers_ : ~(e.ty = FTy /\ e.placed = Contents(b))
      BY DEF SureHits, VarArgsInv
<1>6. \A e, f \in VarArgsFuncTyWrappers_' : e.ty = f.ty /\ e.placed = f.placed => e.id = f.id
  <2>1. \A e, f \in VarArgsFuncTyWrappers_ : e.ty = f.ty /\ e.placed = f.placed => e.id = f.id
        BY DEF VarArgsInv
  <2> QED BY <1>1, <1>2, <1>5, <2>1
<1>7. \A w \in jitWrappers' :
          \/ FromTypes(w)'
          \/ hasVarArgs(w.ty) /\ FromEntry(w, VarArgsFuncTyWrappers_')
  <2> TAKE w \in jitWrappers'
  <2>1. CASE w \in jitWrappers
    <3>1. FromTypes(w) \/ (hasVarArgs(w.ty) /\ FromEntry(w, VarArgsFuncTyWrappers_))
          BY <2>1 DEF VarArgsInv
    <3> QED BY <1>1, <3>1 DEF FromTypes, FromEntry
  <2>2. CASE w = [id |-> id, ty |-> FTy, args |-> Contents(b)]
    <3>1. w.id = id /\ w.ty = FTy /\ w.args = Contents(b) BY <2>2
    <3> QED BY <1>1, <1>2, <3>1 DEF FromEntry
  <2> QED BY <2>1, <2>2
<1> QED BY <1>3, <1>4, <1>6, <1>7 DEF VarArgsInv

(* A result, and the maps, of each step.                                   *)
TrampolinesInv == VarArgsInv /\ TrampolineMatches

LEMMA FunctionTrampoline ==
    ASSUME IInv, IInv', TrampolinesInv, NEW cu \in CU, NEW s \in Sym, getFunction(cu, s)
    PROVE  TrampolinesInv'
<1>0. status = "running" /\ WrappersOK /\ VarArgsInv /\ TrampolineMatches
      BY DEF getFunction, IInv, TrampolinesInv
<1>1. CASE ReturnsNull
  <2>1. Grows /\ UNCHANGED <<VarArgsFuncTyWrappers_, mem, status>> /\ ret'.kind = "null"
        BY <1>1 DEF ReturnsNull, Grows, idVars, Null
  <2> QED BY <1>0, <2>1, GrowsKeeps DEF TrampolinesInv, TrampolineMatches
<1>2. CASE ~ReturnsNull
  <2> DEFINE FTy == TypeIn(cu, s)
             r   == NativeFunc(FuncTyWrappers_'[FTy],
                               getFunctionAddress(Resolve(cu, s)), FTy, FTy, <<>>, cu.code)
  <2>1. /\ Callable(cu, s)
        /\ getWrapperAddress(FTy, "running")
        /\ Returns(r)
        /\ UNCHANGED <<VarArgsFuncTyWrappers_, mem>>
        BY <1>2 DEF getFunction
  <2>2. FTy \in FunctionType BY <2>1, TypeInTyped DEF TypeIn, Callable, IInv
  <2>3. r.tramp = FuncTyWrappers_'[FTy] /\ r.base = FTy /\ r.args = <<>> BY DEF NativeFunc
  <2> HIDE DEF FTy, r
  <2>4. Grows /\ FTy \in DOMAIN FuncTyWrappers_'
        BY <1>0, <2>1, <2>2, AddressGrows
  <2>5. VarArgsInv' BY <1>0, <2>1, <2>4, GrowsKeeps
  <2>6. CASE status' = "running"
    <3>1. [id |-> FuncTyWrappers_'[FTy], ty |-> FTy, args |-> <<>>] \in jitWrappers'
          BY <2>4, <2>6 DEF IInv, WrappersOK, TypesHaveWrappers
    <3>2. ret' = r BY <2>1, <2>6 DEF Returns
    <3> QED BY <2>3, <2>5, <3>1, <3>2 DEF TrampolinesInv, TrampolineMatches
  <2>7. CASE status' # "running"
        BY <1>0, <2>1, <2>4, <2>5, <2>7 DEF Returns, Grows, TrampolinesInv, TrampolineMatches
  <2> QED BY <2>6, <2>7
<1> QED BY <1>1, <1>2

LEMMA VarArgsTrampoline ==
    ASSUME IInv, TrampolinesInv, NEW cu \in CU, NEW s \in Sym, NEW b \in Buf \cup {NoBuf},
           getFunctionVarArgs(cu, s, b)
    PROVE  TrampolinesInv'
<1> DEFINE FTy  == TypeIn(cu, s)
           FPtr == getFunctionAddress(Resolve(cu, s))
           args == Contents(b)
           r(n) == NativeFunc(n, FPtr, Specialised(FTy, args), FTy, args, cu.code)
           w(n) == [id |-> n, ty |-> FTy, args |-> args]
<1>0. /\ status = "running" /\ WrappersOK /\ OthersTyped /\ VarArgsInv /\ TrampolineMatches
      BY DEF getFunctionVarArgs, IInv, TrampolinesInv
<1>1. \/ ReturnsNull
      \/ FoundVarArgs(FTy, b, FPtr, cu.code)
      \/ Callable(cu, s) /\ hasVarArgs(FTy) /\ NewVarArgs(FTy, b, FPtr, cu.code)
      BY DEF getFunctionVarArgs
<1>2. \A n : r(n).tramp = n /\ r(n).base = FTy /\ r(n).args = args
      BY DEF NativeFunc
<1>3. CASE ReturnsNull
  <2>1. Grows /\ UNCHANGED <<VarArgsFuncTyWrappers_, mem, status>> /\ ret'.kind = "null"
        BY <1>3 DEF ReturnsNull, Grows, idVars, Null
  <2> QED BY <1>0, <2>1, GrowsKeeps DEF TrampolinesInv, TrampolineMatches
<1>4. CASE FoundVarArgs(FTy, b, FPtr, cu.code)
  <2>1. PICK e \in PossibleHits(FTy, args) : ret' = r(e.id)
        BY <1>4 DEF FoundVarArgs
  <2>2. /\ Grows /\ UNCHANGED <<VarArgsFuncTyWrappers_, mem, status, jitWrappers>>
        BY <1>4 DEF FoundVarArgs, Grows, idVars
  <2>3. e \in VarArgsFuncTyWrappers_ /\ e.ty = FTy /\ e.placed = args
        BY <1>0 DEF PossibleHits, VarArgsInv
  <2>4. w(e.id) \in jitWrappers BY <1>0, <2>3 DEF VarArgsInv
  <2>5. VarArgsInv' BY <1>0, <2>2, GrowsKeeps
  <2> HIDE DEF r, FTy, args
  <2> QED BY <1>2, <2>1, <2>2, <2>4, <2>5 DEF TrampolinesInv, TrampolineMatches
<1>5. CASE Callable(cu, s) /\ hasVarArgs(FTy) /\ NewVarArgs(FTy, b, FPtr, cu.code)
  <2> DEFINE ws == {w(WrapperIdx_)}
  <2>1. FTy \in FunctionType BY <1>0, <1>5, TypeInTyped DEF TypeIn, Callable
  <2>2. /\ SureHits(FTy, args) = {}
        /\ InsertVarArgs(FTy, b, WrapperIdx_)
        /\ compileWrappers(ws, CUIdx_, VFS_, "running")
        /\ Returns(r(WrapperIdx_))
        /\ UNCHANGED <<FuncTyWrappers_, mem>>
        BY <1>5 DEF NewVarArgs
  <2>3. WrapperIdx_ \in Nat /\ CUIdx_ \in Nat /\ FilesOK(VFS_, CUIdx_) BY <1>0 DEF WrappersOK
  <2>4. ws \in SUBSET WrapperDef BY <1>0, <2>1, <2>3, ContentsTyped DEF WrapperDef
  <2>5. \/ jitWrappers' = jitWrappers \cup ws /\ status' = "running"
        \/ jitWrappers' = jitWrappers /\ status' = "fatal"
    <3> HIDE DEF ws
    <3> QED BY <2>2, <2>3, <2>4, WrappersCompiled
  <2> HIDE DEF r, FTy, FPtr
  <2>6. VarArgsInv'
    <3>1. \A x \in jitWrappers' \ jitWrappers : x = w(WrapperIdx_) BY <2>5
    <3>2. jitWrappers \subseteq jitWrappers' BY <2>5
    <3>3. status' = "running" => w(WrapperIdx_) \in jitWrappers' BY <2>5
    <3> HIDE DEF ws
    <3> QED BY <1>0, <1>5, <2>2, <3>1, <3>2, <3>3, NewEntryKeeps
  <2>7. CASE status' = "running"
    <3>1. ret' = r(WrapperIdx_) BY <2>2, <2>7 DEF Returns
    <3>2. w(WrapperIdx_) \in jitWrappers' BY <2>5, <2>7
    <3> QED BY <1>2, <2>6, <3>1, <3>2 DEF TrampolinesInv, TrampolineMatches
  <2>8. CASE status' # "running"
    <3>1. ret' = ret /\ jitWrappers' = jitWrappers BY <2>2, <2>5, <2>8 DEF Returns
    <3> QED BY <1>0, <2>6, <3>1 DEF TrampolinesInv, TrampolineMatches
  <2> QED BY <2>7, <2>8
<1> QED BY <1>1, <1>3, <1>4, <1>5

LEMMA LLVMTrampoline ==
    ASSUME IInv, TrampolinesInv, NEW FTy \in FunctionType, getWrapperLLVM(FTy)
    PROVE  TrampolinesInv'
<1>0. /\ status = "running" /\ WrappersOK /\ OthersTyped /\ VarArgsInv /\ TrampolineMatches
      /\ UNCHANGED mem
      BY DEF getWrapperLLVM, IInv, TrampolinesInv
<1>1. PICK after \in {"running", "assert"} :
        /\ getWrapperAddress(FTy, after)
        /\ ret' = ret \/ ret'.kind = "llvm"
        /\ \/ UNCHANGED VarArgsFuncTyWrappers_
           \/ /\ after = "assert" /\ hasVarArgs(FTy) /\ SureHits(FTy, <<>>) = {}
              /\ InsertVarArgs(FTy, NoBuf, WrapperIdxAfter(FTy))
      BY DEF getWrapperLLVM, Returns
<1>2. Grows /\ status' \in {after, "fatal"} BY <1>0, <1>1, AddressGrows
<1>3. VarArgsInv'
  <2>1. CASE UNCHANGED VarArgsFuncTyWrappers_ BY <1>0, <1>2, <2>1, GrowsKeeps
  <2>2. CASE /\ after = "assert" /\ hasVarArgs(FTy) /\ SureHits(FTy, <<>>) = {}
             /\ InsertVarArgs(FTy, NoBuf, WrapperIdxAfter(FTy))
    <3>1. status' # "running" BY <1>2, <2>2
    <3>2. Contents(NoBuf) = <<>> BY DEF Contents
    <3>3. \A w \in jitWrappers' \ jitWrappers : FromTypes(w)' BY <1>2 DEF Grows, FromTypes
    <3>4. jitWrappers \subseteq jitWrappers' BY <1>2 DEF Grows
    <3>5. \A t \in DOMAIN FuncTyWrappers_ :
              t \in DOMAIN FuncTyWrappers_' /\ FuncTyWrappers_'[t] = FuncTyWrappers_[t]
          BY <1>2 DEF Grows
    <3> QED BY <1>0, <2>2, <3>1, <3>2, <3>3, <3>4, <3>5, NewEntryKeeps
  <2> QED BY <1>1, <2>1, <2>2
<1>4. TrampolineMatches' BY <1>0, <1>1, <1>2 DEF Grows, TrampolineMatches
<1> QED BY <1>3, <1>4 DEF TrampolinesInv

LEMMA CompileTrampoline ==
    ASSUME IInv, TrampolinesInv, status = "running", NEW c, NEW le \in BOOLEAN, Outcome(c, le)
    PROVE  TrampolinesInv'
<1>0. WrappersOK /\ VarArgsInv /\ TrampolineMatches BY DEF IInv, TrampolinesInv
<1>1. PICK i \in Nat : \E fs, read, msgs :
        /\ FilesOK(fs, i) /\ read \in Text /\ read.code \in Code
        /\ Ends(c, le, i, fs, read, msgs)
      BY DEF Outcome
<1>2. PICK fs, read, msgs :
        /\ FilesOK(fs, i) /\ read \in Text /\ read.code \in Code
        /\ Ends(c, le, i, fs, read, msgs)
      BY <1>1
<1>3. \/ CompileError(c, i, fs, msgs) \/ AliasAssertion(i, fs)
      \/ CompileModule(c, read, i, fs, msgs, le)
      BY <1>2 DEF Ends
<1>4. Grows /\ UNCHANGED <<VarArgsFuncTyWrappers_, mem>>
  <2>1. CASE CompileError(c, i, fs, msgs) BY <2>1 DEF CompileError, Grows, idVars
  <2>2. CASE AliasAssertion(i, fs) BY <2>2 DEF AliasAssertion, Grows, idVars
  <2>3. CASE CompileModule(c, read, i, fs, msgs, le)
    <3>1. Grows BY <1>0, <1>2, <2>3, ModuleGrows
    <3> QED BY <2>3, <3>1 DEF CompileModule
  <2> QED BY <1>3, <2>1, <2>2, <2>3
<1>5. ret' = ret \/ ret'.kind \in {"error", "cu"}
      BY <1>3 DEF CompileError, AliasAssertion, CompileModule, Returns
<1>6. VarArgsInv' BY <1>0, <1>4, GrowsKeeps
<1>7. TrampolineMatches' BY <1>0, <1>4, <1>5 DEF Grows, TrampolineMatches
<1> QED BY <1>6, <1>7 DEF TrampolinesInv

LEMMA TrampolineStep ==
    ASSUME IInv, IInv', TrampolinesInv, ~ReusesBufs, [Next]_vars
    PROVE  TrampolinesInv'
<1>0. WrappersOK /\ OthersTyped BY DEF IInv
<1>1. ASSUME NEW c \in CompileCode, NEW le \in LastErrorOpts, compile(c, le)
      PROVE  TrampolinesInv'
  <2>1. le \in BOOLEAN BY EngineAssumption
  <2>2. status = "running" BY <1>1 DEF compile
  <2> QED BY <1>0, <1>1, <2>1, <2>2, CompileOutcome, CompileTrampoline
<1>2. ASSUME NEW c \in CdefCode, NEW le \in LastErrorOpts,
             cdefAnonymous(c, le) \/ \E u \in UserName : cdefNamed(c, u, le)
      PROVE  TrampolinesInv'
  <2>1. le \in BOOLEAN BY EngineAssumption
  <2>2. status = "running" BY <1>2 DEF cdefAnonymous, cdefNamed
  <2> QED BY <1>0, <1>2, <2>1, <2>2, CdefOutcome, CompileTrampoline
<1>3. ASSUME NEW cu \in CU, NEW s \in Sym, getFunction(cu, s) PROVE TrampolinesInv'
      BY <1>3, FunctionTrampoline
<1>4. ASSUME NEW cu \in CU, NEW s \in Sym, NEW b \in Buf \cup {NoBuf},
             getFunctionVarArgs(cu, s, b)
      PROVE  TrampolinesInv'
      BY <1>4, VarArgsTrampoline
<1>5. ASSUME NEW cu \in CU, NEW s \in DOMAIN cu.FuncTys_, getWrapperLLVM(cu.FuncTys_[s])
      PROVE  TrampolinesInv'
  <2>1. cu.FuncTys_[s] \in FunctionType BY <1>0, TypeInTyped
  <2> QED BY <1>5, <2>1, LLVMTrampoline
<1>6. ASSUME NEW b \in Buf, NEW t \in ArgTy PROVE ~HostWrites(b, t)
      BY DEF HostWrites
<1>7. CASE UNCHANGED vars
  <2>1. Grows /\ UNCHANGED <<VarArgsFuncTyWrappers_, mem, status, ret, jitWrappers>>
        BY <1>7 DEF vars, Grows
  <2> QED BY <2>1, GrowsKeeps DEF TrampolinesInv, TrampolineMatches
<1> QED BY <1>1, <1>2, <1>3, <1>4, <1>5, <1>6, <1>7 DEF Next

LEMMA TrampolinesAlways ==
    ASSUME ~ReusesBufs PROVE Spec => []TrampolinesInv
<1>1. Init => TrampolinesInv
      BY DEF Init, TrampolinesInv, VarArgsInv, TrampolineMatches, Null
<1>2. IInv /\ IInv' /\ TrampolinesInv /\ [Next]_vars => TrampolinesInv' BY TrampolineStep
<1> QED BY <1>1, <1>2, EngineInvariant, PTL DEF Spec

(* A NativeFunc goes through a wrapper made for the type and the list it   *)
(* was asked for, if the host leaves the arrays of its calls alone: the    *)
(* variadic map keeps the arrays' addresses and not their contents.        *)
THEOREM TrampolinesMatch ==
    ASSUME ~ReusesBufs PROVE Spec => []TrampolineMatches
<1>1. TrampolinesInv => TrampolineMatches BY DEF TrampolinesInv
<1> QED BY <1>1, TrampolinesAlways, PTL

(* Such a host gets one wrapper per type and list, in whichever array it   *)
(* passes the list.                                                        *)
THEOREM WrappersCompiledOnce ==
    ASSUME ~ReusesBufs PROVE Spec => []CompiledOnce
<1>1. ASSUME VarArgsInv, NEW v \in jitWrappers, NEW w \in jitWrappers,
             v.ty = w.ty, v.args = w.args, v.args # <<>> \/ ~hasVarArgs(v.ty)
      PROVE  v.id = w.id
  <2>1. CASE v.args # <<>>
    <3>1. FromEntry(v, VarArgsFuncTyWrappers_) /\ FromEntry(w, VarArgsFuncTyWrappers_)
          BY <1>1, <2>1 DEF VarArgsInv, FromTypes
    <3>2. PICK e \in VarArgsFuncTyWrappers_ : e.ty = v.ty /\ e.placed = v.args /\ e.id = v.id
          BY <3>1 DEF FromEntry
    <3>3. PICK f \in VarArgsFuncTyWrappers_ : f.ty = w.ty /\ f.placed = w.args /\ f.id = w.id
          BY <3>1 DEF FromEntry
    <3> QED BY <1>1, <3>2, <3>3 DEF VarArgsInv
  <2>2. CASE ~hasVarArgs(v.ty)
        BY <1>1, <2>2 DEF VarArgsInv, FromTypes
  <2> QED BY <1>1, <2>1, <2>2
<1>2. TrampolinesInv => CompiledOnce BY <1>1 DEF TrampolinesInv, CompiledOnce
<1> QED BY <1>2, TrampolinesAlways, PTL
=============================================================================
