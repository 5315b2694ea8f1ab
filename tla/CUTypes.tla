------------------------------ MODULE CUTypes -------------------------------
(***************************************************************************)
(* How a compilation unit gets its structure, union and enumeration types  *)
(* (CUImpl in lib/dffi_impl.cpp, lib/anon_member_inliner.cpp): compile     *)
(* reads them from the debug information of the module clang produced, in  *)
(* passes that build on each other.  Every composite type is first         *)
(* declared as an opaque one, then given its fields, then the members of   *)
(* its anonymous members become its own, and last typedefs are registered. *)
(* One step is one iteration of a pass.  The order of the debug            *)
(* information and of the iterations over hash maps is arbitrary.          *)
(*                                                                         *)
(* Sizes and the values of enumerators are left out.                       *)
(***************************************************************************)
EXTENDS Naturals, SequencesExt

CONSTANTS
    DIType,     \* nodes of the debug information
    DI,         \* DIType -> what a node holds:
                \*   tag   : its DWARF tag
                \*   name  : "" if it has none
                \*   base  : the type it derives from, the elements of an array
                \*   elems : members, a sequence of [name, base, off], off in bits
                \*   sig   : of a function: result and parameters
                \*   count : of an array, 0 if it is not a constant
                \*   fwd   : is it only declared?
                \*   cxx   : has it an identifier, as C++ types have?
                \*   packed, aligned : are its members packed, and what
                \*           alignment is asked for with an attribute on it or
                \*           on a member, 1 if none is; compile reads neither
    NoNode,     \* the null node: void, and "..." at the end of parameters
    Roots,      \* what the functions and variables of the module refer to
    Reserved,   \* names that start with __dffi
    BasicAlign, \* basic type -> alignment, 0 for a size the library does not
                \* know; types of an encoding it does not know are not in it
    PtrAlign, IntAlign  \* alignments of pointers and of int

CompositeTags == {"structure_type", "union_type", "enumeration_type"}

ASSUME DebugInfoAssumption ==
    /\ IsFiniteSet(DIType) /\ NoNode \notin DIType /\ Roots \subseteq DIType
    /\ \A d \in DIType :
         /\ DI[d].name \in STRING /\ DI[d].base \in DIType \cup {NoNode}
         /\ DI[d].elems \in Seq([name : STRING, base : DIType \cup {NoNode}, off : Nat])
         /\ DI[d].sig \in Seq(DIType \cup {NoNode})
         /\ DI[d].tag = "subroutine_type" => DI[d].sig # <<>>
         /\ DI[d].packed \in BOOLEAN /\ DI[d].aligned \in Nat \ {0}
    /\ BasicAlign \in [DOMAIN BasicAlign -> Nat]
    /\ PtrAlign \in Nat \ {0} /\ IntAlign \in Nat \ {0}

VARIABLES
    work,          \* DebugInfoFinder: nodes still to look at, next one first
    types,         \* DebugInfoFinder: types(), in the order they were found
    nDeclared,     \* how many of them the first pass has gone through
    Composites,    \* composite types met by it
    Typedefs,      \* typedefs met by it
    nParsed,       \* how many Composites the second pass has gone through
    CompositeTys_, \* key -> the type object
    AnonTys_,      \* node without name -> key
    iterated,      \* keys the inliner's loop has gone through
    Visited,       \* types the inliner has entered
    frames,        \* its recursion: the types entered and not left, innermost
                   \* first, and the inner types each has still to go through
    nAliased,      \* how many Typedefs have been registered
    AliasTys_,     \* typedef name -> type
    done,          \* has compile returned?
    status         \* "running", or how the process died

findVars   == <<work, types>>
mapVars    == <<CompositeTys_, AnonTys_>>
inlineVars == <<iterated, Visited, frames>>
aliasVars  == <<nAliased, AliasTys_>>
vars == <<work, types, nDeclared, Composites, Typedefs, nParsed, CompositeTys_,
          AnonTys_, iterated, Visited, frames, nAliased, AliasTys_, done, status>>
-----------------------------------------------------------------------------
(***************************************************************************)
(* Names.  The library makes up names for what has none; a pair keeps them *)
(* apart from the program's (compile refuses the reserved prefix).         *)
(***************************************************************************)
Key(name)     == <<name, 0>>
AnonKey(n)    == <<"__dffi_anon_struct_", n>>
AnonField(n)  == <<"__dffi_anon_", n>>
anonymous(fname) == fname[1] = "__dffi_anon_"

(***************************************************************************)
(* Types are written as words in prefix notation; a composite type is a    *)
(* reference to an entry of CompositeTys_.                                 *)
(***************************************************************************)
Const == <<"const", "", 0>>
Pointer == <<"pointer", "", 0>>
ArrayOf(n) == <<"array", "", n>>
Basic(name) == <<"basic", name, 0>>
Composite(key) == <<"composite", key[1], key[2]>>
Null == <<"null", "", 0>>
Unknown == <<"unknown", "", 0>>  \* report_fatal_error: unknown or unsupported type

isConst(t) == t[1] = Const
WithConst(t) == IF isConst(t) THEN t ELSE <<Const>> \o t
getType_(t) == IF isConst(t) THEN Tail(t) ELSE t
Fatal(t) == \E i \in DOMAIN t : t[i] = Unknown

CompositeOf(t) == <<t[1][2], t[1][3]>>
IsRecord(t) ==
    /\ t[1][1] = "composite"
    /\ CompositeTys_[CompositeOf(t)].kind # "enumeration_type"

(* A function type; an ellipsis is a null type after at least one          *)
(* parameter.                                                              *)
FunctionType(ret, params) ==
    LET n == Len(params)
        va == n > 1 /\ params[n] = <<Null>>
    IN <<<<"function", IF va THEN "..." ELSE "", n>>>> \o ret
          \o FlattenSeq(IF va THEN SubSeq(params, 1, n - 1) ELSE params)

(* What typedefs, volatile and restrict stand for is the type itself.      *)
SameTags == {"typedef", "volatile_type", "restrict_type"}
DerivedTags == SameTags \cup {"const_type", "pointer_type", "array_type", "subroutine_type"}

(* The type of a node that derives from no other.                          *)
Letter(d) ==
    LET n == DI[d] IN
    IF n.tag = "base_type" /\ n.name \in DOMAIN BasicAlign
    THEN IF BasicAlign[n.name] = 0 THEN Unknown ELSE Basic(n.name)
    ELSE IF n.tag \in {"base_type", "reference_type"} \/ (n.tag \in CompositeTags /\ n.cxx)
    THEN Null
    ELSE IF n.tag \in CompositeTags /\ n.name = "" /\ d \in DOMAIN AnonTys_
    THEN Composite(AnonTys_[d])
    ELSE IF n.tag \in CompositeTags /\ n.name # "" /\ Key(n.name) \in DOMAIN CompositeTys_
    THEN Composite(Key(n.name))
    ELSE Unknown

(* getQualTypeFromDIType: the word of node d, given those of the nodes it  *)
(* derives from.                                                           *)
getQualTypeFromDIType(Q, d) ==
    IF d = NoNode THEN <<Null>>
    ELSE IF DI[d].tag \notin DerivedTags THEN <<Letter(d)>>
    ELSE LET n == DI[d] IN
      CASE n.tag \in SameTags -> Q[n.base]
        [] n.tag = "const_type" -> WithConst(Q[n.base])
        [] n.tag = "pointer_type" -> <<Pointer>> \o Q[n.base]
        [] n.tag = "array_type" ->
             <<IF n.count = 0 THEN Pointer ELSE ArrayOf(n.count)>> \o Q[n.base]
        [] n.tag = "subroutine_type" ->
             FunctionType(Q[n.sig[1]], [i \in 1 .. Len(n.sig) - 1 |-> Q[n.sig[i + 1]]])

QualTypes ==
    LET Q[d \in DIType \cup {NoNode}] == getQualTypeFromDIType(Q, d) IN Q

getTypeFromDIType(d) == getType_(QualTypes[d])

(* Mutant: an array is aligned like a pointer.                             *)
MutgetAlign(t) ==
    CASE t[1][1] = "basic" -> BasicAlign[t[1][2]]
      [] t[1][1] \in {"pointer", "array"} -> PtrAlign
      [] t[1][1] = "composite" ->
           IF IsRecord(t) THEN CompositeTys_[CompositeOf(t)].Align_ ELSE IntAlign
      [] OTHER -> 1

(* Type::getAlign.  An opaque structure or union has alignment 0; array    *)
(* types keep the default, 1.                                              *)
getAlign(t) ==
    CASE t[1][1] = "basic" -> BasicAlign[t[1][2]]
      [] t[1][1] = "pointer" -> PtrAlign
      [] t[1][1] = "composite" ->
           IF IsRecord(t) THEN CompositeTys_[CompositeOf(t)].Align_ ELSE IntAlign
      [] t[1][1] \notin {"basic", "pointer", "composite"} -> 1
-----------------------------------------------------------------------------
(***************************************************************************)
(* External: llvm::DebugInfoFinder lists every type reachable from the     *)
(* module, a type before those it refers to.                               *)
(***************************************************************************)
Successors(d) ==
    IF DI[d].tag = "subroutine_type" THEN DI[d].sig
    ELSE <<DI[d].base>> \o [i \in DOMAIN DI[d].elems |-> DI[d].elems[i].base]

processType ==
    /\ work # <<>>
    /\ LET d == Head(work) IN
       IF d = NoNode \/ \E i \in DOMAIN types : types[i] = d
       THEN work' = Tail(work) /\ UNCHANGED types
       ELSE /\ types' = Append(types, d)
            /\ work' = Successors(d) \o Tail(work)
    /\ UNCHANGED <<nDeclared, Composites, Typedefs, nParsed, mapVars, inlineVars,
                   aliasVars, done, status>>

Found == work = <<>>
-----------------------------------------------------------------------------
(* First pass: declare composite types, collect them and the typedefs.     *)
Opaque(tag) == [kind |-> tag, opaque |-> TRUE, Fields_ |-> <<>>, FieldsMap_ |-> <<>>,
                Align_ |-> 0]

(* StringMap::try_emplace: what is there stays.                            *)
try_emplace(map, k, v) == [x \in DOMAIN map \cup {k} |-> IF x \in DOMAIN map THEN map[x] ELSE v]

(* Mutant: the number of an anonymous type is computed a second time, once *)
(* the type has been counted.                                              *)
MutdeclareDIComposite(d) ==
    /\ UNCHANGED status
    /\ LET n == Cardinality(DOMAIN AnonTys_) + 1 IN
       IF DI[d].name # ""
       THEN /\ CompositeTys_' = try_emplace(CompositeTys_, Key(DI[d].name), Opaque(DI[d].tag))
            /\ UNCHANGED AnonTys_
       ELSE /\ CompositeTys_' = try_emplace(CompositeTys_, AnonKey(n), Opaque(DI[d].tag))
            /\ AnonTys_' = try_emplace(AnonTys_, d, AnonKey(n + 1))

declareDIComposite(d) ==
    CASE DI[d].name # "" /\ DI[d].name \in Reserved ->
           status' = "fatal error" /\ UNCHANGED mapVars
      [] DI[d].name # "" /\ DI[d].name \notin Reserved ->
           /\ CompositeTys_' = try_emplace(CompositeTys_, Key(DI[d].name), Opaque(DI[d].tag))
           /\ UNCHANGED <<AnonTys_, status>>
      [] DI[d].name = "" /\ d \in DOMAIN AnonTys_ -> UNCHANGED <<mapVars, status>>
      [] DI[d].name = "" /\ d \notin DOMAIN AnonTys_ ->
           LET k == AnonKey(Cardinality(DOMAIN AnonTys_) + 1) IN
           /\ CompositeTys_' = try_emplace(CompositeTys_, k, Opaque(DI[d].tag))
           /\ AnonTys_' = try_emplace(AnonTys_, d, k)
           /\ UNCHANGED status

(* Mutant: enumerations are not among the composite types.                 *)
MutCollected(d) == DI[d].tag \in {"structure_type", "union_type"}

(* What the first pass declares.                                           *)
Collected(d) == DI[d].tag \in CompositeTags

Declare ==
    /\ Found /\ nDeclared < Len(types)
    /\ nDeclared' = nDeclared + 1
    /\ LET d == types[nDeclared + 1] IN
       \/ /\ Collected(d)
          /\ Composites' = Append(Composites, d)
          /\ declareDIComposite(d)
          /\ UNCHANGED Typedefs
       \/ /\ DI[d].tag = "typedef"
          /\ Typedefs' = Append(Typedefs, d)
          /\ UNCHANGED <<Composites, mapVars, status>>
       \/ /\ ~Collected(d) /\ DI[d].tag # "typedef"
          /\ UNCHANGED <<Composites, Typedefs, mapVars, status>>
    /\ UNCHANGED <<findVars, nParsed, inlineVars, aliasVars, done>>

Declared == Found /\ nDeclared = Len(types)
-----------------------------------------------------------------------------
(* Second pass: define the ones whose fields are known.                    *)
KeyOf(d) == IF DI[d].name # "" THEN Key(DI[d].name) ELSE AnonTys_[d]

(* Fields in order; the ones without a name are numbered.                  *)
FieldsOf(d) ==
    LET es == DI[d].elems
        AnonIdx(i) == Cardinality({j \in 1 .. i - 1 : es[j].name = ""})
    IN [i \in DOMAIN es |->
          [name |-> IF es[i].name = "" THEN AnonField(AnonIdx(i)) ELSE Key(es[i].name),
           ty   |-> getTypeFromDIType(es[i].base),
           off  |-> es[i].off \div 8]]

(* setBody: the fields, and the map that looks them up by name.            *)
setBody(CTy, fields) ==
    [CTy EXCEPT !.opaque = FALSE,
                !.Fields_ = fields,
                !.FieldsMap_ = [n \in {fields[i].name : i \in DOMAIN fields} |->
                                  CHOOSE f \in {fields[i] : i \in DOMAIN fields} : f.name = n],
                !.Align_ = Max({1} \cup {getAlign(fields[i].ty) : i \in DOMAIN fields})]

(* Mutant: a type that is defined already is defined again.                *)
MutSkipped(d) == DI[d].cxx \/ DI[d].fwd

(* parseDIComposite returns early: C++ types, declarations, and types that *)
(* have their fields.                                                      *)
Skipped(d) == DI[d].cxx \/ DI[d].fwd \/ ~CompositeTys_[KeyOf(d)].opaque

IsEnum(kind) == kind = "enumeration_type"

(* How the handling of the fields ends: a field whose type is null (a C++  *)
(* type) is dereferenced; elements of the wrong class fail a cast.         *)
ParseStatus(d) ==
    IF IsEnum(DI[d].tag) # IsEnum(CompositeTys_[KeyOf(d)].kind) THEN "bad cast"
    ELSE IF IsEnum(DI[d].tag) THEN "running"
    ELSE LET fields == FieldsOf(d) IN
         IF \E i \in DOMAIN fields : Fatal(fields[i].ty) THEN "fatal error"
         ELSE IF \E i \in DOMAIN fields : fields[i].ty = <<Null>> THEN "null type"
         ELSE "running"

parseDIComposite ==
    /\ Declared /\ nParsed < Len(Composites)
    /\ nParsed' = nParsed + 1
    /\ LET d == Composites[nParsed + 1] IN
       \/ Skipped(d) /\ UNCHANGED <<CompositeTys_, status>>
       \/ /\ ~Skipped(d)
          /\ status' = ParseStatus(d)
          /\ CompositeTys_' =
               IF status' # "running" THEN CompositeTys_
               ELSE [CompositeTys_ EXCEPT ![KeyOf(d)] =
                       IF IsEnum(DI[d].tag) THEN [@ EXCEPT !.opaque = FALSE]
                                            ELSE setBody(@, FieldsOf(d))]
    /\ UNCHANGED <<findVars, nDeclared, Composites, Typedefs, AnonTys_, inlineVars,
                   aliasVars, done>>

Parsed == Declared /\ nParsed = Len(Composites)
-----------------------------------------------------------------------------
(* Third pass: members of anonymous members become members of the type     *)
(* itself, innermost types first.                                          *)
AnonMembers(k) ==
    {n \in DOMAIN CompositeTys_[k].FieldsMap_ :
        anonymous(n) /\ IsRecord(CompositeTys_[k].FieldsMap_[n].ty)}

InnerTypes(k) == {CompositeOf(CompositeTys_[k].FieldsMap_[n].ty) : n \in AnonMembers(k)}

(* Mutant: the offset of the anonymous member is forgotten.                *)
MutShifted(f, off) == f

(* A member of an anonymous member at offset off.                          *)
Shifted(f, off) == [f EXCEPT !.off = off + @]

(* C gives two members of a type, inlined ones included, different names.  *)
inlineAnonymousMembers(k) ==
    LET map == CompositeTys_[k].FieldsMap_
        InnerMap(n) == CompositeTys_[CompositeOf(map[n].ty)].FieldsMap_
        inlined == UNION {{Shifted(InnerMap(n)[m], map[n].off) : m \in DOMAIN InnerMap(n)} :
                            n \in AnonMembers(k)}
        left == DOMAIN map \ AnonMembers(k)
        added == {f.name : f \in inlined}
    IN [m \in left \cup added |-> IF m \in added THEN CHOOSE f \in inlined : f.name = m
                                                  ELSE map[m]]

Frame(k) == [ty |-> k, todo |-> InnerTypes(k)]

(* inlineCompositesAnonymousMembers, one iteration: enter a type.          *)
InlineNext ==
    /\ Parsed /\ frames = <<>>
    /\ \E k \in DOMAIN CompositeTys_ \ iterated :
         /\ iterated' = iterated \cup {k}
         /\ IF CompositeTys_[k].kind = "enumeration_type" \/ k \in Visited
            THEN UNCHANGED <<Visited, frames>>
            ELSE Visited' = Visited \cup {k} /\ frames' = <<Frame(k)>>
    /\ UNCHANGED <<findVars, nDeclared, Composites, Typedefs, nParsed, mapVars,
                   aliasVars, done, status>>

(* Mutant: an inner type that was visited is not passed over.              *)
MutInlineInner ==
    /\ frames # <<>>
    /\ \E k \in frames[1].todo :
         IF k \in Visited THEN UNCHANGED <<frames, Visited>>
         ELSE /\ frames' = <<Frame(k)>> \o [frames EXCEPT ![1].todo = @ \ {k}]
              /\ Visited' = Visited \cup {k}
    /\ UNCHANGED <<findVars, nDeclared, Composites, Typedefs, nParsed, mapVars, iterated,
                   aliasVars, done, status>>

(* inlineCompositesAnonymousMembersImpl: go through an inner type.         *)
InlineInner ==
    /\ frames # <<>>
    /\ \E k \in frames[1].todo :
         LET rest == [frames EXCEPT ![1].todo = @ \ {k}] IN
         IF k \in Visited THEN frames' = rest /\ UNCHANGED Visited
                          ELSE frames' = <<Frame(k)>> \o rest /\ Visited' = Visited \cup {k}
    /\ UNCHANGED <<findVars, nDeclared, Composites, Typedefs, nParsed, mapVars, iterated,
                   aliasVars, done, status>>

(* inlineCompositesAnonymousMembersImpl: all inner types are done.         *)
InlineType ==
    /\ frames # <<>> /\ frames[1].todo = {}
    /\ LET k == frames[1].ty IN
       CompositeTys_' = [CompositeTys_ EXCEPT ![k].FieldsMap_ = inlineAnonymousMembers(k)]
    /\ frames' = Tail(frames)
    /\ UNCHANGED <<findVars, nDeclared, Composites, Typedefs, nParsed, AnonTys_, iterated,
                   Visited, aliasVars, done, status>>

Inlined == Parsed /\ frames = <<>> /\ iterated = DOMAIN CompositeTys_
-----------------------------------------------------------------------------
(* Last, typedefs: the first one of a name stays.                          *)
setAlias ==
    /\ Inlined /\ nAliased < Len(Typedefs)
    /\ nAliased' = nAliased + 1
    /\ LET d == Typedefs[nAliased + 1]
           ty == getTypeFromDIType(d)
       IN IF Fatal(ty) THEN status' = "fatal error" /\ UNCHANGED AliasTys_
          ELSE /\ AliasTys_' = try_emplace(AliasTys_, DI[d].name, ty)
               /\ UNCHANGED status
    /\ UNCHANGED <<findVars, nDeclared, Composites, Typedefs, nParsed, mapVars, inlineVars,
                   done>>

Aliased == Inlined /\ nAliased = Len(Typedefs)

(* The map of types without a name is only needed while compile runs.      *)
Finish ==
    /\ Aliased /\ ~done
    /\ done' = TRUE
    /\ AnonTys_' = <<>>
    /\ UNCHANGED <<findVars, nDeclared, Composites, Typedefs, nParsed, CompositeTys_,
                   inlineVars, aliasVars, status>>

(* Mutant: structures, unions and enumerations before typedefs.            *)
MutgetType(name) ==
    IF Key(name) \in DOMAIN CompositeTys_ THEN <<Composite(Key(name))>>
    ELSE IF name \in DOMAIN AliasTys_ THEN AliasTys_[name]
    ELSE <<Null>>

(* CUImpl::getType, what the host looks types up with.                     *)
getType(name) ==
    IF name \in DOMAIN AliasTys_ THEN AliasTys_[name]
    ELSE IF Key(name) \in DOMAIN CompositeTys_ THEN <<Composite(Key(name))>>
    ELSE <<Null>>

(* CUImpl::getStructType, getUnionType and getEnumType: by tag, of a kind. *)
getCompositeType(name, kind) ==
    IF Key(name) \in DOMAIN CompositeTys_ /\ CompositeTys_[Key(name)].kind = kind
    THEN <<Composite(Key(name))>> ELSE <<Null>>

(* CUImpl::getTypes, the names the host is told of.                        *)
getTypes == {k[1] : k \in {k \in DOMAIN CompositeTys_ : k[2] = 0}} \cup DOMAIN AliasTys_
-----------------------------------------------------------------------------
Init ==
    /\ work \in SetToSeqs(Roots)
    /\ types = <<>> /\ Composites = <<>> /\ Typedefs = <<>>
    /\ nDeclared = 0 /\ nParsed = 0 /\ nAliased = 0
    /\ CompositeTys_ = <<>> /\ AnonTys_ = <<>> /\ AliasTys_ = <<>>
    /\ iterated = {} /\ Visited = {} /\ frames = <<>>
    /\ done = FALSE /\ status = "running"

(* compile has returned; the process may have died on the way.             *)
Returned == done /\ UNCHANGED vars

Next ==
    \/ /\ status = "running"
       /\ \/ processType \/ Declare \/ parseDIComposite
          \/ InlineNext \/ InlineInner \/ InlineType
          \/ setAlias \/ Finish
    \/ Returned

(* compile runs to its end on the thread that called it.                   *)
Spec == Init /\ [][Next]_vars /\ WF_vars(Next)
-----------------------------------------------------------------------------
(***************************************************************************)
(* Properties.                                                             *)
(***************************************************************************)
(* What a node derives from.                                               *)
PartsOf(d) == IF DI[d].tag = "subroutine_type" THEN Range(DI[d].sig) ELSE {DI[d].base}

(* Types refer to themselves only through structures and unions: h is how  *)
(* deep a type is nested, at most H.                                       *)
NestedBy(h, H) ==
    /\ h \in [DIType -> 0 .. H]
    /\ \A d \in DIType : DI[d].tag \in DerivedTags =>
         \A p \in PartsOf(d) \ {NoNode} : h[p] < h[d]

(* A structure or union the program defines in C.                          *)
Complete(d) == DI[d].tag \in {"structure_type", "union_type"} /\ ~DI[d].fwd /\ ~DI[d].cxx

(* What compile can read.  V are the nodes that stand for an object type   *)
(* of C, as members do: not void, no function, no C++ type, no basic type  *)
(* of an encoding the library does not know.                               *)
Readable(V) ==
    /\ V \subseteq DIType
    /\ \A d \in V :
         /\ DI[d].tag \in SameTags \cup {"const_type"} => DI[d].base \in V
         /\ DI[d].tag = "base_type" => DI[d].name \in DOMAIN BasicAlign
         /\ DI[d].tag \notin {"reference_type", "subroutine_type"}
         /\ DI[d].tag \in CompositeTags => ~DI[d].cxx
    /\ \A d \in DIType :
         /\ DI[d].tag \in DerivedTags \cup CompositeTags \cup {"base_type", "reference_type"}
         /\ DI[d].tag = "base_type" /\ DI[d].name \in DOMAIN BasicAlign =>
              BasicAlign[DI[d].name] # 0
         /\ DI[d].tag \in CompositeTags => DI[d].name \notin Reserved
         /\ Complete(d) => \A i \in DOMAIN DI[d].elems : DI[d].elems[i].base \in V

(* A tag is that of enumerations or of structures and unions, in all       *)
(* scopes that declare it.                                                 *)
OneKind ==
    \A d, e \in DIType :
      /\ DI[d].tag \in CompositeTags /\ DI[e].tag \in CompositeTags
      /\ DI[d].name = DI[e].name /\ DI[d].name # ""
      => IsEnum(DI[d].tag) = IsEnum(DI[e].tag)

(* Everything the passes build is well formed: every reference to a        *)
(* composite type is to one in CompositeTys_, and the loops stay within    *)
(* their lists.                                                            *)
TypeOK ==
    /\ nDeclared \in 0 .. Len(types) /\ nParsed \in 0 .. Len(Composites)
    /\ nAliased \in 0 .. Len(Typedefs)
    /\ \A k \in DOMAIN CompositeTys_ :
         LET T == CompositeTys_[k] IN
         /\ T.kind \in CompositeTags /\ T.opaque \in BOOLEAN /\ T.Align_ \in Nat
         /\ \A n \in DOMAIN T.FieldsMap_ :
              LET f == T.FieldsMap_[n] IN
              /\ f.name = n /\ f.off \in Nat
              /\ \A i \in DOMAIN f.ty : f.ty[i][1] = "composite" =>
                   <<f.ty[i][2], f.ty[i][3]>> \in DOMAIN CompositeTys_
    /\ \A d \in DOMAIN AnonTys_ : d \in DIType /\ AnonTys_[d] \in DOMAIN CompositeTys_
    /\ iterated \subseteq DOMAIN CompositeTys_ /\ Visited \subseteq DOMAIN CompositeTys_
    /\ \A i \in DOMAIN frames : frames[i].ty \in Visited
    /\ done \in BOOLEAN
    /\ status \in {"running", "fatal error", "null type", "bad cast"}

(* What C says the members of a structure or union are (6.7.2.1): its own  *)
(* named ones, and at their place in it the members M of its anonymous     *)
(* ones.                                                                   *)
MembersOf(M, d) ==
    UNION {LET e == DI[d].elems[i] IN
           IF e.name # "" THEN {e} ELSE {[m EXCEPT !.off = @ + e.off] : m \in M[e.base]} :
           i \in DOMAIN DI[d].elems}

MembersInC ==
    LET M[d \in DIType] == MembersOf(M, d) IN M

(* Anonymous members are as in C: of a structure or union without a tag,   *)
(* at a byte, nested finitely, g deep and at most G.  The names of members *)
(* differ, and the library has made up none of them.                       *)
MembersNamed(g, G) ==
    /\ g \in [DIType -> 0 .. G]
    /\ \A d \in DIType : \A i \in DOMAIN DI[d].elems :
         LET e == DI[d].elems[i] IN
         e.name = "" => /\ e.base \in DIType /\ g[e.base] < g[d]
                        /\ Complete(d) => /\ Complete(e.base) /\ DI[e.base].name = ""
                                          /\ e.off % 8 = 0
    /\ \A d \in DIType : Complete(d) =>
         /\ \A i \in DOMAIN DI[d].elems : DI[d].elems[i].name # "__dffi_anon_"
         /\ \A m, n \in MembersInC[d] : m.name = n.name => m = n

(* The members a type object shows, and the ones C gives to node d.        *)
Shown(k) == {CompositeTys_[k].FieldsMap_[n] : n \in DOMAIN CompositeTys_[k].FieldsMap_}
Expected(d) == {[name |-> Key(m.name), ty |-> getTypeFromDIType(m.base), off |-> m.off \div 8] :
                  m \in MembersInC[d]}

(* compile finds every composite type that a field or typedef refers to    *)
(* declared by the time it looks for it, whatever the order of the debug   *)
(* information (it would abort with a fatal error), and finds no field     *)
(* without a type.                                                         *)
NoAbort == status = "running"

(* After the inliner has run, in whichever order it met the types, every   *)
(* type has exactly the members C gives to one definition with its tag,    *)
(* those of anonymous members at their absolute offsets; and a type is     *)
(* left opaque only if the program does not define it.                     *)
MembersFaithful ==
    Inlined /\ ~done =>
      \A k \in DOMAIN CompositeTys_ :
        LET defs == {d \in Range(Composites) : KeyOf(d) = k /\ Complete(d)} IN
        CompositeTys_[k].kind # "enumeration_type" =>
          IF CompositeTys_[k].opaque THEN defs = {}
          ELSE \E d \in defs : Shown(k) = Expected(d)

(* What typedefs and qualifiers, any number of them, stand for.            *)
UnderlyingOf(U, d) ==
    IF d # NoNode /\ DI[d].tag \in SameTags \cup {"const_type"} THEN U[DI[d].base] ELSE d

Underlying ==
    LET U[d \in DIType \cup {NoNode}] == UnderlyingOf(U, d) IN U

(* A typedef name stands for one structure or union in all scopes, whose   *)
(* tag the program defines once: compile keeps one type for a name.        *)
NamesOwn ==
    \A t \in DIType :
      LET d == Underlying[t] IN
      DI[t].tag = "typedef" /\ d # NoNode /\ Complete(d) =>
        /\ \A u \in DIType : DI[u].tag = "typedef" /\ DI[u].name = DI[t].name => Underlying[u] = d
        /\ \A e \in DIType : Complete(e) /\ DI[e].name = DI[d].name /\ DI[d].name # "" => e = d

(* When compile is about to return, a typedef name the host asks for gives *)
(* the structure or union the typedef stands for, with its members: also   *)
(* when the structure has no tag, when a typedef goes through others, and  *)
(* when another structure has that name as its tag.  That one is found by  *)
(* its tag and kind, like every tag the program defines once.              *)
NamesFaithful ==
    Aliased /\ ~done =>
      /\ \A t \in Range(Typedefs) :
           LET d == Underlying[t] IN
           d # NoNode /\ Complete(d) =>
             /\ DI[t].name \in getTypes
             /\ \E k \in DOMAIN CompositeTys_ :
                  getType(DI[t].name) = <<Composite(k)>> /\ Shown(k) = Expected(d)
      /\ \A d \in Range(Composites) :
           /\ Complete(d) /\ DI[d].name # ""
           /\ \A e \in Range(Composites) : DI[e].name = DI[d].name => e = d
           => /\ DI[d].name \in getTypes
              /\ \E k \in DOMAIN CompositeTys_ :
                   /\ getCompositeType(DI[d].name, DI[d].tag) = <<Composite(k)>>
                   /\ Shown(k) = Expected(d)

(* The alignment a compiler gives to a type: that of an element, of the    *)
(* member that needs most; members that are packed need none.              *)
AlignOf(A, d) ==
    IF d = NoNode THEN 1
    ELSE LET n == DI[d] IN
      CASE n.tag = "base_type" -> IF n.name \in DOMAIN BasicAlign THEN BasicAlign[n.name] ELSE 1
        [] n.tag = "enumeration_type" -> IntAlign
        [] n.tag \in {"structure_type", "union_type"} ->
             Max({n.aligned} \cup (IF n.packed THEN {}
                                  ELSE {A[n.elems[i].base] : i \in DOMAIN n.elems}))
        [] n.tag \in SameTags \cup {"const_type", "array_type"} -> A[n.base]
        [] n.tag \in {"pointer_type", "reference_type", "subroutine_type"} -> PtrAlign

AlignInC ==
    LET A[d \in DIType \cup {NoNode}] == AlignOf(A, d) IN A

(* What the members of d are, typedefs and qualifiers left out, and what   *)
(* is in them at any depth.                                                *)
Held(d) == {Underlying[DI[d].elems[i].base] : i \in DOMAIN DI[d].elems} \ {NoNode}
InsideOf(I, d) == UNION {{e} \cup I[e] : e \in Held(d)}

Inside ==
    LET I[d \in DIType] == InsideOf(I, d) IN I

(* Objects contain others, s deep and at most S.                           *)
Contained(s, S) ==
    /\ s \in [DIType -> 0 .. S]
    /\ \A d \in DIType :
         /\ DI[d].tag \in SameTags \cup {"const_type", "array_type"} /\ DI[d].base # NoNode =>
              s[DI[d].base] < s[d]
         /\ \A i \in DOMAIN DI[d].elems :
              DI[d].elems[i].base # NoNode => s[DI[d].elems[i].base] < s[d]

(* Of the types V of members, arrays have a size the compiler knows, and   *)
(* structures and unions are complete and defined once.                    *)
Sized(V) ==
    \A d \in V :
      /\ DI[d].tag = "array_type" => DI[d].count # 0
      /\ DI[d].tag \in {"structure_type", "union_type"} =>
           /\ Complete(d)
           /\ \A e \in DIType : Complete(e) /\ DI[e].name = DI[d].name /\ DI[d].name # "" => e = d

(* Position of a node among those the second pass goes through.            *)
Position(d) == CHOOSE i \in DOMAIN Composites : Composites[i] = d

(* Is what is in d, at any depth, no array, and parsed before what it is   *)
(* in?                                                                     *)
InnerFirst(d) ==
    \A x \in {d} \cup Inside[d] : \A e \in Held(x) :
      /\ DI[e].tag # "array_type"
      /\ Complete(e) => Position(e) < Position(x)

(* Is it packed, or something in it?  Is an alignment asked for?           *)
Packs(d) == \E x \in {d} \cup Inside[d] : DI[x].packed
Asks(d) == \E x \in {d} \cup Inside[d] : DI[x].aligned # 1

(* A type in which nothing is packed is never said to need a larger        *)
(* alignment than it does (a cast would refuse objects that are aligned),  *)
(* and the alignment is the right one if no attribute asks for another and *)
(* the types of the members were parsed first.  compile takes the largest  *)
(* alignment of the members whatever the attributes say: for a packed type *)
(* that is more than the compiler gives it, and nothing is claimed.        *)
AlignBounded ==
    Parsed /\ ~done =>
      \A d \in Range(Composites) :
        /\ Complete(d) /\ ~Packs(d)
        /\ \A e \in Range(Composites) : KeyOf(e) = KeyOf(d) => e = d
        => /\ CompositeTys_[KeyOf(d)].Align_ <= AlignInC[d]
           /\ InnerFirst(d) /\ ~Asks(d) => CompositeTys_[KeyOf(d)].Align_ = AlignInC[d]

(* A step that leaves alone what is finished.                              *)
Settles ==
    \A k \in DOMAIN CompositeTys_ :
      /\ ~CompositeTys_[k].opaque =>
           /\ CompositeTys_'[k].Fields_ = CompositeTys_[k].Fields_
           /\ CompositeTys_'[k].Align_ = CompositeTys_[k].Align_
      /\ k \in Visited /\ (\A i \in DOMAIN frames : frames[i].ty # k) =>
           CompositeTys_'[k] = CompositeTys_[k]

(* FieldsMap_ points into Fields_, and hosts and other types into          *)
(* FieldsMap_: a type that has its fields keeps them, and one the inliner  *)
(* has left is never touched again.                                        *)
Settled == [][Settles]_vars

(* compile returns, for types that refer to themselves through pointers    *)
(* and functions and for anonymous members met again from another type:    *)
(* the walk over the debug information and the recursion of the inliner    *)
(* end, in every order.                                                    *)
CompileReturns == <>done
=============================================================================
