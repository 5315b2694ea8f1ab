---------------------------- MODULE TypePrinter -----------------------------
(***************************************************************************)
(* The C text of call wrappers (TypePrinter in lib/types_printer.cpp,      *)
(* genFuncTypeWrapper and compileWrappers in lib/dffi_impl.cpp).           *)
(*                                                                         *)
(* A wrapper names the types of the function it calls.  Before the         *)
(* wrappers, the text declares every structure and union they need:        *)
(* printing a type declares the types it meets, by recursion, a definition *)
(* coming out after those printed for its members.  clang then compiles    *)
(* the text, and the process dies if it cannot.  One step is one call of   *)
(* print_def, or the end of a text that was being printed.                 *)
(*                                                                         *)
(* A printer serves the wrappers of one call to the engine: all the new    *)
(* ones of a compilation unit, or the one of a function asked for.  The    *)
(* text itself is reduced to what is declared, in order; names of types    *)
(* are the numbers in __dffi_ty_<n>.  Enumerations print as integers.      *)
(***************************************************************************)
EXTENDS Naturals, Sequences, FiniteSets, Functions

CONSTANTS
    Type,     \* types of the program
    NoType,   \* void
    Def,      \* Type -> what it is made of:
              \*   kind   : basic, enum, pointer, array, function, struct, union
              \*   elem   : pointee, element, or result
              \*   params : parameters of a function
              \*   fields : types of the members as declared; none if opaque
    FuncTy,   \* function types the host has wrapped
    VarArgs   \* function type -> lists of variadic argument types

IsComposite(t) == t # NoType /\ Def[t].kind \in {"struct", "union"}

(* Wrappers: of a function type and a list of variadic arguments.          *)
Wrapper == UNION {{[fty |-> f, args |-> l] : l \in {<<>>} \cup VarArgs[f]} : f \in FuncTy}

(***************************************************************************)
(* External: what C wants to be complete.  An object needs its type        *)
(* complete; to mention a type, in a pointer or a prototype, only the      *)
(* elements of arrays need to be.                                          *)
(***************************************************************************)
Mentioned(M, t) ==
    LET elem      == Def[t].elem
        params    == Def[t].params
        Object(u) == IF IsComposite(u) THEN {u} ELSE M[u]
    IN  IF t = NoType THEN {}
        ELSE CASE Def[t].kind = "pointer" -> M[elem]
               [] Def[t].kind = "array" -> Object(elem)
               [] Def[t].kind = "function" -> M[elem] \cup UNION {M[params[i]] : i \in DOMAIN params}
               [] Def[t].kind \in {"basic", "enum", "struct", "union"} -> {}

Mention ==
    LET M[t \in Type \cup {NoType}] == Mentioned(M, t)
    IN  M

Object(t) == IF IsComposite(t) THEN {t} ELSE Mention[t]

ASSUME TypesAssumption ==
    /\ NoType \notin Type /\ FuncTy \subseteq Type
    /\ \A t \in Type :
         /\ Def[t].kind \in {"basic", "enum", "pointer", "array", "function", "struct", "union"}
         /\ Def[t].elem \in Type \cup {NoType}
         /\ Def[t].params \in Seq(Type \cup {NoType})
         /\ Def[t].fields \in Seq(Type)
    /\ \A f \in FuncTy :
         /\ Def[f].kind = "function"
         /\ VarArgs[f] \subseteq Seq(Type)

VARIABLES
    wrapped,           \* wrappers the JIT has
    batch,             \* wrappers the call in progress makes
    busy,              \* is there one?
    Wrappers,          \* those of them whose text is printed
    cur,               \* the one being printed, if there is one
    frames,            \* texts being printed, innermost first: the wrapper, then
                       \* definitions; decl is the type defined, todo what is
                       \* still to be printed
    NamedTys_, Declared_, ForwardDeclared_,
    Decls_,            \* declarations in the text, in order
    status             \* "running", or how the process died

printerVars == <<NamedTys_, Declared_, ForwardDeclared_, Decls_>>
vars == <<wrapped, batch, busy, Wrappers, cur, frames, printerVars, status>>
-----------------------------------------------------------------------------
(***************************************************************************)
(* print_def.  An item of a text is a type and the way a structure or      *)
(* union met there is declared.                                            *)
(***************************************************************************)
Full(t)    == [ty |-> t, mode |-> "Full"]
Forward(t) == [ty |-> t, mode |-> "Forward"]
FullSeq(s) == [i \in DOMAIN s |-> Full(s[i])]

(* Mutant: the elements of an array are declared as the array is.          *)
MutParts(item) ==
    CASE Def[item.ty].kind = "pointer" -> <<Forward(Def[item.ty].elem)>>
      [] Def[item.ty].kind = "array" -> <<[item EXCEPT !.ty = Def[item.ty].elem]>>
      [] Def[item.ty].kind = "function" ->
           FullSeq(Def[item.ty].params) \o <<Full(Def[item.ty].elem)>>
      [] Def[item.ty].kind \in {"basic", "enum", "struct", "union"} -> <<>>

(* What print_def goes on to print, in order, for a type that has no name. *)
Parts(item) ==
    CASE Def[item.ty].kind = "pointer" -> <<Forward(Def[item.ty].elem)>>
      [] Def[item.ty].kind = "array" -> <<Full(Def[item.ty].elem)>>
      [] Def[item.ty].kind = "function" ->
           FullSeq(Def[item.ty].params) \o <<Full(Def[item.ty].elem)>>
      [] Def[item.ty].kind \in {"basic", "enum", "struct", "union"} -> <<>>

(* Mutant: names are numbered by the definitions only.                     *)
MutName(t) ==
    NamedTys_' = IF t \in DOMAIN NamedTys_ THEN NamedTys_
                 ELSE [u \in DOMAIN NamedTys_ \cup {t} |->
                         IF u = t THEN Cardinality(Declared_) ELSE NamedTys_[u]]

(* A type is named when it is first printed.                               *)
Name(t) ==
    NamedTys_' = IF t \in DOMAIN NamedTys_ THEN NamedTys_
                 ELSE [u \in DOMAIN NamedTys_ \cup {t} |->
                         IF u = t THEN Cardinality(DOMAIN NamedTys_) ELSE NamedTys_[u]]

top  == frames[1]
Item == top.todo[1]
Next1(todo) == [frames EXCEPT ![1].todo = todo]
Frame(decl, todo) == [decl |-> decl, todo |-> todo]

print_def ==
    /\ frames # <<>> /\ top.todo # <<>> /\ ~IsComposite(Item.ty)
    /\ frames' = Next1((IF Item.ty = NoType THEN <<>> ELSE Parts(Item)) \o Tail(top.todo))
    /\ UNCHANGED <<wrapped, batch, busy, Wrappers, cur, printerVars, status>>

(* Mutant: a type counts as declared once its definition is printed.       *)
MutAddDecl(t) ==
    IF \E i \in DOMAIN Decls_ : Decls_[i] = [def |-> TRUE, ty |-> t]
    THEN frames' = Next1(Tail(top.todo)) /\ UNCHANGED Declared_
    ELSE /\ Declared_' = Declared_ \cup {t}
         /\ frames' = <<Frame(t, FullSeq(Def[t].fields))>> \o Next1(Tail(top.todo))

(* add_decl: the type counts as declared before its members are printed,   *)
(* to a text of its own.                                                   *)
AddDecl(t) ==
    IF t \in Declared_
    THEN frames' = Next1(Tail(top.todo)) /\ UNCHANGED Declared_
    ELSE /\ Declared_' = Declared_ \cup {t}
         /\ frames' = <<Frame(t, FullSeq(Def[t].fields))>> \o Next1(Tail(top.todo))

add_decl ==
    /\ frames # <<>> /\ top.todo # <<>> /\ IsComposite(Item.ty) /\ Item.mode = "Full"
    /\ AddDecl(Item.ty)
    /\ Name(Item.ty)
    /\ UNCHANGED <<wrapped, batch, busy, Wrappers, cur, ForwardDeclared_, Decls_, status>>

(* Mutant: nothing is declared while a definition is being printed.        *)
MutAddForwardDecl(t) ==
    IF t \in Declared_ \/ t \in ForwardDeclared_ \/ top.decl # NoType
    THEN UNCHANGED <<ForwardDeclared_, Decls_>>
    ELSE /\ ForwardDeclared_' = ForwardDeclared_ \cup {t}
         /\ Decls_' = Append(Decls_, [def |-> FALSE, ty |-> t])

(* add_forward_decl: not for a type that counts as declared, its           *)
(* definition printed or not.                                              *)
AddForwardDecl(t) ==
    IF t \in Declared_ \/ t \in ForwardDeclared_
    THEN UNCHANGED <<ForwardDeclared_, Decls_>>
    ELSE /\ ForwardDeclared_' = ForwardDeclared_ \cup {t}
         /\ Decls_' = Append(Decls_, [def |-> FALSE, ty |-> t])

add_forward_decl ==
    /\ frames # <<>> /\ top.todo # <<>> /\ IsComposite(Item.ty) /\ Item.mode = "Forward"
    /\ AddForwardDecl(Item.ty)
    /\ Name(Item.ty)
    /\ frames' = Next1(Tail(top.todo))
    /\ UNCHANGED <<wrapped, batch, busy, Wrappers, cur, Declared_, status>>

(* print_decl_impl is done: the definition joins the declarations.         *)
DeclPrinted ==
    /\ frames # <<>> /\ top.todo = <<>> /\ top.decl # NoType
    /\ Decls_' = Append(Decls_, [def |-> TRUE, ty |-> top.decl])
    /\ frames' = Tail(frames)
    /\ UNCHANGED <<wrapped, batch, busy, Wrappers, cur, NamedTys_, Declared_,
                   ForwardDeclared_, status>>
-----------------------------------------------------------------------------
(***************************************************************************)
(* The engine.                                                             *)
(***************************************************************************)
NewPrinter ==
    NamedTys_' = <<>> /\ Declared_' = {} /\ ForwardDeclared_' = {} /\ Decls_' = <<>>

Begin(ws) ==
    /\ ~busy
    /\ busy' = TRUE /\ batch' = ws \ wrapped
    /\ UNCHANGED <<wrapped, Wrappers, cur, frames, printerVars, status>>

(* DFFIImpl::compile makes the wrappers of the functions of a unit, when   *)
(* it is not left to getFunction; never for a list of variadic arguments.  *)
compile == \E fs \in SUBSET FuncTy : Begin({[fty |-> f, args |-> <<>>] : f \in fs})

(* getWrapperAddress makes one that is missing.                            *)
getWrapperAddress == \E w \in Wrapper \ wrapped : Begin({w})

(* What a wrapper names: it takes pointers to the function and to the      *)
(* result, and reads each argument through a pointer to its type.          *)
Passed(w) == Def[w.fty].params \o w.args

genFuncTypeWrapper ==
    /\ busy /\ frames = <<>>
    /\ \E w \in batch \ Wrappers :
         /\ cur' = {w}
         /\ frames' = <<Frame(NoType,
                          <<Forward(w.fty), Forward(Def[w.fty].elem)>>
                            \o [i \in DOMAIN Passed(w) |-> Forward(Passed(w)[i])])>>
    /\ UNCHANGED <<wrapped, batch, busy, Wrappers, printerVars, status>>

(* Mutant: the text of a wrapper takes the place of those before it.       *)
MutWrapperPrinted ==
    /\ frames # <<>> /\ top.todo = <<>> /\ top.decl = NoType
    /\ frames' = Tail(frames)
    /\ Wrappers' = cur /\ cur' = {}
    /\ UNCHANGED <<wrapped, batch, busy, printerVars, status>>

(* The text of a wrapper is appended to those before it.                   *)
WrapperPrinted ==
    /\ frames # <<>> /\ top.todo = <<>> /\ top.decl = NoType
    /\ frames' = Tail(frames)
    /\ Wrappers' = Wrappers \cup cur /\ cur' = {}
    /\ UNCHANGED <<wrapped, batch, busy, printerVars, status>>

Defined(n) == {Decls_[i].ty : i \in {i \in 1 .. n : Decls_[i].def}}

(* External: does clang compile the text?  (A structure first named in a   *)
(* parameter list is a type of that list only, which clang accepts.)       *)
Compiles ==
    /\ \A i, j \in DOMAIN Decls_ :
         Decls_[i].def /\ Decls_[j].def /\ NamedTys_[Decls_[i].ty] = NamedTys_[Decls_[j].ty]
           => i = j
    /\ \A i \in DOMAIN Decls_ :
         Decls_[i].def => \A t \in Range(Def[Decls_[i].ty].fields) :
                            Object(t) \subseteq Defined(i - 1)
    /\ \A w \in Wrappers :
         /\ NoType \notin Range(Passed(w))
         /\ \A t \in Range(Passed(w)) \cup {Def[w.fty].elem} :
              Object(t) \subseteq Defined(Len(Decls_))

compileWrappers ==
    /\ busy /\ frames = <<>> /\ batch \subseteq Wrappers
    /\ IF Compiles
       THEN /\ wrapped' = wrapped \cup Wrappers
            /\ busy' = FALSE /\ batch' = {} /\ Wrappers' = {}
            /\ NewPrinter
            /\ UNCHANGED status
       ELSE /\ status' = "unable to compile wrappers!"
            /\ UNCHANGED <<wrapped, busy, batch, Wrappers, printerVars>>
    /\ UNCHANGED <<cur, frames>>
-----------------------------------------------------------------------------
Init ==
    /\ wrapped = {} /\ batch = {} /\ busy = FALSE /\ Wrappers = {}
    /\ cur = {} /\ frames = <<>>
    /\ NamedTys_ = <<>> /\ Declared_ = {} /\ ForwardDeclared_ = {} /\ Decls_ = <<>>
    /\ status = "running"

(* The steps of a call in progress.                                        *)
CallStep ==
    /\ status = "running"
    /\ \/ genFuncTypeWrapper \/ print_def \/ add_decl \/ add_forward_decl
       \/ DeclPrinted \/ WrapperPrinted \/ compileWrappers

(* The host does something else, or the process is dead.                   *)
Idle == (~busy \/ status # "running") /\ UNCHANGED vars

Next == CallStep \/ compile \/ getWrapperAddress \/ Idle

(* A call runs to its end on the thread that made it.                      *)
Spec == Init /\ [][Next]_vars /\ WF_vars(CallStep)
-----------------------------------------------------------------------------
(***************************************************************************)
(* Properties.                                                             *)
(***************************************************************************)
(* Texts are being printed only during a call; what the printer knows, it  *)
(* knows of structures and unions.                                         *)
TypeOK ==
    /\ wrapped \subseteq Wrapper /\ batch \subseteq Wrapper \ wrapped
    /\ Wrappers \subseteq batch /\ cur \subseteq batch \ Wrappers
    /\ busy \in BOOLEAN /\ (frames # <<>> => busy /\ cur # {})
    /\ \A i \in DOMAIN frames :
         /\ (frames[i].decl = NoType) = (i = Len(frames))
         /\ frames[i].decl # NoType => frames[i].decl \in Declared_
         /\ Range(frames[i].todo) \subseteq [ty : Type \cup {NoType}, mode : {"Full", "Forward"}]
    /\ \A t \in DOMAIN NamedTys_ : IsComposite(t) /\ NamedTys_[t] \in Nat
    /\ Declared_ \cup ForwardDeclared_ = DOMAIN NamedTys_
    /\ \A i \in DOMAIN Decls_ : Decls_[i].def \in BOOLEAN /\ Decls_[i].ty \in DOMAIN NamedTys_
    /\ status \in {"running", "unable to compile wrappers!"}

(* The text of wrappers always compiles, in whichever order the functions  *)
(* of a unit come and whatever their types share: by-value members and     *)
(* arrays find the definitions they need earlier in the text, nothing is   *)
(* defined twice, and what a wrapper passes is complete.  compileWrappers  *)
(* kills the process otherwise.                                            *)
WrappersCompile == status = "running"

(* Recursion through the members of a type ends: no type whose definition  *)
(* is being printed, or is printed, is defined again.  (add_decl recurses  *)
(* on the C++ stack.)                                                      *)
DefinedOnce ==
    /\ \A i, j \in DOMAIN frames : frames[i].decl = frames[j].decl => i = j
    /\ \A i \in DOMAIN frames, j \in DOMAIN Decls_ :
          Decls_[j].def => frames[i].decl # Decls_[j].ty
    /\ \A i, j \in DOMAIN Decls_ :
          Decls_[i].def /\ Decls_[j].def /\ Decls_[i].ty = Decls_[j].ty => i = j

(* When a wrapper is printed, every structure and union it or a definition *)
(* names is declared in the text before it, under a name of its own: one   *)
(* first named inside the wrapper would be another type.                   *)
TagsDeclared ==
    frames = <<>> =>
      \A t, u \in DOMAIN NamedTys_ :
        /\ \E i \in DOMAIN Decls_ : Decls_[i].ty = t
        /\ NamedTys_[t] = NamedTys_[u] => t = u

(* Every wrapper a call sets out to make is eventually there: the          *)
(* recursion of print_def over types that refer to themselves ends, and    *)
(* the call does not die.                                                  *)
EveryWrapperMade == \A w \in Wrapper : w \in batch ~> w \in wrapped
-----------------------------------------------------------------------------
(***************************************************************************)
(* Programs whose wrappers compile.  C orders structures and unions by     *)
(* what they need complete; the printer asks for more, since it defines    *)
(* what a function takes and returns when it meets a pointer to it.  r     *)
(* numbers the types so that printing a member of a structure defines the  *)
(* structure itself or ones numbered below it.                             *)
(***************************************************************************)
OrderedBy(r) ==
    /\ r \in [Type -> Nat]
    /\ \A t, u \in Type : IsComposite(t) /\ IsComposite(u) /\ r[t] = r[u] => t = u
    /\ \A t \in Type : IsComposite(t) =>
          \A f \in Range(Def[t].fields) : r[f] <= r[t] /\ \A u \in Object(f) : r[u] < r[t]
    /\ \A t \in Type : ~IsComposite(t) =>
          \A p \in Range(Parts(Full(t))) :
             \/ p.ty = NoType
             \/ IsComposite(p.ty) /\ p.mode = "Forward"
             \/ r[p.ty] <= r[t]

(* Types other than structures and unions are not made of themselves.      *)
NestedBy(h, H) ==
    /\ h \in [Type -> 0..H]
    /\ \A t \in Type : ~IsComposite(t) =>
          \A p \in Range(Parts(Full(t))) :
             p.ty = NoType \/ IsComposite(p.ty) \/ h[p.ty] < h[t]

(* No parameter is void; a structure passed as a variadic argument is one  *)
(* that the function's own parameters or result need complete.             *)
ArgumentsComplete ==
    \A f \in FuncTy :
        /\ NoType \notin Range(Def[f].params)
        /\ \A l \in VarArgs[f] : \A t \in Range(l) : IsComposite(t) =>
              \E u \in Range(Def[f].params) \cup {Def[f].elem} : t \in Object(u)
=============================================================================
