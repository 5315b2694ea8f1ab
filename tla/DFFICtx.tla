------------------------------ MODULE DFFICtx ------------------------------
(***************************************************************************)
(* The type context of DragonFFI (lib/dffictx.h, lib/dffictx.cpp): every   *)
(* BasicType, PointerType, ArrayType and FunctionType of an engine is      *)
(* created here, and found again here by the key it was created from.      *)
(* FunctionType pointers are in turn the keys of the call wrappers.        *)
(*                                                                         *)
(* A type object is identified by its address; the model hands out 1, 2,   *)
(* 3 ... as addresses, and 0 is the null `Type const*` that stands for     *)
(* void.  Objects are never freed before the context is.                   *)
(***************************************************************************)
EXTENDS Naturals, Sequences

CONSTANTS
    BasicKind,     \* BasicType::BasicKind
    Count,         \* numbers of elements arrays are asked for
    Flags,         \* Flags_ of function types: calling convention, variadic or
                   \* not, errno saved around calls or not
    ParamCount,    \* numbers of parameters function types are asked for
    ArrayEltConst, \* constness of the element types arrays are asked for
    MaxTypes       \* bound: type objects created in a behaviour

ASSUME CtxAssumption ==
    /\ Count \subseteq Nat
    /\ ParamCount \subseteq Nat
    /\ ArrayEltConst \subseteq BOOLEAN
    /\ MaxTypes \in Nat

VARIABLE
    heap           \* the type objects, in allocation order: address -> object

vars == <<heap>>

Void == 0

(* Mutant: the address of the next object is given out before the object   *)
(* exists.                                                                 *)
MutTypePtr == {Void} \cup 1..(Len(heap) + 1)

(* The values of a `Type const*`.                                          *)
TypePtr == {Void} \cup DOMAIN heap

(* QualType: an address with the const bit in its lowest bit; operator==   *)
(* compares both.                                                          *)
QualType(ptrs, consts) == [ty : ptrs, const : consts]

(* QualType -> `Type const*` -> QualType: getType() drops the const bit    *)
(* and the constructor sets it to None.                                    *)
Unqualified(q) == [ty |-> q.ty, const |-> FALSE]

(* QualType has no operator!=, so `RetTy_ != O.RetTy_` is the built-in     *)
(* comparison of the two converted `Type const*` (the build is C++14).     *)
Differ(q, r) == q.ty # r.ty

(***************************************************************************)
(* What a getter is asked for.  The object created for a request holds     *)
(* exactly the request's fields.                                           *)
(***************************************************************************)
BasicReq(k)    == [kind |-> "basic", bkind |-> k]
PtrReq(q)      == [kind |-> "ptr", pointee |-> q]
ArrayReq(q, n) == [kind |-> "array", elt |-> q, n |-> n]
FuncReq(ret, params, flags) ==
    [kind |-> "func", ret |-> ret, params |-> params, flags |-> flags]

ParamLists(ptrs) ==
    UNION {[1..k -> QualType(ptrs, BOOLEAN)] : k \in ParamCount}

Requests(ptrs) ==
    [kind : {"basic"}, bkind : BasicKind]
      \cup [kind : {"ptr"}, pointee : QualType(ptrs, BOOLEAN)]
      \cup [kind : {"array"}, elt : QualType(ptrs \ {Void}, ArrayEltConst), n : Count]
      \cup [kind : {"func"}, ret : QualType(ptrs, BOOLEAN), params : ParamLists(ptrs),
            flags : Flags]

(***************************************************************************)
(* The tables.  There is one for each kind of type: an object enters that  *)
(* of its kind in the call that creates it and never leaves it, and a      *)
(* lookup compares the key asked for with those of the objects in it.      *)
(***************************************************************************)

(* BasicTys_, keyed by the kind.                                           *)
BasicKeyEq(req, obj) == req.bkind = obj.bkind

(* Mutant: the pointee of the stored key has lost its const.               *)
MutPtrKeyEq(req, obj) == req.pointee = Unqualified(obj.pointee)

(* PointerTys_, keyed by the QualType of the pointee.                      *)
PtrKeyEq(req, obj) == req.pointee = obj.pointee

(* Mutant: arrays are looked up by element type alone.                     *)
MutArrayKeyEq(req, obj) == req.elt = Unqualified(obj.elt)

(* ArrayTypeKeyInfo::isEqual: the stored key is rebuilt from               *)
(* getElementType(), which returns an unqualified `Type const*`.           *)
ArrayKeyEq(req, obj) ==
    /\ req.elt = Unqualified(obj.elt)
    /\ req.n = obj.n

(* Mutant: getReturnType() returns RetTy_, compared with operator==.       *)
MutFunctionKeyEq(req, obj) ==
    /\ req.flags = obj.flags
    /\ req.ret = obj.ret
    /\ req.params = obj.params

(* FunctionTypeKeyInfo::isEqual: getReturnType() is unqualified too, and   *)
(* the return types are compared with `!=`.                                *)
FunctionKeyEq(req, obj) ==
    /\ req.flags = obj.flags
    /\ ~Differ(req.ret, Unqualified(obj.ret))
    /\ req.params = obj.params

Matches(req, obj) ==
    /\ req.kind = obj.kind
    /\ \/ req.kind = "basic" /\ BasicKeyEq(req, obj)
       \/ req.kind = "ptr"   /\ PtrKeyEq(req, obj)
       \/ req.kind = "array" /\ ArrayKeyEq(req, obj)
       \/ req.kind = "func"  /\ FunctionKeyEq(req, obj)

Found(req) == {a \in DOMAIN heap : Matches(req, heap[a])}

(* A getter whose lookup misses creates the object.  One whose lookup hits *)
(* returns the object found and changes nothing, which is a stuttering     *)
(* step.                                                                   *)
FindOrCreate(req) ==
    /\ Found(req) = {}
    /\ Len(heap) < MaxTypes
    /\ heap' = Append(heap, req)

getBasicType(k) == FindOrCreate(BasicReq(k))

getPtrType(Pointee) == FindOrCreate(PtrReq(Pointee))

getArrayType(EltTy, NElements) == FindOrCreate(ArrayReq(EltTy, NElements))

getFunctionType(RetTy, ParamsTy, flags) ==
    FindOrCreate(FuncReq(RetTy, ParamsTy, flags))

Init == heap = <<>>

Next ==
    \/ \E k \in BasicKind : getBasicType(k)
    \/ \E q \in QualType(TypePtr, BOOLEAN) : getPtrType(q)
    \/ \E q \in QualType(TypePtr \ {Void}, ArrayEltConst), n \in Count :
          getArrayType(q, n)
    \/ \E ret \in QualType(TypePtr, BOOLEAN), params \in ParamLists(TypePtr),
          flags \in Flags : getFunctionType(ret, params, flags)

Spec == Init /\ [][Next]_vars

-----------------------------------------------------------------------------
(***************************************************************************)
(* Properties                                                              *)
(***************************************************************************)

(* Type invariant: each object was built from a request whose components   *)
(* are objects older than it (or void), so types are finite trees.         *)
TypeOK ==
    /\ heap \in Seq(Requests(0..MaxTypes))
    /\ \A a \in DOMAIN heap : heap[a] \in Requests(0..(a - 1))

(* An array type asked for with const elements, as the debug information   *)
(* of `const int a[2]` asks for one.                                       *)
ConstElements(obj) == obj.kind = "array" /\ obj.elt.const

(* The uniqueness types.h promises for "the underlying types": asking      *)
(* again for what an object was created from returns that very object and  *)
(* no other, whatever was created in between.  Arrays of const elements    *)
(* break it, and they only: none is ever found again by its own key, and   *)
(* they can come up, once there are any, for the array that was created    *)
(* without const before them.                                              *)
Interned ==
    \A a \in DOMAIN heap :
      IF ConstElements(heap[a]) THEN Found(heap[a]) = {}
      ELSE /\ a \in Found(heap[a])
           /\ \A b \in Found(heap[a]) \ {a} : b > a /\ ConstElements(heap[b])

(* Are two objects the same C type to the engine?  The const of a return   *)
(* type and of an array element are dropped by every getter.               *)
SameType(req, obj) ==
    \/ req = obj
    \/ /\ req.kind = "array" /\ obj.kind = "array"
       /\ req.elt.ty = obj.elt.ty /\ req.n = obj.n
    \/ /\ req.kind = "func" /\ obj.kind = "func"
       /\ req.ret.ty = obj.ret.ty /\ req.params = obj.params /\ req.flags = obj.flags

(* No getter ever returns a type other than the one asked for: whichever   *)
(* objects exist, an object a lookup can find is of the requested type.    *)
LookupSound ==
    \A req \in Requests(TypePtr) : \A a \in Found(req) : SameType(req, heap[a])

(* The C type an object denotes, written out down to its leaves; D says    *)
(* what the types it is made of denote.  As one array of const elements is *)
(* not another one, its address is part of what it denotes.                *)
Unfold(D, a) ==
    IF a = Void THEN <<"void">>
    ELSE CASE heap[a].kind = "basic" -> <<"basic", heap[a].bkind>>
           [] heap[a].kind = "ptr"   ->
                <<"ptr", heap[a].pointee.const, D[heap[a].pointee.ty]>>
           [] heap[a].kind = "array" ->
                <<"array", heap[a].n, D[heap[a].elt.ty],
                  IF ConstElements(heap[a]) THEN a ELSE Void>>
           [] heap[a].kind = "func"  ->
                <<"func", heap[a].flags, D[heap[a].ret.ty],
                  [i \in DOMAIN heap[a].params |->
                     <<heap[a].params[i].const, D[heap[a].params[i].ty]>>],
                  "end">>

Denotes ==
    LET tree[a \in {Void} \cup DOMAIN heap] == Unfold(tree, a)
    IN  tree

(* Two addresses never denote the same C type: pointer comparison of types *)
(* (Python's ==, the wrapper maps, cast checks) is comparison of types.    *)
(* Types of the same structure with two addresses differ in an array of    *)
(* const elements they are made of.                                        *)
UniqueByStructure ==
    \A a, b \in DOMAIN heap : Denotes[a] = Denotes[b] => a = b
=============================================================================
