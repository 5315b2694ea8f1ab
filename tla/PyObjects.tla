----------------------------- MODULE PyObjects -----------------------------
(***************************************************************************)
(* Lifetimes of the objects of the Python bindings                         *)
(* (bindings/python/pydffi.cpp, cobj.h, cobj.cpp).  Behind a Python object *)
(* are raw C++ pointers: to types and code of an engine, to a compilation  *)
(* unit, to the bytes of a C object.  The bindings tell pybind11 which     *)
(* Python object keeps which other alive; an object nobody holds or keeps  *)
(* is destroyed, with its bytes.  The Python program creates objects and   *)
(* drops its references to them in any order.                              *)
(*                                                                         *)
(* Values are left out: only whose bytes an object uses is recorded.       *)
(* Programs are followed up to their first use of a dangling pointer.      *)
(***************************************************************************)
EXTENDS Naturals, Sequences, FiniteSets

CONSTANTS
    CType,      \* the C types of the engine
    Composite, Array, FuncTy, Enum,  \* structures and unions, arrays, functions,
                \* enumerations
    IntTy,      \* the basic type of enumerations
    PtrTo,      \* CType -> CType, where the pointer type exists
    FieldTy,    \* composites and arrays -> types of fields or elements that
                \* Python sees as objects (not as numbers)
    RetTy,      \* FuncTy -> CType: the return type, and that of a parameter
    NoType,
    Programs,   \* Python programs, each the set of operations it uses
    MaxFFI,     \* bound on engines
    MaxObjs     \* bound on Python objects created

ASSUME PyAssumption ==
    /\ Composite \subseteq CType /\ Array \subseteq CType /\ FuncTy \subseteq CType
    /\ Enum \subseteq CType /\ IntTy \in CType
    /\ NoType \notin CType
    /\ DOMAIN PtrTo \subseteq CType /\ \A t \in DOMAIN PtrTo : PtrTo[t] \in CType
    /\ FieldTy \in [Composite \cup Array -> SUBSET CType]
    /\ RetTy \in [FuncTy -> CType]
    /\ MaxFFI \in Nat /\ MaxObjs \in Nat

VARIABLES
    Ops,        \* the operations the Python program uses; never changes
    obj,        \* every Python object ever created
    keeps,      \* the objects each one keeps alive (pybind11's patients)
    alive,      \* the objects not destroyed
    held        \* the objects the program has references to

vars == <<Ops, obj, keeps, alive, held>>

Nobody == 0     \* memory no Python object owns

IsPointer(t) == \E u \in DOMAIN PtrTo : PtrTo[u] = t
Pointees(t)  == {u \in DOMAIN PtrTo : PtrTo[u] = t}
Basic == {t \in CType \ (Composite \cup Array \cup FuncTy \cup Enum) : ~IsPointer(t)}

(***************************************************************************)
(* A Python object: its class; its type, if it has one; the FFI whose      *)
(* engine it refers to; the object that owns its bytes; for a pointer, the *)
(* object that owns the bytes pointed to; the unit a CUTypes or CUFuncs    *)
(* refers to.                                                              *)
(***************************************************************************)
Object(class, ty, eng, src, tgt, cu) ==
    [class |-> class, ty |-> ty, eng |-> eng, src |-> src, tgt |-> tgt, cu |-> cu]

Class == {"FFI", "CU", "CUTypes", "CUFuncs", "Type", "QualType", "CompositeField",
          "iterator", "CObj", "memoryview", "bytearray"}

(* What the C++ side of an object dereferences.                            *)
Needs(o) == {obj[o].eng, obj[o].src, obj[o].tgt, obj[o].cu} \ {Nobody}

Usable(o) == Needs(o) \subseteq alive

(* Objects the program can pass to operation op.                           *)
Args(op, class) == {o \in held : op \in Ops /\ obj[o].class = class /\ Usable(o)}

-----------------------------------------------------------------------------
New == Len(obj) + 1

(* A new object, returned to the program, that keeps `patients` alive.     *)
Create(o, patients) ==
    /\ New <= MaxObjs
    /\ obj' = Append(obj, o)
    /\ keeps' = Append(keeps, patients)
    /\ alive' = alive \cup {New}
    /\ held' = held \cup {New}
    /\ UNCHANGED Ops

(* The wrapper of a pointer to an object of the engine.  pybind11 returns  *)
(* the one that exists, if there is one, and then does not apply           *)
(* reference_internal; `always` are the patients of a keep_alive policy,   *)
(* which it applies anyway.                                                *)
Wrappers(class, t, eng) ==
    {o \in alive : obj[o].class = class /\ obj[o].ty = t /\ obj[o].eng = eng}

ReturnPointer(class, t, eng, parent, always) ==
    \/ \E w \in Wrappers(class, t, eng) :
          /\ keeps' = [keeps EXCEPT ![w] = @ \cup (always \ {w})]
          /\ held' = held \cup {w}
          /\ UNCHANGED <<Ops, obj, alive>>
    \/ /\ Wrappers(class, t, eng) = {}
       /\ Create(Object(class, t, eng, Nobody, Nobody, Nobody), {parent} \cup always)

ReturnType(t, eng, parent, always) == ReturnPointer("Type", t, eng, parent, always)

(* Classes returned by value are moved into a new Python object;           *)
(* reference_internal does nothing for them.                               *)
ReturnQualType(t, eng, patients) ==
    Create(Object("QualType", t, eng, Nobody, Nobody, Nobody), patients)

(* A CObj with bytes of its own, and one that views those of src.  The     *)
(* bytes of a function are code of the engine; an object of an enumeration *)
(* has its basic type.                                                     *)
ObjTy(t) == IF t \in Enum THEN IntTy ELSE t

Owned(t, eng, tgt) ==
    Object("CObj", ObjTy(t), eng, IF t \in FuncTy THEN Nobody ELSE New, tgt, Nobody)
View(t, eng, src) ==
    Object("CObj", ObjTy(t), eng, IF t \in FuncTy THEN Nobody ELSE src, Nobody, Nobody)

-----------------------------------------------------------------------------
(***************************************************************************)
(* Engines, compilation units and types.                                   *)
(***************************************************************************)
newFFI ==
    /\ "FFI" \in Ops
    /\ Cardinality({o \in DOMAIN obj : obj[o].class = "FFI"}) < MaxFFI
    /\ Create(Object("FFI", NoType, Nobody, Nobody, Nobody, Nobody), {})

(* Mutant: the unit does not keep its engine.                              *)
MutCompile(ffi) == Create(Object("CU", NoType, ffi, Nobody, Nobody, Nobody), {})

(* FFI.compile and FFI.cdef                                                *)
compile(ffi) == Create(Object("CU", NoType, ffi, Nobody, Nobody, Nobody), {ffi})

(* CompilationUnit.types and .funcs                                        *)
cu_types(cu) == Create(Object("CUTypes", NoType, obj[cu].eng, Nobody, Nobody, cu), {cu})
cu_funcs(cu) == Create(Object("CUFuncs", NoType, obj[cu].eng, Nobody, Nobody, cu), {cu})

(* CUTypes.__getattr__; FFI.basicType, .arrayType, .pointerType, .IntTy... *)
FFITypes == CType \ (Composite \cup FuncTy \cup Enum)

cutypes_getattr(ts, t) == ReturnType(t, obj[ts].eng, ts, {})
ffi_type(ffi, t)       == ReturnType(t, ffi, ffi, {})

(* CUFuncs.__getattr__                                                     *)
cufuncs_getattr(fs, t) == Create(Owned(t, obj[fs].eng, Nobody), {fs})

(* Type.ptr, and the function ptr of a type.                               *)
type_ptr(ty) ==
    /\ obj[ty].ty \in DOMAIN PtrTo
    /\ ReturnType(PtrTo[obj[ty].ty], obj[ty].eng, ty, {})
ptr_type(ty) ==
    /\ obj[ty].ty \in DOMAIN PtrTo
    /\ ReturnType(PtrTo[obj[ty].ty], obj[ty].eng, ty, {ty})

(* QualType(T) and const(T); QualType.type                                 *)
dffi_const(ty) == ReturnQualType(obj[ty].ty, obj[ty].eng, {ty})
qualtype_type(q) == ReturnType(obj[q].ty, obj[q].eng, q, {})

(* QualType.withConst; PointerType.pointee and CPointerObj.pointeeType.    *)
(* The keep_alive policy of the first names an argument that is not there  *)
(* and belongs to a property, where pybind11 ignores it.                   *)
withConst(q) == ReturnQualType(obj[q].ty, obj[q].eng, {})
pointee(p) ==
    \E t \in Pointees(obj[p].ty) : ReturnQualType(t, obj[p].eng, {})

(* ArrayType.elementType and FunctionType.returnType; the QualTypes of     *)
(* FunctionType.params refer to the type's own vector, each with one       *)
(* wrapper, which keeps the type.                                          *)
elementType(ty) ==
    obj[ty].ty \in Array /\ \E t \in FieldTy[obj[ty].ty] : ReturnType(t, obj[ty].eng, ty, {})
returnType(ty) ==
    obj[ty].ty \in FuncTy /\ ReturnType(RetTy[obj[ty].ty], obj[ty].eng, ty, {})
params(ty) ==
    obj[ty].ty \in FuncTy /\ ReturnQualType(RetTy[obj[ty].ty], obj[ty].eng, {ty})

(* CArrayObj.elementType returns by value.                                 *)
arrayobj_elementType(o) ==
    obj[o].ty \in Array /\ \E t \in FieldTy[obj[o].ty] : ReturnQualType(t, obj[o].eng, {})

(* CompositeType.__getattr__ and CompositeField.type (one field a type).   *)
composite_getattr(ty) ==
    /\ obj[ty].ty \in Composite
    /\ ReturnPointer("CompositeField", obj[ty].ty, obj[ty].eng, ty, {})
field_type(f) ==
    \E t \in FieldTy[obj[f].ty] : ReturnType(t, obj[f].eng, f, {})

(* Type.names and the __iter__ of composites and enumerations:             *)
(* make_iterator copies C++ iterators into an object that keeps nothing.   *)
(* Its next, for the fields of a composite.                                *)
type_iter(ty) ==
    Create(Object("iterator", obj[ty].ty, obj[ty].eng, Nobody, Nobody, Nobody), {})
iter_next(it) ==
    /\ obj[it].ty \in Composite
    /\ ReturnPointer("CompositeField", obj[it].ty, obj[it].eng, it, {})

-----------------------------------------------------------------------------
(***************************************************************************)
(* C objects.                                                              *)
(***************************************************************************)

(* Type.__call__ of every class of types but enumerations, and the         *)
(* constructors of CPointerObj, CStructObj, CUnionObj and CArrayObj.       *)
type_call(ty) ==
    obj[ty].ty \notin Enum /\ Create(Owned(obj[ty].ty, obj[ty].eng, Nobody), {ty})
cobj_new(ty) ==
    /\ obj[ty].ty \notin Enum \cup FuncTy \cup Basic
    /\ Create(Owned(obj[ty].ty, obj[ty].eng, Nobody), {ty})

(* EnumType.__getattr__: no policy keeps anything.                         *)
enumtype_get(ty) ==
    obj[ty].ty \in Enum /\ Create(Owned(obj[ty].ty, obj[ty].eng, Nobody), {})

(* The operators of numbers make an object of the type of the left one.    *)
(* (+= and the like return the object itself, comparisons a bool.)         *)
operator(o) == obj[o].ty \in Basic /\ Create(Owned(obj[o].ty, obj[o].eng, Nobody), {})

(* FFI.Int(v) and the like; FFI.getFunction(T, address).                   *)
createBasicObj(ffi, t) == Create(Owned(t, ffi, Nobody), {ffi})
dffi_getfunction(ffi, ty) == Create(Owned(obj[ty].ty, obj[ty].eng, Nobody), {ffi})

(* CFunction::call and CVarArgsFunction::call: an object of the return     *)
(* type, for which nothing is kept.                                        *)
call(f) == Create(Owned(RetTy[obj[f].ty], obj[f].eng, Nobody), {})

(* typeof(O)                                                               *)
typeof(o) == ReturnQualType(obj[o].ty, obj[o].eng, {o})

(* Mutant: the pointer does not keep what it points to.                    *)
MutPtr(o) ==
    /\ obj[o].ty \in DOMAIN PtrTo
    /\ Create(Owned(PtrTo[obj[o].ty], obj[o].eng, obj[o].src), {})
(* ptr(O): a CPointerObj that holds the address of O's bytes.              *)
ptr(o) ==
    /\ obj[o].ty \in DOMAIN PtrTo
    /\ Create(Owned(PtrTo[obj[o].ty], obj[o].eng, obj[o].src), {o})

(* The cast_impl of each class of objects, to type `to` of engine eng.     *)
(* Whatever is not listed, or does not fit, gives None.                    *)
cast_basic(o, to, eng) ==
    {obj[o].ty, to} \subseteq Basic /\ Create(Owned(to, eng, Nobody), {o})
cast_pointer(o, to, eng) ==
    /\ IsPointer(obj[o].ty)
    /\ to \in Basic \/ IsPointer(to)
    /\ Create(Owned(to, eng, IF to \in Basic THEN Nobody ELSE obj[o].tgt), {o})
cast_array(o, to, eng) ==
    {obj[o].ty, to} \subseteq Array /\ Create(View(to, eng, obj[o].src), {o})
cast_composite(o, to, eng) ==
    /\ obj[o].ty \in Composite
    /\ \/ IsPointer(to) /\ Create(Owned(to, eng, obj[o].src), {o})
       \/ to \in Composite /\ Create(View(to, eng, obj[o].src), {o})

(* cast(O, T), by CObj::cast: the new object keeps the old one, and not    *)
(* the type asked for.                                                     *)
cast(o, ty) ==
    \/ cast_basic(o, obj[ty].ty, obj[ty].eng)
    \/ cast_pointer(o, obj[ty].ty, obj[ty].eng)
    \/ cast_array(o, obj[ty].ty, obj[ty].eng)
    \/ cast_composite(o, obj[ty].ty, obj[ty].eng)

(* CCompositeObj::getValue, CArrayObj::get and the iterator's next, for a  *)
(* field or an element that is not a number.                               *)
getValue(o) ==
    /\ obj[o].ty \in Composite \cup Array
    /\ \E t \in FieldTy[obj[o].ty] : Create(View(t, obj[o].eng, obj[o].src), {})

(* CPointerObj::getObj, the property obj.                                  *)
getObj(p) ==
    \E t \in Pointees(obj[p].ty) : Create(View(t, obj[p].eng, obj[p].tgt), {})

-----------------------------------------------------------------------------
(***************************************************************************)
(* Buffers.                                                                *)
(***************************************************************************)
newBuffer ==
    /\ "bytearray" \in Ops
    /\ Create(Object("bytearray", NoType, Nobody, New, Nobody, Nobody), {})

(* Mutant: the buffer keeps the view as well.                              *)
MutViewAsCycle(ty, b) ==
    /\ New <= MaxObjs
    /\ obj' = Append(obj, View(obj[ty].ty, obj[ty].eng, b))
    /\ keeps' = Append([keeps EXCEPT ![b] = @ \cup {New}], {ty, b})
    /\ alive' = alive \cup {New}
    /\ held' = held \cup {New}
    /\ UNCHANGED Ops

(* view_as(T, B)                                                           *)
view_as(ty, b) == Create(View(obj[ty].ty, obj[ty].eng, b), {ty, b})

Memoryview(src) == Object("memoryview", NoType, Nobody, src, Nobody, Nobody)

(* memoryview(O): the buffer protocol of CArrayObj.                        *)
buffer_protocol(o) == obj[o].ty \in Array /\ Create(Memoryview(obj[o].src), {o})

(* view_as_bytes(O): memoryview::from_buffer holds a bare address, and     *)
(* keep_alive<1,0> makes O keep the memoryview.                            *)
view_as_bytes(o) ==
    /\ New <= MaxObjs
    /\ obj' = Append(obj, Memoryview(obj[o].src))
    /\ keeps' = Append([keeps EXCEPT ![o] = @ \cup {New}], {})
    /\ alive' = alive \cup {New}
    /\ held' = held \cup {New}
    /\ UNCHANGED Ops

(* CPointerObj::getMemoryViewObjects and getMemoryViewCStr.                *)
viewObjects(p) == IsPointer(obj[p].ty) /\ Create(Memoryview(obj[p].tgt), {})

-----------------------------------------------------------------------------
(* Mutant: what the program does not hold is destroyed, kept or not.       *)
MutSurvivors(h) == h

(* What reference counting leaves of `alive` when the program holds h: the *)
(* largest set with h whose other members are all kept by a member.        *)
Survivors(h) ==
    UNION {S \in SUBSET alive :
              h \subseteq S /\ \A o \in S \ h : \E p \in S : o \in keeps[p]}

(* The program drops a reference; destroyed objects drop their patients.   *)
drop(o) ==
    /\ held' = held \ {o}
    /\ alive' = Survivors(held \ {o})
    /\ keeps' = [p \in DOMAIN keeps |-> IF p \in Survivors(held \ {o}) THEN keeps[p] ELSE {}]
    /\ UNCHANGED <<Ops, obj>>

Init ==
    /\ Ops \in Programs
    /\ obj = <<>>
    /\ keeps = <<>>
    /\ alive = {}
    /\ held = {}

Next ==
    \/ newFFI
    \/ newBuffer
    \/ \E o \in Args("compile", "FFI") : compile(o)
    \/ \E o \in Args("types", "CU") : cu_types(o)
    \/ \E o \in Args("funcs", "CU") : cu_funcs(o)
    \/ \E o \in Args("types", "CUTypes"), t \in CType : cutypes_getattr(o, t)
    \/ \E o \in Args("FFI.type", "FFI"), t \in FFITypes : ffi_type(o, t)
    \/ \E o \in Args("funcs", "CUFuncs"), t \in FuncTy : cufuncs_getattr(o, t)
    \/ \E o \in Args("Type.ptr", "Type") : type_ptr(o) \/ ptr_type(o)
    \/ \E o \in Args("QualType", "Type") : dffi_const(o)
    \/ \E o \in Args("QualType", "QualType") : qualtype_type(o)
    \/ \E o \in Args("withConst", "QualType") : withConst(o)
    \/ \E o \in Args("pointee", "Type") \cup Args("pointee", "CObj") : pointee(o)
    \/ \E o \in Args("parts", "Type") :
          elementType(o) \/ returnType(o) \/ params(o) \/ composite_getattr(o)
    \/ \E o \in Args("parts", "CompositeField") : field_type(o)
    \/ \E o \in Args("pointee", "CObj") : arrayobj_elementType(o)
    \/ \E o \in Args("iter", "Type") : type_iter(o)
    \/ \E o \in Args("iter", "iterator") : iter_next(o)
    \/ \E o \in Args("new", "Type") : type_call(o) \/ cobj_new(o)
    \/ \E o \in Args("enum", "Type") : enumtype_get(o)
    \/ \E o \in Args("operator", "CObj") : operator(o)
    \/ \E o \in Args("FFI.Int", "FFI"), t \in Basic : createBasicObj(o, t)
    \/ \E o \in Args("getFunction", "FFI"), t \in Args("getFunction", "Type") :
          obj[t].ty \in FuncTy /\ dffi_getfunction(o, t)
    \/ \E o \in Args("call", "CObj") : obj[o].ty \in FuncTy /\ call(o)
    \/ \E o \in Args("typeof", "CObj") : typeof(o)
    \/ \E o \in Args("ptr", "CObj") : ptr(o)
    \/ \E o \in Args("cast", "CObj"), t \in Args("cast", "Type") : cast(o, t)
    \/ \E o \in Args("getValue", "CObj") : getValue(o)
    \/ \E o \in Args("obj", "CObj") : getObj(o)
    \/ \E t \in Args("view_as", "Type"), b \in Args("view_as", "bytearray") : view_as(t, b)
    \/ \E o \in Args("memoryview", "CObj") : buffer_protocol(o)
    \/ \E o \in Args("view_as_bytes", "CObj") : view_as_bytes(o)
    \/ \E o \in Args("viewObjects", "CObj") : viewObjects(o)
    \/ \E o \in held : drop(o)

Spec == Init /\ [][Next]_vars

-----------------------------------------------------------------------------
Id == 1..Len(obj)

(* Type invariant: only what is alive keeps anything, and whatever a live  *)
(* object keeps is alive.                                                  *)
TypeOK ==
    /\ obj \in Seq([class : Class, ty : CType \cup {NoType}, eng : 0..MaxObjs,
                    src : 0..MaxObjs, tgt : 0..MaxObjs, cu : 0..MaxObjs])
    /\ DOMAIN keeps = Id
    /\ alive \subseteq Id
    /\ held \subseteq alive
    /\ \A o \in Id : keeps[o] \subseteq alive /\ (o \notin alive => keeps[o] = {})

(* Operations that keep what the new object dereferences, or an object     *)
(* that leads to it.                                                       *)
KeptOps ==
    {"FFI", "bytearray", "compile", "types", "funcs", "FFI.type", "new", "FFI.Int",
     "getFunction", "typeof", "QualType", "Type.ptr", "ptr", "cast", "view_as",
     "memoryview", "parts"}

(* cast and getFunction keep the object and the FFI they are given, and    *)
(* not the type: enough if the type cannot be of another engine.           *)
KeepingProgram ==
    /\ Ops \subseteq KeptOps
    /\ MaxFFI <= 1 \/ {"cast", "getFunction"} \cap Ops = {}

(* "Create everything and only returns a specific object. This object      *)
(* should still be usable!": whichever references the program has dropped, *)
(* the objects it still holds refer to nothing that was destroyed, as long *)
(* as it uses only operations whose results keep enough.                   *)
StillUsable == KeepingProgram => \A o \in held : Usable(o)

(* The same of the objects every program begins with, for all programs.    *)
UnitsUsable ==
    \A o \in held : obj[o].class \in {"CU", "CUTypes", "CUFuncs"} => Usable(o)

(* An object got by a cast from a pointer.                                 *)
FromPointerCast(o) ==
    \E p \in keeps[o] :
        /\ obj[o].class = "CObj" /\ obj[p].class = "CObj" /\ IsPointer(obj[p].ty)
        /\ ~(obj[p].ty \in DOMAIN PtrTo /\ obj[o].ty = PtrTo[obj[p].ty])

(* No object stays alive that no object the program holds leads to.  Casts *)
(* from pointers are excepted: a number cast from a pointer keeps it, and  *)
(* so does the number's type got from the number; ptr of that type makes   *)
(* the pointer's type keep it, which closes a cycle.                       *)
NothingLeaks ==
    (\A o \in alive : ~FromPointerCast(o)) =>
        \A S \in SUBSET alive :
            held \subseteq S /\ (\A o \in S : keeps[o] \subseteq S) => S = alive
=============================================================================
