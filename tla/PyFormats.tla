----------------------------- MODULE PyFormats ------------------------------
(***************************************************************************)
(* How Python sees the memory of a C object (bindings/python/cobj.cpp,     *)
(* MDArray in lib/dffi_types.cpp): the format and the portable format of a *)
(* type, to be read by the struct module, and the shape and strides of the *)
(* buffer of an array.                                                     *)
(*                                                                         *)
(* The only state are the types.  C declarations make new types of those   *)
(* there are, so that every type up to the bounds is met.  Bit-fields,     *)
(* which the library does not support, and flexible array members are left *)
(* out.                                                                    *)
(***************************************************************************)
EXTENDS Integers, Sequences, FiniteSetsExt

CONSTANTS
    Scalars,    \* the scalar types, each [kind, size, align, letter]; letter
                \* is FALSE for those the struct module has no letter for
    SizeBits,   \* size_t is this wide
    Lengths,    \* lengths of arrays
    MaxFields, MaxTypes  \* bounds on the members of a type and on types

(* An object is smaller than SizeMax bytes.                                *)
SizeMax == 2^SizeBits

ScalarTypes ==
    [kind : {"scalar"}, size : 0 .. SizeMax - 1, align : Nat \ {0}, letter : BOOLEAN]

(* Of two alignments, one is a multiple of the other.                      *)
ASSUME FormatAssumption ==
    /\ SizeMax \in Nat /\ Lengths \subseteq Nat /\ MaxFields \in Nat /\ MaxTypes \in Nat
    /\ Scalars \in Seq(ScalarTypes)
    /\ \A i, j \in DOMAIN Scalars :
         Scalars[i].align <= Scalars[j].align =>
           \E q \in 1 .. Scalars[j].align : Scalars[j].align = q * Scalars[i].align

VARIABLES
    types,   \* the types: kind, size, align, and of a structure its fields
             \* [off, ty], of an array its element type and length.  A type
             \* is referred to by its position.
    natural  \* the types of which no part is packed

vars == <<types, natural>>

Types == DOMAIN types
-----------------------------------------------------------------------------
(***************************************************************************)
(* C declarations, with the layout clang gives them.                       *)
(***************************************************************************)
AlignUp(n, a) == ((n + a - 1) \div a) * a

(* A packed type and its members are not aligned.                          *)
AlignOf(m, packed) == IF packed THEN 1 ELSE types[m].align
CompositeAlign(ms, packed) == Max({1} \cup {AlignOf(ms[i], packed) : i \in DOMAIN ms})

Offsets(ms, packed) ==
    LET off[i \in DOMAIN ms] ==
          AlignUp(IF i = 1 THEN 0 ELSE off[i - 1] + types[ms[i - 1]].size, AlignOf(ms[i], packed))
    IN off

Struct(ms, packed) ==
    LET n == Len(ms)
        off == Offsets(ms, packed)
        align == CompositeAlign(ms, packed)
    IN [kind |-> "struct", fields |-> [i \in DOMAIN ms |-> [off |-> off[i], ty |-> ms[i]]],
        align |-> align, size |-> AlignUp(off[n] + types[ms[n]].size, align)]

Union(ms, packed) ==
    LET align == CompositeAlign(ms, packed) IN
    [kind |-> "union", align |-> align,
     size |-> AlignUp(Max({types[ms[i]].size : i \in DOMAIN ms}), align)]

Array(t, n) ==
    [kind |-> "array", elem |-> t, num |-> n, align |-> types[t].align, size |-> n * types[t].size]

(* The compiler refuses types that are too large.                          *)
Declare(type, isNatural) ==
    /\ Len(types) < MaxTypes
    /\ type.size < SizeMax
    /\ types' = Append(types, type)
    /\ natural' = IF isNatural THEN natural \cup {Len(types) + 1} ELSE natural

MemberLists == UNION {[1 .. n -> Types] : n \in 1 .. MaxFields}

DeclareStruct ==
    \E ms \in MemberLists, packed \in BOOLEAN :
      Declare(Struct(ms, packed), ~packed /\ \A i \in DOMAIN ms : ms[i] \in natural)

DeclareUnion ==
    \E ms \in MemberLists, packed \in BOOLEAN :
      Declare(Union(ms, packed), ~packed /\ \A i \in DOMAIN ms : ms[i] \in natural)

(* FFI.arrayType, or an array declared in C.                               *)
arrayType == \E t \in Types, n \in Lengths : Declare(Array(t, n), t \in natural)

Init == types = Scalars /\ natural = DOMAIN Scalars

Next == DeclareStruct \/ DeclareUnion \/ arrayType

Spec == Init /\ [][Next]_vars
-----------------------------------------------------------------------------
(***************************************************************************)
(* Formats.  A format is a sequence of items: how many, of which size,     *)
(* their native alignment, and whether they are padding ("x").             *)
(***************************************************************************)
Item(n, size, align, pad) == [n |-> n, size |-> size, align |-> align, pad |-> pad]

Bytes(t) == Item(types[t].size, 1, 1, FALSE)
Padding(n) == IF n > 0 THEN <<Item(n, 1, 1, TRUE)>> ELSE <<>>

(* Mutant: no padding at the end.                                          *)
MutFinalPadding(t, CurIdx) == <<>>

(* STy->getSize() - CurIdx bytes, in size_t.                               *)
FinalPadding(t, CurIdx) == Padding((types[t].size - CurIdx) % SizeMax)

(* Mutant: long double is given the letter of double.                      *)
MutScalarFormat(t, native) ==
    IF types[t].letter THEN Item(1, types[t].size, types[t].align, FALSE)
    ELSE IF native THEN Item(1, 8, 8, FALSE) ELSE Bytes(t)

(* The formats of basic types and pointers, native and portable: a letter  *)
(* of that size if there is one.                                           *)
ScalarFormat(t, native) ==
    IF types[t].letter THEN Item(1, types[t].size, types[t].align, FALSE) ELSE Bytes(t)

(* Where the i-th field of t ends.                                         *)
CurIdx(t, i) ==
    IF i = 0 THEN 0 ELSE types[t].fields[i].off + types[types[t].fields[i].ty].size

(* The fields of t, if F has the formats of their types.                   *)
FieldFormats(F, t) ==
    LET fields == types[t].fields
        Ret[i \in 0 .. Len(fields)] ==
          IF i = 0 THEN <<>>
          ELSE Ret[i - 1] \o Padding(fields[i].off - CurIdx(t, i - 1)) \o F[fields[i].ty]
    IN Ret[Len(fields)]

(* Structures are formatted member by member, all else as bytes.           *)
FormatOf(F, t, native) ==
    CASE types[t].kind = "scalar" -> <<ScalarFormat(t, native)>>
      [] types[t].kind = "struct" ->
           FieldFormats(F, t) \o FinalPadding(t, CurIdx(t, Len(types[t].fields)))
      [] OTHER -> <<Bytes(t)>>

getFormatDescriptorImpl(native) ==
    LET F[t \in Types] == FormatOf(F, t, native) IN F

getFormatDescriptor(t) == getFormatDescriptorImpl(TRUE)[t]
getPortableFormatDescriptor(t) == getFormatDescriptorImpl(FALSE)[t]

(* Where the struct module finds the values: one after the other, in       *)
(* native mode (no "<") at the next multiple of their alignment.           *)
Read(acc, it, native) ==
    LET from == IF native THEN AlignUp(acc.pos, it.align) ELSE acc.pos IN
    [pos |-> from + it.n * it.size,
     found |-> acc.found \cup
               IF it.pad THEN {} ELSE {<<from + (k - 1) * it.size, it.size>> : k \in 1 .. it.n}]

Unpack(format, native) ==
    LET R[k \in 0 .. Len(format)] ==
          IF k = 0 THEN [pos |-> 0, found |-> {}] ELSE Read(R[k - 1], format[k], native)
    IN R[Len(format)]
-----------------------------------------------------------------------------
(***************************************************************************)
(* Buffers of arrays.                                                      *)
(***************************************************************************)
(* MDArray::fromArrayTy: lengths, outermost first, and element type.       *)
MDArrayOf(M, t) ==
    IF types[t].kind = "array"
    THEN LET in == M[types[t].elem] IN [shape |-> <<types[t].num>> \o in.shape, elem |-> in.elem]
    ELSE [shape |-> <<>>, elem |-> t]

fromArrayTy ==
    LET M[t \in Types] == MDArrayOf(M, t) IN M

(* Mutant: strides are laid out from the first dimension.                  *)
MutStrides(shape, EltSize) ==
    LET S[i \in DOMAIN shape] == IF i = 1 THEN EltSize ELSE S[i - 1] * shape[i - 1] IN S

(* From the last dimension to the first.                                   *)
Strides(shape, EltSize) ==
    LET S[i \in DOMAIN shape] == IF i = Len(shape) THEN EltSize ELSE S[i + 1] * shape[i + 1] IN S

(* CArrayObj::getBufferInfo.                                               *)
getBufferInfo(t) ==
    LET MDA == fromArrayTy[t]
        EltSize == types[MDA.elem].size
    IN [shape |-> MDA.shape, itemsize |-> EltSize,
        format |-> getFormatDescriptor(MDA.elem), strides |-> Strides(MDA.shape, EltSize)]
-----------------------------------------------------------------------------
(***************************************************************************)
(* Properties.                                                             *)
(***************************************************************************)
Shifted(values, base) == {<<v[1] + base, v[2]>> : v \in values}

(* Where C keeps the values of each type, counted from its start.          *)
ValuesOf(V, t) ==
    CASE types[t].kind = "scalar" /\ types[t].letter -> {<<0, types[t].size>>}
      [] types[t].kind = "struct" ->
           UNION {Shifted(V[F.ty], F.off) :
                  F \in {types[t].fields[i] : i \in DOMAIN types[t].fields}}
      [] OTHER -> {<<k - 1, 1>> : k \in 1 .. types[t].size}

CValues ==
    LET V[t \in Types] == ValuesOf(V, t) IN V

(* The portable format of every type finds every value where C keeps it,   *)
(* and is as long as the type, whatever the order of the fields, the       *)
(* nesting of structures and the packing.                                  *)
PortableFaithful ==
    \A t \in Types :
      LET u == Unpack(getPortableFormatDescriptor(t), FALSE) IN
      u.found = CValues[t] /\ u.pos = types[t].size

(* The format, which the struct module reads with the native alignment on  *)
(* top of the padding written into it, gives the same for every type       *)
(* without packed parts: an alignment never adds to the padding.           *)
NativeFaithful ==
    \A t \in natural :
      LET u == Unpack(getFormatDescriptor(t), TRUE) IN
      u.found = CValues[t] /\ u.pos = types[t].size

(* The buffer of an array of any number of dimensions takes them all: its  *)
(* types, from the array to the items, are each that of the elements of    *)
(* the one before, and stepping in a dimension goes from one element in C  *)
(* to the next.  The items are of the size the format says, where the      *)
(* format is one the struct module reads right.                            *)
BufferFaithful ==
    \A t \in Types : types[t].kind = "array" =>
      LET b == getBufferInfo(t)
          dims == DOMAIN b.shape
      IN \E level \in [{0} \cup dims -> Types] :
           /\ level[0] = t
           /\ \A d \in dims :
                LET a == types[level[d - 1]] IN
                /\ a.kind = "array" /\ a.num = b.shape[d] /\ a.elem = level[d]
                /\ b.strides[d] = types[level[d]].size
           /\ LET item == level[Len(b.shape)] IN
              /\ types[item].kind # "array" /\ types[item].size = b.itemsize
              /\ t \in natural => Unpack(b.format, TRUE).pos = b.itemsize
=============================================================================
