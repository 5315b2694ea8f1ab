------------------------------ MODULE MCCUTypes -----------------------------
(***************************************************************************)
(* The debug information of a C program that has what makes the passes     *)
(* depend on each other:                                                   *)
(*                                                                         *)
(*   typedef struct { char buf[7];       // after tests/anon_members.cpp   *)
(*     struct { int a, b; union { int c; float d; }; }; int f; } A;        *)
(*   typedef const A AA;                                                   *)
(*   enum K { k0 };                                                        *)
(*   struct Leaf { int v; };                                               *)
(*   struct Outer { struct Leaf l; } __attribute__((aligned(16)));         *)
(*   typedef struct Leaf Outer;           // a tag and a typedef, one name *)
(*   struct Fwd;                                                           *)
(*   struct Node { const struct Node *next; enum K k; A own[2];            *)
(*                 op_t *op; struct Fwd *fwd; };                           *)
(*   // op_t stands for the type int (struct Node *, int, ...)             *)
(*   struct B { int x; };                                                  *)
(*   void f(struct Node *n, Outer o) { struct B { int y; } b; ... }        *)
(*   struct __attribute__((packed)) Pack { char c; int i; };               *)
(*   AA g(struct B b, struct Outer o, struct Pack p) { ... }               *)
(***************************************************************************)
EXTENDS CUTypes

Node(tag, name, base, elems) ==
    [tag |-> tag, name |-> name, base |-> base, elems |-> elems, sig |-> <<>>, count |-> 0,
     fwd |-> FALSE, cxx |-> FALSE, packed |-> FALSE, aligned |-> 1]
Derived(tag, base) == Node(tag, "", base, <<>>)
Typedef(name, base) == Node("typedef", name, base, <<>>)
Struct(name, elems) == Node("structure_type", name, NoNode, elems)
Array(base, n) == [Derived("array_type", base) EXCEPT !.count = n]
Function(sig) == [Derived("subroutine_type", NoNode) EXCEPT !.sig = sig]
Member(name, base, off) == [name |-> name, base |-> base, off |-> off]

MCDIType == {"char", "int", "float", "char7", "A0", "A1", "A2", "A", "constA", "AA",
             "K", "Leaf", "Outer", "tOuter", "Fwd", "pFwd", "Node", "cNode", "pcNode",
             "pNode", "A_2", "op", "pop", "B", "B2", "Pack", "f", "g"}

MCDI == [d \in MCDIType |->
    CASE d \in {"char", "int", "float"} -> Node("base_type", d, NoNode, <<>>)
      [] d = "char7" -> Array("char", 7)
      [] d = "A0" -> Struct("", <<Member("buf", "char7", 0), Member("", "A1", 64),
                                  Member("f", "int", 160)>>)
      [] d = "A1" -> Struct("", <<Member("a", "int", 0), Member("b", "int", 32),
                                  Member("", "A2", 64)>>)
      [] d = "A2" -> Node("union_type", "", NoNode,
                          <<Member("c", "int", 0), Member("d", "float", 0)>>)
      [] d = "A" -> Typedef("A", "A0")
      [] d = "constA" -> Derived("const_type", "A")
      [] d = "AA" -> Typedef("AA", "constA")
      [] d = "K" -> Node("enumeration_type", "K", NoNode, <<>>)
      [] d = "Leaf" -> Struct("Leaf", <<Member("v", "int", 0)>>)
      [] d = "Outer" -> [Struct("Outer", <<Member("l", "Leaf", 0)>>) EXCEPT !.aligned = 16]
      [] d = "tOuter" -> Typedef("Outer", "Leaf")
      [] d = "Fwd" -> [Struct("Fwd", <<>>) EXCEPT !.fwd = TRUE]
      [] d = "pFwd" -> Derived("pointer_type", "Fwd")
      [] d = "Node" -> Struct("Node", <<Member("next", "pcNode", 0), Member("k", "K", 64),
                                        Member("own", "A_2", 96), Member("op", "pop", 512),
                                        Member("fwd", "pFwd", 576)>>)
      [] d = "cNode" -> Derived("const_type", "Node")
      [] d = "pcNode" -> Derived("pointer_type", "cNode")
      [] d = "pNode" -> Derived("pointer_type", "Node")
      [] d = "A_2" -> Array("A", 2)
      [] d = "op" -> Function(<<"int", "pNode", "int", NoNode>>)
      [] d = "pop" -> Derived("pointer_type", "op")
      [] d = "B" -> Struct("B", <<Member("x", "int", 0)>>)
      [] d = "B2" -> Struct("B", <<Member("y", "int", 0)>>)
      [] d = "f" -> Function(<<NoNode, "pNode", "tOuter">>)
      [] d = "Pack" -> [Struct("Pack", <<Member("c", "char", 0), Member("i", "int", 8)>>)
                          EXCEPT !.packed = TRUE]
      [] d = "g" -> Function(<<"AA", "B", "Outer", "Pack">>)]

MCRoots == {"f", "g", "B2"}
MCBasicAlign == [n \in {"char", "int", "float"} |-> IF n = "char" THEN 1 ELSE 4]

(* The theorems about CUTypes speak of this program.                       *)
Nesting[d \in DIType] ==
    IF DI[d].tag \notin DerivedTags THEN 0
    ELSE 1 + Max({0} \cup {Nesting[p] : p \in PartsOf(d) \ {NoNode}})

MemberNesting[d \in DIType] ==
    Max({0} \cup {1 + MemberNesting[e.base] : e \in {x \in Range(DI[d].elems) : x.name = ""}})

Containment[d \in DIType] ==
    LET inner == Range([i \in DOMAIN DI[d].elems |-> DI[d].elems[i].base])
                   \cup (IF DI[d].tag \in SameTags \cup {"const_type", "array_type"}
                         THEN {DI[d].base} ELSE {})
    IN Max({0} \cup {1 + Containment[e] : e \in inner \ {NoNode}})

(* What is an object type, and what can be a member.                       *)
Objects == DIType \ {"op", "f", "g"}
Members == Objects \ {"B", "B2", "Fwd"}

ASSUME ProgramReadable ==
    /\ NestedBy(Nesting, 4) /\ OneKind /\ NamesOwn
    /\ Readable(Objects) /\ Readable(Members) /\ Sized(Members)
    /\ MembersNamed(MemberNesting, 2) /\ Contained(Containment, 7)
=============================================================================
