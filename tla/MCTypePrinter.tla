--------------------------- MODULE MCTypePrinter ----------------------------
(***************************************************************************)
(* Types that refer to each other in every way C has:                      *)
(*                                                                         *)
(*   struct Opaque;                                                        *)
(*   struct Leaf { int v; struct Node *owner; };                           *)
(*   union U { struct Leaf ls[2]; enum K k; };                             *)
(*   struct Node { struct Node *next; struct Leaf leaf; map_t *map;        *)
(*                 struct Ops *ops; };                                     *)
(*   // map_t is struct Node (struct Node, union U *u)                     *)
(*   struct Ops { open_t *open; u3_t *us; struct Opaque *o; };             *)
(*   // open_t is struct Node (struct Ops), u3_t is union U[3]             *)
(*   void f(struct Node *n);                                               *)
(*   union U g(struct Ops);                                                *)
(*   int h(struct Leaf, struct Opaque *o, ...);   // also called with      *)
(*                                    // a struct Leaf and an int          *)
(*   struct Leaf k(struct Node, struct Leaf);                              *)
(***************************************************************************)
EXTENDS TypePrinter

T(kind, elem) == [kind |-> kind, elem |-> elem, params |-> <<>>, fields |-> <<>>]
Pointer(t) == T("pointer", t)
Func(ret, params) == [T("function", ret) EXCEPT !.params = params]
Rec(kind, fields) == [T(kind, NoType) EXCEPT !.fields = fields]

MCFuncTy == {"f", "g", "h", "k"}
MCType == MCFuncTy \cup
    {"int", "K", "Opaque", "Leaf", "U", "Node", "Ops", "pOpaque", "pNode", "pU", "pOps",
     "Leaf2", "map", "pmap", "open", "popen", "U3", "pU3"}

MCDef == [t \in MCType |->
    CASE t = "int" -> T("basic", NoType)
      [] t = "K" -> T("enum", NoType)
      [] t = "Opaque" -> Rec("struct", <<>>)
      [] t = "Leaf" -> Rec("struct", <<"int", "pNode">>)
      [] t = "Leaf2" -> T("array", "Leaf")
      [] t = "U" -> Rec("union", <<"Leaf2", "K">>)
      [] t = "Node" -> Rec("struct", <<"pNode", "Leaf", "pmap", "pOps">>)
      [] t = "map" -> Func("Node", <<"Node", "pU">>)
      [] t = "open" -> Func("Node", <<"Ops">>)
      [] t = "U3" -> T("array", "U")
      [] t = "Ops" -> Rec("struct", <<"popen", "pU3", "pOpaque">>)
      [] t = "pOpaque" -> Pointer("Opaque")
      [] t = "pNode" -> Pointer("Node")
      [] t = "pU" -> Pointer("U")
      [] t = "pOps" -> Pointer("Ops")
      [] t = "pmap" -> Pointer("map")
      [] t = "popen" -> Pointer("open")
      [] t = "pU3" -> Pointer("U3")
      [] t = "f" -> Func(NoType, <<"pNode">>)
      [] t = "g" -> Func("U", <<"Ops">>)
      [] t = "h" -> Func("int", <<"Leaf", "pOpaque">>)
      [] t = "k" -> Func("Leaf", <<"Node", "Leaf">>)]

MCVarArgs == [f \in MCFuncTy |-> IF f = "h" THEN {<<"Leaf", "int">>} ELSE {}]

(* int show(int, ...);  called with a struct Pt { int x; int y; }          *)
VaFuncTy == {"show"}
VaType == VaFuncTy \cup {"int", "Pt"}
VaDef == [t \in VaType |->
    CASE t = "int" -> T("basic", NoType)
      [] t = "Pt" -> Rec("struct", <<"int", "int">>)
      [] t = "show" -> Func("int", <<"int">>)]
VaVarArgs == [f \in VaFuncTy |-> {<<"int">>, <<"Pt">>}]

(* The first program is one the theorem about the printer speaks of; the   *)
(* second passes a structure nothing completes.                            *)
Order == [t \in Type |->
    CASE t \in {"Opaque", "pOpaque", "int", "K", "pNode", "pOps", "pU", "f", "show"} -> 0
      [] t \in {"Leaf", "Leaf2", "h"} -> 1
      [] t \in {"U", "U3", "pU3"} -> 2
      [] t \in {"Node", "map", "pmap", "k"} -> 3
      [] t \in {"Ops", "open", "popen", "g"} -> 4
      [] t = "Pt" -> 0]

Nesting == [t \in Type |->
    IF t = "pmap" THEN 2
    ELSE IF t \in {"map", "popen", "pU3", "show"} \cup MCFuncTy THEN 1 ELSE 0]

ASSUME ProgramInOrder ==
    /\ OrderedBy(Order) /\ NestedBy(Nesting, 2)
    /\ Type = MCType => ArgumentsComplete
=============================================================================
