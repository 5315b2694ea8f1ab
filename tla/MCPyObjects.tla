---------------------------- MODULE MCPyObjects ----------------------------
(* struct A { struct A* next; ... };  struct A arrays;  enum E;            *)
(* int F(int);                                                             *)
EXTENDS PyObjects

MCPtrTo == [t \in {"A", "int"} |-> IF t = "A" THEN "A*" ELSE "int*"]
MCFieldTy == [t \in {"A", "A[]"} |-> IF t = "A" THEN {"A*"} ELSE {"A"}]
MCRetTy == [t \in {"F"} |-> "int"]

(* A program that uses only the operations whose results keep what they    *)
(* use, and one that uses all others, and what they need.                  *)
MCPrograms ==
    {KeptOps,
     {"FFI", "FFI.type", "compile", "types", "funcs", "new", "typeof", "QualType", "ptr", "cast",
      "withConst", "pointee", "call", "getValue", "obj", "view_as_bytes",
      "viewObjects", "parts", "iter", "enum", "operator"}}
=============================================================================
