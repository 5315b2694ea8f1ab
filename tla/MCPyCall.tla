------------------------------ MODULE MCPyCall ------------------------------
(* Constants of the model-checking run of PyCall.                          *)
EXTENDS PyCall

CONSTANTS none, long1, ptr1, cptr1, arr1, carr1, str1, badstr1,
          bytes1, buf1, struct1,
          inc, put, fill, copyin, log

Obj(kind, ty, const, fits, to, ndim) ==
    [kind |-> kind, ty |-> ty, const |-> const, fits |-> fits, to |-> to, ndim |-> ndim]

(* A C long, which converts to int; a char pointer and a const one, both   *)
(* into the array arr1; that array and one of const char; a string, one    *)
(* that has no encoding, bytes, a bytearray, and a structure.              *)
MCPy == [v \in Val |->
    CASE v = long1 -> Obj("cbasic", "long", FALSE, {"int", "long"}, none, 0)
      [] v = ptr1 -> Obj("cpointer", "char", FALSE, {}, arr1, 0)
      [] v = cptr1 -> Obj("cpointer", "char", TRUE, {}, arr1, 0)
      [] v = arr1 -> Obj("carray", "char", FALSE, {}, none, 1)
      [] v = carr1 -> Obj("carray", "char", TRUE, {}, none, 1)
      [] v = str1 -> Obj("str", "char", TRUE, {}, none, 0)
      [] v = badstr1 -> Obj("str", "char", TRUE, {}, none, 0)
      [] v = bytes1 -> Obj("bytes", "uchar", TRUE, {}, none, 1)
      [] v = buf1 -> Obj("buffer", "uchar", FALSE, {}, none, 1)
      [] v = struct1 -> Obj("cstruct", "S", FALSE, {}, none, 0)]

Par(kind, ty, const) == [kind |-> kind, ty |-> ty, const |-> const]

(* int inc(int x); void put(struct S s); void fill(unsigned char *to);     *)
(* void copyin(char *to, const char *from); void log(const char *how, ...) *)
MCParams == [f \in Fun |->
    CASE f = inc -> <<Par("basic", "int", FALSE)>>
      [] f = put -> <<Par("struct", "S", FALSE)>>
      [] f = fill -> <<Par("pointer", "uchar", FALSE)>>
      [] f = copyin -> <<Par("pointer", "char", FALSE), Par("pointer", "char", TRUE)>>
      [] f = log -> <<Par("pointer", "char", TRUE)>>]

MCFmt == [char |-> "b", uchar |-> "B", int |-> "i"]
=============================================================================
