---------------------------- MODULE MCPyFormats -----------------------------
(* Constants of the model-checking run of PyFormats: char, int, and        *)
(* long double, which has no letter.                                       *)
EXTENDS PyFormats

ScalarTy(size, letter) == [kind |-> "scalar", size |-> size, align |-> size, letter |-> letter]

MCScalars == <<ScalarTy(1, TRUE), ScalarTy(4, TRUE), ScalarTy(16, FALSE)>>
=============================================================================
