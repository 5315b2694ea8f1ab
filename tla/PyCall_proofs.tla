--------------------------- MODULE PyCall_proofs ----------------------------
(***************************************************************************)
(* Theorems about calls from Python (PyCall), for any objects, functions,  *)
(* numbers of arguments and depth of nesting.                              *)
(*                                                                         *)
(* The properties follow from one invariant: the first arguments of every  *)
(* call in progress have been converted as Conv says, and the temporaries  *)
(* this made exist as long as the call does.                               *)
(***************************************************************************)
EXTENDS PyCall, TLAPS

Mem == Val \cup {NoVal} \cup Temp
Ptr == [obj : Val \cup Temp, mem : Mem, at : Nat]
Call == [args : Seq(Val), params : Seq(Param), ptrs : Seq(Ptr), native : BOOLEAN]

(* Argument i of call c at depth d is converted: passed as it is, or       *)
(* through temporaries that exist; and where it was found, as long as the  *)
(* host leaves passed buffers alone.                                       *)
Converted(c, d, i, tmps, mvs) ==
    LET p == c.params[i]
        v == c.args[i]
        conv == Conv(p, v)
    IN /\ conv # "raises"
       /\ c.ptrs[i].obj = IF conv = "as is" THEN v ELSE <<d, i, "object">>
       /\ c.ptrs[i].mem = Target(p, conv, v, d, i)
       /\ TempsOf(conv, d, i) \subseteq tmps
       /\ ~ResizesPassed =>
            c.ptrs[i].at = IF c.ptrs[i].mem \in DOMAIN mvs THEN mvs[c.ptrs[i].mem] ELSE 0

CallInv(c, d, tmps, mvs) ==
    /\ Len(c.args) = Len(c.params)
    /\ Len(c.ptrs) <= Len(c.params)
    /\ c.native => Len(c.ptrs) = Len(c.params)
    /\ \A i \in DOMAIN c.ptrs : Converted(c, d, i, tmps, mvs)

StateTyped ==
    /\ held \subseteq Val /\ moves \in [Val -> 0 .. MaxMoves]
    /\ stack \in Seq(Call) /\ Len(stack) <= MaxDepth
    /\ temps \subseteq Temp

IInv ==
    /\ StateTyped
    /\ \A d \in DOMAIN stack : CallInv(stack[d], d, temps, moves)
    /\ \A d \in DOMAIN stack : d < Len(stack) => stack[d].native
    /\ \A t \in temps : t[1] \in DOMAIN stack /\ t[2] \in DOMAIN stack[t[1]].ptrs
-----------------------------------------------------------------------------
(***************************************************************************)
(* Lemmas about the conversion.                                            *)
(***************************************************************************)
(* What Conv lets through: an argument passed as it is is a C object of    *)
(* the parameter's kind, and a pointer argument to const memory that is    *)
(* not an array goes to a parameter that takes const.                      *)
LEMMA ConvFacts ==
    ASSUME NEW p \in Param, NEW v \in Val
    PROVE  /\ Conv(p, v) = "as is" =>
                /\ Py[v].kind = CKind[p.kind]
                /\ p.kind = "basic" => Py[v].ty = p.ty
           /\ p.kind = "pointer" => Conv(p, v) \in {"raises", "as is", "pointer", "utf8"}
           /\ p.kind = "pointer" /\ Conv(p, v) \in {"as is", "pointer"} =>
                (Py[v].const /\ Py[v].kind # "carray" => p.const)
           /\ p.kind = "pointer" /\ Conv(p, v) = "utf8" => p.const
           /\ p.kind # "pointer" => Conv(p, v) \in {"raises", "as is", "value"}
<1>1. p.kind = "pointer" =>
        /\ PointerConv(p, v) \in {"raises", "as is", "pointer", "utf8"}
        /\ PointerConv(p, v) = "as is" => Py[v].kind = "cpointer"
        /\ PointerConv(p, v) \in {"as is", "pointer"} => (Py[v].const /\ Py[v].kind # "carray" => p.const)
        /\ PointerConv(p, v) = "utf8" => p.const
  BY DEF PointerConv, TextConv, BufferConv, DropsConst, ReadOnly, Promoted, TakesText, Param
<1>2. CASE p.kind = "pointer"
  <2>1. Conv(p, v) = PointerConv(p, v)
    BY <1>2 DEF Conv
  <2>2. CKind["pointer"] = "cpointer"
    BY DEF CKind
  <2> QED
    BY <1>1, <1>2, <2>1, <2>2
<1>3. CASE p.kind # "pointer"
  BY <1>3 DEF Conv
<1> QED
  BY <1>2, <1>3

(* The temporaries of an argument are those of its call and position.      *)
LEMMA TempsTyped ==
    ASSUME NEW conv, NEW d \in Nat, NEW i \in Nat
    PROVE  /\ TempsOf(conv, d, i) \subseteq Temp
           /\ \A t \in TempsOf(conv, d, i) : t[1] = d /\ t[2] = i
  BY DEF TempsOf, Temp

(* What a converted argument points to.                                    *)
LEMMA TargetTyped ==
    ASSUME NEW p \in Param, NEW v \in Val, NEW d \in Nat, NEW i \in Nat
    PROVE  /\ Target(p, Conv(p, v), v, d, i) \in Mem
           /\ Target(p, Conv(p, v), v, d, i) \in Val =>
                \/ Target(p, Conv(p, v), v, d, i) = v
                \/ /\ Target(p, Conv(p, v), v, d, i) = Py[v].to
                   /\ IsCObj(Py[v].to)
<1>1. <<d, i, "bytes">> \in Temp /\ <<d, i, "bytes">> \notin Val
  BY CallAssumption DEF Temp
<1>2. NoVal \notin Val /\ (Py[v].to = NoVal \/ (Py[v].to \in Val /\ IsCObj(Py[v].to)))
  BY CallAssumption
<1> QED
  BY <1>1, <1>2 DEF Target, Mem
-----------------------------------------------------------------------------
(***************************************************************************)
(* The invariant is inductive.                                             *)
(***************************************************************************)
(* A call stays converted while the temporaries at its depth exist and     *)
(* what it was given has not moved.                                        *)
LEMMA CallKept ==
    ASSUME NEW c \in Call, NEW d \in Nat, NEW tmps, NEW tmps2, NEW mvs,
           CallInv(c, d, tmps, mvs),
           \A t \in tmps : t[1] = d => t \in tmps2
    PROVE  CallInv(c, d, tmps2, mvs)
<1>1. ASSUME NEW i \in DOMAIN c.ptrs
      PROVE  Converted(c, d, i, tmps2, mvs)
  <2>1. Converted(c, d, i, tmps, mvs)
    BY <1>1 DEF CallInv
  <2>2. i \in Nat
    BY <1>1 DEF Call
  <2>3. \A t \in TempsOf(Conv(c.params[i], c.args[i]), d, i) : t[1] = d
    BY <2>2, TempsTyped
  <2> QED
    BY <2>1, <2>3 DEF Converted
<1> QED
  BY <1>1 DEF CallInv

(* The end of a call, by a return or an exception, takes its own           *)
(* temporaries and nobody else's.                                          *)
LEMMA UnwindKeeps ==
    ASSUME IInv, stack # <<>>, stack' = Pop, Release(Len(stack)),
           UNCHANGED <<held, moves>>
    PROVE  IInv'
<1> DEFINE n == Len(stack)
<1>1. /\ n \in Nat \ {0} /\ DOMAIN stack = 1 .. n
      /\ \A d \in 1 .. n : stack[d] \in Call
  BY DEF IInv, StateTyped
<1>2. /\ stack' \in Seq(Call) /\ Len(stack') = n - 1
      /\ DOMAIN stack' = 1 .. (n - 1)
      /\ \A d \in 1 .. (n - 1) : stack'[d] = stack[d]
  BY <1>1 DEF IInv, StateTyped, Pop
<1>3. StateTyped'
  BY <1>1, <1>2, CallAssumption DEF IInv, StateTyped, Release
<1>4. ASSUME NEW d \in 1 .. (n - 1)
      PROVE  CallInv(stack'[d], d, temps', moves')
  <2>1. CallInv(stack[d], d, temps, moves) /\ stack[d] \in Call /\ d \in Nat
    BY <1>1 DEF IInv
  <2>2. \A t \in temps : t[1] = d => t \in temps'
    BY <1>1 DEF Release
  <2>3. CallInv(stack[d], d, temps', moves)
    BY <2>1, <2>2, CallKept
  <2> QED
    BY <1>2, <2>3
<1>5. \A d \in 1 .. (n - 1) : stack'[d].native
  BY <1>1, <1>2 DEF IInv
<1>6. ASSUME NEW t \in temps'
      PROVE  t[1] \in 1 .. (n - 1) /\ t[2] \in DOMAIN stack'[t[1]].ptrs
  <2>1. t \in temps /\ t[1] # n
    BY DEF Release
  <2>2. t[1] \in 1 .. n /\ t[2] \in DOMAIN stack[t[1]].ptrs
    BY <1>1, <2>1 DEF IInv
  <2>3. t[1] \in 1 .. (n - 1)
    BY <1>1, <2>1, <2>2
  <2> QED
    BY <1>2, <2>2, <2>3
<1> QED
  BY <1>2, <1>3, <1>4, <1>5, <1>6 DEF IInv

(* A call is pushed with as many arguments as its wrapper has parameters.  *)
LEMMA CallKeeps ==
    ASSUME IInv, call
    PROVE  IInv'
<1> DEFINE n == Len(stack)
<1>1. PICK f \in Fun, args \in ArgLists :
        /\ Accepts(f, args)
        /\ stack' = Append(stack, [args |-> args, params |-> WrapperParams(f, args),
                                   ptrs |-> <<>>, native |-> FALSE])
  BY DEF call
<1> DEFINE c == [args |-> args, params |-> WrapperParams(f, args),
                 ptrs |-> <<>>, native |-> FALSE]
<1>2. args \in Seq(Val) /\ Params[f] \in Seq(Param)
  <2>1. PICK k \in 0 .. MaxArgs : args \in [1 .. k -> held]
    BY DEF ArgLists
  <2> QED
    BY <2>1, CallAssumption DEF IInv, StateTyped
<1>3. WrapperParams(f, args) \in Seq(Param)
  <2>1. CASE f \notin VarFun
    BY <1>2, <2>1 DEF WrapperParams
  <2>2. CASE f \in VarFun
    <3> DEFINE e == Extra(f, args)
    <3>1. e \in Seq(Val)
      BY <1>2 DEF Extra
    <3>2. \A i \in DOMAIN e : IsCObj(e[i]) /\ e[i] \in Val
      BY <1>1, <2>2, <3>1 DEF Accepts, ExtraAccepted
    <3>3. ASSUME NEW v \in Val, IsCObj(v)
          PROVE  ParamOf(v) \in Param
      <4>1. (CHOOSE k \in DOMAIN CKind : CKind[k] = Py[v].kind) \in DOMAIN CKind
        BY <3>3 DEF IsCObj
      <4> QED
        BY <4>1, CallAssumption DEF ParamOf, Param
    <3>4. [i \in DOMAIN e |-> ParamOf(e[i])] \in Seq(Param)
      <4>1. Len(e) \in Nat /\ DOMAIN e = 1 .. Len(e)
        BY <3>1
      <4>2. \A i \in 1 .. Len(e) : ParamOf(e[i]) \in Param
        BY <3>2, <3>3, <4>1
      <4> HIDE DEF e
      <4> QED
        BY <4>1, <4>2
    <3>5. WrapperParams(f, args) = Params[f] \o [i \in DOMAIN e |-> ParamOf(e[i])]
      BY <2>2 DEF WrapperParams
    <3> HIDE DEF e
    <3> QED
      BY <1>2, <3>4, <3>5
  <2> QED
    BY <2>1, <2>2
<1>4. c \in Call
  BY <1>2, <1>3 DEF Call
<1>5. c.args = args /\ c.params = WrapperParams(f, args) /\ c.ptrs = <<>> /\ c.native = FALSE
  OBVIOUS
<1>6. /\ n \in Nat /\ DOMAIN stack = 1 .. n /\ n < MaxDepth
      /\ \A d \in 1 .. n : stack[d] \in Call
  BY DEF IInv, StateTyped, call
<1>7. CallInv(c, n + 1, temps, moves)
  <2>1. Len(c.args) = Len(c.params)
    BY <1>1, <1>5 DEF Accepts
  <2> QED
    BY <2>1, <1>3, <1>5 DEF CallInv
<1>8. stack' = Append(stack, c)
  BY <1>1
<1> HIDE DEF c
<1>9. /\ stack' \in Seq(Call) /\ Len(stack') = n + 1
      /\ DOMAIN stack' = 1 .. (n + 1)
      /\ \A d \in 1 .. n : stack'[d] = stack[d]
      /\ stack'[n + 1] = c
  BY <1>4, <1>6, <1>8 DEF IInv, StateTyped
<1>10. StateTyped'
  BY <1>6, <1>9, CallAssumption DEF IInv, StateTyped, call
<1>11. \A d \in 1 .. (n + 1) : CallInv(stack'[d], d, temps', moves')
  <2>1. \A d \in 1 .. n : CallInv(stack[d], d, temps, moves)
    BY <1>6 DEF IInv
  <2> QED
    <3>1. temps' = temps /\ moves' = moves
      BY DEF call
    <3>2. ASSUME NEW d \in 1 .. n
          PROVE  CallInv(stack'[d], d, temps', moves')
      BY <1>9, <2>1, <3>1
    <3>3. CallInv(stack'[n + 1], n + 1, temps', moves')
      BY <1>7, <1>9, <3>1
    <3>4. \A d \in 1 .. (n + 1) : d \in 1 .. n \/ d = n + 1
      BY <1>6
    <3> QED
      BY <3>2, <3>3, <3>4
<1>12. \A d \in 1 .. n : stack'[d].native
  <2>1. n # 0 => stack[n].native
    BY <1>6 DEF call, HostRuns
  <2> QED
    BY <1>6, <1>9, <2>1 DEF IInv
<1>13. \A t \in temps' : t[1] \in 1 .. (n + 1) /\ t[2] \in DOMAIN stack'[t[1]].ptrs
  BY <1>6, <1>9 DEF IInv, call
<1> QED
  BY <1>6, <1>9, <1>10, <1>11, <1>12, <1>13 DEF IInv

(* The conversion of an argument that goes through adds to the innermost   *)
(* call, and makes the temporaries the argument needs.                     *)
LEMMA ConvertKeeps ==
    ASSUME IInv, Convert
    PROVE  IInv'
<1> DEFINE n == Len(stack)
           i == Len(top.ptrs) + 1
           v == top.args[i]
           p == top.params[i]
           conv == Conv(p, v)
           mem == Target(p, conv, v, n, i)
           ptr == [obj |-> IF conv = "as is" THEN v ELSE <<n, i, "object">>,
                   mem |-> mem, at |-> Moved(mem)]
<1>0. stack # <<>> /\ ~top.native /\ Len(top.ptrs) < Len(top.params)
  BY DEF Convert
<1>1. CASE conv = "raises" /\ Release(n) /\ stack' = Pop
  BY <1>1, UnwindKeeps DEF Convert
<1>2. CASE /\ conv # "raises"
           /\ temps' = temps \cup TempsOf(conv, n, i)
           /\ stack' = [stack EXCEPT ![n].ptrs = Append(@, ptr)]
  <2>1. /\ n \in Nat \ {0} /\ DOMAIN stack = 1 .. n
        /\ \A d \in 1 .. n : stack[d] \in Call
    BY <1>0 DEF IInv, StateTyped
  <2>2. /\ top \in Call /\ top = stack[n] /\ ~top.native
        /\ Len(top.ptrs) < Len(top.params) /\ Len(top.args) = Len(top.params)
    <3>1. top = stack[n]
      BY DEF top
    <3>2. CallInv(stack[n], n, temps, moves)
      BY <2>1 DEF IInv
    <3> QED
      BY <1>0, <2>1, <3>1, <3>2 DEF CallInv
  <2>3. i \in Nat /\ i \in 1 .. Len(top.params) /\ v \in Val /\ p \in Param
    BY <2>2 DEF Call
  <2>4. mem \in Mem
    BY <2>1, <2>3, TargetTyped
  <2>5. ptr \in Ptr
    <3>1. Moved(mem) \in Nat
      BY CallAssumption DEF IInv, StateTyped, Moved
    <3>2. <<n, i, "object">> \in Temp
      BY <2>1, <2>3 DEF Temp
    <3> HIDE DEF mem, conv
    <3> QED
      BY <2>3, <2>4, <3>1, <3>2 DEF Ptr
  <2> DEFINE q == Append(top.ptrs, ptr)
             c == [top EXCEPT !.ptrs = q]
  <2>6. /\ c \in Call /\ c.args = top.args /\ c.params = top.params /\ ~c.native
        /\ c.ptrs = q
    <3>1. q \in Seq(Ptr)
      <4> HIDE DEF ptr
      <4> QED
        BY <2>2, <2>5 DEF Call
    <3> HIDE DEF q
    <3> QED
      BY <2>2, <3>1 DEF Call
  <2>7. stack' = [stack EXCEPT ![n] = c]
    BY <1>2, <2>2
  <2>8. /\ stack' \in Seq(Call) /\ Len(stack') = n /\ DOMAIN stack' = 1 .. n
        /\ \A d \in 1 .. n : stack'[d] = IF d = n THEN c ELSE stack[d]
    <3>1. c \in Call /\ stack \in Seq(Call)
      BY <2>6 DEF IInv, StateTyped
    <3> HIDE DEF c
    <3> QED
      BY <2>1, <2>7, <3>1
  <2>9. TempsOf(conv, n, i) \subseteq Temp /\ \A t \in TempsOf(conv, n, i) : t[1] = n /\ t[2] = i
    BY <2>1, <2>3, TempsTyped
  <2>10. StateTyped'
    BY <1>2, <2>8, <2>9 DEF IInv, StateTyped, Convert
  <2>11. /\ Len(c.ptrs) = i /\ DOMAIN c.ptrs = 1 .. i /\ c.ptrs[i] = ptr
         /\ DOMAIN top.ptrs = 1 .. (i - 1)
         /\ \A j \in 1 .. (i - 1) : c.ptrs[j] = top.ptrs[j]
    <3>1. top.ptrs \in Seq(Ptr)
      BY <2>2 DEF Call
    <3> HIDE DEF c, ptr
    <3> QED
      BY <2>5, <2>6, <3>1
  <2>12. moves' = moves
    BY DEF Convert
  <2>13. CallInv(top, n, temps', moves)
    <3>1. CallInv(top, n, temps, moves)
      BY <2>1, <2>2 DEF IInv
    <3> QED
      BY <1>2, <2>1, <2>2, <3>1, CallKept
  <2>14. CallInv(c, n, temps', moves')
    <3>1. ASSUME NEW j \in 1 .. (i - 1)
          PROVE  Converted(c, n, j, temps', moves)
      <4>1. Converted(top, n, j, temps', moves)
        BY <2>11, <2>13 DEF CallInv
      <4>2. c.ptrs[j] = top.ptrs[j]
        BY <2>11
      <4> HIDE DEF c
      <4> QED
        BY <2>6, <4>1, <4>2 DEF Converted
    <3>2. Converted(c, n, i, temps', moves)
      <4>1. /\ ptr.obj = IF conv = "as is" THEN v ELSE <<n, i, "object">>
            /\ ptr.mem = mem
            /\ ptr.at = IF mem \in DOMAIN moves THEN moves[mem] ELSE 0
        BY DEF Moved
      <4>2. c.params[i] = p /\ c.args[i] = v /\ c.ptrs[i] = ptr
        BY <2>6, <2>11
      <4> HIDE DEF c, ptr
      <4> QED
        BY <1>2, <4>1, <4>2 DEF Converted
    <3>3. \A j \in DOMAIN c.ptrs : Converted(c, n, j, temps', moves)
      <4>1. \A j \in 1 .. i : j \in 1 .. (i - 1) \/ j = i
        BY <2>3
      <4> HIDE DEF c, i
      <4> QED
        BY <2>11, <3>1, <3>2, <4>1
    <3>4. /\ Len(c.args) = Len(c.params) /\ Len(c.ptrs) <= Len(c.params)
          /\ ~c.native
      <4> HIDE DEF c, i, q
      <4>1. Len(c.args) = Len(c.params)
        BY <2>2, <2>6
      <4>3. ~c.native
        BY <2>6, Zenon
      <4>2. Len(c.ptrs) <= Len(c.params)
        <5>1. c.params = top.params /\ Len(c.ptrs) = i
          BY <2>6, <2>11
        <5>2. Len(top.params) \in Nat
          BY <2>2 DEF Call
        <5> QED
          BY <2>3, <5>1, <5>2
      <4> QED
        BY <4>1, <4>2, <4>3
    <3> HIDE DEF c
    <3> QED
      BY <2>12, <3>3, <3>4 DEF CallInv
  <2>15. ASSUME NEW d \in 1 .. n
         PROVE  CallInv(stack'[d], d, temps', moves')
    <3>1. CASE d = n
      BY <2>8, <2>14, <3>1
    <3>2. CASE d # n
      <4>1. CallInv(stack[d], d, temps, moves) /\ stack[d] \in Call /\ d \in Nat
        BY <2>1 DEF IInv
      <4>2. \A t \in temps : t[1] = d => t \in temps'
        BY <1>2
      <4>3. CallInv(stack[d], d, temps', moves)
        BY <4>1, <4>2, CallKept
      <4> QED
        BY <2>8, <2>12, <3>2, <4>3
    <3> QED
      BY <3>1, <3>2
  <2>16. ASSUME NEW d \in 1 .. n, d < n
         PROVE  stack'[d].native
    <3>0. d # n
      <4>1. n \in Int /\ d \in Int
        BY <2>1
      <4> HIDE DEF n
      <4> QED
        BY <2>16, <4>1
    <3>1. stack'[d] = stack[d]
      BY <2>8, <3>0
    <3>2. d \in DOMAIN stack /\ d < Len(stack)
      BY <2>1, <2>16
    <3>3. stack[d].native
      BY <3>2 DEF IInv
    <3> QED
      BY <3>1, <3>3
  <2>17. ASSUME NEW t \in temps'
         PROVE  t[1] \in 1 .. n /\ t[2] \in DOMAIN stack'[t[1]].ptrs
    <3>1. CASE t \in temps
      <4>1. t[1] \in 1 .. n /\ t[2] \in DOMAIN stack[t[1]].ptrs
        BY <2>1, <3>1 DEF IInv
      <4>2. CASE t[1] # n
        BY <2>8, <4>1, <4>2
      <4>3. CASE t[1] = n
        <5>1. t[2] \in 1 .. (i - 1)
          BY <2>2, <2>11, <4>1, <4>3
        <5>2. t[2] \in 1 .. i
          BY <2>3, <5>1
        <5> HIDE DEF c
        <5> QED
          BY <2>8, <2>11, <4>1, <4>3, <5>2
      <4> QED
        BY <4>2, <4>3
    <3>2. CASE t \in TempsOf(conv, n, i)
      <4>1. t[1] = n /\ t[2] = i /\ i \in 1 .. i /\ n \in 1 .. n
        BY <2>1, <2>3, <2>9, <3>2
      <4> HIDE DEF c, i
      <4> QED
        BY <2>8, <2>11, <4>1
    <3> QED
      BY <1>2, <3>1, <3>2
  <2> QED
    BY <2>8, <2>10, <2>15, <2>16, <2>17 DEF IInv
<1> QED
  BY <1>1, <1>2 DEF Convert

(* Entering native code: everything has been converted.                    *)
LEMMA EnterKeeps ==
    ASSUME IInv, EnterNative
    PROVE  IInv'
<1> DEFINE n == Len(stack)
           c == [stack[n] EXCEPT !.native = TRUE]
<1>1. /\ n \in Nat \ {0} /\ DOMAIN stack = 1 .. n /\ stack[n] \in Call
      /\ \A d \in 1 .. n : CallInv(stack[d], d, temps, moves)
  BY DEF IInv, StateTyped, EnterNative
<1>2. /\ c \in Call /\ c.args = stack[n].args /\ c.params = stack[n].params
      /\ c.ptrs = stack[n].ptrs /\ c.native
  BY <1>1 DEF Call
<1>3. CallInv(c, n, temps, moves)
  <2>1. CallInv(stack[n], n, temps, moves) /\ Len(stack[n].ptrs) = Len(stack[n].params)
    BY <1>1 DEF EnterNative, top
  <2> HIDE DEF c
  <2>2. ASSUME NEW i \in DOMAIN c.ptrs
        PROVE  Converted(c, n, i, temps, moves)
    <3>1. Converted(stack[n], n, i, temps, moves)
      BY <1>2, <2>1 DEF CallInv
    <3> QED
      BY <1>2, <3>1 DEF Converted
  <2>3. Len(c.args) = Len(c.params) /\ Len(c.ptrs) = Len(c.params)
    BY <1>2, <2>1 DEF CallInv
  <2>4. Len(c.params) \in Nat
    BY <1>2 DEF Call
  <2> QED
    BY <2>2, <2>3, <2>4 DEF CallInv
<1>4. /\ stack' = [stack EXCEPT ![n] = c]
      /\ UNCHANGED <<held, moves, temps>>
  BY DEF EnterNative
<1> HIDE DEF c
<1>5. /\ stack' \in Seq(Call) /\ Len(stack') = n /\ DOMAIN stack' = 1 .. n
      /\ \A d \in 1 .. n : stack'[d] = IF d = n THEN c ELSE stack[d]
  BY <1>1, <1>2, <1>4 DEF IInv, StateTyped
<1>6. StateTyped'
  BY <1>4, <1>5 DEF IInv, StateTyped
<1>7. ASSUME NEW d \in 1 .. n
      PROVE  CallInv(stack'[d], d, temps', moves')
  <2>1. CASE d = n
    BY <1>3, <1>4, <1>5, <2>1
  <2>2. CASE d # n
    BY <1>1, <1>4, <1>5, <2>2
  <2> QED
    BY <2>1, <2>2
<1>8. ASSUME NEW d \in 1 .. n, d < n
      PROVE  stack'[d].native
  <2>0. d # n
    <3>1. n \in Int /\ d \in Int
      BY <1>1
    <3> HIDE DEF n
    <3> QED
      BY <1>8, <3>1
  <2>1. stack'[d] = stack[d]
    BY <1>5, <2>0
  <2>2. d \in DOMAIN stack /\ d < Len(stack)
    BY <1>1, <1>8
  <2>3. stack[d].native
    BY <2>2 DEF IInv
  <2> QED
    BY <2>1, <2>3
<1>9. \A t \in temps' : t[1] \in 1 .. n /\ t[2] \in DOMAIN stack'[t[1]].ptrs
  BY <1>1, <1>2, <1>4, <1>5 DEF IInv
<1> QED
  BY <1>5, <1>6, <1>7, <1>8, <1>9 DEF IInv

(* A buffer the host resizes is not one a call in progress points to,      *)
(* unless the host resizes what it has passed.                             *)
LEMMA ResizeKeeps ==
    ASSUME IInv, Resize
    PROVE  IInv'
<1>1. PICK v \in held :
        /\ Py[v].kind = "buffer" /\ moves[v] < MaxMoves
        /\ ResizesPassed \/ v \notin Passed
        /\ moves' = [moves EXCEPT ![v] = @ + 1]
  BY DEF Resize
<1>2. held' = held /\ stack' = stack /\ temps' = temps
  BY DEF Resize
<1>3. v \in Val /\ moves \in [Val -> 0 .. MaxMoves] /\ stack \in Seq(Call)
  BY DEF IInv, StateTyped
<1>4. moves' \in [Val -> 0 .. MaxMoves]
  BY <1>1, <1>3, CallAssumption
<1>5. ~IsCObj(v)
  BY <1>1 DEF IsCObj, CKind
<1>6. ASSUME NEW d \in DOMAIN stack
      PROVE  CallInv(stack[d], d, temps, moves')
  <2>1. d \in Nat /\ stack[d] \in Call /\ CallInv(stack[d], d, temps, moves)
    BY <1>3 DEF IInv
  <2>2. ASSUME NEW i \in DOMAIN stack[d].ptrs
        PROVE  Converted(stack[d], d, i, temps, moves')
    <3> DEFINE c == stack[d]
               m == c.ptrs[i].mem
    <3>1. Converted(c, d, i, temps, moves)
      BY <2>1, <2>2 DEF CallInv
    <3>2. i \in DOMAIN c.args /\ i \in Nat /\ c.args[i] \in Val /\ c.params[i] \in Param
      BY <2>1, <2>2 DEF CallInv, Call
    <3>3. m = Target(c.params[i], Conv(c.params[i], c.args[i]), c.args[i], d, i)
      BY <3>1 DEF Converted
    <3>4. m \in Val => m = c.args[i] \/ IsCObj(m)
      BY <2>1, <3>2, <3>3, TargetTyped
    <3>5. c.args[i] \in Passed
      BY <3>2 DEF Passed
    <3>6. ~ResizesPassed => m # v
      BY <1>1, <1>3, <1>5, <3>4, <3>5
    <3>7. ~ResizesPassed =>
            (IF m \in DOMAIN moves' THEN moves'[m] ELSE 0)
              = (IF m \in DOMAIN moves THEN moves[m] ELSE 0)
      BY <1>1, <1>3, <3>6
    <3> QED
      BY <3>1, <3>7 DEF Converted
  <2> QED
    BY <2>1, <2>2 DEF CallInv
<1>7. StateTyped'
  BY <1>2, <1>4 DEF IInv, StateTyped
<1> QED
  BY <1>2, <1>6, <1>7 DEF IInv

(* What the host holds is of no matter to the calls in progress.           *)
LEMMA HeldKeeps ==
    ASSUME IInv, held' \subseteq Val, UNCHANGED <<moves, stack, temps>>
    PROVE  IInv'
  BY DEF IInv, StateTyped

(* The invariant holds in every reachable state.                           *)
THEOREM Invariant == Spec => []IInv
<1>1. Init => IInv
  BY CallAssumption DEF Init, IInv, StateTyped
<1>2. ASSUME IInv, [Next]_vars
      PROVE  IInv'
  <2>1. CASE call
    BY <1>2, <2>1, CallKeeps
  <2>2. CASE Convert
    BY <1>2, <2>2, ConvertKeeps
  <2>3. CASE EnterNative
    BY <1>2, <2>3, EnterKeeps
  <2>4. CASE ReturnFromNative
    BY <1>2, <2>4, UnwindKeeps DEF ReturnFromNative
  <2>5. CASE Drop
    <3>1. held' \subseteq Val /\ UNCHANGED <<moves, stack, temps>>
      BY <1>2, <2>5 DEF IInv, StateTyped, Drop
    <3> QED
      BY <1>2, <3>1, HeldKeeps
  <2>6. CASE Make
    <3>1. held' \subseteq Val /\ UNCHANGED <<moves, stack, temps>>
      BY <1>2, <2>6 DEF IInv, StateTyped, Make
    <3> QED
      BY <1>2, <3>1, HeldKeeps
  <2>7. CASE Resize
    BY <1>2, <2>7, ResizeKeeps
  <2>8. CASE UNCHANGED vars
    BY <1>2, <2>8, HeldKeeps DEF vars, IInv, StateTyped
  <2> QED
    BY <1>2, <2>1, <2>2, <2>3, <2>4, <2>5, <2>6, <2>7, <2>8 DEF Next
<1> QED
  BY <1>1, <1>2, PTL DEF Spec
-----------------------------------------------------------------------------
(***************************************************************************)
(* The properties.                                                         *)
(***************************************************************************)
(* Every call but the innermost waits on native code, and temporaries are  *)
(* those of calls in progress, whatever conversion raised.                 *)
THEOREM TypeCorrect == Spec => []TypeOK
<1>1. IInv => TypeOK
  <2> SUFFICES ASSUME IInv PROVE TypeOK
    OBVIOUS
  <2>1. ASSUME NEW d \in DOMAIN stack
        PROVE  Len(stack[d].ptrs) <= Len(stack[d].params)
    BY <2>1 DEF IInv, CallInv
  <2> QED
    BY <2>1 DEF IInv, StateTyped, TypeOK
<1> QED
  BY <1>1, Invariant, PTL

(* A converted argument of a call.                                         *)
LEMMA ArgumentTyped ==
    ASSUME IInv, NEW d \in DOMAIN stack, NEW i \in DOMAIN stack[d].ptrs
    PROVE  /\ d \in Nat /\ i \in Nat /\ i \in DOMAIN stack[d].args
           /\ stack[d].args[i] \in Val /\ stack[d].params[i] \in Param
           /\ Converted(stack[d], d, i, temps, moves)
<1>1. stack[d] \in Call /\ d \in Nat /\ CallInv(stack[d], d, temps, moves)
  BY DEF IInv, StateTyped
<1> QED
  BY <1>1 DEF CallInv, Call

(* But for arrays, native code can write through a pointer to memory that  *)
(* is not const only: PointerConv refuses const pointers, read-only        *)
(* buffers and strings.  The element type of an array has lost its const,  *)
(* and ConstKept does not hold.                                            *)
THEOREM ConstRespected == Spec => []PointerConstKept
<1>1. ASSUME IInv, NEW d \in DOMAIN stack, NEW i \in DOMAIN stack[d].ptrs,
             Writable(stack[d], i), Py[stack[d].args[i]].kind # "carray"
      PROVE  MayBeWritten(stack[d], i)
  <2> DEFINE p == stack[d].params[i]
             v == stack[d].args[i]
  <2>1. /\ p \in Param /\ v \in Val /\ Converted(stack[d], d, i, temps, moves)
    BY <1>1, ArgumentTyped
  <2>0. p.kind = "pointer" /\ ~p.const /\ stack[d].ptrs[i].mem # NoVal
    BY <1>1 DEF Writable
  <2>2. Conv(p, v) \in {"as is", "pointer"} /\ ~Py[v].const
    BY <1>1, <2>0, <2>1, ConvFacts DEF Converted
  <2>3. stack[d].ptrs[i].mem = Target(p, Conv(p, v), v, d, i)
    BY <2>1 DEF Converted
  <2>4. stack[d].ptrs[i].mem \in {Py[v].to, v}
    BY <2>0, <2>2, <2>3 DEF Target
  <2> QED
    BY <2>0, <2>1, <2>2, <2>4, CallAssumption DEF MayBeWritten
<1>2. IInv => PointerConstKept
  BY <1>1 DEF PointerConstKept
<1> QED
  BY <1>2, Invariant, PTL

(* A wrapper is called with the arguments it reads, each of the right      *)
(* kind.                                                                   *)
THEOREM Fits == Spec => []WrapperFits
<1>1. ASSUME IInv, NEW d \in DOMAIN stack, NEW i \in DOMAIN stack[d].ptrs,
             stack[d].ptrs[i].obj \in Val
      PROVE  LET p == stack[d].params[i]
                 o == stack[d].ptrs[i].obj
             IN /\ Py[o].kind = CKind[p.kind]
                /\ p.kind = "basic" => Py[o].ty = p.ty
  <2> DEFINE p == stack[d].params[i]
             v == stack[d].args[i]
  <2>1. /\ p \in Param /\ v \in Val /\ d \in Nat /\ i \in Nat
        /\ Converted(stack[d], d, i, temps, moves)
    BY <1>1, ArgumentTyped
  <2>2. <<d, i, "object">> \notin Val
    BY <2>1, CallAssumption DEF Temp
  <2>3. Conv(p, v) = "as is" /\ stack[d].ptrs[i].obj = v
    BY <1>1, <2>1, <2>2 DEF Converted
  <2> QED
    BY <2>1, <2>3, ConvFacts, ZenonT(40)
<1>2. ASSUME IInv, NEW d \in DOMAIN stack, stack[d].native
      PROVE  /\ Len(stack[d].ptrs) = Len(stack[d].params)
             /\ Len(stack[d].args) = Len(stack[d].params)
  BY <1>2 DEF IInv, CallInv
<1>3. IInv => WrapperFits
  BY <1>1, <1>2 DEF WrapperFits
<1> QED
  BY <1>3, Invariant, PTL

(* While native code runs its arguments and what they point to are alive   *)
(* and in place, provided the host does not resize a buffer it has passed. *)
THEOREM ArgsAlive ==
    ASSUME ~ResizesPassed
    PROVE  Spec => []ArgumentsAlive
<1>1. ASSUME IInv, NEW d \in DOMAIN stack, NEW i \in DOMAIN stack[d].ptrs
      PROVE  LET a == stack[d].ptrs[i] IN
             /\ a.obj \in Alive \cup temps
             /\ a.mem # NoVal => a.mem \in Alive \cup temps /\ a.at = Moved(a.mem)
  <2> DEFINE p == stack[d].params[i]
             v == stack[d].args[i]
             a == stack[d].ptrs[i]
  <2>1. /\ p \in Param /\ v \in Val /\ i \in DOMAIN stack[d].args
        /\ Converted(stack[d], d, i, temps, moves)
    BY <1>1, ArgumentTyped
  <2>2. v \in Alive /\ Py[v].to \in Alive
    BY <2>1 DEF Alive, Referred, Passed
  <2>3. /\ Conv(p, v) \in {"as is", "pointer", "utf8", "value"}
        /\ p.kind = "pointer" => Conv(p, v) # "value"
    BY <2>1, ConvFacts DEF Converted
  <2>4. a.obj \in Alive \cup temps
    BY <2>1, <2>2, <2>3 DEF Converted, TempsOf
  <2>5. a.mem # NoVal => a.mem \in Alive \cup temps
    BY <2>1, <2>2, <2>3 DEF Converted, TempsOf, Target
  <2>6. a.at = Moved(a.mem)
    BY <2>1 DEF Converted, Moved
  <2> QED
    BY <2>4, <2>5, <2>6
<1>2. IInv => ArgumentsAlive
  BY <1>1 DEF ArgumentsAlive
<1> QED
  BY <1>2, Invariant, PTL
=============================================================================
