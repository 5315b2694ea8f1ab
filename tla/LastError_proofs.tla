-------------------------- MODULE LastError_proofs --------------------------
(***************************************************************************)
(* LastError implements LastErrorAbs, for any number of threads and any    *)
(* depth of calls.                                                         *)
(***************************************************************************)
EXTENDS LastError, TLAPS

(* SideIn is a side.                                                       *)
LEMMA SideInType ==
    ASSUME NEW fs \in Seq(Frame), NEW n \in 0..Len(fs)
    PROVE  SideIn(fs, n) \in {"host", "native"}
<1>1. CASE n = 0 BY <1>1 DEF SideIn
<1>2. CASE n \in 1..Len(fs)
  <2>1. fs[n] \in Frame BY <1>2
  <2>2. fs[n].caller \in {"host", "native"} BY <2>1 DEF Frame
  <2> QED BY <1>2, <2>2 DEF SideIn, Flip
<1> QED BY <1>1, <1>2

(* SideIn depends on one frame only.                                       *)
LEMMA SideInSame ==
    ASSUME NEW fs, NEW gs, NEW n, n = 0 \/ fs[n] = gs[n]
    PROVE  SideIn(fs, n) = SideIn(gs, n)
BY DEF SideIn

(* Swaps move error numbers around, calls and returns keep a stack.        *)
THEOREM TypeCorrect == Spec => []TypeOK
<1>1. Init => TypeOK BY LastErrorAssumption DEF Init, TypeOK
<1>2. TypeOK /\ [Next]_vars => TypeOK'
  <2> SUFFICES ASSUME TypeOK, [Next]_vars PROVE TypeOK' OBVIOUS
  <2> USE DEF TypeOK
  <2>1. ASSUME NEW t \in Thread, NEW e \in Error, setLastError(t, e) PROVE TypeOK'
        BY <2>1 DEF setLastError
  <2>2. ASSUME NEW t \in Thread, NEW e \in Error, codeFails(t, e) PROVE TypeOK'
        BY <2>2 DEF codeFails
  <2>3. ASSUME NEW t \in Thread, NEW u \in BOOLEAN, callBegin(t, u) PROVE TypeOK'
    <3>1. errno' \in [Thread -> Error] /\ dffi_errno' \in [Thread -> Error]
          BY <2>3 DEF callBegin, swapIf, swapLastError
    <3>2. SideIn(frames[t], Len(frames[t])) \in {"host", "native"}
          BY SideInType
    <3>3. [useLastError |-> u, caller |-> Running(t)] \in Frame
          BY <3>2 DEF Running, Frame
    <3>4. Append(frames[t], [useLastError |-> u, caller |-> Running(t)]) \in Seq(Frame)
          BY <3>3
    <3> QED BY <2>3, <3>1, <3>4 DEF callBegin
  <2>4. ASSUME NEW t \in Thread, callEnd(t) PROVE TypeOK'
    <3>1. errno' \in [Thread -> Error] /\ dffi_errno' \in [Thread -> Error]
          BY <2>4 DEF callEnd, swapIf, swapLastError
    <3>2. SubSeq(frames[t], 1, Len(frames[t]) - 1) \in Seq(Frame)
          BY <2>4 DEF callEnd
    <3> QED BY <2>4, <3>1, <3>2 DEF callEnd
  <2>5. CASE UNCHANGED vars BY <2>5 DEF vars
  <2> QED BY <2>1, <2>2, <2>3, <2>4, <2>5 DEF Next
<1> QED BY <1>1, <1>2, PTL DEF Spec

(* The strengthening refinement needs: each call in progress was made by   *)
(* the side that the call below it runs, so that a return, which only pops *)
(* a frame, comes back to the side the call was made from.                 *)
CallersLinked ==
    \A t \in Thread : \A i \in DOMAIN frames[t] :
        frames[t][i].caller = SideIn(frames[t], i - 1)

(* The callers of all calls in progress stay linked.                       *)
THEOREM Linked == Spec => []CallersLinked
<1>1. Init => CallersLinked BY DEF Init, CallersLinked
<1>2. TypeOK /\ CallersLinked /\ [Next]_vars => CallersLinked'
  <2> SUFFICES ASSUME TypeOK, CallersLinked, [Next]_vars,
                      NEW u \in Thread, NEW i \in DOMAIN frames'[u]
               PROVE  frames'[u][i].caller = SideIn(frames'[u], i - 1)
      BY DEF CallersLinked
  <2>0. /\ frames[u] \in Seq(Frame)
        /\ \A j \in DOMAIN frames[u] : frames[u][j].caller = SideIn(frames[u], j - 1)
        BY DEF TypeOK, CallersLinked
  <2>1. CASE frames'[u] = frames[u] BY <2>0, <2>1
  <2>2. ASSUME NEW b \in BOOLEAN, callBegin(u, b)
        PROVE  frames'[u][i].caller = SideIn(frames'[u], i - 1)
    <3> DEFINE new == [useLastError |-> b, caller |-> Running(u)]
    <3>1. frames'[u] = Append(frames[u], new) BY <2>2 DEF callBegin, TypeOK
    <3>2. CASE i \in DOMAIN frames[u]
      <4>1. /\ frames'[u][i] = frames[u][i]
            /\ i - 1 = 0 \/ frames'[u][i - 1] = frames[u][i - 1]
            BY <2>0, <3>1, <3>2
      <4> QED BY <2>0, <3>2, <4>1, SideInSame
    <3>3. CASE i = Len(frames[u]) + 1
      <4>1. /\ frames'[u][i] = new /\ i - 1 = Len(frames[u])
            /\ i - 1 = 0 \/ frames'[u][i - 1] = frames[u][i - 1]
            BY <2>0, <3>1, <3>3
      <4>2. SideIn(frames'[u], i - 1) = SideIn(frames[u], i - 1) BY <4>1, SideInSame
      <4> QED BY <4>1, <4>2 DEF Running
    <3> QED BY <2>0, <3>1, <3>2, <3>3
  <2>3. ASSUME callEnd(u) PROVE frames'[u][i].caller = SideIn(frames'[u], i - 1)
    <3>1. frames'[u] = SubSeq(frames[u], 1, Len(frames[u]) - 1)
          BY <2>3 DEF callEnd, TypeOK
    <3>2. frames[u] # <<>> BY <2>3 DEF callEnd
    <3>3. /\ i \in 1..(Len(frames[u]) - 1)
          /\ \A j \in 1..(Len(frames[u]) - 1) : frames'[u][j] = frames[u][j]
          BY <2>0, <3>1, <3>2
    <3>4. i - 1 = 0 \/ frames'[u][i - 1] = frames[u][i - 1] BY <2>0, <3>3
    <3>5. SideIn(frames'[u], i - 1) = SideIn(frames[u], i - 1) BY <3>4, SideInSame
    <3> QED BY <2>0, <3>3, <3>5, SMTT(30)
  <2> QED
      BY <2>1, <2>2, <2>3 DEF Next, setLastError, codeFails, callBegin, callEnd, vars, TypeOK
<1> QED BY <1>1, <1>2, TypeCorrect, PTL DEF Spec

-----------------------------------------------------------------------------
(* A call with useLastError moves the running code to the other side and   *)
(* leaves both registers alone; one without leaves everything alone.       *)
LEMMA BeginSwitches ==
    ASSUME TypeOK, NEW t \in Thread, NEW u \in BOOLEAN, callBegin(t, u)
    PROVE  /\ Running(t)' = IF u THEN Flip(Running(t)) ELSE Running(t)
           /\ CallersOf(t)' = Append(CallersOf(t), Running(t))
           /\ RegOf(t)' = RegOf(t)
<1> DEFINE new == [useLastError |-> u, caller |-> Running(t)]
<1>1. frames[t] \in Seq(Frame) BY DEF TypeOK
<1>2. frames'[t] = Append(frames[t], new) BY DEF callBegin, TypeOK
<1>3. Running(t)' = IF u THEN Flip(Running(t)) ELSE Running(t)
      BY <1>1, <1>2 DEF Running, SideIn
<1>4. CallersOf(t)' = Append(CallersOf(t), Running(t))
      BY <1>1, <1>2 DEF CallersOf
<1>5. Running(t) \in {"host", "native"} BY <1>1, SideInType DEF Running
<1>6. RegOf(t)' = RegOf(t)
      BY <1>3, <1>5 DEF RegOf, callBegin, swapIf, swapLastError, Flip, getLastError, TypeOK
<1> QED BY <1>3, <1>4, <1>6

(* The return comes back to the side that made the call, and leaves both   *)
(* registers alone.                                                        *)
LEMMA EndReturns ==
    ASSUME TypeOK, CallersLinked, NEW t \in Thread, callEnd(t)
    PROVE  /\ CallersOf(t) # <<>>
           /\ Running(t)' = CallersOf(t)[Len(CallersOf(t))]
           /\ CallersOf(t)' = SubSeq(CallersOf(t), 1, Len(CallersOf(t)) - 1)
           /\ RegOf(t)' = RegOf(t)
<1> DEFINE n == Len(frames[t])
           top == frames[t][n]
<1>1. frames[t] \in Seq(Frame) /\ n \in Nat \ {0} BY DEF TypeOK, callEnd
<1>2. frames'[t] = SubSeq(frames[t], 1, n - 1) BY DEF callEnd, TypeOK
<1>3. Len(frames'[t]) = n - 1 BY <1>1, <1>2
<1>4. n - 1 = 0 \/ frames'[t][n - 1] = frames[t][n - 1]
  <2>1. \A j \in 1..(n - 1) : frames'[t][j] = frames[t][j] BY <1>1, <1>2
  <2>2. n \in Nat /\ n # 0 BY <1>1
  <2> HIDE DEF n
  <2>3. n - 1 = 0 \/ n - 1 \in 1..(n - 1) BY <2>2
  <2> QED BY <2>1, <2>3
<1>5. top.caller = SideIn(frames[t], n - 1) BY <1>1 DEF CallersLinked
<1>6. Running(t)' = top.caller
  <2>1. Running(t)' = SideIn(frames'[t], n - 1) BY <1>3 DEF Running
  <2> QED BY <1>4, <1>5, <2>1, SideInSame
<1>7. CallersOf(t) \in Seq({"host", "native"}) /\ Len(CallersOf(t)) = n
  <2>1. DOMAIN frames[t] = 1..n BY <1>1
  <2>2. \A i \in 1..n : frames[t][i] \in Frame BY <1>1
  <2>3. \A i \in 1..n : frames[t][i].caller \in {"host", "native"} BY <2>2 DEF Frame
  <2>4. CallersOf(t) \in [1..n -> {"host", "native"}] BY <2>1, <2>3 DEF CallersOf
  <2>5. n \in Nat BY <1>1
  <2> HIDE DEF n
  <2>6. CallersOf(t) \in Seq({"host", "native"}) BY <2>4, <2>5
  <2> QED BY <2>4, <2>5, <2>6
<1>8. CallersOf(t)[n] = top.caller BY <1>1 DEF CallersOf
<1>9. CallersOf(t)' = SubSeq(CallersOf(t), 1, n - 1)
      BY <1>1, <1>2, <1>7 DEF CallersOf
<1>10. top.caller \in {"host", "native"}
  <2>1. top \in Frame BY <1>1
  <2> QED BY <2>1 DEF Frame
<1>11. Running(t) = IF top.useLastError THEN Flip(top.caller) ELSE top.caller
       BY <1>1 DEF Running, SideIn
<1>12. RegOf(t)' = RegOf(t)
       BY <1>6, <1>10, <1>11
       DEF RegOf, callEnd, swapIf, swapLastError, Flip, getLastError, TypeOK
<1> QED BY <1>1, <1>6, <1>7, <1>8, <1>9, <1>12

(* Steps of a thread change nothing of what another thread's code sees.    *)
LEMMA OthersUndisturbed ==
    ASSUME TypeOK, NEW t \in Thread, NEW o \in Thread \ {t},
           \/ \E e \in Error : setLastError(t, e) \/ codeFails(t, e)
           \/ \E u \in BOOLEAN : callBegin(t, u)
           \/ callEnd(t)
    PROVE  RegOf(o)' = RegOf(o) /\ Running(o)' = Running(o) /\ CallersOf(o)' = CallersOf(o)
<1>1. frames'[o] = frames[o] /\ errno'[o] = errno[o] /\ dffi_errno'[o] = dffi_errno[o]
      BY DEF TypeOK, setLastError, codeFails, callBegin, callEnd, swapIf, swapLastError
<1> QED BY <1>1 DEF RegOf, Running, CallersOf, getLastError

(* Every thread has an error number of its own on each side, whatever the  *)
(* interleaving of the threads and however calls nest: the swaps of        *)
(* NativeFunc::call implement the two registers of LastErrorAbs.           *)
THEOREM Implements == Spec => SeparateErrors
<1>1. Init => Abs!AbsInit
  <2> SUFFICES ASSUME Init PROVE Abs!AbsInit OBVIOUS
  <2>1. ASSUME NEW t \in Thread
        PROVE  Running(t) = "host" /\ frames[t] = <<>>
        BY DEF Init, Running, SideIn
  <2> QED BY <2>1 DEF Init, Abs!AbsInit, Abs!Side, getLastError, RegOf, CallersOf
<1>2. TypeOK /\ CallersLinked /\ [Next]_vars => [Abs!AbsNext]_(Abs!absVars)
  <2> SUFFICES ASSUME TypeOK, CallersLinked, [Next]_vars
               PROVE  [Abs!AbsNext]_(Abs!absVars)
      OBVIOUS
  <2>1. ASSUME NEW t \in Thread, NEW e \in Error, codeFails(t, e)
        PROVE  Abs!Fails(t, e)
    <3>1. \A o \in Thread : Running(o)' = Running(o) BY <2>1 DEF codeFails, Running
    <3>2. Running(t) \in {"host", "native"} BY SideInType DEF Running, TypeOK
    <3> QED BY <2>1, <3>1, <3>2 DEF codeFails, Abs!Fails, getLastError, RegOf, CallersOf, TypeOK
  <2>2. ASSUME NEW t \in Thread, NEW e \in Error, setLastError(t, e)
        PROVE  Abs!Presets(t, e)
    <3>1. \A o \in Thread : Running(o)' = Running(o) BY <2>2 DEF setLastError, Running
    <3>2. Running(t) \in {"host", "native"} BY SideInType DEF Running, TypeOK
    <3> QED BY <2>2, <3>1, <3>2
            DEF setLastError, Abs!Presets, Abs!Other, getLastError, RegOf, CallersOf, TypeOK
  <2>3. ASSUME NEW t \in Thread, NEW u \in BOOLEAN, callBegin(t, u)
        PROVE  Abs!Calls(t, u)
    <3>1. /\ Running(t)' = IF u THEN Flip(Running(t)) ELSE Running(t)
          /\ CallersOf(t)' = Append(CallersOf(t), Running(t))
          /\ RegOf(t)' = RegOf(t)
          BY <2>3, BeginSwitches
    <3>2. \A o \in Thread \ {t} :
             RegOf(o)' = RegOf(o) /\ Running(o)' = Running(o) /\ CallersOf(o)' = CallersOf(o)
          BY <2>3, OthersUndisturbed
    <3>3. Len(CallersOf(t)) < MaxDepth BY <2>3 DEF callBegin, CallersOf, TypeOK
    <3> QED BY <3>1, <3>2, <3>3 DEF Abs!Calls, Abs!Other, Flip
  <2>4. ASSUME NEW t \in Thread, callEnd(t) PROVE Abs!Returns(t)
    <3>1. /\ CallersOf(t) # <<>>
          /\ Running(t)' = CallersOf(t)[Len(CallersOf(t))]
          /\ CallersOf(t)' = SubSeq(CallersOf(t), 1, Len(CallersOf(t)) - 1)
          /\ RegOf(t)' = RegOf(t)
          BY <2>4, EndReturns
    <3>2. \A o \in Thread \ {t} :
             RegOf(o)' = RegOf(o) /\ Running(o)' = Running(o) /\ CallersOf(o)' = CallersOf(o)
          BY <2>4, OthersUndisturbed
    <3> QED BY <3>1, <3>2 DEF Abs!Returns
  <2>5. CASE UNCHANGED vars
        BY <2>5 DEF vars, Abs!absVars, Running, getLastError, RegOf, CallersOf
  <2> QED BY <2>1, <2>2, <2>3, <2>4, <2>5 DEF Next, Abs!AbsNext
<1> QED BY <1>1, <1>2, TypeCorrect, Linked, PTL DEF Spec, SeparateErrors, Abs!AbsSpec
=============================================================================
