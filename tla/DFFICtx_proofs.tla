--------------------------- MODULE DFFICtx_proofs ---------------------------
(***************************************************************************)
(* Theorems about DFFICtx, for any sets of kinds, counts and flags and any *)
(* number of types.                                                        *)
(***************************************************************************)
EXTENDS DFFICtx, WellFoundedInduction, TLAPS

(* Every step appends the object of one request whose lookup missed.       *)
LEMMA NextCreates ==
    ASSUME Next
    PROVE  \E req \in Requests(TypePtr) : FindOrCreate(req)
<1>1. ASSUME NEW k \in BasicKind PROVE BasicReq(k) \in Requests(TypePtr)
      BY DEF BasicReq, Requests
<1>2. ASSUME NEW q \in QualType(TypePtr, BOOLEAN) PROVE PtrReq(q) \in Requests(TypePtr)
      BY DEF PtrReq, Requests
<1>3. ASSUME NEW q \in QualType(TypePtr \ {Void}, ArrayEltConst), NEW n \in Count
      PROVE  ArrayReq(q, n) \in Requests(TypePtr)
      BY DEF ArrayReq, Requests
<1>4. ASSUME NEW r \in QualType(TypePtr, BOOLEAN), NEW p \in ParamLists(TypePtr),
             NEW f \in Flags
      PROVE  FuncReq(r, p, f) \in Requests(TypePtr)
      BY DEF FuncReq, Requests
<1> QED BY <1>1, <1>2, <1>3, <1>4
        DEF Next, getBasicType, getPtrType, getArrayType, getFunctionType

(* Requests about some types are requests about any larger set of types.   *)
LEMMA RequestsMonotonic ==
    ASSUME NEW S, NEW T, S \subseteq T
    PROVE  Requests(S) \subseteq Requests(T)
<1>1. QualType(S, BOOLEAN) \subseteq QualType(T, BOOLEAN) BY DEF QualType
<1>2. QualType(S \ {Void}, ArrayEltConst) \subseteq QualType(T \ {Void}, ArrayEltConst)
      BY DEF QualType
<1>3. ParamLists(S) \subseteq ParamLists(T)
  <2> SUFFICES ASSUME NEW p \in ParamLists(S) PROVE p \in ParamLists(T) OBVIOUS
  <2>1. PICK k \in ParamCount : p \in [1..k -> QualType(S, BOOLEAN)] BY DEF ParamLists
  <2>2. p \in [1..k -> QualType(T, BOOLEAN)] BY <1>1, <2>1
  <2> QED BY <2>2 DEF ParamLists
<1> SUFFICES ASSUME NEW req \in Requests(S) PROVE req \in Requests(T) OBVIOUS
<1>4. CASE req \in [kind : {"basic"}, bkind : BasicKind] BY <1>4 DEF Requests
<1>5. CASE req \in [kind : {"ptr"}, pointee : QualType(S, BOOLEAN)]
      BY <1>1, <1>5 DEF Requests
<1>6. CASE req \in [kind : {"array"}, elt : QualType(S \ {Void}, ArrayEltConst), n : Count]
      BY <1>2, <1>6 DEF Requests
<1>7. CASE req \in [kind : {"func"}, ret : QualType(S, BOOLEAN), params : ParamLists(S),
                    flags : Flags]
      BY <1>1, <1>3, <1>7 DEF Requests
<1> QED BY <1>4, <1>5, <1>6, <1>7 DEF Requests

(* Type objects are made of older type objects only.                       *)
THEOREM TypeCorrect == Spec => []TypeOK
<1>1. Init => TypeOK BY DEF Init, TypeOK
<1>2. TypeOK /\ [Next]_vars => TypeOK'
  <2> SUFFICES ASSUME TypeOK, Next PROVE TypeOK'
      BY DEF vars, TypeOK
  <2>1. PICK req \in Requests(TypePtr) : FindOrCreate(req) BY NextCreates
  <2>2. heap' = Append(heap, req) /\ Len(heap) < MaxTypes BY <2>1 DEF FindOrCreate
  <2>3. Len(heap) \in Nat /\ DOMAIN heap = 1..Len(heap) /\ MaxTypes \in Nat
        BY CtxAssumption DEF TypeOK
  <2>4. TypePtr = 0..Len(heap) BY <2>3 DEF TypePtr, Void
  <2>5. req \in Requests(0..MaxTypes)
    <3>1. 0..Len(heap) \subseteq 0..MaxTypes BY <2>2, <2>3
    <3> QED BY <2>4, <3>1, RequestsMonotonic
  <2>6. heap' \in Seq(Requests(0..MaxTypes)) BY <2>2, <2>5 DEF TypeOK
  <2>7. ASSUME NEW a \in DOMAIN heap' PROVE heap'[a] \in Requests(0..(a - 1))
    <3>1. CASE a \in DOMAIN heap
          BY <2>2, <2>3, <3>1 DEF TypeOK
    <3>2. CASE a = Len(heap) + 1
      <4>1. heap'[a] = req BY <2>2, <2>3, <3>2 DEF TypeOK
      <4>2. a - 1 = Len(heap) BY <2>3, <3>2
      <4> QED BY <2>4, <4>1, <4>2
    <3> QED BY <2>2, <2>3, <2>7, <3>1, <3>2 DEF TypeOK
  <2> QED BY <2>6, <2>7 DEF TypeOK
<1> QED BY <1>1, <1>2, PTL DEF Spec

(* Key equality depends on types only: what it identifies is the same C    *)
(* type to the engine.                                                     *)
LEMMA MatchesSameType ==
    ASSUME NEW S, NEW req \in Requests(S), NEW o \in Requests(S), Matches(req, o)
    PROVE  SameType(req, o)
<1>1. CASE req.kind = "basic"
  <2>1. /\ req \in [kind : {"basic"}, bkind : BasicKind]
        /\ o \in [kind : {"basic"}, bkind : BasicKind]
        BY <1>1 DEF Matches, Requests
  <2>2. req.bkind = o.bkind BY <1>1 DEF Matches, BasicKeyEq
  <2>3. req = o BY <2>1, <2>2
  <2> QED BY <2>3 DEF SameType
<1>2. CASE req.kind = "ptr"
  <2>1. /\ req \in [kind : {"ptr"}, pointee : QualType(S, BOOLEAN)]
        /\ o \in [kind : {"ptr"}, pointee : QualType(S, BOOLEAN)]
        BY <1>2 DEF Matches, Requests
  <2>2. req.pointee = o.pointee BY <1>2 DEF Matches, PtrKeyEq
  <2>3. req = o BY <2>1, <2>2
  <2> QED BY <2>3 DEF SameType
<1>3. CASE req.kind = "array"
      BY <1>3 DEF Matches, ArrayKeyEq, Unqualified, SameType
<1>4. CASE req.kind = "func"
      BY <1>4 DEF Matches, FunctionKeyEq, Differ, Unqualified, SameType
<1> QED BY <1>1, <1>2, <1>3, <1>4 DEF Requests

(* No getter returns a type other than the one it was asked for.           *)
THEOREM LookupsSound == Spec => []LookupSound
<1>1. TypeOK => LookupSound
  <2> SUFFICES ASSUME TypeOK, NEW req \in Requests(TypePtr), NEW a \in Found(req)
               PROVE  SameType(req, heap[a])
      BY DEF LookupSound
  <2>1. a \in DOMAIN heap /\ Matches(req, heap[a]) BY DEF Found
  <2>2. a \in 1..Len(heap) /\ Len(heap) \in Nat BY <2>1 DEF TypeOK
  <2>3. TypePtr = 0..Len(heap) BY DEF TypePtr, Void, TypeOK
  <2>4. heap[a] \in Requests(TypePtr)
    <3>1. 0..(a - 1) \subseteq 0..Len(heap) BY <2>2
    <3>2. heap[a] \in Requests(0..(a - 1)) BY <2>1 DEF TypeOK
    <3> QED BY <2>3, <3>1, <3>2, RequestsMonotonic
  <2> QED BY <2>1, <2>4, MatchesSameType
<1> QED BY <1>1, TypeCorrect, PTL

-----------------------------------------------------------------------------
(* An array of const elements is found by no request for one, ...          *)
LEMMA ConstNeverFound ==
    ASSUME NEW r, NEW s, ConstElements(r)
    PROVE  ~Matches(r, s)
<1> SUFFICES ASSUME Matches(r, s) PROVE FALSE OBVIOUS
<1>1. r.elt = Unqualified(s.elt) BY DEF ConstElements, Matches, ArrayKeyEq
<1>2. Unqualified(s.elt).const = FALSE BY DEF Unqualified
<1> QED BY <1>1, <1>2 DEF ConstElements

(* ... any other object by the request it was created for, ...             *)
LEMMA MatchesReflexive ==
    ASSUME NEW S, NEW req \in Requests(S), ~ConstElements(req)
    PROVE  Matches(req, req)
<1>1. CASE req.kind = "array"
  <2>1. req.elt \in QualType(S \ {Void}, ArrayEltConst) BY <1>1 DEF Requests
  <2>2. req.elt = Unqualified(req.elt)
        BY <1>1, <2>1, CtxAssumption DEF QualType, Unqualified, ConstElements
  <2> QED BY <1>1, <2>2 DEF Matches, ArrayKeyEq
<1>2. CASE req.kind # "array"
      BY <1>2 DEF Requests, Matches, BasicKeyEq, PtrKeyEq, FunctionKeyEq, Differ, Unqualified
<1> QED BY <1>1, <1>2

(* ... and between the others key equality is symmetric too: it does not   *)
(* matter which of two equal types is created first.                       *)
LEMMA MatchesSymmetric ==
    ASSUME NEW S, NEW r \in Requests(S), NEW s \in Requests(S), Matches(r, s),
           ~ConstElements(s)
    PROVE  Matches(s, r)
<1>0. ~ConstElements(r) BY ConstNeverFound
<1>1. CASE r.kind = "array"
  <2>1. /\ r.elt \in QualType(S \ {Void}, ArrayEltConst) /\ r.elt.const \in BOOLEAN
        /\ s.elt \in QualType(S \ {Void}, ArrayEltConst) /\ s.elt.const \in BOOLEAN
        /\ s.kind = "array"
        BY <1>1, CtxAssumption DEF Requests, QualType, Matches
  <2>2. r.elt = Unqualified(r.elt) /\ s.elt = Unqualified(s.elt)
        BY <1>0, <1>1, <2>1 DEF QualType, Unqualified, ConstElements
  <2> QED BY <1>1, <2>2 DEF Matches, ArrayKeyEq
<1>2. CASE r.kind # "array"
      BY <1>2 DEF Matches, BasicKeyEq, PtrKeyEq, FunctionKeyEq, Differ, Unqualified
<1> QED BY <1>1, <1>2

(* Every type is unique but for arrays of const elements: asking again for *)
(* what an object was created from finds that object, and else only such   *)
(* arrays, younger than it.                                                *)
THEOREM TypesInterned == Spec => []Interned
<1>1. Init => Interned BY DEF Init, Interned
<1>2. TypeOK /\ TypeOK' /\ Interned /\ [Next]_vars => Interned'
  <2> SUFFICES ASSUME TypeOK, TypeOK', Interned, Next PROVE Interned'
      BY DEF vars, Interned, Found
  <2>1. PICK req \in Requests(TypePtr) : FindOrCreate(req) BY NextCreates
  <2>2. heap' = Append(heap, req) /\ Found(req) = {} BY <2>1 DEF FindOrCreate
  <2> DEFINE new == Len(heap) + 1
             F(a) == {b \in DOMAIN heap' : Matches(heap'[a], heap'[b])}
  <2>3. /\ Len(heap) \in Nat /\ DOMAIN heap = 1..Len(heap)
        /\ DOMAIN heap' = 1..new /\ DOMAIN heap' = DOMAIN heap \cup {new} /\ heap'[new] = req
        /\ \A a \in DOMAIN heap : heap'[a] = heap[a] /\ new > a
        BY <2>2 DEF TypeOK
  <2>4. ASSUME NEW a \in DOMAIN heap' PROVE heap'[a] \in Requests(0..new)
    <3>1. a \in 1..new /\ new \in Nat BY <2>3
    <3>2. 0..(a - 1) \subseteq 0..new BY <3>1
    <3>3. heap'[a] \in Requests(0..(a - 1)) BY DEF TypeOK
    <3> HIDE DEF new
    <3> QED BY <3>2, <3>3, RequestsMonotonic
  <2>5. ASSUME NEW a \in DOMAIN heap
        PROVE  ~Matches(req, heap[a]) /\ (Matches(heap[a], req) => ConstElements(req))
    <3>1. ~Matches(req, heap[a]) BY <2>2 DEF Found
    <3>2. heap[a] \in Requests(0..new) /\ req \in Requests(0..new) BY <2>3, <2>4
    <3> QED BY <3>1, <3>2, MatchesSymmetric
  <2> HIDE DEF new
  <2>6. ASSUME NEW a \in DOMAIN heap', ConstElements(heap'[a]) PROVE F(a) = {}
        BY <2>6, ConstNeverFound
  <2>7. ASSUME NEW a \in DOMAIN heap', ~ConstElements(heap'[a])
        PROVE  a \in F(a) /\ \A b \in F(a) \ {a} : b > a /\ ConstElements(heap'[b])
    <3>1. a \in F(a) BY <2>4, <2>7, MatchesReflexive
    <3> SUFFICES ASSUME NEW b \in DOMAIN heap', b # a, Matches(heap'[a], heap'[b])
                 PROVE  b > a /\ ConstElements(heap'[b])
          BY <3>1
    <3>2. CASE a = new BY <2>3, <2>5, <3>2
    <3>3. CASE a # new /\ b = new BY <2>3, <2>5, <3>3
    <3>4. CASE a # new /\ b # new
      <4>1. a \in DOMAIN heap /\ b \in DOMAIN heap BY <2>3, <3>4
      <4>2. b \in Found(heap[a]) \ {a} /\ ~ConstElements(heap[a]) BY <2>3, <2>7, <4>1 DEF Found
      <4> QED BY <2>3, <4>1, <4>2 DEF Interned
    <3> QED BY <3>2, <3>3, <3>4
  <2>8. \A a \in DOMAIN heap' :
          IF ConstElements(heap'[a]) THEN F(a) = {}
          ELSE a \in F(a) /\ \A b \in F(a) \ {a} : b > a /\ ConstElements(heap'[b])
        BY <2>6, <2>7
  <2> QED BY <2>8 DEF Interned, Found
<1> QED BY <1>1, <1>2, TypeCorrect, PTL DEF Spec

-----------------------------------------------------------------------------
(* Structure.  Addresses up to n, in the order of allocation, are enough   *)
(* to say what the first n objects denote, so Denotes is what its          *)
(* definition says.                                                        *)
LEMMA Least ==
    ASSUME NEW S \in SUBSET Nat, S # {}
    PROVE  \E n \in S : \A k \in S : n <= k
<1> DEFINE R == OpToRel(<, Nat)
<1>1. IsWellFoundedOn(R, Nat) BY NatLessThanWellFounded
<1>2. PICK n \in S : \A k \in S : ~(<<k, n>> \in R)
  <2> HIDE DEF R
  <2> QED BY <1>1, WFMin
<1>3. \A k \in S : ~(k < n) BY <1>2 DEF OpToRel
<1> QED BY <1>3

(* What the parts of an object look like.                                  *)
LEMMA ObjectParts ==
    ASSUME TypeOK, NEW a \in DOMAIN heap
    PROVE  /\ heap[a].kind \in {"basic", "ptr", "array", "func"}
           /\ heap[a].kind = "ptr" =>
                /\ heap[a] \in [kind : {"ptr"}, pointee : QualType(0..(a - 1), BOOLEAN)]
                /\ heap[a].pointee.ty \in 0..(a - 1)
           /\ heap[a].kind = "array" => heap[a].elt.ty \in 0..(a - 1)
           /\ heap[a].kind = "func" =>
                /\ heap[a].ret.ty \in 0..(a - 1)
                /\ \E k \in ParamCount : heap[a].params \in [1..k -> QualType(0..(a - 1), BOOLEAN)]
                /\ \A i \in DOMAIN heap[a].params : heap[a].params[i].ty \in 0..(a - 1)
<1> DEFINE o == heap[a]
           S == 0..(a - 1)
<1>1. o \in Requests(S) BY DEF TypeOK
<1> HIDE DEF o, S
<1>2. CASE o \in [kind : {"basic"}, bkind : BasicKind] BY <1>2 DEF o
<1>3. CASE o \in [kind : {"ptr"}, pointee : QualType(S, BOOLEAN)]
      BY <1>3 DEF o, S, QualType
<1>4. CASE o \in [kind : {"array"}, elt : QualType(S \ {Void}, ArrayEltConst), n : Count]
      BY <1>4 DEF o, S, QualType
<1>5. CASE o \in [kind : {"func"}, ret : QualType(S, BOOLEAN), params : ParamLists(S),
                  flags : Flags]
  <2>1. /\ o.kind = "func" /\ o.ret \in QualType(S, BOOLEAN) /\ o.params \in ParamLists(S)
        BY <1>5
  <2>2. PICK k \in ParamCount : o.params \in [1..k -> QualType(S, BOOLEAN)]
        BY <2>1 DEF ParamLists
  <2>3. \A i \in DOMAIN o.params : o.params[i].ty \in S BY <2>2 DEF QualType
  <2>4. o.ret.ty \in S BY <2>1 DEF QualType
  <2> QED BY <2>1, <2>2, <2>3, <2>4 DEF o, S
<1> QED BY <1>1, <1>2, <1>3, <1>4, <1>5 DEF Requests

(* Unfold looks at older objects only.                                     *)
LEMMA UnfoldLocal ==
    ASSUME TypeOK, NEW a \in 0..Len(heap), NEW D, NEW E, \A x \in 0..(a - 1) : D[x] = E[x]
    PROVE  Unfold(D, a) = Unfold(E, a)
<1>1. CASE a = 0 BY <1>1 DEF Unfold, Void
<1>2. CASE a # 0
  <2>1. a \in DOMAIN heap /\ a # Void BY <1>2 DEF TypeOK, Void
  <2>2. CASE heap[a].kind = "basic" BY <2>1, <2>2 DEF Unfold
  <2>3. CASE heap[a].kind = "ptr"
        BY <2>1, <2>3, ObjectParts DEF Unfold
  <2>4. CASE heap[a].kind = "array"
        BY <2>1, <2>4, ObjectParts DEF Unfold
  <2>5. CASE heap[a].kind = "func"
    <3>1. D[heap[a].ret.ty] = E[heap[a].ret.ty] BY <2>1, <2>5, ObjectParts
    <3>2. \A i \in DOMAIN heap[a].params : D[heap[a].params[i].ty] = E[heap[a].params[i].ty]
          BY <2>1, <2>5, ObjectParts
    <3>3. [i \in DOMAIN heap[a].params |-> <<heap[a].params[i].const, D[heap[a].params[i].ty]>>]
        = [i \in DOMAIN heap[a].params |-> <<heap[a].params[i].const, E[heap[a].params[i].ty]>>]
          BY <3>2
    <3> QED BY <2>1, <2>5, <3>1, <3>3 DEF Unfold
  <2> QED BY <2>1, <2>2, <2>3, <2>4, <2>5, ObjectParts
<1> QED BY <1>1, <1>2

LEMMA DenotesUnfolds ==
    ASSUME TypeOK
    PROVE  Denotes = [a \in 0..Len(heap) |-> Unfold(Denotes, a)]
<1> DEFINE N       == Len(heap)
           Good(n) == \E D : D = [a \in 0..n |-> Unfold(D, a)]
           Bad     == {n \in 0..N : ~Good(n)}
<1>0. N \in Nat /\ {Void} \cup DOMAIN heap = 0..N BY DEF TypeOK, Void
<1>1. Good(0)
  <2> DEFINE D == [a \in 0..0 |-> <<"void">>]
  <2>1. \A a \in 0..0 : Unfold(D, a) = <<"void">> BY DEF Unfold, Void
  <2>2. D = [a \in 0..0 |-> Unfold(D, a)] BY <2>1
  <2> QED BY <2>2
<1>2. ASSUME NEW n \in 0..N, n # 0, Good(n - 1) PROVE Good(n)
  <2>1. PICK D : D = [a \in 0..(n - 1) |-> Unfold(D, a)] BY <1>2
  <2> DEFINE E == [a \in 0..n |-> IF a = n THEN Unfold(D, n) ELSE D[a]]
  <2>2. n \in Nat /\ \A x \in 0..(n - 1) : x \in 0..n /\ x # n BY <1>0
  <2>3. \A x \in 0..(n - 1) : E[x] = D[x] BY <2>2
  <2>4. E[n] = Unfold(D, n) BY <2>2
  <2>5. DOMAIN E = 0..n OBVIOUS
  <2>6. E = [a \in 0..n |-> E[a]] OBVIOUS
  <2> HIDE DEF E
  <2>7. Unfold(D, n) = Unfold(E, n) BY <1>2, <2>3, UnfoldLocal
  <2>8. ASSUME NEW a \in 0..n PROVE E[a] = Unfold(E, a)
    <3>1. CASE a = n BY <2>4, <2>7, <3>1
    <3>2. CASE a # n
      <4>1. a \in 0..(n - 1) /\ a \in 0..N BY <1>0, <2>2, <3>2
      <4>2. \A x \in 0..(a - 1) : D[x] = E[x] BY <2>2, <2>3, <4>1
      <4>3. Unfold(D, a) = Unfold(E, a) BY <4>1, <4>2, UnfoldLocal
      <4>4. D[a] = Unfold(D, a) BY <2>1, <4>1
      <4> QED BY <2>3, <4>1, <4>3, <4>4
    <3> QED BY <3>1, <3>2
  <2>9. E = [a \in 0..n |-> Unfold(E, a)] BY <2>6, <2>8
  <2> QED BY <2>9
<1>3. Good(N)
  <2> SUFFICES ASSUME ~Good(N) PROVE FALSE OBVIOUS
  <2>1. Bad \in SUBSET Nat /\ N \in Bad BY <1>0
  <2> HIDE DEF Good
  <2>2. PICK n \in Bad : \A k \in Bad : n <= k
    <3> HIDE DEF Bad
    <3> QED BY <2>1, Least
  <2>3. n \in 0..N /\ ~Good(n) OBVIOUS
  <2>4. n # 0 BY <1>1, <2>3
  <2>5. n - 1 \in 0..N /\ ~(n <= n - 1) BY <1>0, <2>3, <2>4
  <2>6. Good(n - 1) BY <2>2, <2>5
  <2> QED BY <1>2, <2>3, <2>4, <2>6
<1>4. \E D : D = [a \in {Void} \cup DOMAIN heap |-> Unfold(D, a)] BY <1>0, <1>3
<1>5. Denotes = [a \in {Void} \cup DOMAIN heap |-> Unfold(Denotes, a)]
      BY <1>4 DEF Denotes
<1> QED BY <1>0, <1>5

(* Two objects of the same structure, all of whose parts are different     *)
(* from each other as types if they are different objects, match, if they  *)
(* are not one array of const elements.                                    *)
LEMMA SameStructureMatches ==
    ASSUME TypeOK,
           NEW a \in DOMAIN heap, NEW b \in DOMAIN heap, NEW D, Unfold(D, a) = Unfold(D, b),
           \A x \in 0..(a - 1), y \in 0..(b - 1) : D[x] = D[y] => x = y
    PROVE  a = b \/ (Matches(heap[a], heap[b]) /\ ~ConstElements(heap[b]))
<1> DEFINE o == heap[a]
           p == heap[b]
<1>0. a # Void /\ b # Void BY DEF Void, TypeOK
<1>1. /\ o.kind \in {"basic", "ptr", "array", "func"}
      /\ p.kind \in {"basic", "ptr", "array", "func"}
      BY ObjectParts
<1>2. o.kind = p.kind
  <2>1. Unfold(D, a)[1] = o.kind /\ Unfold(D, b)[1] = p.kind
        BY <1>0, <1>1 DEF Unfold
  <2> QED BY <2>1
<1>3. CASE o.kind = "basic"
  <2>1. Unfold(D, a)[2] = o.bkind /\ Unfold(D, b)[2] = p.bkind
        BY <1>0, <1>2, <1>3 DEF Unfold
  <2> QED BY <1>2, <1>3, <2>1 DEF Matches, BasicKeyEq, ConstElements
<1>4. CASE o.kind = "ptr"
  <2>1. /\ Unfold(D, a)[2] = o.pointee.const /\ Unfold(D, b)[2] = p.pointee.const
        /\ Unfold(D, a)[3] = D[o.pointee.ty] /\ Unfold(D, b)[3] = D[p.pointee.ty]
        BY <1>0, <1>2, <1>4 DEF Unfold
  <2>2. /\ o.pointee \in QualType(0..(a - 1), BOOLEAN) /\ o.pointee.ty \in 0..(a - 1)
        /\ p.pointee \in QualType(0..(b - 1), BOOLEAN) /\ p.pointee.ty \in 0..(b - 1)
        BY <1>2, <1>4, ObjectParts
  <2>3. o.pointee.ty = p.pointee.ty /\ o.pointee.const = p.pointee.const BY <2>1, <2>2
  <2>4. o.pointee = p.pointee BY <2>2, <2>3 DEF QualType
  <2> QED BY <1>2, <1>4, <2>4 DEF Matches, PtrKeyEq, ConstElements
<1>5. CASE o.kind = "array"
  <2>1. /\ Unfold(D, a)[2] = o.n /\ Unfold(D, b)[2] = p.n
        /\ Unfold(D, a)[3] = D[o.elt.ty] /\ Unfold(D, b)[3] = D[p.elt.ty]
        /\ Unfold(D, a)[4] = (IF ConstElements(o) THEN a ELSE Void)
        /\ Unfold(D, b)[4] = (IF ConstElements(p) THEN b ELSE Void)
        BY <1>0, <1>2, <1>5 DEF Unfold
  <2>2. o.elt.ty \in 0..(a - 1) /\ p.elt.ty \in 0..(b - 1) BY <1>2, <1>5, ObjectParts
  <2>3. o.n = p.n /\ o.elt.ty = p.elt.ty BY <2>1, <2>2
  <2>4. o.elt \in [ty : 0..(a - 1), const : BOOLEAN]
    <3>1. o \in Requests(0..(a - 1)) BY DEF TypeOK
    <3> HIDE DEF o
    <3> QED BY <1>5, <3>1, CtxAssumption DEF Requests, QualType
  <2>5. CASE ConstElements(o) \/ ConstElements(p) BY <1>0, <2>1, <2>5
  <2>6. CASE ~ConstElements(o) /\ ~ConstElements(p)
    <3>1. o.elt = Unqualified(p.elt) BY <1>5, <2>3, <2>4, <2>6 DEF Unqualified, ConstElements
    <3> QED BY <1>2, <1>5, <2>3, <2>6, <3>1 DEF Matches, ArrayKeyEq
  <2> QED BY <2>5, <2>6
<1>6. CASE o.kind = "func"
  <2> DEFINE P(h) == [i \in DOMAIN h.params |-> <<h.params[i].const, D[h.params[i].ty]>>]
  <2>1. /\ Unfold(D, a)[2] = o.flags /\ Unfold(D, b)[2] = p.flags
        /\ Unfold(D, a)[3] = D[o.ret.ty] /\ Unfold(D, b)[3] = D[p.ret.ty]
        /\ Unfold(D, a)[4] = P(o) /\ Unfold(D, b)[4] = P(p)
        BY <1>0, <1>2, <1>6 DEF Unfold
  <2>2. o.ret.ty \in 0..(a - 1) /\ p.ret.ty \in 0..(b - 1) BY <1>2, <1>6, ObjectParts
  <2>3. o.flags = p.flags /\ o.ret.ty = p.ret.ty BY <2>1, <2>2
  <2>4. PICK k \in ParamCount : o.params \in [1..k -> QualType(0..(a - 1), BOOLEAN)]
        BY <1>6, ObjectParts
  <2>5. PICK l \in ParamCount : p.params \in [1..l -> QualType(0..(b - 1), BOOLEAN)]
        BY <1>2, <1>6, ObjectParts
  <2>6. P(o) = P(p) BY <2>1
  <2> HIDE DEF o, p
  <2>7. DOMAIN P(o) = DOMAIN o.params /\ DOMAIN P(p) = DOMAIN p.params OBVIOUS
  <2>8. 1..k = 1..l /\ DOMAIN o.params = 1..k /\ DOMAIN p.params = 1..l
        BY <2>4, <2>5, <2>6, <2>7
  <2>9. ASSUME NEW i \in 1..k PROVE o.params[i] = p.params[i]
    <3>0. i \in DOMAIN o.params /\ i \in DOMAIN p.params BY <2>8
    <3>1. /\ P(o)[i] = <<o.params[i].const, D[o.params[i].ty]>>
          /\ P(p)[i] = <<p.params[i].const, D[p.params[i].ty]>>
          BY <3>0
    <3>2. o.params[i].const = p.params[i].const /\ D[o.params[i].ty] = D[p.params[i].ty]
      <4> HIDE DEF P
      <4>1. <<o.params[i].const, D[o.params[i].ty]>> = <<p.params[i].const, D[p.params[i].ty]>>
            BY <2>6, <3>1
      <4> QED BY <4>1
    <3>3. /\ o.params[i] \in QualType(0..(a - 1), BOOLEAN)
          /\ p.params[i] \in QualType(0..(b - 1), BOOLEAN)
          BY <2>4, <2>5, <2>8
    <3>4. o.params[i].ty \in 0..(a - 1) /\ p.params[i].ty \in 0..(b - 1)
          BY <3>3 DEF QualType
    <3>5. o.params[i].ty = p.params[i].ty BY <3>2, <3>4
    <3> QED BY <3>2, <3>3, <3>5 DEF QualType
  <2>10. o.params = p.params
    <3> DEFINE f == o.params
               g == p.params
    <3>1. f = [i \in 1..k |-> f[i]] BY <2>4
    <3>2. g = [i \in 1..k |-> g[i]] BY <2>5, <2>8
    <3>3. \A i \in 1..k : f[i] = g[i] BY <2>9
    <3> HIDE DEF f, g
    <3>4. f = g BY <3>1, <3>2, <3>3
    <3> QED BY <3>4 DEF f, g
  <2>11. o.kind = "func" /\ p.kind = "func" BY <1>2, <1>6
  <2>12. Matches(o, p)
         BY <2>3, <2>10, <2>11 DEF Matches, FunctionKeyEq, Differ, Unqualified
  <2>13. ~ConstElements(p) BY <2>11 DEF ConstElements
  <2> QED BY <2>12, <2>13 DEF o, p
<1> QED BY <1>1, <1>3, <1>4, <1>5, <1>6

(* Two addresses never denote the same C type, written out down to its     *)
(* leaves and arrays of const elements: by induction on the younger of the *)
(* two, whose parts are older than it.                                     *)
THEOREM TypesUnique == Spec => []UniqueByStructure
<1>1. ASSUME TypeOK, Interned PROVE UniqueByStructure
  <2> DEFINE N   == Len(heap)
             D   == Denotes
             Bad == {b \in 1..N : \E a \in 0..(b - 1) : D[a] = D[b]}
  <2>0. N \in Nat /\ DOMAIN heap = 1..N BY <1>1 DEF TypeOK
  <2>1. \A a \in 0..N : D[a] = Unfold(D, a)
    <3>1. D = [a \in 0..N |-> Unfold(D, a)] BY <1>1, DenotesUnfolds
    <3> HIDE DEF D
    <3> QED BY <3>1
  <2> HIDE DEF D
  <2>2. Bad = {}
    <3> SUFFICES ASSUME Bad # {} PROVE FALSE OBVIOUS
    <3>1. Bad \in SUBSET Nat OBVIOUS
    <3>2. PICK b \in Bad : \A c \in Bad : b <= c
      <4> HIDE DEF Bad
      <4> QED BY <3>1, Least
    <3>3. PICK a \in 0..(b - 1) : D[a] = D[b] OBVIOUS
    <3>4. b \in 1..N /\ b \in Nat /\ a \in Nat /\ a < b /\ a \in 0..N BY <2>0
    <3>5. ASSUME NEW x \in 0..(b - 1), NEW y \in 0..(b - 1), D[x] = D[y] PROVE x = y
      <4>1. ASSUME NEW v \in 0..(b - 1), NEW w \in 0..(b - 1), v < w PROVE D[v] # D[w]
        <5>1. w \in 1..N /\ ~(b <= w) /\ v \in 0..(w - 1) BY <2>0, <3>4, <4>1
        <5>2. w \notin Bad BY <3>2, <5>1
        <5> QED BY <5>1, <5>2
      <4>2. x \in Nat /\ y \in Nat BY <3>4
      <4> QED BY <3>5, <4>1, <4>2
    <3>6. Unfold(D, a) = Unfold(D, b) BY <2>1, <3>3, <3>4
    <3>7. CASE a = 0
      <4>1. Unfold(D, a)[1] = "void" BY <3>7 DEF Unfold, Void
      <4>2. b \in DOMAIN heap /\ b # Void BY <2>0, <3>4 DEF Void
      <4>3. Unfold(D, b)[1] = heap[b].kind /\ heap[b].kind # "void"
            BY <1>1, <4>2, ObjectParts DEF Unfold
      <4> QED BY <3>6, <4>1, <4>3
    <3>8. CASE a # 0
      <4>1. a \in DOMAIN heap /\ b \in DOMAIN heap BY <2>0, <3>4, <3>8
      <4>2. \A x \in 0..(a - 1), y \in 0..(b - 1) : D[x] = D[y] => x = y
        <5>1. \A x \in 0..(a - 1) : x \in 0..(b - 1) BY <3>4
        <5> QED BY <3>5, <5>1
      <4>3. a = b \/ (Matches(heap[a], heap[b]) /\ ~ConstElements(heap[b]))
            BY <1>1, <3>6, <4>1, <4>2, SameStructureMatches
      <4>4. b # a /\ b \in Found(heap[a]) /\ ~ConstElements(heap[b])
            BY <3>4, <4>1, <4>3 DEF Found
      <4>5. \A c \in Found(heap[a]) \ {a} : ConstElements(heap[c])
            BY <1>1, <4>1 DEF Interned
      <4> QED BY <4>4, <4>5
    <3> QED BY <3>7, <3>8
  <2>3. ASSUME NEW a \in 1..N, NEW b \in 1..N, a < b PROVE D[a] # D[b]
    <3>1. a \in 0..(b - 1) BY <2>3
    <3>2. b \notin Bad BY <2>2
    <3> QED BY <3>1, <3>2
  <2>4. \A a, b \in 1..N : a = b \/ a < b \/ b < a BY <2>0
  <2>5. \A a, b \in 1..N : D[a] = D[b] => a = b BY <2>3, <2>4
  <2> QED BY <2>0, <2>5 DEF UniqueByStructure, D
<1>2. TypeOK /\ Interned => UniqueByStructure BY <1>1
<1> QED BY <1>2, TypeCorrect, TypesInterned, PTL
=============================================================================
