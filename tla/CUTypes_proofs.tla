--------------------------- MODULE CUTypes_proofs ---------------------------
(***************************************************************************)
(* Theorems about CUTypes: the passes of compile over the debug            *)
(* information build well-formed types, find every type they look for, and *)
(* leave alone what they have finished.                                    *)
(***************************************************************************)
EXTENDS CUTypes, FiniteSetTheorems, SequenceTheorems, WellFoundedInduction, TLAPS

Nodes == DIType \cup {NoNode}

(* A set of natural numbers has a least element.                           *)
LEMMA Least ==
    ASSUME NEW S \in SUBSET Nat, S # {}
    PROVE  \E n \in S : \A k \in S : n <= k
<1> DEFINE R == OpToRel(<, Nat)
<1>1. IsWellFoundedOn(R, Nat) BY NatLessThanWellFounded
<1>2. PICK n \in S : \A k \in S : ~(<<k, n>> \in R)
  <2> HIDE DEF R
  <2> QED BY <1>1, WFMin
<1>3. \A k \in S : ~(k < n) BY <1>2 DEF OpToRel
<1> QED BY <1>3

-----------------------------------------------------------------------------
(* What the code makes of a node depends on the nodes it derives from only. *)
LEMMA QualTypeLocal ==
    ASSUME NEW d \in Nodes, NEW M, NEW N,
           d \in DIType /\ DI[d].tag \in DerivedTags => \A p \in PartsOf(d) : M[p] = N[p]
    PROVE  getQualTypeFromDIType(M, d) = getQualTypeFromDIType(N, d)
<1>1. CASE d = NoNode BY <1>1 DEF getQualTypeFromDIType
<1>2. CASE d # NoNode /\ DI[d].tag \notin DerivedTags BY <1>2 DEF getQualTypeFromDIType
<1>3. CASE d # NoNode /\ DI[d].tag \in DerivedTags
  <2>1. d \in DIType BY <1>3 DEF Nodes
  <2>2. CASE DI[d].tag = "subroutine_type"
    <3> DEFINE sig == DI[d].sig
    <3>1. sig \in Seq(Nodes) /\ sig # <<>> BY <2>1, <2>2, DebugInfoAssumption DEF Nodes
    <3>2. \A i \in 1 .. Len(sig) : M[sig[i]] = N[sig[i]]
      <4>1. \A i \in 1 .. Len(sig) : sig[i] \in PartsOf(d) BY <2>2, <3>1 DEF PartsOf, Range
      <4> QED BY <1>3, <2>1, <4>1
    <3> HIDE DEF sig
    <3>3. Len(sig) \in Nat /\ Len(sig) # 0 BY <3>1
    <3>4. M[sig[1]] = N[sig[1]] BY <3>2, <3>3
    <3>5. [i \in 1 .. Len(sig) - 1 |-> M[sig[i + 1]]] = [i \in 1 .. Len(sig) - 1 |-> N[sig[i + 1]]]
          BY <3>2, <3>3
    <3>6. \A Q : getQualTypeFromDIType(Q, d)
                   = FunctionType(Q[sig[1]], [i \in 1 .. Len(sig) - 1 |-> Q[sig[i + 1]]])
          BY <1>3, <2>2 DEF getQualTypeFromDIType, sig, DerivedTags, SameTags
    <3> QED BY <3>4, <3>5, <3>6
  <2>3. CASE DI[d].tag # "subroutine_type"
    <3>1. M[DI[d].base] = N[DI[d].base] BY <1>3, <2>1, <2>3 DEF PartsOf
    <3> QED BY <1>3, <2>3, <3>1 DEF getQualTypeFromDIType, DerivedTags, SameTags
  <2> QED BY <2>2, <2>3
<1> QED BY <1>1, <1>2, <1>3

(* Types nest finitely, so the recursive function satisfies its equation.  *)
LEMMA QualTypesUnfold ==
    ASSUME NEW H \in Nat, NEW h, NestedBy(h, H)
    PROVE  \A d \in Nodes : QualTypes[d] = getQualTypeFromDIType(QualTypes, d)
<1> DEFINE rank(d) == IF d = NoNode THEN 0 ELSE h[d] + 1
           Upto(M, n) == /\ M = [d \in Nodes |-> M[d]]
                         /\ \A d \in Nodes : rank(d) <= n => M[d] = getQualTypeFromDIType(M, d)
           Good(n) == \E M : Upto(M, n)
           Bad     == {n \in 0 .. (H + 1) : ~Good(n)}
<1>1. \A d \in Nodes : rank(d) \in 0 .. (H + 1)
  <2> SUFFICES ASSUME NEW d \in Nodes PROVE rank(d) \in 0 .. (H + 1) OBVIOUS
  <2>1. CASE d = NoNode BY <2>1
  <2>2. CASE d # NoNode
    <3>1. h[d] \in 0 .. H BY <2>2 DEF NestedBy, Nodes
    <3> QED BY <2>2, <3>1
  <2> QED BY <2>1, <2>2
<1>2. ASSUME NEW d \in DIType, DI[d].tag \in DerivedTags, NEW p \in PartsOf(d)
      PROVE  p \in Nodes /\ rank(p) < rank(d)
  <2>1. p \in Nodes
    <3>1. CASE DI[d].tag = "subroutine_type"
      <4>1. DI[d].sig \in Seq(Nodes) BY DebugInfoAssumption DEF Nodes
      <4> QED BY <3>1, <4>1, <1>2 DEF PartsOf, Range
    <3>2. CASE DI[d].tag # "subroutine_type"
          BY <1>2, <3>2, DebugInfoAssumption DEF PartsOf, Nodes
    <3> QED BY <3>1, <3>2
  <2>2. rank(d) = h[d] + 1 /\ h[d] \in 0 .. H BY DebugInfoAssumption DEF NestedBy
  <2>3. CASE p = NoNode BY <2>1, <2>2, <2>3
  <2>4. CASE p # NoNode
    <3>1. h[p] < h[d] /\ h[p] \in 0 .. H BY <1>2, <2>1, <2>4 DEF NestedBy, Nodes
    <3>2. rank(p) = h[p] + 1 BY <2>4
    <3> HIDE DEF rank
    <3> QED BY <2>1, <2>2, <3>1, <3>2
  <2> QED BY <2>3, <2>4
<1>3. Good(0)
  <2> DEFINE M == [d \in Nodes |-> <<Null>>]
  <2>1. ASSUME NEW d \in Nodes, rank(d) <= 0 PROVE getQualTypeFromDIType(M, d) = <<Null>>
    <3>1. d = NoNode
      <4> SUFFICES ASSUME d # NoNode PROVE FALSE OBVIOUS
      <4>1. rank(d) = h[d] + 1 /\ h[d] \in 0 .. H BY DEF NestedBy, Nodes
      <4> HIDE DEF rank
      <4> QED BY <2>1, <4>1
    <3> QED BY <3>1 DEF getQualTypeFromDIType
  <2>2. M = [d \in Nodes |-> M[d]] /\ \A d \in Nodes : M[d] = <<Null>> OBVIOUS
  <2> HIDE DEF M, rank
  <2>3. Upto(M, 0) BY <2>1, <2>2
  <2> QED BY <2>3
<1> HIDE DEF rank
<1>4. ASSUME NEW n \in 0 .. (H + 1), n # 0, Good(n - 1) PROVE Good(n)
  <2>1. PICK M : Upto(M, n - 1) BY <1>4
  <2> DEFINE E == [d \in Nodes |-> IF rank(d) = n THEN getQualTypeFromDIType(M, d) ELSE M[d]]
  <2>2. E = [d \in Nodes |-> E[d]]
        /\ \A d \in Nodes : E[d] = IF rank(d) = n THEN getQualTypeFromDIType(M, d) ELSE M[d]
        OBVIOUS
  <2> HIDE DEF E
  <2>3. ASSUME NEW d \in Nodes, rank(d) <= n PROVE E[d] = getQualTypeFromDIType(E, d)
    <3>1. d \in DIType /\ DI[d].tag \in DerivedTags => \A p \in PartsOf(d) : M[p] = E[p]
      <4> SUFFICES ASSUME d \in DIType, DI[d].tag \in DerivedTags, NEW p \in PartsOf(d)
                   PROVE M[p] = E[p]
          OBVIOUS
      <4>1. p \in Nodes /\ rank(p) < rank(d) BY <1>2
      <4>2. rank(p) # n BY <1>1, <2>3, <4>1
      <4> QED BY <2>2, <4>1, <4>2
    <3>2. getQualTypeFromDIType(M, d) = getQualTypeFromDIType(E, d) BY <3>1, QualTypeLocal
    <3>3. CASE rank(d) = n BY <2>2, <3>2, <3>3
    <3>4. CASE rank(d) # n
      <4>1. rank(d) <= n - 1 BY <1>1, <2>3, <3>4
      <4>2. M[d] = getQualTypeFromDIType(M, d) BY <2>1, <4>1
      <4> QED BY <2>2, <3>2, <3>4, <4>2
    <3> QED BY <3>3, <3>4
  <2>4. Upto(E, n) BY <2>2, <2>3
  <2> QED BY <2>4
<1>5. Good(H + 1)
  <2> SUFFICES ASSUME ~Good(H + 1) PROVE FALSE OBVIOUS
  <2>1. Bad \in SUBSET Nat /\ H + 1 \in Bad OBVIOUS
  <2> HIDE DEF Good
  <2>2. PICK n \in Bad : \A k \in Bad : n <= k
    <3> HIDE DEF Bad
    <3> QED BY <2>1, Least
  <2>3. n \in 0 .. (H + 1) /\ ~Good(n) OBVIOUS
  <2>4. n # 0 BY <1>3, <2>3
  <2>5. n - 1 \in 0 .. (H + 1) /\ ~(n <= n - 1) BY <2>3, <2>4
  <2>6. Good(n - 1) BY <2>2, <2>5
  <2> QED BY <1>4, <2>3, <2>4, <2>6
<1>6. PICK M : Upto(M, H + 1) BY <1>5
<1>7. \A d \in Nodes : M[d] = getQualTypeFromDIType(M, d) BY <1>1, <1>6
<1>8. M = [d \in Nodes |-> getQualTypeFromDIType(M, d)] BY <1>6, <1>7
<1>9. QualTypes = [d \in Nodes |-> getQualTypeFromDIType(QualTypes, d)]
      BY <1>8 DEF QualTypes, Nodes
<1> QED BY <1>9
(* Words one after the other are a word over the same letters.             *)
LEMMA Flattened ==
    ASSUME NEW S, NEW p \in Seq(Seq(S))
    PROVE  FlattenSeq(p) \in Seq(S)
<1>1. CASE Len(p) = 0
  <2>1. p = <<>> BY <1>1
  <2> QED BY <1>1, <2>1 DEF FlattenSeq
<1>2. CASE Len(p) # 0
  <2> DEFINE D == 1 .. Len(p)
             F(f, i) == IF i = 1 THEN p[i] ELSE f[i - 1] \o p[i]
             Upto(f, n) == f \in [D -> Seq(S)] /\ \A i \in D : i <= n => f[i] = F(f, i)
             Good(n) == \E f : Upto(f, n)
             Bad == {n \in D : ~Good(n)}
  <2>0. Len(p) \in Nat /\ \A i \in D : p[i] \in Seq(S) OBVIOUS
  <2>1. Good(1)
    <3> DEFINE f == [i \in D |-> p[i]]
    <3>1. f \in [D -> Seq(S)] /\ \A i \in D : f[i] = p[i] BY <2>0
    <3>2. \A i \in D : i <= 1 => i = 1 BY <2>0
    <3> HIDE DEF f
    <3>3. Upto(f, 1) BY <3>1, <3>2
    <3> QED BY <3>3
  <2>2. ASSUME NEW n \in D, n # 1, Good(n - 1) PROVE Good(n)
    <3>1. PICK f : Upto(f, n - 1) BY <2>2
    <3> DEFINE g == [i \in D |-> IF i = n THEN f[n - 1] \o p[n] ELSE f[i]]
    <3>2. n - 1 \in D BY <2>0, <2>2
    <3>3. f[n - 1] \in Seq(S) /\ p[n] \in Seq(S) BY <2>0, <3>1, <3>2
    <3>4. f[n - 1] \o p[n] \in Seq(S) BY <3>3
    <3>5. g \in [D -> Seq(S)] BY <3>1, <3>4
    <3>6. g[n] = f[n - 1] \o p[n] /\ \A i \in D : i # n => g[i] = f[i] OBVIOUS
    <3> HIDE DEF g
    <3>7. ASSUME NEW i \in D, i <= n PROVE g[i] = F(g, i)
      <4>1. CASE i = n
        <5>1. g[n - 1] = f[n - 1] BY <2>0, <3>2, <3>6
        <5> QED BY <2>2, <3>6, <4>1, <5>1
      <4>2. CASE i # n
        <5>1. i <= n - 1 BY <2>0, <3>7, <4>2
        <5>2. g[i] = F(f, i) BY <3>1, <3>6, <4>2, <5>1
        <5>3. CASE i = 1 BY <5>2, <5>3
        <5>4. CASE i # 1
          <6>1. i - 1 \in D /\ i - 1 # n BY <2>0, <5>1, <5>4
          <6>2. g[i - 1] = f[i - 1] BY <3>6, <6>1
          <6> QED BY <5>2, <5>4, <6>2
        <5> QED BY <5>3, <5>4
      <4> QED BY <4>1, <4>2
    <3>8. Upto(g, n) BY <3>5, <3>7
    <3> QED BY <3>8
  <2>3. Good(Len(p))
    <3> SUFFICES ASSUME ~Good(Len(p)) PROVE FALSE OBVIOUS
    <3> HIDE DEF Good
    <3>1. Bad \in SUBSET Nat /\ Len(p) \in Bad BY <1>2, <2>0
    <3>2. PICK n \in Bad : \A k \in Bad : n <= k
      <4> HIDE DEF Bad
      <4> QED BY <3>1, Least
    <3>3. n \in D /\ ~Good(n) OBVIOUS
    <3>4. n # 1 BY <2>1, <3>3
    <3>5. n - 1 \in D /\ ~(n <= n - 1) BY <2>0, <3>3, <3>4
    <3>6. Good(n - 1) BY <3>2, <3>5
    <3> QED BY <2>2, <3>3, <3>4, <3>6
  <2>4. PICK f : Upto(f, Len(p)) BY <2>3
  <2>5. \A i \in D : f[i] = F(f, i)
    <3>1. \A i \in D : i <= Len(p) BY <2>0
    <3> HIDE DEF F, D
    <3> QED BY <2>4, <3>1
  <2>6. f = [i \in D |-> F(f, i)] BY <2>4, <2>5
  <2> DEFINE flatten == CHOOSE f0 : f0 = [i \in D |-> F(f0, i)]
  <2>7. flatten = [i \in D |-> F(flatten, i)] BY <2>6
  <2>8. FlattenSeq(p) = flatten[Len(p)] BY <1>2 DEF FlattenSeq
  <2> HIDE DEF flatten
  <2>9. \A i \in D : flatten[i] = F(flatten, i) BY <2>7
  <2> DEFINE Off == {i \in D : flatten[i] \notin Seq(S)}
  <2>10. Off = {}
    <3> SUFFICES ASSUME Off # {} PROVE FALSE OBVIOUS
    <3>1. Off \in SUBSET Nat BY <2>0
    <3>2. PICK i \in Off : \A k \in Off : i <= k
      <4> HIDE DEF Off
      <4> QED BY <3>1, Least
    <3>3. i \in D /\ flatten[i] \notin Seq(S) OBVIOUS
    <3>4. i # 1 BY <2>0, <2>9, <3>3
    <3>5. i - 1 \in D /\ ~(i <= i - 1) BY <2>0, <3>3, <3>4
    <3>6. flatten[i - 1] \in Seq(S) BY <3>2, <3>5
    <3>7. flatten[i] = flatten[i - 1] \o p[i] BY <2>9, <3>3, <3>4
    <3>8. p[i] \in Seq(S) BY <2>0, <3>3
    <3>9. flatten[i] \in Seq(S) BY <3>6, <3>7, <3>8
    <3> QED BY <3>3, <3>9
  <2>11. Len(p) \in D BY <1>2, <2>0
  <2> QED BY <2>8, <2>10, <2>11
<1> QED BY <1>1, <1>2
-----------------------------------------------------------------------------
(* Words over the letters S, not const alone.                              *)
Word(S) == {w \in Seq(S) : w # <<>> /\ (w[1] = Const => Len(w) > 1)}

(* The letters that do not name a type.                                    *)
Constructors ==
    {Const, Pointer, Null} \cup {ArrayOf(DI[d].count) : d \in DIType}
      \cup ({"function"} \X {"", "..."} \X Nat)

LEMMA Letters ==
    /\ Const[1] = "const" /\ Pointer[1] = "pointer" /\ Null[1] = "null" /\ Unknown[1] = "unknown"
    /\ \A n : ArrayOf(n)[1] = "array" /\ Basic(n)[1] = "basic" /\ Basic(n)[2] = n
    /\ \A s, n : <<"function", s, n>>[1] = "function"
    /\ \A k : /\ Composite(k)[1] = "composite" /\ Composite(k)[2] = k[1]
              /\ Composite(k)[3] = k[2]
BY DEF Const, Pointer, Null, Unknown, ArrayOf, Basic, Composite

LEMMA OneLetter ==
    ASSUME NEW S, NEW x \in S, x # Const
    PROVE  /\ <<x>> \in Word(S)
           /\ \A w \in Seq(S) : <<x>> \o w \in Word(S)
<1>1. <<x>> \in Seq(S) /\ <<x>> # <<>> /\ <<x>>[1] = x OBVIOUS
<1>2. <<x>> \in Word(S) BY <1>1 DEF Word
<1>3. ASSUME NEW w \in Seq(S) PROVE <<x>> \o w \in Word(S)
  <2>1. <<x>> \o w \in Seq(S) /\ (<<x>> \o w)[1] = x /\ <<x>> \o w # <<>> OBVIOUS
  <2> QED BY <2>1 DEF Word
<1> QED BY <1>2, <1>3

LEMMA ConstWord ==
    ASSUME NEW S, Const \in S, NEW w \in Word(S)
    PROVE  WithConst(w) \in Word(S)
<1>0. w \in Seq(S) /\ w # <<>> BY DEF Word
<1>1. CASE isConst(w) BY <1>1 DEF WithConst
<1>2. CASE ~isConst(w)
  <2>1. <<Const>> \o w \in Seq(S) /\ <<Const>> \o w # <<>> /\ Len(<<Const>> \o w) > 1
        BY <1>0
  <2>2. <<Const>> \o w \in Word(S)
    <3> HIDE DEF Const
    <3> QED BY <2>1 DEF Word
  <2> QED BY <1>2, <2>2 DEF WithConst
<1> QED BY <1>1, <1>2

LEMMA FunctionWord ==
    ASSUME NEW S, Constructors \subseteq S, NEW ret \in Word(S), NEW params \in Seq(Word(S))
    PROVE  FunctionType(ret, params) \in Word(S)
<1> DEFINE n  == Len(params)
           va == n > 1 /\ params[n] = <<Null>>
           ps == IF va THEN SubSeq(params, 1, n - 1) ELSE params
           x  == <<"function", IF va THEN "..." ELSE "", n>>
<1>1. n \in Nat OBVIOUS
<1>2. x \in S /\ x # Const
  <2>1. x \in Constructors
    <3> DEFINE s == IF va THEN "..." ELSE ""
    <3>1. s \in {"", "..."} BY Zenon
    <3> HIDE DEF s
    <3>2. \A r \in {"", "..."}, m \in Nat : <<"function", r, m>> \in Constructors
          BY DEF Constructors
    <3>3. <<"function", s, n>> \in Constructors BY <1>1, <3>1, <3>2
    <3> QED BY <3>3 DEF s
  <2>2. x[1] = "function" OBVIOUS
  <2> HIDE DEF x
  <2> QED BY <2>1, <2>2, Letters
<1>3. ps \in Seq(Seq(S))
  <2>1. \A w \in Word(S) : w \in Seq(S) BY DEF Word
  <2>2. params \in Seq(Seq(S))
    <3>1. \A i \in 1 .. Len(params) : params[i] \in Seq(S) BY <2>1
    <3> QED BY <3>1
  <2>3. CASE va
    <3>1. SubSeq(params, 1, n - 1) \in Seq(Seq(S)) BY <1>1, <2>2, <2>3
    <3> QED BY <2>3, <3>1
  <2> QED BY <2>2, <2>3
<1>4. FlattenSeq(ps) \in Seq(S)
  <2> HIDE DEF ps
  <2> QED BY <1>3, Flattened
<1>5. ret \in Seq(S) BY DEF Word
<1>6. FunctionType(ret, params) = (<<x>> \o ret) \o FlattenSeq(ps)
      BY Zenon DEF FunctionType
<1> HIDE DEF x, ps
<1>7. (<<x>> \o ret) \o FlattenSeq(ps) = <<x>> \o (ret \o FlattenSeq(ps))
      BY <1>2, <1>4, <1>5
<1>8. ret \o FlattenSeq(ps) \in Seq(S) BY <1>4, <1>5
<1> QED BY <1>2, <1>6, <1>7, <1>8, OneLetter

(* What getType strips is a const that something follows.                  *)
LEMMA Unqualified ==
    ASSUME NEW S, NEW w \in Word(S)
    PROVE  getType_(w) \in Seq(S) /\ getType_(w) # <<>>
<1>1. w \in Seq(S) /\ w # <<>> /\ (w[1] = Const => Len(w) > 1) BY DEF Word
<1>2. CASE isConst(w)
  <2>1. Len(w) > 1 BY <1>1, <1>2 DEF isConst
  <2>2. Tail(w) \in Seq(S) /\ Len(Tail(w)) = Len(w) - 1 BY <1>1
  <2>3. Tail(w) # <<>>
    <3>1. Len(w) \in Nat /\ Len(w) - 1 # 0 BY <1>1, <2>1
    <3>2. Len(<<>>) = 0 OBVIOUS
    <3> QED BY <2>2, <3>1, <3>2
  <2> QED BY <1>2, <2>2, <2>3 DEF getType_
<1>3. CASE ~isConst(w) BY <1>1, <1>3 DEF getType_
<1> QED BY <1>2, <1>3
LEMMA LetterNotConst == \A d : Letter(d) # Const
<1> SUFFICES ASSUME NEW d PROVE Letter(d)[1] # "const" BY Letters
<1>1. \/ Letter(d) = Unknown \/ Letter(d) = Null \/ Letter(d) = Basic(DI[d].name)
      \/ Letter(d) = Composite(AnonTys_[d]) \/ Letter(d) = Composite(Key(DI[d].name))
      BY DEF Letter
<1> HIDE DEF Letter
<1> QED BY <1>1, Letters

(* The word of a node has the letters of the nodes it is made from, if D   *)
(* has what its nodes derive from.                                         *)
LEMMA QualWords ==
    ASSUME NEW H \in Nat, NEW h, NestedBy(h, H),
           NEW S, Constructors \subseteq S, NEW D \in SUBSET Nodes,
           \A d \in D \ {NoNode} :
             IF DI[d].tag \in DerivedTags THEN PartsOf(d) \subseteq D ELSE Letter(d) \in S
    PROVE  \A d \in D : QualTypes[d] \in Word(S)
<1>1. \A d \in D : QualTypes[d] = getQualTypeFromDIType(QualTypes, d) BY QualTypesUnfold
<1> DEFINE rank(d) == IF d = NoNode THEN 0 ELSE h[d]
           Q == QualTypes
           Bad == {n \in Nat : \E d \in D : rank(d) = n /\ Q[d] \notin Word(S)}
<1>2. \A d \in D : rank(d) \in Nat /\ (d # NoNode => d \in DIType)
      BY DEF NestedBy, Nodes
<1>3. {Const, Pointer, Null} \subseteq S BY DEF Constructors
<1>4. Pointer # Const /\ Null # Const BY Letters
<1>5. ASSUME NEW d \in D, \A p \in D : rank(p) < rank(d) => Q[p] \in Word(S)
      PROVE  Q[d] \in Word(S)
  <2>1. CASE d = NoNode
    <3>1. Q[d] = <<Null>> BY <1>1, <2>1 DEF getQualTypeFromDIType
    <3> QED BY <1>3, <1>4, <3>1, OneLetter
  <2>2. CASE d # NoNode /\ DI[d].tag \notin DerivedTags
    <3>1. Q[d] = <<Letter(d)>> BY <1>1, <2>2 DEF getQualTypeFromDIType
    <3>2. Letter(d) \in S /\ Letter(d) # Const BY <2>2, LetterNotConst
    <3> QED BY <3>1, <3>2, OneLetter
  <2>3. CASE d # NoNode /\ DI[d].tag \in DerivedTags
    <3>1. d \in DIType BY <1>2, <2>3
    <3>2. \A p \in PartsOf(d) : Q[p] \in Word(S)
      <4> SUFFICES ASSUME NEW p \in PartsOf(d) PROVE Q[p] \in Word(S) OBVIOUS
      <4>1. p \in D BY <2>3
      <4>2. CASE p = NoNode
        <5>1. Q[p] = <<Null>> BY <1>1, <4>1, <4>2 DEF getQualTypeFromDIType
        <5> QED BY <1>3, <1>4, <5>1, OneLetter
      <4>3. CASE p # NoNode
        <5>1. h[p] < h[d] BY <2>3, <3>1, <4>3 DEF NestedBy
        <5> QED BY <1>5, <2>3, <4>1, <4>3, <5>1
      <4> QED BY <4>2, <4>3
    <3> HIDE DEF Q
    <3>3. Q[d] = getQualTypeFromDIType(Q, d) BY <1>1 DEF Q
    <3>4. CASE DI[d].tag = "subroutine_type"
      <4> DEFINE sig == DI[d].sig
                 params == [i \in 1 .. Len(sig) - 1 |-> Q[sig[i + 1]]]
      <4>1. sig \in Seq(Nodes) /\ sig # <<>> BY <3>1, <3>4, DebugInfoAssumption DEF Nodes
      <4>2. \A i \in 1 .. Len(sig) : Q[sig[i]] \in Word(S)
        <5>1. \A i \in 1 .. Len(sig) : sig[i] \in PartsOf(d) BY <3>4, <4>1 DEF PartsOf, Range
        <5> HIDE DEF sig
        <5> QED BY <3>2, <5>1
      <4>3. Q[d] = FunctionType(Q[sig[1]], params)
            BY <2>3, <3>3, <3>4 DEF getQualTypeFromDIType, DerivedTags, SameTags
      <4> HIDE DEF sig
      <4>4. Len(sig) \in Nat /\ Len(sig) # 0 BY <4>1
      <4>5. Q[sig[1]] \in Word(S) BY <4>2, <4>4
      <4>6. params \in Seq(Word(S))
        <5>1. \A i \in 1 .. Len(sig) - 1 : Q[sig[i + 1]] \in Word(S) BY <4>2, <4>4
        <5>2. Len(sig) - 1 \in Nat BY <4>4
        <5> QED BY <5>1, <5>2
      <4> HIDE DEF params
      <4> QED BY <4>3, <4>5, <4>6, FunctionWord
    <3>5. CASE DI[d].tag # "subroutine_type"
      <4> DEFINE w == Q[DI[d].base]
      <4>1. w \in Word(S) BY <3>2, <3>5 DEF PartsOf
      <4>2. w \in Seq(S) BY <4>1 DEF Word
      <4>3. CASE DI[d].tag \in SameTags
            BY <2>3, <3>3, <4>1, <4>3 DEF getQualTypeFromDIType, SameTags
      <4>4. CASE DI[d].tag = "const_type"
        <5>1. Q[d] = WithConst(w) BY <2>3, <3>3, <4>4 DEF getQualTypeFromDIType, SameTags
        <5> HIDE DEF w
        <5> QED BY <1>3, <4>1, <5>1, ConstWord
      <4>5. CASE DI[d].tag = "pointer_type"
        <5>1. Q[d] = <<Pointer>> \o w BY <2>3, <3>3, <4>5 DEF getQualTypeFromDIType, SameTags
        <5> HIDE DEF w
        <5> QED BY <1>3, <1>4, <4>2, <5>1, OneLetter
      <4>6. CASE DI[d].tag = "array_type"
        <5> DEFINE x == IF DI[d].count = 0 THEN Pointer ELSE ArrayOf(DI[d].count)
        <5>1. Q[d] = <<x>> \o w BY <2>3, <3>3, <4>6 DEF getQualTypeFromDIType, SameTags
        <5>2. ArrayOf(DI[d].count) \in Constructors BY <3>1 DEF Constructors
        <5>3. x \in S /\ x # Const BY <1>3, <1>4, <5>2, Letters
        <5> HIDE DEF w, x
        <5> QED BY <4>2, <5>1, <5>3, OneLetter
      <4> QED BY <2>3, <3>5, <4>3, <4>4, <4>5, <4>6 DEF DerivedTags
    <3> QED BY <3>4, <3>5
  <2> QED BY <2>1, <2>2, <2>3
<1> HIDE DEF rank, Q
<1>6. Bad = {}
  <2> SUFFICES ASSUME Bad # {} PROVE FALSE OBVIOUS
  <2>1. Bad \in SUBSET Nat OBVIOUS
  <2>2. PICK n \in Bad : \A k \in Bad : n <= k
    <3> HIDE DEF Bad
    <3> QED BY <2>1, Least
  <2>3. PICK d \in D : rank(d) = n /\ Q[d] \notin Word(S) OBVIOUS
  <2>4. ASSUME NEW p \in D, rank(p) < rank(d) PROVE Q[p] \in Word(S)
    <3>1. rank(p) \notin Bad
      <4>1. rank(p) \in Nat /\ n \in Nat /\ ~(n <= rank(p)) BY <1>2, <2>3, <2>4
      <4> HIDE DEF Bad
      <4> QED BY <2>2, <4>1
    <3> QED BY <1>2, <3>1
  <2> QED BY <1>5, <2>3, <2>4
<1>7. \A d \in D : Q[d] \in Word(S) BY <1>2, <1>6
<1> QED BY <1>7 DEF Q
-----------------------------------------------------------------------------
(* The letters of types over the composite types K.  (The provers do not   *)
(* know that a literal is a STRING: Names adds the two prefixes.)          *)
Alphabet(K) ==
    Constructors \cup {Unknown} \cup {Basic(n) : n \in DOMAIN BasicAlign}
      \cup {Composite(k) : k \in K}

Names == (STRING \cup {"__dffi_anon_", "__dffi_anon_struct_"}) \X Nat
Types(K) == {w \in Seq(Alphabet(K)) : w # <<>>}
Field(K) == [name : Names, ty : Types(K), off : Nat]

LEMMA AlphabetIs ==
    ASSUME NEW K \in SUBSET Names, NEW x \in Alphabet(K)
    PROVE  /\ x[1] = "basic" => x[2] \in DOMAIN BasicAlign
           /\ x[1] = "composite" => <<x[2], x[3]>> \in K
<1>1. CASE x \in Constructors
  <2>1. \A n : ArrayOf(n)[1] = "array" BY Letters
  <2>2. \A c \in {"function"} \X {"", "..."} \X Nat : c[1] = "function" OBVIOUS
  <2>3. x[1] # "basic" /\ x[1] # "composite"
    <3>1. CASE x \in {Const, Pointer, Null} BY <3>1, Letters
    <3>2. CASE x \in {ArrayOf(DI[d].count) : d \in DIType}
      <4>1. PICK d \in DIType : x = ArrayOf(DI[d].count) BY <3>2
      <4> QED BY <2>1, <4>1
    <3>3. CASE x \in {"function"} \X {"", "..."} \X Nat BY <2>2, <3>3
    <3> QED BY <1>1, <3>1, <3>2, <3>3 DEF Constructors
  <2> QED BY <2>3
<1>2. CASE x = Unknown BY <1>2, Letters
<1>3. CASE x \in {Basic(n) : n \in DOMAIN BasicAlign}
  <2>1. PICK n \in DOMAIN BasicAlign : x = Basic(n) BY <1>3
  <2> QED BY <2>1, Letters
<1>4. CASE x \in {Composite(k) : k \in K}
  <2>1. PICK k \in K : x = Composite(k) BY <1>4
  <2>2. k = <<k[1], k[2]>> BY DEF Names
  <2> QED BY <2>1, <2>2, Letters
<1> QED BY <1>1, <1>2, <1>3, <1>4 DEF Alphabet

LEMMA TypesGrow ==
    ASSUME NEW K, NEW L, K \subseteq L
    PROVE  Field(K) \subseteq Field(L)
<1>1. Alphabet(K) \subseteq Alphabet(L)
  <2>1. {Composite(k) : k \in K} \subseteq {Composite(k) : k \in L} OBVIOUS
  <2> QED BY <2>1 DEF Alphabet
<1>2. Types(K) \subseteq Types(L)
  <2> SUFFICES ASSUME NEW w \in Types(K) PROVE w \in Types(L) OBVIOUS
  <2>1. w \in Seq(Alphabet(K)) /\ w # <<>> BY DEF Types
  <2>2. w \in Seq(Alphabet(L)) BY <1>1, <2>1
  <2> QED BY <2>1, <2>2 DEF Types
<1> QED BY <1>2 DEF Field

(* The largest of finitely many numbers.                                   *)
LEMMA MaxWith ==
    ASSUME NEW a \in Nat, NEW n \in Nat, NEW f, \A i \in 1 .. n : f[i] \in Nat
    PROVE  LET S == {a} \cup {f[i] : i \in 1 .. n}
           IN Max(S) \in S /\ Max(S) \in Nat /\ \A y \in S : y <= Max(S)
<1> DEFINE S(m) == {a} \cup {f[i] : i \in 1 .. m}
           Good(m) == \E x \in S(m) : \A y \in S(m) : y <= x
           Bad == {m \in 0 .. n : ~Good(m)}
<1>1. \A m \in 0 .. n : S(m) \subseteq Nat OBVIOUS
<1>2. Good(0) OBVIOUS
<1>3. ASSUME NEW m \in 0 .. n, m # 0, Good(m - 1) PROVE Good(m)
  <2>1. m - 1 \in 0 .. n /\ m \in 1 .. n BY <1>3
  <2>2. S(m) = S(m - 1) \cup {f[m]}
    <3>1. 1 .. m = (1 .. (m - 1)) \cup {m} BY <2>1
    <3> QED BY <3>1
  <2>3. S(m - 1) \subseteq Nat /\ f[m] \in Nat BY <1>1, <2>1
  <2>4. PICK x \in S(m - 1) : \A y \in S(m - 1) : y <= x BY <1>3
  <2> HIDE DEF S
  <2>5. CASE f[m] <= x BY <2>2, <2>4, <2>5
  <2>6. CASE ~(f[m] <= x)
    <3>1. \A y \in S(m - 1) : y <= f[m] BY <2>3, <2>4, <2>6
    <3> QED BY <2>2, <2>3, <3>1
  <2> QED BY <2>5, <2>6
<1>4. Good(n)
  <2> SUFFICES ASSUME ~Good(n) PROVE FALSE OBVIOUS
  <2> HIDE DEF Good
  <2>1. Bad \in SUBSET Nat /\ n \in Bad OBVIOUS
  <2>2. PICK m \in Bad : \A k \in Bad : m <= k
    <3> HIDE DEF Bad
    <3> QED BY <2>1, Least
  <2>3. m \in 0 .. n /\ ~Good(m) OBVIOUS
  <2>4. m # 0 BY <1>2, <2>3
  <2>5. m - 1 \in 0 .. n /\ ~(m <= m - 1) BY <2>3, <2>4
  <2>6. Good(m - 1) BY <2>2, <2>5
  <2> QED BY <1>3, <2>3, <2>4, <2>6
<1>5. n \in 0 .. n /\ S(n) \subseteq Nat BY <1>1
<1>6. PICK x \in S(n) : \A y \in S(n) : y <= x BY <1>4
<1> HIDE DEF S
<1>7. x >= x /\ \A y \in S(n) : x >= y BY <1>5, <1>6
<1>8. Max(S(n)) \in S(n) /\ \A y \in S(n) : Max(S(n)) >= y BY <1>7 DEF Max
<1>9. Max(S(n)) \in Nat /\ \A y \in S(n) : y <= Max(S(n)) BY <1>5, <1>8
<1> QED BY <1>8, <1>9 DEF S

LEMMA MaxOf ==
    ASSUME NEW n \in Nat, NEW f, \A i \in 1 .. n : f[i] \in Nat
    PROVE  LET S == {1} \cup {f[i] : i \in 1 .. n}
           IN Max(S) \in S /\ Max(S) \in Nat /\ \A y \in S : y <= Max(S)
<1>1. \A a \in Nat : LET S == {a} \cup {f[i] : i \in 1 .. n}
                     IN Max(S) \in S /\ Max(S) \in Nat /\ \A y \in S : y <= Max(S)
      BY MaxWith
<1> QED BY <1>1
-----------------------------------------------------------------------------
(* The strengthening of TypeOK: types are words over what is declared, and *)
(* the map of fields is that of the type's own kind of fields.             *)
IsMap(m, K) == \A n \in DOMAIN m : n \in Names /\ m[n] \in Field(K) /\ m[n].name = n

IsEntry(T, K) ==
    /\ T = [kind |-> T.kind, opaque |-> T.opaque, Fields_ |-> T.Fields_,
            FieldsMap_ |-> T.FieldsMap_, Align_ |-> T.Align_]
    /\ T.kind \in CompositeTags /\ T.opaque \in BOOLEAN /\ T.Align_ \in Nat
    /\ IsMap(T.FieldsMap_, K)

Keys == DOMAIN CompositeTys_

MapsTyped ==
    /\ CompositeTys_ = [k \in Keys |-> CompositeTys_[k]] /\ Keys \subseteq Names
    /\ \A k \in Keys : IsEntry(CompositeTys_[k], Keys)
    /\ \A d \in DOMAIN AnonTys_ : d \in DIType /\ AnonTys_[d] \in Keys

ListsTyped ==
    /\ work \in Seq(Nodes) /\ types \in Seq(DIType)
    /\ Composites \in Seq(DIType) /\ Typedefs \in Seq(DIType)
    /\ nDeclared \in 0 .. Len(types) /\ nParsed \in 0 .. Len(Composites)
    /\ nAliased \in 0 .. Len(Typedefs)

InlineTyped ==
    /\ iterated \subseteq Keys /\ Visited \subseteq Keys
    /\ frames \in Seq([ty : Names, todo : SUBSET Keys])
    /\ \A i \in 1 .. Len(frames) : frames[i].ty \in Visited

StatusTyped ==
    /\ done \in BOOLEAN
    /\ status \in {"running", "fatal error", "null type", "bad cast"}

Typed == ListsTyped /\ MapsTyped /\ InlineTyped /\ StatusTyped

LEMMA PartsAreNodes == \A d \in DIType : PartsOf(d) \subseteq Nodes
<1> SUFFICES ASSUME NEW d \in DIType PROVE PartsOf(d) \subseteq Nodes OBVIOUS
<1>1. DI[d].sig \in Seq(Nodes) /\ DI[d].base \in Nodes BY DebugInfoAssumption DEF Nodes
<1>2. Range(DI[d].sig) \subseteq Nodes BY <1>1 DEF Range
<1> QED BY <1>1, <1>2 DEF PartsOf

LEMMA LetterTyped ==
    ASSUME MapsTyped, NEW d \in DIType PROVE Letter(d) \in Alphabet(Keys)
<1> DEFINE S == Alphabet(Keys)
<1>1. Unknown \in S /\ Null \in S BY DEF Alphabet, Constructors
<1>2. DI[d].name \in DOMAIN BasicAlign => Basic(DI[d].name) \in S BY DEF Alphabet
<1>3. \A k \in Keys : Composite(k) \in S BY DEF Alphabet
<1>4. d \in DOMAIN AnonTys_ => Composite(AnonTys_[d]) \in S BY <1>3 DEF MapsTyped
<1>5. Key(DI[d].name) \in DOMAIN CompositeTys_ => Composite(Key(DI[d].name)) \in S
      BY <1>3 DEF Keys
<1> HIDE DEF S
<1>6. Letter(d) \in S BY <1>1, <1>2, <1>4, <1>5, Zenon DEF Letter
<1> QED BY <1>6 DEF S

(* The type of a node names composite types that are declared.             *)
LEMMA NodeWords ==
    ASSUME NEW H \in Nat, NEW h, NestedBy(h, H), MapsTyped
    PROVE  \A d \in Nodes : QualTypes[d] \in Word(Alphabet(Keys))
<1> DEFINE S == Alphabet(Keys)
<1>1. Constructors \subseteq S BY DEF Alphabet
<1>2. \A d \in DIType : Letter(d) \in S BY LetterTyped
<1>3. \A d \in Nodes \ {NoNode} : d \in DIType BY DEF Nodes
<1> HIDE DEF S
<1>4. \A d \in Nodes : QualTypes[d] \in Word(S)
      BY <1>1, <1>2, <1>3, PartsAreNodes, QualWords
<1> QED BY <1>4 DEF S

LEMMA NodeTypes ==
    ASSUME NEW H \in Nat, NEW h, NestedBy(h, H), MapsTyped
    PROVE  \A d \in Nodes : getTypeFromDIType(d) \in Types(Keys)
<1> DEFINE S == Alphabet(Keys)
<1>1. \A d \in Nodes : QualTypes[d] \in Word(S) BY NodeWords
<1> HIDE DEF S
<1>2. \A d \in Nodes : getType_(QualTypes[d]) \in Seq(S) /\ getType_(QualTypes[d]) # <<>>
      BY <1>1, Unqualified
<1> QED BY <1>2 DEF getTypeFromDIType, Types, S

LEMMA AlignTyped ==
    ASSUME MapsTyped, NEW t \in Types(Keys) PROVE getAlign(t) \in Nat
<1>1. t \in Seq(Alphabet(Keys)) /\ t # <<>> BY DEF Types
<1>2. t[1] \in Alphabet(Keys) BY <1>1
<1>3. /\ t[1][1] = "basic" => t[1][2] \in DOMAIN BasicAlign
      /\ t[1][1] = "composite" => CompositeOf(t) \in Keys
      BY <1>2, AlphabetIs DEF MapsTyped, CompositeOf
<1>4. CASE t[1][1] = "basic"
  <2>1. BasicAlign[t[1][2]] \in Nat BY <1>3, <1>4, DebugInfoAssumption
  <2> QED BY <1>4, <2>1 DEF getAlign
<1>5. CASE t[1][1] = "pointer" BY <1>5, DebugInfoAssumption DEF getAlign
<1>6. CASE t[1][1] = "composite"
  <2>1. CompositeTys_[CompositeOf(t)].Align_ \in Nat BY <1>3, <1>6 DEF MapsTyped, IsEntry
  <2>2. IntAlign \in Nat BY DebugInfoAssumption
  <2> QED BY <1>6, <2>1, <2>2 DEF getAlign
<1>7. CASE t[1][1] \notin {"basic", "pointer", "composite"} BY <1>7 DEF getAlign
<1> QED BY <1>4, <1>5, <1>6, <1>7

LEMMA ElemsOf ==
    ASSUME NEW d \in DIType
    PROVE  /\ Len(DI[d].elems) \in Nat /\ DOMAIN DI[d].elems = 1 .. Len(DI[d].elems)
           /\ \A i \in 1 .. Len(DI[d].elems) :
                /\ DI[d].elems[i].base \in Nodes /\ DI[d].elems[i].name \in STRING
                /\ DI[d].elems[i].off \in Nat
<1> DEFINE R == [name : STRING, base : Nodes, off : Nat]
<1>1. DI[d].elems \in Seq(R) BY DebugInfoAssumption DEF Nodes
<1>2. \A r \in R : r.base \in Nodes /\ r.name \in STRING /\ r.off \in Nat OBVIOUS
<1> HIDE DEF R
<1> QED BY <1>1, <1>2

LEMMA FieldsTyped ==
    ASSUME NEW H \in Nat, NEW h, NestedBy(h, H), MapsTyped, NEW d \in DIType
    PROVE  /\ DOMAIN FieldsOf(d) = 1 .. Len(DI[d].elems)
           /\ FieldsOf(d) \in Seq(Field(Keys)) /\ Len(FieldsOf(d)) = Len(DI[d].elems)
<1> DEFINE es == DI[d].elems
           AnonIdx(i) == Cardinality({j \in 1 .. i - 1 : es[j].name = ""})
           f(i) == [name |-> IF es[i].name = "" THEN AnonField(AnonIdx(i)) ELSE Key(es[i].name),
                    ty   |-> getTypeFromDIType(es[i].base),
                    off  |-> es[i].off \div 8]
<1>1. FieldsOf(d) = [i \in DOMAIN es |-> f(i)] BY DEF FieldsOf
<1>2. Len(es) \in Nat /\ DOMAIN es = 1 .. Len(es) BY ElemsOf
<1>3. ASSUME NEW i \in 1 .. Len(es) PROVE f(i) \in Field(Keys)
  <2>1. es[i].base \in Nodes /\ es[i].name \in STRING /\ es[i].off \in Nat BY ElemsOf
  <2>2. AnonIdx(i) \in Nat
    <3>1. IsFiniteSet(1 .. i - 1) BY <1>2, FS_Interval
    <3>2. IsFiniteSet({j \in 1 .. i - 1 : es[j].name = ""}) BY <3>1, FS_Subset
    <3> QED BY <3>2, FS_CardinalityType
  <2> HIDE DEF AnonIdx
  <2>3. AnonField(AnonIdx(i)) \in Names /\ Key(es[i].name) \in Names
    <3>1. \A n \in Nat : AnonField(n) \in Names BY DEF AnonField, Names
    <3>2. \A n \in STRING : Key(n) \in Names BY DEF Key, Names
    <3> HIDE DEF es
    <3> QED BY <2>1, <2>2, <3>1, <3>2
  <2>4. getTypeFromDIType(es[i].base) \in Types(Keys) BY <2>1, NodeTypes
  <2>5. es[i].off \div 8 \in Nat
    <3>1. \A o \in Nat : o \div 8 \in Nat OBVIOUS
    <3> QED BY <2>1, <3>1
  <2> HIDE DEF es
  <2> QED BY <2>3, <2>4, <2>5 DEF Field
<1> HIDE DEF es, f
<1>4. FieldsOf(d) = [i \in 1 .. Len(es) |-> f(i)] BY <1>1, <1>2
<1>5. FieldsOf(d) \in [1 .. Len(es) -> Field(Keys)] BY <1>3, <1>4
<1>6. FieldsOf(d) \in Seq(Field(Keys)) /\ Len(FieldsOf(d)) = Len(es)
      /\ DOMAIN FieldsOf(d) = 1 .. Len(es)
      BY <1>2, <1>5
<1> QED BY <1>6 DEF es
LEMMA BodyTyped ==
    ASSUME MapsTyped, NEW T, IsEntry(T, Keys), NEW fields \in Seq(Field(Keys))
    PROVE  /\ IsEntry(setBody(T, fields), Keys) /\ setBody(T, fields).kind = T.kind
           /\ ~setBody(T, fields).opaque
<1> DEFINE F == {fields[i] : i \in DOMAIN fields}
           N == {fields[i].name : i \in DOMAIN fields}
           m == [n \in N |-> CHOOSE f \in F : f.name = n]
           a == Max({1} \cup {getAlign(fields[i].ty) : i \in DOMAIN fields})
           B == setBody(T, fields)
<1>1. Len(fields) \in Nat /\ DOMAIN fields = 1 .. Len(fields)
      /\ \A i \in 1 .. Len(fields) : fields[i] \in Field(Keys)
      OBVIOUS
<1>2. a \in Nat
  <2> DEFINE al == [i \in 1 .. Len(fields) |-> getAlign(fields[i].ty)]
  <2>1. \A i \in 1 .. Len(fields) : al[i] \in Nat
    <3> SUFFICES ASSUME NEW i \in 1 .. Len(fields) PROVE getAlign(fields[i].ty) \in Nat OBVIOUS
    <3>1. fields[i].ty \in Types(Keys) BY <1>1 DEF Field
    <3> QED BY <3>1, AlignTyped
  <2>2. {al[i] : i \in 1 .. Len(fields)} = {getAlign(fields[i].ty) : i \in DOMAIN fields}
        BY <1>1
  <2> HIDE DEF al
  <2>3. Max({1} \cup {al[i] : i \in 1 .. Len(fields)}) \in Nat BY <1>1, <2>1, MaxOf
  <2> QED BY <2>2, <2>3
<1>3. IsMap(m, Keys)
  <2> SUFFICES ASSUME NEW n \in N PROVE n \in Names /\ m[n] \in Field(Keys) /\ m[n].name = n
      BY DEF IsMap
  <2>1. PICK i \in 1 .. Len(fields) : fields[i].name = n BY <1>1
  <2>2. fields[i] \in F /\ F \subseteq Field(Keys) BY <1>1
  <2> HIDE DEF F
  <2>3. m[n] \in F /\ m[n].name = n BY <2>1, <2>2
  <2>4. fields[i].name \in Names BY <1>1 DEF Field
  <2> QED BY <2>1, <2>2, <2>3, <2>4
<1>4. B = [T EXCEPT !.opaque = FALSE, !.Fields_ = fields, !.FieldsMap_ = m, !.Align_ = a]
      BY DEF setBody
<1> HIDE DEF F, N, m, a
<1>5. B = [kind |-> T.kind, opaque |-> FALSE, Fields_ |-> fields, FieldsMap_ |-> m, Align_ |-> a]
  <2> HIDE DEF B
  <2>1. T = [kind |-> T.kind, opaque |-> T.opaque, Fields_ |-> T.Fields_,
             FieldsMap_ |-> T.FieldsMap_, Align_ |-> T.Align_]
        BY DEF IsEntry
  <2> QED BY <1>4, <2>1
<1> HIDE DEF B
<1>6. /\ B.kind = T.kind /\ B.opaque = FALSE /\ B.Fields_ = fields /\ B.FieldsMap_ = m
      /\ B.Align_ = a
      BY <1>5
<1>7. IsEntry(B, Keys) BY <1>2, <1>3, <1>5, <1>6 DEF IsEntry
<1> QED BY <1>6, <1>7 DEF B

(* An anonymous member's type is a declared structure or union.            *)
LEMMA InnerTyped ==
    ASSUME MapsTyped, NEW k \in Keys
    PROVE  /\ InnerTypes(k) \subseteq Keys
           /\ \A n \in AnonMembers(k) : CompositeOf(CompositeTys_[k].FieldsMap_[n].ty) \in Keys
<1>1. ASSUME NEW n \in AnonMembers(k)
      PROVE  CompositeOf(CompositeTys_[k].FieldsMap_[n].ty) \in Keys
  <2> DEFINE t == CompositeTys_[k].FieldsMap_[n].ty
  <2>1. n \in DOMAIN CompositeTys_[k].FieldsMap_ /\ IsRecord(t) BY DEF AnonMembers
  <2>2. CompositeTys_[k].FieldsMap_[n] \in Field(Keys)
        BY <2>1 DEF MapsTyped, IsEntry, IsMap
  <2>3. t \in Seq(Alphabet(Keys)) /\ t # <<>> BY <2>2 DEF Field, Types
  <2>4. t[1][1] = "composite" BY <2>1 DEF IsRecord
  <2> HIDE DEF t
  <2>5. t[1] \in Alphabet(Keys) BY <2>3
  <2>6. <<t[1][2], t[1][3]>> \in Keys BY <2>4, <2>5, AlphabetIs DEF MapsTyped
  <2> QED BY <2>6 DEF t, CompositeOf
<1> QED BY <1>1 DEF InnerTypes

LEMMA ShiftTyped ==
    ASSUME NEW K, NEW f \in Field(K), NEW o \in Nat
    PROVE  Shifted(f, o) \in Field(K)
<1>1. PICK n \in Names, t \in Types(K), a \in Nat : f = [name |-> n, ty |-> t, off |-> a]
      BY DEF Field
<1>2. Shifted(f, o) = [name |-> n, ty |-> t, off |-> o + a] BY <1>1 DEF Shifted
<1>3. o + a \in Nat OBVIOUS
<1> QED BY <1>2, <1>3 DEF Field

LEMMA InlinedTyped ==
    ASSUME MapsTyped, NEW k \in Keys
    PROVE  IsMap(inlineAnonymousMembers(k), Keys)
<1> DEFINE map == CompositeTys_[k].FieldsMap_
           InnerMap(n) == CompositeTys_[CompositeOf(map[n].ty)].FieldsMap_
           inlined == UNION {{Shifted(InnerMap(n)[m], map[n].off) : m \in DOMAIN InnerMap(n)} :
                               n \in AnonMembers(k)}
           left == DOMAIN map \ AnonMembers(k)
           added == {f.name : f \in inlined}
           new == [m \in left \cup added |-> IF m \in added THEN CHOOSE f \in inlined : f.name = m
                                                            ELSE map[m]]
<1>1. inlineAnonymousMembers(k) = new BY DEF inlineAnonymousMembers
<1>2. IsMap(map, Keys) BY DEF MapsTyped, IsEntry
<1>3. ASSUME NEW f \in inlined PROVE f \in Field(Keys)
  <2>1. PICK n \in AnonMembers(k) :
          f \in {Shifted(InnerMap(n)[m], map[n].off) : m \in DOMAIN InnerMap(n)}
        OBVIOUS
  <2>2. PICK m \in DOMAIN InnerMap(n) : f = Shifted(InnerMap(n)[m], map[n].off) BY <2>1
  <2>3. CompositeOf(map[n].ty) \in Keys BY InnerTyped
  <2>4. InnerMap(n)[m] \in Field(Keys) BY <2>2, <2>3 DEF MapsTyped, IsEntry, IsMap
  <2>5. n \in DOMAIN map BY DEF AnonMembers
  <2>6. map[n].off \in Nat BY <1>2, <2>5 DEF IsMap, Field
  <2> HIDE DEF map, InnerMap
  <2> QED BY <2>2, <2>4, <2>6, ShiftTyped
<1>4. \A f \in Field(Keys) : f.name \in Names BY DEF Field
<1> HIDE DEF inlined, map
<1>5. ASSUME NEW n \in left \cup added
      PROVE  n \in Names /\ new[n] \in Field(Keys) /\ new[n].name = n
  <2>1. CASE n \in added
    <3>1. PICK f \in inlined : f.name = n BY <2>1
    <3>2. new[n] = CHOOSE g \in inlined : g.name = n BY <2>1
    <3>3. new[n] \in inlined /\ new[n].name = n BY <3>1, <3>2
    <3> HIDE DEF new
    <3> QED BY <1>3, <1>4, <3>1, <3>3
  <2>2. CASE n \notin added
    <3>1. n \in DOMAIN map /\ new[n] = map[n] BY <2>2
    <3> HIDE DEF new
    <3> QED BY <1>2, <3>1 DEF IsMap
  <2> QED BY <2>1, <2>2
<1>6. DOMAIN new = left \cup added OBVIOUS
<1> HIDE DEF new, left, added
<1> QED BY <1>1, <1>5, <1>6 DEF IsMap
-----------------------------------------------------------------------------
(* Typed, action by action.                                                *)
LEMMA EntriesGrow ==
    ASSUME NEW T, NEW K, NEW L, K \subseteq L, IsEntry(T, K)
    PROVE  IsEntry(T, L)
<1>1. Field(K) \subseteq Field(L) BY TypesGrow
<1>2. IsMap(T.FieldsMap_, L) BY <1>1 DEF IsEntry, IsMap
<1> QED BY <1>2 DEF IsEntry

(* One entry is replaced.                                                  *)
LEMMA EntrySet ==
    ASSUME MapsTyped, NEW k, NEW T, k \in Keys => IsEntry(T, Keys),
           CompositeTys_' = [CompositeTys_ EXCEPT ![k] = T], UNCHANGED AnonTys_
    PROVE  /\ MapsTyped' /\ Keys' = Keys
           /\ k \in Keys => CompositeTys_'[k] = T
           /\ \A j \in Keys : j # k => CompositeTys_'[j] = CompositeTys_[j]
<1>1. DOMAIN CompositeTys_' = DOMAIN CompositeTys_ BY DEF MapsTyped
<1>2. Keys' = Keys BY <1>1 DEF Keys
<1>3. /\ k \in Keys => CompositeTys_'[k] = T
      /\ \A j \in Keys : j # k => CompositeTys_'[j] = CompositeTys_[j]
      BY DEF MapsTyped, Keys
<1>4. CompositeTys_' = [j \in Keys |-> CompositeTys_'[j]]
      BY DEF MapsTyped, Keys
<1>5. \A j \in Keys : IsEntry(CompositeTys_'[j], Keys) BY <1>3 DEF MapsTyped
<1>6. MapsTyped' BY <1>2, <1>4, <1>5 DEF MapsTyped
<1> QED BY <1>2, <1>3, <1>6

LEMMA OpaqueEntry ==
    ASSUME NEW tag \in CompositeTags, NEW K
    PROVE  /\ IsEntry(Opaque(tag), K) /\ Opaque(tag).kind = tag /\ Opaque(tag).opaque
           /\ DOMAIN Opaque(tag).FieldsMap_ = {}
<1>1. IsMap(<<>>, K) BY DEF IsMap
<1> DEFINE T == Opaque(tag)
<1>2. /\ T = [kind |-> tag, opaque |-> TRUE, Fields_ |-> <<>>, FieldsMap_ |-> <<>>, Align_ |-> 0]
      /\ T.kind = tag /\ T.opaque = TRUE /\ T.Fields_ = <<>> /\ T.FieldsMap_ = <<>>
      /\ T.Align_ = 0
      BY DEF Opaque
<1> HIDE DEF T
<1>3. IsEntry(T, K) BY <1>1, <1>2 DEF IsEntry
<1> QED BY <1>2, <1>3 DEF T

(* A key is added to CompositeTys_, if it is not there.                    *)
LEMMA KeyAdded ==
    ASSUME MapsTyped, NEW k \in Names, NEW tag \in CompositeTags,
           CompositeTys_' = try_emplace(CompositeTys_, k, Opaque(tag))
    PROVE  /\ Keys' = Keys \cup {k} /\ CompositeTys_' = [j \in Keys' |-> CompositeTys_'[j]]
           /\ \A j \in Keys : CompositeTys_'[j] = CompositeTys_[j]
           /\ k \notin Keys => CompositeTys_'[k] = Opaque(tag)
           /\ Keys' \subseteq Names
           /\ \A j \in Keys' : IsEntry(CompositeTys_'[j], Keys')
<1>1. CompositeTys_' = [x \in Keys \cup {k} |-> IF x \in Keys THEN CompositeTys_[x]
                                                              ELSE Opaque(tag)]
      BY DEF try_emplace, Keys
<1>2. Keys' = Keys \cup {k} BY <1>1 DEF Keys
<1> HIDE DEF Keys
<1>3. \A j \in Keys : CompositeTys_'[j] = CompositeTys_[j] BY <1>1
<1>4. k \notin Keys => CompositeTys_'[k] = Opaque(tag) BY <1>1
<1>5. \A j \in Keys' : IsEntry(CompositeTys_'[j], Keys')
  <2> SUFFICES ASSUME NEW j \in Keys' PROVE IsEntry(CompositeTys_'[j], Keys') OBVIOUS
  <2>1. CASE j \in Keys
    <3>1. IsEntry(CompositeTys_[j], Keys) BY <2>1 DEF MapsTyped
    <3> QED BY <1>2, <1>3, <2>1, <3>1, EntriesGrow
  <2>2. CASE j \notin Keys
    <3>1. CompositeTys_'[j] = Opaque(tag) BY <1>2, <1>4, <2>2
    <3> QED BY <3>1, OpaqueEntry
  <2> QED BY <2>1, <2>2
<1>6. Keys' \subseteq Names BY <1>2 DEF MapsTyped
<1>7. CompositeTys_' = [j \in Keys' |-> CompositeTys_'[j]] BY <1>1, <1>2
<1> QED BY <1>2, <1>3, <1>4, <1>5, <1>6, <1>7
LEMMA AnonFinite ==
    ASSUME MapsTyped
    PROVE  IsFiniteSet(DOMAIN AnonTys_) /\ Cardinality(DOMAIN AnonTys_) \in Nat
<1>1. DOMAIN AnonTys_ \subseteq DIType BY DEF MapsTyped
<1>2. IsFiniteSet(DOMAIN AnonTys_) BY <1>1, DebugInfoAssumption, FS_Subset
<1> QED BY <1>2, FS_CardinalityType

(* The ways in which declareDIComposite ends.                              *)
NextAnonKey == AnonKey(Cardinality(DOMAIN AnonTys_) + 1)

Refuses(d) == DI[d].name \in Reserved /\ status' = "fatal error" /\ UNCHANGED mapVars
FindsAnon(d) == DI[d].name = "" /\ d \in DOMAIN AnonTys_ /\ UNCHANGED <<mapVars, status>>
DeclaresKey(d, k) ==
    /\ CompositeTys_' = try_emplace(CompositeTys_, k, Opaque(DI[d].tag)) /\ UNCHANGED status
    /\ k \in Names
DeclaresName(d) ==
    /\ DI[d].name # "" /\ DI[d].name \notin Reserved /\ DeclaresKey(d, Key(DI[d].name))
    /\ UNCHANGED AnonTys_
DeclaresAnon(d) ==
    /\ DI[d].name = "" /\ d \notin DOMAIN AnonTys_ /\ DeclaresKey(d, NextAnonKey)
    /\ AnonTys_' = [x \in DOMAIN AnonTys_ \cup {d} |->
                      IF x \in DOMAIN AnonTys_ THEN AnonTys_[x] ELSE NextAnonKey]

LEMMA DeclareWays ==
    ASSUME MapsTyped, NEW d \in DIType, declareDIComposite(d)
    PROVE  Refuses(d) \/ FindsAnon(d) \/ DeclaresName(d) \/ DeclaresAnon(d)
<1>1. Cardinality(DOMAIN AnonTys_) \in Nat BY AnonFinite
<1>2. Key(DI[d].name) \in Names /\ NextAnonKey \in Names
  <2>1. \A n \in Nat : AnonKey(n + 1) \in Names BY DEF AnonKey, Names
  <2>2. \A n \in STRING : Key(n) \in Names BY DEF Key, Names
  <2> QED BY <1>1, <2>1, <2>2, DebugInfoAssumption DEF NextAnonKey
<1>3. CASE DI[d].name # "" /\ DI[d].name \in Reserved
      BY <1>3 DEF declareDIComposite, Refuses, mapVars
<1>4. CASE DI[d].name # "" /\ DI[d].name \notin Reserved
      BY <1>2, <1>4 DEF declareDIComposite, DeclaresName, DeclaresKey
<1>5. CASE DI[d].name = "" /\ d \in DOMAIN AnonTys_
      BY <1>5 DEF declareDIComposite, FindsAnon, mapVars
<1>6. CASE DI[d].name = "" /\ d \notin DOMAIN AnonTys_
  <2>1. /\ CompositeTys_' = try_emplace(CompositeTys_, NextAnonKey, Opaque(DI[d].tag))
        /\ AnonTys_' = try_emplace(AnonTys_, d, NextAnonKey)
        /\ UNCHANGED status
        BY <1>6 DEF declareDIComposite, NextAnonKey
  <2> QED BY <1>2, <1>6, <2>1 DEF DeclaresAnon, DeclaresKey, try_emplace
<1> QED BY <1>3, <1>4, <1>5, <1>6

LEMMA DeclareMaps ==
    ASSUME MapsTyped, NEW d \in DIType, DI[d].tag \in CompositeTags, declareDIComposite(d)
    PROVE  /\ MapsTyped' /\ Keys \subseteq Keys'
           /\ \A j \in Keys : CompositeTys_'[j] = CompositeTys_[j]
           /\ status' \in {status, "fatal error"}
<1>1. CASE Refuses(d) \/ FindsAnon(d)
  <2>1. UNCHANGED <<CompositeTys_, AnonTys_>> /\ status' \in {status, "fatal error"}
        BY <1>1 DEF Refuses, FindsAnon, mapVars
  <2> QED BY <2>1 DEF MapsTyped, Keys
<1>2. CASE DeclaresName(d)
  <2>1. /\ Keys' = Keys \cup {Key(DI[d].name)}
        /\ CompositeTys_' = [j \in Keys' |-> CompositeTys_'[j]]
        /\ \A j \in Keys : CompositeTys_'[j] = CompositeTys_[j]
        /\ Keys' \subseteq Names
        /\ \A j \in Keys' : IsEntry(CompositeTys_'[j], Keys')
        BY <1>2, KeyAdded DEF DeclaresName, DeclaresKey
  <2>2. UNCHANGED <<AnonTys_, status>> BY <1>2 DEF DeclaresName, DeclaresKey
  <2>3. \A e \in DOMAIN AnonTys_' : e \in DIType /\ AnonTys_'[e] \in Keys'
        BY <2>1, <2>2 DEF MapsTyped
  <2>4. MapsTyped' BY <2>1, <2>3 DEF MapsTyped
  <2> QED BY <2>1, <2>2, <2>4
<1>3. CASE DeclaresAnon(d)
  <2>1. /\ Keys' = Keys \cup {NextAnonKey}
        /\ CompositeTys_' = [j \in Keys' |-> CompositeTys_'[j]]
        /\ \A j \in Keys : CompositeTys_'[j] = CompositeTys_[j]
        /\ Keys' \subseteq Names
        /\ \A j \in Keys' : IsEntry(CompositeTys_'[j], Keys')
        BY <1>3, KeyAdded DEF DeclaresAnon, DeclaresKey
  <2>2. /\ DOMAIN AnonTys_' = DOMAIN AnonTys_ \cup {d} /\ AnonTys_'[d] = NextAnonKey
        /\ \A e \in DOMAIN AnonTys_ : AnonTys_'[e] = AnonTys_[e]
        /\ UNCHANGED status
        BY <1>3 DEF DeclaresAnon, DeclaresKey
  <2>3. \A e \in DOMAIN AnonTys_' : e \in DIType /\ AnonTys_'[e] \in Keys'
        BY <2>1, <2>2 DEF MapsTyped
  <2>4. MapsTyped' BY <2>1, <2>3 DEF MapsTyped
  <2> QED BY <2>1, <2>2, <2>4
<1> QED BY <1>1, <1>2, <1>3, DeclareWays
(* Opening an enumeration, and leaving a type to the inliner's result.     *)
LEMMA EntryOpened ==
    ASSUME NEW K, NEW T, IsEntry(T, K), NEW E, E = [T EXCEPT !.opaque = FALSE]
    PROVE  IsEntry(E, K) /\ E.kind = T.kind /\ ~E.opaque
<1>1. T = [kind |-> T.kind, opaque |-> T.opaque, Fields_ |-> T.Fields_,
           FieldsMap_ |-> T.FieldsMap_, Align_ |-> T.Align_]
      BY DEF IsEntry
<1>2. E = [kind |-> T.kind, opaque |-> FALSE, Fields_ |-> T.Fields_,
           FieldsMap_ |-> T.FieldsMap_, Align_ |-> T.Align_]
  <2>1. \A b : [T EXCEPT !.opaque = b]
                 = [kind |-> T.kind, opaque |-> b, Fields_ |-> T.Fields_,
                    FieldsMap_ |-> T.FieldsMap_, Align_ |-> T.Align_]
        BY <1>1
  <2> QED BY <2>1, Zenon
<1>3. /\ E.kind = T.kind /\ E.opaque = FALSE /\ E.Fields_ = T.Fields_
      /\ E.FieldsMap_ = T.FieldsMap_ /\ E.Align_ = T.Align_
      BY <1>2
<1>4. IsEntry(E, K) BY <1>2, <1>3 DEF IsEntry
<1> QED BY <1>3, <1>4

LEMMA EntryMapped ==
    ASSUME NEW K, NEW T, IsEntry(T, K), NEW m, NEW E, E = [T EXCEPT !.FieldsMap_ = m]
    PROVE  /\ IsMap(m, K) => IsEntry(E, K)
           /\ E.kind = T.kind /\ E.opaque = T.opaque /\ E.Fields_ = T.Fields_
           /\ E.Align_ = T.Align_ /\ E.FieldsMap_ = m
<1>1. T = [kind |-> T.kind, opaque |-> T.opaque, Fields_ |-> T.Fields_,
           FieldsMap_ |-> T.FieldsMap_, Align_ |-> T.Align_]
      BY DEF IsEntry
<1>2. E = [kind |-> T.kind, opaque |-> T.opaque, Fields_ |-> T.Fields_,
           FieldsMap_ |-> m, Align_ |-> T.Align_]
      BY <1>1
<1>3. /\ E.kind = T.kind /\ E.opaque = T.opaque /\ E.Fields_ = T.Fields_
      /\ E.FieldsMap_ = m /\ E.Align_ = T.Align_
      BY <1>2
<1>4. IsMap(m, K) => IsEntry(E, K) BY <1>2, <1>3 DEF IsEntry
<1> QED BY <1>3, <1>4

(* What the second pass makes of a node's type.                            *)
Body(d) ==
    LET T == CompositeTys_[KeyOf(d)] IN
    IF IsEnum(DI[d].tag) THEN [T EXCEPT !.opaque = FALSE] ELSE setBody(T, FieldsOf(d))

LEMMA BodyIs ==
    ASSUME NEW H \in Nat, NEW h, NestedBy(h, H), MapsTyped, NEW d \in DIType, KeyOf(d) \in Keys
    PROVE  /\ IsEntry(Body(d), Keys) /\ Body(d).kind = CompositeTys_[KeyOf(d)].kind
           /\ ~Body(d).opaque
<1> DEFINE T == CompositeTys_[KeyOf(d)]
<1>1. IsEntry(T, Keys) BY DEF MapsTyped
<1>2. FieldsOf(d) \in Seq(Field(Keys)) BY FieldsTyped
<1>3. CASE IsEnum(DI[d].tag)
  <2>1. Body(d) = [T EXCEPT !.opaque = FALSE] BY <1>3 DEF Body
  <2> HIDE DEF T
  <2> QED BY <1>1, <2>1, EntryOpened DEF T
<1>4. CASE ~IsEnum(DI[d].tag)
  <2>1. Body(d) = setBody(T, FieldsOf(d)) BY <1>4 DEF Body
  <2> HIDE DEF T
  <2> QED BY <1>1, <1>2, <2>1, BodyTyped DEF T
<1> QED BY <1>3, <1>4

(* A step of the second pass, in terms of Body.                            *)
LEMMA ParseSplit ==
    ASSUME ListsTyped, MapsTyped, parseDIComposite
    PROVE  /\ nParsed' = nParsed + 1 /\ nParsed < Len(Composites) /\ Declared
           /\ Composites[nParsed + 1] \in DIType
           /\ UNCHANGED <<findVars, nDeclared, Composites, Typedefs, AnonTys_, inlineVars,
                          aliasVars, done>>
           /\ LET d == Composites[nParsed + 1] IN
              \/ Skipped(d) /\ UNCHANGED <<CompositeTys_, status>>
              \/ ~Skipped(d) /\ status' # "running" /\ status' = ParseStatus(d)
                   /\ UNCHANGED CompositeTys_
              \/ /\ ~Skipped(d) /\ status' = "running" /\ status' = ParseStatus(d)
                 /\ CompositeTys_' = [CompositeTys_ EXCEPT ![KeyOf(d)] = Body(d)]
<1> DEFINE d == Composites[nParsed + 1]
<1>1. d \in DIType /\ nParsed' = nParsed + 1 /\ nParsed < Len(Composites) /\ Declared
      BY DEF ListsTyped, parseDIComposite
<1>2. UNCHANGED <<findVars, nDeclared, Composites, Typedefs, AnonTys_, inlineVars,
                  aliasVars, done>>
      BY DEF parseDIComposite
<1>3. \/ Skipped(d) /\ UNCHANGED <<CompositeTys_, status>>
      \/ /\ ~Skipped(d) /\ status' = ParseStatus(d)
         /\ CompositeTys_' =
               IF status' # "running" THEN CompositeTys_
               ELSE [CompositeTys_ EXCEPT ![KeyOf(d)] =
                       IF IsEnum(DI[d].tag) THEN [@ EXCEPT !.opaque = FALSE]
                                            ELSE setBody(@, FieldsOf(d))]
      BY DEF parseDIComposite
<1> HIDE DEF d
<1>4. status' = "running" /\ ~Skipped(d) /\
        CompositeTys_' = [CompositeTys_ EXCEPT ![KeyOf(d)] =
                       IF IsEnum(DI[d].tag) THEN [@ EXCEPT !.opaque = FALSE]
                                            ELSE setBody(@, FieldsOf(d))]
      => CompositeTys_' = [CompositeTys_ EXCEPT ![KeyOf(d)] = Body(d)]
      BY DEF Body
<1>5. \/ Skipped(d) /\ UNCHANGED <<CompositeTys_, status>>
      \/ ~Skipped(d) /\ status' # "running" /\ status' = ParseStatus(d)
           /\ UNCHANGED CompositeTys_
      \/ /\ ~Skipped(d) /\ status' = "running" /\ status' = ParseStatus(d)
         /\ CompositeTys_' = [CompositeTys_ EXCEPT ![KeyOf(d)] = Body(d)]
  <2>1. CASE Skipped(d) BY <1>3, <2>1
  <2>2. CASE ~Skipped(d) /\ status' # "running" BY <1>3, <2>2
  <2>3. CASE ~Skipped(d) /\ status' = "running" BY <1>3, <1>4, <2>3
  <2> QED BY <2>1, <2>2, <2>3
<1> QED BY <1>1, <1>2, <1>5 DEF d
LEMMA InitTyped == ASSUME Init PROVE Typed
<1>1. work \in Seq(Nodes)
  <2>1. IsFiniteSet(Roots) BY DebugInfoAssumption, FS_Subset
  <2>2. Cardinality(Roots) \in Nat BY <2>1, FS_CardinalityType
  <2>3. work \in [1 .. Cardinality(Roots) -> Roots] BY DEF Init, SetToSeqs
  <2>4. work \in Seq(Roots) BY <2>2, <2>3
  <2>5. Roots \subseteq Nodes BY DebugInfoAssumption DEF Nodes
  <2> QED BY <2>4, <2>5
<1>2. ListsTyped BY <1>1 DEF Init, ListsTyped
<1>3. Keys = {} /\ DOMAIN AnonTys_ = {} BY DEF Init, Keys
<1>4. CompositeTys_ = [k \in Keys |-> CompositeTys_[k]] BY <1>3 DEF Init
<1>5. MapsTyped BY <1>3, <1>4 DEF MapsTyped
<1>6. InlineTyped BY DEF Init, InlineTyped
<1>7. StatusTyped BY DEF Init, StatusTyped
<1> QED BY <1>2, <1>5, <1>6, <1>7 DEF Typed

LEMMA SuccessorsTyped ==
    ASSUME NEW d \in DIType
    PROVE  /\ Successors(d) \in Seq(Nodes)
           /\ DI[d].tag = "subroutine_type" => Successors(d) = DI[d].sig
           /\ DI[d].tag # "subroutine_type" =>
                /\ DI[d].base \in Range(Successors(d))
                /\ \A i \in 1 .. Len(DI[d].elems) : DI[d].elems[i].base \in Range(Successors(d))
<1> DEFINE es == DI[d].elems
           bs == [i \in DOMAIN es |-> es[i].base]
<1>1. /\ Len(es) \in Nat /\ DOMAIN es = 1 .. Len(es)
      /\ \A i \in 1 .. Len(es) : es[i].base \in Nodes
      BY ElemsOf
<1>2. DI[d].base \in Nodes /\ DI[d].sig \in Seq(Nodes) BY DebugInfoAssumption DEF Nodes
<1> HIDE DEF es
<1>3. bs \in Seq(Nodes) /\ Len(bs) = Len(es) /\ \A i \in 1 .. Len(es) : bs[i] = es[i].base
      BY <1>1
<1>4. CASE DI[d].tag = "subroutine_type"
  <2>1. Successors(d) = DI[d].sig BY <1>4 DEF Successors
  <2> QED BY <1>2, <1>4, <2>1 DEF es
<1>5. CASE DI[d].tag # "subroutine_type"
  <2>1. Successors(d) = <<DI[d].base>> \o bs BY <1>5 DEF Successors, es
  <2> HIDE DEF bs
  <2>2. /\ Successors(d) \in Seq(Nodes) /\ Len(Successors(d)) = Len(es) + 1
        /\ Successors(d)[1] = DI[d].base
        /\ \A i \in 1 .. Len(es) : Successors(d)[i + 1] = bs[i]
        BY <1>1, <1>2, <1>3, <2>1
  <2> HIDE DEF Successors
  <2>3. DOMAIN Successors(d) = 1 .. (Len(es) + 1) BY <2>2
  <2>4. \A i \in 1 .. (Len(es) + 1) : Successors(d)[i] \in Range(Successors(d))
        BY <2>3 DEF Range
  <2>5. 1 \in 1 .. (Len(es) + 1) /\ \A i \in 1 .. Len(es) : i + 1 \in 1 .. (Len(es) + 1)
        BY <1>1
  <2>6. \A i \in 1 .. Len(es) : es[i].base \in Range(Successors(d))
        BY <1>3, <2>2, <2>4, <2>5
  <2> QED BY <1>5, <2>2, <2>4, <2>5, <2>6 DEF es
<1> QED BY <1>4, <1>5

LEMMA ProcessTyped == ASSUME Typed, processType PROVE Typed'
<1> DEFINE d == Head(work)
<1>1. work \in Seq(Nodes) /\ work # <<>> BY DEF Typed, ListsTyped, processType
<1>2. d \in Nodes /\ Tail(work) \in Seq(Nodes) BY <1>1
<1>3. work' \in Seq(Nodes) /\ types' \in Seq(DIType) /\ nDeclared' \in 0 .. Len(types')
  <2>1. CASE d = NoNode \/ \E i \in DOMAIN types : types[i] = d
    <3>1. work' = Tail(work) /\ types' = types BY <2>1 DEF processType
    <3>2. nDeclared' = nDeclared BY DEF processType
    <3> QED BY <1>2, <3>1, <3>2 DEF Typed, ListsTyped
  <2>2. CASE ~(d = NoNode \/ \E i \in DOMAIN types : types[i] = d)
    <3>1. types' = Append(types, d) /\ work' = Successors(d) \o Tail(work)
          BY <2>2 DEF processType
    <3>2. d \in DIType BY <1>2, <2>2 DEF Nodes
    <3>3. Successors(d) \in Seq(Nodes) BY <3>2, SuccessorsTyped
    <3>4. types \in Seq(DIType) /\ nDeclared \in 0 .. Len(types) /\ nDeclared' = nDeclared
          BY DEF Typed, ListsTyped, processType
    <3> HIDE DEF d
    <3>5. types' \in Seq(DIType) /\ Len(types') = Len(types) + 1 BY <3>1, <3>2, <3>4
    <3>6. work' \in Seq(Nodes) BY <1>2, <3>1, <3>3
    <3> QED BY <3>4, <3>5, <3>6
  <2> QED BY <2>1, <2>2
<1>4. UNCHANGED <<Composites, Typedefs, nParsed, CompositeTys_, AnonTys_, iterated, Visited, frames,
                  nAliased, AliasTys_, done, status>>
      BY DEF processType, mapVars, inlineVars, aliasVars
<1>5. ListsTyped' BY <1>3, <1>4 DEF Typed, ListsTyped
<1>6. MapsTyped' /\ InlineTyped' /\ StatusTyped'
      BY <1>4 DEF Typed, MapsTyped, InlineTyped, StatusTyped, Keys
<1> QED BY <1>5, <1>6 DEF Typed

(* More keys keep the inliner's state typed.                               *)
LEMMA InlineGrows ==
    ASSUME InlineTyped, Keys \subseteq Keys', UNCHANGED inlineVars
    PROVE  InlineTyped'
<1>1. frames \in Seq([ty : Names, todo : SUBSET Keys']) 
  <2>1. [ty : Names, todo : SUBSET Keys] \subseteq [ty : Names, todo : SUBSET Keys'] OBVIOUS
  <2> DEFINE A == [ty : Names, todo : SUBSET Keys]
             B == [ty : Names, todo : SUBSET Keys']
  <2>2. frames \in Seq(A) /\ A \subseteq B BY <2>1 DEF InlineTyped
  <2> HIDE DEF A, B
  <2>3. frames \in Seq(B) BY <2>2
  <2> QED BY <2>3 DEF B
<1> QED BY <1>1 DEF InlineTyped, inlineVars

LEMMA DeclareTyped == ASSUME Typed, Declare PROVE Typed'
<1> DEFINE d == types[nDeclared + 1]
<1>1. d \in DIType /\ nDeclared' = nDeclared + 1 /\ nDeclared' \in 0 .. Len(types)
      BY DEF Typed, ListsTyped, Declare
<1>2. UNCHANGED <<work, types, nParsed, iterated, Visited, frames, nAliased, AliasTys_, done>>
      BY DEF Declare, findVars, inlineVars, aliasVars
<1>3. \/ /\ DI[d].tag \in CompositeTags /\ Composites' = Append(Composites, d)
         /\ declareDIComposite(d) /\ UNCHANGED Typedefs
      \/ Typedefs' = Append(Typedefs, d) /\ UNCHANGED <<Composites, mapVars, status>>
      \/ UNCHANGED <<Composites, Typedefs, mapVars, status>>
      BY DEF Declare, Collected
<1> HIDE DEF d
<1>4. ListsTyped'
  <2>1. /\ Composites' \in Seq(DIType) /\ Len(Composites') \in Nat
        /\ Len(Composites) <= Len(Composites')
        /\ Typedefs' \in Seq(DIType) /\ Len(Typedefs') \in Nat /\ Len(Typedefs) <= Len(Typedefs')
    <3>1. Composites \in Seq(DIType) /\ Typedefs \in Seq(DIType) BY DEF Typed, ListsTyped
    <3>2. Composites' = Composites \/ Composites' = Append(Composites, d) BY <1>3
    <3>3. Typedefs' = Typedefs \/ Typedefs' = Append(Typedefs, d) BY <1>3
    <3>4. \A s \in Seq(DIType) : /\ Append(s, d) \in Seq(DIType) /\ Len(s) \in Nat
                                /\ Len(Append(s, d)) = Len(s) + 1
          BY <1>1
    <3>5. \A n \in Nat : n + 1 \in Nat /\ n <= n /\ n <= n + 1 OBVIOUS
    <3>6. Composites' \in Seq(DIType) /\ Len(Composites') \in Nat
          /\ Len(Composites) <= Len(Composites')
          BY <3>1, <3>2, <3>4, <3>5
    <3>7. Typedefs' \in Seq(DIType) /\ Len(Typedefs') \in Nat /\ Len(Typedefs) <= Len(Typedefs')
          BY <3>1, <3>3, <3>4, <3>5
    <3> QED BY <3>6, <3>7
  <2>2. nParsed \in 0 .. Len(Composites) /\ nAliased \in 0 .. Len(Typedefs)
        /\ Composites \in Seq(DIType) /\ Typedefs \in Seq(DIType)
        BY DEF Typed, ListsTyped
  <2>3. nParsed \in 0 .. Len(Composites') BY <2>1, <2>2
  <2>4. nAliased \in 0 .. Len(Typedefs') BY <2>1, <2>2
  <2>5. work' \in Seq(Nodes) /\ types' \in Seq(DIType) BY <1>2 DEF Typed, ListsTyped
  <2> QED BY <1>1, <1>2, <2>1, <2>3, <2>4, <2>5 DEF ListsTyped
<1>5. MapsTyped' /\ Keys \subseteq Keys' /\ status' \in {status, "fatal error"}
  <2>1. CASE DI[d].tag \in CompositeTags /\ declareDIComposite(d)
        BY <1>1, <2>1, DeclareMaps DEF Typed
  <2>2. CASE UNCHANGED <<mapVars, status>>
    <3>1. UNCHANGED <<CompositeTys_, AnonTys_, status>> BY <2>2 DEF mapVars
    <3>2. Keys' = Keys BY <3>1 DEF Keys
    <3>3. MapsTyped' BY <3>1, <3>2 DEF Typed, MapsTyped
    <3> QED BY <3>1, <3>2, <3>3
  <2> QED BY <1>3, <2>1, <2>2
<1>6. InlineTyped' BY <1>2, <1>5, InlineGrows DEF Typed, inlineVars
<1>7. StatusTyped' BY <1>2, <1>5 DEF Typed, StatusTyped
<1> QED BY <1>4, <1>5, <1>6, <1>7 DEF Typed
(* The second pass keeps the keys, the kinds and all types but one.        *)
LEMMA ParseMaps ==
    ASSUME NEW H \in Nat, NEW h, NestedBy(h, H), ListsTyped, MapsTyped, parseDIComposite
    PROVE  /\ MapsTyped' /\ Keys' = Keys
           /\ \A k \in Keys : /\ CompositeTys_'[k].kind = CompositeTys_[k].kind
                              /\ ~CompositeTys_[k].opaque => CompositeTys_'[k] = CompositeTys_[k]
<1> DEFINE d == Composites[nParsed + 1]
<1>1. /\ d \in DIType /\ UNCHANGED AnonTys_
      /\ \/ UNCHANGED CompositeTys_
         \/ ~Skipped(d) /\ CompositeTys_' = [CompositeTys_ EXCEPT ![KeyOf(d)] = Body(d)]
      BY ParseSplit
<1> HIDE DEF d
<1>2. CASE UNCHANGED CompositeTys_
  <2>1. Keys' = Keys BY <1>2 DEF Keys
  <2>2. MapsTyped' BY <1>1, <1>2, <2>1 DEF MapsTyped
  <2> QED BY <1>2, <2>1, <2>2
<1>3. CASE ~Skipped(d) /\ CompositeTys_' = [CompositeTys_ EXCEPT ![KeyOf(d)] = Body(d)]
  <2> DEFINE k == KeyOf(d)
             B == Body(d)
  <2>1. k \in Keys => IsEntry(B, Keys) /\ B.kind = CompositeTys_[k].kind BY <1>1, BodyIs
  <2>2. CompositeTys_[k].opaque BY <1>3 DEF Skipped
  <2>3. CompositeTys_' = [CompositeTys_ EXCEPT ![k] = B] BY <1>3
  <2> HIDE DEF k, B
  <2>4. /\ MapsTyped' /\ Keys' = Keys
        /\ k \in Keys => CompositeTys_'[k] = B
        /\ \A j \in Keys : j # k => CompositeTys_'[j] = CompositeTys_[j]
        BY <1>1, <2>1, <2>3, EntrySet
  <2> QED BY <2>1, <2>2, <2>4
<1> QED BY <1>1, <1>2, <1>3

LEMMA ParseTyped ==
    ASSUME NEW H \in Nat, NEW h, NestedBy(h, H), Typed, parseDIComposite
    PROVE  Typed'
<1> DEFINE d == Composites[nParsed + 1]
<1>1. /\ nParsed' = nParsed + 1 /\ nParsed < Len(Composites)
      /\ UNCHANGED <<findVars, nDeclared, Composites, Typedefs, AnonTys_, inlineVars,
                     aliasVars, done>>
      /\ UNCHANGED status \/ status' = ParseStatus(d) \/ status' = "running"
      BY ParseSplit DEF Typed
<1>2. ListsTyped'
  <2>1. nParsed \in 0 .. Len(Composites) /\ Len(Composites) \in Nat BY DEF Typed, ListsTyped
  <2>2. nParsed + 1 \in 0 .. Len(Composites) BY <1>1, <2>1
  <2> QED BY <1>1, <2>2 DEF Typed, ListsTyped, findVars, aliasVars
<1>3. MapsTyped' /\ Keys' = Keys BY ParseMaps DEF Typed
<1>4. InlineTyped' BY <1>1, <1>3, InlineGrows DEF Typed
<1>5. StatusTyped'
  <2>1. ParseStatus(d) \in {"running", "fatal error", "null type", "bad cast"}
        BY DEF ParseStatus
  <2> HIDE DEF d
  <2> QED BY <1>1, <2>1 DEF Typed, StatusTyped
<1> QED BY <1>2, <1>3, <1>4, <1>5 DEF Typed

LEMMA FrameTyped ==
    ASSUME MapsTyped, NEW k \in Keys
    PROVE  Frame(k) \in [ty : Names, todo : SUBSET Keys] /\ Frame(k).ty = k
           /\ Frame(k).todo = InnerTypes(k)
<1>1. InnerTypes(k) \subseteq Keys BY InnerTyped
<1>2. k \in Names BY DEF MapsTyped
<1> QED BY <1>1, <1>2 DEF Frame

LEMMA InlineNextTyped == ASSUME Typed, InlineNext PROVE Typed'
<1>1. PICK k \in DOMAIN CompositeTys_ \ iterated :
         /\ iterated' = iterated \cup {k}
         /\ IF CompositeTys_[k].kind = "enumeration_type" \/ k \in Visited
            THEN UNCHANGED <<Visited, frames>>
            ELSE Visited' = Visited \cup {k} /\ frames' = <<Frame(k)>>
      BY DEF InlineNext
<1>2. UNCHANGED <<work, types, nDeclared, Composites, Typedefs, nParsed, CompositeTys_, AnonTys_,
                  nAliased, AliasTys_, done, status>>
      BY DEF InlineNext, findVars, mapVars, aliasVars
<1>3. ListsTyped' /\ StatusTyped' BY <1>2 DEF Typed, ListsTyped, StatusTyped
<1>4. Keys' = Keys BY <1>2 DEF Keys
<1>5. MapsTyped' BY <1>2, <1>4 DEF Typed, MapsTyped
<1>6. k \in Keys /\ iterated' \subseteq Keys BY <1>1 DEF Keys, Typed, InlineTyped
<1>7. InlineTyped'
  <2> DEFINE R == [ty : Names, todo : SUBSET Keys]
  <2>1. frames \in Seq(R) /\ Visited \subseteq Keys
        /\ \A i \in 1 .. Len(frames) : frames[i].ty \in Visited
        BY DEF Typed, InlineTyped
  <2>2. Frame(k) \in R /\ Frame(k).ty = k BY <1>6, FrameTyped DEF Typed
  <2> HIDE DEF R
  <2>3. CASE UNCHANGED <<Visited, frames>>
    <3>1. frames' \in Seq(R) /\ Visited' \subseteq Keys
          /\ \A i \in 1 .. Len(frames') : frames'[i].ty \in Visited'
          BY <2>1, <2>3
    <3> QED BY <1>4, <1>6, <3>1 DEF InlineTyped, R
  <2>4. CASE Visited' = Visited \cup {k} /\ frames' = <<Frame(k)>>
    <3>1. frames' \in Seq(R) /\ Visited' \subseteq Keys
          /\ \A i \in 1 .. Len(frames') : frames'[i].ty \in Visited'
          BY <1>6, <2>1, <2>2, <2>4
    <3> QED BY <1>4, <1>6, <3>1 DEF InlineTyped, R
  <2> QED BY <1>1, <2>3, <2>4
<1> QED BY <1>3, <1>5, <1>7 DEF Typed

(* The innermost frame goes on.                                            *)
Rest(k) == [frames EXCEPT ![1].todo = @ \ {k}]

LEMMA RestIs ==
    ASSUME InlineTyped, frames # <<>>, NEW k
    PROVE  /\ Rest(k) \in Seq([ty : Names, todo : SUBSET Keys]) /\ Len(Rest(k)) = Len(frames)
           /\ \A i \in 1 .. Len(frames) : Rest(k)[i].ty = frames[i].ty
           /\ Rest(k)[1].todo = frames[1].todo \ {k}
           /\ \A i \in 1 .. Len(frames) : i # 1 => Rest(k)[i] = frames[i]
<1> DEFINE R == [ty : Names, todo : SUBSET Keys]
           r == [frames[1] EXCEPT !.todo = @ \ {k}]
<1>1. frames \in Seq(R) BY DEF InlineTyped
<1>2. Len(frames) \in Nat /\ 1 \in 1 .. Len(frames) /\ DOMAIN frames = 1 .. Len(frames)
      BY <1>1
<1>3. frames[1] \in R
  <2> HIDE DEF R
  <2> QED BY <1>1, <1>2
<1>4. r \in R /\ r.ty = frames[1].ty /\ r.todo = frames[1].todo \ {k} BY <1>3
<1>5. Rest(k) = [frames EXCEPT ![1] = r] BY DEF Rest
<1> HIDE DEF R, r
<1>6. /\ Rest(k) \in Seq(R) /\ Len(Rest(k)) = Len(frames) /\ Rest(k)[1] = r
      /\ \A i \in 1 .. Len(frames) : i # 1 => Rest(k)[i] = frames[i]
      BY <1>1, <1>2, <1>4, <1>5
<1> QED BY <1>4, <1>6 DEF R

LEMMA InlineInnerTyped == ASSUME Typed, InlineInner PROVE Typed'
<1>1. frames # <<>> BY DEF InlineInner
<1>2. PICK k \in frames[1].todo :
         IF k \in Visited THEN frames' = Rest(k) /\ UNCHANGED Visited
                          ELSE frames' = <<Frame(k)>> \o Rest(k) /\ Visited' = Visited \cup {k}
      BY DEF InlineInner, Rest
<1>3. UNCHANGED <<work, types, nDeclared, Composites, Typedefs, nParsed, CompositeTys_, AnonTys_,
                  iterated, nAliased, AliasTys_, done, status>>
      BY DEF InlineInner, findVars, mapVars, aliasVars
<1>4. ListsTyped' /\ StatusTyped' BY <1>3 DEF Typed, ListsTyped, StatusTyped
<1>5. Keys' = Keys BY <1>3 DEF Keys
<1>6. MapsTyped' BY <1>3, <1>5 DEF Typed, MapsTyped
<1>7. InlineTyped'
  <2> DEFINE R == [ty : Names, todo : SUBSET Keys]
  <2>1. frames \in Seq(R) /\ Visited \subseteq Keys /\ iterated \subseteq Keys
        /\ \A i \in 1 .. Len(frames) : frames[i].ty \in Visited
        BY DEF Typed, InlineTyped
  <2>2. frames[1] \in R
    <3> HIDE DEF R
    <3> QED BY <1>1, <2>1
  <2>3. k \in Keys BY <2>2
  <2>4. Frame(k) \in R /\ Frame(k).ty = k BY <2>3, FrameTyped DEF Typed
  <2>5. /\ Rest(k) \in Seq(R) /\ Len(Rest(k)) = Len(frames)
        /\ \A i \in 1 .. Len(frames) : Rest(k)[i].ty = frames[i].ty
        BY <1>1, RestIs DEF Typed
  <2> HIDE DEF R, Rest
  <2>6. CASE k \in Visited
    <3>1. frames' \in Seq(R) /\ Visited' \subseteq Keys
          /\ \A i \in 1 .. Len(frames') : frames'[i].ty \in Visited'
          BY <1>2, <2>1, <2>5, <2>6
    <3> QED BY <1>3, <1>5, <2>1, <3>1 DEF InlineTyped, R
  <2>7. CASE k \notin Visited
    <3>1. frames' = <<Frame(k)>> \o Rest(k) /\ Visited' = Visited \cup {k} BY <1>2, <2>7
    <3>2. /\ frames' \in Seq(R) /\ Len(frames') = Len(frames) + 1 /\ frames'[1] = Frame(k)
          /\ \A i \in 1 .. Len(frames) : frames'[i + 1] = Rest(k)[i]
          BY <2>1, <2>4, <2>5, <3>1
    <3>3. \A i \in 1 .. Len(frames') : i = 1 \/ (i - 1 \in 1 .. Len(frames) /\ i = (i - 1) + 1)
          BY <2>1, <3>2
    <3>4. \A i \in 1 .. Len(frames') : frames'[i].ty \in Visited'
      <4> SUFFICES ASSUME NEW i \in 1 .. Len(frames') PROVE frames'[i].ty \in Visited' OBVIOUS
      <4>1. CASE i = 1 BY <2>4, <3>1, <3>2, <4>1
      <4>2. CASE i # 1
        <5>1. i - 1 \in 1 .. Len(frames) /\ frames'[i] = Rest(k)[i - 1] BY <3>2, <3>3, <4>2
        <5> QED BY <2>1, <2>5, <3>1, <5>1
      <4> QED BY <4>1, <4>2
    <3>5. Visited' \subseteq Keys BY <2>1, <2>3, <3>1
    <3> QED BY <1>3, <1>5, <2>1, <3>2, <3>4, <3>5 DEF InlineTyped, R
  <2> QED BY <2>6, <2>7
<1> QED BY <1>4, <1>6, <1>7 DEF Typed
(* Leaving a type: only its map of fields changes.                         *)
LEMMA LeaveMaps ==
    ASSUME MapsTyped, InlineTyped, InlineType
    PROVE  /\ MapsTyped' /\ Keys' = Keys /\ frames # <<>> /\ frames[1].ty \in Keys
           /\ LET k == frames[1].ty IN
              /\ CompositeTys_'[k] =
                   [CompositeTys_[k] EXCEPT !.FieldsMap_ = inlineAnonymousMembers(k)]
              /\ CompositeTys_'[k].FieldsMap_ = inlineAnonymousMembers(k)
           /\ \A k \in Keys :
                /\ k # frames[1].ty => CompositeTys_'[k] = CompositeTys_[k]
                /\ CompositeTys_'[k].kind = CompositeTys_[k].kind
                /\ CompositeTys_'[k].opaque = CompositeTys_[k].opaque
                /\ CompositeTys_'[k].Fields_ = CompositeTys_[k].Fields_
                /\ CompositeTys_'[k].Align_ = CompositeTys_[k].Align_
<1> DEFINE k == frames[1].ty
           m == inlineAnonymousMembers(k)
           T == [CompositeTys_[k] EXCEPT !.FieldsMap_ = m]
<1>1. frames # <<>> /\ UNCHANGED AnonTys_ BY DEF InlineType
<1>2. k \in Keys BY <1>1 DEF InlineTyped
<1>3. CompositeTys_' = [CompositeTys_ EXCEPT ![k] = T] BY DEF InlineType
<1>4. IsMap(m, Keys) BY <1>2, InlinedTyped
<1>5. IsEntry(CompositeTys_[k], Keys) BY <1>2 DEF MapsTyped
<1> HIDE DEF m, k
<1>6. /\ IsEntry(T, Keys) /\ T.kind = CompositeTys_[k].kind /\ T.opaque = CompositeTys_[k].opaque
      /\ T.Fields_ = CompositeTys_[k].Fields_ /\ T.Align_ = CompositeTys_[k].Align_
      /\ T.FieldsMap_ = m
  <2> DEFINE C == CompositeTys_[k]
  <2>1. IsEntry(C, Keys) /\ T = [C EXCEPT !.FieldsMap_ = m] BY <1>5
  <2> HIDE DEF C, T
  <2> QED BY <1>4, <2>1, EntryMapped DEF C
<1> HIDE DEF T
<1>7. /\ MapsTyped' /\ Keys' = Keys /\ CompositeTys_'[k] = T
      /\ \A j \in Keys : j # k => CompositeTys_'[j] = CompositeTys_[j]
      BY <1>1, <1>2, <1>3, <1>6, EntrySet
<1>8. \A j \in Keys :
        /\ j # k => CompositeTys_'[j] = CompositeTys_[j]
        /\ CompositeTys_'[j].kind = CompositeTys_[j].kind
        /\ CompositeTys_'[j].opaque = CompositeTys_[j].opaque
        /\ CompositeTys_'[j].Fields_ = CompositeTys_[j].Fields_
        /\ CompositeTys_'[j].Align_ = CompositeTys_[j].Align_
      BY <1>6, <1>7, Zenon
<1> QED BY <1>1, <1>2, <1>6, <1>7, <1>8 DEF k, m, T

LEMMA InlineTypeTyped == ASSUME Typed, InlineType PROVE Typed'
<1>1. MapsTyped' /\ Keys' = Keys /\ frames # <<>> BY LeaveMaps DEF Typed
<1>2. /\ frames' = Tail(frames)
      /\ UNCHANGED <<work, types, nDeclared, Composites, Typedefs, nParsed, AnonTys_, iterated,
                     Visited, nAliased, AliasTys_, done, status>>
      BY DEF InlineType, findVars, aliasVars
<1>3. ListsTyped' /\ StatusTyped' BY <1>2 DEF Typed, ListsTyped, StatusTyped
<1>4. InlineTyped'
  <2> DEFINE R == [ty : Names, todo : SUBSET Keys]
  <2>1. frames \in Seq(R) /\ \A i \in 1 .. Len(frames) : frames[i].ty \in Visited
        BY DEF Typed, InlineTyped
  <2> HIDE DEF R
  <2>2. /\ frames' \in Seq(R) /\ Len(frames') = Len(frames) - 1 /\ Len(frames) \in Nat
        /\ \A i \in 1 .. Len(frames') : frames'[i] = frames[i + 1]
        BY <1>1, <1>2, <2>1
  <2>3. \A i \in 1 .. Len(frames') : i + 1 \in 1 .. Len(frames) BY <2>2
  <2>4. \A i \in 1 .. Len(frames') : frames'[i].ty \in Visited' BY <1>2, <2>1, <2>2, <2>3
  <2> QED BY <1>1, <1>2, <2>2, <2>4 DEF Typed, InlineTyped, R
<1> QED BY <1>1, <1>3, <1>4 DEF Typed

LEMMA AliasTyped == ASSUME Typed, setAlias \/ Finish PROVE Typed'
<1>1. UNCHANGED <<work, types, nDeclared, Composites, Typedefs, nParsed, CompositeTys_, iterated,
                  Visited, frames>>
  <2>1. CASE setAlias BY <2>1 DEF setAlias, findVars, mapVars, inlineVars
  <2>2. CASE Finish BY <2>2 DEF Finish, findVars, inlineVars
  <2> QED BY <2>1, <2>2
<1>2. Keys' = Keys BY <1>1 DEF Keys
<1>3. InlineTyped' BY <1>1, <1>2 DEF Typed, InlineTyped
<1>4. AnonTys_' = AnonTys_ \/ AnonTys_' = <<>> BY DEF setAlias, Finish, mapVars
<1>5. \A d \in DOMAIN AnonTys_' : d \in DIType /\ AnonTys_'[d] \in Keys
  <2>1. DOMAIN <<>> = {} OBVIOUS
  <2> QED BY <1>4, <2>1 DEF Typed, MapsTyped
<1>6. MapsTyped' BY <1>1, <1>2, <1>5 DEF Typed, MapsTyped
<1>7. ListsTyped'
  <2>1. nAliased' \in 0 .. Len(Typedefs)
    <3>1. nAliased \in 0 .. Len(Typedefs) /\ Len(Typedefs) \in Nat BY DEF Typed, ListsTyped
    <3>2. CASE setAlias
      <4>1. nAliased < Len(Typedefs) /\ nAliased' = nAliased + 1 BY <3>2, Zenon DEF setAlias
      <4> QED BY <3>1, <4>1
    <3>3. CASE Finish
      <4>1. UNCHANGED aliasVars BY <3>3, Zenon DEF Finish
      <4> QED BY <3>1, <4>1 DEF aliasVars
    <3> QED BY <3>2, <3>3
  <2> QED BY <1>1, <2>1 DEF Typed, ListsTyped
<1>8. StatusTyped'
  <2>1. CASE setAlias BY <2>1 DEF Typed, StatusTyped, setAlias
  <2>2. CASE Finish BY <2>2 DEF Typed, StatusTyped, Finish
  <2> QED BY <2>1, <2>2
<1> QED BY <1>3, <1>6, <1>7, <1>8 DEF Typed

LEMMA TypedStep ==
    ASSUME NEW H \in Nat, NEW h, NestedBy(h, H), Typed, [Next]_vars
    PROVE  Typed'
<1>1. CASE UNCHANGED vars
      BY <1>1 DEF vars, Typed, ListsTyped, MapsTyped, InlineTyped, StatusTyped, Keys
<1>2. CASE Next
  <2>1. CASE Returned
        BY <2>1 DEF Returned, vars, Typed, ListsTyped, MapsTyped, InlineTyped, StatusTyped, Keys
  <2> QED BY <1>2, <2>1, ProcessTyped, DeclareTyped, ParseTyped, InlineNextTyped,
             InlineInnerTyped, InlineTypeTyped, AliasTyped DEF Next
<1> QED BY <1>1, <1>2

LEMMA TypedGives == ASSUME Typed PROVE TypeOK
<1>1. ASSUME NEW k \in Keys, NEW n \in DOMAIN CompositeTys_[k].FieldsMap_
      PROVE  LET f == CompositeTys_[k].FieldsMap_[n] IN
              /\ f.name = n /\ f.off \in Nat
              /\ \A i \in DOMAIN f.ty : f.ty[i][1] = "composite" =>
                   <<f.ty[i][2], f.ty[i][3]>> \in Keys
  <2> DEFINE f == CompositeTys_[k].FieldsMap_[n]
             t == f.ty
  <2>1. f \in Field(Keys) /\ f.name = n BY DEF Typed, MapsTyped, IsEntry, IsMap
  <2>2. t \in Seq(Alphabet(Keys)) /\ f.off \in Nat BY <2>1 DEF Field, Types
  <2> HIDE DEF t
  <2>3. ASSUME NEW i \in DOMAIN t, t[i][1] = "composite"
        PROVE  <<t[i][2], t[i][3]>> \in Keys
    <3>1. t[i] \in Alphabet(Keys)
      <4>1. DOMAIN t = 1 .. Len(t) BY <2>2
      <4> QED BY <2>2, <4>1
    <3> QED BY <2>3, <3>1, AlphabetIs DEF Typed, MapsTyped
  <2> QED BY <2>1, <2>2, <2>3 DEF t
<1>2. ASSUME NEW k \in Keys
      PROVE  LET T == CompositeTys_[k] IN
             T.kind \in CompositeTags /\ T.opaque \in BOOLEAN /\ T.Align_ \in Nat
      BY DEF Typed, MapsTyped, IsEntry
<1>3. DOMAIN frames = 1 .. Len(frames) BY DEF Typed, InlineTyped
<1> QED BY <1>1, <1>2, <1>3
        DEF TypeOK, Typed, ListsTyped, MapsTyped, InlineTyped, StatusTyped, Keys

LEMMA TypedAlways ==
    ASSUME NEW H \in Nat, NEW h, NestedBy(h, H) PROVE Spec => []Typed
<1>1. Init => Typed BY InitTyped
<1>2. Typed /\ [Next]_vars => Typed' BY TypedStep
<1> QED BY <1>1, <1>2, PTL DEF Spec

(* Whatever the debug information holds and in whatever order the passes   *)
(* meet it, every type they build refers to types of CompositeTys_ only,   *)
(* if types nest finitely apart from structures and unions.                *)
THEOREM TypeCorrect ==
    ASSUME NEW H \in Nat, NEW h, NestedBy(h, H) PROVE Spec => []TypeOK
<1>1. Typed => TypeOK BY TypedGives
<1> QED BY <1>1, TypedAlways, PTL
-----------------------------------------------------------------------------
(* The passes come one after the other.                                    *)
Late == iterated # {} \/ Visited # {} \/ frames # <<>> \/ nAliased # 0 \/ done

Staged ==
    /\ nDeclared # 0 \/ Composites # <<>> \/ Typedefs # <<>> => Found
    /\ nParsed # 0 => Declared
    /\ Late => Parsed
    /\ done => Aliased

LEMMA StagedStep ==
    ASSUME NEW H \in Nat, NEW h, NestedBy(h, H), Typed, Staged, [Next]_vars
    PROVE  Staged'
<1> USE DEF Late, Staged
<1>0. /\ nDeclared \in 0 .. Len(types) /\ Len(types) \in Nat
      /\ nParsed \in 0 .. Len(Composites) /\ Len(Composites) \in Nat
      /\ nAliased \in 0 .. Len(Typedefs) /\ Len(Typedefs) \in Nat
      BY DEF Typed, ListsTyped
<1>1. CASE UNCHANGED vars
      BY <1>1 DEF vars, Found, Declared, Parsed, Inlined, Aliased
<1>2. CASE processType
  <2>1. ~Found /\ UNCHANGED <<nDeclared, Composites, Typedefs, nParsed, CompositeTys_, AnonTys_,
                              iterated, Visited, frames, nAliased, done>>
        BY <1>2 DEF processType, Found, mapVars, inlineVars, aliasVars
  <2>2. ~Declared /\ ~Parsed /\ ~Aliased BY <2>1 DEF Declared, Parsed, Inlined, Aliased
  <2> QED BY <2>1, <2>2
<1>3. CASE Declare
  <2>1. /\ Found /\ nDeclared < Len(types)
        /\ UNCHANGED <<work, types, nParsed, iterated, Visited, frames, nAliased, done>>
        BY <1>3 DEF Declare, findVars, inlineVars, aliasVars
  <2>2. ~Declared /\ ~Parsed /\ ~Aliased BY <1>0, <2>1 DEF Declared, Parsed, Inlined, Aliased
  <2>3. Found' BY <2>1 DEF Found
  <2> QED BY <2>1, <2>2, <2>3
<1>4. CASE parseDIComposite
  <2>1. /\ Declared /\ nParsed < Len(Composites)
        /\ UNCHANGED <<work, types, nDeclared, Composites, Typedefs, iterated, Visited, frames,
                       nAliased, done>>
        BY <1>4 DEF parseDIComposite, findVars, inlineVars, aliasVars
  <2>2. ~Parsed /\ ~Aliased BY <1>0, <2>1 DEF Parsed, Inlined, Aliased
  <2>3. Declared' /\ Found' BY <2>1 DEF Declared, Found
  <2> QED BY <2>1, <2>2, <2>3
<1>5. CASE InlineNext \/ InlineInner \/ InlineType
  <2>1. /\ Parsed /\ ~done
        /\ UNCHANGED <<work, types, nDeclared, Composites, Typedefs, nParsed, nAliased, done>>
    <3>1. CASE InlineNext
          BY <3>1 DEF InlineNext, Aliased, Inlined, findVars, aliasVars
    <3>2. CASE InlineInner
          BY <3>2 DEF InlineInner, Aliased, Inlined, findVars, aliasVars
    <3>3. CASE InlineType
          BY <3>3 DEF InlineType, Aliased, Inlined, findVars, aliasVars
    <3> QED BY <1>5, <3>1, <3>2, <3>3
  <2>2. Found' /\ Declared' /\ Parsed' BY <2>1 DEF Parsed, Declared, Found
  <2> QED BY <2>1, <2>2
<1>6. CASE setAlias
  <2>1. /\ Inlined /\ nAliased < Len(Typedefs)
        /\ UNCHANGED <<work, types, nDeclared, Composites, Typedefs, nParsed, done>>
    <3>1. /\ Inlined /\ nAliased < Len(Typedefs)
          /\ UNCHANGED <<findVars, nDeclared, Composites, Typedefs, nParsed, done>>
          BY <1>6, Zenon DEF setAlias
    <3> QED BY <3>1 DEF findVars
  <2>2. Parsed /\ ~Aliased BY <1>0, <2>1 DEF Inlined, Aliased
  <2>3. Found' /\ Declared' /\ Parsed' BY <2>1, <2>2 DEF Parsed, Declared, Found
  <2> QED BY <2>1, <2>2, <2>3
<1>7. CASE Finish
  <2>1. /\ Aliased
        /\ UNCHANGED <<work, types, nDeclared, Composites, Typedefs, nParsed, CompositeTys_,
                       iterated, Visited, frames, nAliased>>
    <3>1. /\ Aliased
          /\ UNCHANGED <<findVars, nDeclared, Composites, Typedefs, nParsed, CompositeTys_,
                         inlineVars, aliasVars>>
          BY <1>7, Zenon DEF Finish
    <3> QED BY <3>1 DEF findVars, inlineVars, aliasVars
  <2>2. Found' /\ Declared' /\ Parsed' /\ Aliased'
        BY <2>1 DEF Parsed, Declared, Found, Inlined, Aliased
  <2> QED BY <2>2
<1>8. CASE Returned BY <1>8 DEF Returned, vars, Found, Declared, Parsed, Inlined, Aliased
<1> QED BY <1>1, <1>2, <1>3, <1>4, <1>5, <1>6, <1>7, <1>8 DEF Next

LEMMA StagedAlways ==
    ASSUME NEW H \in Nat, NEW h, NestedBy(h, H) PROVE Spec => [](Typed /\ Staged)
<1>1. Init => Staged BY DEF Init, Staged, Late
<1>2. Typed /\ Staged /\ [Next]_vars => Staged' BY StagedStep
<1> QED BY <1>1, <1>2, TypedAlways, PTL DEF Spec

(* No pass touches what an earlier one has finished: a type that has its   *)
(* fields keeps them and its alignment, and one the inliner has left stays *)
(* as it is, for any debug information and any order of the passes' steps. *)
THEOREM TypesSettle ==
    ASSUME NEW H \in Nat, NEW h, NestedBy(h, H) PROVE Spec => Settled
<1>1. ASSUME Typed, Staged, [Next]_vars PROVE [Settles]_vars
  <2>1. CASE UNCHANGED CompositeTys_ BY <2>1 DEF Settles
  <2>2. CASE Declare
    <3> DEFINE d == types[nDeclared + 1]
    <3>1. d \in DIType BY <1>1, <2>2 DEF Typed, ListsTyped, Declare
    <3>2. \/ DI[d].tag \in CompositeTags /\ declareDIComposite(d)
          \/ UNCHANGED CompositeTys_
          BY <2>2 DEF Declare, Collected, mapVars
    <3> HIDE DEF d
    <3>3. CASE DI[d].tag \in CompositeTags /\ declareDIComposite(d)
      <4>1. \A j \in Keys : CompositeTys_'[j] = CompositeTys_[j]
            BY <1>1, <3>1, <3>3, DeclareMaps DEF Typed
      <4> QED BY <4>1 DEF Settles, Keys
    <3> QED BY <2>1, <3>2, <3>3
  <2>3. CASE parseDIComposite
    <3>1. \A k \in Keys : ~CompositeTys_[k].opaque => CompositeTys_'[k] = CompositeTys_[k]
          BY <1>1, <2>3, ParseMaps DEF Typed
    <3>2. Visited = {}
      <4>1. nParsed < Len(Composites) BY <2>3 DEF parseDIComposite
      <4>2. ~Parsed BY <1>1, <4>1 DEF Parsed, Typed, ListsTyped
      <4> QED BY <1>1, <4>2 DEF Staged, Late
    <3> QED BY <3>1, <3>2 DEF Settles, Keys
  <2>4. CASE InlineType
    <3>1. /\ frames # <<>>
          /\ \A k \in Keys :
                /\ k # frames[1].ty => CompositeTys_'[k] = CompositeTys_[k]
                /\ CompositeTys_'[k].Fields_ = CompositeTys_[k].Fields_
                /\ CompositeTys_'[k].Align_ = CompositeTys_[k].Align_
          BY <1>1, <2>4, LeaveMaps DEF Typed
    <3>2. 1 \in DOMAIN frames BY <1>1, <3>1 DEF Typed, InlineTyped
    <3> QED BY <3>1, <3>2 DEF Settles, Keys
  <2>5. CASE processType \/ InlineNext \/ InlineInner
        BY <2>1, <2>5 DEF processType, InlineNext, InlineInner, mapVars
  <2>6. CASE setAlias
    <3>1. UNCHANGED mapVars BY <2>6, Zenon DEF setAlias
    <3> QED BY <2>1, <3>1 DEF mapVars
  <2>7. CASE Finish
    <3>1. UNCHANGED CompositeTys_ BY <2>7, Zenon DEF Finish
    <3> QED BY <2>1, <3>1
  <2>8. CASE Returned BY <2>8 DEF Returned
  <2> QED BY <1>1, <2>1, <2>2, <2>3, <2>4, <2>5, <2>6, <2>7, <2>8 DEF Next
<1>2. Typed /\ Staged /\ [Next]_vars => [Settles]_vars BY <1>1
<1> QED BY <1>2, StagedAlways, PTL DEF Spec, Settled
-----------------------------------------------------------------------------
(* Why compile does not abort.  The finder leaves out no type that a       *)
(* listed one refers to,                                                   *)
Closed ==
    \A i \in 1 .. Len(types) : \A s \in Range(Successors(types[i])) :
      s \in {NoNode} \cup Range(types) \cup Range(work)

(* what the passes go through is listed,                                   *)
Listed ==
    /\ \A i \in 1 .. Len(Composites) :
         DI[Composites[i]].tag \in CompositeTags /\ Composites[i] \in Range(types)
    /\ \A i \in 1 .. Len(Typedefs) : Typedefs[i] \in Range(types)

(* the first pass has declared what it has gone through,                   *)
Present(d) == IF DI[d].name = "" THEN d \in DOMAIN AnonTys_ ELSE Key(DI[d].name) \in Keys

AllPresent ==
    ~done => \A i \in 1 .. nDeclared : DI[types[i]].tag \in CompositeTags => Present(types[i])

(* with a key of its own for each type without a name,                     *)
AnonFresh ==
    ~done => \A n \in Nat \ {0} : AnonKey(n) \in Keys => n <= Cardinality(DOMAIN AnonTys_)

(* and enumerations are kept apart from the rest.                          *)
KindsOwn ==
    /\ \A d \in DIType :
         DI[d].tag \in CompositeTags /\ DI[d].name # "" /\ Key(DI[d].name) \in Keys =>
           IsEnum(CompositeTys_[Key(DI[d].name)].kind) = IsEnum(DI[d].tag)
    /\ \A d \in DOMAIN AnonTys_ : IsEnum(CompositeTys_[AnonTys_[d]].kind) = IsEnum(DI[d].tag)

Sound == Closed /\ Listed /\ AllPresent /\ AnonFresh /\ KindsOwn /\ NoAbort

(* An object type is not null.                                             *)
NonNull(w) == w[1] # Null /\ (w[1] = Const => w[2] # Null)

LEMMA ObjectTypes ==
    ASSUME NEW H \in Nat, NEW h, NestedBy(h, H), NEW V, Readable(V), MapsTyped
    PROVE  \A d \in V : getTypeFromDIType(d) # <<Null>>
<1> DEFINE Q == QualTypes
           Bad == {n \in Nat : \E d \in V : h[d] = n /\ ~NonNull(Q[d])}
<1>1. V \subseteq DIType /\ V \subseteq Nodes /\ \A d \in V : d # NoNode /\ h[d] \in Nat
      BY DebugInfoAssumption DEF Readable, Nodes, NestedBy
<1>2. \A d \in V : Q[d] = getQualTypeFromDIType(Q, d) BY <1>1, QualTypesUnfold
<1>3. \A d \in Nodes : Q[d] \in Word(Alphabet(Keys)) BY NodeWords
<1> DEFINE S == Alphabet(Keys)
<1>4. \A d \in Nodes : Q[d] \in Seq(S) /\ Q[d] # <<>> BY <1>3 DEF Word
<1> HIDE DEF S
<1> HIDE DEF Q
<1>5. ASSUME NEW d \in V, \A p \in V : h[p] < h[d] => NonNull(Q[p])
      PROVE  NonNull(Q[d])
  <2>1. d \in DIType /\ d # NoNode BY <1>1
  <2>2. Null # Const /\ Pointer # Null /\ Pointer # Const
        /\ \A n : ArrayOf(n) # Null /\ ArrayOf(n) # Const
        BY Letters
  <2>3. CASE DI[d].tag \notin DerivedTags
    <3>1. Q[d] = <<Letter(d)>> BY <1>2, <2>1, <2>3 DEF getQualTypeFromDIType
    <3>2. Letter(d) # Null
      <4>1. \/ Letter(d) = Unknown \/ Letter(d) = Basic(DI[d].name)
            \/ Letter(d) = Composite(AnonTys_[d]) \/ Letter(d) = Composite(Key(DI[d].name))
        <5>1. ~(DI[d].tag \in {"base_type", "reference_type"} /\ DI[d].name \notin DOMAIN BasicAlign)
              /\ DI[d].tag # "reference_type" /\ ~(DI[d].tag \in CompositeTags /\ DI[d].cxx)
              BY DEF Readable
        <5> QED BY <5>1 DEF Letter
      <4> HIDE DEF Letter
      <4> QED BY <4>1, Letters
    <3>3. Letter(d) # Const BY LetterNotConst
    <3> QED BY <3>1, <3>2, <3>3 DEF NonNull
  <2>4. CASE DI[d].tag \in SameTags \cup {"const_type"}
    <3> DEFINE p == DI[d].base
    <3>1. p \in V BY <2>4 DEF Readable
    <3>2. DI[d].tag \in DerivedTags /\ p \in PartsOf(d) /\ p # NoNode
          BY <1>1, <2>4, <3>1 DEF DerivedTags, PartsOf, SameTags
    <3>3. h[p] < h[d] BY <2>1, <3>2 DEF NestedBy
    <3>4. NonNull(Q[p]) /\ Q[p] \in Seq(S) /\ Q[p] # <<>> BY <1>1, <1>4, <1>5, <3>1, <3>3
    <3>5. CASE DI[d].tag \in SameTags
      <4>1. Q[d] = Q[p]
            BY <1>2, <2>1, <3>2, <3>5 DEF getQualTypeFromDIType, SameTags
      <4> QED BY <3>4, <4>1
    <3>6. CASE DI[d].tag = "const_type"
      <4>1. Q[d] = WithConst(Q[p])
            BY <1>2, <2>1, <3>2, <3>6 DEF getQualTypeFromDIType, SameTags
      <4> HIDE DEF p
      <4>2. CASE isConst(Q[p]) BY <3>4, <4>1, <4>2 DEF WithConst
      <4>3. CASE ~isConst(Q[p])
        <5>1. Q[d] = <<Const>> \o Q[p] BY <4>1, <4>3 DEF WithConst
        <5>2. (<<Const>> \o Q[p])[1] = Const /\ (<<Const>> \o Q[p])[2] = Q[p][1]
          <6> HIDE DEF Const
          <6> QED BY <3>4
        <5> QED BY <2>2, <3>4, <5>1, <5>2 DEF NonNull
      <4> QED BY <4>2, <4>3
    <3> QED BY <2>4, <3>5, <3>6
  <2>5. CASE DI[d].tag \in {"pointer_type", "array_type"}
    <3> DEFINE x == IF DI[d].tag = "pointer_type" \/ DI[d].count = 0
                    THEN Pointer ELSE ArrayOf(DI[d].count)
               w == Q[DI[d].base]
    <3>1. Q[d] = <<x>> \o w
      <4>1. DI[d].tag \in DerivedTags /\ DI[d].tag \notin SameTags /\ DI[d].tag # "const_type"
            BY <2>5 DEF DerivedTags, SameTags
      <4> QED BY <1>2, <2>1, <2>5, <4>1 DEF getQualTypeFromDIType
    <3>2. w \in Seq(S) BY <1>4, <2>1, DebugInfoAssumption DEF Nodes
    <3>3. x # Null /\ x # Const BY <2>2
    <3> HIDE DEF x, w
    <3>4. (<<x>> \o w)[1] = x BY <3>2
    <3> QED BY <3>1, <3>3, <3>4 DEF NonNull
  <2>6. DI[d].tag # "subroutine_type" BY DEF Readable
  <2> QED BY <2>3, <2>4, <2>5, <2>6 DEF DerivedTags
<1>6. Bad = {}
  <2> SUFFICES ASSUME Bad # {} PROVE FALSE OBVIOUS
  <2>1. Bad \in SUBSET Nat OBVIOUS
  <2>2. PICK n \in Bad : \A k \in Bad : n <= k
    <3> HIDE DEF Bad
    <3> QED BY <2>1, Least
  <2>3. PICK d \in V : h[d] = n /\ ~NonNull(Q[d]) OBVIOUS
  <2>4. ASSUME NEW p \in V, h[p] < h[d] PROVE NonNull(Q[p])
    <3>1. h[p] \notin Bad
      <4>1. h[p] \in Nat /\ n \in Nat /\ ~(n <= h[p]) BY <1>1, <2>3, <2>4
      <4> HIDE DEF Bad
      <4> QED BY <2>2, <4>1
    <3> QED BY <1>1, <3>1
  <2> QED BY <1>5, <2>3, <2>4
<1>7. ASSUME NEW d \in V PROVE getTypeFromDIType(d) # <<Null>>
  <2> DEFINE w == Q[d]
  <2>1. NonNull(w) BY <1>1, <1>6
  <2>2. w \in Seq(S) /\ w # <<>> /\ (w[1] = Const => Len(w) > 1) BY <1>1, <1>3 DEF Word, S
  <2> HIDE DEF w
  <2>3. CASE isConst(w)
    <3>1. w[1] = Const /\ Len(w) > 1 BY <2>2, <2>3 DEF isConst
    <3>2. Tail(w)[1] = w[2] BY <2>2, <3>1
    <3>3. w[2] # Null BY <2>1, <3>1 DEF NonNull
    <3>4. Tail(w)[1] # Null BY <3>2, <3>3
    <3>5. <<Null>>[1] = Null OBVIOUS
    <3> QED BY <2>3, <3>4, <3>5 DEF getTypeFromDIType, getType_, w, Q
  <2>4. CASE ~isConst(w)
    <3>1. w[1] # Null BY <2>1 DEF NonNull
    <3>2. <<Null>>[1] = Null OBVIOUS
    <3> QED BY <2>4, <3>1, <3>2 DEF getTypeFromDIType, getType_, w, Q
  <2> QED BY <2>3, <2>4
<1> QED BY <1>7

(* Once the first pass is over, no listed type is unknown.                 *)
LEMMA NoneUnknown ==
    ASSUME NEW H \in Nat, NEW h, NestedBy(h, H), NEW V, Readable(V), Typed, Closed,
           AllPresent, Declared, ~done
    PROVE  \A d \in {NoNode} \cup Range(types) : ~Fatal(getTypeFromDIType(d))
<1> DEFINE S == Alphabet(Keys) \ {Unknown}
           D == {NoNode} \cup Range(types)
<1>1. /\ types \in Seq(DIType) /\ work = <<>> /\ nDeclared = Len(types)
      /\ Len(types) \in Nat /\ DOMAIN types = 1 .. Len(types)
      BY DEF Typed, ListsTyped, Declared, Found
<1>2. D \subseteq Nodes /\ \A d \in D \ {NoNode} : d \in DIType /\ d \in Range(types)
  <2>1. Range(types) \subseteq DIType BY <1>1 DEF Range
  <2> QED BY <2>1 DEF Nodes
<1>3. Constructors \subseteq S
  <2>1. Unknown \notin Constructors
    <3>1. \A x \in Constructors : x[1] # "unknown"
      <4> SUFFICES ASSUME NEW x \in Constructors PROVE x[1] # "unknown" OBVIOUS
      <4>1. CASE x \in {Const, Pointer, Null} BY <4>1, Letters
      <4>2. CASE x \in {ArrayOf(DI[d].count) : d \in DIType}
        <5>1. PICK d \in DIType : x = ArrayOf(DI[d].count) BY <4>2
        <5> QED BY <5>1, Letters
      <4>3. CASE x \in {"function"} \X {"", "..."} \X Nat BY <4>3
      <4> QED BY <4>1, <4>2, <4>3 DEF Constructors
    <3> QED BY <3>1, Letters
  <2> QED BY <2>1 DEF Alphabet
<1>4. ASSUME NEW d \in D \ {NoNode}, DI[d].tag \in DerivedTags PROVE PartsOf(d) \subseteq D
  <2>1. d \in DIType /\ d \in Range(types) BY <1>2, <1>4
  <2>2. PICK i \in 1 .. Len(types) : types[i] = d BY <1>1, <2>1 DEF Range
  <2>3. Range(work) = {} BY <1>1 DEF Range
  <2>4. Range(Successors(d)) \subseteq D BY <2>2, <2>3 DEF Closed
  <2>5. PartsOf(d) \subseteq Range(Successors(d)) BY <2>1, SuccessorsTyped DEF PartsOf
  <2> QED BY <2>4, <2>5
<1>5. ASSUME NEW d \in D \ {NoNode}, DI[d].tag \notin DerivedTags PROVE Letter(d) \in S
  <2>1. d \in DIType /\ d \in Range(types) BY <1>2, <1>5
  <2>2. PICK i \in 1 .. Len(types) : types[i] = d BY <1>1, <2>1 DEF Range
  <2>3. DI[d].tag \in CompositeTags => Present(d) BY <1>1, <2>2 DEF AllPresent
  <2>4. /\ DI[d].tag \in CompositeTags \cup {"base_type", "reference_type"}
        /\ DI[d].tag = "base_type" /\ DI[d].name \in DOMAIN BasicAlign =>
             BasicAlign[DI[d].name] # 0
        BY <1>5, <2>1 DEF Readable
  <2>5. \/ Letter(d) = Null \/ Letter(d) = Basic(DI[d].name)
        \/ Letter(d) = Composite(AnonTys_[d]) \/ Letter(d) = Composite(Key(DI[d].name))
    <3>1. CASE DI[d].tag \in CompositeTags
          BY <2>3, <3>1 DEF Letter, Present, Keys, CompositeTags
    <3>2. CASE DI[d].tag \in {"base_type", "reference_type"}
          BY <2>4, <3>2 DEF Letter
    <3> QED BY <2>4, <3>1, <3>2
  <2>6. Letter(d) \in Alphabet(Keys) BY <2>1, LetterTyped DEF Typed
  <2> HIDE DEF Letter
  <2>7. Letter(d) # Unknown BY <2>5, Letters
  <2> QED BY <2>6, <2>7
<1> HIDE DEF S
<1>6. \A d \in D : QualTypes[d] \in Word(S)
  <2> HIDE DEF D
  <2> QED BY <1>2, <1>3, <1>4, <1>5, QualWords
<1>7. ASSUME NEW d \in D PROVE ~Fatal(getTypeFromDIType(d))
  <2> DEFINE w == getTypeFromDIType(d)
  <2>1. w \in Seq(S) BY <1>6, Unqualified DEF getTypeFromDIType
  <2> HIDE DEF w
  <2>2. \A i \in DOMAIN w : w[i] \in S
    <3>1. DOMAIN w = 1 .. Len(w) BY <2>1
    <3> QED BY <2>1, <3>1
  <2>3. Unknown \notin S BY DEF S
  <2>4. ~Fatal(w) BY <2>2, <2>3 DEF Fatal
  <2> QED BY <2>4 DEF w
<1> QED BY <1>7
-----------------------------------------------------------------------------
(* Sound, action by action.  The later passes keep keys and kinds.         *)
LEMMA SoundKept ==
    ASSUME Typed, Sound, Keys' = Keys, status' = "running",
           \A k \in Keys : CompositeTys_'[k].kind = CompositeTys_[k].kind,
           UNCHANGED <<work, types, nDeclared, Composites, Typedefs>>,
           \/ UNCHANGED <<AnonTys_, done>>
           \/ done' /\ AnonTys_' = <<>>
    PROVE  Sound'
<1>1. Closed' /\ Listed' BY DEF Sound, Closed, Listed
<1>2. AllPresent' /\ AnonFresh' BY DEF Sound, AllPresent, AnonFresh, Present
<1>3. \A d \in DOMAIN AnonTys_' : d \in DOMAIN AnonTys_ /\ AnonTys_'[d] = AnonTys_[d]
  <2>1. DOMAIN <<>> = {} OBVIOUS
  <2> QED BY <2>1
<1>4. \A d \in DOMAIN AnonTys_ : AnonTys_[d] \in Keys BY DEF Typed, MapsTyped
<1>5. KindsOwn' BY <1>3, <1>4 DEF Sound, KindsOwn
<1> QED BY <1>1, <1>2, <1>5 DEF Sound, NoAbort

LEMMA ProcessSound == ASSUME Typed, Sound, processType PROVE Sound'
<1> DEFINE d == Head(work)
<1>1. work \in Seq(Nodes) /\ work # <<>> /\ types \in Seq(DIType) /\ nDeclared \in 0 .. Len(types)
      BY DEF Typed, ListsTyped, processType
<1>2. d \in Nodes /\ Tail(work) \in Seq(Nodes) BY <1>1
<1>3. Range(work) \subseteq {d} \cup Range(Tail(work))
  <2> SUFFICES ASSUME NEW i \in DOMAIN work PROVE work[i] \in {d} \cup Range(Tail(work))
        BY DEF Range
  <2>1. i \in 1 .. Len(work) /\ Len(work) \in Nat BY <1>1
  <2>2. CASE i = 1 BY <1>1, <2>2
  <2>3. CASE i # 1
    <3>1. i - 1 \in DOMAIN Tail(work) /\ Tail(work)[i - 1] = work[i] BY <1>1, <2>1, <2>3
    <3> QED BY <3>1 DEF Range
  <2> QED BY <2>2, <2>3
<1>4. /\ UNCHANGED <<nDeclared, Composites, Typedefs, CompositeTys_, AnonTys_, done, status>>
      /\ Keys' = Keys
      BY DEF processType, mapVars, Keys
<1>5. /\ Closed' /\ Range(types) \subseteq Range(types')
      /\ \A i \in 1 .. nDeclared : types'[i] = types[i]
  <2>1. CASE d = NoNode \/ \E i \in DOMAIN types : types[i] = d
    <3>1. work' = Tail(work) /\ types' = types BY <2>1 DEF processType
    <3>2. d \in {NoNode} \cup Range(types) BY <2>1 DEF Range
    <3> HIDE DEF d
    <3>3. Closed' BY <1>3, <3>1, <3>2 DEF Sound, Closed
    <3> QED BY <3>1, <3>3
  <2>2. CASE ~(d = NoNode \/ \E i \in DOMAIN types : types[i] = d)
    <3>1. types' = Append(types, d) /\ work' = Successors(d) \o Tail(work)
          BY <2>2 DEF processType
    <3>2. d \in DIType BY <1>2, <2>2 DEF Nodes
    <3> DEFINE a == Successors(d)
               b == Tail(work)
    <3>3. a \in Seq(Nodes) /\ b \in Seq(Nodes) BY <1>2, <3>2, SuccessorsTyped
    <3>4. work' = a \o b BY <3>1
    <3> HIDE DEF a, b, d
    <3>5. Range(a) \subseteq Range(work') /\ Range(b) \subseteq Range(work')
      <4>1. /\ DOMAIN a = 1 .. Len(a) /\ DOMAIN b = 1 .. Len(b) /\ Len(a) \in Nat /\ Len(b) \in Nat
            /\ DOMAIN work' = 1 .. (Len(a) + Len(b))
            /\ \A i \in 1 .. Len(a) : work'[i] = a[i]
            /\ \A i \in 1 .. Len(b) : work'[Len(a) + i] = b[i]
            BY <3>3, <3>4
      <4>2. /\ \A i \in 1 .. Len(a) : i \in 1 .. (Len(a) + Len(b))
            /\ \A i \in 1 .. Len(b) : Len(a) + i \in 1 .. (Len(a) + Len(b))
            BY <4>1
      <4> QED BY <4>1, <4>2 DEF Range
    <3>6. /\ Len(types') = Len(types) + 1 /\ Len(types) \in Nat /\ DOMAIN types = 1 .. Len(types)
          /\ DOMAIN types' = 1 .. Len(types) + 1
          /\ types'[Len(types) + 1] = d /\ \A i \in 1 .. Len(types) : types'[i] = types[i]
          BY <1>1, <3>1, <3>2
    <3>7. Range(types) \subseteq Range(types') /\ d \in Range(types')
      <4>1. /\ \A i \in 1 .. Len(types) : i \in 1 .. Len(types) + 1
            /\ Len(types) + 1 \in 1 .. Len(types) + 1
            BY <3>6
      <4> QED BY <3>6, <4>1 DEF Range
    <3>8. Closed'
      <4> SUFFICES ASSUME NEW i \in 1 .. Len(types'), NEW s \in Range(Successors(types'[i]))
                   PROVE  s \in {NoNode} \cup Range(types') \cup Range(work')
            BY DEF Closed
      <4>1. CASE i = Len(types) + 1 BY <3>5, <3>6, <4>1 DEF a
      <4>2. CASE i # Len(types) + 1
        <5>1. i \in 1 .. Len(types) /\ types'[i] = types[i] BY <3>6, <4>2
        <5>2. s \in {NoNode} \cup Range(types) \cup Range(work) BY <5>1 DEF Sound, Closed
        <5> QED BY <1>3, <3>5, <3>7, <5>2 DEF b
      <4> QED BY <4>1, <4>2
    <3>9. \A i \in 1 .. nDeclared : i \in 1 .. Len(types) BY <1>1, <3>6
    <3> QED BY <3>6, <3>7, <3>8, <3>9
  <2> QED BY <2>1, <2>2
<1>6. Listed' BY <1>4, <1>5 DEF Sound, Listed
<1>7. AllPresent' /\ AnonFresh' /\ KindsOwn' /\ NoAbort'
      BY <1>4, <1>5 DEF Sound, AllPresent, AnonFresh, KindsOwn, NoAbort, Present
<1> QED BY <1>5, <1>6, <1>7 DEF Sound

LEMMA AnonKeys ==
    /\ \A n, m : AnonKey(n) = AnonKey(m) => n = m
    /\ \A s, r : Key(s) = Key(r) => s = r
    /\ \A s, n : Key(s) = AnonKey(n) => n = 0
BY DEF AnonKey, Key
(* The first pass: what it declares is there, under a key of its kind.     *)
LEMMA DeclareSound ==
    ASSUME NEW V, Readable(V), OneKind, Typed, Sound, ~done,
           NEW d \in DIType, DI[d].tag \in CompositeTags, declareDIComposite(d), done' = done
    PROVE  /\ AnonFresh' /\ KindsOwn' /\ NoAbort' /\ Present(d)'
           /\ \A e : Present(e) => Present(e)'
<1> DEFINE c == Cardinality(DOMAIN AnonTys_)
<1>1. MapsTyped BY DEF Typed
<1>2. IsFiniteSet(DOMAIN AnonTys_) /\ c \in Nat BY <1>1, AnonFinite
<1>3. status = "running" /\ AnonFresh /\ KindsOwn BY DEF Sound, NoAbort
<1>4. DI[d].name \notin Reserved BY DEF Readable
<1>5. ~Refuses(d) BY <1>4 DEF Refuses
<1>6. \A e \in DOMAIN AnonTys_ : AnonTys_[e] \in Keys BY <1>1 DEF MapsTyped
<1>7. CASE FindsAnon(d)
  <2>1. UNCHANGED <<CompositeTys_, AnonTys_, status>> /\ DI[d].name = "" /\ d \in DOMAIN AnonTys_
        BY <1>7 DEF FindsAnon, mapVars
  <2>2. Keys' = Keys BY <2>1 DEF Keys
  <2>3. Present(d) /\ \A e : Present(e)' = Present(e) BY <2>1, <2>2 DEF Present
  <2>4. AnonFresh' BY <1>3, <2>1, <2>2 DEF AnonFresh
  <2>5. KindsOwn' BY <1>3, <2>1, <2>2 DEF KindsOwn
  <2> QED BY <1>3, <2>1, <2>3, <2>4, <2>5 DEF NoAbort
<1>8. CASE DeclaresName(d)
  <2> DEFINE k == Key(DI[d].name)
  <2>1. /\ k \in Names /\ CompositeTys_' = try_emplace(CompositeTys_, k, Opaque(DI[d].tag))
        /\ UNCHANGED <<AnonTys_, status>> /\ DI[d].name # ""
        BY <1>8 DEF DeclaresName, DeclaresKey
  <2>2. /\ Keys' = Keys \cup {k} /\ \A j \in Keys : CompositeTys_'[j] = CompositeTys_[j]
        /\ k \notin Keys => CompositeTys_'[k] = Opaque(DI[d].tag)
        BY <1>1, <2>1, KeyAdded
  <2>3. Opaque(DI[d].tag).kind = DI[d].tag BY OpaqueEntry
  <2>4. Present(d)' /\ \A e : Present(e) => Present(e)' BY <2>1, <2>2 DEF Present
  <2>5. AnonFresh'
    <3> SUFFICES ASSUME NEW n \in Nat \ {0}, AnonKey(n) \in Keys'
                 PROVE  n <= Cardinality(DOMAIN AnonTys_')
          BY DEF AnonFresh
    <3>1. AnonKey(n) # k BY AnonKeys
    <3>2. AnonKey(n) \in Keys BY <2>2, <3>1
    <3> QED BY <1>3, <2>1, <3>2 DEF AnonFresh
  <2>6. KindsOwn'
    <3>1. ASSUME NEW e \in DIType, DI[e].tag \in CompositeTags, DI[e].name # "",
                 Key(DI[e].name) \in Keys'
          PROVE  IsEnum(CompositeTys_'[Key(DI[e].name)].kind) = IsEnum(DI[e].tag)
      <4>1. CASE Key(DI[e].name) \in Keys
        <5>1. IsEnum(CompositeTys_[Key(DI[e].name)].kind) = IsEnum(DI[e].tag)
              BY <1>3, <3>1, <4>1 DEF KindsOwn
        <5>2. CompositeTys_'[Key(DI[e].name)] = CompositeTys_[Key(DI[e].name)] BY <2>2, <4>1
        <5> QED BY <5>1, <5>2, Zenon
      <4>2. CASE Key(DI[e].name) \notin Keys
        <5>1. Key(DI[e].name) = k BY <2>2, <3>1, <4>2
        <5>2. DI[e].name = DI[d].name BY <5>1, AnonKeys
        <5>3. CompositeTys_'[Key(DI[e].name)].kind = DI[d].tag BY <2>2, <2>3, <4>2, <5>1
        <5>4. IsEnum(DI[d].tag) = IsEnum(DI[e].tag) BY <3>1, <5>2 DEF OneKind
        <5> QED BY <5>3, <5>4, Zenon
      <4> QED BY <4>1, <4>2
    <3>2. ASSUME NEW e \in DOMAIN AnonTys_'
          PROVE  IsEnum(CompositeTys_'[AnonTys_'[e]].kind) = IsEnum(DI[e].tag)
      <4>1. AnonTys_' = AnonTys_ BY <2>1
      <4>2. CompositeTys_'[AnonTys_[e]] = CompositeTys_[AnonTys_[e]] BY <1>6, <2>2, <4>1
      <4>3. IsEnum(CompositeTys_[AnonTys_[e]].kind) = IsEnum(DI[e].tag)
            BY <1>3, <4>1 DEF KindsOwn
      <4> QED BY <4>1, <4>2, <4>3, Zenon
    <3> QED BY <3>1, <3>2 DEF KindsOwn
  <2> QED BY <1>3, <2>1, <2>4, <2>5, <2>6 DEF NoAbort
<1>9. CASE DeclaresAnon(d)
  <2> DEFINE k == NextAnonKey
  <2>1. /\ k \in Names /\ CompositeTys_' = try_emplace(CompositeTys_, k, Opaque(DI[d].tag))
        /\ UNCHANGED status /\ DI[d].name = "" /\ d \notin DOMAIN AnonTys_
        BY <1>9 DEF DeclaresAnon, DeclaresKey
  <2>2. /\ DOMAIN AnonTys_' = DOMAIN AnonTys_ \cup {d} /\ AnonTys_'[d] = k
        /\ \A e \in DOMAIN AnonTys_ : AnonTys_'[e] = AnonTys_[e]
        BY <1>9 DEF DeclaresAnon
  <2>3. /\ Keys' = Keys \cup {k} /\ \A j \in Keys : CompositeTys_'[j] = CompositeTys_[j]
        /\ k \notin Keys => CompositeTys_'[k] = Opaque(DI[d].tag)
        BY <1>1, <2>1, KeyAdded
  <2>4. Opaque(DI[d].tag).kind = DI[d].tag BY OpaqueEntry
  <2>5. k = AnonKey(c + 1) /\ c + 1 \in Nat \ {0} /\ ~(c + 1 <= c) BY <1>2 DEF NextAnonKey
  <2>6. k \notin Keys BY <1>3, <2>5 DEF AnonFresh
  <2>7. Cardinality(DOMAIN AnonTys_') = c + 1 BY <1>2, <2>1, <2>2, FS_AddElement
  <2> HIDE DEF k
  <2>8. Present(d)' /\ \A e : Present(e) => Present(e)' BY <2>1, <2>2, <2>3 DEF Present
  <2>9. AnonFresh'
    <3> SUFFICES ASSUME NEW n \in Nat \ {0}, AnonKey(n) \in Keys'
                 PROVE  n <= Cardinality(DOMAIN AnonTys_')
          BY DEF AnonFresh
    <3>1. CASE AnonKey(n) \in Keys
      <4>1. n <= c BY <1>3, <3>1 DEF AnonFresh
      <4> QED BY <1>2, <2>7, <4>1
    <3>2. CASE AnonKey(n) = k
      <4>1. n = c + 1 BY <2>5, <3>2, AnonKeys
      <4> QED BY <1>2, <2>7, <4>1
    <3> QED BY <2>3, <3>1, <3>2
  <2>10. KindsOwn'
    <3>1. ASSUME NEW e \in DIType, DI[e].tag \in CompositeTags, DI[e].name # "",
                 Key(DI[e].name) \in Keys'
          PROVE  IsEnum(CompositeTys_'[Key(DI[e].name)].kind) = IsEnum(DI[e].tag)
      <4>1. Key(DI[e].name) # k BY <2>5, AnonKeys
      <4>2. Key(DI[e].name) \in Keys BY <2>3, <3>1, <4>1
      <4>3. IsEnum(CompositeTys_[Key(DI[e].name)].kind) = IsEnum(DI[e].tag)
            BY <1>3, <3>1, <4>2 DEF KindsOwn
      <4>4. CompositeTys_'[Key(DI[e].name)] = CompositeTys_[Key(DI[e].name)] BY <2>3, <4>2
      <4> QED BY <4>3, <4>4, Zenon
    <3>2. ASSUME NEW e \in DOMAIN AnonTys_'
          PROVE  IsEnum(CompositeTys_'[AnonTys_'[e]].kind) = IsEnum(DI[e].tag)
      <4>1. CASE e = d
        <5>1. CompositeTys_'[AnonTys_'[e]].kind = DI[e].tag BY <2>2, <2>3, <2>4, <2>6, <4>1
        <5> QED BY <5>1, Zenon
      <4>2. CASE e # d
        <5>1. e \in DOMAIN AnonTys_ /\ AnonTys_'[e] = AnonTys_[e] BY <2>2, <4>2
        <5>2. CompositeTys_'[AnonTys_[e]] = CompositeTys_[AnonTys_[e]] BY <1>6, <2>3, <5>1
        <5>3. IsEnum(CompositeTys_[AnonTys_[e]].kind) = IsEnum(DI[e].tag)
              BY <1>3, <5>1 DEF KindsOwn
        <5> QED BY <5>1, <5>2, <5>3, Zenon
      <4> QED BY <4>1, <4>2
    <3> QED BY <3>1, <3>2 DEF KindsOwn
  <2> QED BY <1>3, <2>1, <2>8, <2>9, <2>10 DEF NoAbort
<1> QED BY <1>1, <1>5, <1>7, <1>8, <1>9, DeclareWays

LEMMA DeclareStepSound ==
    ASSUME NEW V, Readable(V), OneKind, Typed, Staged, Sound, Declare
    PROVE  Sound'
<1>0. PICK d \in DIType : d = types[nDeclared + 1] BY DEF Typed, ListsTyped, Declare
<1>1. /\ d \in DIType /\ nDeclared' = nDeclared + 1 /\ nDeclared + 1 \in 1 .. Len(types)
      /\ d \in Range(types) /\ nDeclared \in Nat
      BY <1>0 DEF Typed, ListsTyped, Declare, Range
<1>2. UNCHANGED <<work, types, done>> BY DEF Declare, findVars
<1>3. ~done
  <2>1. nDeclared < Len(types) BY DEF Declare
  <2>2. ~Declared BY <2>1 DEF Declared, Typed, ListsTyped
  <2> QED BY <2>2 DEF Staged, Aliased, Inlined, Parsed
<1>4. \/ /\ DI[d].tag \in CompositeTags /\ Composites' = Append(Composites, d)
         /\ declareDIComposite(d) /\ UNCHANGED Typedefs
      \/ /\ DI[d].tag = "typedef" /\ Typedefs' = Append(Typedefs, d)
         /\ UNCHANGED <<Composites, mapVars, status>>
      \/ /\ DI[d].tag \notin CompositeTags
         /\ UNCHANGED <<Composites, Typedefs, mapVars, status>>
      BY <1>0 DEF Declare, Collected
<1>5. Closed' BY <1>2 DEF Sound, Closed
<1>6. Listed'
  <2>1. Composites \in Seq(DIType) /\ Typedefs \in Seq(DIType) BY DEF Typed, ListsTyped
  <2>2. \A s \in Seq(DIType) :
          /\ Len(Append(s, d)) = Len(s) + 1 /\ Len(s) \in Nat
          /\ \A i \in 1 .. Len(s) + 1 : Append(s, d)[i] = IF i = Len(s) + 1 THEN d ELSE s[i]
          /\ \A i \in 1 .. Len(s) + 1 : i # Len(s) + 1 => i \in 1 .. Len(s)
        BY <1>1
  <2>3. Listed BY DEF Sound
  <2>4. \A i \in 1 .. Len(Composites') :
          DI[Composites'[i]].tag \in CompositeTags /\ Composites'[i] \in Range(types)
    <3>1. CASE Composites' = Composites BY <2>3, <3>1 DEF Listed
    <3>2. CASE Composites' = Append(Composites, d) /\ DI[d].tag \in CompositeTags
          BY <1>1, <2>1, <2>2, <2>3, <3>2 DEF Listed
    <3> QED BY <1>4, <3>1, <3>2
  <2>5. \A i \in 1 .. Len(Typedefs') : Typedefs'[i] \in Range(types)
    <3>1. CASE Typedefs' = Typedefs BY <2>3, <3>1 DEF Listed
    <3>2. CASE Typedefs' = Append(Typedefs, d) BY <1>1, <2>1, <2>2, <2>3, <3>2 DEF Listed
    <3> QED BY <1>4, <3>1, <3>2
  <2> QED BY <1>2, <2>4, <2>5 DEF Listed
<1>7. /\ AnonFresh' /\ KindsOwn' /\ NoAbort' /\ (DI[d].tag \in CompositeTags => Present(d)')
      /\ \A e : Present(e) => Present(e)'
  <2>1. CASE DI[d].tag \in CompositeTags /\ declareDIComposite(d)
        BY <1>1, <1>2, <1>3, <2>1, DeclareSound
  <2>2. CASE DI[d].tag \notin CompositeTags /\ UNCHANGED <<mapVars, status>>
    <3>1. UNCHANGED <<CompositeTys_, AnonTys_, status, done>> BY <1>2, <2>2 DEF mapVars
    <3>2. Keys' = Keys BY <3>1 DEF Keys
    <3>3. AnonFresh' /\ KindsOwn' /\ NoAbort'
          BY <3>1, <3>2 DEF Sound, AnonFresh, KindsOwn, NoAbort
    <3>4. \A e : Present(e)' = Present(e) BY <3>1, <3>2 DEF Present
    <3> QED BY <2>2, <3>3, <3>4
  <2>3. "typedef" \notin CompositeTags BY DEF CompositeTags
  <2> QED BY <1>4, <2>1, <2>2, <2>3
<1>8. AllPresent'
  <2> SUFFICES ASSUME NEW i \in 1 .. nDeclared', NEW e, e = types[i], DI[e].tag \in CompositeTags
               PROVE  Present(e)'
        BY <1>2 DEF AllPresent, Present
  <2>1. CASE i = nDeclared + 1
    <3>1. e = d BY <1>0, <2>1
    <3> QED BY <1>7, <3>1
  <2>2. CASE i # nDeclared + 1
    <3>1. i \in 1 .. nDeclared BY <1>1, <2>2
    <3>2. Present(e) BY <1>3, <3>1 DEF Sound, AllPresent
    <3> QED BY <1>7, <3>2
  <2> QED BY <2>1, <2>2
<1> QED BY <1>5, <1>6, <1>7, <1>8 DEF Sound
(* The second pass finds every type a member has.                          *)
LEMMA ParseRuns ==
    ASSUME NEW H \in Nat, NEW h, NestedBy(h, H), NEW V, Readable(V), Typed, Sound, Declared,
           ~done, NEW d \in DIType, d \in Range(types), DI[d].tag \in CompositeTags, ~Skipped(d)
    PROVE  ParseStatus(d) = "running"
<1>1. /\ types \in Seq(DIType) /\ work = <<>> /\ nDeclared = Len(types)
      /\ DOMAIN types = 1 .. Len(types)
      BY DEF Typed, ListsTyped, Declared, Found
<1>2. PICK i \in 1 .. Len(types) : types[i] = d BY <1>1 DEF Range
<1>3. Present(d) BY <1>1, <1>2 DEF Sound, AllPresent
<1>4. IsEnum(CompositeTys_[KeyOf(d)].kind) = IsEnum(DI[d].tag)
  <2>1. CASE DI[d].name = "" BY <1>3, <2>1 DEF Present, KeyOf, Sound, KindsOwn
  <2>2. CASE DI[d].name # "" BY <1>3, <2>2 DEF Present, KeyOf, Sound, KindsOwn
  <2> QED BY <2>1, <2>2
<1>5. CASE IsEnum(DI[d].tag) BY <1>4, <1>5 DEF ParseStatus
<1>6. CASE ~IsEnum(DI[d].tag)
  <2>1. Complete(d) BY <1>6 DEF Complete, Skipped, IsEnum, CompositeTags
  <2> DEFINE es == DI[d].elems
             fields == FieldsOf(d)
  <2>2. DOMAIN es = 1 .. Len(es) BY ElemsOf
  <2>3. DOMAIN fields = DOMAIN es /\ \A j \in DOMAIN es : fields[j].ty = getTypeFromDIType(es[j].base)
        BY DEF FieldsOf
  <2>4. \A j \in DOMAIN es : es[j].base \in V BY <2>1 DEF Readable
  <2>5. ASSUME NEW j \in DOMAIN es PROVE es[j].base \in {NoNode} \cup Range(types)
    <3>1. DI[d].tag # "subroutine_type" BY DEF CompositeTags
    <3>2. es[j].base \in Range(Successors(d)) BY <2>2, <3>1, SuccessorsTyped
    <3>3. Range(work) = {} BY <1>1 DEF Range
    <3> QED BY <1>2, <3>2, <3>3 DEF Sound, Closed
  <2>6. \A j \in DOMAIN es : ~Fatal(getTypeFromDIType(es[j].base))
        BY <2>5, NoneUnknown DEF Sound
  <2>7. \A j \in DOMAIN es : getTypeFromDIType(es[j].base) # <<Null>>
        BY <2>4, ObjectTypes DEF Typed
  <2> HIDE DEF es, fields
  <2>8. \A j \in DOMAIN fields : ~Fatal(fields[j].ty) /\ fields[j].ty # <<Null>>
        BY <2>3, <2>6, <2>7
  <2> QED BY <1>4, <1>6, <2>8 DEF ParseStatus, fields
<1> QED BY <1>5, <1>6

LEMMA ParseSound ==
    ASSUME NEW H \in Nat, NEW h, NestedBy(h, H), NEW V, Readable(V), Typed, Staged, Sound,
           parseDIComposite
    PROVE  Sound'
<1>0. PICK d \in DIType : d = Composites[nParsed + 1] BY ParseSplit DEF Typed
<1>1. /\ nParsed < Len(Composites) /\ Declared
      /\ UNCHANGED <<findVars, nDeclared, Composites, Typedefs, AnonTys_, done>>
      /\ UNCHANGED status \/ (~Skipped(d) /\ status' = ParseStatus(d))
      BY <1>0, ParseSplit DEF Typed
<1>2. nParsed + 1 \in 1 .. Len(Composites) BY <1>1 DEF Typed, ListsTyped
<1>3. d \in Range(types) /\ DI[d].tag \in CompositeTags BY <1>0, <1>2 DEF Sound, Listed
<1>4. ~done
  <2>1. ~Parsed BY <1>1 DEF Parsed, Typed, ListsTyped
  <2> QED BY <2>1 DEF Staged, Aliased, Inlined
<1>5. status' = "running" BY <1>1, <1>3, <1>4, ParseRuns DEF Sound, NoAbort
<1>6. Keys' = Keys /\ \A k \in Keys : CompositeTys_'[k].kind = CompositeTys_[k].kind
      BY ParseMaps DEF Typed
<1>7. UNCHANGED <<work, types, nDeclared, Composites, Typedefs, AnonTys_, done>>
      BY <1>1 DEF findVars
<1> QED BY <1>5, <1>6, <1>7, SoundKept

LEMMA InlineSound == ASSUME Typed, Sound, InlineNext \/ InlineInner \/ InlineType PROVE Sound'
<1>1. /\ UNCHANGED <<work, types, nDeclared, Composites, Typedefs, AnonTys_, done, status>>
      /\ Keys' = Keys /\ \A k \in Keys : CompositeTys_'[k].kind = CompositeTys_[k].kind
  <2>1. CASE InlineNext BY <2>1 DEF InlineNext, findVars, mapVars, Keys
  <2>2. CASE InlineInner BY <2>2 DEF InlineInner, findVars, mapVars, Keys
  <2>3. CASE InlineType
    <3>1. UNCHANGED <<work, types, nDeclared, Composites, Typedefs, AnonTys_, done, status>>
          BY <2>3 DEF InlineType, findVars
    <3>2. Keys' = Keys /\ \A k \in Keys : CompositeTys_'[k].kind = CompositeTys_[k].kind
          BY <2>3, LeaveMaps DEF Typed
    <3> QED BY <3>1, <3>2
  <2> QED BY <2>1, <2>2, <2>3
<1>2. status' = "running" BY <1>1 DEF Sound, NoAbort
<1> QED BY <1>1, <1>2, SoundKept

(* A typedef is listed, so what it stands for is known.                    *)
LEMMA AliasSound ==
    ASSUME NEW H \in Nat, NEW h, NestedBy(h, H), NEW V, Readable(V), Typed, Staged, Sound,
           setAlias
    PROVE  Sound'
<1>0. PICK d : d = Typedefs[nAliased + 1] OBVIOUS
<1>1. /\ Inlined /\ nAliased < Len(Typedefs)
      /\ UNCHANGED <<findVars, nDeclared, Composites, Typedefs, mapVars, done>>
      BY Zenon DEF setAlias
<1>2. ~Fatal(getTypeFromDIType(d)) => UNCHANGED status BY <1>0 DEF setAlias
<1>3. nAliased + 1 \in 1 .. Len(Typedefs) BY <1>1 DEF Typed, ListsTyped
<1>4. d \in Range(types) BY <1>0, <1>3 DEF Sound, Listed
<1>5. Declared /\ ~done
  <2>1. Declared BY <1>1 DEF Inlined, Parsed
  <2>2. ~Aliased BY <1>1 DEF Aliased, Typed, ListsTyped
  <2> QED BY <2>1, <2>2 DEF Staged
<1>6. ~Fatal(getTypeFromDIType(d)) BY <1>4, <1>5, NoneUnknown DEF Sound
<1>7. status' = "running" BY <1>2, <1>6 DEF Sound, NoAbort
<1>8. UNCHANGED <<work, types, nDeclared, Composites, Typedefs, AnonTys_, CompositeTys_, done>>
      BY <1>1 DEF findVars, mapVars
<1>9. Keys' = Keys BY <1>8 DEF Keys
<1> QED BY <1>7, <1>8, <1>9, SoundKept

LEMMA FinishSound == ASSUME Typed, Sound, Finish PROVE Sound'
<1>1. /\ UNCHANGED <<findVars, nDeclared, Composites, Typedefs, CompositeTys_, status>>
      /\ done' = TRUE /\ AnonTys_' = <<>>
      BY Zenon DEF Finish
<1>2. UNCHANGED <<work, types, nDeclared, Composites, Typedefs, CompositeTys_, status>>
      BY <1>1 DEF findVars
<1>3. Keys' = Keys /\ status' = "running" BY <1>2 DEF Keys, Sound, NoAbort
<1> QED BY <1>1, <1>2, <1>3, SoundKept

LEMMA SoundStep ==
    ASSUME NEW H \in Nat, NEW h, NestedBy(h, H), NEW V, Readable(V), OneKind, Typed, Staged,
           Sound, [Next]_vars
    PROVE  Sound'
<1>1. CASE UNCHANGED vars
  <2>1. UNCHANGED <<work, types, nDeclared, Composites, Typedefs, CompositeTys_, AnonTys_, done,
                    status>>
        BY <1>1 DEF vars
  <2>2. Keys' = Keys /\ status' = "running" BY <2>1 DEF Keys, Sound, NoAbort
  <2> QED BY <2>1, <2>2, SoundKept
<1>2. CASE Next
  <2>1. CASE Returned BY <1>1, <2>1 DEF Returned
  <2> QED BY <1>2, <2>1, ProcessSound, DeclareStepSound, ParseSound, InlineSound, AliasSound,
             FinishSound DEF Next
<1> QED BY <1>1, <1>2

LEMMA SoundAlways ==
    ASSUME NEW H \in Nat, NEW h, NestedBy(h, H), NEW V, Readable(V), OneKind
    PROVE  Spec => [](Typed /\ Staged /\ Sound)
<1>1. Init => Sound
  <2> SUFFICES ASSUME Init PROVE Sound OBVIOUS
  <2>1. types = <<>> /\ Composites = <<>> /\ Typedefs = <<>> /\ nDeclared = 0
        /\ CompositeTys_ = <<>> /\ AnonTys_ = <<>> /\ status = "running"
        BY DEF Init
  <2>2. Len(<<>>) = 0 /\ DOMAIN <<>> = {} OBVIOUS
  <2>3. Keys = {} BY <2>1, <2>2 DEF Keys
  <2> QED BY <2>1, <2>2, <2>3 DEF Sound, Closed, Listed, AllPresent, AnonFresh, KindsOwn, NoAbort
<1>2. Typed /\ Staged /\ Sound /\ [Next]_vars => Sound' BY SoundStep
<1> QED BY <1>1, <1>2, StagedAlways, PTL DEF Spec

(* compile never aborts on a C program: whatever the order of the debug    *)
(* information, it finds every composite type declared when a field or a   *)
(* typedef refers to it, and every field has a type.                       *)
THEOREM CompileSucceeds ==
    ASSUME NEW H \in Nat, NEW h, NestedBy(h, H), NEW V, Readable(V), OneKind
    PROVE  Spec => []NoAbort
<1>1. Sound => NoAbort BY DEF Sound
<1> QED BY <1>1, SoundAlways, PTL
-----------------------------------------------------------------------------
(* The members of C, which nest finitely.                                  *)
LEMMA MembersLocal ==
    ASSUME NEW d \in DIType, NEW M, NEW N,
           \A i \in DOMAIN DI[d].elems : DI[d].elems[i].name = "" =>
             M[DI[d].elems[i].base] = N[DI[d].elems[i].base]
    PROVE  MembersOf(M, d) = MembersOf(N, d)
<1> DEFINE es == DI[d].elems
           F(M0, i) == IF es[i].name # "" THEN {es[i]}
                       ELSE {[m EXCEPT !.off = @ + es[i].off] : m \in M0[es[i].base]}
<1>1. \A M0 : MembersOf(M0, d) = UNION {F(M0, i) : i \in DOMAIN es} BY Zenon DEF MembersOf
<1>2. ASSUME NEW i \in DOMAIN es PROVE F(M, i) = F(N, i)
  <2>1. CASE es[i].name # "" BY <2>1
  <2>2. CASE es[i].name = ""
    <3>1. M[es[i].base] = N[es[i].base] BY <2>2
    <3> QED BY <2>2, <3>1, Zenon
  <2> QED BY <2>1, <2>2
<1> HIDE DEF F, es
<1>3. {F(M, i) : i \in DOMAIN es} = {F(N, i) : i \in DOMAIN es} BY <1>2
<1> QED BY <1>1, <1>3

LEMMA MembersUnfold ==
    ASSUME NEW G \in Nat, NEW g, MembersNamed(g, G)
    PROVE  \A d \in DIType : MembersInC[d] = MembersOf(MembersInC, d)
<1> DEFINE Upto(M, n) == /\ M = [d \in DIType |-> M[d]]
                         /\ \A d \in DIType : g[d] < n => M[d] = MembersOf(M, d)
           Good(n) == \E M : Upto(M, n)
           Bad     == {n \in 0 .. (G + 1) : ~Good(n)}
<1>1. \A d \in DIType : g[d] \in 0 .. G BY DEF MembersNamed
<1>2. \A d \in DIType : \A i \in DOMAIN DI[d].elems : DI[d].elems[i].name = "" =>
        DI[d].elems[i].base \in DIType /\ g[DI[d].elems[i].base] < g[d]
      BY DEF MembersNamed
<1>3. Good(0)
  <2> DEFINE M == [d \in DIType |-> {}]
  <2>1. M = [d \in DIType |-> M[d]] /\ \A d \in DIType : ~(g[d] < 0) BY <1>1
  <2> HIDE DEF M
  <2>2. Upto(M, 0) BY <2>1
  <2> QED BY <2>2
<1>4. ASSUME NEW n \in 0 .. (G + 1), n # 0, Good(n - 1) PROVE Good(n)
  <2>0. \A x, y \in 0 .. G : x < y /\ y < n => x # n - 1 OBVIOUS
  <2>1. PICK M : Upto(M, n - 1) BY <1>4
  <2> DEFINE E == [d \in DIType |-> IF g[d] = n - 1 THEN MembersOf(M, d) ELSE M[d]]
  <2>2. E = [d \in DIType |-> E[d]]
        /\ \A d \in DIType : E[d] = IF g[d] = n - 1 THEN MembersOf(M, d) ELSE M[d]
        OBVIOUS
  <2> HIDE DEF E
  <2>3. ASSUME NEW d \in DIType, g[d] < n PROVE E[d] = MembersOf(E, d)
    <3>1. \A i \in DOMAIN DI[d].elems : DI[d].elems[i].name = "" =>
            M[DI[d].elems[i].base] = E[DI[d].elems[i].base]
      <4> SUFFICES ASSUME NEW i \in DOMAIN DI[d].elems, DI[d].elems[i].name = ""
                   PROVE  M[DI[d].elems[i].base] = E[DI[d].elems[i].base]
          OBVIOUS
      <4> DEFINE b == DI[d].elems[i].base
      <4>1. b \in DIType /\ g[b] < g[d] BY <1>2
      <4> HIDE DEF b
      <4>2. g[b] \in 0 .. G /\ g[d] \in 0 .. G BY <1>1, <4>1, Zenon
      <4>3. g[b] # n - 1 BY <2>0, <2>3, <4>1, <4>2, Zenon
      <4>4. E[b] = M[b] BY <2>2, <4>1, <4>3
      <4> QED BY <4>4 DEF b
    <3>2. MembersOf(M, d) = MembersOf(E, d) BY <3>1, MembersLocal
    <3>3. CASE g[d] = n - 1 BY <2>2, <3>2, <3>3
    <3>4. CASE g[d] # n - 1
      <4>1. g[d] < n - 1 BY <1>1, <2>3, <3>4
      <4>2. M[d] = MembersOf(M, d) BY <2>1, <4>1
      <4> QED BY <2>2, <3>2, <3>4, <4>2
    <3> QED BY <3>3, <3>4
  <2>4. Upto(E, n) BY <2>2, <2>3
  <2> QED BY <2>4
<1>5. Good(G + 1)
  <2> SUFFICES ASSUME ~Good(G + 1) PROVE FALSE OBVIOUS
  <2>1. Bad \in SUBSET Nat /\ G + 1 \in Bad OBVIOUS
  <2> HIDE DEF Good
  <2>2. PICK n \in Bad : \A k \in Bad : n <= k
    <3> HIDE DEF Bad
    <3> QED BY <2>1, Least
  <2>3. n \in 0 .. (G + 1) /\ ~Good(n) OBVIOUS
  <2>4. n # 0 BY <1>3, <2>3
  <2>5. n - 1 \in 0 .. (G + 1) /\ ~(n <= n - 1) BY <2>3, <2>4
  <2>6. Good(n - 1) BY <2>2, <2>5
  <2> QED BY <1>4, <2>3, <2>4, <2>6
<1>6. PICK M : Upto(M, G + 1) BY <1>5
<1>7. \A d \in DIType : M[d] = MembersOf(M, d)
  <2>1. \A d \in DIType : g[d] < G + 1 BY <1>1
  <2> QED BY <1>6, <2>1
<1>8. M = [d \in DIType |-> MembersOf(M, d)] BY <1>6, <1>7
<1>9. MembersInC = [d \in DIType |-> MembersOf(MembersInC, d)] BY <1>8 DEF MembersInC
<1> QED BY <1>9

(* Element i of node d gives its members.                                  *)
Gives(d, i) ==
    LET e == DI[d].elems[i] IN
    IF e.name # "" THEN {e} ELSE {[m EXCEPT !.off = @ + e.off] : m \in MembersInC[e.base]}

LEMMA MembersAre ==
    ASSUME NEW G \in Nat, NEW g, MembersNamed(g, G), NEW d \in DIType
    PROVE  \A m : m \in MembersInC[d] <=> \E i \in DOMAIN DI[d].elems : m \in Gives(d, i)
<1>1. MembersInC[d] = MembersOf(MembersInC, d) BY MembersUnfold
<1>2. MembersOf(MembersInC, d) = UNION {Gives(d, i) : i \in DOMAIN DI[d].elems}
      BY Zenon DEF MembersOf, Gives
<1> QED BY <1>1, <1>2

Member == [name : STRING, base : Nodes, off : Nat]

LEMMA MembersTyped ==
    ASSUME NEW G \in Nat, NEW g, MembersNamed(g, G)
    PROVE  \A d \in DIType : MembersInC[d] \subseteq Member
<1> DEFINE Bad == {n \in Nat : \E d \in DIType : g[d] = n /\ ~(MembersInC[d] \subseteq Member)}
<1>1. \A d \in DIType : g[d] \in Nat
  <2>1. g \in [DIType -> 0 .. G] BY Zenon DEF MembersNamed
  <2> QED BY <2>1
<1>2. ASSUME NEW d \in DIType,
             \A p \in DIType : g[p] < g[d] => MembersInC[p] \subseteq Member
      PROVE  MembersInC[d] \subseteq Member
  <2> SUFFICES ASSUME NEW m \in MembersInC[d] PROVE m \in Member OBVIOUS
  <2>1. PICK i \in DOMAIN DI[d].elems : m \in Gives(d, i) BY MembersAre
  <2> DEFINE e == DI[d].elems[i]
  <2>2. e \in Member
    <3>1. DI[d].elems \in Seq(Member) BY DebugInfoAssumption DEF Member, Nodes
    <3> HIDE DEF Member
    <3> QED BY <3>1
  <2>3. CASE e.name # ""
    <3>1. Gives(d, i) = {e} BY <2>3, Zenon DEF Gives
    <3> HIDE DEF e, Member
    <3> QED BY <2>1, <2>2, <3>1
  <2>4. CASE e.name = ""
    <3>1. PICK n \in MembersInC[e.base] : m = [n EXCEPT !.off = @ + e.off]
          BY <2>1, <2>4 DEF Gives
    <3>2. e.base \in DIType /\ g[e.base] < g[d] BY <2>4 DEF MembersNamed
    <3>3. n \in Member BY <1>2, <3>1, <3>2
    <3> HIDE DEF e
    <3> QED BY <2>2, <3>1, <3>3 DEF Member
  <2> QED BY <2>3, <2>4
<1>3. Bad = {}
  <2> SUFFICES ASSUME Bad # {} PROVE FALSE OBVIOUS
  <2>1. Bad \in SUBSET Nat OBVIOUS
  <2>2. PICK n \in Bad : \A k \in Bad : n <= k
    <3> HIDE DEF Bad
    <3> QED BY <2>1, Least
  <2>3. PICK d \in DIType : g[d] = n /\ ~(MembersInC[d] \subseteq Member) OBVIOUS
  <2>4. ASSUME NEW p \in DIType, g[p] < g[d] PROVE MembersInC[p] \subseteq Member
    <3>1. g[p] \notin Bad
      <4>1. g[p] \in Nat /\ n \in Nat /\ ~(n <= g[p]) BY <1>1, <2>3, <2>4
      <4> HIDE DEF Bad
      <4> QED BY <2>2, <4>1
    <3> QED BY <1>1, <3>1
  <2> QED BY <1>2, <2>3, <2>4
<1> QED BY <1>1, <1>3
(* The field a member should become, and the fields of node d.             *)
AsField(m) == [name |-> Key(m.name), ty |-> getTypeFromDIType(m.base), off |-> m.off \div 8]
RawFields(d) == {FieldsOf(d)[i] : i \in DOMAIN FieldsOf(d)}

(* Has element i a name, has node d one?  (The SMT translation fails on    *)
(* every leaf in which the empty string is visible.)                       *)
Unnamed(d, i) == DI[d].elems[i].name = ""
Tagless(d) == DI[d].name = ""

LEMMA FieldIs ==
    ASSUME NEW d \in DIType
    PROVE  /\ DOMAIN FieldsOf(d) = DOMAIN DI[d].elems
           /\ \A i \in DOMAIN DI[d].elems :
                /\ FieldsOf(d)[i].ty = getTypeFromDIType(DI[d].elems[i].base)
                /\ FieldsOf(d)[i].off = DI[d].elems[i].off \div 8
                /\ ~Unnamed(d, i) => FieldsOf(d)[i] = AsField(DI[d].elems[i])
                /\ Unnamed(d, i) =>
                     FieldsOf(d)[i].name =
                       AnonField(Cardinality({j \in 1 .. i - 1 : Unnamed(d, j)}))
<1> DEFINE es == DI[d].elems
           c(i) == Cardinality({j \in 1 .. i - 1 : es[j].name = ""})
           nm(i) == IF es[i].name = "" THEN AnonField(c(i)) ELSE Key(es[i].name)
           f(i) == [name |-> nm(i), ty |-> getTypeFromDIType(es[i].base), off |-> es[i].off \div 8]
<1>1. FieldsOf(d) = [i \in DOMAIN es |-> f(i)] BY Zenon DEF FieldsOf
<1>2. \A i : c(i) = Cardinality({j \in 1 .. i - 1 : Unnamed(d, j)}) BY Zenon DEF Unnamed
<1>3. \A i : f(i) = [name |-> nm(i), ty |-> getTypeFromDIType(es[i].base), off |-> es[i].off \div 8]
      OBVIOUS
<1>4. \A i : /\ es[i].name = "" => nm(i) = AnonField(c(i))
             /\ es[i].name # "" => nm(i) = Key(es[i].name)
      OBVIOUS
<1> HIDE DEF c, nm, f
<1>5. DOMAIN FieldsOf(d) = DOMAIN es /\ \A i \in DOMAIN es : FieldsOf(d)[i] = f(i) BY <1>1
<1>6. \A i : f(i).name = nm(i) /\ f(i).ty = getTypeFromDIType(es[i].base)
             /\ f(i).off = es[i].off \div 8
      BY <1>3
<1>7. \A i : es[i].name # "" => f(i) = AsField(es[i]) BY <1>3, <1>4 DEF AsField
<1> QED BY <1>2, <1>4, <1>5, <1>6, <1>7 DEF Unnamed

LEMMA ExpectedAre ==
    ASSUME NEW d PROVE Expected(d) = {AsField(m) : m \in MembersInC[d]}
BY Zenon DEF Expected, AsField

(* A member of an anonymous member becomes a field like any other.         *)
LEMMA ShiftedMember ==
    ASSUME NEW n \in Member, NEW o \in Nat, o % 8 = 0
    PROVE  AsField([n EXCEPT !.off = @ + o]) = Shifted(AsField(n), o \div 8)
<1>1. n.off \in Nat /\ n = [name |-> n.name, base |-> n.base, off |-> n.off] BY DEF Member
<1>2. PICK a \in Nat : a = n.off BY <1>1
<1>3. (a + o) \div 8 = (o \div 8) + (a \div 8) OBVIOUS
<1>4. [n EXCEPT !.off = @ + o] = [name |-> n.name, base |-> n.base, off |-> a + o]
      BY <1>1, <1>2
<1> DEFINE t == getTypeFromDIType(n.base)
           k == Key(n.name)
<1>5. AsField([n EXCEPT !.off = @ + o]) = [name |-> k, ty |-> t, off |-> (a + o) \div 8]
      BY <1>4 DEF AsField
<1>6. AsField(n) = [name |-> k, ty |-> t, off |-> a \div 8] BY <1>2 DEF AsField
<1> HIDE DEF k, t
<1>7. Shifted(AsField(n), o \div 8) = [name |-> k, ty |-> t, off |-> (o \div 8) + (a \div 8)]
      BY <1>6 DEF Shifted
<1> QED BY <1>3, <1>5, <1>7

(* What element i contributes to the fields C asks for.                    *)
Contributes(d, i, f) ==
    IF ~Unnamed(d, i) THEN f = FieldsOf(d)[i]
    ELSE \E f0 \in Expected(DI[d].elems[i].base) : f = Shifted(f0, FieldsOf(d)[i].off)

LEMMA ExpectedUnfold ==
    ASSUME NEW G \in Nat, NEW g, MembersNamed(g, G), NEW d \in DIType, Complete(d)
    PROVE  \A f : f \in Expected(d) <=> \E i \in DOMAIN DI[d].elems : Contributes(d, i, f)
<1> DEFINE es == DI[d].elems
<1>1. ASSUME NEW i \in DOMAIN es, NEW f
      PROVE  Contributes(d, i, f) <=> \E m \in Gives(d, i) : f = AsField(m)
  <2>1. CASE es[i].name # ""
    <3>1. Gives(d, i) = {es[i]} BY <2>1, Zenon DEF Gives
    <3>2. FieldsOf(d)[i] = AsField(es[i]) BY <2>1, FieldIs DEF Unnamed
    <3>3. Contributes(d, i, f) <=> f = FieldsOf(d)[i] BY <2>1 DEF Contributes, Unnamed
    <3> HIDE DEF es
    <3> QED BY <3>1, <3>2, <3>3
  <2>2. CASE es[i].name = ""
    <3> DEFINE b == es[i].base
               o == es[i].off
    <3>1. b \in DIType /\ o % 8 = 0
      <4>1. b \in DIType /\ (Complete(d) => o % 8 = 0) BY <2>2, Zenon DEF MembersNamed
      <4> QED BY <4>1
    <3>2. o \in Nat BY ElemsOf
    <3>3. Gives(d, i) = {[m EXCEPT !.off = @ + o] : m \in MembersInC[b]}
          BY <2>2, Zenon DEF Gives
    <3>4. Contributes(d, i, f) <=> \E f0 \in Expected(b) : f = Shifted(f0, o \div 8)
      <4>1. FieldsOf(d)[i].off = o \div 8 BY FieldIs
      <4> QED BY <2>2, <4>1, Zenon DEF Contributes, Unnamed
    <3>5. Expected(b) = {AsField(m) : m \in MembersInC[b]} BY ExpectedAre
    <3>6. \A m \in MembersInC[b] : m \in Member BY <3>1, MembersTyped
    <3> HIDE DEF b, o, es
    <3>7. \A m \in MembersInC[b] : AsField([m EXCEPT !.off = @ + o]) = Shifted(AsField(m), o \div 8)
          BY <3>1, <3>2, <3>6, ShiftedMember
    <3>8. Contributes(d, i, f) <=> \E m \in MembersInC[b] : f = Shifted(AsField(m), o \div 8)
          BY <3>4, <3>5, Zenon
    <3>9. (\E m \in Gives(d, i) : f = AsField(m))
            <=> \E m \in MembersInC[b] : f = AsField([m EXCEPT !.off = @ + o])
          BY <3>3, Zenon
    <3> QED BY <3>7, <3>8, <3>9, Zenon
  <2> QED BY <2>1, <2>2
<1>2. \A f : f \in Expected(d) <=> \E m \in MembersInC[d] : f = AsField(m)
      BY ExpectedAre, Zenon
<1>3. \A m : m \in MembersInC[d] <=> \E i \in DOMAIN es : m \in Gives(d, i) BY MembersAre
<1> HIDE DEF es
<1>4. ASSUME NEW f, NEW i \in DOMAIN es, Contributes(d, i, f) PROVE f \in Expected(d)
  <2>1. PICK m \in Gives(d, i) : f = AsField(m) BY <1>1, <1>4
  <2>2. m \in MembersInC[d] BY <1>3, <2>1
  <2> QED BY <1>2, <2>1, <2>2
<1>5. ASSUME NEW f \in Expected(d) PROVE \E i \in DOMAIN es : Contributes(d, i, f)
  <2>1. PICK m \in MembersInC[d] : f = AsField(m) BY <1>2
  <2>2. PICK i \in DOMAIN es : m \in Gives(d, i) BY <1>3, <2>1
  <2>3. Contributes(d, i, f) BY <1>1, <2>1, <2>2
  <2> QED BY <2>3
<1> QED BY <1>4, <1>5 DEF es

(* Fields have different names, before and after inlining.                 *)
LEMMA ExpectedUnique ==
    ASSUME NEW G \in Nat, NEW g, MembersNamed(g, G), NEW d \in DIType, Complete(d)
    PROVE  \A e, f \in Expected(d) : e.name = f.name => e = f
<1> SUFFICES ASSUME NEW e \in Expected(d), NEW f \in Expected(d), e.name = f.name PROVE e = f
    OBVIOUS
<1>1. PICK m \in MembersInC[d] : e = AsField(m) BY ExpectedAre
<1>2. PICK n \in MembersInC[d] : f = AsField(n) BY ExpectedAre
<1>3. Key(m.name) = Key(n.name) BY <1>1, <1>2 DEF AsField
<1>4. m.name = n.name BY <1>3, AnonKeys
<1>5. m = n BY <1>4, Zenon DEF MembersNamed
<1> QED BY <1>1, <1>2, <1>5

LEMMA FieldsUnique ==
    ASSUME NEW G \in Nat, NEW g, MembersNamed(g, G), NEW d \in DIType, Complete(d)
    PROVE  \A e, f \in RawFields(d) : e.name = f.name => e = f
<1> DEFINE es == DI[d].elems
           Z(i) == {j \in 1 .. i - 1 : Unnamed(d, j)}
<1>0. \A a, b \in Nat : 1 <= a /\ a < b =>
        1 .. a - 1 \subseteq 1 .. b - 1 /\ a \in 1 .. b - 1 /\ a \notin 1 .. a - 1
      OBVIOUS
<1> SUFFICES ASSUME NEW i \in DOMAIN es, NEW j \in DOMAIN es,
                    FieldsOf(d)[i].name = FieldsOf(d)[j].name
             PROVE  FieldsOf(d)[i] = FieldsOf(d)[j]
  <2>1. DOMAIN FieldsOf(d) = DOMAIN es BY FieldIs
  <2> HIDE DEF es
  <2> QED BY <2>1 DEF RawFields
<1>1. Len(es) \in Nat /\ DOMAIN es = 1 .. Len(es) BY ElemsOf
<1>2. \A l \in DOMAIN es : /\ ~Unnamed(d, l) => FieldsOf(d)[l] = AsField(es[l])
                           /\ Unnamed(d, l) =>
                                FieldsOf(d)[l].name = AnonField(Cardinality(Z(l)))
      BY FieldIs
<1>3. \A l \in DOMAIN es : ~Unnamed(d, l) => FieldsOf(d)[l].name = Key(es[l].name)
  <2>1. \A m : AsField(m).name = Key(m.name) BY DEF AsField
  <2> HIDE DEF es
  <2> QED BY <1>2, <2>1
<1>4. CASE ~Unnamed(d, i) /\ ~Unnamed(d, j)
  <2>1. es[i].name = es[j].name BY <1>3, <1>4, AnonKeys
  <2>2. es[i] \in MembersInC[d] /\ es[j] \in MembersInC[d]
    <3>1. \A l \in DOMAIN es : ~Unnamed(d, l) => es[l] \in Gives(d, l)
          BY DEF Gives, Unnamed
    <3> QED BY <1>4, <3>1, MembersAre
  <2>3. es[i] = es[j] BY <2>1, <2>2, Zenon DEF MembersNamed
  <2> QED BY <1>2, <1>4, <2>3
<1>5. ASSUME NEW l \in DOMAIN es, NEW x PROVE Key(es[l].name) # AnonField(x)
  <2>1. es[l].name # "__dffi_anon_" BY Zenon DEF MembersNamed
  <2> QED BY <2>1 DEF Key, AnonField
<1>6. ASSUME NEW a \in DOMAIN es, NEW b \in DOMAIN es, a < b, Unnamed(d, a)
      PROVE  Cardinality(Z(a)) # Cardinality(Z(b))
  <2>0. a \in Nat /\ b \in Nat /\ 1 <= a BY <1>1
  <2>1. Z(a) \subseteq Z(b) /\ a \in Z(b) /\ a \notin Z(a)
    <3> HIDE DEF es
    <3>1. 1 .. a - 1 \subseteq 1 .. b - 1 /\ a \in 1 .. b - 1 /\ a \notin 1 .. a - 1
          BY <1>0, <1>6, <2>0, Zenon
    <3> QED BY <1>6, <3>1
  <2>2. IsFiniteSet(Z(b))
    <3>1. IsFiniteSet(1 .. b - 1) BY <1>1, FS_Interval
    <3> QED BY <3>1, FS_Subset
  <2> HIDE DEF Z
  <2>3. Cardinality(Z(b)) = Cardinality(Z(a)) => Z(b) = Z(a) BY <2>1, <2>2, FS_Subset
  <2> QED BY <2>1, <2>3
<1>7. CASE Unnamed(d, i) /\ Unnamed(d, j)
  <2>1. AnonField(Cardinality(Z(i))) = AnonField(Cardinality(Z(j))) BY <1>2, <1>7
  <2> HIDE DEF Z
  <2>2. Cardinality(Z(i)) = Cardinality(Z(j)) BY <2>1 DEF AnonField
  <2>3. ~(i < j) /\ ~(j < i) BY <1>6, <1>7, <2>2
  <2>4. i = j BY <1>1, <2>3
  <2> QED BY <2>4
<1>8. ASSUME NEW a \in DOMAIN es, NEW b \in DOMAIN es, Unnamed(d, a), ~Unnamed(d, b)
      PROVE  FieldsOf(d)[a].name # FieldsOf(d)[b].name
  <2>1. FieldsOf(d)[a].name = AnonField(Cardinality(Z(a))) BY <1>2, <1>8
  <2>2. FieldsOf(d)[b].name = Key(es[b].name) BY <1>3, <1>8
  <2> QED BY <1>5, <2>1, <2>2
<1> QED BY <1>4, <1>7, <1>8
-----------------------------------------------------------------------------
(* Once the first pass is over, nodes keep their types until compile ends. *)
LEMMA TypesKept ==
    ASSUME Keys' = Keys, UNCHANGED AnonTys_
    PROVE  /\ \A d : getTypeFromDIType(d)' = getTypeFromDIType(d)
           /\ \A d : FieldsOf(d)' = FieldsOf(d) /\ Expected(d)' = Expected(d)
           /\ \A d : RawFields(d)' = RawFields(d) /\ KeyOf(d)' = KeyOf(d)
<1>1. ASSUME NEW d PROVE Letter(d)' = Letter(d)
      BY Zenon DEF Letter, Keys
<1>2. ASSUME NEW Q, NEW d PROVE getQualTypeFromDIType(Q, d)' = getQualTypeFromDIType(Q, d)
  <2>1. CASE d = NoNode BY <2>1 DEF getQualTypeFromDIType
  <2>2. CASE d # NoNode /\ DI[d].tag \notin DerivedTags
        BY <1>1, <2>2 DEF getQualTypeFromDIType
  <2>3. CASE d # NoNode /\ DI[d].tag \in DerivedTags
    <3>1. CASE DI[d].tag = "subroutine_type"
          BY <2>3, <3>1 DEF getQualTypeFromDIType, SameTags
    <3>2. CASE DI[d].tag # "subroutine_type"
          BY <2>3, <3>2 DEF getQualTypeFromDIType, DerivedTags, SameTags
    <3> QED BY <3>1, <3>2
  <2> QED BY <2>1, <2>2, <2>3
<1>3. ASSUME NEW Q
      PROVE  [d \in Nodes |-> getQualTypeFromDIType(Q, d)'] = [d \in Nodes |-> getQualTypeFromDIType(Q, d)]
      BY <1>2
<1>4. QualTypes = CHOOSE Q : Q = [d \in Nodes |-> getQualTypeFromDIType(Q, d)]
      BY DEF QualTypes, Nodes
<1>5. QualTypes' = CHOOSE Q : Q = [d \in Nodes |-> getQualTypeFromDIType(Q, d)']
      BY DEF QualTypes, Nodes
<1>6. (CHOOSE Q : Q = [d \in Nodes |-> getQualTypeFromDIType(Q, d)'])
       = (CHOOSE Q : Q = [d \in Nodes |-> getQualTypeFromDIType(Q, d)])
      BY <1>3, Zenon
<1>7. QualTypes' = QualTypes BY <1>4, <1>5, <1>6
<1>8. \A d : getTypeFromDIType(d)' = getTypeFromDIType(d) BY <1>7 DEF getTypeFromDIType
<1>9. \A d : FieldsOf(d)' = FieldsOf(d) BY <1>8, Zenon DEF FieldsOf
<1>10. \A d : Expected(d)' = Expected(d) BY <1>8, Zenon DEF Expected
<1>11. \A d : RawFields(d)' = RawFields(d) BY <1>9, Zenon DEF RawFields
<1>12. \A d : KeyOf(d)' = KeyOf(d) BY Zenon DEF KeyOf
<1> QED BY <1>8, <1>9, <1>10, <1>11, <1>12

(* setBody shows the fields it is given, if their names differ.            *)
LEMMA BodyShows ==
    ASSUME NEW K, NEW T, IsEntry(T, K), NEW fields,
           \A i, j \in DOMAIN fields : fields[i].name = fields[j].name => fields[i] = fields[j]
    PROVE  LET m == setBody(T, fields).FieldsMap_ IN
           {m[n] : n \in DOMAIN m} = {fields[i] : i \in DOMAIN fields}
<1> DEFINE F == {fields[i] : i \in DOMAIN fields}
           N == {fields[i].name : i \in DOMAIN fields}
           m == [n \in N |-> CHOOSE f \in F : f.name = n]
           a == Max({1} \cup {getAlign(fields[i].ty) : i \in DOMAIN fields})
           B == setBody(T, fields)
<1>1. B = [T EXCEPT !.opaque = FALSE, !.Fields_ = fields, !.FieldsMap_ = m, !.Align_ = a]
      BY DEF setBody
<1>2. \A n \in N : m[n] \in F /\ m[n].name = n
  <2> SUFFICES ASSUME NEW n \in N PROVE m[n] \in F /\ m[n].name = n OBVIOUS
  <2>1. PICK i \in DOMAIN fields : fields[i].name = n OBVIOUS
  <2>2. fields[i] \in F OBVIOUS
  <2> HIDE DEF F
  <2> QED BY <2>1, <2>2
<1>3. \A i \in DOMAIN fields : fields[i].name \in N /\ m[fields[i].name] = fields[i]
  <2> SUFFICES ASSUME NEW i \in DOMAIN fields
               PROVE  fields[i].name \in N /\ m[fields[i].name] = fields[i]
      OBVIOUS
  <2>1. fields[i].name \in N OBVIOUS
  <2>2. m[fields[i].name] \in F /\ m[fields[i].name].name = fields[i].name BY <1>2, <2>1
  <2> HIDE DEF m
  <2>3. PICK j \in DOMAIN fields : m[fields[i].name] = fields[j] BY <2>2
  <2> QED BY <2>1, <2>2, <2>3
<1>4. DOMAIN m = N OBVIOUS
<1> HIDE DEF N, m, a
<1>5. B.FieldsMap_ = m
  <2> HIDE DEF B, F
  <2>1. T = [kind |-> T.kind, opaque |-> T.opaque, Fields_ |-> T.Fields_,
             FieldsMap_ |-> T.FieldsMap_, Align_ |-> T.Align_]
        BY DEF IsEntry
  <2> QED BY <1>1, <2>1
<1>6. {m[n] : n \in N} = F BY <1>2, <1>3
<1> QED BY <1>4, <1>5, <1>6 DEF B

(* A type the inliner has left.                                            *)
Left(k) == k \in Visited /\ \A i \in 1 .. Len(frames) : frames[i].ty # k

(* Node d defines the type of key k.                                       *)
Defines(d, k) == d \in Range(Composites) /\ Complete(d) /\ KeyOf(d) = k

(* What is known of members as the passes go on.  The types have no fields *)
(* before the second pass,                                                 *)
Unparsed == ~Declared => \A k \in Keys : CompositeTys_[k].opaque
OpaqueEmpty == \A k \in Keys : CompositeTys_[k].opaque => DOMAIN CompositeTys_[k].FieldsMap_ = {}

(* the first one collects all composite types and keeps the ones without a *)
(* name apart,                                                             *)
AllCollected ==
    \A i \in 1 .. nDeclared : DI[types[i]].tag \in CompositeTags => types[i] \in Range(Composites)
AnonOwn ==
    \A d \in DOMAIN AnonTys_ :
      /\ DI[d].name = "" /\ AnonTys_[d][2] # 0
      /\ \A e \in DOMAIN AnonTys_ : AnonTys_[d] = AnonTys_[e] => d = e

(* the second one leaves no definition out,                                *)
AllDefined ==
    ~done => \A i \in 1 .. nParsed :
               Complete(Composites[i]) => ~CompositeTys_[KeyOf(Composites[i])].opaque

(* and what a type shows is what one of its definitions says, before the   *)
(* inliner has left it and after.                                          *)
Shows(k) ==
    \E d \in DIType : Defines(d, k) /\ Shown(k) = IF Left(k) THEN Expected(d) ELSE RawFields(d)
Filled ==
    ~done => \A k \in Keys :
               ~IsEnum(CompositeTys_[k].kind) /\ ~CompositeTys_[k].opaque => Shows(k)

(* Entries of a typed map are found under their names.                     *)
LEMMA ShownByName ==
    ASSUME MapsTyped, NEW k \in Keys
    PROVE  \A f : f \in Shown(k) <=> /\ f.name \in DOMAIN CompositeTys_[k].FieldsMap_
                                     /\ f = CompositeTys_[k].FieldsMap_[f.name]
<1>1. \A n \in DOMAIN CompositeTys_[k].FieldsMap_ : CompositeTys_[k].FieldsMap_[n].name = n
      BY DEF MapsTyped, IsEntry, IsMap
<1> QED BY <1>1 DEF Shown

(* The type of a structure or union without a tag.                         *)
LEMMA InnerNode ==
    ASSUME NEW H \in Nat, NEW h, NestedBy(h, H), MapsTyped, KindsOwn, NEW b \in DIType,
           b \in DOMAIN AnonTys_, Complete(b), Tagless(b)
    PROVE  /\ IsRecord(getTypeFromDIType(b)) /\ CompositeOf(getTypeFromDIType(b)) = AnonTys_[b]
           /\ AnonTys_[b] \in Keys
<1>1. b \in DIType /\ AnonTys_[b] \in Keys /\ AnonTys_[b] \in Names BY DEF MapsTyped
<1>2. /\ DI[b].tag \in {"structure_type", "union_type"} /\ ~DI[b].cxx /\ b # NoNode
      /\ DI[b].tag \in CompositeTags /\ DI[b].tag \notin DerivedTags
      BY <1>1, DebugInfoAssumption DEF Complete, CompositeTags, DerivedTags, SameTags
<1>3. Letter(b) = Composite(AnonTys_[b])
  <2>1. DI[b].tag # "base_type" /\ DI[b].tag # "reference_type" BY <1>2
  <2> QED BY <1>2, <2>1 DEF Letter, Tagless
<1>4. QualTypes[b] = <<Letter(b)>>
  <2>1. QualTypes[b] = getQualTypeFromDIType(QualTypes, b) BY <1>1, QualTypesUnfold DEF Nodes
  <2> QED BY <1>2, <2>1 DEF getQualTypeFromDIType
<1>5. Letter(b) # Const BY LetterNotConst
<1> DEFINE k == AnonTys_[b]
           x == Composite(k)
           t == getTypeFromDIType(b)
<1>6. t = <<x>> BY <1>3, <1>4, <1>5 DEF getTypeFromDIType, getType_, isConst
<1>7. x[1] = "composite" /\ x[2] = k[1] /\ x[3] = k[2] BY Letters
<1>8. k = <<k[1], k[2]>>
  <2>1. \A n \in Names : n = <<n[1], n[2]>> BY DEF Names
  <2> QED BY <1>1, <2>1
<1>9. ~IsEnum(CompositeTys_[k].kind)
  <2>1. ~IsEnum(DI[b].tag) BY <1>2 DEF IsEnum
  <2> QED BY <2>1 DEF KindsOwn
<1> HIDE DEF x, t
<1>10. t[1] = x BY <1>6
<1>11. CompositeOf(t) = k BY <1>7, <1>8, <1>10 DEF CompositeOf
<1>12. IsRecord(t) BY <1>7, <1>9, <1>10, <1>11 DEF IsRecord, IsEnum
<1> QED BY <1>1, <1>11, <1>12 DEF t

(* An anonymous member's node has been declared and collected.             *)
LEMMA InnerFound ==
    ASSUME NEW G \in Nat, NEW g, MembersNamed(g, G), Typed, Sound, AllCollected, Declared, ~done,
           NEW d \in DIType, d \in Range(Composites), Complete(d),
           NEW i \in 1 .. Len(DI[d].elems), Unnamed(d, i)
    PROVE  LET b == DI[d].elems[i].base IN
           /\ b \in DIType /\ b \in DOMAIN AnonTys_ /\ Complete(b) /\ Tagless(b)
           /\ b \in Range(Composites) /\ g[b] < g[d]
<1> DEFINE b == DI[d].elems[i].base
<1>1. b \in DIType /\ g[b] < g[d] /\ Complete(b) /\ Tagless(b)
  <2>1. /\ b \in DIType /\ g[b] < g[d]
        /\ Complete(d) => Complete(b) /\ Tagless(b)
    <3>1. i \in DOMAIN DI[d].elems BY ElemsOf
    <3> QED BY <3>1, Zenon DEF MembersNamed, Unnamed, Tagless
  <2> QED BY <2>1
<1>2. /\ types \in Seq(DIType) /\ work = <<>> /\ nDeclared = Len(types)
      /\ DOMAIN types = 1 .. Len(types) /\ DOMAIN Composites = 1 .. Len(Composites)
      BY DEF Typed, ListsTyped, Declared, Found
<1>3. d \in Range(types) BY <1>2 DEF Sound, Listed, Range
<1>4. PICK j \in 1 .. Len(types) : types[j] = d BY <1>2, <1>3 DEF Range
<1>5. b \in Range(Successors(d))
  <2>1. DI[d].tag # "subroutine_type" BY DEF Complete
  <2>2. DOMAIN DI[d].elems = 1 .. Len(DI[d].elems) BY ElemsOf
  <2> QED BY <2>1, <2>2, SuccessorsTyped
<1>6. b \in Range(types)
  <2>1. Range(work) = {} BY <1>2 DEF Range
  <2>2. b # NoNode BY <1>1, DebugInfoAssumption
  <2> QED BY <1>4, <1>5, <2>1, <2>2 DEF Sound, Closed
<1>7. PICK l \in 1 .. Len(types) : types[l] = b BY <1>2, <1>6 DEF Range
<1>8. DI[b].tag \in CompositeTags BY <1>1 DEF Complete, CompositeTags
<1>9. Present(b) /\ b \in Range(Composites)
      BY <1>2, <1>7, <1>8 DEF Sound, AllPresent, AllCollected
<1> QED BY <1>1, <1>9 DEF Present, Tagless

(* The anonymous members of a type the inliner has not left are those its  *)
(* definition d does not name.                                             *)
Raw(d, k) == d \in DIType /\ Defines(d, k) /\ Shown(k) = RawFields(d)

AsDefined(d, k) ==
    LET map == CompositeTys_[k].FieldsMap_
        F == FieldsOf(d)
    IN /\ \A i \in DOMAIN DI[d].elems :
            /\ F[i].name \in DOMAIN map /\ map[F[i].name] = F[i]
            /\ F[i].name \in AnonMembers(k) <=> Unnamed(d, i)
            /\ Unnamed(d, i) => CompositeOf(F[i].ty) = AnonTys_[DI[d].elems[i].base]
       /\ \A n \in DOMAIN map : \E i \in DOMAIN DI[d].elems : map[n] = F[i] /\ F[i].name = n

LEMMA RawMembers ==
    ASSUME NEW H \in Nat, NEW h, NestedBy(h, H), NEW G \in Nat, NEW g, MembersNamed(g, G),
           Typed, Sound, AllCollected, Declared, ~done, NEW k \in Keys, NEW d, Raw(d, k)
    PROVE  AsDefined(d, k)
<1> DEFINE map == CompositeTys_[k].FieldsMap_
           es == DI[d].elems
           F == FieldsOf(d)
<1>0. /\ MapsTyped /\ KindsOwn /\ d \in DIType /\ Complete(d) /\ d \in Range(Composites)
      /\ Shown(k) = RawFields(d)
      BY DEF Typed, Sound, Raw, Defines
<1>1. DOMAIN F = DOMAIN es /\ DOMAIN es = 1 .. Len(es) BY <1>0, FieldIs, ElemsOf
<1>2. ASSUME NEW i \in DOMAIN es PROVE F[i].name \in DOMAIN map /\ map[F[i].name] = F[i]
  <2>1. F[i] \in RawFields(d) BY <1>1 DEF RawFields
  <2> QED BY <1>0, <2>1, ShownByName
<1>3. ASSUME NEW i \in DOMAIN es, Unnamed(d, i)
      PROVE  F[i].name \in AnonMembers(k) /\ CompositeOf(F[i].ty) = AnonTys_[es[i].base]
  <2> DEFINE b == es[i].base
  <2>1. b \in DIType /\ b \in DOMAIN AnonTys_ /\ Complete(b) /\ Tagless(b)
        BY <1>0, <1>1, <1>3, InnerFound
  <2>2. F[i].ty = getTypeFromDIType(b) BY <1>0, FieldIs
  <2> HIDE DEF b
  <2>3. IsRecord(F[i].ty) /\ CompositeOf(F[i].ty) = AnonTys_[b] BY <1>0, <2>1, <2>2, InnerNode
  <2>4. anonymous(F[i].name)
    <3>1. \E c : F[i].name = AnonField(c) BY <1>0, <1>3, FieldIs
    <3>2. \A c : anonymous(AnonField(c)) BY DEF anonymous, AnonField
    <3> QED BY <3>1, <3>2
  <2>5. F[i].name \in DOMAIN map /\ map[F[i].name] = F[i] BY <1>2
  <2>6. F[i].name \in AnonMembers(k) BY <2>3, <2>4, <2>5 DEF AnonMembers
  <2> QED BY <2>3, <2>6 DEF b
<1>4. ASSUME NEW i \in DOMAIN es, ~Unnamed(d, i) PROVE F[i].name \notin AnonMembers(k)
  <2>1. es[i].name # "__dffi_anon_" BY <1>0, Zenon DEF MembersNamed
  <2>2. F[i].name = Key(es[i].name)
    <3>1. F[i] = AsField(es[i]) BY <1>0, <1>4, FieldIs
    <3>2. \A m : AsField(m).name = Key(m.name) BY DEF AsField
    <3> QED BY <3>1, <3>2
  <2>3. ~anonymous(Key(es[i].name)) BY <2>1 DEF anonymous, Key
  <2> QED BY <2>2, <2>3 DEF AnonMembers
<1>5. ASSUME NEW n \in DOMAIN map PROVE \E i \in DOMAIN es : map[n] = F[i] /\ F[i].name = n
  <2>1. map[n] \in Shown(k) BY DEF Shown
  <2>2. map[n].name = n BY <1>0 DEF MapsTyped, IsEntry, IsMap
  <2>3. PICK i \in DOMAIN F : map[n] = F[i] BY <1>0, <2>1 DEF RawFields
  <2> QED BY <1>1, <2>2, <2>3
<1> QED BY <1>2, <1>3, <1>4, <1>5 DEF AsDefined

(* Inlining gives a type the members C gives to its definition, once its   *)
(* inner types have theirs.                                                *)
LEMMA InlineGives ==
    ASSUME NEW H \in Nat, NEW h, NestedBy(h, H), NEW G \in Nat, NEW g, MembersNamed(g, G),
           Typed, Sound, AllCollected, Declared, ~done, NEW k \in Keys, NEW d, Raw(d, k),
           \A i \in DOMAIN DI[d].elems : Unnamed(d, i) =>
             Shown(AnonTys_[DI[d].elems[i].base]) = Expected(DI[d].elems[i].base)
    PROVE  LET new == inlineAnonymousMembers(k) IN {new[n] : n \in DOMAIN new} = Expected(d)
<1> DEFINE map == CompositeTys_[k].FieldsMap_
           es == DI[d].elems
           F == FieldsOf(d)
           InnerMap(n) == CompositeTys_[CompositeOf(map[n].ty)].FieldsMap_
           inlined == UNION {{Shifted(InnerMap(n)[m], map[n].off) : m \in DOMAIN InnerMap(n)} :
                               n \in AnonMembers(k)}
           left == DOMAIN map \ AnonMembers(k)
           added == {f.name : f \in inlined}
           new == [m \in left \cup added |-> IF m \in added THEN CHOOSE f \in inlined : f.name = m
                                                            ELSE map[m]]
<1>1. inlineAnonymousMembers(k) = new BY DEF inlineAnonymousMembers
<1>2. d \in DIType /\ Complete(d) BY DEF Raw, Defines
<1>3. /\ \A i \in DOMAIN es : /\ F[i].name \in DOMAIN map /\ map[F[i].name] = F[i]
                              /\ F[i].name \in AnonMembers(k) <=> Unnamed(d, i)
                              /\ Unnamed(d, i) => CompositeOf(F[i].ty) = AnonTys_[es[i].base]
      /\ \A n \in DOMAIN map : \E i \in DOMAIN es : map[n] = F[i] /\ F[i].name = n
  <2>1. AsDefined(d, k) BY RawMembers
  <2> QED BY <2>1 DEF AsDefined
<1>4. AnonMembers(k) \subseteq DOMAIN map BY DEF AnonMembers
<1>5. \A n : Shown(CompositeOf(map[n].ty)) = {InnerMap(n)[m] : m \in DOMAIN InnerMap(n)}
      BY Zenon DEF Shown
<1>6. \A f : f \in inlined <=>
        \E n \in AnonMembers(k) : \E f0 \in Shown(CompositeOf(map[n].ty)) : f = Shifted(f0, map[n].off)
  <2> HIDE DEF map, InnerMap
  <2> SUFFICES ASSUME NEW f PROVE f \in inlined <=>
        \E n \in AnonMembers(k) : \E f0 \in Shown(CompositeOf(map[n].ty)) : f = Shifted(f0, map[n].off)
      OBVIOUS
  <2> DEFINE of(n) == {Shifted(InnerMap(n)[m], map[n].off) : m \in DOMAIN InnerMap(n)}
  <2>1. ASSUME NEW n
        PROVE  f \in of(n) <=> \E f0 \in Shown(CompositeOf(map[n].ty)) : f = Shifted(f0, map[n].off)
    <3>1. \A f0 : f0 \in Shown(CompositeOf(map[n].ty)) <=>
                   \E m \in DOMAIN InnerMap(n) : f0 = InnerMap(n)[m]
          BY <1>5
    <3>2. f \in of(n) <=> \E m \in DOMAIN InnerMap(n) : f = Shifted(InnerMap(n)[m], map[n].off)
          OBVIOUS
    <3> HIDE DEF of
    <3> QED BY <3>1, <3>2, Zenon
  <2>2. inlined = UNION {of(n) : n \in AnonMembers(k)} BY DEF inlined
  <2> HIDE DEF of, inlined
  <2> QED BY <2>1, <2>2
<1> HIDE DEF map, InnerMap, inlined, es, F
<1>7. \A f : f \in inlined <=> \E i \in DOMAIN es : Unnamed(d, i) /\ Contributes(d, i, f)
  <2> SUFFICES ASSUME NEW f
               PROVE f \in inlined <=> \E i \in DOMAIN es : Unnamed(d, i) /\ Contributes(d, i, f)
      OBVIOUS
  <2>0. ASSUME NEW i \in DOMAIN es, Unnamed(d, i)
        PROVE  /\ Contributes(d, i, f) <=>
                    \E f0 \in Shown(CompositeOf(F[i].ty)) : f = Shifted(f0, F[i].off)
    <3>1. Shown(CompositeOf(F[i].ty)) = Expected(es[i].base) BY <1>3, <2>0 DEF es
    <3>2. Contributes(d, i, f) <=> \E f0 \in Expected(es[i].base) : f = Shifted(f0, F[i].off)
          BY <2>0 DEF Contributes, es, F
    <3> QED BY <3>1, <3>2
  <2>1. ASSUME f \in inlined PROVE \E i \in DOMAIN es : Unnamed(d, i) /\ Contributes(d, i, f)
    <3>1. PICK n \in AnonMembers(k) :
            \E f0 \in Shown(CompositeOf(map[n].ty)) : f = Shifted(f0, map[n].off)
          BY <1>6, <2>1
    <3>2. PICK i \in DOMAIN es : map[n] = F[i] /\ F[i].name = n BY <1>3, <1>4
    <3>3. Unnamed(d, i) BY <1>3, <3>2
    <3> QED BY <2>0, <3>1, <3>2, <3>3
  <2>2. ASSUME NEW i \in DOMAIN es, Unnamed(d, i), Contributes(d, i, f) PROVE f \in inlined
    <3>1. F[i].name \in AnonMembers(k) /\ map[F[i].name] = F[i] BY <1>3, <2>2
    <3>2. PICK f0 \in Shown(CompositeOf(F[i].ty)) : f = Shifted(f0, F[i].off) BY <2>0, <2>2
    <3> QED BY <1>6, <3>1, <3>2
  <2> QED BY <2>1, <2>2
<1>8. \A f : f \in Expected(d) <=> \E i \in DOMAIN es : Contributes(d, i, f)
      BY <1>2, ExpectedUnfold DEF es
<1>9. \A i \in DOMAIN es : ~Unnamed(d, i) => \A f : Contributes(d, i, f) <=> f = F[i]
      BY DEF Contributes, F
<1>10. inlined \subseteq Expected(d) BY <1>7, <1>8
<1>11. \A n \in left : map[n] \in Expected(d) /\ map[n].name = n
  <2> SUFFICES ASSUME NEW n \in left PROVE map[n] \in Expected(d) /\ map[n].name = n OBVIOUS
  <2>1. PICK i \in DOMAIN es : map[n] = F[i] /\ F[i].name = n BY <1>3
  <2>2. ~Unnamed(d, i) BY <1>3, <2>1
  <2> QED BY <1>8, <1>9, <2>1, <2>2
<1>12. \A e, f \in Expected(d) : e.name = f.name => e = f BY <1>2, ExpectedUnique
<1>13. \A n \in added : new[n] \in inlined /\ new[n].name = n
  <2> SUFFICES ASSUME NEW n \in added PROVE new[n] \in inlined /\ new[n].name = n OBVIOUS
  <2>1. PICK f \in inlined : f.name = n OBVIOUS
  <2>2. new[n] = CHOOSE g0 \in inlined : g0.name = n OBVIOUS
  <2> HIDE DEF new
  <2> QED BY <2>1, <2>2
<1>14. \A n \in left \ added : new[n] = map[n] OBVIOUS
<1>15. DOMAIN new = left \cup added OBVIOUS
<1>16. \A f \in inlined : f.name \in added OBVIOUS
<1>17. \A i \in DOMAIN es : ~Unnamed(d, i) => F[i].name \in left /\ map[F[i].name] = F[i] BY <1>3
<1> HIDE DEF new, left, added
<1>18. ASSUME NEW n \in DOMAIN new PROVE new[n] \in Expected(d) /\ new[n].name = n
       BY <1>10, <1>11, <1>13, <1>14, <1>15
<1>19. ASSUME NEW f \in Expected(d) PROVE f.name \in DOMAIN new
  <2>1. PICK i \in DOMAIN es : Contributes(d, i, f) BY <1>8
  <2>2. CASE Unnamed(d, i) BY <1>7, <1>15, <1>16, <2>1, <2>2
  <2>3. CASE ~Unnamed(d, i) BY <1>9, <1>15, <1>17, <2>1, <2>3
  <2> QED BY <2>2, <2>3
<1>20. ASSUME NEW f \in Expected(d) PROVE new[f.name] = f BY <1>12, <1>18, <1>19
<1> QED BY <1>1, <1>18, <1>19, <1>20
-----------------------------------------------------------------------------
(* The recursion of the inliner: it enters structures and unions only, and *)
(* its loop passes over none.                                              *)
Walked ==
    /\ \A k \in Visited : ~IsEnum(CompositeTys_[k].kind)
    /\ \A k \in iterated : IsEnum(CompositeTys_[k].kind) \/ k \in Visited

(* Type x is nested deeper than y.                                         *)
Below(g, x, y) ==
    \E b \in DOMAIN AnonTys_ :
      AnonTys_[b] = x /\ \A d \in DOMAIN AnonTys_ : AnonTys_[d] = y => g[b] < g[d]

(* Of the inner types of a type that has been entered, those not to be     *)
(* gone through any more have been left, or are being gone through; and    *)
(* the types entered are nested deeper and deeper.                         *)
Chain(g) ==
    \A j \in 1 .. Len(frames), y \in Keys : frames[j].ty = y =>
      /\ frames[j].todo \subseteq InnerTypes(y)
      /\ \A x \in InnerTypes(y) \ frames[j].todo : Left(x) \/ (j > 1 /\ frames[j - 1].ty = x)
      /\ \A i \in 1 .. Len(frames), z \in Keys : i < j /\ frames[i].ty = z => Below(g, z, y)

Grown(g) ==
    /\ Unparsed /\ OpaqueEmpty /\ AllCollected /\ AnonOwn /\ AllDefined /\ Filled
    /\ Walked /\ Chain(g)

LEMMA BelowOrder ==
    ASSUME NEW G \in Nat, NEW g \in [DIType -> 0 .. G], MapsTyped
    PROVE  /\ \A x : ~Below(g, x, x)
           /\ \A x, y, z : Below(g, x, y) /\ Below(g, y, z) => Below(g, x, z)
<1>1. \A b \in DOMAIN AnonTys_ : g[b] \in Nat BY DEF MapsTyped
<1>2. ASSUME NEW x, Below(g, x, x) PROVE FALSE
  <2>1. PICK b \in DOMAIN AnonTys_ :
          AnonTys_[b] = x /\ \A d \in DOMAIN AnonTys_ : AnonTys_[d] = x => g[b] < g[d]
        BY <1>2 DEF Below
  <2>2. g[b] < g[b] BY <2>1
  <2> QED BY <1>1, <2>2
<1>3. ASSUME NEW x, NEW y, NEW z, Below(g, x, y), Below(g, y, z) PROVE Below(g, x, z)
  <2>1. PICK b \in DOMAIN AnonTys_ :
          AnonTys_[b] = x /\ \A d \in DOMAIN AnonTys_ : AnonTys_[d] = y => g[b] < g[d]
        BY <1>3 DEF Below
  <2>2. PICK c \in DOMAIN AnonTys_ :
          AnonTys_[c] = y /\ \A d \in DOMAIN AnonTys_ : AnonTys_[d] = z => g[c] < g[d]
        BY <1>3 DEF Below
  <2>3. g[b] < g[c] BY <2>1, <2>2
  <2>4. \A d \in DOMAIN AnonTys_ : AnonTys_[d] = z => g[b] < g[d] BY <1>1, <2>2, <2>3
  <2> QED BY <2>1, <2>4 DEF Below
<1> QED BY <1>2, <1>3

(* Only one node defines a type without a name.                            *)
LEMMA DefinerOwn ==
    ASSUME Typed, Sound, AnonOwn, Declared, ~done, NEW d, NEW k, Defines(d, k),
           NEW b \in DOMAIN AnonTys_, AnonTys_[b] = k
    PROVE  d = b
<1>1. d \in Range(Composites) /\ KeyOf(d) = k BY DEF Defines
<1>2. DOMAIN types = 1 .. Len(types) /\ DOMAIN Composites = 1 .. Len(Composites)
      BY DEF Typed, ListsTyped
<1>3. DI[d].tag \in CompositeTags /\ d \in Range(types) BY <1>1, <1>2 DEF Sound, Listed, Range
<1>4. PICK j \in 1 .. Len(types) : types[j] = d BY <1>2, <1>3 DEF Range
<1>5. nDeclared = Len(types) BY DEF Declared
<1>6. Present(d) BY <1>3, <1>4, <1>5 DEF Sound, AllPresent
<1>7. k[2] # 0 /\ \A e \in DOMAIN AnonTys_ : k = AnonTys_[e] => b = e BY Zenon DEF AnonOwn
<1>8. Tagless(d) => d \in DOMAIN AnonTys_ /\ KeyOf(d) = AnonTys_[d]
      BY <1>6, Zenon DEF Tagless, Present, KeyOf
<1>9. ~Tagless(d) => KeyOf(d) = Key(DI[d].name) BY Zenon DEF Tagless, KeyOf
<1>10. \A s : Key(s)[2] = 0 BY DEF Key
<1> QED BY <1>1, <1>7, <1>8, <1>9, <1>10

(* The inner types of a type that the inliner has not left.                *)
LEMMA InnerBelow ==
    ASSUME NEW H \in Nat, NEW h, NestedBy(h, H), NEW G \in Nat, NEW g, MembersNamed(g, G),
           Typed, Sound, Grown(g), Declared, ~done, NEW k \in Keys,
           ~IsEnum(CompositeTys_[k].kind), ~Left(k), NEW x \in InnerTypes(k)
    PROVE  x \in Keys /\ ~IsEnum(CompositeTys_[x].kind) /\ Below(g, x, k)
<1> DEFINE map == CompositeTys_[k].FieldsMap_
<1>1. PICK n \in AnonMembers(k) : x = CompositeOf(map[n].ty) BY DEF InnerTypes
<1>2. n \in DOMAIN map /\ IsRecord(map[n].ty) BY DEF AnonMembers
<1>3. x \in Keys BY InnerTyped DEF Typed
<1>4. ~IsEnum(CompositeTys_[x].kind) BY <1>1, <1>2 DEF IsRecord, IsEnum
<1>5. ~CompositeTys_[k].opaque BY <1>2 DEF Grown, OpaqueEmpty
<1>6. PICK d \in DIType : Defines(d, k) /\ Shown(k) = RawFields(d)
      BY <1>5 DEF Grown, Filled, Shows
<1>7. Raw(d, k) BY <1>6 DEF Raw
<1>a. AllCollected BY DEF Grown
<1>b. AsDefined(d, k) BY <1>7, <1>a, RawMembers
<1>8. PICK i \in DOMAIN DI[d].elems : map[n] = FieldsOf(d)[i] /\ FieldsOf(d)[i].name = n
      BY <1>2, <1>b DEF AsDefined
<1> HIDE DEF map
<1> DEFINE b == DI[d].elems[i].base
<1>9. Unnamed(d, i) /\ x = AnonTys_[b]
      BY <1>1, <1>8, <1>b DEF AsDefined, map
<1>10. b \in DOMAIN AnonTys_ /\ g[b] < g[d]
  <2>1. i \in 1 .. Len(DI[d].elems) BY ElemsOf
  <2> QED BY <1>6, <1>9, <2>1, InnerFound DEF Grown, Defines
<1>11. \A e \in DOMAIN AnonTys_ : AnonTys_[e] = k => e = d BY <1>6, DefinerOwn DEF Grown
<1> QED BY <1>3, <1>4, <1>9, <1>10, <1>11 DEF Below

(* Leaving a type whose inner types have been left.                        *)
LEMMA LeaveShows ==
    ASSUME NEW H \in Nat, NEW h, NestedBy(h, H), NEW G \in Nat, NEW g, MembersNamed(g, G),
           Typed, Sound, Grown(g), Parsed, ~done, NEW k \in Keys,
           ~IsEnum(CompositeTys_[k].kind), ~CompositeTys_[k].opaque, ~Left(k),
           \A x \in InnerTypes(k) : Left(x)
    PROVE  \E d \in DIType :
             /\ Defines(d, k)
             /\ LET new == inlineAnonymousMembers(k) IN {new[n] : n \in DOMAIN new} = Expected(d)
<1>0. Declared /\ nParsed = Len(Composites) /\ MapsTyped BY DEF Parsed, Typed
<1>1. PICK d \in DIType : Defines(d, k) /\ Shown(k) = RawFields(d) BY DEF Grown, Filled, Shows
<1>2. Raw(d, k) BY <1>1 DEF Raw
<1>a. AllCollected BY DEF Grown
<1>b. AsDefined(d, k) BY <1>0, <1>2, <1>a, RawMembers
<1>3. ASSUME NEW i \in DOMAIN DI[d].elems, Unnamed(d, i)
      PROVE  Shown(AnonTys_[DI[d].elems[i].base]) = Expected(DI[d].elems[i].base)
  <2> DEFINE b == DI[d].elems[i].base
             x == AnonTys_[b]
             f == FieldsOf(d)[i]
  <2>1. /\ f.name \in AnonMembers(k) /\ CompositeTys_[k].FieldsMap_[f.name] = f
        /\ CompositeOf(f.ty) = x
        BY <1>3, <1>b DEF AsDefined
  <2>2. Left(x) BY <2>1 DEF InnerTypes
  <2>3. b \in DIType /\ b \in DOMAIN AnonTys_ /\ Complete(b) /\ Tagless(b) /\ b \in Range(Composites)
    <3>1. i \in 1 .. Len(DI[d].elems) BY ElemsOf
    <3> QED BY <1>0, <1>1, <1>3, <3>1, InnerFound DEF Grown, Defines
  <2> HIDE DEF b, x, f
  <2>4. KeyOf(b) = x /\ x \in Keys BY <1>0, <2>3, Zenon DEF Tagless, KeyOf, x, MapsTyped
  <2>5. PICK j \in 1 .. Len(Composites) : Composites[j] = b
        BY <2>3 DEF Range, Typed, ListsTyped
  <2>6. ~CompositeTys_[x].opaque BY <1>0, <2>3, <2>4, <2>5 DEF Grown, AllDefined
  <2>7. ~IsEnum(CompositeTys_[x].kind)
    <3>1. ~IsEnum(DI[b].tag) BY <2>3 DEF Complete, IsEnum
    <3> QED BY <2>3, <3>1 DEF Sound, KindsOwn, x
  <2>8. PICK e \in DIType : Defines(e, x) /\ Shown(x) = Expected(e)
        BY <2>2, <2>4, <2>6, <2>7 DEF Grown, Filled, Shows
  <2>9. e = b BY <1>0, <2>3, <2>8, DefinerOwn DEF Grown, x
  <2> QED BY <2>8, <2>9 DEF b, x
<1> QED BY <1>0, <1>1, <1>2, <1>3, InlineGives DEF Grown
-----------------------------------------------------------------------------
(* Before the third pass, the inliner has done nothing.                    *)
LEMMA NotBegun ==
    ASSUME Staged, ~Parsed
    PROVE  iterated = {} /\ Visited = {} /\ frames = <<>> /\ nAliased = 0 /\ ~done
BY DEF Staged, Late

LEMMA GrownEarly ==
    ASSUME NEW g, nParsed' = 0, iterated' = {}, Visited' = {}, frames' = <<>>,
           AllCollected', AnonOwn',
           \A k \in Keys' : CompositeTys_'[k].opaque /\ DOMAIN CompositeTys_'[k].FieldsMap_ = {}
    PROVE  Grown(g)'
<1>1. Len(frames') = 0 /\ 1 .. nParsed' = {} OBVIOUS
<1>2. Unparsed' /\ OpaqueEmpty' BY DEF Unparsed, OpaqueEmpty
<1>3. AllDefined' BY <1>1 DEF AllDefined
<1>4. Filled' BY DEF Filled
<1>5. Walked' BY DEF Walked
<1>6. Chain(g)'
  <2>1. 1 .. Len(frames') = {} BY <1>1
  <2> QED BY <2>1 DEF Chain
<1> QED BY <1>2, <1>3, <1>4, <1>5, <1>6 DEF Grown

LEMMA ProcessGrown ==
    ASSUME NEW g, Typed, Staged, Grown(g), processType
    PROVE  Grown(g)'
<1>1. ~Found BY DEF processType, Found
<1>2. nDeclared = 0 /\ nParsed = 0 /\ ~Declared /\ ~Parsed
      BY <1>1 DEF Staged, Declared, Parsed
<1>3. UNCHANGED <<nDeclared, Composites, nParsed, CompositeTys_, AnonTys_, iterated, Visited, frames>>
      BY DEF processType, mapVars, inlineVars
<1>4. Keys' = Keys BY <1>3 DEF Keys
<1>5. \A k \in Keys' : CompositeTys_'[k].opaque /\ DOMAIN CompositeTys_'[k].FieldsMap_ = {}
      BY <1>2, <1>3, <1>4 DEF Grown, Unparsed, OpaqueEmpty
<1>6. AllCollected' BY <1>2, <1>3 DEF AllCollected
<1>7. AnonOwn' BY <1>3, Zenon DEF Grown, AnonOwn
<1> QED BY <1>2, <1>3, <1>5, <1>6, <1>7, NotBegun, GrownEarly

LEMMA DeclareGrown ==
    ASSUME NEW V, Readable(V), NEW g, Typed, Staged, Sound, Grown(g), Declare
    PROVE  Grown(g)'
<1>0. PICK d \in DIType : d = types[nDeclared + 1] BY DEF Typed, ListsTyped, Declare
<1>1. /\ nDeclared' = nDeclared + 1 /\ nDeclared < Len(types) /\ nDeclared \in Nat
      /\ UNCHANGED <<work, types, nParsed, iterated, Visited, frames, done>>
      BY DEF Typed, ListsTyped, Declare, findVars, inlineVars
<1>2. ~Declared /\ ~Parsed BY <1>1 DEF Declared, Parsed
<1>3. nParsed = 0 /\ iterated = {} /\ Visited = {} /\ frames = <<>> /\ ~done
      BY <1>2, NotBegun DEF Staged
<1>4. \/ /\ DI[d].tag \in CompositeTags /\ Composites' = Append(Composites, d)
         /\ declareDIComposite(d)
      \/ DI[d].tag \notin CompositeTags /\ UNCHANGED <<Composites, mapVars>>
  <2>1. "typedef" \notin CompositeTags BY DEF CompositeTags
  <2> QED BY <1>0, <2>1 DEF Declare, Collected
<1>5. AllCollected'
  <2>1. Composites \in Seq(DIType) BY DEF Typed, ListsTyped
  <2>2. Range(Composites) \subseteq Range(Composites)'
        /\ (DI[d].tag \in CompositeTags => d \in Range(Composites)')
    <3>1. CASE UNCHANGED Composites /\ DI[d].tag \notin CompositeTags BY <3>1 DEF Range
    <3>2. CASE Composites' = Append(Composites, d) BY <2>1, <3>2 DEF Range
    <3> QED BY <1>4, <3>1, <3>2
  <2>3. \A i \in 1 .. nDeclared' : i \in 1 .. nDeclared \/ i = nDeclared + 1 BY <1>1
  <2> QED BY <1>0, <1>1, <2>2, <2>3 DEF Grown, AllCollected
<1>6. /\ AnonOwn'
      /\ \A k \in Keys' : CompositeTys_'[k].opaque /\ DOMAIN CompositeTys_'[k].FieldsMap_ = {}
  <2>0. /\ \A k \in Keys : CompositeTys_[k].opaque /\ DOMAIN CompositeTys_[k].FieldsMap_ = {}
        /\ MapsTyped /\ AnonOwn
        BY <1>2 DEF Grown, Unparsed, OpaqueEmpty, Typed
  <2>1. CASE UNCHANGED mapVars
    <3>1. UNCHANGED <<CompositeTys_, AnonTys_>> BY <2>1 DEF mapVars
    <3>2. Keys' = Keys BY <3>1 DEF Keys
    <3>3. AnonOwn' BY <2>0, <3>1, Zenon DEF AnonOwn
    <3> QED BY <2>0, <3>1, <3>2, <3>3
  <2>2. ASSUME NEW k, DeclaresKey(d, k), DI[d].tag \in CompositeTags
        PROVE  \A j \in Keys' : CompositeTys_'[j].opaque /\ DOMAIN CompositeTys_'[j].FieldsMap_ = {}
    <3>1. /\ Keys' = Keys \cup {k} /\ \A j \in Keys : CompositeTys_'[j] = CompositeTys_[j]
          /\ k \notin Keys => CompositeTys_'[k] = Opaque(DI[d].tag)
          BY <2>0, <2>2, KeyAdded DEF DeclaresKey
    <3>2. Opaque(DI[d].tag).opaque /\ DOMAIN Opaque(DI[d].tag).FieldsMap_ = {} BY <2>2, OpaqueEntry
    <3> QED BY <2>0, <3>1, <3>2
  <2>3. CASE DI[d].tag \in CompositeTags /\ DeclaresName(d)
    <3>1. DeclaresKey(d, Key(DI[d].name)) /\ UNCHANGED AnonTys_ BY <2>3, Zenon DEF DeclaresName
    <3>2. AnonOwn' BY <2>0, <3>1, Zenon DEF AnonOwn
    <3> QED BY <2>2, <2>3, <3>1, <3>2
  <2>4. CASE DI[d].tag \in CompositeTags /\ DeclaresAnon(d)
    <3>1. /\ Tagless(d) /\ d \notin DOMAIN AnonTys_ /\ DeclaresKey(d, NextAnonKey)
          /\ AnonTys_' = [x \in DOMAIN AnonTys_ \cup {d} |->
                            IF x \in DOMAIN AnonTys_ THEN AnonTys_[x] ELSE NextAnonKey]
          BY <2>4, Zenon DEF DeclaresAnon, Tagless
    <3>2. /\ DOMAIN AnonTys_' = DOMAIN AnonTys_ \cup {d} /\ AnonTys_'[d] = NextAnonKey
          /\ \A e \in DOMAIN AnonTys_ : AnonTys_'[e] = AnonTys_[e]
          BY <3>1
    <3> DEFINE c == Cardinality(DOMAIN AnonTys_)
    <3>3. c \in Nat BY <2>0, AnonFinite
    <3>4. NextAnonKey[2] = c + 1 BY DEF NextAnonKey, AnonKey
    <3>5. NextAnonKey[2] # 0 BY <3>3, <3>4
    <3>6. \A e \in DOMAIN AnonTys_ : AnonTys_[e] # NextAnonKey
      <4>1. c + 1 \in Nat \ {0} /\ ~(c + 1 <= c) BY <3>3
      <4>2. NextAnonKey \notin Keys BY <1>3, <4>1 DEF Sound, AnonFresh, NextAnonKey
      <4> QED BY <2>0, <4>2 DEF MapsTyped
    <3>7. \A e \in DOMAIN AnonTys_ :
            /\ Tagless(e) /\ AnonTys_[e][2] # 0
            /\ \A x \in DOMAIN AnonTys_ : AnonTys_[e] = AnonTys_[x] => e = x
          BY <2>0, Zenon DEF AnonOwn, Tagless
    <3>8. \A e \in DOMAIN AnonTys_' :
            /\ Tagless(e) /\ AnonTys_'[e][2] # 0
            /\ \A x \in DOMAIN AnonTys_' : AnonTys_'[e] = AnonTys_'[x] => e = x
          BY <3>1, <3>2, <3>5, <3>6, <3>7
    <3>9. AnonOwn' BY <3>8, Zenon DEF AnonOwn, Tagless
    <3> QED BY <2>2, <2>4, <3>1, <3>9
  <2>5. CASE DI[d].tag \in CompositeTags /\ declareDIComposite(d)
    <3>1. Refuses(d) => UNCHANGED mapVars BY DEF Refuses
    <3>2. FindsAnon(d) => UNCHANGED mapVars BY Zenon DEF FindsAnon, mapVars
    <3> QED BY <2>0, <2>1, <2>3, <2>4, <2>5, <3>1, <3>2, DeclareWays
  <2> QED BY <1>4, <2>1, <2>5 DEF mapVars
<1> QED BY <1>1, <1>3, <1>5, <1>6, GrownEarly

(* A node that was collected has its key.                                  *)
LEMMA CollectedKey ==
    ASSUME Typed, Sound, Declared, ~done, NEW d \in Range(Composites)
    PROVE  KeyOf(d) \in Keys /\ IsEnum(CompositeTys_[KeyOf(d)].kind) = IsEnum(DI[d].tag)
<1>1. /\ DOMAIN types = 1 .. Len(types) /\ DOMAIN Composites = 1 .. Len(Composites)
      /\ nDeclared = Len(types) /\ MapsTyped /\ Composites \in Seq(DIType)
      BY DEF Typed, ListsTyped, Declared
<1>2. d \in DIType /\ DI[d].tag \in CompositeTags /\ d \in Range(types)
      BY <1>1 DEF Sound, Listed, Range
<1>3. PICK j \in 1 .. Len(types) : types[j] = d BY <1>1, <1>2 DEF Range
<1>4. Present(d) BY <1>1, <1>2, <1>3 DEF Sound, AllPresent
<1>5. CASE DI[d].name = "" BY <1>1, <1>4, <1>5 DEF Present, KeyOf, Sound, KindsOwn, MapsTyped
<1>6. CASE DI[d].name # "" BY <1>2, <1>4, <1>6 DEF Present, KeyOf, Sound, KindsOwn
<1> QED BY <1>5, <1>6

LEMMA ParseGrown ==
    ASSUME NEW H \in Nat, NEW h, NestedBy(h, H), NEW G \in Nat, NEW g, MembersNamed(g, G),
           Typed, Staged, Sound, Sound', Grown(g), parseDIComposite
    PROVE  Grown(g)'
<1>0. PICK d \in DIType : d = Composites[nParsed + 1] BY ParseSplit DEF Typed
<1>1. /\ nParsed' = nParsed + 1 /\ nParsed < Len(Composites) /\ Declared
      /\ UNCHANGED <<work, types, nDeclared, Composites, AnonTys_, iterated, Visited, frames, done>>
      /\ \/ Skipped(d) /\ UNCHANGED CompositeTys_
         \/ ~Skipped(d) /\ CompositeTys_' = [CompositeTys_ EXCEPT ![KeyOf(d)] = Body(d)]
  <2>1. status' = "running" BY DEF Sound, NoAbort
  <2> QED BY <1>0, <2>1, ParseSplit DEF Typed, findVars, inlineVars
<1>2. nParsed \in Nat /\ nParsed + 1 \in 1 .. Len(Composites) /\ DOMAIN Composites = 1 .. Len(Composites)
      BY <1>1 DEF Typed, ListsTyped
<1>3. d \in Range(Composites) BY <1>0, <1>2 DEF Range
<1>4. iterated = {} /\ Visited = {} /\ frames = <<>> /\ ~done
  <2>1. ~Parsed BY <1>1 DEF Parsed, Typed, ListsTyped
  <2> QED BY <2>1, NotBegun
<1>5. Declared' BY <1>1 DEF Declared, Found
<1>6. /\ MapsTyped' /\ Keys' = Keys
      /\ \A j \in Keys : /\ CompositeTys_'[j].kind = CompositeTys_[j].kind
                         /\ ~CompositeTys_[j].opaque => CompositeTys_'[j] = CompositeTys_[j]
      BY ParseMaps DEF Typed
<1>7. /\ \A e : RawFields(e)' = RawFields(e) /\ KeyOf(e)' = KeyOf(e)
      BY <1>1, <1>6, TypesKept
<1>8. PICK k \in Keys : k = KeyOf(d) /\ IsEnum(CompositeTys_[k].kind) = IsEnum(DI[d].tag)
      BY <1>1, <1>3, <1>4, CollectedKey
<1>9. MapsTyped /\ IsEntry(CompositeTys_[k], Keys) BY DEF Typed, MapsTyped
<1>10. /\ Skipped(d) => UNCHANGED CompositeTys_
       /\ ~Skipped(d) => /\ CompositeTys_'[k] = Body(d) /\ ~Body(d).opaque
                         /\ \A j \in Keys : j # k => CompositeTys_'[j] = CompositeTys_[j]
  <2>1. IsEntry(Body(d), Keys) /\ ~Body(d).opaque BY <1>8, <1>9, BodyIs
  <2>2. CASE ~Skipped(d) BY <1>1, <1>8, <1>9, <2>1, <2>2, EntrySet
  <2> QED BY <1>1, <2>1, <2>2
<1>11. Unparsed' BY <1>5 DEF Unparsed
<1>12. OpaqueEmpty' BY <1>6, <1>10 DEF Grown, OpaqueEmpty
<1>13. AllCollected' BY <1>1 DEF Grown, AllCollected
<1>14. AnonOwn' BY <1>1, Zenon DEF Grown, AnonOwn
<1>15. AllDefined'
  <2> SUFFICES ASSUME NEW i \in 1 .. nParsed', NEW e, e = Composites[i], Complete(e)
               PROVE  ~CompositeTys_'[KeyOf(e)].opaque
        BY <1>1, <1>7 DEF AllDefined
  <2>1. CASE i = nParsed + 1
    <3>1. e = d BY <1>0, <2>1
    <3>2. Skipped(d) => ~CompositeTys_[k].opaque BY <1>8, <3>1 DEF Skipped, Complete
    <3> QED BY <1>8, <1>10, <3>1, <3>2
  <2>2. CASE i # nParsed + 1
    <3>1. i \in 1 .. nParsed BY <1>1, <1>2, <2>2
    <3>2. ~CompositeTys_[KeyOf(e)].opaque BY <1>4, <3>1 DEF Grown, AllDefined
    <3>3. e \in Range(Composites)
      <4>1. i \in DOMAIN Composites BY <1>2, <3>1
      <4> QED BY <4>1 DEF Range
    <3>4. KeyOf(e) \in Keys BY <1>1, <1>4, <3>3, CollectedKey
    <3> QED BY <1>6, <3>2, <3>4
  <2> QED BY <2>1, <2>2
<1>16. Filled'
  <2> SUFFICES ASSUME NEW j \in Keys, ~IsEnum(CompositeTys_[j].kind), ~CompositeTys_'[j].opaque
               PROVE  Shows(j)'
        BY <1>6 DEF Filled
  <2>0. ~Left(j) /\ ~Left(j)' BY <1>1, <1>4 DEF Left
  <2>1. CASE CompositeTys_'[j] = CompositeTys_[j]
    <3>1. Shown(j)' = Shown(j) BY <2>1 DEF Shown
    <3>2. PICK e \in DIType : Defines(e, j) /\ Shown(j) = RawFields(e)
          BY <1>4, <2>0, <2>1 DEF Grown, Filled, Shows
    <3>3. Defines(e, j)' BY <1>1, <1>7, <3>2 DEF Defines, Range
    <3> QED BY <1>7, <2>0, <3>1, <3>2, <3>3 DEF Shows
  <2>2. CASE CompositeTys_'[j] # CompositeTys_[j]
    <3>1. j = k /\ ~Skipped(d) BY <1>10, <2>2
    <3>2. ~IsEnum(DI[d].tag) BY <1>8, <3>1
    <3>3. Complete(d)
      <4>1. DI[d].tag \in CompositeTags BY <1>2, <1>0 DEF Sound, Listed
      <4> QED BY <3>1, <3>2, <4>1 DEF Complete, Skipped, IsEnum, CompositeTags
    <3> DEFINE T == CompositeTys_[k]
               fields == FieldsOf(d)
    <3>4. \A a, b \in DOMAIN fields : fields[a].name = fields[b].name => fields[a] = fields[b]
      <4>1. \A e, f \in RawFields(d) : e.name = f.name => e = f BY <3>3, FieldsUnique
      <4> QED BY <4>1 DEF RawFields
    <3>5. Body(d) = setBody(T, fields) BY <1>8, <3>2 DEF Body
    <3> HIDE DEF T, fields
    <3>6. LET m == setBody(T, fields).FieldsMap_ IN
          {m[n] : n \in DOMAIN m} = {fields[i] : i \in DOMAIN fields}
          BY <1>9, <3>4, BodyShows DEF T
    <3>7. Shown(j)' = RawFields(d) BY <1>10, <3>1, <3>5, <3>6 DEF Shown, RawFields, fields
    <3>8. Defines(d, j)' BY <1>1, <1>3, <1>7, <1>8, <3>1, <3>3 DEF Defines, Range
    <3> QED BY <1>7, <2>0, <3>7, <3>8 DEF Shows
  <2> QED BY <2>1, <2>2
<1>17. Walked' BY <1>1, <1>4 DEF Walked
<1>18. Chain(g)'
  <2>1. 1 .. Len(frames') = {} BY <1>1, <1>4
  <2> QED BY <2>1 DEF Chain
<1> QED BY <1>11, <1>12, <1>13, <1>14, <1>15, <1>16, <1>17, <1>18 DEF Grown
-----------------------------------------------------------------------------
(* Steps of the inliner that only walk.                                    *)
LEMMA GrownWalk ==
    ASSUME NEW g, Grown(g),
           UNCHANGED <<work, types, nDeclared, Composites, nParsed, CompositeTys_, AnonTys_, done>>,
           \A x : Left(x)' = Left(x), Walked', Chain(g)'
    PROVE  Grown(g)'
<1>1. Keys' = Keys BY DEF Keys
<1>2. /\ \A e : RawFields(e)' = RawFields(e) /\ KeyOf(e)' = KeyOf(e) /\ Expected(e)' = Expected(e)
      BY <1>1, TypesKept
<1>3. Unparsed' /\ OpaqueEmpty' BY <1>1 DEF Grown, Unparsed, OpaqueEmpty, Declared, Found
<1>4. AllCollected' BY DEF Grown, AllCollected
<1>5. AnonOwn' BY Zenon DEF Grown, AnonOwn
<1>6. AllDefined'
  <2> SUFFICES ASSUME ~done, NEW i \in 1 .. nParsed, NEW e, e = Composites[i], Complete(e)
               PROVE  ~CompositeTys_[KeyOf(e)].opaque
        BY <1>2 DEF AllDefined
  <2> QED BY DEF Grown, AllDefined
<1>7. Filled'
  <2>1. \A d, k : Defines(d, k)' = Defines(d, k) BY <1>2 DEF Defines, Range
  <2>2. \A k : Shown(k)' = Shown(k) BY DEF Shown
  <2>3. \A k : Shows(k)' = Shows(k) BY <1>2, <2>1, <2>2 DEF Shows
  <2> QED BY <1>1, <2>3 DEF Grown, Filled
<1> QED BY <1>3, <1>4, <1>5, <1>6, <1>7 DEF Grown

LEMMA InlineNextGrown ==
    ASSUME NEW g, Typed, Grown(g), InlineNext
    PROVE  Grown(g)'
<1>1. frames = <<>>
      /\ UNCHANGED <<work, types, nDeclared, Composites, nParsed, CompositeTys_, AnonTys_, done>>
      BY DEF InlineNext, findVars, mapVars
<1>2. PICK k \in Keys :
        /\ iterated' = iterated \cup {k}
        /\ IF CompositeTys_[k].kind = "enumeration_type" \/ k \in Visited
           THEN UNCHANGED <<Visited, frames>>
           ELSE Visited' = Visited \cup {k} /\ frames' = <<Frame(k)>>
      BY DEF InlineNext, Keys
<1>3. Keys' = Keys /\ \A x : InnerTypes(x)' = InnerTypes(x)
      BY <1>1 DEF Keys, InnerTypes, AnonMembers, IsRecord
<1>4. CASE IsEnum(CompositeTys_[k].kind) \/ k \in Visited
  <2>1. UNCHANGED <<Visited, frames>> BY <1>2, <1>4 DEF IsEnum
  <2>2. \A x : Left(x)' = Left(x) BY <2>1 DEF Left
  <2>3. Walked' BY <1>1, <1>2, <1>4, <2>1 DEF Grown, Walked
  <2>4. Chain(g)'
    <3>1. 1 .. Len(frames') = {} BY <1>1, <2>1
    <3> QED BY <3>1 DEF Chain
  <2> QED BY <1>1, <2>2, <2>3, <2>4, GrownWalk
<1>5. CASE ~IsEnum(CompositeTys_[k].kind) /\ k \notin Visited
  <2>1. Visited' = Visited \cup {k} /\ frames' = <<Frame(k)>> BY <1>2, <1>5 DEF IsEnum
  <2>2. /\ Len(frames) = 0 /\ Len(frames') = 1 /\ frames'[1].ty = k
        /\ frames'[1].todo = InnerTypes(k)
        BY <1>1, <2>1 DEF Frame
  <2>3. \A x : Left(x)' = Left(x) BY <1>5, <2>1, <2>2 DEF Left
  <2>4. Walked' BY <1>1, <1>2, <1>5, <2>1 DEF Grown, Walked
  <2>5. Chain(g)'
    <3>1. \A j \in 1 .. Len(frames') : j = 1 /\ \A i \in 1 .. Len(frames') : ~(i < j) BY <2>2
    <3> QED BY <1>3, <2>2, <3>1 DEF Chain
  <2> QED BY <1>1, <2>3, <2>4, <2>5, GrownWalk
<1> QED BY <1>4, <1>5

(* While the inliner is in a type, all types have their fields.            *)
LEMMA Entered ==
    ASSUME Typed, Staged, frames # <<>>
    PROVE  /\ Parsed /\ Declared /\ ~done /\ Len(frames) \in Nat /\ 1 \in 1 .. Len(frames)
           /\ \A j \in 1 .. Len(frames) : frames[j].ty \in Visited /\ frames[j].ty \in Keys
<1>1. Parsed /\ Declared /\ ~done BY DEF Staged, Late, Parsed, Aliased, Inlined
<1>2. Len(frames) \in Nat /\ 1 \in 1 .. Len(frames) BY DEF Typed, InlineTyped
<1> QED BY <1>1, <1>2 DEF Typed, InlineTyped

LEMMA InlineInnerGrown ==
    ASSUME NEW H \in Nat, NEW h, NestedBy(h, H), NEW G \in Nat, NEW g, MembersNamed(g, G),
           Typed, Staged, Sound, Grown(g), InlineInner
    PROVE  Grown(g)'
<1>1. frames # <<>>
      /\ UNCHANGED <<work, types, nDeclared, Composites, nParsed, CompositeTys_, AnonTys_, done,
                     iterated>>
      BY DEF InlineInner, findVars, mapVars
<1>2. PICK k \in frames[1].todo :
         IF k \in Visited THEN frames' = Rest(k) /\ UNCHANGED Visited
                          ELSE frames' = <<Frame(k)>> \o Rest(k) /\ Visited' = Visited \cup {k}
      BY DEF InlineInner, Rest
<1> DEFINE n == Len(frames)
<1>3. /\ Parsed /\ Declared /\ ~done /\ n \in Nat /\ 1 \in 1 .. n
      /\ \A j \in 1 .. n : frames[j].ty \in Visited /\ frames[j].ty \in Keys
      BY <1>1, Entered
<1>4. /\ Rest(k) \in Seq([ty : Names, todo : SUBSET Keys]) /\ Len(Rest(k)) = n
      /\ \A i \in 1 .. n : Rest(k)[i].ty = frames[i].ty
      /\ Rest(k)[1].todo = frames[1].todo \ {k}
      /\ \A i \in 1 .. n : i # 1 => Rest(k)[i] = frames[i]
      BY <1>1, RestIs DEF Typed
<1>5. Keys' = Keys /\ \A x : InnerTypes(x)' = InnerTypes(x)
      BY <1>1 DEF Keys, InnerTypes, AnonMembers, IsRecord
<1>6. \A x, y : Below(g, x, y)' = Below(g, x, y) BY <1>1 DEF Below
<1>7. /\ \A x : ~Below(g, x, x)
      /\ \A x, y, z : Below(g, x, y) /\ Below(g, y, z) => Below(g, x, z)
  <2>1. g \in [DIType -> 0 .. G] BY Zenon DEF MembersNamed
  <2> QED BY <2>1, BelowOrder DEF Typed
<1> HIDE DEF Rest
<1>8. Chain(g) /\ Walked BY DEF Grown
<1>9. k \in Keys /\ ~IsEnum(CompositeTys_[k].kind) /\ \A j \in 1 .. n : Below(g, k, frames[j].ty)
  <2>1. PICK y \in Keys : y = frames[1].ty /\ y \in Visited BY <1>3
  <2>2. k \in InnerTypes(y) BY <1>3, <1>8, <2>1 DEF Chain
  <2>3. ~Left(y) BY <1>3, <2>1 DEF Left
  <2>4. ~IsEnum(CompositeTys_[y].kind) BY <1>8, <2>1 DEF Walked
  <2>5. k \in Keys /\ ~IsEnum(CompositeTys_[k].kind) /\ Below(g, k, y)
        BY <1>3, <2>2, <2>3, <2>4, InnerBelow
  <2>6. ASSUME NEW j \in 1 .. n, j # 1 PROVE Below(g, k, frames[j].ty)
    <3>1. 1 < j BY <1>3, <2>6
    <3>2. PICK z \in Keys : z = frames[j].ty BY <1>3
    <3>3. Below(g, y, z) BY <1>3, <1>8, <2>1, <3>1, <3>2 DEF Chain
    <3> QED BY <1>7, <2>5, <3>2, <3>3
  <2> QED BY <2>1, <2>5, <2>6
<1>10. \A j \in 1 .. n : frames[j].ty # k BY <1>7, <1>9
<1>11. CASE k \in Visited
  <2>1. frames' = Rest(k) /\ UNCHANGED Visited BY <1>2, <1>11
  <2>2. Len(frames') = n BY <1>4, <2>1
  <2>3. \A x : Left(x)' = Left(x) BY <1>4, <2>1, <2>2 DEF Left
  <2>4. Walked' BY <1>1, <1>8, <2>1 DEF Walked
  <2>5. Left(k) BY <1>10, <1>11 DEF Left
  <2>6. Chain(g)'
    <3> SUFFICES ASSUME NEW j \in 1 .. n, NEW y \in Keys, frames'[j].ty = y
                 PROVE  /\ frames'[j].todo \subseteq InnerTypes(y)
                        /\ \A x \in InnerTypes(y) \ frames'[j].todo :
                             Left(x) \/ (j > 1 /\ frames'[j - 1].ty = x)
                        /\ \A i \in 1 .. n, z \in Keys : i < j /\ frames'[i].ty = z => Below(g, z, y)
          BY <1>5, <1>6, <2>2, <2>3 DEF Chain
    <3>1. frames[j].ty = y BY <1>4, <2>1
    <3>2. /\ frames[j].todo \subseteq InnerTypes(y)
          /\ \A x \in InnerTypes(y) \ frames[j].todo : Left(x) \/ (j > 1 /\ frames[j - 1].ty = x)
          /\ \A i \in 1 .. n, z \in Keys : i < j /\ frames[i].ty = z => Below(g, z, y)
          BY <1>8, <3>1 DEF Chain
    <3>3. frames'[j].todo \subseteq frames[j].todo /\ frames[j].todo \subseteq frames'[j].todo \cup {k}
          BY <1>4, <2>1
    <3>4. j > 1 => j - 1 \in 1 .. n BY <1>3
    <3>5. \A i \in 1 .. n : frames'[i].ty = frames[i].ty BY <1>4, <2>1
    <3> HIDE DEF n
    <3> QED BY <2>5, <3>2, <3>3, <3>4, <3>5
  <2> QED BY <1>1, <2>3, <2>4, <2>6, GrownWalk
<1>12. CASE k \notin Visited
  <2>1. frames' = <<Frame(k)>> \o Rest(k) /\ Visited' = Visited \cup {k} BY <1>2, <1>12
  <2>2. /\ Len(frames') = n + 1 /\ frames'[1] = Frame(k)
        /\ \A i \in 1 .. n : frames'[i + 1] = Rest(k)[i]
    <3> DEFINE R == [ty : Names, todo : SUBSET Keys]
    <3>1. Frame(k) \in R BY <1>9, FrameTyped DEF Typed
    <3> HIDE DEF R
    <3> QED BY <1>3, <1>4, <2>1, <3>1 DEF R
  <2>3. Frame(k).ty = k /\ Frame(k).todo = InnerTypes(k) BY DEF Frame
  <2>4. \A i \in 1 .. n + 1 : i = 1 \/ (i - 1 \in 1 .. n /\ frames'[i] = Rest(k)[i - 1])
    <3>1. \A i \in 1 .. n + 1 : i = 1 \/ (i - 1 \in 1 .. n /\ i = (i - 1) + 1) BY <1>3
    <3> QED BY <2>2, <3>1
  <2>5. \A x : Left(x)' = Left(x)
    <3> SUFFICES ASSUME NEW x PROVE Left(x)' = Left(x) OBVIOUS
    <3>1. CASE x = k
      <4>1. ~Left(x) BY <1>12, <3>1 DEF Left
      <4>2. 1 \in 1 .. Len(frames') BY <1>3, <2>2
      <4>3. ~Left(x)' BY <2>2, <2>3, <3>1, <4>2 DEF Left
      <4> QED BY <4>1, <4>3 DEF Left
    <3>2. CASE x # k
      <4>1. (\A i \in 1 .. n + 1 : frames'[i].ty # x) <=> \A i \in 1 .. n : frames[i].ty # x
        <5>1. \A i \in 1 .. n : i + 1 \in 1 .. n + 1 /\ frames'[i + 1].ty = frames[i].ty
              BY <1>3, <1>4, <2>2
        <5>2. ASSUME NEW i \in 1 .. n + 1, frames'[i].ty = x PROVE \E j \in 1 .. n : frames[j].ty = x
          <6>1. i # 1 BY <2>2, <2>3, <3>2, <5>2
          <6>2. i - 1 \in 1 .. n /\ frames'[i].ty = frames[i - 1].ty BY <1>4, <2>4, <6>1
          <6> QED BY <5>2, <6>2
        <5> QED BY <5>1, <5>2
      <4> HIDE DEF n
      <4> QED BY <2>1, <2>2, <3>2, <4>1 DEF Left, n
    <3> QED BY <3>1, <3>2
  <2>6. Walked' BY <1>1, <1>8, <1>9, <2>1 DEF Walked
  <2>7. Chain(g)'
    <3> SUFFICES ASSUME NEW j \in 1 .. n + 1, NEW y \in Keys, frames'[j].ty = y
                 PROVE  /\ frames'[j].todo \subseteq InnerTypes(y)
                        /\ \A x \in InnerTypes(y) \ frames'[j].todo :
                             Left(x) \/ (j > 1 /\ frames'[j - 1].ty = x)
                        /\ \A i \in 1 .. n + 1, z \in Keys : i < j /\ frames'[i].ty = z => Below(g, z, y)
          BY <1>5, <1>6, <2>2, <2>5 DEF Chain
    <3>1. CASE j = 1
      <4>1. y = k /\ frames'[j].todo = InnerTypes(y) BY <2>2, <2>3, <3>1
      <4>2. \A i \in 1 .. n + 1 : ~(i < j) BY <1>3, <3>1
      <4> QED BY <4>1, <4>2
    <3>2. CASE j # 1
      <4>1. PICK l \in 1 .. n : l = j - 1 /\ frames'[j] = Rest(k)[l] BY <2>4, <3>2
      <4>2. frames[l].ty = y BY <1>4, <4>1
      <4>3. /\ frames[l].todo \subseteq InnerTypes(y)
            /\ \A x \in InnerTypes(y) \ frames[l].todo : Left(x) \/ (l > 1 /\ frames[l - 1].ty = x)
            /\ \A i \in 1 .. n, z \in Keys : i < l /\ frames[i].ty = z => Below(g, z, y)
            BY <1>8, <4>2 DEF Chain
      <4>4. /\ frames'[j].todo \subseteq frames[l].todo
            /\ l # 1 => frames'[j].todo = frames[l].todo
            /\ l = 1 => frames[l].todo \subseteq frames'[j].todo \cup {k}
            BY <1>4, <4>1
      <4>5. l = 1 => frames'[j - 1].ty = k BY <2>2, <2>3, <4>1
      <4>6. l > 1 => frames'[j - 1].ty = frames[l - 1].ty
        <5>1. l > 1 => l - 1 \in 1 .. n /\ l = (l - 1) + 1 BY <1>3
        <5>2. l > 1 => frames'[l] = Rest(k)[l - 1] BY <2>2, <5>1
        <5> QED BY <1>4, <4>1, <5>1, <5>2
      <4>7. j > 1 /\ (l = 1 \/ l > 1) /\ ~(1 > 1) BY <1>3, <4>1
      <4>8. ASSUME NEW i \in 1 .. n + 1, NEW z \in Keys, i < j, frames'[i].ty = z PROVE Below(g, z, y)
        <5>1. CASE i = 1 BY <1>9, <2>2, <2>3, <4>2, <4>8, <5>1
        <5>2. CASE i # 1
          <6>1. PICK a \in 1 .. n : a = i - 1 /\ frames'[i] = Rest(k)[a] BY <2>4, <5>2
          <6>2. frames[a].ty = z /\ a < l BY <1>3, <1>4, <4>1, <4>8, <6>1
          <6> QED BY <4>3, <6>2
        <5> QED BY <5>1, <5>2
      <4> HIDE DEF n
      <4>9. \A x \in InnerTypes(y) \ frames'[j].todo : Left(x) \/ (j > 1 /\ frames'[j - 1].ty = x)
        <5>1. CASE l = 1 BY <4>3, <4>4, <4>5, <4>7, <5>1
        <5>2. CASE l > 1 BY <4>3, <4>4, <4>6, <4>7, <5>2
        <5> QED BY <4>7, <5>1, <5>2
      <4>10. frames'[j].todo \subseteq InnerTypes(y) BY <4>3, <4>4
      <4> QED BY <4>8, <4>9, <4>10
    <3> QED BY <3>1, <3>2
  <2> QED BY <1>1, <2>5, <2>6, <2>7, GrownWalk
<1> QED BY <1>11, <1>12

(* An opaque type has nothing to inline, and the inner types of the others *)
(* are the same after a type has been left.                                *)
LEMMA InlineEmpty ==
    ASSUME NEW k, DOMAIN CompositeTys_[k].FieldsMap_ = {}
    PROVE  DOMAIN inlineAnonymousMembers(k) = {}
<1>1. AnonMembers(k) = {} BY DEF AnonMembers
<1> QED BY <1>1 DEF inlineAnonymousMembers

LEMMA InnerKept ==
    ASSUME MapsTyped, NEW k \in Keys, CompositeTys_'[k] = CompositeTys_[k],
           \A j \in Keys : CompositeTys_'[j].kind = CompositeTys_[j].kind
    PROVE  InnerTypes(k)' = InnerTypes(k)
<1> DEFINE map == CompositeTys_[k].FieldsMap_
<1>1. ASSUME NEW n \in DOMAIN map PROVE IsRecord(map[n].ty)' = IsRecord(map[n].ty)
  <2>1. PICK t : t = map[n].ty OBVIOUS
  <2>2. t \in Seq(Alphabet(Keys)) /\ t # <<>>
    <3>1. map[n] \in Field(Keys) BY DEF MapsTyped, IsEntry, IsMap
    <3> QED BY <2>1, <3>1 DEF Field, Types
  <2>3. t[1] \in Alphabet(Keys) BY <2>2
  <2>4. t[1][1] = "composite" => CompositeOf(t) \in Keys
        BY <2>3, AlphabetIs DEF MapsTyped, CompositeOf
  <2>5. IsRecord(t)' = IsRecord(t) BY <2>4 DEF IsRecord, CompositeOf
  <2>6. t = map'[n].ty BY <2>1
  <2> QED BY <2>1, <2>5, <2>6 DEF IsRecord, CompositeOf
<1>2. AnonMembers(k)' = AnonMembers(k) BY <1>1 DEF AnonMembers
<1> QED BY <1>2 DEF InnerTypes, CompositeOf

LEMMA InlineTypeGrown ==
    ASSUME NEW H \in Nat, NEW h, NestedBy(h, H), NEW G \in Nat, NEW g, MembersNamed(g, G),
           Typed, Staged, Sound, Grown(g), InlineType
    PROVE  Grown(g)'
<1>1. /\ frames # <<>> /\ frames[1].todo = {} /\ frames' = Tail(frames)
      /\ UNCHANGED <<work, types, nDeclared, Composites, nParsed, AnonTys_, done, iterated, Visited>>
      BY DEF InlineType, findVars
<1> DEFINE n == Len(frames)
<1>2. /\ Parsed /\ Declared /\ ~done /\ n \in Nat /\ 1 \in 1 .. n
      /\ \A j \in 1 .. n : frames[j].ty \in Visited /\ frames[j].ty \in Keys
      BY <1>1, Entered
<1>3. PICK k \in Keys : k = frames[1].ty /\ k \in Visited BY <1>2
<1>4. /\ Keys' = Keys /\ CompositeTys_'[k].FieldsMap_ = inlineAnonymousMembers(k)
      /\ \A j \in Keys : /\ j # k => CompositeTys_'[j] = CompositeTys_[j]
                         /\ CompositeTys_'[j].kind = CompositeTys_[j].kind
                         /\ CompositeTys_'[j].opaque = CompositeTys_[j].opaque
      BY <1>3, LeaveMaps DEF Typed
<1>5. Chain(g) /\ Walked /\ MapsTyped BY DEF Grown, Typed
<1>6. ~IsEnum(CompositeTys_[k].kind) /\ ~Left(k) BY <1>2, <1>3, <1>5 DEF Walked, Left
<1>7. \A x \in InnerTypes(k) : Left(x)
  <2>1. ~(1 > 1) OBVIOUS
  <2> QED BY <1>1, <1>2, <1>3, <1>5, <2>1 DEF Chain
<1>8. /\ Len(frames') = n - 1 /\ \A j \in 1 .. n - 1 : j + 1 \in 1 .. n /\ frames'[j] = frames[j + 1]
      /\ \A j \in 1 .. n : j = 1 \/ (j - 1 \in 1 .. n - 1 /\ frames'[j - 1] = frames[j])
  <2> DEFINE R == [ty : Names, todo : SUBSET Keys]
  <2>1. frames \in Seq(R) BY DEF Typed, InlineTyped
  <2> HIDE DEF R
  <2>2. /\ Len(frames') = n - 1 /\ \A j \in 1 .. n - 1 : j + 1 \in 1 .. n /\ frames'[j] = frames[j + 1]
        BY <1>1, <1>2, <2>1
  <2>3. \A j \in 1 .. n : j = 1 \/ (j - 1 \in 1 .. n - 1 /\ j = (j - 1) + 1) BY <1>2
  <2> QED BY <2>2, <2>3
<1>9. \A j \in 1 .. n : j # 1 => frames[j].ty # k
  <2> SUFFICES ASSUME NEW j \in 1 .. n, j # 1, frames[j].ty = k PROVE FALSE OBVIOUS
  <2>1. 1 < j BY <1>2
  <2>2. Below(g, k, k) BY <1>2, <1>3, <1>5, <2>1 DEF Chain
  <2>3. g \in [DIType -> 0 .. G] BY Zenon DEF MembersNamed
  <2> QED BY <1>5, <2>2, <2>3, BelowOrder
<1>10. \A x : Left(x)' <=> Left(x) \/ x = k
  <2> SUFFICES ASSUME NEW x PROVE Left(x)' <=> Left(x) \/ x = k OBVIOUS
  <2>1. (\A j \in 1 .. n - 1 : frames'[j].ty # x) <=> (\A j \in 1 .. n : frames[j].ty # x) \/ x = k
    <3>1. CASE x = k
      <4>1. \A j \in 1 .. n - 1 : j + 1 # 1 BY <1>2
      <4> HIDE DEF n
      <4> QED BY <1>8, <1>9, <3>1, <4>1
    <3>2. CASE x # k
      <4> HIDE DEF n
      <4>1. ASSUME NEW j \in 1 .. n, frames[j].ty = x PROVE \E i \in 1 .. n - 1 : frames'[i].ty = x
            BY <1>3, <1>8, <3>2, <4>1
      <4> QED BY <1>8, <3>2, <4>1
    <3> QED BY <3>1, <3>2
  <2> HIDE DEF n
  <2> QED BY <1>1, <1>3, <1>8, <2>1 DEF Left, n
<1>11. /\ \A e : RawFields(e)' = RawFields(e) /\ KeyOf(e)' = KeyOf(e) /\ Expected(e)' = Expected(e)
       BY <1>1, <1>4, TypesKept
<1>12. Unparsed' BY <1>1, <1>2 DEF Unparsed, Declared, Found
<1>13. OpaqueEmpty'
  <2> SUFFICES ASSUME NEW j \in Keys, CompositeTys_[j].opaque
               PROVE  DOMAIN CompositeTys_'[j].FieldsMap_ = {}
        BY <1>4 DEF OpaqueEmpty
  <2>1. DOMAIN CompositeTys_[j].FieldsMap_ = {} BY DEF Grown, OpaqueEmpty
  <2> QED BY <1>4, <2>1, InlineEmpty
<1>14. AllCollected' BY <1>1 DEF Grown, AllCollected
<1>15. AnonOwn' BY <1>1, Zenon DEF Grown, AnonOwn
<1>16. AllDefined'
  <2> SUFFICES ASSUME NEW i \in 1 .. nParsed, NEW e, e = Composites[i], Complete(e)
               PROVE  ~CompositeTys_'[KeyOf(e)].opaque
        BY <1>1, <1>11 DEF AllDefined
  <2>1. ~CompositeTys_[KeyOf(e)].opaque BY <1>2 DEF Grown, AllDefined
  <2>2. e \in Range(Composites)
    <3>1. i \in 1 .. Len(Composites) /\ DOMAIN Composites = 1 .. Len(Composites)
          BY DEF Typed, ListsTyped
    <3> QED BY <3>1 DEF Range
  <2>3. KeyOf(e) \in Keys BY <1>2, <2>2, CollectedKey
  <2> QED BY <1>4, <2>1, <2>3
<1>17. Filled'
  <2>0. \A d, j : Defines(d, j)' = Defines(d, j) BY <1>1, <1>11 DEF Defines, Range
  <2> SUFFICES ASSUME NEW j \in Keys, ~IsEnum(CompositeTys_[j].kind), ~CompositeTys_[j].opaque
               PROVE  Shows(j)'
        BY <1>4 DEF Filled
  <2>1. CASE j = k
    <3>1. PICK d \in DIType :
             /\ Defines(d, k)
             /\ LET new == inlineAnonymousMembers(k) IN {new[m] : m \in DOMAIN new} = Expected(d)
          BY <1>2, <1>6, <1>7, <2>1, LeaveShows
    <3>2. Shown(k)' = Expected(d) BY <1>4, <3>1 DEF Shown
    <3>3. Left(k)' BY <1>10
    <3> QED BY <1>11, <2>0, <2>1, <3>1, <3>2, <3>3 DEF Shows
  <2>2. CASE j # k
    <3>1. Shown(j)' = Shown(j) BY <1>4, <2>2 DEF Shown
    <3>2. Left(j)' <=> Left(j) BY <1>10, <2>2
    <3>3. PICK d \in DIType : Defines(d, j) /\ Shown(j) = IF Left(j) THEN Expected(d) ELSE RawFields(d)
          BY <1>2 DEF Grown, Filled, Shows
    <3> QED BY <1>11, <2>0, <3>1, <3>2, <3>3 DEF Shows
  <2> QED BY <2>1, <2>2
<1>18. Walked'
  <2>1. Visited \subseteq Keys /\ iterated \subseteq Keys BY DEF Typed, InlineTyped
  <2> QED BY <1>1, <1>4, <1>5, <2>1 DEF Walked
<1>19. Chain(g)'
  <2>1. \A x, y : Below(g, x, y)' = Below(g, x, y) BY <1>1 DEF Below
  <2>2. \A y \in Keys : y # k => InnerTypes(y)' = InnerTypes(y) BY <1>4, <1>5, InnerKept
  <2> SUFFICES ASSUME NEW j \in 1 .. n - 1, NEW y \in Keys, frames'[j].ty = y
               PROVE  /\ frames'[j].todo \subseteq InnerTypes(y)'
                      /\ \A x \in InnerTypes(y)' \ frames'[j].todo :
                           Left(x)' \/ (j > 1 /\ frames'[j - 1].ty = x)
                      /\ \A i \in 1 .. n - 1, z \in Keys : i < j /\ frames'[i].ty = z => Below(g, z, y)'
    <3>1. Keys' = Keys /\ Len(frames') = n - 1 BY <1>4, <1>8
    <3> HIDE DEF n
    <3> QED BY <3>1, Zenon DEF Chain
  <2>3. PICK l \in 1 .. n : l = j + 1 /\ frames'[j] = frames[l] /\ l # 1 BY <1>2, <1>8
  <2>4. y # k /\ InnerTypes(y)' = InnerTypes(y) BY <1>9, <2>2, <2>3
  <2>5. /\ frames[l].todo \subseteq InnerTypes(y)
        /\ \A x \in InnerTypes(y) \ frames[l].todo : Left(x) \/ (l > 1 /\ frames[l - 1].ty = x)
        /\ \A i \in 1 .. n, z \in Keys : i < l /\ frames[i].ty = z => Below(g, z, y)
        BY <1>5, <2>3 DEF Chain
  <2>6. \A x \in InnerTypes(y) \ frames'[j].todo : Left(x)' \/ (j > 1 /\ frames'[j - 1].ty = x)
    <3> SUFFICES ASSUME NEW x \in InnerTypes(y) \ frames[l].todo, ~Left(x)
                 PROVE  x = k \/ (j > 1 /\ frames'[j - 1].ty = x)
          BY <1>10, <2>3
    <3>1. frames[l - 1].ty = x BY <2>5
    <3>2. l - 1 = j BY <1>2, <2>3
    <3>3. CASE j = 1 BY <1>3, <3>1, <3>2, <3>3
    <3>4. CASE j # 1
      <4>1. j > 1 /\ j - 1 \in 1 .. n - 1 /\ (j - 1) + 1 = j BY <1>2, <3>4
      <4>2. frames'[j - 1] = frames[j] BY <1>8, <4>1
      <4> QED BY <3>1, <3>2, <4>1, <4>2
    <3> QED BY <3>3, <3>4
  <2>7. ASSUME NEW i \in 1 .. n - 1, NEW z \in Keys, i < j, frames'[i].ty = z PROVE Below(g, z, y)
    <3>1. i + 1 \in 1 .. n /\ frames[i + 1].ty = z /\ i + 1 < l BY <1>2, <1>8, <2>3, <2>7
    <3> QED BY <2>5, <3>1
  <2> HIDE DEF n
  <2> QED BY <2>1, <2>3, <2>4, <2>5, <2>6, <2>7
<1> QED BY <1>12, <1>13, <1>14, <1>15, <1>16, <1>17, <1>18, <1>19 DEF Grown

LEMMA GrownSame ==
    ASSUME NEW g, Grown(g),
           UNCHANGED <<work, types, nDeclared, Composites, nParsed, CompositeTys_, AnonTys_, done,
                       iterated, Visited, frames>>
    PROVE  Grown(g)'
<1>1. Keys' = Keys /\ \A x : InnerTypes(x)' = InnerTypes(x)
      BY DEF Keys, InnerTypes, AnonMembers, IsRecord
<1>2. \A x : Left(x)' = Left(x) BY DEF Left
<1>3. \A x, y : Below(g, x, y)' = Below(g, x, y) BY DEF Below
<1>4. Walked' BY DEF Grown, Walked
<1>5. Chain(g)' BY <1>1, <1>2, <1>3 DEF Grown, Chain
<1> QED BY <1>2, <1>4, <1>5, GrownWalk

LEMMA FinishGrown ==
    ASSUME NEW g, Typed, Grown(g), Finish
    PROVE  Grown(g)'
<1>1. /\ done' = TRUE /\ AnonTys_' = <<>> /\ Aliased
      /\ UNCHANGED <<findVars, nDeclared, Composites, nParsed, CompositeTys_, inlineVars>>
      BY Zenon DEF Finish
<1>2. UNCHANGED <<work, types, nDeclared, Composites, nParsed, CompositeTys_, iterated, Visited, frames>>
      BY <1>1 DEF findVars, inlineVars
<1>3. Keys' = Keys /\ DOMAIN AnonTys_' = {} /\ 1 .. Len(frames') = {}
  <2>1. frames = <<>> BY <1>1 DEF Aliased, Inlined
  <2> QED BY <1>1, <1>2, <2>1 DEF Keys
<1>4. Unparsed' /\ OpaqueEmpty' BY <1>2, <1>3 DEF Grown, Unparsed, OpaqueEmpty, Declared, Found
<1>5. AllCollected' BY <1>2 DEF Grown, AllCollected
<1>6. AnonOwn' BY <1>3, Zenon DEF AnonOwn
<1>7. AllDefined' /\ Filled' BY <1>1 DEF AllDefined, Filled
<1>8. Walked' BY <1>2 DEF Grown, Walked
<1>9. Chain(g)' BY <1>3 DEF Chain
<1> QED BY <1>4, <1>5, <1>6, <1>7, <1>8, <1>9 DEF Grown

LEMMA GrownStep ==
    ASSUME NEW H \in Nat, NEW h, NestedBy(h, H), NEW V, Readable(V), OneKind,
           NEW G \in Nat, NEW g, MembersNamed(g, G),
           Typed, Staged, Sound, Sound', Grown(g), [Next]_vars
    PROVE  Grown(g)'
<1>1. CASE UNCHANGED vars BY <1>1, GrownSame DEF vars
<1>2. CASE setAlias
  <2>1. UNCHANGED <<findVars, nDeclared, Composites, nParsed, mapVars, inlineVars, done>>
        BY <1>2, Zenon DEF setAlias
  <2> QED BY <2>1, GrownSame DEF findVars, mapVars, inlineVars
<1>3. CASE Returned BY <1>1, <1>3 DEF Returned
<1> QED BY <1>1, <1>2, <1>3, ProcessGrown, DeclareGrown, ParseGrown, InlineNextGrown,
           InlineInnerGrown, InlineTypeGrown, FinishGrown DEF Next

LEMMA GrownAlways ==
    ASSUME NEW H \in Nat, NEW h, NestedBy(h, H), NEW V, Readable(V), OneKind,
           NEW G \in Nat, NEW g, MembersNamed(g, G)
    PROVE  Spec => [](Typed /\ Staged /\ Sound /\ Grown(g))
<1>1. Init => Grown(g)
  <2> SUFFICES ASSUME Init PROVE Grown(g) OBVIOUS
  <2>1. /\ nDeclared = 0 /\ nParsed = 0 /\ CompositeTys_ = <<>> /\ AnonTys_ = <<>>
        /\ iterated = {} /\ Visited = {} /\ frames = <<>>
        BY DEF Init
  <2>2. Keys = {} /\ DOMAIN AnonTys_ = {} /\ 1 .. Len(frames) = {} /\ 1 .. nDeclared = {}
        /\ 1 .. nParsed = {}
        BY <2>1 DEF Keys
  <2>3. AnonOwn BY <2>2, Zenon DEF AnonOwn
  <2> QED BY <2>1, <2>2, <2>3 DEF Grown, Unparsed, OpaqueEmpty, AllCollected, AllDefined, Filled,
                                  Walked, Chain
<1>2. Typed /\ Staged /\ Sound /\ Sound' /\ Grown(g) /\ [Next]_vars => Grown(g)' BY GrownStep
<1> QED BY <1>1, <1>2, SoundAlways, PTL DEF Spec

(* When the inliner is done, every structure and union has exactly the     *)
(* members C gives to one of its definitions, those of anonymous members,  *)
(* however deep, at their absolute offsets; and none that the program      *)
(* defines is left opaque: for any debug information, any order of the     *)
(* composite types and any order of the inliner's hash map.                *)
THEOREM MembersAsInC ==
    ASSUME NEW H \in Nat, NEW h, NestedBy(h, H), NEW V, Readable(V), OneKind,
           NEW G \in Nat, NEW g, MembersNamed(g, G)
    PROVE  Spec => []MembersFaithful
<1>1. ASSUME Typed, Staged, Sound, Grown(g) PROVE MembersFaithful
  <2> SUFFICES ASSUME Inlined, ~done, NEW k \in Keys, ~IsEnum(CompositeTys_[k].kind)
               PROVE  LET defs == {d \in Range(Composites) : KeyOf(d) = k /\ Complete(d)} IN
                      IF CompositeTys_[k].opaque THEN defs = {}
                      ELSE \E d \in defs : Shown(k) = Expected(d)
        BY DEF MembersFaithful, Keys, IsEnum
  <2>1. Parsed /\ frames = <<>> /\ iterated = Keys /\ nParsed = Len(Composites)
        BY DEF Inlined, Parsed, Keys
  <2>2. CASE CompositeTys_[k].opaque
    <3> SUFFICES ASSUME NEW d \in Range(Composites), KeyOf(d) = k, Complete(d) PROVE FALSE
        BY <2>2
    <3>1. PICK i \in 1 .. Len(Composites) : Composites[i] = d
          BY <1>1 DEF Range, Typed, ListsTyped
    <3> QED BY <1>1, <2>1, <2>2, <3>1 DEF Grown, AllDefined
  <2>3. CASE ~CompositeTys_[k].opaque
    <3>1. 1 .. Len(frames) = {} BY <2>1
    <3>2. Left(k) BY <1>1, <2>1, <3>1 DEF Grown, Walked, Left
    <3>3. PICK d \in DIType : Defines(d, k) /\ Shown(k) = Expected(d)
          BY <1>1, <2>3, <3>2 DEF Grown, Filled, Shows
    <3> QED BY <2>3, <3>3 DEF Defines
  <2> QED BY <2>2, <2>3
<1>2. Typed /\ Staged /\ Sound /\ Grown(g) => MembersFaithful BY <1>1
<1> QED BY <1>2, GrownAlways, PTL
-----------------------------------------------------------------------------
(***************************************************************************)
(* Names.                                                                  *)
(***************************************************************************)
(* A recursive definition has a solution if r decreases in it.  T is what  *)
(* it makes of a function from D to U.                                     *)
Decreasing(D, U, R, r, T) ==
    /\ R \in Nat /\ r \in [D -> 0 .. R] /\ T \in [[D -> U] -> [D -> U]] /\ [D -> U] # {}
    /\ \A M, N \in [D -> U], d \in D :
         (\A p \in D : r[p] < r[d] => M[p] = N[p]) => T[M][d] = T[N][d]

LEMMA Recursion ==
    ASSUME NEW D, NEW U, NEW R, NEW r, NEW T, Decreasing(D, U, R, r, T)
    PROVE  \E M \in [D -> U] : M = T[M]
<1> USE DEF Decreasing
<1> DEFINE F == [D -> U]
           Upto(M, n) == \A d \in D : r[d] < n => M[d] = T[M][d]
           Good(n) == \E M \in F : Upto(M, n)
           Bad == {n \in Nat : ~Good(n)}
<1>1. Good(0)
  <2>1. PICK M \in F : TRUE OBVIOUS
  <2>2. \A d \in D : ~(r[d] < 0) OBVIOUS
  <2> QED BY <2>1, <2>2
<1>2. ASSUME NEW n \in Nat, Good(n) PROVE Good(n + 1)
  <2>1. PICK M \in F : Upto(M, n) BY <1>2
  <2> DEFINE E == T[M]
  <2>2. E \in F OBVIOUS
  <2>3. ASSUME NEW d \in D, r[d] < n + 1 PROVE E[d] = T[E][d]
    <3>1. \A p \in D : r[p] < r[d] => M[p] = E[p]
      <4> SUFFICES ASSUME NEW p \in D, r[p] < r[d] PROVE M[p] = E[p] OBVIOUS
      <4>1. r[p] \in Nat /\ r[d] \in Nat OBVIOUS
      <4>2. r[p] < n BY <2>3, <4>1
      <4> QED BY <2>1, <4>2
    <3> HIDE DEF E
    <3>2. T[M][d] = T[E][d] BY <2>2, <3>1
    <3> QED BY <3>2 DEF E
  <2> HIDE DEF E
  <2>4. Upto(E, n + 1) BY <2>3
  <2> QED BY <2>2, <2>4
<1> HIDE DEF Good
<1>3. Bad = {}
  <2> SUFFICES ASSUME Bad # {} PROVE FALSE OBVIOUS
  <2>1. Bad \in SUBSET Nat OBVIOUS
  <2>2. PICK n \in Bad : \A k \in Bad : n <= k
    <3> HIDE DEF Bad
    <3> QED BY <2>1, Least
  <2>3. n \in Nat /\ ~Good(n) OBVIOUS
  <2>4. n # 0 BY <1>1, <2>3
  <2>5. n - 1 \in Nat /\ ~(n <= n - 1) /\ (n - 1) + 1 = n BY <2>3, <2>4
  <2>6. Good(n - 1) BY <2>2, <2>5
  <2>7. Good((n - 1) + 1) BY <1>2, <2>5, <2>6
  <2> QED BY <2>3, <2>5, <2>7
<1>4. Good(R + 1) BY <1>3
<1>5. PICK M \in F : Upto(M, R + 1) BY <1>4 DEF Good
<1>6. \A d \in D : M[d] = T[M][d]
  <2>1. \A d \in D : r[d] < R + 1 OBVIOUS
  <2> QED BY <1>5, <2>1
<1>7. T[M] \in F OBVIOUS
<1> QED BY <1>5, <1>6, <1>7

(* What holds of a node if it holds of those it derives from, holds of     *)
(* all nodes.                                                              *)
LEMMA NodesBy ==
    ASSUME NEW H \in Nat, NEW h, NestedBy(h, H), NEW P,
           \A d \in Nodes :
             (d # NoNode /\ DI[d].tag \in DerivedTags => PartsOf(d) \subseteq P) => d \in P
    PROVE  Nodes \subseteq P
<1> DEFINE Bad == {n \in Nat : \E d \in DIType : h[d] = n /\ d \notin P}
<1>1. NoNode \in P BY DEF Nodes
<1>2. \A d \in DIType : h[d] \in Nat BY DEF NestedBy
<1>3. Bad = {}
  <2> SUFFICES ASSUME Bad # {} PROVE FALSE OBVIOUS
  <2>1. Bad \in SUBSET Nat OBVIOUS
  <2>2. PICK n \in Bad : \A k \in Bad : n <= k
    <3> HIDE DEF Bad
    <3> QED BY <2>1, Least
  <2>3. PICK d \in DIType : h[d] = n /\ d \notin P OBVIOUS
  <2>4. \A p \in DIType : h[p] < n => p \in P
    <3> SUFFICES ASSUME NEW p \in DIType, h[p] < n, p \notin P PROVE FALSE OBVIOUS
    <3>1. h[p] \in Bad BY <1>2
    <3>2. n <= h[p] BY <2>2, <3>1
    <3>3. h[p] \in Nat /\ n \in Nat BY <1>2
    <3> HIDE DEF Bad
    <3> QED BY <3>2, <3>3
  <2>5. DI[d].tag \in DerivedTags => PartsOf(d) \subseteq P
    <3> SUFFICES ASSUME DI[d].tag \in DerivedTags, NEW p \in PartsOf(d) PROVE p \in P OBVIOUS
    <3>1. CASE p = NoNode BY <1>1, <3>1
    <3>2. CASE p # NoNode
      <4>1. h[p] < h[d] BY <3>2 DEF NestedBy
      <4>2. p \in DIType BY <3>2, PartsAreNodes DEF Nodes
      <4> QED BY <2>3, <2>4, <4>1, <4>2
    <3> QED BY <3>1, <3>2
  <2> QED BY <2>3, <2>5 DEF Nodes
<1>4. \A d \in DIType : d \in P BY <1>2, <1>3
<1> QED BY <1>1, <1>4 DEF Nodes

(* Typedefs and qualifiers nest finitely, like all types.                  *)
Aliasing(d) == d # NoNode /\ DI[d].tag \in SameTags \cup {"const_type"}

LEMMA AliasingIs ==
    ASSUME NEW d \in Nodes, Aliasing(d)
    PROVE  /\ d \in DIType /\ DI[d].tag \in DerivedTags /\ PartsOf(d) = {DI[d].base}
           /\ DI[d].base \in Nodes
<1>1. d \in DIType /\ DI[d].tag \in DerivedTags /\ DI[d].tag # "subroutine_type"
      BY DEF Aliasing, Nodes, DerivedTags, SameTags
<1>2. DI[d].base \in Nodes BY <1>1, DebugInfoAssumption DEF Nodes
<1> QED BY <1>1, <1>2 DEF PartsOf

LEMMA UnderlyingUnfold ==
    ASSUME NEW H \in Nat, NEW h, NestedBy(h, H)
    PROVE  \A d \in Nodes : Underlying[d] = IF Aliasing(d) THEN Underlying[DI[d].base] ELSE d
<1> DEFINE r == [d \in Nodes |-> IF d = NoNode THEN 0 ELSE h[d] + 1]
           F == [Nodes -> Nodes]
           T == [M \in F |-> [d \in Nodes |-> UnderlyingOf(M, d)]]
<1>1. \A M, d : UnderlyingOf(M, d) = IF Aliasing(d) THEN M[DI[d].base] ELSE d
      BY DEF UnderlyingOf, Aliasing
<1>2. r \in [Nodes -> 0 .. H + 1]
  <2> SUFFICES ASSUME NEW d \in Nodes PROVE (IF d = NoNode THEN 0 ELSE h[d] + 1) \in 0 .. H + 1
        OBVIOUS
  <2>1. d # NoNode => h[d] \in 0 .. H BY DEF NestedBy, Nodes
  <2> QED BY <2>1
<1>3. ASSUME NEW d \in Nodes, Aliasing(d)
      PROVE  DI[d].base \in Nodes /\ r[DI[d].base] < r[d]
  <2> DEFINE p == DI[d].base
  <2>1. /\ d \in DIType /\ d # NoNode /\ DI[d].tag \in DerivedTags /\ p \in PartsOf(d)
        /\ p \in Nodes
        BY <1>3, AliasingIs DEF Aliasing
  <2>2. h[d] \in 0 .. H /\ r[d] = h[d] + 1 BY <2>1 DEF NestedBy
  <2>3. p # NoNode => h[p] < h[d] /\ h[p] \in 0 .. H BY <2>1 DEF NestedBy, Nodes
  <2>4. r[p] = IF p = NoNode THEN 0 ELSE h[p] + 1 BY <2>1
  <2> HIDE DEF p, r
  <2>5. r[p] < r[d] BY <2>2, <2>3, <2>4
  <2> QED BY <2>1, <2>5 DEF p
<1>4. T \in [F -> F]
  <2> SUFFICES ASSUME NEW M \in F, NEW d \in Nodes PROVE UnderlyingOf(M, d) \in Nodes OBVIOUS
  <2> QED BY <1>1, <1>3
<1>5. \A M \in F, d \in Nodes : T[M][d] = UnderlyingOf(M, d) OBVIOUS
<1> HIDE DEF r, T
<1>6. \A M, N \in F, d \in Nodes :
        (\A p \in Nodes : r[p] < r[d] => M[p] = N[p]) => T[M][d] = T[N][d]
      BY <1>1, <1>3, <1>5
<1>7. Decreasing(Nodes, Nodes, H + 1, r, T)
  <2>1. F # {}
    <3>1. [d \in Nodes |-> d] \in F OBVIOUS
    <3> QED BY <3>1
  <2> QED BY <1>2, <1>4, <1>6, <2>1 DEF Decreasing
<1>8. PICK M \in F : M = T[M] BY <1>7, Recursion
<1>9. M = [d \in Nodes |-> UnderlyingOf(M, d)] BY <1>8 DEF T
<1>10. Underlying = [d \in Nodes |-> UnderlyingOf(Underlying, d)]
       BY <1>9 DEF Underlying, Nodes
<1>11. \A d \in Nodes : Underlying[d] = UnderlyingOf(Underlying, d) BY <1>10
<1> QED BY <1>1, <1>11

(* A composite type that has been declared has its type.                   *)
LEMMA CompositeLetter ==
    ASSUME NEW e \in DIType, DI[e].tag \in CompositeTags, ~DI[e].cxx, Present(e)
    PROVE  Letter(e) = Composite(KeyOf(e))
<1>1. DI[e].tag # "base_type" /\ DI[e].tag # "reference_type" BY DEF CompositeTags
<1>2. CASE Tagless(e)
  <2>1. e \in DOMAIN AnonTys_ /\ KeyOf(e) = AnonTys_[e] BY <1>2, Zenon DEF Present, KeyOf, Tagless
  <2>2. Letter(e) = Composite(AnonTys_[e]) BY <1>1, <1>2, <2>1 DEF Letter, Tagless
  <2> QED BY <2>1, <2>2
<1>3. CASE ~Tagless(e)
  <2>1. Key(DI[e].name) \in Keys /\ KeyOf(e) = Key(DI[e].name)
        BY <1>3, Zenon DEF Present, KeyOf, Tagless
  <2>2. Letter(e) = Composite(Key(DI[e].name))
        BY <1>1, <1>3, <2>1, Zenon DEF Letter, Tagless, Keys
  <2> QED BY <2>1, <2>2
<1> QED BY <1>2, <1>3

(* A node that stands for a structure or union has its type.               *)
LEMMA CompleteLetter ==
    ASSUME NEW e \in DIType, Complete(e), Present(e)
    PROVE  /\ Letter(e) = Composite(KeyOf(e)) /\ e # NoNode
           /\ DI[e].tag \notin DerivedTags /\ ~Aliasing(e)
<1>1. /\ DI[e].tag \in {"structure_type", "union_type"} /\ ~DI[e].cxx /\ e # NoNode
      /\ DI[e].tag \in CompositeTags /\ DI[e].tag \notin DerivedTags
      BY DebugInfoAssumption DEF Complete, CompositeTags, DerivedTags, SameTags
<1>2. ~Aliasing(e) BY <1>1 DEF Aliasing, DerivedTags
<1> QED BY <1>1, <1>2, CompositeLetter

LEMMA TwoLetters ==
    ASSUME NEW x, NEW y PROVE <<x>> \o <<y>> = <<x, y>> /\ Tail(<<x, y>>) = <<y>>
<1> DEFINE S == {x, y}
           a == <<x>>
           b == <<y>>
           c == <<x, y>>
<1>1. a \in Seq(S) /\ Len(a) = 1 /\ a[1] = x OBVIOUS
<1>2. b \in Seq(S) /\ Len(b) = 1 /\ b[1] = y OBVIOUS
<1>3. c \in Seq(S) /\ c # <<>> /\ Len(c) = 2 /\ c[1] = x /\ c[2] = y OBVIOUS
<1> HIDE DEF S, a, b, c
<1>4. a \o b \in Seq(S) /\ Len(a \o b) = 2
      /\ \A i \in 1 .. 2 : (a \o b)[i] = IF i <= 1 THEN a[i] ELSE b[i - 1]
      BY <1>1, <1>2, ConcatProperties
<1>5. a \o b = c
  <2>1. \A i \in 1 .. 2 : (a \o b)[i] = c[i]
    <3>1. \A i \in 1 .. 2 : i = 1 \/ i = 2 OBVIOUS
    <3>2. (a \o b)[1] = x /\ (a \o b)[2] = y BY <1>1, <1>2, <1>4
    <3> QED BY <1>3, <3>1, <3>2
  <2> QED BY <1>3, <1>4, <2>1, SeqEqual
<1>6. Tail(c) \in Seq(S) /\ Len(Tail(c)) = 1 /\ Tail(c)[1] = y
      BY <1>3, HeadTailProperties
<1>7. Tail(c) = b
  <2>1. \A i \in 1 .. 1 : Tail(c)[i] = b[i]
    <3>1. \A i \in 1 .. 1 : i = 1 OBVIOUS
    <3> QED BY <1>2, <1>6, <3>1
  <2> QED BY <1>2, <1>6, <2>1, SeqEqual
<1> QED BY <1>5, <1>7 DEF a, b, c

LEMMA UnderlyingType ==
    ASSUME NEW H \in Nat, NEW h, NestedBy(h, H), NEW e \in DIType, Complete(e), Present(e)
    PROVE  \A d \in Nodes : Underlying[d] = e => getTypeFromDIType(d) = <<Composite(KeyOf(e))>>
<1> DEFINE C == Composite(KeyOf(e))
           Q == QualTypes
           W == {<<C>>, <<Const, C>>}
           P == {d \in Nodes : Underlying[d] = e => Q[d] \in W}
<1>1. C # Const BY Letters
<1>2. \A d \in Nodes : Q[d] = getQualTypeFromDIType(Q, d) BY QualTypesUnfold
<1>3. \A d \in Nodes : Underlying[d] = IF Aliasing(d) THEN Underlying[DI[d].base] ELSE d
      BY UnderlyingUnfold
<1>4. Letter(e) = C /\ e # NoNode /\ DI[e].tag \notin DerivedTags BY CompleteLetter
<1> HIDE DEF C, Q
<1>5. \A w \in W : WithConst(w) \in W /\ getType_(w) = <<C>>
  <2>1. ~isConst(<<C>>) /\ isConst(<<Const, C>>) BY <1>1 DEF isConst
  <2>2. <<Const>> \o <<C>> = <<Const, C>> /\ Tail(<<Const, C>>) = <<C>> BY TwoLetters
  <2> QED BY <2>1, <2>2 DEF WithConst, getType_
<1> HIDE DEF W
<1>6. ASSUME NEW d \in Nodes, d # NoNode /\ DI[d].tag \in DerivedTags => PartsOf(d) \subseteq P
      PROVE  d \in P
  <2> SUFFICES ASSUME Underlying[d] = e PROVE Q[d] \in W OBVIOUS
  <2>1. CASE Aliasing(d)
    <3>1. /\ d \in DIType /\ d # NoNode /\ DI[d].tag \in DerivedTags /\ PartsOf(d) = {DI[d].base}
          /\ DI[d].base \in Nodes
          BY <2>1, AliasingIs DEF Aliasing
    <3>2. Q[DI[d].base] \in W BY <1>3, <1>6, <2>1, <3>1
    <3>3. CASE DI[d].tag \in SameTags
          BY <1>2, <3>1, <3>2, <3>3 DEF getQualTypeFromDIType, SameTags
    <3>4. CASE DI[d].tag = "const_type"
      <4>1. Q[d] = WithConst(Q[DI[d].base]) BY <1>2, <3>1, <3>4 DEF getQualTypeFromDIType, SameTags
      <4> QED BY <1>5, <3>2, <4>1
    <3> QED BY <2>1, <3>3, <3>4 DEF Aliasing
  <2>2. CASE ~Aliasing(d)
    <3>1. d = e BY <1>3, <2>2
    <3>2. Q[d] = <<C>> BY <1>2, <1>4, <3>1 DEF getQualTypeFromDIType
    <3> QED BY <3>2 DEF W
  <2> QED BY <2>1, <2>2
<1>7. Nodes \subseteq P
  <2> HIDE DEF P
  <2> QED BY <1>6, NodesBy
<1>8. \A d \in Nodes : Underlying[d] = e => Q[d] \in W BY <1>7
<1> QED BY <1>5, <1>8 DEF getTypeFromDIType, Q, C

(* What a listed node stands for is listed, or void.                       *)
LEMMA UnderlyingListed ==
    ASSUME NEW H \in Nat, NEW h, NestedBy(h, H), Typed, Closed, Found
    PROVE  \A d \in Range(types) : Underlying[d] \in {NoNode} \cup Range(types)
<1> DEFINE D == {NoNode} \cup Range(types)
           P == {d \in Nodes : d \in D => Underlying[d] \in D}
<1>1. types \in Seq(DIType) /\ work = <<>> /\ DOMAIN types = 1 .. Len(types)
      BY DEF Typed, ListsTyped, Found
<1>2. \A d \in Nodes : Underlying[d] = IF Aliasing(d) THEN Underlying[DI[d].base] ELSE d
      BY UnderlyingUnfold
<1>3. Range(work) = {} BY <1>1 DEF Range
<1>4. ASSUME NEW d \in Nodes, d # NoNode /\ DI[d].tag \in DerivedTags => PartsOf(d) \subseteq P
      PROVE  d \in P
  <2> SUFFICES ASSUME d \in D PROVE Underlying[d] \in D OBVIOUS
  <2>1. CASE Aliasing(d)
    <3>1. /\ d \in DIType /\ d # NoNode /\ DI[d].tag \in DerivedTags /\ PartsOf(d) = {DI[d].base}
          BY <2>1, AliasingIs DEF Aliasing
    <3>2. PICK i \in 1 .. Len(types) : types[i] = d BY <1>1, <3>1 DEF Range
    <3>3. Range(Successors(d)) \subseteq D BY <1>3, <3>2 DEF Closed
    <3>4. PartsOf(d) \subseteq Range(Successors(d)) BY <3>1, SuccessorsTyped DEF PartsOf
    <3>5. DI[d].base \in D /\ DI[d].base \in P BY <1>4, <3>1, <3>3, <3>4
    <3>6. Underlying[DI[d].base] \in D BY <3>5
    <3> QED BY <1>2, <2>1, <3>6
  <2>2. CASE ~Aliasing(d) BY <1>2, <2>2
  <2> QED BY <2>1, <2>2
<1>5. Nodes \subseteq P
  <2> HIDE DEF P
  <2> QED BY <1>4, NodesBy
<1>6. Range(types) \subseteq Nodes BY <1>1 DEF Range, Nodes
<1> QED BY <1>5, <1>6

(* What is known of names as the passes go on: a typedef that has been     *)
(* registered has its name in the map, which holds the type of one with    *)
(* that name,                                                              *)
Registered(t) == \E i \in 1 .. nAliased : Typedefs[i] = t
TypedefsOnly == \A i \in 1 .. Len(Typedefs) : DI[Typedefs[i]].tag = "typedef"
AliasesOwn ==
    ~done =>
      /\ \A t \in DIType : Registered(t) => DI[t].name \in DOMAIN AliasTys_
      /\ \A n \in DOMAIN AliasTys_ :
           \E t \in DIType : Registered(t) /\ DI[t].name = n /\ AliasTys_[n] = getTypeFromDIType(t)

(* and a type with a tag has the kind of a composite type with that tag.   *)
KindFrom ==
    \A k \in Keys : k[2] = 0 =>
      \E e \in DIType : /\ e \in Range(Composites) /\ ~Tagless(e) /\ k = Key(DI[e].name)
                        /\ CompositeTys_[k].kind = DI[e].tag

Named == TypedefsOnly /\ AliasesOwn /\ KindFrom

LEMMA NamedKept ==
    ASSUME Named, Keys' = Keys, \A k \in Keys : CompositeTys_'[k].kind = CompositeTys_[k].kind,
           UNCHANGED <<Composites, Typedefs, nAliased, AliasTys_>>,
           done' \/ (UNCHANGED <<done, AnonTys_>>)
    PROVE  Named'
<1>1. TypedefsOnly' BY DEF Named, TypedefsOnly
<1>2. KindFrom' BY DEF Named, KindFrom
<1>3. AliasesOwn'
  <2>1. CASE done' BY <2>1 DEF AliasesOwn
  <2>2. CASE UNCHANGED <<done, AnonTys_>>
    <3>1. \A t : getTypeFromDIType(t)' = getTypeFromDIType(t) BY <2>2, TypesKept
    <3>2. \A t : Registered(t)' = Registered(t) BY DEF Registered
    <3> QED BY <2>2, <3>1, <3>2 DEF Named, AliasesOwn
  <2> QED BY <2>1, <2>2
<1> QED BY <1>1, <1>2, <1>3 DEF Named

LEMMA DeclareNamed ==
    ASSUME Typed, Staged, Named, Declare
    PROVE  Named'
<1>0. PICK d \in DIType : d = types[nDeclared + 1] BY DEF Typed, ListsTyped, Declare
<1>1. nDeclared < Len(types) /\ nDeclared \in Nat BY DEF Typed, ListsTyped, Declare
<1>2. ~Declared /\ ~Parsed BY <1>1 DEF Declared, Parsed
<1>3. nAliased = 0 /\ ~done BY <1>2, NotBegun
<1>4. UNCHANGED <<nAliased, AliasTys_, done>> BY DEF Declare, aliasVars
<1>5. \/ /\ DI[d].tag \in CompositeTags /\ Composites' = Append(Composites, d)
         /\ declareDIComposite(d) /\ UNCHANGED Typedefs
      \/ /\ DI[d].tag = "typedef" /\ Typedefs' = Append(Typedefs, d)
         /\ UNCHANGED <<Composites, mapVars>>
      \/ UNCHANGED <<Composites, Typedefs, mapVars>>
      BY <1>0 DEF Declare, Collected
<1>6. AliasesOwn'
  <2>1. 1 .. nAliased = {} BY <1>3
  <2>2. \A t : ~Registered(t) /\ ~Registered(t)' BY <1>4, <2>1 DEF Registered
  <2>3. DOMAIN AliasTys_ = {} BY <1>3, <2>2 DEF Named, AliasesOwn
  <2> QED BY <1>4, <2>2, <2>3 DEF AliasesOwn
<1>7. TypedefsOnly'
  <2>1. Typedefs \in Seq(DIType) BY DEF Typed, ListsTyped
  <2>2. CASE Typedefs' = Append(Typedefs, d) /\ DI[d].tag = "typedef"
    <3>1. /\ Len(Typedefs') = Len(Typedefs) + 1 /\ Len(Typedefs) \in Nat
          /\ \A i \in 1 .. Len(Typedefs) + 1 :
               Typedefs'[i] = IF i = Len(Typedefs) + 1 THEN d ELSE Typedefs[i]
          /\ \A i \in 1 .. Len(Typedefs) + 1 :
               i # Len(Typedefs) + 1 => i \in 1 .. Len(Typedefs)
          BY <2>1, <2>2
    <3> QED BY <2>2, <3>1 DEF Named, TypedefsOnly
  <2>3. CASE UNCHANGED Typedefs BY <2>3 DEF Named, TypedefsOnly
  <2> QED BY <1>5, <2>2, <2>3
<1>8. KindFrom'
  <2>1. MapsTyped /\ Composites \in Seq(DIType) BY DEF Typed, ListsTyped
  <2>2. \/ /\ Range(Composites) \subseteq Range(Composites)'
           /\ DI[d].tag \in CompositeTags /\ declareDIComposite(d) => d \in Range(Composites)'
        \/ UNCHANGED <<Composites, mapVars>>
    <3>1. CASE UNCHANGED <<Composites, mapVars>> BY <3>1
    <3>2. CASE Composites' = Append(Composites, d) BY <2>1, <3>2 DEF Range
    <3> QED BY <1>5, <3>1, <3>2
  <2>3. CASE UNCHANGED <<Composites, mapVars>>
    <3>1. Keys' = Keys /\ UNCHANGED <<Composites, CompositeTys_>> BY <2>3 DEF Keys, mapVars
    <3> QED BY <3>1 DEF Named, KindFrom
  <2>4. CASE /\ DI[d].tag \in CompositeTags /\ declareDIComposite(d)
             /\ Range(Composites) \subseteq Range(Composites)' /\ d \in Range(Composites)'
    <3>1. Refuses(d) \/ FindsAnon(d) \/ DeclaresName(d) \/ DeclaresAnon(d)
          BY <2>1, <2>4, DeclareWays
    <3>2. CASE Refuses(d) \/ FindsAnon(d)
      <4>1. UNCHANGED CompositeTys_ BY <3>2, Zenon DEF Refuses, FindsAnon, mapVars
      <4>2. Keys' = Keys BY <4>1 DEF Keys
      <4> QED BY <2>4, <4>1, <4>2 DEF Named, KindFrom
    <3>3. ASSUME NEW k, DeclaresKey(d, k), k[2] # 0 \/ (~Tagless(d) /\ k = Key(DI[d].name))
          PROVE  KindFrom'
      <4>1. /\ Keys' = Keys \cup {k} /\ \A j \in Keys : CompositeTys_'[j] = CompositeTys_[j]
            /\ k \notin Keys => CompositeTys_'[k] = Opaque(DI[d].tag)
            BY <2>1, <2>4, <3>3, KeyAdded DEF DeclaresKey
      <4>2. Opaque(DI[d].tag).kind = DI[d].tag BY <2>4, OpaqueEntry
      <4> SUFFICES ASSUME NEW j \in Keys', j[2] = 0
                   PROVE  \E e \in DIType :
                            /\ e \in Range(Composites)' /\ ~Tagless(e) /\ j = Key(DI[e].name)
                            /\ CompositeTys_'[j].kind = DI[e].tag
            BY DEF KindFrom, Tagless
      <4>3. CASE j \in Keys
        <5>1. PICK e \in DIType : /\ e \in Range(Composites) /\ ~Tagless(e)
                                  /\ j = Key(DI[e].name) /\ CompositeTys_[j].kind = DI[e].tag
              BY <4>3 DEF Named, KindFrom
        <5> QED BY <2>4, <4>1, <4>3, <5>1
      <4>4. CASE j \notin Keys
        <5>1. j = k /\ CompositeTys_'[j].kind = DI[d].tag BY <4>1, <4>2, <4>4
        <5> QED BY <2>4, <3>3, <5>1
      <4> QED BY <4>3, <4>4
    <3>4. CASE DeclaresName(d)
      <4>1. DeclaresKey(d, Key(DI[d].name)) /\ ~Tagless(d) BY <3>4, Zenon DEF DeclaresName, Tagless
      <4> QED BY <3>3, <4>1
    <3>5. CASE DeclaresAnon(d)
      <4>1. DeclaresKey(d, NextAnonKey) BY <3>5, Zenon DEF DeclaresAnon
      <4>2. NextAnonKey[2] # 0
        <5>1. Cardinality(DOMAIN AnonTys_) \in Nat BY <2>1, AnonFinite
        <5>2. NextAnonKey[2] = Cardinality(DOMAIN AnonTys_) + 1 BY DEF NextAnonKey, AnonKey
        <5> QED BY <5>1, <5>2
      <4> QED BY <3>3, <4>1, <4>2
    <3> QED BY <3>1, <3>2, <3>4, <3>5
  <2> QED BY <1>5, <2>2, <2>3, <2>4
<1> QED BY <1>6, <1>7, <1>8 DEF Named

LEMMA AliasNamed ==
    ASSUME Typed, Staged, Sound', Named, setAlias
    PROVE  Named'
<1>1. /\ nAliased' = nAliased + 1 /\ nAliased < Len(Typedefs) /\ nAliased \in Nat
      /\ UNCHANGED <<Composites, Typedefs, CompositeTys_, AnonTys_, done>>
  <2>1. /\ nAliased' = nAliased + 1 /\ nAliased < Len(Typedefs)
        /\ UNCHANGED <<Composites, Typedefs, mapVars, done>>
        BY Zenon DEF setAlias
  <2> QED BY <2>1 DEF Typed, ListsTyped, mapVars
<1>0. PICK t \in DIType : t = Typedefs[nAliased + 1] BY <1>1 DEF Typed, ListsTyped
<1> DEFINE ty == getTypeFromDIType(t)
           n  == DI[t].name
<1>2. AliasTys_' = try_emplace(AliasTys_, n, ty)
  <2>1. IF Fatal(ty) THEN status' = "fatal error" /\ UNCHANGED AliasTys_
        ELSE AliasTys_' = try_emplace(AliasTys_, n, ty)
        BY <1>0, Zenon DEF setAlias
  <2>2. status' = "running" BY DEF Sound, NoAbort
  <2> QED BY <2>1, <2>2
<1>3. Keys' = Keys BY <1>1 DEF Keys
<1>4. \A d : getTypeFromDIType(d)' = getTypeFromDIType(d) BY <1>1, <1>3, TypesKept
<1>5. TypedefsOnly' /\ KindFrom' BY <1>1, <1>3 DEF Named, TypedefsOnly, KindFrom
<1>6. AliasesOwn'
  <2> SUFFICES ASSUME ~done
               PROVE  /\ \A u \in DIType : Registered(u)' => DI[u].name \in DOMAIN AliasTys_'
                      /\ \A m \in DOMAIN AliasTys_' :
                           \E u \in DIType : /\ Registered(u)' /\ DI[u].name = m
                                             /\ AliasTys_'[m] = getTypeFromDIType(u)
        BY <1>1, <1>4 DEF AliasesOwn
  <2>1. DOMAIN AliasTys_' = DOMAIN AliasTys_ \cup {n}
        /\ \A m \in DOMAIN AliasTys_' : AliasTys_'[m] = IF m \in DOMAIN AliasTys_ THEN AliasTys_[m] ELSE ty
    <3> HIDE DEF n, ty
    <3> QED BY <1>2 DEF try_emplace
  <2>2. /\ \A i \in 1 .. nAliased : i \in 1 .. nAliased + 1
        /\ nAliased + 1 \in 1 .. nAliased + 1
        /\ \A i \in 1 .. nAliased + 1 : i = nAliased + 1 \/ i \in 1 .. nAliased
        BY <1>1
  <2>3. /\ Registered(t)' /\ \A u : Registered(u) => Registered(u)'
        /\ \A u : Registered(u)' => u = t \/ Registered(u)
        BY <1>0, <1>1, <2>2 DEF Registered
  <2> HIDE DEF ty
  <2>4. ASSUME NEW u \in DIType, Registered(u)' PROVE DI[u].name \in DOMAIN AliasTys_'
        BY <2>1, <2>3, <2>4 DEF Named, AliasesOwn
  <2>5. ASSUME NEW m \in DOMAIN AliasTys_'
        PROVE  \E u \in DIType : /\ Registered(u)' /\ DI[u].name = m
                                 /\ AliasTys_'[m] = getTypeFromDIType(u)
    <3>1. CASE m \in DOMAIN AliasTys_
      <4>1. PICK u \in DIType : /\ Registered(u) /\ DI[u].name = m
                                /\ AliasTys_[m] = getTypeFromDIType(u)
            BY <3>1 DEF Named, AliasesOwn
      <4> QED BY <2>1, <2>3, <3>1, <4>1
    <3>2. CASE m \notin DOMAIN AliasTys_
      <4>1. m = n /\ AliasTys_'[m] = ty BY <2>1, <3>2
      <4> QED BY <2>3, <4>1 DEF ty
    <3> QED BY <3>1, <3>2
  <2> QED BY <2>4, <2>5
<1> QED BY <1>5, <1>6 DEF Named

LEMMA NamedStep ==
    ASSUME NEW H \in Nat, NEW h, NestedBy(h, H), Typed, Staged, Sound', Named, [Next]_vars
    PROVE  Named'
<1>1. CASE UNCHANGED vars
  <2>1. Keys' = Keys /\ \A k \in Keys : CompositeTys_'[k].kind = CompositeTys_[k].kind
        BY <1>1 DEF vars, Keys
  <2> QED BY <1>1, <2>1, NamedKept DEF vars
<1>2. CASE processType \/ InlineNext \/ InlineInner
  <2>1. UNCHANGED <<Composites, Typedefs, mapVars, aliasVars, done>>
        BY <1>2, Zenon DEF processType, InlineNext, InlineInner
  <2>2. Keys' = Keys /\ \A k \in Keys : CompositeTys_'[k].kind = CompositeTys_[k].kind
        BY <2>1 DEF mapVars, Keys
  <2> QED BY <2>1, <2>2, NamedKept DEF mapVars, aliasVars
<1>3. CASE parseDIComposite
  <2>1. UNCHANGED <<Composites, Typedefs, AnonTys_, aliasVars, done>> BY <1>3, ParseSplit DEF Typed
  <2>2. Keys' = Keys /\ \A k \in Keys : CompositeTys_'[k].kind = CompositeTys_[k].kind
        BY <1>3, ParseMaps DEF Typed
  <2> QED BY <2>1, <2>2, NamedKept DEF aliasVars
<1>4. CASE InlineType
  <2>1. UNCHANGED <<Composites, Typedefs, AnonTys_, aliasVars, done>>
        BY <1>4, Zenon DEF InlineType
  <2>2. Keys' = Keys /\ \A k \in Keys : CompositeTys_'[k].kind = CompositeTys_[k].kind
        BY <1>4, LeaveMaps DEF Typed
  <2> QED BY <2>1, <2>2, NamedKept DEF aliasVars
<1>5. CASE Finish
  <2>1. UNCHANGED <<Composites, Typedefs, CompositeTys_, aliasVars>> /\ done' = TRUE
        BY <1>5, Zenon DEF Finish
  <2>2. Keys' = Keys /\ \A k \in Keys : CompositeTys_'[k].kind = CompositeTys_[k].kind
        BY <2>1 DEF Keys
  <2> QED BY <2>1, <2>2, NamedKept DEF aliasVars
<1>6. CASE Returned BY <1>1, <1>6 DEF Returned
<1> QED BY <1>1, <1>2, <1>3, <1>4, <1>5, <1>6, DeclareNamed, AliasNamed DEF Next

LEMMA NamedAlways ==
    ASSUME NEW H \in Nat, NEW h, NestedBy(h, H), NEW V, Readable(V), OneKind
    PROVE  Spec => []Named
<1>1. Init => Named
  <2> SUFFICES ASSUME Init PROVE Named OBVIOUS
  <2>1. Typedefs = <<>> /\ nAliased = 0 /\ AliasTys_ = <<>> /\ CompositeTys_ = <<>>
        BY DEF Init
  <2>2. Keys = {} /\ DOMAIN AliasTys_ = {} /\ 1 .. Len(Typedefs) = {} /\ 1 .. nAliased = {}
        BY <2>1 DEF Keys
  <2> QED BY <2>2 DEF Named, TypedefsOnly, AliasesOwn, KindFrom, Registered
<1>2. Typed /\ Staged /\ Sound' /\ Named /\ [Next]_vars => Named' BY NamedStep
<1> QED BY <1>1, <1>2, SoundAlways, PTL DEF Spec

(* Two definitions of one key have the same tag, or are the same node.     *)
LEMMA SameKey ==
    ASSUME Typed, Sound, AnonOwn, Declared, ~done, NEW k, NEW d, Defines(d, k), NEW e, Defines(e, k)
    PROVE  d = e \/ (~Tagless(d) /\ DI[e].name = DI[d].name)
<1>1. /\ DOMAIN types = 1 .. Len(types) /\ DOMAIN Composites = 1 .. Len(Composites)
      /\ nDeclared = Len(types)
      BY DEF Typed, ListsTyped, Declared
<1>2. ASSUME NEW x, Defines(x, k) PROVE Present(x)
  <2>1. x \in Range(types) /\ DI[x].tag \in CompositeTags
        BY <1>1, <1>2 DEF Defines, Sound, Listed, Range
  <2>2. PICK j \in 1 .. Len(types) : types[j] = x BY <1>1, <2>1 DEF Range
  <2> QED BY <1>1, <2>1, <2>2 DEF Sound, AllPresent
<1>3. ASSUME NEW x, Defines(x, k), NEW y, Defines(y, k), Tagless(x) PROVE x = y
  <2>1. x \in DOMAIN AnonTys_ /\ AnonTys_[x] = KeyOf(x)
        BY <1>2, <1>3, Zenon DEF Present, KeyOf, Tagless
  <2>2. KeyOf(x) = k BY <1>3 DEF Defines
  <2> QED BY <1>3, <2>1, <2>2, DefinerOwn
<1>4. CASE Tagless(d) \/ Tagless(e) BY <1>3, <1>4
<1>5. CASE ~Tagless(d) /\ ~Tagless(e)
  <2>1. KeyOf(d) = Key(DI[d].name) /\ KeyOf(e) = Key(DI[e].name) BY <1>5, Zenon DEF KeyOf, Tagless
  <2>2. Key(DI[d].name) = Key(DI[e].name) BY <2>1 DEF Defines
  <2> QED BY <1>5, <2>2, AnonKeys
<1> QED BY <1>4, <1>5

LEMMA DefinedShows ==
    ASSUME NEW g, Typed, Sound, Grown(g), Inlined, ~done, NEW d \in Range(Composites), Complete(d)
    PROVE  /\ KeyOf(d) \in Keys /\ Defines(d, KeyOf(d))
           /\ \E e \in DIType : Defines(e, KeyOf(d)) /\ Shown(KeyOf(d)) = Expected(e)
<1> DEFINE k == KeyOf(d)
<1>1. Parsed /\ Declared /\ frames = <<>> /\ iterated = Keys /\ nParsed = Len(Composites)
      BY DEF Inlined, Parsed, Keys
<1>2. ~IsEnum(DI[d].tag) BY DEF Complete, IsEnum
<1>3. k \in Keys /\ ~IsEnum(CompositeTys_[k].kind)
  <2>1. KeyOf(d) \in Keys /\ IsEnum(CompositeTys_[KeyOf(d)].kind) = IsEnum(DI[d].tag)
        BY <1>1, CollectedKey
  <2> QED BY <1>2, <2>1
<1>4. PICK i \in 1 .. Len(Composites) : Composites[i] = d
  <2>1. DOMAIN Composites = 1 .. Len(Composites) BY DEF Typed, ListsTyped
  <2> QED BY <2>1 DEF Range
<1>5. ~CompositeTys_[k].opaque BY <1>1, <1>4 DEF Grown, AllDefined
<1>6. 1 .. Len(frames) = {} BY <1>1
<1>7. Left(k) BY <1>1, <1>3, <1>6 DEF Grown, Walked, Left
<1> QED BY <1>3, <1>5, <1>7 DEF Grown, Filled, Shows, Defines

(* Before compile returns, a typedef name gives the structure or union it  *)
(* stands for, through other typedefs and qualifiers and whether or not    *)
(* that one has a tag, and a tag that is defined once gives its type, both *)
(* with exactly the members C gives them: in any order of the debug        *)
(* information, and when a typedef and another type's tag have one name.   *)
THEOREM NamesAsInC ==
    ASSUME NEW H \in Nat, NEW h, NestedBy(h, H), NEW V, Readable(V), OneKind, NamesOwn,
           NEW G \in Nat, NEW g, MembersNamed(g, G)
    PROVE  Spec => []NamesFaithful
<1>1. ASSUME Typed, Staged, Sound, Grown(g), Named PROVE NamesFaithful
  <2> SUFFICES ASSUME Aliased, ~done PROVE NamesFaithful BY Zenon DEF NamesFaithful
  <2>1. /\ Inlined /\ Declared /\ Found /\ nDeclared = Len(types) /\ nAliased = Len(Typedefs)
        /\ DOMAIN types = 1 .. Len(types) /\ DOMAIN Typedefs = 1 .. Len(Typedefs)
        /\ types \in Seq(DIType)
        BY <1>1 DEF Aliased, Inlined, Parsed, Declared, Typed, ListsTyped
  <2>2. ASSUME NEW t \in Range(Typedefs), NEW d, d = Underlying[t], d # NoNode, Complete(d)
        PROVE  /\ DI[t].name \in getTypes
               /\ \E k \in Keys :
                    getType(DI[t].name) = <<Composite(k)>> /\ Shown(k) = Expected(d)
    <3>1. PICK i \in 1 .. Len(Typedefs) : Typedefs[i] = t BY <2>1 DEF Range
    <3>2. t \in Range(types) /\ DI[t].tag = "typedef" /\ Registered(t)
          BY <1>1, <2>1, <3>1 DEF Sound, Listed, Named, TypedefsOnly, Registered
    <3>3. t \in DIType BY <2>1, <3>2 DEF Range
    <3>4. d \in Range(types) BY <1>1, <2>1, <2>2, <3>2, UnderlyingListed DEF Sound
    <3>5. PICK j \in 1 .. Len(types) : types[j] = d BY <2>1, <3>4 DEF Range
    <3>6. DI[d].tag \in CompositeTags /\ d \in DIType
          BY <2>1, <2>2, <3>5 DEF Complete, CompositeTags
    <3>7. d \in Range(Composites) /\ Present(d)
          BY <1>1, <2>1, <3>5, <3>6 DEF Grown, AllCollected, Sound, AllPresent
    <3>8. DI[t].name \in DOMAIN AliasTys_ BY <1>1, <3>2, <3>3 DEF Named, AliasesOwn
    <3>9. PICK u \in DIType : /\ Registered(u) /\ DI[u].name = DI[t].name
                              /\ AliasTys_[DI[t].name] = getTypeFromDIType(u)
          BY <1>1, <3>8 DEF Named, AliasesOwn
    <3>10. DI[u].tag = "typedef" BY <1>1, <2>1, <3>9 DEF Named, TypedefsOnly, Registered
    <3>11. /\ \A x \in DIType : DI[x].tag = "typedef" /\ DI[x].name = DI[t].name => Underlying[x] = d
           /\ \A e \in DIType : Complete(e) /\ DI[e].name = DI[d].name /\ ~Tagless(d) => e = d
           BY <2>2, <3>2, <3>3, Zenon DEF NamesOwn, Tagless
    <3>12. Underlying[u] = d BY <3>9, <3>10, <3>11
    <3>13. getTypeFromDIType(u) = <<Composite(KeyOf(d))>>
           BY <2>2, <3>6, <3>7, <3>12, UnderlyingType DEF Nodes
    <3>14. getType(DI[t].name) = <<Composite(KeyOf(d))>> BY <3>8, <3>9, <3>13 DEF getType
    <3>15. PICK e \in DIType : Defines(e, KeyOf(d)) /\ Shown(KeyOf(d)) = Expected(e)
           BY <1>1, <2>1, <2>2, <3>7, DefinedShows
    <3>16. KeyOf(d) \in Keys /\ Defines(d, KeyOf(d)) BY <1>1, <2>1, <2>2, <3>7, DefinedShows
    <3>17. d = e \/ (~Tagless(d) /\ DI[e].name = DI[d].name)
           BY <1>1, <2>1, <3>15, <3>16, SameKey DEF Grown
    <3>18. e = d BY <3>11, <3>15, <3>17 DEF Defines
    <3> QED BY <3>8, <3>14, <3>15, <3>16, <3>18 DEF getTypes
  <2>3. ASSUME NEW d \in Range(Composites), Complete(d), ~Tagless(d),
               \A e \in Range(Composites) : DI[e].name = DI[d].name => e = d
        PROVE  /\ DI[d].name \in getTypes
               /\ \E k \in Keys : /\ getCompositeType(DI[d].name, DI[d].tag) = <<Composite(k)>>
                                  /\ Shown(k) = Expected(d)
    <3> DEFINE k == Key(DI[d].name)
    <3>1. KeyOf(d) = k BY <2>3, Zenon DEF KeyOf, Tagless
    <3>2. k \in Keys /\ Defines(d, k) BY <1>1, <2>1, <2>3, <3>1, DefinedShows
    <3>3. PICK e \in DIType : Defines(e, k) /\ Shown(k) = Expected(e)
          BY <1>1, <2>1, <2>3, <3>1, DefinedShows
    <3>4. d = e \/ DI[e].name = DI[d].name BY <1>1, <2>1, <3>2, <3>3, SameKey DEF Grown
    <3>5. e = d BY <2>3, <3>3, <3>4 DEF Defines
    <3>6. k[1] = DI[d].name /\ k[2] = 0 BY DEF Key
    <3>7. PICK f \in DIType : /\ f \in Range(Composites) /\ k = Key(DI[f].name)
                              /\ CompositeTys_[k].kind = DI[f].tag
          BY <1>1, <3>2, <3>6 DEF Named, KindFrom
    <3>8. f = d BY <2>3, <3>7, AnonKeys
    <3>9. getCompositeType(DI[d].name, DI[d].tag) = <<Composite(k)>>
          BY <3>2, <3>7, <3>8 DEF getCompositeType, Keys
    <3>10. DI[d].name \in getTypes BY <3>2, <3>6 DEF getTypes, Keys
    <3> QED BY <3>2, <3>3, <3>5, <3>9, <3>10
  <2> QED BY <2>2, <2>3, Zenon DEF NamesFaithful, Keys, Tagless
<1>2. Typed /\ Staged /\ Sound /\ Grown(g) /\ Named => NamesFaithful BY <1>1
<1> QED BY <1>2, GrownAlways, NamedAlways, PTL
-----------------------------------------------------------------------------
(***************************************************************************)
(* Alignments.                                                             *)
(***************************************************************************)
(* What a node stands for contains no more than the node.                  *)
LEMMA UnderlyingContained ==
    ASSUME NEW H \in Nat, NEW h, NestedBy(h, H), NEW S \in Nat, NEW s, Contained(s, S)
    PROVE  \A d \in Nodes : /\ Underlying[d] \in Nodes
                            /\ Underlying[d] # NoNode => d # NoNode /\ s[Underlying[d]] <= s[d]
<1> DEFINE Small(d) == /\ Underlying[d] \in Nodes
                       /\ Underlying[d] # NoNode => d # NoNode /\ s[Underlying[d]] <= s[d]
           P == {d \in Nodes : Small(d)}
<1>1. \A d \in Nodes : Underlying[d] = IF Aliasing(d) THEN Underlying[DI[d].base] ELSE d
      BY UnderlyingUnfold
<1>2. \A d \in DIType : s[d] \in Nat BY DEF Contained
<1>3. ASSUME NEW d \in Nodes, d # NoNode /\ DI[d].tag \in DerivedTags => PartsOf(d) \subseteq P
      PROVE  d \in P
  <2>1. CASE Aliasing(d)
    <3> DEFINE b == DI[d].base
    <3>1. /\ d \in DIType /\ d # NoNode /\ DI[d].tag \in DerivedTags /\ PartsOf(d) = {b}
          /\ b \in Nodes /\ DI[d].tag \in SameTags \cup {"const_type", "array_type"}
          BY <2>1, AliasingIs DEF Aliasing
    <3>2. Small(b) BY <1>3, <3>1
    <3>3. b # NoNode => b \in DIType /\ s[b] < s[d] BY <3>1 DEF Contained, Nodes
    <3>4. Underlying[d] = Underlying[b] BY <1>1, <2>1
    <3> HIDE DEF b
    <3>5. CASE Underlying[b] = NoNode BY <3>2, <3>4, <3>5
    <3>6. CASE Underlying[b] # NoNode
      <4>1. s[Underlying[b]] \in Nat /\ s[b] \in Nat /\ s[d] \in Nat
            BY <1>2, <3>1, <3>2, <3>3, <3>6 DEF Nodes
      <4>2. s[Underlying[b]] <= s[d] BY <3>2, <3>3, <3>6, <4>1
      <4> QED BY <3>1, <3>2, <3>4, <4>2
    <3> QED BY <3>5, <3>6
  <2>2. CASE ~Aliasing(d)
    <3>1. Underlying[d] = d BY <1>1, <2>2
    <3>2. d # NoNode => s[d] \in Nat BY <1>2 DEF Nodes
    <3> QED BY <3>1, <3>2
  <2> QED BY <2>1, <2>2
<1>4. Nodes \subseteq P
  <2> HIDE DEF P
  <2> QED BY <1>3, NodesBy
<1> QED BY <1>4

LEMMA HeldContained ==
    ASSUME NEW H \in Nat, NEW h, NestedBy(h, H), NEW S \in Nat, NEW s, Contained(s, S),
           NEW d \in DIType, NEW e \in Held(d)
    PROVE  e \in DIType /\ s[e] < s[d]
<1>1. PICK i \in DOMAIN DI[d].elems : e = Underlying[DI[d].elems[i].base] BY DEF Held
<1>2. e # NoNode BY DEF Held
<1> DEFINE b == DI[d].elems[i].base
<1>3. b \in Nodes BY ElemsOf
<1>4. e \in Nodes /\ b # NoNode /\ s[e] <= s[b] BY <1>1, <1>2, <1>3, UnderlyingContained
<1>5. s[b] < s[d] BY <1>4 DEF Contained
<1>6. e \in DIType /\ b \in DIType BY <1>2, <1>3, <1>4 DEF Nodes
<1>7. s[e] \in Nat /\ s[b] \in Nat /\ s[d] \in Nat BY <1>6 DEF Contained
<1> HIDE DEF b
<1> QED BY <1>4, <1>5, <1>6, <1>7

LEMMA InsideUnfold ==
    ASSUME NEW H \in Nat, NEW h, NestedBy(h, H), NEW S \in Nat, NEW s, Contained(s, S)
    PROVE  \A d \in DIType : Inside[d] = InsideOf(Inside, d)
<1> DEFINE F == [DIType -> SUBSET Nodes]
           T == [I \in F |-> [d \in DIType |-> InsideOf(I, d)]]
<1>1. s \in [DIType -> 0 .. S] BY DEF Contained
<1>2. \A d \in DIType : \A e \in Held(d) : e \in DIType /\ s[e] < s[d] BY HeldContained
<1>3. T \in [F -> F]
  <2> SUFFICES ASSUME NEW I \in F, NEW d \in DIType PROVE InsideOf(I, d) \subseteq Nodes OBVIOUS
  <2>1. \A e \in Held(d) : {e} \cup I[e] \subseteq Nodes BY <1>2 DEF Nodes
  <2> QED BY <2>1 DEF InsideOf
<1>4. \A I \in F, d \in DIType : T[I][d] = InsideOf(I, d) OBVIOUS
<1> HIDE DEF T
<1>5. ASSUME NEW M \in F, NEW N \in F, NEW d \in DIType,
             \A p \in DIType : s[p] < s[d] => M[p] = N[p]
      PROVE  T[M][d] = T[N][d]
  <2>1. \A e \in Held(d) : M[e] = N[e] BY <1>2, <1>5
  <2>2. InsideOf(M, d) = InsideOf(N, d) BY <2>1 DEF InsideOf
  <2> QED BY <1>4, <2>2
<1>6. Decreasing(DIType, SUBSET Nodes, S, s, T)
  <2>1. F # {}
    <3>1. [d \in DIType |-> {}] \in F OBVIOUS
    <3> QED BY <3>1
  <2> QED BY <1>1, <1>3, <1>5, <2>1 DEF Decreasing
<1>7. PICK I \in F : I = T[I] BY <1>6, Recursion
<1>8. I = [d \in DIType |-> InsideOf(I, d)] BY <1>7 DEF T
<1>9. Inside = [d \in DIType |-> InsideOf(Inside, d)] BY <1>8 DEF Inside
<1> QED BY <1>9

(* The alignment of a structure or union, if A is that of other nodes.     *)
Largest(A, d) ==
    Max({DI[d].aligned} \cup (IF DI[d].packed THEN {}
                              ELSE {A[DI[d].elems[i].base] : i \in DOMAIN DI[d].elems}))

LEMMA LargestIs ==
    ASSUME NEW d \in DIType, NEW A,
           \A i \in DOMAIN DI[d].elems : A[DI[d].elems[i].base] \in Nat \ {0}
    PROVE  /\ Largest(A, d) \in Nat \ {0} /\ 1 <= Largest(A, d)
           /\ ~DI[d].packed =>
                \A i \in 1 .. Len(DI[d].elems) : A[DI[d].elems[i].base] <= Largest(A, d)
<1> DEFINE n == IF DI[d].packed THEN 0 ELSE Len(DI[d].elems)
           a == DI[d].aligned
           f == [i \in 1 .. n |-> A[DI[d].elems[i].base]]
           X == {a} \cup {f[i] : i \in 1 .. n}
<1>1. /\ n \in Nat /\ DOMAIN DI[d].elems = 1 .. Len(DI[d].elems)
      /\ 1 .. n \subseteq DOMAIN DI[d].elems /\ a \in Nat \ {0}
      BY ElemsOf, DebugInfoAssumption
<1>2. \A i \in 1 .. n : f[i] = A[DI[d].elems[i].base] /\ f[i] \in Nat /\ f[i] # 0 BY <1>1
<1>3. (IF DI[d].packed THEN {} ELSE {A[DI[d].elems[i].base] : i \in DOMAIN DI[d].elems})
        = {f[i] : i \in 1 .. n}
  <2>1. CASE DI[d].packed
    <3>1. n = 0 /\ 1 .. n = {} BY <2>1
    <3> QED BY <2>1, <3>1
  <2>2. CASE ~DI[d].packed
    <3>1. n = Len(DI[d].elems) /\ DOMAIN DI[d].elems = 1 .. n BY <1>1, <2>2
    <3> HIDE DEF n, f
    <3> QED BY <1>2, <2>2, <3>1
  <2> QED BY <2>1, <2>2
<1>4. Largest(A, d) = Max(X) BY <1>3 DEF Largest
<1>5. ~DI[d].packed => n = Len(DI[d].elems) OBVIOUS
<1> HIDE DEF f, n, a
<1>6. Max(X) \in X /\ Max(X) \in Nat /\ \A y \in X : y <= Max(X)
  <2>1. \A x \in Nat : LET S == {x} \cup {f[i] : i \in 1 .. n}
                       IN Max(S) \in S /\ Max(S) \in Nat /\ \A y \in S : y <= Max(S)
    <3>1. n \in Nat /\ \A i \in 1 .. n : f[i] \in Nat BY <1>1, <1>2
    <3> HIDE DEF X
    <3> QED BY <3>1, MaxWith
  <2> QED BY <1>1, <2>1
<1>7. \A i \in 1 .. n : f[i] <= Max(X) BY <1>6
<1>8. Max(X) # 0 BY <1>1, <1>2, <1>6
<1> HIDE DEF X
<1>9. Max(X) \in Nat \ {0} /\ 1 <= Max(X) BY <1>6, <1>8
<1> QED BY <1>2, <1>4, <1>5, <1>7, <1>9

LEMMA AlignCases ==
    ASSUME NEW V, Readable(V), NEW d \in DIType
    PROVE  /\ DI[d].tag = "base_type" => \A A : AlignOf(A, d) =
                IF DI[d].name \in DOMAIN BasicAlign THEN BasicAlign[DI[d].name] ELSE 1
           /\ DI[d].tag = "enumeration_type" => \A A : AlignOf(A, d) = IntAlign
           /\ DI[d].tag \in {"structure_type", "union_type"} =>
                \A A : AlignOf(A, d) = Largest(A, d)
           /\ DI[d].tag \in SameTags \cup {"const_type", "array_type"} =>
                \A A : AlignOf(A, d) = A[DI[d].base]
           /\ DI[d].tag \in {"pointer_type", "reference_type", "subroutine_type"} =>
                \A A : AlignOf(A, d) = PtrAlign
           /\ \/ DI[d].tag \in {"base_type", "enumeration_type", "structure_type", "union_type"}
              \/ DI[d].tag \in SameTags \cup {"const_type", "array_type"}
              \/ DI[d].tag \in {"pointer_type", "reference_type", "subroutine_type"}
<1>1. d # NoNode BY DebugInfoAssumption
<1>2. DI[d].tag = "base_type" => \A A : AlignOf(A, d) =
        IF DI[d].name \in DOMAIN BasicAlign THEN BasicAlign[DI[d].name] ELSE 1
      BY <1>1 DEF AlignOf, SameTags
<1>3. DI[d].tag = "enumeration_type" => \A A : AlignOf(A, d) = IntAlign
      BY <1>1 DEF AlignOf, SameTags
<1>4. DI[d].tag \in {"structure_type", "union_type"} => \A A : AlignOf(A, d) = Largest(A, d)
      BY <1>1 DEF AlignOf, SameTags, Largest
<1>5. DI[d].tag \in SameTags \cup {"const_type", "array_type"} => \A A : AlignOf(A, d) = A[DI[d].base]
      BY <1>1 DEF AlignOf, SameTags
<1>6. DI[d].tag \in {"pointer_type", "reference_type", "subroutine_type"} =>
        \A A : AlignOf(A, d) = PtrAlign
      BY <1>1 DEF AlignOf, SameTags
<1>7. DI[d].tag \in DerivedTags \cup CompositeTags \cup {"base_type", "reference_type"}
      BY DEF Readable
<1> QED BY <1>2, <1>3, <1>4, <1>5, <1>6, <1>7 DEF DerivedTags, CompositeTags

LEMMA AlignUnfold ==
    ASSUME NEW S \in Nat, NEW s, Contained(s, S), NEW V, Readable(V)
    PROVE  /\ AlignInC \in [Nodes -> Nat \ {0}]
           /\ \A d \in Nodes : AlignInC[d] = AlignOf(AlignInC, d)
<1> DEFINE U == Nat \ {0}
           F == [Nodes -> U]
           r == [d \in Nodes |-> IF d = NoNode THEN 0 ELSE s[d] + 1]
           T == [A \in F |-> [d \in Nodes |-> AlignOf(A, d)]]
<1>1. r \in [Nodes -> 0 .. S + 1]
  <2> SUFFICES ASSUME NEW d \in Nodes PROVE (IF d = NoNode THEN 0 ELSE s[d] + 1) \in 0 .. S + 1
        OBVIOUS
  <2>1. d # NoNode => s[d] \in 0 .. S BY DEF Contained, Nodes
  <2> QED BY <2>1
<1>2. \A A : AlignOf(A, NoNode) = 1 BY DEF AlignOf
<1>3. ASSUME NEW d \in DIType, NEW b \in Nodes, b # NoNode => s[b] < s[d]
      PROVE  r[b] < r[d]
  <2>1. s[d] \in Nat /\ r[d] = s[d] + 1 BY DebugInfoAssumption DEF Contained, Nodes
  <2>2. b # NoNode => s[b] \in Nat BY DEF Contained, Nodes
  <2>3. r[b] = IF b = NoNode THEN 0 ELSE s[b] + 1 OBVIOUS
  <2> HIDE DEF r
  <2> QED BY <1>3, <2>1, <2>2, <2>3
<1>4. ASSUME NEW d \in DIType
      PROVE  /\ DI[d].tag \in SameTags \cup {"const_type", "array_type"} =>
                  DI[d].base \in Nodes /\ r[DI[d].base] < r[d]
             /\ \A i \in DOMAIN DI[d].elems :
                  DI[d].elems[i].base \in Nodes /\ r[DI[d].elems[i].base] < r[d]
  <2> HIDE DEF r
  <2>1. ASSUME DI[d].tag \in SameTags \cup {"const_type", "array_type"}
        PROVE  DI[d].base \in Nodes /\ r[DI[d].base] < r[d]
    <3>1. DI[d].base \in Nodes BY DebugInfoAssumption DEF Nodes
    <3>2. DI[d].base # NoNode => s[DI[d].base] < s[d] BY <2>1 DEF Contained
    <3> QED BY <1>3, <3>1, <3>2
  <2>2. ASSUME NEW i \in DOMAIN DI[d].elems
        PROVE  DI[d].elems[i].base \in Nodes /\ r[DI[d].elems[i].base] < r[d]
    <3>1. DI[d].elems[i].base \in Nodes BY ElemsOf
    <3>2. DI[d].elems[i].base # NoNode => s[DI[d].elems[i].base] < s[d] BY DEF Contained
    <3> QED BY <1>3, <3>1, <3>2
  <2> QED BY <2>1, <2>2
<1>5. ASSUME NEW A, NEW d \in Nodes, \A p \in Nodes : r[p] < r[d] => A[p] \in U
      PROVE  AlignOf(A, d) \in U
  <2>1. CASE d = NoNode BY <1>2, <2>1
  <2>2. CASE d # NoNode
    <3>1. d \in DIType BY <2>2 DEF Nodes
    <3> HIDE DEF r
    <3>2. CASE DI[d].tag = "base_type"
      <4>1. DI[d].name \in DOMAIN BasicAlign => BasicAlign[DI[d].name] \in U
            BY <3>1, <3>2, DebugInfoAssumption DEF Readable
      <4> QED BY <3>1, <3>2, <4>1, AlignCases
    <3>3. CASE DI[d].tag \in {"structure_type", "union_type"}
      <4>1. \A i \in DOMAIN DI[d].elems : A[DI[d].elems[i].base] \in U BY <1>4, <1>5, <3>1
      <4> QED BY <3>1, <3>3, <4>1, AlignCases, LargestIs
    <3>4. CASE DI[d].tag \in SameTags \cup {"const_type", "array_type"}
      <4>1. A[DI[d].base] \in U BY <1>4, <1>5, <3>1, <3>4
      <4> QED BY <3>1, <3>4, <4>1, AlignCases
    <3>5. PtrAlign \in U /\ IntAlign \in U BY DebugInfoAssumption
    <3> QED BY <3>1, <3>2, <3>3, <3>4, <3>5, AlignCases
  <2> QED BY <2>1, <2>2
<1>6. T \in [F -> F]
  <2>1. \A A \in F, d \in Nodes : AlignOf(A, d) \in U
    <3> HIDE DEF r
    <3> QED BY <1>5
  <2> QED BY <2>1
<1>7. \A A \in F, d \in Nodes : T[A][d] = AlignOf(A, d) OBVIOUS
<1> HIDE DEF r, T
<1>8. ASSUME NEW M \in F, NEW N \in F, NEW d \in Nodes, \A p \in Nodes : r[p] < r[d] => M[p] = N[p]
      PROVE  T[M][d] = T[N][d]
  <2>1. CASE d = NoNode BY <1>2, <1>7, <2>1
  <2>2. CASE d # NoNode
    <3>1. d \in DIType BY <2>2 DEF Nodes
    <3>2. CASE DI[d].tag \in {"structure_type", "union_type"}
      <4>1. \A i \in DOMAIN DI[d].elems : M[DI[d].elems[i].base] = N[DI[d].elems[i].base]
            BY <1>4, <1>8, <3>1
      <4>2. {M[DI[d].elems[i].base] : i \in DOMAIN DI[d].elems}
              = {N[DI[d].elems[i].base] : i \in DOMAIN DI[d].elems}
            BY <4>1
      <4>3. Largest(M, d) = Largest(N, d) BY <4>2 DEF Largest
      <4>4. \A A : AlignOf(A, d) = Largest(A, d) BY <3>1, <3>2, AlignCases
      <4> QED BY <1>7, <4>3, <4>4
    <3>3. CASE DI[d].tag \in SameTags \cup {"const_type", "array_type"}
      <4>1. M[DI[d].base] = N[DI[d].base] BY <1>4, <1>8, <3>1, <3>3
      <4>2. \A A : AlignOf(A, d) = A[DI[d].base] BY <3>1, <3>3, AlignCases
      <4> QED BY <1>7, <4>1, <4>2
    <3>4. CASE ~(DI[d].tag \in {"structure_type", "union_type"})
               /\ ~(DI[d].tag \in SameTags \cup {"const_type", "array_type"})
      <4>1. AlignOf(M, d) = AlignOf(N, d) BY <3>1, <3>4, AlignCases
      <4> QED BY <1>7, <4>1
    <3> QED BY <3>2, <3>3, <3>4
  <2> QED BY <2>1, <2>2
<1>9. Decreasing(Nodes, U, S + 1, r, T)
  <2>1. F # {}
    <3>1. [d \in Nodes |-> 1] \in F OBVIOUS
    <3> QED BY <3>1
  <2> QED BY <1>1, <1>6, <1>8, <2>1 DEF Decreasing
<1>10. PICK A \in F : A = T[A] BY <1>9, Recursion
<1>11. A = [d \in Nodes |-> AlignOf(A, d)] BY <1>10 DEF T
<1>12. AlignInC = [d \in Nodes |-> AlignOf(AlignInC, d)] BY <1>11 DEF AlignInC, Nodes
<1>13. \A d \in Nodes : AlignInC[d] = AlignOf(AlignInC, d) BY <1>12
<1> DEFINE Bad == {n \in Nat : \E d \in Nodes : r[d] = n /\ AlignInC[d] \notin U}
<1>14. Bad = {}
  <2> SUFFICES ASSUME Bad # {} PROVE FALSE OBVIOUS
  <2>1. Bad \in SUBSET Nat OBVIOUS
  <2>2. PICK n \in Bad : \A k \in Bad : n <= k
    <3> HIDE DEF Bad
    <3> QED BY <2>1, Least
  <2>3. PICK d \in Nodes : r[d] = n /\ AlignInC[d] \notin U OBVIOUS
  <2>4. ASSUME NEW p \in Nodes, r[p] < r[d], AlignInC[p] \notin U PROVE FALSE
    <3>1. r[p] \in Nat /\ n \in Nat BY <1>1
    <3>2. r[p] \in Bad BY <2>4, <3>1
    <3>3. n <= r[p] BY <2>2, <3>2
    <3> HIDE DEF Bad
    <3> QED BY <2>3, <2>4, <3>1, <3>3
  <2>5. AlignOf(AlignInC, d) \in U BY <1>5, <2>4
  <2> QED BY <1>13, <2>3, <2>5
<1>15. \A d \in Nodes : AlignInC[d] \in U BY <1>1, <1>14
<1>16. AlignInC = [d \in Nodes |-> AlignInC[d]] BY <1>12
<1> QED BY <1>13, <1>15, <1>16

(* What the type of a node that is no typedef starts with.                 *)
Start(e) ==
    IF DI[e].tag \in {"pointer_type", "array_type"}
    THEN IF DI[e].tag = "pointer_type" \/ DI[e].count = 0 THEN Pointer ELSE ArrayOf(DI[e].count)
    ELSE Letter(e)

(* Word w starts with the letter x, const aside.                           *)
Starts(w, x) == w[1] = x \/ (w[1] = Const /\ w[2] = x)

LEMMA StartKept ==
    ASSUME NEW S, NEW w \in Word(S), NEW x, x # Const, Starts(w, x)
    PROVE  Starts(WithConst(w), x) /\ getType_(w)[1] = x
<1>1. w \in Seq(S) /\ w # <<>> /\ (w[1] = Const => Len(w) > 1) BY DEF Word
<1>2. CASE isConst(w)
  <2>1. WithConst(w) = w /\ getType_(w) = Tail(w) /\ w[1] = Const
        BY <1>2 DEF WithConst, getType_, isConst
  <2>2. w[2] = x BY <2>1 DEF Starts
  <2>3. Tail(w)[1] = w[2] BY <1>1, <2>1
  <2> QED BY <2>1, <2>2, <2>3
<1>3. CASE ~isConst(w)
  <2>1. WithConst(w) = <<Const>> \o w /\ getType_(w) = w /\ w[1] # Const
        BY <1>3 DEF WithConst, getType_, isConst
  <2>2. w[1] = x BY <2>1 DEF Starts
  <2>3. (<<Const>> \o w)[1] = Const /\ (<<Const>> \o w)[2] = w[1]
    <3> HIDE DEF Const
    <3> QED BY <1>1
  <2> QED BY <2>1, <2>2, <2>3 DEF Starts
<1> QED BY <1>2, <1>3

LEMMA TypeStarts ==
    ASSUME NEW H \in Nat, NEW h, NestedBy(h, H), MapsTyped
    PROVE  \A d \in Nodes :
             LET e == Underlying[d] IN
             e # NoNode /\ DI[e].tag # "subroutine_type" => getTypeFromDIType(d)[1] = Start(e)
<1> DEFINE Q == QualTypes
           S == Alphabet(Keys)
           Good(d) == Underlying[d] # NoNode /\ DI[Underlying[d]].tag # "subroutine_type" =>
                        Starts(Q[d], Start(Underlying[d]))
           P == {d \in Nodes : Good(d)}
<1>1. \A e : Start(e) # Const
  <2>1. \A n : ArrayOf(n) # Const /\ Pointer # Const BY Letters
  <2> QED BY <2>1, LetterNotConst DEF Start
<1>2. \A d \in Nodes : Q[d] = getQualTypeFromDIType(Q, d) BY QualTypesUnfold
<1>3. \A d \in Nodes : Underlying[d] = IF Aliasing(d) THEN Underlying[DI[d].base] ELSE d
      BY UnderlyingUnfold
<1>4. \A d \in Nodes : Q[d] \in Word(S) BY NodeWords
<1> HIDE DEF Q, S
<1>5. ASSUME NEW d \in Nodes, d # NoNode /\ DI[d].tag \in DerivedTags => PartsOf(d) \subseteq P
      PROVE  d \in P
  <2> DEFINE e == Underlying[d]
  <2> SUFFICES ASSUME e # NoNode, DI[e].tag # "subroutine_type" PROVE Starts(Q[d], Start(e))
      OBVIOUS
  <2>1. CASE Aliasing(d)
    <3>1. /\ d \in DIType /\ d # NoNode /\ DI[d].tag \in DerivedTags /\ PartsOf(d) = {DI[d].base}
          /\ DI[d].base \in Nodes
          BY <2>1, AliasingIs DEF Aliasing
    <3>2. Underlying[d] = Underlying[DI[d].base] BY <1>3, <2>1
    <3>3. Starts(Q[DI[d].base], Start(e)) BY <1>5, <3>1, <3>2
    <3>4. CASE DI[d].tag \in SameTags
          BY <1>2, <3>1, <3>3, <3>4 DEF getQualTypeFromDIType, SameTags
    <3>5. CASE DI[d].tag = "const_type"
      <4>1. Q[d] = WithConst(Q[DI[d].base]) BY <1>2, <3>1, <3>5 DEF getQualTypeFromDIType, SameTags
      <4>2. Q[DI[d].base] \in Word(S) BY <1>4, <3>1
      <4> HIDE DEF e
      <4> QED BY <1>1, <3>3, <4>1, <4>2, StartKept
    <3> QED BY <2>1, <3>4, <3>5 DEF Aliasing
  <2>2. CASE ~Aliasing(d)
    <3>1. e = d BY <1>3, <2>2
    <3>2. d \in DIType /\ d # NoNode BY <3>1 DEF Nodes
    <3> HIDE DEF e
    <3>3. CASE DI[d].tag \notin DerivedTags
      <4>1. Q[d] = <<Letter(d)>> BY <1>2, <3>2, <3>3 DEF getQualTypeFromDIType
      <4>2. Start(d) = Letter(d) BY <3>3 DEF Start, DerivedTags
      <4> QED BY <3>1, <4>1, <4>2 DEF Starts
    <3>4. CASE DI[d].tag \in {"pointer_type", "array_type"}
      <4> DEFINE w == Q[DI[d].base]
      <4>1. Q[d] = <<Start(d)>> \o w
        <5>1. DI[d].tag \in DerivedTags /\ DI[d].tag \notin SameTags /\ DI[d].tag # "const_type"
              BY <3>4 DEF DerivedTags, SameTags
        <5> QED BY <1>2, <3>2, <3>4, <5>1 DEF getQualTypeFromDIType, Start
      <4>2. w \in Seq(S) BY <1>4, <3>2, DebugInfoAssumption DEF Nodes, Word
      <4> HIDE DEF w
      <4>3. (<<Start(d)>> \o w)[1] = Start(d)
        <5> DEFINE x == Start(d)
        <5> HIDE DEF x
        <5>1. (<<x>> \o w)[1] = x BY <4>2
        <5> QED BY <5>1 DEF x
      <4> QED BY <3>1, <4>1, <4>3 DEF Starts
    <3> QED BY <2>2, <3>1, <3>2, <3>3, <3>4 DEF Aliasing, DerivedTags
  <2> QED BY <2>1, <2>2
<1>6. Nodes \subseteq P
  <2> HIDE DEF P
  <2> QED BY <1>5, NodesBy
<1>7. ASSUME NEW d \in Nodes, Underlying[d] # NoNode, DI[Underlying[d]].tag # "subroutine_type"
      PROVE  getType_(Q[d])[1] = Start(Underlying[d])
  <2>1. Q[d] \in Word(S) /\ Starts(Q[d], Start(Underlying[d])) BY <1>4, <1>6, <1>7
  <2> QED BY <1>1, <2>1, StartKept
<1> QED BY <1>7 DEF getTypeFromDIType, Q

(* What members stand for is aligned as they are.                          *)
LEMMA UnderlyingAlign ==
    ASSUME NEW H \in Nat, NEW h, NestedBy(h, H), NEW S \in Nat, NEW s, Contained(s, S),
           NEW V, Readable(V)
    PROVE  \A d \in V : /\ Underlying[d] \in V /\ ~Aliasing(Underlying[d])
                        /\ AlignInC[Underlying[d]] = AlignInC[d]
<1> DEFINE Good(d) == /\ Underlying[d] \in V /\ ~Aliasing(Underlying[d])
                      /\ AlignInC[Underlying[d]] = AlignInC[d]
           P == {d \in Nodes : d \in V => Good(d)}
<1>1. \A d \in Nodes : Underlying[d] = IF Aliasing(d) THEN Underlying[DI[d].base] ELSE d
      BY UnderlyingUnfold
<1>2. V \subseteq DIType /\ V \subseteq Nodes BY DEF Readable, Nodes
<1>3. ASSUME NEW d \in Nodes, d # NoNode /\ DI[d].tag \in DerivedTags => PartsOf(d) \subseteq P
      PROVE  d \in P
  <2> SUFFICES ASSUME d \in V PROVE Good(d) OBVIOUS
  <2>1. CASE Aliasing(d)
    <3>1. /\ d \in DIType /\ d # NoNode /\ DI[d].tag \in DerivedTags /\ PartsOf(d) = {DI[d].base}
          /\ DI[d].base \in Nodes /\ DI[d].tag \in SameTags \cup {"const_type"}
          BY <2>1, AliasingIs DEF Aliasing
    <3>2. DI[d].base \in V BY <3>1 DEF Readable
    <3>3. Good(DI[d].base) BY <1>3, <3>1, <3>2
    <3>4. AlignInC[d] = AlignOf(AlignInC, d) BY AlignUnfold
    <3>5. AlignOf(AlignInC, d) = AlignInC[DI[d].base] BY <3>1, AlignCases
    <3> QED BY <1>1, <2>1, <3>3, <3>4, <3>5
  <2>2. CASE ~Aliasing(d) BY <1>1, <2>2
  <2> QED BY <2>1, <2>2
<1>4. Nodes \subseteq P
  <2> HIDE DEF P
  <2> QED BY <1>3, NodesBy
<1> QED BY <1>2, <1>4

(* The alignment the code takes a member b to have, if e is what b stands  *)
(* for: only that of a structure or union depends on what has been parsed. *)
LEMMA MemberAlign ==
    ASSUME NEW H \in Nat, NEW h, NestedBy(h, H), NEW S \in Nat, NEW s, Contained(s, S),
           NEW V, Readable(V), Sized(V), NEW g, Typed, Sound, Grown(g), Declared, ~done,
           NEW b \in V, NEW e \in Range(types), Underlying[b] = e
    PROVE  LET a == getAlign(getTypeFromDIType(b)) IN
           \/ ~Complete(e) /\ a = AlignInC[e]
           \/ DI[e].tag = "array_type" /\ a = 1
           \/ /\ Complete(e) /\ Defines(e, KeyOf(e)) /\ KeyOf(e) \in Keys
              /\ ~IsEnum(CompositeTys_[KeyOf(e)].kind)
              /\ a = CompositeTys_[KeyOf(e)].Align_
<1> DEFINE t == getTypeFromDIType(b)
           k == KeyOf(e)
<1>1. /\ types \in Seq(DIType) /\ nDeclared = Len(types) /\ DOMAIN types = 1 .. Len(types)
      /\ MapsTyped
      BY DEF Typed, ListsTyped, Declared
<1>2. e \in V /\ ~Aliasing(e) BY UnderlyingAlign
<1>3. e \in DIType /\ e \in Nodes /\ b \in Nodes /\ e # NoNode
      BY <1>2, DebugInfoAssumption DEF Readable, Nodes
<1>4. AlignInC[e] = AlignOf(AlignInC, e) BY <1>3, AlignUnfold
<1>5. PICK j \in 1 .. Len(types) : types[j] = e BY <1>1 DEF Range
<1>6. /\ DI[e].tag \notin {"reference_type", "subroutine_type"}
      /\ DI[e].tag \in CompositeTags => ~DI[e].cxx
      /\ DI[e].tag = "base_type" =>
           DI[e].name \in DOMAIN BasicAlign /\ BasicAlign[DI[e].name] # 0
      /\ DI[e].tag \in {"pointer_type", "array_type", "base_type"} \cup CompositeTags
  <2>1. DI[e].tag \in DerivedTags \cup CompositeTags \cup {"base_type", "reference_type"}
        BY <1>3 DEF Readable
  <2>2. DI[e].tag \notin SameTags \cup {"const_type"} BY <1>2, <1>3 DEF Aliasing
  <2>3. DI[e].tag \notin {"reference_type", "subroutine_type"} BY <1>2 DEF Readable
  <2>4. DI[e].tag \in {"pointer_type", "array_type", "base_type"} \cup CompositeTags
        BY <2>1, <2>2, <2>3 DEF DerivedTags
  <2>5. /\ DI[e].tag \in CompositeTags => ~DI[e].cxx
        /\ DI[e].tag = "base_type" => DI[e].name \in DOMAIN BasicAlign
        BY <1>2 DEF Readable
  <2>6. DI[e].tag = "base_type" /\ DI[e].name \in DOMAIN BasicAlign => BasicAlign[DI[e].name] # 0
        BY <1>3 DEF Readable
  <2> QED BY <2>3, <2>4, <2>5, <2>6
<1>7. t[1] = Start(e) BY <1>1, <1>3, <1>6, TypeStarts
<1> HIDE DEF t
<1>8. CASE DI[e].tag = "base_type"
  <2>1. Start(e) = Basic(DI[e].name) BY <1>6, <1>8 DEF Start, Letter
  <2>2. t[1][1] = "basic" /\ t[1][2] = DI[e].name BY <1>7, <2>1, Letters
  <2>3. getAlign(t) = BasicAlign[DI[e].name] BY <2>2 DEF getAlign
  <2>4. AlignInC[e] = BasicAlign[DI[e].name] BY <1>3, <1>4, <1>6, <1>8, AlignCases
  <2> QED BY <1>8, <2>3, <2>4 DEF Complete, t
<1>9. CASE DI[e].tag = "pointer_type"
  <2>1. Start(e) = Pointer BY <1>9 DEF Start
  <2>2. t[1][1] = "pointer" BY <1>7, <2>1, Letters
  <2>3. getAlign(t) = PtrAlign BY <2>2 DEF getAlign
  <2>4. AlignInC[e] = PtrAlign BY <1>3, <1>4, <1>9, AlignCases
  <2> QED BY <1>9, <2>3, <2>4 DEF Complete, t
<1>10. CASE DI[e].tag = "array_type"
  <2>1. Start(e) = ArrayOf(DI[e].count) BY <1>2, <1>10 DEF Start, Sized
  <2>2. t[1][1] = "array" BY <1>7, <2>1, Letters
  <2>3. getAlign(t) = 1 BY <2>2 DEF getAlign
  <2> QED BY <1>10, <2>3 DEF t
<1>11. CASE DI[e].tag \in CompositeTags
  <2>1. Present(e) /\ e \in Range(Composites)
        BY <1>1, <1>5, <1>11 DEF Sound, AllPresent, Grown, AllCollected
  <2>2. Letter(e) = Composite(k) BY <1>3, <1>6, <1>11, <2>1, CompositeLetter
  <2>3. Start(e) = Letter(e) BY <1>11 DEF Start, CompositeTags
  <2>4. k \in Keys /\ IsEnum(CompositeTys_[k].kind) = IsEnum(DI[e].tag) BY <2>1, CollectedKey
  <2> HIDE DEF k
  <2>5. k = <<k[1], k[2]>>
    <3>1. \A n \in Names : n = <<n[1], n[2]>> BY DEF Names
    <3>2. k \in Names BY <1>1, <2>4 DEF MapsTyped
    <3> QED BY <3>1, <3>2
  <2>6. t[1][1] = "composite" /\ CompositeOf(t) = k
        BY <1>7, <2>2, <2>3, <2>5, Letters DEF CompositeOf
  <2>7. getAlign(t) = IF IsRecord(t) THEN CompositeTys_[k].Align_ ELSE IntAlign
        BY <2>6 DEF getAlign
  <2>8. IsRecord(t) = ~IsEnum(CompositeTys_[k].kind) BY <2>6 DEF IsRecord, IsEnum
  <2>9. CASE DI[e].tag = "enumeration_type"
    <3>1. getAlign(t) = IntAlign BY <2>4, <2>7, <2>8, <2>9 DEF IsEnum
    <3>2. AlignInC[e] = IntAlign BY <1>3, <1>4, <2>9, AlignCases
    <3> QED BY <2>9, <3>1, <3>2 DEF Complete, t
  <2>10. CASE DI[e].tag # "enumeration_type"
    <3>1. DI[e].tag \in {"structure_type", "union_type"} BY <1>11, <2>10 DEF CompositeTags
    <3>2. Complete(e) BY <1>2, <3>1 DEF Sized
    <3>3. ~IsEnum(CompositeTys_[k].kind) BY <2>4, <2>10 DEF IsEnum
    <3>4. getAlign(t) = CompositeTys_[k].Align_ BY <2>7, <2>8, <3>3
    <3> QED BY <2>1, <2>4, <3>2, <3>3, <3>4 DEF Defines, t, k
  <2> QED BY <2>9, <2>10
<1> QED BY <1>6, <1>8, <1>9, <1>10, <1>11

(* What is known of alignments as the passes go on.  The finder lists a    *)
(* type once, so the first pass collects it once,                          *)
Once(q) == \A i, j \in 1 .. Len(q) : q[i] = q[j] => i = j
Collects ==
    /\ Once(types) /\ Once(Composites)
    /\ \A i \in 1 .. Len(Composites) : \E j \in 1 .. nDeclared : types[j] = Composites[i]

(* and the alignment of a type, if nothing in it is packed, is bounded by  *)
(* that of its definition, and equal to it if the types of its members     *)
(* were parsed before and none asks for another one.                       *)
Bounds(a, d) ==
    ~Packs(d) => /\ a <= AlignInC[d]
                 /\ InnerFirst(d) /\ ~Asks(d) => a = AlignInC[d]
Measured(k) == \E d \in DIType : Defines(d, k) /\ Bounds(CompositeTys_[k].Align_, d)
OpaqueUnaligned == \A k \in Keys : CompositeTys_[k].opaque => CompositeTys_[k].Align_ = 0
AllMeasured ==
    ~done => \A k \in Keys :
               ~IsEnum(CompositeTys_[k].kind) /\ ~CompositeTys_[k].opaque => Measured(k)

Aligned == Collects /\ OpaqueUnaligned /\ AllMeasured

(* Position finds a type that was collected.                               *)
LEMMA PositionIs ==
    ASSUME Typed, Once(Composites), NEW i \in 1 .. Len(Composites)
    PROVE  Position(Composites[i]) = i
<1> DEFINE d == Composites[i]
<1>1. DOMAIN Composites = 1 .. Len(Composites) BY DEF Typed, ListsTyped
<1>2. \A j \in DOMAIN Composites : Composites[j] = d <=> j = i BY <1>1 DEF Once
<1>3. Position(d) = CHOOSE j \in DOMAIN Composites : Composites[j] = d BY DEF Position
<1> HIDE DEF d
<1>4. Position(d) = i BY <1>1, <1>2, <1>3
<1> QED BY <1>4 DEF d

(* What is parsed first in a type is parsed first in what is in it.        *)
LEMMA InnerFirstIn ==
    ASSUME NEW H \in Nat, NEW h, NestedBy(h, H), NEW S \in Nat, NEW s, Contained(s, S),
           NEW d \in DIType, InnerFirst(d), NEW e \in Held(d)
    PROVE  /\ InnerFirst(e) /\ DI[e].tag # "array_type"
           /\ Complete(e) => Position(e) < Position(d)
<1>1. Inside[d] = InsideOf(Inside, d) BY InsideUnfold
<1>2. {e} \cup Inside[e] \subseteq Inside[d] BY <1>1 DEF InsideOf
<1> QED BY <1>2, Zenon DEF InnerFirst

(* What is not packed, or not aligned by an attribute, has nothing in it   *)
(* that is.                                                                *)
LEMMA AttributesIn ==
    ASSUME NEW S \in Nat, NEW s, Contained(s, S), NEW H \in Nat, NEW h, NestedBy(h, H),
           NEW d \in DIType, NEW e \in Held(d)
    PROVE  (Packs(e) => Packs(d)) /\ (Asks(e) => Asks(d))
<1>1. Inside[d] = InsideOf(Inside, d) BY InsideUnfold
<1>2. {e} \cup Inside[e] \subseteq Inside[d] BY <1>1 DEF InsideOf
<1>3. Packs(e) => Packs(d) BY <1>2, Zenon DEF Packs
<1>4. Asks(e) => Asks(d) BY <1>2 DEF Asks
<1> QED BY <1>3, <1>4

(* The alignment of a member, when its type is parsed next.                *)
LEMMA MemberBound ==
    ASSUME NEW H \in Nat, NEW h, NestedBy(h, H), NEW S \in Nat, NEW s, Contained(s, S),
           NEW V, Readable(V), Sized(V), NEW g, Typed, Sound, Grown(g), Aligned, Declared, ~done,
           nParsed < Len(Composites), NEW d \in DIType, d = Composites[nParsed + 1], Complete(d),
           NEW i \in 1 .. Len(DI[d].elems)
    PROVE  LET b == DI[d].elems[i].base
               a == getAlign(getTypeFromDIType(b))
           IN /\ a \in Nat /\ AlignInC[b] \in Nat \ {0}
              /\ ~Packs(d) => /\ a <= AlignInC[b]
                              /\ InnerFirst(d) /\ ~Asks(d) => a = AlignInC[b]
<1> DEFINE b == DI[d].elems[i].base
           e == Underlying[b]
           a == getAlign(getTypeFromDIType(b))
<1>1. /\ types \in Seq(DIType) /\ DOMAIN types = 1 .. Len(types) /\ work = <<>>
      /\ DOMAIN Composites = 1 .. Len(Composites) /\ nParsed \in Nat
      /\ nParsed + 1 \in 1 .. Len(Composites) /\ MapsTyped
      BY DEF Typed, ListsTyped, Declared, Found
<1>2. b \in V /\ b \in DIType /\ b \in Nodes /\ i \in DOMAIN DI[d].elems
  <2>1. i \in DOMAIN DI[d].elems BY ElemsOf
  <2>2. V \subseteq DIType /\ b \in V BY <2>1, Zenon DEF Readable
  <2> QED BY <2>1, <2>2 DEF Nodes
<1>3. e \in V /\ e # NoNode /\ e \in DIType /\ AlignInC[e] = AlignInC[b]
  <2>1. V \subseteq DIType BY Zenon DEF Readable
  <2> QED BY <1>2, <2>1, UnderlyingAlign, DebugInfoAssumption
<1>4. e \in Held(d) BY <1>2, <1>3 DEF Held
<1>5. e \in Range(types)
  <2>1. d \in Range(types) /\ DI[d].tag # "subroutine_type" BY <1>1 DEF Sound, Listed, Complete
  <2>2. PICK j \in 1 .. Len(types) : types[j] = d BY <1>1, <2>1 DEF Range
  <2>3. b \in Range(Successors(d)) BY <2>1, SuccessorsTyped
  <2>4. Range(work) = {} BY <1>1 DEF Range
  <2>5. b \in Range(types)
    <3>1. b # NoNode BY <1>2, DebugInfoAssumption
    <3> QED BY <2>2, <2>3, <2>4, <3>1 DEF Sound, Closed
  <2> QED BY <1>3, <2>5, UnderlyingListed DEF Sound, Declared
<1>6. a \in Nat
  <2>1. getTypeFromDIType(b) \in Types(Keys) BY <1>1, <1>2, NodeTypes
  <2> QED BY <1>1, <2>1, AlignTyped
<1>7. AlignInC[b] \in Nat \ {0} BY <1>2, AlignUnfold
<1>8. InnerFirst(d) => /\ InnerFirst(e) /\ DI[e].tag # "array_type"
                       /\ Complete(e) => Position(e) < Position(d)
      BY <1>4, InnerFirstIn
<1>9. (Packs(e) => Packs(d)) /\ (Asks(e) => Asks(d)) BY <1>4, AttributesIn
<1>10. \/ ~Complete(e) /\ a = AlignInC[e]
       \/ DI[e].tag = "array_type" /\ a = 1
       \/ /\ Complete(e) /\ Defines(e, KeyOf(e)) /\ KeyOf(e) \in Keys
          /\ ~IsEnum(CompositeTys_[KeyOf(e)].kind)
          /\ a = CompositeTys_[KeyOf(e)].Align_
      BY <1>2, <1>5, MemberAlign
<1> HIDE DEF a, e, b
<1>11. CASE ~Complete(e) /\ a = AlignInC[e] BY <1>3, <1>6, <1>7, <1>11 DEF a, b
<1>12. CASE DI[e].tag = "array_type" /\ a = 1 BY <1>3, <1>6, <1>7, <1>8, <1>12 DEF a, b
<1>13. CASE /\ Complete(e) /\ Defines(e, KeyOf(e)) /\ KeyOf(e) \in Keys
            /\ ~IsEnum(CompositeTys_[KeyOf(e)].kind)
            /\ a = CompositeTys_[KeyOf(e)].Align_
  <2> DEFINE k == KeyOf(e)
  <2>1. CASE CompositeTys_[k].opaque
    <3>1. a = 0 BY <1>13, <2>1 DEF Aligned, OpaqueUnaligned
    <3>2. ~InnerFirst(d)
      <4> SUFFICES ASSUME InnerFirst(d) PROVE FALSE OBVIOUS
      <4>1. e \in Range(Composites) BY <1>13 DEF Defines
      <4>2. PICK j \in 1 .. Len(Composites) : Composites[j] = e BY <1>1, <4>1 DEF Range
      <4>3. Position(e) = j BY <4>2, PositionIs DEF Aligned, Collects
      <4>4. Position(d) = nParsed + 1 BY <1>1, PositionIs DEF Aligned, Collects
      <4>5. j \in 1 .. nParsed BY <1>1, <1>8, <1>13, <4>2, <4>3, <4>4
      <4>6. ~CompositeTys_[k].opaque BY <1>13, <4>2, <4>5 DEF Grown, AllDefined
      <4> QED BY <2>1, <4>6
    <3> QED BY <1>6, <1>7, <3>1, <3>2 DEF a, b
  <2>2. CASE ~CompositeTys_[k].opaque
    <3>1. PICK x \in DIType : Defines(x, k) /\ Bounds(CompositeTys_[k].Align_, x)
          BY <1>13, <2>2 DEF Aligned, AllMeasured, Measured
    <3>2. e = x \/ (~Tagless(e) /\ DI[x].name = DI[e].name) BY <1>13, <3>1, SameKey DEF Grown
    <3>3. DI[e].tag \in {"structure_type", "union_type"} /\ Complete(x)
          BY <1>13, <3>1 DEF Complete, Defines
    <3>4. \A y \in DIType : Complete(y) /\ DI[y].name = DI[e].name /\ ~Tagless(e) => y = e
          BY <1>3, <3>3, Zenon DEF Sized, Tagless
    <3>5. x = e BY <3>2, <3>3, <3>4
    <3> QED BY <1>3, <1>6, <1>7, <1>8, <1>9, <1>13, <3>1, <3>5 DEF a, b, Bounds
  <2> QED BY <2>1, <2>2
<1> QED BY <1>10, <1>11, <1>12, <1>13

(* The alignment the second pass gives a type.                             *)
LEMMA BodyAlign ==
    ASSUME NEW T, NEW K, IsEntry(T, K), NEW fields
    PROVE  setBody(T, fields).Align_ = Max({1} \cup {getAlign(fields[i].ty) : i \in DOMAIN fields})
<1> DEFINE m == [n \in {fields[i].name : i \in DOMAIN fields} |->
                   CHOOSE f \in {fields[i] : i \in DOMAIN fields} : f.name = n]
           a == Max({1} \cup {getAlign(fields[i].ty) : i \in DOMAIN fields})
           B == setBody(T, fields)
<1>1. B = [T EXCEPT !.opaque = FALSE, !.Fields_ = fields, !.FieldsMap_ = m, !.Align_ = a]
      BY DEF setBody
<1>2. T = [kind |-> T.kind, opaque |-> T.opaque, Fields_ |-> T.Fields_,
           FieldsMap_ |-> T.FieldsMap_, Align_ |-> T.Align_]
      BY DEF IsEntry
<1> HIDE DEF m, a, B
<1>3. B.Align_ = a BY <1>1, <1>2
<1> QED BY <1>3 DEF B, a

LEMMA BodyMeasured ==
    ASSUME NEW H \in Nat, NEW h, NestedBy(h, H), NEW S \in Nat, NEW s, Contained(s, S),
           NEW V, Readable(V), Sized(V), NEW g, Typed, Sound, Grown(g), Aligned, Declared, ~done,
           nParsed < Len(Composites), NEW d \in DIType, d = Composites[nParsed + 1], Complete(d),
           KeyOf(d) \in Keys
    PROVE  Bounds(Body(d).Align_, d)
<1> DEFINE n == Len(DI[d].elems)
           f == [i \in 1 .. n |-> getAlign(getTypeFromDIType(DI[d].elems[i].base))]
           X == {1} \cup {f[i] : i \in 1 .. n}
           T == CompositeTys_[KeyOf(d)]
           fields == FieldsOf(d)
<1>1. n \in Nat /\ DOMAIN DI[d].elems = 1 .. n BY ElemsOf
<1>2. DI[d].tag \in {"structure_type", "union_type"} /\ ~IsEnum(DI[d].tag) BY DEF Complete, IsEnum
<1>3. \A i \in 1 .. n :
        /\ f[i] \in Nat /\ AlignInC[DI[d].elems[i].base] \in Nat \ {0}
        /\ ~Packs(d) => /\ f[i] <= AlignInC[DI[d].elems[i].base]
                        /\ InnerFirst(d) /\ ~Asks(d) => f[i] = AlignInC[DI[d].elems[i].base]
      BY MemberBound
<1>4. Body(d).Align_ = Max(X)
  <2>1. Body(d) = setBody(T, fields) BY <1>2 DEF Body
  <2>2. IsEntry(T, Keys) BY DEF Typed, MapsTyped
  <2>3. DOMAIN fields = 1 .. n /\ \A i \in 1 .. n : getAlign(fields[i].ty) = f[i]
        BY <1>1, FieldIs
  <2> HIDE DEF T, fields, f
  <2>4. setBody(T, fields).Align_ = Max({1} \cup {getAlign(fields[i].ty) : i \in DOMAIN fields})
        BY <2>2, BodyAlign
  <2>5. {getAlign(fields[i].ty) : i \in DOMAIN fields} = {f[i] : i \in 1 .. n} BY <2>3
  <2> QED BY <2>1, <2>4, <2>5
<1>5. AlignInC[d] = Largest(AlignInC, d)
  <2>1. AlignInC[d] = AlignOf(AlignInC, d) BY AlignUnfold DEF Nodes
  <2> QED BY <1>2, <2>1, AlignCases
<1>6. /\ Largest(AlignInC, d) \in Nat \ {0} /\ 1 <= Largest(AlignInC, d)
      /\ ~Packs(d) => \A i \in 1 .. n : AlignInC[DI[d].elems[i].base] <= Largest(AlignInC, d)
  <2>1. \A i \in DOMAIN DI[d].elems : AlignInC[DI[d].elems[i].base] \in Nat \ {0} BY <1>1, <1>3
  <2>2. DI[d].packed => Packs(d) BY Zenon DEF Packs
  <2> QED BY <2>1, <2>2, LargestIs
<1>7. ~Packs(d) /\ InnerFirst(d) /\ ~Asks(d) => Largest(AlignInC, d) = Max(X)
  <2> SUFFICES ASSUME ~Packs(d), InnerFirst(d), ~Asks(d) PROVE Largest(AlignInC, d) = Max(X)
        OBVIOUS
  <2>0. ~DI[d].packed /\ DI[d].aligned = 1 BY Zenon DEF Packs, Asks
  <2>1. {AlignInC[DI[d].elems[i].base] : i \in DOMAIN DI[d].elems} = {f[i] : i \in 1 .. n}
    <3> HIDE DEF f, n
    <3> DEFINE al(i) == AlignInC[DI[d].elems[i].base]
    <3>1. \A i \in 1 .. n : f[i] = al(i) BY <1>3
    <3> HIDE DEF al
    <3>2. {al(i) : i \in DOMAIN DI[d].elems} = {f[i] : i \in 1 .. n} BY <1>1, <3>1
    <3> QED BY <3>2 DEF al
  <2> QED BY <2>0, <2>1 DEF Largest
<1> HIDE DEF f, n
<1>8. Max(X) \in X /\ Max(X) \in Nat
  <2>1. \A i \in 1 .. n : f[i] \in Nat BY <1>3
  <2> QED BY <1>1, <2>1, MaxOf
<1>9. ~Packs(d) => Max(X) <= Largest(AlignInC, d)
  <2> SUFFICES ASSUME ~Packs(d) PROVE Max(X) <= Largest(AlignInC, d) OBVIOUS
  <2>1. CASE Max(X) = 1 BY <1>6, <2>1
  <2>2. CASE \E i \in 1 .. n : Max(X) = f[i]
    <3>1. PICK i \in 1 .. n : Max(X) = f[i] BY <2>2
    <3>2. f[i] <= AlignInC[DI[d].elems[i].base] /\ AlignInC[DI[d].elems[i].base] \in Nat
          /\ AlignInC[DI[d].elems[i].base] <= Largest(AlignInC, d)
          BY <1>3, <1>6
    <3> HIDE DEF X
    <3> QED BY <1>6, <1>8, <3>1, <3>2
  <2> QED BY <1>8, <2>1, <2>2
<1> QED BY <1>4, <1>5, <1>7, <1>9 DEF Bounds
-----------------------------------------------------------------------------
(* Aligned, action by action.                                              *)
LEMMA FirstKept ==
    ASSUME UNCHANGED Composites
    PROVE  \A d : InnerFirst(d)' = InnerFirst(d)
<1>1. \A d : Position(d)' = Position(d) BY DEF Position
<1> QED BY <1>1, Zenon DEF InnerFirst

LEMMA AlignedKept ==
    ASSUME Aligned, Keys' = Keys, UNCHANGED <<types, nDeclared, Composites>>,
           \A k \in Keys : /\ CompositeTys_'[k].kind = CompositeTys_[k].kind
                           /\ CompositeTys_'[k].opaque = CompositeTys_[k].opaque
                           /\ CompositeTys_'[k].Align_ = CompositeTys_[k].Align_,
           done' \/ (UNCHANGED <<done, AnonTys_>>)
    PROVE  Aligned'
<1>1. Collects' BY DEF Aligned, Collects
<1>2. OpaqueUnaligned' BY DEF Aligned, OpaqueUnaligned
<1>3. AllMeasured'
  <2>1. CASE done' BY <2>1 DEF AllMeasured
  <2>2. CASE UNCHANGED <<done, AnonTys_>>
    <3>1. \A d, k : Defines(d, k)' = Defines(d, k)
      <4>1. \A d : KeyOf(d)' = KeyOf(d) BY <2>2, TypesKept
      <4> QED BY <4>1 DEF Defines
    <3>2. \A d : InnerFirst(d)' = InnerFirst(d) BY FirstKept
    <3>3. \A a, d : Bounds(a, d)' = Bounds(a, d) BY <3>2 DEF Bounds
    <3>4. \A k \in Keys : Measured(k) => Measured(k)' BY <3>1, <3>3 DEF Measured
    <3> QED BY <2>2, <3>4 DEF Aligned, AllMeasured
  <2> QED BY <2>1, <2>2
<1> QED BY <1>1, <1>2, <1>3 DEF Aligned

LEMMA ProcessAligned ==
    ASSUME Typed, Staged, Aligned, processType
    PROVE  Aligned'
<1>1. ~Found BY DEF processType, Found
<1>2. Composites = <<>> /\ 1 .. Len(Composites) = {} BY <1>1 DEF Staged
<1>3. UNCHANGED <<nDeclared, Composites, nParsed, CompositeTys_, AnonTys_, done>>
      BY DEF processType, mapVars
<1>4. Keys' = Keys BY <1>3 DEF Keys
<1>5. types \in Seq(DIType) BY DEF Typed, ListsTyped
<1>6. Once(types')
  <2>1. CASE UNCHANGED types BY <2>1 DEF Aligned, Collects, Once
  <2>2. CASE ~(\E i \in DOMAIN types : types[i] = Head(work)) /\ types' = Append(types, Head(work))
    <3> DEFINE d == Head(work)
    <3> HIDE DEF d
    <3>1. d = Head(work) BY DEF d
    <3>2. DOMAIN types = 1 .. Len(types) /\ Len(types) \in Nat BY <1>5
    <3>3. \A i \in 1 .. Len(types) : types[i] # d BY <2>2, <3>1, <3>2
    <3>4. Len(types') = Len(types) + 1 /\ types'[Len(types) + 1] = d
          /\ \A i \in 1 .. Len(types) : types'[i] = types[i]
          BY <1>5, <2>2, <3>1
    <3>5. \A i \in 1 .. Len(types') : i \in 1 .. Len(types) \/ i = Len(types) + 1 BY <3>2, <3>4
    <3> QED BY <3>3, <3>4, <3>5 DEF Aligned, Collects, Once
  <2> QED BY <2>1, <2>2 DEF processType
<1>7. Collects' BY <1>2, <1>3, <1>6 DEF Aligned, Collects
<1>8. OpaqueUnaligned' BY <1>3, <1>4 DEF Aligned, OpaqueUnaligned
<1>9. AllMeasured'
  <2>1. \A d, k : Defines(d, k)' = Defines(d, k)
    <3>1. \A d : KeyOf(d)' = KeyOf(d) BY <1>3, <1>4, TypesKept
    <3> QED BY <1>3, <3>1 DEF Defines
  <2>2. \A d : InnerFirst(d)' = InnerFirst(d) BY <1>3, FirstKept
  <2>3. \A a, d : Bounds(a, d)' = Bounds(a, d) BY <2>2 DEF Bounds
  <2>4. \A k \in Keys : Measured(k) => Measured(k)' BY <1>3, <2>1, <2>3 DEF Measured
  <2> QED BY <1>3, <1>4, <2>4 DEF Aligned, AllMeasured
<1> QED BY <1>7, <1>8, <1>9 DEF Aligned

(* A type is declared opaque, and without an alignment.                    *)
LEMMA DeclareOpaque ==
    ASSUME MapsTyped, NEW d \in DIType, DI[d].tag \in CompositeTags, declareDIComposite(d)
    PROVE  \A j \in Keys' : \/ j \in Keys /\ CompositeTys_'[j] = CompositeTys_[j]
                            \/ CompositeTys_'[j].opaque /\ CompositeTys_'[j].Align_ = 0
<1>1. ASSUME UNCHANGED mapVars
      PROVE  \A j \in Keys' : j \in Keys /\ CompositeTys_'[j] = CompositeTys_[j]
      BY <1>1 DEF mapVars, Keys
<1>2. ASSUME NEW k, DeclaresKey(d, k)
      PROVE  \A j \in Keys' : \/ j \in Keys /\ CompositeTys_'[j] = CompositeTys_[j]
                              \/ CompositeTys_'[j].opaque /\ CompositeTys_'[j].Align_ = 0
  <2>1. /\ Keys' = Keys \cup {k} /\ \A j \in Keys : CompositeTys_'[j] = CompositeTys_[j]
        /\ k \notin Keys => CompositeTys_'[k] = Opaque(DI[d].tag)
        BY <1>2, KeyAdded DEF DeclaresKey
  <2>2. Opaque(DI[d].tag).opaque /\ Opaque(DI[d].tag).Align_ = 0 BY DEF Opaque
  <2> QED BY <2>1, <2>2
<1>3. Refuses(d) => UNCHANGED mapVars BY DEF Refuses
<1>4. FindsAnon(d) => UNCHANGED mapVars BY Zenon DEF FindsAnon, mapVars
<1>5. DeclaresName(d) => DeclaresKey(d, Key(DI[d].name)) BY Zenon DEF DeclaresName
<1>6. DeclaresAnon(d) => DeclaresKey(d, NextAnonKey) BY Zenon DEF DeclaresAnon
<1> QED BY <1>1, <1>2, <1>3, <1>4, <1>5, <1>6, DeclareWays

LEMMA DeclareAligned ==
    ASSUME Typed, Staged, NEW g, Grown(g), Aligned, Declare
    PROVE  Aligned'
<1>0. PICK d \in DIType : d = types[nDeclared + 1] BY DEF Typed, ListsTyped, Declare
<1>1. /\ nDeclared' = nDeclared + 1 /\ nDeclared < Len(types) /\ nDeclared \in Nat
      /\ UNCHANGED <<types, nParsed, done>> /\ Composites \in Seq(DIType)
      BY DEF Typed, ListsTyped, Declare, findVars
<1>2. ~Declared BY <1>1 DEF Declared
<1>3. \/ /\ DI[d].tag \in CompositeTags /\ Composites' = Append(Composites, d)
         /\ declareDIComposite(d)
      \/ UNCHANGED <<Composites, mapVars>>
  <2>1. "typedef" \notin CompositeTags BY DEF CompositeTags
  <2> QED BY <1>0, <2>1 DEF Declare, Collected
<1>4. Collects'
  <2> DEFINE n == Len(Composites)
  <2>1. \A i \in 1 .. n : \E j \in 1 .. nDeclared : types[j] = Composites[i]
        BY DEF Aligned, Collects
  <2>2. \A j \in 1 .. nDeclared : j \in 1 .. nDeclared' /\ j \in 1 .. Len(types) BY <1>1
  <2>3. nDeclared + 1 \in 1 .. nDeclared' /\ nDeclared + 1 \in 1 .. Len(types) BY <1>1
  <2>4. Once(types') BY <1>1 DEF Aligned, Collects, Once
  <2>5. CASE UNCHANGED Composites
    <3>1. Once(Composites') BY <2>5 DEF Aligned, Collects, Once
    <3> QED BY <1>1, <2>1, <2>2, <2>4, <2>5, <3>1 DEF Collects
  <2>6. CASE Composites' = Append(Composites, d)
    <3>1. n \in Nat /\ Len(Composites') = n + 1 /\ Composites'[n + 1] = d
          /\ \A i \in 1 .. n : Composites'[i] = Composites[i]
          BY <1>1, <2>6
    <3>2. \A i \in 1 .. n : Composites[i] # d
      <4> SUFFICES ASSUME NEW i \in 1 .. n, Composites[i] = d PROVE FALSE OBVIOUS
      <4>1. PICK j \in 1 .. nDeclared : types[j] = d BY <2>1
      <4>2. j = nDeclared + 1 BY <1>0, <2>2, <2>3, <4>1 DEF Aligned, Collects, Once
      <4> QED BY <1>1, <4>2
    <3>3. \A i \in 1 .. Len(Composites') : i \in 1 .. n \/ i = n + 1 BY <3>1
    <3> HIDE DEF n
    <3>4. \A i, j \in 1 .. n : Composites[i] = Composites[j] => i = j
          BY DEF Aligned, Collects, Once, n
    <3>5. Once(Composites') BY <3>1, <3>2, <3>3, <3>4 DEF Once
    <3>6. \A i \in 1 .. Len(Composites') : \E j \in 1 .. nDeclared' : types'[j] = Composites'[i]
          BY <1>0, <1>1, <2>1, <2>2, <2>3, <3>1, <3>3
    <3> QED BY <2>4, <3>5, <3>6 DEF Collects
  <2> QED BY <1>3, <2>5, <2>6
<1>5. \A j \in Keys' : CompositeTys_'[j].opaque /\ CompositeTys_'[j].Align_ = 0
  <2>1. \A j \in Keys : CompositeTys_[j].opaque /\ CompositeTys_[j].Align_ = 0
        BY <1>2 DEF Grown, Unparsed, Aligned, OpaqueUnaligned
  <2>2. \A j \in Keys' : \/ j \in Keys /\ CompositeTys_'[j] = CompositeTys_[j]
                         \/ CompositeTys_'[j].opaque /\ CompositeTys_'[j].Align_ = 0
    <3>1. CASE UNCHANGED mapVars BY <3>1 DEF mapVars, Keys
    <3>2. CASE DI[d].tag \in CompositeTags /\ declareDIComposite(d)
          BY <3>2, DeclareOpaque DEF Typed
    <3> QED BY <1>3, <3>1, <3>2 DEF mapVars
  <2> QED BY <2>1, <2>2
<1> QED BY <1>4, <1>5 DEF Aligned, OpaqueUnaligned, AllMeasured

LEMMA ParseAligned ==
    ASSUME NEW H \in Nat, NEW h, NestedBy(h, H), NEW S \in Nat, NEW s, Contained(s, S),
           NEW V, Readable(V), Sized(V), NEW g, Typed, Staged, Sound, Sound', Grown(g), Aligned,
           parseDIComposite
    PROVE  Aligned'
<1>0. PICK d \in DIType : d = Composites[nParsed + 1] BY ParseSplit DEF Typed
<1>1. /\ nParsed' = nParsed + 1 /\ nParsed < Len(Composites) /\ Declared
      /\ UNCHANGED <<types, nDeclared, Composites, AnonTys_, done>>
      /\ \/ Skipped(d) /\ UNCHANGED CompositeTys_
         \/ ~Skipped(d) /\ CompositeTys_' = [CompositeTys_ EXCEPT ![KeyOf(d)] = Body(d)]
  <2>1. status' = "running" BY DEF Sound, NoAbort
  <2> QED BY <1>0, <2>1, ParseSplit DEF Typed, findVars
<1>2. nParsed + 1 \in 1 .. Len(Composites) /\ DOMAIN Composites = 1 .. Len(Composites)
      BY <1>1 DEF Typed, ListsTyped
<1>3. d \in Range(Composites) BY <1>0, <1>2 DEF Range
<1>4. ~done
  <2>1. ~Parsed BY <1>1 DEF Parsed, Typed, ListsTyped
  <2> QED BY <2>1, NotBegun
<1>5. /\ Keys' = Keys
      /\ \A j \in Keys : /\ CompositeTys_'[j].kind = CompositeTys_[j].kind
                         /\ ~CompositeTys_[j].opaque => CompositeTys_'[j] = CompositeTys_[j]
      BY ParseMaps DEF Typed
<1>6. CASE Skipped(d) /\ UNCHANGED CompositeTys_ BY <1>1, <1>5, <1>6, AlignedKept
<1>7. CASE ~Skipped(d) /\ CompositeTys_' = [CompositeTys_ EXCEPT ![KeyOf(d)] = Body(d)]
  <2>1. PICK k \in Keys : k = KeyOf(d) /\ IsEnum(CompositeTys_[k].kind) = IsEnum(DI[d].tag)
        BY <1>1, <1>3, <1>4, CollectedKey
  <2>2. MapsTyped /\ IsEntry(Body(d), Keys) /\ ~Body(d).opaque BY <2>1, BodyIs DEF Typed
  <2>3. CompositeTys_'[k] = Body(d) /\ \A j \in Keys : j # k => CompositeTys_'[j] = CompositeTys_[j]
    <3> DEFINE B == Body(d)
    <3>1. CompositeTys_' = [CompositeTys_ EXCEPT ![k] = B] /\ UNCHANGED AnonTys_
          BY <1>1, <1>7, <2>1
    <3>2. IsEntry(B, Keys) BY <2>2
    <3> HIDE DEF B
    <3>3. CompositeTys_'[k] = B /\ \A j \in Keys : j # k => CompositeTys_'[j] = CompositeTys_[j]
          BY <2>2, <3>1, <3>2, EntrySet
    <3> QED BY <3>3 DEF B
  <2>4. \A e, j : Defines(e, j)' = Defines(e, j)
    <3>1. \A e : KeyOf(e)' = KeyOf(e) BY <1>1, <1>5, TypesKept
    <3> QED BY <1>1, <3>1 DEF Defines
  <2>5. \A a, e : Bounds(a, e)' = Bounds(a, e)
    <3>1. \A e : InnerFirst(e)' = InnerFirst(e) BY <1>1, FirstKept
    <3> QED BY <3>1 DEF Bounds
  <2>6. Collects' BY <1>1 DEF Aligned, Collects
  <2>7. OpaqueUnaligned' BY <1>5, <2>2, <2>3 DEF Aligned, OpaqueUnaligned
  <2>8. AllMeasured'
    <3> SUFFICES ASSUME NEW j \in Keys, ~IsEnum(CompositeTys_[j].kind), ~CompositeTys_'[j].opaque
                 PROVE  Measured(j)'
          BY <1>5 DEF AllMeasured
    <3>1. CASE j # k
      <4>1. CompositeTys_'[j] = CompositeTys_[j] BY <2>3, <3>1
      <4>2. Measured(j) BY <1>4, <4>1 DEF Aligned, AllMeasured
      <4> QED BY <2>4, <2>5, <4>1, <4>2 DEF Measured
    <3>2. CASE j = k
      <4>1. Complete(d)
        <5>1. ~IsEnum(DI[d].tag) BY <2>1, <3>2
        <5>2. DI[d].tag \in CompositeTags BY <1>0, <1>2 DEF Sound, Listed
        <5> QED BY <1>7, <5>1, <5>2 DEF Complete, Skipped, IsEnum, CompositeTags
      <4>2. Bounds(Body(d).Align_, d)
            BY <1>0, <1>1, <1>4, <2>1, <4>1, BodyMeasured
      <4>3. Defines(d, j) BY <1>3, <2>1, <3>2, <4>1 DEF Defines
      <4> QED BY <2>3, <2>4, <2>5, <3>2, <4>2, <4>3 DEF Measured
    <3> QED BY <3>1, <3>2
  <2> QED BY <2>6, <2>7, <2>8 DEF Aligned
<1> QED BY <1>1, <1>6, <1>7

LEMMA AlignedStep ==
    ASSUME NEW H \in Nat, NEW h, NestedBy(h, H), NEW S \in Nat, NEW s, Contained(s, S),
           NEW V, Readable(V), Sized(V), NEW g, Typed, Staged, Sound, Sound', Grown(g), Aligned,
           [Next]_vars
    PROVE  Aligned'
<1>1. ASSUME UNCHANGED <<types, nDeclared, Composites, CompositeTys_>>,
             done' \/ (UNCHANGED <<done, AnonTys_>>)
      PROVE  Aligned'
  <2>1. Keys' = Keys BY <1>1 DEF Keys
  <2> QED BY <1>1, <2>1, AlignedKept
<1>2. CASE UNCHANGED vars BY <1>1, <1>2 DEF vars
<1>3. CASE InlineNext \/ InlineInner \/ setAlias
  <2>1. UNCHANGED <<findVars, nDeclared, Composites, mapVars, done>>
        BY <1>3, Zenon DEF InlineNext, InlineInner, setAlias
  <2> QED BY <1>1, <2>1 DEF findVars, mapVars
<1>4. CASE InlineType
  <2>1. UNCHANGED <<findVars, nDeclared, Composites, AnonTys_, done>> BY <1>4, Zenon DEF InlineType
  <2>2. /\ Keys' = Keys
        /\ \A k \in Keys : /\ CompositeTys_'[k].kind = CompositeTys_[k].kind
                           /\ CompositeTys_'[k].opaque = CompositeTys_[k].opaque
                           /\ CompositeTys_'[k].Align_ = CompositeTys_[k].Align_
        BY <1>4, LeaveMaps DEF Typed
  <2> QED BY <2>1, <2>2, AlignedKept DEF findVars
<1>5. CASE Finish
  <2>1. UNCHANGED <<findVars, nDeclared, Composites, CompositeTys_>> /\ done' = TRUE
        BY <1>5, Zenon DEF Finish
  <2> QED BY <1>1, <2>1 DEF findVars
<1>6. CASE Returned BY <1>2, <1>6 DEF Returned
<1> QED BY <1>2, <1>3, <1>4, <1>5, <1>6, ProcessAligned, DeclareAligned, ParseAligned DEF Next

(* No structure or union in which nothing is packed is said to need a      *)
(* larger alignment than the compiler gives it, and the alignment is the   *)
(* right one if what it contains is parsed before it and holds no array,   *)
(* and no attribute asks for another: for any debug information and any    *)
(* order of the composite types.                                           *)
THEOREM AlignmentsBounded ==
    ASSUME NEW H \in Nat, NEW h, NestedBy(h, H), NEW V, Readable(V), Sized(V), OneKind,
           NEW G \in Nat, NEW g, MembersNamed(g, G), NEW S \in Nat, NEW s, Contained(s, S)
    PROVE  Spec => []AlignBounded
<1>1. Init => Aligned
  <2> SUFFICES ASSUME Init PROVE Aligned OBVIOUS
  <2>1. types = <<>> /\ Composites = <<>> /\ CompositeTys_ = <<>> BY DEF Init
  <2>2. Keys = {} /\ 1 .. Len(types) = {} /\ 1 .. Len(Composites) = {} BY <2>1 DEF Keys
  <2> QED BY <2>2 DEF Aligned, Collects, Once, OpaqueUnaligned, AllMeasured
<1>2. Typed /\ Staged /\ Sound /\ Sound' /\ Grown(g) /\ Aligned /\ [Next]_vars => Aligned'
      BY AlignedStep
<1>3. ASSUME Typed, Sound, Grown(g), Aligned PROVE AlignBounded
  <2> SUFFICES ASSUME Parsed, ~done, NEW d \in Range(Composites), Complete(d),
                      \A e \in Range(Composites) : KeyOf(e) = KeyOf(d) => e = d
               PROVE  Bounds(CompositeTys_[KeyOf(d)].Align_, d)
        BY Zenon DEF AlignBounded, Bounds
  <2> DEFINE k == KeyOf(d)
  <2>1. Declared /\ nParsed = Len(Composites) BY DEF Parsed
  <2>2. k \in Keys /\ ~IsEnum(CompositeTys_[k].kind)
    <3>1. ~IsEnum(DI[d].tag) BY DEF Complete, IsEnum
    <3> QED BY <1>3, <2>1, <3>1, CollectedKey
  <2>3. ~CompositeTys_[k].opaque
    <3>1. PICK i \in 1 .. Len(Composites) : Composites[i] = d BY <1>3 DEF Range, Typed, ListsTyped
    <3> QED BY <1>3, <2>1, <3>1 DEF Grown, AllDefined
  <2>4. PICK x \in DIType : Defines(x, k) /\ Bounds(CompositeTys_[k].Align_, x)
        BY <1>3, <2>2, <2>3 DEF Aligned, AllMeasured, Measured
  <2>5. x = d BY <2>4 DEF Defines
  <2> QED BY <2>4, <2>5
<1>4. Typed /\ Sound /\ Grown(g) /\ Aligned => AlignBounded BY <1>3
<1>5. Spec => [](Typed /\ Staged /\ Sound /\ Grown(g)) BY GrownAlways
<1> QED BY <1>1, <1>2, <1>4, <1>5, PTL DEF Spec
=============================================================================
