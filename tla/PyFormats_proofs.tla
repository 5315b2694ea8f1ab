-------------------------- MODULE PyFormats_proofs --------------------------
(***************************************************************************)
(* Theorems about PyFormats: for any types, formats and buffers find the   *)
(* values where C keeps them.                                              *)
(***************************************************************************)
EXTENDS PyFormats, SequenceTheorems, WellFoundedInduction, TLAPS

(* A set of natural numbers has a least element.                           *)
LEMMA Least ==
    ASSUME NEW S \in SUBSET Nat, S # {}
    PROVE  \E n \in S : \A k \in S : n <= k
<1> DEFINE R == OpToRel(<, Nat)
<1>1. IsWellFoundedOn(R, Nat) BY NatLessThanWellFounded
<1>2. PICK n \in S : \A k \in S : ~(<<k, n>> \in R)
  <2> HIDE DEF R
  <2> QED BY <1>1, WFMin
<1>3. \A k \in S : ~(k < n) BY <1>2 DEF OpToRel
<1> QED BY <1>3

(* A recursive definition has a solution if r decreases in it.  T is what  *)
(* it makes of a function from D to U.                                     *)
Decreasing(D, U, R, r, T) ==
    /\ R \in Nat /\ r \in [D -> 0 .. R] /\ T \in [[D -> U] -> [D -> U]] /\ [D -> U] # {}
    /\ \A M, N \in [D -> U], d \in D :
         (\A p \in D : r[p] < r[d] => M[p] = N[p]) => T[M][d] = T[N][d]

LEMMA Recursion ==
    ASSUME NEW D, NEW U, NEW R, NEW r, NEW T, Decreasing(D, U, R, r, T)
    PROVE  \E M \in [D -> U] : M = T[M]
<1> USE DEF Decreasing
<1> DEFINE F == [D -> U]
           Upto(M, n) == \A d \in D : r[d] < n => M[d] = T[M][d]
           Good(n) == \E M \in F : Upto(M, n)
           Bad == {n \in Nat : ~Good(n)}
<1>1. Good(0)
  <2>1. PICK M \in F : TRUE OBVIOUS
  <2>2. \A d \in D : ~(r[d] < 0) OBVIOUS
  <2> QED BY <2>1, <2>2
<1>2. ASSUME NEW n \in Nat, Good(n) PROVE Good(n + 1)
  <2>1. PICK M \in F : Upto(M, n) BY <1>2
  <2> DEFINE E == T[M]
  <2>2. E \in F OBVIOUS
  <2>3. ASSUME NEW d \in D, r[d] < n + 1 PROVE E[d] = T[E][d]
    <3>1. \A p \in D : r[p] < r[d] => M[p] = E[p]
      <4> SUFFICES ASSUME NEW p \in D, r[p] < r[d] PROVE M[p] = E[p] OBVIOUS
      <4>1. r[p] \in Nat /\ r[d] \in Nat OBVIOUS
      <4>2. r[p] < n BY <2>3, <4>1
      <4> QED BY <2>1, <4>2
    <3> HIDE DEF E
    <3>2. T[M][d] = T[E][d] BY <2>2, <3>1
    <3> QED BY <3>2 DEF E
  <2> HIDE DEF E
  <2>4. Upto(E, n + 1) BY <2>3
  <2> QED BY <2>2, <2>4
<1> HIDE DEF Good
<1>3. Bad = {}
  <2> SUFFICES ASSUME Bad # {} PROVE FALSE OBVIOUS
  <2>1. Bad \in SUBSET Nat OBVIOUS
  <2>2. PICK n \in Bad : \A k \in Bad : n <= k
    <3> HIDE DEF Bad
    <3> QED BY <2>1, Least
  <2>3. n \in Nat /\ ~Good(n) OBVIOUS
  <2>4. n # 0 BY <1>1, <2>3
  <2>5. n - 1 \in Nat /\ ~(n <= n - 1) /\ (n - 1) + 1 = n BY <2>3, <2>4
  <2>6. Good(n - 1) BY <2>2, <2>5
  <2>7. Good((n - 1) + 1) BY <1>2, <2>5, <2>6
  <2> QED BY <2>3, <2>5, <2>7
<1>4. Good(R + 1) BY <1>3
<1>5. PICK M \in F : Upto(M, R + 1) BY <1>4 DEF Good
<1>6. \A d \in D : M[d] = T[M][d]
  <2>1. \A d \in D : r[d] < R + 1 OBVIOUS
  <2> QED BY <1>5, <2>1
<1>7. T[M] \in F OBVIOUS
<1> QED BY <1>5, <1>6, <1>7

(* What holds of a number if it holds of all smaller ones, holds of all.   *)
LEMMA Smaller ==
    ASSUME NEW n \in Nat, NEW P,
           \A t \in 1 .. n : (\A s \in 1 .. n : s < t => s \in P) => t \in P
    PROVE  1 .. n \subseteq P
<1> DEFINE Bad == {t \in 1 .. n : t \notin P}
<1> SUFFICES ASSUME Bad # {} PROVE FALSE OBVIOUS
<1>1. Bad \in SUBSET Nat OBVIOUS
<1>2. PICK t \in Bad : \A k \in Bad : t <= k
  <2> HIDE DEF Bad
  <2> QED BY <1>1, Least
<1>3. \A s \in 1 .. n : s < t => s \in P BY <1>2
<1> QED BY <1>2, <1>3

LEMMA Upwards ==
    ASSUME NEW n \in Nat, NEW P, 0 \in P, \A i \in 1 .. n : i - 1 \in P => i \in P
    PROVE  0 .. n \subseteq P
<1> DEFINE Bad == {t \in 0 .. n : t \notin P}
<1> SUFFICES ASSUME Bad # {} PROVE FALSE OBVIOUS
<1>1. Bad \in SUBSET Nat OBVIOUS
<1>2. PICK t \in Bad : \A k \in Bad : t <= k
  <2> HIDE DEF Bad
  <2> QED BY <1>1, Least
<1>3. t \in 1 .. n BY <1>2
<1>4. t - 1 \in 0 .. n /\ ~(t <= t - 1) BY <1>3
<1>5. t - 1 \in P BY <1>2, <1>4
<1> QED BY <1>2, <1>3, <1>5

LEMMA Downwards ==
    ASSUME NEW n \in Nat, NEW P, n \in P, \A i \in 1 .. n : i \in P => i - 1 \in P
    PROVE  0 .. n \subseteq P
<1> DEFINE Q == {i \in 0 .. n : n - i \in P}
<1>1. 0 \in Q OBVIOUS
<1>2. ASSUME NEW i \in 1 .. n, i - 1 \in Q PROVE i \in Q
  <2>1. n - (i - 1) \in P /\ n - (i - 1) \in 1 .. n BY <1>2
  <2>2. (n - (i - 1)) - 1 = n - i OBVIOUS
  <2> QED BY <2>1, <2>2
<1> HIDE DEF Q
<1>3. 0 .. n \subseteq Q BY <1>1, <1>2, Upwards
<1>4. ASSUME NEW i \in 0 .. n PROVE i \in P
  <2>1. n - i \in Q /\ n - (n - i) = i BY <1>3
  <2> QED BY <2>1 DEF Q
<1> QED BY <1>4
-----------------------------------------------------------------------------
(***************************************************************************)
(* Alignments.                                                             *)
(***************************************************************************)
Multiple(x, a) == \E q \in Nat : x = q * a

LEMMA Quotient ==
    ASSUME NEW x \in Nat, NEW a \in Nat \ {0}
    PROVE  /\ x \div a \in Nat
           /\ (x \div a) * a <= x /\ x < (x \div a) * a + a
OBVIOUS

LEMMA AlignUpAbove ==
    ASSUME NEW n \in Nat, NEW a \in Nat \ {0}
    PROVE  /\ AlignUp(n, a) \in Nat /\ n <= AlignUp(n, a) /\ AlignUp(n, a) < n + a
           /\ Multiple(AlignUp(n, a), a)
<1> DEFINE q == (n + a - 1) \div a
<1>1. n + a - 1 \in Nat OBVIOUS
<1>2. q \in Nat /\ q * a <= n + a - 1 /\ n + a - 1 < q * a + a BY <1>1, Quotient
<1>3. AlignUp(n, a) = q * a BY DEF AlignUp
<1> HIDE DEF q
<1>4. q * a \in Nat BY <1>2
<1> QED BY <1>2, <1>3, <1>4 DEF Multiple

LEMMA AlignUpSame ==
    ASSUME NEW n \in Nat, NEW a \in Nat \ {0}, Multiple(n, a)
    PROVE  AlignUp(n, a) = n
<1>1. PICK q \in Nat : n = q * a BY DEF Multiple
<1>2. PICK p \in Nat : AlignUp(n, a) = p * a BY AlignUpAbove DEF Multiple
<1>3. q * a <= p * a /\ p * a < q * a + a BY <1>1, <1>2, AlignUpAbove
<1>4. p = q
  <2>1. CASE p < q
    <3>1. q = p + (q - p) /\ q - p >= 1 /\ q - p \in Nat BY <2>1
    <3>2. q * a = p * a + (q - p) * a BY <3>1
    <3>3. (q - p) * a >= a BY <3>1
    <3> QED BY <1>3, <3>2, <3>3
  <2>2. CASE p > q
    <3>1. p = q + (p - q) /\ p - q >= 1 /\ p - q \in Nat BY <2>2
    <3>2. p * a = q * a + (p - q) * a BY <3>1
    <3>3. (p - q) * a >= a BY <3>1
    <3> QED BY <1>3, <3>2, <3>3
  <2> QED BY <2>1, <2>2
<1> QED BY <1>1, <1>2, <1>4

LEMMA MultipleOfMultiple ==
    ASSUME NEW x \in Nat, NEW y \in Nat, NEW a \in Nat, Multiple(x, y), Multiple(y, a)
    PROVE  Multiple(x, a)
<1>1. PICK q \in Nat : x = q * y BY DEF Multiple
<1>2. PICK p \in Nat : y = p * a BY DEF Multiple
<1>3. x = (q * p) * a BY <1>1, <1>2
<1>4. q * p \in Nat OBVIOUS
<1> QED BY <1>3, <1>4 DEF Multiple

LEMMA MultipleSum ==
    ASSUME NEW x \in Nat, NEW y \in Nat, NEW a \in Nat, Multiple(x, a), Multiple(y, a)
    PROVE  Multiple(x + y, a)
<1>1. PICK q \in Nat : x = q * a BY DEF Multiple
<1>2. PICK p \in Nat : y = p * a BY DEF Multiple
<1>3. x + y = (q + p) * a BY <1>1, <1>2
<1>4. q + p \in Nat OBVIOUS
<1> QED BY <1>3, <1>4 DEF Multiple
-----------------------------------------------------------------------------
(***************************************************************************)
(* How a format is read.                                                   *)
(***************************************************************************)
Items == [n : Nat, size : Nat, align : Nat \ {0}, pad : BOOLEAN]
Readings == [pos : Nat, found : SUBSET (Nat \X Nat)]
Start == [pos |-> 0, found |-> {}]

(* R is what was read after each item of f.                                *)
IsReading(R, f, native) ==
    /\ R \in [0 .. Len(f) -> Readings] /\ R[0] = Start
    /\ \A k \in 1 .. Len(f) : R[k] = Read(R[k - 1], f[k], native)

LEMMA ItemValues ==
    ASSUME NEW from \in Nat, NEW it \in Items
    PROVE  {<<from + (k - 1) * it.size, it.size>> : k \in 1 .. it.n} \subseteq Nat \X Nat
<1> SUFFICES ASSUME NEW k \in 1 .. it.n
             PROVE  <<from + (k - 1) * it.size, it.size>> \in Nat \X Nat
    OBVIOUS
<1>1. it.size \in Nat /\ it.n \in Nat BY DEF Items
<1>2. k - 1 \in Nat BY <1>1
<1>3. (k - 1) * it.size \in Nat BY <1>1, <1>2
<1> QED BY <1>1, <1>3

LEMMA ReadTyped ==
    ASSUME NEW acc \in Readings, NEW it \in Items, NEW native \in BOOLEAN
    PROVE  Read(acc, it, native) \in Readings
<1> DEFINE from == IF native THEN AlignUp(acc.pos, it.align) ELSE acc.pos
           vs == IF it.pad THEN {} ELSE {<<from + (k - 1) * it.size, it.size>> : k \in 1 .. it.n}
<1>1. acc.pos \in Nat /\ acc.found \subseteq Nat \X Nat BY DEF Readings
<1>2. it.n \in Nat /\ it.size \in Nat /\ it.align \in Nat \ {0} BY DEF Items
<1>3. from \in Nat BY <1>1, <1>2, AlignUpAbove
<1>4. vs \subseteq Nat \X Nat
  <2> HIDE DEF from
  <2> QED BY <1>3, ItemValues
<1>5. it.n * it.size \in Nat BY <1>2
<1>6. Read(acc, it, native) = [pos |-> from + it.n * it.size, found |-> acc.found \cup vs]
      BY DEF Read
<1> HIDE DEF from, vs
<1> QED BY <1>1, <1>3, <1>4, <1>5, <1>6 DEF Readings

LEMMA UnpackUnfolds ==
    ASSUME NEW f \in Seq(Items), NEW native \in BOOLEAN
    PROVE  \E R : IsReading(R, f, native) /\ Unpack(f, native) = R[Len(f)]
<1> DEFINE n == Len(f)
           D == 0 .. n
           F == [D -> Readings]
           r == [k \in D |-> k]
           body(M, k) == IF k = 0 THEN Start ELSE Read(M[k - 1], f[k], native)
           T == [M \in F |-> [k \in D |-> body(M, k)]]
<1>1. n \in Nat /\ \A k \in 1 .. n : f[k] \in Items OBVIOUS
<1>2. Start \in Readings BY DEF Start, Readings
<1>3. \A k \in D : k # 0 => k - 1 \in D /\ k \in 1 .. n /\ k - 1 < k BY <1>1
<1>4. T \in [F -> F]
  <2> SUFFICES ASSUME NEW M \in F, NEW k \in D PROVE body(M, k) \in Readings OBVIOUS
  <2>1. k # 0 => M[k - 1] \in Readings BY <1>3
  <2> QED BY <1>1, <1>2, <1>3, <2>1, ReadTyped
<1>5. \A M \in F, k \in D : T[M][k] = body(M, k) OBVIOUS
<1>6. ASSUME NEW M \in F, NEW N \in F, NEW k \in D, \A p \in D : r[p] < r[k] => M[p] = N[p]
      PROVE  T[M][k] = T[N][k]
  <2>1. k # 0 => M[k - 1] = N[k - 1] BY <1>3, <1>6
  <2> QED BY <1>5, <2>1
<1>7. F # {}
  <2>1. [k \in D |-> Start] \in F BY <1>2
  <2> QED BY <2>1
<1>8. r \in [D -> 0 .. n] OBVIOUS
<1>9. Decreasing(D, Readings, n, r, T)
  <2> HIDE DEF r, T
  <2> QED BY <1>1, <1>4, <1>6, <1>7, <1>8 DEF Decreasing
<1>10. PICK M \in F : M = T[M]
  <2> HIDE DEF r, T, D
  <2> QED BY <1>9, Recursion
<1>11. M = [k \in D |-> body(M, k)] BY <1>10
<1> DEFINE R == CHOOSE g : g = [k \in D |-> body(g, k)]
<1>12. R = [k \in D |-> body(R, k)] BY <1>11
<1>13. Unpack(f, native) = R[n] BY DEF Unpack, Start
<1> HIDE DEF R
<1>14. \A k \in D : R[k] = body(R, k) BY <1>12
<1>15. ASSUME NEW k \in D PROVE R[k] \in Readings
  <2> DEFINE P == {i \in D : R[i] \in Readings}
  <2>1. 0 \in P BY <1>1, <1>2, <1>14
  <2>2. ASSUME NEW i \in 1 .. n, i - 1 \in P PROVE i \in P
    <3>1. i \in D /\ i # 0 BY <1>1
    <3>2. R[i] = Read(R[i - 1], f[i], native) BY <1>14, <3>1
    <3> QED BY <1>1, <2>2, <3>1, <3>2, ReadTyped
  <2> HIDE DEF P
  <2>3. D \subseteq P BY <1>1, <2>1, <2>2, Upwards
  <2> QED BY <2>3 DEF P
<1>16. R \in [D -> Readings]
  <2>1. R = [k \in D |-> R[k]] BY <1>12, <1>14
  <2> QED BY <1>15, <2>1
<1>17. \A k \in 1 .. n : R[k] = Read(R[k - 1], f[k], native)
  <2> TAKE k \in 1 .. n
  <2>1. k \in D /\ k # 0 BY <1>1
  <2> QED BY <1>14, <2>1
<1>18. R[0] = Start BY <1>1, <1>14
<1>19. IsReading(R, f, native) BY <1>16, <1>17, <1>18 DEF IsReading
<1> QED BY <1>13, <1>19

LEMMA UnpackIs ==
    ASSUME NEW f \in Seq(Items), NEW native \in BOOLEAN, NEW R, IsReading(R, f, native)
    PROVE  Unpack(f, native) = R[Len(f)]
<1>1. PICK Q : IsReading(Q, f, native) /\ Unpack(f, native) = Q[Len(f)] BY UnpackUnfolds
<1> DEFINE n == Len(f)
           P == {k \in 0 .. n : Q[k] = R[k]}
<1>2. n \in Nat OBVIOUS
<1>3. 0 \in P BY <1>1, <1>2 DEF IsReading
<1>4. ASSUME NEW k \in 1 .. n, k - 1 \in P PROVE k \in P BY <1>1, <1>2, <1>4 DEF IsReading
<1> HIDE DEF P
<1>5. 0 .. n \subseteq P BY <1>2, <1>3, <1>4, Upwards
<1>6. n \in 0 .. n BY <1>2
<1> QED BY <1>1, <1>5, <1>6 DEF P

(* What was read of one format, then of another.                           *)
Joined(u, v) == [pos |-> u.pos + v.pos, found |-> u.found \cup Shifted(v.found, u.pos)]

LEMMA JoinedRead ==
    ASSUME NEW u \in Readings, NEW v \in Readings, NEW it \in Items
    PROVE  Read(Joined(u, v), it, FALSE) = Joined(u, Read(v, it, FALSE))
<1> DEFINE V(from) == IF it.pad THEN {}
                      ELSE {<<from + (k - 1) * it.size, it.size>> : k \in 1 .. it.n}
<1>1. /\ u.pos \in Nat /\ v.pos \in Nat /\ it.size \in Nat /\ it.n \in Nat /\ it.pad \in BOOLEAN
      /\ it.n * it.size \in Nat
      BY DEF Readings, Items
<1>2. \A acc : Read(acc, it, FALSE) = [pos |-> acc.pos + it.n * it.size,
                                       found |-> acc.found \cup V(acc.pos)]
      BY DEF Read
<1>3. V(u.pos + v.pos) = Shifted(V(v.pos), u.pos)
  <2>1. CASE it.pad BY <2>1 DEF Shifted
  <2>2. CASE ~it.pad
    <3>1. Shifted(V(v.pos), u.pos)
            = {<<(v.pos + (k - 1) * it.size) + u.pos, it.size>> : k \in 1 .. it.n}
      <4> DEFINE W == {<<v.pos + (k - 1) * it.size, it.size>> : k \in 1 .. it.n}
                 X == {<<(v.pos + (k - 1) * it.size) + u.pos, it.size>> : k \in 1 .. it.n}
      <4>1. V(v.pos) = W BY <2>2
      <4>2. Shifted(W, u.pos) \subseteq X BY DEF Shifted
      <4>3. ASSUME NEW k \in 1 .. it.n
            PROVE  <<(v.pos + (k - 1) * it.size) + u.pos, it.size>> \in Shifted(W, u.pos)
        <5> DEFINE w == <<v.pos + (k - 1) * it.size, it.size>>
        <5>1. w \in W OBVIOUS
        <5>2. w[1] = v.pos + (k - 1) * it.size /\ w[2] = it.size OBVIOUS
        <5> HIDE DEF w, W
        <5>3. <<w[1] + u.pos, w[2]>> \in Shifted(W, u.pos) BY <5>1 DEF Shifted
        <5> QED BY <5>2, <5>3
      <4>4. X \subseteq Shifted(W, u.pos) BY <4>3
      <4> QED BY <4>1, <4>2, <4>4
    <3>2. ASSUME NEW k \in 1 .. it.n
          PROVE  (v.pos + (k - 1) * it.size) + u.pos = (u.pos + v.pos) + (k - 1) * it.size
      <4>1. (k - 1) * it.size \in Int BY <1>1
      <4> QED BY <1>1, <4>1
    <3> QED BY <2>2, <3>1, <3>2
  <2> QED BY <1>1, <2>1, <2>2
<1> HIDE DEF V
<1>4. Shifted(v.found \cup V(v.pos), u.pos) = Shifted(v.found, u.pos) \cup Shifted(V(v.pos), u.pos)
      BY DEF Shifted
<1> DEFINE m == it.n * it.size
           after == [pos |-> v.pos + m, found |-> v.found \cup V(v.pos)]
           j == Joined(u, v)
<1>5. Joined(u, Read(v, it, FALSE))
        = [pos |-> u.pos + (v.pos + m), found |-> u.found \cup Shifted(v.found \cup V(v.pos), u.pos)]
  <2>1. Read(v, it, FALSE) = after BY <1>2
  <2>2. after.pos = v.pos + m /\ after.found = v.found \cup V(v.pos) OBVIOUS
  <2> HIDE DEF after
  <2> QED BY <2>1, <2>2 DEF Joined
<1>6. Read(j, it, FALSE)
        = [pos |-> (u.pos + v.pos) + m,
           found |-> (u.found \cup Shifted(v.found, u.pos)) \cup V(u.pos + v.pos)]
  <2>1. j.pos = u.pos + v.pos /\ j.found = u.found \cup Shifted(v.found, u.pos) BY DEF Joined
  <2> HIDE DEF j
  <2>2. Read(j, it, FALSE) = [pos |-> j.pos + m, found |-> j.found \cup V(j.pos)] BY <1>2
  <2> QED BY <2>1, <2>2
<1>7. u.pos + (v.pos + it.n * it.size) = (u.pos + v.pos) + it.n * it.size BY <1>1
<1> QED BY <1>3, <1>4, <1>5, <1>6, <1>7

LEMMA JoinedTyped ==
    ASSUME NEW u \in Readings, NEW v \in Readings
    PROVE  Joined(u, v) \in Readings /\ Joined(u, Start) = u
<1>1. /\ u.pos \in Nat /\ v.pos \in Nat /\ u.found \in SUBSET (Nat \X Nat)
      /\ v.found \in SUBSET (Nat \X Nat) /\ u = [pos |-> u.pos, found |-> u.found]
      BY DEF Readings
<1>2. Shifted(v.found, u.pos) \subseteq Nat \X Nat
  <2> SUFFICES ASSUME NEW w \in v.found PROVE <<w[1] + u.pos, w[2]>> \in Nat \X Nat
      BY DEF Shifted
  <2>1. w[1] \in Nat /\ w[2] \in Nat BY <1>1
  <2> QED BY <1>1, <2>1
<1>3. Joined(u, v) \in Readings BY <1>1, <1>2 DEF Joined, Readings
<1>4. Shifted({}, u.pos) = {} BY DEF Shifted
<1>5. Joined(u, Start) = [pos |-> u.pos + 0, found |-> u.found \cup {}]
      BY <1>4 DEF Joined, Start
<1> QED BY <1>1, <1>3, <1>5

JoinOf(Q, f, R, g) ==
    [k \in 0 .. Len(f) + Len(g) |-> IF k <= Len(f) THEN Q[k] ELSE Joined(Q[Len(f)], R[k - Len(f)])]

LEMMA JoinIsReading ==
    ASSUME NEW f \in Seq(Items), NEW g \in Seq(Items), NEW Q, NEW R,
           IsReading(Q, f, FALSE), IsReading(R, g, FALSE)
    PROVE  /\ IsReading(JoinOf(Q, f, R, g), f \o g, FALSE)
           /\ JoinOf(Q, f, R, g)[Len(f) + Len(g)] = Joined(Q[Len(f)], R[Len(g)])
<1> DEFINE m == Len(f)
           n == Len(g)
           h == f \o g
           J == JoinOf(Q, f, R, g)
<1>1. /\ m \in Nat /\ n \in Nat /\ h \in Seq(Items) /\ Len(h) = m + n
      /\ \A i \in 1 .. m + n : h[i] = IF i <= m THEN f[i] ELSE g[i - m]
      BY ConcatProperties
<1>2. /\ \A k \in 0 .. m : Q[k] \in Readings
      /\ \A k \in 0 .. n : R[k] \in Readings
      /\ Q[0] = Start /\ R[0] = Start
      BY DEF IsReading
<1>3. \A k \in 0 .. m + n : J[k] = IF k <= m THEN Q[k] ELSE Joined(Q[m], R[k - m])
      BY DEF JoinOf
<1>4. \A k \in 0 .. n : J[m + k] = Joined(Q[m], R[k])
  <2> TAKE k \in 0 .. n
  <2>1. m + k \in 0 .. m + n /\ (m + k) - m = k /\ (m + k <= m <=> k = 0) /\ m \in 0 .. m BY <1>1
  <2>2. CASE k = 0
    <3>1. J[m + k] = Q[m] BY <1>1, <1>3, <2>1, <2>2
    <3> QED BY <1>2, <2>1, <2>2, <3>1, JoinedTyped
  <2>3. CASE k # 0 BY <1>3, <2>1, <2>3
  <2> QED BY <2>2, <2>3
<1>5. ASSUME NEW k \in 0 .. m + n PROVE J[k] \in Readings
  <2>1. CASE k <= m BY <1>1, <1>2, <1>3, <2>1
  <2>2. CASE ~(k <= m)
    <3>1. k - m \in 0 .. n /\ m \in 0 .. m BY <1>1, <2>2
    <3> QED BY <1>2, <1>3, <2>2, <3>1, JoinedTyped
  <2> QED BY <2>1, <2>2
<1>6. J \in [0 .. Len(h) -> Readings]
  <2>1. J = [k \in 0 .. m + n |-> J[k]] BY DEF JoinOf
  <2> HIDE DEF J
  <2> QED BY <1>1, <1>5, <2>1
<1> HIDE DEF J
<1>7. J[0] = Start BY <1>1, <1>2, <1>3
<1>8. ASSUME NEW k \in 1 .. Len(h) PROVE J[k] = Read(J[k - 1], h[k], FALSE)
  <2>1. CASE k <= m
    <3>1. k \in 1 .. m /\ k - 1 \in 0 .. m + n /\ k - 1 <= m /\ k \in 0 .. m + n BY <1>1, <2>1
    <3>2. J[k] = Q[k] /\ J[k - 1] = Q[k - 1] /\ h[k] = f[k] BY <1>1, <1>3, <2>1, <3>1
    <3> QED BY <3>1, <3>2 DEF IsReading
  <2>2. CASE ~(k <= m)
    <3> DEFINE i == k - m
    <3>1. /\ i \in 1 .. n /\ i - 1 \in 0 .. n /\ i \in 0 .. n /\ m + i = k /\ m + (i - 1) = k - 1
          /\ m \in 0 .. m /\ k \in 1 .. m + n
          BY <1>1, <2>2
    <3>2. h[k] = g[i] BY <1>1, <2>2, <3>1
    <3> HIDE DEF i
    <3>3. J[k] = Joined(Q[m], R[i]) /\ J[k - 1] = Joined(Q[m], R[i - 1]) BY <1>4, <3>1
    <3>4. R[i] = Read(R[i - 1], g[i], FALSE) BY <3>1 DEF IsReading
    <3>5. g[i] \in Items BY <3>1
    <3> QED BY <1>2, <3>1, <3>2, <3>3, <3>4, <3>5, JoinedRead
  <2> QED BY <2>1, <2>2
<1>9. J[m + n] = Joined(Q[m], R[n]) BY <1>1, <1>4
<1> QED BY <1>6, <1>7, <1>8, <1>9 DEF IsReading, J

(* With portable formats.                                                  *)
Portably(f) == Unpack(f, FALSE)

LEMMA UnpackConcat ==
    ASSUME NEW f \in Seq(Items), NEW g \in Seq(Items)
    PROVE  Portably(f \o g) = Joined(Portably(f), Portably(g))
<1>1. PICK Q : IsReading(Q, f, FALSE) /\ Portably(f) = Q[Len(f)] BY UnpackUnfolds DEF Portably
<1>2. PICK R : IsReading(R, g, FALSE) /\ Portably(g) = R[Len(g)] BY UnpackUnfolds DEF Portably
<1>3. f \o g \in Seq(Items) BY ConcatProperties
<1> DEFINE J == JoinOf(Q, f, R, g)
<1>4. IsReading(J, f \o g, FALSE) BY <1>1, <1>2, JoinIsReading
<1>5. J[Len(f) + Len(g)] = Joined(Q[Len(f)], R[Len(g)]) BY <1>1, <1>2, JoinIsReading
<1> HIDE DEF J
<1>6. Portably(f \o g) = J[Len(f \o g)] BY <1>3, <1>4, UnpackIs DEF Portably
<1>7. Len(f \o g) = Len(f) + Len(g) BY ConcatProperties
<1> QED BY <1>1, <1>2, <1>5, <1>6, <1>7

(* An item alone, and none.                                                *)
LEMMA UnpackOne ==
    ASSUME NEW it \in Items
    PROVE  Portably(<<it>>) = Read(Start, it, FALSE)
<1>1. <<it>> \in Seq(Items) /\ Len(<<it>>) = 1 /\ <<it>>[1] = it OBVIOUS
<1>2. PICK R : IsReading(R, <<it>>, FALSE) /\ Portably(<<it>>) = R[1]
      BY <1>1, UnpackUnfolds DEF Portably
<1>3. 1 \in 1 .. 1 /\ 1 - 1 = 0 OBVIOUS
<1> QED BY <1>1, <1>2, <1>3 DEF IsReading

LEMMA UnpackNone == Portably(<<>>) = Start
<1>1. <<>> \in Seq(Items) /\ Len(<<>>) = 0 OBVIOUS
<1>2. PICK R : IsReading(R, <<>>, FALSE) /\ Portably(<<>>) = R[0] BY <1>1, UnpackUnfolds DEF Portably
<1> QED BY <1>2 DEF IsReading

(* The items of f are aligned where they are, if f starts at base.         *)
Fits(f, base) ==
    \E R : /\ IsReading(R, f, FALSE)
           /\ \A k \in 1 .. Len(f) : Multiple(base + R[k - 1].pos, f[k].align)

(* Then reading with the native alignment is the same.                     *)
LEMMA FitsNative ==
    ASSUME NEW f \in Seq(Items), Fits(f, 0)
    PROVE  Unpack(f, TRUE) = Portably(f)
<1>1. PICK R : /\ IsReading(R, f, FALSE)
               /\ \A k \in 1 .. Len(f) : Multiple(0 + R[k - 1].pos, f[k].align)
      BY DEF Fits
<1>2. ASSUME NEW k \in 1 .. Len(f) PROVE Read(R[k - 1], f[k], TRUE) = Read(R[k - 1], f[k], FALSE)
  <2> DEFINE p == R[k - 1].pos
  <2>1. k - 1 \in 0 .. Len(f) /\ f[k] \in Items OBVIOUS
  <2>2. p \in Nat /\ f[k].align \in Nat \ {0} BY <1>1, <2>1 DEF IsReading, Readings, Items
  <2>3. Multiple(p, f[k].align) BY <1>1, <2>2
  <2>4. AlignUp(p, f[k].align) = p BY <2>2, <2>3, AlignUpSame
  <2> QED BY <2>4 DEF Read
<1>3. IsReading(R, f, TRUE) BY <1>1, <1>2 DEF IsReading
<1> QED BY <1>1, <1>3, UnpackIs DEF Portably

LEMMA FitsConcat ==
    ASSUME NEW f \in Seq(Items), NEW g \in Seq(Items), NEW base \in Nat,
           Fits(f, base), Fits(g, base + Portably(f).pos)
    PROVE  Fits(f \o g, base)
<1> DEFINE m == Len(f)
           n == Len(g)
           h == f \o g
           p == Portably(f).pos
<1>1. PICK Q : /\ IsReading(Q, f, FALSE)
               /\ \A k \in 1 .. m : Multiple(base + Q[k - 1].pos, f[k].align)
      BY DEF Fits
<1>2. PICK R : /\ IsReading(R, g, FALSE)
               /\ \A k \in 1 .. n : Multiple((base + p) + R[k - 1].pos, g[k].align)
      BY DEF Fits
<1> DEFINE J == JoinOf(Q, f, R, g)
<1>3. IsReading(J, h, FALSE) BY <1>1, <1>2, JoinIsReading
<1>4. /\ m \in Nat /\ n \in Nat /\ Len(h) = m + n
      /\ \A i \in 1 .. m + n : h[i] = IF i <= m THEN f[i] ELSE g[i - m]
      BY ConcatProperties
<1>5. \A k \in 0 .. m + n : J[k] = IF k <= m THEN Q[k] ELSE Joined(Q[m], R[k - m])
      BY DEF JoinOf
<1>6. Q[m].pos = p BY <1>1, UnpackIs DEF Portably
<1> HIDE DEF J, p
<1>7. ASSUME NEW k \in 1 .. Len(h) PROVE Multiple(base + J[k - 1].pos, h[k].align)
  <2>1. CASE k <= m
    <3>1. k \in 1 .. m /\ k - 1 \in 0 .. m + n /\ k - 1 <= m /\ k \in 1 .. m + n BY <1>4, <2>1
    <3>2. J[k - 1] = Q[k - 1] /\ h[k] = f[k] BY <1>4, <1>5, <2>1, <3>1
    <3> QED BY <1>1, <3>1, <3>2
  <2>2. CASE ~(k <= m)
    <3> DEFINE i == k - m
    <3>1. /\ i \in 1 .. n /\ i - 1 \in 0 .. n /\ k - 1 \in 0 .. m + n /\ (k - 1) - m = i - 1
          /\ k \in 1 .. m + n /\ m \in 0 .. m /\ (k - 1 <= m <=> i = 1) /\ (i = 1 => k - 1 = m)
          BY <1>4, <2>2
    <3>2. h[k] = g[i] BY <1>4, <2>2, <3>1
    <3>3. /\ Q[m] \in Readings /\ R[i - 1] \in Readings /\ R[0] = Start
          BY <1>1, <1>2, <3>1 DEF IsReading
    <3>4. Q[m].pos \in Nat /\ R[i - 1].pos \in Nat /\ Start.pos = 0
          BY <3>3 DEF Readings, Start
    <3>5. J[k - 1].pos = p + R[i - 1].pos
      <4>1. CASE i = 1
        <5>1. J[k - 1] = Q[m] BY <1>5, <3>1, <4>1
        <5>2. R[i - 1].pos = 0 BY <3>3, <3>4, <4>1
        <5> QED BY <1>6, <3>4, <5>1, <5>2
      <4>2. CASE i # 1
        <5>1. J[k - 1] = Joined(Q[m], R[i - 1]) BY <1>5, <3>1, <4>2
        <5>2. J[k - 1].pos = Q[m].pos + R[i - 1].pos BY <5>1 DEF Joined
        <5> QED BY <1>6, <5>2
      <4> QED BY <4>1, <4>2
    <3>6. base + J[k - 1].pos = (base + p) + R[i - 1].pos BY <1>6, <3>4, <3>5
    <3> QED BY <1>2, <3>1, <3>2, <3>6
  <2> QED BY <2>1, <2>2
<1> QED BY <1>3, <1>7 DEF Fits

LEMMA FitsOne ==
    ASSUME NEW it \in Items, NEW base \in Nat, Multiple(base, it.align)
    PROVE  Fits(<<it>>, base)
<1>1. <<it>> \in Seq(Items) /\ Len(<<it>>) = 1 /\ <<it>>[1] = it OBVIOUS
<1>2. PICK R : IsReading(R, <<it>>, FALSE) BY <1>1, UnpackUnfolds
<1>3. R[0] = Start /\ Start.pos = 0 BY <1>2 DEF IsReading, Start
<1>4. \A k \in 1 .. 1 : k = 1 /\ k - 1 = 0 OBVIOUS
<1>5. base + R[0].pos = base BY <1>3
<1> QED BY <1>1, <1>2, <1>4, <1>5 DEF Fits

LEMMA FitsNone == ASSUME NEW base PROVE Fits(<<>>, base)
<1>1. <<>> \in Seq(Items) /\ Len(<<>>) = 0 OBVIOUS
<1>2. PICK R : IsReading(R, <<>>, FALSE) BY <1>1, UnpackUnfolds
<1>3. \A k \in 1 .. Len(<<>>) : FALSE BY <1>1
<1> QED BY <1>2, <1>3 DEF Fits
-----------------------------------------------------------------------------
(***************************************************************************)
(* What declarations make of types.                                        *)
(***************************************************************************)
Alignments == {1} \cup {Scalars[i].align : i \in DOMAIN Scalars}

(* A structure made of earlier types, in order, which do not overlap and,  *)
(* if nothing is packed, are aligned.                                      *)
StructLaid(t) ==
    LET fields == types[t].fields IN
    /\ fields \in Seq([off : Nat, ty : 1 .. t - 1])
    /\ \A i \in 1 .. Len(fields) :
         /\ CurIdx(t, i - 1) <= fields[i].off
         /\ t \in natural => /\ fields[i].ty \in natural
                             /\ Multiple(fields[i].off, types[fields[i].ty].align)
                             /\ Multiple(types[t].align, types[fields[i].ty].align)
    /\ CurIdx(t, Len(fields)) <= types[t].size

ArrayLaid(t) ==
    /\ types[t].elem \in 1 .. t - 1 /\ types[t].num \in Nat
    /\ types[t].size = types[t].num * types[types[t].elem].size
    /\ t \in natural => types[t].elem \in natural

Laid(t) ==
    /\ types[t].size \in 0 .. SizeMax - 1 /\ types[t].align \in Alignments
    /\ types[t].kind = "scalar" => types[t].letter \in BOOLEAN
    /\ types[t].kind = "struct" => StructLaid(t)
    /\ types[t].kind = "array" => ArrayLaid(t)

(* The inductive invariant.                                                *)
LaidOut ==
    /\ \E S : types \in Seq(S)
    /\ natural \subseteq Types
    /\ \A t \in Types : Laid(t)

LEMMA AlignmentsPositive == Alignments \subseteq Nat \ {0}
<1>1. Scalars \in Seq(ScalarTypes) BY FormatAssumption
<1>2. \A i \in DOMAIN Scalars : Scalars[i] \in ScalarTypes BY <1>1
<1> QED BY <1>2 DEF Alignments, ScalarTypes

LEMMA TypesAre ==
    ASSUME LaidOut
    PROVE  /\ Len(types) \in Nat /\ Types = 1 .. Len(types)
           /\ \A t \in Types : /\ types[t].size \in Nat /\ types[t].size < SizeMax
                               /\ types[t].align \in Nat \ {0}
<1>1. PICK S : types \in Seq(S) BY DEF LaidOut
<1>2. Len(types) \in Nat /\ Types = 1 .. Len(types) BY <1>1 DEF Types
<1>3. SizeMax \in Nat BY FormatAssumption
<1>4. ASSUME NEW t \in Types
      PROVE  /\ types[t].size \in Nat /\ types[t].size < SizeMax /\ types[t].align \in Nat \ {0}
  <2>1. types[t].size \in 0 .. SizeMax - 1 /\ types[t].align \in Alignments BY DEF LaidOut, Laid
  <2>2. types[t].align \in Nat \ {0} BY <2>1, AlignmentsPositive
  <2>3. types[t].size \in Nat /\ types[t].size < SizeMax BY <1>3, <2>1
  <2> QED BY <2>2, <2>3
<1> QED BY <1>2, <1>4

LEMMA FieldsAre ==
    ASSUME LaidOut, NEW t \in Types, types[t].kind = "struct", NEW n, n = Len(types[t].fields)
    PROVE  /\ n \in Nat
           /\ \A i \in 1 .. n :
                LET F == types[t].fields[i] IN
                /\ F.ty \in Types /\ F.ty < t /\ F.off \in Nat
                /\ CurIdx(t, i) = F.off + types[F.ty].size
                /\ CurIdx(t, i - 1) <= F.off
           /\ \A i \in 0 .. n : CurIdx(t, i) \in Nat
           /\ CurIdx(t, n) <= types[t].size
<1> DEFINE fields == types[t].fields
<1>1. /\ fields \in Seq([off : Nat, ty : 1 .. t - 1]) /\ CurIdx(t, n) <= types[t].size
      /\ \A i \in 1 .. n : CurIdx(t, i - 1) <= fields[i].off
      BY DEF LaidOut, Laid, StructLaid
<1>2. n \in Nat BY <1>1
<1>3. ASSUME NEW i \in 1 .. n
      PROVE  /\ fields[i].ty \in Types /\ fields[i].ty < t /\ fields[i].off \in Nat
             /\ CurIdx(t, i) = fields[i].off + types[fields[i].ty].size
             /\ CurIdx(t, i) \in Nat
  <2>1. fields[i] \in [off : Nat, ty : 1 .. t - 1]
    <3>1. i \in 1 .. Len(fields) OBVIOUS
    <3> HIDE DEF fields
    <3> QED BY <1>1, <3>1, ElementOfSeq
  <2>2. fields[i].off \in Nat /\ fields[i].ty \in 1 .. t - 1 BY <2>1
  <2>3. fields[i].ty \in Types /\ fields[i].ty < t BY <2>2, TypesAre
  <2>4. CurIdx(t, i) = fields[i].off + types[fields[i].ty].size BY <1>2 DEF CurIdx
  <2> HIDE DEF fields
  <2> QED BY <2>2, <2>3, <2>4, TypesAre
<1>4. CurIdx(t, 0) = 0 BY DEF CurIdx
<1>5. \A i \in 0 .. n : i = 0 \/ i \in 1 .. n BY <1>2
<1>6. \A i \in 0 .. n : CurIdx(t, i) \in Nat BY <1>3, <1>4, <1>5
<1> QED BY <1>1, <1>2, <1>3, <1>6
-----------------------------------------------------------------------------
(***************************************************************************)
(* The definitions of formats, unfolded.                                   *)
(***************************************************************************)
LEMMA PaddingIs ==
    ASSUME NEW n \in Int
    PROVE  /\ Padding(n) \in Seq(Items)
           /\ n >= 0 => /\ Portably(Padding(n)) = [pos |-> n, found |-> {}]
                        /\ \A base \in Nat : Fits(Padding(n), base)
<1> DEFINE it == Item(n, 1, 1, TRUE)
<1>1. CASE n > 0
  <2>1. it \in Items /\ it.n = n /\ it.size = 1 /\ it.align = 1 /\ it.pad BY <1>1 DEF Item, Items
  <2>2. Padding(n) = <<it>> BY <1>1 DEF Padding
  <2> HIDE DEF it
  <2>3. Read(Start, it, FALSE) = [pos |-> 0 + n * 1, found |-> {} \cup {}] BY <2>1 DEF Read, Start
  <2>4. 0 + n * 1 = n /\ {} \cup {} = {} OBVIOUS
  <2>5. Portably(<<it>>) = Read(Start, it, FALSE) BY <2>1, UnpackOne
  <2>6. Portably(<<it>>) = [pos |-> n, found |-> {}] BY <2>3, <2>4, <2>5
  <2>7. ASSUME NEW base \in Nat PROVE Fits(<<it>>, base)
    <3>1. base = base * 1 OBVIOUS
    <3>2. Multiple(base, it.align) BY <2>1, <3>1 DEF Multiple
    <3> QED BY <2>1, <3>2, FitsOne
  <2>8. <<it>> \in Seq(Items) BY <2>1
  <2> QED BY <2>2, <2>6, <2>7, <2>8
<1>2. CASE ~(n > 0)
  <2>1. Padding(n) = <<>> BY <1>2 DEF Padding
  <2>2. n >= 0 => Start = [pos |-> n, found |-> {}] BY <1>2 DEF Start
  <2>3. \A base \in Nat : Fits(<<>>, base) BY FitsNone
  <2>4. <<>> \in Seq(Items) OBVIOUS
  <2> QED BY <2>1, <2>2, <2>3, <2>4, UnpackNone
<1> QED BY <1>1, <1>2

(* Ret has the formats of the fields, up to each of them.                  *)
AreFormats(Ret, F, t, n) ==
    /\ Ret \in [0 .. n -> Seq(Items)] /\ Ret[0] = <<>>
    /\ \A i \in 1 .. n :
         Ret[i] = Ret[i - 1] \o Padding(types[t].fields[i].off - CurIdx(t, i - 1))
                             \o F[types[t].fields[i].ty]

LEMMA FieldFormatsUnfold ==
    ASSUME LaidOut, NEW t \in Types, types[t].kind = "struct", NEW n, n = Len(types[t].fields),
           NEW F, \A i \in 1 .. n : F[types[t].fields[i].ty] \in Seq(Items)
    PROVE  \E Ret : AreFormats(Ret, F, t, n) /\ FieldFormats(F, t) = Ret[n]
<1> DEFINE fields == types[t].fields
           D == 0 .. n
           U == Seq(Items)
           Fs == [D -> U]
           r == [i \in D |-> i]
           body(M, i) == IF i = 0 THEN <<>>
                         ELSE M[i - 1] \o Padding(fields[i].off - CurIdx(t, i - 1)) \o F[fields[i].ty]
           T == [M \in Fs |-> [i \in D |-> body(M, i)]]
<1>1. n \in Nat BY FieldsAre
<1>2. ASSUME NEW i \in 1 .. n PROVE Padding(fields[i].off - CurIdx(t, i - 1)) \in U
  <2>1. fields[i].off \in Nat BY FieldsAre
  <2>2. i - 1 \in 0 .. n BY <1>1
  <2>3. CurIdx(t, i - 1) \in Nat BY <2>2, FieldsAre
  <2>4. fields[i].off - CurIdx(t, i - 1) \in Int BY <2>1, <2>3
  <2> HIDE DEF fields
  <2> QED BY <2>4, PaddingIs
<1>3. \A i \in D : i # 0 => i - 1 \in D /\ i \in 1 .. n /\ i - 1 < i BY <1>1
<1>4. ASSUME NEW s \in U, NEW i \in 1 .. n
      PROVE  s \o Padding(fields[i].off - CurIdx(t, i - 1)) \o F[fields[i].ty] \in U
  <2> DEFINE p == Padding(fields[i].off - CurIdx(t, i - 1))
             e == F[fields[i].ty]
  <2>1. p \in U /\ e \in U BY <1>2
  <2> HIDE DEF p, e
  <2>2. s \o p \in U BY <2>1, ConcatProperties
  <2>3. (s \o p) \o e \in U BY <2>1, <2>2, ConcatProperties
  <2> QED BY <2>3 DEF p, e
<1>5. T \in [Fs -> Fs]
  <2> SUFFICES ASSUME NEW M \in Fs, NEW i \in D PROVE body(M, i) \in U OBVIOUS
  <2>1. CASE i = 0 BY <2>1
  <2>2. CASE i # 0
    <3>1. M[i - 1] \in U /\ i \in 1 .. n BY <1>3, <2>2
    <3> QED BY <1>4, <2>2, <3>1
  <2> QED BY <2>1, <2>2
<1>6. \A M \in Fs, i \in D : T[M][i] = body(M, i) OBVIOUS
<1>7. ASSUME NEW M \in Fs, NEW N \in Fs, NEW i \in D, \A p \in D : r[p] < r[i] => M[p] = N[p]
      PROVE  T[M][i] = T[N][i]
  <2>1. i # 0 => M[i - 1] = N[i - 1] BY <1>3, <1>7
  <2> QED BY <1>6, <2>1
<1>8. Fs # {}
  <2>1. [i \in D |-> <<>>] \in Fs OBVIOUS
  <2> QED BY <2>1
<1>9. r \in [D -> 0 .. n] OBVIOUS
<1>10. Decreasing(D, U, n, r, T)
  <2> HIDE DEF r, T
  <2> QED BY <1>1, <1>5, <1>7, <1>8, <1>9 DEF Decreasing
<1>11. PICK M \in Fs : M = T[M]
  <2> HIDE DEF r, T, D, U
  <2> QED BY <1>10, Recursion
<1>12. M = [i \in D |-> body(M, i)] BY <1>11
<1> DEFINE Ret == CHOOSE g : g = [i \in D |-> body(g, i)]
<1>13. Ret = [i \in D |-> body(Ret, i)] BY <1>12
<1>14. FieldFormats(F, t) = Ret[n] BY DEF FieldFormats
<1> HIDE DEF Ret
<1>15. \A i \in D : Ret[i] = body(Ret, i) BY <1>13
<1>16. D \subseteq {i \in D : Ret[i] \in U}
  <2> DEFINE P == {i \in D : Ret[i] \in U}
  <2>1. 0 \in P BY <1>1, <1>15
  <2>2. ASSUME NEW i \in 1 .. n, i - 1 \in P PROVE i \in P
    <3>1. i \in D /\ i # 0 BY <1>1
    <3> QED BY <1>4, <1>15, <2>2, <3>1
  <2> HIDE DEF P
  <2>3. D \subseteq P BY <1>1, <2>1, <2>2, Upwards
  <2> QED BY <2>3 DEF P
<1>17. Ret \in [D -> U]
  <2>1. Ret = [i \in D |-> Ret[i]] BY <1>13, <1>15
  <2> QED BY <1>16, <2>1
<1>18. \A i \in 1 .. n :
         Ret[i] = Ret[i - 1] \o Padding(fields[i].off - CurIdx(t, i - 1)) \o F[fields[i].ty]
  <2> TAKE i \in 1 .. n
  <2>1. i \in D /\ i # 0 BY <1>1
  <2> QED BY <1>15, <2>1
<1>19. Ret[0] = <<>>
  <2>1. 0 \in D BY <1>1
  <2> QED BY <1>15, <2>1
<1>20. AreFormats(Ret, F, t, n) BY <1>17, <1>18, <1>19 DEF AreFormats
<1> QED BY <1>14, <1>20

LEMMA FieldFormatsLocal ==
    ASSUME LaidOut, NEW t \in Types, types[t].kind = "struct", NEW n, n = Len(types[t].fields),
           NEW M, NEW N, \A i \in 1 .. n : /\ M[types[t].fields[i].ty] \in Seq(Items)
                                           /\ M[types[t].fields[i].ty] = N[types[t].fields[i].ty]
    PROVE  FieldFormats(M, t) = FieldFormats(N, t)
<1>1. PICK R : AreFormats(R, M, t, n) /\ FieldFormats(M, t) = R[n] BY FieldFormatsUnfold
<1>2. PICK Q : AreFormats(Q, N, t, n) /\ FieldFormats(N, t) = Q[n] BY FieldFormatsUnfold
<1> DEFINE P == {i \in 0 .. n : R[i] = Q[i]}
<1>3. n \in Nat BY FieldsAre
<1>4. 0 \in P BY <1>1, <1>2, <1>3 DEF AreFormats
<1>5. ASSUME NEW i \in 1 .. n, i - 1 \in P PROVE i \in P
  <2> DEFINE p == Padding(types[t].fields[i].off - CurIdx(t, i - 1))
  <2>1. R[i] = R[i - 1] \o p \o M[types[t].fields[i].ty] BY <1>1 DEF AreFormats
  <2>2. Q[i] = Q[i - 1] \o p \o N[types[t].fields[i].ty] BY <1>2 DEF AreFormats
  <2>3. M[types[t].fields[i].ty] = N[types[t].fields[i].ty] /\ R[i - 1] = Q[i - 1] BY <1>5
  <2> HIDE DEF p
  <2>4. R[i] = Q[i] BY <2>1, <2>2, <2>3
  <2>5. i \in 0 .. n BY <1>3
  <2> QED BY <2>4, <2>5
<1> HIDE DEF P
<1>6. 0 .. n \subseteq P BY <1>3, <1>4, <1>5, Upwards
<1>7. n \in P BY <1>3, <1>6
<1> QED BY <1>1, <1>2, <1>7 DEF P

LEMMA FinalPaddingIs ==
    ASSUME LaidOut, NEW t \in Types, types[t].kind = "struct", NEW n, n = Len(types[t].fields)
    PROVE  FinalPadding(t, CurIdx(t, n)) = Padding(types[t].size - CurIdx(t, n))
<1> DEFINE x == types[t].size - CurIdx(t, n)
<1>1. /\ types[t].size \in Nat /\ types[t].size < SizeMax /\ SizeMax \in Nat
      BY TypesAre, FormatAssumption
<1>2. n \in 0 .. n BY FieldsAre
<1>3. CurIdx(t, n) \in Nat /\ CurIdx(t, n) <= types[t].size BY <1>2, FieldsAre
<1>4. x \in Nat /\ x < SizeMax BY <1>1, <1>3
<1> HIDE DEF x
<1>5. x % SizeMax = x BY <1>1, <1>4
<1> QED BY <1>5 DEF FinalPadding, x

LEMMA ItemsAre ==
    ASSUME LaidOut, NEW t \in Types, NEW native
    PROVE  /\ Bytes(t) \in Items
           /\ types[t].kind = "scalar" => ScalarFormat(t, native) \in Items
<1>1. types[t].size \in Nat /\ types[t].align \in Nat \ {0} BY TypesAre
<1> QED BY <1>1 DEF Bytes, Item, Items, ScalarFormat

LEMMA FormatTyped ==
    ASSUME LaidOut, NEW t \in Types, NEW native, NEW M,
           \A s \in Types : s < t => M[s] \in Seq(Items)
    PROVE  FormatOf(M, t, native) \in Seq(Items)
<1>1. CASE types[t].kind = "scalar"
  <2>1. FormatOf(M, t, native) = <<ScalarFormat(t, native)>> BY <1>1 DEF FormatOf
  <2>2. ScalarFormat(t, native) \in Items BY <1>1, ItemsAre
  <2> QED BY <2>1, <2>2
<1>2. CASE types[t].kind = "struct"
  <2> DEFINE n == Len(types[t].fields)
  <2>1. \A i \in 1 .. n : M[types[t].fields[i].ty] \in Seq(Items) BY <1>2, FieldsAre
  <2>2. PICK R : AreFormats(R, M, t, n) /\ FieldFormats(M, t) = R[n]
        BY <1>2, <2>1, FieldFormatsUnfold
  <2>3. n \in 0 .. n BY <1>2, FieldsAre
  <2>4. R[n] \in Seq(Items) BY <2>2, <2>3 DEF AreFormats
  <2>5. types[t].size - CurIdx(t, n) \in Int
    <3>1. CurIdx(t, n) \in Nat BY <1>2, <2>3, FieldsAre
    <3>2. types[t].size \in Nat BY TypesAre
    <3> QED BY <3>1, <3>2
  <2>6. FinalPadding(t, CurIdx(t, n)) \in Seq(Items) BY <1>2, <2>5, FinalPaddingIs, PaddingIs
  <2>7. FormatOf(M, t, native) = FieldFormats(M, t) \o FinalPadding(t, CurIdx(t, n))
        BY <1>2 DEF FormatOf
  <2> QED BY <2>2, <2>4, <2>6, <2>7, ConcatProperties
<1>3. CASE types[t].kind \notin {"scalar", "struct"}
  <2>1. FormatOf(M, t, native) = <<Bytes(t)>> BY <1>3 DEF FormatOf
  <2>2. Bytes(t) \in Items BY ItemsAre
  <2> QED BY <2>1, <2>2
<1> QED BY <1>1, <1>2, <1>3

LEMMA FormatLocal ==
    ASSUME LaidOut, NEW t \in Types, NEW native, NEW M, NEW N,
           \A s \in Types : s < t => M[s] \in Seq(Items) /\ M[s] = N[s]
    PROVE  FormatOf(M, t, native) = FormatOf(N, t, native)
<1>1. CASE types[t].kind = "scalar" BY <1>1 DEF FormatOf
<1>2. CASE types[t].kind = "struct"
  <2> DEFINE n == Len(types[t].fields)
  <2>1. \A i \in 1 .. n : /\ M[types[t].fields[i].ty] \in Seq(Items)
                          /\ M[types[t].fields[i].ty] = N[types[t].fields[i].ty]
        BY <1>2, FieldsAre
  <2>2. n = Len(types[t].fields) OBVIOUS
  <2> HIDE DEF n
  <2>3. FieldFormats(M, t) = FieldFormats(N, t) BY <1>2, <2>1, <2>2, FieldFormatsLocal
  <2> QED BY <1>2, <2>3 DEF FormatOf
<1>3. CASE types[t].kind \notin {"scalar", "struct"} BY <1>3 DEF FormatOf
<1> QED BY <1>1, <1>2, <1>3

LEMMA FormatsUnfold ==
    ASSUME LaidOut, NEW native, NEW G, G = getFormatDescriptorImpl(native)
    PROVE  \A t \in Types : G[t] \in Seq(Items) /\ G[t] = FormatOf(G, t, native)
<1> DEFINE n == Len(types)
           U == Seq(Items)
           Fs == [Types -> U]
           r == [t \in Types |-> t]
           T == [M \in Fs |-> [t \in Types |-> FormatOf(M, t, native)]]
<1>1. n \in Nat /\ Types = 1 .. n BY TypesAre
<1>2. T \in [Fs -> Fs]
  <2> SUFFICES ASSUME NEW M \in Fs, NEW t \in Types PROVE FormatOf(M, t, native) \in U OBVIOUS
  <2> QED BY FormatTyped
<1>3. \A M \in Fs, t \in Types : T[M][t] = FormatOf(M, t, native) OBVIOUS
<1>4. ASSUME NEW M \in Fs, NEW N \in Fs, NEW t \in Types, \A p \in Types : r[p] < r[t] => M[p] = N[p]
      PROVE  T[M][t] = T[N][t]
  <2>1. \A s \in Types : s < t => M[s] \in U /\ M[s] = N[s] BY <1>4
  <2>2. FormatOf(M, t, native) = FormatOf(N, t, native) BY <2>1, FormatLocal
  <2> QED BY <1>3, <2>2
<1>5. Fs # {}
  <2>1. [t \in Types |-> <<>>] \in Fs OBVIOUS
  <2> QED BY <2>1
<1>6. r \in [Types -> 0 .. n] BY <1>1
<1>7. Decreasing(Types, U, n, r, T)
  <2> HIDE DEF r, T
  <2> QED BY <1>1, <1>2, <1>4, <1>5, <1>6 DEF Decreasing
<1>8. PICK M \in Fs : M = T[M]
  <2> HIDE DEF r, T, U
  <2> QED BY <1>7, Recursion
<1>9. M = [t \in Types |-> FormatOf(M, t, native)] BY <1>8
<1>10. G = CHOOSE g : g = [t \in Types |-> FormatOf(g, t, native)] BY DEF getFormatDescriptorImpl
<1>11. G = [t \in Types |-> FormatOf(G, t, native)] BY <1>9, <1>10
<1>12. \A t \in Types : G[t] = FormatOf(G, t, native) BY <1>11
<1> DEFINE P == {t \in Types : G[t] \in U}
<1>13. \A t \in 1 .. n : (\A s \in 1 .. n : s < t => s \in P) => t \in P
  <2> SUFFICES ASSUME NEW t \in 1 .. n, \A s \in 1 .. n : s < t => s \in P PROVE t \in P OBVIOUS
  <2>1. \A s \in Types : s < t => G[s] \in Seq(Items) BY <1>1
  <2> QED BY <1>1, <1>12, <2>1, FormatTyped
<1> HIDE DEF P
<1>14. 1 .. n \subseteq P BY <1>1, <1>13, Smaller
<1> QED BY <1>1, <1>12, <1>14 DEF P

LEMMA ValuesUnfold ==
    ASSUME LaidOut
    PROVE  \A t \in Types : /\ CValues[t] \in SUBSET (Nat \X Nat)
                            /\ CValues[t] = ValuesOf(CValues, t)
<1> DEFINE n == Len(types)
           U == SUBSET (Nat \X Nat)
           Fs == [Types -> U]
           r == [t \in Types |-> t]
           T == [M \in Fs |-> [t \in Types |-> ValuesOf(M, t)]]
<1>1. n \in Nat /\ Types = 1 .. n BY TypesAre
<1>2. ASSUME NEW M, NEW t \in Types, \A s \in Types : s < t => M[s] \in U PROVE ValuesOf(M, t) \in U
  <2>1. types[t].size \in Nat BY TypesAre
  <2>2. CASE types[t].kind = "struct"
    <3> DEFINE fields == types[t].fields
    <3>1. ASSUME NEW i \in DOMAIN fields, NEW v \in Shifted(M[fields[i].ty], fields[i].off)
          PROVE  v \in Nat \X Nat
      <4>1. fields \in Seq([off : Nat, ty : 1 .. t - 1]) BY <2>2 DEF LaidOut, Laid, StructLaid
      <4>2. i \in 1 .. Len(fields) BY <4>1
      <4>3. fields[i].ty \in Types /\ fields[i].ty < t /\ fields[i].off \in Nat
            BY <2>2, <4>2, FieldsAre
      <4>4. M[fields[i].ty] \in U BY <1>2, <4>3
      <4>5. PICK w \in M[fields[i].ty] : v = <<w[1] + fields[i].off, w[2]>> BY <3>1 DEF Shifted
      <4>6. w[1] \in Nat /\ w[2] \in Nat BY <4>4, <4>5
      <4> QED BY <4>3, <4>5, <4>6
    <3>2. ValuesOf(M, t) = UNION {Shifted(M[F.ty], F.off) : F \in {fields[i] : i \in DOMAIN fields}}
          BY <2>2 DEF ValuesOf
    <3> HIDE DEF fields
    <3> QED BY <3>1, <3>2
  <2>3. CASE types[t].kind = "scalar" /\ types[t].letter
    <3>1. ValuesOf(M, t) = {<<0, types[t].size>>} BY <2>3 DEF ValuesOf
    <3> QED BY <2>1, <3>1
  <2>4. CASE types[t].kind # "struct" /\ ~(types[t].kind = "scalar" /\ types[t].letter)
    <3>1. ValuesOf(M, t) = {<<k - 1, 1>> : k \in 1 .. types[t].size} BY <2>4 DEF ValuesOf
    <3> QED BY <2>1, <3>1
  <2> QED BY <2>2, <2>3, <2>4
<1>3. T \in [Fs -> Fs]
  <2> SUFFICES ASSUME NEW M \in Fs, NEW t \in Types PROVE ValuesOf(M, t) \in U OBVIOUS
  <2> HIDE DEF U
  <2> QED BY <1>2
<1>4. \A M \in Fs, t \in Types : T[M][t] = ValuesOf(M, t) OBVIOUS
<1>5. ASSUME NEW M \in Fs, NEW N \in Fs, NEW t \in Types, \A p \in Types : r[p] < r[t] => M[p] = N[p]
      PROVE  T[M][t] = T[N][t]
  <2>1. \A s \in Types : s < t => M[s] = N[s] BY <1>5
  <2>2. CASE types[t].kind = "struct"
    <3> DEFINE fields == types[t].fields
               S == {fields[i] : i \in DOMAIN fields}
    <3>1. ASSUME NEW i \in DOMAIN fields PROVE M[fields[i].ty] = N[fields[i].ty]
      <4>1. fields \in Seq([off : Nat, ty : 1 .. t - 1]) BY <2>2 DEF LaidOut, Laid, StructLaid
      <4>2. i \in 1 .. Len(fields) BY <4>1
      <4>3. fields[i].ty \in Types /\ fields[i].ty < t BY <2>2, <4>2, FieldsAre
      <4> QED BY <2>1, <4>3
    <3>2. \A K : ValuesOf(K, t) = UNION {Shifted(K[F.ty], F.off) : F \in S} BY <2>2 DEF ValuesOf
    <3>3. \A F \in S : M[F.ty] = N[F.ty] BY <3>1
    <3> HIDE DEF S
    <3>4. {Shifted(M[F.ty], F.off) : F \in S} = {Shifted(N[F.ty], F.off) : F \in S} BY <3>3
    <3> QED BY <1>4, <3>2, <3>4
  <2>3. CASE types[t].kind # "struct"
    <3>1. ValuesOf(M, t) = ValuesOf(N, t) BY <2>3 DEF ValuesOf
    <3> QED BY <1>4, <3>1
  <2> QED BY <2>2, <2>3
<1>6. Fs # {}
  <2>1. [t \in Types |-> {}] \in Fs OBVIOUS
  <2> QED BY <2>1
<1>7. r \in [Types -> 0 .. n] BY <1>1
<1>8. Decreasing(Types, U, n, r, T)
  <2> HIDE DEF r, T
  <2> QED BY <1>1, <1>3, <1>5, <1>6, <1>7 DEF Decreasing
<1>9. PICK M \in Fs : M = T[M]
  <2> HIDE DEF r, T, U
  <2> QED BY <1>8, Recursion
<1>10. M = [t \in Types |-> ValuesOf(M, t)] BY <1>9
<1>11. CValues = CHOOSE g : g = [t \in Types |-> ValuesOf(g, t)] BY DEF CValues
<1>12. CValues = [t \in Types |-> ValuesOf(CValues, t)] BY <1>10, <1>11
<1>13. \A t \in Types : CValues[t] = ValuesOf(CValues, t) BY <1>12
<1> DEFINE P == {t \in Types : CValues[t] \in U}
<1>14. \A t \in 1 .. n : (\A s \in 1 .. n : s < t => s \in P) => t \in P
  <2> SUFFICES ASSUME NEW t \in 1 .. n, \A s \in 1 .. n : s < t => s \in P PROVE t \in P OBVIOUS
  <2>1. \A s \in Types : s < t => CValues[s] \in U BY <1>1
  <2> HIDE DEF U
  <2> QED BY <1>1, <1>2, <1>13, <2>1
<1> HIDE DEF P
<1>15. 1 .. n \subseteq P BY <1>1, <1>14, Smaller
<1> QED BY <1>1, <1>13, <1>15 DEF P

LEMMA PosIs ==
    ASSUME NEW p, NEW X, NEW u, u = [pos |-> p, found |-> X] PROVE u.pos = p
OBVIOUS

LEMMA JoinedIs ==
    ASSUME NEW p, NEW q, NEW X, NEW Y, NEW u, NEW v,
           u = [pos |-> p, found |-> X], v = [pos |-> q, found |-> Y]
    PROVE  /\ Joined(u, v) = [pos |-> p + q, found |-> X \cup Shifted(Y, p)]
           /\ Joined(u, v).pos = p + q
           /\ Y = {} => Joined(u, v) = [pos |-> p + q, found |-> X]
<1>1. u.pos = p /\ u.found = X /\ v.pos = q /\ v.found = Y OBVIOUS
<1>2. Joined(u, v) = [pos |-> p + q, found |-> X \cup Shifted(Y, p)] BY <1>1 DEF Joined
<1>3. Y = {} => X \cup Shifted(Y, p) = X BY DEF Shifted
<1> QED BY <1>2, <1>3
-----------------------------------------------------------------------------
(***************************************************************************)
(* Formats are faithful.                                                   *)
(***************************************************************************)
(* G[t] finds the values of t, and its items are aligned if t is.          *)
Finds(G, t) == Portably(G[t]) = [pos |-> types[t].size, found |-> CValues[t]]
FitsWell(G, t) ==
    t \in natural => \A base \in Nat : Multiple(base, types[t].align) => Fits(G[t], base)

LEMMA BytesRead ==
    ASSUME LaidOut, NEW t \in Types
    PROVE  /\ Portably(<<Bytes(t)>>)
                = [pos |-> types[t].size, found |-> {<<k - 1, 1>> : k \in 1 .. types[t].size}]
           /\ \A base \in Nat : Fits(<<Bytes(t)>>, base)
<1> DEFINE it == Bytes(t)
           s == types[t].size
<1>1. s \in Nat BY TypesAre
<1>2. it \in Items BY ItemsAre
<1>3. it.n = s /\ it.size = 1 /\ it.align = 1 /\ it.pad = FALSE BY DEF Bytes, Item
<1> HIDE DEF it, s
<1>4. Read(Start, it, FALSE)
        = [pos |-> 0 + s * 1, found |-> {} \cup {<<0 + (k - 1) * 1, 1>> : k \in 1 .. s}]
      BY <1>3 DEF Read, Start
<1>5. 0 + s * 1 = s BY <1>1
<1>6. \A k \in 1 .. s : 0 + (k - 1) * 1 = k - 1 BY <1>1
<1>7. {} \cup {<<0 + (k - 1) * 1, 1>> : k \in 1 .. s} = {<<k - 1, 1>> : k \in 1 .. s} BY <1>6
<1>8. Portably(<<it>>) = Read(Start, it, FALSE) BY <1>2, UnpackOne
<1>9. Portably(<<it>>) = [pos |-> s, found |-> {<<k - 1, 1>> : k \in 1 .. s}]
      BY <1>4, <1>5, <1>7, <1>8
<1>10. ASSUME NEW base \in Nat PROVE Fits(<<it>>, base)
  <2>1. base = base * 1 OBVIOUS
  <2>2. Multiple(base, it.align) BY <1>3, <2>1 DEF Multiple
  <2> QED BY <1>2, <2>2, FitsOne
<1> QED BY <1>9, <1>10 DEF it, s

LEMMA LetterRead ==
    ASSUME LaidOut, NEW t \in Types, NEW it, it = Item(1, types[t].size, types[t].align, FALSE)
    PROVE  /\ Portably(<<it>>) = [pos |-> types[t].size, found |-> {<<0, types[t].size>>}]
           /\ \A base \in Nat : Multiple(base, types[t].align) => Fits(<<it>>, base)
<1> DEFINE s == types[t].size
<1>1. s \in Nat /\ types[t].align \in Nat \ {0} BY TypesAre
<1>2. it \in Items BY <1>1 DEF Item, Items
<1>3. it.n = 1 /\ it.size = s /\ it.align = types[t].align /\ it.pad = FALSE BY DEF Item
<1> HIDE DEF s
<1>4. Read(Start, it, FALSE)
        = [pos |-> 0 + 1 * s, found |-> {} \cup {<<0 + (k - 1) * s, s>> : k \in 1 .. 1}]
      BY <1>3 DEF Read, Start
<1>5. 0 + 1 * s = s BY <1>1
<1>6. \A k \in 1 .. 1 : 0 + (k - 1) * s = 0
  <2> SUFFICES ASSUME NEW k \in 1 .. 1 PROVE 0 + (k - 1) * s = 0 OBVIOUS
  <2>1. k - 1 = 0 OBVIOUS
  <2>2. 0 * s = 0 BY <1>1
  <2> QED BY <2>1, <2>2
<1>7. {} \cup {<<0 + (k - 1) * s, s>> : k \in 1 .. 1} = {<<0, s>>} BY <1>6
<1>8. Portably(<<it>>) = Read(Start, it, FALSE) BY <1>2, UnpackOne
<1>9. Portably(<<it>>) = [pos |-> s, found |-> {<<0, s>>}] BY <1>4, <1>5, <1>7, <1>8
<1>10. \A base \in Nat : Multiple(base, types[t].align) => Fits(<<it>>, base)
       BY <1>2, <1>3, FitsOne
<1> QED BY <1>9, <1>10 DEF s

(* The values of the first i fields.                                       *)
FieldValues(t, i) ==
    UNION {Shifted(CValues[types[t].fields[j].ty], types[t].fields[j].off) : j \in 1 .. i}

LEMMA FieldsRead ==
    ASSUME LaidOut, NEW t \in Types, types[t].kind = "struct", NEW n, n = Len(types[t].fields),
           NEW G, \A s \in Types : s < t => G[s] \in Seq(Items) /\ Finds(G, s),
           NEW R, AreFormats(R, G, t, n), NEW i \in 0 .. n
    PROVE  Portably(R[i]) = [pos |-> CurIdx(t, i), found |-> FieldValues(t, i)]
<1> DEFINE fields == types[t].fields
           P == {j \in 0 .. n : Portably(R[j]) = [pos |-> CurIdx(t, j), found |-> FieldValues(t, j)]}
<1>1. n \in Nat BY FieldsAre
<1>2. 0 \in P
  <2>1. R[0] = <<>> BY DEF AreFormats
  <2>2. 1 .. 0 = {} OBVIOUS
  <2>3. FieldValues(t, 0) = {} BY <2>2 DEF FieldValues
  <2>4. CurIdx(t, 0) = 0 BY DEF CurIdx
  <2>5. 0 \in 0 .. n BY <1>1
  <2> QED BY <2>1, <2>3, <2>4, <2>5, UnpackNone DEF Start
<1>3. ASSUME NEW j \in 1 .. n, j - 1 \in P PROVE j \in P
  <2> DEFINE off == fields[j].off
             s == fields[j].ty
             cur == CurIdx(t, j - 1)
             p == Padding(off - cur)
             u == Portably(R[j - 1])
             FV == FieldValues(t, j - 1)
             SV == Shifted(CValues[s], off)
  <2>1. j - 1 \in 0 .. n /\ j \in 0 .. n BY <1>1
  <2>2. /\ s \in Types /\ s < t /\ off \in Nat /\ cur \in Nat /\ cur <= off
        /\ CurIdx(t, j) = off + types[s].size
        BY <2>1, FieldsAre
  <2>3. R[j] = (R[j - 1] \o p) \o G[s] /\ R[j - 1] \in Seq(Items) BY <2>1 DEF AreFormats
  <2>4. FieldValues(t, j) = FV \cup SV
    <3>1. 1 .. j = (1 .. j - 1) \cup {j} OBVIOUS
    <3> QED BY <3>1 DEF FieldValues
  <2>5. G[s] \in Seq(Items) /\ Portably(G[s]) = [pos |-> types[s].size, found |-> CValues[s]]
        BY <2>2 DEF Finds
  <2>6. off - cur \in Int /\ off - cur >= 0 BY <2>2
  <2>7. p \in Seq(Items) /\ Portably(p) = [pos |-> off - cur, found |-> {}]
        BY <2>6, PaddingIs
  <2>8. u = [pos |-> cur, found |-> FV] BY <1>3
  <2> HIDE DEF off, s, cur, p, u, FV, SV
  <2>9. R[j - 1] \o p \in Seq(Items) BY <2>3, <2>7, ConcatProperties
  <2>10. Portably(R[j - 1] \o p) = [pos |-> off, found |-> FV]
    <3>1. Portably(R[j - 1] \o p) = Joined(u, Portably(p))
          BY <2>3, <2>7, UnpackConcat DEF u
    <3>2. Joined(u, Portably(p)) = [pos |-> cur + (off - cur), found |-> FV]
          BY <2>7, <2>8, JoinedIs
    <3>3. cur + (off - cur) = off BY <2>2
    <3> QED BY <3>1, <3>2, <3>3
  <2>11. Portably(R[j]) = Joined(Portably(R[j - 1] \o p), Portably(G[s]))
         BY <2>3, <2>5, <2>9, UnpackConcat
  <2>12. Portably(R[j]) = [pos |-> off + types[s].size, found |-> FV \cup SV]
    <3> DEFINE w == Portably(R[j - 1] \o p)
               v == Portably(G[s])
               z == types[s].size
               C == CValues[s]
    <3>1. w = [pos |-> off, found |-> FV] /\ v = [pos |-> z, found |-> C] BY <2>5, <2>10
    <3>2. Portably(R[j]) = Joined(w, v) /\ SV = Shifted(C, off) BY <2>11 DEF SV
    <3> HIDE DEF w, v, z, C
    <3>3. w.pos = off /\ w.found = FV /\ v.pos = z /\ v.found = C BY <3>1
    <3>4. Joined(w, v) = [pos |-> off + z, found |-> FV \cup Shifted(C, off)] BY <3>3 DEF Joined
    <3> QED BY <3>2, <3>4 DEF z
  <2>13. Portably(R[j]) = [pos |-> CurIdx(t, j), found |-> FieldValues(t, j)]
         BY <2>2, <2>4, <2>12
  <2> QED BY <2>1, <2>13
<1> HIDE DEF P
<1>4. 0 .. n \subseteq P BY <1>1, <1>2, <1>3, Upwards
<1> QED BY <1>4 DEF P

LEMMA FieldsFit ==
    ASSUME LaidOut, NEW t \in natural, types[t].kind = "struct", NEW n, n = Len(types[t].fields),
           NEW G, \A s \in Types : s < t => G[s] \in Seq(Items) /\ Finds(G, s) /\ FitsWell(G, s),
           NEW R, AreFormats(R, G, t, n), NEW i \in 0 .. n,
           NEW base \in Nat, Multiple(base, types[t].align)
    PROVE  Fits(R[i], base)
<1> DEFINE fields == types[t].fields
           P == {j \in 0 .. n : Fits(R[j], base)}
<1>0. t \in Types BY DEF LaidOut
<1>1. n \in Nat BY <1>0, FieldsAre
<1>2. 0 \in P
  <2>1. R[0] = <<>> BY DEF AreFormats
  <2>2. 0 \in 0 .. n BY <1>1
  <2> QED BY <2>1, <2>2, FitsNone
<1>3. ASSUME NEW j \in 1 .. n, j - 1 \in P PROVE j \in P
  <2> DEFINE off == fields[j].off
             s == fields[j].ty
             cur == CurIdx(t, j - 1)
             p == Padding(off - cur)
             a == types[s].align
  <2>1. j - 1 \in 0 .. n /\ j \in 0 .. n BY <1>1
  <2>2. s \in Types /\ s < t /\ off \in Nat /\ cur \in Nat /\ cur <= off
        BY <1>0, <2>1, FieldsAre
  <2>3. R[j] = (R[j - 1] \o p) \o G[s] /\ R[j - 1] \in Seq(Items) BY <2>1 DEF AreFormats
  <2>4. s \in natural /\ Multiple(off, a) /\ Multiple(types[t].align, a)
        BY <1>0 DEF LaidOut, Laid, StructLaid
  <2>5. a \in Nat /\ types[t].align \in Nat BY <1>0, <2>2, TypesAre
  <2>6. off - cur \in Int /\ off - cur >= 0 BY <2>2
  <2>7. /\ p \in Seq(Items) /\ Portably(p) = [pos |-> off - cur, found |-> {}]
        /\ \A b \in Nat : Fits(p, b)
        BY <2>6, PaddingIs
  <2>8. Portably(R[j - 1]) = [pos |-> cur, found |-> FieldValues(t, j - 1)]
        BY <1>0, <2>1, FieldsRead
  <2>9. G[s] \in Seq(Items) /\ FitsWell(G, s) BY <2>2
  <2> HIDE DEF off, s, cur, p, a
  <2>10. Multiple(base + off, a)
    <3>1. Multiple(base, a) BY <2>4, <2>5, MultipleOfMultiple
    <3> QED BY <2>2, <2>4, <2>5, <3>1, MultipleSum
  <2>11. Fits(G[s], base + off)
    <3>1. base + off \in Nat BY <2>2
    <3> QED BY <2>4, <2>9, <2>10, <3>1 DEF FitsWell, a
  <2>12. Fits(R[j - 1] \o p, base)
    <3>1. Portably(R[j - 1]).pos = cur BY <2>8, PosIs
    <3>2. Fits(p, base + cur) BY <2>2, <2>7
    <3> QED BY <1>3, <2>3, <2>7, <3>1, <3>2, FitsConcat
  <2>13. R[j - 1] \o p \in Seq(Items) BY <2>3, <2>7, ConcatProperties
  <2>14. Portably(R[j - 1] \o p).pos = off
    <3>1. Portably(R[j - 1] \o p) = Joined(Portably(R[j - 1]), Portably(p))
          BY <2>3, <2>7, UnpackConcat
    <3>2. Portably(R[j - 1] \o p).pos = cur + (off - cur) BY <2>7, <2>8, <3>1, JoinedIs
    <3>3. cur + (off - cur) = off BY <2>2
    <3> QED BY <3>2, <3>3
  <2>15. Fits(R[j], base) BY <2>3, <2>9, <2>11, <2>12, <2>13, <2>14, FitsConcat
  <2> QED BY <2>1, <2>15
<1> HIDE DEF P
<1>4. 0 .. n \subseteq P BY <1>1, <1>2, <1>3, Upwards
<1> QED BY <1>4 DEF P

LEMMA StructRead ==
    ASSUME LaidOut, NEW t \in Types, types[t].kind = "struct", NEW native,
           NEW G, G = getFormatDescriptorImpl(native),
           \A s \in Types : s < t => Finds(G, s) /\ FitsWell(G, s)
    PROVE  Finds(G, t) /\ FitsWell(G, t)
<1> DEFINE n == Len(types[t].fields)
           cur == CurIdx(t, n)
           size == types[t].size
           p == Padding(size - cur)
<1>1. /\ \A s \in Types : G[s] \in Seq(Items) /\ G[s] = FormatOf(G, s, native) BY FormatsUnfold
<1>2. \A i \in 1 .. n : G[types[t].fields[i].ty] \in Seq(Items) BY <1>1, FieldsAre
<1>3. PICK R : AreFormats(R, G, t, n) /\ FieldFormats(G, t) = R[n] BY <1>2, FieldFormatsUnfold
<1>4. n \in 0 .. n /\ n \in Nat BY FieldsAre
<1>5. cur \in Nat /\ cur <= size /\ size \in Nat
  <2>1. CurIdx(t, n) \in Nat /\ CurIdx(t, n) <= types[t].size BY <1>4, FieldsAre
  <2>2. types[t].size \in Nat BY TypesAre
  <2> QED BY <2>1, <2>2
<1>6. G[t] = R[n] \o p
  <2>1. FormatOf(G, t, native) = FieldFormats(G, t) \o FinalPadding(t, cur) BY DEF FormatOf
  <2>2. FinalPadding(t, cur) = p BY FinalPaddingIs
  <2> QED BY <1>1, <1>3, <2>1, <2>2
<1>7. R[n] \in Seq(Items) BY <1>3, <1>4 DEF AreFormats
<1>8. Portably(R[n]) = [pos |-> cur, found |-> FieldValues(t, n)]
      BY <1>1, <1>3, <1>4, FieldsRead
<1>9. t \in natural => \A base \in Nat : Multiple(base, types[t].align) => Fits(R[n], base)
      BY <1>1, <1>3, <1>4, FieldsFit
<1>10. size - cur \in Int /\ size - cur >= 0 BY <1>5
<1>11. /\ p \in Seq(Items) /\ Portably(p) = [pos |-> size - cur, found |-> {}]
       /\ \A b \in Nat : Fits(p, b)
       BY <1>10, PaddingIs
<1>12. FieldValues(t, n) = CValues[t]
  <2> DEFINE fields == types[t].fields
             V(F) == Shifted(CValues[F.ty], F.off)
  <2>1. CValues[t] = ValuesOf(CValues, t) BY ValuesUnfold
  <2>2. ValuesOf(CValues, t) = UNION {V(F) : F \in {fields[i] : i \in DOMAIN fields}}
        BY DEF ValuesOf
  <2>3. fields \in Seq([off : Nat, ty : 1 .. t - 1]) BY DEF LaidOut, Laid, StructLaid
  <2>4. DOMAIN fields = 1 .. n BY <2>3
  <2>5. FieldValues(t, n) = UNION {V(fields[j]) : j \in 1 .. n} BY DEF FieldValues
  <2> HIDE DEF V, fields, n
  <2>6. {V(F) : F \in {fields[i] : i \in DOMAIN fields}} = {V(fields[j]) : j \in 1 .. n} BY <2>4
  <2> QED BY <2>1, <2>2, <2>5, <2>6
<1> HIDE DEF n, cur, size, p
<1>13. Portably(G[t]) = [pos |-> size, found |-> CValues[t]]
  <2>1. Portably(G[t]) = Joined(Portably(R[n]), Portably(p))
        BY <1>6, <1>7, <1>11, UnpackConcat
  <2>2. Joined(Portably(R[n]), Portably(p))
          = [pos |-> cur + (size - cur), found |-> CValues[t]]
        BY <1>8, <1>11, <1>12, JoinedIs
  <2>3. cur + (size - cur) = size BY <1>5
  <2> QED BY <2>1, <2>2, <2>3
<1>14. ASSUME t \in natural, NEW base \in Nat, Multiple(base, types[t].align) PROVE Fits(G[t], base)
  <2>1. Fits(R[n], base) BY <1>9, <1>14
  <2>2. Portably(R[n]).pos = cur BY <1>8, PosIs
  <2>3. Fits(p, base + cur) BY <1>5, <1>11
  <2> QED BY <1>6, <1>7, <1>11, <2>1, <2>2, <2>3, FitsConcat
<1> QED BY <1>13, <1>14 DEF Finds, FitsWell, size

LEMMA Faithful ==
    ASSUME LaidOut, NEW native, NEW G, G = getFormatDescriptorImpl(native)
    PROVE  \A t \in Types : G[t] \in Seq(Items) /\ Finds(G, t) /\ FitsWell(G, t)
<1> DEFINE n == Len(types)
           P == {t \in Types : Finds(G, t) /\ FitsWell(G, t)}
<1>1. n \in Nat /\ Types = 1 .. n BY TypesAre
<1>2. \A t \in Types : /\ G[t] \in Seq(Items) /\ G[t] = FormatOf(G, t, native)
                       /\ CValues[t] = ValuesOf(CValues, t)
      BY FormatsUnfold, ValuesUnfold
<1>3. ASSUME NEW t \in 1 .. n, \A s \in 1 .. n : s < t => s \in P PROVE t \in P
  <2>1. t \in Types /\ \A s \in Types : s < t => Finds(G, s) /\ FitsWell(G, s) BY <1>1, <1>3
  <2>2. CASE types[t].kind = "struct" BY <2>1, <2>2, StructRead
  <2>3. CASE types[t].kind = "scalar" /\ types[t].letter
    <3> DEFINE it == Item(1, types[t].size, types[t].align, FALSE)
    <3>1. G[t] = <<it>> BY <1>2, <2>1, <2>3 DEF FormatOf, ScalarFormat
    <3>2. CValues[t] = {<<0, types[t].size>>} BY <1>2, <2>1, <2>3 DEF ValuesOf
    <3> HIDE DEF it
    <3>3. /\ Portably(<<it>>) = [pos |-> types[t].size, found |-> {<<0, types[t].size>>}]
          /\ \A base \in Nat : Multiple(base, types[t].align) => Fits(<<it>>, base)
          BY <2>1, LetterRead DEF it
    <3> QED BY <2>1, <3>1, <3>2, <3>3 DEF Finds, FitsWell
  <2>4. CASE types[t].kind # "struct" /\ ~(types[t].kind = "scalar" /\ types[t].letter)
    <3> DEFINE it == Bytes(t)
               V == {<<k - 1, 1>> : k \in 1 .. types[t].size}
    <3>1. G[t] = <<it>>
      <4>1. CASE types[t].kind = "scalar" BY <1>2, <2>1, <2>4, <4>1 DEF FormatOf, ScalarFormat
      <4>2. CASE types[t].kind # "scalar" BY <1>2, <2>1, <2>4, <4>2 DEF FormatOf
      <4> QED BY <4>1, <4>2
    <3>2. CValues[t] = V BY <1>2, <2>1, <2>4 DEF ValuesOf
    <3>3. /\ Portably(<<it>>) = [pos |-> types[t].size, found |-> V]
          /\ \A base \in Nat : Fits(<<it>>, base)
          BY <2>1, BytesRead
    <3> HIDE DEF it, V
    <3> QED BY <2>1, <3>1, <3>2, <3>3 DEF Finds, FitsWell
  <2> QED BY <2>2, <2>3, <2>4
<1> HIDE DEF P
<1>4. 1 .. n \subseteq P BY <1>1, <1>3, Smaller
<1> QED BY <1>1, <1>2, <1>4 DEF P
-----------------------------------------------------------------------------
(***************************************************************************)
(* Buffers are faithful.                                                   *)
(***************************************************************************)
MDArrays == [shape : Seq(Nat), elem : Types]

LEMMA ArraysUnfold ==
    ASSUME LaidOut
    PROVE  \A t \in Types : /\ fromArrayTy[t] \in MDArrays
                            /\ fromArrayTy[t] = MDArrayOf(fromArrayTy, t)
<1> DEFINE n == Len(types)
           Fs == [Types -> MDArrays]
           r == [t \in Types |-> t]
           T == [M \in Fs |-> [t \in Types |-> MDArrayOf(M, t)]]
<1>1. n \in Nat /\ Types = 1 .. n BY TypesAre
<1>2. \A t \in Types : types[t].kind = "array" =>
        types[t].elem \in Types /\ types[t].elem < t /\ types[t].num \in Nat
      BY <1>1 DEF LaidOut, Laid, ArrayLaid
<1>3. ASSUME NEW M, NEW t \in Types, \A s \in Types : s < t => M[s] \in MDArrays
      PROVE  MDArrayOf(M, t) \in MDArrays
  <2>1. CASE types[t].kind = "array"
    <3> DEFINE in == M[types[t].elem]
    <3>1. types[t].num \in Nat /\ in \in MDArrays BY <1>2, <1>3, <2>1
    <3>2. MDArrayOf(M, t) = [shape |-> <<types[t].num>> \o in.shape, elem |-> in.elem]
          BY <2>1 DEF MDArrayOf
    <3> HIDE DEF in
    <3>3. in.shape \in Seq(Nat) /\ in.elem \in Types BY <3>1 DEF MDArrays
    <3>4. <<types[t].num>> \in Seq(Nat) BY <3>1
    <3>5. <<types[t].num>> \o in.shape \in Seq(Nat) BY <3>3, <3>4, ConcatProperties
    <3> QED BY <3>2, <3>3, <3>5 DEF MDArrays
  <2>2. CASE types[t].kind # "array"
    <3>1. MDArrayOf(M, t) = [shape |-> <<>>, elem |-> t] BY <2>2 DEF MDArrayOf
    <3>2. <<>> \in Seq(Nat) OBVIOUS
    <3> QED BY <3>1, <3>2 DEF MDArrays
  <2> QED BY <2>1, <2>2
<1>4. T \in [Fs -> Fs]
  <2> SUFFICES ASSUME NEW M \in Fs, NEW t \in Types PROVE MDArrayOf(M, t) \in MDArrays OBVIOUS
  <2> QED BY <1>3
<1>5. \A M \in Fs, t \in Types : T[M][t] = MDArrayOf(M, t) OBVIOUS
<1>6. ASSUME NEW M \in Fs, NEW N \in Fs, NEW t \in Types, \A p \in Types : r[p] < r[t] => M[p] = N[p]
      PROVE  T[M][t] = T[N][t]
  <2>1. types[t].kind = "array" => M[types[t].elem] = N[types[t].elem] BY <1>2, <1>6
  <2>2. MDArrayOf(M, t) = MDArrayOf(N, t) BY <2>1 DEF MDArrayOf
  <2> QED BY <1>5, <2>2
<1>7. Fs # {}
  <2>1. [t \in Types |-> [shape |-> <<>>, elem |-> t]] \in Fs BY DEF MDArrays
  <2> QED BY <2>1
<1>8. r \in [Types -> 0 .. n] BY <1>1
<1>9. Decreasing(Types, MDArrays, n, r, T)
  <2> HIDE DEF r, T
  <2> QED BY <1>1, <1>4, <1>6, <1>7, <1>8 DEF Decreasing
<1>10. PICK M \in Fs : M = T[M]
  <2> HIDE DEF r, T
  <2> QED BY <1>9, Recursion
<1>11. M = [t \in Types |-> MDArrayOf(M, t)] BY <1>10
<1> DEFINE A == fromArrayTy
<1>12. A = CHOOSE g : g = [t \in Types |-> MDArrayOf(g, t)] BY DEF fromArrayTy
<1> HIDE DEF A
<1>13. A = [t \in Types |-> MDArrayOf(A, t)] BY <1>11, <1>12
<1>14. \A t \in Types : A[t] = MDArrayOf(A, t) BY <1>13
<1> DEFINE P == {t \in Types : A[t] \in MDArrays}
<1>15. \A t \in 1 .. n : (\A s \in 1 .. n : s < t => s \in P) => t \in P
  <2> SUFFICES ASSUME NEW t \in 1 .. n, \A s \in 1 .. n : s < t => s \in P PROVE t \in P OBVIOUS
  <2>1. \A s \in Types : s < t => A[s] \in MDArrays BY <1>1
  <2> QED BY <1>1, <1>3, <1>14, <2>1
<1> HIDE DEF P
<1>16. 1 .. n \subseteq P BY <1>1, <1>15, Smaller
<1>17. \A t \in Types : A[t] \in MDArrays /\ A[t] = MDArrayOf(A, t) BY <1>1, <1>14, <1>16 DEF P
<1> QED BY <1>17 DEF A

(* The types of an array, its elements, their elements, to the items.      *)
Levels(level, t, shape, n, item) ==
    /\ level \in [0 .. n -> Types] /\ level[0] = t /\ level[n] = item
    /\ types[item].kind # "array"
    /\ \A d \in 1 .. n : /\ types[level[d - 1]].kind = "array"
                         /\ types[level[d - 1]].num = shape[d]
                         /\ types[level[d - 1]].elem = level[d]

LEMMA LevelsExist ==
    ASSUME LaidOut, NEW t \in Types
    PROVE  \E level : Levels(level, t, fromArrayTy[t].shape, Len(fromArrayTy[t].shape),
                             fromArrayTy[t].elem)
<1> DEFINE A == fromArrayTy
           Has(u) == \E level : Levels(level, u, A[u].shape, Len(A[u].shape), A[u].elem)
           P == {u \in Types : Has(u)}
           N == Len(types)
<1>1. N \in Nat /\ Types = 1 .. N BY TypesAre
<1>2. \A u \in Types : A[u] \in MDArrays /\ A[u] = MDArrayOf(A, u) BY ArraysUnfold
<1> HIDE DEF A
<1>3. ASSUME NEW u \in 1 .. N, \A s \in 1 .. N : s < u => s \in P PROVE u \in P
  <2>1. CASE types[u].kind = "array"
    <3> DEFINE e == types[u].elem
               sh == A[e].shape
               n == Len(sh)
               it == A[e].elem
               full == <<types[u].num>> \o sh
    <3>1. e \in Types /\ e < u /\ types[u].num \in Nat
          BY <1>1, <2>1 DEF LaidOut, Laid, ArrayLaid
    <3>2. Has(e) BY <1>1, <1>3, <3>1
    <3>3. PICK L : Levels(L, e, sh, n, it) BY <3>2
    <3>4. A[u] = [shape |-> full, elem |-> it] BY <1>1, <1>2, <2>1 DEF MDArrayOf
    <3>5. A[u].shape = full /\ A[u].elem = it BY <3>4
    <3>6. sh \in Seq(Nat) /\ it \in Types BY <1>2, <3>1 DEF MDArrays
    <3> HIDE DEF e, sh, n, it
    <3>7. n \in Nat BY <3>6 DEF n
    <3>8. /\ Len(full) = n + 1 /\ full[1] = types[u].num
          /\ \A d \in 2 .. n + 1 : full[d] = sh[d - 1]
      <4>1. <<types[u].num>> \in Seq(Nat) /\ Len(<<types[u].num>>) = 1
            /\ <<types[u].num>>[1] = types[u].num
            BY <3>1
      <4>2. /\ Len(full) = 1 + Len(sh)
            /\ \A i \in 1 .. 1 + Len(sh) :
                 full[i] = IF i <= 1 THEN <<types[u].num>>[i] ELSE sh[i - 1]
            BY <3>6, <4>1, ConcatProperties
      <4> HIDE DEF full
      <4> QED BY <3>7, <4>1, <4>2 DEF n
    <3> HIDE DEF full
    <3> DEFINE level == [d \in 0 .. n + 1 |-> IF d = 0 THEN u ELSE L[d - 1]]
    <3>9. /\ L \in [0 .. n -> Types] /\ L[0] = e /\ L[n] = it /\ types[it].kind # "array"
          /\ \A d \in 1 .. n : /\ types[L[d - 1]].kind = "array"
                               /\ types[L[d - 1]].num = sh[d]
                               /\ types[L[d - 1]].elem = L[d]
          BY <3>3 DEF Levels
    <3>10. level \in [0 .. n + 1 -> Types]
      <4> SUFFICES ASSUME NEW d \in 0 .. n + 1, d # 0 PROVE L[d - 1] \in Types BY <1>1
      <4>1. d - 1 \in 0 .. n BY <3>7
      <4> QED BY <3>9, <4>1
    <3>11. \A d \in 0 .. n + 1 : level[d] = IF d = 0 THEN u ELSE L[d - 1] OBVIOUS
    <3> HIDE DEF level
    <3>12. level[0] = u /\ level[n + 1] = it
      <4>1. 0 \in 0 .. n + 1 /\ n + 1 \in 0 .. n + 1 /\ n + 1 # 0 /\ (n + 1) - 1 = n BY <3>7
      <4> QED BY <3>9, <3>11, <4>1
    <3>13. ASSUME NEW d \in 1 .. n + 1
           PROVE  /\ types[level[d - 1]].kind = "array"
                  /\ types[level[d - 1]].num = full[d]
                  /\ types[level[d - 1]].elem = level[d]
      <4>1. d \in 0 .. n + 1 /\ d - 1 \in 0 .. n + 1 /\ d # 0 BY <3>7
      <4>2. level[d] = L[d - 1] BY <3>11, <4>1
      <4>3. CASE d = 1
        <5>1. level[d - 1] = u BY <3>12, <4>3
        <5>2. level[d] = e BY <3>9, <4>2, <4>3
        <5> QED BY <2>1, <3>8, <4>3, <5>1, <5>2 DEF e
      <4>4. CASE d # 1
        <5>1. d - 1 \in 1 .. n /\ d - 1 # 0 /\ d \in 2 .. n + 1 BY <3>7, <4>4
        <5>2. level[d - 1] = L[(d - 1) - 1] BY <3>11, <4>1, <5>1
        <5> QED BY <3>8, <3>9, <4>2, <5>1, <5>2
      <4> QED BY <4>3, <4>4
    <3>14. Levels(level, u, full, n + 1, it) BY <3>9, <3>10, <3>12, <3>13 DEF Levels
    <3>15. Has(u) BY <3>5, <3>8, <3>14
    <3> QED BY <1>1, <3>15
  <2>2. CASE types[u].kind # "array"
    <3>1. A[u] = [shape |-> <<>>, elem |-> u] BY <1>1, <1>2, <2>2 DEF MDArrayOf
    <3>2. A[u].shape = <<>> /\ A[u].elem = u /\ Len(<<>>) = 0 BY <3>1
    <3> DEFINE level == [d \in 0 .. 0 |-> u]
    <3>3. level \in [0 .. 0 -> Types] /\ level[0] = u BY <1>1
    <3> HIDE DEF level
    <3>4. \A d \in 1 .. 0 : FALSE OBVIOUS
    <3>5. Levels(level, u, <<>>, 0, u) BY <2>2, <3>3, <3>4 DEF Levels
    <3>6. Has(u) BY <3>2, <3>5
    <3> QED BY <1>1, <3>6
  <2> QED BY <2>1, <2>2
<1> HIDE DEF P
<1>4. 1 .. N \subseteq P BY <1>1, <1>3, Smaller
<1> QED BY <1>1, <1>4 DEF P, A

LEMMA StridesUnfold ==
    ASSUME NEW shape \in Seq(Nat), NEW e \in Nat, NEW n, n = Len(shape)
    PROVE  \A i \in 1 .. n : Strides(shape, e)[i] = IF i = n THEN e
                                                    ELSE Strides(shape, e)[i + 1] * shape[i + 1]
<1> DEFINE D == DOMAIN shape
           Fs == [D -> Nat]
           r == [i \in D |-> n - i]
           body(M, i) == IF i = Len(shape) THEN e ELSE M[i + 1] * shape[i + 1]
           T == [M \in Fs |-> [i \in D |-> body(M, i)]]
<1>1. n \in Nat /\ D = 1 .. n OBVIOUS
<1>2. \A i \in D : i # n => i + 1 \in D /\ shape[i + 1] \in Nat BY <1>1
<1>3. \A i \in D : r[i] = n - i OBVIOUS
<1>4. r \in [D -> 0 .. n] BY <1>1
<1>5. T \in [Fs -> Fs]
  <2> SUFFICES ASSUME NEW M \in Fs, NEW i \in D PROVE body(M, i) \in Nat OBVIOUS
  <2>1. CASE i = n BY <2>1
  <2>2. CASE i # n
    <3>1. M[i + 1] \in Nat /\ shape[i + 1] \in Nat BY <1>2, <2>2
    <3>2. M[i + 1] * shape[i + 1] \in Nat BY <3>1
    <3> QED BY <2>2, <3>2
  <2> QED BY <2>1, <2>2
<1>6. \A M \in Fs, i \in D : T[M][i] = body(M, i) OBVIOUS
<1>7. ASSUME NEW M \in Fs, NEW N \in Fs, NEW i \in D, \A p \in D : r[p] < r[i] => M[p] = N[p]
      PROVE  T[M][i] = T[N][i]
  <2>1. CASE i = n BY <1>6, <2>1
  <2>2. CASE i # n
    <3>1. i + 1 \in D BY <1>2, <2>2
    <3>2. r[i + 1] = n - (i + 1) /\ r[i] = n - i BY <1>3, <3>1
    <3> HIDE DEF r
    <3>3. r[i + 1] < r[i] BY <1>1, <3>2
    <3>4. M[i + 1] = N[i + 1] BY <1>7, <3>1, <3>3
    <3> HIDE DEF T
    <3> QED BY <1>6, <3>4
  <2> QED BY <2>1, <2>2
<1>8. Fs # {}
  <2>1. [i \in D |-> 0] \in Fs OBVIOUS
  <2> QED BY <2>1
<1>9. Decreasing(D, Nat, n, r, T)
  <2> HIDE DEF r, T, D
  <2> QED BY <1>1, <1>4, <1>5, <1>7, <1>8 DEF Decreasing
<1>10. PICK M \in Fs : M = T[M]
  <2> HIDE DEF r, T, D
  <2> QED BY <1>9, Recursion
<1>11. M = [i \in D |-> body(M, i)] BY <1>10
<1> DEFINE S == Strides(shape, e)
<1>12. S = CHOOSE g : g = [i \in D |-> body(g, i)] BY DEF Strides
<1> HIDE DEF S
<1>13. S = [i \in D |-> body(S, i)] BY <1>11, <1>12
<1>14. \A i \in D : S[i] = body(S, i) BY <1>13
<1> QED BY <1>1, <1>14 DEF S

LEMMA NativeRead ==
    ASSUME LaidOut, NEW t \in natural, NEW f, f = getFormatDescriptor(t)
    PROVE  Unpack(f, TRUE) = [pos |-> types[t].size, found |-> CValues[t]]
<1> DEFINE G == getFormatDescriptorImpl(TRUE)
<1>1. t \in Types BY DEF LaidOut
<1>2. f = G[t] BY DEF getFormatDescriptor
<1> HIDE DEF G
<1>3. G[t] \in Seq(Items) /\ Finds(G, t) /\ FitsWell(G, t) BY <1>1, Faithful DEF G
<1>4. types[t].align \in Nat BY <1>1, TypesAre
<1>5. 0 = 0 * types[t].align BY <1>4
<1>6. Multiple(0, types[t].align) BY <1>5 DEF Multiple
<1>7. Fits(G[t], 0) BY <1>3, <1>6 DEF FitsWell
<1>8. Unpack(G[t], TRUE) = Portably(G[t]) BY <1>3, <1>7, FitsNative
<1> QED BY <1>2, <1>3, <1>8 DEF Finds

LEMMA BuffersFaithful == LaidOut => BufferFaithful
<1> SUFFICES ASSUME LaidOut, NEW t \in Types, types[t].kind = "array"
             PROVE  LET b == getBufferInfo(t)
                        dims == DOMAIN b.shape
                    IN \E level \in [{0} \cup dims -> Types] :
                         /\ level[0] = t
                         /\ \A d \in dims :
                              LET a == types[level[d - 1]] IN
                              /\ a.kind = "array" /\ a.num = b.shape[d] /\ a.elem = level[d]
                              /\ b.strides[d] = types[level[d]].size
                         /\ LET item == level[Len(b.shape)] IN
                            /\ types[item].kind # "array" /\ types[item].size = b.itemsize
                            /\ t \in natural => Unpack(b.format, TRUE).pos = b.itemsize
    BY DEF BufferFaithful
<1> DEFINE b == getBufferInfo(t)
           sh == fromArrayTy[t].shape
           it == fromArrayTy[t].elem
           n == Len(sh)
           e == types[it].size
           S == Strides(sh, e)
<1>1. sh \in Seq(Nat) /\ it \in Types BY ArraysUnfold DEF MDArrays
<1>2. PICK level : Levels(level, t, sh, n, it) BY LevelsExist
<1>3. b.shape = sh /\ b.itemsize = e /\ b.format = getFormatDescriptor(it) /\ b.strides = S
      BY DEF getBufferInfo
<1> HIDE DEF sh, it, b
<1>4. n \in Nat /\ DOMAIN sh = 1 .. n BY <1>1
<1>5. e \in Nat BY <1>1, TypesAre
<1>6. \A i \in 1 .. n : S[i] = IF i = n THEN e ELSE S[i + 1] * sh[i + 1]
      BY <1>1, <1>5, StridesUnfold
<1>7. /\ level \in [0 .. n -> Types] /\ level[0] = t /\ level[n] = it /\ types[it].kind # "array"
      /\ \A d \in 1 .. n : /\ types[level[d - 1]].kind = "array"
                           /\ types[level[d - 1]].num = sh[d]
                           /\ types[level[d - 1]].elem = level[d]
      BY <1>2 DEF Levels
<1> HIDE DEF n, S
<1>8. \A d \in 1 .. n : ArrayLaid(level[d - 1])
  <2> SUFFICES ASSUME NEW d \in 1 .. n PROVE ArrayLaid(level[d - 1]) OBVIOUS
  <2>1. d - 1 \in 0 .. n BY <1>4
  <2>2. level[d - 1] \in Types BY <1>7, <2>1
  <2> QED BY <1>7, <2>2 DEF LaidOut, Laid
<1>9. \A d \in 1 .. n : S[d] = types[level[d]].size
  <2> DEFINE P == {i \in 0 .. n : i = 0 \/ S[i] = types[level[i]].size}
  <2>1. n \in P
    <3>1. n # 0 => n \in 1 .. n BY <1>4
    <3>2. n # 0 => S[n] = e BY <1>6, <3>1
    <3>3. n \in 0 .. n BY <1>4
    <3> QED BY <1>7, <3>2, <3>3
  <2>2. ASSUME NEW i \in 1 .. n, i \in P PROVE i - 1 \in P
    <3>1. i - 1 \in 0 .. n /\ i # 0 BY <1>4
    <3>2. CASE i - 1 = 0 BY <3>1, <3>2
    <3>3. CASE i - 1 # 0
      <4> DEFINE a == level[i - 1]
                 z == types[level[i]].size
      <4>1. i - 1 \in 1 .. n /\ i - 1 # n /\ (i - 1) + 1 = i BY <1>4, <3>3
      <4>2. S[i - 1] = S[i] * sh[i] BY <1>6, <4>1
      <4>3. S[i] = z BY <2>2, <3>1
      <4>4. types[a].size = types[a].num * types[types[a].elem].size BY <1>8 DEF ArrayLaid
      <4>5. types[a].num = sh[i] /\ types[a].elem = level[i] BY <1>7
      <4>6. z \in Nat /\ sh[i] \in Nat
        <5>1. i \in 0 .. n BY <1>4
        <5>2. level[i] \in Types BY <1>7, <5>1
        <5>3. i \in 1 .. Len(sh) BY DEF n
        <5> QED BY <1>1, <5>2, <5>3, TypesAre, ElementOfSeq
      <4> HIDE DEF a, z
      <4>7. z * sh[i] = sh[i] * z BY <4>6
      <4>8. types[a].size = sh[i] * z BY <4>4, <4>5 DEF z
      <4>9. S[i - 1] = types[a].size BY <4>2, <4>3, <4>7, <4>8
      <4> QED BY <3>1, <4>9 DEF a
    <3> QED BY <3>2, <3>3
  <2> HIDE DEF P
  <2>3. 0 .. n \subseteq P BY <1>4, <2>1, <2>2, Downwards
  <2>4. \A d \in 1 .. n : d \in 0 .. n /\ d # 0 BY <1>4
  <2> QED BY <2>3, <2>4 DEF P
<1>10. t \in natural => it \in natural
  <2> SUFFICES ASSUME t \in natural PROVE it \in natural OBVIOUS
  <2> DEFINE P == {i \in 0 .. n : level[i] \in natural}
  <2>1. 0 \in P BY <1>4, <1>7
  <2>2. ASSUME NEW i \in 1 .. n, i - 1 \in P PROVE i \in P
    <3>1. level[i - 1] \in natural BY <2>2
    <3>2. types[level[i - 1]].elem \in natural BY <1>8, <3>1 DEF ArrayLaid
    <3>3. i \in 0 .. n BY <1>4
    <3> QED BY <1>7, <3>2, <3>3
  <2> HIDE DEF P
  <2>3. 0 .. n \subseteq P BY <1>4, <2>1, <2>2, Upwards
  <2>4. n \in P BY <1>4, <2>3
  <2> QED BY <1>7, <2>4 DEF P
<1>11. t \in natural => Unpack(b.format, TRUE).pos = e
  <2> SUFFICES ASSUME t \in natural PROVE Unpack(b.format, TRUE).pos = e OBVIOUS
  <2> DEFINE u == Unpack(b.format, TRUE)
  <2>1. u = [pos |-> e, found |-> CValues[it]] BY <1>3, <1>10, NativeRead
  <2> HIDE DEF u
  <2>2. u.pos = e BY <2>1
  <2> QED BY <2>2 DEF u
<1>12. {0} \cup DOMAIN b.shape = 0 .. n /\ DOMAIN b.shape = 1 .. n /\ Len(b.shape) = n
  <2>1. {0} \cup (1 .. n) = 0 .. n BY <1>4
  <2> QED BY <1>3, <1>4, <2>1 DEF n
<1> HIDE DEF e
<1>13. level \in [{0} \cup DOMAIN b.shape -> Types] BY <1>7, <1>12
<1>14. \A d \in DOMAIN b.shape : /\ types[level[d - 1]].kind = "array"
                                 /\ types[level[d - 1]].num = b.shape[d]
                                 /\ types[level[d - 1]].elem = level[d]
                                 /\ b.strides[d] = types[level[d]].size
       BY <1>3, <1>7, <1>9, <1>12
<1>15. /\ types[level[Len(b.shape)]].kind # "array"
       /\ types[level[Len(b.shape)]].size = b.itemsize
       /\ t \in natural => Unpack(b.format, TRUE).pos = b.itemsize
       BY <1>3, <1>7, <1>11, <1>12 DEF e
<1> QED BY <1>7, <1>13, <1>14, <1>15, Zenon DEF b
-----------------------------------------------------------------------------
(***************************************************************************)
(* Declarations keep types laid out.                                       *)
(***************************************************************************)
LEMMA AlignmentsDivide ==
    ASSUME NEW a \in Alignments, NEW b \in Alignments, a <= b
    PROVE  Multiple(b, a)
<1>1. a \in Nat \ {0} /\ b \in Nat \ {0} BY AlignmentsPositive
<1>2. CASE a = 1
  <2>1. b = b * 1 BY <1>1
  <2> QED BY <1>1, <1>2, <2>1 DEF Multiple
<1>3. CASE a # 1
  <2>1. b # 1 BY <1>1, <1>3
  <2>2. PICK i \in DOMAIN Scalars : a = Scalars[i].align BY <1>3 DEF Alignments
  <2>3. PICK j \in DOMAIN Scalars : b = Scalars[j].align BY <2>1 DEF Alignments
  <2>4. PICK q \in 1 .. b : b = q * a BY <2>2, <2>3, FormatAssumption
  <2>5. q \in Nat BY <1>1
  <2> QED BY <2>4, <2>5 DEF Multiple
<1> QED BY <1>2, <1>3

(* A holds c and the values of f, all of them natural numbers.             *)
Collected(A, c, f, n) ==
    /\ c \in Nat /\ c \in A /\ \A i \in 1 .. n : f[i] \in Nat /\ f[i] \in A
    /\ \A x \in A : x = c \/ \E i \in 1 .. n : x = f[i]

LEMMA MaxIs ==
    ASSUME NEW n \in Nat, NEW c, NEW f, NEW A, Collected(A, c, f, n)
    PROVE  Max(A) \in A /\ \A x \in A : x \in Nat /\ x <= Max(A)
<1> USE DEF Collected
<1> DEFINE B(k) == {c} \cup {f[i] : i \in 1 .. k}
           Has(k) == \E m \in B(k) : \A x \in B(k) : m >= x
           P == {k \in 0 .. n : Has(k)}
<1>1. 0 \in P
  <2>1. B(0) = {c} OBVIOUS
  <2>2. c \in {c} /\ \A x \in {c} : c >= x OBVIOUS
  <2>3. Has(0)
    <3> HIDE DEF B
    <3> QED BY <2>1, <2>2
  <2> HIDE DEF Has
  <2> QED BY <2>3
<1>2. ASSUME NEW k \in 1 .. n, k - 1 \in P PROVE k \in P
  <2>1. B(k) = B(k - 1) \cup {f[k]}
    <3>1. 1 .. k = (1 .. k - 1) \cup {k} OBVIOUS
    <3> QED BY <3>1
  <2>2. \A x \in B(k) : x \in Nat
    <3>1. \A i \in 1 .. k : i \in 1 .. n OBVIOUS
    <3> QED BY <3>1
  <2> HIDE DEF B
  <2>3. PICK m \in B(k - 1) : \A x \in B(k - 1) : m >= x BY <1>2
  <2>4. m \in B(k) /\ f[k] \in B(k) /\ \A x \in B(k) : x \in B(k - 1) \/ x = f[k] BY <2>1, <2>3
  <2>5. CASE m >= f[k] BY <2>3, <2>4, <2>5
  <2>6. CASE ~(m >= f[k])
    <3>1. m \in Nat /\ f[k] \in Nat BY <2>2, <2>4
    <3>2. ASSUME NEW x \in B(k) PROVE f[k] >= x
      <4>1. x \in Nat BY <2>2
      <4>2. CASE x = f[k] BY <3>1, <4>2
      <4>3. CASE x \in B(k - 1)
        <5>1. m >= x BY <2>3, <4>3
        <5> QED BY <2>6, <3>1, <4>1, <5>1
      <4> QED BY <2>4, <4>2, <4>3
    <3> QED BY <2>4, <3>2
  <2> QED BY <2>5, <2>6
<1> HIDE DEF P
<1>3. 0 .. n \subseteq P BY <1>1, <1>2, Upwards
<1>4. Has(n)
  <2>1. n \in 0 .. n OBVIOUS
  <2> HIDE DEF Has
  <2> QED BY <1>3, <2>1 DEF P
<1>5. \E m \in A : \A x \in A : m >= x
  <2>1. A = B(n) OBVIOUS
  <2> HIDE DEF B
  <2> QED BY <1>4, <2>1
<1> HIDE DEF Has
<1> DEFINE m == Max(A)
<1>6. m \in A /\ \A x \in A : m >= x BY <1>5 DEF Max
<1>7. \A x \in A : x \in Nat OBVIOUS
<1> HIDE DEF m
<1>8. \A x \in A : x <= m BY <1>6, <1>7
<1> QED BY <1>6, <1>7, <1>8 DEF m

LEMMA CompositeAlignIs ==
    ASSUME LaidOut, NEW n \in Nat, NEW ms \in [1 .. n -> Types], NEW packed \in BOOLEAN
    PROVE  /\ CompositeAlign(ms, packed) \in Alignments
           /\ \A i \in 1 .. n : /\ AlignOf(ms[i], packed) \in Alignments
                                /\ AlignOf(ms[i], packed) \in Nat \ {0}
                                /\ Multiple(CompositeAlign(ms, packed), AlignOf(ms[i], packed))
<1> DEFINE f == [i \in 1 .. n |-> AlignOf(ms[i], packed)]
           A == {1} \cup {f[i] : i \in 1 .. n}
<1>1. ASSUME NEW i \in 1 .. n PROVE f[i] = AlignOf(ms[i], packed) /\ f[i] \in Alignments
  <2>1. ms[i] \in Types OBVIOUS
  <2>2. types[ms[i]].align \in Alignments BY <2>1 DEF LaidOut, Laid
  <2> QED BY <2>2 DEF AlignOf, Alignments
<1>2. A = {1} \cup {AlignOf(ms[i], packed) : i \in DOMAIN ms} OBVIOUS
<1> HIDE DEF f
<1>3. \A i \in 1 .. n : f[i] \in Nat BY <1>1, AlignmentsPositive
<1>4. Max(A) \in A /\ \A x \in A : x <= Max(A)
  <2>1. /\ 1 \in A /\ \A i \in 1 .. n : f[i] \in A
        /\ \A x \in A : x = 1 \/ \E i \in 1 .. n : x = f[i]
        OBVIOUS
  <2>2. 1 \in Nat OBVIOUS
  <2> HIDE DEF A
  <2>3. Collected(A, 1, f, n) BY <1>3, <2>1, <2>2 DEF Collected
  <2> QED BY <2>3, MaxIs
<1>5. A \subseteq Alignments BY <1>1 DEF Alignments
<1>6. \A i \in 1 .. n : f[i] \in A OBVIOUS
<1>7. CompositeAlign(ms, packed) = Max(A) BY <1>2 DEF CompositeAlign
<1> HIDE DEF A
<1>8. \A i \in 1 .. n : Multiple(Max(A), f[i]) BY <1>4, <1>5, <1>6, AlignmentsDivide
<1>9. \A i \in 1 .. n : f[i] \in Nat \ {0} BY <1>1, AlignmentsPositive
<1> QED BY <1>1, <1>4, <1>5, <1>7, <1>8, <1>9

(* The i-th offset follows from the one before.                            *)
OffsetOK(off, ms, packed, i) ==
    /\ off[i] \in Nat
    /\ off[i] = AlignUp(IF i = 1 THEN 0 ELSE off[i - 1] + types[ms[i - 1]].size, AlignOf(ms[i], packed))

LEMMA OffsetsUnfold ==
    ASSUME LaidOut, NEW n \in Nat, NEW ms \in [1 .. n -> Types], NEW packed \in BOOLEAN
    PROVE  \A i \in 1 .. n : OffsetOK(Offsets(ms, packed), ms, packed, i)
<1> DEFINE D == DOMAIN ms
           Fs == [D -> Nat]
           r == [i \in D |-> i]
           from(M, i) == IF i = 1 THEN 0 ELSE M[i - 1] + types[ms[i - 1]].size
           body(M, i) == AlignUp(from(M, i), AlignOf(ms[i], packed))
           T == [M \in Fs |-> [i \in D |-> body(M, i)]]
<1>1. D = 1 .. n OBVIOUS
<1>2. \A i \in D : i # 1 => /\ i - 1 \in D /\ i - 1 < i
                            /\ types[ms[i - 1]].size \in Nat
  <2> SUFFICES ASSUME NEW i \in D, i # 1
               PROVE  i - 1 \in D /\ i - 1 < i /\ types[ms[i - 1]].size \in Nat
      OBVIOUS
  <2>1. i - 1 \in D /\ i - 1 < i BY <1>1
  <2>2. ms[i - 1] \in Types BY <1>1, <2>1
  <2> QED BY <2>1, <2>2, TypesAre
<1>3. \A i \in D : AlignOf(ms[i], packed) \in Nat \ {0} BY <1>1, CompositeAlignIs
<1>4. ASSUME NEW M, NEW i \in D, \A p \in D : p < i => M[p] \in Nat PROVE body(M, i) \in Nat
  <2>1. from(M, i) \in Nat
    <3>1. CASE i = 1 BY <3>1
    <3>2. CASE i # 1
      <4>1. M[i - 1] \in Nat /\ types[ms[i - 1]].size \in Nat BY <1>2, <1>4, <3>2
      <4> QED BY <3>2, <4>1
    <3> QED BY <3>1, <3>2
  <2> HIDE DEF from
  <2> QED BY <1>3, <2>1, AlignUpAbove
<1>5. T \in [Fs -> Fs]
  <2> SUFFICES ASSUME NEW M \in Fs, NEW i \in D PROVE body(M, i) \in Nat OBVIOUS
  <2>1. \A p \in D : p < i => M[p] \in Nat OBVIOUS
  <2> HIDE DEF body
  <2> QED BY <1>4, <2>1
<1>6. \A M \in Fs, i \in D : T[M][i] = body(M, i) OBVIOUS
<1>7. ASSUME NEW M \in Fs, NEW N \in Fs, NEW i \in D, \A p \in D : r[p] < r[i] => M[p] = N[p]
      PROVE  T[M][i] = T[N][i]
  <2>1. i # 1 => M[i - 1] = N[i - 1] BY <1>2, <1>7
  <2>2. from(M, i) = from(N, i) BY <2>1
  <2> HIDE DEF T, from
  <2> QED BY <1>6, <2>2
<1>8. Fs # {}
  <2>1. [i \in D |-> 0] \in Fs OBVIOUS
  <2> QED BY <2>1
<1>9. r \in [D -> 0 .. n] BY <1>1
<1>10. Decreasing(D, Nat, n, r, T)
  <2> HIDE DEF r, T, D
  <2> QED BY <1>5, <1>7, <1>8, <1>9 DEF Decreasing
<1>11. PICK M \in Fs : M = T[M]
  <2> HIDE DEF r, T, D
  <2> QED BY <1>10, Recursion
<1>12. M = [i \in D |-> body(M, i)] BY <1>11
<1> DEFINE O == Offsets(ms, packed)
<1>13. O = CHOOSE g : g = [i \in D |-> body(g, i)] BY DEF Offsets
<1> HIDE DEF O
<1>14. O = [i \in D |-> body(O, i)] BY <1>12, <1>13
<1>15. \A i \in D : O[i] = body(O, i) BY <1>14
<1> DEFINE P == {i \in D : O[i] \in Nat}
<1>16. \A i \in 1 .. n : (\A s \in 1 .. n : s < i => s \in P) => i \in P
  <2> SUFFICES ASSUME NEW i \in 1 .. n, \A s \in 1 .. n : s < i => s \in P PROVE i \in P OBVIOUS
  <2>1. \A p \in D : p < i => O[p] \in Nat BY <1>1
  <2> HIDE DEF body
  <2> QED BY <1>1, <1>4, <1>15, <2>1
<1> HIDE DEF P
<1>17. 1 .. n \subseteq P BY <1>16, Smaller
<1>18. \A i \in 1 .. n : O[i] \in Nat /\ O[i] = body(O, i) BY <1>1, <1>15, <1>17 DEF P
<1>19. \A i \in 1 .. n : OffsetOK(O, ms, packed, i) BY <1>18 DEF OffsetOK
<1> QED BY <1>19 DEF O

(* What Laid says of a type to be declared, in terms of the types so far.  *)
EndOf(type, i) == IF i = 0 THEN 0 ELSE type.fields[i].off + types[type.fields[i].ty].size

StructFits(type, isNatural) ==
    /\ type.fields \in Seq([off : Nat, ty : Types])
    /\ \A i \in 1 .. Len(type.fields) :
         /\ EndOf(type, i - 1) <= type.fields[i].off
         /\ isNatural => /\ type.fields[i].ty \in natural
                         /\ Multiple(type.fields[i].off, types[type.fields[i].ty].align)
                         /\ Multiple(type.align, types[type.fields[i].ty].align)
    /\ EndOf(type, Len(type.fields)) <= type.size

ArrayFits(type, isNatural) ==
    /\ type.elem \in Types /\ type.num \in Nat
    /\ type.size = type.num * types[type.elem].size
    /\ isNatural => type.elem \in natural

TypeFits(type, isNatural) ==
    /\ type.size \in Nat /\ type.align \in Alignments
    /\ type.kind # "scalar"
    /\ type.kind = "struct" => StructFits(type, isNatural)
    /\ type.kind = "array" => ArrayFits(type, isNatural)

(* The types there are stay as they were, and the new one comes last.      *)
LEMMA DeclareAdds ==
    ASSUME LaidOut, NEW type, NEW isNatural \in BOOLEAN, Declare(type, isNatural)
    PROVE  /\ Types' = 1 .. Len(types) + 1 /\ types'[Len(types) + 1] = type
           /\ \A s \in Types : types'[s] = types[s] /\ s \in Types' /\ (s \in natural' <=> s \in natural)
           /\ Len(types) + 1 \in natural' <=> isNatural
           /\ natural' \subseteq Types'
           /\ \E S : types' \in Seq(S)
<1> DEFINE n == Len(types)
<1>1. PICK S : types \in Seq(S) BY DEF LaidOut
<1>2. types \in Seq(S \cup {type})
  <2>1. DOMAIN types = 1 .. Len(types) /\ Len(types) \in Nat BY <1>1
  <2>2. \A i \in 1 .. Len(types) : types[i] \in S \cup {type} BY <1>1, <2>1
  <2>3. types = [i \in 1 .. Len(types) |-> types[i]] BY <1>1
  <2> QED BY <2>1, <2>2, <2>3
<1>3. types' = Append(types, type) BY DEF Declare
<1>4. n \in Nat /\ Types = 1 .. n BY TypesAre
<1>5. types' \in Seq(S \cup {type}) /\ Len(types') = n + 1 BY <1>2, <1>3
<1>6. Types' = 1 .. n + 1 BY <1>5 DEF Types
<1>7. types'[n + 1] = type BY <1>2, <1>3
<1>8. \A s \in Types : types'[s] = types[s] BY <1>2, <1>3, <1>4
<1>9. \A s \in Types : s \in Types' /\ s # n + 1 BY <1>4, <1>6
<1>10. natural \subseteq Types BY DEF LaidOut
<1>11. natural' = IF isNatural THEN natural \cup {n + 1} ELSE natural BY DEF Declare
<1>12. n + 1 \in Types' BY <1>4, <1>6
<1>13. ~(n + 1 \in natural) BY <1>9, <1>10
<1> HIDE DEF n
<1>14. \A s \in Types : s \in natural' <=> s \in natural BY <1>9, <1>11
<1>15. (n + 1 \in natural' <=> isNatural) /\ natural' \subseteq Types' BY <1>9, <1>10, <1>11, <1>12, <1>13
<1> QED BY <1>5, <1>6, <1>7, <1>8, <1>9, <1>14, <1>15 DEF n

LEMMA OldLaid ==
    ASSUME LaidOut, NEW type, NEW isNatural \in BOOLEAN, Declare(type, isNatural), NEW t \in Types
    PROVE  Laid(t)'
<1>1. \A s \in Types : types'[s] = types[s] /\ (s \in natural' <=> s \in natural) BY DeclareAdds
<1>2. types'[t] = types[t] /\ (t \in natural' <=> t \in natural) BY <1>1
<1>3. Laid(t) BY DEF LaidOut
<1>4. types[t].kind = "struct" => StructLaid(t)'
  <2> SUFFICES ASSUME types[t].kind = "struct", NEW n, n = Len(types[t].fields) PROVE StructLaid(t)'
      OBVIOUS
  <2>1. n \in Nat /\ \A i \in 1 .. n : types[t].fields[i].ty \in Types BY FieldsAre
  <2>2. ASSUME NEW i \in 0 .. n PROVE CurIdx(t, i)' = CurIdx(t, i)
    <3>1. CASE i = 0 BY <3>1 DEF CurIdx
    <3>2. CASE i # 0
      <4>1. i \in 1 .. n BY <2>1, <3>2
      <4>2. types[t].fields[i].ty \in Types BY <2>1, <4>1
      <4> QED BY <1>1, <1>2, <3>2, <4>2 DEF CurIdx
    <3> QED BY <3>1, <3>2
  <2>3. StructLaid(t) BY <1>3 DEF Laid
  <2>4. \A i \in 1 .. n : i \in 0 .. n /\ i - 1 \in 0 .. n BY <2>1
  <2>5. n \in 0 .. n BY <2>1
  <2>6. ASSUME NEW i \in 1 .. n
        PROVE  /\ CurIdx(t, i - 1)' <= types'[t].fields[i].off
               /\ t \in natural' =>
                    /\ types'[t].fields[i].ty \in natural'
                    /\ Multiple(types'[t].fields[i].off, types'[types'[t].fields[i].ty].align)
                    /\ Multiple(types'[t].align, types'[types'[t].fields[i].ty].align)
    <3>1. types[t].fields[i].ty \in Types BY <2>1
    <3>2. CurIdx(t, i - 1)' = CurIdx(t, i - 1) BY <2>2, <2>4
    <3>3. /\ CurIdx(t, i - 1) <= types[t].fields[i].off
          /\ t \in natural => /\ types[t].fields[i].ty \in natural
                              /\ Multiple(types[t].fields[i].off, types[types[t].fields[i].ty].align)
                              /\ Multiple(types[t].align, types[types[t].fields[i].ty].align)
          BY <2>3 DEF StructLaid
    <3> QED BY <1>1, <1>2, <3>1, <3>2, <3>3
  <2>7. CurIdx(t, n)' <= types'[t].size BY <1>2, <2>2, <2>3, <2>5 DEF StructLaid
  <2>8. types'[t].fields \in Seq([off : Nat, ty : 1 .. t - 1]) BY <1>2, <2>3 DEF StructLaid
  <2>9. Len(types'[t].fields) = n BY <1>2
  <2> QED BY <2>6, <2>7, <2>8, <2>9 DEF StructLaid
<1>5. types[t].kind = "array" => ArrayLaid(t)'
  <2> SUFFICES ASSUME types[t].kind = "array" PROVE ArrayLaid(t)' OBVIOUS
  <2>1. ArrayLaid(t) BY <1>3 DEF Laid
  <2>2. types[t].elem \in Types
    <3>1. Len(types) \in Nat /\ Types = 1 .. Len(types) BY TypesAre
    <3> QED BY <2>1, <3>1 DEF ArrayLaid
  <2> QED BY <1>1, <1>2, <2>1, <2>2 DEF ArrayLaid
<1>6. types'[t].size \in 0 .. SizeMax - 1 /\ types'[t].align \in Alignments BY <1>2, <1>3 DEF Laid
<1>7. types'[t].kind = "scalar" => types'[t].letter \in BOOLEAN BY <1>2, <1>3 DEF Laid
<1>8. types'[t].kind = types[t].kind BY <1>2
<1> QED BY <1>4, <1>5, <1>6, <1>7, <1>8 DEF Laid

LEMMA NewLaid ==
    ASSUME LaidOut, NEW type, NEW isNatural \in BOOLEAN, Declare(type, isNatural),
           TypeFits(type, isNatural), NEW t, t = Len(types) + 1
    PROVE  Laid(t)'
<1>1. /\ types'[t] = type /\ (t \in natural' <=> isNatural)
      /\ \A s \in Types : types'[s] = types[s] /\ (s \in natural' <=> s \in natural)
      BY DeclareAdds
<1>2. Len(types) \in Nat /\ Types = 1 .. t - 1 BY TypesAre
<1>3. type.size \in 0 .. SizeMax - 1 /\ type.align \in Alignments
  <2>1. SizeMax \in Nat /\ type.size < SizeMax BY FormatAssumption DEF Declare
  <2> QED BY <2>1 DEF TypeFits
<1>4. type.kind = "struct" => StructLaid(t)'
  <2> SUFFICES ASSUME type.kind = "struct" PROVE StructLaid(t)' OBVIOUS
  <2> DEFINE n == Len(type.fields)
  <2>1. StructFits(type, isNatural) BY DEF TypeFits
  <2>2. n \in Nat /\ \A i \in 1 .. n : type.fields[i].ty \in Types
    <3> DEFINE fields == type.fields
    <3>1. fields \in Seq([off : Nat, ty : Types]) BY <2>1 DEF StructFits
    <3> HIDE DEF fields
    <3>2. Len(fields) \in Nat /\ \A i \in 1 .. Len(fields) : fields[i] \in [off : Nat, ty : Types]
      <4> DEFINE S == [off : Nat, ty : Types]
      <4>1. fields \in Seq(S) BY <3>1
      <4> HIDE DEF S
      <4>2. Len(fields) \in Nat /\ \A i \in 1 .. Len(fields) : fields[i] \in S BY <4>1
      <4> QED BY <4>2 DEF S
    <3>3. \A F \in [off : Nat, ty : Types] : F.ty \in Types OBVIOUS
    <3>4. \A i \in 1 .. Len(fields) : fields[i].ty \in Types BY <3>2, <3>3
    <3> QED BY <3>2, <3>4 DEF fields
  <2>3. ASSUME NEW i \in 0 .. n PROVE CurIdx(t, i)' = EndOf(type, i)
    <3>1. CASE i = 0 BY <3>1 DEF CurIdx, EndOf
    <3>2. CASE i # 0
      <4>1. i \in 1 .. n BY <2>2, <3>2
      <4>2. type.fields[i].ty \in Types BY <2>2, <4>1
      <4> QED BY <1>1, <3>2, <4>2 DEF CurIdx, EndOf
    <3> QED BY <3>1, <3>2
  <2>4. \A i \in 1 .. n : i \in 0 .. n /\ i - 1 \in 0 .. n BY <2>2
  <2>5. n \in 0 .. n BY <2>2
  <2> HIDE DEF n
  <2>6. ASSUME NEW i \in 1 .. n
        PROVE  /\ CurIdx(t, i - 1)' <= types'[t].fields[i].off
               /\ t \in natural' =>
                    /\ types'[t].fields[i].ty \in natural'
                    /\ Multiple(types'[t].fields[i].off, types'[types'[t].fields[i].ty].align)
                    /\ Multiple(types'[t].align, types'[types'[t].fields[i].ty].align)
    <3>1. type.fields[i].ty \in Types BY <2>2
    <3>2. CurIdx(t, i - 1)' = EndOf(type, i - 1) BY <2>3, <2>4
    <3>3. /\ EndOf(type, i - 1) <= type.fields[i].off
          /\ isNatural => /\ type.fields[i].ty \in natural
                          /\ Multiple(type.fields[i].off, types[type.fields[i].ty].align)
                          /\ Multiple(type.align, types[type.fields[i].ty].align)
          BY <2>1 DEF StructFits, n
    <3> QED BY <1>1, <3>1, <3>2, <3>3
  <2>7. CurIdx(t, n)' <= types'[t].size BY <1>1, <2>1, <2>3, <2>5 DEF StructFits, n
  <2>8. types'[t].fields \in Seq([off : Nat, ty : 1 .. t - 1])
    <3>1. type.fields \in Seq([off : Nat, ty : 1 .. t - 1]) BY <1>2, <2>1 DEF StructFits
    <3> QED BY <1>1, <3>1
  <2>9. Len(types'[t].fields) = n BY <1>1 DEF n
  <2> QED BY <2>6, <2>7, <2>8, <2>9 DEF StructLaid
<1>5. type.kind = "array" => ArrayLaid(t)'
  <2> SUFFICES ASSUME type.kind = "array" PROVE ArrayLaid(t)' OBVIOUS
  <2>1. ArrayFits(type, isNatural) BY DEF TypeFits
  <2> QED BY <1>1, <1>2, <2>1 DEF ArrayFits, ArrayLaid
<1>6. type.kind # "scalar" BY DEF TypeFits
<1> QED BY <1>1, <1>3, <1>4, <1>5, <1>6 DEF Laid

LEMMA DeclareKeeps ==
    ASSUME LaidOut, NEW type, NEW isNatural \in BOOLEAN, Declare(type, isNatural),
           TypeFits(type, isNatural)
    PROVE  LaidOut'
<1>1. /\ Types' = 1 .. Len(types) + 1 /\ natural' \subseteq Types' /\ \E S : types' \in Seq(S)
      BY DeclareAdds
<1>2. Len(types) \in Nat /\ Types = 1 .. Len(types) BY TypesAre
<1>3. ASSUME NEW t \in Types' PROVE Laid(t)'
  <2>1. CASE t \in Types BY <2>1, OldLaid
  <2>2. CASE ~(t \in Types)
    <3>1. t = Len(types) + 1 BY <1>1, <1>2, <2>2
    <3> QED BY <3>1, NewLaid
  <2> QED BY <2>1, <2>2
<1> QED BY <1>1, <1>3 DEF LaidOut

LEMMA StructTypeFits ==
    ASSUME LaidOut, NEW n \in Nat \ {0}, NEW ms \in [1 .. n -> Types], NEW packed \in BOOLEAN
    PROVE  TypeFits(Struct(ms, packed), ~packed /\ \A i \in DOMAIN ms : ms[i] \in natural)
<1> DEFINE O == Offsets(ms, packed)
           a == CompositeAlign(ms, packed)
           fields == [i \in 1 .. n |-> [off |-> O[i], ty |-> ms[i]]]
           end == O[n] + types[ms[n]].size
           type == Struct(ms, packed)
           isNatural == ~packed /\ \A i \in DOMAIN ms : ms[i] \in natural
<1>1. DOMAIN ms = 1 .. n /\ Len(ms) = n OBVIOUS
<1>2. type = [kind |-> "struct", fields |-> fields, align |-> a, size |-> AlignUp(end, a)]
  <2>1. type = [kind |-> "struct", align |-> a,
                fields |-> [i \in DOMAIN ms |-> [off |-> O[i], ty |-> ms[i]]],
                size |-> AlignUp(O[Len(ms)] + types[ms[Len(ms)]].size, a)]
    BY Zenon DEF Struct
  <2> HIDE DEF type, O, a
  <2> QED BY <1>1, <2>1
<1> HIDE DEF type, O, a
<1>3. /\ type.kind = "struct" /\ type.fields = fields /\ type.align = a
      /\ type.size = AlignUp(end, a)
      BY <1>2
<1>4. ASSUME NEW i \in 1 .. n PROVE ms[i] \in Types /\ types[ms[i]].size \in Nat BY TypesAre
<1>5. ASSUME NEW i \in 1 .. n
      PROVE  /\ O[i] \in Nat
             /\ O[i] = AlignUp(IF i = 1 THEN 0 ELSE O[i - 1] + types[ms[i - 1]].size, AlignOf(ms[i], packed))
  <2>1. n \in Nat OBVIOUS
  <2>2. \A j \in 1 .. n : OffsetOK(O, ms, packed, j) BY <2>1, OffsetsUnfold DEF O
  <2> QED BY <2>2 DEF OffsetOK
<1>6. /\ a \in Alignments /\ a \in Nat \ {0}
      /\ \A i \in 1 .. n : /\ AlignOf(ms[i], packed) \in Nat \ {0}
                           /\ Multiple(a, AlignOf(ms[i], packed))
  <2>1. a \in Alignments /\ \A i \in 1 .. n : /\ AlignOf(ms[i], packed) \in Nat \ {0}
                                              /\ Multiple(a, AlignOf(ms[i], packed))
        BY CompositeAlignIs DEF a
  <2> QED BY <2>1, AlignmentsPositive
<1>7. fields \in Seq([off : Nat, ty : Types]) /\ Len(fields) = n
  <2>1. \A i \in 1 .. n : [off |-> O[i], ty |-> ms[i]] \in [off : Nat, ty : Types] BY <1>4, <1>5
  <2> QED BY <2>1
<1>8. \A i \in 1 .. n : fields[i].off = O[i] /\ fields[i].ty = ms[i] OBVIOUS
<1>9. end \in Nat
  <2>1. n \in 1 .. n OBVIOUS
  <2> QED BY <1>4, <1>5, <2>1
<1> HIDE DEF fields
<1>10. EndOf(type, n) = end
  <2>1. n \in 1 .. n /\ n # 0 OBVIOUS
  <2> QED BY <1>3, <1>8, <2>1 DEF EndOf
<1> HIDE DEF end
<1>11. type.size \in Nat /\ end <= type.size BY <1>3, <1>6, <1>9, AlignUpAbove
<1>12. ASSUME NEW i \in 1 .. n
       PROVE  EndOf(type, i - 1) <= O[i] /\ Multiple(O[i], AlignOf(ms[i], packed))
  <2> DEFINE from == IF i = 1 THEN 0 ELSE O[i - 1] + types[ms[i - 1]].size
  <2>1. from \in Nat /\ EndOf(type, i - 1) = from
    <3>1. CASE i = 1 BY <3>1 DEF EndOf
    <3>2. CASE i # 1
      <4>1. i - 1 \in 1 .. n /\ i - 1 # 0 BY <3>2
      <4>2. EndOf(type, i - 1) = type.fields[i - 1].off + types[type.fields[i - 1].ty].size
            BY <4>1 DEF EndOf
      <4>3. O[i - 1] \in Nat /\ types[ms[i - 1]].size \in Nat BY <1>4, <1>5, <4>1
      <4> QED BY <1>3, <1>8, <3>2, <4>1, <4>2, <4>3
    <3> QED BY <3>1, <3>2
  <2>2. O[i] = AlignUp(from, AlignOf(ms[i], packed)) BY <1>5
  <2>3. AlignOf(ms[i], packed) \in Nat \ {0} BY <1>6
  <2> HIDE DEF from
  <2> QED BY <2>1, <2>2, <2>3, AlignUpAbove
<1>13. isNatural => \A i \in 1 .. n : ms[i] \in natural /\ AlignOf(ms[i], packed) = types[ms[i]].align
       BY <1>1 DEF AlignOf
<1> HIDE DEF isNatural
<1>14. ASSUME NEW i \in 1 .. n
       PROVE  /\ EndOf(type, i - 1) <= type.fields[i].off
              /\ isNatural => /\ type.fields[i].ty \in natural
                              /\ Multiple(type.fields[i].off, types[type.fields[i].ty].align)
                              /\ Multiple(type.align, types[type.fields[i].ty].align)
  <2>1. type.fields[i].off = O[i] /\ type.fields[i].ty = ms[i] BY <1>3, <1>8
  <2> QED BY <1>3, <1>6, <1>12, <1>13, <2>1
<1>15. StructFits(type, isNatural) BY <1>3, <1>7, <1>10, <1>11, <1>14 DEF StructFits
<1>16. TypeFits(type, isNatural) BY <1>3, <1>6, <1>11, <1>15 DEF TypeFits
<1> QED BY <1>16 DEF type, isNatural

LEMMA UnionTypeFits ==
    ASSUME LaidOut, NEW n \in Nat \ {0}, NEW ms \in [1 .. n -> Types], NEW packed \in BOOLEAN,
           NEW isNatural
    PROVE  TypeFits(Union(ms, packed), isNatural)
<1> DEFINE a == CompositeAlign(ms, packed)
           f == [i \in 1 .. n |-> types[ms[i]].size]
           A == {f[i] : i \in 1 .. n}
           type == Union(ms, packed)
<1>1. DOMAIN ms = 1 .. n OBVIOUS
<1>2. {types[ms[i]].size : i \in DOMAIN ms} = A BY <1>1
<1>3. type = [kind |-> "union", align |-> a, size |-> AlignUp(Max(A), a)] BY <1>2 DEF Union
<1>4. \A i \in 1 .. n : f[i] \in Nat BY TypesAre
<1>5. 1 \in 1 .. n OBVIOUS
<1> HIDE DEF f
<1>6. Collected(A, f[1], f, n) BY <1>4, <1>5 DEF Collected
<1> HIDE DEF type, A
<1>7. Max(A) \in Nat BY <1>6, MaxIs
<1>8. a \in Alignments BY CompositeAlignIs
<1>9. a \in Nat \ {0} BY <1>8, AlignmentsPositive
<1> HIDE DEF a
<1>10. type.size \in Nat /\ type.align \in Alignments /\ type.kind = "union"
       BY <1>3, <1>7, <1>8, <1>9, AlignUpAbove
<1>11. TypeFits(type, isNatural) BY <1>10 DEF TypeFits
<1> QED BY <1>11 DEF type

LEMMA ArrayTypeFits ==
    ASSUME LaidOut, NEW t \in Types, NEW n \in Lengths
    PROVE  TypeFits(Array(t, n), t \in natural)
<1>1. n \in Nat BY FormatAssumption
<1>2. types[t].size \in Nat BY TypesAre
<1>3. types[t].align \in Alignments BY DEF LaidOut, Laid
<1>4. n * types[t].size \in Nat BY <1>1, <1>2
<1> QED BY <1>1, <1>3, <1>4 DEF TypeFits, ArrayFits, Array
-----------------------------------------------------------------------------
(***************************************************************************)
(* The invariant, and what follows from it.                                *)
(***************************************************************************)
LEMMA InitLaidOut == Init => LaidOut
<1> SUFFICES ASSUME Init PROVE LaidOut OBVIOUS
<1>1. types = Scalars /\ natural = DOMAIN Scalars BY DEF Init
<1>2. Scalars \in Seq(ScalarTypes) BY FormatAssumption
<1>3. ASSUME NEW t \in Types PROVE Laid(t)
  <2>1. types[t] \in ScalarTypes BY <1>1, <1>2 DEF Types
  <2>2. types[t].align \in Alignments BY <1>1 DEF Alignments, Types
  <2> QED BY <2>1, <2>2 DEF Laid, ScalarTypes
<1> QED BY <1>1, <1>2, <1>3 DEF LaidOut, Types

LEMMA NextLaidOut == LaidOut /\ [Next]_vars => LaidOut'
<1> SUFFICES ASSUME LaidOut, [Next]_vars PROVE LaidOut' OBVIOUS
<1>1. ASSUME NEW ms \in MemberLists
      PROVE  \E n \in Nat \ {0} : ms \in [1 .. n -> Types]
  <2>1. PICK n \in 1 .. MaxFields : ms \in [1 .. n -> Types] BY DEF MemberLists
  <2>2. n \in Nat \ {0} BY FormatAssumption
  <2> QED BY <2>1, <2>2
<1>2. CASE DeclareStruct
  <2>1. PICK ms \in MemberLists, packed \in BOOLEAN :
          Declare(Struct(ms, packed), ~packed /\ \A i \in DOMAIN ms : ms[i] \in natural)
        BY <1>2 DEF DeclareStruct
  <2>2. PICK n \in Nat \ {0} : ms \in [1 .. n -> Types] BY <1>1
  <2> DEFINE type == Struct(ms, packed)
             isNatural == ~packed /\ \A i \in DOMAIN ms : ms[i] \in natural
  <2>3. TypeFits(type, isNatural) BY <2>2, StructTypeFits
  <2>4. Declare(type, isNatural) /\ isNatural \in BOOLEAN BY <2>1
  <2> HIDE DEF type, isNatural
  <2> QED BY <2>3, <2>4, DeclareKeeps
<1>3. CASE DeclareUnion
  <2>1. PICK ms \in MemberLists, packed \in BOOLEAN :
          Declare(Union(ms, packed), ~packed /\ \A i \in DOMAIN ms : ms[i] \in natural)
        BY <1>3 DEF DeclareUnion
  <2>2. PICK n \in Nat \ {0} : ms \in [1 .. n -> Types] BY <1>1
  <2> DEFINE type == Union(ms, packed)
             isNatural == ~packed /\ \A i \in DOMAIN ms : ms[i] \in natural
  <2>3. TypeFits(type, isNatural) BY <2>2, UnionTypeFits
  <2>4. Declare(type, isNatural) /\ isNatural \in BOOLEAN BY <2>1
  <2> HIDE DEF type, isNatural
  <2> QED BY <2>3, <2>4, DeclareKeeps
<1>4. CASE arrayType
  <2>1. PICK t \in Types, n \in Lengths : Declare(Array(t, n), t \in natural) BY <1>4 DEF arrayType
  <2> DEFINE type == Array(t, n)
             isNatural == t \in natural
  <2>2. TypeFits(type, isNatural) BY ArrayTypeFits
  <2>3. Declare(type, isNatural) /\ isNatural \in BOOLEAN BY <2>1
  <2> HIDE DEF type, isNatural
  <2> QED BY <2>2, <2>3, DeclareKeeps
<1>5. CASE UNCHANGED vars
  <2>1. types' = types /\ natural' = natural BY <1>5 DEF vars
  <2>2. Types' = Types BY <2>1 DEF Types
  <2>3. \A t, i : CurIdx(t, i)' = CurIdx(t, i) BY <2>1 DEF CurIdx
  <2>4. ASSUME NEW t PROVE StructLaid(t)' = StructLaid(t) /\ ArrayLaid(t)' = ArrayLaid(t)
        BY <2>1, <2>3 DEF StructLaid, ArrayLaid
  <2>5. \A t \in Types : Laid(t)' BY <2>1, <2>4 DEF LaidOut, Laid
  <2>6. (\E S : types' \in Seq(S)) /\ natural' \subseteq Types' BY <2>1, <2>2 DEF LaidOut
  <2> QED BY <2>2, <2>5, <2>6 DEF LaidOut
<1> QED BY <1>2, <1>3, <1>4, <1>5 DEF Next

LEMMA AlwaysLaidOut == Spec => []LaidOut
BY InitLaidOut, NextLaidOut, PTL DEF Spec

LEMMA LaidOutPortable == LaidOut => PortableFaithful
<1> SUFFICES ASSUME LaidOut, NEW t \in Types
             PROVE  LET u == Unpack(getPortableFormatDescriptor(t), FALSE) IN
                    u.found = CValues[t] /\ u.pos = types[t].size
    BY DEF PortableFaithful
<1> DEFINE G == getFormatDescriptorImpl(FALSE)
           u == Portably(G[t])
<1>1. Finds(G, t)
  <2>1. \E native : G = getFormatDescriptorImpl(native) BY Zenon
  <2> HIDE DEF G
  <2> QED BY <2>1, Faithful
<1> HIDE DEF G
<1>2. u = [pos |-> types[t].size, found |-> CValues[t]] BY <1>1 DEF Finds
<1> DEFINE w == Unpack(getPortableFormatDescriptor(t), FALSE)
<1>3. w = u BY Zenon DEF Portably, getPortableFormatDescriptor, G
<1> HIDE DEF u, w
<1>4. w.found = CValues[t] /\ w.pos = types[t].size BY <1>2, <1>3
<1> QED BY <1>4 DEF w

LEMMA LaidOutNative == LaidOut => NativeFaithful
<1> SUFFICES ASSUME LaidOut, NEW t \in natural
             PROVE  LET u == Unpack(getFormatDescriptor(t), TRUE) IN
                    u.found = CValues[t] /\ u.pos = types[t].size
    BY DEF NativeFaithful
<1>1. t \in Types BY DEF LaidOut
<1> DEFINE u == Unpack(getFormatDescriptor(t), TRUE)
<1>2. u = [pos |-> types[t].size, found |-> CValues[t]] BY <1>1, NativeRead
<1> HIDE DEF u
<1>3. u.found = CValues[t] /\ u.pos = types[t].size BY <1>2
<1> QED BY <1>3 DEF u

(* The portable format of every type (getPortableFormatDescriptor) finds   *)
(* every value where C keeps it and is as long as the type.                *)
THEOREM PortableFormatsAsInC == Spec => []PortableFaithful
BY AlwaysLaidOut, LaidOutPortable, PTL

(* The native format (getFormatDescriptor) does so too for every type      *)
(* without packed parts, although the struct module aligns each value on   *)
(* top of the padding the format has.                                      *)
THEOREM NativeFormatsAsInC == Spec => []NativeFaithful
BY AlwaysLaidOut, LaidOutNative, PTL

(* The shape, the strides and the item size of the buffer of an array      *)
(* (CArrayObj::getBufferInfo) walk its elements as C lays them out, for    *)
(* any number of dimensions.                                               *)
THEOREM BuffersAsInC == Spec => []BufferFaithful
BY AlwaysLaidOut, BuffersFaithful, PTL
=============================================================================
