-------------------------- MODULE PyObjects_proofs --------------------------
(***************************************************************************)
(* Whatever the Python program does, the objects it holds stay usable: the *)
(* units and their views always, and every object as long as the program   *)
(* uses only the operations whose keep-alive policies are complete.  For   *)
(* any types, any number of objects and any order of drops.                *)
(***************************************************************************)
EXTENDS PyObjects, FiniteSetTheorems, WellFoundedInduction, TLAPS

Units == {"CU", "CUTypes", "CUFuncs"}

-----------------------------------------------------------------------------
(* The strengthening of TypeOK: fields are fields of composites, engines   *)
(* are those of FFI objects, and there is at most one if MaxFFI is 1.      *)
Record == [class : Class, ty : CType \cup {NoType}, eng : 0..MaxObjs,
           src : 0..MaxObjs, tgt : 0..MaxObjs, cu : 0..MaxObjs]

EngineIn(os, e) == e \in 1..Len(os) /\ os[e].class = "FFI"

HasType == {"Type", "QualType", "CompositeField", "CObj", "iterator"}

Typed ==
    /\ TypeOK
    /\ keeps \in Seq(SUBSET Id)
    /\ \A o \in Id :
          /\ obj[o].class = "CompositeField" => obj[o].ty \in Composite
          /\ IF obj[o].class \in HasType THEN obj[o].ty \in CType ELSE obj[o].ty = NoType
          /\ obj[o].class \notin {"FFI", "memoryview", "bytearray"} => EngineIn(obj, obj[o].eng)
          /\ obj[o].eng # Nobody => EngineIn(obj, obj[o].eng)
    /\ MaxFFI <= 1 => \A d, e \in Id : EngineIn(obj, d) /\ EngineIn(obj, e) => d = e

(* o leads to n: every set of live objects that has o and what its members *)
(* keep has n.  Drops preserve it, since they destroy nothing of such a    *)
(* set without its origin.                                                 *)
Leads(al, kp, o, n) ==
    \A S \in SUBSET al : o \in S /\ (\A p \in S : kp[p] \subseteq S) => n \in S

(* The live objects of classes C lead to what they dereference.            *)
UsesKept(C) ==
    \A o \in alive : obj[o].class \in C => \A n \in Needs(o) : Leads(alive, keeps, o, n)

-----------------------------------------------------------------------------
(* A new object finds what it dereferences in itself, in a patient, or in  *)
(* what a patient of classes C dereferences.                               *)
NeedsOf(r) == {r.eng, r.src, r.tgt, r.cu} \ {Nobody}

Backed(r, P, C) ==
    \A n \in NeedsOf(r) :
        n = New \/ \E p \in P : n = p \/ (obj[p].class \in C /\ n \in Needs(p))

(* Why nothing leaks: except for casts from pointers, an object keeps      *)
(* those whose type has no more stars than its own.                        *)
Leveled(L) ==
    /\ \A t \in DOMAIN PtrTo : L[PtrTo[t]] = L[t] + 1
    /\ \A t \in Composite \cup Array \cup FuncTy \cup Enum \cup Basic \cup {IntTy} : L[t] = 0

LevelOf(L, r) == IF r.ty \in CType THEN L[r.ty] ELSE 0

Lower(s, r, k) ==
    \A L \in [CType -> Nat] : Leveled(L) => LevelOf(L, s) + k <= LevelOf(L, r)

CastEdge(r, s) ==
    /\ r.class = "CObj" /\ s.class = "CObj" /\ IsPointer(s.ty)
    /\ ~(s.ty \in DOMAIN PtrTo /\ r.ty = PtrTo[s.ty])

Descends(r, P) ==
    \A p \in P :
        obj[p].class # "memoryview" /\ (CastEdge(r, obj[p]) \/ Lower(obj[p], r, 0))

(* Patients for a new object of type t.                                    *)
Under(P, t) ==
    \A p \in P :
        /\ obj[p].class # "memoryview"
        /\ \A L \in [CType -> Nat] : Leveled(L) => LevelOf(L, obj[p]) <= L[t]

PointerObjs(P) == \A p \in P : obj[p].class = "CObj" /\ IsPointer(obj[p].ty)

(* The new object is what Typed says of objects, in the four kinds of      *)
(* steps.                                                                  *)
Fits(r) ==
    /\ r \in Record
    /\ r.class = "CompositeField" => r.ty \in Composite
    /\ IF r.class \in HasType THEN r.ty \in CType ELSE r.ty = NoType
    /\ r.class \notin {"FFI", "memoryview", "bytearray"} => EngineIn(obj, r.eng)
    /\ r.eng # Nobody => EngineIn(obj, r.eng)
    /\ r.class = "FFI" /\ MaxFFI <= 1 => \A e \in Id : ~EngineIn(obj, e)

Creates(r, P) ==
    /\ Create(r, P)
    /\ Fits(r)
    /\ r.class \in Units => Backed(r, P, Units)
    /\ KeepingProgram => Backed(r, P, Class)
    /\ Descends(r, P)

Returns(w, A) ==
    /\ keeps' = [keeps EXCEPT ![w] = @ \cup A]
    /\ held' = held \cup {w}
    /\ UNCHANGED <<Ops, obj, alive>>
    /\ obj[w].class \in {"Type", "CompositeField"}
    /\ \A a \in A : obj[a].class # "memoryview" /\ Lower(obj[a], obj[w], 1)

Kind ==
    \/ \E r \in Record, P \in SUBSET alive : Creates(r, P)
    \/ \E w \in alive, A \in SUBSET alive : Returns(w, A)
    \/ \E o \in alive : view_as_bytes(o) /\ ~KeepingProgram /\ obj[o].class = "CObj"
    \/ \E o \in held : drop(o)

-----------------------------------------------------------------------------
(* Every object is a record of the right fields.                           *)
LEMMA ObjectTyped ==
    ASSUME TypeOK, NEW o \in Id
    PROVE  obj[o] \in Record /\ obj[o].class \in Class
<1>1. obj \in Seq(Record) BY DEF TypeOK, Record
<1>2. obj[o] \in Record BY <1>1 DEF Id
<1> QED BY <1>2 DEF Record

(* What an argument of an operation is.                                    *)
LEMMA ArgFacts ==
    ASSUME Typed, NEW op, NEW c, NEW o \in Args(op, c)
    PROVE  /\ op \in Ops
           /\ o \in alive /\ o \in Id
           /\ obj[o] \in Record /\ obj[o].class = c
           /\ obj[o].eng # Nobody => EngineIn(obj, obj[o].eng)
           /\ c \notin {"FFI", "memoryview", "bytearray"} => EngineIn(obj, obj[o].eng)
           /\ IF c \in HasType THEN obj[o].ty \in CType ELSE obj[o].ty = NoType
           /\ c = "CompositeField" => obj[o].ty \in Composite
<1>1. op \in Ops /\ o \in alive /\ o \in Id /\ obj[o].class = c
      BY DEF Args, Typed, TypeOK
<1>2. obj[o] \in Record BY <1>1, ObjectTyped DEF Typed
<1> QED BY <1>1, <1>2 DEF Typed

(* A new object that is not an FFI.                                        *)
LEMMA Creation ==
    ASSUME Typed, NEW c \in Class \ {"FFI"}, NEW t, NEW e, NEW s, NEW g, NEW u,
           NEW P \in SUBSET alive, Create(Object(c, t, e, s, g, u), P),
           IF c \in HasType THEN t \in CType ELSE t = NoType,
           c = "CompositeField" => t \in Composite,
           EngineIn(obj, e) \/ (e = Nobody /\ c \in {"memoryview", "bytearray"}),
           s \in 0..MaxObjs, g \in 0..MaxObjs, u \in 0..MaxObjs,
           c \in Units => Backed(Object(c, t, e, s, g, u), P, Units),
           KeepingProgram => Backed(Object(c, t, e, s, g, u), P, Class),
           Descends(Object(c, t, e, s, g, u), P)
    PROVE  Kind
<1> DEFINE r == Object(c, t, e, s, g, u)
<1>1. /\ r.class = c /\ r.ty = t /\ r.eng = e /\ r.src = s /\ r.tgt = g /\ r.cu = u
      /\ r = [class |-> c, ty |-> t, eng |-> e, src |-> s, tgt |-> g, cu |-> u]
      BY DEF Object
<1>2. New <= MaxObjs /\ Len(obj) \in Nat /\ MaxObjs \in Nat
      BY PyAssumption DEF Create, Typed, TypeOK
<1>3. e \in 0..MaxObjs BY <1>2 DEF EngineIn, Nobody, New
<1>4. r \in Record
  <2>1. e \in 0..MaxObjs /\ s \in 0..MaxObjs /\ g \in 0..MaxObjs /\ u \in 0..MaxObjs
        BY <1>2, <1>3 DEF New
  <2>2. c \in Class /\ t \in CType \cup {NoType} OBVIOUS
  <2> HIDE DEF r
  <2> QED BY <1>1, <2>1, <2>2 DEF Record
<1>5. Creates(r, P)
  <2> HIDE DEF r
  <2>1. Create(r, P) /\ (c \in Units => Backed(r, P, Units))
        /\ (KeepingProgram => Backed(r, P, Class)) /\ Descends(r, P)
        BY DEF r
  <2> QED BY <1>1, <1>4, <2>1 DEF Creates, Fits
<1> HIDE DEF r
<1> QED BY <1>4, <1>5 DEF Kind

(* Objects whose type has no more stars than t are in order below one of   *)
(* type t, or of its basic type.                                           *)
LEMMA UnderDescends ==
    ASSUME Typed, NEW t \in CType, NEW P, NEW r,
           r.ty \in {t, ObjTy(t)},
           Under(P, t) \/ (r.class = "CObj" /\ PointerObjs(P))
    PROVE  Descends(r, P)
<1> SUFFICES ASSUME NEW p \in P
             PROVE  /\ obj[p].class # "memoryview"
                    /\ CastEdge(r, obj[p]) \/ Lower(obj[p], r, 0)
    BY DEF Descends
<1>1. CASE Under(P, t)
  <2>1. ASSUME NEW L \in [CType -> Nat], Leveled(L) PROVE LevelOf(L, obj[p]) <= LevelOf(L, r)
    <3>1. L[ObjTy(t)] = L[t] /\ ObjTy(t) \in CType
          BY <2>1, PyAssumption DEF Leveled, ObjTy
    <3>2. LevelOf(L, r) = L[t] BY <3>1 DEF LevelOf
    <3> QED BY <1>1, <2>1, <3>2 DEF Under
  <2>2. ASSUME NEW L \in [CType -> Nat] PROVE LevelOf(L, obj[p]) \in Nat BY DEF LevelOf
  <2>3. Lower(obj[p], r, 0) BY <2>1, <2>2 DEF Lower
  <2> QED BY <1>1, <2>3 DEF Under
<1>2. CASE r.class = "CObj" /\ PointerObjs(P)
  <2>1. obj[p].class = "CObj" /\ IsPointer(obj[p].ty) BY <1>2 DEF PointerObjs
  <2>2. CASE obj[p].ty \in DOMAIN PtrTo /\ r.ty = PtrTo[obj[p].ty]
    <3>1. obj[p].ty \in CType /\ r.ty \in CType BY <2>2, PyAssumption
    <3>2. Lower(obj[p], r, 0)
      <4> SUFFICES ASSUME NEW L \in [CType -> Nat], Leveled(L)
                   PROVE  LevelOf(L, obj[p]) + 0 <= LevelOf(L, r)
          BY DEF Lower
      <4>1. L[r.ty] = L[obj[p].ty] + 1 BY <2>2 DEF Leveled
      <4>2. L[obj[p].ty] \in Nat BY <3>1
      <4> QED BY <3>1, <4>1, <4>2 DEF LevelOf
    <3> QED BY <2>1, <3>2
  <2>3. CASE ~(obj[p].ty \in DOMAIN PtrTo /\ r.ty = PtrTo[obj[p].ty])
        BY <1>2, <2>1, <2>3 DEF CastEdge
  <2> QED BY <2>1, <2>2, <2>3
<1> QED BY <1>1, <1>2

(* Arguments that are in order below an object of type t.                  *)
LEMMA ArgUnder ==
    ASSUME Typed, NEW op, NEW c \in Class \ {"memoryview"}, NEW o \in Args(op, c),
           NEW t \in CType,
           \/ c \notin HasType
           \/ obj[o].ty = t
           \/ obj[o].ty \in DOMAIN PtrTo /\ t = PtrTo[obj[o].ty]
           \/ obj[o].ty \in Composite \cup Array \cup FuncTy \cup Enum \cup Basic
    PROVE  Under({o}, t)
<1>1. obj[o].class = c /\ (c \notin HasType => obj[o].ty = NoType) BY ArgFacts
<1> SUFFICES ASSUME NEW L \in [CType -> Nat], Leveled(L)
             PROVE  LevelOf(L, obj[o]) <= L[t]
    BY <1>1 DEF Under
<1>2. L[t] \in Nat OBVIOUS
<1>3. CASE c \notin HasType BY <1>1, <1>2, <1>3, PyAssumption DEF LevelOf
<1>4. CASE obj[o].ty = t BY <1>2, <1>4 DEF LevelOf
<1>5. CASE obj[o].ty \in DOMAIN PtrTo /\ t = PtrTo[obj[o].ty]
  <2>1. obj[o].ty \in CType /\ L[t] = L[obj[o].ty] + 1 BY <1>5, PyAssumption DEF Leveled
  <2>2. L[obj[o].ty] \in Nat BY <2>1
  <2> QED BY <2>1, <2>2 DEF LevelOf
<1>6. CASE obj[o].ty \in Composite \cup Array \cup FuncTy \cup Enum \cup Basic
  <2>1. LevelOf(L, obj[o]) = 0 BY <1>6 DEF LevelOf, Leveled
  <2> QED BY <1>2, <2>1
<1> QED BY <1>3, <1>4, <1>5, <1>6

(* The wrapper of a pointer to an object of the engine.                    *)
LEMMA Returned ==
    ASSUME Typed, NEW c \in {"Type", "CompositeField"}, NEW t \in CType, NEW e,
           NEW parent \in alive, NEW always \in SUBSET alive,
           ReturnPointer(c, t, e, parent, always),
           c = "CompositeField" => t \in Composite,
           EngineIn(obj, e), e = parent \/ e \in Needs(parent),
           Under({parent}, t),
           \A a \in always : obj[a].class # "memoryview" /\
               \A L \in [CType -> Nat] : Leveled(L) => LevelOf(L, obj[a]) < L[t]
    PROVE  Kind
<1>1. CASE \E w \in Wrappers(c, t, e) :
              /\ keeps' = [keeps EXCEPT ![w] = @ \cup (always \ {w})]
              /\ held' = held \cup {w}
              /\ UNCHANGED <<Ops, obj, alive>>
  <2>1. PICK w \in Wrappers(c, t, e) :
              /\ keeps' = [keeps EXCEPT ![w] = @ \cup (always \ {w})]
              /\ held' = held \cup {w}
              /\ UNCHANGED <<Ops, obj, alive>>
        BY <1>1
  <2>2. w \in alive /\ obj[w].class = c /\ obj[w].ty = t BY DEF Wrappers
  <2>3. always \ {w} \in SUBSET alive OBVIOUS
  <2>4. ASSUME NEW a \in always PROVE obj[a].class # "memoryview" /\ Lower(obj[a], obj[w], 1)
    <3>1. ASSUME NEW L \in [CType -> Nat], Leveled(L)
          PROVE  LevelOf(L, obj[a]) + 1 <= LevelOf(L, obj[w])
      <4>1. LevelOf(L, obj[w]) = L[t] /\ L[t] \in Nat BY <2>2 DEF LevelOf
      <4>2. LevelOf(L, obj[a]) \in Nat BY DEF LevelOf
      <4>3. LevelOf(L, obj[a]) < L[t] BY <3>1
      <4> QED BY <4>1, <4>2, <4>3
    <3> QED BY <3>1 DEF Lower
  <2>5. Returns(w, always \ {w}) BY <2>1, <2>2, <2>4 DEF Returns
  <2> QED BY <2>2, <2>3, <2>5 DEF Kind
<1>2. CASE Create(Object(c, t, e, Nobody, Nobody, Nobody), {parent} \cup always)
  <2>1. Nobody \in 0..MaxObjs BY PyAssumption DEF Nobody
  <2>2. c \notin Units /\ c \in Class \ {"FFI"} BY DEF Units, Class
  <2>3. Backed(Object(c, t, e, Nobody, Nobody, Nobody), {parent} \cup always, Class)
    <3>1. NeedsOf(Object(c, t, e, Nobody, Nobody, Nobody)) \subseteq {e}
          BY DEF NeedsOf, Object
    <3>2. obj[parent].class \in Class BY ObjectTyped DEF Typed, TypeOK
    <3> QED BY <3>1, <3>2 DEF Backed
  <2>4. {parent} \cup always \in SUBSET alive OBVIOUS
  <2>5. Descends(Object(c, t, e, Nobody, Nobody, Nobody), {parent} \cup always)
    <3>1. Under({parent} \cup always, t)
      <4>1. ASSUME NEW a \in always, NEW L \in [CType -> Nat], Leveled(L)
            PROVE  LevelOf(L, obj[a]) <= L[t]
        <5>1. LevelOf(L, obj[a]) \in Nat /\ L[t] \in Nat BY DEF LevelOf
        <5>2. LevelOf(L, obj[a]) < L[t] BY <4>1
        <5> QED BY <5>1, <5>2
      <4> QED BY <4>1 DEF Under
    <3>2. Object(c, t, e, Nobody, Nobody, Nobody).ty = t BY DEF Object
    <3> QED BY <3>1, <3>2, UnderDescends
  <2>6. IF c \in HasType THEN t \in CType ELSE t = NoType BY DEF HasType
  <2> QED BY <1>2, <2>1, <2>2, <2>3, <2>4, <2>5, <2>6, Creation
<1> QED BY <1>1, <1>2 DEF ReturnPointer

-----------------------------------------------------------------------------
(* What leads to an object still does when there are more objects, or an   *)
(* object keeps more.                                                      *)
LEMMA LeadsGrow ==
    ASSUME NEW al, NEW kp, NEW al2, NEW kp2, al \subseteq al2,
           \A p \in al : kp[p] \subseteq kp2[p] /\ kp[p] \subseteq al,
           NEW o \in al, NEW n, Leads(al, kp, o, n)
    PROVE  Leads(al2, kp2, o, n)
<1> SUFFICES ASSUME NEW S \in SUBSET al2, o \in S, \A p \in S : kp2[p] \subseteq S
             PROVE  n \in S
    BY DEF Leads
<1> DEFINE T == S \cap al
<1>1. T \in SUBSET al /\ o \in T OBVIOUS
<1>2. \A p \in T : kp[p] \subseteq T OBVIOUS
<1>3. n \in T
  <2> HIDE DEF T
  <2> QED BY <1>1, <1>2 DEF Leads
<1> QED BY <1>3

(* And when objects are destroyed that leave the others theirs.            *)
LEMMA LeadsShrink ==
    ASSUME NEW al, NEW kp, NEW al2, NEW kp2, al2 \subseteq al,
           \A p \in al2 : kp2[p] = kp[p],
           NEW o, NEW n, Leads(al, kp, o, n)
    PROVE  Leads(al2, kp2, o, n)
BY DEF Leads

(* An object leads to what it keeps and whatever that leads to.            *)
LEMMA LeadsThrough ==
    ASSUME NEW al, NEW kp, NEW o, NEW p, p \in kp[o], NEW n,
           n = p \/ Leads(al, kp, p, n)
    PROVE  Leads(al, kp, o, n)
BY DEF Leads

(* What is alive after a drop keeps only what is alive, and what the       *)
(* program still holds is alive.                                           *)
LEMMA SurvivorsClosed ==
    ASSUME TypeOK, NEW h \in SUBSET alive
    PROVE  /\ Survivors(h) \subseteq alive /\ h \subseteq Survivors(h)
           /\ \A o \in Survivors(h) : keeps[o] \subseteq Survivors(h)
<1> DEFINE Fed(S) == h \subseteq S /\ \A o \in S \ h : \E p \in S : o \in keeps[p]
<1>1. Survivors(h) = UNION {S \in SUBSET alive : Fed(S)} BY DEF Survivors
<1>2. Fed(h) OBVIOUS
<1>3. ASSUME NEW o \in Survivors(h), NEW q \in keeps[o] PROVE q \in Survivors(h)
  <2>1. PICK S \in SUBSET alive : o \in S /\ Fed(S) BY <1>1, <1>3
  <2>2. o \in Id /\ q \in alive BY <2>1 DEF TypeOK
  <2> DEFINE T == S \cup {q}
  <2>3. T \in SUBSET alive BY <2>2
  <2>4. Fed(T) BY <2>1
  <2>5. q \in T OBVIOUS
  <2> HIDE DEF T, Fed
  <2> QED BY <1>1, <2>3, <2>4, <2>5
<1> HIDE DEF Fed
<1> QED BY <1>1, <1>2, <1>3

-----------------------------------------------------------------------------
(* What a creation changes.                                                *)
LEMMA CreateFacts ==
    ASSUME Typed, NEW r, NEW P, New <= MaxObjs, NEW kp \in Seq(SUBSET (Id \cup {New})),
           Len(kp) = Len(obj), obj' = Append(obj, r), keeps' = Append(kp, P)
    PROVE  /\ Len(obj) \in Nat /\ New \notin Id /\ Id' = Id \cup {New}
           /\ \A o \in Id : obj'[o] = obj[o] /\ keeps'[o] = kp[o]
           /\ obj'[New] = r /\ keeps'[New] = P
           /\ DOMAIN keeps' = Id'
           /\ P \in SUBSET Id' => keeps' \in Seq(SUBSET Id')
<1>1. obj \in Seq(Record) BY DEF Typed, TypeOK, Record
<1>2. Len(obj) \in Nat /\ Id = 1..Len(obj) BY <1>1 DEF Id
<1>3. Len(obj') = Len(obj) + 1 /\ Len(keeps') = Len(obj) + 1 BY <1>1
<1>4. Id' = 1..(Len(obj) + 1) BY <1>3 DEF Id
<1>5. Id' = Id \cup {New} /\ New \notin Id BY <1>2, <1>4 DEF New
<1>6. \A o \in Id : obj'[o] = obj[o] /\ keeps'[o] = kp[o] BY <1>1, <1>2
<1>7. obj'[New] = r /\ keeps'[New] = P BY <1>1 DEF New
<1>8. DOMAIN keeps' = Id' BY <1>3, <1>4
<1>9. P \in SUBSET Id' => keeps' \in Seq(SUBSET Id')
  <2>1. kp \in Seq(SUBSET Id') BY <1>5
  <2> QED BY <2>1
<1> QED BY <1>2, <1>5, <1>6, <1>7, <1>8, <1>9

(* A new object, with what it and the others keep.                         *)
LEMMA TypedGrow ==
    ASSUME Typed, NEW r, Fits(r), NEW P \in SUBSET alive, New <= MaxObjs,
           NEW kp \in Seq(SUBSET (Id \cup {New})), Len(kp) = Len(obj),
           \A o \in Id : kp[o] \subseteq alive \cup {New} /\ (o \notin alive => kp[o] = {}),
           obj' = Append(obj, r), keeps' = Append(kp, P),
           alive' = alive \cup {New}, held' = held \cup {New}
    PROVE  Typed'
<1>1. /\ Len(obj) \in Nat /\ New \notin Id /\ Id' = Id \cup {New}
      /\ \A o \in Id : obj'[o] = obj[o] /\ keeps'[o] = kp[o]
      /\ obj'[New] = r /\ keeps'[New] = P
      /\ DOMAIN keeps' = Id'
      /\ P \in SUBSET Id' => keeps' \in Seq(SUBSET Id')
      BY CreateFacts
<1>2. alive \subseteq Id /\ held \subseteq alive BY DEF Typed, TypeOK
<1>3. obj' \in Seq(Record) BY DEF Typed, TypeOK, Record, Fits
<1>4. TypeOK'
  <2>1. alive' \subseteq Id' /\ held' \subseteq alive' BY <1>1, <1>2
  <2>2. \A o \in Id' : keeps'[o] \subseteq alive' /\ (o \notin alive' => keeps'[o] = {})
        BY <1>1, <1>2
  <2> QED BY <1>1, <1>3, <2>1, <2>2 DEF TypeOK, Record
<1>5. keeps' \in Seq(SUBSET Id') BY <1>1, <1>2
<1>6. \A e \in Id : EngineIn(obj', e) <=> EngineIn(obj, e) BY <1>1 DEF EngineIn, Id
<1>7. EngineIn(obj', New) <=> r.class = "FFI" BY <1>1 DEF EngineIn, Id
<1>8. \A e : EngineIn(obj, e) => EngineIn(obj', e) BY <1>1 DEF EngineIn, Id
<1>9. ASSUME NEW o \in Id'
      PROVE  /\ obj'[o].class = "CompositeField" => obj'[o].ty \in Composite
             /\ IF obj'[o].class \in HasType THEN obj'[o].ty \in CType ELSE obj'[o].ty = NoType
             /\ obj'[o].class \notin {"FFI", "memoryview", "bytearray"} => EngineIn(obj', obj'[o].eng)
             /\ obj'[o].eng # Nobody => EngineIn(obj', obj'[o].eng)
  <2>1. CASE o \in Id
    <3>1. obj'[o] = obj[o] BY <1>1, <2>1
    <3> QED BY <1>8, <2>1, <3>1 DEF Typed
  <2>2. CASE o = New
    <3>1. obj'[o] = r BY <1>1, <2>2
    <3> QED BY <1>8, <3>1 DEF Fits
  <2> QED BY <1>1, <2>1, <2>2
<1>10. ASSUME MaxFFI <= 1, NEW d \in Id', NEW e \in Id', EngineIn(obj', d), EngineIn(obj', e)
       PROVE  d = e
  <2>1. CASE r.class = "FFI" BY <1>1, <1>6, <1>10, <2>1 DEF Fits
  <2>2. CASE r.class # "FFI" BY <1>1, <1>6, <1>7, <1>10, <2>2 DEF Typed
  <2> QED BY <2>1, <2>2
<1> QED BY <1>4, <1>5, <1>9, <1>10 DEF Typed

(* The four kinds of steps keep Typed.                                     *)
LEMMA TypedStep ==
    ASSUME Typed, Kind
    PROVE  Typed'
<1>0. /\ alive \subseteq Id /\ held \subseteq alive /\ Len(obj) \in Nat
      /\ keeps \in Seq(SUBSET Id) /\ Len(keeps) = Len(obj)
      /\ \A o \in Id : keeps[o] \subseteq alive /\ (o \notin alive => keeps[o] = {})
  <2>1. keeps \in Seq(SUBSET Id) /\ DOMAIN keeps = Id /\ Len(obj) \in Nat BY DEF Typed, TypeOK
  <2>2. Len(keeps) = Len(obj) BY <2>1 DEF Id
  <2> QED BY <2>1, <2>2 DEF Typed, TypeOK
<1>1. ASSUME NEW r \in Record, NEW P \in SUBSET alive, Creates(r, P) PROVE Typed'
  <2>1. /\ New <= MaxObjs /\ obj' = Append(obj, r) /\ keeps' = Append(keeps, P)
        /\ alive' = alive \cup {New} /\ held' = held \cup {New} /\ Fits(r)
        BY <1>1 DEF Creates, Create
  <2>2. keeps \in Seq(SUBSET (Id \cup {New})) BY <1>0
  <2> QED BY <1>0, <2>1, <2>2, TypedGrow
<1>2. ASSUME NEW w \in alive, NEW A \in SUBSET alive, Returns(w, A) PROVE Typed'
  <2>1. /\ keeps' = [keeps EXCEPT ![w] = @ \cup A] /\ held' = held \cup {w}
        /\ obj' = obj /\ alive' = alive /\ Id' = Id
        BY <1>2 DEF Returns, Id
  <2>2. keeps' \in Seq(SUBSET Id) /\ DOMAIN keeps' = Id
    <3>1. keeps \in [Id -> SUBSET Id] BY <1>0 DEF Id
    <3>2. A \subseteq Id BY <1>0
    <3>3. keeps' \in [Id -> SUBSET Id] BY <2>1, <3>1, <3>2
    <3> QED BY <1>0, <3>3 DEF Id
  <2>3. \A p \in Id : keeps'[p] \subseteq alive /\ (p \notin alive => keeps'[p] = {})
    <3>1. keeps \in [Id -> SUBSET Id] BY <1>0 DEF Id
    <3> QED BY <1>0, <2>1, <3>1
  <2>4. TypeOK' BY <1>0, <2>1, <2>2, <2>3 DEF Typed, TypeOK
  <2>5. \A e : EngineIn(obj', e) <=> EngineIn(obj, e) BY <2>1 DEF EngineIn
  <2> QED BY <2>1, <2>2, <2>4, <2>5 DEF Typed
<1>3. ASSUME NEW o \in alive, view_as_bytes(o) PROVE Typed'
  <2> DEFINE kp == [keeps EXCEPT ![o] = @ \cup {New}]
             r  == Memoryview(obj[o].src)
  <2>1. /\ New <= MaxObjs /\ obj' = Append(obj, r) /\ keeps' = Append(kp, {})
        /\ alive' = alive \cup {New} /\ held' = held \cup {New}
        BY <1>3 DEF view_as_bytes
  <2>2. kp \in Seq(SUBSET (Id \cup {New})) /\ Len(kp) = Len(obj) BY <1>0 DEF Id
  <2>3. \A p \in Id : kp[p] \subseteq alive \cup {New} /\ (p \notin alive => kp[p] = {})
        BY <1>0 DEF Id
  <2>4. Fits(r)
    <3>1. obj[o] \in Record BY <1>0, ObjectTyped DEF Typed
    <3>2. obj[o].src \in 0..MaxObjs /\ 0 \in 0..MaxObjs BY <3>1, PyAssumption DEF Record
    <3>3. /\ r = [class |-> "memoryview", ty |-> NoType, eng |-> 0, src |-> obj[o].src,
                  tgt |-> 0, cu |-> 0]
          /\ r.class = "memoryview" /\ r.eng = 0
          BY DEF Memoryview, Object, Nobody
    <3>4. r \in Record BY <3>2, <3>3 DEF Record, Class
    <3> HIDE DEF r
    <3> QED BY <3>3, <3>4 DEF Fits, Nobody, HasType
  <2>5. {} \in SUBSET alive OBVIOUS
  <2> HIDE DEF kp, r
  <2> QED BY <2>1, <2>2, <2>3, <2>4, <2>5, TypedGrow
<1>4. ASSUME NEW o \in held, drop(o) PROVE Typed'
  <2> DEFINE L == Survivors(held \ {o})
  <2>1. /\ held' = held \ {o} /\ alive' = L /\ obj' = obj /\ Id' = Id
        /\ keeps' = [p \in DOMAIN keeps |-> IF p \in L THEN keeps[p] ELSE {}]
        BY <1>4 DEF drop, Id
  <2>2. /\ L \subseteq alive /\ held \ {o} \subseteq L
        /\ \A p \in L : keeps[p] \subseteq L
        BY <1>0, SurvivorsClosed DEF Typed
  <2> HIDE DEF L
  <2>3. keeps' \in [Id -> SUBSET Id] BY <1>0, <2>1 DEF Id
  <2>4. keeps' \in Seq(SUBSET Id) /\ DOMAIN keeps' = Id BY <1>0, <2>3 DEF Id
  <2>5. \A p \in Id : keeps'[p] \subseteq L /\ (p \notin L => keeps'[p] = {})
        BY <1>0, <2>1, <2>2 DEF Id
  <2>6. TypeOK' BY <1>0, <2>1, <2>2, <2>4, <2>5 DEF Typed, TypeOK
  <2>7. \A e : EngineIn(obj', e) <=> EngineIn(obj, e) BY <2>1 DEF EngineIn
  <2> QED BY <2>1, <2>4, <2>6, <2>7 DEF Typed
<1> QED BY <1>1, <1>2, <1>3, <1>4 DEF Kind

(* Objects that led to what they dereference still do after a step that    *)
(* creates or keeps more.                                                  *)
LEMMA UsesGrow ==
    ASSUME TypeOK, NEW C, UsesKept(C), alive \subseteq alive',
           \A p \in Id : obj'[p] = obj[p] /\ keeps[p] \subseteq keeps'[p]
    PROVE  \A o \in alive : obj'[o].class \in C =>
                \A n \in NeedsOf(obj'[o]) : Leads(alive', keeps', o, n)
<1> SUFFICES ASSUME NEW o \in alive, obj'[o].class \in C, NEW n \in NeedsOf(obj'[o])
             PROVE  Leads(alive', keeps', o, n)
    OBVIOUS
<1>1. o \in Id /\ obj'[o] = obj[o] BY DEF TypeOK
<1>2. n \in Needs(o) BY <1>1 DEF Needs, NeedsOf
<1>3. Leads(alive, keeps, o, n) BY <1>1, <1>2 DEF UsesKept
<1>4. \A p \in alive : keeps[p] \subseteq keeps'[p] /\ keeps[p] \subseteq alive BY DEF TypeOK
<1> QED BY <1>3, <1>4, LeadsGrow

(* Every step keeps the property, for the units and, if the program uses   *)
(* the operations that keep, for all objects.                              *)
LEMMA UsesStep ==
    ASSUME Typed, Kind, NEW C, C = Units \/ (C = Class /\ KeepingProgram), UsesKept(C)
    PROVE  UsesKept(C)'
<1>0. /\ alive \subseteq Id /\ keeps \in Seq(SUBSET Id) /\ Len(keeps) = Len(obj)
      /\ TypeOK /\ \A p \in Id : keeps[p] \subseteq alive
  <2>1. keeps \in Seq(SUBSET Id) /\ DOMAIN keeps = Id /\ Len(obj) \in Nat BY DEF Typed, TypeOK
  <2>2. Len(keeps) = Len(obj) BY <2>1 DEF Id
  <2> QED BY <2>1, <2>2 DEF Typed, TypeOK
<1>a. SUFFICES \A o \in alive' : obj'[o].class \in C =>
                   \A n \in NeedsOf(obj'[o]) : Leads(alive', keeps', o, n)
      BY DEF UsesKept, Needs, NeedsOf
<1>1. ASSUME NEW r \in Record, NEW P \in SUBSET alive, Creates(r, P)
      PROVE  \A o \in alive' : obj'[o].class \in C =>
                 \A n \in NeedsOf(obj'[o]) : Leads(alive', keeps', o, n)
  <2>1. /\ New <= MaxObjs /\ obj' = Append(obj, r) /\ keeps' = Append(keeps, P)
        /\ alive' = alive \cup {New}
        /\ r.class \in C => Backed(r, P, C)
        BY <1>1 DEF Creates, Create, Fits, Record
  <2>2. keeps \in Seq(SUBSET (Id \cup {New})) BY <1>0
  <2>3. /\ New \notin Id
        /\ \A p \in Id : obj'[p] = obj[p] /\ keeps'[p] = keeps[p]
        /\ obj'[New] = r /\ keeps'[New] = P
        BY <1>0, <2>1, <2>2, CreateFacts
  <2>4. \A o \in alive : obj'[o].class \in C =>
            \A n \in NeedsOf(obj'[o]) : Leads(alive', keeps', o, n)
        BY <1>0, <2>1, <2>3, UsesGrow
  <2>5. ASSUME r.class \in C, NEW n \in NeedsOf(r)
        PROVE  Leads(alive', keeps', New, n)
    <3>1. CASE n = New BY <3>1 DEF Leads
    <3>2. CASE \E p \in P : n = p \/ (obj[p].class \in C /\ n \in Needs(p))
      <4>1. PICK p \in P : n = p \/ (obj[p].class \in C /\ n \in Needs(p)) BY <3>2
      <4>2. p \in alive /\ p \in Id /\ obj'[p] = obj[p] BY <1>0, <2>3
      <4>3. n = p \/ (obj'[p].class \in C /\ n \in NeedsOf(obj'[p]))
            BY <4>1, <4>2 DEF Needs, NeedsOf
      <4>4. n = p \/ Leads(alive', keeps', p, n) BY <2>4, <4>2, <4>3
      <4> QED BY <2>3, <4>4, LeadsThrough
    <3> QED BY <2>1, <2>5, <3>1, <3>2 DEF Backed
  <2> QED BY <2>1, <2>3, <2>4, <2>5
<1>2. ASSUME NEW w \in alive, NEW A \in SUBSET alive, Returns(w, A)
      PROVE  \A o \in alive' : obj'[o].class \in C =>
                 \A n \in NeedsOf(obj'[o]) : Leads(alive', keeps', o, n)
  <2>1. keeps' = [keeps EXCEPT ![w] = @ \cup A] /\ obj' = obj /\ alive' = alive
        BY <1>2 DEF Returns
  <2>2. keeps \in [Id -> SUBSET Id] BY <1>0 DEF Id
  <2>3. \A p \in Id : keeps[p] \subseteq keeps'[p] BY <2>1, <2>2
  <2> QED BY <1>0, <2>1, <2>3, UsesGrow
<1>3. ASSUME NEW v \in alive, view_as_bytes(v), ~KeepingProgram
      PROVE  \A o \in alive' : obj'[o].class \in C =>
                 \A n \in NeedsOf(obj'[o]) : Leads(alive', keeps', o, n)
  <2> DEFINE kp == [keeps EXCEPT ![v] = @ \cup {New}]
             r  == Memoryview(obj[v].src)
  <2>1. /\ New <= MaxObjs /\ obj' = Append(obj, r) /\ keeps' = Append(kp, {})
        /\ alive' = alive \cup {New}
        BY <1>3 DEF view_as_bytes
  <2>2. kp \in Seq(SUBSET (Id \cup {New})) /\ Len(kp) = Len(obj) BY <1>0 DEF Id
  <2>3. \A p \in Id : keeps[p] \subseteq kp[p] BY <1>0 DEF Id
  <2>4. r.class \notin C BY <1>3 DEF Memoryview, Object, Units
  <2> HIDE DEF kp, r
  <2>5. /\ \A p \in Id : obj'[p] = obj[p] /\ keeps'[p] = kp[p]
        /\ obj'[New] = r
        BY <2>1, <2>2, CreateFacts
  <2>6. \A p \in Id : obj'[p] = obj[p] /\ keeps[p] \subseteq keeps'[p] BY <2>3, <2>5
  <2>7. \A o \in alive : obj'[o].class \in C =>
            \A n \in NeedsOf(obj'[o]) : Leads(alive', keeps', o, n)
        BY <1>0, <2>1, <2>6, UsesGrow
  <2> QED BY <2>1, <2>4, <2>5, <2>7
<1>4. ASSUME NEW d \in held, drop(d)
      PROVE  \A o \in alive' : obj'[o].class \in C =>
                 \A n \in NeedsOf(obj'[o]) : Leads(alive', keeps', o, n)
  <2> DEFINE L == Survivors(held \ {d})
  <2>1. /\ alive' = L /\ obj' = obj
        /\ keeps' = [p \in DOMAIN keeps |-> IF p \in L THEN keeps[p] ELSE {}]
        BY <1>4 DEF drop
  <2>2. L \subseteq alive BY SurvivorsClosed DEF Typed, TypeOK
  <2> HIDE DEF L
  <2>3. \A p \in L : keeps'[p] = keeps[p] BY <1>0, <2>1, <2>2 DEF TypeOK
  <2>4. ASSUME NEW o \in L, obj[o].class \in C, NEW n \in NeedsOf(obj[o])
        PROVE  Leads(alive', keeps', o, n)
    <3>1. Leads(alive, keeps, o, n) BY <2>2, <2>4 DEF UsesKept, Needs, NeedsOf
    <3> QED BY <2>1, <2>2, <2>3, <3>1, LeadsShrink
  <2> QED BY <2>1, <2>4
<1> QED BY <1>1, <1>2, <1>3, <1>4 DEF Kind

(* Objects that lead to what they dereference are usable: the live objects *)
(* are closed under what they keep.                                        *)
LEMMA LedUsable ==
    ASSUME TypeOK, NEW C, UsesKept(C), NEW o \in alive, obj[o].class \in C
    PROVE  Usable(o)
<1>1. \A p \in alive : keeps[p] \subseteq alive BY DEF TypeOK
<1> QED BY <1>1 DEF UsesKept, Leads, Usable

-----------------------------------------------------------------------------
(* What a new object that keeps P may dereference.                         *)
Covered(P) == {Nobody, New} \cup P \cup UNION {Needs(p) : p \in P}

LEMMA CoveredFields ==
    ASSUME Typed, NEW P \in SUBSET alive, NEW p \in P
    PROVE  /\ p \in Covered(P) /\ Nobody \in Covered(P) /\ New \in Covered(P)
           /\ obj[p].eng \in Covered(P) /\ obj[p].src \in Covered(P)
           /\ obj[p].tgt \in Covered(P)
BY DEF Covered, Needs

(* Objects are numbered up to MaxObjs.                                     *)
LEMMA Numbered ==
    ASSUME Typed, New <= MaxObjs
    PROVE  alive \subseteq 0..MaxObjs /\ Nobody \in 0..MaxObjs /\ New \in 0..MaxObjs
BY PyAssumption DEF Typed, TypeOK, Id, New, Nobody

(* A new object of another class than the FFI and the units.               *)
LEMMA MadeObject ==
    ASSUME Typed, NEW c \in {"Type", "QualType", "iterator", "CObj", "memoryview", "bytearray"},
           NEW t, NEW e, NEW s, NEW g,
           NEW P \in SUBSET alive, Create(Object(c, t, e, s, g, Nobody), P),
           IF c \in HasType THEN t \in CType ELSE t = NoType,
           EngineIn(obj, e) \/ (e = Nobody /\ c \in {"memoryview", "bytearray"}),
           s \in 0..MaxObjs, g \in 0..MaxObjs,
           KeepingProgram => {e, s, g} \subseteq Covered(P),
           Descends(Object(c, t, e, s, g, Nobody), P)
    PROVE  Kind
<1>1. c \in Class \ {"FFI"} /\ c \notin Units /\ c # "CompositeField" BY DEF Class, Units
<1>2. Nobody \in 0..MaxObjs BY PyAssumption DEF Nobody
<1>3. KeepingProgram => Backed(Object(c, t, e, s, g, Nobody), P, Class)
  <2>1. NeedsOf(Object(c, t, e, s, g, Nobody)) \subseteq {e, s, g} \ {Nobody}
        BY DEF NeedsOf, Object
  <2>2. \A p \in P : obj[p].class \in Class BY ObjectTyped DEF Typed, TypeOK
  <2> QED BY <2>1, <2>2 DEF Backed, Covered
<1> QED BY <1>1, <1>2, <1>3, Creation

LEMMA MadeQualType ==
    ASSUME Typed, NEW t \in CType, NEW e, EngineIn(obj, e), NEW P \in SUBSET alive,
           ReturnQualType(t, e, P), KeepingProgram => e \in Covered(P), Under(P, t)
    PROVE  Kind
<1>1. Create(Object("QualType", t, e, Nobody, Nobody, Nobody), P) BY DEF ReturnQualType
<1>2. Nobody \in 0..MaxObjs /\ Nobody \in Covered(P) BY PyAssumption DEF Nobody, Covered
<1>3. Descends(Object("QualType", t, e, Nobody, Nobody, Nobody), P)
  <2>1. Object("QualType", t, e, Nobody, Nobody, Nobody).ty = t BY DEF Object
  <2> QED BY <2>1, UnderDescends
<1> QED BY <1>1, <1>2, <1>3, MadeObject DEF HasType

LEMMA MadeOwned ==
    ASSUME Typed, NEW t \in CType, NEW e, EngineIn(obj, e), NEW g \in 0..MaxObjs,
           NEW P \in SUBSET alive, Create(Owned(t, e, g), P),
           KeepingProgram => {e, g} \subseteq Covered(P),
           Under(P, t) \/ PointerObjs(P)
    PROVE  Kind
<1> DEFINE s == IF t \in FuncTy THEN Nobody ELSE New
<1>1. Create(Object("CObj", ObjTy(t), e, s, g, Nobody), P) BY DEF Owned
<1>2. s \in 0..MaxObjs /\ s \in Covered(P) BY Numbered DEF Create, Covered
<1>3. ObjTy(t) \in CType BY PyAssumption DEF ObjTy
<1> HIDE DEF s
<1>4. Descends(Object("CObj", ObjTy(t), e, s, g, Nobody), P)
  <2>1. /\ Object("CObj", ObjTy(t), e, s, g, Nobody).ty = ObjTy(t)
        /\ Object("CObj", ObjTy(t), e, s, g, Nobody).class = "CObj"
        BY DEF Object
  <2> QED BY <2>1, UnderDescends
<1> QED BY <1>1, <1>2, <1>3, <1>4, MadeObject DEF HasType

LEMMA MadeView ==
    ASSUME Typed, NEW t \in CType, NEW e, EngineIn(obj, e), NEW src \in 0..MaxObjs,
           NEW P \in SUBSET alive, Create(View(t, e, src), P),
           KeepingProgram => {e, src} \subseteq Covered(P), Under(P, t)
    PROVE  Kind
<1> DEFINE s == IF t \in FuncTy THEN Nobody ELSE src
<1>1. Create(Object("CObj", ObjTy(t), e, s, Nobody, Nobody), P) BY DEF View
<1>2. s \in 0..MaxObjs /\ (KeepingProgram => s \in Covered(P)) /\ Nobody \in 0..MaxObjs
      /\ Nobody \in Covered(P)
      BY Numbered DEF Create, Covered
<1>3. ObjTy(t) \in CType BY PyAssumption DEF ObjTy
<1> HIDE DEF s
<1>4. Descends(Object("CObj", ObjTy(t), e, s, Nobody, Nobody), P)
  <2>1. /\ Object("CObj", ObjTy(t), e, s, Nobody, Nobody).ty = ObjTy(t)
        /\ Object("CObj", ObjTy(t), e, s, Nobody, Nobody).class = "CObj"
        BY DEF Object
  <2> QED BY <2>1, UnderDescends
<1> QED BY <1>1, <1>2, <1>3, <1>4, MadeObject DEF HasType

LEMMA MadeMemoryview ==
    ASSUME Typed, NEW src \in 0..MaxObjs, NEW P \in SUBSET alive, Create(Memoryview(src), P),
           KeepingProgram => src \in Covered(P),
           \A p \in P : obj[p].class # "memoryview" /\ obj[p].ty \in Array
    PROVE  Kind
<1>1. Create(Object("memoryview", NoType, Nobody, src, Nobody, Nobody), P) BY DEF Memoryview
<1>2. Nobody \in 0..MaxObjs /\ Nobody \in Covered(P) BY PyAssumption DEF Nobody, Covered
<1>3. Descends(Object("memoryview", NoType, Nobody, src, Nobody, Nobody), P)
  <2> SUFFICES ASSUME NEW p \in P, NEW L \in [CType -> Nat], Leveled(L)
               PROVE  LevelOf(L, obj[p]) + 0
                        <= LevelOf(L, Object("memoryview", NoType, Nobody, src, Nobody, Nobody))
      BY DEF Descends, Lower
  <2>1. LevelOf(L, obj[p]) = 0 BY DEF LevelOf, Leveled
  <2>2. LevelOf(L, Object("memoryview", NoType, Nobody, src, Nobody, Nobody)) \in Nat
        BY DEF LevelOf
  <2> QED BY <2>1, <2>2
<1> QED BY <1>1, <1>2, <1>3, MadeObject DEF HasType

-----------------------------------------------------------------------------
(* The engines.  Without a second one, an engine is the one.               *)
LEMMA OneEngine ==
    ASSUME Typed, KeepingProgram, {"cast", "getFunction"} \cap Ops # {},
           NEW d, EngineIn(obj, d), NEW e, EngineIn(obj, e)
    PROVE  d = e
<1>1. MaxFFI <= 1 BY DEF KeepingProgram
<1> QED BY <1>1 DEF Typed, EngineIn, Id

LEMMA newFFIKind ==
    ASSUME Typed, newFFI
    PROVE  Kind
<1> DEFINE r == Object("FFI", NoType, Nobody, Nobody, Nobody, Nobody)
           F == {o \in DOMAIN obj : obj[o].class = "FFI"}
<1>1. Create(r, {}) /\ Cardinality(F) < MaxFFI BY DEF newFFI
<1>2. r.class = "FFI" /\ r.ty = NoType /\ r.eng = Nobody /\ NeedsOf(r) = {}
      BY DEF Object, NeedsOf
<1>3. r \in Record
  <2>1. 0 \in 0..MaxObjs BY PyAssumption
  <2> QED BY <2>1 DEF Object, Record, Class, Nobody
<1>4. MaxFFI <= 1 => \A e \in Id : ~EngineIn(obj, e)
  <2> SUFFICES ASSUME MaxFFI <= 1, NEW e \in Id, EngineIn(obj, e) PROVE FALSE
      OBVIOUS
  <2>1. DOMAIN obj = 1..Len(obj) /\ Len(obj) \in Nat BY DEF Typed, TypeOK
  <2>2. IsFiniteSet(F)
    <3>1. IsFiniteSet(1..Len(obj)) BY <2>1, FS_Interval
    <3> QED BY <2>1, <3>1, FS_Subset
  <2>3. e \in F BY <2>1 DEF EngineIn
  <2> HIDE DEF F
  <2>4. Cardinality(F) \in Nat /\ Cardinality(F) # 0 BY <2>2, <2>3, FS_CardinalityType, FS_EmptySet
  <2> QED BY <1>1, <2>4, PyAssumption
<1>5. Descends(r, {}) /\ \A C : Backed(r, {}, C) BY <1>2 DEF Backed, Descends
<1>6. {} \in SUBSET alive OBVIOUS
<1> HIDE DEF r
<1>7. Fits(r) BY <1>2, <1>3, <1>4 DEF Fits, HasType
<1>8. Creates(r, {}) BY <1>1, <1>5, <1>7 DEF Creates
<1> QED BY <1>3, <1>6, <1>8 DEF Kind

LEMMA newBufferKind ==
    ASSUME Typed, newBuffer
    PROVE  Kind
<1>1. Create(Object("bytearray", NoType, Nobody, New, Nobody, Nobody), {}) BY DEF newBuffer
<1>2. Nobody \in 0..MaxObjs /\ New \in 0..MaxObjs BY <1>1, Numbered DEF Create
<1>3. {Nobody, New} \subseteq Covered({}) BY DEF Covered
<1>4. {} \in SUBSET alive OBVIOUS
<1>5. Descends(Object("bytearray", NoType, Nobody, New, Nobody, Nobody), {}) BY DEF Descends
<1> QED BY <1>1, <1>2, <1>3, <1>4, <1>5, MadeObject DEF HasType

(* Units: each keeps the FFI, or the unit, it was made from.               *)
LEMMA UnitKind ==
    ASSUME Typed, NEW c \in Units, NEW p \in alive, NEW e, EngineIn(obj, e),
           NEW u \in {Nobody, p},
           Create(Object(c, NoType, e, Nobody, Nobody, u), {p}),
           e = p \/ (obj[p].class \in Units /\ e \in Needs(p)),
           obj[p].class \notin HasType \cup {"memoryview"}
    PROVE  Kind
<1>1. Nobody \in 0..MaxObjs /\ p \in 0..MaxObjs BY Numbered DEF Create
<1>2. c \in Class \ {"FFI"} /\ c # "CompositeField" /\ Units \subseteq Class
      BY DEF Units, Class
<1>3. \A C : Units \subseteq C => Backed(Object(c, NoType, e, Nobody, Nobody, u), {p}, C)
  <2>1. NeedsOf(Object(c, NoType, e, Nobody, Nobody, u)) \subseteq {e, p}
        BY DEF NeedsOf, Object
  <2> QED BY <2>1 DEF Backed
<1>4. {p} \in SUBSET alive OBVIOUS
<1>5. Descends(Object(c, NoType, e, Nobody, Nobody, u), {p})
  <2>1. obj[p].ty \notin CType BY PyAssumption DEF Typed, TypeOK
  <2>2. Object(c, NoType, e, Nobody, Nobody, u).ty \notin CType BY PyAssumption DEF Object
  <2> QED BY <2>1, <2>2 DEF Descends, Lower, LevelOf
<1>6. c \notin HasType BY DEF Units, HasType
<1> QED BY <1>1, <1>2, <1>3, <1>4, <1>5, <1>6, Creation

LEMMA UnitsKind ==
    ASSUME Typed,
           \/ \E o \in Args("compile", "FFI") : compile(o)
           \/ \E o \in Args("types", "CU") : cu_types(o)
           \/ \E o \in Args("funcs", "CU") : cu_funcs(o)
    PROVE  Kind
<1>0. {"CU", "CUTypes", "CUFuncs"} = Units BY DEF Units
<1>1. ASSUME NEW o \in Args("compile", "FFI"), compile(o) PROVE Kind
  <2>1. o \in alive /\ EngineIn(obj, o) /\ obj[o].class = "FFI" BY ArgFacts DEF EngineIn, Id
  <2> QED BY <1>0, <1>1, <2>1, UnitKind DEF compile, HasType
<1>2. ASSUME NEW op, NEW o \in Args(op, "CU"), cu_types(o) \/ cu_funcs(o) PROVE Kind
  <2>1. o \in alive /\ EngineIn(obj, obj[o].eng) /\ obj[o].class = "CU" BY ArgFacts
  <2>2. obj[o].eng \in Needs(o)
    <3>1. obj[o].eng # Nobody BY <2>1 DEF EngineIn, Nobody
    <3> QED BY <3>1 DEF Needs
  <2> QED BY <1>0, <1>2, <2>1, <2>2, UnitKind DEF cu_types, cu_funcs, HasType
<1> QED BY <1>1, <1>2

(* What the operations need to know of an argument that has an engine.     *)
LEMMA ArgEngine ==
    ASSUME Typed, NEW op, NEW c \in Class \ {"FFI", "memoryview", "bytearray"},
           NEW o \in Args(op, c)
    PROVE  /\ op \in Ops /\ o \in alive /\ EngineIn(obj, obj[o].eng)
           /\ obj[o].eng \in Needs(o)
           /\ obj[o].src \in 0..MaxObjs /\ obj[o].tgt \in 0..MaxObjs
           /\ {o} \in SUBSET alive
           /\ {obj[o].eng, obj[o].src, obj[o].tgt} \subseteq Covered({o})
<1>1. op \in Ops /\ o \in alive /\ EngineIn(obj, obj[o].eng) /\ obj[o] \in Record BY ArgFacts
<1>2. obj[o].eng # Nobody BY <1>1 DEF EngineIn, Nobody
<1>3. obj[o].src \in 0..MaxObjs /\ obj[o].tgt \in 0..MaxObjs BY <1>1 DEF Record
<1>4. {o} \in SUBSET alive /\ o \in {o} BY <1>1
<1>5. {obj[o].eng, obj[o].src, obj[o].tgt} \subseteq Covered({o}) BY <1>4, CoveredFields
<1> QED BY <1>1, <1>2, <1>3, <1>4, <1>5 DEF Needs

(* Types and fields: the wrapper keeps the object it was got from, which   *)
(* leads to its engine.                                                    *)
LEMMA TypesKind ==
    ASSUME Typed,
           \/ \E o \in Args("types", "CUTypes"), t \in CType : cutypes_getattr(o, t)
           \/ \E o \in Args("FFI.type", "FFI"), t \in FFITypes : ffi_type(o, t)
           \/ \E o \in Args("Type.ptr", "Type") : type_ptr(o) \/ ptr_type(o)
           \/ \E o \in Args("QualType", "QualType") : qualtype_type(o)
           \/ \E o \in Args("parts", "Type") :
                 elementType(o) \/ returnType(o) \/ composite_getattr(o)
           \/ \E o \in Args("parts", "CompositeField") : field_type(o)
           \/ \E o \in Args("iter", "iterator") : iter_next(o)
    PROVE  Kind
<1>a. ASSUME NEW op, NEW c \in {"CUTypes", "Type", "QualType", "CompositeField", "iterator"},
             NEW o \in Args(op, c), NEW t \in CType,
             \/ c = "CUTypes"
             \/ obj[o].ty = t
             \/ obj[o].ty \in DOMAIN PtrTo /\ t = PtrTo[obj[o].ty]
             \/ obj[o].ty \in Composite \cup Array \cup FuncTy \cup Enum \cup Basic,
             \/ ReturnType(t, obj[o].eng, o, {})
             \/ /\ obj[o].ty \in DOMAIN PtrTo /\ t = PtrTo[obj[o].ty]
                /\ ReturnType(t, obj[o].eng, o, {o})
             \/ t \in Composite /\ ReturnPointer("CompositeField", t, obj[o].eng, o, {})
      PROVE  Kind
  <2>1. c \in Class \ {"FFI", "memoryview", "bytearray"} BY DEF Class
  <2>2. o \in alive /\ EngineIn(obj, obj[o].eng) /\ obj[o].eng \in Needs(o)
        /\ {o} \in SUBSET alive /\ {} \in SUBSET alive
        BY <2>1, ArgEngine
  <2>3. Under({o}, t)
    <3>1. "CUTypes" \notin HasType BY DEF HasType
    <3> QED BY <1>a, <2>1, <3>1, ArgUnder
  <2>4. CASE ReturnType(t, obj[o].eng, o, {}) BY <2>2, <2>3, <2>4, Returned DEF ReturnType
  <2>5. CASE /\ obj[o].ty \in DOMAIN PtrTo /\ t = PtrTo[obj[o].ty]
             /\ ReturnType(t, obj[o].eng, o, {o})
    <3>1. obj[o].class = c BY ArgFacts
    <3>2. ASSUME NEW L \in [CType -> Nat], Leveled(L) PROVE LevelOf(L, obj[o]) < L[t]
      <4>1. obj[o].ty \in CType /\ L[t] = L[obj[o].ty] + 1
            BY <2>5, <3>2, PyAssumption DEF Leveled
      <4>2. L[obj[o].ty] \in Nat BY <4>1
      <4> QED BY <4>1, <4>2 DEF LevelOf
    <3> QED BY <2>2, <2>3, <2>5, <3>1, <3>2, Returned DEF ReturnType
  <2>6. CASE t \in Composite /\ ReturnPointer("CompositeField", t, obj[o].eng, o, {})
        BY <2>2, <2>3, <2>6, Returned
  <2> QED BY <1>a, <2>4, <2>5, <2>6
<1>1. ASSUME NEW o \in Args("types", "CUTypes"), NEW t \in CType, cutypes_getattr(o, t)
      PROVE  Kind
      BY <1>1, <1>a DEF cutypes_getattr
<1>2. ASSUME NEW o \in Args("FFI.type", "FFI"), NEW t \in FFITypes, ffi_type(o, t) PROVE Kind
  <2>0. t \in CType BY DEF FFITypes
  <2>1. o \in alive /\ EngineIn(obj, o) /\ {} \in SUBSET alive BY ArgFacts DEF EngineIn, Id
  <2>2. Under({o}, t) BY <2>0, ArgUnder, SMTT(30) DEF HasType, Class
  <2> QED BY <1>2, <2>0, <2>1, <2>2, Returned DEF ffi_type, ReturnType
<1>3. ASSUME NEW o \in Args("Type.ptr", "Type"), type_ptr(o) \/ ptr_type(o) PROVE Kind
  <2>1. obj[o].ty \in DOMAIN PtrTo BY <1>3 DEF type_ptr, ptr_type
  <2>2. PtrTo[obj[o].ty] \in CType BY <2>1, PyAssumption
  <2> QED BY <1>3, <1>a, <2>1, <2>2 DEF type_ptr, ptr_type
<1>4. ASSUME NEW o \in Args("QualType", "QualType"), qualtype_type(o) PROVE Kind
  <2>1. obj[o].ty \in CType BY ArgFacts DEF HasType
  <2> QED BY <1>4, <1>a, <2>1 DEF qualtype_type
<1>5. ASSUME NEW o \in Args("parts", "Type"), elementType(o) PROVE Kind
  <2>1. obj[o].ty \in Composite \cup Array BY <1>5 DEF elementType
  <2>2. PICK t \in FieldTy[obj[o].ty] : ReturnType(t, obj[o].eng, o, {}) BY <1>5 DEF elementType
  <2>3. t \in CType BY <2>1, PyAssumption
  <2> QED BY <1>a, <2>1, <2>2, <2>3
<1>6. ASSUME NEW o \in Args("parts", "Type"), returnType(o) PROVE Kind
  <2>1. RetTy[obj[o].ty] \in CType BY <1>6, PyAssumption DEF returnType
  <2> QED BY <1>6, <1>a, <2>1 DEF returnType
<1>7. ASSUME NEW o \in Args("parts", "Type"), composite_getattr(o) PROVE Kind
  <2>1. obj[o].ty \in CType BY ArgFacts DEF HasType
  <2> QED BY <1>7, <1>a, <2>1 DEF composite_getattr
<1>8. ASSUME NEW o \in Args("parts", "CompositeField"), field_type(o) PROVE Kind
  <2>1. obj[o].ty \in Composite \cup Array BY ArgFacts
  <2>2. PICK t \in FieldTy[obj[o].ty] : ReturnType(t, obj[o].eng, o, {}) BY <1>8 DEF field_type
  <2>3. t \in CType BY <2>1, PyAssumption
  <2> QED BY <1>a, <2>1, <2>2, <2>3
<1>9. ASSUME NEW o \in Args("iter", "iterator"), iter_next(o) PROVE Kind
  <2>1. obj[o].ty \in CType BY ArgFacts DEF HasType
  <2> QED BY <1>9, <1>a, <2>1 DEF iter_next
<1> QED BY <1>1, <1>2, <1>3, <1>4, <1>5, <1>6, <1>7, <1>8, <1>9

(* Operations that return a QualType by value.                             *)
LEMMA QualTypesKind ==
    ASSUME Typed,
           \/ \E o \in Args("QualType", "Type") : dffi_const(o)
           \/ \E o \in Args("withConst", "QualType") : withConst(o)
           \/ \E o \in Args("pointee", "Type") \cup Args("pointee", "CObj") : pointee(o)
           \/ \E o \in Args("parts", "Type") : params(o)
           \/ \E o \in Args("pointee", "CObj") : arrayobj_elementType(o)
           \/ \E o \in Args("typeof", "CObj") : typeof(o)
    PROVE  Kind
<1>a. ASSUME NEW op, NEW c \in {"Type", "QualType", "CObj"},
             NEW o \in Args(op, c), NEW t \in CType,
             \/ ReturnQualType(t, obj[o].eng, {o}) /\ (obj[o].ty = t \/ obj[o].ty \in FuncTy)
             \/ ReturnQualType(t, obj[o].eng, {}) /\ op \notin KeptOps
      PROVE  Kind
  <2>1. c \in Class \ {"FFI", "memoryview", "bytearray"} BY DEF Class
  <2>2. /\ op \in Ops /\ EngineIn(obj, obj[o].eng)
        /\ obj[o].eng \in Covered({o}) /\ {o} \in SUBSET alive /\ {} \in SUBSET alive
        BY <2>1, ArgEngine
  <2>3. CASE ReturnQualType(t, obj[o].eng, {o}) /\ (obj[o].ty = t \/ obj[o].ty \in FuncTy)
    <3>1. Under({o}, t) BY <2>1, <2>3, ArgUnder
    <3> QED BY <2>2, <2>3, <3>1, MadeQualType
  <2>4. CASE ReturnQualType(t, obj[o].eng, {}) /\ op \notin KeptOps
    <3>1. ~KeepingProgram BY <2>2, <2>4 DEF KeepingProgram
    <3>2. Under({}, t) BY DEF Under
    <3> QED BY <2>2, <2>4, <3>1, <3>2, MadeQualType
  <2> QED BY <1>a, <2>3, <2>4
<1>b. ASSUME NEW op, NEW c \in {"Type", "QualType", "CObj"}, NEW o \in Args(op, c)
      PROVE  obj[o].ty \in CType
      BY ArgFacts DEF HasType
<1>0. "withConst" \notin KeptOps /\ "pointee" \notin KeptOps BY DEF KeptOps
<1>1. ASSUME NEW o \in Args("QualType", "Type"), dffi_const(o) PROVE Kind
      BY <1>1, <1>a, <1>b DEF dffi_const
<1>2. ASSUME NEW o \in Args("withConst", "QualType"), withConst(o) PROVE Kind
      BY <1>0, <1>2, <1>a, <1>b DEF withConst
<1>3. ASSUME NEW c \in {"Type", "CObj"}, NEW o \in Args("pointee", c), pointee(o) PROVE Kind
  <2>1. PICK t \in Pointees(obj[o].ty) : ReturnQualType(t, obj[o].eng, {}) BY <1>3 DEF pointee
  <2>2. t \in CType BY PyAssumption DEF Pointees
  <2> QED BY <1>0, <1>a, <2>1, <2>2
<1>4. ASSUME NEW o \in Args("parts", "Type"), params(o) PROVE Kind
  <2>1. RetTy[obj[o].ty] \in CType BY <1>4, PyAssumption DEF params
  <2> QED BY <1>4, <1>a, <2>1 DEF params
<1>5. ASSUME NEW o \in Args("pointee", "CObj"), arrayobj_elementType(o) PROVE Kind
  <2>1. obj[o].ty \in Composite \cup Array BY <1>5 DEF arrayobj_elementType
  <2>2. PICK t \in FieldTy[obj[o].ty] : ReturnQualType(t, obj[o].eng, {})
        BY <1>5 DEF arrayobj_elementType
  <2>3. t \in CType BY <2>1, PyAssumption
  <2> QED BY <1>0, <1>a, <2>2, <2>3
<1>6. ASSUME NEW o \in Args("typeof", "CObj"), typeof(o) PROVE Kind
      BY <1>6, <1>a, <1>b DEF typeof
<1> QED BY <1>1, <1>2, <1>3, <1>4, <1>5, <1>6

(* C objects with bytes of their own.                                      *)
LEMMA OwnedKind ==
    ASSUME Typed,
           \/ \E o \in Args("funcs", "CUFuncs"), t \in FuncTy : cufuncs_getattr(o, t)
           \/ \E o \in Args("new", "Type") : type_call(o) \/ cobj_new(o)
           \/ \E o \in Args("enum", "Type") : enumtype_get(o)
           \/ \E o \in Args("operator", "CObj") : operator(o)
           \/ \E o \in Args("FFI.Int", "FFI"), t \in Basic : createBasicObj(o, t)
           \/ \E o \in Args("getFunction", "FFI"), t \in Args("getFunction", "Type") :
                 obj[t].ty \in FuncTy /\ dffi_getfunction(o, t)
           \/ \E o \in Args("call", "CObj") : obj[o].ty \in FuncTy /\ call(o)
           \/ \E o \in Args("ptr", "CObj") : ptr(o)
    PROVE  Kind
<1>a. ASSUME NEW op, NEW c \in {"CUFuncs", "Type", "CObj"},
             NEW o \in Args(op, c), NEW t \in CType,
             \/ Create(Owned(t, obj[o].eng, Nobody), {o}) /\ (c = "CUFuncs" \/ obj[o].ty = t)
             \/ /\ obj[o].ty \in DOMAIN PtrTo /\ t = PtrTo[obj[o].ty]
                /\ Create(Owned(t, obj[o].eng, obj[o].src), {o})
             \/ Create(Owned(t, obj[o].eng, Nobody), {}) /\ op \notin KeptOps
      PROVE  Kind
  <2>1. c \in Class \ {"FFI", "memoryview", "bytearray"} BY DEF Class
  <2>2. /\ op \in Ops /\ EngineIn(obj, obj[o].eng)
        /\ {obj[o].eng, obj[o].src} \subseteq Covered({o})
        /\ obj[o].src \in 0..MaxObjs /\ {o} \in SUBSET alive /\ {} \in SUBSET alive
        BY <2>1, ArgEngine
  <2>3. Nobody \in 0..MaxObjs /\ Nobody \in Covered({o}) BY PyAssumption DEF Nobody, Covered
  <2>4. CASE Create(Owned(t, obj[o].eng, Nobody), {o}) /\ (c = "CUFuncs" \/ obj[o].ty = t)
    <3>1. "CUFuncs" \notin HasType BY DEF HasType
    <3>2. Under({o}, t) BY <2>1, <2>4, <3>1, ArgUnder
    <3> QED BY <2>2, <2>3, <2>4, <3>2, MadeOwned
  <2>5. CASE /\ obj[o].ty \in DOMAIN PtrTo /\ t = PtrTo[obj[o].ty]
             /\ Create(Owned(t, obj[o].eng, obj[o].src), {o})
    <3>1. Under({o}, t) BY <2>1, <2>5, ArgUnder
    <3> QED BY <2>2, <2>5, <3>1, MadeOwned
  <2>6. CASE Create(Owned(t, obj[o].eng, Nobody), {}) /\ op \notin KeptOps
    <3>1. ~KeepingProgram BY <2>2, <2>6 DEF KeepingProgram
    <3>2. Under({}, t) BY DEF Under
    <3> QED BY <2>2, <2>3, <2>6, <3>1, <3>2, MadeOwned
  <2> QED BY <1>a, <2>4, <2>5, <2>6
<1>b. ASSUME NEW op, NEW c \in {"Type", "CObj"}, NEW o \in Args(op, c)
      PROVE  obj[o].ty \in CType
      BY ArgFacts DEF HasType
<1>0. "enum" \notin KeptOps /\ "operator" \notin KeptOps /\ "call" \notin KeptOps
      BY DEF KeptOps
<1>1. ASSUME NEW o \in Args("funcs", "CUFuncs"), NEW t \in FuncTy, cufuncs_getattr(o, t)
      PROVE  Kind
      BY <1>1, <1>a, PyAssumption DEF cufuncs_getattr
<1>2. ASSUME NEW o \in Args("new", "Type"), type_call(o) \/ cobj_new(o) PROVE Kind
      BY <1>2, <1>a, <1>b DEF type_call, cobj_new
<1>3. ASSUME NEW o \in Args("enum", "Type"), enumtype_get(o) PROVE Kind
      BY <1>0, <1>3, <1>a, <1>b DEF enumtype_get
<1>4. ASSUME NEW o \in Args("operator", "CObj"), operator(o) PROVE Kind
      BY <1>0, <1>4, <1>a, <1>b DEF operator
<1>5. ASSUME NEW o \in Args("FFI.Int", "FFI"), NEW t \in Basic, createBasicObj(o, t)
      PROVE  Kind
  <2>1. o \in alive /\ EngineIn(obj, o) /\ {o} \in SUBSET alive BY ArgFacts DEF EngineIn, Id
  <2>2. {o, Nobody} \subseteq Covered({o}) /\ Nobody \in 0..MaxObjs
        BY PyAssumption DEF Covered, Nobody
  <2>3. t \in CType BY DEF Basic
  <2>4. Under({o}, t) BY <2>3, ArgUnder DEF HasType, Class
  <2> QED BY <1>5, <2>1, <2>2, <2>3, <2>4, MadeOwned DEF createBasicObj
<1>6. ASSUME NEW o \in Args("getFunction", "FFI"), NEW t \in Args("getFunction", "Type"),
             dffi_getfunction(o, t)
      PROVE  Kind
  <2>1. /\ "getFunction" \in Ops /\ o \in alive /\ EngineIn(obj, o) /\ {o} \in SUBSET alive
        BY ArgFacts DEF EngineIn, Id
  <2>2. EngineIn(obj, obj[t].eng) /\ obj[t].ty \in CType BY ArgFacts DEF HasType
  <2>3. KeepingProgram => obj[t].eng = o BY <2>1, <2>2, OneEngine
  <2>4. {o, Nobody} \subseteq Covered({o}) /\ Nobody \in 0..MaxObjs
        BY PyAssumption DEF Covered, Nobody
  <2>5. KeepingProgram => {obj[t].eng, Nobody} \subseteq Covered({o}) BY <2>3, <2>4
  <2>6. Under({o}, obj[t].ty) BY <2>2, ArgUnder DEF HasType, Class
  <2> QED BY <1>6, <2>1, <2>2, <2>4, <2>5, <2>6, MadeOwned DEF dffi_getfunction
<1>7. ASSUME NEW o \in Args("call", "CObj"), obj[o].ty \in FuncTy, call(o) PROVE Kind
  <2>1. RetTy[obj[o].ty] \in CType BY <1>7, PyAssumption
  <2> QED BY <1>0, <1>7, <1>a, <2>1 DEF call
<1>8. ASSUME NEW o \in Args("ptr", "CObj"), ptr(o) PROVE Kind
  <2>1. PtrTo[obj[o].ty] \in CType BY <1>8, PyAssumption DEF ptr
  <2>2. /\ obj[o].ty \in DOMAIN PtrTo
        /\ Create(Owned(PtrTo[obj[o].ty], obj[o].eng, obj[o].src), {o})
        BY <1>8 DEF ptr
  <2> QED BY <1>a, <2>1, <2>2
<1> QED BY <1>1, <1>2, <1>3, <1>4, <1>5, <1>6, <1>7, <1>8

(* A cast keeps the object, whose engine is that of the type.              *)
LEMMA CastKind ==
    ASSUME Typed, NEW o \in Args("cast", "CObj"), NEW ty \in Args("cast", "Type"), cast(o, ty)
    PROVE  Kind
<1> DEFINE to == obj[ty].ty
           e  == obj[ty].eng
<1>1. /\ "cast" \in Ops /\ EngineIn(obj, obj[o].eng) /\ {o} \in SUBSET alive
      /\ obj[o].src \in 0..MaxObjs /\ obj[o].tgt \in 0..MaxObjs
      /\ {obj[o].eng, obj[o].src, obj[o].tgt} \subseteq Covered({o})
      BY ArgEngine DEF Class
<1>2. to \in CType /\ EngineIn(obj, e) BY ArgFacts DEF HasType
<1>3. KeepingProgram => e = obj[o].eng BY <1>1, <1>2, OneEngine
<1>4. Nobody \in 0..MaxObjs /\ Nobody \in Covered({o}) BY PyAssumption DEF Nobody, Covered
<1>5. \/ /\ obj[o].ty \in Basic \/ IsPointer(obj[o].ty)
         /\ \/ Create(Owned(to, e, Nobody), {o})
            \/ Create(Owned(to, e, obj[o].tgt), {o})
      \/ obj[o].ty \in Composite /\ Create(Owned(to, e, obj[o].src), {o})
      \/ obj[o].ty \in Composite \cup Array /\ Create(View(to, e, obj[o].src), {o})
      BY DEF cast, cast_basic, cast_pointer, cast_array, cast_composite
<1>6. KeepingProgram => {e, Nobody, obj[o].src, obj[o].tgt} \subseteq Covered({o})
      BY <1>1, <1>3, <1>4
<1> HIDE DEF to, e
<1>u. obj[o].ty \in Composite \cup Array \cup Basic => Under({o}, to)
      BY <1>2, ArgUnder DEF Class
<1>p. IsPointer(obj[o].ty) => PointerObjs({o}) BY ArgFacts DEF PointerObjs
<1>7. CASE /\ obj[o].ty \in Basic \/ IsPointer(obj[o].ty)
           /\ Create(Owned(to, e, Nobody), {o})
      BY <1>1, <1>2, <1>4, <1>6, <1>7, <1>u, <1>p, MadeOwned
<1>8. CASE /\ obj[o].ty \in Basic \/ IsPointer(obj[o].ty)
           /\ Create(Owned(to, e, obj[o].tgt), {o})
      BY <1>1, <1>2, <1>6, <1>8, <1>u, <1>p, MadeOwned
<1>9. CASE obj[o].ty \in Composite /\ Create(Owned(to, e, obj[o].src), {o})
      BY <1>1, <1>2, <1>6, <1>9, <1>u, MadeOwned
<1>10. CASE obj[o].ty \in Composite \cup Array /\ Create(View(to, e, obj[o].src), {o})
      BY <1>1, <1>2, <1>6, <1>10, <1>u, MadeView
<1> QED BY <1>5, <1>7, <1>8, <1>9, <1>10

(* Views, iterators and buffers.                                           *)
LEMMA ViewsKind ==
    ASSUME Typed,
           \/ \E o \in Args("iter", "Type") : type_iter(o)
           \/ \E o \in Args("getValue", "CObj") : getValue(o)
           \/ \E o \in Args("obj", "CObj") : getObj(o)
           \/ \E t \in Args("view_as", "Type"), b \in Args("view_as", "bytearray") : view_as(t, b)
           \/ \E o \in Args("memoryview", "CObj") : buffer_protocol(o)
           \/ \E o \in Args("view_as_bytes", "CObj") : view_as_bytes(o)
           \/ \E o \in Args("viewObjects", "CObj") : viewObjects(o)
    PROVE  Kind
<1>a. ASSUME NEW op \in {"iter", "getValue", "obj", "view_as_bytes", "viewObjects"}, op \in Ops
      PROVE  ~KeepingProgram
      BY <1>a DEF KeepingProgram, KeptOps
<1>b. /\ {} \in SUBSET alive /\ Nobody \in 0..MaxObjs
      /\ (\A t : Under({}, t)) /\ (\A r : Descends(r, {}))
      BY PyAssumption DEF Nobody, Under, Descends
<1>1. ASSUME NEW o \in Args("iter", "Type"), type_iter(o) PROVE Kind
  <2>1. "iter" \in Ops /\ obj[o].ty \in CType /\ EngineIn(obj, obj[o].eng)
        BY ArgFacts DEF HasType
  <2>2. ~KeepingProgram BY <1>a, <2>1
  <2> QED BY <1>1, <1>b, <2>1, <2>2, MadeObject DEF type_iter, HasType
<1>2. ASSUME NEW o \in Args("getValue", "CObj"), getValue(o) PROVE Kind
  <2>1. "getValue" \in Ops /\ EngineIn(obj, obj[o].eng) /\ obj[o].src \in 0..MaxObjs
        BY ArgEngine DEF Class
  <2>2. obj[o].ty \in Composite \cup Array BY <1>2 DEF getValue
  <2>3. PICK t \in FieldTy[obj[o].ty] : Create(View(t, obj[o].eng, obj[o].src), {})
        BY <1>2 DEF getValue
  <2>4. t \in CType BY <2>2, PyAssumption
  <2>5. ~KeepingProgram BY <1>a, <2>1
  <2> QED BY <1>b, <2>1, <2>3, <2>4, <2>5, MadeView
<1>3. ASSUME NEW o \in Args("obj", "CObj"), getObj(o) PROVE Kind
  <2>1. "obj" \in Ops /\ EngineIn(obj, obj[o].eng) /\ obj[o].tgt \in 0..MaxObjs
        BY ArgEngine DEF Class
  <2>2. PICK t \in Pointees(obj[o].ty) : Create(View(t, obj[o].eng, obj[o].tgt), {})
        BY <1>3 DEF getObj
  <2>3. t \in CType BY PyAssumption DEF Pointees
  <2>4. ~KeepingProgram BY <1>a, <2>1
  <2> QED BY <1>b, <2>1, <2>2, <2>3, <2>4, MadeView
<1>4. ASSUME NEW t \in Args("view_as", "Type"), NEW b \in Args("view_as", "bytearray"),
             view_as(t, b)
      PROVE  Kind
  <2>1. Create(View(obj[t].ty, obj[t].eng, b), {t, b}) BY <1>4 DEF view_as
  <2>2. t \in alive /\ obj[t].ty \in CType /\ EngineIn(obj, obj[t].eng) /\ b \in alive
        BY ArgFacts DEF HasType
  <2>3. b \in 0..MaxObjs BY <2>1, <2>2, Numbered DEF Create
  <2>4. {t, b} \in SUBSET alive BY <2>2
  <2>5. {obj[t].eng, b} \subseteq Covered({t, b}) BY <2>4, CoveredFields
  <2>6. Under({t}, obj[t].ty) /\ Under({b}, obj[t].ty) BY <2>2, ArgUnder DEF Class, HasType
  <2>7. Under({t, b}, obj[t].ty) BY <2>6 DEF Under
  <2> QED BY <2>1, <2>2, <2>3, <2>4, <2>5, <2>7, MadeView
<1>5. ASSUME NEW o \in Args("memoryview", "CObj"), buffer_protocol(o) PROVE Kind
  <2>1. obj[o].src \in 0..MaxObjs /\ {o} \in SUBSET alive /\ obj[o].src \in Covered({o})
        BY ArgEngine DEF Class
  <2>2. obj[o].class = "CObj" /\ obj[o].ty \in Array BY <1>5, ArgFacts DEF buffer_protocol
  <2> QED BY <1>5, <2>1, <2>2, MadeMemoryview DEF buffer_protocol
<1>6. ASSUME NEW o \in Args("view_as_bytes", "CObj"), view_as_bytes(o) PROVE Kind
  <2>1. "view_as_bytes" \in Ops /\ o \in alive /\ obj[o].class = "CObj" BY ArgFacts
  <2>2. ~KeepingProgram BY <1>a, <2>1
  <2> QED BY <1>6, <2>1, <2>2 DEF Kind
<1>7. ASSUME NEW o \in Args("viewObjects", "CObj"), viewObjects(o) PROVE Kind
  <2>1. "viewObjects" \in Ops /\ obj[o].tgt \in 0..MaxObjs BY ArgEngine DEF Class
  <2>2. ~KeepingProgram BY <1>a, <2>1
  <2> QED BY <1>7, <1>b, <2>1, <2>2, MadeMemoryview DEF viewObjects
<1> QED BY <1>1, <1>2, <1>3, <1>4, <1>5, <1>6, <1>7

(* Every step of the program is of one of the four kinds.                  *)
LEMMA StepKind ==
    ASSUME Typed, Next
    PROVE  Kind
<1>1. (\E o \in held : drop(o)) => Kind BY DEF Kind
<1> QED BY <1>1, newFFIKind, newBufferKind, UnitsKind, TypesKind, QualTypesKind, OwnedKind,
           CastKind, ViewsKind DEF Next

-----------------------------------------------------------------------------
LEMMA TypedInit == Init => Typed /\ \A C : UsesKept(C)
<1> SUFFICES ASSUME Init PROVE Typed /\ \A C : UsesKept(C)
    OBVIOUS
<1>1. Id = {} /\ alive = {} BY DEF Init, Id
<1>2. TypeOK
  <2>1. obj \in Seq(Record) BY DEF Init
  <2> QED BY <1>1, <2>1 DEF Init, TypeOK, Record
<1>3. keeps \in Seq(SUBSET Id) BY DEF Init
<1> QED BY <1>1, <1>2, <1>3 DEF Typed, UsesKept

LEMMA TypedStutter ==
    ASSUME Typed, UNCHANGED vars
    PROVE  Typed'
BY DEF Typed, TypeOK, vars, Id

LEMMA UsesStutter ==
    ASSUME NEW C, UsesKept(C), UNCHANGED vars
    PROVE  UsesKept(C)'
BY DEF UsesKept, vars, Needs

LEMMA TypedAlways == Spec => []Typed
<1>1. ASSUME Typed, [Next]_vars PROVE Typed'
      BY <1>1, StepKind, TypedStep, TypedStutter
<1> QED BY <1>1, TypedInit, PTL DEF Spec

(* Only live objects keep others, and they keep live ones: reference       *)
(* counting never destroys an object that a live one keeps (pydffi.cpp's   *)
(* keep_alive and reference_internal policies).                            *)
THEOREM TypeCorrect == Spec => []TypeOK
<1>1. Typed => TypeOK BY DEF Typed
<1> QED BY <1>1, TypedAlways, PTL

(* Whatever operations the program uses, and in whatever order it drops    *)
(* its references, a compilation unit and its types and funcs stay usable: *)
(* compile, cdef, types and funcs keep the unit, and it the engine.        *)
THEOREM UnitsStayUsable == Spec => []UnitsUsable
<1>1. ASSUME Typed, UsesKept(Units), [Next]_vars PROVE UsesKept(Units)'
      BY <1>1, StepKind, UsesStep, UsesStutter
<1>2. Typed /\ UsesKept(Units) => UnitsUsable
      BY LedUsable DEF Typed, TypeOK, UnitsUsable, Units
<1>3. Init => UsesKept(Units) BY TypedInit
<1> QED BY <1>1, <1>2, <1>3, TypedAlways, PTL DEF Spec

(* The program is the same all along.                                      *)
LEMMA SameProgram ==
    ASSUME Typed, [Next]_vars
    PROVE  Ops' = Ops
<1>1. Kind => Ops' = Ops BY DEF Kind, Creates, Create, Returns, view_as_bytes, drop
<1> QED BY <1>1, StepKind DEF vars

(* "This object should still be usable!": a program that uses only the     *)
(* operations whose policies keep enough, and one engine if it casts or    *)
(* gets functions by address, never holds an object that refers to a       *)
(* destroyed one.                                                          *)
THEOREM ObjectsStayUsable == Spec => []StillUsable
<1> DEFINE K == KeepingProgram => UsesKept(Class)
<1>1. ASSUME Typed, K, [Next]_vars PROVE K'
  <2> SUFFICES ASSUME KeepingProgram' PROVE UsesKept(Class)' OBVIOUS
  <2>1. KeepingProgram BY <1>1, SameProgram DEF KeepingProgram
  <2> QED BY <1>1, <2>1, StepKind, UsesStep, UsesStutter
<1>2. Typed /\ K => StillUsable
  <2> SUFFICES ASSUME Typed, KeepingProgram, UsesKept(Class), NEW o \in held PROVE Usable(o)
      BY DEF StillUsable
  <2>1. o \in alive /\ o \in Id BY DEF Typed, TypeOK
  <2> QED BY <2>1, ObjectTyped, LedUsable DEF Typed
<1>3. Init => K BY TypedInit
<1> HIDE DEF K
<1> QED BY <1>1, <1>2, <1>3, TypedAlways, PTL DEF Spec

-----------------------------------------------------------------------------
(* A set of numbers up to N has a greatest one.                            *)
LEMMA Greatest ==
    ASSUME NEW N \in Nat, NEW S \in SUBSET (0..N), S # {}
    PROVE  \E m \in S : \A x \in S : x <= m
<1> DEFINE T == {n \in Nat : \A x \in S : x <= n}
           R == OpToRel(<, Nat)
<1>1. T \subseteq Nat /\ N \in T OBVIOUS
<1>2. IsWellFoundedOn(R, Nat) BY NatLessThanWellFounded
<1>3. PICK n \in T : \A k \in T : ~(<<k, n>> \in R)
  <2> HIDE DEF T, R
  <2> QED BY <1>1, <1>2, WFMin
<1>4. \A k \in T : ~(k < n) BY <1>1, <1>3 DEF OpToRel
<1>5. n \in S
  <2> SUFFICES ASSUME n \notin S PROVE FALSE OBVIOUS
  <2>1. \A x \in S : x \in Nat /\ x < n OBVIOUS
  <2>2. PICK x \in S : TRUE OBVIOUS
  <2>3. n - 1 \in Nat BY <2>1, <2>2
  <2>4. n - 1 \in T BY <2>1, <2>3
  <2> QED BY <1>4, <2>4
<1> QED BY <1>5

(* The order objects keep each other in: by the stars of their types, then *)
(* by age.  A memoryview that keeps nothing is below everything.           *)
Rank(L, os, kp, o) ==
    IF os[o].class = "memoryview" /\ kp[o] = {} THEN 0 ELSE 1 + LevelOf(L, os[o])

Above(L, os, kp, p, q) ==
    \/ Rank(L, os, kp, q) < Rank(L, os, kp, p)
    \/ Rank(L, os, kp, q) = Rank(L, os, kp, p) /\ q < p

Ordered(L, os, kp, al) ==
    \A p \in al : \A q \in kp[p] : CastEdge(os[p], os[q]) \/ Above(L, os, kp, p, q)

(* Every live object is held or kept.                                      *)
Fed(al, kp, h) == \A o \in al : o \in h \/ \E p \in al : o \in kp[p]

LEMMA FedStep ==
    ASSUME Typed, Kind, Fed(alive, keeps, held)
    PROVE  Fed(alive', keeps', held')
<1>0. /\ alive \subseteq Id /\ keeps \in Seq(SUBSET Id) /\ Len(keeps) = Len(obj)
      /\ keeps \in [Id -> SUBSET Id] /\ TypeOK
  <2>1. keeps \in Seq(SUBSET Id) /\ DOMAIN keeps = Id /\ Len(obj) \in Nat BY DEF Typed, TypeOK
  <2>2. Len(keeps) = Len(obj) BY <2>1 DEF Id
  <2> QED BY <2>1, <2>2 DEF Typed, TypeOK, Id
<1>1. ASSUME NEW r \in Record, NEW P \in SUBSET alive, Creates(r, P)
      PROVE  Fed(alive', keeps', held')
  <2>1. /\ New <= MaxObjs /\ obj' = Append(obj, r) /\ keeps' = Append(keeps, P)
        /\ alive' = alive \cup {New} /\ held' = held \cup {New}
        BY <1>1 DEF Creates, Create
  <2>2. keeps \in Seq(SUBSET (Id \cup {New})) BY <1>0
  <2>3. \A p \in Id : keeps'[p] = keeps[p] BY <1>0, <2>1, <2>2, CreateFacts
  <2> QED BY <1>0, <2>1, <2>3 DEF Fed
<1>2. ASSUME NEW w \in alive, NEW A \in SUBSET alive, Returns(w, A)
      PROVE  Fed(alive', keeps', held')
  <2>1. /\ keeps' = [keeps EXCEPT ![w] = @ \cup A] /\ alive' = alive
        /\ held' = held \cup {w}
        BY <1>2 DEF Returns
  <2>2. \A p \in Id : keeps[p] \subseteq keeps'[p] BY <1>0, <2>1
  <2> QED BY <1>0, <2>1, <2>2 DEF Fed
<1>3. ASSUME NEW v \in alive, view_as_bytes(v) PROVE Fed(alive', keeps', held')
  <2> DEFINE kp == [keeps EXCEPT ![v] = @ \cup {New}]
  <2>1. /\ New <= MaxObjs /\ obj' = Append(obj, Memoryview(obj[v].src))
        /\ keeps' = Append(kp, {})
        /\ alive' = alive \cup {New} /\ held' = held \cup {New}
        BY <1>3 DEF view_as_bytes
  <2>2. kp \in Seq(SUBSET (Id \cup {New})) /\ Len(kp) = Len(obj) BY <1>0 DEF Id
  <2>3. \A p \in Id : keeps[p] \subseteq kp[p] BY <1>0
  <2> HIDE DEF kp
  <2>4. \A p \in Id : keeps'[p] = kp[p] BY <2>1, <2>2, CreateFacts
  <2> QED BY <1>0, <2>1, <2>3, <2>4 DEF Fed
<1>4. ASSUME NEW d \in held, drop(d) PROVE Fed(alive', keeps', held')
  <2> DEFINE h == held \ {d}
             L == Survivors(h)
  <2>1. /\ alive' = L /\ held' = h
        /\ keeps' = [p \in DOMAIN keeps |-> IF p \in L THEN keeps[p] ELSE {}]
        BY <1>4 DEF drop
  <2>2. L \subseteq alive BY SurvivorsClosed DEF Typed, TypeOK
  <2>3. ASSUME NEW o \in L, o \notin h PROVE \E p \in L : o \in keeps[p]
    <3>1. PICK S \in SUBSET alive :
               /\ o \in S /\ h \subseteq S
               /\ \A x \in S \ h : \E p \in S : x \in keeps[p]
          BY DEF Survivors
    <3>2. S \subseteq L BY <3>1 DEF Survivors
    <3> QED BY <2>3, <3>1, <3>2
  <2> HIDE DEF L, h
  <2>4. \A p \in L : keeps'[p] = keeps[p] BY <1>0, <2>1, <2>2
  <2> QED BY <2>1, <2>3, <2>4 DEF Fed
<1> QED BY <1>1, <1>2, <1>3, <1>4 DEF Kind

(* Objects that are not touched keep their order.                          *)
LEMMA OrderedOld ==
    ASSUME NEW L, NEW os, NEW kp, NEW os2, NEW kp2, NEW p, NEW q,
           \A o \in {p, q} : os2[o] = os[o] /\ (os[o].class = "memoryview" => kp2[o] = kp[o]),
           CastEdge(os[p], os[q]) \/ Above(L, os, kp, p, q)
    PROVE  CastEdge(os2[p], os2[q]) \/ Above(L, os2, kp2, p, q)
<1>1. \A o \in {p, q} : Rank(L, os2, kp2, o) = Rank(L, os, kp, o) BY DEF Rank
<1> QED BY <1>1 DEF Above

LEMMA OrderedStep ==
    ASSUME Typed, Kind, NEW L \in [CType -> Nat], Leveled(L), Ordered(L, obj, keeps, alive)
    PROVE  Ordered(L, obj', keeps', alive')
<1>0. /\ alive \subseteq Id /\ keeps \in Seq(SUBSET Id) /\ Len(keeps) = Len(obj)
      /\ keeps \in [Id -> SUBSET Id] /\ TypeOK /\ Id \subseteq Nat
      /\ \A p \in Id : keeps[p] \subseteq alive
  <2>1. keeps \in Seq(SUBSET Id) /\ DOMAIN keeps = Id /\ Len(obj) \in Nat BY DEF Typed, TypeOK
  <2>2. Len(keeps) = Len(obj) BY <2>1 DEF Id
  <2> QED BY <2>1, <2>2, SMTT(30) DEF Typed, TypeOK, Id
<1>L. \A r : LevelOf(L, r) \in Nat BY DEF LevelOf
<1>1. ASSUME NEW r \in Record, NEW P \in SUBSET alive, Creates(r, P)
      PROVE  Ordered(L, obj', keeps', alive')
  <2>1. /\ New <= MaxObjs /\ obj' = Append(obj, r) /\ keeps' = Append(keeps, P)
        /\ alive' = alive \cup {New} /\ Descends(r, P)
        BY <1>1 DEF Creates, Create
  <2>2. keeps \in Seq(SUBSET (Id \cup {New})) BY <1>0
  <2>3. /\ New \notin Id
        /\ \A p \in Id : obj'[p] = obj[p] /\ keeps'[p] = keeps[p]
        /\ obj'[New] = r /\ keeps'[New] = P
        BY <1>0, <2>1, <2>2, CreateFacts
  <2>4. ASSUME NEW p \in alive, NEW q \in keeps'[p]
        PROVE  CastEdge(obj'[p], obj'[q]) \/ Above(L, obj', keeps', p, q)
    <3>1. p \in Id /\ q \in keeps[p] /\ q \in Id BY <1>0, <2>3, <2>4
    <3>2. CastEdge(obj[p], obj[q]) \/ Above(L, obj, keeps, p, q) BY <3>1 DEF Ordered
    <3> QED BY <2>3, <3>1, <3>2, OrderedOld
  <2>5. ASSUME NEW q \in P
        PROVE  CastEdge(obj'[New], obj'[q]) \/ Above(L, obj', keeps', New, q)
    <3>1. q \in Id /\ obj'[q] = obj[q] BY <1>0, <2>3
    <3>2. obj[q].class # "memoryview" /\ (CastEdge(r, obj[q]) \/ Lower(obj[q], r, 0))
          BY <2>1 DEF Descends
    <3>3. CASE CastEdge(r, obj[q]) BY <2>3, <3>1, <3>3
    <3>4. CASE Lower(obj[q], r, 0)
      <4>1. LevelOf(L, obj[q]) + 0 <= LevelOf(L, r) BY <3>4 DEF Lower
      <4>2. Rank(L, obj', keeps', q) = 1 + LevelOf(L, obj[q]) BY <3>1, <3>2 DEF Rank
      <4>3. Rank(L, obj', keeps', New) = 1 + LevelOf(L, r) BY <2>3 DEF Rank
      <4>4. q < New BY <3>1 DEF Id, New, Typed, TypeOK
      <4> QED BY <1>L, <4>1, <4>2, <4>3, <4>4 DEF Above
    <3> QED BY <3>2, <3>3, <3>4
  <2> QED BY <2>1, <2>3, <2>4, <2>5 DEF Ordered
<1>2. ASSUME NEW w \in alive, NEW A \in SUBSET alive, Returns(w, A)
      PROVE  Ordered(L, obj', keeps', alive')
  <2>1. /\ keeps' = [keeps EXCEPT ![w] = @ \cup A] /\ alive' = alive /\ obj' = obj
        /\ obj[w].class # "memoryview"
        /\ \A a \in A : obj[a].class # "memoryview" /\ Lower(obj[a], obj[w], 1)
        BY <1>2 DEF Returns
  <2>2. \A p \in Id : p # w => keeps'[p] = keeps[p] BY <1>0, <2>1
  <2>3. keeps'[w] = keeps[w] \cup A BY <1>0, <2>1
  <2>4. ASSUME NEW p \in alive, NEW q \in keeps[p]
        PROVE  CastEdge(obj'[p], obj'[q]) \/ Above(L, obj', keeps', p, q)
    <3>1. p \in Id /\ q \in Id BY <1>0
    <3>2. CastEdge(obj[p], obj[q]) \/ Above(L, obj, keeps, p, q) BY DEF Ordered
    <3>3. \A o \in {p, q} : /\ obj'[o] = obj[o]
                            /\ obj[o].class = "memoryview" => keeps'[o] = keeps[o]
          BY <2>1, <2>2, <3>1
    <3> QED BY <3>2, <3>3, OrderedOld
  <2>5. ASSUME NEW a \in A PROVE Above(L, obj', keeps', w, a)
    <3>1. LevelOf(L, obj[a]) + 1 <= LevelOf(L, obj[w]) BY <2>1 DEF Lower
    <3>2. /\ Rank(L, obj', keeps', a) = 1 + LevelOf(L, obj[a])
          /\ Rank(L, obj', keeps', w) = 1 + LevelOf(L, obj[w])
          BY <2>1 DEF Rank
    <3> QED BY <1>L, <3>1, <3>2 DEF Above
  <2>6. \A p \in alive : \A q \in keeps'[p] : q \in keeps[p] \/ (p = w /\ q \in A)
        BY <1>0, <2>2, <2>3
  <2>7. alive' = alive BY <2>1
  <2> QED BY <2>4, <2>5, <2>6, <2>7 DEF Ordered
<1>3. ASSUME NEW v \in alive, view_as_bytes(v), obj[v].class = "CObj"
      PROVE  Ordered(L, obj', keeps', alive')
  <2> DEFINE kp == [keeps EXCEPT ![v] = @ \cup {New}]
             r  == Memoryview(obj[v].src)
  <2>1. /\ New <= MaxObjs /\ obj' = Append(obj, r) /\ keeps' = Append(kp, {})
        /\ alive' = alive \cup {New}
        BY <1>3 DEF view_as_bytes
  <2>2. kp \in Seq(SUBSET (Id \cup {New})) /\ Len(kp) = Len(obj) BY <1>0 DEF Id
  <2>3. kp[v] = keeps[v] \cup {New} /\ \A p \in Id : p # v => kp[p] = keeps[p] BY <1>0
  <2>4. r.class = "memoryview" BY DEF Memoryview, Object
  <2> HIDE DEF kp, r
  <2>5. /\ \A p \in Id : obj'[p] = obj[p] /\ keeps'[p] = kp[p]
        /\ obj'[New] = r /\ keeps'[New] = {}
        BY <2>1, <2>2, CreateFacts
  <2>6. ASSUME NEW p \in alive, NEW q \in keeps[p]
        PROVE  CastEdge(obj'[p], obj'[q]) \/ Above(L, obj', keeps', p, q)
    <3>1. p \in Id /\ q \in Id BY <1>0
    <3>2. CastEdge(obj[p], obj[q]) \/ Above(L, obj, keeps, p, q) BY DEF Ordered
    <3>3. \A o \in {p, q} : /\ obj'[o] = obj[o]
                            /\ obj[o].class = "memoryview" => keeps'[o] = keeps[o]
          BY <1>3, <2>3, <2>5, <3>1
    <3> QED BY <3>2, <3>3, OrderedOld
  <2>7. Above(L, obj', keeps', v, New)
    <3>1. Rank(L, obj', keeps', New) = 0 BY <2>4, <2>5 DEF Rank
    <3>2. obj'[v] = obj[v] BY <1>0, <2>5
    <3>3. Rank(L, obj', keeps', v) = 1 + LevelOf(L, obj[v]) BY <1>3, <3>2 DEF Rank
    <3> QED BY <1>L, <3>1, <3>3 DEF Above
  <2>8. \A p \in alive : \A q \in keeps'[p] : q \in keeps[p] \/ (p = v /\ q = New)
        BY <1>0, <2>3, <2>5
  <2> QED BY <2>1, <2>5, <2>6, <2>7, <2>8 DEF Ordered
<1>4. ASSUME NEW d \in held, drop(d) PROVE Ordered(L, obj', keeps', alive')
  <2> DEFINE V == Survivors(held \ {d})
  <2>1. /\ alive' = V /\ obj' = obj
        /\ keeps' = [p \in DOMAIN keeps |-> IF p \in V THEN keeps[p] ELSE {}]
        BY <1>4 DEF drop
  <2>2. V \subseteq alive /\ \A p \in V : keeps[p] \subseteq V
        BY SurvivorsClosed DEF Typed, TypeOK
  <2> HIDE DEF V
  <2>3. \A p \in V : keeps'[p] = keeps[p] BY <1>0, <2>1, <2>2
  <2>4. ASSUME NEW p \in V, NEW q \in keeps[p]
        PROVE  CastEdge(obj'[p], obj'[q]) \/ Above(L, obj', keeps', p, q)
    <3>1. CastEdge(obj[p], obj[q]) \/ Above(L, obj, keeps, p, q) BY <2>2 DEF Ordered
    <3>2. \A o \in {p, q} : obj'[o] = obj[o] /\ keeps'[o] = keeps[o] BY <2>1, <2>2, <2>3
    <3> QED BY <3>1, <3>2, OrderedOld
  <2> QED BY <2>1, <2>3, <2>4 DEF Ordered
<1> QED BY <1>1, <1>2, <1>3, <1>4 DEF Kind

(* Of the objects nobody leads to, the one highest in the order would have *)
(* to be kept by one higher still.                                         *)
LEMMA OrderedNothingLeaks ==
    ASSUME Typed, NEW MaxLevel \in Nat, NEW L \in [CType -> 0..MaxLevel],
           Ordered(L, obj, keeps, alive), Fed(alive, keeps, held)
    PROVE  NothingLeaks
<1> SUFFICES ASSUME \A o \in alive : ~FromPointerCast(o),
                    NEW S \in SUBSET alive, held \subseteq S,
                    \A o \in S : keeps[o] \subseteq S, S # alive
             PROVE  FALSE
    BY DEF NothingLeaks
<1> DEFINE U == alive \ S
           K(o) == Rank(L, obj, keeps, o)
           R == {K(o) : o \in U}
<1>1. U # {} /\ U \subseteq Id BY DEF Typed, TypeOK
<1>2. \A o : K(o) \in 0..(MaxLevel + 1)
  <2>1. \A r : LevelOf(L, r) \in 0..MaxLevel BY DEF LevelOf
  <2> QED BY <2>1 DEF Rank
<1>3. R \in SUBSET (0..(MaxLevel + 1)) /\ R # {} BY <1>1, <1>2
<1>4. PICK m \in R : \A x \in R : x <= m
  <2>1. MaxLevel + 1 \in Nat OBVIOUS
  <2> HIDE DEF R
  <2> QED BY <1>3, <2>1, Greatest
<1> DEFINE T == {o \in U : K(o) = m}
<1>5. T # {} BY <1>4
<1>6. T \in SUBSET (0..Len(obj)) /\ Len(obj) \in Nat
  <2>1. Len(obj) \in Nat BY DEF Typed, TypeOK
  <2>2. T \subseteq Id BY <1>1
  <2> HIDE DEF T
  <2> QED BY <2>1, <2>2 DEF Id
<1>7. PICK o \in T : \A x \in T : x <= o
  <2> HIDE DEF T
  <2> QED BY <1>5, <1>6, Greatest
<1>8. PICK p \in alive : o \in keeps[p] BY <1>7 DEF Fed
<1>9. p \in U BY <1>8
<1>10. Above(L, obj, keeps, p, o)
  <2>1. ~CastEdge(obj[p], obj[o]) BY <1>8 DEF FromPointerCast, CastEdge
  <2> QED BY <1>8, <2>1 DEF Ordered
<1>11. K(p) \in R /\ K(p) <= m /\ K(o) = m BY <1>4, <1>7, <1>9
<1>12. K(p) \in Nat /\ m \in Nat BY <1>2, <1>3, <1>4
<1>13. K(p) = m /\ o < p
  <2> HIDE DEF R, T
  <2>1. K(o) < K(p) \/ (K(o) = K(p) /\ o < p) BY <1>10 DEF Above
  <2> QED BY <1>11, <1>12, <2>1
<1>14. p \in T BY <1>9, <1>13
<1>15. p \in Nat /\ o \in Nat BY <1>6, <1>7, <1>14
<1> HIDE DEF T
<1> QED BY <1>7, <1>13, <1>14, <1>15

(* Without casts from pointers in between, what the program does not lead  *)
(* to any more is destroyed, whatever operations it uses: the policies of  *)
(* pydffi.cpp close no cycle, if the types can be numbered by their stars. *)
THEOREM NoLeak ==
    ASSUME NEW MaxLevel \in Nat, NEW L \in [CType -> 0..MaxLevel], Leveled(L)
    PROVE  Spec => []NothingLeaks
<1> DEFINE O == Ordered(L, obj, keeps, alive)
           F == Fed(alive, keeps, held)
<1>1. Init => O /\ F BY DEF Init, Ordered, Fed
<1>2. ASSUME Typed, O, F, [Next]_vars PROVE O' /\ F'
  <2>1. L \in [CType -> Nat] OBVIOUS
  <2>2. CASE Next BY <1>2, <2>1, <2>2, StepKind, OrderedStep, FedStep
  <2>3. CASE UNCHANGED vars BY <1>2, <2>3 DEF vars
  <2> QED BY <1>2, <2>2, <2>3
<1>3. Typed /\ O /\ F => NothingLeaks BY OrderedNothingLeaks
<1> HIDE DEF O, F
<1> QED BY <1>1, <1>2, <1>3, TypedAlways, PTL DEF Spec
=============================================================================
