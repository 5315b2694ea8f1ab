------------------------- MODULE TypePrinter_proofs --------------------------
(***************************************************************************)
(* The printer defines a type once and declares every type it names, for   *)
(* any types and any order of the wrappers; and the text compiles if the   *)
(* types can be ordered the way the printer needs.                         *)
(***************************************************************************)
EXTENDS TypePrinter, FiniteSetTheorems, WellFoundedInduction, TLAPS

Items  == [ty : Type \cup {NoType}, mode : {"Full", "Forward"}]
Frames == [decl : Type \cup {NoType}, todo : Seq(Items)]

-----------------------------------------------------------------------------
(* Sequences: the innermost text changes, starts or ends.                  *)
LEMMA Changed ==
    ASSUME NEW s \in Seq(Frames), s # <<>>, NEW todo \in Seq(Items)
    PROVE  LET s2 == [s EXCEPT ![1].todo = todo]
           IN  /\ s2 \in Seq(Frames) /\ Len(s2) = Len(s) /\ s2 # <<>>
               /\ s2[1].decl = s[1].decl /\ s2[1].todo = todo
               /\ \A i \in 2..Len(s) : s2[i] = s[i]
<1> DEFINE s2 == [s EXCEPT ![1].todo = todo]
<1>1. Len(s) \in Nat /\ DOMAIN s = 1..Len(s) /\ 1 \in DOMAIN s /\ s[1] \in Frames
  <2> HIDE DEF Frames
  <2> QED OBVIOUS
<1>2. [s[1] EXCEPT !.todo = todo] \in Frames /\ [s[1] EXCEPT !.todo = todo].decl = s[1].decl
      /\ [s[1] EXCEPT !.todo = todo].todo = todo
      BY <1>1 DEF Frames
<1>3. s2 = [s EXCEPT ![1] = [s[1] EXCEPT !.todo = todo]] BY <1>1
<1> DEFINE x == [s[1] EXCEPT !.todo = todo]
<1> HIDE DEF Frames, x
<1>4. [s EXCEPT ![1] = x] \in Seq(Frames) /\ Len([s EXCEPT ![1] = x]) = Len(s)
      /\ [s EXCEPT ![1] = x][1] = x /\ \A i \in 2..Len(s) : [s EXCEPT ![1] = x][i] = s[i]
      BY <1>1, <1>2 DEF x
<1>5. [s EXCEPT ![1] = x] # <<>> BY <1>1, <1>4
<1> QED BY <1>2, <1>3, <1>4, <1>5 DEF x

LEMMA Pushed ==
    ASSUME NEW S, NEW s \in Seq(S), NEW x \in S
    PROVE  /\ <<x>> \o s \in Seq(S) /\ Len(<<x>> \o s) = Len(s) + 1
           /\ (<<x>> \o s)[1] = x
           /\ \A i \in 1..Len(s) : (<<x>> \o s)[i + 1] = s[i]
OBVIOUS

LEMMA Popped ==
    ASSUME NEW S, NEW s \in Seq(S), s # <<>>
    PROVE  /\ Tail(s) \in Seq(S) /\ Len(Tail(s)) = Len(s) - 1 /\ Len(s) \in Nat \ {0}
           /\ s[1] \in S
           /\ \A i \in 1..(Len(s) - 1) : Tail(s)[i] = s[i + 1]
OBVIOUS

LEMMA Added ==
    ASSUME NEW S, NEW s \in Seq(S), NEW x \in S
    PROVE  /\ Append(s, x) \in Seq(S) /\ DOMAIN Append(s, x) = 1..(Len(s) + 1)
           /\ DOMAIN s = 1..Len(s) /\ Len(s) \in Nat /\ Len(Append(s, x)) = Len(s) + 1
           /\ Append(s, x)[Len(s) + 1] = x
           /\ \A i \in 1..Len(s) : Append(s, x)[i] = s[i]
OBVIOUS

(* What is in a list.                                                      *)
LEMMA RangeTail ==
    ASSUME NEW S, NEW s \in Seq(S), s # <<>>
    PROVE  /\ Range(s) = {s[1]} \cup Range(Tail(s)) /\ s[1] \in S
           /\ Range(s) \subseteq S
<1>1. \A i \in 1..Len(s) : i # 1 => (i - 1) \in 1..Len(Tail(s)) /\ Tail(s)[i - 1] = s[i]
  <2> SUFFICES ASSUME NEW i \in 1..Len(s), i # 1
               PROVE  (i - 1) \in 1..Len(Tail(s)) /\ Tail(s)[i - 1] = s[i]
      OBVIOUS
  <2>1. Len(s) \in Nat /\ Len(Tail(s)) = Len(s) - 1
        /\ \A k \in 1..(Len(s) - 1) : Tail(s)[k] = s[k + 1]
        BY Popped
  <2>2. i - 1 \in 1..(Len(s) - 1) /\ (i - 1) + 1 = i BY <2>1
  <2> QED BY <2>1, <2>2
<1>2. \A i \in 1..Len(Tail(s)) : i + 1 \in 1..Len(s) /\ Tail(s)[i] = s[i + 1]
      BY Popped
<1>3. DOMAIN s = 1..Len(s) /\ DOMAIN Tail(s) = 1..Len(Tail(s)) /\ 1 \in 1..Len(s)
      BY Popped
<1>4. Range(s) \subseteq {s[1]} \cup Range(Tail(s))
  <2> SUFFICES ASSUME NEW i \in 1..Len(s) PROVE s[i] \in {s[1]} \cup Range(Tail(s))
      BY <1>3 DEF Range
  <2>1. CASE i = 1 BY <2>1
  <2>2. CASE i # 1 BY <1>1, <1>3, <2>2 DEF Range
  <2> QED BY <2>1, <2>2
<1>5. {s[1]} \cup Range(Tail(s)) \subseteq Range(s) BY <1>2, <1>3 DEF Range
<1>6. Range(s) \subseteq S BY <1>3 DEF Range
<1> QED BY <1>3, <1>4, <1>5, <1>6

LEMMA RangeConcat ==
    ASSUME NEW S, NEW s \in Seq(S), NEW t \in Seq(S)
    PROVE  s \o t \in Seq(S) /\ Range(s \o t) = Range(s) \cup Range(t)
<1>1. /\ s \o t \in Seq(S) /\ Len(s \o t) = Len(s) + Len(t)
      /\ Len(s) \in Nat /\ Len(t) \in Nat
      /\ \A i \in 1..(Len(s) + Len(t)) :
            (s \o t)[i] = IF i <= Len(s) THEN s[i] ELSE t[i - Len(s)]
      OBVIOUS
<1>2. DOMAIN s = 1..Len(s) /\ DOMAIN t = 1..Len(t) /\ DOMAIN (s \o t) = 1..(Len(s) + Len(t))
      BY <1>1
<1>3. \A i \in 1..Len(s) : i \in 1..(Len(s) + Len(t)) /\ (s \o t)[i] = s[i] BY <1>1
<1>4. \A i \in 1..Len(t) : i + Len(s) \in 1..(Len(s) + Len(t)) /\ (s \o t)[i + Len(s)] = t[i]
      BY <1>1
<1>5. \A i \in 1..(Len(s) + Len(t)) :
         \/ i \in 1..Len(s) /\ (s \o t)[i] = s[i]
         \/ i - Len(s) \in 1..Len(t) /\ (s \o t)[i] = t[i - Len(s)]
      BY <1>1
<1>6. Range(s) \cup Range(t) \subseteq Range(s \o t) BY <1>2, <1>3, <1>4 DEF Range
<1>7. Range(s \o t) \subseteq Range(s) \cup Range(t) BY <1>2, <1>5 DEF Range
<1> QED BY <1>1, <1>6, <1>7
-----------------------------------------------------------------------------
(***************************************************************************)
(* Types.                                                                  *)
(***************************************************************************)
Declarations == [def : BOOLEAN, ty : Type]

(* A call has wrappers to make while it lasts, and one at hand while texts *)
(* are being printed.                                                      *)
CallTyped ==
    /\ wrapped \subseteq Wrapper /\ batch \subseteq Wrapper \ wrapped
    /\ Wrappers \subseteq batch /\ cur \subseteq batch \ Wrappers
    /\ busy \in BOOLEAN
    /\ frames # <<>> => busy /\ cur # {}
    /\ frames = <<>> => cur = {}
    /\ ~busy => batch = {} /\ Wrappers = {}
    /\ status \in {"running", "unable to compile wrappers!"}

FramesTyped ==
    /\ frames \in Seq(Frames)
    /\ \A i \in 1..Len(frames) :
         /\ frames[i].decl = NoType <=> i = Len(frames)
         /\ frames[i].decl # NoType => frames[i].decl \in Declared_

NamesTyped ==
    /\ IsFiniteSet(DOMAIN NamedTys_) /\ DOMAIN NamedTys_ \subseteq Type
    /\ \A t \in DOMAIN NamedTys_ : IsComposite(t) /\ NamedTys_[t] \in Nat
    /\ Declared_ \cup ForwardDeclared_ = DOMAIN NamedTys_

DeclsTyped ==
    /\ Decls_ \in Seq(Declarations)
    /\ \A i \in 1..Len(Decls_) : Decls_[i].ty \in DOMAIN NamedTys_

Typed == CallTyped /\ FramesTyped /\ NamesTyped /\ DeclsTyped

LEMMA TypedOK == ASSUME Typed PROVE TypeOK
<1> USE DEF Typed
<1>1. DOMAIN frames = 1..Len(frames) /\ DOMAIN Decls_ = 1..Len(Decls_)
      BY DEF FramesTyped, DeclsTyped
<1>2. \A i \in 1..Len(frames) : Range(frames[i].todo) \subseteq Items
  <2> SUFFICES ASSUME NEW i \in 1..Len(frames) PROVE Range(frames[i].todo) \subseteq Items
      OBVIOUS
  <2>1. frames[i] \in Frames
    <3> HIDE DEF Frames
    <3> QED BY DEF FramesTyped
  <2>2. frames[i].todo \in Seq(Items) BY <2>1 DEF Frames
  <2> HIDE DEF Items
  <2> QED BY <2>2 DEF Range
<1>3. \A i \in 1..Len(Decls_) : Decls_[i].def \in BOOLEAN
  <2> SUFFICES ASSUME NEW i \in 1..Len(Decls_) PROVE Decls_[i].def \in BOOLEAN
      OBVIOUS
  <2>1. Decls_[i] \in Declarations
    <3> HIDE DEF Declarations
    <3> QED BY DEF DeclsTyped
  <2> QED BY <2>1 DEF Declarations
<1>4. wrapped \subseteq Wrapper /\ batch \subseteq Wrapper \ wrapped
      /\ Wrappers \subseteq batch /\ cur \subseteq batch \ Wrappers
      /\ busy \in BOOLEAN /\ (frames # <<>> => busy /\ cur # {})
      /\ status \in {"running", "unable to compile wrappers!"}
      BY DEF CallTyped
<1>5. \A i \in DOMAIN frames :
         /\ (frames[i].decl = NoType) = (i = Len(frames))
         /\ frames[i].decl # NoType => frames[i].decl \in Declared_
      BY <1>1 DEF FramesTyped
<1>6. (\A t \in DOMAIN NamedTys_ : IsComposite(t) /\ NamedTys_[t] \in Nat)
      /\ Declared_ \cup ForwardDeclared_ = DOMAIN NamedTys_
      BY DEF NamesTyped
<1>7. \A i \in DOMAIN Decls_ : Decls_[i].def \in BOOLEAN /\ Decls_[i].ty \in DOMAIN NamedTys_
      BY <1>1, <1>3 DEF DeclsTyped
<1> HIDE DEF Typed
<1> QED BY <1>1, <1>2, <1>4, <1>5, <1>6, <1>7 DEF TypeOK, Items

-----------------------------------------------------------------------------
(* The innermost text, and what a step makes of the texts.                 *)
LEMMA Innermost ==
    ASSUME FramesTyped, frames # <<>>
    PROVE  /\ Len(frames) \in Nat \ {0} /\ DOMAIN frames = 1..Len(frames) /\ 1 \in 1..Len(frames)
           /\ top \in Frames /\ top.decl \in Type \cup {NoType} /\ top.todo \in Seq(Items)
<1>1. Len(frames) \in Nat \ {0} /\ DOMAIN frames = 1..Len(frames) /\ top \in Frames
  <2> HIDE DEF Frames
  <2> QED BY DEF FramesTyped, top
<1>2. top.decl \in Type \cup {NoType} /\ top.todo \in Seq(Items)
      BY <1>1 DEF Frames
<1> QED BY <1>1, <1>2

LEMMA FirstItem ==
    ASSUME FramesTyped, frames # <<>>, top.todo # <<>>
    PROVE  /\ Item \in Items /\ Item.ty \in Type \cup {NoType} /\ Item.mode \in {"Full", "Forward"}
           /\ Tail(top.todo) \in Seq(Items)
           /\ Range(top.todo) = {Item} \cup Range(Tail(top.todo))
<1>1. top.todo \in Seq(Items) BY Innermost
<1>2. Item \in Items /\ Tail(top.todo) \in Seq(Items)
      /\ Range(top.todo) = {Item} \cup Range(Tail(top.todo))
  <2> HIDE DEF Items
  <2> QED BY <1>1, RangeTail, Popped DEF Item
<1> QED BY <1>2 DEF Items

LEMMA TextGoesOn ==
    ASSUME FramesTyped, frames # <<>>, NEW todo \in Seq(Items), frames' = Next1(todo)
    PROVE  /\ frames' \in Seq(Frames) /\ frames' # <<>> /\ Len(frames') = Len(frames)
           /\ \A i \in 1..Len(frames) : frames'[i].decl = frames[i].decl
           /\ frames'[1].todo = todo
           /\ \A i \in 2..Len(frames) : frames'[i] = frames[i]
<1>1. frames' = [frames EXCEPT ![1].todo = todo] BY DEF Next1
<1>2. frames \in Seq(Frames) /\ Len(frames) \in Nat BY Innermost DEF FramesTyped
<1> HIDE DEF Frames, Items
<1>3. /\ frames' \in Seq(Frames) /\ frames' # <<>> /\ Len(frames') = Len(frames)
      /\ frames'[1].decl = frames[1].decl /\ frames'[1].todo = todo
      /\ \A i \in 2..Len(frames) : frames'[i] = frames[i]
      BY <1>1, <1>2, Changed
<1>4. \A i \in 1..Len(frames) : i = 1 \/ i \in 2..Len(frames) BY <1>2
<1> QED BY <1>3, <1>4

LEMMA TextStarts ==
    ASSUME FramesTyped, frames # <<>>, NEW todo \in Seq(Items), NEW new \in Frames,
           frames' = <<new>> \o Next1(todo)
    PROVE  /\ frames' \in Seq(Frames) /\ frames' # <<>> /\ Len(frames') = Len(frames) + 1
           /\ frames'[1] = new /\ frames'[2].todo = todo
           /\ \A i \in 1..Len(frames) : frames'[i + 1].decl = frames[i].decl
           /\ \A i \in 2..Len(frames) : frames'[i + 1] = frames[i]
<1> DEFINE s == Next1(todo)
<1>1. s = [frames EXCEPT ![1].todo = todo] BY DEF Next1
<1>2. frames \in Seq(Frames) /\ Len(frames) \in Nat \ {0} BY Innermost DEF FramesTyped
<1> HIDE DEF Frames, Items, s
<1>3. /\ s \in Seq(Frames) /\ s # <<>> /\ Len(s) = Len(frames)
      /\ s[1].decl = frames[1].decl /\ s[1].todo = todo
      /\ \A i \in 2..Len(frames) : s[i] = frames[i]
      BY <1>1, <1>2, Changed
<1>4. frames' = <<new>> \o s BY DEF s
<1>5. frames' \in Seq(Frames) /\ Len(frames') = Len(frames) + 1 /\ frames'[1] = new
      /\ \A i \in 1..Len(frames) : frames'[i + 1] = s[i]
  <2>1. s \in Seq(Frames) /\ new \in Frames BY <1>3
  <2>2. <<new>> \o s \in Seq(Frames) /\ Len(<<new>> \o s) = Len(s) + 1
        /\ (<<new>> \o s)[1] = new
        /\ \A i \in 1..Len(s) : (<<new>> \o s)[i + 1] = s[i]
        BY <2>1
  <2> QED BY <1>3, <1>4, <2>2
<1>6. frames' # <<>> BY <1>2, <1>5
<1>7. \A i \in 1..Len(frames) : i = 1 \/ i \in 2..Len(frames) BY <1>2
<1>8. \A i \in 2..Len(frames) : i \in 1..Len(frames) BY <1>2
<1>9. frames'[2] = s[1]
  <2>1. 1 \in 1..Len(frames) /\ 1 + 1 = 2 BY <1>2
  <2> QED BY <1>5, <2>1
<1> QED BY <1>3, <1>5, <1>6, <1>7, <1>8, <1>9

LEMMA TextEnds ==
    ASSUME FramesTyped, frames # <<>>, frames' = Tail(frames)
    PROVE  /\ frames' \in Seq(Frames) /\ Len(frames') = Len(frames) - 1
           /\ Len(frames) = 1 <=> frames' = <<>>
           /\ \A i \in 1..(Len(frames) - 1) : frames'[i] = frames[i + 1]
<1>1. frames \in Seq(Frames) BY DEF FramesTyped
<1> HIDE DEF Frames
<1>2. frames' \in Seq(Frames) /\ Len(frames') = Len(frames) - 1 /\ Len(frames) \in Nat
      /\ \A i \in 1..(Len(frames) - 1) : frames'[i] = frames[i + 1]
      BY <1>1, Popped
<1>3. Len(frames') = 0 <=> frames' = <<>> BY <1>2
<1> QED BY <1>2, <1>3

(* The items that stand for types, and the parts of a type without a name. *)
LEMMA FullItems ==
    ASSUME NEW s \in Seq(Type \cup {NoType})
    PROVE  /\ FullSeq(s) \in Seq(Items) /\ DOMAIN FullSeq(s) = DOMAIN s
           /\ \A i \in DOMAIN s : FullSeq(s)[i] = Full(s[i]) /\ s[i] \in Type \cup {NoType}
           /\ Range(FullSeq(s)) = {Full(s[i]) : i \in DOMAIN s}
<1>1. \A i \in DOMAIN s : Full(s[i]) \in Items /\ s[i] \in Type \cup {NoType}
      BY DEF Items, Full
<1>2. FullSeq(s) = [i \in 1..Len(s) |-> Full(s[i])] /\ DOMAIN s = 1..Len(s) /\ Len(s) \in Nat
      BY DEF FullSeq
<1> HIDE DEF Items
<1>3. FullSeq(s) \in Seq(Items) BY <1>1, <1>2
<1> QED BY <1>1, <1>2, <1>3 DEF Range

LEMMA PartsTyped ==
    ASSUME NEW item \in Items, item.ty # NoType
    PROVE  Parts(item) \in Seq(Items)
<1>1. item.ty \in Type BY DEF Items
<1> DEFINE d == Def[item.ty]
<1>2. /\ d.kind \in {"basic", "enum", "pointer", "array", "function", "struct", "union"}
      /\ d.elem \in Type \cup {NoType} /\ d.params \in Seq(Type \cup {NoType})
      BY <1>1, TypesAssumption
<1>3. Full(d.elem) \in Items /\ Forward(d.elem) \in Items BY <1>2 DEF Items, Full, Forward
<1>4. FullSeq(d.params) \in Seq(Items) BY <1>2, FullItems
<1> HIDE DEF Items
<1>5. <<Forward(d.elem)>> \in Seq(Items) /\ <<Full(d.elem)>> \in Seq(Items)
      /\ <<>> \in Seq(Items) /\ FullSeq(d.params) \o <<Full(d.elem)>> \in Seq(Items)
      BY <1>3, <1>4
<1>6. CASE d.kind = "pointer" BY <1>5, <1>6 DEF Parts
<1>7. CASE d.kind = "array" BY <1>5, <1>7 DEF Parts
<1>8. CASE d.kind = "function" BY <1>5, <1>8 DEF Parts
<1>9. CASE d.kind \in {"basic", "enum", "struct", "union"} BY <1>5, <1>9 DEF Parts
<1> QED BY <1>2, <1>6, <1>7, <1>8, <1>9

(* What print_def leaves to print.                                         *)
LEMMA PartsLeft ==
    ASSUME FramesTyped, frames # <<>>, top.todo # <<>>, ~IsComposite(Item.ty)
    PROVE  LET parts == IF Item.ty = NoType THEN <<>> ELSE Parts(Item)
           IN  /\ parts \in Seq(Items)
               /\ parts \o Tail(top.todo) \in Seq(Items)
               /\ Range(parts \o Tail(top.todo)) = Range(parts) \cup Range(Tail(top.todo))
<1> DEFINE parts == IF Item.ty = NoType THEN <<>> ELSE Parts(Item)
<1>1. Item \in Items /\ Tail(top.todo) \in Seq(Items) BY FirstItem
<1>2. parts \in Seq(Items) BY <1>1, PartsTyped
<1> HIDE DEF parts, Items
<1>3. parts \o Tail(top.todo) \in Seq(Items)
      /\ Range(parts \o Tail(top.todo)) = Range(parts) \cup Range(Tail(top.todo))
      BY <1>1, <1>2, RangeConcat, ZenonT(40)
<1> QED BY <1>2, <1>3 DEF parts

LEMMA FieldsFrame ==
    ASSUME NEW t \in Type
    PROVE  /\ Frame(t, FullSeq(Def[t].fields)) \in Frames
           /\ Frame(t, FullSeq(Def[t].fields)).decl = t
           /\ Frame(t, FullSeq(Def[t].fields)).todo = FullSeq(Def[t].fields)
<1>1. Def[t].fields \in Seq(Type \cup {NoType}) BY TypesAssumption
<1>2. FullSeq(Def[t].fields) \in Seq(Items) BY <1>1, FullItems
<1> HIDE DEF Items
<1> QED BY <1>2 DEF Frame, Frames

(* A name is given once.                                                   *)
LEMMA Naming ==
    ASSUME NamesTyped, NEW t \in Type, IsComposite(t), Name(t)
    PROVE  /\ IsFiniteSet(DOMAIN NamedTys_') /\ DOMAIN NamedTys_' = DOMAIN NamedTys_ \cup {t}
           /\ DOMAIN NamedTys_' \subseteq Type
           /\ \A u \in DOMAIN NamedTys_' : IsComposite(u) /\ NamedTys_'[u] \in Nat
           /\ \A u \in DOMAIN NamedTys_ : NamedTys_'[u] = NamedTys_[u]
           /\ t \notin DOMAIN NamedTys_ => NamedTys_'[t] = Cardinality(DOMAIN NamedTys_)
<1>1. CASE t \in DOMAIN NamedTys_
  <2>1. NamedTys_' = NamedTys_ BY <1>1 DEF Name
  <2>2. DOMAIN NamedTys_ \cup {t} = DOMAIN NamedTys_ BY <1>1
  <2> QED BY <1>1, <2>1, <2>2 DEF NamesTyped
<1>2. CASE t \notin DOMAIN NamedTys_
  <2>1. Cardinality(DOMAIN NamedTys_) \in Nat BY FS_CardinalityType DEF NamesTyped
  <2>2. IsFiniteSet(DOMAIN NamedTys_ \cup {t}) BY FS_AddElement DEF NamesTyped
  <2>3. NamedTys_' = [u \in DOMAIN NamedTys_ \cup {t} |->
                         IF u = t THEN Cardinality(DOMAIN NamedTys_) ELSE NamedTys_[u]]
        BY <1>2 DEF Name
  <2>4. DOMAIN NamedTys_' = DOMAIN NamedTys_ \cup {t} BY <2>3
  <2>5. NamedTys_'[t] = Cardinality(DOMAIN NamedTys_)
        /\ \A u \in DOMAIN NamedTys_ : NamedTys_'[u] = NamedTys_[u]
        BY <1>2, <2>3
  <2>6. \A u \in DOMAIN NamedTys_' : IsComposite(u) /\ NamedTys_'[u] \in Nat
        BY <2>1, <2>4, <2>5 DEF NamesTyped
  <2> QED BY <2>2, <2>4, <2>5, <2>6 DEF NamesTyped
<1> QED BY <1>1, <1>2

(* The text of a wrapper names the function, its result and what is passed.*)
WrapperItems(w) ==
    <<Forward(w.fty), Forward(Def[w.fty].elem)>>
      \o [i \in DOMAIN Passed(w) |-> Forward(Passed(w)[i])]

LEMMA WrapperTyped ==
    ASSUME NEW w \in Wrapper
    PROVE  /\ w.fty \in FuncTy /\ w.args \in {<<>>} \cup VarArgs[w.fty] /\ w.args \in Seq(Type)
           /\ w.fty \in Type /\ Def[w.fty].kind = "function" /\ Def[w.fty].elem \in Type \cup {NoType}
           /\ Def[w.fty].params \in Seq(Type \cup {NoType})
           /\ Passed(w) \in Seq(Type \cup {NoType})
           /\ Range(Passed(w)) = Range(Def[w.fty].params) \cup Range(w.args)
<1>1. PICK f \in FuncTy : \E l \in {<<>>} \cup VarArgs[f] : w = [fty |-> f, args |-> l]
      BY DEF Wrapper
<1>2. w.fty \in FuncTy /\ w.args \in {<<>>} \cup VarArgs[w.fty] BY <1>1
<1>3. w.args \in Seq(Type)
  <2>1. <<>> \in Seq(Type) OBVIOUS
  <2>2. VarArgs[w.fty] \subseteq Seq(Type) BY <1>2, TypesAssumption
  <2> QED BY <1>2, <2>1, <2>2
<1>4. w.fty \in Type /\ Def[w.fty].kind = "function" /\ Def[w.fty].elem \in Type \cup {NoType}
      /\ Def[w.fty].params \in Seq(Type \cup {NoType})
      BY <1>2, TypesAssumption
<1>5. w.args \in Seq(Type \cup {NoType}) BY <1>3
<1>6. Passed(w) \in Seq(Type \cup {NoType})
      /\ Range(Passed(w)) = Range(Def[w.fty].params) \cup Range(w.args)
      BY <1>4, <1>5, RangeConcat DEF Passed
<1> QED BY <1>2, <1>3, <1>4, <1>6

LEMMA WrapperFrame ==
    ASSUME NEW w \in Wrapper
    PROVE  /\ WrapperItems(w) \in Seq(Items)
           /\ Range(WrapperItems(w)) = {Forward(w.fty), Forward(Def[w.fty].elem)}
                                         \cup {Forward(t) : t \in Range(Passed(w))}
           /\ Frame(NoType, WrapperItems(w)) \in Frames
           /\ Frame(NoType, WrapperItems(w)).decl = NoType
           /\ Frame(NoType, WrapperItems(w)).todo = WrapperItems(w)
<1> DEFINE p == Passed(w)
           q == [i \in DOMAIN p |-> Forward(p[i])]
           a == Forward(w.fty)
           b == Forward(Def[w.fty].elem)
<1>1. p \in Seq(Type \cup {NoType}) /\ w.fty \in Type /\ Def[w.fty].elem \in Type \cup {NoType}
      BY WrapperTyped
<1>2. a \in Items /\ b \in Items BY <1>1 DEF Items, Forward
<1> HIDE DEF p
<1>3. \A i \in DOMAIN p : Forward(p[i]) \in Items BY <1>1 DEF Items, Forward
<1> HIDE DEF Items, a, b
<1>4. DOMAIN p = 1..Len(p) /\ Len(p) \in Nat BY <1>1
<1>5. q \in Seq(Items) /\ DOMAIN q = DOMAIN p /\ \A i \in DOMAIN p : q[i] = Forward(p[i])
      BY <1>3, <1>4
<1>6. <<a, b>> \in Seq(Items) /\ Range(<<a, b>>) = {a, b}
  <2>1. <<a, b>> \in Seq(Items) BY <1>2
  <2>2. DOMAIN <<a, b>> = {1, 2} /\ <<a, b>>[1] = a /\ <<a, b>>[2] = b OBVIOUS
  <2> QED BY <2>1, <2>2 DEF Range
<1>7. Range(q) = {Forward(t) : t \in Range(p)} BY <1>5 DEF Range
<1> HIDE DEF q
<1>8. <<a, b>> \o q \in Seq(Items) /\ Range(<<a, b>> \o q) = {a, b} \cup Range(q)
  <2> DEFINE ab == <<a, b>>
  <2>1. ab \in Seq(Items) /\ q \in Seq(Items) /\ Range(ab) = {a, b} BY <1>5, <1>6
  <2> HIDE DEF ab
  <2>2. ab \o q \in Seq(Items) /\ Range(ab \o q) = Range(ab) \cup Range(q)
        BY <2>1, RangeConcat
  <2> QED BY <2>1, <2>2 DEF ab
<1>9. WrapperItems(w) = <<a, b>> \o q BY DEF WrapperItems, a, b, p, q
<1>10. WrapperItems(w) \in Seq(Items)
       /\ Range(WrapperItems(w)) = {a, b} \cup {Forward(t) : t \in Range(p)}
       BY <1>7, <1>8, <1>9
<1>11. NoType \in Type \cup {NoType} OBVIOUS
<1>12. Frame(NoType, WrapperItems(w)) \in Frames BY <1>10, <1>11 DEF Frame, Frames
<1> QED BY <1>10, <1>12 DEF Frame, a, b, p

-----------------------------------------------------------------------------
LEMMA TypedInit == Init => Typed
<1> SUFFICES ASSUME Init PROVE Typed OBVIOUS
<1>1. CallTyped BY DEF Init, CallTyped
<1>2. FramesTyped
  <2> HIDE DEF Frames
  <2> QED BY DEF Init, FramesTyped
<1>3. DOMAIN NamedTys_ = {} /\ IsFiniteSet(DOMAIN NamedTys_) BY FS_EmptySet DEF Init
<1>4. NamesTyped BY <1>3 DEF Init, NamesTyped
<1>5. DeclsTyped
  <2> HIDE DEF Declarations
  <2> QED BY DEF Init, DeclsTyped
<1> QED BY <1>1, <1>2, <1>4, <1>5 DEF Typed

LEMMA TypedNext == Typed /\ [Next]_vars => Typed'
<1> SUFFICES ASSUME Typed, [Next]_vars PROVE Typed' OBVIOUS
<1>0. CallTyped /\ FramesTyped /\ NamesTyped /\ DeclsTyped BY DEF Typed
<1> USE <1>0
<1>1. ASSUME UNCHANGED vars PROVE Typed'
      BY <1>1 DEF vars, printerVars, Typed, CallTyped, FramesTyped, NamesTyped, DeclsTyped
<1>2. ASSUME NEW ws \in SUBSET Wrapper, Begin(ws) PROVE Typed'
  <2>1. FramesTyped' /\ NamesTyped' /\ DeclsTyped'
        BY <1>2 DEF Begin, printerVars, FramesTyped, NamesTyped, DeclsTyped
  <2>2. CallTyped' BY <1>2 DEF Begin, CallTyped
  <2> QED BY <2>1, <2>2 DEF Typed
<1>3. CASE genFuncTypeWrapper
  <2>1. PICK w \in batch \ Wrappers :
           cur' = {w} /\ frames' = <<Frame(NoType, WrapperItems(w))>>
        BY <1>3 DEF genFuncTypeWrapper, WrapperItems
  <2>2. w \in Wrapper BY DEF CallTyped
  <2> DEFINE fr == Frame(NoType, WrapperItems(w))
  <2>3. fr \in Frames /\ fr.decl = NoType BY <2>2, WrapperFrame
  <2> HIDE DEF fr, Frames
  <2>4. frames' \in Seq(Frames) /\ frames' # <<>> /\ Len(frames') = 1 /\ frames'[1] = fr
        BY <2>1, <2>3 DEF fr
  <2>5. FramesTyped' BY <2>3, <2>4 DEF FramesTyped
  <2>6. CallTyped' BY <1>3, <2>1, <2>4 DEF genFuncTypeWrapper, CallTyped
  <2>7. NamesTyped' /\ DeclsTyped'
        BY <1>3 DEF genFuncTypeWrapper, printerVars, NamesTyped, DeclsTyped
  <2> QED BY <2>5, <2>6, <2>7 DEF Typed
<1>4. CASE print_def
  <2> DEFINE todo == (IF Item.ty = NoType THEN <<>> ELSE Parts(Item)) \o Tail(top.todo)
  <2>1. frames # <<>> /\ top.todo # <<>> /\ ~IsComposite(Item.ty) /\ frames' = Next1(todo)
        BY <1>4 DEF print_def
  <2>2. todo \in Seq(Items) BY <2>1, PartsLeft
  <2> HIDE DEF todo, Frames, Items
  <2>3. frames' \in Seq(Frames) /\ frames' # <<>> /\ Len(frames') = Len(frames)
        /\ \A i \in 1..Len(frames) : frames'[i].decl = frames[i].decl
        BY <2>1, <2>2, TextGoesOn
  <2>4. FramesTyped' BY <1>4, <2>3 DEF print_def, printerVars, FramesTyped
  <2>5. CallTyped' BY <1>4, <2>1, <2>3 DEF print_def, CallTyped
  <2>6. NamesTyped' /\ DeclsTyped'
        BY <1>4 DEF print_def, printerVars, NamesTyped, DeclsTyped
  <2> QED BY <2>4, <2>5, <2>6 DEF Typed
<1>5. CASE add_decl
  <2> DEFINE t == Item.ty
             rest == Tail(top.todo)
  <2>1. frames # <<>> /\ top.todo # <<>> /\ IsComposite(t) /\ Name(t) /\ AddDecl(t)
        BY <1>5 DEF add_decl
  <2>2. t \in Type /\ rest \in Seq(Items) BY <2>1, FirstItem DEF IsComposite
  <2> HIDE DEF t, rest, Frames, Items
  <2>3. /\ IsFiniteSet(DOMAIN NamedTys_') /\ DOMAIN NamedTys_' = DOMAIN NamedTys_ \cup {t}
        /\ DOMAIN NamedTys_' \subseteq Type
        /\ \A u \in DOMAIN NamedTys_' : IsComposite(u) /\ NamedTys_'[u] \in Nat
        BY <2>1, <2>2, Naming
  <2>4. Declared_' = Declared_ \cup {t} BY <2>1 DEF AddDecl
  <2>5. NamesTyped' BY <1>5, <2>3, <2>4 DEF add_decl, NamesTyped
  <2>6. DeclsTyped' BY <1>5, <2>3 DEF add_decl, DeclsTyped
  <2>7. frames' # <<>> /\ FramesTyped'
    <3>1. CASE t \in Declared_
      <4>1. frames' = Next1(rest) BY <2>1, <3>1 DEF AddDecl, rest
      <4>2. frames' \in Seq(Frames) /\ frames' # <<>> /\ Len(frames') = Len(frames)
            /\ \A i \in 1..Len(frames) : frames'[i].decl = frames[i].decl
            BY <2>1, <2>2, <4>1, TextGoesOn
      <4> QED BY <2>4, <4>2 DEF FramesTyped
    <3>2. CASE t \notin Declared_
      <4> DEFINE new == Frame(t, FullSeq(Def[t].fields))
      <4>1. frames' = <<new>> \o Next1(rest) BY <2>1, <3>2 DEF AddDecl, rest
      <4>2. new \in Frames /\ new.decl = t BY <2>2, FieldsFrame
      <4> HIDE DEF new
      <4>3. frames' \in Seq(Frames) /\ frames' # <<>> /\ Len(frames') = Len(frames) + 1
            /\ frames'[1] = new
            /\ \A i \in 1..Len(frames) : frames'[i + 1].decl = frames[i].decl
            BY <2>1, <2>2, <4>1, <4>2, TextStarts
      <4>4. Len(frames) \in Nat \ {0} BY <2>1, Innermost
      <4>5. t # NoType BY <2>1 DEF IsComposite
      <4>6. ASSUME NEW i \in 1..Len(frames')
            PROVE  /\ frames'[i].decl = NoType <=> i = Len(frames')
                   /\ frames'[i].decl # NoType => frames'[i].decl \in Declared_'
        <5>1. CASE i = 1 BY <2>4, <4>2, <4>3, <4>4, <4>5, <5>1
        <5>2. CASE i # 1
          <6>1. i - 1 \in 1..Len(frames) /\ (i - 1) + 1 = i BY <4>3, <4>4, <5>2
          <6>2. frames'[i].decl = frames[i - 1].decl BY <4>3, <6>1
          <6>3. frames[i - 1].decl = NoType <=> i - 1 = Len(frames) BY <6>1 DEF FramesTyped
          <6>4. i - 1 = Len(frames) <=> i = Len(frames') BY <4>3, <4>4
          <6>5. frames[i - 1].decl # NoType => frames[i - 1].decl \in Declared_
                BY <6>1 DEF FramesTyped
          <6> QED BY <2>4, <6>2, <6>3, <6>4, <6>5
        <5> QED BY <5>1, <5>2
      <4> QED BY <4>3, <4>6 DEF FramesTyped
    <3> QED BY <3>1, <3>2
  <2>8. CallTyped' BY <1>5, <2>1, <2>7 DEF add_decl, CallTyped
  <2> QED BY <2>5, <2>6, <2>7, <2>8 DEF Typed
<1>6. CASE add_forward_decl
  <2> DEFINE t == Item.ty
             rest == Tail(top.todo)
  <2>1. frames # <<>> /\ top.todo # <<>> /\ IsComposite(t) /\ Name(t) /\ AddForwardDecl(t)
        /\ frames' = Next1(rest) /\ UNCHANGED Declared_
        BY <1>6 DEF add_forward_decl
  <2>2. t \in Type /\ rest \in Seq(Items) BY <2>1, FirstItem DEF IsComposite
  <2> HIDE DEF t, rest, Frames, Items
  <2>3. /\ IsFiniteSet(DOMAIN NamedTys_') /\ DOMAIN NamedTys_' = DOMAIN NamedTys_ \cup {t}
        /\ DOMAIN NamedTys_' \subseteq Type
        /\ \A u \in DOMAIN NamedTys_' : IsComposite(u) /\ NamedTys_'[u] \in Nat
        BY <2>1, <2>2, Naming
  <2>4. Declared_ \cup ForwardDeclared_' = Declared_ \cup ForwardDeclared_ \cup {t}
        BY <2>1 DEF AddForwardDecl
  <2>5. NamesTyped' BY <2>1, <2>3, <2>4 DEF NamesTyped
  <2>6. DeclsTyped'
    <3>1. CASE UNCHANGED Decls_ BY <2>3, <3>1 DEF DeclsTyped
    <3>2. CASE Decls_' = Append(Decls_, [def |-> FALSE, ty |-> t])
      <4> DEFINE d == [def |-> FALSE, ty |-> t]
      <4>1. d \in Declarations /\ d.ty = t BY <2>2 DEF Declarations
      <4> HIDE DEF d, Declarations
      <4>2. /\ Decls_' \in Seq(Declarations) /\ Len(Decls_') = Len(Decls_) + 1
            /\ Len(Decls_) \in Nat /\ Decls_'[Len(Decls_) + 1] = d
            /\ \A i \in 1..Len(Decls_) : Decls_'[i] = Decls_[i]
            BY <3>2, <4>1, Added DEF DeclsTyped, d
      <4>3. \A i \in 1..(Len(Decls_) + 1) : i \in 1..Len(Decls_) \/ i = Len(Decls_) + 1
            BY <4>2
      <4> QED BY <2>3, <4>1, <4>2, <4>3 DEF DeclsTyped
    <3> QED BY <2>1, <3>1, <3>2 DEF AddForwardDecl
  <2>7. frames' \in Seq(Frames) /\ frames' # <<>> /\ Len(frames') = Len(frames)
        /\ \A i \in 1..Len(frames) : frames'[i].decl = frames[i].decl
        BY <2>1, <2>2, TextGoesOn
  <2>8. FramesTyped' BY <2>1, <2>7 DEF FramesTyped
  <2>9. CallTyped' BY <1>6, <2>1, <2>7 DEF add_forward_decl, CallTyped
  <2> QED BY <2>5, <2>6, <2>8, <2>9 DEF Typed
<1>7. ASSUME frames # <<>>, frames' = Tail(frames), UNCHANGED Declared_ PROVE FramesTyped'
  <2> HIDE DEF Frames
  <2>1. frames' \in Seq(Frames) /\ Len(frames') = Len(frames) - 1 /\ Len(frames) \in Nat \ {0}
        /\ \A i \in 1..(Len(frames) - 1) : frames'[i] = frames[i + 1]
        BY <1>7, TextEnds, Innermost
  <2>2. \A i \in 1..(Len(frames) - 1) : i + 1 \in 1..Len(frames) BY <2>1
  <2>3. \A i \in 1..(Len(frames) - 1) : i + 1 = Len(frames) <=> i = Len(frames) - 1 BY <2>1
  <2>4. ASSUME NEW i \in 1..Len(frames')
        PROVE  /\ frames'[i].decl = NoType <=> i = Len(frames')
               /\ frames'[i].decl # NoType => frames'[i].decl \in Declared_
    <3>1. i + 1 \in 1..Len(frames) /\ frames'[i] = frames[i + 1]
          /\ (i + 1 = Len(frames) <=> i = Len(frames'))
          BY <2>1, <2>2, <2>3
    <3> QED BY <3>1 DEF FramesTyped
  <2> QED BY <1>7, <2>1, <2>4 DEF FramesTyped
<1>8. CASE DeclPrinted
  <2>1. frames # <<>> /\ top.decl # NoType /\ frames' = Tail(frames)
        /\ Decls_' = Append(Decls_, [def |-> TRUE, ty |-> top.decl])
        BY <1>8 DEF DeclPrinted
  <2>2. FramesTyped' /\ NamesTyped' BY <1>7, <1>8, <2>1 DEF DeclPrinted, NamesTyped
  <2>3. top.decl \in DOMAIN NamedTys_ /\ top.decl \in Type /\ Len(frames) # 1
        BY <2>1, Innermost DEF FramesTyped, NamesTyped, top
  <2>4. DeclsTyped'
    <3> DEFINE d == [def |-> TRUE, ty |-> top.decl]
    <3>1. d \in Declarations /\ d.ty = top.decl BY <2>3 DEF Declarations
    <3> HIDE DEF d, Declarations
    <3>2. /\ Decls_' \in Seq(Declarations) /\ Len(Decls_') = Len(Decls_) + 1
          /\ Len(Decls_) \in Nat /\ Decls_'[Len(Decls_) + 1] = d
          /\ \A i \in 1..Len(Decls_) : Decls_'[i] = Decls_[i]
          BY <2>1, <3>1, Added DEF DeclsTyped, d
    <3>3. \A i \in 1..(Len(Decls_) + 1) : i \in 1..Len(Decls_) \/ i = Len(Decls_) + 1
          BY <3>2
    <3>4. NamedTys_' = NamedTys_ BY <1>8 DEF DeclPrinted
    <3> QED BY <2>3, <3>1, <3>2, <3>3, <3>4 DEF DeclsTyped
  <2>5. frames' # <<>> BY <2>1, <2>3, TextEnds
  <2>6. CallTyped' BY <1>8, <2>1, <2>5 DEF DeclPrinted, CallTyped
  <2> QED BY <2>2, <2>4, <2>6 DEF Typed
<1>9. CASE WrapperPrinted
  <2>1. frames # <<>> /\ top.decl = NoType /\ frames' = Tail(frames) /\ UNCHANGED Declared_
        BY <1>9 DEF WrapperPrinted, printerVars
  <2>2. FramesTyped' BY <1>7, <2>1
  <2>3. NamesTyped' /\ DeclsTyped'
        BY <1>9 DEF WrapperPrinted, printerVars, NamesTyped, DeclsTyped
  <2>4. Len(frames) = 1 BY <2>1, Innermost DEF FramesTyped, top
  <2>5. frames' = <<>> BY <2>1, <2>4, TextEnds
  <2>6. CallTyped' BY <1>9, <2>1, <2>5 DEF WrapperPrinted, CallTyped
  <2> QED BY <2>2, <2>3, <2>6 DEF Typed
<1>10. CASE compileWrappers
  <2>1. CASE Compiles
    <3>1. /\ NamedTys_' = <<>> /\ Declared_' = {} /\ ForwardDeclared_' = {} /\ Decls_' = <<>>
          /\ frames = <<>> /\ UNCHANGED frames
          BY <1>10, <2>1 DEF compileWrappers, NewPrinter
    <3>2. DOMAIN NamedTys_' = {} /\ IsFiniteSet(DOMAIN NamedTys_') BY <3>1, FS_EmptySet
    <3>3. FramesTyped' BY <3>1 DEF FramesTyped
    <3>4. NamesTyped' BY <3>1, <3>2 DEF NamesTyped
    <3>5. DeclsTyped'
      <4> HIDE DEF Declarations
      <4> QED BY <3>1 DEF DeclsTyped
    <3>6. CallTyped' BY <1>10, <2>1, <3>1 DEF compileWrappers, CallTyped
    <3> QED BY <3>3, <3>4, <3>5, <3>6 DEF Typed
  <2>2. CASE ~Compiles
    <3>1. FramesTyped' /\ NamesTyped' /\ DeclsTyped'
          BY <1>10, <2>2 DEF compileWrappers, printerVars, FramesTyped, NamesTyped, DeclsTyped
    <3>2. CallTyped' BY <1>10, <2>2 DEF compileWrappers, CallTyped
    <3> QED BY <3>1, <3>2 DEF Typed
  <2> QED BY <2>1, <2>2
<1>11. ASSUME compile PROVE Typed'
  <2>1. PICK fs \in SUBSET FuncTy : Begin({[fty |-> f, args |-> <<>>] : f \in fs})
        BY <1>11 DEF compile
  <2>2. \A f \in FuncTy : [fty |-> f, args |-> <<>>] \in Wrapper
    <3> SUFFICES ASSUME NEW f \in FuncTy PROVE [fty |-> f, args |-> <<>>] \in Wrapper
        OBVIOUS
    <3> DEFINE F(g) == {[fty |-> g, args |-> l] : l \in {<<>>} \cup VarArgs[g]}
    <3>1. [fty |-> f, args |-> <<>>] \in F(f) OBVIOUS
    <3>2. F(f) \in {F(g) : g \in FuncTy} OBVIOUS
    <3>3. Wrapper = UNION {F(g) : g \in FuncTy} BY DEF Wrapper
    <3> HIDE DEF F
    <3> QED BY <3>1, <3>2, <3>3
  <2>3. {[fty |-> f, args |-> <<>>] : f \in fs} \in SUBSET Wrapper BY <2>2
  <2> QED BY <1>2, <2>1, <2>3
<1>12. ASSUME getWrapperAddress PROVE Typed' BY <1>2, <1>12 DEF getWrapperAddress
<1> QED BY <1>1, <1>3, <1>4, <1>5, <1>6, <1>8, <1>9, <1>10, <1>11, <1>12
        DEF Next, CallStep, Idle

(* The printer and the engine only ever hold types, wrappers, names and    *)
(* texts of the program: TypePrinter's state is well formed, whatever the  *)
(* program's types.                                                        *)
THEOREM TypeCorrect == Spec => []TypeOK
<1>1. Spec => []Typed BY TypedInit, TypedNext, PTL DEF Spec
<1>2. Typed => TypeOK BY TypedOK
<1> QED BY <1>1, <1>2, PTL

-----------------------------------------------------------------------------
(***************************************************************************)
(* Every step is one of these, for the texts and the printer: nothing      *)
(* happens to them, the text of a wrapper starts or ends, the innermost    *)
(* text goes on, with or without a forward declaration, the text of a      *)
(* definition starts or ends, or there is a new printer.                   *)
(***************************************************************************)
Names == DOMAIN NamedTys_

Same == UNCHANGED <<frames, printerVars>>

WrapperStarts ==
    /\ frames = <<>> /\ Len(frames') = 1 /\ frames'[1].decl = NoType
    /\ UNCHANGED printerVars

SameDecls == Len(frames') = Len(frames)
             /\ \A i \in 1..Len(frames) : frames'[i].decl = frames[i].decl

GoesOn == frames # <<>> /\ SameDecls /\ UNCHANGED printerVars

Declares(t) ==
    /\ frames # <<>> /\ SameDecls /\ t \in Type /\ IsComposite(t)
    /\ t \notin Names /\ Name(t) /\ UNCHANGED Declared_
    /\ ForwardDeclared_' = ForwardDeclared_ \cup {t}
    /\ Decls_' = Append(Decls_, [def |-> FALSE, ty |-> t])

DefStarts(t) ==
    /\ frames # <<>> /\ Len(frames') = Len(frames) + 1 /\ t \in Type /\ IsComposite(t)
    /\ frames'[1].decl = t
    /\ \A i \in 1..Len(frames) : frames'[i + 1].decl = frames[i].decl
    /\ t \notin Declared_ /\ Declared_' = Declared_ \cup {t} /\ Name(t)
    /\ UNCHANGED <<ForwardDeclared_, Decls_>>

DefEnds(t) ==
    /\ frames # <<>> /\ t = frames[1].decl /\ t \in Type /\ t \in Declared_
    /\ frames' # <<>> /\ Len(frames') = Len(frames) - 1
    /\ \A i \in 1..(Len(frames) - 1) : frames'[i] = frames[i + 1]
    /\ Decls_' = Append(Decls_, [def |-> TRUE, ty |-> t])
    /\ UNCHANGED <<NamedTys_, Declared_, ForwardDeclared_>>

WrapperEnds == Len(frames) = 1 /\ frames' = <<>> /\ frames[1].decl = NoType /\ UNCHANGED printerVars

Renewed == frames = <<>> /\ frames' = <<>> /\ NewPrinter

LEMMA StepsSplit ==
    ASSUME Typed, [Next]_vars
    PROVE  \/ Same \/ WrapperStarts \/ GoesOn \/ WrapperEnds \/ Renewed
           \/ \E t \in Type : Declares(t) \/ DefStarts(t) \/ DefEnds(t)
<1>0. CallTyped /\ FramesTyped /\ NamesTyped /\ DeclsTyped BY DEF Typed
<1>1. CASE UNCHANGED vars BY <1>1 DEF vars, Same
<1>2. CASE compile \/ getWrapperAddress BY <1>2 DEF compile, getWrapperAddress, Begin, Same
<1>3. CASE genFuncTypeWrapper
  <2>1. PICK w \in batch \ Wrappers : frames' = <<Frame(NoType, WrapperItems(w))>>
        BY <1>3 DEF genFuncTypeWrapper, WrapperItems
  <2>2. w \in Wrapper BY <1>0 DEF CallTyped
  <2>3. Frame(NoType, WrapperItems(w)).decl = NoType BY <2>2, WrapperFrame
  <2>4. Len(frames') = 1 /\ frames'[1] = Frame(NoType, WrapperItems(w)) BY <2>1
  <2> QED BY <1>3, <2>3, <2>4 DEF genFuncTypeWrapper, WrapperStarts
<1>4. CASE print_def
  <2> DEFINE todo == (IF Item.ty = NoType THEN <<>> ELSE Parts(Item)) \o Tail(top.todo)
  <2>1. frames # <<>> /\ top.todo # <<>> /\ ~IsComposite(Item.ty) /\ frames' = Next1(todo)
        BY <1>4 DEF print_def
  <2>2. todo \in Seq(Items) BY <1>0, <2>1, PartsLeft
  <2> HIDE DEF todo
  <2>3. SameDecls BY <1>0, <2>1, <2>2, TextGoesOn DEF SameDecls
  <2> QED BY <1>4, <2>1, <2>3 DEF print_def, GoesOn
<1>5. CASE add_decl
  <2> DEFINE t == Item.ty
             rest == Tail(top.todo)
  <2>1. frames # <<>> /\ top.todo # <<>> /\ IsComposite(t) /\ Name(t) /\ AddDecl(t)
        /\ UNCHANGED <<ForwardDeclared_, Decls_>>
        BY <1>5 DEF add_decl
  <2>2. t \in Type /\ rest \in Seq(Items) BY <1>0, <2>1, FirstItem DEF IsComposite
  <2> HIDE DEF t, rest, Frames, Items
  <2>3. CASE t \in Declared_
    <3>1. frames' = Next1(rest) /\ UNCHANGED Declared_ BY <2>1, <2>3 DEF AddDecl, rest
    <3>2. SameDecls BY <1>0, <2>1, <2>2, <3>1, TextGoesOn DEF SameDecls
    <3>3. UNCHANGED NamedTys_ BY <1>0, <2>1, <2>3 DEF NamesTyped, Name
    <3> QED BY <2>1, <3>1, <3>2, <3>3 DEF GoesOn, printerVars
  <2>4. CASE t \notin Declared_
    <3> DEFINE new == Frame(t, FullSeq(Def[t].fields))
    <3>1. frames' = <<new>> \o Next1(rest) /\ Declared_' = Declared_ \cup {t}
          BY <2>1, <2>4 DEF AddDecl, rest
    <3>2. new \in Frames /\ new.decl = t BY <2>2, FieldsFrame
    <3> HIDE DEF new
    <3>3. /\ Len(frames') = Len(frames) + 1 /\ frames'[1] = new
          /\ \A i \in 1..Len(frames) : frames'[i + 1].decl = frames[i].decl
          BY <1>0, <2>1, <2>2, <3>1, <3>2, TextStarts
    <3>4. DefStarts(t) BY <2>1, <2>2, <2>4, <3>1, <3>2, <3>3 DEF DefStarts
    <3> QED BY <2>2, <3>4
  <2> QED BY <2>3, <2>4
<1>6. CASE add_forward_decl
  <2> DEFINE t == Item.ty
             rest == Tail(top.todo)
  <2>1. frames # <<>> /\ top.todo # <<>> /\ IsComposite(t) /\ Name(t) /\ AddForwardDecl(t)
        /\ frames' = Next1(rest) /\ UNCHANGED Declared_
        BY <1>6 DEF add_forward_decl
  <2>2. t \in Type /\ rest \in Seq(Items) BY <1>0, <2>1, FirstItem DEF IsComposite
  <2> HIDE DEF t, rest, Frames, Items
  <2>3. SameDecls BY <1>0, <2>1, <2>2, TextGoesOn DEF SameDecls
  <2>4. CASE t \in Names
    <3>1. t \in Declared_ \/ t \in ForwardDeclared_ BY <1>0, <2>4 DEF NamesTyped, Names
    <3>2. UNCHANGED NamedTys_ BY <2>1, <2>4 DEF Name, Names
    <3>3. UNCHANGED <<ForwardDeclared_, Decls_>> BY <2>1, <3>1 DEF AddForwardDecl
    <3> QED BY <2>1, <2>3, <3>2, <3>3 DEF GoesOn, printerVars
  <2>5. CASE t \notin Names
    <3>1. t \notin Declared_ /\ t \notin ForwardDeclared_ BY <1>0, <2>5 DEF NamesTyped, Names
    <3>2. Declares(t) BY <2>1, <2>2, <2>3, <2>5, <3>1 DEF AddForwardDecl, Declares
    <3> QED BY <2>2, <3>2
  <2> QED BY <2>4, <2>5
<1>7. CASE DeclPrinted
  <2> DEFINE t == frames[1].decl
  <2>1. frames # <<>> /\ top.decl # NoType /\ frames' = Tail(frames)
        /\ Decls_' = Append(Decls_, [def |-> TRUE, ty |-> top.decl])
        BY <1>7 DEF DeclPrinted
  <2>2. t \in Declared_ /\ t \in Type /\ Len(frames) # 1
        BY <1>0, <2>1, Innermost DEF FramesTyped, top
  <2>3. frames' # <<>> /\ Len(frames') = Len(frames) - 1
        /\ \A i \in 1..(Len(frames) - 1) : frames'[i] = frames[i + 1]
        BY <1>0, <2>1, <2>2, TextEnds
  <2>4. DefEnds(t) BY <1>7, <2>1, <2>2, <2>3 DEF DeclPrinted, DefEnds, top
  <2> QED BY <2>2, <2>4
<1>8. CASE WrapperPrinted
  <2>1. frames # <<>> /\ top.decl = NoType /\ frames' = Tail(frames) /\ UNCHANGED printerVars
        BY <1>8 DEF WrapperPrinted
  <2>2. Len(frames) = 1 BY <1>0, <2>1, Innermost DEF FramesTyped, top
  <2>3. frames' = <<>> BY <1>0, <2>1, <2>2, TextEnds
  <2> QED BY <2>1, <2>2, <2>3 DEF WrapperEnds, top
<1>9. CASE compileWrappers
  <2>1. CASE Compiles BY <1>9, <2>1 DEF compileWrappers, Renewed
  <2>2. CASE ~Compiles BY <1>9, <2>2 DEF compileWrappers, Same
  <2> QED BY <2>1, <2>2
<1> QED BY <1>1, <1>2, <1>3, <1>4, <1>5, <1>6, <1>7, <1>8, <1>9 DEF Next, CallStep, Idle

(* The declarations when one is added.                                     *)
LEMMA DeclAdded ==
    ASSUME DeclsTyped, NEW b \in BOOLEAN, NEW t \in Type,
           Decls_' = Append(Decls_, [def |-> b, ty |-> t])
    PROVE  /\ Len(Decls_) \in Nat /\ Len(Decls_') = Len(Decls_) + 1
           /\ Decls_'[Len(Decls_) + 1] = [def |-> b, ty |-> t]
           /\ \A i \in 1..Len(Decls_) : i \in 1..Len(Decls_') /\ Decls_'[i] = Decls_[i]
           /\ \A i \in 1..Len(Decls_') : i \in 1..Len(Decls_) \/ i = Len(Decls_) + 1
<1> DEFINE d == [def |-> b, ty |-> t]
<1>1. d \in Declarations BY DEF Declarations
<1> HIDE DEF d, Declarations
<1>2. Len(Decls_) \in Nat /\ Len(Decls_') = Len(Decls_) + 1 /\ Decls_'[Len(Decls_) + 1] = d
      /\ \A i \in 1..Len(Decls_) : Decls_'[i] = Decls_[i]
      BY <1>1, Added DEF DeclsTyped, d
<1>3. \A i \in 1..Len(Decls_) : i \in 1..Len(Decls_') BY <1>2
<1>4. \A i \in 1..Len(Decls_') : i \in 1..Len(Decls_) \/ i = Len(Decls_) + 1 BY <1>2
<1> QED BY <1>2, <1>3, <1>4 DEF d

-----------------------------------------------------------------------------
(***************************************************************************)
(* A type is defined once.                                                 *)
(***************************************************************************)
Once ==
    /\ \A i, j \in 1..Len(frames) : frames[i].decl = frames[j].decl => i = j
    /\ \A i \in 1..Len(frames), j \in 1..Len(Decls_) :
          Decls_[j].def => frames[i].decl # Decls_[j].ty
    /\ \A i, j \in 1..Len(Decls_) :
          Decls_[i].def /\ Decls_[j].def /\ Decls_[i].ty = Decls_[j].ty => i = j
    /\ \A i \in 1..Len(Decls_) : Decls_[i].def => Decls_[i].ty \in Declared_

LEMMA OnceNext == ASSUME Typed, Once, [Next]_vars PROVE Once'
<1>0. CallTyped /\ FramesTyped /\ NamesTyped /\ DeclsTyped BY DEF Typed
<1>00. NoType \notin Declared_ /\ Len(frames) \in Nat
       BY <1>0, TypesAssumption DEF FramesTyped, NamesTyped
<1>1. CASE Same BY <1>1 DEF Same, printerVars, Once
<1>2. CASE WrapperStarts
  <2>1. Len(frames') = 1 /\ frames'[1].decl = NoType /\ UNCHANGED printerVars
        BY <1>2 DEF WrapperStarts
  <2>2. \A i \in 1..Len(frames') : i = 1 BY <2>1
  <2> QED BY <1>00, <2>1, <2>2 DEF printerVars, Once
<1>3. CASE GoesOn BY <1>3 DEF GoesOn, SameDecls, printerVars, Once
<1>4. CASE WrapperEnds
  <2>1. Len(frames') = 0 /\ UNCHANGED printerVars BY <1>4 DEF WrapperEnds
  <2> QED BY <2>1 DEF printerVars, Once
<1>5. CASE Renewed
  <2>1. Len(frames') = 0 /\ Len(Decls_') = 0 BY <1>5 DEF Renewed, NewPrinter
  <2> QED BY <2>1 DEF Once
<1>6. ASSUME NEW t \in Type, Declares(t) PROVE Once'
  <2> DEFINE d == [def |-> FALSE, ty |-> t]
  <2>1. Decls_' = Append(Decls_, d) /\ SameDecls /\ UNCHANGED Declared_ BY <1>6 DEF Declares
  <2>2. ~d.def OBVIOUS
  <2>3. /\ Decls_'[Len(Decls_) + 1] = d
        /\ \A i \in 1..Len(Decls_) : Decls_'[i] = Decls_[i]
        /\ \A i \in 1..Len(Decls_') : i \in 1..Len(Decls_) \/ i = Len(Decls_) + 1
        BY <1>0, <2>1, DeclAdded
  <2> HIDE DEF d
  <2>4. \A i \in 1..Len(Decls_') : Decls_'[i].def => i \in 1..Len(Decls_) /\ Decls_'[i] = Decls_[i]
        BY <2>2, <2>3
  <2> QED BY <2>1, <2>4 DEF SameDecls, Once
<1>7. ASSUME NEW t \in Type, DefStarts(t) PROVE Once'
  <2>1. /\ Len(frames') = Len(frames) + 1 /\ t # NoType
        /\ frames'[1].decl = t
        /\ \A i \in 1..Len(frames) : frames'[i + 1].decl = frames[i].decl
        /\ t \notin Declared_ /\ Declared_' = Declared_ \cup {t} /\ UNCHANGED Decls_
        BY <1>7 DEF DefStarts, IsComposite
  <2>2. \A i \in 1..Len(frames) : frames[i].decl # t BY <1>0, <2>1 DEF FramesTyped
  <2>3. \A i \in 1..Len(frames') : i # 1 =>
           i - 1 \in 1..Len(frames) /\ frames'[i].decl = frames[i - 1].decl
    <3> SUFFICES ASSUME NEW i \in 1..Len(frames'), i # 1
                 PROVE  i - 1 \in 1..Len(frames) /\ frames'[i].decl = frames[i - 1].decl
        OBVIOUS
    <3>1. i - 1 \in 1..Len(frames) /\ (i - 1) + 1 = i BY <1>00, <2>1
    <3> QED BY <2>1, <3>1
  <2>4. ASSUME NEW i \in 1..Len(frames'), NEW j \in 1..Len(frames'),
               frames'[i].decl = frames'[j].decl
        PROVE  i = j
    <3>1. CASE i = 1 /\ j = 1 BY <3>1
    <3>2. CASE i = 1 /\ j # 1 BY <2>1, <2>2, <2>3, <2>4, <3>2
    <3>3. CASE i # 1 /\ j = 1 BY <2>1, <2>2, <2>3, <2>4, <3>3
    <3>4. CASE i # 1 /\ j # 1
      <4>1. i - 1 \in 1..Len(frames) /\ j - 1 \in 1..Len(frames)
            /\ frames[i - 1].decl = frames[j - 1].decl
            BY <2>3, <2>4, <3>4
      <4>2. i - 1 = j - 1 BY <4>1 DEF Once
      <4> QED BY <1>00, <2>1, <4>2
    <3> QED BY <3>1, <3>2, <3>3, <3>4
  <2>5. ASSUME NEW i \in 1..Len(frames'), NEW j \in 1..Len(Decls_), Decls_[j].def
        PROVE  frames'[i].decl # Decls_[j].ty
    <3>1. CASE i = 1 BY <2>1, <2>5, <3>1 DEF Once
    <3>2. CASE i # 1
      <4>1. i - 1 \in 1..Len(frames) /\ frames'[i].decl = frames[i - 1].decl BY <2>3, <3>2
      <4> QED BY <2>5, <4>1 DEF Once
    <3> QED BY <3>1, <3>2
  <2> QED BY <2>1, <2>4, <2>5 DEF Once
<1>8. ASSUME NEW t \in Type, DefEnds(t) PROVE Once'
  <2> DEFINE d == [def |-> TRUE, ty |-> t]
  <2>1. /\ frames # <<>> /\ t = frames[1].decl /\ t \in Declared_
        /\ Len(frames') = Len(frames) - 1
        /\ \A i \in 1..(Len(frames) - 1) : frames'[i] = frames[i + 1]
        /\ Decls_' = Append(Decls_, d) /\ UNCHANGED Declared_
        BY <1>8 DEF DefEnds
  <2>2. d.ty = t OBVIOUS
  <2>3. /\ Len(Decls_') = Len(Decls_) + 1 /\ Decls_'[Len(Decls_) + 1] = d
        /\ \A i \in 1..Len(Decls_) : Decls_'[i] = Decls_[i]
        /\ \A i \in 1..Len(Decls_') : i \in 1..Len(Decls_) \/ i = Len(Decls_) + 1
        BY <1>0, <2>1, DeclAdded
  <2> HIDE DEF d
  <2>4. 1 \in 1..Len(frames) BY <1>0, <2>1, Innermost
  <2>5. \A i \in 1..Len(frames') : i + 1 \in 1..Len(frames) /\ i + 1 # 1
           /\ frames'[i] = frames[i + 1]
        BY <1>00, <2>1
  <2>6. \A i \in 1..Len(frames') : frames'[i].decl # t BY <2>1, <2>4, <2>5 DEF Once
  <2>7. \A j \in 1..Len(Decls_) : Decls_[j].def => Decls_[j].ty # t
        BY <2>1, <2>4 DEF Once
  <2>8. ASSUME NEW i \in 1..Len(frames'), NEW j \in 1..Len(frames'),
               frames'[i].decl = frames'[j].decl
        PROVE  i = j
    <3>1. i + 1 = j + 1 BY <2>5, <2>8 DEF Once
    <3> QED BY <1>00, <2>1, <3>1
  <2>9. ASSUME NEW i \in 1..Len(frames'), NEW j \in 1..Len(Decls_'), Decls_'[j].def
        PROVE  frames'[i].decl # Decls_'[j].ty
    <3>1. CASE j = Len(Decls_) + 1 BY <2>2, <2>3, <2>6, <3>1
    <3>2. CASE j \in 1..Len(Decls_) BY <2>3, <2>5, <2>9, <3>2 DEF Once
    <3> QED BY <2>3, <3>1, <3>2
  <2>10. ASSUME NEW i \in 1..Len(Decls_'), NEW j \in 1..Len(Decls_'),
                Decls_'[i].def, Decls_'[j].def, Decls_'[i].ty = Decls_'[j].ty
         PROVE  i = j
    <3>1. CASE i \in 1..Len(Decls_) /\ j \in 1..Len(Decls_) BY <2>3, <2>10, <3>1 DEF Once
    <3>2. CASE i \in 1..Len(Decls_) /\ j = Len(Decls_) + 1 BY <2>2, <2>3, <2>7, <2>10, <3>2
    <3>3. CASE i = Len(Decls_) + 1 /\ j \in 1..Len(Decls_) BY <2>2, <2>3, <2>7, <2>10, <3>3
    <3>4. CASE i = Len(Decls_) + 1 /\ j = Len(Decls_) + 1 BY <3>4
    <3> QED BY <2>3, <3>1, <3>2, <3>3, <3>4
  <2>11. \A i \in 1..Len(Decls_') : Decls_'[i].def => Decls_'[i].ty \in Declared_
         BY <2>1, <2>2, <2>3 DEF Once
  <2> QED BY <2>1, <2>8, <2>9, <2>10, <2>11 DEF Once
<1> QED BY <1>1, <1>2, <1>3, <1>4, <1>5, <1>6, <1>7, <1>8, StepsSplit

(* The recursion of add_decl through the members of a type meets no type   *)
(* whose definition is being printed or is printed: for every program, no  *)
(* structure or union is ever defined twice in the text of wrappers.       *)
THEOREM NothingDefinedTwice == Spec => []DefinedOnce
<1>1. Init => Once BY DEF Init, Once
<1>2. Typed /\ Once /\ [Next]_vars => Once' BY OnceNext
<1>3. Spec => [](Typed /\ Once) BY <1>1, <1>2, TypedInit, TypedNext, PTL DEF Spec
<1>4. Typed /\ Once => DefinedOnce
  <2> SUFFICES ASSUME Typed, Once PROVE DefinedOnce OBVIOUS
  <2>1. DOMAIN frames = 1..Len(frames) /\ DOMAIN Decls_ = 1..Len(Decls_)
        BY DEF Typed, FramesTyped, DeclsTyped
  <2> QED BY <2>1 DEF Once, DefinedOnce
<1> QED BY <1>3, <1>4, PTL

-----------------------------------------------------------------------------
(***************************************************************************)
(* What is named is declared, under a name of its own.                     *)
(***************************************************************************)
Tags ==
    /\ \A t \in Declared_ :
         \/ \E i \in 1..Len(frames) : frames[i].decl = t
         \/ \E i \in 1..Len(Decls_) : Decls_[i].ty = t /\ Decls_[i].def
    /\ \A t \in ForwardDeclared_ : \E i \in 1..Len(Decls_) : Decls_[i].ty = t

OwnNames ==
    /\ \A t \in Names : NamedTys_[t] < Cardinality(Names)
    /\ \A t, u \in Names : NamedTys_[t] = NamedTys_[u] => t = u

LEMMA NameIsNew ==
    ASSUME NamesTyped, OwnNames, NEW t \in Type, IsComposite(t), Name(t)
    PROVE  OwnNames'
<1> DEFINE C == Cardinality(Names)
           C2 == Cardinality(DOMAIN NamedTys_')
<1>1. /\ IsFiniteSet(Names) /\ DOMAIN NamedTys_' = Names \cup {t}
      /\ \A u \in Names : NamedTys_'[u] = NamedTys_[u]
      /\ t \notin Names => NamedTys_'[t] = C
      BY Naming DEF Names, NamesTyped
<1>2. C \in Nat BY <1>1, FS_CardinalityType
<1>3. \A u \in Names : NamedTys_[u] \in Nat /\ NamedTys_[u] < C
      BY DEF NamesTyped, OwnNames, Names
<1>4. CASE t \in Names
  <2>1. DOMAIN NamedTys_' = Names BY <1>1, <1>4
  <2>2. C2 = C BY <2>1
  <2> HIDE DEF C, C2
  <2>3. (\A u \in Names : NamedTys_'[u] < C2)
        /\ \A u, v \in Names : NamedTys_'[u] = NamedTys_'[v] => u = v
        BY <1>1, <1>3, <2>2 DEF OwnNames
  <2> QED BY <2>1, <2>3 DEF OwnNames, Names, C2
<1>5. CASE t \notin Names
  <2>1. C2 = C + 1 BY <1>1, <1>5, FS_AddElement
  <2> HIDE DEF C, C2
  <2>2. ASSUME NEW u \in Names \cup {t} PROVE NamedTys_'[u] < C2
    <3>1. CASE u = t BY <1>1, <1>2, <1>5, <2>1, <3>1
    <3>2. CASE u \in Names BY <1>1, <1>2, <1>3, <2>1, <3>2
    <3> QED BY <3>1, <3>2
  <2>3. ASSUME NEW u \in Names \cup {t}, NEW v \in Names \cup {t},
               NamedTys_'[u] = NamedTys_'[v]
        PROVE  u = v
    <3>1. CASE u \in Names /\ v \in Names BY <1>1, <2>3, <3>1 DEF OwnNames
    <3>2. CASE u = t /\ v \in Names BY <1>1, <1>2, <1>3, <1>5, <2>3, <3>2
    <3>3. CASE u \in Names /\ v = t BY <1>1, <1>2, <1>3, <1>5, <2>3, <3>3
    <3> QED BY <3>1, <3>2, <3>3
  <2> QED BY <1>1, <2>2, <2>3 DEF OwnNames, Names, C2
<1> QED BY <1>4, <1>5

LEMMA TagsNext == ASSUME Typed, Tags, OwnNames, [Next]_vars PROVE Tags' /\ OwnNames'
<1>0. CallTyped /\ FramesTyped /\ NamesTyped /\ DeclsTyped BY DEF Typed
<1>00. NoType \notin Declared_ /\ Len(frames) \in Nat
       BY <1>0, TypesAssumption DEF FramesTyped, NamesTyped
<1>1. ASSUME UNCHANGED printerVars PROVE OwnNames'
      BY <1>1 DEF printerVars, OwnNames, Names
<1>2. CASE Same BY <1>1, <1>2 DEF Same, printerVars, Tags
<1>3. CASE WrapperStarts
  <2>1. UNCHANGED printerVars /\ Len(frames) = 0 BY <1>3 DEF WrapperStarts
  <2>2. \A i : i \notin 1..Len(frames) BY <2>1
  <2> QED BY <1>1, <2>1, <2>2 DEF printerVars, Tags
<1>4. CASE GoesOn BY <1>1, <1>4 DEF GoesOn, SameDecls, printerVars, Tags
<1>5. CASE WrapperEnds
  <2>1. UNCHANGED printerVars /\ Len(frames) = 1 /\ frames[1].decl = NoType
        BY <1>5 DEF WrapperEnds
  <2>2. \A i \in 1..Len(frames) : frames[i].decl \notin Declared_ BY <1>00, <2>1
  <2> QED BY <1>1, <2>1, <2>2 DEF printerVars, Tags
<1>6. CASE Renewed
  <2>1. Declared_' = {} /\ ForwardDeclared_' = {} /\ DOMAIN NamedTys_' = {}
        BY <1>6 DEF Renewed, NewPrinter
  <2> QED BY <2>1 DEF Tags, OwnNames, Names
<1>7. ASSUME NEW t \in Type, Declares(t) PROVE Tags' /\ OwnNames'
  <2> DEFINE d == [def |-> FALSE, ty |-> t]
  <2>1. Decls_' = Append(Decls_, d) /\ SameDecls /\ UNCHANGED Declared_
        /\ ForwardDeclared_' = ForwardDeclared_ \cup {t} /\ IsComposite(t) /\ Name(t)
        BY <1>7 DEF Declares
  <2>2. /\ Len(Decls_) + 1 \in 1..Len(Decls_') /\ Decls_'[Len(Decls_) + 1] = d
        /\ \A i \in 1..Len(Decls_) : i \in 1..Len(Decls_') /\ Decls_'[i] = Decls_[i]
        BY <1>0, <2>1, DeclAdded
  <2>3. d.ty = t OBVIOUS
  <2> HIDE DEF d
  <2>4. OwnNames' BY <1>0, <2>1, NameIsNew
  <2>5. Tags' BY <2>1, <2>2, <2>3 DEF SameDecls, Tags
  <2> QED BY <2>4, <2>5
<1>8. ASSUME NEW t \in Type, DefStarts(t) PROVE Tags' /\ OwnNames'
  <2>1. /\ Len(frames') = Len(frames) + 1 /\ frames'[1].decl = t
        /\ \A i \in 1..Len(frames) : frames'[i + 1].decl = frames[i].decl
        /\ Declared_' = Declared_ \cup {t} /\ UNCHANGED <<Decls_, ForwardDeclared_>>
        /\ IsComposite(t) /\ Name(t)
        BY <1>8 DEF DefStarts
  <2>2. 1 \in 1..Len(frames') /\ \A i \in 1..Len(frames) : i + 1 \in 1..Len(frames')
        BY <1>00, <2>1
  <2>3. OwnNames' BY <1>0, <2>1, NameIsNew
  <2>4. Tags' BY <2>1, <2>2 DEF Tags
  <2> QED BY <2>3, <2>4
<1>9. ASSUME NEW t \in Type, DefEnds(t) PROVE Tags' /\ OwnNames'
  <2> DEFINE d == [def |-> TRUE, ty |-> t]
  <2>1. /\ t = frames[1].decl /\ Len(frames') = Len(frames) - 1
        /\ \A i \in 1..(Len(frames) - 1) : frames'[i] = frames[i + 1]
        /\ Decls_' = Append(Decls_, d) /\ UNCHANGED <<NamedTys_, Declared_, ForwardDeclared_>>
        BY <1>9 DEF DefEnds
  <2>2. /\ Len(Decls_) + 1 \in 1..Len(Decls_') /\ Decls_'[Len(Decls_) + 1] = d
        /\ \A i \in 1..Len(Decls_) : i \in 1..Len(Decls_') /\ Decls_'[i] = Decls_[i]
        BY <1>0, <2>1, DeclAdded
  <2>3. d.ty = t /\ d.def OBVIOUS
  <2> HIDE DEF d
  <2>4. OwnNames' BY <2>1 DEF OwnNames, Names
  <2>5. \A i \in 1..Len(frames) :
           i # 1 => i - 1 \in 1..Len(frames') /\ frames'[i - 1] = frames[i]
    <3> SUFFICES ASSUME NEW i \in 1..Len(frames), i # 1
                 PROVE  i - 1 \in 1..Len(frames') /\ frames'[i - 1] = frames[i]
        OBVIOUS
    <3>1. i - 1 \in 1..Len(frames') /\ (i - 1) + 1 = i /\ i - 1 \in 1..(Len(frames) - 1)
          BY <1>00, <2>1
    <3> QED BY <2>1, <3>1
  <2>6. \A u \in Declared_ :
          \/ \E i \in 1..Len(frames') : frames'[i].decl = u
          \/ \E i \in 1..Len(Decls_') : Decls_'[i].ty = u /\ Decls_'[i].def
        BY <2>1, <2>2, <2>3, <2>5 DEF Tags
  <2>7. \A u \in ForwardDeclared_ : \E i \in 1..Len(Decls_') : Decls_'[i].ty = u
        BY <2>2 DEF Tags
  <2>8. Tags' BY <2>1, <2>6, <2>7 DEF Tags
  <2> QED BY <2>4, <2>8
<1> QED BY <1>2, <1>3, <1>4, <1>5, <1>6, <1>7, <1>8, <1>9, StepsSplit

(* Whatever the order in which the functions of a unit come and whatever   *)
(* types they share, every structure and union that the text of wrappers   *)
(* names is declared in it, and no two of them share a name.               *)
THEOREM AllTagsDeclared == Spec => []TagsDeclared
<1>1. Init => Tags /\ OwnNames BY DEF Init, Tags, OwnNames, Names
<1>2. Typed /\ Tags /\ OwnNames /\ [Next]_vars => Tags' /\ OwnNames' BY TagsNext
<1>3. Spec => [](Typed /\ Tags /\ OwnNames) BY <1>1, <1>2, TypedInit, TypedNext, PTL DEF Spec
<1>4. Typed /\ Tags /\ OwnNames => TagsDeclared
  <2> SUFFICES ASSUME Typed, Tags, OwnNames, frames = <<>>
               PROVE  \A t, u \in DOMAIN NamedTys_ :
                        /\ \E i \in DOMAIN Decls_ : Decls_[i].ty = t
                        /\ NamedTys_[t] = NamedTys_[u] => t = u
      BY DEF TagsDeclared
  <2>1. DOMAIN Decls_ = 1..Len(Decls_) /\ \A i : i \notin 1..Len(frames)
        BY DEF Typed, DeclsTyped
  <2>2. Declared_ \cup ForwardDeclared_ = DOMAIN NamedTys_ BY DEF Typed, NamesTyped
  <2> QED BY <2>1, <2>2 DEF Tags, OwnNames, Names
<1> QED BY <1>3, <1>4, PTL

-----------------------------------------------------------------------------
(***************************************************************************)
(* The text compiles.  What an item will have declared once it is printed, *)
(* as far as clang needs it:                                               *)
(***************************************************************************)
Covers(t) ==
    Mention[t] \cup IF Def[t].kind = "function"
                    THEN Object(Def[t].elem) \cup UNION {Object(u) : u \in Range(Def[t].params)}
                    ELSE {}

ItemNeeds(it) ==
    IF it.ty = NoType THEN {}
    ELSE IF IsComposite(it.ty) THEN IF it.mode = "Full" THEN {it.ty} ELSE {}
    ELSE Covers(it.ty)

Needs(todo) == UNION {ItemNeeds(it) : it \in Range(todo)}

(* Printing an item while t is being defined defines nothing above t.      *)
Low(r, it, t) ==
    \/ it.ty = NoType
    \/ IsComposite(it.ty) /\ it.mode = "Forward"
    \/ r[it.ty] <= r[t]

(* The members of the type a text defines are declared, or to be printed.  *)
FrameOK(r, D, fr) ==
    fr.decl # NoType =>
      /\ \A f \in Range(Def[fr.decl].fields) : Object(f) \subseteq D \cup Needs(fr.todo)
      /\ \A it \in Range(fr.todo) : Low(r, it, fr.decl)

Passes(w, S) ==
    \A t \in Range(Passed(w)) \cup {Def[w.fty].elem} : Object(t) \subseteq S

DefsOK ==
    \A i \in 1..Len(Decls_) :
        Decls_[i].def => \A f \in Range(Def[Decls_[i].ty].fields) :
                            Object(f) \subseteq Defined(i - 1)

TextsOK(r) ==
    /\ \A i \in 1..Len(frames) : FrameOK(r, Declared_, frames[i])
    /\ \A i, j \in 1..Len(frames) :
          i < j /\ frames[j].decl # NoType => r[frames[i].decl] < r[frames[j].decl]
    /\ \A w \in cur : Passes(w, Declared_ \cup Needs(frames[Len(frames)].todo))
    /\ \A w \in Wrappers : Passes(w, Declared_)

Orderly(r) == TextsOK(r) /\ DefsOK /\ status = "running"

(* The parts of a type, kind by kind.                                      *)
LEMMA PartsRange ==
    ASSUME NEW item \in Items, item.ty \in Type
    PROVE  LET d == Def[item.ty]
           IN  /\ d.kind = "pointer" => Range(Parts(item)) = {Forward(d.elem)}
               /\ d.kind = "array" => Range(Parts(item)) = {Full(d.elem)}
               /\ d.kind = "function" =>
                    Range(Parts(item)) = {Full(u) : u \in Range(d.params)} \cup {Full(d.elem)}
               /\ d.kind \in {"basic", "enum", "struct", "union"} => Range(Parts(item)) = {}
               /\ Parts(Full(item.ty)) = Parts(item)
<1> DEFINE d == Def[item.ty]
<1>1. /\ d.kind \in {"basic", "enum", "pointer", "array", "function", "struct", "union"}
      /\ d.elem \in Type \cup {NoType} /\ d.params \in Seq(Type \cup {NoType})
      BY TypesAssumption
<1>2. Full(item.ty).ty = item.ty BY DEF Full
<1>3. Parts(Full(item.ty)) = Parts(item) BY <1>2 DEF Parts
<1>4. \A x : Range(<<x>>) = {x}
  <2> TAKE x
  <2>1. DOMAIN <<x>> = {1} /\ <<x>>[1] = x OBVIOUS
  <2> QED BY <2>1 DEF Range
<1>5. CASE d.kind = "pointer"
  <2>1. Parts(item) = <<Forward(d.elem)>> BY <1>5 DEF Parts
  <2> QED BY <1>3, <1>4, <1>5, <2>1
<1>6. CASE d.kind = "array"
  <2>1. Parts(item) = <<Full(d.elem)>> BY <1>6 DEF Parts
  <2> QED BY <1>3, <1>4, <1>6, <2>1
<1>7. CASE d.kind = "function"
  <2> DEFINE s == FullSeq(d.params)
             z == <<Full(d.elem)>>
  <2>1. Parts(item) = s \o z BY <1>7 DEF Parts
  <2>2. s \in Seq(Items) /\ Range(s) = {Full(d.params[i]) : i \in DOMAIN d.params}
        BY <1>1, FullItems
  <2>3. Full(d.elem) \in Items BY <1>1 DEF Full, Items
  <2>4. Range(z) = {Full(d.elem)} BY <1>4
  <2>5. z \in Seq(Items)
    <3> HIDE DEF Items
    <3> QED BY <2>3
  <2> HIDE DEF s, z, Items
  <2>6. Range(s \o z) = Range(s) \cup Range(z) BY <2>2, <2>5, RangeConcat
  <2>7. Range(s) = {Full(u) : u \in Range(d.params)} BY <2>2 DEF Range
  <2> QED BY <1>3, <1>7, <2>1, <2>4, <2>6, <2>7
<1>8. CASE d.kind \in {"basic", "enum", "struct", "union"}
  <2>1. Parts(item) = <<>> BY <1>8 DEF Parts
  <2>2. Range(<<>>) = {} BY DEF Range
  <2> QED BY <1>3, <1>8, <2>1, <2>2
<1> QED BY <1>1, <1>5, <1>6, <1>7, <1>8

LEMMA Least ==
    ASSUME NEW S \in SUBSET Nat, S # {}
    PROVE  \E n \in S : \A k \in S : n <= k
<1> DEFINE R == OpToRel(<, Nat)
<1>1. IsWellFoundedOn(R, Nat) BY NatLessThanWellFounded
<1>2. PICK n \in S : \A k \in S : ~(<<k, n>> \in R)
  <2> HIDE DEF R
  <2> QED BY <1>1, WFMin
<1>3. \A k \in S : ~(k < n) BY <1>2 DEF OpToRel
<1> QED BY <1>3

(* Mentioned looks only at the parts of a type.                            *)
LEMMA MentionedLocal ==
    ASSUME NEW t \in Type \cup {NoType}, NEW M, NEW N,
           t \in Type => \A p \in Range(Parts(Full(t))) : M[p.ty] = N[p.ty]
    PROVE  Mentioned(M, t) = Mentioned(N, t)
<1>1. CASE t = NoType BY <1>1 DEF Mentioned
<1>2. CASE t \in Type
  <2> DEFINE d == Def[t]
  <2>0. /\ d.kind \in {"basic", "enum", "pointer", "array", "function", "struct", "union"}
        /\ t # NoType
        BY <1>2, TypesAssumption
  <2>1. Full(t) \in Items /\ Full(t).ty = t BY <1>2 DEF Full, Items
  <2>2. \A u : Full(u).ty = u /\ Forward(u).ty = u BY DEF Full, Forward
  <2>3. CASE d.kind = "pointer"
    <3>1. Forward(d.elem) \in Range(Parts(Full(t))) BY <1>2, <2>1, <2>3, PartsRange
    <3>2. M[d.elem] = N[d.elem] BY <1>2, <2>2, <3>1
    <3> QED BY <2>0, <2>3, <3>2 DEF Mentioned
  <2>4. CASE d.kind = "array"
    <3>1. Full(d.elem) \in Range(Parts(Full(t))) BY <1>2, <2>1, <2>4, PartsRange
    <3>2. M[d.elem] = N[d.elem] BY <1>2, <2>2, <3>1
    <3> QED BY <2>0, <2>4, <3>2 DEF Mentioned
  <2>5. CASE d.kind = "function"
    <3>1. Range(Parts(Full(t))) = {Full(u) : u \in Range(d.params)} \cup {Full(d.elem)}
          BY <1>2, <2>1, <2>5, PartsRange
    <3>2. M[d.elem] = N[d.elem] BY <1>2, <2>2, <3>1
    <3>3. \A i \in DOMAIN d.params : d.params[i] \in Range(d.params) BY DEF Range
    <3>4. \A i \in DOMAIN d.params : M[d.params[i]] = N[d.params[i]] BY <1>2, <2>2, <3>1, <3>3
    <3>5. {M[d.params[i]] : i \in DOMAIN d.params} = {N[d.params[i]] : i \in DOMAIN d.params}
          BY <3>4
    <3> QED BY <2>0, <2>5, <3>2, <3>5 DEF Mentioned
  <2>6. CASE d.kind \in {"basic", "enum", "struct", "union"} BY <2>0, <2>6 DEF Mentioned
  <2> QED BY <2>0, <2>3, <2>4, <2>5, <2>6
<1> QED BY <1>1, <1>2

(* Types nest finitely, so Mention satisfies its equation.                 *)
LEMMA MentionUnfolds ==
    ASSUME NEW H \in Nat, NEW h, NestedBy(h, H)
    PROVE  \A t \in Type \cup {NoType} : Mention[t] = Mentioned(Mention, t)
<1> DEFINE D       == Type \cup {NoType}
           rank(t) == IF t = NoType \/ IsComposite(t) THEN 0 ELSE h[t] + 1
           Upto(M, n) == /\ M = [t \in D |-> M[t]]
                         /\ \A t \in D : rank(t) <= n => M[t] = Mentioned(M, t)
           Good(n) == \E M : Upto(M, n)
           Bad     == {n \in 0..(H + 1) : ~Good(n)}
<1>1. \A t \in D : rank(t) \in 0..(H + 1)
  <2> SUFFICES ASSUME NEW t \in D PROVE rank(t) \in 0..(H + 1) OBVIOUS
  <2>1. CASE t = NoType \/ IsComposite(t) BY <2>1
  <2>2. CASE ~(t = NoType \/ IsComposite(t))
    <3>1. h[t] \in 0..H BY <2>2 DEF NestedBy
    <3> QED BY <2>2, <3>1
  <2> QED BY <2>1, <2>2
<1>2. ASSUME NEW t \in Type, NEW p \in Range(Parts(Full(t)))
      PROVE  p.ty \in D /\ rank(p.ty) < rank(t)
  <2>1. Full(t) \in Items /\ Full(t).ty = t BY DEF Full, Items
  <2>2. ~IsComposite(t) /\ t # NoType
    <3>1. IsComposite(t) => Def[t].kind \in {"basic", "enum", "struct", "union"}
          BY DEF IsComposite
    <3> QED BY <2>1, <3>1, PartsRange, TypesAssumption
  <2>3. p.ty \in D
    <3>1. Parts(Full(t)) \in Seq(Items) BY <2>1, <2>2, PartsTyped
    <3>2. p \in Items
      <4> HIDE DEF Items
      <4> QED BY <3>1 DEF Range
    <3> QED BY <3>2 DEF Items
  <2>4. rank(t) = h[t] + 1 /\ h[t] \in 0..H BY <2>2 DEF NestedBy
  <2>5. CASE p.ty = NoType \/ IsComposite(p.ty) BY <2>3, <2>4, <2>5
  <2>6. CASE ~(p.ty = NoType \/ IsComposite(p.ty))
    <3>1. h[p.ty] < h[t] BY <2>2, <2>6 DEF NestedBy
    <3>2. h[p.ty] \in 0..H BY <2>3, <2>6 DEF NestedBy
    <3>3. rank(p.ty) = h[p.ty] + 1 BY <2>6
    <3> HIDE DEF rank
    <3> QED BY <2>3, <2>4, <3>1, <3>2, <3>3
  <2> QED BY <2>5, <2>6
<1>3. Good(0)
  <2> DEFINE M == [t \in D |-> {}]
  <2>1. ASSUME NEW t \in D, rank(t) <= 0 PROVE Mentioned(M, t) = {}
    <3>1. t = NoType \/ IsComposite(t)
      <4> SUFFICES ASSUME ~(t = NoType \/ IsComposite(t)) PROVE FALSE OBVIOUS
      <4>1. rank(t) = h[t] + 1 /\ h[t] \in 0..H BY DEF NestedBy
      <4> HIDE DEF rank
      <4> QED BY <2>1, <4>1
    <3>2. CASE t = NoType BY <3>2 DEF Mentioned
    <3>3. CASE t # NoType
      <4>1. Def[t].kind = "struct" \/ Def[t].kind = "union" BY <3>1, <3>3 DEF IsComposite
      <4>2. CASE Def[t].kind = "struct" BY <3>3, <4>2 DEF Mentioned
      <4>3. CASE Def[t].kind = "union" BY <3>3, <4>3 DEF Mentioned
      <4> QED BY <4>1, <4>2, <4>3
    <3> QED BY <3>2, <3>3
  <2>2. M = [t \in D |-> M[t]] /\ \A t \in D : M[t] = {} OBVIOUS
  <2> HIDE DEF M, rank
  <2>3. Upto(M, 0) BY <2>1, <2>2
  <2> QED BY <2>3
<1> HIDE DEF rank
<1>4. ASSUME NEW n \in 0..(H + 1), n # 0, Good(n - 1) PROVE Good(n)
  <2>1. PICK M : Upto(M, n - 1) BY <1>4
  <2> DEFINE E == [t \in D |-> IF rank(t) = n THEN Mentioned(M, t) ELSE M[t]]
  <2>2. E = [t \in D |-> E[t]]
        /\ \A t \in D : E[t] = IF rank(t) = n THEN Mentioned(M, t) ELSE M[t]
        OBVIOUS
  <2> HIDE DEF E
  <2>3. ASSUME NEW t \in D, rank(t) <= n PROVE E[t] = Mentioned(E, t)
    <3>1. t \in Type => \A p \in Range(Parts(Full(t))) : M[p.ty] = E[p.ty]
      <4> SUFFICES ASSUME t \in Type, NEW p \in Range(Parts(Full(t))) PROVE M[p.ty] = E[p.ty]
          OBVIOUS
      <4>1. p.ty \in D /\ rank(p.ty) < rank(t) BY <1>2
      <4>2. rank(p.ty) # n BY <1>1, <2>3, <4>1
      <4> QED BY <2>2, <4>1, <4>2
    <3>2. Mentioned(M, t) = Mentioned(E, t) BY <3>1, MentionedLocal
    <3>3. CASE rank(t) = n BY <2>2, <3>2, <3>3
    <3>4. CASE rank(t) # n
      <4>1. rank(t) <= n - 1 BY <1>1, <2>3, <3>4
      <4>2. M[t] = Mentioned(M, t) BY <2>1, <4>1
      <4> QED BY <2>2, <3>2, <3>4, <4>2
    <3> QED BY <3>3, <3>4
  <2>4. Upto(E, n) BY <2>2, <2>3
  <2> QED BY <2>4
<1>5. Good(H + 1)
  <2> SUFFICES ASSUME ~Good(H + 1) PROVE FALSE OBVIOUS
  <2>1. Bad \in SUBSET Nat /\ H + 1 \in Bad OBVIOUS
  <2> HIDE DEF Good
  <2>2. PICK n \in Bad : \A k \in Bad : n <= k
    <3> HIDE DEF Bad
    <3> QED BY <2>1, Least
  <2>3. n \in 0..(H + 1) /\ ~Good(n) OBVIOUS
  <2>4. n # 0 BY <1>3, <2>3
  <2>5. n - 1 \in 0..(H + 1) /\ ~(n <= n - 1) BY <2>3, <2>4
  <2>6. Good(n - 1) BY <2>2, <2>5
  <2> QED BY <1>4, <2>3, <2>4, <2>6
<1>6. PICK M : Upto(M, H + 1) BY <1>5
<1>7. \A t \in D : M[t] = Mentioned(M, t) BY <1>1, <1>6
<1>8. M = [t \in D |-> Mentioned(M, t)] BY <1>6, <1>7
<1>9. Mention = [t \in D |-> Mentioned(Mention, t)] BY <1>8 DEF Mention
<1> QED BY <1>9

(* What mentioning a type needs, kind by kind.                             *)
LEMMA MentionIs ==
    ASSUME NEW H \in Nat, NEW h, NestedBy(h, H)
    PROVE  /\ Mention[NoType] = {} /\ Object(NoType) = {}
           /\ \A t \in Type :
                /\ IsComposite(t) => Mention[t] = {} /\ Object(t) = {t}
                /\ ~IsComposite(t) => Object(t) = Mention[t]
                /\ Mention[t] \subseteq Object(t)
                /\ Def[t].kind = "pointer" => Mention[t] = Mention[Def[t].elem]
                /\ Def[t].kind = "array" => Mention[t] = Object(Def[t].elem)
                /\ Def[t].kind = "function" =>
                     Mention[t] = Mention[Def[t].elem]
                                    \cup UNION {Mention[u] : u \in Range(Def[t].params)}
                /\ Def[t].kind \in {"basic", "enum"} => Mention[t] = {}
<1>1. \A t \in Type \cup {NoType} : Mention[t] = Mentioned(Mention, t) BY MentionUnfolds
<1>2. Mention[NoType] = {} /\ Object(NoType) = {}
  <2>1. Mention[NoType] = {} BY <1>1 DEF Mentioned
  <2>2. ~IsComposite(NoType) BY DEF IsComposite
  <2> QED BY <2>1, <2>2 DEF Object
<1> SUFFICES ASSUME NEW t \in Type
             PROVE  /\ IsComposite(t) => Mention[t] = {} /\ Object(t) = {t}
                    /\ ~IsComposite(t) => Object(t) = Mention[t]
                    /\ Mention[t] \subseteq Object(t)
                    /\ Def[t].kind = "pointer" => Mention[t] = Mention[Def[t].elem]
                    /\ Def[t].kind = "array" => Mention[t] = Object(Def[t].elem)
                    /\ Def[t].kind = "function" =>
                         Mention[t] = Mention[Def[t].elem]
                                        \cup UNION {Mention[u] : u \in Range(Def[t].params)}
                    /\ Def[t].kind \in {"basic", "enum"} => Mention[t] = {}
    BY <1>2
<1> DEFINE d == Def[t]
<1>3. t # NoType /\ Mention[t] = Mentioned(Mention, t) BY <1>1, TypesAssumption
<1>4. IsComposite(t) => Mention[t] = {} BY <1>3 DEF IsComposite, Mentioned
<1>5. d.kind = "pointer" => Mention[t] = Mention[d.elem] BY <1>3 DEF Mentioned
<1>6. d.kind = "array" => Mention[t] = Object(d.elem)
      BY <1>3 DEF Mentioned, Object
<1>7. d.kind = "function" =>
         Mention[t] = Mention[d.elem] \cup UNION {Mention[u] : u \in Range(d.params)}
  <2>1. {Mention[u] : u \in Range(d.params)} = {Mention[d.params[i]] : i \in DOMAIN d.params}
        BY DEF Range
  <2> QED BY <1>3, <2>1 DEF Mentioned
<1>8. d.kind \in {"basic", "enum"} => Mention[t] = {} BY <1>3 DEF Mentioned
<1>9. /\ IsComposite(t) => Object(t) = {t}
      /\ ~IsComposite(t) => Object(t) = Mention[t]
      BY DEF Object
<1>10. Mention[t] \subseteq Object(t) BY <1>4, <1>9
<1> QED BY <1>4, <1>5, <1>6, <1>7, <1>8, <1>9, <1>10

(* An object's type, printed in full, declares what the object needs.      *)
LEMMA FullNeeds ==
    ASSUME NEW H \in Nat, NEW h, NestedBy(h, H), NEW t \in Type \cup {NoType}
    PROVE  /\ Object(t) \subseteq ItemNeeds(Full(t))
           /\ Mention[t] \subseteq ItemNeeds(Forward(t))
<1>1. /\ Full(t).ty = t /\ Full(t).mode = "Full"
      /\ Forward(t).ty = t /\ Forward(t).mode = "Forward"
      BY DEF Full, Forward
<1>2. CASE t = NoType BY <1>1, <1>2, MentionIs DEF ItemNeeds
<1>3. CASE t \in Type /\ IsComposite(t)
  <2>1. t # NoType BY <1>3 DEF IsComposite
  <2>2. Mention[t] = {} /\ Object(t) = {t} BY <1>3, MentionIs
  <2> QED BY <1>1, <1>3, <2>1, <2>2 DEF ItemNeeds
<1>4. CASE t \in Type /\ ~IsComposite(t)
  <2>1. t # NoType BY <1>4, TypesAssumption
  <2>2. Object(t) = Mention[t] BY <1>4, MentionIs
  <2>3. Mention[t] \subseteq Covers(t) BY DEF Covers
  <2> QED BY <1>1, <1>4, <2>1, <2>2, <2>3 DEF ItemNeeds
<1> QED BY <1>2, <1>3, <1>4

(* Printing an item's parts declares what the item needs.                  *)
LEMMA PartsNeed ==
    ASSUME NEW H \in Nat, NEW h, NestedBy(h, H),
           NEW item \in Items, item.ty \in Type, ~IsComposite(item.ty)
    PROVE  ItemNeeds(item) \subseteq Needs(Parts(item))
<1> DEFINE t == item.ty
           d == Def[t]
           P == Range(Parts(item))
<1>1. /\ d.kind \in {"basic", "enum", "pointer", "array", "function", "struct", "union"}
      /\ d.elem \in Type \cup {NoType} /\ d.params \in Seq(Type \cup {NoType}) /\ t # NoType
      BY TypesAssumption
<1>2. d.kind \notin {"struct", "union"} BY <1>1 DEF IsComposite
<1>3. ItemNeeds(item) = Covers(t) BY <1>1 DEF ItemNeeds
<1>4. \A p \in P : ItemNeeds(p) \subseteq Needs(Parts(item)) BY DEF Needs
<1> HIDE DEF t
<1>5. CASE d.kind = "pointer"
  <2>1. Covers(t) = Mention[d.elem] BY <1>5, MentionIs DEF Covers, t
  <2>2. Forward(d.elem) \in P BY <1>5, PartsRange DEF t
  <2>3. Mention[d.elem] \subseteq ItemNeeds(Forward(d.elem)) BY <1>1, FullNeeds
  <2> QED BY <1>3, <1>4, <2>1, <2>2, <2>3
<1>6. CASE d.kind = "array"
  <2>1. Covers(t) = Object(d.elem) BY <1>6, MentionIs DEF Covers, t
  <2>2. Full(d.elem) \in P BY <1>6, PartsRange DEF t
  <2>3. Object(d.elem) \subseteq ItemNeeds(Full(d.elem)) BY <1>1, FullNeeds
  <2> QED BY <1>3, <1>4, <2>1, <2>2, <2>3
<1>7. CASE d.kind = "function"
  <2>1. P = {Full(u) : u \in Range(d.params)} \cup {Full(d.elem)} BY <1>7, PartsRange DEF t
  <2>2. \A u \in Range(d.params) : u \in Type \cup {NoType} BY <1>1 DEF Range
  <2>3. \A u \in Range(d.params) \cup {d.elem} : Object(u) \subseteq Needs(Parts(item))
    <3> SUFFICES ASSUME NEW u \in Range(d.params) \cup {d.elem}
                 PROVE  Object(u) \subseteq Needs(Parts(item))
        OBVIOUS
    <3>1. u \in Type \cup {NoType} BY <1>1, <2>2
    <3>2. Object(u) \subseteq ItemNeeds(Full(u)) BY <3>1, FullNeeds
    <3>3. Full(u) \in P BY <2>1
    <3> QED BY <1>4, <3>2, <3>3
  <2>4. \A u \in Type \cup {NoType} : Mention[u] \subseteq Object(u) BY MentionIs
  <2>5. Mention[t] \subseteq Object(d.elem) \cup UNION {Object(u) : u \in Range(d.params)}
    <3>1. Mention[t] = Mention[d.elem] \cup UNION {Mention[u] : u \in Range(d.params)}
          BY <1>7, MentionIs DEF t
    <3> QED BY <1>1, <2>2, <2>4, <3>1
  <2>6. Covers(t) = Object(d.elem) \cup UNION {Object(u) : u \in Range(d.params)}
        BY <1>7, <2>5 DEF Covers
  <2> HIDE DEF P, d
  <2> QED BY <1>3, <2>3, <2>6
<1>8. CASE d.kind \in {"basic", "enum"}
  <2>1. Covers(t) = {} BY <1>8, MentionIs DEF Covers, t
  <2> QED BY <1>3, <2>1
<1> QED BY <1>1, <1>2, <1>5, <1>6, <1>7, <1>8

(* The text of a wrapper declares what the wrapper passes.                 *)
LEMMA WrapperNeeds ==
    ASSUME NEW H \in Nat, NEW h, NestedBy(h, H), ArgumentsComplete, NEW w \in Wrapper
    PROVE  Passes(w, Needs(WrapperItems(w))) /\ NoType \notin Range(Passed(w))
<1> DEFINE d == Def[w.fty]
           S == Needs(WrapperItems(w))
           P == Range(WrapperItems(w))
<1>1. /\ w.fty \in FuncTy /\ w.args \in {<<>>} \cup VarArgs[w.fty] /\ w.args \in Seq(Type)
      /\ w.fty \in Type /\ d.kind = "function" /\ d.elem \in Type \cup {NoType}
      /\ d.params \in Seq(Type \cup {NoType})
      /\ Passed(w) \in Seq(Type \cup {NoType})
      /\ Range(Passed(w)) = Range(d.params) \cup Range(w.args)
      BY WrapperTyped
<1>2. P = {Forward(w.fty), Forward(d.elem)} \cup {Forward(t) : t \in Range(Passed(w))}
      BY WrapperFrame
<1>3. \A p \in P : ItemNeeds(p) \subseteq S BY DEF Needs
<1>4. \A u \in Range(w.args) : u \in Type BY <1>1 DEF Range
<1>5. NoType \notin Range(Passed(w)) BY <1>1, <1>4, TypesAssumption DEF ArgumentsComplete
<1>6. Covers(w.fty) \subseteq S
  <2>1. Forward(w.fty).ty = w.fty BY DEF Forward
  <2>2. w.fty # NoType /\ ~IsComposite(w.fty) BY <1>1, TypesAssumption DEF IsComposite
  <2>3. ItemNeeds(Forward(w.fty)) = Covers(w.fty) BY <2>1, <2>2 DEF ItemNeeds
  <2>4. Forward(w.fty) \in P BY <1>2
  <2> QED BY <1>3, <2>3, <2>4
<1>7. \A u \in Range(d.params) \cup {d.elem} : Object(u) \subseteq S
  <2>1. \A u \in Range(d.params) \cup {d.elem} : Object(u) \subseteq Covers(w.fty)
        BY <1>1 DEF Covers
  <2> QED BY <1>6, <2>1
<1>8. ASSUME NEW u \in Range(w.args) PROVE Object(u) \subseteq S
  <2>1. u \in Type /\ Forward(u) \in P BY <1>1, <1>2, <1>4
  <2>2. CASE IsComposite(u)
    <3>1. w.args # <<>>
      <4>1. Range(<<>>) = {} BY DEF Range
      <4> QED BY <4>1
    <3>2. \E v \in Range(d.params) \cup {d.elem} : u \in Object(v)
          BY <1>1, <2>2, <3>1 DEF ArgumentsComplete
    <3>3. Object(u) = {u} BY <2>1, <2>2, MentionIs
    <3> HIDE DEF d, S, P
    <3> QED BY <1>7, <3>2, <3>3
  <2>3. CASE ~IsComposite(u)
    <3>1. Object(u) = Mention[u] BY <2>1, <2>3, MentionIs
    <3>2. Mention[u] \subseteq ItemNeeds(Forward(u)) BY <2>1, FullNeeds
    <3> QED BY <1>3, <2>1, <3>1, <3>2
  <2> QED BY <2>2, <2>3
<1> HIDE DEF S, d
<1>9. \A u \in Range(Passed(w)) \cup {d.elem} : Object(u) \subseteq S BY <1>1, <1>7, <1>8
<1> QED BY <1>5, <1>9 DEF Passes, S, d

LEMMA NeedsSplit ==
    ASSUME FramesTyped, frames # <<>>, top.todo # <<>>
    PROVE  Needs(top.todo) = ItemNeeds(Item) \cup Needs(Tail(top.todo))
<1>1. Range(top.todo) = {Item} \cup Range(Tail(top.todo)) BY FirstItem
<1> QED BY <1>1 DEF Needs

(* A text in order stays so when it goes on and more is declared.          *)
LEMMA FrameStep ==
    ASSUME NEW r, NEW D, NEW D2, D \subseteq D2, NEW fr, NEW fr2, FrameOK(r, D, fr),
           fr2.decl = fr.decl, Needs(fr.todo) \subseteq D2 \cup Needs(fr2.todo),
           fr.decl # NoType => \A it \in Range(fr2.todo) : Low(r, it, fr.decl)
    PROVE  FrameOK(r, D2, fr2)
<1> SUFFICES ASSUME fr.decl # NoType PROVE FrameOK(r, D2, fr2) BY DEF FrameOK
<1>1. \A f \in Range(Def[fr.decl].fields) : Object(f) \subseteq D \cup Needs(fr.todo)
      BY DEF FrameOK
<1>2. \A f \in Range(Def[fr2.decl].fields) : Object(f) \subseteq D2 \cup Needs(fr2.todo)
      BY <1>1
<1> QED BY <1>2 DEF FrameOK

LEMMA FrameKept ==
    ASSUME NEW r, NEW D, NEW D2, D \subseteq D2, NEW fr, FrameOK(r, D, fr)
    PROVE  FrameOK(r, D2, fr)
<1>1. fr.decl # NoType => \A it \in Range(fr.todo) : Low(r, it, fr.decl) BY DEF FrameOK
<1> QED BY <1>1, FrameStep

LEMMA PassesMore ==
    ASSUME NEW w, NEW S, NEW S2, S \subseteq S2, Passes(w, S)
    PROVE  Passes(w, S2)
BY DEF Passes

(* The innermost text goes on.                                             *)
LEMMA TextsGoOn ==
    ASSUME NEW r, FramesTyped, TextsOK(r), frames # <<>>,
           NEW todo \in Seq(Items), frames' = Next1(todo),
           UNCHANGED <<cur, Wrappers, Declared_>>,
           Needs(top.todo) \subseteq Declared_ \cup Needs(todo),
           top.decl # NoType => \A it \in Range(todo) : Low(r, it, top.decl)
    PROVE  TextsOK(r)'
<1>1. /\ Len(frames') = Len(frames)
      /\ \A i \in 1..Len(frames) : frames'[i].decl = frames[i].decl
      /\ frames'[1].todo = todo
      /\ \A i \in 2..Len(frames) : frames'[i] = frames[i]
      BY TextGoesOn
<1>2. Len(frames) \in Nat \ {0} BY Innermost
<1>3. \A i \in 1..Len(frames) : i = 1 \/ i \in 2..Len(frames) BY <1>2
<1>4. ASSUME NEW i \in 1..Len(frames) PROVE FrameOK(r, Declared_, frames'[i])
  <2>1. FrameOK(r, Declared_, frames[i]) BY DEF TextsOK
  <2>2. CASE i = 1
    <3>1. FrameOK(r, Declared_, top) /\ frames'[1].decl = top.decl
          BY <1>1, <2>1, <2>2 DEF top
    <3>2. FrameOK(r, Declared_, frames'[1]) BY <1>1, <3>1, FrameStep
    <3> QED BY <2>2, <3>2
  <2>3. CASE i \in 2..Len(frames) BY <1>1, <2>1, <2>3
  <2> QED BY <1>3, <2>2, <2>3
<1>5. ASSUME NEW w \in cur PROVE Passes(w, Declared_ \cup Needs(frames'[Len(frames)].todo))
  <2>1. Passes(w, Declared_ \cup Needs(frames[Len(frames)].todo)) BY DEF TextsOK
  <2>2. CASE Len(frames) = 1
    <3>1. Declared_ \cup Needs(frames[Len(frames)].todo)
            \subseteq Declared_ \cup Needs(frames'[Len(frames)].todo)
          BY <1>1, <2>2 DEF top
    <3> QED BY <2>1, <3>1, PassesMore
  <2>3. CASE Len(frames) # 1
    <3>0. \A n \in Nat \ {0} : n # 1 => n \in 2..n OBVIOUS
    <3>1. Len(frames) \in 2..Len(frames) BY <1>2, <2>3, <3>0
    <3> QED BY <1>1, <2>1, <3>1
  <2> QED BY <2>2, <2>3
<1>6. ASSUME NEW i \in 1..Len(frames), NEW j \in 1..Len(frames), i < j, frames'[j].decl # NoType
      PROVE  r[frames'[i].decl] < r[frames'[j].decl]
      BY <1>1, <1>6 DEF TextsOK
<1>7. \A w \in Wrappers : Passes(w, Declared_) BY DEF TextsOK
<1> QED BY <1>1, <1>4, <1>5, <1>6, <1>7 DEF TextsOK

(* A definition is to be printed first.                                    *)
LEMMA TextsStart ==
    ASSUME NEW r, OrderedBy(r), NEW H \in Nat, NEW h, NestedBy(h, H),
           FramesTyped, NamesTyped, TextsOK(r), frames # <<>>,
           top.todo # <<>>, NEW t \in Type, IsComposite(t), t \notin Declared_,
           Item.ty = t, Item.mode = "Full",
           frames' = <<Frame(t, FullSeq(Def[t].fields))>> \o Next1(Tail(top.todo)),
           Declared_' = Declared_ \cup {t}, UNCHANGED <<cur, Wrappers>>
    PROVE  TextsOK(r)'
<1> DEFINE new  == Frame(t, FullSeq(Def[t].fields))
           rest == Tail(top.todo)
           D    == Declared_ \cup {t}
<1>0. new \in Frames /\ new.decl = t /\ new.todo = FullSeq(Def[t].fields) BY FieldsFrame
<1>1. /\ Item \in Items /\ rest \in Seq(Items)
      /\ Range(top.todo) = {Item} \cup Range(rest)
      BY FirstItem
<1>2. Len(frames) \in Nat \ {0} /\ t # NoType BY Innermost DEF IsComposite
<1> HIDE DEF new, rest
<1>3. /\ Len(frames') = Len(frames) + 1
      /\ frames'[1] = new /\ frames'[2].todo = rest
      /\ \A i \in 1..Len(frames) : frames'[i + 1].decl = frames[i].decl
      /\ \A i \in 2..Len(frames) : frames'[i + 1] = frames[i]
  <2>1. frames' = <<new>> \o Next1(rest) BY DEF new, rest
  <2> QED BY <1>0, <1>1, <2>1, TextStarts
<1>4. Needs(top.todo) \subseteq D \cup Needs(rest)
  <2>1. ItemNeeds(Item) = {t} BY <1>2 DEF ItemNeeds
  <2> QED BY <2>1, NeedsSplit DEF rest
<1>5. FrameOK(r, D, new)
  <2> DEFINE s == Def[t].fields
  <2>1. s \in Seq(Type) /\ s \in Seq(Type \cup {NoType}) BY TypesAssumption
  <2>2. Range(FullSeq(s)) = {Full(s[i]) : i \in DOMAIN s} BY <2>1, FullItems
  <2>3. ASSUME NEW f \in Range(s) PROVE Object(f) \subseteq Needs(FullSeq(s))
    <3>1. PICK i \in DOMAIN s : f = s[i] BY DEF Range
    <3>2. f \in Type \cup {NoType} /\ Full(f) \in Range(FullSeq(s)) BY <2>1, <2>2, <3>1
    <3>3. Object(f) \subseteq ItemNeeds(Full(f)) BY <3>2, FullNeeds
    <3> QED BY <3>2, <3>3 DEF Needs
  <2>4. ASSUME NEW it \in Range(FullSeq(s)) PROVE Low(r, it, t)
    <3>1. PICK i \in DOMAIN s : it = Full(s[i]) BY <2>2
    <3>2. it.ty = s[i] /\ s[i] \in Range(s) BY <3>1 DEF Full, Range
    <3>3. r[it.ty] <= r[t] BY <3>2 DEF OrderedBy
    <3> QED BY <3>3 DEF Low
  <2> HIDE DEF s
  <2> QED BY <1>0, <2>3, <2>4 DEF FrameOK, s
<1>6. ASSUME NEW i \in 1..Len(frames) PROVE FrameOK(r, D, frames'[i + 1])
  <2>1. FrameOK(r, Declared_, frames[i]) BY DEF TextsOK
  <2>2. CASE i = 1
    <3>1. FrameOK(r, Declared_, top) /\ frames'[i + 1].decl = top.decl
          /\ frames'[i + 1].todo = rest
      <4>1. i + 1 = 2 BY <2>2
      <4> QED BY <1>3, <2>1, <2>2, <4>1 DEF top
    <3>2. top.decl # NoType => \A it \in Range(rest) : Low(r, it, top.decl)
          BY <1>1, <3>1 DEF FrameOK
    <3> HIDE DEF D
    <3>3. Declared_ \subseteq D BY DEF D
    <3> DEFINE fr2 == frames'[i + 1]
    <3>4. fr2.decl = top.decl /\ Needs(top.todo) \subseteq D \cup Needs(fr2.todo)
          /\ (top.decl # NoType => \A it \in Range(fr2.todo) : Low(r, it, top.decl))
          BY <1>4, <3>1, <3>2
    <3> HIDE DEF fr2
    <3>5. FrameOK(r, D, fr2) BY <3>1, <3>3, <3>4, FrameStep
    <3> QED BY <3>5 DEF fr2
  <2>3. CASE i # 1
    <3>1. i \in 2..Len(frames) BY <1>2, <2>3
    <3>2. Declared_ \subseteq D OBVIOUS
    <3> HIDE DEF D
    <3> QED BY <1>3, <2>1, <3>1, <3>2, FrameKept
  <2> QED BY <2>2, <2>3
<1>7. ASSUME NEW j \in 1..Len(frames), frames[j].decl # NoType PROVE r[t] < r[frames[j].decl]
  <2>1. 1 \in 1..Len(frames) BY <1>2
  <2>2. top.decl # NoType
    <3>1. CASE j = 1 BY <1>7, <3>1 DEF top
    <3>2. CASE j # 1
      <4>0. \A k \in 1..1 : k = 1 OBVIOUS
      <4>1. Len(frames) # 1 BY <3>2, <4>0
      <4> QED BY <2>1, <4>1 DEF FramesTyped, top
    <3> QED BY <3>1, <3>2
  <2>3. top.decl \in Declared_ /\ top.decl \in Type
        BY <2>1, <2>2, Innermost DEF FramesTyped, top
  <2>03. IsComposite(top.decl) BY <2>3 DEF NamesTyped
  <2>4. Low(r, Item, top.decl)
    <3>1. FrameOK(r, Declared_, top) BY <2>1 DEF TextsOK, top
    <3> QED BY <1>1, <2>2, <3>1 DEF FrameOK
  <2>5. r[t] <= r[top.decl] BY <1>2, <2>4 DEF Low
  <2>6. r \in [Type -> Nat] BY DEF OrderedBy
  <2>7. r[t] < r[top.decl]
    <3>1. ASSUME r[t] = r[top.decl] PROVE FALSE
      <4>1. t = top.decl BY <2>3, <2>03, <3>1 DEF OrderedBy
      <4> QED BY <2>3, <4>1
    <3> QED BY <2>3, <2>5, <2>6, <3>1
  <2>8. CASE j = 1 BY <2>7, <2>8 DEF top
  <2>9. CASE j # 1
    <3>1. 1 < j BY <1>2, <2>9
    <3>2. r[top.decl] < r[frames[j].decl] BY <1>7, <2>1, <3>1 DEF TextsOK, top
    <3>3. frames[j].decl \in Type
      <4>1. frames[j] \in Frames
        <5> HIDE DEF Frames
        <5> QED BY DEF FramesTyped
      <4> QED BY <1>7, <4>1 DEF Frames
    <3> QED BY <2>3, <2>6, <2>7, <3>2, <3>3
  <2> QED BY <2>8, <2>9
<1>8. \A i \in 1..Len(frames') : i # 1 =>
         i - 1 \in 1..Len(frames) /\ (i - 1) + 1 = i
      BY <1>2, <1>3
<1>9. ASSUME NEW i \in 1..Len(frames') PROVE FrameOK(r, D, frames'[i])
  <2>1. CASE i = 1 BY <1>3, <1>5, <2>1
  <2>2. CASE i # 1
    <3>1. i - 1 \in 1..Len(frames) /\ (i - 1) + 1 = i BY <1>8, <2>2
    <3>2. FrameOK(r, D, frames'[(i - 1) + 1]) BY <1>6, <3>1
    <3> QED BY <3>1, <3>2
  <2> QED BY <2>1, <2>2
<1>10. ASSUME NEW i \in 1..Len(frames'), NEW j \in 1..Len(frames'), i < j,
              frames'[j].decl # NoType
       PROVE  r[frames'[i].decl] < r[frames'[j].decl]
  <2>1. j # 1 BY <1>10
  <2>2. j - 1 \in 1..Len(frames) /\ (j - 1) + 1 = j BY <1>8, <2>1
  <2>3. frames'[j].decl = frames[j - 1].decl BY <1>3, <2>2
  <2>4. CASE i = 1 BY <1>0, <1>3, <1>7, <1>10, <2>2, <2>3, <2>4
  <2>5. CASE i # 1
    <3>1. i - 1 \in 1..Len(frames) /\ (i - 1) + 1 = i BY <1>8, <2>5
    <3>2. frames'[i].decl = frames[i - 1].decl BY <1>3, <3>1
    <3>3. i - 1 < j - 1 BY <1>2, <1>3, <1>10
    <3> QED BY <1>10, <2>2, <2>3, <3>1, <3>2, <3>3 DEF TextsOK
  <2> QED BY <2>4, <2>5
<1>11. ASSUME NEW w \in cur PROVE Passes(w, D \cup Needs(frames'[Len(frames')].todo))
  <2>1. Passes(w, Declared_ \cup Needs(frames[Len(frames)].todo)) BY DEF TextsOK
  <2>2. Declared_ \cup Needs(frames[Len(frames)].todo)
           \subseteq D \cup Needs(frames'[Len(frames')].todo)
    <3>1. CASE Len(frames) = 1
      <4>1. Len(frames') = 2 BY <1>3, <3>1
      <4> QED BY <1>3, <1>4, <3>1, <4>1 DEF top
    <3>2. CASE Len(frames) # 1
      <4>0. \A n \in Nat \ {0} : n # 1 => n \in 2..n OBVIOUS
      <4>1. Len(frames) \in 2..Len(frames) BY <1>2, <3>2, <4>0
      <4>2. frames'[Len(frames')] = frames[Len(frames)] BY <1>3, <4>1
      <4> QED BY <4>2
    <3> QED BY <3>1, <3>2
  <2> QED BY <2>1, <2>2, PassesMore
<1>12. ASSUME NEW w \in Wrappers PROVE Passes(w, D)
  <2>1. Passes(w, Declared_) BY DEF TextsOK
  <2>2. Declared_ \subseteq D OBVIOUS
  <2> HIDE DEF D
  <2> QED BY <2>1, <2>2, PassesMore
<1>13. Declared_' = D /\ cur' = cur /\ Wrappers' = Wrappers OBVIOUS
<1> HIDE DEF D
<1>14. /\ \A i \in 1..Len(frames') : FrameOK(r, Declared_', frames'[i])
       /\ \A w \in cur' : Passes(w, Declared_' \cup Needs(frames'[Len(frames')].todo))
       /\ \A w \in Wrappers' : Passes(w, Declared_')
       BY <1>9, <1>11, <1>12, <1>13
<1>15. \A i, j \in 1..Len(frames') :
         i < j /\ frames'[j].decl # NoType => r[frames'[i].decl] < r[frames'[j].decl]
       BY <1>10
<1> QED BY <1>14, <1>15, Zenon DEF TextsOK

(* A definition ends, and so does the text of a wrapper.                   *)
LEMMA TextsEnd ==
    ASSUME NEW r, FramesTyped, TextsOK(r), frames # <<>>, Len(frames) # 1,
           frames' = Tail(frames), UNCHANGED <<cur, Wrappers, Declared_>>
    PROVE  TextsOK(r)'
<1>1. /\ Len(frames') = Len(frames) - 1 /\ Len(frames) \in Nat \ {0}
      /\ \A i \in 1..(Len(frames) - 1) : frames'[i] = frames[i + 1]
      BY TextEnds, Innermost
<1>2. \A i \in 1..Len(frames') : i + 1 \in 1..Len(frames) /\ frames'[i] = frames[i + 1]
      BY <1>1
<1>3. frames'[Len(frames')] = frames[Len(frames)]
  <2>1. \A n \in Nat \ {0} : n # 1 => n - 1 \in 1..(n - 1) /\ (n - 1) + 1 = n OBVIOUS
  <2>2. Len(frames) - 1 \in 1..(Len(frames) - 1) /\ (Len(frames) - 1) + 1 = Len(frames)
        BY <1>1, <2>1
  <2> QED BY <1>1, <2>2
<1>4. \A i \in 1..Len(frames') : FrameOK(r, Declared_, frames'[i]) BY <1>2 DEF TextsOK
<1>5. ASSUME NEW i \in 1..Len(frames'), NEW j \in 1..Len(frames'), i < j,
             frames'[j].decl # NoType
      PROVE  r[frames'[i].decl] < r[frames'[j].decl]
  <2>1. i + 1 < j + 1 BY <1>1, <1>5
  <2> QED BY <1>2, <1>5, <2>1 DEF TextsOK
<1>6. /\ \A w \in cur : Passes(w, Declared_ \cup Needs(frames'[Len(frames')].todo))
      /\ \A w \in Wrappers : Passes(w, Declared_)
      BY <1>3 DEF TextsOK
<1> QED BY <1>4, <1>5, <1>6 DEF TextsOK

LEMMA DefsGrow ==
    ASSUME DeclsTyped, DefsOK, NEW b \in BOOLEAN, NEW t \in Type,
           Decls_' = Append(Decls_, [def |-> b, ty |-> t]),
           b => \A f \in Range(Def[t].fields) : Object(f) \subseteq Defined(Len(Decls_))
    PROVE  DefsOK'
<1> DEFINE d == [def |-> b, ty |-> t]
           DefinedNext(n) == {Decls_'[i].ty : i \in {i \in 1..n : Decls_'[i].def}}
<1>1. /\ Len(Decls_) \in Nat /\ Len(Decls_') = Len(Decls_) + 1
      /\ Decls_'[Len(Decls_) + 1] = d
      /\ \A i \in 1..Len(Decls_) : Decls_'[i] = Decls_[i]
      /\ \A i \in 1..Len(Decls_') : i \in 1..Len(Decls_) \/ i = Len(Decls_) + 1
      BY DeclAdded
<1>2. d.def = b /\ d.ty = t OBVIOUS
<1> HIDE DEF d
<1>3. ASSUME NEW n \in 0..Len(Decls_) PROVE DefinedNext(n) = Defined(n)
  <2>1. \A i \in 1..n : Decls_'[i] = Decls_[i] BY <1>1
  <2> QED BY <2>1 DEF Defined
<1> HIDE DEF DefinedNext
<1>4. ASSUME NEW i \in 1..Len(Decls_'), Decls_'[i].def, NEW f \in Range(Def[Decls_'[i].ty].fields)
      PROVE  Object(f) \subseteq DefinedNext(i - 1)
  <2>1. CASE i \in 1..Len(Decls_)
    <3>1. Decls_'[i] = Decls_[i] /\ i - 1 \in 0..Len(Decls_) BY <1>1, <2>1
    <3>2. Object(f) \subseteq Defined(i - 1) BY <1>4, <2>1, <3>1 DEF DefsOK
    <3> QED BY <1>3, <3>1, <3>2
  <2>2. CASE i = Len(Decls_) + 1
    <3>1. i - 1 = Len(Decls_) /\ Len(Decls_) \in 0..Len(Decls_) BY <1>1, <2>2
    <3>2. b /\ f \in Range(Def[t].fields) BY <1>1, <1>2, <1>4, <2>2
    <3> QED BY <1>3, <3>1, <3>2
  <2> QED BY <1>1, <2>1, <2>2
<1> QED BY <1>4 DEF DefsOK, Defined, DefinedNext

(* Between wrappers, what is declared in full is defined.                  *)
LEMMA AllDefined ==
    ASSUME Typed, Tags
    PROVE  \A t \in Declared_ : (\A i \in 1..Len(frames) : frames[i].decl # t)
                                  => t \in Defined(Len(Decls_))
BY DEF Tags, Defined

LEMMA ItCompiles ==
    ASSUME NEW r, NEW H \in Nat, NEW h, NestedBy(h, H), ArgumentsComplete,
           Typed, Once, Tags, OwnNames, Orderly(r), frames = <<>>
    PROVE  Compiles
<1>1. DOMAIN Decls_ = 1..Len(Decls_) BY DEF Typed, DeclsTyped
<1>2. \A i \in 1..Len(Decls_) : Decls_[i].ty \in Names BY DEF Typed, DeclsTyped, Names
<1>3. \A i, j \in DOMAIN Decls_ :
         Decls_[i].def /\ Decls_[j].def /\ NamedTys_[Decls_[i].ty] = NamedTys_[Decls_[j].ty]
           => i = j
      BY <1>1, <1>2 DEF OwnNames, Once
<1>4. \A i \in DOMAIN Decls_ :
         Decls_[i].def => \A t \in Range(Def[Decls_[i].ty].fields) :
                            Object(t) \subseteq Defined(i - 1)
      BY <1>1 DEF Orderly, DefsOK
<1>5. Declared_ \subseteq Defined(Len(Decls_))
  <2>1. \A i : i \notin 1..Len(frames) OBVIOUS
  <2> QED BY <2>1, AllDefined
<1>6. ASSUME NEW w \in Wrappers
      PROVE  /\ NoType \notin Range(Passed(w))
             /\ \A t \in Range(Passed(w)) \cup {Def[w.fty].elem} :
                  Object(t) \subseteq Defined(Len(Decls_))
  <2>1. w \in Wrapper BY DEF Typed, CallTyped
  <2>2. NoType \notin Range(Passed(w)) BY <2>1, WrapperNeeds
  <2>3. Passes(w, Declared_) BY DEF Orderly, TextsOK
  <2>4. Passes(w, Defined(Len(Decls_))) BY <1>5, <2>3, PassesMore
  <2> QED BY <2>2, <2>4 DEF Passes
<1> QED BY <1>3, <1>4, <1>6 DEF Compiles

LEMMA OrderlyNext ==
    ASSUME NEW r, OrderedBy(r), NEW H \in Nat, NEW h, NestedBy(h, H), ArgumentsComplete,
           Typed, Once, Tags, OwnNames, Orderly(r), [Next]_vars
    PROVE  Orderly(r)'
<1>0. CallTyped /\ FramesTyped /\ NamesTyped /\ DeclsTyped BY DEF Typed
<1>00. TextsOK(r) /\ DefsOK /\ status = "running" BY DEF Orderly
<1>1. ASSUME UNCHANGED Decls_ PROVE DefsOK' BY <1>00, <1>1 DEF DefsOK, Defined
<1>2. ASSUME UNCHANGED <<frames, cur, Wrappers, Declared_>> PROVE TextsOK(r)'
      BY <1>00, <1>2 DEF TextsOK
<1>3. CASE UNCHANGED vars
      BY <1>00, <1>1, <1>2, <1>3 DEF vars, printerVars, Orderly
<1>4. CASE compile \/ getWrapperAddress
      BY <1>00, <1>1, <1>2, <1>4 DEF compile, getWrapperAddress, Begin, printerVars, Orderly
<1>5. CASE genFuncTypeWrapper
  <2>1. PICK w \in batch \ Wrappers :
           cur' = {w} /\ frames' = <<Frame(NoType, WrapperItems(w))>>
        BY <1>5 DEF genFuncTypeWrapper, WrapperItems
  <2> DEFINE fr == Frame(NoType, WrapperItems(w))
  <2>2. w \in Wrapper BY <1>0 DEF CallTyped
  <2>3. fr.decl = NoType /\ fr.todo = WrapperItems(w) BY <2>2, WrapperFrame
  <2>4. Passes(w, Needs(WrapperItems(w))) BY <2>2, WrapperNeeds
  <2> HIDE DEF fr
  <2>5. Len(frames') = 1 /\ frames'[1] = fr BY <2>1 DEF fr
  <2>6. UNCHANGED <<Wrappers, Declared_, Decls_, status>>
        BY <1>5 DEF genFuncTypeWrapper, printerVars
  <2>7. \A i \in 1..Len(frames') : i = 1 BY <2>5
  <2>8. \A i \in 1..Len(frames') : FrameOK(r, Declared_, frames'[i])
        BY <2>3, <2>5, <2>7 DEF FrameOK
  <2>9. Passes(w, Declared_ \cup Needs(frames'[Len(frames')].todo))
    <3>1. Needs(WrapperItems(w)) \subseteq Declared_ \cup Needs(frames'[Len(frames')].todo)
          BY <2>3, <2>5
    <3> QED BY <2>4, <3>1, PassesMore
  <2>10. \A i, j \in 1..Len(frames') : ~(i < j) BY <2>5
  <2>11. \A v \in Wrappers : Passes(v, Declared_) BY <1>00 DEF TextsOK
  <2>12. TextsOK(r)' BY <2>1, <2>6, <2>8, <2>9, <2>10, <2>11 DEF TextsOK
  <2> QED BY <1>00, <1>1, <2>6, <2>12 DEF Orderly
<1>6. ASSUME frames # <<>> PROVE FrameOK(r, Declared_, top)
      BY <1>0, <1>00, <1>6, Innermost DEF TextsOK, top
<1>7. CASE print_def
  <2> DEFINE parts == IF Item.ty = NoType THEN <<>> ELSE Parts(Item)
             todo  == parts \o Tail(top.todo)
  <2>1. frames # <<>> /\ top.todo # <<>> /\ ~IsComposite(Item.ty) /\ frames' = Next1(todo)
        /\ UNCHANGED <<cur, Wrappers, Declared_, Decls_, status>>
        BY <1>7 DEF print_def, printerVars
  <2>2. todo \in Seq(Items) /\ parts \in Seq(Items)
        /\ Range(todo) = Range(parts) \cup Range(Tail(top.todo))
        BY <1>0, <2>1, PartsLeft
  <2>3. Item \in Items /\ Item.ty \in Type \cup {NoType}
        /\ Range(top.todo) = {Item} \cup Range(Tail(top.todo))
        BY <1>0, <2>1, FirstItem
  <2>4. CASE Item.ty = NoType
    <3>1. Range(<<>>) = {} BY DEF Range
    <3>2. Range(todo) = Range(Tail(top.todo)) BY <2>2, <2>4, <3>1
    <3>3. ItemNeeds(Item) = {} BY <2>4 DEF ItemNeeds
    <3> HIDE DEF todo, parts
    <3>4. Needs(top.todo) \subseteq Declared_ \cup Needs(todo)
          BY <1>0, <2>1, <3>2, <3>3, NeedsSplit DEF Needs
    <3>5. top.decl # NoType => \A it \in Range(todo) : Low(r, it, top.decl)
          BY <1>6, <2>1, <2>3, <3>2 DEF FrameOK
    <3>6. TextsOK(r)' BY <1>0, <1>00, <2>1, <2>2, <3>4, <3>5, TextsGoOn
    <3> QED BY <1>00, <1>1, <2>1, <3>6 DEF Orderly
  <2>5. CASE Item.ty # NoType
    <3>0. parts = Parts(Item) /\ Item.ty \in Type BY <2>3, <2>5
    <3> HIDE DEF parts, todo
    <3>1. ItemNeeds(Item) \subseteq Needs(parts) BY <2>1, <2>3, <3>0, PartsNeed
    <3>2. Needs(todo) = Needs(parts) \cup Needs(Tail(top.todo)) BY <2>2 DEF Needs
    <3>3. Needs(top.todo) \subseteq Declared_ \cup Needs(todo)
          BY <1>0, <2>1, <3>1, <3>2, NeedsSplit
    <3>4. ASSUME top.decl # NoType, NEW it \in Range(todo) PROVE Low(r, it, top.decl)
      <4>1. \A x \in Range(top.todo) : Low(r, x, top.decl) BY <1>6, <2>1, <3>4 DEF FrameOK
      <4>2. CASE it \in Range(Tail(top.todo)) BY <2>3, <4>1, <4>2
      <4>3. CASE it \in Range(parts)
        <5>1. r[Item.ty] <= r[top.decl] BY <2>1, <2>3, <2>5, <4>1 DEF Low
        <5>2. Parts(Full(Item.ty)) = Parts(Item) BY <2>3, <3>0, PartsRange
        <5>3. \/ it.ty = NoType
              \/ IsComposite(it.ty) /\ it.mode = "Forward"
              \/ r[it.ty] <= r[Item.ty]
              BY <2>1, <3>0, <4>3, <5>2 DEF OrderedBy
        <5>4. it.ty \in Type \cup {NoType}
          <6>1. it \in Items
            <7> HIDE DEF Items
            <7> QED BY <2>2, <4>3 DEF Range
          <6> QED BY <6>1 DEF Items
        <5>5. top.decl \in Type BY <1>0, <2>1, <3>4, Innermost
        <5>6. r \in [Type -> Nat] BY DEF OrderedBy
        <5>7. CASE it.ty \in Type /\ r[it.ty] <= r[Item.ty]
          <6>1. r[it.ty] \in Nat /\ r[Item.ty] \in Nat /\ r[top.decl] \in Nat
                BY <3>0, <5>5, <5>6, <5>7
          <6>2. r[it.ty] <= r[top.decl] BY <5>1, <5>7, <6>1
          <6> QED BY <6>2 DEF Low
        <5> QED BY <5>3, <5>4, <5>7 DEF Low
      <4> QED BY <2>2, <4>2, <4>3
    <3>5. TextsOK(r)' BY <1>0, <1>00, <2>1, <2>2, <3>3, <3>4, TextsGoOn
    <3> QED BY <1>00, <1>1, <2>1, <3>5 DEF Orderly
  <2> QED BY <2>4, <2>5
<1>8. CASE add_decl
  <2> DEFINE t == Item.ty
             rest == Tail(top.todo)
  <2>1. frames # <<>> /\ top.todo # <<>> /\ IsComposite(t) /\ Item.mode = "Full" /\ AddDecl(t)
        /\ UNCHANGED <<cur, Wrappers, Decls_, status>>
        BY <1>8 DEF add_decl
  <2>2. t \in Type /\ rest \in Seq(Items) /\ Range(top.todo) = {Item} \cup Range(rest)
        BY <1>0, <2>1, FirstItem DEF IsComposite
  <2>3. CASE t \in Declared_
    <3>1. frames' = Next1(rest) /\ UNCHANGED Declared_ BY <2>1, <2>3 DEF AddDecl
    <3>2. ItemNeeds(Item) = {t} BY <2>1 DEF ItemNeeds, IsComposite
    <3>3. Needs(top.todo) \subseteq Declared_ \cup Needs(rest)
          BY <1>0, <2>1, <2>3, <3>2, NeedsSplit
    <3>4. top.decl # NoType => \A it \in Range(rest) : Low(r, it, top.decl)
          BY <1>6, <2>1, <2>2 DEF FrameOK
    <3> HIDE DEF t, rest
    <3>5. TextsOK(r)' BY <1>0, <1>00, <2>1, <2>2, <3>1, <3>3, <3>4, TextsGoOn
    <3> QED BY <1>00, <1>1, <2>1, <3>5 DEF Orderly
  <2>4. CASE t \notin Declared_
    <3>1. /\ frames' = <<Frame(t, FullSeq(Def[t].fields))>> \o Next1(Tail(top.todo))
          /\ Declared_' = Declared_ \cup {t}
          BY <2>1, <2>4 DEF AddDecl
    <3>2. Item.ty = t OBVIOUS
    <3> HIDE DEF t, rest
    <3>3. TextsOK(r)' BY <1>0, <1>00, <2>1, <2>2, <2>4, <3>1, <3>2, TextsStart
    <3> QED BY <1>00, <1>1, <2>1, <3>3 DEF Orderly
  <2> QED BY <2>3, <2>4
<1>9. CASE add_forward_decl
  <2> DEFINE t == Item.ty
             rest == Tail(top.todo)
  <2>1. frames # <<>> /\ top.todo # <<>> /\ IsComposite(t) /\ Item.mode = "Forward"
        /\ AddForwardDecl(t) /\ frames' = Next1(rest)
        /\ UNCHANGED <<cur, Wrappers, Declared_, status>>
        BY <1>9 DEF add_forward_decl
  <2>2. t \in Type /\ rest \in Seq(Items) /\ Range(top.todo) = {Item} \cup Range(rest)
        BY <1>0, <2>1, FirstItem DEF IsComposite
  <2>3. ItemNeeds(Item) = {} BY <2>1 DEF ItemNeeds, IsComposite
  <2>4. Needs(top.todo) \subseteq Declared_ \cup Needs(rest) BY <1>0, <2>1, <2>3, NeedsSplit
  <2>5. top.decl # NoType => \A it \in Range(rest) : Low(r, it, top.decl)
        BY <1>6, <2>1, <2>2 DEF FrameOK
  <2> HIDE DEF t, rest
  <2>6. TextsOK(r)' BY <1>0, <1>00, <2>1, <2>2, <2>4, <2>5, TextsGoOn
  <2>7. DefsOK'
    <3>1. CASE UNCHANGED Decls_ BY <1>1, <3>1
    <3>2. CASE Decls_' = Append(Decls_, [def |-> FALSE, ty |-> t])
          BY <1>0, <1>00, <2>2, <3>2, DefsGrow
    <3> QED BY <2>1, <3>1, <3>2 DEF AddForwardDecl
  <2> QED BY <1>00, <2>1, <2>6, <2>7 DEF Orderly
<1>10. CASE DeclPrinted
  <2> DEFINE t == top.decl
  <2>1. /\ frames # <<>> /\ top.todo = <<>> /\ t # NoType /\ frames' = Tail(frames)
        /\ Decls_' = Append(Decls_, [def |-> TRUE, ty |-> t])
        /\ UNCHANGED <<cur, Wrappers, Declared_, status>>
        BY <1>10 DEF DeclPrinted
  <2>2. t \in Declared_ /\ t \in Type /\ Len(frames) # 1 /\ 1 \in 1..Len(frames)
        /\ Len(frames) \in Nat
        BY <1>0, <2>1, Innermost DEF FramesTyped, top
  <2>3. IsComposite(t) BY <1>0, <2>2 DEF NamesTyped
  <2>4. ASSUME NEW f \in Range(Def[t].fields), NEW u \in Object(f)
        PROVE  u \in Defined(Len(Decls_))
    <3>1. Needs(top.todo) = {} BY <2>1 DEF Needs, Range
    <3>2. u \in Declared_
      <4>1. Object(f) \subseteq Declared_ \cup Needs(top.todo) BY <1>6, <2>1 DEF FrameOK
      <4> QED BY <3>1, <4>1
    <3>3. r[u] < r[t] BY <2>2, <2>3 DEF OrderedBy
    <3>4. r \in [Type -> Nat] /\ u \in Type BY <1>0, <3>2 DEF OrderedBy, NamesTyped
    <3>5. ASSUME NEW i \in 1..Len(frames), frames[i].decl = u PROVE FALSE
      <4>1. CASE i = 1 BY <2>2, <3>3, <3>4, <3>5, <4>1 DEF top
      <4>2. CASE i # 1
        <5>1. 1 < i BY <2>2, <4>2
        <5>2. u # NoType BY <3>4, TypesAssumption
        <5>3. r[t] < r[u] BY <1>00, <2>2, <3>5, <5>1, <5>2 DEF TextsOK, top
        <5> QED BY <2>2, <3>3, <3>4, <5>3
      <4> QED BY <4>1, <4>2
    <3> QED BY <3>2, <3>5, AllDefined
  <2> HIDE DEF t
  <2>5. DefsOK' BY <1>0, <1>00, <2>1, <2>2, <2>4, DefsGrow
  <2>6. TextsOK(r)' BY <1>0, <1>00, <2>1, <2>2, TextsEnd
  <2> QED BY <1>00, <2>1, <2>5, <2>6 DEF Orderly
<1>11. CASE WrapperPrinted
  <2>1. /\ frames # <<>> /\ top.todo = <<>> /\ top.decl = NoType /\ frames' = Tail(frames)
        /\ Wrappers' = Wrappers \cup cur /\ cur' = {}
        /\ UNCHANGED <<Declared_, Decls_, status>>
        BY <1>11 DEF WrapperPrinted, printerVars
  <2>2. Len(frames) = 1 BY <1>0, <2>1, Innermost DEF FramesTyped, top
  <2>3. frames' = <<>> BY <1>0, <2>1, <2>2, TextEnds
  <2>4. \A i : i \notin 1..Len(frames') BY <2>3
  <2>5. Needs(<<>>) = {} BY DEF Needs, Range
  <2>6. \A w \in cur : Passes(w, Declared_)
    <3>1. Declared_ \cup Needs(frames[Len(frames)].todo) = Declared_ BY <2>1, <2>2, <2>5 DEF top
    <3> QED BY <1>00, <3>1 DEF TextsOK
  <2>7. \A w \in Wrappers' : Passes(w, Declared_) BY <1>00, <2>1, <2>6 DEF TextsOK
  <2>8. TextsOK(r)' BY <2>1, <2>4, <2>7 DEF TextsOK
  <2> QED BY <1>00, <1>1, <2>1, <2>8 DEF Orderly
<1>12. CASE compileWrappers
  <2>1. frames = <<>> /\ UNCHANGED <<cur, frames>> BY <1>12 DEF compileWrappers
  <2>2. Compiles BY <2>1, ItCompiles
  <2>3. Wrappers' = {} /\ Decls_' = <<>> /\ UNCHANGED status
        BY <1>12, <2>2 DEF compileWrappers, NewPrinter
  <2>4. cur = {} BY <1>0, <2>1 DEF CallTyped
  <2>04. \A i : i \notin 1..Len(frames) BY <2>1
  <2>5. TextsOK(r)' BY <2>1, <2>3, <2>4, <2>04 DEF TextsOK
  <2>6. DefsOK' BY <2>3 DEF DefsOK
  <2> QED BY <1>00, <2>3, <2>5, <2>6 DEF Orderly
<1> QED BY <1>3, <1>4, <1>5, <1>7, <1>8, <1>9, <1>10, <1>11, <1>12 DEF Next, CallStep, Idle

(* The text of wrappers compiles, so compileWrappers never kills the       *)
(* process: for every program without a void parameter whose types nest    *)
(* finitely, whose variadic calls pass structures by value only where the  *)
(* function's own signature completes them, and in which printing a member *)
(* of a structure never needs a structure above it.                        *)
THEOREM TextsCompile ==
    ASSUME NEW CONSTANT r, OrderedBy(r), NEW CONSTANT H \in Nat, NEW CONSTANT h, NestedBy(h, H),
           ArgumentsComplete
    PROVE  Spec => []WrappersCompile
<1>1. Init => Once /\ Tags /\ OwnNames BY DEF Init, Once, Tags, OwnNames, Names
<1>2. Init => Orderly(r) BY DEF Init, Orderly, TextsOK, DefsOK
<1>3. Typed /\ Once /\ Tags /\ OwnNames /\ [Next]_vars => Once' /\ Tags' /\ OwnNames'
      BY OnceNext, TagsNext
<1>4. Typed /\ Once /\ Tags /\ OwnNames /\ Orderly(r) /\ [Next]_vars => Orderly(r)'
      BY OrderlyNext
<1>5. Spec => [](Typed /\ Once /\ Tags /\ OwnNames /\ Orderly(r))
      BY <1>1, <1>2, <1>3, <1>4, TypedInit, TypedNext, PTL DEF Spec
<1>6. Orderly(r) => WrappersCompile BY DEF Orderly, WrappersCompile
<1> QED BY <1>5, <1>6, PTL
=============================================================================
