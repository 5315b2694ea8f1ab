------------------------------- MODULE PyCall -------------------------------
(***************************************************************************)
(* Calls of C functions from Python (bindings/python/cobj.cpp):            *)
(* CVarArgsFunction::call, CFunction::call and the conversion of their     *)
(* arguments.  A call counts its arguments, converts them one by one, and  *)
(* enters native code with an array of pointers to them.  Some arguments   *)
(* are passed as they are; others need a temporary, which lives until the  *)
(* call returns or one of the conversions raises an exception.             *)
(*                                                                         *)
(* Native code may call back into Python, and Python then do anything,     *)
(* further calls included: the calls in progress form a stack.  There is   *)
(* one thread, since calls keep the interpreter's lock.                    *)
(*                                                                         *)
(* A memory area is named after the object that owns it.                   *)
(***************************************************************************)
EXTENDS Integers, Sequences, FiniteSets

CONSTANTS
    Val,       \* Python objects the host passes
    Py,        \* Val -> what the object is:
               \*   kind  : number, str, bytes, buffer, or a kind of C object
               \*   ty    : type of a C object; pointee, element, buffer item
               \*   const : is that const, or the buffer read-only? (a string
               \*           and bytes are)
               \*   fits  : basic types its value converts to
               \*   to    : what a pointer points to
               \*   ndim  : dimensions, of what has a buffer
    Ty,        \* C types
    Fun,       \* functions
    Params,    \* Fun -> parameters, each [kind, ty, const], a pointer with
               \* its pointee (which has a format: not void)
    VarFun,    \* the variadic ones
    Fmt,       \* Ty -> format of an item in a buffer
    CharTy,    \* char
    Encodes,   \* the strings that have a UTF-8 encoding
    NoVal,     \* no memory
    SizeBits,  \* size_t is this wide
    MaxSize,   \* largest length of a std::vector
    MaxArgs, MaxDepth,  \* bounds on arguments of a call, and on nested calls
    MaxDropped, MaxMoves,  \* bounds on objects the host has given up, and on
                           \* how often a buffer is resized
    ResizesPassed  \* does the host resize buffers a call in progress was given?

(* The C objects of each kind of type.                                     *)
CKind == [basic |-> "cbasic", pointer |-> "cpointer", array |-> "carray",
          struct |-> "cstruct", union |-> "cunion", func |-> "cfunc"]

IsCObj(v) == \E k \in DOMAIN CKind : CKind[k] = Py[v].kind

Param == [kind : DOMAIN CKind, ty : Ty, const : BOOLEAN]

(* Temporaries: of the call at a depth, for an argument.                   *)
Temp == Nat \X Nat \X {"object", "bytes"}

ASSUME CallAssumption ==
    /\ NoVal \notin Val /\ \A v \in Val : v \notin Temp
    /\ \A v \in Val :
         /\ Py[v].ty \in Ty /\ Py[v].const \in BOOLEAN
         /\ Py[v].to # NoVal => Py[v].to \in Val /\ IsCObj(Py[v].to)
    /\ VarFun \subseteq Fun /\ Params \in [Fun -> Seq(Param)]
    /\ SizeBits \in Nat /\ MaxSize \in Nat /\ MaxSize < 2^(SizeBits - 1)
    /\ MaxArgs \in Nat /\ MaxDepth \in Nat /\ MaxDropped \in Nat /\ MaxMoves \in Nat
    /\ ResizesPassed \in BOOLEAN

VARIABLES
    held,    \* objects the host refers to
    moves,   \* Val -> how often its memory has been moved
    stack,   \* calls in progress, innermost last:
             \*   args   : the argument tuple
             \*   params : parameters of the wrapper that is called
             \*   ptrs   : what has been converted, each
             \*            [obj, mem, at]: the object whose data is passed, the
             \*            memory it points to, and where that was
             \*   native : is native code running?
    temps    \* temporaries that exist: <<depth, argument, kind>>

vars == <<held, moves, stack, temps>>
-----------------------------------------------------------------------------
(* Objects that are alive: a pointer keeps what it points to.              *)
Passed == UNION {{stack[d].args[i] : i \in DOMAIN stack[d].args} : d \in DOMAIN stack}
Referred == held \cup Passed
Alive == Referred \cup {Py[v].to : v \in Referred}

(* The host runs: nothing is being called, or native code has called back. *)
HostRuns == stack # <<>> => stack[Len(stack)].native

top == stack[Len(stack)]
Pop == SubSeq(stack, 1, Len(stack) - 1)

(* Mutant: encoded strings are not released.                               *)
MutRelease(d) == temps' = {t \in temps : t[1] # d \/ t[3] = "bytes"}

(* Unwinding, by return or exception, destroys the holders of a call.      *)
Release(d) == temps' = {t \in temps : t[1] # d}
-----------------------------------------------------------------------------
(***************************************************************************)
(* ConvertArgs.                                                            *)
(***************************************************************************)
HasBuffer(v) == Py[v].kind \in {"carray", "bytes", "buffer"}

(* const char * takes text.                                                *)
TakesText(p) == p.const /\ p.ty = CharTy

(* Mutant: parameter and argument are exchanged.                           *)
MutDropsConst(p, v) == Py[v].kind = "cpointer" /\ ~Py[v].const /\ p.const

(* ConstCastError.  The check that follows for arrays never fires, since   *)
(* ArrayType::getElementType drops the qualifier of the elements.          *)
DropsConst(p, v) == Py[v].kind = "cpointer" /\ Py[v].const /\ ~p.const

(* Buffers that refuse to be written.  CArrayObj::getBufferInfo asks the   *)
(* element type for const, which has been dropped there too.               *)
ReadOnly(v) == Py[v].kind # "carray" /\ Py[v].const

(* An array of what the parameter points to.                               *)
Promoted(p, v) == Py[v].kind = "carray" /\ Py[v].ty = p.ty

(* Strings are encoded, bytes passed; nothing else is text.                *)
TextConv(v) ==
    IF Py[v].kind = "str" /\ v \in Encodes THEN "utf8"
    ELSE IF Py[v].kind = "bytes" THEN "pointer" ELSE "raises"

(* A buffer, writable if need be, of one dimension and the right format.   *)
BufferConv(p, v) ==
    IF /\ HasBuffer(v)
       /\ ReadOnly(v) => p.const
       /\ Py[v].ndim = 1
       /\ Fmt[Py[v].ty] = Fmt[p.ty]
    THEN "pointer" ELSE "raises"

(* How a pointer argument is converted: the first way that applies.        *)
PointerConv(p, v) ==
    IF DropsConst(p, v) THEN "raises"
    ELSE IF Py[v].kind = "cpointer" THEN "as is"
    ELSE IF Promoted(p, v) THEN "pointer"
    ELSE IF TakesText(p) THEN TextConv(v) ELSE BufferConv(p, v)

(* "as is", the kind of temporary the argument needs, or "raises".  Of C   *)
(* objects only the kind is compared, except for basic types.              *)
Conv(p, v) ==
    IF p.kind = "pointer" THEN PointerConv(p, v)
    ELSE IF Py[v].kind = CKind[p.kind] /\ (p.kind = "basic" => Py[v].ty = p.ty) THEN "as is"
    ELSE IF p.kind = "basic" /\ p.ty \in Py[v].fits THEN "value" ELSE "raises"

(* Mutant: the encoded string is not kept.                                 *)
MutTempsOf(conv, d, i) ==
    IF conv \in {"value", "pointer", "utf8"} THEN {<<d, i, "object">>} ELSE {}

(* Temporaries of argument i of the call at depth d: a C object in         *)
(* Holders, and for a string its encoding in PyHolders.                    *)
TempsOf(conv, d, i) ==
    IF conv = "utf8" THEN {<<d, i, "object">>, <<d, i, "bytes">>}
    ELSE IF conv \in {"value", "pointer"} THEN {<<d, i, "object">>} ELSE {}

(* The memory a pointer argument points to.                                *)
Target(p, conv, v, d, i) ==
    IF p.kind # "pointer" THEN NoVal
    ELSE IF conv = "as is" THEN Py[v].to
    ELSE IF conv = "pointer" THEN v ELSE <<d, i, "bytes">>

Moved(m) == IF m \in DOMAIN moves THEN moves[m] ELSE 0

Convert ==
    /\ stack # <<>> /\ ~top.native /\ Len(top.ptrs) < Len(top.params)
    /\ LET d == Len(stack)
           i == Len(top.ptrs) + 1
           v == top.args[i]
           p == top.params[i]
           conv == Conv(p, v)
           mem == Target(p, conv, v, d, i)
       IN \/ /\ conv = "raises"
             /\ Release(d)
             /\ stack' = Pop
          \/ /\ conv # "raises"
             /\ temps' = temps \cup TempsOf(conv, d, i)
             /\ stack' = [stack EXCEPT ![d].ptrs =
                   Append(@, [obj |-> IF conv = "as is" THEN v ELSE <<d, i, "object">>,
                              mem |-> mem, at |-> Moved(mem)])]
    /\ UNCHANGED <<held, moves>>
-----------------------------------------------------------------------------
(* VarArgsCount = Args.size() - Params.size(), in size_t.                  *)
VarArgsCount(f, args) == (Len(args) - Len(Params[f])) % 2^SizeBits

(* The parameter a C object is passed for as an extra argument: its type.  *)
ParamOf(v) ==
    [kind |-> CHOOSE k \in DOMAIN CKind : CKind[k] = Py[v].kind,
     ty |-> Py[v].ty, const |-> Py[v].const]

Extra(f, args) == SubSeq(args, Len(Params[f]) + 1, Len(args))

(* Parameters of the wrapper: the ones of the function, and of a variadic  *)
(* one the types of the extra arguments.                                   *)
WrapperParams(f, args) ==
    IF f \in VarFun
    THEN Params[f] \o [i \in DOMAIN Extra(f, args) |-> ParamOf(Extra(f, args)[i])]
    ELSE Params[f]

(* Extra arguments must be C objects; too few arguments make the count     *)
(* wrap around to one that no vector can have.                             *)
ExtraAccepted(f, args) ==
    /\ VarArgsCount(f, args) <= MaxSize
    /\ \A i \in DOMAIN Extra(f, args) : IsCObj(Extra(f, args)[i])

(* Mutant: arguments in excess are ignored.                                *)
MutAccepts(f, args) ==
    /\ f \in VarFun => ExtraAccepted(f, args)
    /\ Len(args) >= Len(WrapperParams(f, args))

(* Does the call get to convert its arguments?  Otherwise it raises.       *)
Accepts(f, args) ==
    /\ f \in VarFun => ExtraAccepted(f, args)
    /\ Len(args) = Len(WrapperParams(f, args))

ArgLists == UNION {[1 .. n -> held] : n \in 0 .. MaxArgs}

(* CFunction.__call__ and CVarArgsFunction.__call__.                       *)
call ==
    /\ HostRuns /\ Len(stack) < MaxDepth
    /\ \E f \in Fun, args \in ArgLists :
         /\ Accepts(f, args)
         /\ stack' = Append(stack, [args |-> args, params |-> WrapperParams(f, args),
                                    ptrs |-> <<>>, native |-> FALSE])
    /\ UNCHANGED <<held, moves, temps>>

(* NF_.call, once the object for the result is there.                      *)
EnterNative ==
    /\ stack # <<>> /\ ~top.native /\ Len(top.ptrs) = Len(top.params)
    /\ stack' = [stack EXCEPT ![Len(stack)].native = TRUE]
    /\ UNCHANGED <<held, moves, temps>>

ReturnFromNative ==
    /\ stack # <<>> /\ top.native
    /\ stack' = Pop
    /\ Release(Len(stack))
    /\ UNCHANGED <<held, moves>>
-----------------------------------------------------------------------------
(***************************************************************************)
(* The host program.                                                       *)
(***************************************************************************)
(* It drops its last reference to an object, or makes a new one like it.   *)
Drop ==
    /\ HostRuns /\ Cardinality(Val \ held) < MaxDropped
    /\ \E v \in held : held' = held \ {v}
    /\ UNCHANGED <<moves, stack, temps>>

Make ==
    /\ HostRuns
    /\ \E v \in Val \ Alive : held' = held \cup {v}
    /\ UNCHANGED <<moves, stack, temps>>

(* Python lets a buffer be resized while nobody has a Py_buffer on it, and *)
(* the conversion has released its own.                                    *)
Resize ==
    /\ HostRuns
    /\ \E v \in held :
         /\ Py[v].kind = "buffer" /\ ~Py[v].const /\ moves[v] < MaxMoves
         /\ ResizesPassed \/ v \notin Passed
         /\ moves' = [moves EXCEPT ![v] = @ + 1]
    /\ UNCHANGED <<held, stack, temps>>

Init ==
    /\ held = Val /\ moves = [v \in Val |-> 0]
    /\ stack = <<>> /\ temps = {}

Next == call \/ Convert \/ EnterNative \/ ReturnFromNative \/ Drop \/ Make \/ Resize

Spec == Init /\ [][Next]_vars
-----------------------------------------------------------------------------
(***************************************************************************)
(* Properties.                                                             *)
(***************************************************************************)
(* Calls wait on native code that called back, all but the innermost, and  *)
(* the temporaries are those of calls in progress: none is left behind     *)
(* when the conversion of a later argument raises.                         *)
TypeOK ==
    /\ held \subseteq Val /\ moves \in [Val -> 0 .. MaxMoves]
    /\ Len(stack) <= MaxDepth
    /\ \A d \in DOMAIN stack :
         /\ Len(stack[d].ptrs) <= Len(stack[d].params)
         /\ d < Len(stack) => stack[d].native
    /\ \A t \in temps : t[1] \in DOMAIN stack /\ t[2] \in DOMAIN stack[t[1]].ptrs

(* While native code runs, every argument is alive and where the call      *)
(* found it, and so is what a pointer argument points to: temporaries and  *)
(* encoded strings last as long as the call, nested calls and their        *)
(* exceptions do not take those of outer calls with them, and a callback   *)
(* that drops the host's references changes nothing.                       *)
ArgumentsAlive ==
    \A d \in DOMAIN stack : stack[d].native =>
      \A i \in DOMAIN stack[d].ptrs :
        LET a == stack[d].ptrs[i] IN
        /\ a.obj \in Alive \cup temps
        /\ a.mem # NoVal => a.mem \in Alive \cup temps /\ a.at = Moved(a.mem)

(* What argument i of call c is passed for may be written, and so is       *)
(* memory that is not const: a pointer's target, an array, a buffer, but   *)
(* not the bytes of a Python string, which are a temporary.                *)
Writable(c, i) ==
    c.params[i].kind = "pointer" /\ ~c.params[i].const /\ c.ptrs[i].mem # NoVal

MayBeWritten(c, i) == c.ptrs[i].mem \in Val /\ ~Py[c.args[i]].const

(* Native code gets a pointer it may write through only to memory that is  *)
(* not const ("const type can't be converted to a non-const type").        *)
(* The code means to keep this, and does not for arrays of const elements. *)
ConstKept ==
    \A d \in DOMAIN stack : \A i \in DOMAIN stack[d].ptrs :
        Writable(stack[d], i) => MayBeWritten(stack[d], i)

(* The same where the checks of PointerConv work: for every way to pass    *)
(* a pointer but that of an array, whose element type has lost its const.  *)
PointerConstKept ==
    \A d \in DOMAIN stack : \A i \in DOMAIN stack[d].ptrs :
        Writable(stack[d], i) /\ Py[stack[d].args[i]].kind # "carray" =>
            MayBeWritten(stack[d], i)

(* Native code is entered with exactly the arguments its wrapper reads,    *)
(* each of the kind the parameter has, also for a variadic function called *)
(* with too few or extra arguments; basic arguments have its very type.    *)
WrapperFits ==
    \A d \in DOMAIN stack : stack[d].native =>
      /\ Len(stack[d].ptrs) = Len(stack[d].params)
      /\ Len(stack[d].args) = Len(stack[d].params)
      /\ \A i \in DOMAIN stack[d].ptrs :
           LET p == stack[d].params[i]
               o == stack[d].ptrs[i].obj
           IN o \in Val =>
                /\ Py[o].kind = CKind[p.kind]
                /\ p.kind = "basic" => Py[o].ty = p.ty
=============================================================================
