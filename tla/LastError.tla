----------------------------- MODULE LastError -----------------------------
(***************************************************************************)
(* NativeFunc::call and the last-error functions (lib/dffi_api.cpp,        *)
(* lib/dffi_api_linux.inc).  Each thread has its errno and the library's   *)
(* thread_local dffi_errno; a call of a function whose type has            *)
(* useLastError swaps the two on the way in and on the way out.  Native    *)
(* code may call back into the host, which may call native code again, and *)
(* threads run in any interleaving.                                        *)
(***************************************************************************)
EXTENDS Naturals, Sequences

CONSTANTS
    Thread,
    Error,      \* error numbers
    Zero,       \* "The initial value of errno at program startup is zero"
    MaxDepth    \* bound on nested calls

ASSUME LastErrorAssumption == Zero \in Error /\ MaxDepth \in Nat

VARIABLES
    errno,      \* errno of each thread
    dffi_errno, \* dffi_errno of each thread
    frames      \* the calls each thread is in, innermost last: useLastError
                \* of the function's type, and whose code made the call

vars == <<errno, dffi_errno, frames>>

(* Mutant: dffi_errno is one variable of the process.                      *)
MutSwapLastError(t) ==
    /\ errno' = [errno EXCEPT ![t] = dffi_errno[t]]
    /\ dffi_errno' = [u \in Thread |-> errno[t]]

(* std::swap(dffi_errno, errno)                                            *)
swapLastError(t) ==
    /\ errno' = [errno EXCEPT ![t] = dffi_errno[t]]
    /\ dffi_errno' = [dffi_errno EXCEPT ![t] = errno[t]]

swapIf(useLastError, t) ==
    IF useLastError THEN swapLastError(t) ELSE UNCHANGED <<errno, dffi_errno>>

Flip(side) == IF side = "host" THEN "native" ELSE "host"

(* The side whose code runs in the n-th of the calls fs, and the side      *)
(* whose code thread t runs.                                               *)
SideIn(fs, n) ==
    IF n = 0 THEN "host"
    ELSE IF fs[n].useLastError THEN Flip(fs[n].caller) ELSE fs[n].caller

Running(t) == SideIn(frames[t], Len(frames[t]))

(* NativeFunc::call up to the trampoline.                                  *)
callBegin(t, useLastError) ==
    /\ Len(frames[t]) < MaxDepth
    /\ swapIf(useLastError, t)
    /\ frames' = [frames EXCEPT ![t] =
                    Append(@, [useLastError |-> useLastError, caller |-> Running(t)])]

(* NativeFunc::call from the trampoline's return on.                       *)
callEnd(t) ==
    /\ frames[t] # <<>>
    /\ swapIf(frames[t][Len(frames[t])].useLastError, t)
    /\ frames' = [frames EXCEPT ![t] = SubSeq(@, 1, Len(@) - 1)]

setLastError(t, e) ==
    /\ dffi_errno' = [dffi_errno EXCEPT ![t] = e]
    /\ UNCHANGED <<errno, frames>>

getLastError(t) == dffi_errno[t]

(* The running code, host's or native, sets errno.                         *)
codeFails(t, e) ==
    /\ errno' = [errno EXCEPT ![t] = e]
    /\ UNCHANGED <<dffi_errno, frames>>

(* Mutant: dffi_errno exists in the first thread only.                     *)
MutInit ==
    /\ errno = [t \in Thread |-> Zero]
    /\ dffi_errno = [t \in {CHOOSE t \in Thread : TRUE} |-> Zero]
    /\ frames = [t \in Thread |-> <<>>]

Init ==
    /\ errno = [t \in Thread |-> Zero]
    /\ dffi_errno = [t \in Thread |-> Zero]
    /\ frames = [t \in Thread |-> <<>>]

Next ==
    \E t \in Thread :
        \/ \E e \in Error : setLastError(t, e) \/ codeFails(t, e)
        \/ \E useLastError \in BOOLEAN : callBegin(t, useLastError)
        \/ callEnd(t)

Spec == Init /\ [][Next]_vars

-----------------------------------------------------------------------------
Frame == [useLastError : BOOLEAN, caller : {"host", "native"}]

(* Type invariant of the thread-local state and of the calls in progress.  *)
TypeOK ==
    /\ errno \in [Thread -> Error]
    /\ dffi_errno \in [Thread -> Error]
    /\ frames \in [Thread -> Seq(Frame)]

(* The registers of thread t: errno is the one of the running side.  And   *)
(* the sides its calls come back to.                                       *)
RegOf(t) ==
    [s \in {"host", "native"} |-> IF s = Running(t) THEN errno[t] ELSE getLastError(t)]

CallersOf(t) == [i \in DOMAIN frames[t] |-> frames[t][i].caller]

Abs == INSTANCE LastErrorAbs WITH
    reg <- [t \in Thread |-> RegOf(t)],
    side <- [t \in Thread |-> Running(t)],
    callers <- [t \in Thread |-> CallersOf(t)]

(* The two swaps of a call, whatever happens in between on this thread or  *)
(* on others, give each side an error number of its own.                   *)
SeparateErrors == Abs!AbsSpec
=============================================================================
