---------------------------- MODULE LastErrorAbs ----------------------------
(***************************************************************************)
(* What `useLastError` promises.  Every thread has two error registers,    *)
(* one for the host program and one for the functions it calls with        *)
(* useLastError.  Code only ever sees the register of its own side; a call *)
(* comes back to the side it was made from, however deep the calls made    *)
(* during it went, and no thread sees the registers of another.            *)
(*                                                                         *)
(* A call with useLastError goes to the other side from whichever side it  *)
(* is made: one made during another (from a callback) runs on the host's   *)
(* register, not on the native one.                                        *)
(***************************************************************************)
EXTENDS Naturals, Sequences

CONSTANTS
    Thread,
    Error,      \* error numbers
    Zero,       \* the error number both registers start with
    MaxDepth    \* bound on nested calls

VARIABLES
    reg,        \* the two registers of each thread
    side,       \* the side whose code each thread is running
    callers     \* the sides to come back to, innermost last

absVars == <<reg, side, callers>>

Side == {"host", "native"}

Other(s) == IF s = "host" THEN "native" ELSE "host"

AbsInit ==
    /\ reg = [t \in Thread |-> [s \in Side |-> Zero]]
    /\ side = [t \in Thread |-> "host"]
    /\ callers = [t \in Thread |-> <<>>]

(* The running code sets its error number.                                 *)
Fails(t, e) ==
    /\ reg' = [reg EXCEPT ![t][side[t]] = e]
    /\ UNCHANGED <<side, callers>>

(* The running code sets the one of the other side.                        *)
Presets(t, e) ==
    /\ reg' = [reg EXCEPT ![t][Other(side[t])] = e]
    /\ UNCHANGED <<side, callers>>

Calls(t, switches) ==
    /\ Len(callers[t]) < MaxDepth
    /\ callers' = [callers EXCEPT ![t] = Append(@, side[t])]
    /\ side' = [side EXCEPT ![t] = IF switches THEN Other(@) ELSE @]
    /\ UNCHANGED reg

Returns(t) ==
    /\ callers[t] # <<>>
    /\ side' = [side EXCEPT ![t] = callers[t][Len(callers[t])]]
    /\ callers' = [callers EXCEPT ![t] = SubSeq(@, 1, Len(@) - 1)]
    /\ UNCHANGED reg

AbsNext ==
    \E t \in Thread :
        \/ \E e \in Error : Fails(t, e) \/ Presets(t, e)
        \/ \E switches \in BOOLEAN : Calls(t, switches)
        \/ Returns(t)

AbsSpec == AbsInit /\ [][AbsNext]_absVars
=============================================================================
