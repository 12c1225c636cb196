-------------------------------- MODULE Once --------------------------------
(***************************************************************************)
(* tycho::atomic::once_t (src/src/atomics.hpp 69-88): a gate over          *)
(* `mutable std::atomic<bool> flag_{true}`.  Testing it, by operator bool *)
(* or by operator!, is flag_.exchange(false); reset() stores true.  Each  *)
(* call is one atomic step.                                                *)
(***************************************************************************)
EXTENDS Integers

CONSTANTS
    Threads,
    MaxOps    \* bound on the number of calls in a behaviour

VARIABLES
    flag,     \* flag_
    result,   \* what the thread's last test returned
    opsLeft

vars == <<flag, result, opsLeft>>

TypeOK ==
    /\ flag \in BOOLEAN
    /\ result \in [Threads -> BOOLEAN]
    /\ opsLeft \in 0 .. MaxOps

Init ==
    /\ flag = TRUE
    /\ result = [t \in Threads |-> FALSE]
    /\ opsLeft = MaxOps

(* explicit operator bool(): return flag_.exchange(false);                *)
(* operator!(): return !flag_.exchange(false);                            *)
Test(t, o) ==
    /\ opsLeft > 0 /\ opsLeft' = opsLeft - 1
    /\ flag' = FALSE
    /\ result' = [result EXCEPT ![t] = IF o = "bool" THEN flag ELSE ~flag]

\* reset(): flag_.store(true, release);
Reset(t) ==
    /\ opsLeft > 0 /\ opsLeft' = opsLeft - 1
    /\ flag' = TRUE
    /\ UNCHANGED result

Done ==
    /\ opsLeft = 0
    /\ UNCHANGED vars

Next ==
    \/ \E t \in Threads : \/ \E o \in {"bool", "not"} : Test(t, o)
                          \/ Reset(t)
    \/ Done

Spec == Init /\ [][Next]_vars

=============================================================================
