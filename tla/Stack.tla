------------------------------- MODULE Stack -------------------------------
(***************************************************************************)
(* tycho::atomic::stack_t<T, S> (src/src/atomics.hpp 90-162): a bounded  *)
(* stack over `std::atomic<int> count_` and `T data_[S]`.  push claims a  *)
(* slot with count_.fetch_add(1), rolls back if the claim is past the end  *)
(* and otherwise writes the slot; pull and pop claim with fetch_sub(1),    *)
(* roll back if the claim is negative and otherwise read the slot.  Each  *)
(* atomic access and each slot access is one step.                        *)
(*                                                                         *)
(* The ghost variable `stack` is the abstract LIFO the calls promise       *)
(* (spec.md 4.4): a push takes effect when its claim succeeds, a pop when  *)
(* its claim succeeds, and `expect[t]` is what the call must return.      *)
(***************************************************************************)
EXTENDS Integers, Sequences, FiniteSets

CONSTANTS
    Threads,      \* caller threads
    Items,        \* the values pushed
    S,            \* the capacity, template parameter S
    Ops,          \* the member functions callers use: "push", "pull", "pop"
    MaxOps,       \* bound on the number of calls in a behaviour
    SizeModulus,  \* 2^w for w the width of size_t
    Junk,         \* an indeterminate value: never pushed
    NULL          \* no value / failure

ASSUME S > 2 /\ Ops \subseteq {"push", "pull", "pop"} /\ MaxOps \in Nat

Slots == 0 .. S - 1

VARIABLES
    count,    \* count_
    data,     \* data_[S]; Junk where never written
    pc, op, item, slot, result,
    stack,    \* ghost: the abstract stack, bottom first
    expect,   \* ghost: what the pending call must return
    net,      \* ghost: successful pushes minus successful pulls and pops
    unsafe,   \* out-of-bounds accesses
    opsLeft

vars == <<count, data, pc, op, item, slot, result, stack, expect, net,
          unsafe, opsLeft>>

TypeOK ==
    /\ count \in -MaxOps .. MaxOps
    /\ data \in [Slots -> Items \cup {Junk}]
    /\ pc \in [Threads -> {"idle", "push_check", "pop_check"}]
    /\ slot \in [Threads -> Int]
    /\ result \in [Threads -> Items \cup {Junk, NULL} \cup BOOLEAN]
    /\ stack \in Seq(Items)
    /\ opsLeft \in 0 .. MaxOps

(* `const auto count = ...; if(count >= S)`: the int is converted to      *)
(* size_t for the comparison with S.                                      *)
AsSize(c) == c % SizeModulus

\* What reading data_[c] yields: the slot, or any value when the slot was
\* never written or c is out of bounds (undefined behaviour).
ReadSlot(c) ==
    IF c \in Slots /\ data[c] # Junk THEN {data[c]} ELSE Items \cup {Junk}

Return(t, r) ==
    /\ pc' = [pc EXCEPT ![t] = "idle"]
    /\ result' = [result EXCEPT ![t] = r]

Init ==
    /\ count = 0
    /\ data = [i \in Slots |-> Junk]
    /\ pc = [t \in Threads |-> "idle"]
    /\ op = [t \in Threads |-> NULL]
    /\ item = [t \in Threads |-> NULL]
    /\ slot = [t \in Threads |-> 0]
    /\ result = [t \in Threads |-> NULL]
    /\ stack = <<>>
    /\ expect = [t \in Threads |-> NULL]
    /\ net = 0
    /\ unsafe = {}
    /\ opsLeft = MaxOps

-----------------------------------------------------------------------------
(* push                                                                    *)

\* Mutant: the claim loads count_ instead of incrementing it.
PushClaimNoIncrement(t, v) ==
    /\ pc[t] = "idle"
    /\ "push" \in Ops
    /\ opsLeft > 0
    /\ opsLeft' = opsLeft - 1
    /\ op' = [op EXCEPT ![t] = "push"]
    /\ item' = [item EXCEPT ![t] = v]
    /\ slot' = [slot EXCEPT ![t] = count]
    /\ pc' = [pc EXCEPT ![t] = "push_check"]
    /\ stack' = IF Len(stack) < S THEN Append(stack, v) ELSE stack
    /\ expect' = [expect EXCEPT ![t] = Len(stack) < S]
    /\ UNCHANGED <<count, data, result, net, unsafe>>

\* const auto count = count_.fetch_add(1)
PushClaim(t, v) ==
    /\ pc[t] = "idle"
    /\ "push" \in Ops
    /\ opsLeft > 0
    /\ opsLeft' = opsLeft - 1
    /\ op' = [op EXCEPT ![t] = "push"]
    /\ item' = [item EXCEPT ![t] = v]
    /\ slot' = [slot EXCEPT ![t] = count]
    /\ count' = count + 1
    /\ pc' = [pc EXCEPT ![t] = "push_check"]
    /\ stack' = IF Len(stack) < S THEN Append(stack, v) ELSE stack
    /\ expect' = [expect EXCEPT ![t] = Len(stack) < S]
    /\ UNCHANGED <<data, result, net, unsafe>>

\* Mutant: the capacity check is off by one.
PushRollbackOffByOne(t) ==
    /\ pc[t] = "push_check"
    /\ AsSize(slot[t]) >= S - 1
    /\ count' = count - 1
    /\ Return(t, FALSE)
    /\ UNCHANGED <<data, op, item, slot, stack, expect, net, unsafe, opsLeft>>

\* if(count >= S) { count_.fetch_sub(1); return false; }
PushRollback(t) ==
    /\ pc[t] = "push_check"
    /\ AsSize(slot[t]) >= S
    /\ count' = count - 1
    /\ Return(t, FALSE)
    /\ UNCHANGED <<data, op, item, slot, stack, expect, net, unsafe, opsLeft>>

\* data_[count] = item; return true;
PushWrite(t) ==
    /\ pc[t] = "push_check"
    /\ AsSize(slot[t]) < S
    /\ data' = [data EXCEPT ![slot[t]] = item[t]]
    /\ Return(t, TRUE)
    /\ net' = net + 1
    /\ UNCHANGED <<count, op, item, slot, stack, expect, unsafe, opsLeft>>

-----------------------------------------------------------------------------
(* pull and pop                                                            *)

\* const auto count = count_.fetch_sub(1)
PopClaim(t, o) ==
    /\ pc[t] = "idle"
    /\ o \in Ops \ {"push"}
    /\ opsLeft > 0
    /\ opsLeft' = opsLeft - 1
    /\ op' = [op EXCEPT ![t] = o]
    /\ slot' = [slot EXCEPT ![t] = count]
    /\ count' = count - 1
    /\ pc' = [pc EXCEPT ![t] = "pop_check"]
    /\ IF count >= 0
       THEN /\ expect' = [expect EXCEPT ![t] =
                             IF stack = <<>> THEN NULL ELSE stack[Len(stack)]]
            /\ stack' = IF stack = <<>> THEN stack ELSE SubSeq(stack, 1, Len(stack) - 1)
       ELSE UNCHANGED <<stack, expect>>
    /\ UNCHANGED <<data, item, result, net, unsafe>>

\* Mutant: a failed claim is not rolled back.
PopRollbackMissing(t) ==
    /\ pc[t] = "pop_check"
    /\ slot[t] < 0
    /\ Return(t, FALSE)
    /\ UNCHANGED <<count, data, op, item, slot, stack, expect, net, unsafe,
                   opsLeft>>

\* if(count < 0) { count_.fetch_add(1); return false / {}; }
PopRollback(t) ==
    /\ pc[t] = "pop_check"
    /\ slot[t] < 0
    /\ count' = count + 1
    /\ Return(t, FALSE)
    /\ UNCHANGED <<data, op, item, slot, stack, expect, net, unsafe, opsLeft>>

\* item = data_[count]; return true;  /  return data_[count];
PopRead(t) ==
    /\ pc[t] = "pop_check"
    /\ slot[t] >= 0
    /\ \E v \in ReadSlot(slot[t]) : Return(t, v)
    /\ unsafe' = IF slot[t] \in Slots THEN unsafe ELSE unsafe \cup {slot[t]}
    /\ net' = net - 1
    /\ UNCHANGED <<count, data, op, item, slot, stack, expect, opsLeft>>

-----------------------------------------------------------------------------

\* Every call has returned and no more calls are allowed.
Done ==
    /\ opsLeft = 0
    /\ \A t \in Threads : pc[t] = "idle"
    /\ UNCHANGED vars

Next ==
    \/ \E t \in Threads :
          \/ \E v \in Items : PushClaim(t, v)
          \/ \E o \in {"pull", "pop"} : PopClaim(t, o)
          \/ PushRollback(t) \/ PushWrite(t) \/ PopRollback(t) \/ PopRead(t)
    \/ Done

Spec == Init /\ [][Next]_vars

-----------------------------------------------------------------------------
(* Properties                                                              *)

Quiescent == \A t \in Threads : pc[t] = "idle"

(* When no call is in progress, count_ is the depth of the abstract stack *)
(* and data_[0 .. count_-1] holds its items bottom first: every push that *)
(* push() reported as successful wrote its own slot (fetch_add hands out   *)
(* distinct indices) and a failed push rolled its claim back.             *)
StackMatchesData ==
    Quiescent =>
        /\ count = Len(stack)
        /\ \A i \in 1 .. Len(stack) : data[i - 1] = stack[i]

(* push() reports failure exactly when the stack holds S items (spec 4.4 *)
(* and 8: S pushes succeed, the (S+1)-th fails): every push that has      *)
(* returned reported what the abstract push did when it claimed its slot. *)
PushResultMatches ==
    \A t \in Threads :
        (pc[t] = "idle" /\ op[t] = "push") => result[t] = expect[t]

(* size() after balanced pushes and pops returns to its starting value   *)
(* (spec 8): when no call is in progress, count_ is the number of pushes  *)
(* that returned true minus the pulls and pops that did; every failed     *)
(* claim of push, pull and pop has been rolled back.                      *)
CountBalanced == Quiescent => count = net

(* A pull or pop that succeeds returns the item on top of the stack when  *)
(* it claimed its slot; one that finds the stack empty fails.             *)
PopReturnsTop ==
    \A t \in Threads :
        (pc[t] = "idle" /\ op[t] \in {"pull", "pop"} /\ result[t] # FALSE)
            => result[t] = expect[t]
=============================================================================
