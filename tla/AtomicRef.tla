----------------------------- MODULE AtomicRef -----------------------------
(***************************************************************************)
(* tycho::atomic_ref<T> (src/src/atomics.hpp 487-669): atomic operations  *)
(* on a plain integral location held by reference.  A build without      *)
(* _MSC_VER uses the __atomic builtins (SEQ_CST); an MSVC build uses the  *)
(* Interlocked intrinsics when sizeof(T) is 4 or 8, and plain reads and   *)
(* writes of `ref` when it is 1 or 2 ("fallback ... (non-atomic)").        *)
(*                                                                         *)
(* An atomic member is one step.  A fallback member is its plain accesses *)
(* in program order: exchange, fetch_add and fetch_sub read `old` and     *)
(* then write; compare_exchange_strong compares and then writes `value`   *)
(* or re-reads `ref` into `expected`.  load and store are one access.     *)
(*                                                                         *)
(* The ghosts `abs` and `want` are the location and the result the same   *)
(* calls give when each takes effect at once (spec.md 4.1): an atomic     *)
(* call takes effect at its step, a fallback call at its last access.     *)
(***************************************************************************)
EXTENDS Integers

CONSTANTS
    Threads,
    Locs,       \* the integral locations atomic_refs are made on
    Size,       \* Size[l]: sizeof(T) of the atomic_ref on l (T unsigned)
    MSVC,       \* TRUE when the build defines _MSC_VER
    Uses,       \* Uses[t]: the locations thread t calls members on
    Ops,        \* the members called (names below)
    Values,     \* operands stored, exchanged, or desired by a CAS
    Deltas,     \* operands added or subtracted
    Expected,   \* the `expected` values passed to compare_exchange_strong
    InitVal,    \* InitVal[l]: the value of l when its atomic_ref is made
    MaxOps      \* bound on the number of calls in a behaviour

AllOps == {"load", "store", "exchange", "cas", "fetch_add", "fetch_sub",
           "inc", "post_inc", "dec", "post_dec", "assign", "add_assign",
           "sub_assign"}

ASSUME
    /\ Ops \subseteq AllOps
    /\ \A l \in Locs : Size[l] \in {1, 2, 4, 8}
    \* a 4- or 8-byte location stays far from 0 and from 2^32 (which TLC
    \* integers cannot hold), so the model need not wrap it
    /\ \A l \in Locs : Size[l] >= 4 =>
          \A v \in {InitVal[l]} \cup Values, d \in Deltas \cup {1} :
              v >= MaxOps * d /\ v + MaxOps * d < 2^30

VARIABLES
    ref,      \* ref[l]: the value of location l
    pc,       \* "idle", or the next access of a fallback member
    op, loc, arg, exp, old,   \* the caller's call and the member's locals
    result,   \* what the last call of the thread returned
    abs,      \* ghost: the locations when every call takes effect at once
    want,     \* ghost: what the last call returns when it takes effect at once
    opsLeft

vars == <<ref, pc, op, loc, arg, exp, old, result, abs, want, opsLeft>>

Ret(v) == [ok |-> TRUE, val |-> v]
Void == [ok |-> TRUE, val |-> "void"]    \* a member returning *this or void

TypeOK ==
    /\ ref \in [Locs -> Int] /\ abs \in [Locs -> Int]
    /\ pc \in [Threads -> {"idle", "write", "reload"}]
    /\ op \in [Threads -> AllOps \cup {"none"}]
    /\ opsLeft \in 0 .. MaxOps

-----------------------------------------------------------------------------
(* The contract: std::atomic_ref<T> on an unsigned T                       *)

Mod(l, v) == IF Size[l] < 4 THEN v % 2^(8 * Size[l]) ELSE v

Contract(l, o, cur, a, e) ==
    LET new == CASE o \in {"store", "assign", "exchange"} -> a
                 [] o = "cas" -> IF cur = e THEN a ELSE cur
                 [] o \in {"fetch_add", "add_assign"} -> Mod(l, cur + a)
                 [] o \in {"fetch_sub", "sub_assign"} -> Mod(l, cur - a)
                 [] o \in {"inc", "post_inc"} -> Mod(l, cur + 1)
                 [] o \in {"dec", "post_dec"} -> Mod(l, cur - 1)
                 [] o = "load" -> cur
    IN [val |-> new,
        ret |-> CASE o \in {"store", "assign", "add_assign", "sub_assign"} -> Void
                  [] o = "cas" -> [ok |-> cur = e, val |-> cur]
                  [] o \in {"inc", "dec"} -> Ret(new)
                  [] OTHER -> Ret(cur)]

-----------------------------------------------------------------------------
(* The code                                                                *)

\* if constexpr (sizeof(T) == 4) ... else if constexpr (sizeof(T) == 8) ...
\* else <plain access>: the fallback, on MSVC only.
Plain(l) == MSVC /\ Size[l] \in {1, 2}

\* T& ref with T unsigned: arithmetic on T wraps at 2^(8 sizeof(T)).
Wrap(l, v) == IF Size[l] < 4 THEN v % 2^(8 * Size[l]) ELSE v

\* The six members on a location holding cur: its new value and what the
\* member returns (for compare_exchange_strong: the bool and `expected`).
Member(l, b, cur, a, e) ==
    CASE b = "load" -> [val |-> cur, ret |-> Ret(cur)]
      [] b = "store" -> [val |-> a, ret |-> Void]
      [] b = "exchange" -> [val |-> a, ret |-> Ret(cur)]
      [] b = "cas" -> IF cur = e THEN [val |-> a, ret |-> [ok |-> TRUE, val |-> e]]
                      ELSE [val |-> cur, ret |-> [ok |-> FALSE, val |-> cur]]
      [] b = "fetch_add" -> [val |-> Wrap(l, cur + a), ret |-> Ret(cur)]
      [] b = "fetch_sub" -> [val |-> Wrap(l, cur - a), ret |-> Ret(cur)]

\* The member each operator calls, and with what operand.
BaseOf(o) ==
    CASE o \in {"fetch_add", "inc", "post_inc", "add_assign"} -> "fetch_add"
      [] o \in {"fetch_sub", "dec", "post_dec", "sub_assign"} -> "fetch_sub"
      [] o \in {"store", "assign"} -> "store"
      [] OTHER -> o

Operand(o, a) == IF o \in {"inc", "post_inc", "dec", "post_dec"} THEN 1 ELSE a

(* What the operator returns, given what its member returned r: ++x is     *)
(* `fetch_add(1) + 1` and --x `fetch_sub(1) - 1` with an `auto` result,   *)
(* so a T narrower than int is promoted and the sum is not wrapped.       *)
Finish(l, o, r) ==
    CASE o = "inc" -> Ret(IF Size[l] < 4 THEN r.val + 1 ELSE Wrap(l, r.val + 1))
      [] o = "dec" -> Ret(IF Size[l] < 4 THEN r.val - 1 ELSE Wrap(l, r.val - 1))
      [] o \in {"assign", "add_assign", "sub_assign"} -> Void
      [] OTHER -> r

Init ==
    /\ ref = InitVal /\ abs = InitVal
    /\ pc = [t \in Threads |-> "idle"]
    /\ op = [t \in Threads |-> "none"]
    /\ loc = [t \in Threads |-> CHOOSE l \in Locs : TRUE]
    /\ arg = [t \in Threads |-> 0]
    /\ exp = [t \in Threads |-> 0]
    /\ old = [t \in Threads |-> 0]
    /\ result = [t \in Threads |-> Void]
    /\ want = [t \in Threads |-> Void]
    /\ opsLeft = MaxOps

\* The caller's choice of call; a CAS passes an `expected`, the rest ignore it.
Call(t, l, o, a, e) ==
    /\ pc[t] = "idle" /\ opsLeft > 0
    /\ l \in Uses[t] /\ o \in Ops
    /\ a \in (IF BaseOf(o) \in {"fetch_add", "fetch_sub"} THEN Deltas ELSE Values)
    /\ e \in (IF o = "cas" THEN Expected ELSE {0})
    /\ opsLeft' = opsLeft - 1
    /\ op' = [op EXCEPT ![t] = o]
    /\ loc' = [loc EXCEPT ![t] = l]

\* The call takes effect in the contract.
TakeEffect(t, l, o, a, e) ==
    LET c == Contract(l, o, abs[l], Operand(o, a), e)
    IN /\ abs' = [abs EXCEPT ![l] = c.val]
       /\ want' = [want EXCEPT ![t] = c.ret]

(* A whole call in one step: every member on an atomic path (__atomic    *)
(* or Interlocked), and the fallback's load `return ref` and store      *)
(* `ref = value`, which are one access each.                              *)
AtomicCall(t, l, o, a, e) ==
    /\ Call(t, l, o, a, e)
    /\ ~Plain(l) \/ BaseOf(o) \in {"load", "store"}
    /\ LET m == Member(l, BaseOf(o), ref[l], Operand(o, a), e)
       IN /\ ref' = [ref EXCEPT ![l] = m.val]
          /\ result' = [result EXCEPT ![t] = Finish(l, o, m.ret)]
    /\ TakeEffect(t, l, o, a, e)
    /\ UNCHANGED <<pc, arg, exp, old>>

(* The fallback's first access: `T old = ref;` in exchange, fetch_add and *)
(* fetch_sub, and `if (ref == expected)` in compare_exchange_strong.       *)
PlainRead(t, l, o, a, e) ==
    /\ Call(t, l, o, a, e)
    /\ Plain(l) /\ BaseOf(o) \notin {"load", "store"}
    /\ old' = [old EXCEPT ![t] = ref[l]]
    /\ arg' = [arg EXCEPT ![t] = Operand(o, a)]
    /\ exp' = [exp EXCEPT ![t] = e]
    /\ pc' = [pc EXCEPT ![t] =
                 IF BaseOf(o) = "cas" /\ ref[l] # e THEN "reload" ELSE "write"]
    /\ UNCHANGED <<ref, result, abs, want>>

(* The fallback's write: `ref = value` in exchange and a matching CAS,    *)
(* `ref += arg` / `ref -= arg` in fetch_add / fetch_sub.  The compound    *)
(* assignment is a data race with other callers; the compiler may add to  *)
(* `old` or to a fresh read of ref, so either is the base.                *)
PlainWrite(t) ==
    LET l == loc[t]
        b == BaseOf(op[t])
    IN /\ pc[t] = "write"
       /\ \E base \in IF b \in {"fetch_add", "fetch_sub"} THEN {old[t], ref[l]}
                                                       ELSE {old[t]} :
             ref' = [ref EXCEPT ![l] = Member(l, b, base, arg[t], exp[t]).val]
       /\ result' = [result EXCEPT ![t] =
                        Finish(l, op[t], Member(l, b, old[t], arg[t], exp[t]).ret)]
       /\ pc' = [pc EXCEPT ![t] = "idle"]
       /\ TakeEffect(t, l, op[t], arg[t], exp[t])
       /\ UNCHANGED <<op, loc, arg, exp, old, opsLeft>>

\* Mutant: a failed fallback CAS returns the `expected` it was given.
PlainReloadKeepsExpected(t) ==
    /\ pc[t] = "reload"
    /\ result' = [result EXCEPT ![t] = [ok |-> FALSE, val |-> exp[t]]]
    /\ pc' = [pc EXCEPT ![t] = "idle"]
    /\ TakeEffect(t, loc[t], op[t], arg[t], exp[t])
    /\ UNCHANGED <<ref, op, loc, arg, exp, old, opsLeft>>

\* A fallback CAS that failed: `expected = ref; return false;`
PlainReload(t) ==
    /\ pc[t] = "reload"
    /\ result' = [result EXCEPT ![t] = [ok |-> FALSE, val |-> ref[loc[t]]]]
    /\ pc' = [pc EXCEPT ![t] = "idle"]
    /\ TakeEffect(t, loc[t], op[t], arg[t], exp[t])
    /\ UNCHANGED <<ref, op, loc, arg, exp, old, opsLeft>>

\* Every call has returned and no more calls are allowed.
Done ==
    /\ opsLeft = 0 /\ \A t \in Threads : pc[t] = "idle"
    /\ UNCHANGED vars

Next ==
    \/ \E t \in Threads, l \in Locs, o \in Ops, a \in Values \cup Deltas, e \in Expected \cup {0} :
          AtomicCall(t, l, o, a, e) \/ PlainRead(t, l, o, a, e)
    \/ \E t \in Threads : PlainWrite(t) \/ PlainReload(t)
    \/ Done

Spec == Init /\ [][Next]_vars

-----------------------------------------------------------------------------
(* Properties                                                              *)

Quiescent == \A t \in Threads : pc[t] = "idle"

(* Every call returns what it returns under the contract at the point it  *)
(* takes effect (spec 4.1: the members and the operators composed of them *)
(* are atomic, sequentially consistent, and total).  Broken by a fallback *)
(* member whose write is overtaken between its read and its write, and by *)
(* ++x / --x whose int result leaves T's range.                            *)
ReturnsAsContract ==
    \A t \in Threads : (pc[t] = "idle" /\ op[t] # "none") => result[t] = want[t]
=============================================================================
