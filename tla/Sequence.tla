------------------------------ MODULE Sequence ------------------------------
(***************************************************************************)
(* tycho::atomic::sequence_t<T> (src/src/atomics.hpp 25-67): an unsigned  *)
(* counter `mutable std::atomic<T> seq_`.  Reading it, by operator* or by  *)
(* the conversion operator T(), is seq_.fetch_add(1); set and operator=(T) *)
(* store; copy assignment loads the source and then stores into this, two  *)
(* steps another thread may come between.                                 *)
(***************************************************************************)
EXTENDS Integers

CONSTANTS
    Threads,
    Seqs,     \* the sequence_t objects
    Width,    \* bits of T
    Seeds,    \* values passed to set / operator=(T), and the initial values
    MaxOps    \* bound on the number of calls in a behaviour

Modulus == 2^Width

ASSUME Seeds \subseteq 0 .. Modulus - 1 /\ MaxOps \in Nat

VARIABLES
    seq,      \* seq[s]: seq_ of object s
    pc,       \* "idle" or "copy_store"
    dst, snap,  \* copy assignment: this, and the value loaded from `from`
    result,   \* what the thread's last read returned
    opsLeft

vars == <<seq, pc, dst, snap, result, opsLeft>>

TypeOK ==
    /\ seq \in [Seqs -> 0 .. Modulus - 1]
    /\ pc \in [Threads -> {"idle", "copy_store"}]
    /\ opsLeft \in 0 .. MaxOps

Init ==
    /\ seq \in [Seqs -> Seeds]
    /\ pc = [t \in Threads |-> "idle"]
    /\ dst = [t \in Threads |-> CHOOSE s \in Seqs : TRUE]
    /\ snap = [t \in Threads |-> 0]
    /\ result = [t \in Threads |-> 0]
    /\ opsLeft = MaxOps

Begin(t) ==
    /\ pc[t] = "idle" /\ opsLeft > 0
    /\ opsLeft' = opsLeft - 1

\* operator*() and operator T(): return seq_.fetch_add(1);  (T wraps)
Read(t, s) ==
    /\ Begin(t)
    /\ seq' = [seq EXCEPT ![s] = (@ + 1) % Modulus]
    /\ result' = [result EXCEPT ![t] = seq[s]]
    /\ UNCHANGED <<pc, dst, snap>>

Stored(s, v) == seq' = [seq EXCEPT ![s] = v]

\* set(v) and operator=(const T v): seq_.store(v, relaxed);
Set(t, s, v) ==
    /\ Begin(t)
    /\ Stored(s, v)
    /\ UNCHANGED <<pc, dst, snap, result>>

(* operator=(const sequence_t& from): if(&from != this) then              *)
(* from.seq_.load(relaxed), and the store below; self-assignment does     *)
(* nothing.                                                                *)
CopyLoad(t, d, f) ==
    /\ Begin(t)
    /\ IF f # d
       THEN /\ pc' = [pc EXCEPT ![t] = "copy_store"]
            /\ dst' = [dst EXCEPT ![t] = d]
            /\ snap' = [snap EXCEPT ![t] = seq[f]]
       ELSE UNCHANGED <<pc, dst, snap>>
    /\ UNCHANGED <<seq, result>>

\* seq_.store(<loaded>, release);
CopyStore(t) ==
    /\ pc[t] = "copy_store"
    /\ Stored(dst[t], snap[t])
    /\ pc' = [pc EXCEPT ![t] = "idle"]
    /\ UNCHANGED <<dst, snap, result, opsLeft>>

Done ==
    /\ opsLeft = 0 /\ \A t \in Threads : pc[t] = "idle"
    /\ UNCHANGED vars

Next ==
    \/ \E t \in Threads, s \in Seqs :
          \/ Read(t, s)
          \/ \E v \in Seeds : Set(t, s, v)
          \/ \E f \in Seqs : CopyLoad(t, s, f)
    \/ \E t \in Threads : CopyStore(t)
    \/ Done

Spec == Init /\ [][Next]_vars

=============================================================================
