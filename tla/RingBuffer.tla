---------------------------- MODULE RingBuffer ----------------------------
(***************************************************************************)
(* tycho::atomic::buffer_t<T, S> (src/src/atomics.hpp 164-246): a ring    *)
(* buffer of S slots over `std::atomic<unsigned> head_, tail_`, for one   *)
(* producer (push) and one consumer (pull, pop).  Each access to head_,   *)
(* tail_ or a slot is one step; the index arithmetic between them is      *)
(* local to the caller.                                                   *)
(*                                                                         *)
(* The ghost `fifo` is the queue the calls promise (spec.md 4.5): a push   *)
(* takes effect when it publishes tail_, a pull when it finds the buffer  *)
(* non-empty, and `expect` is what that pull must return.                 *)
(***************************************************************************)
EXTENDS Integers, Sequences

CONSTANTS
    Items,        \* the values pushed (T is integral, so are they)
    S,            \* the capacity, template parameter S
    ConsumerOps,  \* what the consumer calls: "pull", "pop"
    MaxOps,       \* bound on the number of calls in a behaviour
    Junk,         \* the indeterminate value of a slot never written
    NULL          \* no value (an integer, as T is integral)

ASSUME S > 2 /\ ConsumerOps \subseteq {"pull", "pop"} /\ Junk \notin Items

Slots == 0 .. S - 1

VARIABLES
    head, tail,   \* head_, tail_
    data,         \* data_[S]
    ppc, ptail, pitem, presult,         \* producer: pc and locals
    cpc, cop, chead, ctail, citem, cok, cresult,  \* consumer: pc, locals
    fifo,         \* ghost: the abstract queue, oldest first
    expect,       \* ghost: what the consumer's pending call must return
    opsLeft

vars == <<head, tail, data, ppc, ptail, pitem, presult, cpc, cop, chead,
          ctail, citem, cok, cresult, fifo, expect, opsLeft>>

TypeOK ==
    /\ head \in Slots /\ tail \in Slots
    /\ data \in [Slots -> Items \cup {Junk}]
    /\ ppc \in {"idle", "push_head", "push_write", "push_publish"}
    /\ cpc \in {"idle", "pull_tail", "pull_read", "pull_publish"}
    /\ fifo \in Seq(Items)
    /\ opsLeft \in 0 .. MaxOps

\* Mutant: the wrap test is off by one.
NextIndexOffByOne(i) == IF i + 1 > S THEN i + 1 - S ELSE i + 1

(* `auto next = i; if(++next >= S) next -= S;`                             *)
NextIndex(i) == IF i + 1 >= S THEN i + 1 - S ELSE i + 1

Init ==
    /\ head = 0 /\ tail = 0
    /\ data = [i \in Slots |-> Junk]
    /\ ppc = "idle" /\ ptail = 0 /\ pitem = NULL /\ presult = NULL
    /\ cpc = "idle" /\ cop = "none" /\ chead = 0 /\ ctail = 0
    /\ citem = NULL /\ cok = FALSE /\ cresult = NULL
    /\ fifo = <<>>
    /\ expect = NULL
    /\ opsLeft = MaxOps

consumerVars == <<cpc, cop, chead, ctail, citem, cok, cresult, expect>>
producerVars == <<ppc, ptail, pitem, presult>>

-----------------------------------------------------------------------------
(* push, by the producer                                                   *)

\* const auto tail = tail_.load(relaxed)
PushLoadTail(v) ==
    /\ ppc = "idle"
    /\ opsLeft > 0
    /\ opsLeft' = opsLeft - 1
    /\ ptail' = tail
    /\ pitem' = v
    /\ ppc' = "push_head"
    /\ UNCHANGED <<head, tail, data, presult, fifo, consumerVars>>

\* const auto head = head_.load(acquire); if(next == head) return false;
PushFull ==
    /\ ppc = "push_head"
    /\ NextIndex(ptail) = head
    /\ ppc' = "idle"
    /\ presult' = FALSE
    /\ UNCHANGED <<head, tail, data, ptail, pitem, fifo, opsLeft, consumerVars>>

PushLoadHead ==
    /\ ppc = "push_head"
    /\ NextIndex(ptail) # head
    /\ ppc' = "push_write"
    /\ UNCHANGED <<head, tail, data, ptail, pitem, presult, fifo, opsLeft,
                   consumerVars>>

\* data_[tail] = item;
PushWrite ==
    /\ ppc = "push_write"
    /\ data' = [data EXCEPT ![ptail] = pitem]
    /\ ppc' = "push_publish"
    /\ UNCHANGED <<head, tail, ptail, pitem, presult, fifo, opsLeft,
                   consumerVars>>

\* tail_.store(next, release); return true;
PushPublish ==
    /\ ppc = "push_publish"
    /\ tail' = NextIndex(ptail)
    /\ ppc' = "idle"
    /\ presult' = TRUE
    /\ fifo' = Append(fifo, pitem)
    /\ UNCHANGED <<head, data, ptail, pitem, opsLeft, consumerVars>>

-----------------------------------------------------------------------------
(* pull and pop, by the consumer                                           *)

\* auto head = head_.load(relaxed)
PullLoadHead(o) ==
    /\ cpc = "idle"
    /\ o \in ConsumerOps
    /\ opsLeft > 0
    /\ opsLeft' = opsLeft - 1
    /\ cop' = o
    /\ chead' = head
    /\ cpc' = "pull_tail"
    /\ UNCHANGED <<head, tail, data, ctail, citem, cok, cresult, expect, fifo,
                   producerVars>>

\* const auto tail = tail_.load(acquire); if(head == tail) return false / {};
PullEmpty ==
    /\ cpc = "pull_tail"
    /\ tail = chead
    /\ cpc' = "idle"
    /\ cok' = FALSE
    /\ UNCHANGED <<head, tail, data, cop, chead, ctail, citem, cresult, expect,
                   fifo, opsLeft, producerVars>>

\* Mutant: the empty test is missing.
PullLoadTailNoEmptyCheck ==
    /\ cpc = "pull_tail"
    /\ ctail' = tail
    /\ cpc' = "pull_read"
    /\ expect' = IF fifo = <<>> THEN NULL ELSE Head(fifo)
    /\ fifo' = IF fifo = <<>> THEN fifo ELSE Tail(fifo)
    /\ UNCHANGED <<head, tail, data, cop, chead, citem, cok, cresult, opsLeft,
                   producerVars>>

PullLoadTail ==
    /\ cpc = "pull_tail"
    /\ tail # chead
    /\ ctail' = tail
    /\ cpc' = "pull_read"
    /\ expect' = IF fifo = <<>> THEN NULL ELSE Head(fifo)
    /\ fifo' = IF fifo = <<>> THEN fifo ELSE Tail(fifo)
    /\ UNCHANGED <<head, tail, data, cop, chead, citem, cok, cresult, opsLeft,
                   producerVars>>

\* item = data_[head];  /  auto item = data_[head];
PullRead ==
    /\ cpc = "pull_read"
    /\ citem' = data[chead]
    /\ cpc' = "pull_publish"
    /\ UNCHANGED <<head, tail, data, cop, chead, ctail, cok, cresult, expect,
                   fifo, opsLeft, producerVars>>

(* if(++head >= S) head -= S; tail_.store(tail, release); then pull      *)
(* returns true with the item, and pop returns head, the advanced index.  *)
PullPublish ==
    /\ cpc = "pull_publish"
    /\ tail' = ctail
    /\ cpc' = "idle"
    /\ cok' = TRUE
    /\ cresult' = IF cop = "pull" THEN citem ELSE NextIndex(chead)
    /\ UNCHANGED <<head, data, cop, chead, ctail, citem, expect, fifo,
                   opsLeft, producerVars>>

-----------------------------------------------------------------------------

\* Every call has returned and no more calls are allowed.
Done ==
    /\ opsLeft = 0 /\ ppc = "idle" /\ cpc = "idle"
    /\ UNCHANGED vars

Next ==
    \/ \E v \in Items : PushLoadTail(v)
    \/ PushFull \/ PushLoadHead \/ PushWrite \/ PushPublish
    \/ \E o \in ConsumerOps : PullLoadHead(o)
    \/ PullEmpty \/ PullLoadTail \/ PullRead \/ PullPublish
    \/ Done

Spec == Init /\ [][Next]_vars

-----------------------------------------------------------------------------
(* Properties                                                              *)

(* The consumer never reads a slot the producer has not written: push    *)
(* writes data_[tail] before the release store that publishes tail_, and *)
(* pull reads data_[head] only after it has loaded a tail_ past head.     *)
ReadsPublished == cpc = "pull_publish" => citem # Junk

(* A pull or pop that succeeds returns the oldest item pushed and not yet *)
(* consumed (spec 4.5: read the slot, advance head, publish).             *)
PullReturnsFront == (cpc = "idle" /\ cok) => cresult = expect

(* tail_ only ever moves one slot forward (spec 4.5: each side publishes *)
(* its own index): no step, of producer or consumer, sets it back.       *)
TailAdvancesOnly == [][tail' # tail => tail' = NextIndex(tail)]_vars
=============================================================================
