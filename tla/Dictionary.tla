----------------------------- MODULE Dictionary -----------------------------
(***************************************************************************)
(* tycho::atomic::dictionary_t<K, V, S> of src/src/atomics.hpp: a fixed   *)
(* array of S atomic bucket heads, each the head of a singly linked chain *)
(* of heap nodes {key, value, atomic next}, and an atomic entry count.    *)
(*                                                                         *)
(* Every thread runs one operation at a time.  Each atomic load, store,   *)
(* exchange or compare-exchange of a bucket head or of a node's next      *)
(* field, and each plain write of a node's value, is one step; so is      *)
(* each delete.  A node's key never changes after construction, so a     *)
(* scan step reads a node's key and its next field together.             *)
(*                                                                         *)
(* The heap is explicit: a node is "unused" until new, "live" until       *)
(* delete, "freed" after.  A step that reads or writes a freed node or    *)
(* deletes it twice is undefined behaviour in C++; the model records it   *)
(* in `unsafe` and lets the thread go on with the node's last contents,   *)
(* which is what a build without memory reuse does.                      *)
(*                                                                         *)
(* The temporary node that insert_or_assign and try_emplace allocate and  *)
(* delete before any other thread can see it is left out.                 *)
(***************************************************************************)
EXTENDS Integers, SequencesExt

CONSTANTS
    Threads,      \* caller threads sharing one dictionary
    Keys,         \* key values
    Values,       \* mapped values
    BucketCount,  \* the template parameter S
    KeyIndex,     \* std::hash<K>()(key) % S, as a function Keys -> buckets
    ThreadKeys,   \* the keys each thread passes to the dictionary
    Ops,          \* the member functions the threads call
    MaxOps,       \* bound on the number of calls in a behaviour
    SizeModulus,  \* 2^w for the std::size_t count_
    NULL

Buckets == 0 .. BucketCount - 1

\* Every call allocates at most one published node, so MaxOps addresses
\* are enough.
Nodes == 1 .. MaxOps

AllOps == {"insert", "emplace", "insert_or_assign", "try_emplace",
           "find", "contains", "at", "remove", "clear"}

ASSUME /\ BucketCount \in Nat \ {0}
       /\ KeyIndex \in [Keys -> Buckets]
       /\ ThreadKeys \in [Threads -> SUBSET Keys]
       /\ Ops \subseteq AllOps
       /\ MaxOps \in Nat \ {0}
       /\ SizeModulus \in Nat \ {0}
       /\ NULL \notin Keys \cup Values \cup Nodes

VARIABLES
    table,    \* table_[S]: bucket -> head node or NULL
    heap,     \* node address -> [state, key, value, next]
    count,    \* count_
    pc,       \* where each thread is in its call
    op,       \* the member function each thread is running
    key,      \* its key argument
    value,    \* its value argument
    cur,      \* local `current`
    prev,     \* local `prev` of remove
    nxt,      \* local `next` of remove
    made,     \* local `made` of insert / emplace
    bkt,      \* the bucket clear is at
    result,   \* what the last call returned (NULL: nullopt, throw, false)
    unsafe,   \* undefined-behaviour events so far
    opsLeft   \* calls still to be made

vars == <<table, heap, count, pc, op, key, value, cur, prev, nxt, made, bkt,
          result, unsafe, opsLeft>>

Labels == {"idle", "ins_load", "ins_cas", "ins_count", "ioa_scan",
           "ioa_assign", "te_scan", "find_scan", "rm_scan", "rm_unlink",
           "rm_delete", "rm_count", "cl_xchg", "cl_free", "cl_count"}

NodeRec == [state : {"unused", "live", "freed"}, key : Keys \cup {NULL},
            value : Values \cup {NULL}, next : Nodes \cup {NULL}]

TypeOK ==
    /\ table \in [Buckets -> Nodes \cup {NULL}]
    /\ heap \in [Nodes -> NodeRec]
    /\ count \in 0 .. SizeModulus - 1
    /\ pc \in [Threads -> Labels]
    /\ op \in [Threads -> AllOps \cup {NULL}]
    /\ key \in [Threads -> Keys \cup {NULL}]
    /\ value \in [Threads -> Values \cup {NULL}]
    /\ cur \in [Threads -> Nodes \cup {NULL}]
    /\ prev \in [Threads -> Nodes \cup {NULL}]
    /\ nxt \in [Threads -> Nodes \cup {NULL}]
    /\ made \in [Threads -> Nodes \cup {NULL}]
    /\ bkt \in [Threads -> Buckets]
    /\ result \in [Threads -> Values \cup BOOLEAN \cup {NULL}]
    /\ unsafe \subseteq [thread : Threads, at : Labels,
                         kind : {"use_after_free", "double_free"}]
    /\ opsLeft \in 0 .. MaxOps

-----------------------------------------------------------------------------
(* Helpers                                                                 *)

key_index(k) == KeyIndex[k]

Freed(n) == heap[n].state = "freed"

\* Record undefined behaviour when thread t dereferences node n.
Touch(t, n) ==
    unsafe' = IF Freed(n)
              THEN unsafe \cup {[thread |-> t, at |-> pc[t], kind |-> "use_after_free"]}
              ELSE unsafe

\* The nodes reached from n by following next, at most `fuel` of them.
RECURSIVE ChainOf(_, _)
ChainOf(n, fuel) ==
    IF n = NULL \/ fuel = 0 THEN <<>>
    ELSE <<n>> \o ChainOf(heap[n].next, fuel - 1)

\* A chain longer than MaxOps nodes has a cycle.
BucketChain(b) == ChainOf(table[b], MaxOps + 1)

Reachable == UNION {ToSet(BucketChain(b)) : b \in Buckets}

Goto(t, l) == pc' = [pc EXCEPT ![t] = l]

\* Return from the call: the thread is idle and its locals are dead.
Return(t, r) ==
    /\ pc' = [pc EXCEPT ![t] = "idle"]
    /\ result' = [result EXCEPT ![t] = r]
    /\ cur' = [cur EXCEPT ![t] = NULL]
    /\ prev' = [prev EXCEPT ![t] = NULL]
    /\ nxt' = [nxt EXCEPT ![t] = NULL]
    /\ made' = [made EXCEPT ![t] = NULL]
    /\ bkt' = [bkt EXCEPT ![t] = 0]

\* The caller calls member function o with arguments k and v.
Invoke(t, o, k, v) ==
    /\ pc[t] = "idle"
    /\ o \in Ops
    /\ opsLeft > 0
    /\ opsLeft' = opsLeft - 1
    /\ op' = [op EXCEPT ![t] = o]
    /\ key' = [key EXCEPT ![t] = k]
    /\ value' = [value EXCEPT ![t] = v]

\* `auto made = new node(key, value)` followed by the first iteration of
\* the CAS loop: `expected = table_[index].load(); made->next.store(expected)`.
\* made is private until the CAS publishes it.
Alloc(t, k, v) ==
    LET n == Min({m \in Nodes : heap[m].state = "unused"})
    IN  /\ made' = [made EXCEPT ![t] = n]
        /\ heap' = [heap EXCEPT ![n] = [state |-> "live", key |-> k,
                                         value |-> v,
                                         next |-> table[key_index(k)]]]

-----------------------------------------------------------------------------
(* insert / emplace: prepend a node with a compare-exchange loop          *)

InsertBegin(t, o, k, v) ==
    /\ o \in {"insert", "emplace"}
    /\ Invoke(t, o, k, v)
    /\ Alloc(t, k, v)
    /\ Goto(t, "ins_cas")
    /\ UNCHANGED <<table, count, cur, prev, nxt, bkt, result, unsafe>>

\* A retry: reload the head and store it into made->next.
InsertLoad(t) ==
    /\ pc[t] = "ins_load"
    /\ heap' = [heap EXCEPT ![made[t]].next = table[key_index(key[t])]]
    /\ Goto(t, "ins_cas")
    /\ UNCHANGED <<table, count, op, key, value, cur, prev, nxt, made, bkt,
                   result, unsafe, opsLeft>>

\* Mutant: a plain store of the head instead of a compare-exchange.
InsertStoreNoCas(t) ==
    /\ pc[t] = "ins_cas"
    /\ table' = [table EXCEPT ![key_index(key[t])] = made[t]]
    /\ Goto(t, "ins_count")
    /\ UNCHANGED <<heap, count, op, key, value, cur, prev, nxt, made, bkt,
                   result, unsafe, opsLeft>>

\* Mutant: the count is bumped on every attempt, not once after success.
InsertCasCountsRetries(t) ==
    LET b == key_index(key[t]) IN
    /\ pc[t] = "ins_cas"
    /\ IF table[b] = heap[made[t]].next
       THEN /\ table' = [table EXCEPT ![b] = made[t]]
            /\ Goto(t, "ins_count")
            /\ UNCHANGED count
       ELSE /\ Goto(t, "ins_load")
            /\ count' = (count + 1) % SizeModulus
            /\ UNCHANGED table
    /\ UNCHANGED <<heap, op, key, value, cur, prev, nxt, made, bkt,
                   result, unsafe, opsLeft>>

\* Mutant: a failed compare-exchange retries without reloading the head.
InsertCasNoReload(t) ==
    LET b == key_index(key[t]) IN
    /\ pc[t] = "ins_cas"
    /\ IF table[b] = heap[made[t]].next
       THEN /\ table' = [table EXCEPT ![b] = made[t]]
            /\ Goto(t, "ins_count")
       ELSE /\ Goto(t, "ins_cas")
            /\ UNCHANGED table
    /\ UNCHANGED <<heap, count, op, key, value, cur, prev, nxt, made, bkt,
                   result, unsafe, opsLeft>>

\* table_[index].compare_exchange_weak(expected, made), expected being
\* the value just stored in made->next.
InsertCas(t) ==
    LET b == key_index(key[t]) IN
    /\ pc[t] = "ins_cas"
    /\ IF table[b] = heap[made[t]].next
       THEN /\ table' = [table EXCEPT ![b] = made[t]]
            /\ Goto(t, "ins_count")
       ELSE /\ Goto(t, "ins_load")
            /\ UNCHANGED table
    /\ UNCHANGED <<heap, count, op, key, value, cur, prev, nxt, made, bkt,
                   result, unsafe, opsLeft>>

\* compare_exchange_weak may fail although the head equals expected.
InsertSpurious(t) ==
    /\ pc[t] = "ins_cas"
    /\ table[key_index(key[t])] = heap[made[t]].next
    /\ Goto(t, "ins_load")
    /\ UNCHANGED <<table, heap, count, op, key, value, cur, prev, nxt, made,
                   bkt, result, unsafe, opsLeft>>

\* count_.fetch_add(1); return true (also the return of the insert or
\* emplace that insert_or_assign and try_emplace fall through to).
InsertCount(t) ==
    /\ pc[t] = "ins_count"
    /\ count' = (count + 1) % SizeModulus
    /\ Return(t, TRUE)
    /\ UNCHANGED <<table, heap, op, key, value, unsafe, opsLeft>>
-----------------------------------------------------------------------------
(* Chain scans.  `current = table_[index].load()` is the call's first      *)
(* shared access and is part of its invocation step; each later step      *)
(* reads current->key and current->next.load().                           *)

Matches(t) == heap[cur[t]].key = key[t]

Advance(t) == cur' = [cur EXCEPT ![t] = heap[cur[t]].next]

LoadHead(t, k) == cur' = [cur EXCEPT ![t] = table[key_index(k)]]

\* insert_or_assign: scan for the key, assign in place, else insert.
AssignBegin(t, k, v) ==
    /\ Invoke(t, "insert_or_assign", k, v)
    /\ LoadHead(t, k)
    /\ Goto(t, "ioa_scan")
    /\ UNCHANGED <<table, heap, count, prev, nxt, made, bkt, result, unsafe>>

AssignScan(t) ==
    /\ pc[t] = "ioa_scan"
    /\ cur[t] # NULL
    /\ Touch(t, cur[t])
    /\ IF Matches(t)
       THEN Goto(t, "ioa_assign") /\ UNCHANGED cur
       ELSE Advance(t) /\ UNCHANGED pc
    /\ UNCHANGED <<table, heap, count, op, key, value, prev, nxt, made, bkt,
                   result, opsLeft>>

\* current->value = value: a plain write into the node.
AssignWrite(t) ==
    /\ pc[t] = "ioa_assign"
    /\ Touch(t, cur[t])
    /\ heap' = [heap EXCEPT ![cur[t]].value = value[t]]
    /\ Return(t, TRUE)
    /\ UNCHANGED <<table, count, op, key, value, opsLeft>>

\* End of chain: delete made; insert(key, value).
AssignMiss(t) ==
    /\ pc[t] = "ioa_scan"
    /\ cur[t] = NULL
    /\ Alloc(t, key[t], value[t])
    /\ Goto(t, "ins_cas")
    /\ UNCHANGED <<table, count, op, key, value, cur, prev, nxt, bkt, result,
                   unsafe, opsLeft>>

\* try_emplace: scan for the key, fail if found, else emplace.
TryEmplaceBegin(t, k, v) ==
    /\ Invoke(t, "try_emplace", k, v)
    /\ LoadHead(t, k)
    /\ Goto(t, "te_scan")
    /\ UNCHANGED <<table, heap, count, prev, nxt, made, bkt, result, unsafe>>

TryEmplaceScan(t) ==
    /\ pc[t] = "te_scan"
    /\ cur[t] # NULL
    /\ Touch(t, cur[t])
    /\ IF Matches(t)
       THEN Return(t, FALSE)
       ELSE Advance(t) /\ UNCHANGED <<pc, result, prev, nxt, made, bkt>>
    /\ UNCHANGED <<table, heap, count, op, key, value, opsLeft>>

\* End of chain: emplace(std::move(made->key), std::move(made->value)).
TryEmplaceMiss(t) ==
    /\ pc[t] = "te_scan"
    /\ cur[t] = NULL
    /\ Alloc(t, key[t], value[t])
    /\ Goto(t, "ins_cas")
    /\ UNCHANGED <<table, count, op, key, value, cur, prev, nxt, bkt, result,
                   unsafe, opsLeft>>

\* find, contains and at: the first node with the key gives the answer.
FindBegin(t, o, k) ==
    /\ o \in {"find", "contains", "at"}
    /\ Invoke(t, o, k, NULL)
    /\ LoadHead(t, k)
    /\ Goto(t, "find_scan")
    /\ UNCHANGED <<table, heap, count, prev, nxt, made, bkt, result, unsafe>>

\* Mutant: the first node of the chain answers, whatever its key.
FindScanNoKeyCompare(t) ==
    /\ pc[t] = "find_scan"
    /\ cur[t] # NULL
    /\ Touch(t, cur[t])
    /\ Return(t, IF op[t] = "contains" THEN TRUE ELSE heap[cur[t]].value)
    /\ UNCHANGED <<table, heap, count, op, key, value, opsLeft>>

FindScan(t) ==
    /\ pc[t] = "find_scan"
    /\ cur[t] # NULL
    /\ Touch(t, cur[t])
    /\ IF Matches(t)
       THEN Return(t, IF op[t] = "contains" THEN TRUE ELSE heap[cur[t]].value)
       ELSE Advance(t) /\ UNCHANGED <<pc, result, prev, nxt, made, bkt>>
    /\ UNCHANGED <<table, heap, count, op, key, value, opsLeft>>

\* nullopt, false, or throw std::out_of_range.
FindMiss(t) ==
    /\ pc[t] = "find_scan"
    /\ cur[t] = NULL
    /\ Return(t, IF op[t] = "contains" THEN FALSE ELSE NULL)
    /\ UNCHANGED <<table, heap, count, op, key, value, unsafe, opsLeft>>

-----------------------------------------------------------------------------
(* remove: scan with a trailing prev, unlink with a plain store, delete.   *)

RemoveBegin(t, k) ==
    /\ Invoke(t, "remove", k, NULL)
    /\ LoadHead(t, k)
    /\ prev' = [prev EXCEPT ![t] = NULL]
    /\ Goto(t, "rm_scan")
    /\ UNCHANGED <<table, heap, count, nxt, made, bkt, result, unsafe>>

\* On a match, `auto next = current->next.load()`; else prev = current.
RemoveScan(t) ==
    /\ pc[t] = "rm_scan"
    /\ cur[t] # NULL
    /\ Touch(t, cur[t])
    /\ IF Matches(t)
       THEN /\ nxt' = [nxt EXCEPT ![t] = heap[cur[t]].next]
            /\ Goto(t, "rm_unlink")
            /\ UNCHANGED <<cur, prev>>
       ELSE /\ prev' = [prev EXCEPT ![t] = cur[t]]
            /\ Advance(t)
            /\ UNCHANGED <<pc, nxt>>
    /\ UNCHANGED <<table, heap, count, op, key, value, made, bkt, result,
                   opsLeft>>

RemoveMiss(t) ==
    /\ pc[t] = "rm_scan"
    /\ cur[t] = NULL
    /\ Return(t, FALSE)
    /\ UNCHANGED <<table, heap, count, op, key, value, unsafe, opsLeft>>

\* Mutant: the bucket head is overwritten whatever prev is.
RemoveUnlinkHead(t) ==
    /\ pc[t] = "rm_unlink"
    /\ table' = [table EXCEPT ![key_index(key[t])] = nxt[t]]
    /\ Goto(t, "rm_delete")
    /\ UNCHANGED <<heap, unsafe, count, op, key, value, cur, prev, nxt, made,
                   bkt, result, opsLeft>>

\* prev->next.store(next), or table_[index].store(next) when prev is null.
RemoveUnlink(t) ==
    /\ pc[t] = "rm_unlink"
    /\ IF prev[t] # NULL
       THEN /\ heap' = [heap EXCEPT ![prev[t]].next = nxt[t]]
            /\ Touch(t, prev[t])
            /\ UNCHANGED table
       ELSE /\ table' = [table EXCEPT ![key_index(key[t])] = nxt[t]]
            /\ UNCHANGED <<heap, unsafe>>
    /\ Goto(t, "rm_delete")
    /\ UNCHANGED <<count, op, key, value, cur, prev, nxt, made, bkt, result,
                   opsLeft>>

\* Mutant: the node before the one unlinked is deleted.
RemoveDeletePrev(t) ==
    /\ pc[t] = "rm_delete"
    /\ LET n == IF prev[t] # NULL THEN prev[t] ELSE cur[t]
       IN heap' = [heap EXCEPT ![n].state = "freed"]
    /\ Goto(t, "rm_count")
    /\ UNCHANGED <<table, count, op, key, value, cur, prev, nxt, made, bkt,
                   result, unsafe, opsLeft>>

\* delete current.
RemoveDelete(t) ==
    /\ pc[t] = "rm_delete"
    /\ heap' = [heap EXCEPT ![cur[t]].state = "freed"]
    /\ unsafe' = IF Freed(cur[t])
                 THEN unsafe \cup {[thread |-> t, at |-> pc[t], kind |-> "double_free"]}
                 ELSE unsafe
    /\ Goto(t, "rm_count")
    /\ UNCHANGED <<table, count, op, key, value, cur, prev, nxt, made, bkt,
                   result, opsLeft>>

\* count_.fetch_sub(1): size_t arithmetic wraps below zero.
RemoveCount(t) ==
    /\ pc[t] = "rm_count"
    /\ count' = (count - 1) % SizeModulus
    /\ Return(t, TRUE)
    /\ UNCHANGED <<table, heap, op, key, value, unsafe, opsLeft>>

-----------------------------------------------------------------------------
(* clear: detach each bucket with an exchange and free its chain.         *)

ClearBegin(t) ==
    /\ Invoke(t, "clear", NULL, NULL)
    /\ bkt' = [bkt EXCEPT ![t] = 0]
    /\ Goto(t, "cl_xchg")
    /\ UNCHANGED <<table, heap, count, cur, prev, nxt, made, result, unsafe>>

\* auto current = bucket.exchange(nullptr).
ClearExchange(t) ==
    /\ pc[t] = "cl_xchg"
    /\ cur' = [cur EXCEPT ![t] = table[bkt[t]]]
    /\ table' = [table EXCEPT ![bkt[t]] = NULL]
    /\ Goto(t, "cl_free")
    /\ UNCHANGED <<heap, count, op, key, value, prev, nxt, made, bkt, result,
                   unsafe, opsLeft>>

\* next = current->next.load(); delete current; current = next.
ClearFree(t) ==
    /\ pc[t] = "cl_free"
    /\ cur[t] # NULL
    /\ heap' = [heap EXCEPT ![cur[t]].state = "freed"]
    /\ unsafe' = IF Freed(cur[t])
                 THEN unsafe \cup {[thread |-> t, at |-> pc[t], kind |-> "double_free"]}
                 ELSE unsafe
    /\ Advance(t)
    /\ UNCHANGED <<table, count, pc, op, key, value, prev, nxt, made, bkt,
                   result, opsLeft>>

\* Mutant: the bucket loop runs one past the last bucket.
ClearNextBucketPastEnd(t) ==
    /\ pc[t] = "cl_free"
    /\ cur[t] = NULL
    /\ IF bkt[t] < BucketCount
       THEN bkt' = [bkt EXCEPT ![t] = @ + 1] /\ Goto(t, "cl_xchg")
       ELSE Goto(t, "cl_count") /\ UNCHANGED bkt
    /\ UNCHANGED <<table, heap, count, op, key, value, cur, prev, nxt, made,
                   result, unsafe, opsLeft>>

\* The chain is freed: on to the next bucket, or past the loop.
ClearNextBucket(t) ==
    /\ pc[t] = "cl_free"
    /\ cur[t] = NULL
    /\ IF bkt[t] < BucketCount - 1
       THEN bkt' = [bkt EXCEPT ![t] = @ + 1] /\ Goto(t, "cl_xchg")
       ELSE Goto(t, "cl_count") /\ UNCHANGED bkt
    /\ UNCHANGED <<table, heap, count, op, key, value, cur, prev, nxt, made,
                   result, unsafe, opsLeft>>

\* Mutant: count_ is not reset.
ClearCountKept(t) ==
    /\ pc[t] = "cl_count"
    /\ Return(t, NULL)
    /\ UNCHANGED <<count, table, heap, op, key, value, unsafe, opsLeft>>

\* count_.store(0).
ClearCount(t) ==
    /\ pc[t] = "cl_count"
    /\ count' = 0
    /\ Return(t, NULL)
    /\ UNCHANGED <<table, heap, op, key, value, unsafe, opsLeft>>

-----------------------------------------------------------------------------
(* The specification                                                       *)

Init ==
    /\ table = [b \in Buckets |-> NULL]
    /\ heap = [n \in Nodes |-> [state |-> "unused", key |-> NULL,
                                value |-> NULL, next |-> NULL]]
    /\ count = 0
    /\ pc = [t \in Threads |-> "idle"]
    /\ op = [t \in Threads |-> NULL]
    /\ key = [t \in Threads |-> NULL]
    /\ value = [t \in Threads |-> NULL]
    /\ cur = [t \in Threads |-> NULL]
    /\ prev = [t \in Threads |-> NULL]
    /\ nxt = [t \in Threads |-> NULL]
    /\ made = [t \in Threads |-> NULL]
    /\ bkt = [t \in Threads |-> 0]
    /\ result = [t \in Threads |-> NULL]
    /\ unsafe = {}
    /\ opsLeft = MaxOps

\* The caller's calls.
Call(t) ==
    \/ \E o \in {"insert", "emplace"}, k \in ThreadKeys[t], v \in Values :
           InsertBegin(t, o, k, v)
    \/ \E k \in ThreadKeys[t], v \in Values :
           AssignBegin(t, k, v) \/ TryEmplaceBegin(t, k, v)
    \/ \E o \in {"find", "contains", "at"}, k \in ThreadKeys[t] : FindBegin(t, o, k)
    \/ \E k \in ThreadKeys[t] : RemoveBegin(t, k)
    \/ ClearBegin(t)

\* The steps of a call in progress.
Step(t) ==
    \/ InsertLoad(t) \/ InsertCas(t) \/ InsertSpurious(t) \/ InsertCount(t)
    \/ AssignScan(t) \/ AssignWrite(t) \/ AssignMiss(t)
    \/ TryEmplaceScan(t) \/ TryEmplaceMiss(t)
    \/ FindScan(t) \/ FindMiss(t)
    \/ RemoveScan(t) \/ RemoveMiss(t) \/ RemoveUnlink(t) \/ RemoveDelete(t)
    \/ RemoveCount(t)
    \/ ClearExchange(t) \/ ClearFree(t) \/ ClearNextBucket(t) \/ ClearCount(t)

\* All calls made and returned: the program is done.
Done ==
    /\ opsLeft = 0
    /\ \A t \in Threads : pc[t] = "idle"
    /\ UNCHANGED vars

Next == (\E t \in Threads : Call(t) \/ Step(t)) \/ Done

\* A thread that is in a call keeps being scheduled; a compare-exchange
\* whose expected value stays correct cannot fail spuriously forever.
Fairness ==
    \A t \in Threads : WF_vars(Step(t)) /\ SF_vars(InsertCas(t))

Spec == Init /\ [][Next]_vars /\ Fairness

-----------------------------------------------------------------------------
(* Properties                                                              *)

Quiescent == \A t \in Threads : pc[t] = "idle"

\* A node that is live but that no bucket reaches is still owned by a call:
\* an insert before its CAS, a remove between unlink and delete, or a
\* clear whose detached chain holds it.
Owned(n) ==
    \E t \in Threads :
        \/ made[t] = n /\ pc[t] \in {"ins_load", "ins_cas"}
        \/ cur[t] = n /\ pc[t] = "rm_delete"
        \/ pc[t] = "cl_free" /\ n \in ToSet(ChainOf(cur[t], MaxOps + 1))

\* No entry is ever lost: every node that insert, emplace, try_emplace or
\* insert_or_assign published and that no remove or clear took out stays
\* reachable from its bucket (a racing unlink or head store drops it).
NoLostEntries ==
    \A n \in Nodes : heap[n].state = "live" => n \in Reachable \/ Owned(n)

\* Every chain is finite, holds only live nodes, and only nodes whose key
\* hashes to its bucket: no freed node is ever linked back in.
ChainsWellFormed ==
    \A b \in Buckets :
        /\ Len(BucketChain(b)) <= MaxOps
        /\ \A n \in ToSet(BucketChain(b)) :
              heap[n].state = "live" /\ key_index(heap[n].key) = b

\* When no call is in progress, count_ (size(), empty(), operator bool)
\* equals the number of entries the buckets hold.
CountMatches == Quiescent => count = Cardinality(Reachable)

\* Without plain insert and emplace, no key has two entries
\* (insert_or_assign and try_emplace look before they insert).
UniqueKeys ==
    Ops \cap {"insert", "emplace"} = {} =>
        \A m, n \in Reachable : m # n => heap[m].key # heap[n].key

\* No call reads, writes or deletes a node that was already deleted.
MemorySafe == unsafe = {}

\* Every call returns.
CallsReturn == \A t \in Threads : pc[t] # "idle" ~> pc[t] = "idle"

-----------------------------------------------------------------------------
(* Refinement of DictionaryAbs.  A call takes effect at its linearization *)
(* point: the successful CAS of insert/emplace (and of the insert that    *)
(* insert_or_assign and try_emplace fall through to), the value write of  *)
(* insert_or_assign, the end of the scan of a failing try_emplace or     *)
(* remove, the unlink of a remove, the exchange of each bucket by clear,  *)
(* and the head load of find, contains and at.                           *)

Reads == {"find", "contains", "at"}

\* The calls that have been invoked and have not taken effect.
Pending(t) ==
    \/ pc[t] \in {"ins_load", "ins_cas", "ioa_scan", "ioa_assign", "te_scan",
                  "rm_scan", "rm_unlink", "cl_xchg"}
    \/ pc[t] = "cl_free" /\ bkt[t] < BucketCount - 1

\* The entries of key k, in chain order.
EntriesOf(k) ==
    LET s == SelectSeq(BucketChain(key_index(k)), LAMBDA n : heap[n].key = k)
    IN  [i \in 1 .. Len(s) |-> heap[s[i]].value]

\* What a read in progress will return: the first node with its key after
\* the node it is at.
ReadAnswer(t) ==
    LET s == SelectSeq(ChainOf(cur[t], MaxOps + 1), LAMBDA n : heap[n].key = key[t])
    IN  IF op[t] = "contains" THEN s # <<>>
        ELSE IF s = <<>> THEN NULL ELSE heap[s[1]].value

AbsPend ==
    [t \in Threads |->
        IF Pending(t)
        THEN [op |-> op[t], key |-> key[t], value |-> value[t],
              bkt |-> IF pc[t] = "cl_free" THEN bkt[t] + 1 ELSE bkt[t]]
        ELSE NULL]

AbsRet ==
    [t \in Threads |->
        <<key[t],
          CASE pc[t] = "find_scan" -> ReadAnswer(t)
            [] pc[t] \in {"ins_count", "rm_delete", "rm_count"} -> TRUE
            [] pc[t] \in {"cl_free", "cl_count"} /\ ~Pending(t) -> NULL
            [] Pending(t) -> NULL
            [] OTHER -> result[t]>>]

Abs == INSTANCE DictionaryAbs
         WITH entries <- [k \in Keys |-> EntriesOf(k)], pend <- AbsPend, ret <- AbsRet

\* Every behaviour of the code is a behaviour of the abstract dictionary.
AbsSpec == Abs!Spec

=============================================================================
