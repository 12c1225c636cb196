--------------------------- MODULE DictionaryAbs ---------------------------
(***************************************************************************)
(* What dictionary_t promises (spec.md 4.6 and 5): a map from each key to *)
(* the values of its entries, most recently inserted first, changed by    *)
(* calls that each take effect in one atomic step between invocation and *)
(* return (linearizability).  Plain insert and emplace may create         *)
(* duplicate entries; insert_or_assign replaces the value of the first    *)
(* entry; try_emplace adds only when the key is absent; remove drops the  *)
(* first entry; find, contains and at read the first entry; clear empties *)
(* the buckets one at a time, in order, each atomically.                  *)
(*                                                                         *)
(* pend[t] is the call thread t has invoked and that has not taken effect *)
(* yet; ret[t] pairs the key of its last call with what that call       *)
(* returns, NULL until it has taken effect.                               *)
(***************************************************************************)
EXTENDS Integers, Sequences

CONSTANTS Threads, Keys, Values, BucketCount, KeyIndex, NULL

Buckets == 0 .. BucketCount - 1

VARIABLES entries, pend, ret

absVars == <<entries, pend, ret>>

Call == [op : {"insert", "emplace", "insert_or_assign", "try_emplace",
               "remove", "clear"},
         key : Keys \cup {NULL}, value : Values \cup {NULL}, bkt : Buckets]

Answer == Values \cup BOOLEAN \cup {NULL}

TypeOK ==
    /\ entries \in [Keys -> Seq(Values)]
    /\ pend \in [Threads -> Call \cup {NULL}]
    /\ ret \in [Threads -> (Keys \cup {NULL}) \X Answer]

Init ==
    /\ entries = [k \in Keys |-> <<>>]
    /\ pend = [t \in Threads |-> NULL]
    /\ ret = [t \in Threads |-> <<NULL, NULL>>]

Prepend(k, v) == [entries EXCEPT ![k] = <<v>> \o @]

\* Thread t invokes a call that changes the map.
Invoke(t) ==
    /\ pend[t] = NULL
    /\ \E c \in Call :
          /\ c.bkt = 0
          /\ (c.op = "clear") = (c.key = NULL)
          /\ (c.op \in {"remove", "clear"}) = (c.value = NULL)
          /\ pend' = [pend EXCEPT ![t] = c]
          /\ ret' = [ret EXCEPT ![t] = <<c.key, NULL>>]
    /\ UNCHANGED entries

\* The pending call of t takes effect.
Linearize(t) ==
    LET c == pend[t]
        k == c.key
        present == entries[k] # <<>>
        Done(r) == pend' = [pend EXCEPT ![t] = NULL] /\ ret' = [ret EXCEPT ![t] = <<k, r>>]
    IN
    /\ c # NULL
    /\ c.op # "clear"
    /\ CASE c.op \in {"insert", "emplace"} ->
                entries' = Prepend(k, c.value) /\ Done(TRUE)
         [] c.op = "insert_or_assign" ->
                /\ entries' = IF present THEN [entries EXCEPT ![k][1] = c.value]
                                         ELSE Prepend(k, c.value)
                /\ Done(TRUE)
         [] c.op = "try_emplace" ->
                /\ entries' = IF present THEN entries ELSE Prepend(k, c.value)
                /\ Done(~present)
         [] c.op = "remove" ->
                /\ entries' = IF present THEN [entries EXCEPT ![k] = Tail(@)]
                                         ELSE entries
                /\ Done(present)

\* The pending clear of t empties its current bucket.
ClearBucket(t) ==
    LET b == pend[t].bkt IN
    /\ pend[t] # NULL
    /\ pend[t].op = "clear"
    /\ entries' = [k \in Keys |-> IF KeyIndex[k] = b THEN <<>> ELSE entries[k]]
    /\ IF b = BucketCount - 1
       THEN pend' = [pend EXCEPT ![t] = NULL] /\ ret' = [ret EXCEPT ![t] = <<NULL, NULL>>]
       ELSE pend' = [pend EXCEPT ![t].bkt = b + 1] /\ UNCHANGED ret

\* find, at and contains take effect in one step and change nothing.
Read(t) ==
    /\ pend[t] = NULL
    /\ \E k \in Keys :
          \/ ret' = [ret EXCEPT ![t] = <<k, IF entries[k] = <<>> THEN NULL
                                           ELSE entries[k][1]>>]
          \/ ret' = [ret EXCEPT ![t] = <<k, entries[k] # <<>>>>]
    /\ UNCHANGED <<entries, pend>>

Next == \E t \in Threads : Invoke(t) \/ Linearize(t) \/ ClearBucket(t) \/ Read(t)

Spec == Init /\ [][Next]_absVars
=============================================================================
