---------------------------- MODULE MCDictionary ----------------------------
(***************************************************************************)
(* Instances of Dictionary for TLC.  Keys k1 and k2 hash to the same      *)
(* bucket, so calls on different keys still race on one chain; k3 hashes *)
(* to the other bucket so that clear has two buckets to walk.            *)
(***************************************************************************)
EXTENDS Dictionary, TLC

CONSTANTS t1, t2, k1, k2, k3, v1, v2

MCThreads == {t1, t2}
MCValues == {v1, v2}

\* One shared bucket.
MCKeysShared == {k1, k2}
MCIndexShared == [k \in MCKeysShared |-> 0]

\* Two buckets, one with a collision.
MCKeysTwo == {k1, k2, k3}
MCIndexTwo == (k1 :> 0) @@ (k2 :> 0) @@ (k3 :> 1)

\* Both threads use every key.
MCThreadKeysShared == [t \in MCThreads |-> MCKeysShared]

\* A single caller using every key.
MCThreadsOne == {t1}
MCThreadKeysOne == t1 :> MCKeysTwo

MCOpsInsert == {"insert", "find"}
MCValuesOne == {v1}
MCOpsDedup == {"insert_or_assign", "try_emplace", "find"}
MCOpsAll == AllOps
MCOpsRemoveInsert == {"insert", "remove"}
MCOpsClearInsert == {"insert", "clear"}

=============================================================================
