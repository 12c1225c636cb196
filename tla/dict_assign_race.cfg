\* Two threads call insert_or_assign and try_emplace on the same key.
CONSTANTS
    t1 = t1
    t2 = t2
    k1 = k1
    k2 = k2
    k3 = k3
    v1 = v1
    v2 = v2
    NULL = NULL
    Threads <- MCThreads
    Keys <- MCKeysShared
    Values <- MCValuesOne
    BucketCount = 1
    KeyIndex <- MCIndexShared
    ThreadKeys <- MCThreadKeysShared
    Ops <- MCOpsDedup
    MaxOps = 3
    SizeModulus = 256
SPECIFICATION Spec
INVARIANT UniqueKeys
