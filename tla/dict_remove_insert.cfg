\* One thread removes a key while another inserts a key of the same bucket.
CONSTANTS
    t1 = t1
    t2 = t2
    k1 = k1
    k2 = k2
    k3 = k3
    v1 = v1
    v2 = v2
    NULL = NULL
    Threads <- MCThreads
    Keys <- MCKeysShared
    Values <- MCValuesOne
    BucketCount = 1
    KeyIndex <- MCIndexShared
    ThreadKeys <- MCThreadKeysShared
    Ops <- MCOpsRemoveInsert
    MaxOps = 3
    SizeModulus = 256
SPECIFICATION Spec
INVARIANT NoLostEntries
