\* One thread calls every member function on keys of two buckets.
CONSTANTS
    t1 = t1
    t2 = t2
    k1 = k1
    k2 = k2
    k3 = k3
    v1 = v1
    v2 = v2
    NULL = NULL
    Threads <- MCThreadsOne
    Keys <- MCKeysTwo
    Values <- MCValues
    BucketCount = 2
    KeyIndex <- MCIndexTwo
    ThreadKeys <- MCThreadKeysOne
    Ops <- MCOpsAll
    MaxOps = 4
    SizeModulus = 256
SPECIFICATION Spec
INVARIANT TypeOK
INVARIANT ChainsWellFormed
INVARIANT CountMatches
PROPERTY AbsSpec
