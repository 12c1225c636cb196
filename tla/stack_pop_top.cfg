\* One thread pushing and popping: a pop returns the item on top.
CONSTANTS
    t1 = t1
    t2 = t2
    a = a
    b = b
    Junk = Junk
    NULL = NULL
    Threads <- MCThreadsOne
    Items <- MCItemsOne
    S = 3
    Ops <- MCOpsAll
    MaxOps = 3
    SizeModulus <- MCSizeModulus
SPECIFICATION Spec
INVARIANT PopReturnsTop
