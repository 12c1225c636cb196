\* Two threads pushing, pulling and popping on a stack of three slots.
CONSTANTS
    t1 = t1
    t2 = t2
    a = a
    b = b
    Junk = Junk
    NULL = NULL
    Threads <- MCThreads
    Items <- MCItemsOne
    S = 3
    Ops <- MCOpsAll
    MaxOps = 4
    SizeModulus <- MCSizeModulus
SPECIFICATION Spec
INVARIANT CountBalanced
