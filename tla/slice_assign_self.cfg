\* The slice part of MCPrimitives: assign of a slice, itself included.
CONSTANTS
    t1 = t1
    t2 = t2
    t3 = t3
    s1 = s1
    s2 = s2
    l1 = l1
    l2 = l2
    v1 = v1
    v2 = v2
    x = x
    y = y
    Junk = Junk
    NULL = NULL
SPECIFICATION Spec
PROPERTY AssignHoldsSource
