\* sequence_t<uint8_t> objects seeded at 0 and 254, read, set and
\* copy-assigned by three threads in five calls; a once_t tested and reset
\* by two threads; args::parse of every argv of up to three entries drawn
\* from thirteen tokens, then one setter call; three calls on two slices of
\* two values with room for six list nodes; a buffer_t of three slots with
\* a producer and a consumer pulling and popping in six calls; a stack_t of
\* three slots two threads push onto in five calls; atomic_refs of an MSVC
\* build, a 4-byte one shared and a 1-byte one used by one thread, in three
\* calls.
CONSTANTS
    t1 = t1
    t2 = t2
    t3 = t3
    s1 = s1
    s2 = s2
    l1 = l1
    l2 = l2
    v1 = v1
    v2 = v2
    x = x
    y = y
    Junk = Junk
    NULL = NULL
SPECIFICATION Spec
INVARIANT ParseAgreesWithCommandLine
INVARIANT RingTypeOK
INVARIANT ReadsPublished
INVARIANT PushResultMatches
INVARIANT StackMatchesData
INVARIANT ReturnsAsContract
PROPERTY DefaultsKeepCommandLine
PROPERTY ReturnsAsReference
