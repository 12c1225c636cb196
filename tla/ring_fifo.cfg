\* One producer and one consumer pulling: items come out in FIFO order.
CONSTANTS
    Items <- MCItems
    Junk <- MCJunk
    NULL <- MCNull
    S = 3
    ConsumerOps <- MCConsumerPull
    MaxOps = 3
SPECIFICATION Spec
INVARIANT PullReturnsFront
