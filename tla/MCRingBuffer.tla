---------------------------- MODULE MCRingBuffer ----------------------------
(* Integer items, as buffer_t's pop needs an integral T, and small sets of *)
(* consumer calls for checking RingBuffer with TLC.                         *)
EXTENDS RingBuffer

MCItems == {10, 20}
MCJunk == 0
MCNull == -1
MCConsumerAll == {"pull", "pop"}
MCConsumerPull == {"pull"}
MCConsumerPop == {"pop"}
=============================================================================
