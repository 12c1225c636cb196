------------------------------ MODULE MCStack ------------------------------
(* Model values and small sets for checking Stack with TLC.                *)
EXTENDS Stack

CONSTANTS t1, t2, a, b

MCThreads == {t1, t2}
MCThreadsOne == {t1}
MCItems == {a, b}
MCItemsOne == {a}
MCOpsPush == {"push"}
MCOpsAll == {"push", "pull", "pop"}
\* size_t is 64 bits; 2^30 is as far past S as TLC's integers reach, and
\* only the sign of a converted int matters to the comparisons.
MCSizeModulus == 2^30
=============================================================================
