----------------------------- MODULE MCAtomicRef -----------------------------
(* A build without _MSC_VER and one location y, a 1-byte unsigned at the  *)
(* top of its range, used by one thread.  The MSVC build with two         *)
(* locations is checked by MCPrimitives.                                   *)
EXTENDS AtomicRef

CONSTANTS t1, y

MCThreadsOne == {t1}
MCLocsY == {y}
MCSizeY == [l \in MCLocsY |-> 1]
MCUsesY == [t \in MCThreadsOne |-> {y}]
MCOpsIncDec == {"inc", "dec"}
MCValues == {100, 102}
MCDeltas == {1, 2}
MCExpected == {100, 102}
\* y at the top of its 8-bit range
MCInitTop == [l \in MCLocsY |-> 255]
=============================================================================
