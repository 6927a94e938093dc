--------------------------- MODULE MCBlockedLatch ---------------------------
(* Three bindings of one workstream, the third the continuation of the first, *)
(* and one binding of a second workstream.                                    *)
EXTENDS BlockedLatch

CONSTANTS b1, b2, b3, b4, w1, w2

MCWorkstreamOf == [b \in Bindings |-> IF b = b4 THEN w2 ELSE w1]
MCContinuationOf == [b \in Bindings |-> IF b = b1 THEN {b3} \cap Bindings ELSE {}]
=============================================================================
