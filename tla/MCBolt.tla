------------------------------- MODULE MCBolt -------------------------------
(* Four goroutines, two of them with the context of one listing request.   *)
EXTENDS Bolt

CONSTANTS g1, g2, g3, g4, c1, c2, c3

MCProc  == {g1, g2, g3, g4}
MCCtx   == {c1, c2, c3}
MCCtxOf == [p \in MCProc |-> IF p \in {g1, g2} THEN c1 ELSE IF p = g3 THEN c2 ELSE c3]
=============================================================================
