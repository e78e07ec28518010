----------------------------- MODULE DoLoopMC ------------------------------
(* Instances of DoLoop for TLC: every header with small bounds.            *)
EXTENDS DoLoop

(* A constant stride is no name, and no body assigns it.                   *)
SmallHeaders ==
  {h \in [lower : -2..3, step : {-3, -2, -1, 1, 2, 3}, constStep : BOOLEAN,
          bareNames : SUBSET Parts, inWhile : BOOLEAN, bodyAssigns : SUBSET Parts] :
     h.constStep => "stride" \notin h.bareNames \cup h.bodyAssigns}

SmallBounds == -2..3

SmallStrides == {-1, 0, 2}
=============================================================================
