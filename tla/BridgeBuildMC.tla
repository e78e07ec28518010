--------------------------- MODULE BridgeBuildMC ---------------------------
(* Instances of BridgeBuild for TLC.                                       *)
EXTENDS BridgeBuild, TLC

CONSTANTS w1, w2, w3, t1, t2, t3, n1, n2

ThreeWorkers == {w1, w2, w3}
Nobody == {}
OnlyW2 == {w2}
ThreeToolchains == {t1, t2, t3}
TwoNames == {n1, n2}

(* t1 and t2 are LLVM installs under one interpreter; t3 is another one.   *)
MCSoNameOf == t1 :> n1 @@ t2 :> n1 @@ t3 :> n2

(* Every choice of toolchains, up to exchanging the workers that may build *)
(* and renaming toolchains: one for all, two that share a name or not, all *)
(* three.                                                                  *)
Detect(a, b, c) == w1 :> a @@ w2 :> b @@ w3 :> c
MCDetections ==
  {Detect(t1, t1, t1)}
  \cup {Detect(t1, t1, t) : t \in {t2, t3}}
  \cup {Detect(t1, t, t1) : t \in {t2, t3}}
  \cup {Detect(t1, t2, t3), Detect(t1, t3, t2)}
=============================================================================
