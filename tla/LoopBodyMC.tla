---------------------------- MODULE LoopBodyMC -----------------------------
(* Instances of LoopBody for TLC: every body up to MaxLength over a small  *)
(* statement alphabet, run twice.                                          *)
EXTENDS LoopBody

CONSTANTS x,       \* a scalar
          a, cell, \* an array and an index array
          j, k     \* symbols

OneScalar == {x}
TwoArrays == {a, cell}
TwoSymbols == {j, k}
NoNames == {}
NoSource == [d \in {} |-> a]

Loc(d) == <<d, "e">>

(* Assignments to a name of `targets` that read at most one of `values`.   *)
Direct(targets, values) ==
  {[target |-> Loc(d), reads |-> r, ind |-> {}] :
     d \in targets, r \in {{}} \cup {{Loc(v)} : v \in values}}

(* Assignments that read a(cell(k)).                                       *)
Indexed(targets) ==
  {[target |-> Loc(d), reads |-> {Loc(a)}, ind |-> {<<cell, k>>}] : d \in targets}

(* Symbols that chain and overwrite each other, computes between them, and *)
(* an indirect index whose array and whose symbol the body redefines.      *)
BodyCode == Direct({x, a, j, k}, {x, a, j, k}) \cup Direct({cell}, {x, k})
            \cup Indexed({x, a, cell})
=============================================================================
