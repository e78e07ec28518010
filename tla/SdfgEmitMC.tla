---------------------------- MODULE SdfgEmitMC -----------------------------
(* Instances of SdfgEmit for TLC: every program up to MaxLength over small *)
(* families of statements.                                                 *)
EXTENDS SdfgEmit

CONSTANTS x, y,     \* scalars
          k,        \* a symbol
          a, sec,   \* an array and a section dummy of it
          b, view,  \* an array and a view of it
          file      \* a file, or the messages of a rank

TwoScalars == {x, y}
TwoArrays == {a, b}
OneView == {view}
OneSection == {sec}
OneSymbol == {k}
OneFile == {file}
Sources == [d \in {view, sec} |-> IF d = view THEN b ELSE a]

Loc(d) == <<d, "e">>
Locs(D) == {Loc(d) : d \in D}

(* A statement lowered as `how` that assigns d from the names in r.        *)
Stmt(how, d, r) ==
  [how |-> how, target |-> Loc(d), reads |-> Locs(r), self |-> FALSE]

(* Every assignment to a name of `targets` from at most `most` names of    *)
(* `values`, and the self-assignments of the scalars and symbols.          *)
Alphabet(targets, values, most) ==
  {Stmt("assign", d, r) : d \in targets, r \in {u \in SUBSET values : Cardinality(u) <= most}}
  \cup {[Stmt("assign", d, {d}) EXCEPT !.self = TRUE] : d \in targets \cap (Scalars \cup Symbols)}

(* Scalars and an array under its two names; a symbol between them; an     *)
(* array assigned through its view and read under both its names.          *)
AssignCode ==
  Alphabet({x, y, a, sec}, {x, y, a, sec}, 2) \cup Alphabet({x, k, a}, {x, k, a}, 1)
  \cup Alphabet({x, view}, {x, b, view}, 1)

(* Whole-array statements and intrinsics between assignments.              *)
LibraryCode ==
  Alphabet({x, a, b}, {x, a, b}, 1)
  \cup {Stmt("copy", c[1], {c[2]}) : c \in {<<a, b>>, <<b, a>>, <<sec, b>>, <<b, sec>>}}
  \cup {[Stmt("copy", a, {a}) EXCEPT !.self = TRUE]}
  \cup {Stmt("memset", d, {}) : d \in {a, sec, b}}
  \cup {Stmt("libcall", c[1], c[2]) : c \in {<<x, {a, b}>>, <<k, {b}>>, <<b, {a}>>, <<a, {b, x}>>}}
  \cup {Stmt("assign", x, {k})}

(* Calls with effects between assignments.                                 *)
CallCode ==
  Alphabet({x, a}, {x, a, b}, 1) \cup Alphabet({k}, {x}, 1)
  \cup {Stmt("io", file, {a, file}), Stmt("io", x, {file})}
  \cup {Stmt("mpi", file, {a, file}), Stmt("mpi", a, {file}), Stmt("mpi", k, {file})}
  \cup {Stmt("collective", b, {a, file}), Stmt("blas", a, {a, b, x})}
  \cup {Stmt("lapack", a, {a}), Stmt("fft", view, {view}), Stmt("fft", b, {a})}
  \cup {Stmt("memset", view, {}), Stmt("copy", a, {view}), Stmt("libcall", x, {view})}

Programs == <<AssignCode, LibraryCode, CallCode>>
=============================================================================
