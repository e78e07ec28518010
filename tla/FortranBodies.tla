--------------------------- MODULE FortranBodies ---------------------------
(***************************************************************************)
(* Procedure bodies and what a Fortran compiler makes of them.             *)
(*                                                                         *)
(* An expression or a statement is a record, a body a sequence of          *)
(* statements.  As in fparser's tree the branches of an IF construct are   *)
(* one flat sequence with "elseif" and "else" markers in it, and labels    *)
(* sit on CONTINUE statements.  A name is a sequence of strings, so that a *)
(* pass can derive new ones.  A program P maps the names of procedures to  *)
(* records: dummies (a sequence of [name, optional, out]), locals, result  *)
(* (of a function, else <<>>) and body.                                    *)
(***************************************************************************)
EXTENDS Integers, Sequences, FiniteSets, TLC

LOCAL INSTANCE SequencesExt

CONSTANT MaxSteps       \* bound on the loop iterations and jumps of one execution

Bad == -99      \* what an undefined or absent variable yields
Gone == -98     \* an absent optional argument

Num(n) == [op |-> "int", v |-> n]
Log(b) == [op |-> "log", v |-> IF b THEN 1 ELSE 0]
Var(x) == [op |-> "var", x |-> x]
Present(x) == [op |-> "present", x |-> x]
Not(e) == [op |-> "not", a |-> e]
And(e, f) == [op |-> "and", a |-> e, b |-> f]
Eq(e, f) == [op |-> "eq", a |-> e, b |-> f]
Plus(e, f) == [op |-> "plus", a |-> e, b |-> f]
Div(e, f) == [op |-> "div", a |-> e, b |-> f]
Fn(f, args) == [op |-> "fn", f |-> f, args |-> args]

Set(x, e) == [k |-> "set", x |-> x, e |-> e]
IfS(c, s) == [k |-> "ifs", c |-> c, s |-> s]
If(c, b) == [k |-> "if", c |-> c, b |-> b]
ElseIf(c) == [k |-> "elseif", c |-> c]
Else == [k |-> "else"]
Do(x, n, b) == [k |-> "do", x |-> x, n |-> n, b |-> b]
While(c, b) == [k |-> "while", c |-> c, b |-> b]
Assoc(x, e, b) == [k |-> "assoc", x |-> x, e |-> e, b |-> b]
Call(f, args) == [k |-> "call", f |-> f, args |-> args]
Arg(e) == [kw |-> <<>>, e |-> e]
KwArg(d, e) == [kw |-> d, e |-> e]
Goto(l) == [k |-> "goto", l |-> l]
Continue(l) == [k |-> "cont", l |-> l]
Exit == [k |-> "exit"]
Return == [k |-> "return"]

Literal(e) == e.op \in {"int", "log"}
Binary == {"and", "eq", "plus", "div"}

\* The statements of a statement; a logical IF has exactly one.
Kids(s) == CASE s.k = "ifs" -> <<s.s>> [] s.k \in {"if", "do", "while", "assoc"} -> s.b [] OTHER -> <<>>
WithKids(s, b) == IF s.k = "ifs" THEN [s EXCEPT !.s = b[1]] ELSE [s EXCEPT !.b = b]
\* The first marker of an IF construct's body, or the place behind it.
Cut(b) == IF \E i \in DOMAIN b : b[i].k \in {"elseif", "else"}
          THEN CHOOSE i \in DOMAIN b : b[i].k \in {"elseif", "else"} /\ \A j \in 1 .. i - 1 : b[j].k \notin {"elseif", "else"}
          ELSE Len(b) + 1
Part(b, i, j) == SubSeq(b, i, j)

\* The actual argument of the i-th dummy of a call, a sequence of none or one.
Actual(dummies, args, i) ==
    LET named == SelectSeq(args, LAMBDA a : a.kw = dummies[i].name)
    IN IF i \in DOMAIN args /\ args[i].kw = <<>> THEN <<args[i].e>> ELSE [j \in DOMAIN named |-> named[j].e]

-----------------------------------------------------------------------------
(* Execution.  A state S has the values of the variables, the signal of    *)
(* the last statement and the steps left.                                  *)

Truncated(x, y) == IF (x >= 0) = (y > 0) \/ x % y = 0 THEN x \div y ELSE x \div y + 1
Apply(op, x, y) ==
    CASE Bad \in {x, y} \/ (op = "div" /\ y = 0) -> Bad
      [] op = "and" -> IF x = 1 /\ y = 1 THEN 1 ELSE 0
      [] op = "eq" -> IF x = y THEN 1 ELSE 0
      [] op = "plus" -> x + y
      [] op = "div" -> Truncated(x, y)
Negation(v) == IF v = Bad THEN Bad ELSE 1 - v

Value(env, x) == IF x \in DOMAIN env THEN env[x] ELSE Bad
Defined(v) == IF v = Gone THEN Bad ELSE v
Returned(S, x) == IF S.sig[1] = "stuck" THEN Bad ELSE Value(S.env, x)

RECURSIVE Eval(_, _, _), Exec(_, _, _, _), Branch(_, _, _, _, _), Step(_, _, _), Iterate(_, _, _, _)

\* What the dummies of f hold on entry; a bare reference to an absent optional passes the absence on.
Entry(P, env, f, args) ==
    LET value(passed) == IF passed = <<>> \/ (passed[1].op = "var" /\ Value(env, passed[1].x) = Gone) THEN Gone
                         ELSE Eval(P, env, passed[1])
    IN [x \in {P[f].dummies[i].name : i \in DOMAIN P[f].dummies} |->
            value(Actual(P[f].dummies, args, CHOOSE i \in DOMAIN P[f].dummies : P[f].dummies[i].name = x))]

\* A compiler may evaluate both operands of .AND.
Eval(P, env, e) ==
    CASE Literal(e) -> e.v
      [] e.op = "var" -> Defined(Value(env, e.x))
      [] e.op = "present" -> IF Value(env, e.x) = Gone THEN 0 ELSE 1
      [] e.op = "not" -> Negation(Eval(P, env, e.a))
      [] e.op \in Binary -> Apply(e.op, Eval(P, env, e.a), Eval(P, env, e.b))
      [] e.op = "fn" -> Returned(Exec(P, P[e.f].body, 1, [env |-> Entry(P, env, e.f, e.args), sig |-> <<"ok">>, left |-> MaxSteps]), P[e.f].result)

Stuck(S) == [S EXCEPT !.sig = <<"stuck">>]
Ok(S) == [S EXCEPT !.sig = <<"ok">>]
Assign(S, x, v) == IF v = Bad \/ Value(S.env, x) = Gone THEN Stuck(S) ELSE [S EXCEPT !.env = (x :> v) @@ @]

\* On from statement i of b, which left T.
Proceed(P, b, i, T) ==
    LET at == {j \in DOMAIN b : T.sig[1] = "goto" /\ b[j] = Continue(T.sig[2])}
    IN CASE T.sig[1] = "ok" -> Exec(P, b, i + 1, T)
         [] at # {} -> IF T.left = 0 THEN Stuck(T) ELSE Exec(P, b, CHOOSE j \in at : TRUE, [Ok(T) EXCEPT !.left = @ - 1])
         [] OTHER -> T
Exec(P, b, i, S) == IF i > Len(b) THEN Ok(S) ELSE Proceed(P, b, i, Step(P, b[i], S))

\* The statements of the branch of an IF whose condition has the value v.
Branch(P, env, v, b, cut) ==
    CASE v = Bad -> <<Set(<<>>, Var(<<>>))>>     \* stuck
      [] v = 1 -> Part(b, 1, cut - 1)
      [] cut > Len(b) -> <<>>
      [] b[cut].k = "else" -> Part(b, cut + 1, Len(b))
      [] OTHER -> LET rest == Part(b, cut + 1, Len(b)) IN Branch(P, env, Eval(P, env, b[cut].c), rest, Cut(rest))

\* Back from a call: env is what the callee started with, T what it ended with.
Leave(proc, args, env, S, T) ==
    LET back == {i \in DOMAIN proc.dummies : /\ proc.dummies[i].out /\ env[proc.dummies[i].name] # Gone
                                             /\ Actual(proc.dummies, args, i)[1].op = "var"}
        cell(i) == Actual(proc.dummies, args, i)[1].x
    IN IF T.sig[1] = "stuck" \/ \E i \in DOMAIN proc.dummies : ~proc.dummies[i].optional /\ env[proc.dummies[i].name] = Gone
       THEN Stuck(S)
       ELSE [sig |-> <<"ok">>, left |-> T.left,
             env |-> [x \in {cell(i) : i \in back} |->
                        LET i == CHOOSE j \in back : cell(j) = x IN Value(T.env, proc.dummies[i].name)] @@ S.env]
Enter(P, s, S, env) == Leave(P[s.f], s.args, env, S, Exec(P, P[s.f].body, 1, [S EXCEPT !.env = env]))

\* A DO loop at iteration i, a DO WHILE loop whenever its condition holds.
Again(P, s, i, T) ==
    CASE T.sig[1] = "ok" -> Iterate(P, s, i + 1, [T EXCEPT !.left = @ - 1])
      [] T.sig[1] = "exit" -> Ok(T)
      [] OTHER -> T
Turn(P, s, i, go, S, ready) ==
    CASE go = Bad \/ ready.sig[1] = "stuck" \/ (go = 1 /\ S.left = 0) -> Stuck(S)
      [] go = 0 -> Ok(ready)
      [] OTHER -> Again(P, s, i, Exec(P, s.b, 1, ready))
Iterate(P, s, i, S) ==
    IF s.k = "do" THEN Turn(P, s, i, IF i > s.n THEN 0 ELSE 1, S, Assign(S, s.x, i))
    ELSE Turn(P, s, i, Eval(P, S.env, s.c), S, S)

\* Behind ASSOCIATE: a variable stands for itself under another name, an expression for its value.
Disassociate(s, T) == IF s.e.op = "var" /\ T.sig[1] # "stuck" THEN [T EXCEPT !.env = (s.e.x :> Value(T.env, s.x)) @@ @] ELSE T

\* A statement, given the value of its expression.
StepWith(P, s, S, v) ==
    CASE v = Bad -> Stuck(S)
      [] s.k = "set" -> Assign(S, s.x, v)
      [] s.k = "ifs" -> IF v = 1 THEN Step(P, s.s, S) ELSE S
      [] s.k = "do" -> Iterate(P, [s EXCEPT !.n = v], 1, S)
      [] s.k = "assoc" -> Disassociate(s, Exec(P, s.b, 1, Assign(S, s.x, v)))
Step(P, s, S) ==
    CASE s.k \in {"set", "assoc"} -> StepWith(P, s, S, Eval(P, S.env, s.e))
      [] s.k = "ifs" -> StepWith(P, s, S, Eval(P, S.env, s.c))
      [] s.k = "do" -> StepWith(P, s, S, Eval(P, S.env, s.n))
      [] s.k = "if" -> Exec(P, Branch(P, S.env, Eval(P, S.env, s.c), s.b, Cut(s.b)), 1, S)
      [] s.k = "while" -> Iterate(P, s, 1, S)
      [] s.k = "call" -> Enter(P, s, S, Entry(P, S.env, s.f, s.args))
      [] s.k = "goto" -> [S EXCEPT !.sig = <<"goto", s.l>>]
      [] s.k = "exit" -> [S EXCEPT !.sig = <<"exit">>]
      [] s.k = "return" -> [S EXCEPT !.sig = <<"return">>]
      [] s.k = "cont" -> S

\* What a caller of f sees: the values its arguments have afterwards.
Observed(S, input) == IF S.sig[1] \in {"ok", "return"} THEN [x \in DOMAIN input |-> Value(S.env, x)] ELSE <<"stuck">>
Meaning(P, f, input) == Observed(Exec(P, P[f].body, 1, [env |-> input, sig |-> <<"ok">>, left |-> MaxSteps]), input)
=============================================================================
