----------------------------- MODULE MCCompiler -----------------------------
(***************************************************************************)
(* Instances of Compiler.                                                  *)
(***************************************************************************)
EXTENDS Compiler

Words8 == 8
MCJunk == {1}
MCMaxVars == 16

\* ebx, esi and r11d: the second is also the register of an argument.
ThreeRegs == <<3, 6, 11>>

\* ebx, ecx, esi, edi and r11d, as in the code
CodeRegs == <<3, 1, 6, 7, 11>>

MCArguments == {[n \in 0 .. 8 |-> (n * x + y) % Word] : x \in {2, 5}, y \in {0, 3}}

Fn(n, ps, stmts) == [params |-> ps, n_user |-> n, statements |-> stmts]

\* The ids of a function go on where those of the function before it ended,
\* because scopes nest (driver.h:29).
ShiftedExp(e, by) == [o \in DOMAIN e |-> IF e[o].type = "var" THEN Var(e[o].num + by) ELSE e[o]]
Shifted(f, by) ==
  Fn(f.n_user + by, [p \in DOMAIN f.params |-> f.params[p] + by],
     [j \in DOMAIN f.statements |->
        LET st == f.statements[j]
        IN  IF st.type = "ret" THEN Return(ShiftedExp(st.exp, by))
            ELSE Decl(st.var + by, ShiftedExp(st.exp, by))])
After(f, g) == <<f, Shifted(g, f.n_user)>>

\* The expression on y put behind the one on x, and the operation on both
Behind(e, n) ==
  [o \in DOMAIN e |-> IF e[o].type \in Ops THEN Op(e[o].type, e[o].left + n, e[o].right + n) ELSE e[o]]
Bin(t, x, y) == x \o Behind(y, Len(x)) \o <<Op(t, Len(x), Len(x) + Len(y))>>

\* Expressions of depth two over a number and two parameters
N(x) == <<Num(x)>>
V(id) == <<Var(id)>>
X == V(0)
Y == V(1)
Leaves == {N(3), X, Y}
Inner  == {<<X, Y>>, <<Y, X>>, <<X, X>>, <<N(3), X>>, <<Y, N(3)>>, <<N(3), N(3)>>}
Binary(L1, R1) == {Bin(t, x, y) : t \in Ops, x \in L1, y \in R1}
Shallow == Leaves \cup {Bin(t, p[1], p[2]) : t \in Ops, p \in Inner}
Expressions == {Fn(2, <<0, 1>>, <<Return(e)>>) : e \in Shallow \cup Binary(Shallow, Shallow)}

\* Several statements: a local variable, an assignment to a parameter, a
\* copy, a value that is never read, a return that is not the last statement
\* and none at all.
Some == {N(2), X, Bin("sub", Y, N(3)), Bin("mul", X, Y), Bin("div", X, Y)}
Statements ==
  {Fn(3, <<0, 1>>, <<Decl(2, x), Decl(v, y), Return(Bin(t, V(2), V(v)))>>) :
     v \in {0, 2}, x \in Some, y \in Some, t \in {"add", "sub"}} \cup
  {Fn(3, <<0, 1>>, <<Decl(2, x), Return(Bin("add", V(2), y)), Decl(0, y)>>) :
     x \in Some, y \in Some} \cup
  {Fn(3, <<0, 1>>, <<Decl(2, x), Decl(1, Bin("add", V(2), X))>>) : x \in Some}

\* Functions one tac2x64 compiles in turn: some need the stack, with three
\* registers, two and one.
Sum(a, b) == Bin("add", a, b)
Wide == Fn(3, <<0, 1, 2>>,
           <<Return(Sum(Bin("sub", X, Y), Sum(Bin("mul", X, V(2)), Y)))>>)
Small == {Fn(1, <<0>>, <<Return(Bin("mul", X, X))>>),
          Fn(2, <<0, 1>>, <<Return(Bin("sub", X, Y))>>),
          Fn(2, <<0>>, <<Decl(1, N(0)), Return(Sum(X, Y))>>)}
Several ==
  {After(f, g) : f \in Small \cup {Wide}, g \in Small \cup {Wide}} \cup
  {After(Wide, Wide) \o <<Shifted(g, 6)>> : g \in Small}

\* The second function returns a variable of the first.
Leaking == {<<f, Fn(f.n_user + 1, <<f.n_user>>, <<Return(Sum(V(f.n_user), X))>>)>> : f \in Small}

\* The second function only copies a variable of the first: no entries.
Silent == {<<f, Fn(f.n_user + 1, <<>>, <<Decl(f.n_user, X)>>)>> : f \in Small}

MCFiles == {<<f>> : f \in Expressions \cup Statements} \cup Several \cup Leaking \cup Silent

\* f(x, y) { var z = x - y; return z * x; }
Example ==
  {<<Fn(3, <<0, 1>>, <<Decl(2, Bin("sub", X, Y)), Return(Bin("mul", V(2), X))>>)>>}
=============================================================================
