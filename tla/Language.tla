------------------------------ MODULE Language ------------------------------
(***************************************************************************)
(* What a parsed function (parser/expression.h) means: the grammar's       *)
(* statements, run one after the other on words.  A function is a record   *)
(* [params, n_user, statements]; its variables are the ids 0..n_user-1.    *)
(***************************************************************************)
EXTENDS Words, Sequences

(***************************************************************************)
(* An expression is the sequence of the objects the parser makes for it,   *)
(* in the order in which it makes them: numbers, variables, and operations *)
(* on two objects that come before, given by their places.  The last one   *)
(* is the whole expression.                                                *)
(***************************************************************************)
Num(x)      == [type |-> "num", num |-> x]
Var(id)     == [type |-> "var", num |-> id]
Op(t, x, y) == [type |-> t, left |-> x, right |-> y]

Ops == {"add", "sub", "mul", "div"}

Whole(exp) == exp[Len(exp)]

\* Statements: x = exp, with var in front or without, and return exp.
Decl(v, exp) == [type |-> "decl", var |-> v, exp |-> exp]
Return(exp)  == [type |-> "ret", exp |-> exp]

\* x = y, for which no entry is made
Copies(stmt) == stmt.type = "decl" /\ Whole(stmt.exp).type = "var"

(***************************************************************************)
(* What the parser makes: a variable is resolved to an id below n_user,    *)
(* parameters are declared once each.                                      *)
(***************************************************************************)
MaxParams == 9  \* bound on the parameters of a function

IsExpression(exp, ids) ==
  /\ Len(exp) \in Nat \ {0}
  /\ \A k \in 1 .. Len(exp) :
       \/ exp[k].type = "num" /\ exp[k].num \in Values
       \/ exp[k].type = "var" /\ exp[k].num \in ids
       \/ exp[k].type \in Ops /\ exp[k].left \in 1 .. k - 1 /\ exp[k].right \in 1 .. k - 1

IsStatement(stmt, ids) ==
  /\ stmt.type \in {"decl", "ret"} /\ (stmt.type = "decl" => stmt.var \in ids)
  /\ IsExpression(stmt.exp, ids)

IsFunction(f) ==
  /\ f.n_user \in Nat
  /\ Len(f.params) \in 0 .. MaxParams
  /\ \A p \in 1 .. Len(f.params) : f.params[p] \in 0 .. f.n_user - 1
  /\ \A p, q \in 1 .. Len(f.params) : f.params[p] = f.params[q] => p = q
  /\ Len(f.statements) \in Nat
  /\ \A j \in 1 .. Len(f.statements) : IsStatement(f.statements[j], 0 .. f.n_user - 1)

\* The variables an expression reads
Uses(exp) == {exp[k].num : k \in {j \in 1 .. Len(exp) : exp[j].type = "var"}}

\* v has a value before statement j, if that is reached.
Set(f, v, j) ==
  \/ \E p \in 1 .. Len(f.params) : f.params[p] = v
  \/ \E h \in 1 .. j - 1 : f.statements[h].type = "decl" /\ f.statements[h].var = v

\* No statement copies a variable, and none reads one that has no value: the
\* name of a variable of the function before this one resolves too.
Supported(f) ==
  \A j \in 1 .. Len(f.statements) :
    ~Copies(f.statements[j]) /\ \A v \in Uses(f.statements[j].exp) : Set(f, v, j)

(***************************************************************************)
(* A run is [env, ret].  NoValue is the value of a variable that was not   *)
(* written and of a division that has no quotient.  ret is NoReturn until  *)
(* the function returns, and Stuck from the first statement on that needs  *)
(* a value there is none of.                                               *)
(***************************************************************************)
NoValue  == -1
NoReturn == -2
Stuck    == -3

Computed(type, x, y) ==
  IF NoValue \in {x, y} \/ (type = "div" /\ NoQuotient(Signed(x), Signed(y))) THEN NoValue
  ELSE Meaning(type, x, y)

\* The value of the object at k, and of the whole expression
ValueAt(exp, env, k) ==
  LET value[j \in 1 .. Len(exp)] ==
        CASE exp[j].type = "num" -> exp[j].num
          [] exp[j].type = "var" -> env[exp[j].num]
          [] OTHER -> Computed(exp[j].type, value[exp[j].left], value[exp[j].right])
  IN  value[k]

ValueOf(exp, env) == ValueAt(exp, env, Len(exp))

Unwritten(ids) == [env |-> [v \in ids |-> NoValue], ret |-> NoReturn]

\* m after v became x, or after the function returned x
Assigned(m, v, x) == IF x = NoValue THEN [m EXCEPT !.ret = Stuck] ELSE [m EXCEPT !.env[v] = x]
Answered(m, x)    == [m EXCEPT !.ret = IF x = NoValue THEN Stuck ELSE x]

RunStatement(m, stmt) ==
  IF m.ret # NoReturn THEN m
  ELSE IF stmt.type = "ret" THEN Answered(m, ValueOf(stmt.exp, m.env))
  ELSE Assigned(m, stmt.var, ValueOf(stmt.exp, m.env))

Count(f) == Len(f.params) + Len(f.statements)

\* f called with args, as far as n of its parameters and statements go
RunOf(f, args, n) ==
  LET run[j \in 0 .. Count(f)] ==
        IF j = 0 THEN Unwritten(0 .. f.n_user - 1)
        ELSE IF j <= Len(f.params) THEN Assigned(run[j - 1], f.params[j], args[j - 1])
        ELSE RunStatement(run[j - 1], f.statements[j - Len(f.params)])
  IN  run[n]

Meant(f, args) == RunOf(f, args, Count(f)).ret
=============================================================================
