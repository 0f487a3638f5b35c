-------------------------------- MODULE Tac --------------------------------
(***************************************************************************)
(* The tac constructor and add_from_exp() (compiler/tac.cpp): a function's *)
(* parameters and statements become entries of three-address code.  A step *)
(* is one iteration of the constructor's loops.                            *)
(*                                                                         *)
(* C++ leaves open in which order add_from_exp() is called for the two     *)
(* operands of an entry; a build takes one order or the other.             *)
(***************************************************************************)
EXTENDS Language

CONSTANT Arguments  \* what functions are called with: the functions 0..8 -> Values

ASSUME ArgumentsAssumption == Arguments \subseteq [0 .. MaxParams - 1 -> Values]

VARIABLES
  func,        \* the function, never changed
  left_first,  \* the order of the operands in this build
  s,           \* parameters and statements done
  next_varid,
  entries

tacVars == <<func, left_first, s, next_varid, entries>>

Entry(t, a, b, c, x) == [type |-> t, a |-> a, b |-> b, c |-> c, value |-> x]

-----------------------------------------------------------------------------
(***************************************************************************)
(* Variants of the definitions below, each with one plausible slip.        *)
(***************************************************************************)
NewTempAlways(result, exp) == exp.type # "var"
OperandsAsFound(type, r, one, other) == Entry(type, r, one, other, 0)
-----------------------------------------------------------------------------
\* An expression that is not a variable gets a temporary if it has no place.
NeedsTemp(result, exp) == exp.type # "var" /\ result = -1

\* r, and next_varid after it is chosen.
Place(result, exp, next) == IF NeedsTemp(result, exp) THEN next ELSE result
NextAfter(result, exp, next) == IF NeedsTemp(result, exp) THEN next + 1 ELSE next

\* The entry for the operand that was placed first and the other one.
Operation(type, r, one, other) ==
  IF left_first THEN Entry(type, r, one, other, 0) ELSE Entry(type, r, other, one, 0)

(***************************************************************************)
(* add_from_exp(result, exp): the entries it adds, next_varid after it and *)
(* the variable that holds the value.  A variable is its own place,        *)
(* whatever the result was to be.  A call says which object of the         *)
(* expression it is for and what next_varid is; added has the results of   *)
(* the calls for the operands.                                             *)
(***************************************************************************)
Calls(exp) == [object : 1 .. Len(exp), result : Int, next : Nat]
ForOperand(k, next) == [object |-> k, result |-> -1, next |-> next]

Added(exp, added, call) ==
  LET e == exp[call.object]
      r == Place(call.result, e, call.next)
      n == NextAfter(call.result, e, call.next)
  IN  CASE e.type = "var" -> [entries |-> <<>>, next |-> n, id |-> e.num]
        [] e.type = "num" ->
             [entries |-> <<Entry("assign", r, -1, -1, e.num)>>, next |-> n, id |-> r]
        [] e.type \in Ops ->
             LET one   == added[ForOperand(IF left_first THEN e.left ELSE e.right, n)]
                 other == added[ForOperand(IF left_first THEN e.right ELSE e.left, one.next)]
             IN  [entries |-> one.entries \o other.entries
                                \o <<Operation(e.type, r, one.id, other.id)>>,
                  next |-> other.next, id |-> r]

add_from_exp(exp, call) ==
  LET added[c \in Calls(exp)] == Added(exp, added, c) IN added[call]

\* The call for a whole expression
ForStatement(result, exp) == [object |-> Len(exp), result |-> result, next |-> next_varid]

\* The constructor begins, with the f that is to become entries.
Construct(f) ==
  /\ func = f
  /\ s = 0
  /\ next_varid = func.n_user
  /\ entries = <<>>

AddParam ==
  /\ s < Len(func.params)
  /\ entries' = Append(entries, Entry("param", func.params[s + 1], -1, -1, s))
  /\ s' = s + 1
  /\ UNCHANGED <<func, left_first, next_varid>>

Statement == func.statements[s - Len(func.params) + 1]

AtStatement(type) == s \in Len(func.params) .. Count(func) - 1 /\ Statement.type = type

Adds(added, more) ==
  /\ entries' = entries \o added.entries \o more
  /\ next_varid' = added.next
  /\ s' = s + 1
  /\ UNCHANGED <<func, left_first>>

AddDecl ==
  /\ AtStatement("decl")
  /\ Adds(add_from_exp(Statement.exp, ForStatement(Statement.var, Statement.exp)), <<>>)

AddReturn ==
  /\ AtStatement("ret")
  /\ LET added == add_from_exp(Statement.exp, ForStatement(-1, Statement.exp))
     IN  Adds(added, <<Entry("ret", -1, added.id, -1, 0)>>)

TacNext == AddParam \/ AddDecl \/ AddReturn

-----------------------------------------------------------------------------
(***************************************************************************)
(* Properties.                                                             *)
(***************************************************************************)

\* The meaning of an entry
RunEntry(m, e, args) ==
  IF m.ret # NoReturn THEN m
  ELSE IF e.type = "ret" THEN Answered(m, m.env[e.b])
  ELSE Assigned(m, e.a,
         CASE e.type = "assign" -> e.value
           [] e.type = "param"  -> args[e.value]
           [] OTHER             -> Computed(e.type, m.env[e.b], m.env[e.c]))

\* The first n of the entries in es, run from m
RunEntries(m, es, args, n) ==
  LET run[j \in 0 .. Len(es)] == IF j = 0 THEN m ELSE RunEntry(run[j - 1], es[j], args)
  IN  run[n]

EntriesRun(args) ==
  RunEntries(Unwritten(0 .. next_varid - 1), entries, args, Len(entries))

SameMeaning ==
  \A args \in Arguments :
    LET src == RunOf(func, args, s)
        tac == EntriesRun(args)
    IN  tac.ret = src.ret /\ \A v \in 0 .. func.n_user - 1 : tac.env[v] = src.env[v]

StatementsDone == {j \in 1 .. Len(func.statements) : j <= s - Len(func.params)}

\* For every argument, the entries leave in the user's variables, and return,
\* what the statements they come from say, in whichever order the operands
\* were placed; a statement x = y is the exception.
EntriesMeanTheSame == (\E j \in StatementsDone : Copies(func.statements[j])) \/ SameMeaning

Temps == func.n_user .. next_varid - 1

\* A temporary is written once and then read once: none is shared by two
\* subexpressions and none is a dead store.
TempsOfOneUse ==
  \A t \in Temps :
    \E w, r \in 1 .. Len(entries) :
      /\ w < r
      /\ entries[w].a = t /\ \A j \in 1 .. Len(entries) : entries[j].a = t => j = w
      /\ \A j \in 1 .. Len(entries) : t \in {entries[j].b, entries[j].c} <=> j = r
      /\ entries[r].b # entries[r].c
=============================================================================
