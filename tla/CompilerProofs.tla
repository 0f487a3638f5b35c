--------------------------- MODULE CompilerProofs ---------------------------
(***************************************************************************)
(* Theorems about Compiler, and first the proofs about Language and Tac    *)
(* that they rest on: for every word size, all functions and expressions   *)
(* however deep, the entries mean what the statements they come from mean, *)
(* and a temporary is written once and read once.                          *)
(***************************************************************************)
EXTENDS Compiler, SequenceTheorems, Recursion, TLAPS

-----------------------------------------------------------------------------
(***************************************************************************)
(* Values.                                                                 *)
(***************************************************************************)

\* A value, or the lack of one
Results == Values \cup {NoValue}

LEMMA NoValueApart ==
  /\ NoValue \notin Values /\ NoReturn \notin Values /\ Stuck \notin Values
  /\ NoReturn # Stuck /\ NoReturn \notin Results /\ Stuck \notin Results
  /\ Values \subseteq Nat
BY WordAssumption DEF Values, NoValue, NoReturn, Stuck, Results

LEMMA MeaningTyped ==
  ASSUME NEW type \in Ops, NEW x \in Values, NEW y \in Values,
         type = "div" => ~NoQuotient(Signed(x), Signed(y))
  PROVE  Meaning(type, x, y) \in Values
<1>1. \A z \in Int : z % Word \in Values
  BY WordAssumption DEF Values
<1>2. x \in Int /\ y \in Int
  BY WordAssumption DEF Values
<1>3. CASE type \in {"add", "sub", "mul"}
  <2>1. x + y \in Int /\ x - y \in Int /\ x * y \in Int
    BY <1>2
  <2>2. \/ type = "add" /\ Meaning(type, x, y) = (x + y) % Word
        \/ type = "sub" /\ Meaning(type, x, y) = (x - y) % Word
        \/ type = "mul" /\ Meaning(type, x, y) = (x * y) % Word
    BY <1>3 DEF Meaning
  <2> QED BY <1>1, <2>1, <2>2
<1>4. CASE type = "div"
  <2> DEFINE q == Quotient(Signed(x), Signed(y))
  <2>1. Meaning(type, x, y) = q % Word
    BY <1>4 DEF Meaning
  <2>2. q \in -(Word \div 2) .. Word \div 2 - 1
    BY <1>4 DEF NoQuotient
  <2>3. q \in Int
    <3> HIDE DEF q
    <3>1. Word \div 2 \in Int
      BY WordAssumption
    <3> QED BY <2>2, <3>1
  <2> HIDE DEF q
  <2> QED BY <1>1, <2>1, <2>3
<1> QED BY <1>3, <1>4 DEF Ops

LEMMA ComputedTyped ==
  ASSUME NEW type \in Ops, NEW x \in Results, NEW y \in Results
  PROVE  Computed(type, x, y) \in Results
<1>1. CASE NoValue \in {x, y} \/ (type = "div" /\ NoQuotient(Signed(x), Signed(y)))
  BY <1>1 DEF Computed, Results
<1>2. CASE ~(NoValue \in {x, y} \/ (type = "div" /\ NoQuotient(Signed(x), Signed(y))))
  <2>1. x \in Values /\ y \in Values
    BY <1>2 DEF Results
  <2> QED BY <1>2, <2>1, MeaningTyped DEF Computed, Results
<1> QED BY <1>1, <1>2

-----------------------------------------------------------------------------
(***************************************************************************)
(* Expressions.                                                            *)
(***************************************************************************)

\* The value of an object, from those of its operands
Evaluated(exp, val, value, l) ==
  CASE exp[l].type = "num" -> exp[l].num
    [] exp[l].type = "var" -> val[exp[l].num]
    [] OTHER -> Computed(exp[l].type, value[exp[l].left], value[exp[l].right])

\* ValueAt() is what its recursion says, a word or the lack of one.
LEMMA ValueDefined ==
  ASSUME NEW ids, NEW exp, IsExpression(exp, ids), NEW val,
         \A v \in ids : val[v] \in Results
  PROVE  \E value \in [1 .. Len(exp) -> Results] :
           \A l \in 1 .. Len(exp) :
             ValueAt(exp, val, l) = value[l] /\ value[l] = Evaluated(exp, val, value, l)
<1> DEFINE S == 1 .. Len(exp)
           value == CHOOSE g : g = [l \in S |-> Evaluated(exp, val, g, l)]
           rank == [l \in S |-> l]
           F == [g \in [S -> Results] |-> [l \in S |-> Evaluated(exp, val, g, l)]]
<1>1. /\ Len(exp) \in Nat
      /\ \A l \in S :
           \/ exp[l].type = "num" /\ exp[l].num \in Values
           \/ exp[l].type = "var" /\ exp[l].num \in ids
           \/ exp[l].type \in Ops /\ exp[l].left \in 1 .. l - 1 /\ exp[l].right \in 1 .. l - 1
  BY DEF IsExpression
<1>2. \A l \in S : exp[l].type \in Ops =>
        /\ exp[l].left \in S /\ exp[l].left < l /\ exp[l].right \in S /\ exp[l].right < l
        /\ exp[l].type \notin {"num", "var"}
  BY <1>1 DEF Ops
<1>3. \A g \in [S -> Results] : \A l \in S : Evaluated(exp, val, g, l) \in Results
  <2> SUFFICES ASSUME NEW g \in [S -> Results], NEW l \in S PROVE Evaluated(exp, val, g, l) \in Results
    OBVIOUS
  <2> HIDE DEF S
  <2>1. CASE exp[l].type = "num"
    BY <1>1, <1>2, <2>1 DEF Evaluated, Results, Ops
  <2>2. CASE exp[l].type = "var"
    BY <1>1, <1>2, <2>2 DEF Evaluated, Ops
  <2>3. CASE exp[l].type \in Ops
    <3>1. g[exp[l].left] \in Results /\ g[exp[l].right] \in Results
      BY <1>2, <2>3
    <3>2. Evaluated(exp, val, g, l) = Computed(exp[l].type, g[exp[l].left], g[exp[l].right])
      BY <1>2, <2>3 DEF Evaluated
    <3> QED BY <2>3, <3>1, <3>2, ComputedTyped
  <2> QED BY <1>1, <2>1, <2>2, <2>3
<1>4. F \in [[S -> Results] -> [S -> Results]]
  BY <1>3
<1>5. \A g, h \in [S -> Results] : \A l \in S :
        (\A y \in S : rank[y] < rank[l] => g[y] = h[y]) => F[g][l] = F[h][l]
  <2> SUFFICES ASSUME NEW g \in [S -> Results], NEW h \in [S -> Results], NEW l \in S,
                      \A y \in S : y < l => g[y] = h[y]
               PROVE  Evaluated(exp, val, g, l) = Evaluated(exp, val, h, l)
    OBVIOUS
  <2> HIDE DEF S
  <2>1. CASE exp[l].type \in {"num", "var"}
    BY <2>1 DEF Evaluated
  <2>2. CASE exp[l].type \in Ops
    <3>1. g[exp[l].left] = h[exp[l].left] /\ g[exp[l].right] = h[exp[l].right]
      BY <1>2, <2>2
    <3> QED BY <3>1 DEF Evaluated
  <2> QED BY <1>1, <2>1, <2>2
<1>6. Recursive(S, Results, rank, Len(exp) + 1, F)
  <2>1. rank \in [S -> Nat] /\ \A l \in S : rank[l] < Len(exp) + 1
    BY <1>1
  <2>2. [S -> Results] # {}
    <3>1. [l \in S |-> NoValue] \in [S -> Results]
      BY DEF Results
    <3> QED BY <3>1
  <2>3. Len(exp) + 1 \in Nat
    BY <1>1
  <2> HIDE DEF S, rank, F, value
  <2> QED BY <1>4, <1>5, <2>1, <2>2, <2>3, Zenon DEF Recursive
<1>7. \E g \in [S -> Results] : F[g] = g
  <2> HIDE DEF S, rank, F
  <2> QED BY <1>6, RecursiveFunction
<1>8. PICK g \in [S -> Results] : g = [l \in S |-> Evaluated(exp, val, g, l)]
  BY <1>7
<1>9. value = [l \in S |-> Evaluated(exp, val, value, l)]
  <2> HIDE DEF S
  <2> QED BY <1>8
<1>10. \A l \in S : ValueAt(exp, val, l) = value[l]
  BY DEF ValueAt, Evaluated
<1> HIDE DEF value
<1>11. \A l \in S : value[l] = Evaluated(exp, val, value, l)
  <2> HIDE DEF S
  <2> QED BY <1>9
<1>12. value \in [S -> Results]
  <2> DEFINE T == {l \in Nat : l \in S => value[l] \in Results}
  <2>1. \A l \in Nat : (\A m \in Nat : m < l => m \in T) => l \in T
    <3> SUFFICES ASSUME NEW l \in S, \A m \in Nat : m < l => m \in T PROVE value[l] \in Results
      BY <1>1
    <3>1. CASE exp[l].type \in {"num", "var"}
      <4> HIDE DEF S
      <4> QED BY <1>1, <1>2, <1>11, <3>1 DEF Evaluated, Results
    <3>2. CASE exp[l].type \in Ops
      <4>1. value[exp[l].left] \in Results /\ value[exp[l].right] \in Results
        BY <1>1, <1>2, <3>2
      <4>2. value[l] = Computed(exp[l].type, value[exp[l].left], value[exp[l].right])
        <5> HIDE DEF S
        <5> QED BY <1>2, <1>11, <3>2 DEF Evaluated
      <4> QED BY <3>2, <4>1, <4>2, ComputedTyped
    <3> QED BY <1>1, <3>1, <3>2
  <2>2. Nat \subseteq T
    <3> HIDE DEF T
    <3> QED BY <2>1, AllNumbersBelow
  <2>3. \A l \in S : value[l] \in Results
    BY <1>1, <2>2
  <2>4. value = [l \in S |-> value[l]]
    <3> HIDE DEF S
    <3> QED BY <1>9
  <2> QED BY <2>3, <2>4
<1> QED BY <1>10, <1>11, <1>12
\* What the value of an object is, by its type; and it depends on no other
\* variables than the expression's.
LEMMA ValueCases ==
  ASSUME NEW ids, NEW exp, IsExpression(exp, ids), NEW val, NEW l \in 1 .. Len(exp),
         \A v \in ids : val[v] \in Results
  PROVE  /\ ValueAt(exp, val, l) \in Results
         /\ exp[l].type = "num" => ValueAt(exp, val, l) = exp[l].num /\ exp[l].num \in Values
         /\ exp[l].type = "var" => ValueAt(exp, val, l) = val[exp[l].num] /\ exp[l].num \in ids
         /\ exp[l].type \in Ops =>
              /\ exp[l].left \in 1 .. l - 1 /\ exp[l].right \in 1 .. l - 1
              /\ exp[l].left \in 1 .. Len(exp) /\ exp[l].right \in 1 .. Len(exp)
              /\ ValueAt(exp, val, l) =
                   Computed(exp[l].type, ValueAt(exp, val, exp[l].left), ValueAt(exp, val, exp[l].right))
         /\ exp[l].type \in Ops \/ exp[l].type = "num" \/ exp[l].type = "var"
         /\ Len(exp) \in Nat
<1>1. PICK value \in [1 .. Len(exp) -> Results] :
        \A j \in 1 .. Len(exp) :
          ValueAt(exp, val, j) = value[j] /\ value[j] = Evaluated(exp, val, value, j)
  BY ValueDefined
<1>2. /\ Len(exp) \in Nat
      /\ \/ exp[l].type = "num" /\ exp[l].num \in Values
         \/ exp[l].type = "var" /\ exp[l].num \in ids
         \/ exp[l].type \in Ops /\ exp[l].left \in 1 .. l - 1 /\ exp[l].right \in 1 .. l - 1
  BY DEF IsExpression
<1>3. exp[l].type \in Ops => exp[l].left \in 1 .. Len(exp) /\ exp[l].right \in 1 .. Len(exp)
  BY <1>2 DEF Ops
<1>4. value[l] \in Results /\ ValueAt(exp, val, l) = Evaluated(exp, val, value, l)
  BY <1>1
<1>5. exp[l].type = "num" => Evaluated(exp, val, value, l) = exp[l].num
  BY DEF Evaluated
<1>6. exp[l].type = "var" => Evaluated(exp, val, value, l) = val[exp[l].num]
  BY DEF Evaluated
<1>7. exp[l].type \in Ops =>
        Evaluated(exp, val, value, l) = Computed(exp[l].type, value[exp[l].left], value[exp[l].right])
  BY DEF Evaluated, Ops
<1> QED BY <1>1, <1>2, <1>3, <1>4, <1>5, <1>6, <1>7 DEF Ops

LEMMA ValueAgrees ==
  ASSUME NEW ids, NEW exp, IsExpression(exp, ids), NEW val, NEW other,
         \A v \in ids : val[v] \in Results /\ other[v] = val[v]
  PROVE  \A l \in 1 .. Len(exp) : ValueAt(exp, other, l) = ValueAt(exp, val, l)
<1> DEFINE T == {l \in Nat : l \in 1 .. Len(exp) => ValueAt(exp, other, l) = ValueAt(exp, val, l)}
<1>1. \A l \in Nat : (\A m \in Nat : m < l => m \in T) => l \in T
  <2> SUFFICES ASSUME NEW l \in 1 .. Len(exp), \A m \in Nat : m < l => m \in T
               PROVE  ValueAt(exp, other, l) = ValueAt(exp, val, l)
    OBVIOUS
  <2>1. \A v \in ids : val[v] \in Results /\ other[v] \in Results
    OBVIOUS
  <2>2. CASE exp[l].type = "num"
    BY <2>1, <2>2, ValueCases
  <2>3. CASE exp[l].type = "var"
    BY <2>1, <2>3, ValueCases
  <2>4. CASE exp[l].type \in Ops
    <3> DEFINE x == exp[l].left
               y == exp[l].right
    <3>1. /\ x \in 1 .. l - 1 /\ y \in 1 .. l - 1 /\ x \in 1 .. Len(exp) /\ y \in 1 .. Len(exp)
          /\ ValueAt(exp, val, l) = Computed(exp[l].type, ValueAt(exp, val, x), ValueAt(exp, val, y))
          /\ ValueAt(exp, other, l) = Computed(exp[l].type, ValueAt(exp, other, x), ValueAt(exp, other, y))
          /\ Len(exp) \in Nat
      BY <2>1, <2>4, ValueCases
    <3> HIDE DEF x, y
    <3>2. x \in T /\ y \in T
      <4> HIDE DEF T
      <4> QED BY <3>1
    <3> QED BY <3>1, <3>2
  <2> QED BY <2>1, <2>2, <2>3, <2>4, ValueCases
<1>2. Nat \subseteq T
  <2> HIDE DEF T
  <2> QED BY <1>1, AllNumbersBelow
<1>3. Len(exp) \in Nat
  BY DEF IsExpression
<1> QED BY <1>2, <1>3

-----------------------------------------------------------------------------
(***************************************************************************)
(* Runs.                                                                   *)
(***************************************************************************)
Given == [0 .. MaxParams - 1 -> Values]

\* A run over n variables
Runs(n) == [env : [0 .. n - 1 -> Results], ret : Values \cup {NoReturn, Stuck}]

\* The entries the constructor makes, over n variables
CodeOver(n) ==
  [type : {"assign"}, a : 0 .. n - 1, b : {-1}, c : {-1}, value : Values] \cup
  [type : {"param"}, a : 0 .. n - 1, b : {-1}, c : {-1}, value : 0 .. MaxParams - 1] \cup
  [type : Ops, a : 0 .. n - 1, b : 0 .. n - 1, c : 0 .. n - 1, value : {0}] \cup
  [type : {"ret"}, a : {-1}, b : 0 .. n - 1, c : {-1}, value : {0}]

LEMMA CodeGrows ==
  ASSUME NEW n \in Nat, NEW p \in Nat, n <= p
  PROVE  CodeOver(n) \subseteq CodeOver(p) /\ Seq(CodeOver(n)) \subseteq Seq(CodeOver(p))
<1>1. 0 .. n - 1 \subseteq 0 .. p - 1
  OBVIOUS
<1>2. CodeOver(n) \subseteq CodeOver(p)
  BY <1>1 DEF CodeOver
<1> QED BY <1>2

LEMMA AssignedRun ==
  ASSUME NEW n \in Nat, NEW m \in Runs(n), NEW v \in 0 .. n - 1, NEW x \in Results
  PROVE  /\ Assigned(m, v, x) \in Runs(n)
         /\ x = NoValue => Assigned(m, v, x).ret = Stuck /\ Assigned(m, v, x).env = m.env
         /\ x # NoValue => /\ Assigned(m, v, x).ret = m.ret /\ Assigned(m, v, x).env[v] = x
                           /\ \A u \in 0 .. n - 1 : u # v => Assigned(m, v, x).env[u] = m.env[u]
<1>1. CASE x = NoValue
  BY <1>1 DEF Assigned, Runs
<1>2. CASE x # NoValue
  BY <1>2 DEF Assigned, Runs, Results
<1> QED BY <1>1, <1>2

LEMMA AnsweredRun ==
  ASSUME NEW n \in Nat, NEW m \in Runs(n), NEW x \in Results
  PROVE  /\ Answered(m, x) \in Runs(n) /\ Answered(m, x).env = m.env
         /\ Answered(m, x).ret = IF x = NoValue THEN Stuck ELSE x
BY DEF Answered, Runs, Results

\* What an entry computes, in the run m
EntryValue(m, e, argv) ==
  CASE e.type = "assign" -> e.value
    [] e.type = "param"  -> argv[e.value]
    [] OTHER             -> Computed(e.type, m.env[e.b], m.env[e.c])

LEMMA EntryRun ==
  ASSUME NEW n \in Nat, NEW m \in Runs(n), NEW e \in CodeOver(n), NEW argv \in Given
  PROVE  /\ RunEntry(m, e, argv) \in Runs(n)
         /\ m.ret # NoReturn => RunEntry(m, e, argv) = m
         /\ m.ret = NoReturn /\ e.type = "ret" =>
              RunEntry(m, e, argv) = Answered(m, m.env[e.b]) /\ m.env[e.b] \in Results
         /\ m.ret = NoReturn /\ e.type # "ret" =>
              /\ RunEntry(m, e, argv) = Assigned(m, e.a, EntryValue(m, e, argv))
              /\ EntryValue(m, e, argv) \in Results /\ e.a \in 0 .. n - 1
<1>1. CASE m.ret # NoReturn
  BY <1>1 DEF RunEntry
<1>2. CASE m.ret = NoReturn /\ e.type = "ret"
  <2>1. e.b \in 0 .. n - 1
    BY <1>2 DEF CodeOver, Ops
  <2>2. m.env[e.b] \in Results
    BY <2>1 DEF Runs
  <2>3. RunEntry(m, e, argv) = Answered(m, m.env[e.b])
    BY <1>2 DEF RunEntry
  <2> QED BY <1>2, <2>2, <2>3, AnsweredRun
<1>3. CASE m.ret = NoReturn /\ e.type # "ret"
  <2>1. RunEntry(m, e, argv) = Assigned(m, e.a, EntryValue(m, e, argv))
    BY <1>3 DEF RunEntry, EntryValue
  <2>2. e.a \in 0 .. n - 1
    BY <1>3 DEF CodeOver
  <2>3. EntryValue(m, e, argv) \in Results
    <3>1. CASE e.type = "assign"
      <4>1. e.value \in Values
        BY <3>1 DEF CodeOver, Ops
      <4> QED BY <3>1, <4>1 DEF EntryValue, Results
    <3>2. CASE e.type = "param"
      <4>1. e.value \in 0 .. MaxParams - 1
        BY <3>2 DEF CodeOver, Ops
      <4> QED BY <3>2, <4>1 DEF EntryValue, Results, Given
    <3>3. CASE e.type \in Ops
      <4>1. e.b \in 0 .. n - 1 /\ e.c \in 0 .. n - 1
        BY <3>3 DEF CodeOver, Ops
      <4>2. m.env[e.b] \in Results /\ m.env[e.c] \in Results
        BY <4>1 DEF Runs
      <4>3. EntryValue(m, e, argv) = Computed(e.type, m.env[e.b], m.env[e.c])
        BY <3>3 DEF EntryValue, Ops
      <4> QED BY <3>3, <4>2, <4>3, ComputedTyped
    <3> QED BY <1>3, <3>1, <3>2, <3>3 DEF CodeOver
  <2> QED BY <1>3, <2>1, <2>2, <2>3, AssignedRun
<1> QED BY <1>1, <1>2, <1>3

\* A run goes on entry by entry.
LEMMA RunDefined ==
  ASSUME NEW n \in Nat, NEW m \in Runs(n), NEW es \in Seq(CodeOver(n)), NEW argv \in Given
  PROVE  /\ RunEntries(m, es, argv, 0) = m
         /\ \A j \in 0 .. Len(es) : RunEntries(m, es, argv, j) \in Runs(n)
         /\ \A j \in 1 .. Len(es) :
              RunEntries(m, es, argv, j) = RunEntry(RunEntries(m, es, argv, j - 1), es[j], argv)
<1> DEFINE S == 0 .. Len(es)
           Next1(g, j) == IF j = 0 THEN m ELSE RunEntry(g[j - 1], es[j], argv)
           run == CHOOSE g : g = [j \in S |-> Next1(g, j)]
           rank == [j \in S |-> j]
           F == [g \in [S -> Runs(n)] |-> [j \in S |-> Next1(g, j)]]
<1>1. /\ Len(es) \in Nat /\ \A j \in 1 .. Len(es) : es[j] \in CodeOver(n)
      /\ \A j \in S : j # 0 => j \in 1 .. Len(es) /\ j - 1 \in S /\ j - 1 < j
  OBVIOUS
<1>2. \A g \in [S -> Runs(n)] : \A j \in S : Next1(g, j) \in Runs(n)
  <2> SUFFICES ASSUME NEW g \in [S -> Runs(n)], NEW j \in S, j # 0
               PROVE  RunEntry(g[j - 1], es[j], argv) \in Runs(n)
    OBVIOUS
  <2>1. g[j - 1] \in Runs(n)
    <3> HIDE DEF S
    <3> QED BY <1>1
  <2> QED BY <1>1, <2>1, EntryRun
<1>3. F \in [[S -> Runs(n)] -> [S -> Runs(n)]]
  BY <1>2
<1>4. \A g, h \in [S -> Runs(n)] : \A j \in S :
        (\A y \in S : rank[y] < rank[j] => g[y] = h[y]) => F[g][j] = F[h][j]
  <2> SUFFICES ASSUME NEW g \in [S -> Runs(n)], NEW h \in [S -> Runs(n)], NEW j \in S,
                      \A y \in S : y < j => g[y] = h[y]
               PROVE  Next1(g, j) = Next1(h, j)
    OBVIOUS
  <2> HIDE DEF S
  <2>1. j # 0 => g[j - 1] = h[j - 1]
    BY <1>1
  <2> QED BY <2>1
<1>5. Recursive(S, Runs(n), rank, Len(es) + 1, F)
  <2>1. rank \in [S -> Nat] /\ \A j \in S : rank[j] < Len(es) + 1
    BY <1>1
  <2>2. [S -> Runs(n)] # {}
    <3>1. [j \in S |-> m] \in [S -> Runs(n)]
      OBVIOUS
    <3> QED BY <3>1
  <2>3. Len(es) + 1 \in Nat
    BY <1>1
  <2> HIDE DEF S, rank, F, run, Next1
  <2> QED BY <1>3, <1>4, <2>1, <2>2, <2>3, Zenon DEF Recursive
<1>6. \E g \in [S -> Runs(n)] : F[g] = g
  <2> HIDE DEF S, rank, F
  <2> QED BY <1>5, RecursiveFunction
<1>7. PICK g \in [S -> Runs(n)] : g = [j \in S |-> Next1(g, j)]
  BY <1>6
<1>8. run = [j \in S |-> Next1(run, j)]
  <2> HIDE DEF S, Next1
  <2> QED BY <1>7
<1>9. \A j \in S : RunEntries(m, es, argv, j) = run[j]
  BY DEF RunEntries
<1> HIDE DEF run
<1>10. \A j \in S : run[j] = Next1(run, j)
  <2> HIDE DEF S, Next1
  <2> QED BY <1>8
<1>11. \A j \in S : run[j] \in Runs(n)
  <2> DEFINE T == {j \in Nat : j \in S => run[j] \in Runs(n)}
  <2>1. \A j \in Nat : (\A y \in Nat : y < j => y \in T) => j \in T
    <3> SUFFICES ASSUME NEW j \in S, \A y \in Nat : y < j => y \in T PROVE run[j] \in Runs(n)
      OBVIOUS
    <3>1. CASE j = 0
      BY <1>10, <3>1
    <3>2. CASE j # 0
      <4>1. run[j - 1] \in Runs(n) /\ es[j] \in CodeOver(n)
        BY <1>1, <3>2
      <4>2. run[j] = RunEntry(run[j - 1], es[j], argv)
        BY <1>10, <3>2
      <4> QED BY <4>1, <4>2, EntryRun
    <3> QED BY <3>1, <3>2
  <2>2. Nat \subseteq T
    <3> HIDE DEF T
    <3> QED BY <2>1, AllNumbersBelow
  <2> QED BY <1>1, <2>2
<1>12. 0 \in S /\ \A j \in 1 .. Len(es) : j \in S /\ j # 0 /\ j - 1 \in S
  BY <1>1
<1> QED BY <1>9, <1>10, <1>11, <1>12

\* Entries that come after others go on with what those left.
LEMMA RunAppended ==
  ASSUME NEW n \in Nat, NEW m \in Runs(n), NEW es \in Seq(CodeOver(n)), NEW fs \in Seq(CodeOver(n)),
         NEW argv \in Given
  PROVE  /\ es \o fs \in Seq(CodeOver(n))
         /\ \A j \in 0 .. Len(es) : RunEntries(m, es \o fs, argv, j) = RunEntries(m, es, argv, j)
         /\ \A j \in 0 .. Len(fs) :
              RunEntries(m, es \o fs, argv, Len(es) + j) =
                RunEntries(RunEntries(m, es, argv, Len(es)), fs, argv, j)
<1> DEFINE gs == es \o fs
           half == RunEntries(m, es, argv, Len(es))
           At1(j) == RunEntries(m, gs, argv, j)
<1>1. /\ gs \in Seq(CodeOver(n)) /\ Len(gs) = Len(es) + Len(fs)
      /\ Len(es) \in Nat /\ Len(fs) \in Nat
      /\ \A j \in 1 .. Len(es) : gs[j] = es[j]
      /\ \A j \in 1 .. Len(fs) : gs[Len(es) + j] = fs[j]
  OBVIOUS
<1> HIDE DEF gs
<1>2. /\ At1(0) = m
      /\ \A j \in 1 .. Len(gs) : At1(j) = RunEntry(At1(j - 1), gs[j], argv)
  BY <1>1, RunDefined
<1>3. /\ RunEntries(m, es, argv, 0) = m /\ half \in Runs(n)
      /\ \A j \in 1 .. Len(es) :
           RunEntries(m, es, argv, j) = RunEntry(RunEntries(m, es, argv, j - 1), es[j], argv)
  BY <1>1, RunDefined
<1> HIDE DEF At1
<1>4. \A j \in 0 .. Len(es) : At1(j) = RunEntries(m, es, argv, j)
  <2> DEFINE T == {j \in Nat : j \in 0 .. Len(es) => At1(j) = RunEntries(m, es, argv, j)}
  <2>1. 0 \in T
    BY <1>2, <1>3
  <2>2. \A j \in Nat : j \in T => j + 1 \in T
    <3> SUFFICES ASSUME NEW j \in Nat, j \in T, j + 1 \in 0 .. Len(es)
                 PROVE  At1(j + 1) = RunEntries(m, es, argv, j + 1)
      OBVIOUS
    <3>1. j + 1 \in 1 .. Len(es) /\ j + 1 \in 1 .. Len(gs) /\ (j + 1) - 1 = j /\ j \in 0 .. Len(es)
      BY <1>1
    <3>2. /\ At1(j + 1) = RunEntry(At1(j), gs[j + 1], argv)
          /\ RunEntries(m, es, argv, j + 1) = RunEntry(RunEntries(m, es, argv, j), es[j + 1], argv)
          /\ gs[j + 1] = es[j + 1]
      BY <1>1, <1>2, <1>3, <3>1
    <3> QED BY <3>1, <3>2
  <2>3. Nat \subseteq T
    <3> HIDE DEF T
    <3> QED BY <2>1, <2>2, AllNumbers
  <2> QED BY <1>1, <2>3
<1> HIDE DEF half
<1>5. /\ RunEntries(half, fs, argv, 0) = half
      /\ \A j \in 1 .. Len(fs) :
           RunEntries(half, fs, argv, j) = RunEntry(RunEntries(half, fs, argv, j - 1), fs[j], argv)
  BY <1>3, RunDefined
<1>6. \A j \in 0 .. Len(fs) : At1(Len(es) + j) = RunEntries(half, fs, argv, j)
  <2> DEFINE T == {j \in Nat : j \in 0 .. Len(fs) => At1(Len(es) + j) = RunEntries(half, fs, argv, j)}
  <2>1. 0 \in T
    <3>1. Len(es) + 0 = Len(es) /\ Len(es) \in 0 .. Len(es)
      BY <1>1
    <3> QED BY <1>4, <1>5, <3>1 DEF half
  <2>2. \A j \in Nat : j \in T => j + 1 \in T
    <3> SUFFICES ASSUME NEW j \in Nat, j \in T, j + 1 \in 0 .. Len(fs)
                 PROVE  At1(Len(es) + (j + 1)) = RunEntries(half, fs, argv, j + 1)
      OBVIOUS
    <3>1. /\ j + 1 \in 1 .. Len(fs) /\ Len(es) + (j + 1) \in 1 .. Len(gs) /\ (j + 1) - 1 = j
          /\ (Len(es) + (j + 1)) - 1 = Len(es) + j /\ j \in 0 .. Len(fs)
      BY <1>1
    <3>2. /\ At1(Len(es) + (j + 1)) = RunEntry(At1(Len(es) + j), gs[Len(es) + (j + 1)], argv)
          /\ RunEntries(half, fs, argv, j + 1) = RunEntry(RunEntries(half, fs, argv, j), fs[j + 1], argv)
          /\ gs[Len(es) + (j + 1)] = fs[j + 1]
      BY <1>1, <1>2, <1>5, <3>1
    <3> QED BY <3>1, <3>2
  <2>3. Nat \subseteq T
    <3> HIDE DEF T
    <3> QED BY <2>1, <2>2, AllNumbers
  <2> QED BY <1>1, <2>3
<1> QED BY <1>1, <1>4, <1>6 DEF gs, half, At1

-----------------------------------------------------------------------------
(***************************************************************************)
(* add_from_exp() is what its recursion says.                              *)
(***************************************************************************)
First(e) == IF left_first THEN e.left ELSE e.right
Second(e) == IF left_first THEN e.right ELSE e.left

LEMMA AddDefined ==
  ASSUME NEW ids \in SUBSET Nat, NEW exp, IsExpression(exp, ids)
  PROVE  \E added : \A c \in Calls(exp) :
           add_from_exp(exp, c) = added[c] /\ added[c] = Added(exp, added, c)
<1> DEFINE S == Calls(exp)
           Rough == [type : Ops \cup {"assign"}, a : Int, b : Int, c : Int, value : Int]
           V == [entries : Seq(Rough), next : Nat, id : Int]
           added == CHOOSE g : g = [c \in S |-> Added(exp, g, c)]
           rank == [c \in S |-> c.object]
           F == [g \in [S -> V] |-> [c \in S |-> Added(exp, g, c)]]
<1>1. /\ Len(exp) \in Nat
      /\ \A l \in 1 .. Len(exp) :
           \/ exp[l].type = "num" /\ exp[l].num \in Values
           \/ exp[l].type = "var" /\ exp[l].num \in ids
           \/ exp[l].type \in Ops /\ exp[l].left \in 1 .. l - 1 /\ exp[l].right \in 1 .. l - 1
  BY DEF IsExpression
<1>2. ASSUME NEW c \in S
      PROVE  /\ c.object \in 1 .. Len(exp) /\ c.result \in Int /\ c.next \in Nat
             /\ Place(c.result, exp[c.object], c.next) \in Int
             /\ NextAfter(c.result, exp[c.object], c.next) \in Nat
  BY DEF Calls, Place, NextAfter
<1>3. ASSUME NEW c \in S, exp[c.object].type \in Ops, NEW n \in Nat
      PROVE  /\ ForOperand(First(exp[c.object]), n) \in S
             /\ ForOperand(Second(exp[c.object]), n) \in S
             /\ First(exp[c.object]) < c.object /\ Second(exp[c.object]) < c.object
             /\ exp[c.object].type \notin {"num", "var"}
  <2>1. /\ exp[c.object].left \in 1 .. c.object - 1 /\ exp[c.object].right \in 1 .. c.object - 1
        /\ exp[c.object].type \notin {"num", "var"}
    BY <1>1, <1>2, <1>3 DEF Ops
  <2>2. First(exp[c.object]) \in 1 .. c.object - 1 /\ Second(exp[c.object]) \in 1 .. c.object - 1
    BY SMTT(30), <2>1 DEF First, Second
  <2> QED BY <1>1, <1>2, <2>1, <2>2 DEF ForOperand, Calls
<1>4. ASSUME NEW g, NEW c \in S
      PROVE  /\ exp[c.object].type = "var" =>
                  Added(exp, g, c) = [entries |-> <<>>,
                    next |-> NextAfter(c.result, exp[c.object], c.next), id |-> exp[c.object].num]
             /\ exp[c.object].type = "num" =>
                  Added(exp, g, c) =
                    [entries |-> <<Entry("assign", Place(c.result, exp[c.object], c.next),
                                         -1, -1, exp[c.object].num)>>,
                     next |-> NextAfter(c.result, exp[c.object], c.next),
                     id |-> Place(c.result, exp[c.object], c.next)]
             /\ exp[c.object].type \in Ops =>
                  LET e == exp[c.object]
                      r == Place(c.result, e, c.next)
                      n == NextAfter(c.result, e, c.next)
                      one == g[ForOperand(First(e), n)]
                      other == g[ForOperand(Second(e), one.next)]
                  IN  Added(exp, g, c) =
                        [entries |-> one.entries \o other.entries
                                       \o <<Operation(e.type, r, one.id, other.id)>>,
                         next |-> other.next, id |-> r]
  BY DEF Added, First, Second, Ops
<1>5. \A g \in [S -> V] : \A c \in S : Added(exp, g, c) \in V
  <2> SUFFICES ASSUME NEW g \in [S -> V], NEW c \in S PROVE Added(exp, g, c) \in V
    OBVIOUS
  <2> DEFINE e == exp[c.object]
             r == Place(c.result, e, c.next)
             n == NextAfter(c.result, e, c.next)
  <2> DEFINE x == e.num
  <2>a. r \in Int /\ n \in Nat /\ c.object \in 1 .. Len(exp)
    BY <1>2
  <2>b. (e.type = "var" => x \in ids) /\ (e.type = "num" => x \in Values)
    BY <1>1, <2>a DEF Ops
  <2>c. e.type \in {"var", "num"} => x \in Int
    <3>1. Values \subseteq Int /\ ids \subseteq Int
      BY NoValueApart
    <3> HIDE DEF x
    <3> QED BY <2>b, <3>1
  <2>1. CASE e.type = "var"
    <3>1. Added(exp, g, c) = [entries |-> <<>>, next |-> n, id |-> x]
      <4> HIDE DEF S
      <4> QED BY <1>4, <2>1
    <3>2. <<>> \in Seq(Rough)
      OBVIOUS
    <3> HIDE DEF Rough, r, n, x
    <3> QED BY SMTT(30), <2>a, <2>c, <2>1, <3>1, <3>2
  <2>2. CASE e.type = "num"
    <3>1. Added(exp, g, c) =
            [entries |-> <<Entry("assign", r, -1, -1, x)>>, next |-> n, id |-> r]
      <4> HIDE DEF S
      <4> QED BY <1>4, <2>2
    <3>2. Entry("assign", r, -1, -1, x) \in Rough
      <4> HIDE DEF r, x
      <4> QED BY <2>a, <2>c, <2>2 DEF Entry
    <3>3. <<Entry("assign", r, -1, -1, x)>> \in Seq(Rough)
      <4> HIDE DEF Rough, r, x
      <4> QED BY <3>2
    <3> HIDE DEF Rough, r, n, x
    <3> QED BY SMTT(30), <2>a, <3>1, <3>3
  <2>3. CASE e.type \in Ops
    <3> DEFINE one == g[ForOperand(First(e), n)]
               other == g[ForOperand(Second(e), one.next)]
               last == Operation(e.type, r, one.id, other.id)
    <3>1. n \in Nat /\ r \in Int
      BY <1>2
    <3>2. ForOperand(First(e), n) \in S
      <4> HIDE DEF S, n
      <4> QED BY <1>3, <2>3, <3>1
    <3>3. one \in V
      <4> HIDE DEF S, V
      <4> QED BY <3>2
    <3>4. one.entries \in Seq(Rough) /\ one.next \in Nat /\ one.id \in Int
      <4> HIDE DEF one, Rough
      <4> QED BY <3>3
    <3>5. ForOperand(Second(e), one.next) \in S
      <4> HIDE DEF S, one
      <4> QED BY <1>3, <2>3, <3>4
    <3>6. other \in V
      <4> HIDE DEF S, V, one
      <4> QED BY <3>5
    <3>7. other.entries \in Seq(Rough) /\ other.next \in Nat /\ other.id \in Int
      <4> HIDE DEF other, Rough
      <4> QED BY <3>6
    <3>8. last \in Rough
      <4> HIDE DEF one, other, r
      <4> QED BY SMTT(30), <2>3, <3>1, <3>4, <3>7 DEF Operation, Entry
    <3>9. one.entries \o other.entries \o <<last>> \in Seq(Rough)
      <4> HIDE DEF Rough, one, other, last
      <4> QED BY <3>4, <3>7, <3>8
    <3>10. Added(exp, g, c) =
             [entries |-> one.entries \o other.entries \o <<last>>, next |-> other.next, id |-> r]
      <4> HIDE DEF S
      <4> QED BY <1>4, <2>3
    <3> HIDE DEF Rough, one, other, last, r
    <3> QED BY <3>1, <3>7, <3>9, <3>10
  <2> QED BY <1>1, <1>2, <2>1, <2>2, <2>3
<1>6. F \in [[S -> V] -> [S -> V]]
  <2> HIDE DEF S, V
  <2> QED BY <1>5
<1>7. \A g, h \in [S -> V] : \A c \in S :
        (\A y \in S : rank[y] < rank[c] => g[y] = h[y]) => F[g][c] = F[h][c]
  <2> SUFFICES ASSUME NEW g \in [S -> V], NEW h \in [S -> V], NEW c \in S,
                      \A y \in S : y.object < c.object => g[y] = h[y]
               PROVE  Added(exp, g, c) = Added(exp, h, c)
    <3> HIDE DEF S, V
    <3> QED OBVIOUS
  <2> DEFINE e == exp[c.object]
             r == Place(c.result, e, c.next)
             n == NextAfter(c.result, e, c.next)
  <2>1. CASE e.type \in {"num", "var"}
    <3> HIDE DEF S
    <3> QED BY <1>4, <2>1
  <2>2. CASE e.type \in Ops
    <3> DEFINE one == g[ForOperand(First(e), n)]
               other == g[ForOperand(Second(e), one.next)]
               one2 == h[ForOperand(First(e), n)]
               other2 == h[ForOperand(Second(e), one2.next)]
    <3>1. n \in Nat
      BY <1>2
    <3>2. ForOperand(First(e), n) \in S /\ First(e) < c.object
      <4> HIDE DEF S, n
      <4> QED BY <1>3, <2>2, <3>1
    <3>3. one \in V /\ one = one2
      <4> HIDE DEF S, V, n
      <4> QED BY <3>2 DEF ForOperand
    <3>4. one.next \in Nat
      <4> HIDE DEF one, Rough
      <4> QED BY <3>3
    <3>5. ForOperand(Second(e), one.next) \in S /\ Second(e) < c.object
      <4> HIDE DEF S, one
      <4> QED BY <1>3, <2>2, <3>4
    <3>6. other = other2
      <4> HIDE DEF S, V, one, one2
      <4> QED BY <3>3, <3>5 DEF ForOperand
    <3>7. /\ Added(exp, g, c) =
               [entries |-> one.entries \o other.entries \o <<Operation(e.type, r, one.id, other.id)>>,
                next |-> other.next, id |-> r]
          /\ Added(exp, h, c) =
               [entries |-> one2.entries \o other2.entries \o <<Operation(e.type, r, one2.id, other2.id)>>,
                next |-> other2.next, id |-> r]
      <4> HIDE DEF S
      <4> QED BY <1>4, <2>2
    <3> HIDE DEF one, other, one2, other2
    <3> QED BY <3>3, <3>6, <3>7
  <2> QED BY SMTT(30), <1>1, <1>2, <2>1, <2>2
<1>8. Recursive(S, V, rank, Len(exp) + 1, F)
  <2>1. rank \in [S -> Nat] /\ \A c \in S : rank[c] < Len(exp) + 1
    BY <1>1 DEF Calls
  <2>2. [S -> V] # {}
    <3>1. [entries |-> <<>>, next |-> 0, id |-> 0] \in V
      <4>1. <<>> \in Seq(Rough)
        OBVIOUS
      <4> HIDE DEF Rough
      <4> QED BY <4>1
    <3>2. [c \in S |-> [entries |-> <<>>, next |-> 0, id |-> 0]] \in [S -> V]
      <4> HIDE DEF S, V
      <4> QED BY <3>1
    <3> QED BY <3>2
  <2>3. Len(exp) + 1 \in Nat
    BY <1>1
  <2> HIDE DEF S, V, rank, F, added
  <2> QED BY <1>6, <1>7, <2>1, <2>2, <2>3, Zenon DEF Recursive
<1>9. \E g \in [S -> V] : F[g] = g
  <2> HIDE DEF S, V, rank, F
  <2> QED BY <1>8, RecursiveFunction
<1>10. PICK g \in [S -> V] : g = [c \in S |-> Added(exp, g, c)]
  <2> HIDE DEF S, V
  <2> QED BY <1>9
<1>11. added = [c \in S |-> Added(exp, added, c)]
  <2> HIDE DEF S, V
  <2> QED BY <1>10
<1>12. \A c \in S : add_from_exp(exp, c) = added[c]
  BY DEF add_from_exp
<1> HIDE DEF added, S
<1>13. \A c \in S : added[c] = Added(exp, added, c)
  BY <1>11
<1> QED BY <1>12, <1>13 DEF S

\* A call of add_from_exp()
AddObject(exp, l, given, from) ==
  add_from_exp(exp, [object |-> l, result |-> given, next |-> from])

\* What a call returns, from those for its operands
ByOperands(exp, l, given, from) ==
  LET e == exp[l]
      r == Place(given, e, from)
      n == NextAfter(given, e, from)
      one == AddObject(exp, First(e), -1, n)
      other == AddObject(exp, Second(e), -1, one.next)
  IN  /\ e.type = "var" =>
           AddObject(exp, l, given, from) = [entries |-> <<>>, next |-> n, id |-> e.num]
      /\ e.type = "num" =>
           AddObject(exp, l, given, from) =
             [entries |-> <<Entry("assign", r, -1, -1, e.num)>>, next |-> n, id |-> r]
      /\ e.type \in Ops /\ one.next \in Nat =>
           AddObject(exp, l, given, from) =
             [entries |-> one.entries \o other.entries
                            \o <<Operation(e.type, r, one.id, other.id)>>,
              next |-> other.next, id |-> r]

LEMMA AddCases ==
  ASSUME NEW ids \in SUBSET Nat, NEW exp, IsExpression(exp, ids),
         NEW l \in 1 .. Len(exp), NEW given \in Int, NEW from \in Nat
  PROVE  ByOperands(exp, l, given, from)
<1> DEFINE e == exp[l]
           r == Place(given, e, from)
           n == NextAfter(given, e, from)
           one == AddObject(exp, First(e), -1, n)
           other == AddObject(exp, Second(e), -1, one.next)
           call == [object |-> l, result |-> given, next |-> from]
<1>1. PICK added : \A c \in Calls(exp) :
        add_from_exp(exp, c) = added[c] /\ added[c] = Added(exp, added, c)
  BY AddDefined
<1>2. call \in Calls(exp)
  BY DEF Calls
<1>3. AddObject(exp, l, given, from) = Added(exp, added, call)
  BY <1>1, <1>2 DEF AddObject
<1>4. n \in Nat
  BY DEF NextAfter
<1>a. call.object = l /\ call.result = given /\ call.next = from
  OBVIOUS
<1>b. exp[call.object] = e /\ Place(call.result, exp[call.object], call.next) = r
      /\ NextAfter(call.result, exp[call.object], call.next) = n
  BY <1>a
<1> HIDE DEF call
<1>5. CASE e.type = "var"
  <2>1. Added(exp, added, call) = [entries |-> <<>>, next |-> n, id |-> e.num]
    <3> HIDE DEF e, r, n
    <3> QED BY <1>b, <1>5 DEF Added, Ops
  <2> QED BY <1>3, <1>5, <2>1 DEF Ops, ByOperands
<1>6. CASE e.type = "num"
  <2>1. Added(exp, added, call) =
          [entries |-> <<Entry("assign", r, -1, -1, e.num)>>, next |-> n, id |-> r]
    <3> HIDE DEF e, r, n
    <3> QED BY <1>b, <1>6 DEF Added, Ops
  <2> QED BY <1>3, <1>6, <2>1 DEF Ops, ByOperands
<1>7. CASE e.type \in Ops /\ one.next \in Nat
  <2>1. e.left \in 1 .. Len(exp) /\ e.right \in 1 .. Len(exp)
    BY <1>7 DEF IsExpression, Ops
  <2>2. First(e) \in 1 .. Len(exp) /\ Second(e) \in 1 .. Len(exp)
    BY <2>1 DEF First, Second
  <2>3. ForOperand(First(e), n) \in Calls(exp)
    <3> HIDE DEF n, e
    <3> QED BY <1>4, <2>2 DEF ForOperand, Calls
  <2>4. one = added[ForOperand(First(e), n)]
    BY <1>1, <2>3 DEF AddObject, ForOperand
  <2>5. ForOperand(Second(e), one.next) \in Calls(exp)
    <3> HIDE DEF one, e
    <3> QED BY <1>7, <2>2 DEF ForOperand, Calls
  <2>6. other = added[ForOperand(Second(e), one.next)]
    <3> HIDE DEF one
    <3> QED BY <1>1, <2>5 DEF AddObject, ForOperand
  <2>7. e.type \notin {"var", "num"}
    BY SMTT(30), <1>7 DEF Ops
  <2>8. Added(exp, added, call) =
          LET one2 == added[ForOperand(First(e), n)]
              other2 == added[ForOperand(Second(e), one2.next)]
          IN  [entries |-> one2.entries \o other2.entries
                             \o <<Operation(e.type, r, one2.id, other2.id)>>,
               next |-> other2.next, id |-> r]
    <3> HIDE DEF e, r, n, one, other
    <3> QED BY <1>7, <1>b, <2>7 DEF Added, First, Second
  <2>9. Added(exp, added, call) =
          [entries |-> one.entries \o other.entries \o <<Operation(e.type, r, one.id, other.id)>>,
           next |-> other.next, id |-> r]
    <3> HIDE DEF one, other
    <3> QED BY <2>4, <2>6, <2>8
  <2>10. AddObject(exp, l, given, from) =
          [entries |-> one.entries \o other.entries \o <<Operation(e.type, r, one.id, other.id)>>,
           next |-> other.next, id |-> r]
    BY <1>3, <2>9
  <2> QED BY <1>7, <2>7, <2>10, Zenon DEF ByOperands
<1> QED BY <1>5, <1>6, <1>7 DEF ByOperands

-----------------------------------------------------------------------------
(***************************************************************************)
(* What add_from_exp() returns, by induction on the place of the object:   *)
(* for a function of u variables, when from is next_varid and given the    *)
(* variable that is to have the value, if there is one.                    *)
(***************************************************************************)
Shape(exp, l, given, from) ==
  LET added == AddObject(exp, l, given, from) IN
  /\ added.next \in Nat /\ from <= added.next /\ added.id \in 0 .. added.next - 1
  /\ added.entries \in Seq(CodeOver(added.next))
  /\ exp[l].type = "var" =>
       added.entries = <<>> /\ added.next = from /\ added.id = exp[l].num
  /\ exp[l].type # "var" =>
       added.id = (IF given = -1 THEN from ELSE given) /\ (given = -1 => from < added.next)

LEMMA AddShape ==
  ASSUME NEW u \in Nat, NEW exp, IsExpression(exp, 0 .. u - 1)
  PROVE  \A l \in 1 .. Len(exp) : \A from \in Nat, given \in -1 .. u - 1 :
           u <= from => Shape(exp, l, given, from)
<1> DEFINE T == {l \in Nat : l \in 1 .. Len(exp) =>
                   \A from \in Nat, given \in -1 .. u - 1 :
                     u <= from => Shape(exp, l, given, from)}
<1>1. /\ Len(exp) \in Nat
      /\ \A l \in 1 .. Len(exp) :
           \/ exp[l].type = "num" /\ exp[l].num \in Values
           \/ exp[l].type = "var" /\ exp[l].num \in 0 .. u - 1
           \/ exp[l].type \in Ops /\ exp[l].left \in 1 .. l - 1 /\ exp[l].right \in 1 .. l - 1
  BY DEF IsExpression
<1>2. \A l \in Nat : (\A j \in Nat : j < l => j \in T) => l \in T
  <2> SUFFICES ASSUME NEW l \in 1 .. Len(exp), \A j \in Nat : j < l => j \in T,
                      NEW from \in Nat, NEW given \in -1 .. u - 1, u <= from
               PROVE  Shape(exp, l, given, from)
    BY <1>1
  <2> DEFINE e == exp[l]
             r == Place(given, e, from)
             n == NextAfter(given, e, from)
             one == AddObject(exp, First(e), -1, n)
             other == AddObject(exp, Second(e), -1, one.next)
             R == AddObject(exp, l, given, from)
  <2>1. 0 .. u - 1 \subseteq Nat /\ given \in Int
    OBVIOUS
  <2>2. /\ e.type = "var" => R = [entries |-> <<>>, next |-> n, id |-> e.num]
        /\ e.type = "num" =>
             R = [entries |-> <<Entry("assign", r, -1, -1, e.num)>>, next |-> n, id |-> r]
        /\ e.type \in Ops /\ one.next \in Nat =>
             R = [entries |-> one.entries \o other.entries
                                \o <<Operation(e.type, r, one.id, other.id)>>,
                  next |-> other.next, id |-> r]
    <3> DEFINE ids == 0 .. u - 1
    <3>1. ids \in SUBSET Nat /\ IsExpression(exp, ids)
      BY <2>1
    <3> HIDE DEF ids
    <3>2. ByOperands(exp, l, given, from)
      BY <2>1, <3>1, AddCases
    <3> QED BY <3>2, Zenon DEF ByOperands
  <2>3. CASE e.type = "var"
    <3>1. n = from /\ e.num \in 0 .. u - 1
      BY <1>1, <2>3 DEF NextAfter, NeedsTemp, Ops
    <3>2. R = [entries |-> <<>>, next |-> from, id |-> e.num]
      BY <2>2, <2>3, <3>1
    <3>3. e.num \in 0 .. from - 1 /\ <<>> \in Seq(CodeOver(from))
      BY <3>1
    <3> HIDE DEF R, e
    <3>4. /\ R.entries = <<>> /\ R.next = from /\ R.id = e.num
      BY <3>2
    <3>5. Shape(exp, l, given, from)
      BY <2>3, <3>3, <3>4 DEF Shape, e, R
    <3> QED BY <3>5
  <2>4. e.type # "var" =>
          /\ r = (IF given = -1 THEN from ELSE given)
          /\ n = (IF given = -1 THEN from + 1 ELSE from)
          /\ r \in 0 .. n - 1 /\ n \in Nat /\ u <= n /\ from <= n
    BY DEF Place, NextAfter, NeedsTemp
  <2>5. CASE e.type = "num"
    <3>1. R = [entries |-> <<Entry("assign", r, -1, -1, e.num)>>, next |-> n, id |-> r]
      BY <2>2, <2>5
    <3>2. e.num \in Values
      BY <1>1, <2>5 DEF Ops
    <3>3. Entry("assign", r, -1, -1, e.num) \in CodeOver(n)
      <4> HIDE DEF r, n
      <4> QED BY <2>4, <2>5, <3>2 DEF Entry, CodeOver
    <3>4. <<Entry("assign", r, -1, -1, e.num)>> \in Seq(CodeOver(n))
      BY <3>3
    <3>5. R.entries \in Seq(CodeOver(n)) /\ R.next = n /\ R.id = r
      <4> HIDE DEF r, n, R
      <4> QED BY <3>1, <3>4
    <3> HIDE DEF r, n
    <3> QED BY <2>4, <2>5, <3>5 DEF Shape
  <2>6. CASE e.type \in Ops
    <3>1. /\ First(e) \in 1 .. Len(exp) /\ First(e) \in T
          /\ Second(e) \in 1 .. Len(exp) /\ Second(e) \in T
          /\ e.type \notin {"num", "var"}
      <4>1. /\ e.left \in 1 .. l - 1 /\ e.right \in 1 .. l - 1 /\ e.type \notin {"num", "var"}
        BY <1>1, <2>6 DEF Ops
      <4>2. First(e) \in 1 .. l - 1 /\ Second(e) \in 1 .. l - 1
        BY <4>1 DEF First, Second
      <4> HIDE DEF T, e
      <4> QED BY <1>1, <4>1, <4>2
    <3>2. r \in 0 .. n - 1 /\ n \in Nat /\ u <= n /\ from <= n
      BY <2>4, <3>1
    <3>3. Shape(exp, First(e), -1, n)
      <4> HIDE DEF n, e
      <4> QED BY <3>1, <3>2
    <3>4. /\ one.next \in Nat /\ n <= one.next /\ one.id \in 0 .. one.next - 1
          /\ one.entries \in Seq(CodeOver(one.next))
      BY <3>3 DEF Shape
    <3>5. Shape(exp, Second(e), -1, one.next)
      <4> HIDE DEF one, e, n
      <4> QED BY <3>1, <3>2, <3>4
    <3>6. /\ other.next \in Nat /\ one.next <= other.next /\ other.id \in 0 .. other.next - 1
          /\ other.entries \in Seq(CodeOver(other.next))
      <4> HIDE DEF one
      <4> QED BY <3>5 DEF Shape
    <3> DEFINE last == Operation(e.type, r, one.id, other.id)
    <3>7. R = [entries |-> one.entries \o other.entries \o <<last>>,
               next |-> other.next, id |-> r]
      <4> HIDE DEF one, other, R, r
      <4> QED BY <2>2, <2>6, <3>4
    <3> HIDE DEF one, other, R, r, n
    <3>8. r \in 0 .. other.next - 1 /\ one.id \in 0 .. other.next - 1
      BY <3>2, <3>4, <3>6
    <3>9. last \in CodeOver(other.next)
      BY <2>6, <3>6, <3>8 DEF Operation, Entry, CodeOver
    <3>10. one.entries \in Seq(CodeOver(other.next))
      BY <3>4, <3>6, CodeGrows
    <3> HIDE DEF last
    <3>11. one.entries \o other.entries \o <<last>> \in Seq(CodeOver(other.next))
      BY <3>6, <3>9, <3>10
    <3>12. /\ R.entries \in Seq(CodeOver(R.next)) /\ R.next = other.next /\ R.id = r
      BY <3>7, <3>11
    <3>13. /\ R.next \in Nat /\ from <= R.next /\ R.id \in 0 .. R.next - 1
           /\ given = -1 => from < R.next
      BY SMTT(30), <2>4, <3>1, <3>2, <3>4, <3>6, <3>8, <3>12
    <3>14. R.id = IF given = -1 THEN from ELSE given
      BY <2>4, <3>1, <3>12
    <3>15. Shape(exp, l, given, from)
      BY <3>1, <3>12, <3>13, <3>14 DEF Shape, R, e
    <3> QED BY <3>15
  <2> QED BY <1>1, <2>3, <2>5, <2>6
<1>3. Nat \subseteq T
  <2> HIDE DEF T
  <2> QED BY <1>2, AllNumbersBelow
<1>4. \A l \in 1 .. Len(exp) : l \in T
  <2> HIDE DEF T
  <2> QED BY <1>1, <1>3
<1> QED BY <1>4

LEMMA AddNumber ==
  ASSUME NEW u \in Nat, NEW exp, IsExpression(exp, 0 .. u - 1), NEW l \in 1 .. Len(exp),
         NEW from \in Nat, NEW given \in -1 .. u - 1, u <= from, exp[l].type = "num"
  PROVE  LET added == AddObject(exp, l, given, from) IN
         /\ added.entries = <<Entry("assign", added.id, -1, -1, exp[l].num)>>
         /\ added.next = IF given = -1 THEN from + 1 ELSE from
<1> DEFINE ids == 0 .. u - 1
<1>1. ids \in SUBSET Nat /\ IsExpression(exp, ids) /\ given \in Int
  OBVIOUS
<1> HIDE DEF ids
<1>2. ByOperands(exp, l, given, from)
  BY <1>1, AddCases
<1>3. AddObject(exp, l, given, from) =
        [entries |-> <<Entry("assign", Place(given, exp[l], from), -1, -1, exp[l].num)>>,
         next |-> NextAfter(given, exp[l], from), id |-> Place(given, exp[l], from)]
  BY <1>2, Zenon DEF ByOperands
<1>4. NextAfter(given, exp[l], from) = IF given = -1 THEN from + 1 ELSE from
  BY DEF NextAfter, NeedsTemp
<1> QED BY <1>3, <1>4

\* What an operation is made of: the entries of one operand, those of the
\* other, whose call begins with the next_varid the first one left, and its own.
OfOperands(exp, l, given, from, n, one, other) ==
  LET e == exp[l]
      added == AddObject(exp, l, given, from)
  IN  /\ n = (IF given = -1 THEN from + 1 ELSE from)
      /\ First(e) \in 1 .. l - 1 /\ First(e) \in 1 .. Len(exp)
      /\ Second(e) \in 1 .. l - 1 /\ Second(e) \in 1 .. Len(exp)
      /\ one = AddObject(exp, First(e), -1, n)
      /\ Shape(exp, First(e), -1, n)
      /\ other = AddObject(exp, Second(e), -1, one.next)
      /\ Shape(exp, Second(e), -1, one.next)
      /\ added.entries = one.entries \o other.entries \o
                           <<Operation(e.type, added.id, one.id, other.id)>>
      /\ added.next = other.next
      /\ added.id = IF given = -1 THEN from ELSE given

LEMMA AddOperation ==
  ASSUME NEW u \in Nat, NEW exp, IsExpression(exp, 0 .. u - 1), NEW l \in 1 .. Len(exp),
         NEW from \in Nat, NEW given \in -1 .. u - 1, u <= from, exp[l].type \in Ops
  PROVE  \E n, one, other : n \in Nat /\ OfOperands(exp, l, given, from, n, one, other)
<1> DEFINE e == exp[l]
           ids == 0 .. u - 1
           r == Place(given, e, from)
           n == NextAfter(given, e, from)
           one == AddObject(exp, First(e), -1, n)
           other == AddObject(exp, Second(e), -1, one.next)
           R == AddObject(exp, l, given, from)
<1>1. ids \in SUBSET Nat /\ IsExpression(exp, ids) /\ given \in Int
  OBVIOUS
<1>2. ByOperands(exp, l, given, from)
  <2> HIDE DEF ids
  <2> QED BY <1>1, AddCases
<1>3. /\ Len(exp) \in Nat
      /\ e.left \in 1 .. l - 1 /\ e.right \in 1 .. l - 1 /\ e.type \notin {"num", "var"}
  BY DEF IsExpression, Ops
<1>4. /\ First(e) \in 1 .. l - 1 /\ First(e) \in 1 .. Len(exp)
      /\ Second(e) \in 1 .. l - 1 /\ Second(e) \in 1 .. Len(exp)
  <2>1. First(e) \in 1 .. l - 1 /\ Second(e) \in 1 .. l - 1
    BY <1>3 DEF First, Second
  <2> HIDE DEF e
  <2> QED BY <1>3, <2>1
<1>5. /\ n \in Nat /\ u <= n
      /\ n = (IF given = -1 THEN from + 1 ELSE from)
      /\ r = (IF given = -1 THEN from ELSE given)
  BY <1>3 DEF NextAfter, Place, NeedsTemp
<1>6. Shape(exp, First(e), -1, n)
  <2> HIDE DEF n, e
  <2> QED BY <1>4, <1>5, AddShape
<1>7. one.next \in Nat /\ n <= one.next
  BY <1>6 DEF Shape
<1>8. Shape(exp, Second(e), -1, one.next)
  <2> HIDE DEF one, n, e
  <2> QED BY <1>4, <1>5, <1>7, AddShape
<1>9. R = [entries |-> one.entries \o other.entries \o <<Operation(e.type, r, one.id, other.id)>>,
           next |-> other.next, id |-> r]
  BY <1>2, <1>7, Zenon DEF ByOperands
<1>10. /\ R.entries = one.entries \o other.entries \o <<Operation(e.type, R.id, one.id, other.id)>>
       /\ R.next = other.next
       /\ R.id = IF given = -1 THEN from ELSE given
  <2> HIDE DEF R, one, other, r
  <2> QED BY <1>5, <1>9
<1>11. OfOperands(exp, l, given, from, n, one, other)
  BY <1>4, <1>5, <1>6, <1>8, <1>10, Zenon DEF OfOperands
<1> HIDE DEF n, one, other
<1> QED BY <1>5, <1>11

-----------------------------------------------------------------------------
(***************************************************************************)
(* The meaning of the entries of an expression.                            *)
(***************************************************************************)
RunAll(m, es, argv) == RunEntries(m, es, argv, Len(es))

LEMMA RunAllTyped ==
  ASSUME NEW n \in Nat, NEW m \in Runs(n), NEW es \in Seq(CodeOver(n)), NEW argv \in Given
  PROVE  RunAll(m, es, argv) \in Runs(n)
<1>1. Len(es) \in 0 .. Len(es)
  OBVIOUS
<1> QED BY <1>1, RunDefined DEF RunAll

LEMMA RunNone ==
  ASSUME NEW n \in Nat, NEW m \in Runs(n), NEW argv \in Given
  PROVE  RunAll(m, <<>>, argv) = m
<1>1. <<>> \in Seq(CodeOver(n)) /\ Len(<<>>) = 0
  OBVIOUS
<1> QED BY <1>1, RunDefined DEF RunAll

LEMMA RunOne ==
  ASSUME NEW n \in Nat, NEW m \in Runs(n), NEW e \in CodeOver(n), NEW argv \in Given
  PROVE  RunAll(m, <<e>>, argv) = RunEntry(m, e, argv)
<1>1. <<e>> \in Seq(CodeOver(n)) /\ Len(<<e>>) = 1 /\ <<e>>[1] = e /\ 1 \in 1 .. 1 /\ 1 - 1 = 0
  OBVIOUS
<1>2. RunEntries(m, <<e>>, argv, 1) = RunEntry(RunEntries(m, <<e>>, argv, 1 - 1), <<e>>[1], argv)
  BY <1>1, RunDefined
<1>3. RunEntries(m, <<e>>, argv, 0) = m
  BY <1>1, RunDefined
<1> QED BY <1>1, <1>2, <1>3 DEF RunAll

LEMMA RunBoth ==
  ASSUME NEW n \in Nat, NEW m \in Runs(n), NEW es \in Seq(CodeOver(n)),
         NEW fs \in Seq(CodeOver(n)), NEW argv \in Given
  PROVE  RunAll(m, es \o fs, argv) = RunAll(RunAll(m, es, argv), fs, argv)
<1>1. Len(es \o fs) = Len(es) + Len(fs) /\ Len(fs) \in 0 .. Len(fs)
  OBVIOUS
<1> QED BY <1>1, RunAppended DEF RunAll

\* After the return, or when it is stuck, a run does not go on.
LEMMA RunStopped ==
  ASSUME NEW n \in Nat, NEW m \in Runs(n), NEW es \in Seq(CodeOver(n)), NEW argv \in Given,
         m.ret # NoReturn
  PROVE  RunAll(m, es, argv) = m
<1> DEFINE T == {j \in Nat : j <= Len(es) => RunEntries(m, es, argv, j) = m}
<1>1. Len(es) \in Nat
  OBVIOUS
<1>2. 0 \in T
  BY RunDefined
<1>3. \A j \in Nat : j \in T => j + 1 \in T
  <2> SUFFICES ASSUME NEW j \in Nat, j \in T, j + 1 <= Len(es)
               PROVE  RunEntries(m, es, argv, j + 1) = m
    OBVIOUS
  <2>1. RunEntries(m, es, argv, j) = m
    BY <1>1
  <2>2. j + 1 \in 1 .. Len(es) /\ (j + 1) - 1 = j
    BY <1>1
  <2>3. RunEntries(m, es, argv, j + 1) = RunEntry(m, es[j + 1], argv)
    BY <2>1, <2>2, RunDefined
  <2> QED BY <2>3 DEF RunEntry
<1>4. Nat \subseteq T
  <2> HIDE DEF T
  <2> QED BY <1>2, <1>3, AllNumbers
<1> QED BY <1>1, <1>4 DEF RunAll

\* From the run m on, the entries of the object at k put its value in its
\* place, or are stuck for lack of one; they change no other variable that was
\* there before.
Evaluates(exp, l, given, from, n, m, argv) ==
  LET added == AddObject(exp, l, given, from)
      x == ValueAt(exp, m.env, l)
      after == RunAll(m, added.entries, argv)
  IN  /\ after \in Runs(n)
      /\ after.ret = IF exp[l].type # "var" /\ x = NoValue THEN Stuck ELSE NoReturn
      /\ after.ret = NoReturn => after.env[added.id] = x
      /\ \A v \in 0 .. n - 1 :
           v \notin from .. added.next - 1 /\ (v = given => after.ret # NoReturn) =>
             after.env[v] = m.env[v]

LEMMA VariableMeans ==
  ASSUME NEW u \in Nat, NEW exp, IsExpression(exp, 0 .. u - 1), NEW l \in 1 .. Len(exp),
         NEW from \in Nat, NEW given \in -1 .. u - 1, u <= from, exp[l].type = "var",
         NEW n \in Nat, from <= n, NEW argv \in Given, NEW m \in Runs(n), m.ret = NoReturn
  PROVE  Evaluates(exp, l, given, from, n, m, argv)
<1> DEFINE R == AddObject(exp, l, given, from)
<1>1. Shape(exp, l, given, from)
  BY AddShape
<1>2. R.entries = <<>> /\ R.next = from /\ R.id = exp[l].num
  BY <1>1 DEF Shape
<1>3. \A v \in 0 .. u - 1 : m.env[v] \in Results
  BY DEF Runs
<1>4. ValueAt(exp, m.env, l) = m.env[exp[l].num]
  <2> DEFINE ids == 0 .. u - 1
  <2>1. IsExpression(exp, ids) /\ \A v \in ids : m.env[v] \in Results
    BY <1>3
  <2> HIDE DEF ids
  <2> QED BY <2>1, ValueCases
<1>5. RunAll(m, R.entries, argv) = m
  BY <1>2, RunNone
<1> HIDE DEF R
<1> QED BY <1>2, <1>4, <1>5 DEF Evaluates, R

LEMMA NumberMeans ==
  ASSUME NEW u \in Nat, NEW exp, IsExpression(exp, 0 .. u - 1), NEW l \in 1 .. Len(exp),
         NEW from \in Nat, NEW given \in -1 .. u - 1, u <= from, exp[l].type = "num",
         NEW n \in Nat, AddObject(exp, l, given, from).next <= n,
         NEW argv \in Given, NEW m \in Runs(n), m.ret = NoReturn
  PROVE  Evaluates(exp, l, given, from, n, m, argv)
<1> DEFINE R == AddObject(exp, l, given, from)
           x == exp[l].num
           e == Entry("assign", R.id, -1, -1, x)
<1>1. Shape(exp, l, given, from)
  BY AddShape
<1>2. R.entries = <<e>> /\ R.next = (IF given = -1 THEN from + 1 ELSE from)
  <2>1. R.entries = <<e>>
    BY AddNumber
  <2>2. R.next = IF given = -1 THEN from + 1 ELSE from
    BY AddNumber
  <2> QED BY <2>1, <2>2
<1>3. /\ R.next \in Nat /\ R.next <= n /\ from <= R.next /\ R.id \in 0 .. R.next - 1
      /\ R.id = IF given = -1 THEN from ELSE given
  BY <1>1 DEF Shape
<1>4. x \in Values
  BY DEF IsExpression, Ops
<1>5. ValueAt(exp, m.env, l) = x
  <2> DEFINE ids == 0 .. u - 1
  <2>1. IsExpression(exp, ids) /\ \A v \in ids : m.env[v] \in Results
    <3>1. u <= n
      BY <1>3
    <3> QED BY <3>1 DEF Runs
  <2> HIDE DEF ids
  <2> QED BY <2>1, ValueCases
<1> HIDE DEF R
<1>6. e \in CodeOver(n) /\ R.id \in 0 .. n - 1
  BY <1>3, <1>4 DEF Entry, CodeOver
<1>7. RunAll(m, R.entries, argv) = RunEntry(m, e, argv)
  <2> HIDE DEF e
  <2> QED BY <1>2, <1>6, RunOne
<1>8. RunEntry(m, e, argv) = Assigned(m, R.id, x)
  BY DEF RunEntry, Entry
<1>9. x # NoValue /\ x \in Results
  BY <1>4, NoValueApart DEF Results
<1> HIDE DEF x
<1>10. /\ Assigned(m, R.id, x) \in Runs(n) /\ Assigned(m, R.id, x).ret = m.ret
       /\ Assigned(m, R.id, x).env[R.id] = x
       /\ \A v \in 0 .. n - 1 : v # R.id => Assigned(m, R.id, x).env[v] = m.env[v]
  BY <1>6, <1>9, AssignedRun
<1>11. \A v \in 0 .. n - 1 : v \notin from .. R.next - 1 /\ v # given => v # R.id
  BY <1>2, <1>3
<1>12. RunAll(m, AddObject(exp, l, given, from).entries, argv) = Assigned(m, R.id, x)
  BY <1>7, <1>8 DEF R
<1> HIDE DEF e
<1> QED BY <1>5, <1>9, <1>10, <1>11, <1>12 DEF Evaluates, R

\* The objects before k, as operands, mean what they should.
OperandsMean(exp, l, u, n, argv) ==
  \A j \in 1 .. Len(exp) : \A next \in Nat, m \in Runs(n) :
    /\ j < l /\ u <= next /\ AddObject(exp, j, -1, next).next <= n /\ m.ret = NoReturn
    => Evaluates(exp, j, -1, next, n, m, argv)

\* The step of the induction
LEMMA OperationMeans ==
  ASSUME NEW u \in Nat, NEW exp, IsExpression(exp, 0 .. u - 1), NEW l \in 1 .. Len(exp),
         NEW from \in Nat, NEW given \in -1 .. u - 1, u <= from, exp[l].type \in Ops,
         NEW n \in Nat, AddObject(exp, l, given, from).next <= n,
         NEW argv \in Given, NEW m \in Runs(n), m.ret = NoReturn,
         OperandsMean(exp, l, u, n, argv)
  PROVE  Evaluates(exp, l, given, from, n, m, argv)
<1> DEFINE R == AddObject(exp, l, given, from)
           e == exp[l]
           x == ValueAt(exp, m.env, l)
<1>a. PICK next, one, other : next \in Nat /\ OfOperands(exp, l, given, from, next, one, other)
  BY AddOperation
<1> next \in Nat
  BY <1>a
<1>1. /\ next = (IF given = -1 THEN from + 1 ELSE from)
      /\ First(e) \in 1 .. l - 1 /\ First(e) \in 1 .. Len(exp)
      /\ Second(e) \in 1 .. l - 1 /\ Second(e) \in 1 .. Len(exp)
      /\ one = AddObject(exp, First(e), -1, next)
      /\ Shape(exp, First(e), -1, next)
      /\ other = AddObject(exp, Second(e), -1, one.next)
      /\ Shape(exp, Second(e), -1, one.next)
      /\ R.entries = one.entries \o other.entries \o <<Operation(e.type, R.id, one.id, other.id)>>
      /\ R.next = other.next
      /\ R.id = IF given = -1 THEN from ELSE given
  BY <1>a, Zenon DEF OfOperands
<1> DEFINE a == First(e)
           b == Second(e)
           last == Operation(e.type, R.id, one.id, other.id)
<1>2. /\ one.next \in Nat /\ next <= one.next /\ one.id \in 0 .. one.next - 1
      /\ one.entries \in Seq(CodeOver(one.next))
  BY SMTT(30), <1>1 DEF Shape
<1>3. /\ other.next \in Nat /\ one.next <= other.next /\ other.id \in 0 .. other.next - 1
      /\ other.entries \in Seq(CodeOver(other.next))
  BY <1>1 DEF Shape
<1>4. /\ from <= next /\ u <= next /\ u <= one.next /\ one.next <= n /\ other.next <= n /\ u <= n
      /\ a < l /\ b < l /\ a \in 1 .. Len(exp) /\ b \in 1 .. Len(exp)
      /\ l \in Int
  <2>1. R.next <= n
    OBVIOUS
  <2>2. l \in Int
    BY DEF IsExpression
  <2> HIDE DEF R, a, b
  <2>3. next = (IF given = -1 THEN from + 1 ELSE from) /\ R.next = other.next
    BY <1>1
  <2> DEFINE p == one.next
             q == other.next
  <2>5. p \in Nat /\ q \in Nat /\ next <= p /\ p <= q /\ q <= n
    BY <1>2, <1>3, <2>1, <2>3
  <2>6. from <= next /\ u <= next /\ u <= p /\ p <= n /\ q <= n /\ u <= n
    <3> HIDE DEF p, q
    <3> QED BY <2>3, <2>5
  <2>4. a \in 1 .. l - 1 /\ b \in 1 .. l - 1 /\ a \in 1 .. Len(exp) /\ b \in 1 .. Len(exp)
    BY <1>1 DEF a, b
  <2> QED BY <2>2, <2>4, <2>6
<1>5. one.entries \in Seq(CodeOver(n)) /\ other.entries \in Seq(CodeOver(n))
  BY <1>2, <1>3, <1>4, CodeGrows
<1>6. R.id \in 0 .. n - 1 /\ one.id \in 0 .. n - 1 /\ other.id \in 0 .. n - 1
  <2>1. given # -1 => given \in 0 .. u - 1
    OBVIOUS
  <2> HIDE DEF R
  <2>2. R.id = (IF given = -1 THEN from ELSE given) /\ next = (IF given = -1 THEN from + 1 ELSE from)
    BY <1>1
  <2>3. next <= n /\ u <= n /\ (given = -1 => from \in 0 .. n - 1)
    <3>1. next <= n /\ u <= n
      BY <1>2, <1>4
    <3> QED BY <2>2, <3>1
  <2>4. R.id \in 0 .. n - 1
    BY <2>1, <2>2, <2>3
  <2>5. one.id \in 0 .. n - 1
    BY <1>2, <1>4
  <2>6. other.id \in 0 .. n - 1
    BY <1>3, <1>4
  <2> QED BY <2>4, <2>5, <2>6
<1>7. last \in CodeOver(n)
  <2> HIDE DEF R, e
  <2> QED BY <1>6 DEF Operation, Entry, CodeOver, e
<1> DEFINE m1 == RunAll(m, one.entries, argv)
           m2 == RunAll(m1, other.entries, argv)
           m3 == RunEntry(m2, last, argv)
<1>8. m1 \in Runs(n) /\ m2 \in Runs(n)
  BY <1>5, RunAllTyped
<1>9. RunAll(m, R.entries, argv) = m3
  <2> DEFINE es == one.entries \o other.entries
  <2>1. es \in Seq(CodeOver(n)) /\ <<last>> \in Seq(CodeOver(n))
    <3> HIDE DEF last
    <3> QED BY <1>5, <1>7
  <2>2. RunAll(m, es, argv) = m2
    BY <1>5, RunBoth
  <2>3. R.entries = es \o <<last>>
    BY <1>1
  <2> HIDE DEF es, last, m2, R
  <2>4. RunAll(m, es \o <<last>>, argv) = RunAll(m2, <<last>>, argv)
    BY <2>1, <2>2, RunBoth
  <2>5. RunAll(m2, <<last>>, argv) = m3
    BY <1>7, <1>8, RunOne DEF m3
  <2> QED BY <2>3, <2>4, <2>5
<1>10. Evaluates(exp, a, -1, next, n, m, argv)
  <2> HIDE DEF e
  <2> QED BY <1>1, <1>4 DEF OperandsMean
<1>11. /\ m1.ret = (IF exp[a].type # "var" /\ ValueAt(exp, m.env, a) = NoValue
                    THEN Stuck ELSE NoReturn)
       /\ m1.ret = NoReturn => m1.env[one.id] = ValueAt(exp, m.env, a)
       /\ \A v \in 0 .. n - 1 : v \notin next .. one.next - 1 => m1.env[v] = m.env[v]
  <2>1. \A v \in 0 .. n - 1 : v # -1
    OBVIOUS
  <2> QED BY <1>1, <1>10, <2>1 DEF Evaluates
<1>12. x = Computed(e.type, ValueAt(exp, m.env, e.left), ValueAt(exp, m.env, e.right))
  <2> DEFINE ids == 0 .. u - 1
  <2>1. IsExpression(exp, ids) /\ \A v \in ids : m.env[v] \in Results
    BY <1>4 DEF Runs
  <2> HIDE DEF ids
  <2> QED BY <2>1, ValueCases
<1>13. \A v \in 0 .. u - 1 : m.env[v] \in Results /\ m1.env[v] = m.env[v]
  <2> HIDE DEF m1
  <2> QED BY <1>4, <1>11 DEF Runs
<1>14. ValueAt(exp, m1.env, b) = ValueAt(exp, m.env, b)
  <2> DEFINE ids == 0 .. u - 1
  <2>1. IsExpression(exp, ids) /\ \A v \in ids : m.env[v] \in Results /\ m1.env[v] = m.env[v]
    BY <1>13
  <2> DEFINE before == m.env
             now == m1.env
  <2>2. \A v \in ids : before[v] \in Results /\ now[v] = before[v]
    BY <2>1
  <2> HIDE DEF ids, b, before, now
  <2>3. \A j \in 1 .. Len(exp) : ValueAt(exp, now, j) = ValueAt(exp, before, j)
    BY <2>1, <2>2, ValueAgrees
  <2> QED BY <1>4, <2>3 DEF before, now
<1>15. \/ a = e.left /\ b = e.right /\ left_first
       \/ a = e.right /\ b = e.left /\ ~left_first
  BY DEF First, Second
<1>16. \/ ValueAt(exp, m.env, a) = NoValue
       \/ ValueAt(exp, m.env, b) = NoValue
       => x = NoValue
  <2> HIDE DEF a, b, e, x
  <2> QED BY <1>12, <1>15 DEF Computed
<1>17. RunAll(m, R.entries, argv) \in Runs(n)
  BY <1>7, <1>8, <1>9, EntryRun
<1>18. e.type # "var"
  BY DEF Ops
<1>19. \A v \in 0 .. n - 1 : v \notin from .. R.next - 1 =>
         v \notin next .. one.next - 1 /\ v \notin one.next .. other.next - 1
  <2> DEFINE p == one.next
             q == other.next
  <2>1. p \in Nat /\ q \in Nat /\ next <= p /\ p <= q /\ from <= next
    BY <1>2, <1>3, <1>4
  <2>2. R.next = q
    BY <1>1
  <2> HIDE DEF R, p, q
  <2>3. \A v \in 0 .. n - 1 : v \notin from .. q - 1 => v \notin next .. p - 1 /\ v \notin p .. q - 1
    BY <2>1
  <2> QED BY <2>2, <2>3 DEF p, q
<1>20. CASE m1.ret # NoReturn
  <2>1. m1.ret = Stuck /\ ValueAt(exp, m.env, a) = NoValue
    <3> HIDE DEF m1, a
    <3> QED BY <1>11, <1>20
  <2>2. x = NoValue
    <3> HIDE DEF x, a, b
    <3> QED BY <1>16, <2>1
  <2>3. m2 = m1
    <3> HIDE DEF m1
    <3> QED BY <1>5, <1>8, <1>20, RunStopped
  <2>4. m3 = m1
    <3> HIDE DEF m1, m2, last
    <3> QED BY <1>20, <2>3 DEF RunEntry
  <2>5. RunAll(m, R.entries, argv) = m1
    BY <1>9, <2>4
  <2> HIDE DEF m1, m2, m3, R, x, e, a, b
  <2>6. \A v \in 0 .. n - 1 : v \notin from .. R.next - 1 => m1.env[v] = m.env[v]
    BY <1>11, <1>19
  <2> QED BY <1>17, <1>18, <2>1, <2>2, <2>5, <2>6, NoValueApart DEF Evaluates, R, x, e
<1>21. CASE m1.ret = NoReturn
  <2>1. Evaluates(exp, b, -1, one.next, n, m1, argv)
    <3> HIDE DEF m1, e
    <3> QED BY SMTT(30), <1>1, <1>2, <1>4, <1>8, <1>21 DEF OperandsMean
  <2>2. /\ m2.ret = (IF exp[b].type # "var" /\ ValueAt(exp, m.env, b) = NoValue
                     THEN Stuck ELSE NoReturn)
        /\ m2.ret = NoReturn => m2.env[other.id] = ValueAt(exp, m.env, b)
        /\ \A v \in 0 .. n - 1 : v \notin one.next .. other.next - 1 => m2.env[v] = m1.env[v]
    <3>1. \A v \in 0 .. n - 1 : v # -1
      OBVIOUS
    <3> HIDE DEF m1
    <3> QED BY <1>1, <1>14, <2>1, <3>1 DEF Evaluates
  <2>3. \A v \in 0 .. n - 1 : v \notin from .. R.next - 1 => m2.env[v] = m.env[v]
    <3> HIDE DEF m1, m2, R
    <3> QED BY <1>11, <1>19, <2>2
  <2>4. CASE m2.ret # NoReturn
    <3>1. m2.ret = Stuck /\ ValueAt(exp, m.env, b) = NoValue
      <4> HIDE DEF m2, b
      <4> QED BY <2>2, <2>4
    <3>2. x = NoValue
      <4> HIDE DEF x, a, b
      <4> QED BY <1>16, <3>1
    <3>3. m3 = m2
      <4> HIDE DEF m2, last
      <4> QED BY <2>4 DEF RunEntry
    <3>4. RunAll(m, R.entries, argv) = m2
      BY <1>9, <3>3
    <3> HIDE DEF m1, m2, m3, R, x, e, a, b
    <3> QED BY <1>17, <1>18, <2>3, <3>1, <3>2, <3>4, NoValueApart DEF Evaluates, R, x, e
  <2>5. CASE m2.ret = NoReturn
    <3>1. m2.env[one.id] = ValueAt(exp, m.env, a) /\ m2.env[other.id] = ValueAt(exp, m.env, b)
      <4>1. one.id \notin one.next .. other.next - 1
        BY <1>2
      <4> HIDE DEF m1, m2, a, b
      <4> QED BY <1>6, <1>11, <1>21, <2>2, <2>5, <4>1
    <3>2. /\ last.type = e.type /\ last.a = R.id
          /\ m2.env[last.b] = ValueAt(exp, m.env, e.left)
          /\ m2.env[last.c] = ValueAt(exp, m.env, e.right)
      <4> HIDE DEF m2, a, b, e, R
      <4> QED BY <1>15, <3>1 DEF Operation, Entry
    <3>3. m3 = Assigned(m2, R.id, x)
      <4>1. last.type \notin {"ret", "assign", "param"}
        BY <3>2 DEF Ops
      <4> HIDE DEF m2, last, e, R, x
      <4> QED BY <1>12, <2>5, <3>2, <4>1 DEF RunEntry
    <3>4. x \in Results
      <4> DEFINE ids == 0 .. u - 1
      <4>1. IsExpression(exp, ids) /\ \A v \in ids : m.env[v] \in Results
        BY <1>13
      <4> HIDE DEF ids
      <4> QED BY <4>1, ValueCases
    <3>5. /\ x = NoValue => m3.ret = Stuck /\ m3.env = m2.env
          /\ x # NoValue => /\ m3.ret = m2.ret /\ m3.env[R.id] = x
                            /\ \A v \in 0 .. n - 1 : v # R.id => m3.env[v] = m2.env[v]
      <4> DEFINE id == R.id
      <4>1. id \in 0 .. n - 1 /\ m3 = Assigned(m2, id, x)
        BY <1>6, <3>3
      <4> HIDE DEF m2, m3, x, id
      <4>2. /\ x = NoValue => Assigned(m2, id, x).ret = Stuck /\ Assigned(m2, id, x).env = m2.env
            /\ x # NoValue =>
                 /\ Assigned(m2, id, x).ret = m2.ret /\ Assigned(m2, id, x).env[id] = x
                 /\ \A v \in 0 .. n - 1 : v # id => Assigned(m2, id, x).env[v] = m2.env[v]
        BY <1>8, <3>4, <4>1, AssignedRun
      <4> QED BY <4>1, <4>2 DEF id
    <3>6. /\ m3.ret = (IF x = NoValue THEN Stuck ELSE NoReturn)
          /\ m3.ret = NoReturn => m3.env[R.id] = x
      <4> HIDE DEF m2, m3, R, x
      <4> QED BY <2>5, <3>5, NoValueApart
    <3>7. \A v \in 0 .. n - 1 : v \notin from .. R.next - 1 /\ (v = given => m3.ret # NoReturn) =>
            m3.env[v] = m.env[v]
      <4> HIDE DEF m2, m3, R, x
      <4>1. given = -1 => R.id \in from .. R.next - 1
        BY SMTT(30), <1>1, <1>2, <1>3, <1>4
      <4>2. R.id \in from .. R.next - 1 \/ R.id = given
        BY <1>1, <4>1
      <4> QED BY <2>3, <2>5, <3>5, <3>6, <4>2
    <3> HIDE DEF m1, m2, m3, R, x, e, a, b
    <3> QED BY <1>9, <1>17, <1>18, <3>6, <3>7 DEF Evaluates, R, x, e
  <2> QED BY <2>4, <2>5
<1> QED BY <1>20, <1>21

LEMMA AddMeans ==
  ASSUME NEW u \in Nat, NEW exp, IsExpression(exp, 0 .. u - 1), NEW n \in Nat,
         NEW argv \in Given
  PROVE  \A l \in 1 .. Len(exp) : \A from \in Nat, given \in -1 .. u - 1, m \in Runs(n) :
           /\ u <= from /\ AddObject(exp, l, given, from).next <= n /\ m.ret = NoReturn
           => Evaluates(exp, l, given, from, n, m, argv)
<1> DEFINE T == {l \in Nat : l \in 1 .. Len(exp) =>
             \A from \in Nat, given \in -1 .. u - 1, m \in Runs(n) :
               /\ u <= from /\ AddObject(exp, l, given, from).next <= n /\ m.ret = NoReturn
               => Evaluates(exp, l, given, from, n, m, argv)}
<1>1. Len(exp) \in Nat
  BY DEF IsExpression
<1>2. \A l \in Nat : (\A j \in Nat : j < l => j \in T) => l \in T
  <2> SUFFICES ASSUME NEW l \in 1 .. Len(exp), \A j \in Nat : j < l => j \in T,
                      NEW from \in Nat, NEW given \in -1 .. u - 1, NEW m \in Runs(n),
                      u <= from, AddObject(exp, l, given, from).next <= n, m.ret = NoReturn
               PROVE  Evaluates(exp, l, given, from, n, m, argv)
    BY <1>1
  <2>1. Shape(exp, l, given, from)
    BY AddShape
  <2>2. AddObject(exp, l, given, from).next \in Nat /\ from <= AddObject(exp, l, given, from).next
    BY <2>1 DEF Shape
  <2>3. from <= n
    BY <2>2
  <2>4. CASE exp[l].type = "var"
    BY <2>3, <2>4, VariableMeans
  <2>5. CASE exp[l].type = "num"
    BY <2>5, NumberMeans
  <2>6. CASE exp[l].type \in Ops
    <3>1. OperandsMean(exp, l, u, n, argv)
      <4>1. -1 \in -1 .. u - 1
        OBVIOUS
      <4> QED BY <4>1 DEF OperandsMean
    <3> HIDE DEF T
    <3> QED BY <2>6, <3>1, OperationMeans
  <2> QED BY <2>4, <2>5, <2>6 DEF IsExpression
<1>3. Nat \subseteq T
  <2> HIDE DEF T
  <2> QED BY <1>2, AllNumbersBelow
<1> QED BY <1>1, <1>3

-----------------------------------------------------------------------------
(***************************************************************************)
(* The temporaries of an expression.                                       *)
(***************************************************************************)
UsedOnce(es, t) ==
  \E w, r \in 1 .. Len(es) :
    /\ w < r
    /\ es[w].a = t /\ \A j \in 1 .. Len(es) : es[j].a = t => j = w
    /\ \A j \in 1 .. Len(es) : t \in {es[j].b, es[j].c} <=> j = r
    /\ es[r].b # es[r].c

Unused(es, t) == \A j \in 1 .. Len(es) : t \notin {es[j].a, es[j].b, es[j].c}

\* Written once and not read yet
Pending(es, t) ==
  \E w \in 1 .. Len(es) :
    /\ es[w].a = t /\ \A j \in 1 .. Len(es) : es[j].a = t => j = w
    /\ \A j \in 1 .. Len(es) : t \notin {es[j].b, es[j].c}

LEMMA UnusedBoth ==
  ASSUME NEW X, NEW es \in Seq(X), NEW fs \in Seq(X), NEW t, Unused(es, t), Unused(fs, t)
  PROVE  Unused(es \o fs, t)
<1>1. \A j \in 1 .. Len(es \o fs) :
        \/ j \in 1 .. Len(es) /\ (es \o fs)[j] = es[j]
        \/ j - Len(es) \in 1 .. Len(fs) /\ (es \o fs)[j] = fs[j - Len(es)]
  OBVIOUS
<1> DEFINE gs == es \o fs
<1> HIDE DEF gs
<1> QED BY <1>1 DEF Unused, gs

LEMMA UsedOnceBoth ==
  ASSUME NEW X, NEW es \in Seq(X), NEW fs \in Seq(X), NEW t, Unused(fs, t)
  PROVE  /\ UsedOnce(es, t) => UsedOnce(es \o fs, t)
         /\ UsedOnce(es, t) => UsedOnce(fs \o es, t)
         /\ Pending(es, t) => Pending(es \o fs, t)
         /\ Pending(es, t) => Pending(fs \o es, t)
<1> DEFINE gs == es \o fs
           hs == fs \o es
<1>1. Len(es) \in Nat /\ Len(fs) \in Nat
  OBVIOUS
<1>2. /\ \A j \in 1 .. Len(gs) :
           \/ j \in 1 .. Len(es) /\ gs[j] = es[j]
           \/ j \notin 1 .. Len(es) /\ j - Len(es) \in 1 .. Len(fs) /\ gs[j] = fs[j - Len(es)]
      /\ \A j \in 1 .. Len(es) : j \in 1 .. Len(gs) /\ gs[j] = es[j]
  OBVIOUS
<1>3. /\ \A j \in 1 .. Len(hs) :
           \/ j \in 1 .. Len(fs) /\ hs[j] = fs[j]
           \/ j \notin 1 .. Len(fs) /\ j - Len(fs) \in 1 .. Len(es) /\ hs[j] = es[j - Len(fs)]
      /\ \A j \in 1 .. Len(es) : Len(fs) + j \in 1 .. Len(hs) /\ hs[Len(fs) + j] = es[j]
      /\ \A j \in 1 .. Len(hs) : (j - Len(fs)) + Len(fs) = j
  OBVIOUS
<1> HIDE DEF gs, hs
<1>4. /\ \A j \in 1 .. Len(gs) : \/ j \in 1 .. Len(es) /\ gs[j] = es[j]
                                 \/ j \notin 1 .. Len(es) /\ t \notin {gs[j].a, gs[j].b, gs[j].c}
      /\ \A j \in 1 .. Len(hs) :
           \/ t \notin {hs[j].a, hs[j].b, hs[j].c} /\ j - Len(fs) \notin 1 .. Len(es)
           \/ j - Len(fs) \in 1 .. Len(es) /\ hs[j] = es[j - Len(fs)]
  <2>1. ASSUME NEW j \in 1 .. Len(gs)
        PROVE  \/ j \in 1 .. Len(es) /\ gs[j] = es[j]
               \/ j \notin 1 .. Len(es) /\ t \notin {gs[j].a, gs[j].b, gs[j].c}
    BY <1>2 DEF Unused
  <2>2. ASSUME NEW j \in 1 .. Len(hs)
        PROVE  \/ t \notin {hs[j].a, hs[j].b, hs[j].c} /\ j - Len(fs) \notin 1 .. Len(es)
               \/ j - Len(fs) \in 1 .. Len(es) /\ hs[j] = es[j - Len(fs)]
    <3>1. CASE j \in 1 .. Len(fs)
      BY <1>1, <1>3, <3>1 DEF Unused
    <3>2. CASE j - Len(fs) \in 1 .. Len(es) /\ hs[j] = es[j - Len(fs)]
      BY <3>2
    <3> QED BY <1>3, <2>2, <3>1, <3>2
  <2> QED BY <2>1, <2>2
<1>5. UsedOnce(es, t) => UsedOnce(gs, t)
  <2> SUFFICES ASSUME UsedOnce(es, t) PROVE UsedOnce(gs, t)
    OBVIOUS
  <2>1. PICK w, r \in 1 .. Len(es) :
          /\ w < r
          /\ es[w].a = t /\ \A j \in 1 .. Len(es) : es[j].a = t => j = w
          /\ \A j \in 1 .. Len(es) : t \in {es[j].b, es[j].c} <=> j = r
          /\ es[r].b # es[r].c
    BY DEF UsedOnce
  <2>2. w \in 1 .. Len(gs) /\ r \in 1 .. Len(gs) /\ gs[w] = es[w] /\ gs[r] = es[r]
    BY <1>2
  <2>3. \A j \in 1 .. Len(gs) : gs[j].a = t => j = w
    BY <1>4, <2>1
  <2>4. \A j \in 1 .. Len(gs) : t \in {gs[j].b, gs[j].c} <=> j = r
    BY <1>4, <2>1
  <2> QED BY <2>1, <2>2, <2>3, <2>4 DEF UsedOnce
<1>6. UsedOnce(es, t) => UsedOnce(hs, t)
  <2> SUFFICES ASSUME UsedOnce(es, t) PROVE UsedOnce(hs, t)
    OBVIOUS
  <2>1. PICK w, r \in 1 .. Len(es) :
          /\ w < r
          /\ es[w].a = t /\ \A j \in 1 .. Len(es) : es[j].a = t => j = w
          /\ \A j \in 1 .. Len(es) : t \in {es[j].b, es[j].c} <=> j = r
          /\ es[r].b # es[r].c
    BY DEF UsedOnce
  <2> DEFINE v == Len(fs) + w
             q == Len(fs) + r
  <2>2. v \in 1 .. Len(hs) /\ q \in 1 .. Len(hs) /\ hs[v] = es[w] /\ hs[q] = es[r]
    BY <1>3
  <2>3. /\ v < q
        /\ \A j \in 1 .. Len(hs) : (j - Len(fs) = w <=> j = v) /\ (j - Len(fs) = r <=> j = q)
    BY <1>1, <2>1
  <2> HIDE DEF v, q
  <2>4. \A j \in 1 .. Len(hs) : hs[j].a = t => j = v
    BY <1>4, <2>1, <2>3
  <2>5. \A j \in 1 .. Len(hs) : t \in {hs[j].b, hs[j].c} <=> j = q
    BY <1>4, <2>1, <2>3
  <2> QED BY <2>1, <2>2, <2>3, <2>4, <2>5 DEF UsedOnce
<1>7. Pending(es, t) => Pending(gs, t)
  <2> SUFFICES ASSUME Pending(es, t) PROVE Pending(gs, t)
    OBVIOUS
  <2>1. PICK w \in 1 .. Len(es) :
          /\ es[w].a = t /\ \A j \in 1 .. Len(es) : es[j].a = t => j = w
          /\ \A j \in 1 .. Len(es) : t \notin {es[j].b, es[j].c}
    BY DEF Pending
  <2>2. w \in 1 .. Len(gs) /\ gs[w] = es[w]
    BY <1>2
  <2>3. \A j \in 1 .. Len(gs) : (gs[j].a = t => j = w) /\ t \notin {gs[j].b, gs[j].c}
    BY <1>4, <2>1
  <2> QED BY <2>1, <2>2, <2>3 DEF Pending
<1>8. Pending(es, t) => Pending(hs, t)
  <2> SUFFICES ASSUME Pending(es, t) PROVE Pending(hs, t)
    OBVIOUS
  <2>1. PICK w \in 1 .. Len(es) :
          /\ es[w].a = t /\ \A j \in 1 .. Len(es) : es[j].a = t => j = w
          /\ \A j \in 1 .. Len(es) : t \notin {es[j].b, es[j].c}
    BY DEF Pending
  <2> DEFINE v == Len(fs) + w
  <2>2. v \in 1 .. Len(hs) /\ hs[v] = es[w] /\ \A j \in 1 .. Len(hs) : j - Len(fs) = w <=> j = v
    BY <1>1, <1>3
  <2> HIDE DEF v
  <2>3. \A j \in 1 .. Len(hs) : (hs[j].a = t => j = v) /\ t \notin {hs[j].b, hs[j].c}
    BY <1>4, <2>1, <2>2
  <2> QED BY <2>1, <2>2, <2>3 DEF Pending
<1> QED BY <1>5, <1>6, <1>7, <1>8 DEF gs, hs

\* An entry that reads what is pending, and one that writes something new
LEMMA PendingRead ==
  ASSUME NEW X, NEW es \in Seq(X), NEW e \in X, NEW t
  PROVE  /\ Pending(es, t) /\ e.a # t /\ t \in {e.b, e.c} /\ e.b # e.c => UsedOnce(es \o <<e>>, t)
         /\ Unused(es, t) /\ e.a = t /\ t \notin {e.b, e.c} => Pending(es \o <<e>>, t)
<1> DEFINE gs == es \o <<e>>
<1>1. /\ Len(es) \in Nat /\ Len(gs) = Len(es) + 1 /\ gs[Len(gs)] = e
      /\ \A j \in 1 .. Len(es) : j \in 1 .. Len(gs) /\ gs[j] = es[j] /\ j < Len(gs)
      /\ \A j \in 1 .. Len(gs) : j = Len(gs) \/ j \in 1 .. Len(es)
      /\ Len(gs) \in 1 .. Len(gs)
  OBVIOUS
<1> HIDE DEF gs
<1>2. ASSUME Pending(es, t), e.a # t, t \in {e.b, e.c}, e.b # e.c PROVE UsedOnce(gs, t)
  <2>1. PICK w \in 1 .. Len(es) :
          /\ es[w].a = t /\ \A j \in 1 .. Len(es) : es[j].a = t => j = w
          /\ \A j \in 1 .. Len(es) : t \notin {es[j].b, es[j].c}
    BY <1>2 DEF Pending
  <2>2. \A j \in 1 .. Len(gs) : (gs[j].a = t => j = w) /\ (t \in {gs[j].b, gs[j].c} <=> j = Len(gs))
    BY <1>1, <1>2, <2>1
  <2> QED BY <1>1, <1>2, <2>1, <2>2 DEF UsedOnce
<1>3. ASSUME Unused(es, t), e.a = t, t \notin {e.b, e.c} PROVE Pending(gs, t)
  <2>1. \A j \in 1 .. Len(gs) : (gs[j].a = t => j = Len(gs)) /\ t \notin {gs[j].b, gs[j].c}
    BY <1>1, <1>3 DEF Unused
  <2> QED BY <1>1, <1>3, <2>1 DEF Pending
<1> QED BY <1>2, <1>3 DEF gs

\* What the entries of the object at k do with temporaries, t is one when it
\* is u or more: every one they take is written once and then read once, but
\* the one that holds the value is not read yet.
OneUseEach(exp, l, given, from, u) ==
  LET added == AddObject(exp, l, given, from) IN
  /\ \A t \in Nat : u <= t /\ t \notin from .. added.next - 1 => Unused(added.entries, t)
  /\ \A t \in from .. added.next - 1 : t # added.id => UsedOnce(added.entries, t)
  /\ given = -1 /\ exp[l].type # "var" => Pending(added.entries, added.id)

LEMMA VariableTemps ==
  ASSUME NEW u \in Nat, NEW exp, IsExpression(exp, 0 .. u - 1), NEW l \in 1 .. Len(exp),
         NEW from \in Nat, NEW given \in -1 .. u - 1, u <= from, exp[l].type = "var"
  PROVE  OneUseEach(exp, l, given, from, u)
<1> DEFINE R == AddObject(exp, l, given, from)
<1>1. Shape(exp, l, given, from)
  BY AddShape
<1>2. R.entries = <<>> /\ R.next = from
  BY <1>1 DEF Shape
<1> HIDE DEF R
<1>3. Len(R.entries) = 0
  BY <1>2
<1>4. \A t : Unused(R.entries, t)
  BY <1>3 DEF Unused
<1>5. from .. R.next - 1 = {}
  BY <1>2
<1> QED BY <1>4, <1>5 DEF OneUseEach, R

LEMMA NumberTemps ==
  ASSUME NEW u \in Nat, NEW exp, IsExpression(exp, 0 .. u - 1), NEW l \in 1 .. Len(exp),
         NEW from \in Nat, NEW given \in -1 .. u - 1, u <= from, exp[l].type = "num"
  PROVE  OneUseEach(exp, l, given, from, u)
<1> DEFINE R == AddObject(exp, l, given, from)
           e == Entry("assign", R.id, -1, -1, exp[l].num)
<1>1. Shape(exp, l, given, from)
  BY AddShape
<1>2. R.entries = <<e>> /\ R.next = (IF given = -1 THEN from + 1 ELSE from)
  <2>1. R.entries = <<e>>
    BY AddNumber
  <2>2. R.next = IF given = -1 THEN from + 1 ELSE from
    BY AddNumber
  <2> QED BY <2>1, <2>2
<1>3. R.id = IF given = -1 THEN from ELSE given
  BY <1>1 DEF Shape
<1>4. e.a = R.id /\ e.b = -1 /\ e.c = -1
  BY DEF Entry
<1> HIDE DEF R, e
<1>5. Len(R.entries) = 1 /\ R.entries[1] = e
  BY <1>2
<1>6. ASSUME NEW t \in Nat, u <= t, t \notin from .. R.next - 1 PROVE Unused(R.entries, t)
  <2>1. t # R.id /\ t # -1
    BY <1>2, <1>3, <1>6
  <2> QED BY <1>4, <1>5, <2>1 DEF Unused
<1>7. ASSUME NEW t \in from .. R.next - 1 PROVE t = R.id
  BY <1>2, <1>3
<1>8. given = -1 => Pending(R.entries, R.id)
  BY <1>3, <1>4, <1>5 DEF Pending
<1> QED BY <1>6, <1>7, <1>8 DEF OneUseEach, R

LEMMA OperationTemps ==
  ASSUME NEW u \in Nat, NEW exp, IsExpression(exp, 0 .. u - 1), NEW l \in 1 .. Len(exp),
         NEW from \in Nat, NEW given \in -1 .. u - 1, u <= from, exp[l].type \in Ops,
         \A j \in 1 .. Len(exp) : \A next \in Nat :
           j < l /\ u <= next => OneUseEach(exp, j, -1, next, u)
  PROVE  OneUseEach(exp, l, given, from, u)
<1> DEFINE R == AddObject(exp, l, given, from)
           e == exp[l]
           a == First(e)
           b == Second(e)
<1>1. PICK n, one, other : n \in Nat /\ OfOperands(exp, l, given, from, n, one, other)
  BY AddOperation
<1> DEFINE last == Operation(e.type, R.id, one.id, other.id)
           es == one.entries
           fs == other.entries
           p == one.next
           q == other.next
           x == one.id
           y == other.id
<1>2. /\ n = (IF given = -1 THEN from + 1 ELSE from)
      /\ a \in 1 .. l - 1 /\ a \in 1 .. Len(exp) /\ b \in 1 .. l - 1 /\ b \in 1 .. Len(exp)
      /\ one = AddObject(exp, a, -1, n) /\ Shape(exp, a, -1, n)
      /\ other = AddObject(exp, b, -1, p) /\ Shape(exp, b, -1, p)
      /\ R.entries = es \o fs \o <<last>>
      /\ R.next = q /\ R.id = IF given = -1 THEN from ELSE given
  BY <1>1, Zenon DEF OfOperands
<1>3. /\ p \in Nat /\ n <= p /\ x \in 0 .. p - 1 /\ es \in Seq(CodeOver(p))
      /\ exp[a].type = "var" => x = exp[a].num
      /\ exp[a].type # "var" => x = n /\ n < p
  BY SMTT(30), <1>2 DEF Shape
<1>4. /\ q \in Nat /\ p <= q /\ y \in 0 .. q - 1 /\ fs \in Seq(CodeOver(q))
      /\ exp[b].type = "var" => y = exp[b].num
      /\ exp[b].type # "var" => y = p /\ p < q
  <2> HIDE DEF p, q, y, fs
  <2> QED BY <1>2 DEF Shape, p, q, y, fs
<1>5. \A j \in 1 .. Len(exp) : exp[j].type = "var" => exp[j].num \in 0 .. u - 1
  BY DEF IsExpression, Ops
<1>6. u <= n /\ u <= p /\ a < l /\ b < l
  <2>1. l \in Int
    BY DEF IsExpression
  <2> HIDE DEF a, b, p
  <2> QED BY <1>2, <1>3, <2>1
<1>7. OneUseEach(exp, a, -1, n, u) /\ OneUseEach(exp, b, -1, p, u)
  <2> HIDE DEF a, b, p
  <2> QED BY <1>2, <1>3, <1>6
<1>8. /\ \A t \in Nat : u <= t /\ t \notin n .. p - 1 => Unused(es, t)
      /\ \A t \in n .. p - 1 : t # x => UsedOnce(es, t)
      /\ exp[a].type # "var" => Pending(es, x)
  BY <1>2, <1>7 DEF OneUseEach
<1>9. /\ \A t \in Nat : u <= t /\ t \notin p .. q - 1 => Unused(fs, t)
      /\ \A t \in p .. q - 1 : t # y => UsedOnce(fs, t)
      /\ exp[b].type # "var" => Pending(fs, y)
  <2> HIDE DEF p, q, y, fs
  <2> QED BY <1>2, <1>7 DEF OneUseEach, p, q, y, fs
<1>10. last.a = R.id /\ {last.b, last.c} = {x, y} /\ (x # y => last.b # last.c)
  <2> HIDE DEF R, x, y, e
  <2> QED BY DEF Operation, Entry, x, y
<1>11. \A t \in Nat : u <= t /\ t \notin from .. q - 1 => t # R.id
  <2> HIDE DEF R, q
  <2> QED BY <1>2, <1>3, <1>4
<1>12. es \in Seq(CodeOver(q)) /\ last \in CodeOver(q)
  <2>1. es \in Seq(CodeOver(q))
    BY <1>3, <1>4, CodeGrows
  <2>2. R.id \in 0 .. q - 1 /\ x \in 0 .. q - 1
    <3> HIDE DEF R, p, q, x
    <3>1. given # -1 => given \in 0 .. u - 1
      OBVIOUS
    <3> QED BY <1>2, <1>3, <1>4, <1>6, <3>1
  <2>3. last \in CodeOver(q)
    <3> HIDE DEF R, q, x, e
    <3> QED BY <1>4, <2>2 DEF Operation, Entry, CodeOver, x, e
  <2> QED BY <2>1, <2>3
<1> DEFINE gs == es \o fs
           X == CodeOver(q)
<1>13. gs \in Seq(X) /\ es \in Seq(X) /\ fs \in Seq(X) /\ <<last>> \in Seq(X) /\ last \in X
  <2> HIDE DEF last, es, fs, q
  <2> QED BY <1>4, <1>12
<1>14. \A t : t # R.id /\ t # x /\ t # y => Unused(<<last>>, t)
  <2> DEFINE ls == <<last>>
  <2>1. Len(ls) = 1 /\ ls[1] = last
    OBVIOUS
  <2> HIDE DEF last, x, y, R, ls
  <2>2. ASSUME NEW t, t # R.id, t # x, t # y PROVE t \notin {last.a, last.b, last.c}
    BY <1>10, <2>2
  <2>3. \A t : t \notin {last.a, last.b, last.c} => Unused(ls, t)
    BY <2>1 DEF Unused
  <2> QED BY <2>2, <2>3 DEF ls
<1>15. n \in Nat /\ from <= n
  BY <1>2
<1>b. \A t \in Nat : u <= t => (t = x => t \in n .. p - 1) /\ (t = y => t \in p .. q - 1)
  <2> HIDE DEF x, y, p, q, a, b
  <2> QED BY <1>2, <1>3, <1>4, <1>5, <1>15
<1> HIDE DEF es, fs, last, x, y, p, q, X, a, b, R
<1>16. ASSUME NEW t \in Nat, u <= t, t \notin from .. q - 1 PROVE Unused(gs \o <<last>>, t)
  <2>1. t \notin n .. p - 1 /\ t \notin p .. q - 1
    BY <1>3, <1>4, <1>15, <1>16
  <2>2. Unused(es, t) /\ Unused(fs, t)
    BY <1>8, <1>9, <1>16, <2>1
  <2>3. Unused(gs, t)
    BY <1>13, <2>2, UnusedBoth
  <2>4. Unused(<<last>>, t)
    BY <1>11, <1>14, <1>16, <1>b, <2>1
  <2> HIDE DEF gs
  <2> QED BY <1>13, <2>3, <2>4, UnusedBoth
<1>17. ASSUME NEW t \in from .. q - 1, t # R.id PROVE UsedOnce(gs \o <<last>>, t)
  <2>1. t \in Nat /\ u <= t /\ (t \in n .. p - 1 \/ t \in p .. q - 1)
    BY <1>2, <1>3, <1>4, <1>15, <1>17
  <2>2. CASE t \in n .. p - 1
    <3>1. t \notin p .. q - 1
      BY <1>3, <1>4, <2>2
    <3>2. Unused(fs, t) /\ t # y
      BY <1>9, <1>b, <2>1, <3>1
    <3>3. CASE t = x
      <4>1. exp[a].type # "var"
        BY <1>2, <1>3, <1>5, <2>1, <3>3
      <4>2. Pending(gs, t)
        BY <1>8, <1>13, <3>2, <3>3, <4>1, UsedOnceBoth
      <4>3. last.a # t /\ t \in {last.b, last.c} /\ last.b # last.c
        BY <1>10, <1>17, <3>2, <3>3
      <4> HIDE DEF gs
      <4> QED BY <1>13, <4>2, <4>3, PendingRead
    <3>4. CASE t # x
      <4>1. UsedOnce(gs, t)
        BY <1>8, <1>13, <2>2, <3>2, <3>4, UsedOnceBoth
      <4>2. Unused(<<last>>, t)
        BY <1>14, <1>17, <3>2, <3>4
      <4> HIDE DEF gs
      <4> QED BY <1>13, <4>1, <4>2, UsedOnceBoth
    <3> QED BY <3>3, <3>4
  <2>3. CASE t \in p .. q - 1
    <3>1. t \notin n .. p - 1
      BY <1>3, <1>4, <1>15, <2>3
    <3>2. Unused(es, t) /\ t # x
      BY <1>8, <1>b, <2>1, <3>1
    <3>3. CASE t = y
      <4>1. exp[b].type # "var"
        BY <1>2, <1>4, <1>5, <2>1, <3>3
      <4>2. Pending(gs, t)
        BY <1>9, <1>13, <3>2, <3>3, <4>1, UsedOnceBoth
      <4>3. last.a # t /\ t \in {last.b, last.c} /\ last.b # last.c
        BY <1>10, <1>17, <3>2, <3>3
      <4> HIDE DEF gs
      <4> QED BY <1>13, <4>2, <4>3, PendingRead
    <3>4. CASE t # y
      <4>1. UsedOnce(gs, t)
        BY <1>9, <1>13, <2>3, <3>2, <3>4, UsedOnceBoth
      <4>2. Unused(<<last>>, t)
        BY <1>14, <1>17, <3>2, <3>4
      <4> HIDE DEF gs
      <4> QED BY <1>13, <4>1, <4>2, UsedOnceBoth
    <3> QED BY <3>3, <3>4
  <2> QED BY <2>1, <2>2, <2>3
<1>18. ASSUME given = -1 PROVE Pending(gs \o <<last>>, R.id)
  <2>1. R.id = from /\ n = from + 1 /\ from \in Nat
    BY <1>2, <1>18
  <2>2. from \notin n .. p - 1 /\ from \notin p .. q - 1
    BY <1>3, <1>4, <2>1
  <2>3. Unused(es, from) /\ Unused(fs, from) /\ from # x /\ from # y
    BY <1>8, <1>9, <1>b, <2>2
  <2>4. Unused(gs, from)
    BY <1>13, <2>3, UnusedBoth
  <2>5. last.a = from /\ from \notin {last.b, last.c}
    BY <1>10, <2>1, <2>3
  <2> HIDE DEF gs
  <2> QED BY <1>13, <2>1, <2>4, <2>5, PendingRead
<1>19. /\ R.entries = gs \o <<last>> /\ R.next = q
  BY <1>2
<1> HIDE DEF gs
<1> QED BY <1>16, <1>17, <1>18, <1>19 DEF OneUseEach, R

LEMMA AddTemps ==
  ASSUME NEW u \in Nat, NEW exp, IsExpression(exp, 0 .. u - 1)
  PROVE  \A l \in 1 .. Len(exp) : \A from \in Nat, given \in -1 .. u - 1 :
           u <= from => OneUseEach(exp, l, given, from, u)
<1> DEFINE T == {l \in Nat : l \in 1 .. Len(exp) =>
             \A from \in Nat, given \in -1 .. u - 1 :
               u <= from => OneUseEach(exp, l, given, from, u)}
<1>1. Len(exp) \in Nat
  BY DEF IsExpression
<1>2. \A l \in Nat : (\A j \in Nat : j < l => j \in T) => l \in T
  <2> SUFFICES ASSUME NEW l \in 1 .. Len(exp), \A j \in Nat : j < l => j \in T,
                      NEW from \in Nat, NEW given \in -1 .. u - 1, u <= from
               PROVE  OneUseEach(exp, l, given, from, u)
    BY <1>1
  <2>1. CASE exp[l].type = "var"
    BY <2>1, VariableTemps
  <2>2. CASE exp[l].type = "num"
    BY <2>2, NumberTemps
  <2>3. CASE exp[l].type \in Ops
    <3>1. \A j \in 1 .. Len(exp) : \A next \in Nat :
            j < l /\ u <= next => OneUseEach(exp, j, -1, next, u)
      <4>1. -1 \in -1 .. u - 1
        OBVIOUS
      <4> QED BY <4>1
    <3> HIDE DEF T
    <3> QED BY <2>3, <3>1, OperationTemps
  <2> QED BY <2>1, <2>2, <2>3 DEF IsExpression
<1>3. Nat \subseteq T
  <2> HIDE DEF T
  <2> QED BY <1>2, AllNumbersBelow
<1> QED BY <1>1, <1>3

-----------------------------------------------------------------------------
(***************************************************************************)
(* What a function means, statement by statement.                          *)
(***************************************************************************)

\* The next run, from the run before parameter or statement j
RunStep(f, argv, m, j) ==
  IF j <= Len(f.params) THEN Assigned(m, f.params[j], argv[j - 1])
  ELSE RunStatement(m, f.statements[j - Len(f.params)])

LEMMA StatementRun ==
  ASSUME NEW u \in Nat, NEW m \in Runs(u), NEW stmt, IsStatement(stmt, 0 .. u - 1)
  PROVE  RunStatement(m, stmt) \in Runs(u)
<1> DEFINE x == ValueOf(stmt.exp, m.env)
<1>1. x \in Results
  <2> DEFINE ids == 0 .. u - 1
  <2>1. IsExpression(stmt.exp, ids) /\ \A v \in ids : m.env[v] \in Results
    BY DEF IsStatement, Runs
  <2>2. Len(stmt.exp) \in 1 .. Len(stmt.exp)
    BY <2>1 DEF IsExpression
  <2> HIDE DEF ids
  <2> QED BY <2>1, <2>2, ValueCases DEF ValueOf
<1> HIDE DEF x
<1>2. Answered(m, x) \in Runs(u)
  BY <1>1, AnsweredRun
<1>3. stmt.type = "decl" => Assigned(m, stmt.var, x) \in Runs(u)
  BY <1>1, AssignedRun DEF IsStatement
<1> QED BY <1>2, <1>3 DEF RunStatement, IsStatement, x

LEMMA FunctionParts ==
  ASSUME NEW f, IsFunction(f)
  PROVE  /\ f.n_user \in Nat /\ Len(f.params) \in Nat /\ Len(f.statements) \in Nat
         /\ Count(f) \in Nat /\ Len(f.params) <= MaxParams
         /\ \A j \in 1 .. Len(f.params) : f.params[j] \in 0 .. f.n_user - 1
         /\ \A j \in 1 .. Len(f.statements) : IsStatement(f.statements[j], 0 .. f.n_user - 1)
         /\ \A j \in 1 .. Count(f) :
              \/ j \in 1 .. Len(f.params) /\ j - 1 \in 0 .. MaxParams - 1
              \/ j > Len(f.params) /\ j - Len(f.params) \in 1 .. Len(f.statements)
<1>1. /\ f.n_user \in Nat /\ Len(f.params) \in 0 .. MaxParams /\ Len(f.statements) \in Nat
      /\ \A j \in 1 .. Len(f.params) : f.params[j] \in 0 .. f.n_user - 1
      /\ \A j \in 1 .. Len(f.statements) : IsStatement(f.statements[j], 0 .. f.n_user - 1)
  BY DEF IsFunction
<1> DEFINE p == Len(f.params)
           q == Len(f.statements)
<1>2. Count(f) = p + q /\ p \in 0 .. MaxParams /\ q \in Nat /\ MaxParams \in Nat
  BY <1>1 DEF Count, MaxParams
<1> HIDE DEF p, q
<1>3. /\ p \in Nat /\ p + q \in Nat /\ p <= MaxParams
      /\ \A j \in 1 .. p + q : \/ j \in 1 .. p /\ j - 1 \in 0 .. MaxParams - 1
                               \/ j > p /\ j - p \in 1 .. q
  BY <1>2
<1> QED BY <1>1, <1>2, <1>3 DEF p, q

LEMMA RunStepTyped ==
  ASSUME NEW f, IsFunction(f), NEW argv \in Given, NEW j \in 1 .. Count(f),
         NEW m \in Runs(f.n_user)
  PROVE  /\ RunStep(f, argv, m, j) \in Runs(f.n_user)
         /\ j <= Len(f.params) => RunStep(f, argv, m, j).ret = m.ret
<1>1. CASE j <= Len(f.params)
  <2>1. f.params[j] \in 0 .. f.n_user - 1 /\ argv[j - 1] \in Values
    <3>1. f.params[j] \in 0 .. f.n_user - 1
      <4>1. \A p \in 1 .. Len(f.params) : f.params[p] \in 0 .. f.n_user - 1
        BY FunctionParts
      <4>2. j \in 1 .. Len(f.params)
        BY <1>1, FunctionParts
      <4> QED BY <4>1, <4>2
    <3>2. j - 1 \in 0 .. MaxParams - 1
      BY <1>1, FunctionParts
    <3> QED BY <3>1, <3>2 DEF Given
  <2>2. argv[j - 1] \in Results /\ argv[j - 1] # NoValue
    BY <2>1, NoValueApart DEF Results
  <2>3. f.n_user \in Nat
    BY FunctionParts
  <2> QED BY <1>1, <2>1, <2>2, <2>3, AssignedRun DEF RunStep
<1>2. CASE ~(j <= Len(f.params))
  BY <1>2, FunctionParts, StatementRun DEF RunStep
<1> QED BY <1>1, <1>2

LEMMA UnwrittenRun ==
  ASSUME NEW n \in Nat
  PROVE  Unwritten(0 .. n - 1) \in Runs(n) /\ Unwritten(0 .. n - 1).ret = NoReturn
BY DEF Unwritten, Runs, Results

LEMMA RunOfDefined ==
  ASSUME NEW f, IsFunction(f), NEW argv \in Given
  PROVE  /\ RunOf(f, argv, 0) = Unwritten(0 .. f.n_user - 1)
         /\ \A j \in 0 .. Count(f) : RunOf(f, argv, j) \in Runs(f.n_user)
         /\ \A j \in 1 .. Count(f) : RunOf(f, argv, j) = RunStep(f, argv, RunOf(f, argv, j - 1), j)
         /\ \A j \in 0 .. Len(f.params) : RunOf(f, argv, j).ret = NoReturn
<1> DEFINE V == Runs(f.n_user)
           S == 0 .. Count(f)
           m0 == Unwritten(0 .. f.n_user - 1)
           After(g, j) == IF j = 0 THEN m0 ELSE RunStep(f, argv, g[j - 1], j)
           run == CHOOSE g : g = [j \in S |-> After(g, j)]
           rank == [j \in S |-> j]
           F == [g \in [S -> V] |-> [j \in S |-> After(g, j)]]
<1>1. /\ Count(f) \in Nat /\ Len(f.params) \in Nat /\ Len(f.params) <= Count(f)
      /\ \A j \in S : j # 0 => j \in 1 .. Count(f) /\ j - 1 \in S /\ j - 1 < j
  <2>1. Count(f) \in Nat /\ Len(f.params) \in Nat /\ Len(f.statements) \in Nat
    BY FunctionParts
  <2> DEFINE p == Len(f.params)
             q == Len(f.statements)
             N == Count(f)
  <2>2. N = p + q
    BY DEF Count
  <2>3. N \in Nat /\ p \in Nat /\ q \in Nat
    BY <2>1
  <2> HIDE DEF p, q, N
  <2>4. N \in Nat /\ p \in Nat /\ p <= N /\ \A j \in 0 .. N : j # 0 => j \in 1 .. N /\ j - 1 \in 0 .. N /\ j - 1 < j
    BY <2>2, <2>3
  <2> QED BY <2>4 DEF p, N
<1>2. m0 \in V /\ m0.ret = NoReturn
  BY FunctionParts, UnwrittenRun
<1>3. \A g \in [S -> V] : \A j \in S : After(g, j) \in V
  <2> SUFFICES ASSUME NEW g \in [S -> V], NEW j \in S PROVE After(g, j) \in V
    OBVIOUS
  <2>1. CASE j = 0
    BY <1>2, <2>1
  <2>2. CASE j # 0
    <3>1. g[j - 1] \in V /\ j \in 1 .. Count(f)
      <4> HIDE DEF S, V
      <4> QED BY <1>1, <2>2
    <3>2. RunStep(f, argv, g[j - 1], j) \in V
      BY <3>1, RunStepTyped
    <3> QED BY <2>2, <3>2
  <2> QED BY <2>1, <2>2
<1>4. F \in [[S -> V] -> [S -> V]]
  <2> HIDE DEF S, V, After
  <2> QED BY <1>3
<1>5. \A g, h \in [S -> V] : \A j \in S :
        (\A y \in S : rank[y] < rank[j] => g[y] = h[y]) => F[g][j] = F[h][j]
  <2> SUFFICES ASSUME NEW g \in [S -> V], NEW h \in [S -> V], NEW j \in S,
                      \A y \in S : y < j => g[y] = h[y]
               PROVE  After(g, j) = After(h, j)
    <3> HIDE DEF S, V, After
    <3> QED OBVIOUS
  <2> HIDE DEF S, V, m0
  <2>1. j # 0 => g[j - 1] = h[j - 1]
    BY <1>1
  <2> QED BY <2>1
<1>6. Recursive(S, V, rank, Count(f) + 1, F)
  <2>1. rank \in [S -> Nat] /\ \A j \in S : rank[j] < Count(f) + 1
    BY <1>1
  <2>2. [S -> V] # {}
    <3> HIDE DEF S, V, m0
    <3>1. [j \in S |-> m0] \in [S -> V]
      BY <1>2
    <3> QED BY <3>1
  <2>3. Count(f) + 1 \in Nat
    BY <1>1
  <2> HIDE DEF S, V, rank, F, run, After
  <2> QED BY <1>4, <1>5, <2>1, <2>2, <2>3, Zenon DEF Recursive
<1>7. \E g \in [S -> V] : F[g] = g
  <2> HIDE DEF S, V, rank, F
  <2> QED BY <1>6, RecursiveFunction
<1>8. PICK g \in [S -> V] : g = [j \in S |-> After(g, j)]
  <2> HIDE DEF S, V, After
  <2> QED BY <1>7
<1>9. run = [j \in S |-> After(run, j)]
  <2> HIDE DEF S, After
  <2> QED BY <1>8
<1>10. \A j \in S : RunOf(f, argv, j) = run[j]
  BY DEF RunOf, RunStep
<1> HIDE DEF run
<1>11. \A j \in S : run[j] = After(run, j)
  <2> HIDE DEF S, After
  <2> QED BY <1>9
<1>12. \A j \in S : run[j] \in V /\ (j <= Len(f.params) => run[j].ret = NoReturn)
  <2> DEFINE T == {j \in Nat : j \in S => run[j] \in V /\ (j <= Len(f.params) => run[j].ret = NoReturn)}
  <2>1. 0 \in T
    BY <1>2, <1>11
  <2>2. \A j \in Nat : j \in T => j + 1 \in T
    <3> SUFFICES ASSUME NEW j \in Nat, j \in T, j + 1 \in S
                 PROVE  /\ run[j + 1] \in V
                        /\ j + 1 <= Len(f.params) => run[j + 1].ret = NoReturn
      OBVIOUS
    <3>1. j \in S /\ j + 1 \in 1 .. Count(f) /\ (j + 1) - 1 = j /\ j + 1 # 0
          /\ (j + 1 <= Len(f.params) => j <= Len(f.params))
      BY <1>1
    <3>2. run[j] \in V /\ (j <= Len(f.params) => run[j].ret = NoReturn)
      BY <3>1
    <3>3. run[j + 1] = RunStep(f, argv, run[j], j + 1)
      <4> HIDE DEF S, m0, T
      <4> QED BY <1>11, <3>1
    <3> HIDE DEF T, S
    <3> QED BY <3>1, <3>2, <3>3, RunStepTyped
  <2>3. Nat \subseteq T
    <3> HIDE DEF T
    <3> QED BY <2>1, <2>2, AllNumbers
  <2> QED BY <1>1, <2>3
<1>13. \A j \in 1 .. Count(f) : j \in S /\ j - 1 \in S /\ j # 0
  BY <1>1
<1>14. \A j \in 1 .. Count(f) : RunOf(f, argv, j) = RunStep(f, argv, RunOf(f, argv, j - 1), j)
  <2> HIDE DEF S, m0
  <2> QED BY <1>10, <1>11, <1>13
<1>15. 0 \in S /\ \A j \in 0 .. Len(f.params) : j \in S
  BY <1>1
<1>16. RunOf(f, argv, 0) = m0
  <2> HIDE DEF S, m0
  <2> QED BY <1>10, <1>11, <1>15
<1> QED BY <1>10, <1>12, <1>14, <1>15, <1>16

-----------------------------------------------------------------------------
(***************************************************************************)
(* The steps of the constructor: what the entries mean.                    *)
(***************************************************************************)

\* The runs m of the entries and src of the statements have come to the same.
Agrees(m, src, u) == m.ret = src.ret /\ \A v \in 0 .. u - 1 : m.env[v] = src.env[v]

\* The entries mean what the first j parameters and statements of f mean, and
\* go on to do so when there are more variables.
MeansSoFar(f, es, next, j) ==
  \A argv \in Given : \A n \in Nat :
    next <= n => Agrees(RunAll(Unwritten(0 .. n - 1), es, argv), RunOf(f, argv, j), f.n_user)

LEMMA ParamMeans ==
  ASSUME NEW f, IsFunction(f), NEW j \in Nat, j < Len(f.params),
         NEW next \in Nat, f.n_user <= next,
         NEW es \in Seq(CodeOver(next)), MeansSoFar(f, es, next, j)
  PROVE  /\ Entry("param", f.params[j + 1], -1, -1, j) \in CodeOver(next)
         /\ MeansSoFar(f, es \o <<Entry("param", f.params[j + 1], -1, -1, j)>>, next, j + 1)
<1> DEFINE v == f.params[j + 1]
           e == Entry("param", v, -1, -1, j)
           u == f.n_user
<1>1. /\ u \in Nat /\ v \in 0 .. u - 1 /\ j \in 0 .. MaxParams - 1
      /\ j + 1 \in 1 .. Count(f) /\ j + 1 <= Len(f.params) /\ (j + 1) - 1 = j
      /\ j \in 0 .. Count(f) /\ j \in 0 .. Len(f.params)
  <2> DEFINE p == Len(f.params)
             q == Len(f.statements)
             N == Count(f)
  <2>1. N = p + q /\ p \in Nat /\ q \in Nat /\ p <= MaxParams /\ MaxParams \in Nat /\ j < p
    BY FunctionParts DEF Count, MaxParams
  <2> HIDE DEF p, q, N
  <2>2. /\ j \in 0 .. MaxParams - 1 /\ j + 1 \in 1 .. N /\ j + 1 <= p /\ (j + 1) - 1 = j
        /\ j \in 0 .. N /\ j \in 0 .. p /\ j + 1 \in 1 .. p
    BY <2>1
  <2> QED BY <2>2, FunctionParts DEF p, N
<1>2. e \in CodeOver(next)
  <2> HIDE DEF u, v
  <2>1. v \in 0 .. next - 1
    BY <1>1 DEF u
  <2> QED BY <1>1, <2>1 DEF Entry, CodeOver
<1>3. ASSUME NEW argv \in Given, NEW n \in Nat, next <= n
      PROVE  Agrees(RunAll(Unwritten(0 .. n - 1), es \o <<e>>, argv), RunOf(f, argv, j + 1), u)
  <2> DEFINE m0 == Unwritten(0 .. n - 1)
             m == RunAll(m0, es, argv)
             src == RunOf(f, argv, j)
             x == argv[j]
  <2>1. es \in Seq(CodeOver(n)) /\ e \in CodeOver(n) /\ m0 \in Runs(n)
    <3> HIDE DEF e
    <3> QED BY <1>2, <1>3, CodeGrows, UnwrittenRun
  <2>2. m \in Runs(n)
    <3> HIDE DEF m0, e
    <3> QED BY <2>1, RunAllTyped
  <2>3. RunAll(m0, es \o <<e>>, argv) = RunEntry(m, e, argv)
    <3> HIDE DEF e, m0
    <3>1. <<e>> \in Seq(CodeOver(n))
      BY <2>1
    <3>2. RunAll(m0, es \o <<e>>, argv) = RunAll(m, <<e>>, argv)
      BY <2>1, <3>1, RunBoth
    <3> HIDE DEF m
    <3> QED BY <2>1, <2>2, <3>2, RunOne
  <2>4. Agrees(m, src, u) /\ src \in Runs(u) /\ src.ret = NoReturn
    <3>1. Agrees(m, src, u)
      BY <1>3 DEF MeansSoFar
    <3> QED BY <1>1, <3>1, RunOfDefined
  <2>5. m.ret = NoReturn
    BY <2>4 DEF Agrees
  <2>6. x \in Results /\ x # NoValue
    BY <1>1, NoValueApart DEF Given, Results
  <2>7. RunEntry(m, e, argv) = Assigned(m, v, x)
    <3> HIDE DEF m, v
    <3> QED BY <2>5 DEF RunEntry, Entry
  <2>8. RunOf(f, argv, j + 1) = Assigned(src, v, x)
    BY <1>1, RunOfDefined DEF RunStep
  <2>9. u <= n /\ v \in 0 .. n - 1
    <3> HIDE DEF v
    <3> QED BY <1>1, <1>3
  <2> HIDE DEF m, src, x, v, u, m0, e
  <2>10. /\ Assigned(m, v, x).ret = m.ret /\ Assigned(m, v, x).env[v] = x
         /\ \A w \in 0 .. n - 1 : w # v => Assigned(m, v, x).env[w] = m.env[w]
    BY <2>2, <2>6, <2>9, AssignedRun
  <2>11. /\ Assigned(src, v, x).ret = src.ret /\ Assigned(src, v, x).env[v] = x
         /\ \A w \in 0 .. u - 1 : w # v => Assigned(src, v, x).env[w] = src.env[w]
    BY <1>1, <2>4, <2>6, AssignedRun
  <2>12. \A w \in 0 .. u - 1 : w \in 0 .. n - 1
    BY <1>1, <2>9
  <2>13. Agrees(Assigned(m, v, x), Assigned(src, v, x), u)
    BY <2>4, <2>10, <2>11, <2>12 DEF Agrees
  <2> QED BY <2>3, <2>7, <2>8, <2>13 DEF m0
<1> QED BY <1>2, <1>3 DEF MeansSoFar

\* Which statement is number j + 1
LEMMA StatementParts ==
  ASSUME NEW f, IsFunction(f), NEW j \in Nat, Len(f.params) <= j, j < Count(f)
  PROVE  LET stmt == f.statements[j - Len(f.params) + 1] IN
         /\ IsStatement(stmt, 0 .. f.n_user - 1)
         /\ IsExpression(stmt.exp, 0 .. f.n_user - 1)
         /\ Len(stmt.exp) \in 1 .. Len(stmt.exp)
         /\ \A argv \in Given : /\ RunOf(f, argv, j) \in Runs(f.n_user)
                                /\ RunOf(f, argv, j + 1) = RunStatement(RunOf(f, argv, j), stmt)
         /\ j - Len(f.params) + 1 \in 1 .. Len(f.statements)
<1> DEFINE p == Len(f.params)
           q == Len(f.statements)
           N == Count(f)
           d == j - p + 1
<1>1. N = p + q /\ p \in Nat /\ q \in Nat /\ p <= j /\ j < N
  BY FunctionParts DEF Count
<1>2. /\ d \in 1 .. q /\ j + 1 \in 1 .. N /\ ~(j + 1 <= p) /\ (j + 1) - 1 = j /\ (j + 1) - p = d
      /\ j \in 0 .. N
  <2> HIDE DEF p, q, N
  <2> QED BY <1>1
<1>3. IsStatement(f.statements[d], 0 .. f.n_user - 1)
  <2> HIDE DEF d
  <2> QED BY <1>2, FunctionParts
<1>4. IsExpression(f.statements[d].exp, 0 .. f.n_user - 1)
  BY <1>3 DEF IsStatement
<1>5. Len(f.statements[d].exp) \in 1 .. Len(f.statements[d].exp)
  <2> DEFINE z == Len(f.statements[d].exp)
  <2>1. z \in Nat \ {0}
    BY <1>4 DEF IsExpression
  <2> HIDE DEF z
  <2>2. z \in 1 .. z
    BY <2>1
  <2> QED BY <2>2 DEF z
<1>6. \A argv \in Given : /\ RunOf(f, argv, j) \in Runs(f.n_user)
                          /\ RunOf(f, argv, j + 1) = RunStatement(RunOf(f, argv, j), f.statements[d])
  <2> TAKE argv \in Given
  <2>1. RunOf(f, argv, j + 1) = RunStep(f, argv, RunOf(f, argv, j), j + 1)
    BY <1>2, RunOfDefined
  <2>2. RunOf(f, argv, j) \in Runs(f.n_user)
    BY <1>2, RunOfDefined
  <2> HIDE DEF d, p
  <2> QED BY <1>2, <2>1, <2>2 DEF RunStep, p
<1> QED BY <1>2, <1>3, <1>4, <1>5, <1>6

\* The entries of the expression of a statement, run where the statements
\* before it have come to src
GoesOn(exp, given, next, n, m, src, argv, u) ==
  LET added == AddObject(exp, Len(exp), given, next)
      x == ValueOf(exp, src.env)
      after == RunAll(m, added.entries, argv)
  IN  /\ after \in Runs(n)
      /\ after.ret = IF Whole(exp).type # "var" /\ x = NoValue THEN Stuck ELSE NoReturn
      /\ after.ret = NoReturn => after.env[added.id] = x
      /\ \A v \in 0 .. u - 1 : (v = given => after.ret # NoReturn) => after.env[v] = src.env[v]
      /\ x \in Results
      /\ Whole(exp).type # "var" /\ given # -1 => added.id = given

LEMMA ExpressionMeans ==
  ASSUME NEW u \in Nat, NEW exp, IsExpression(exp, 0 .. u - 1),
         NEW next \in Nat, u <= next, NEW given \in -1 .. u - 1,
         NEW n \in Nat, AddObject(exp, Len(exp), given, next).next <= n,
         NEW argv \in Given, NEW m \in Runs(n), m.ret = NoReturn,
         NEW src \in Runs(u), Agrees(m, src, u)
  PROVE  GoesOn(exp, given, next, n, m, src, argv, u)
<1> DEFINE l == Len(exp)
           added == AddObject(exp, l, given, next)
           ids == 0 .. u - 1
           now == m.env
           was == src.env
<1>1. l \in 1 .. Len(exp)
  BY DEF IsExpression
<1>2. Shape(exp, l, given, next)
  BY <1>1, AddShape
<1>3. /\ added.next \in Nat /\ next <= added.next /\ added.id \in 0 .. added.next - 1
      /\ added.entries \in Seq(CodeOver(added.next))
      /\ exp[l].type # "var" /\ given # -1 => added.id = given
  BY <1>2 DEF Shape
<1>4. /\ u <= n /\ added.id \in 0 .. n - 1 /\ added.entries \in Seq(CodeOver(n))
  <2> DEFINE q == added.next
             y == added.id
  <2>1. q \in Nat /\ next <= q /\ q <= n /\ y \in 0 .. q - 1
    BY <1>3
  <2>2. added.entries \in Seq(CodeOver(n))
    BY <1>3, <2>1, CodeGrows
  <2> HIDE DEF q, y
  <2>3. u <= n /\ y \in 0 .. n - 1
    BY <2>1
  <2> QED BY <2>2, <2>3 DEF y
<1>5. IsExpression(exp, ids) /\ \A v \in ids : was[v] \in Results /\ now[v] = was[v]
  BY DEF Runs, Agrees
<1>6. ValueAt(exp, was, l) \in Results /\ ValueAt(exp, now, l) = ValueAt(exp, was, l)
  <2> HIDE DEF ids, now, was, l
  <2>1. \A j \in 1 .. Len(exp) : ValueAt(exp, now, j) = ValueAt(exp, was, j)
    BY <1>5, ValueAgrees
  <2>2. ValueAt(exp, was, l) \in Results
    BY <1>1, <1>5, ValueCases
  <2> QED BY <1>1, <2>1, <2>2
<1>7. Evaluates(exp, l, given, next, n, m, argv)
  <2> HIDE DEF l
  <2> QED BY <1>1, AddMeans DEF l
<1>8. \A v \in 0 .. u - 1 : v \in 0 .. n - 1 /\ v \notin next .. added.next - 1
  <2> DEFINE q == added.next
  <2>1. q \in Nat
    BY <1>3
  <2> HIDE DEF q
  <2> QED BY <1>4, <2>1
<1> DEFINE after == RunAll(m, added.entries, argv)
           x == ValueAt(exp, was, l)
<1>9. /\ after \in Runs(n)
      /\ after.ret = IF exp[l].type # "var" /\ x = NoValue THEN Stuck ELSE NoReturn
      /\ after.ret = NoReturn => after.env[added.id] = x
      /\ \A v \in 0 .. n - 1 :
           v \notin next .. added.next - 1 /\ (v = given => after.ret # NoReturn) =>
             after.env[v] = m.env[v]
  BY <1>6, <1>7 DEF Evaluates
<1>10. \A v \in 0 .. u - 1 : (v = given => after.ret # NoReturn) => after.env[v] = src.env[v]
  <2> HIDE DEF after
  <2> QED BY <1>5, <1>8, <1>9
<1>11. x = ValueOf(exp, src.env) /\ exp[l] = Whole(exp)
  BY DEF ValueOf, Whole
<1> HIDE DEF after, x, was, now, ids
<1> QED BY <1>3, <1>4, <1>6, <1>9, <1>10, <1>11 DEF x, after, was, GoesOn

LEMMA DeclMeans ==
  ASSUME NEW f, IsFunction(f), NEW j \in Nat, Len(f.params) <= j, j < Count(f),
         NEW next \in Nat, f.n_user <= next,
         NEW es \in Seq(CodeOver(next)), MeansSoFar(f, es, next, j),
         NEW stmt, stmt = f.statements[j - Len(f.params) + 1], stmt.type = "decl", ~Copies(stmt),
         NEW added, added = AddObject(stmt.exp, Len(stmt.exp), stmt.var, next)
  PROVE  MeansSoFar(f, es \o added.entries, added.next, j + 1)
<1> DEFINE u == f.n_user
           exp == stmt.exp
           v == stmt.var
<1>1. /\ u \in Nat /\ v \in 0 .. u - 1 /\ v # -1 /\ v \in -1 .. u - 1
      /\ IsExpression(exp, 0 .. u - 1) /\ Len(exp) \in 1 .. Len(exp)
      /\ \A argv \in Given : /\ RunOf(f, argv, j) \in Runs(u)
                             /\ RunOf(f, argv, j + 1) = RunStatement(RunOf(f, argv, j), stmt)
  <2>1. f.n_user \in Nat
    BY FunctionParts
  <2>2. v \in 0 .. u - 1
    BY StatementParts DEF IsStatement
  <2>3. IsExpression(exp, 0 .. u - 1) /\ Len(exp) \in 1 .. Len(exp)
    BY StatementParts
  <2>4. \A argv \in Given : /\ RunOf(f, argv, j) \in Runs(u)
                            /\ RunOf(f, argv, j + 1) = RunStatement(RunOf(f, argv, j), stmt)
    BY StatementParts
  <2> HIDE DEF v, exp, u
  <2>5. u \in Nat
    BY <2>1 DEF u
  <2>6. v # -1 /\ v \in -1 .. u - 1
    BY <2>2, <2>5
  <2> QED BY <2>2, <2>3, <2>4, <2>5, <2>6
<1>2. Whole(exp).type # "var"
  BY DEF Copies
<1>3. Shape(exp, Len(exp), v, next)
  <2> HIDE DEF exp, v
  <2> QED BY <1>1, AddShape
<1>4. added.next \in Nat /\ next <= added.next
  BY <1>3 DEF Shape
<1>5. ASSUME NEW argv \in Given, NEW n \in Nat, added.next <= n
      PROVE  Agrees(RunAll(Unwritten(0 .. n - 1), es \o added.entries, argv), RunOf(f, argv, j + 1), u)
  <2> DEFINE m0 == Unwritten(0 .. n - 1)
             m == RunAll(m0, es, argv)
             src == RunOf(f, argv, j)
             after == RunAll(m, added.entries, argv)
             x == ValueOf(exp, src.env)
  <2>1. next <= n
    <3> DEFINE q == added.next
    <3>1. q \in Nat /\ next <= q /\ q <= n
      BY <1>4, <1>5
    <3> HIDE DEF q
    <3> QED BY <3>1
  <2>2. es \in Seq(CodeOver(n)) /\ m0 \in Runs(n)
    BY <2>1, CodeGrows, UnwrittenRun
  <2>3. m \in Runs(n)
    <3> HIDE DEF m0
    <3> QED BY <2>2, RunAllTyped
  <2>4. Agrees(m, src, u) /\ src \in Runs(u)
    BY <1>1, <2>1 DEF MeansSoFar
  <2>5. added.entries \in Seq(CodeOver(n))
    <3> DEFINE more == added.entries
               q == added.next
    <3>1. more \in Seq(CodeOver(q)) /\ q \in Nat /\ q <= n
      BY <1>3, <1>4, <1>5 DEF Shape
    <3> HIDE DEF more, q
    <3>2. more \in Seq(CodeOver(n))
      BY <1>5, <3>1, CodeGrows
    <3> QED BY <3>2 DEF more
  <2>6. RunAll(m0, es \o added.entries, argv) = after
    <3> DEFINE more == added.entries
    <3>1. more \in Seq(CodeOver(n))
      BY <2>5
    <3> HIDE DEF m0, more
    <3>2. RunAll(m0, es \o more, argv) = RunAll(RunAll(m0, es, argv), more, argv)
      BY <1>5, <2>2, <3>1, RunBoth
    <3> QED BY <3>2 DEF more
  <2>7. RunOf(f, argv, j + 1) = RunStatement(src, stmt)
    BY <1>1
  <2>8. CASE m.ret # NoReturn
    <3>1. after = m
      <4> HIDE DEF m
      <4> QED BY <2>3, <2>5, <2>8, RunStopped
    <3>2. RunStatement(src, stmt) = src
      <4> HIDE DEF m, src
      <4> QED BY <2>4, <2>8 DEF Agrees, RunStatement
    <3> QED BY <2>4, <2>6, <2>7, <3>1, <3>2
  <2>9. CASE m.ret = NoReturn
    <3>1. /\ after \in Runs(n)
          /\ after.ret = IF Whole(exp).type # "var" /\ x = NoValue THEN Stuck ELSE NoReturn
          /\ after.ret = NoReturn => after.env[added.id] = x
          /\ \A w \in 0 .. u - 1 : (w = v => after.ret # NoReturn) => after.env[w] = src.env[w]
          /\ x \in Results
          /\ Whole(exp).type # "var" /\ v # -1 => added.id = v
      <4>1. GoesOn(exp, v, next, n, m, src, argv, u)
        <5> HIDE DEF m, src, exp, v, u
        <5>1. added = AddObject(exp, Len(exp), v, next)
          BY DEF exp, v
        <5>2. u <= next
          BY DEF u
        <5> QED BY <1>1, <1>5, <2>3, <2>4, <2>9, <5>1, <5>2, ExpressionMeans
      <4> HIDE DEF m, src, exp, v, u
      <4>2. added = AddObject(exp, Len(exp), v, next)
        BY DEF exp, v
      <4> QED BY <4>1, <4>2, Zenon DEF GoesOn
    <3>2. RunStatement(src, stmt) = Assigned(src, v, x)
      <4> HIDE DEF m, src
      <4> QED BY SMTT(30), <2>4, <2>9 DEF Agrees, RunStatement
    <3>3. /\ x = NoValue => Assigned(src, v, x).ret = Stuck /\ Assigned(src, v, x).env = src.env
          /\ x # NoValue =>
               /\ Assigned(src, v, x).ret = src.ret /\ Assigned(src, v, x).env[v] = x
               /\ \A w \in 0 .. u - 1 : w # v => Assigned(src, v, x).env[w] = src.env[w]
      <4> HIDE DEF src, v, x, u
      <4> QED BY ZenonT(60), <1>1, <2>4, <3>1, AssignedRun
    <3>4. src.ret = NoReturn
      BY <2>4, <2>9 DEF Agrees
    <3> HIDE DEF src, v, x, u, after, m, exp
    <3>5. Agrees(after, Assigned(src, v, x), u)
      <4>1. CASE x = NoValue
        BY <1>1, <1>2, <3>1, <3>3, <4>1, NoValueApart DEF Agrees
      <4>2. CASE x # NoValue
        BY <1>1, <1>2, <3>1, <3>3, <3>4, <4>2, NoValueApart DEF Agrees
      <4> QED BY <4>1, <4>2
    <3> QED BY <2>6, <2>7, <3>2, <3>5
  <2> QED BY <2>8, <2>9
<1> QED BY <1>4, <1>5 DEF MeansSoFar

LEMMA ReturnMeans ==
  ASSUME NEW f, IsFunction(f), NEW j \in Nat, Len(f.params) <= j, j < Count(f),
         NEW next \in Nat, f.n_user <= next,
         NEW es \in Seq(CodeOver(next)), MeansSoFar(f, es, next, j),
         NEW stmt, stmt = f.statements[j - Len(f.params) + 1], stmt.type = "ret",
         NEW added, added = AddObject(stmt.exp, Len(stmt.exp), -1, next)
  PROVE  MeansSoFar(f, es \o added.entries \o <<Entry("ret", -1, added.id, -1, 0)>>, added.next, j + 1)
<1> DEFINE u == f.n_user
           exp == stmt.exp
           e == Entry("ret", -1, added.id, -1, 0)
<1>1. /\ u \in Nat /\ -1 \in -1 .. u - 1
      /\ IsExpression(exp, 0 .. u - 1) /\ Len(exp) \in 1 .. Len(exp)
      /\ \A argv \in Given : /\ RunOf(f, argv, j) \in Runs(u)
                             /\ RunOf(f, argv, j + 1) = RunStatement(RunOf(f, argv, j), stmt)
  <2>1. f.n_user \in Nat
    BY FunctionParts
  <2>2. -1 \in -1 .. u - 1
    BY <2>1
  <2>3. IsExpression(exp, 0 .. u - 1) /\ Len(exp) \in 1 .. Len(exp)
    BY StatementParts
  <2>4. \A argv \in Given : /\ RunOf(f, argv, j) \in Runs(u)
                            /\ RunOf(f, argv, j + 1) = RunStatement(RunOf(f, argv, j), stmt)
    BY StatementParts
  <2> HIDE DEF exp
  <2> QED BY <2>1, <2>2, <2>3, <2>4
<1>3. Shape(exp, Len(exp), -1, next)
  <2> HIDE DEF exp
  <2> QED BY <1>1, AddShape
<1>4. added.next \in Nat /\ next <= added.next
  BY <1>3 DEF Shape
<1>5. ASSUME NEW argv \in Given, NEW n \in Nat, added.next <= n
      PROVE  Agrees(RunAll(Unwritten(0 .. n - 1), es \o added.entries \o <<e>>, argv), RunOf(f, argv, j + 1), u)
  <2> DEFINE m0 == Unwritten(0 .. n - 1)
             m == RunAll(m0, es, argv)
             src == RunOf(f, argv, j)
             mid == RunAll(m, added.entries, argv)
             after == RunEntry(mid, e, argv)
             x == ValueOf(exp, src.env)
  <2>1. next <= n
    <3> DEFINE q == added.next
    <3>1. q \in Nat /\ next <= q /\ q <= n
      BY <1>4, <1>5
    <3> HIDE DEF q
    <3> QED BY <3>1
  <2>2. es \in Seq(CodeOver(n)) /\ m0 \in Runs(n)
    BY <2>1, CodeGrows, UnwrittenRun
  <2>3. m \in Runs(n)
    <3> HIDE DEF m0
    <3> QED BY <2>2, RunAllTyped
  <2>4. Agrees(m, src, u) /\ src \in Runs(u)
    BY <1>1, <2>1 DEF MeansSoFar
  <2>5. added.entries \in Seq(CodeOver(n)) /\ e \in CodeOver(n)
    <3>1. added.entries \in Seq(CodeOver(added.next)) /\ added.id \in 0 .. added.next - 1
      BY <1>3 DEF Shape
    <3>2. added.entries \in Seq(CodeOver(n))
      BY <1>4, <1>5, <3>1, CodeGrows
    <3>3. added.id \in 0 .. n - 1
      <4> DEFINE q == added.next
                 y == added.id
      <4>1. q \in Nat /\ q <= n /\ y \in 0 .. q - 1
        BY <1>4, <1>5, <3>1
      <4> HIDE DEF q, y
      <4>2. y \in 0 .. n - 1
        BY <4>1
      <4> QED BY <4>2 DEF y
    <3> QED BY <3>2, <3>3 DEF Entry, CodeOver
  <2>6. RunAll(m0, es \o added.entries \o <<e>>, argv) = after
    <3> DEFINE gs == es \o added.entries
    <3>1. gs \in Seq(CodeOver(n)) /\ <<e>> \in Seq(CodeOver(n))
      <4> DEFINE X == CodeOver(n)
                 fs == added.entries
      <4>1. es \in Seq(X) /\ fs \in Seq(X) /\ e \in X
        BY <2>2, <2>5
      <4> HIDE DEF e, X, fs
      <4>2. es \o fs \in Seq(X) /\ <<e>> \in Seq(X)
        BY <4>1
      <4> QED BY <4>2 DEF X, fs
    <3>2. RunAll(m0, gs, argv) = mid
      <4> HIDE DEF m0
      <4> QED BY <2>2, <2>5, RunBoth
    <3>3. mid \in Runs(n)
      <4> HIDE DEF m
      <4> QED BY <2>3, <2>5, RunAllTyped
    <3> HIDE DEF gs, e, m0, mid
    <3>4. RunAll(m0, gs \o <<e>>, argv) = RunAll(mid, <<e>>, argv)
      BY <2>2, <3>1, <3>2, RunBoth
    <3>5. RunAll(mid, <<e>>, argv) = after
      BY <2>5, <3>3, RunOne
    <3> QED BY <3>4, <3>5 DEF gs
  <2>7. RunOf(f, argv, j + 1) = RunStatement(src, stmt)
    BY <1>1
  <2>8. CASE m.ret # NoReturn
    <3>1. mid = m
      <4> HIDE DEF m
      <4> QED BY <2>3, <2>5, <2>8, RunStopped
    <3>2. after = m
      <4> HIDE DEF m, mid
      <4> QED BY <2>8, <3>1 DEF RunEntry
    <3>3. RunStatement(src, stmt) = src
      <4> HIDE DEF m, src
      <4> QED BY <2>4, <2>8 DEF Agrees, RunStatement
    <3> QED BY <2>4, <2>6, <2>7, <3>2, <3>3
  <2>9. CASE m.ret = NoReturn
    <3>1. /\ mid \in Runs(n)
          /\ mid.ret = IF Whole(exp).type # "var" /\ x = NoValue THEN Stuck ELSE NoReturn
          /\ mid.ret = NoReturn => mid.env[added.id] = x
          /\ \A w \in 0 .. u - 1 : (w = -1 => mid.ret # NoReturn) => mid.env[w] = src.env[w]
          /\ x \in Results
      <4>1. GoesOn(exp, -1, next, n, m, src, argv, u)
        <5> HIDE DEF m, src, exp, u
        <5>1. added = AddObject(exp, Len(exp), -1, next)
          BY DEF exp
        <5>2. u <= next
          BY DEF u
        <5> QED BY <1>1, <1>5, <2>3, <2>4, <2>9, <5>1, <5>2, ExpressionMeans
      <4> HIDE DEF m, src, exp, u
      <4>2. added = AddObject(exp, Len(exp), -1, next)
        BY DEF exp
      <4> QED BY <4>1, <4>2, Zenon DEF GoesOn
    <3>2. RunStatement(src, stmt) = Answered(src, x)
      <4> HIDE DEF m, src
      <4> QED BY <2>4, <2>9 DEF Agrees, RunStatement
    <3>3. \A w \in 0 .. u - 1 : mid.env[w] = src.env[w]
      <4>1. \A w \in 0 .. u - 1 : w # -1
        BY <1>1
      <4> HIDE DEF mid
      <4> QED BY <3>1, <4>1
    <3>4. Answered(src, x).env = src.env /\ Answered(src, x).ret = IF x = NoValue THEN Stuck ELSE x
      <4> HIDE DEF src, x
      <4> QED BY ZenonT(60), <1>1, <2>4, <3>1, AnsweredRun
    <3> HIDE DEF src, x, u, m, exp
    <3>5. CASE mid.ret # NoReturn
      <4>1. after = mid
        <5> HIDE DEF mid
        <5> QED BY <3>5 DEF RunEntry
      <4>2. mid.ret = Stuck /\ x = NoValue
        <5> HIDE DEF mid
        <5> QED BY <3>1, <3>5
      <4> HIDE DEF mid
      <4>3. Agrees(mid, Answered(src, x), u)
        BY <3>3, <3>4, <4>2 DEF Agrees
      <4> QED BY <2>6, <2>7, <3>2, <4>1, <4>3 DEF src, u
    <3>6. CASE mid.ret = NoReturn
      <4>1. after = Answered(mid, x)
        <5> HIDE DEF mid
        <5> QED BY <3>1, <3>6 DEF RunEntry, Entry
      <4> HIDE DEF mid, after
      <4>2. Answered(mid, x).env = mid.env /\ Answered(mid, x).ret = IF x = NoValue THEN Stuck ELSE x
        BY <3>1, AnsweredRun
      <4>3. Agrees(after, Answered(src, x), u)
        BY <3>3, <3>4, <4>1, <4>2 DEF Agrees
      <4> QED BY SMTT(30), <2>6, <2>7, <3>2, <4>3 DEF src, u
    <3> QED BY <3>5, <3>6
  <2> QED BY <2>8, <2>9
<1> QED BY <1>4, <1>5 DEF MeansSoFar

-----------------------------------------------------------------------------
(***************************************************************************)
(* The steps of the constructor: the entries and their temporaries.        *)
(***************************************************************************)
LEMMA UnusedBeyond ==
  ASSUME NEW n \in Nat, NEW es \in Seq(CodeOver(n)), NEW t \in Nat, n <= t
  PROVE  Unused(es, t)
<1>1. \A e \in CodeOver(n) : e.a \in -1 .. n - 1 /\ e.b \in -1 .. n - 1 /\ e.c \in -1 .. n - 1
  BY DEF CodeOver
<1>2. t \notin -1 .. n - 1
  OBVIOUS
<1>3. \A j \in 1 .. Len(es) : es[j] \in CodeOver(n)
  OBVIOUS
<1> QED BY <1>1, <1>2, <1>3 DEF Unused

\* The temporaries below next, when there are u variables of the user's
OneUseSoFar(es, u, next) == \A t \in u .. next - 1 : UsedOnce(es, t)

\* What the call for the expression of a statement returns
LEMMA ExpressionTemps ==
  ASSUME NEW u \in Nat, NEW exp, IsExpression(exp, 0 .. u - 1),
         NEW next \in Nat, u <= next, NEW given \in -1 .. u - 1,
         NEW es \in Seq(CodeOver(next)), OneUseSoFar(es, u, next),
         NEW added, added = AddObject(exp, Len(exp), given, next)
  PROVE  /\ added.next \in Nat /\ next <= added.next /\ added.id \in 0 .. added.next - 1
         /\ es \in Seq(CodeOver(added.next)) /\ added.entries \in Seq(CodeOver(added.next))
         /\ es \o added.entries \in Seq(CodeOver(added.next))
         /\ \A t \in u .. added.next - 1 : t # added.id => UsedOnce(es \o added.entries, t)
         /\ \/ added.id \in 0 .. u - 1
            \/ given = -1 /\ added.id \in u .. added.next - 1 /\ Pending(es \o added.entries, added.id)
<1> DEFINE l == Len(exp)
           q == added.next
           y == added.id
           fs == added.entries
           X == CodeOver(q)
<1>1. l \in 1 .. Len(exp)
  BY DEF IsExpression
<1>2. Shape(exp, l, given, next) /\ OneUseEach(exp, l, given, next, u)
  <2> HIDE DEF l
  <2> QED BY <1>1, AddShape, AddTemps
<1>3. /\ q \in Nat /\ next <= q /\ y \in 0 .. q - 1 /\ fs \in Seq(X)
      /\ exp[l].type = "var" => y = exp[l].num
      /\ exp[l].type # "var" => y = (IF given = -1 THEN next ELSE given) /\ (given = -1 => next < q)
  BY <1>2 DEF Shape
<1>4. /\ \A t \in Nat : u <= t /\ t \notin next .. q - 1 => Unused(fs, t)
      /\ \A t \in next .. q - 1 : t # y => UsedOnce(fs, t)
      /\ given = -1 /\ exp[l].type # "var" => Pending(fs, y)
  BY <1>2 DEF OneUseEach
<1>5. exp[l].type = "var" => exp[l].num \in 0 .. u - 1
  <2> HIDE DEF l
  <2> QED BY <1>1 DEF IsExpression, Ops
<1>6. es \in Seq(X)
  <2> HIDE DEF q
  <2> QED BY <1>3, CodeGrows
<1> HIDE DEF q, y, fs, X
<1>7. es \o fs \in Seq(X)
  BY <1>3, <1>6
<1>8. ASSUME NEW t \in u .. q - 1, t # y PROVE UsedOnce(es \o fs, t)
  <2>1. CASE t \in u .. next - 1
    <3>1. Unused(fs, t)
      BY <1>4, <2>1
    <3> QED BY <1>3, <1>6, <2>1, <3>1, UsedOnceBoth DEF OneUseSoFar
  <2>2. CASE t \in next .. q - 1
    <3>1. Unused(es, t)
      BY <2>2, UnusedBeyond
    <3> QED BY <1>3, <1>4, <1>6, <1>8, <2>2, <3>1, UsedOnceBoth
  <2> QED BY <1>3, <2>1, <2>2
<1>9. \/ y \in 0 .. u - 1
      \/ given = -1 /\ y \in u .. q - 1 /\ Pending(es \o fs, y)
  <2>1. CASE exp[l].type = "var"
    BY <1>3, <1>5, <2>1
  <2>2. CASE exp[l].type # "var" /\ given # -1
    BY <1>3, <2>2
  <2>3. CASE exp[l].type # "var" /\ given = -1
    <3>1. y = next /\ next < q /\ Pending(fs, y)
      BY <1>3, <1>4, <2>3
    <3>2. Unused(es, y)
      BY <3>1, UnusedBeyond
    <3> QED BY <1>3, <1>6, <2>3, <3>1, <3>2, UsedOnceBoth
  <2> QED BY <2>1, <2>2, <2>3
<1> QED BY <1>3, <1>6, <1>7, <1>8, <1>9 DEF q, y, fs, X

LEMMA ParamTemps ==
  ASSUME NEW u \in Nat, NEW next \in Nat, u <= next, NEW es \in Seq(CodeOver(next)),
         OneUseSoFar(es, u, next), NEW e \in CodeOver(next), e.a < u, e.b = -1, e.c = -1
  PROVE  OneUseSoFar(es \o <<e>>, u, next)
<1> DEFINE fs == <<e>>
           X == CodeOver(next)
<1>1. fs \in Seq(X) /\ Len(fs) = 1 /\ fs[1] = e
  <2> HIDE DEF X
  <2>1. e \in X
    BY DEF X
  <2> QED BY <2>1
<1> HIDE DEF fs
<1>2. ASSUME NEW t \in u .. next - 1 PROVE UsedOnce(es \o fs, t)
  <2>1. t # e.a /\ t # -1
    <3>1. e.a \in Int
      BY DEF CodeOver
    <3> QED BY <3>1
  <2>2. Unused(fs, t)
    BY <1>1, <2>1 DEF Unused
  <2>3. UsedOnce(es, t)
    BY DEF OneUseSoFar
  <2> HIDE DEF X
  <2>4. es \in Seq(X)
    BY DEF X
  <2> QED BY <1>1, <2>2, <2>3, <2>4, UsedOnceBoth
<1> QED BY <1>2 DEF OneUseSoFar, fs

LEMMA DeclTemps ==
  ASSUME NEW u \in Nat, NEW exp, IsExpression(exp, 0 .. u - 1),
         NEW next \in Nat, u <= next, NEW given \in 0 .. u - 1,
         NEW es \in Seq(CodeOver(next)), OneUseSoFar(es, u, next),
         NEW added, added = AddObject(exp, Len(exp), given, next)
  PROVE  OneUseSoFar(es \o added.entries, u, added.next)
<1>1. given \in -1 .. u - 1 /\ given # -1
  OBVIOUS
<1>2. /\ \A t \in u .. added.next - 1 : t # added.id => UsedOnce(es \o added.entries, t)
      /\ added.id \in 0 .. u - 1
  BY <1>1, ExpressionTemps
<1> DEFINE q == added.next
           y == added.id
<1>3. \A t \in u .. q - 1 : t # y
  <2>1. y \in 0 .. u - 1
    BY <1>2
  <2> HIDE DEF q, y
  <2> QED BY <2>1
<1> QED BY <1>2, <1>3 DEF OneUseSoFar

LEMMA ReturnTemps ==
  ASSUME NEW u \in Nat, NEW exp, IsExpression(exp, 0 .. u - 1),
         NEW next \in Nat, u <= next,
         NEW es \in Seq(CodeOver(next)), OneUseSoFar(es, u, next),
         NEW added, added = AddObject(exp, Len(exp), -1, next)
  PROVE  /\ es \o added.entries \o <<Entry("ret", -1, added.id, -1, 0)>> \in Seq(CodeOver(added.next))
         /\ OneUseSoFar(es \o added.entries \o <<Entry("ret", -1, added.id, -1, 0)>>, u, added.next)
<1> DEFINE q == added.next
           y == added.id
           gs == es \o added.entries
           X == CodeOver(q)
           e == Entry("ret", -1, y, -1, 0)
           fs == <<e>>
<1>1. -1 \in -1 .. u - 1
  OBVIOUS
<1>2. /\ q \in Nat /\ y \in 0 .. q - 1 /\ gs \in Seq(X)
      /\ \A t \in u .. q - 1 : t # y => UsedOnce(gs, t)
      /\ y \in 0 .. u - 1 \/ (y \in u .. q - 1 /\ Pending(gs, y))
  BY SMTT(30), <1>1, ExpressionTemps
<1>3. e.a = -1 /\ e.b = y /\ e.c = -1
  BY DEF Entry
<1> HIDE DEF q, y, gs
<1>4. e \in X
  BY <1>2 DEF Entry, CodeOver
<1> HIDE DEF e, X
<1>5. fs \in Seq(X) /\ Len(fs) = 1 /\ fs[1] = e
  BY <1>4
<1>6. gs \o fs \in Seq(X)
  <2> HIDE DEF fs
  <2> QED BY <1>2, <1>5
<1>7. ASSUME NEW t \in u .. q - 1 PROVE UsedOnce(gs \o fs, t)
  <2>1. CASE t = y
    <3>1. Pending(gs, t) /\ e.a # t /\ t \in {e.b, e.c} /\ e.b # e.c
      BY <1>2, <1>3, <2>1
    <3> QED BY <1>2, <1>4, <3>1, PendingRead
  <2>2. CASE t # y
    <3>1. t \notin {e.a, e.b, e.c}
      BY <1>3, <2>2
    <3> HIDE DEF fs
    <3>2. Unused(fs, t)
      BY <1>5, <3>1 DEF Unused
    <3> QED BY <1>2, <1>5, <2>2, <3>2, UsedOnceBoth
  <2> QED BY <2>1, <2>2
<1> HIDE DEF fs
<1> QED BY <1>6, <1>7 DEF OneUseSoFar, q, y, gs, X, e, fs

-----------------------------------------------------------------------------
(***************************************************************************)
(* What the entries read is there.                                         *)
(***************************************************************************)
WrittenIn(es) == {es[j].a : j \in 1 .. Len(es)}

\* Whatever is read is in known, or written by an entry before.
ReadsKnown(es, known) ==
  \A j \in 1 .. Len(es) : \A v \in {es[j].b, es[j].c} \ {-1} :
    v \in known \/ \E w \in 1 .. j - 1 : es[w].a = v

NoParams(es) == \A j \in 1 .. Len(es) : es[j].type # "param"

LEMMA ReadsBoth ==
  ASSUME NEW X, NEW es \in Seq(X), NEW fs \in Seq(X), NEW known, NEW more,
         ReadsKnown(es, known), ReadsKnown(fs, more), more \subseteq known \cup WrittenIn(es)
  PROVE  ReadsKnown(es \o fs, known)
<1> DEFINE gs == es \o fs
<1>1. /\ Len(es) \in Nat /\ Len(fs) \in Nat
      /\ \A j \in 1 .. Len(gs) :
           \/ j \in 1 .. Len(es) /\ gs[j] = es[j] /\ \A w \in 1 .. j - 1 : gs[w] = es[w]
           \/ /\ j - Len(es) \in 1 .. Len(fs) /\ gs[j] = fs[j - Len(es)]
              /\ \A w \in 1 .. Len(es) : w \in 1 .. j - 1 /\ gs[w] = es[w]
              /\ \A w \in 1 .. (j - Len(es)) - 1 :
                   Len(es) + w \in 1 .. j - 1 /\ gs[Len(es) + w] = fs[w]
  OBVIOUS
<1> HIDE DEF gs
<1>2. ASSUME NEW j \in 1 .. Len(gs), NEW v \in {gs[j].b, gs[j].c} \ {-1}, v \notin known
      PROVE  \E w \in 1 .. j - 1 : gs[w].a = v
  <2>1. CASE j \in 1 .. Len(es) /\ gs[j] = es[j] /\ \A w \in 1 .. j - 1 : gs[w] = es[w]
    <3>1. PICK w \in 1 .. j - 1 : es[w].a = v
      BY <1>2, <2>1 DEF ReadsKnown
    <3> QED BY <2>1, <3>1
  <2>2. CASE /\ j - Len(es) \in 1 .. Len(fs) /\ gs[j] = fs[j - Len(es)]
             /\ \A w \in 1 .. Len(es) : w \in 1 .. j - 1 /\ gs[w] = es[w]
             /\ \A w \in 1 .. (j - Len(es)) - 1 :
                  Len(es) + w \in 1 .. j - 1 /\ gs[Len(es) + w] = fs[w]
    <3>1. v \in more \/ \E w \in 1 .. (j - Len(es)) - 1 : fs[w].a = v
      BY <1>2, <2>2 DEF ReadsKnown
    <3>2. CASE v \in more
      <4>1. PICK w \in 1 .. Len(es) : es[w].a = v
        BY <1>2, <3>2 DEF WrittenIn
      <4> QED BY <2>2, <4>1
    <3>3. CASE \E w \in 1 .. (j - Len(es)) - 1 : fs[w].a = v
      BY <2>2, <3>3
    <3> QED BY <3>1, <3>2, <3>3
  <2> QED BY <1>1, <2>1, <2>2
<1> QED BY <1>2 DEF ReadsKnown, gs

LEMMA WrittenBoth ==
  ASSUME NEW X, NEW es \in Seq(X), NEW fs \in Seq(X)
  PROVE  /\ WrittenIn(es) \cup WrittenIn(fs) \subseteq WrittenIn(es \o fs)
         /\ NoParams(es) /\ NoParams(fs) => NoParams(es \o fs)
<1> DEFINE gs == es \o fs
<1>1. /\ \A j \in 1 .. Len(es) : j \in 1 .. Len(gs) /\ gs[j] = es[j]
      /\ \A j \in 1 .. Len(fs) : Len(es) + j \in 1 .. Len(gs) /\ gs[Len(es) + j] = fs[j]
      /\ \A j \in 1 .. Len(gs) : \/ j \in 1 .. Len(es) /\ gs[j] = es[j]
                                 \/ j - Len(es) \in 1 .. Len(fs) /\ gs[j] = fs[j - Len(es)]
  OBVIOUS
<1> HIDE DEF gs
<1>2. WrittenIn(es) \subseteq WrittenIn(gs)
  <2> SUFFICES ASSUME NEW j \in 1 .. Len(es) PROVE es[j].a \in WrittenIn(gs)
    BY DEF WrittenIn
  <2>1. j \in 1 .. Len(gs) /\ gs[j] = es[j]
    BY <1>1
  <2> QED BY <2>1 DEF WrittenIn
<1>4. WrittenIn(fs) \subseteq WrittenIn(gs)
  <2> SUFFICES ASSUME NEW j \in 1 .. Len(fs) PROVE fs[j].a \in WrittenIn(gs)
    BY DEF WrittenIn
  <2> DEFINE w == Len(es) + j
  <2>1. w \in 1 .. Len(gs) /\ gs[w] = fs[j]
    BY <1>1
  <2> HIDE DEF w
  <2> QED BY <2>1 DEF WrittenIn
<1>3. NoParams(es) /\ NoParams(fs) => NoParams(gs)
  BY <1>1 DEF NoParams
<1> QED BY <1>2, <1>3, <1>4 DEF gs

LEMMA OneEntry ==
  ASSUME NEW e, NEW known
  PROVE  /\ WrittenIn(<<e>>) = {e.a}
         /\ {e.b, e.c} \ {-1} \subseteq known => ReadsKnown(<<e>>, known)
         /\ e.type # "param" => NoParams(<<e>>)
<1> DEFINE es == <<e>>
<1>1. Len(es) = 1 /\ es[1] = e
  OBVIOUS
<1> HIDE DEF es
<1>2. \A j : j \in 1 .. Len(es) <=> j = 1
  BY <1>1
<1>3. WrittenIn(es) = {e.a}
  BY <1>1, <1>2 DEF WrittenIn
<1>4. {e.b, e.c} \ {-1} \subseteq known => ReadsKnown(es, known)
  BY <1>1, <1>2 DEF ReadsKnown
<1>5. e.type # "param" => NoParams(es)
  BY <1>1, <1>2 DEF NoParams
<1> QED BY <1>3, <1>4, <1>5 DEF es

\* The entries of the object at k read the expression's variables and what
\* they wrote; the value is in a variable of the expression or written.
ReadsOwn(exp, l, given, from) ==
  LET added == AddObject(exp, l, given, from) IN
  /\ ReadsKnown(added.entries, Uses(exp)) /\ NoParams(added.entries)
  /\ added.id \in IF exp[l].type = "var" THEN Uses(exp) ELSE WrittenIn(added.entries)

LEMMA AddReads ==
  ASSUME NEW u \in Nat, NEW exp, IsExpression(exp, 0 .. u - 1)
  PROVE  \A l \in 1 .. Len(exp) : \A from \in Nat, given \in -1 .. u - 1 :
           u <= from => ReadsOwn(exp, l, given, from)
<1> DEFINE T == {l \in Nat : l \in 1 .. Len(exp) =>
             \A from \in Nat, given \in -1 .. u - 1 : u <= from => ReadsOwn(exp, l, given, from)}
<1>1. Len(exp) \in Nat
  BY DEF IsExpression
<1>2. \A l \in Nat : (\A j \in Nat : j < l => j \in T) => l \in T
  <2> SUFFICES ASSUME NEW l \in 1 .. Len(exp), \A j \in Nat : j < l => j \in T,
                      NEW from \in Nat, NEW given \in -1 .. u - 1, u <= from
               PROVE  ReadsOwn(exp, l, given, from)
    BY <1>1
  <2> DEFINE R == AddObject(exp, l, given, from)
             known == Uses(exp)
  <2>1. CASE exp[l].type = "var"
    <3>1. Shape(exp, l, given, from)
      BY AddShape
    <3>2. R.entries = <<>> /\ R.id = exp[l].num
      BY <2>1, <3>1 DEF Shape
    <3>3. exp[l].num \in known
      BY <2>1 DEF Uses
    <3> HIDE DEF R, known
    <3>4. Len(R.entries) = 0
      BY <3>2
    <3>5. ReadsKnown(R.entries, known) /\ NoParams(R.entries)
      BY <3>4 DEF ReadsKnown, NoParams
    <3> QED BY <2>1, <3>2, <3>3, <3>5 DEF ReadsOwn, R, known
  <2>2. CASE exp[l].type = "num"
    <3> DEFINE e == Entry("assign", R.id, -1, -1, exp[l].num)
    <3>1. R.entries = <<e>>
      <4>1. R.entries = <<e>> /\ R.next = (IF given = -1 THEN from + 1 ELSE from)
        BY <2>2, AddNumber
      <4> QED BY <4>1
    <3>2. e.a = R.id /\ e.b = -1 /\ e.c = -1 /\ e.type = "assign"
      BY DEF Entry
    <3> HIDE DEF R, e, known
    <3>3. {e.b, e.c} \ {-1} \subseteq known /\ e.type # "param"
      BY <3>2
    <3>4. ReadsKnown(R.entries, known) /\ NoParams(R.entries) /\ R.id \in WrittenIn(R.entries)
      BY <3>1, <3>2, <3>3, OneEntry
    <3> QED BY <2>2, <3>4 DEF ReadsOwn, R, known
  <2>3. CASE exp[l].type \in Ops
    <3>1. PICK n, one, other : n \in Nat /\ OfOperands(exp, l, given, from, n, one, other)
      BY <2>3, AddOperation
    <3> DEFINE e == exp[l]
               a == First(e)
               b == Second(e)
               last == Operation(e.type, R.id, one.id, other.id)
               es == one.entries
               fs == other.entries
               p == one.next
               q == other.next
               X == CodeOver(q)
    <3>2. /\ n = (IF given = -1 THEN from + 1 ELSE from)
          /\ a \in 1 .. l - 1 /\ a \in 1 .. Len(exp) /\ b \in 1 .. l - 1 /\ b \in 1 .. Len(exp)
          /\ one = AddObject(exp, a, -1, n) /\ Shape(exp, a, -1, n)
          /\ other = AddObject(exp, b, -1, p) /\ Shape(exp, b, -1, p)
          /\ R.entries = es \o fs \o <<last>>
          /\ R.id = IF given = -1 THEN from ELSE given
      BY <3>1, Zenon DEF OfOperands
    <3>3. /\ p \in Nat /\ n <= p /\ es \in Seq(CodeOver(p))
      BY <3>2 DEF Shape
    <3>4. /\ q \in Nat /\ p <= q /\ fs \in Seq(X)
      <4> HIDE DEF p, q, fs
      <4> QED BY <3>2 DEF Shape, q, fs
    <3>5. u <= n /\ u <= p /\ -1 \in -1 .. u - 1
      <4> HIDE DEF a, b, p
      <4> QED BY <3>2, <3>3
    <3>6. a \in T /\ b \in T
      <4>1. a \in Nat /\ a < l /\ b \in Nat /\ b < l
        <5>1. l \in Int
          BY <1>1
        <5> HIDE DEF a, b
        <5> QED BY <3>2, <5>1
      <4> HIDE DEF a, b, T
      <4> QED BY <4>1
    <3>7. ReadsOwn(exp, a, -1, n) /\ ReadsOwn(exp, b, -1, p)
      <4> HIDE DEF a, b, p
      <4> QED BY SMTT(30), <3>2, <3>3, <3>5, <3>6
    <3>8. /\ ReadsKnown(es, known) /\ NoParams(es)
          /\ one.id \in known \cup WrittenIn(es)
      BY <3>2, <3>7 DEF ReadsOwn
    <3>9. /\ ReadsKnown(fs, known) /\ NoParams(fs)
          /\ other.id \in known \cup WrittenIn(fs)
      <4> HIDE DEF p, fs, known
      <4> QED BY <3>2, <3>7 DEF ReadsOwn, fs, known
    <3>10. es \in Seq(X)
      BY <3>3, <3>4, CodeGrows
    <3>11. Shape(exp, l, given, from) /\ R.next = q
      <4>1. R.next = q
        BY <3>1, Zenon DEF OfOperands
      <4> HIDE DEF R
      <4> QED BY <4>1, AddShape
    <3>12. R.entries \in Seq(X)
      BY <3>11 DEF Shape
    <3> DEFINE gs == es \o fs
    <3>13. last.a = R.id /\ {last.b, last.c} = {one.id, other.id} /\ last.type # "param"
      <4> HIDE DEF R
      <4> QED BY <2>3 DEF Operation, Entry, Ops
    <3> HIDE DEF es, fs, last, X, R, known, e
    <3>14. gs \in Seq(X) /\ WrittenIn(es) \cup WrittenIn(fs) \subseteq WrittenIn(gs) /\ NoParams(gs)
      BY <3>4, <3>8, <3>9, <3>10, WrittenBoth
    <3>15. ReadsKnown(gs, known)
      <4>1. known \subseteq known \cup WrittenIn(es)
        OBVIOUS
      <4> QED BY <3>4, <3>8, <3>9, <3>10, <4>1, ReadsBoth
    <3> DEFINE ls == <<last>>
               more == known \cup WrittenIn(gs)
    <3>16. ReadsKnown(ls, more) /\ NoParams(ls) /\ WrittenIn(ls) = {R.id}
      <4>1. {last.b, last.c} \ {-1} \subseteq more
        BY <3>8, <3>9, <3>13, <3>14
      <4> HIDE DEF more
      <4> QED BY <3>13, <4>1, OneEntry
    <3>17. ls \in Seq(X)
      <4>1. R.entries = gs \o ls /\ Len(ls) = 1 /\ ls[1] = last
        BY <3>2
      <4>2. Len(gs) + 1 \in 1 .. Len(R.entries) /\ R.entries[Len(gs) + 1] = last
        <5> HIDE DEF gs
        <5> QED BY <3>14, <4>1
      <4>3. last \in X
        <5> HIDE DEF gs, ls
        <5> QED BY <3>12, <4>2
      <4> QED BY <4>3
    <3> HIDE DEF ls, gs
    <3>18. ReadsKnown(gs \o ls, known) /\ NoParams(gs \o ls) /\ R.id \in WrittenIn(gs \o ls)
      <4>1. ReadsKnown(gs \o ls, known)
        BY <3>14, <3>15, <3>16, <3>17, ReadsBoth
      <4>2. NoParams(gs \o ls) /\ WrittenIn(ls) \subseteq WrittenIn(gs \o ls)
        BY <3>14, <3>16, <3>17, WrittenBoth
      <4> QED BY <3>16, <4>1, <4>2
    <3>19. R.entries = gs \o ls
      BY <3>2 DEF gs, ls
    <3>20. exp[l].type # "var"
      BY <2>3 DEF Ops
    <3> QED BY <3>18, <3>19, <3>20 DEF ReadsOwn, R, known
  <2> QED BY <2>1, <2>2, <2>3 DEF IsExpression
<1>3. Nat \subseteq T
  <2> HIDE DEF T
  <2> QED BY <1>2, AllNumbersBelow
<1> QED BY <1>1, <1>3

\* The parameters have the first entries, in order, and no others.
Numbered(f, j, es) ==
  /\ IF j <= Len(f.params) THEN Len(es) = j ELSE Len(f.params) <= Len(es)
  /\ \A h \in 1 .. Len(es) :
       IF h <= Len(f.params) THEN es[h] = Entry("param", f.params[h], -1, -1, h - 1)
       ELSE es[h].type # "param"

LEMMA NumberedOn ==
  ASSUME NEW f, Len(f.params) \in Nat, NEW j \in Nat, Len(f.params) <= j,
         NEW X, NEW es \in Seq(X), NEW fs \in Seq(X),
         Numbered(f, j, es), NoParams(fs)
  PROVE  Numbered(f, j + 1, es \o fs)
<1> DEFINE gs == es \o fs
           p == Len(f.params)
<1>1. /\ Len(es) \in Nat /\ Len(fs) \in Nat /\ Len(gs) = Len(es) + Len(fs)
      /\ \A h \in 1 .. Len(es) : gs[h] = es[h]
      /\ \A h \in 1 .. Len(gs) : h > Len(es) => h - Len(es) \in 1 .. Len(fs) /\ gs[h] = fs[h - Len(es)]
  OBVIOUS
<1>2. p \in Nat /\ p <= j /\ p <= Len(es)
  <2>1. IF j <= p THEN Len(es) = j ELSE p <= Len(es)
    BY DEF Numbered
  <2>2. p \in Nat /\ p <= j
    OBVIOUS
  <2> HIDE DEF p
  <2> QED BY <1>1, <2>1, <2>2
<1>3. \A h \in 1 .. Len(es) :
        IF h <= p THEN es[h] = Entry("param", f.params[h], -1, -1, h - 1) ELSE es[h].type # "param"
  BY DEF Numbered
<1> HIDE DEF gs, p
<1>4. IF j + 1 <= p THEN Len(gs) = j + 1 ELSE p <= Len(gs)
  BY <1>1, <1>2
<1>5. ASSUME NEW h \in 1 .. Len(gs)
      PROVE  IF h <= p THEN gs[h] = Entry("param", f.params[h], -1, -1, h - 1) ELSE gs[h].type # "param"
  <2>1. CASE h <= Len(es)
    <3>1. h \in 1 .. Len(es) /\ gs[h] = es[h]
      BY <1>1, <2>1
    <3> QED BY <1>3, <3>1
  <2>2. CASE h > Len(es)
    <3>1. h - Len(es) \in 1 .. Len(fs) /\ gs[h] = fs[h - Len(es)] /\ ~(h <= p)
      BY <1>1, <1>2, <2>2
    <3> QED BY <3>1 DEF NoParams
  <2> QED BY <1>1, <2>1, <2>2
<1> QED BY <1>4, <1>5 DEF Numbered, gs, p

LEMMA NumberedParam ==
  ASSUME NEW f, Len(f.params) \in Nat, NEW j \in Nat, j < Len(f.params),
         NEW X, NEW es \in Seq(X), NEW e \in X, e = Entry("param", f.params[j + 1], -1, -1, j),
         Numbered(f, j, es)
  PROVE  Numbered(f, j + 1, es \o <<e>>)
<1> DEFINE gs == es \o <<e>>
           p == Len(f.params)
<1>1. /\ Len(es) \in Nat /\ Len(gs) = Len(es) + 1
      /\ \A h \in 1 .. Len(es) : gs[h] = es[h]
      /\ gs[Len(es) + 1] = e
  OBVIOUS
<1>2. p \in Nat /\ j < p /\ Len(es) = j
  <2>1. IF j <= p THEN Len(es) = j ELSE p <= Len(es)
    BY DEF Numbered
  <2>2. p \in Nat /\ j < p
    OBVIOUS
  <2> HIDE DEF p
  <2> QED BY <2>1, <2>2
<1>3. \A h \in 1 .. Len(es) :
        IF h <= p THEN es[h] = Entry("param", f.params[h], -1, -1, h - 1) ELSE es[h].type # "param"
  BY DEF Numbered
<1> HIDE DEF gs, p
<1>4. IF j + 1 <= p THEN Len(gs) = j + 1 ELSE p <= Len(gs)
  BY <1>1, <1>2
<1>5. ASSUME NEW h \in 1 .. Len(gs)
      PROVE  IF h <= p THEN gs[h] = Entry("param", f.params[h], -1, -1, h - 1) ELSE gs[h].type # "param"
  <2>1. CASE h <= Len(es)
    <3>1. h \in 1 .. Len(es) /\ gs[h] = es[h]
      BY <1>1, <2>1
    <3> QED BY <1>3, <3>1
  <2>2. CASE h = j + 1
    <3>1. h - 1 = j /\ h <= p
      BY <1>2, <2>2
    <3> QED BY <1>1, <1>2, <2>2, <3>1
  <2> QED BY <1>1, <1>2, <2>1, <2>2
<1> QED BY <1>4, <1>5 DEF Numbered, gs, p

\* v has a value after j parameters and statements, if they are reached.
SetBy(f, v, j) ==
  \/ \E p \in 1 .. Len(f.params) : p <= j /\ f.params[p] = v
  \/ \E h \in 1 .. Len(f.statements) :
       h <= j - Len(f.params) /\ f.statements[h].type = "decl" /\ f.statements[h].var = v

\* What has a value was written, and every read comes after a write.
KnownSoFar(f, j, es) ==
  Supported(f) => ReadsKnown(es, {}) /\ \A v : SetBy(f, v, j) => v \in WrittenIn(es)

\* The entries fs for the j-th statement or parameter read what is there and
\* write the variable that it sets.
LEMMA KnownOn ==
  ASSUME NEW f, NEW j \in Nat, NEW X, NEW es \in Seq(X), NEW fs \in Seq(X),
         KnownSoFar(f, j, es),
         Supported(f) => /\ ReadsKnown(fs, WrittenIn(es))
                         /\ \A v : SetBy(f, v, j + 1) => SetBy(f, v, j) \/ v \in WrittenIn(fs)
  PROVE  KnownSoFar(f, j + 1, es \o fs)
<1> SUFFICES ASSUME Supported(f)
             PROVE  /\ ReadsKnown(es \o fs, {})
                    /\ \A v : SetBy(f, v, j + 1) => v \in WrittenIn(es \o fs)
  BY DEF KnownSoFar
<1>1. ReadsKnown(es, {}) /\ \A v : SetBy(f, v, j) => v \in WrittenIn(es)
  BY DEF KnownSoFar
<1>2. WrittenIn(es) \subseteq {} \cup WrittenIn(es)
  OBVIOUS
<1>3. ReadsKnown(es \o fs, {})
  BY <1>1, <1>2, ReadsBoth
<1>4. WrittenIn(es) \cup WrittenIn(fs) \subseteq WrittenIn(es \o fs)
  BY WrittenBoth
<1> QED BY <1>1, <1>3, <1>4

-----------------------------------------------------------------------------
(***************************************************************************)
(* What the constructor has built when it has dealt with the first j       *)
(* parameters and statements of f: this is inductive.                      *)
(***************************************************************************)
CopiedBy(f, j) == \E h \in 1 .. Len(f.statements) : h <= j - Len(f.params) /\ Copies(f.statements[h])

Built(f, j, next, es) ==
  /\ IsFunction(f) /\ j \in 0 .. Count(f)
  /\ next \in Nat /\ f.n_user <= next /\ es \in Seq(CodeOver(next))
  /\ OneUseSoFar(es, f.n_user, next)
  /\ CopiedBy(f, j) \/ MeansSoFar(f, es, next, j)
  /\ Numbered(f, j, es)
  /\ KnownSoFar(f, j, es)

LEMMA Places ==
  ASSUME NEW f, IsFunction(f), NEW j \in 0 .. Count(f)
  PROVE  /\ f.n_user \in Nat /\ Len(f.params) \in Nat /\ j \in Nat
         /\ j < Len(f.params) =>
              /\ j + 1 \in 0 .. Count(f) /\ j + 1 \in 1 .. Len(f.params)
              /\ \A h \in 1 .. Len(f.statements) : ~(h <= j - Len(f.params)) /\ ~(h <= (j + 1) - Len(f.params))
              /\ \A p \in 1 .. Len(f.params) : p <= j + 1 => p <= j \/ p = j + 1
         /\ Len(f.params) <= j /\ j < Count(f) =>
              LET n == j - Len(f.params) + 1 IN
              /\ j + 1 \in 0 .. Count(f) /\ n \in 1 .. Len(f.statements)
              /\ n <= (j + 1) - Len(f.params)
              /\ \A p \in 1 .. Len(f.params) : p <= j
              /\ \A h \in 1 .. n - 1 : h \in 1 .. Len(f.statements) /\ h <= j - Len(f.params)
              /\ \A h \in 1 .. Len(f.statements) :
                   /\ h <= j - Len(f.params) => h <= (j + 1) - Len(f.params)
                   /\ h <= (j + 1) - Len(f.params) => h <= j - Len(f.params) \/ h = n
<1> DEFINE p == Len(f.params)
           c == Len(f.statements)
           all == Count(f)
<1>1. f.n_user \in Nat /\ p \in Nat /\ c \in Nat /\ all = p + c /\ j \in 0 .. all
  BY FunctionParts DEF Count
<1> HIDE DEF p, c, all
<1>2. j \in Nat
  BY <1>1
<1>3. ASSUME j < p
      PROVE  /\ j + 1 \in 0 .. all /\ j + 1 \in 1 .. p
             /\ \A h \in 1 .. c : ~(h <= j - p) /\ ~(h <= (j + 1) - p)
             /\ \A h \in 1 .. p : h <= j + 1 => h <= j \/ h = j + 1
  BY <1>1, <1>2, <1>3
<1>4. ASSUME p <= j, j < all
      PROVE  LET n == j - p + 1 IN
             /\ j + 1 \in 0 .. all /\ n \in 1 .. c /\ n <= (j + 1) - p
             /\ \A h \in 1 .. p : h <= j
             /\ \A h \in 1 .. n - 1 : h \in 1 .. c /\ h <= j - p
             /\ \A h \in 1 .. c : /\ h <= j - p => h <= (j + 1) - p
                                  /\ h <= (j + 1) - p => h <= j - p \/ h = n
  BY <1>1, <1>2, <1>4
<1> QED BY <1>1, <1>2, <1>3, <1>4 DEF p, c, all

LEMMA BuiltStart ==
  ASSUME NEW f, IsFunction(f)
  PROVE  Built(f, 0, f.n_user, <<>>)
<1> DEFINE es == <<>>
           u == f.n_user
<1>1. /\ u \in Nat /\ Len(f.params) \in Nat /\ Len(f.statements) \in Nat /\ Count(f) \in Nat
      /\ u <= u
  <2>1. u \in Nat /\ Len(f.params) \in Nat /\ Len(f.statements) \in Nat /\ Count(f) \in Nat
    BY FunctionParts
  <2> HIDE DEF u
  <2> QED BY <2>1
<1>2. es \in Seq(CodeOver(u)) /\ Len(es) = 0
  OBVIOUS
<1>3. OneUseSoFar(es, u, u)
  <2> HIDE DEF u
  <2> QED BY <1>1 DEF OneUseSoFar
<1>4. MeansSoFar(f, es, u, 0)
  <2> SUFFICES ASSUME NEW given \in Given, NEW n \in Nat, u <= n
               PROVE  Agrees(RunAll(Unwritten(0 .. n - 1), es, given), RunOf(f, given, 0), u)
    BY DEF MeansSoFar
  <2>1. /\ RunAll(Unwritten(0 .. n - 1), es, given) = Unwritten(0 .. n - 1)
        /\ RunOf(f, given, 0) = Unwritten(0 .. u - 1)
    BY UnwrittenRun, RunNone, RunOfDefined
  <2>2. \A v \in 0 .. u - 1 : v \in 0 .. n - 1
    <3> HIDE DEF u
    <3> QED BY <1>1
  <2>3. Agrees(Unwritten(0 .. n - 1), Unwritten(0 .. u - 1), u)
    <3> HIDE DEF u
    <3> QED BY <2>2 DEF Agrees, Unwritten
  <2> HIDE DEF u, es
  <2> QED BY <2>1, <2>3
<1>5. Numbered(f, 0, es)
  <2> HIDE DEF es
  <2> QED BY <1>1, <1>2 DEF Numbered
<1>6. KnownSoFar(f, 0, es)
  <2>1. ReadsKnown(es, {})
    <3> HIDE DEF es
    <3> QED BY <1>2 DEF ReadsKnown
  <2>2. \A v : ~SetBy(f, v, 0)
    BY <1>1 DEF SetBy
  <2> QED BY <2>1, <2>2 DEF KnownSoFar
<1>7. 0 \in 0 .. Count(f)
  BY <1>1
<1> HIDE DEF es, u
<1> QED BY <1>1, <1>2, <1>3, <1>4, <1>5, <1>6, <1>7 DEF Built, u, es

LEMMA BuiltParam ==
  ASSUME NEW f, NEW j, NEW next, NEW es, Built(f, j, next, es), j < Len(f.params)
  PROVE  Built(f, j + 1, next, Append(es, Entry("param", f.params[j + 1], -1, -1, j)))
<1> DEFINE v == f.params[j + 1]
           e == Entry("param", v, -1, -1, j)
           X == CodeOver(next)
           u == f.n_user
<1>1. /\ IsFunction(f) /\ j \in 0 .. Count(f) /\ next \in Nat /\ f.n_user <= next
      /\ es \in Seq(X) /\ OneUseSoFar(es, u, next)
      /\ CopiedBy(f, j) \/ MeansSoFar(f, es, next, j)
      /\ Numbered(f, j, es) /\ KnownSoFar(f, j, es)
  BY DEF Built
<1>2. /\ u \in Nat /\ Len(f.params) \in Nat /\ j \in Nat
      /\ j + 1 \in 0 .. Count(f) /\ j + 1 \in 1 .. Len(f.params)
      /\ \A h \in 1 .. Len(f.statements) : ~(h <= j - Len(f.params)) /\ ~(h <= (j + 1) - Len(f.params))
      /\ \A p \in 1 .. Len(f.params) : p <= j + 1 => p <= j \/ p = j + 1
  BY <1>1, Places
<1>3. ~CopiedBy(f, j)
  BY <1>2 DEF CopiedBy
<1>4. e \in X /\ MeansSoFar(f, es \o <<e>>, next, j + 1)
  BY <1>1, <1>2, <1>3, ParamMeans
<1>5. v \in 0 .. u - 1
  BY <1>1, <1>2, FunctionParts
<1>6. e.a = v /\ e.b = -1 /\ e.c = -1
  BY DEF Entry
<1>7. OneUseSoFar(es \o <<e>>, u, next)
  <2>1. e.a < u /\ u <= next
    <3>1. u <= next
      BY <1>1
    <3> HIDE DEF u, v, e
    <3> QED BY <1>2, <1>5, <1>6, <3>1
  <2> HIDE DEF u, e
  <2> QED BY <1>1, <1>2, <1>4, <1>6, <2>1, ParamTemps
<1>8. Numbered(f, j + 1, es \o <<e>>)
  BY <1>1, <1>2, <1>4, NumberedParam
<1>9. KnownSoFar(f, j + 1, es \o <<e>>)
  <2>1. WrittenIn(<<e>>) = {v} /\ ReadsKnown(<<e>>, WrittenIn(es))
    <3> HIDE DEF e, v
    <3> QED BY <1>6, OneEntry
  <2>2. ASSUME NEW w, SetBy(f, w, j + 1) PROVE SetBy(f, w, j) \/ w = v
    <3>1. PICK p \in 1 .. Len(f.params) : p <= j + 1 /\ f.params[p] = w
      BY <1>2, <2>2 DEF SetBy
    <3>2. p <= j \/ p = j + 1
      BY <1>2, <3>1
    <3> QED BY <3>1, <3>2 DEF SetBy
  <2>3. <<e>> \in Seq(X)
    <3> HIDE DEF e, X
    <3> QED BY <1>4
  <2> HIDE DEF e, v, X
  <2> QED BY <1>1, <1>2, <2>1, <2>2, <2>3, KnownOn
<1>10. Append(es, e) = es \o <<e>> /\ es \o <<e>> \in Seq(X)
  <2> HIDE DEF e, X
  <2> QED BY <1>1, <1>4
<1>11. Built(f, j + 1, next, es \o <<e>>)
  <2> HIDE DEF e, v
  <2> QED BY <1>1, <1>2, <1>4, <1>7, <1>8, <1>9, <1>10 DEF Built, X, u
<1> HIDE DEF e, X
<1> QED BY <1>10, <1>11 DEF e

\* What the next statement of f adds
LEMMA BuiltOn ==
  ASSUME NEW f, NEW j, NEW next, NEW es, Built(f, j, next, es),
         Len(f.params) <= j, j < Count(f),
         NEW stmt, stmt = f.statements[j - Len(f.params) + 1],
         NEW after, NEW fs, after \in Nat, next <= after, es \o fs \in Seq(CodeOver(after)),
         fs \in Seq(CodeOver(after)), NoParams(fs),
         OneUseSoFar(es \o fs, f.n_user, after),
         MeansSoFar(f, es, next, j) /\ ~Copies(stmt) => MeansSoFar(f, es \o fs, after, j + 1),
         ~Copies(stmt) => /\ ReadsKnown(fs, Uses(stmt.exp))
                          /\ stmt.type = "decl" => stmt.var \in WrittenIn(fs)
  PROVE  Built(f, j + 1, after, es \o fs)
<1> DEFINE n == j - Len(f.params) + 1
           X == CodeOver(after)
<1>1. /\ IsFunction(f) /\ j \in 0 .. Count(f) /\ next \in Nat /\ f.n_user <= next
      /\ es \in Seq(CodeOver(next))
      /\ CopiedBy(f, j) \/ MeansSoFar(f, es, next, j)
      /\ Numbered(f, j, es) /\ KnownSoFar(f, j, es)
  BY DEF Built
<1>2. /\ f.n_user \in Nat /\ Len(f.params) \in Nat /\ j \in Nat
      /\ j + 1 \in 0 .. Count(f) /\ n \in 1 .. Len(f.statements)
      /\ n <= (j + 1) - Len(f.params)
      /\ \A p \in 1 .. Len(f.params) : p <= j
      /\ \A h \in 1 .. n - 1 : h \in 1 .. Len(f.statements) /\ h <= j - Len(f.params)
      /\ \A h \in 1 .. Len(f.statements) :
           /\ h <= j - Len(f.params) => h <= (j + 1) - Len(f.params)
           /\ h <= (j + 1) - Len(f.params) => h <= j - Len(f.params) \/ h = n
  BY <1>1, Places
<1>3. stmt = f.statements[n]
  OBVIOUS
<1> HIDE DEF n
<1>4. CopiedBy(f, j + 1) \/ MeansSoFar(f, es \o fs, after, j + 1)
  <2>1. CopiedBy(f, j) => CopiedBy(f, j + 1)
    BY <1>2 DEF CopiedBy
  <2>2. Copies(stmt) => CopiedBy(f, j + 1)
    BY <1>2, <1>3 DEF CopiedBy
  <2> QED BY <1>1, <2>1, <2>2
<1>5. es \in Seq(X)
  <2> HIDE DEF X
  <2> QED BY <1>1, CodeGrows DEF X
<1>6. Numbered(f, j + 1, es \o fs)
  <2> HIDE DEF X
  <2>1. fs \in Seq(X)
    BY DEF X
  <2> QED BY <1>1, <1>2, <1>5, <2>1, NumberedOn
<1>7. KnownSoFar(f, j + 1, es \o fs)
  <2>1. ASSUME Supported(f) PROVE ReadsKnown(fs, WrittenIn(es))
    <3>1. ~Copies(stmt) /\ \A v \in Uses(stmt.exp) : Set(f, v, n)
      BY <1>2, <1>3, <2>1 DEF Supported
    <3>2. \A v : SetBy(f, v, j) => v \in WrittenIn(es)
      BY <1>1, <2>1 DEF KnownSoFar
    <3>3. ASSUME NEW v, Set(f, v, n) PROVE SetBy(f, v, j)
      BY <1>2, <3>3 DEF Set, SetBy
    <3>4. ReadsKnown(fs, Uses(stmt.exp)) /\ Uses(stmt.exp) \subseteq WrittenIn(es)
      BY <3>1, <3>2, <3>3
    <3> QED BY <3>4 DEF ReadsKnown
  <2>2. ASSUME Supported(f), NEW v, SetBy(f, v, j + 1) PROVE SetBy(f, v, j) \/ v \in WrittenIn(fs)
    <3>1. ~Copies(stmt)
      BY <1>2, <1>3, <2>2 DEF Supported
    <3>2. CASE \E p \in 1 .. Len(f.params) : p <= j + 1 /\ f.params[p] = v
      BY <1>2, <3>2 DEF SetBy
    <3>3. CASE \E h \in 1 .. Len(f.statements) :
                 h <= (j + 1) - Len(f.params) /\ f.statements[h].type = "decl" /\ f.statements[h].var = v
      <4>1. PICK h \in 1 .. Len(f.statements) :
              h <= (j + 1) - Len(f.params) /\ f.statements[h].type = "decl" /\ f.statements[h].var = v
        BY <3>3
      <4>2. CASE h <= j - Len(f.params)
        BY <4>1, <4>2 DEF SetBy
      <4>3. CASE h = n
        BY <1>3, <3>1, <4>1, <4>3
      <4> QED BY <1>2, <4>1, <4>2, <4>3
    <3> QED BY <2>2, <3>2, <3>3 DEF SetBy
  <2>3. fs \in Seq(X)
    OBVIOUS
  <2> HIDE DEF X
  <2> QED BY <1>1, <1>2, <1>5, <2>1, <2>2, <2>3, KnownOn
<1>8. f.n_user <= after
  <2> DEFINE u == f.n_user
  <2>1. u \in Nat /\ u <= next /\ next <= after
    BY <1>1, <1>2
  <2> HIDE DEF u
  <2>2. u <= after
    BY <1>1, <2>1
  <2> QED BY <2>2 DEF u
<1> QED BY <1>1, <1>2, <1>4, <1>6, <1>7, <1>8 DEF Built

\* What add_from_exp() returns for the expression of a statement
LEMMA AddWhole ==
  ASSUME NEW u \in Nat, NEW exp, IsExpression(exp, 0 .. u - 1), NEW next \in Nat, u <= next,
         NEW given \in -1 .. u - 1,
         NEW added, added = AddObject(exp, Len(exp), given, next)
  PROVE  /\ ReadsKnown(added.entries, Uses(exp)) /\ NoParams(added.entries)
         /\ added.id \in Uses(exp) \cup WrittenIn(added.entries)
         /\ Whole(exp).type # "var" => added.id \in WrittenIn(added.entries)
         /\ Whole(exp).type # "var" /\ given # -1 => added.id = given
<1>1. Len(exp) \in 1 .. Len(exp)
  BY DEF IsExpression
<1>2. ReadsOwn(exp, Len(exp), given, next) /\ Shape(exp, Len(exp), given, next)
  BY <1>1, AddReads, AddShape
<1> QED BY SMTT(30), <1>2 DEF ReadsOwn, Shape, Whole

LEMMA BuiltDecl ==
  ASSUME NEW f, NEW j, NEW next, NEW es, Built(f, j, next, es),
         Len(f.params) <= j, j < Count(f),
         NEW stmt, stmt = f.statements[j - Len(f.params) + 1], stmt.type = "decl",
         NEW added, added = AddObject(stmt.exp, Len(stmt.exp), stmt.var, next)
  PROVE  Built(f, j + 1, added.next, es \o added.entries \o <<>>)
<1> DEFINE u == f.n_user
           exp == stmt.exp
           v == stmt.var
           fs == added.entries
           after == added.next
<1>1. /\ IsFunction(f) /\ next \in Nat /\ u <= next /\ es \in Seq(CodeOver(next))
      /\ OneUseSoFar(es, u, next) /\ j \in 0 .. Count(f)
  BY DEF Built
<1>2. u \in Nat /\ j \in Nat
  BY <1>1, Places
<1>3. IsStatement(stmt, 0 .. u - 1) /\ IsExpression(exp, 0 .. u - 1)
  BY <1>1, <1>2, StatementParts
<1>4. v \in 0 .. u - 1 /\ v \in -1 .. u - 1 /\ v # -1
  <2>1. v \in 0 .. u - 1
    BY <1>3 DEF IsStatement
  <2> HIDE DEF u, v
  <2> QED BY <1>2, <2>1
<1>5. /\ after \in Nat /\ next <= after /\ fs \in Seq(CodeOver(after))
      /\ es \o fs \in Seq(CodeOver(after))
  <2> HIDE DEF u, v, exp
  <2>1. added = AddObject(exp, Len(exp), v, next)
    BY DEF exp, v
  <2> QED BY <1>1, <1>2, <1>3, <1>4, <2>1, ExpressionTemps
<1>6. OneUseSoFar(es \o fs, u, after)
  <2> HIDE DEF u, v, exp
  <2>1. added = AddObject(exp, Len(exp), v, next)
    BY DEF exp, v
  <2> QED BY <1>1, <1>2, <1>3, <1>4, <2>1, DeclTemps
<1>7. /\ ReadsKnown(fs, Uses(exp)) /\ NoParams(fs)
      /\ ~Copies(stmt) => v \in WrittenIn(fs)
  <2>1. /\ ReadsKnown(fs, Uses(exp)) /\ NoParams(fs)
        /\ Whole(exp).type # "var" => v \in WrittenIn(fs)
    <3> HIDE DEF u, v, exp
    <3>1. added = AddObject(exp, Len(exp), v, next)
      BY DEF exp, v
    <3>2. /\ ReadsKnown(added.entries, Uses(exp)) /\ NoParams(added.entries)
          /\ Whole(exp).type # "var" => added.id \in WrittenIn(added.entries)
          /\ Whole(exp).type # "var" /\ v # -1 => added.id = v
      BY <1>1, <1>2, <1>3, <1>4, <3>1, AddWhole
    <3> QED BY <1>4, <3>2
  <2> QED BY <2>1 DEF Copies
<1>8. MeansSoFar(f, es, next, j) /\ ~Copies(stmt) => MeansSoFar(f, es \o fs, after, j + 1)
  BY <1>1, <1>2, DeclMeans
<1>9. Built(f, j + 1, after, es \o fs)
  <2> HIDE DEF after, fs
  <2> QED BY <1>5, <1>6, <1>7, <1>8, BuiltOn
<1>10. es \o fs \o <<>> = es \o fs
  <2> HIDE DEF after, fs
  <2> QED BY <1>5
<1> QED BY <1>9, <1>10

LEMMA AnswerAdded ==
  ASSUME NEW u \in Nat, NEW exp, IsExpression(exp, 0 .. u - 1), NEW next \in Nat, u <= next,
         NEW es \in Seq(CodeOver(next)), OneUseSoFar(es, u, next),
         NEW added, added = AddObject(exp, Len(exp), -1, next)
  PROVE  /\ added.next \in Nat /\ next <= added.next
         /\ es \in Seq(CodeOver(added.next)) /\ added.entries \in Seq(CodeOver(added.next))
         /\ es \o added.entries \in Seq(CodeOver(added.next))
         /\ ReadsKnown(added.entries, Uses(exp)) /\ NoParams(added.entries)
         /\ added.id \in Uses(exp) \cup WrittenIn(added.entries)
<1>1. -1 \in -1 .. u - 1
  OBVIOUS
<1>2. /\ added.next \in Nat /\ next <= added.next
      /\ es \in Seq(CodeOver(added.next)) /\ added.entries \in Seq(CodeOver(added.next))
      /\ es \o added.entries \in Seq(CodeOver(added.next))
  BY <1>1, ExpressionTemps
<1>3. /\ ReadsKnown(added.entries, Uses(exp)) /\ NoParams(added.entries)
      /\ added.id \in Uses(exp) \cup WrittenIn(added.entries)
  BY <1>1, AddWhole
<1> QED BY <1>2, <1>3

LEMMA BuiltReturn ==
  ASSUME NEW f, NEW j, NEW next, NEW es, Built(f, j, next, es),
         Len(f.params) <= j, j < Count(f),
         NEW stmt, stmt = f.statements[j - Len(f.params) + 1], stmt.type = "ret",
         NEW added, added = AddObject(stmt.exp, Len(stmt.exp), -1, next)
  PROVE  Built(f, j + 1, added.next, es \o added.entries \o <<Entry("ret", -1, added.id, -1, 0)>>)
<1> DEFINE u == f.n_user
           exp == stmt.exp
           gs == added.entries
           after == added.next
           e == Entry("ret", -1, added.id, -1, 0)
           X == CodeOver(after)
           fs == gs \o <<e>>
<1>1. /\ IsFunction(f) /\ next \in Nat /\ u <= next /\ es \in Seq(CodeOver(next))
      /\ OneUseSoFar(es, u, next) /\ j \in 0 .. Count(f)
  BY DEF Built
<1>2. u \in Nat /\ j \in Nat
  BY <1>1, Places
<1>3. IsExpression(exp, 0 .. u - 1)
  BY <1>1, <1>2, StatementParts
<1>4. added = AddObject(exp, Len(exp), -1, next)
  OBVIOUS
<1>5. /\ after \in Nat /\ next <= after /\ gs \in Seq(X) /\ es \in Seq(X)
      /\ es \o gs \in Seq(X)
  <2> HIDE DEF u, exp
  <2> QED BY <1>1, <1>2, <1>3, <1>4, AnswerAdded
<1>6. es \o gs \o <<e>> \in Seq(X) /\ OneUseSoFar(es \o gs \o <<e>>, u, after)
  <2> HIDE DEF u, exp
  <2>1. added = AddObject(exp, Len(exp), -1, next)
    BY DEF exp
  <2> QED BY <1>1, <1>2, <1>3, <2>1, ReturnTemps
<1>7. e \in X
  <2> DEFINE hs == es \o gs
             all == hs \o <<e>>
  <2>1. hs \in Seq(X) /\ all \in Seq(X)
    BY <1>5, <1>6
  <2> HIDE DEF hs, e, X
  <2>2. Len(all) = Len(hs) + 1 /\ Len(hs) \in Nat /\ all[Len(hs) + 1] = e
    BY <2>1
  <2> HIDE DEF all
  <2>3. all[Len(hs) + 1] \in X
    BY <2>1, <2>2
  <2> QED BY <2>2, <2>3
<1>8. e.a = -1 /\ e.b = added.id /\ e.c = -1 /\ e.type = "ret"
  BY DEF Entry
<1>9. <<e>> \in Seq(X) /\ fs \in Seq(X) /\ es \o gs \o <<e>> = es \o fs
  <2> HIDE DEF e, X, gs
  <2> QED BY <1>5, <1>7
<1>10. ReadsKnown(fs, Uses(exp)) /\ NoParams(fs)
  <2>1. /\ ReadsKnown(gs, Uses(exp)) /\ NoParams(gs)
        /\ added.id \in Uses(exp) \cup WrittenIn(gs)
    <3> HIDE DEF u, exp
    <3> QED BY <1>1, <1>2, <1>3, <1>4, AnswerAdded
  <2> DEFINE more == Uses(exp) \cup WrittenIn(gs)
  <2> HIDE DEF e, X, gs
  <2>2. ReadsKnown(<<e>>, more) /\ NoParams(<<e>>)
    <3>1. {e.b, e.c} \ {-1} \subseteq more /\ e.type # "param"
      BY <1>8, <2>1
    <3> HIDE DEF more
    <3> QED BY <3>1, OneEntry
  <2>3. more \subseteq Uses(exp) \cup WrittenIn(gs)
    OBVIOUS
  <2> HIDE DEF more, exp
  <2>4. ReadsKnown(gs \o <<e>>, Uses(exp))
    BY <1>5, <1>9, <2>1, <2>2, <2>3, ReadsBoth
  <2>5. NoParams(gs \o <<e>>)
    BY <1>5, <1>9, <2>1, <2>2, WrittenBoth
  <2> QED BY <2>4, <2>5
<1>11. MeansSoFar(f, es, next, j) => MeansSoFar(f, es \o gs \o <<e>>, after, j + 1)
  BY <1>1, <1>2, ReturnMeans
<1>12. Built(f, j + 1, after, es \o fs)
  <2>1. /\ after \in Nat /\ next <= after /\ es \o fs \in Seq(CodeOver(after)) /\ fs \in Seq(CodeOver(after))
        /\ OneUseSoFar(es \o fs, f.n_user, after)
        /\ MeansSoFar(f, es, next, j) => MeansSoFar(f, es \o fs, after, j + 1)
        /\ ReadsKnown(fs, Uses(stmt.exp)) /\ NoParams(fs)
    <3> HIDE DEF fs, e, gs
    <3> QED BY <1>5, <1>6, <1>9, <1>10, <1>11
  <2>2. stmt.type # "decl"
    OBVIOUS
  <2> HIDE DEF after, fs
  <2> QED BY <2>1, <2>2, BuiltOn
<1> HIDE DEF fs
<1> QED BY <1>9, <1>12

-----------------------------------------------------------------------------
(***************************************************************************)
(* The constructor keeps to that, step by step, and it is enough.          *)
(***************************************************************************)
IBuilt == Built(func, s, next_varid, entries)

LEMMA TacStep ==
  ASSUME IBuilt, TacNext
  PROVE  IBuilt' /\ func' = func
<1> DEFINE stmt == func.statements[s - Len(func.params) + 1]
<1>1. Built(func, s, next_varid, entries) /\ IsFunction(func) /\ s \in 0 .. Count(func)
  BY DEF IBuilt, Built
<1>2. s \in Nat /\ Len(func.params) \in Nat
  BY <1>1, Places
<1>3. CASE AddParam
  <2>1. Built(func, s + 1, next_varid, Append(entries, Entry("param", func.params[s + 1], -1, -1, s)))
    BY <1>1, <1>3, BuiltParam DEF AddParam
  <2> QED BY <1>3, <2>1 DEF AddParam, IBuilt
<1>4. ASSUME AtStatement(stmt.type)
      PROVE  Len(func.params) <= s /\ s < Count(func)
  <2>1. s \in Len(func.params) .. Count(func) - 1
    BY <1>4 DEF AtStatement
  <2>2. Count(func) \in Nat
    BY <1>1, FunctionParts
  <2> QED BY <1>2, <2>1, <2>2
<1>5. CASE AddDecl
  <2> DEFINE added == AddObject(stmt.exp, Len(stmt.exp), stmt.var, next_varid)
  <2>1. AtStatement(stmt.type) /\ stmt.type = "decl"
    BY <1>5 DEF AddDecl, AtStatement, Statement
  <2>2. Adds(added, <<>>)
    BY <1>5 DEF AddDecl, Statement, ForStatement, AddObject
  <2>3. /\ entries' = entries \o added.entries \o <<>> /\ next_varid' = added.next
        /\ s' = s + 1 /\ func' = func
    <3> HIDE DEF added
    <3> QED BY <2>2 DEF Adds
  <2>4. Built(func, s + 1, added.next, entries \o added.entries \o <<>>)
    BY <1>1, <1>4, <2>1, BuiltDecl
  <2> HIDE DEF added
  <2> QED BY <2>3, <2>4 DEF IBuilt
<1>6. CASE AddReturn
  <2> DEFINE added == AddObject(stmt.exp, Len(stmt.exp), -1, next_varid)
             last == <<Entry("ret", -1, added.id, -1, 0)>>
  <2>1. AtStatement(stmt.type) /\ stmt.type = "ret"
    BY <1>6 DEF AddReturn, AtStatement, Statement
  <2>2. Adds(added, last)
    BY <1>6 DEF AddReturn, Statement, ForStatement, AddObject
  <2>3. /\ entries' = entries \o added.entries \o last /\ next_varid' = added.next
        /\ s' = s + 1 /\ func' = func
    <3> HIDE DEF added, last
    <3> QED BY <2>2 DEF Adds
  <2>4. Built(func, s + 1, added.next, entries \o added.entries \o last)
    BY <1>1, <1>4, <2>1, BuiltReturn
  <2> HIDE DEF added, last
  <2> QED BY <2>3, <2>4 DEF IBuilt
<1> QED BY <1>3, <1>5, <1>6 DEF TacNext

LEMMA BuiltMeans ==
  ASSUME IBuilt
  PROVE  EntriesMeanTheSame
<1>1. /\ IsFunction(func) /\ next_varid \in Nat /\ entries \in Seq(CodeOver(next_varid))
      /\ CopiedBy(func, s) \/ MeansSoFar(func, entries, next_varid, s)
  BY DEF IBuilt, Built
<1>2. CASE CopiedBy(func, s)
  <2>1. PICK h \in 1 .. Len(func.statements) : h <= s - Len(func.params) /\ Copies(func.statements[h])
    BY <1>2 DEF CopiedBy
  <2>2. h \in StatementsDone
    BY <2>1 DEF StatementsDone
  <2> QED BY <2>1, <2>2 DEF EntriesMeanTheSame
<1>3. CASE MeansSoFar(func, entries, next_varid, s)
  <2> SUFFICES ASSUME NEW given \in Arguments
               PROVE  Agrees(EntriesRun(given), RunOf(func, given, s), func.n_user)
    BY DEF EntriesMeanTheSame, SameMeaning, Agrees
  <2>1. given \in Given
    BY ArgumentsAssumption DEF Given
  <2>2. next_varid <= next_varid
    BY <1>1
  <2>3. Agrees(RunAll(Unwritten(0 .. next_varid - 1), entries, given), RunOf(func, given, s), func.n_user)
    BY <1>1, <1>3, <2>1, <2>2 DEF MeansSoFar
  <2> QED BY <2>3 DEF RunAll, EntriesRun
<1> QED BY <1>1, <1>2, <1>3

LEMMA BuiltReadsOnce ==
  ASSUME IBuilt
  PROVE  TempsOfOneUse
<1>1. OneUseSoFar(entries, func.n_user, next_varid)
  BY DEF IBuilt, Built
<1> QED BY <1>1 DEF OneUseSoFar, UsedOnce, TempsOfOneUse, Temps

-----------------------------------------------------------------------------
(***************************************************************************)
(* The constructor: every function of a file starts it afresh, and the     *)
(* passes after it leave what it built alone.                              *)
(***************************************************************************)
InFile == file \in Files /\ at \in 1 .. Len(file) /\ Len(file) \in Nat

TacInv == InFile /\ func = file[at] /\ IBuilt

LEMMA ParsedFunction ==
  ASSUME InFile
  PROVE  IsFunction(file[at])
BY FilesAssumption DEF InFile

LEMMA TacInvInit ==
  ASSUME Init
  PROVE  TacInv
<1>1. InFile /\ func = file[at]
  <2>1. file \in Files /\ at = 1 /\ func = file[1]
    BY DEF Init, Construct
  <2> QED BY <2>1, FilesAssumption DEF InFile
<1>2. IBuilt
  <2>1. s = 0 /\ next_varid = func.n_user /\ entries = <<>>
    BY DEF Init, Construct
  <2> QED BY <1>1, <2>1, ParsedFunction, BuiltStart DEF IBuilt
<1> QED BY <1>1, <1>2 DEF TacInv

LEMMA TacInvStep ==
  ASSUME TacInv, [Next]_vars
  PROVE  TacInv'
<1> USE DEF InFile
<1>1. CASE MakeTac
  <2>1. TacNext /\ UNCHANGED <<file, at>>
    BY <1>1 DEF MakeTac, driverVars
  <2>2. IBuilt' /\ func' = func
    BY <2>1, TacStep DEF TacInv
  <2> QED BY <2>1, <2>2 DEF TacInv
<1>2. CASE NextFunction
  <2>1. /\ at' \in 1 .. Len(file) /\ file' = file /\ func' = file[at']
        /\ s' = 0 /\ next_varid' = func'.n_user /\ entries' = <<>>
    BY <1>2 DEF NextFunction, TacInv
  <2>2. InFile' /\ func' = file'[at']
    BY <2>1 DEF TacInv
  <2>3. IsFunction(func')
    BY <2>2, FilesAssumption
  <2>4. Built(func', s', next_varid', entries')
    BY <2>1, <2>3, BuiltStart
  <2> QED BY <2>2, <2>4 DEF TacInv, IBuilt
<1>3. ASSUME UNCHANGED <<file, at, func, s, next_varid, entries>>
      PROVE  TacInv'
  BY <1>3 DEF TacInv, IBuilt
<1>4. CASE StartLifeTimes
  BY <1>3, <1>4 DEF StartLifeTimes, tacVars
<1>5. CASE FindLifeTimes
  BY <1>3, <1>5 DEF FindLifeTimes, driverVars, tacVars
<1>6. CASE StartCompile
  BY <1>3, <1>6 DEF StartCompile, tacVars
<1>7. CASE Allocate
  BY <1>3, <1>7 DEF Allocate, driverVars, tacVars
<1>8. CASE StartCode
  BY <1>3, <1>8 DEF StartCode, tacVars
<1>9. CASE Run
  BY <1>3, <1>9 DEF Run, driverVars, tacVars
<1>10. CASE UNCHANGED vars
  BY <1>3, <1>10 DEF vars, driverVars, tacVars
<1> QED BY <1>1, <1>2, <1>4, <1>5, <1>6, <1>7, <1>8, <1>9, <1>10 DEF Next, Terminated

LEMMA TacInvariance == Spec => []TacInv
BY TacInvInit, TacInvStep, PTL DEF Spec

\* Whatever the function and whatever it is called with, the three-address
\* code leaves in every variable, and returns, what the statements say, at
\* every point of its construction, unless a statement copies a variable
\* (add_from_exp() and the tac constructor, tac.cpp).
THEOREM MeaningIsKept == Spec => []MeansTheSame
<1>1. TacInv => MeansTheSame
  BY BuiltMeans DEF TacInv, MeansTheSame
<1> QED BY <1>1, TacInvariance, PTL

\* Every temporary the constructor hands out is written once and read once
\* afterwards (next_varid in add_from_exp(), tac.cpp).
THEOREM TempsAreReadOnce == Spec => []TempsReadOnce
<1>1. TacInv => TempsReadOnce
  BY BuiltReadsOnce DEF TacInv, TempsReadOnce
<1> QED BY <1>1, TacInvariance, PTL

-----------------------------------------------------------------------------
(***************************************************************************)
(* The passes after the constructor, as the instances the theorems about   *)
(* them are cited from.  They differ from those of Compiler in the inputs  *)
(* they allow, which no step of theirs looks at.                           *)
(***************************************************************************)
MaxIds == 0 .. MaxVars - 1
OperandSet == MaxIds \cup {-1}
OperandLists == Seq([a : OperandSet, b : OperandSet, c : OperandSet])

Listed == {f \in [n_vars : Nat, live : SUBSET SUBSET Nat] : f.live \subseteq SUBSET (0 .. f.n_vars - 1)}

LP == INSTANCE LifeTimesProofs WITH
        NumVars <- MaxVars, Programs <- OperandLists, entries <- operands, i <- visited
AP == INSTANCE RegAllocProofs WITH Functions <- Listed, Ks <- {}, MaxGenerate <- 10

\* The assumptions of the instances
LEMMA LifeAssumptions ==
  MaxVars \in Nat /\ OperandLists \subseteq Seq(LP!Entry)
BY MaxVarsAssumption DEF OperandLists, OperandSet, MaxIds, LP!Entry, LP!Operands, LP!VarIds

LEMMA AllocAssumptions ==
  /\ \A f \in Listed : f.n_vars \in Nat /\ f.live \subseteq SUBSET AP!Ids(f.n_vars)
  /\ {} \subseteq Nat /\ 10 \in Nat
  /\ InitialRegs \in Seq(Nat)
  /\ \A p, q \in 1 .. Len(InitialRegs) : InitialRegs[p] = InitialRegs[q] => p = q
<1>1. C!Usable \subseteq Nat
  BY DEF C!Usable, C!Registers
<1>2. InitialRegs \in Seq(Nat)
  <2>1. Seq(C!Usable) \subseteq Seq(Nat)
    BY <1>1, SeqMonotonic, Zenon
  <2> QED BY <2>1, RegistersAssumption
<1>3. \A f \in Listed : f.n_vars \in Nat /\ f.live \subseteq SUBSET AP!Ids(f.n_vars)
  BY DEF Listed, AP!Ids
<1> QED BY <1>2, <1>3, RegistersAssumption DEF C!Distinct

\* A pass does the same in both instances.
LEMMA SameLifeTimes == (L!Next <=> LP!Next) /\ (L!Done <=> LP!Done)
BY DEF L!Next, LP!Next, L!Done, LP!Done, L!VisitWrite, LP!VisitWrite, L!VisitOther, LP!VisitOther,
  L!At, LP!At, L!Marked, LP!Marked, L!Indices, LP!Indices, L!Size, LP!Size, L!From, LP!From,
  L!OperandsRead, LP!OperandsRead, L!Opened, LP!Opened, L!Closed, LP!Closed

LEMMA SameStep == A!Step <=> AP!Step
BY DEF A!Step, AP!Step, A!ScanPush, AP!ScanPush, A!ScanKeep, AP!ScanKeep, A!NextPass, AP!NextPass,
  A!PickSpill, AP!PickSpill, A!StageTwo, AP!StageTwo, A!Pop, AP!Pop, A!StageThree, AP!StageThree,
  A!Place, AP!Place, A!Return, AP!Return, A!Vars, AP!Vars, A!Ids, AP!Ids,
  A!object, AP!object, A!history, AP!history, A!interference_nodes, AP!interference_nodes,
  A!interference_nodes_lt, AP!interference_nodes_lt, A!Neighbours, AP!Neighbours,
  A!MaxDegree, AP!MaxDegree, A!Searched, AP!Searched, A!Placed, AP!Placed, A!can_use, AP!can_use,
  A!try_add_reuse, AP!try_add_reuse, A!WithColor, AP!WithColor, A!RemoveSpill, AP!RemoveSpill,
  A!RestoreSpill, AP!RestoreSpill, A!StageThreeColors, AP!StageThreeColors, A!NextSlot, AP!NextSlot,
  A!Cardinality, AP!Cardinality

LEMMA SameAlloc ==
  /\ A!AllocInit <=> AP!AllocInit
  /\ \A f : A!StartCompile(f) <=> AP!StartCompile(f)
  /\ A!Compiling <=> AP!Compiling
<1>1. A!AllocInit <=> AP!AllocInit
  BY DEF A!AllocInit, AP!AllocInit, A!Init, AP!Init, A!EmptyMap, AP!EmptyMap
<1>2. \A f : A!StartCompile(f) <=> AP!StartCompile(f)
  BY DEF A!StartCompile, AP!StartCompile, A!Generate, AP!Generate, A!Running, AP!Running,
    A!Ids, AP!Ids, A!Edges, AP!Edges, A!EmptyMap, AP!EmptyMap
<1>3. \A regs : A!Enter(regs) <=> AP!Enter(regs)
  BY DEF A!Enter, AP!Enter, A!EmptyMap, AP!EmptyMap, A!object, AP!object, A!history, AP!history
<1>4. A!FirstColor <=> AP!FirstColor
  BY <1>3 DEF A!FirstColor, AP!FirstColor
<1>5. A!Coloring <=> AP!Coloring
  BY SameStep DEF A!Coloring, AP!Coloring, A!allocator, AP!allocator
<1>6. (A!KeepFirst <=> AP!KeepFirst) /\ (A!KeepSecond <=> AP!KeepSecond)
  BY DEF A!KeepFirst, AP!KeepFirst, A!KeepSecond, AP!KeepSecond, A!vars, AP!vars,
    A!object, AP!object, A!locals, AP!locals, A!history, AP!history
<1>7. A!Reserve <=> AP!Reserve
  BY <1>3 DEF A!Reserve, AP!Reserve, A!RegsLeft, AP!RegsLeft, A!SecondCount, AP!SecondCount
<1>8. A!SwapColors <=> AP!SwapColors
  BY DEF A!SwapColors, AP!SwapColors, A!vars, AP!vars, A!object, AP!object, A!locals, AP!locals,
    A!history, AP!history, A!try_swap_colors, AP!try_swap_colors, A!WithKey, AP!WithKey,
    A!OnStack, AP!OnStack, A!Exchanged, AP!Exchanged
<1> QED BY <1>1, <1>2, <1>4, <1>5, <1>6, <1>7, <1>8 DEF A!Compiling, AP!Compiling

-----------------------------------------------------------------------------
(***************************************************************************)
(* calculate_life_times(), on the operands of the entries.                 *)
(***************************************************************************)
Phases == {"tac", "lifetimes", "alloc", "code"}

LifeInv ==
  /\ phase \in Phases
  /\ phase # "tac" =>
       /\ next_varid <= MaxVars
       /\ operands = [j \in DOMAIN entries |-> OperandIds(entries[j])]
       /\ LP!IInv
  /\ phase \in {"alloc", "code"} => LP!Done

LEMMA LifeStart == LP!Init => LP!IInv
BY LifeAssumptions, LP!InitInvariant

LEMMA LifeStartNext == LP!Init' => LP!IInv'
BY LifeStart, PTL

LEMMA LifeStep ==
  ASSUME LP!IInv, L!Next
  PROVE  LP!IInv'
<1>1. LP!Next
  BY SameLifeTimes
<1> QED BY <1>1, LifeAssumptions, LP!VisitPreserves

LEMMA LifeStutter ==
  ASSUME UNCHANGED lifeVars
  PROVE  (LP!IInv' <=> LP!IInv) /\ (LP!Done' <=> LP!Done) /\ operands' = operands
BY DEF lifeVars, LP!IInv, LP!Done, LP!TypeOK, LP!VisitedExact, LP!VarIds, LP!Indices, LP!Size,
  LP!LiveAt, LP!Reads, LP!Writes, LP!At

\* The entries that are handed over are numbered below MaxVars.
LEMMA OperandsTyped ==
  ASSUME TacInv, next_varid <= MaxVars,
         operands' = [j \in DOMAIN entries |-> OperandIds(entries[j])]
  PROVE  operands' \in OperandLists /\ Len(operands') = Len(entries) /\ Len(entries) \in Nat
<1> DEFINE ops == [j \in DOMAIN entries |-> OperandIds(entries[j])]
           n == next_varid
<1>1. n \in Nat /\ entries \in Seq(CodeOver(n)) /\ n <= MaxVars
  BY DEF TacInv, IBuilt, Built
<1>2. ASSUME NEW e \in CodeOver(n)
      PROVE  OperandIds(e) \in [a : OperandSet, b : OperandSet, c : OperandSet]
  <2>1. 0 .. n - 1 \subseteq OperandSet /\ -1 \in OperandSet
    BY <1>1, MaxVarsAssumption DEF OperandSet, MaxIds
  <2>2. e.a \in OperandSet /\ e.b \in OperandSet /\ e.c \in OperandSet
    BY <2>1 DEF CodeOver
  <2> QED BY <2>2 DEF OperandIds
<1>3. DOMAIN entries = 1 .. Len(entries) /\ Len(entries) \in Nat
  BY <1>1
<1>4. \A j \in 1 .. Len(entries) :
        OperandIds(entries[j]) \in [a : OperandSet, b : OperandSet, c : OperandSet]
  BY <1>1, <1>2
<1>5. ops \in OperandLists /\ Len(ops) = Len(entries)
  BY <1>3, <1>4 DEF OperandLists
<1> QED BY <1>3, <1>5

LEMMA LifeInvStep ==
  ASSUME TacInv, LifeInv, [Next]_vars
  PROVE  LifeInv'
<1>1. CASE UNCHANGED lifeVars /\ UNCHANGED <<next_varid, entries>>
           /\ (phase' = phase \/ (phase \in {"lifetimes", "alloc"} /\ LP!Done /\ phase' \in {"alloc", "code"}))
  BY <1>1, LifeStutter DEF LifeInv, Phases
<1>2. CASE phase' = "tac"
  BY <1>2 DEF LifeInv, Phases
<1>3. CASE StartLifeTimes
  <2>1. /\ phase' = "lifetimes" /\ next_varid <= MaxVars
        /\ operands' = [j \in DOMAIN entries |-> OperandIds(entries[j])]
        /\ visited' = Len(entries) - 1
        /\ last_read' = [id \in 0 .. MaxVars - 1 |-> -1]
        /\ live_vars' = [j \in 0 .. Len(entries) - 1 |-> {}]
        /\ warned' = {}
        /\ entries' = entries /\ next_varid' = next_varid
    BY <1>3 DEF StartLifeTimes, tacVars
  <2>2. operands' \in OperandLists /\ Len(operands') = Len(entries)
    BY <2>1, OperandsTyped
  <2>3. LP!Init'
    BY <2>1, <2>2 DEF LP!Init, LP!Size, LP!Indices, LP!VarIds
  <2> QED BY <2>1, <2>3, LifeStartNext DEF LifeInv, Phases
<1>4. CASE FindLifeTimes
  <2>1. L!Next /\ phase = "lifetimes" /\ UNCHANGED <<phase, next_varid, entries>>
    BY <1>4 DEF FindLifeTimes, driverVars, tacVars
  <2>2. LP!IInv' /\ operands' = operands
    BY <2>1, LifeStep DEF LifeInv, L!Next, L!VisitWrite, L!VisitOther
  <2> QED BY <2>1, <2>2 DEF LifeInv
<1>5. CASE MakeTac
  BY <1>2, <1>5 DEF MakeTac, driverVars
<1>6. CASE NextFunction
  BY <1>2, <1>6 DEF NextFunction
<1>7. CASE StartCompile
  BY <1>1, <1>7, SameLifeTimes DEF StartCompile, tacVars
<1>8. CASE StartCode
  BY <1>1, <1>8 DEF StartCode, tacVars, LifeInv
<1>9. CASE Allocate
  BY <1>1, <1>9 DEF Allocate, driverVars, tacVars
<1>10. CASE Run
  BY <1>1, <1>10 DEF Run, driverVars, tacVars
<1>11. CASE UNCHANGED vars
  BY <1>1, <1>11 DEF vars, driverVars, tacVars
<1> QED BY <1>3, <1>4, <1>5, <1>6, <1>7, <1>8, <1>9, <1>10, <1>11 DEF Next, Terminated

-----------------------------------------------------------------------------
(***************************************************************************)
(* compile_expression(), on what calculate_life_times() found.             *)
(***************************************************************************)
BackInv ==
  /\ AP!AInv
  /\ phase \in {"alloc", "code"} => n_vars = next_varid /\ live = Lives.live
  /\ phase = "code" => stage = "compiled" /\ fn = Code

\* What the operands of an entry are
LEMMA OperandsOf ==
  ASSUME TacInv, operands = [j \in DOMAIN entries |-> OperandIds(entries[j])]
  PROVE  /\ Len(entries) \in Nat /\ LP!Size = Len(entries) /\ LP!Indices = 0 .. Len(entries) - 1
         /\ next_varid \in Nat /\ entries \in Seq(CodeOver(next_varid))
         /\ \A j \in 1 .. Len(entries) :
              /\ j - 1 \in LP!Indices
              /\ LP!Writes(j - 1) = {entries[j].a} \ {-1}
              /\ LP!Reads(j - 1) = {entries[j].b, entries[j].c} \ {-1}
              /\ LP!Reads(j - 1) \subseteq 0 .. next_varid - 1
<1>1. next_varid \in Nat /\ entries \in Seq(CodeOver(next_varid))
  BY DEF TacInv, IBuilt, Built
<1>2. Len(entries) \in Nat /\ DOMAIN entries = 1 .. Len(entries) /\ Len(operands) = Len(entries)
  BY <1>1
<1>3. LP!Size = Len(entries) /\ LP!Indices = 0 .. Len(entries) - 1
  BY <1>2 DEF LP!Size, LP!Indices
<1>4. ASSUME NEW j \in 1 .. Len(entries)
      PROVE  /\ j - 1 \in LP!Indices
             /\ LP!Writes(j - 1) = {entries[j].a} \ {-1}
             /\ LP!Reads(j - 1) = {entries[j].b, entries[j].c} \ {-1}
             /\ LP!Reads(j - 1) \subseteq 0 .. next_varid - 1
  <2>1. LP!At(j - 1) = OperandIds(entries[j])
    <3>1. (j - 1) + 1 = j
      BY <1>2
    <3> QED BY <1>2, <3>1 DEF LP!At
  <2>2. j - 1 \in LP!Indices
    BY <1>2, <1>3
  <2>3. entries[j] \in CodeOver(next_varid)
    BY <1>1
  <2>4. {entries[j].b, entries[j].c} \ {-1} \subseteq 0 .. next_varid - 1
    BY <2>3 DEF CodeOver
  <2> QED BY <2>1, <2>2, <2>4 DEF LP!Writes, LP!Reads, OperandIds
<1> QED BY <1>1, <1>2, <1>3, <1>4

\* The live sets are sets of variables of the function.
LEMMA LivesListed ==
  ASSUME TacInv, LifeInv, phase # "tac", LP!Done
  PROVE  Lives \in Listed
<1>1. /\ operands = [j \in DOMAIN entries |-> OperandIds(entries[j])]
      /\ LP!VisitedExact /\ LP!TypeOK
  BY DEF LifeInv, LP!IInv
<1>2. /\ Len(entries) \in Nat /\ LP!Indices = 0 .. Len(entries) - 1 /\ next_varid \in Nat
      /\ \A j \in 1 .. Len(entries) : LP!Reads(j - 1) \subseteq 0 .. next_varid - 1
  BY <1>1, OperandsOf
<1>3. DOMAIN live_vars = LP!Indices
  BY <1>1 DEF LP!TypeOK
<1>4. ASSUME NEW j \in LP!Indices PROVE live_vars[j] \subseteq 0 .. next_varid - 1
  <2> SUFFICES ASSUME NEW v \in live_vars[j] PROVE v \in 0 .. next_varid - 1
    OBVIOUS
  <2>1. LP!LiveAt(v, j)
    BY <1>1 DEF LP!VisitedExact
  <2>2. PICK r \in LP!Indices : v \in LP!Reads(r)
    BY <2>1 DEF LP!LiveAt
  <2>3. r + 1 \in 1 .. Len(entries) /\ (r + 1) - 1 = r
    BY <1>2
  <2> QED BY <1>2, <2>2, <2>3
<1>5. Lives.n_vars = next_varid /\ Lives.live = {live_vars[j] : j \in LP!Indices}
  BY <1>3 DEF Lives
<1>6. Lives.live \subseteq SUBSET (0 .. next_varid - 1)
  BY <1>4, <1>5
<1>7. Lives \in [n_vars : Nat, live : SUBSET SUBSET Nat]
  <2>1. 0 .. next_varid - 1 \subseteq Nat
    BY <1>2
  <2>2. {live_vars[j] : j \in DOMAIN live_vars} \subseteq SUBSET Nat
    BY <1>3, <1>4, <2>1
  <2> QED BY <1>2, <2>2 DEF Lives
<1> QED BY <1>5, <1>6, <1>7 DEF Listed

LEMMA BackInvInit ==
  ASSUME Init
  PROVE  BackInv
<1>1. AP!AllocInit
  BY SameAlloc DEF Init
<1>2. AP!AInv
  BY <1>1, AllocAssumptions, AP!AllocInitInvariant
<1> QED BY <1>2 DEF Init, BackInv

\* What a step of compile_expression() leaves alone
LEMMA CompilingKeeps ==
  ASSUME AP!AInv, A!Compiling
  PROVE  AP!AInv' /\ n_vars' = n_vars /\ live' = live
<1>1. AP!Compiling
  BY SameAlloc
<1> USE AllocAssumptions
<1>2. CASE AP!FirstColor
  BY <1>2, AP!FirstColorPreserves DEF AP!FirstColor, AP!Enter, AP!object, AP!history
<1>3. CASE AP!Coloring
  <2>1. AP!AInv'
    BY <1>3, AP!ColoringPreserves
  <2>2. n_vars' = n_vars /\ live' = live
    BY <1>3 DEF AP!Coloring, AP!Step, AP!ScanPush, AP!ScanKeep, AP!NextPass, AP!PickSpill,
      AP!StageTwo, AP!Pop, AP!StageThree, AP!Place, AP!Return, AP!object, AP!history
  <2> QED BY <2>1, <2>2
<1>4. CASE AP!KeepFirst \/ AP!KeepSecond
  <2>1. AP!AInv'
    BY <1>4, AP!KeepPreserves
  <2> QED BY <1>4, <2>1 DEF AP!KeepFirst, AP!KeepSecond, AP!vars, AP!object, AP!history
<1>5. CASE AP!Reserve
  <2>1. AP!AInv'
    BY <1>5, AP!ReservePreserves
  <2> QED BY <1>5, <2>1 DEF AP!Reserve, AP!Enter, AP!object, AP!history
<1>6. CASE AP!SwapColors
  <2>1. AP!AInv'
    BY <1>6, AP!SwapPreserves
  <2> QED BY <1>6, <2>1 DEF AP!SwapColors, AP!vars, AP!object, AP!history
<1> QED BY <1>1, <1>2, <1>3, <1>4, <1>5, <1>6 DEF AP!Compiling

LEMMA AllocStutter ==
  ASSUME AP!AInv, UNCHANGED allocVars
  PROVE  AP!AInv' /\ UNCHANGED <<n_vars, live, stage, n_spills, mapping, reg_avail, temp_reg_idx>>
<1>1. UNCHANGED AP!allVars
  BY DEF allocVars, graphVars, AP!allVars, AP!vars, AP!object, AP!locals, AP!history, AP!allocator
<1>2. AP!AInv'
  BY <1>1, AllocAssumptions, AP!AllocStutterPreserves
<1> QED BY <1>2 DEF allocVars, graphVars

LEMMA CodeStutter ==
  ASSUME UNCHANGED allocVars, UNCHANGED <<entries, next_varid>>
  PROVE  Code' = Code
BY DEF Code, allocVars, graphVars

LEMMA RunKeepsFunction ==
  ASSUME C!Next
  PROVE  fn' = fn /\ args' = args
BY DEF C!Next, C!Prologue, C!OpAssign, C!OpParam, C!OpAdd, C!OpSub, C!OpMul, C!OpDiv, C!DivTrap,
  C!OpRet, C!ImplicitReturn, C!NoEpilogue, C!Runs

LEMMA BackInvStep ==
  ASSUME TacInv, LifeInv, BackInv, [Next]_vars
  PROVE  BackInv'
<1>1. ASSUME UNCHANGED allocVars, phase' \in {"tac", "lifetimes"}
      PROVE  BackInv'
  BY <1>1, AllocStutter DEF BackInv
<1>2. ASSUME UNCHANGED <<allocVars, phase, tacVars, live_vars, fn>>
      PROVE  BackInv'
  <2>1. AP!AInv' /\ UNCHANGED <<n_vars, live, stage>>
    BY <1>2, AllocStutter DEF BackInv
  <2>2. Code' = Code /\ Lives' = Lives /\ next_varid' = next_varid
    BY <1>2, CodeStutter DEF Lives, tacVars
  <2> QED BY <1>2, <2>1, <2>2 DEF BackInv
<1>3. CASE MakeTac
  BY <1>1, <1>3 DEF MakeTac, driverVars
<1>4. CASE StartLifeTimes
  BY <1>1, <1>4 DEF StartLifeTimes
<1>5. CASE FindLifeTimes
  BY <1>1, <1>5 DEF FindLifeTimes, driverVars
<1>6. CASE StartCompile
  <2>1. /\ phase = "lifetimes" /\ LP!Done /\ phase' = "alloc" /\ AP!StartCompile(Lives)
        /\ UNCHANGED <<tacVars, lifeVars>>
    BY <1>6, SameAlloc, SameLifeTimes DEF StartCompile
  <2>2. Lives \in Listed
    BY <2>1, LivesListed
  <2>3. AP!AInv'
    BY <2>1, <2>2, AllocAssumptions, AP!StartCompilePreserves DEF BackInv
  <2>4. n_vars' = Lives.n_vars /\ live' = Lives.live
    BY <2>1 DEF AP!StartCompile, AP!Generate
  <2>5. Lives' = Lives /\ Lives.n_vars = next_varid /\ next_varid' = next_varid
    BY <2>1 DEF Lives, tacVars, lifeVars
  <2> QED BY <2>1, <2>3, <2>4, <2>5 DEF BackInv
<1>7. CASE Allocate
  <2>1. /\ phase = "alloc" /\ A!Compiling /\ phase' = phase /\ UNCHANGED <<tacVars, lifeVars>>
    BY <1>7 DEF Allocate, driverVars
  <2>2. AP!AInv' /\ n_vars' = n_vars /\ live' = live
    BY <2>1, CompilingKeeps DEF BackInv
  <2>3. Lives' = Lives /\ next_varid' = next_varid
    BY <2>1 DEF Lives, tacVars, lifeVars
  <2> QED BY <2>1, <2>2, <2>3 DEF BackInv
<1>8. CASE StartCode
  <2>1. /\ phase = "alloc" /\ stage = "compiled" /\ fn' = Code
        /\ UNCHANGED <<tacVars, lifeVars, allocVars>>
    BY <1>8 DEF StartCode
  <2>2. AP!AInv' /\ UNCHANGED <<n_vars, live, stage>>
    BY <2>1, AllocStutter DEF BackInv
  <2>3. Code' = Code /\ Lives' = Lives /\ next_varid' = next_varid
    BY <2>1, CodeStutter DEF Lives, tacVars, lifeVars
  <2> QED BY <2>1, <2>2, <2>3 DEF BackInv
<1>9. CASE Run
  <2>1. C!Next /\ UNCHANGED <<driverVars, tacVars, lifeVars, allocVars>>
    BY <1>9 DEF Run
  <2>2. fn' = fn
    BY <2>1, RunKeepsFunction
  <2> QED BY <1>2, <2>1, <2>2 DEF driverVars, lifeVars
<1>10. CASE NextFunction
  BY <1>1, <1>10 DEF NextFunction
<1>11. CASE UNCHANGED vars
  BY <1>2, <1>11 DEF vars, driverVars, lifeVars, codeVars
<1> QED BY <1>3, <1>4, <1>5, <1>6, <1>7, <1>8, <1>9, <1>10, <1>11 DEF Next, Terminated

CompilerInv == TacInv /\ LifeInv /\ BackInv

LEMMA CompilerInvariance == Spec => []CompilerInv
<1>1. Init => CompilerInv
  BY TacInvInit, BackInvInit DEF CompilerInv, LifeInv, Phases, Init
<1>2. CompilerInv /\ [Next]_vars => CompilerInv'
  BY TacInvStep, LifeInvStep, BackInvStep DEF CompilerInv
<1> QED BY <1>1, <1>2, PTL DEF Spec

-----------------------------------------------------------------------------
(***************************************************************************)
(* What compile_expression() hands to the handlers.                        *)
(***************************************************************************)
\* The entries: their shapes, the parameters first, reads after writes.
LEMMA EntriesHandedOver ==
  ASSUME TacInv
  PROVE  /\ entries \in Seq(C!Entry(next_varid))
         /\ \A j \in 1 .. Len(entries) :
              /\ C!Shaped(entries[j])
              /\ entries[j].type = "param" =>
                   /\ entries[j].value = j - 1 /\ j <= 9
                   /\ \A h \in 1 .. j - 1 : entries[h].type = "param"
              /\ entries[j].type = "assign" => entries[j].value \in C!Values
         /\ Supported(func) =>
              \A j \in 1 .. Len(entries) : \A v \in C!Reads(entries[j]) : C!Written(entries, v, j)
<1> DEFINE n == next_varid
<1>1. /\ IsFunction(func) /\ n \in Nat /\ entries \in Seq(CodeOver(n))
      /\ Numbered(func, s, entries) /\ KnownSoFar(func, s, entries)
  BY DEF TacInv, IBuilt, Built
<1>2. CodeOver(n) \subseteq C!Entry(n)
  <2>1. Values = C!Values
    BY DEF Values, C!Values
  <2>2. 0 .. n - 1 \subseteq C!Operands(n) /\ -1 \in C!Operands(n)
    BY DEF C!Operands, C!Ids
  <2>3. 0 .. MaxParams - 1 \subseteq 0 .. 8 /\ 0 \in 0 .. 8
    BY DEF MaxParams
  <2> HIDE DEF n
  <2> QED BY <2>1, <2>2, <2>3 DEF CodeOver, C!Entry, C!Kinds, Ops
<1>3. entries \in Seq(C!Entry(n))
  <2>1. Seq(CodeOver(n)) \subseteq Seq(C!Entry(n))
    BY <1>2, SeqMonotonic, Zenon
  <2> QED BY <1>1, <2>1
<1>4. ASSUME NEW j \in 1 .. Len(entries)
      PROVE  C!Shaped(entries[j]) /\ (entries[j].type = "assign" => entries[j].value \in C!Values)
  <2>1. entries[j] \in CodeOver(n)
    BY <1>1
  <2>2. Values = C!Values
    BY DEF Values, C!Values
  <2> HIDE DEF n
  <2> QED BY <1>1, <2>1, <2>2 DEF CodeOver, C!Shaped, C!Reads, Ops
<1>5. ASSUME NEW j \in 1 .. Len(entries), entries[j].type = "param"
      PROVE  /\ entries[j].value = j - 1 /\ j <= 9
             /\ \A h \in 1 .. j - 1 : entries[h].type = "param"
  <2>1. Len(func.params) \in 0 .. MaxParams /\ Len(entries) \in Nat
    BY <1>1 DEF IsFunction
  <2>2. \A h \in 1 .. Len(entries) :
          IF h <= Len(func.params) THEN entries[h] = Entry("param", func.params[h], -1, -1, h - 1)
          ELSE entries[h].type # "param"
    BY <1>1 DEF Numbered
  <2> DEFINE p == Len(func.params)
  <2>3. p \in 0 .. 9 /\ j <= p
    BY <1>5, <2>1, <2>2 DEF MaxParams
  <2>4. \A h \in 1 .. Len(entries) :
          h <= p => entries[h].type = "param" /\ entries[h].value = h - 1
    <3>1. \A v, x : Entry("param", v, -1, -1, x).type = "param" /\ Entry("param", v, -1, -1, x).value = x
      BY DEF Entry
    <3>2. ASSUME NEW h \in 1 .. Len(entries), h <= Len(func.params)
          PROVE  entries[h].type = "param" /\ entries[h].value = h - 1
      <4>1. entries[h] = Entry("param", func.params[h], -1, -1, h - 1)
        BY <2>2, <3>2
      <4> QED BY <3>1, <4>1
    <3> QED BY <3>2
  <2> HIDE DEF p
  <2>5. entries[j].value = j - 1 /\ j <= 9
    BY <2>3, <2>4
  <2>6. \A h \in 1 .. j - 1 : h \in 1 .. Len(entries) /\ h <= p
    BY <2>1, <2>3
  <2> QED BY <2>4, <2>5, <2>6
<1>6. ASSUME Supported(func), NEW j \in 1 .. Len(entries), NEW v \in C!Reads(entries[j])
      PROVE  C!Written(entries, v, j)
  <2>1. v \in {entries[j].b, entries[j].c} \ {-1}
    BY DEF C!Reads
  <2>2. PICK w \in 1 .. j - 1 : entries[w].a = v
    BY <1>1, <1>6, <2>1 DEF KnownSoFar, ReadsKnown
  <2> QED BY <2>1, <2>2 DEF C!Written, C!Writes
<1> QED BY <1>3, <1>4, <1>5, <1>6

\* The bits that are set: the entries count from 0 in calculate_life_times()
\* and from 1 in CodeGen.
LEMMA LivesHandedOver ==
  ASSUME TacInv, LifeInv, phase # "tac", LP!Done,
         NEW f, f.entries = entries, f.n_vars = next_varid
  PROVE  /\ DOMAIN live_vars = 0 .. Len(entries) - 1 /\ Len(entries) \in Nat
         /\ \A j \in 1 .. Len(entries) : live_vars[j - 1] = C!LiveSet(f, j)
<1> DEFINE n == next_varid
           m == Len(entries)
<1>1. /\ operands = [j \in DOMAIN entries |-> OperandIds(entries[j])]
      /\ LP!VisitedExact /\ LP!TypeOK /\ n <= MaxVars /\ visited = -1
  BY DEF LifeInv, LP!IInv, LP!Done
<1>2. /\ m \in Nat /\ LP!Indices = 0 .. m - 1 /\ n \in Nat
      /\ \A j \in 1 .. m :
           /\ LP!Writes(j - 1) = {entries[j].a} \ {-1}
           /\ LP!Reads(j - 1) = {entries[j].b, entries[j].c} \ {-1}
           /\ LP!Reads(j - 1) \subseteq 0 .. n - 1
  BY <1>1, OperandsOf
<1>3. DOMAIN live_vars = LP!Indices
  BY <1>1 DEF LP!TypeOK
<1> HIDE DEF n, m
<1>4. \A r \in LP!Indices :
        /\ r + 1 \in 1 .. m
        /\ LP!Writes(r) = C!Writes(entries[r + 1])
        /\ LP!Reads(r) = C!Reads(entries[r + 1])
        /\ LP!Reads(r) \subseteq 0 .. n - 1
  <2> SUFFICES ASSUME NEW r \in LP!Indices
               PROVE  /\ r + 1 \in 1 .. m
                      /\ LP!Writes(r) = C!Writes(entries[r + 1])
                      /\ LP!Reads(r) = C!Reads(entries[r + 1])
                      /\ LP!Reads(r) \subseteq 0 .. n - 1
    OBVIOUS
  <2>1. r + 1 \in 1 .. m /\ (r + 1) - 1 = r
    BY <1>2
  <2> QED BY <1>2, <2>1 DEF C!Writes, C!Reads
<1>5. ASSUME NEW v, NEW j \in 1 .. m
      PROVE  LP!LiveAt(v, j - 1) <=> C!LiveAt(entries, v, j)
  <2>1. ASSUME LP!LiveAt(v, j - 1)
        PROVE  C!LiveAt(entries, v, j)
    <3>1. PICK r \in LP!Indices : /\ j - 1 <= r /\ v \in LP!Reads(r)
                                  /\ \A w \in j - 1 .. r - 1 : v \notin LP!Writes(w)
      BY <2>1 DEF LP!LiveAt
    <3>2. r + 1 \in j .. m /\ v \in C!Reads(entries[r + 1])
      BY <1>2, <1>4, <3>1
    <3>3. ASSUME NEW w \in j .. (r + 1) - 1 PROVE v \notin C!Writes(entries[w])
      <4>1. w - 1 \in j - 1 .. r - 1 /\ w - 1 \in LP!Indices /\ (w - 1) + 1 = w
        BY <1>2, <3>1
      <4> QED BY <1>4, <3>1, <4>1
    <3> QED BY <3>2, <3>3 DEF C!LiveAt, m
  <2>2. ASSUME C!LiveAt(entries, v, j)
        PROVE  LP!LiveAt(v, j - 1)
    <3>1. PICK r \in j .. m : /\ v \in C!Reads(entries[r])
                              /\ \A w \in j .. r - 1 : v \notin C!Writes(entries[w])
      BY <2>2 DEF C!LiveAt, m
    <3>2. r - 1 \in LP!Indices /\ j - 1 <= r - 1 /\ (r - 1) + 1 = r
      BY <1>2, <3>1
    <3>3. ASSUME NEW w \in j - 1 .. (r - 1) - 1 PROVE v \notin LP!Writes(w)
      <4>1. w \in LP!Indices /\ w + 1 \in j .. r - 1
        BY <1>2, <3>1
      <4> QED BY <1>4, <3>1, <4>1
    <3> QED BY <1>4, <3>1, <3>2, <3>3 DEF LP!LiveAt
  <2> QED BY <2>1, <2>2
<1>6. ASSUME NEW v, NEW j \in 1 .. m
      PROVE  (\E w \in visited + 1 .. (j - 1) - 1 : v \in LP!Writes(w)) <=> C!Written(entries, v, j)
  <2>1. ASSUME NEW w \in visited + 1 .. (j - 1) - 1, v \in LP!Writes(w)
        PROVE  C!Written(entries, v, j)
    <3>1. w \in LP!Indices /\ w + 1 \in 1 .. j - 1
      BY <1>1, <1>2
    <3> QED BY <1>4, <2>1, <3>1 DEF C!Written
  <2>2. ASSUME NEW w \in 1 .. j - 1, v \in C!Writes(entries[w])
        PROVE  \E u \in visited + 1 .. (j - 1) - 1 : v \in LP!Writes(u)
    <3>1. w - 1 \in LP!Indices /\ w - 1 \in visited + 1 .. (j - 1) - 1 /\ (w - 1) + 1 = w
      BY <1>1, <1>2
    <3> QED BY <1>4, <2>2, <3>1
  <2> QED BY <2>1, <2>2 DEF C!Written
<1>7. ASSUME NEW v, NEW j \in 1 .. m, LP!LiveAt(v, j - 1)
      PROVE  v \in 0 .. n - 1 /\ v \in LP!VarIds
  <2>1. v \in 0 .. n - 1
    BY <1>4, <1>7 DEF LP!LiveAt
  <2> QED BY <1>1, <1>2, <2>1, MaxVarsAssumption DEF LP!VarIds, n
<1>8. ASSUME NEW j \in 1 .. m
      PROVE  live_vars[j - 1] = C!LiveSet(f, j)
  <2>1. j - 1 \in LP!Indices
    BY <1>2
  <2>2. live_vars[j - 1] =
          {v \in LP!VarIds : /\ LP!LiveAt(v, j - 1)
                             /\ \E w \in visited + 1 .. (j - 1) - 1 : v \in LP!Writes(w)}
    BY <1>1, <2>1 DEF LP!VisitedExact
  <2>3. C!LiveSet(f, j) = {v \in 0 .. n - 1 : C!LiveAt(entries, v, j) /\ C!Written(entries, v, j)}
    BY DEF C!LiveSet, C!Ids, n
  <2> QED BY <1>5, <1>6, <1>7, <2>2, <2>3
<1> QED BY <1>2, <1>3, <1>8 DEF m

\* The registers: what is left of reg_avail, and the load/store register.
LEMMA RegistersHandedOver ==
  ASSUME BackInv, phase = "code"
  PROVE  /\ reg_avail \in Seq(C!Usable) /\ C!Distinct(reg_avail) /\ n_spills \in Nat
         /\ n_spills # 0 => temp_reg_idx \in C!Usable \ C!Members(reg_avail)
<1>1. /\ AP!Registers /\ n_spills \in Nat /\ (n_spills > 0 => temp_reg_idx # -1)
  BY DEF BackInv, AP!AInv, AP!IInv, AP!TypeOK, AP!Calls
<1>2. /\ Len(InitialRegs) \in Nat /\ \A p \in 1 .. Len(InitialRegs) : InitialRegs[p] \in C!Usable
      /\ \A p, q \in 1 .. Len(InitialRegs) : InitialRegs[p] = InitialRegs[q] => p = q
  <2>1. ASSUME NEW R, InitialRegs \in Seq(R)
        PROVE  Len(InitialRegs) \in Nat /\ \A p \in 1 .. Len(InitialRegs) : InitialRegs[p] \in R
    BY <2>1
  <2>2. InitialRegs \in Seq(C!Usable) /\ C!Distinct(InitialRegs)
    BY RegistersAssumption
  <2> QED BY <2>1, <2>2 DEF C!Distinct
<1>3. /\ reg_avail \in Seq(Nat) /\ Len(reg_avail) \in Nat /\ Len(reg_avail) <= Len(InitialRegs)
      /\ \A p \in 1 .. Len(reg_avail) : reg_avail[p] = InitialRegs[p] /\ p \in 1 .. Len(InitialRegs)
  <2>1. reg_avail \in Seq(Nat) /\ Len(reg_avail) <= Len(InitialRegs)
        /\ \A p \in 1 .. Len(reg_avail) : reg_avail[p] = InitialRegs[p]
    BY <1>1 DEF AP!Registers
  <2>2. Len(reg_avail) \in Nat
    BY <2>1
  <2> QED BY <1>2, <2>1, <2>2
<1>4. reg_avail \in Seq(C!Usable)
  <2>1. ASSUME NEW R, \A p \in 1 .. Len(reg_avail) : reg_avail[p] \in R
        PROVE  reg_avail \in Seq(R)
    BY <1>3, <2>1
  <2>2. \A p \in 1 .. Len(reg_avail) : reg_avail[p] \in C!Usable
    BY <1>2, <1>3, Zenon
  <2> QED BY <2>1, <2>2
<1>5. C!Distinct(reg_avail)
  BY <1>2, <1>3 DEF C!Distinct
<1>6. ASSUME n_spills # 0
      PROVE  temp_reg_idx \in C!Usable \ C!Members(reg_avail)
  <2>1. PICK p \in Len(reg_avail) + 1 .. Len(InitialRegs) : temp_reg_idx = InitialRegs[p]
    BY <1>1, <1>6 DEF AP!Registers
  <2>2. p \in 1 .. Len(InitialRegs) /\ p \notin 1 .. Len(reg_avail)
    BY <1>2, <1>3, <2>1
  <2> QED BY ZenonT(60), <1>2, <1>3, <2>1, <2>2 DEF C!Members
<1> QED BY <1>1, <1>4, <1>5, <1>6

\* The mapping keeps apart what is live together.
LEMMA MappingHandedOver ==
  ASSUME TacInv, BackInv, phase = "code", NEW sets, sets = Lives.live
  PROVE  C!IsAssignment(Code.color_map, C!Interference([n_vars |-> next_varid, live |-> sets]),
                        next_varid, Len(reg_avail), n_spills)
<1> DEFINE n == next_varid
           m == [v \in 0 .. n - 1 |-> mapping[v]]
           g == C!Interference([n_vars |-> n, live |-> sets])
<1>1. /\ AP!Sound(mapping) /\ AP!GraphCovers /\ AP!MappingTyped
      /\ n_vars = n /\ live = sets /\ n \in Nat /\ n_spills \in Nat
  BY DEF BackInv, AP!AInv, AP!IInv, AP!TypeOK, AP!Calls
<1>2. AP!Vars = 0 .. n - 1
  BY <1>1 DEF AP!Vars, AP!Ids
<1>3. Code.color_map = m
  BY DEF Code
<1> HIDE DEF n
<1>4. \A v \in 0 .. n - 1 : m[v] = mapping[v] /\ v \in DOMAIN mapping /\ v \in AP!Vars
  BY <1>1, <1>2 DEF AP!Sound
<1>5. \A v \in 0 .. n - 1 : m[v] \in Int /\ m[v] < Len(reg_avail)
  BY <1>1, <1>4 DEF AP!Sound
<1>6. \A e \in g : m[e[1]] # m[e[2]]
  <2> SUFFICES ASSUME NEW e \in g PROVE m[e[1]] # m[e[2]]
    OBVIOUS
  <2>1. e[1] \in 0 .. n - 1 /\ e[2] \in 0 .. n - 1 /\ e[1] # e[2]
        /\ \E t \in live : e[1] \in t /\ e[2] \in t
    BY <1>1 DEF C!Interference, C!Ids
  <2>2. <<e[1], e[2]>> \in graph
    BY <1>1, <2>1 DEF AP!GraphCovers
  <2> QED BY <1>1, <1>4, <2>1, <2>2 DEF AP!Sound
<1>7. C!SlotsExact(m, n, n_spills)
  <2>1. \A t \in 1 .. n_spills : \E v \in 0 .. n - 1 : m[v] = -t
    BY <1>1, <1>2, <1>4 DEF AP!Sound
  <2>2. ASSUME NEW v \in 0 .. n - 1, m[v] < 0 PROVE -m[v] <= n_spills
    <3>1. -mapping[v] \in 1 .. n_spills
      BY <1>1, <1>4, <2>2 DEF AP!Sound
    <3> QED BY <1>4, <3>1
  <2>3. \A u, v \in 0 .. n - 1 : m[u] < 0 /\ m[u] = m[v] => u = v
    BY <1>1, <1>4 DEF AP!Sound
  <2> HIDE DEF m
  <2> QED BY <2>1, <2>2, <2>3 DEF C!SlotsExact, C!Ids
<1>8. m \in [0 .. n - 1 -> Int]
  BY <1>5
<1> HIDE DEF m
<1>9. C!IsAssignment(m, g, n, Len(reg_avail), n_spills)
  BY <1>5, <1>6, <1>7, <1>8 DEF C!IsAssignment, C!Apart, C!Ids
<1> QED BY <1>3, <1>9 DEF n

\* All of it, for a function that is called
LEMMA CodeHandedOver ==
  ASSUME CompilerInv, phase = "code"
  PROVE  /\ C!IsCode(fn)
         /\ Supported(func) => C!ReadsWritten(fn)
         /\ \A j \in 1 .. Len(entries) : live_vars[j - 1] = C!LiveSet(fn, j)
<1>1. /\ TacInv /\ LifeInv /\ BackInv /\ LP!Done /\ fn = Code
  BY DEF CompilerInv, LifeInv, BackInv
<1>2. /\ fn.entries = entries /\ fn.n_vars = next_varid /\ fn.regs = reg_avail
      /\ fn.n_spills = n_spills /\ fn.temp = temp_reg_idx /\ fn.color_map = Code.color_map
  BY <1>1 DEF Code
<1>3. /\ DOMAIN live_vars = 0 .. Len(entries) - 1 /\ Len(entries) \in Nat
      /\ \A j \in 1 .. Len(entries) : live_vars[j - 1] = C!LiveSet(fn, j)
  BY <1>1, <1>2, LivesHandedOver
<1> DEFINE sets == {C!LiveSet(fn, j) : j \in 1 .. Len(fn.entries)}
<1>4. sets = Lives.live
  <2>1. Lives.live = {live_vars[j] : j \in 0 .. Len(entries) - 1}
    BY <1>3 DEF Lives
  <2>2. \A j \in 0 .. Len(entries) - 1 :
          j + 1 \in 1 .. Len(entries) /\ live_vars[j] = C!LiveSet(fn, j + 1)
    <3> SUFFICES ASSUME NEW j \in 0 .. Len(entries) - 1
                 PROVE  j + 1 \in 1 .. Len(entries) /\ live_vars[j] = C!LiveSet(fn, j + 1)
      OBVIOUS
    <3>1. j + 1 \in 1 .. Len(entries) /\ (j + 1) - 1 = j
      BY <1>3
    <3> QED BY <1>3, <3>1
  <2>3. \A j \in 1 .. Len(entries) : j - 1 \in 0 .. Len(entries) - 1
    BY <1>3
  <2> QED BY <1>2, <1>3, <2>1, <2>2, <2>3
<1>5. C!IsAssignment(fn.color_map, C!Interference([n_vars |-> fn.n_vars, live |-> sets]),
                     fn.n_vars, Len(fn.regs), fn.n_spills)
  BY <1>1, <1>2, <1>4, MappingHandedOver
<1>6. fn.regs \in Seq(C!Usable) /\ C!Distinct(fn.regs) /\ fn.n_spills \in Nat /\ C!HasTemp(fn)
  BY <1>1, <1>2, RegistersHandedOver DEF C!HasTemp
<1>7. C!IsCode(fn)
  <2> HIDE DEF sets
  <2>1. /\ fn.entries \in Seq(C!Entry(fn.n_vars))
        /\ \A j \in 1 .. Len(fn.entries) :
             /\ C!Shaped(fn.entries[j])
             /\ fn.entries[j].type = "param" =>
                  /\ fn.entries[j].value = j - 1 /\ j <= 9
                  /\ \A h \in 1 .. j - 1 : fn.entries[h].type = "param"
             /\ fn.entries[j].type = "assign" => fn.entries[j].value \in C!Values
    BY <1>1, <1>2, EntriesHandedOver
  <2> QED BY <1>5, <1>6, <2>1, Zenon DEF C!IsCode, sets
<1>8. Supported(func) => C!ReadsWritten(fn)
  BY <1>1, <1>2, EntriesHandedOver DEF C!ReadsWritten
<1> QED BY <1>2, <1>3, <1>7, <1>8

\* Every function that is called was handed over as the handlers need it: the
\* tac constructor, calculate_life_times() and compile_expression() keep what
\* prologue(), the handlers and epilogue() (tac2x64.cpp) take for granted,
\* whatever the file, and whatever the same tac2x64 compiled before.
THEOREM PassesHandOver == Spec => []HandedOver
<1>1. CompilerInv => HandedOver
  BY CodeHandedOver DEF HandedOver
<1> QED BY <1>1, CompilerInvariance, PTL

-----------------------------------------------------------------------------
(***************************************************************************)
(* The call, on what compile_expression() handed over.                     *)
(***************************************************************************)
CP == INSTANCE CodeGenProofs WITH Inputs <- {}, pc <- cpu

LEMMA SameWords ==
  /\ CP!Values = Values
  /\ \A x : CP!Signed(x) = Signed(x)
  /\ \A x, y : CP!NoQuotient(x, y) <=> NoQuotient(x, y)
  /\ \A type, x, y : CP!Meaning(type, x, y) = Meaning(type, x, y)
<1>1. CP!Values = Values /\ \A x : CP!Signed(x) = Signed(x)
  BY DEF CP!Values, Values, CP!Signed, Signed
<1>2. \A x, y : CP!Quotient(x, y) = Quotient(x, y)
  BY DEF CP!Quotient, Quotient, CP!Abs, Abs
<1>3. \A x, y : CP!NoQuotient(x, y) <=> NoQuotient(x, y)
  BY <1>2 DEF CP!NoQuotient, NoQuotient
<1>4. \A type, x, y : CP!Meaning(type, x, y) = Meaning(type, x, y)
  BY <1>1, <1>2 DEF CP!Meaning, Meaning
<1> QED BY <1>1, <1>3, <1>4

LEMMA CodeAssumptions ==
  /\ Word \in Nat /\ Word > 1 /\ Word % 2 = 0
  /\ \A f \in {} : CP!IsInput(f)
  /\ Arguments \subseteq [0 .. 8 -> CP!Values] /\ Junk \subseteq CP!Values
<1>1. MaxParams - 1 = 8
  BY DEF MaxParams
<1> QED BY <1>1, WordAssumption, ArgumentsAssumption, JunkAssumption, SameWords

LEMMA SameCode ==
  /\ \A f : (C!IsCode(f) <=> CP!IsCode(f)) /\ (C!ReadsWritten(f) <=> CP!ReadsWritten(f))
  /\ \A f, given, junk : C!AtCall(f, given, junk) = CP!AtCall(f, given, junk)
  /\ \A f : C!NothingWritten(f) = CP!NothingWritten(f)
<1>1. \A f : C!ReadsWritten(f) <=> CP!ReadsWritten(f)
  BY DEF C!ReadsWritten, CP!ReadsWritten, C!Reads, CP!Reads, C!Written, CP!Written,
    C!Writes, CP!Writes
<1>2. \A f, j : C!LiveSet(f, j) = CP!LiveSet(f, j)
  BY DEF C!LiveSet, CP!LiveSet, C!LiveAt, CP!LiveAt, C!Reads, CP!Reads, C!Written, CP!Written,
    C!Writes, CP!Writes, C!Ids, CP!Ids
<1>3. \A m, g, n, r, z : C!IsAssignment(m, g, n, r, z) <=> CP!IsAssignment(m, g, n, r, z)
  <2>1. \A m, n, z : C!SlotsExact(m, n, z) <=> CP!SlotsExact(m, n, z)
    BY DEF C!SlotsExact, CP!SlotsExact, C!Ids, CP!Ids
  <2> QED BY <2>1 DEF C!IsAssignment, CP!IsAssignment, C!Apart, CP!Apart, C!Ids, CP!Ids
<1>4. \A x : C!Interference(x) = CP!Interference(x)
  BY DEF C!Interference, CP!Interference, C!Ids, CP!Ids
<1>5. C!Usable = CP!Usable /\ \A n : C!Entry(n) = CP!Entry(n)
  BY DEF C!Usable, CP!Usable, C!Registers, CP!Registers, C!eax, CP!eax, C!edx, CP!edx,
    C!Entry, CP!Entry, C!Kinds, CP!Kinds, C!Operands, CP!Operands, C!Ids, CP!Ids, C!Values, CP!Values
<1>6. \A e : C!Shaped(e) <=> CP!Shaped(e)
  BY DEF C!Shaped, CP!Shaped, C!Reads, CP!Reads
<1>7. \A f : (C!HasTemp(f) <=> CP!HasTemp(f)) /\ (C!Distinct(f.regs) <=> CP!Distinct(f.regs))
  BY <1>5 DEF C!HasTemp, CP!HasTemp, C!Members, CP!Members, C!Distinct, CP!Distinct
<1>8. C!Values = CP!Values
  BY DEF C!Values, CP!Values
<1>9. ASSUME NEW f
      PROVE  C!IsCode(f) <=> CP!IsCode(f)
  <2>1. {C!LiveSet(f, j) : j \in 1 .. Len(f.entries)} = {CP!LiveSet(f, j) : j \in 1 .. Len(f.entries)}
    BY <1>2
  <2> QED BY <1>3, <1>4, <1>5, <1>6, <1>7, <1>8, <2>1 DEF C!IsCode, CP!IsCode
<1>10. \A f, given, junk : C!AtCall(f, given, junk) = CP!AtCall(f, given, junk)
  BY DEF C!AtCall, CP!AtCall, C!Registers, CP!Registers, C!reg_args, CP!reg_args,
    C!FrameOffsets, CP!FrameOffsets
<1>11. \A f : C!NothingWritten(f) = CP!NothingWritten(f)
  BY DEF C!NothingWritten, CP!NothingWritten, C!Ids, CP!Ids
<1> QED BY <1>1, <1>9, <1>10, <1>11

LEMMA SameRun == C!Next <=> CP!Next
<1>1. \A r : C!InReg(r) = CP!InReg(r)
  BY DEF C!InReg, CP!InReg
<1>2. \A o : C!InStack(o) = CP!InStack(o)
  BY DEF C!InStack, CP!InStack
<1>3. \A x : C!Constant(x) = CP!Constant(x)
  BY DEF C!Constant, CP!Constant
<1>4. C!Cur = CP!Cur /\ \A v : C!color(v) = CP!color(v)
  BY DEF C!Cur, CP!Cur, C!color, CP!color
<1>5. /\ C!LoadStore = CP!LoadStore
      /\ \A v : C!Loc(v) = CP!Loc(v)
      /\ \A n : C!ArgLoc(n) = CP!ArgLoc(n)
  BY <1>1, <1>2, <1>4 DEF C!LoadStore, CP!LoadStore, C!Loc, CP!Loc, C!ArgLoc, CP!ArgLoc,
    C!get_stack_var_pos, CP!get_stack_var_pos, C!get_stack_param_pos, CP!get_stack_param_pos,
    C!reg_args, CP!reg_args
<1>6. \A type, x, y : C!Meaning(type, x, y) = CP!Meaning(type, x, y)
  BY DEF C!Meaning, CP!Meaning, C!Quotient, CP!Quotient, C!Abs, CP!Abs, C!Signed, CP!Signed
<1>7. /\ \A m, p : C!Load(m, p) = CP!Load(m, p)
      /\ \A m, p, x : C!Store(m, p, x) = CP!Store(m, p, x)
  BY DEF C!Load, CP!Load, C!Store, CP!Store
<1>8. \A m, T, p, q : C!Apply(m, T, p, q) = CP!Apply(m, T, p, q)
  BY <1>6, <1>7 DEF C!Apply, CP!Apply, C!Result, CP!Result
<1>9. \A m, T, p, q : C!src_dest(m, T, p, q) = CP!src_dest(m, T, p, q)
  BY <1>5, <1>7, <1>8 DEF C!src_dest, CP!src_dest
<1>10. \A e : (C!IsLeft(e) <=> CP!IsLeft(e)) /\ (C!IsRight(e) <=> CP!IsRight(e))
  BY <1>4 DEF C!IsLeft, CP!IsLeft, C!IsRight, CP!IsRight
<1>11. C!eax = CP!eax /\ C!edx = CP!edx
  BY DEF C!eax, CP!eax, C!edx, CP!edx
<1>12. /\ \A m, e : C!op_assign(m, e) = CP!op_assign(m, e)
       /\ \A m, e : C!op_param(m, e) = CP!op_param(m, e)
       /\ \A m, e : C!op_addsub(m, e) = CP!op_addsub(m, e)
       /\ \A m, e : C!op_ret(m, e) = CP!op_ret(m, e)
  BY <1>1, <1>3, <1>5, <1>9, <1>10, <1>11 DEF C!op_assign, CP!op_assign, C!op_param, CP!op_param,
    C!op_addsub, CP!op_addsub, C!op_ret, CP!op_ret
<1>13. \A m, e : C!op_mul(m, e) = CP!op_mul(m, e)
  <2>1. \A v : C!MulReg(v) = CP!MulReg(v)
    BY <1>4, <1>5 DEF C!MulReg, CP!MulReg
  <2> QED BY <1>4, <1>5, <1>8, <1>9, <2>1 DEF C!op_mul, CP!op_mul
<1>14. /\ \A x : C!Signed(x) = CP!Signed(x)
       /\ \A x, y : C!Quotient(x, y) = CP!Quotient(x, y)
       /\ \A x, y : C!NoQuotient(x, y) <=> CP!NoQuotient(x, y)
  BY DEF C!Quotient, CP!Quotient, C!Abs, CP!Abs, C!Signed, CP!Signed, C!NoQuotient, CP!NoQuotient
<1>15. /\ \A m, e : C!DivSetup(m, e) = CP!DivSetup(m, e)
       /\ \A m : C!Dividend(m) = CP!Dividend(m)
  BY <1>1, <1>5, <1>7, <1>9, <1>11 DEF C!DivSetup, CP!DivSetup, C!Dividend, CP!Dividend
<1>16. /\ \A m, e : C!op_div(m, e) = CP!op_div(m, e)
       /\ \A m, e : C!IdivTraps(m, e) <=> CP!IdivTraps(m, e)
  BY <1>1, <1>5, <1>7, <1>9, <1>11, <1>14, <1>15 DEF C!op_div, CP!op_div, C!IdivTraps, CP!IdivTraps
<1>17. \A f, j : C!LiveSet(f, j) = CP!LiveSet(f, j)
  BY DEF C!LiveSet, CP!LiveSet, C!LiveAt, CP!LiveAt, C!Reads, CP!Reads, C!Written, CP!Written,
    C!Writes, CP!Writes, C!Ids, CP!Ids
<1>18. /\ \A e : C!WriteSafe(e) <=> CP!WriteSafe(e)
       /\ \A e : C!ParamSafe(e) <=> CP!ParamSafe(e)
       /\ \A e : C!SubSafe(e) <=> CP!SubSafe(e)
       /\ \A e : C!MulSafe(e) <=> CP!MulSafe(e)
       /\ \A e : C!DivSafe(e) <=> CP!DivSafe(e)
  BY <1>4, <1>5, <1>10, <1>17 DEF C!WriteSafe, CP!WriteSafe, C!ParamSafe, CP!ParamSafe,
    C!SubSafe, CP!SubSafe, C!MulSafe, CP!MulSafe, C!DivSafe, CP!DivSafe
<1>19. /\ \A m, x, safe : C!Runs(m, x, safe) <=> CP!Runs(m, x, safe)
       /\ \A kinds : C!At(kinds) <=> CP!At(kinds)
       /\ C!Expected = CP!Expected
  BY <1>4, <1>6, <1>18 DEF C!Runs, CP!Runs, C!At, CP!At, C!Expected, CP!Expected
<1>20. C!Prologue <=> CP!Prologue
  BY DEF C!Prologue, CP!Prologue, C!Subtracted, CP!Subtracted, C!StackSize, CP!StackSize
<1>21. (C!OpAssign <=> CP!OpAssign) /\ (C!OpParam <=> CP!OpParam)
  BY <1>4, <1>12, <1>18, <1>19 DEF C!Runs, CP!Runs, C!OpAssign, CP!OpAssign, C!OpParam, CP!OpParam
<1>22. /\ (C!OpAdd <=> CP!OpAdd) /\ (C!OpSub <=> CP!OpSub) /\ (C!OpMul <=> CP!OpMul)
       /\ (C!OpDiv <=> CP!OpDiv) /\ (C!DivTrap <=> CP!DivTrap)
  <2>1. C!OpAdd <=> CP!OpAdd
    BY <1>4, <1>12, <1>19 DEF C!Runs, CP!Runs, C!OpAdd, CP!OpAdd
  <2>2. C!OpSub <=> CP!OpSub
    BY <1>4, <1>12, <1>18, <1>19 DEF C!Runs, CP!Runs, C!OpSub, CP!OpSub
  <2>3. C!OpMul <=> CP!OpMul
    BY <1>4, <1>13, <1>18, <1>19 DEF C!Runs, CP!Runs, C!OpMul, CP!OpMul
  <2>4. C!OpDiv <=> CP!OpDiv
    BY <1>4, <1>14, <1>16, <1>18, <1>19 DEF C!Runs, CP!Runs, C!OpDiv, CP!OpDiv
  <2>5. C!DivTrap <=> CP!DivTrap
    BY <1>4, <1>14, <1>16, <1>18, <1>19 DEF C!Runs, CP!Runs, C!DivTrap, CP!DivTrap
  <2> QED BY <2>1, <2>2, <2>3, <2>4, <2>5
<1>23. (C!OpRet <=> CP!OpRet) /\ (C!ImplicitReturn <=> CP!ImplicitReturn)
  BY <1>4, <1>12, <1>19 DEF C!OpRet, CP!OpRet, C!ImplicitReturn, CP!ImplicitReturn
<1>24. C!NoEpilogue <=> CP!NoEpilogue
  BY DEF C!NoEpilogue, CP!NoEpilogue
<1> QED BY <1>20, <1>21, <1>22, <1>23, <1>24 DEF C!Next, CP!Next

\* While a call runs, and after it, what CodeGenProofs says of a call holds.
CodeInv == phase = "code" => CP!GInv /\ CP!SInv

LEMMA CallHoldsNext == CP!Called' => (CP!GInv /\ CP!SInv)'
<1>1. CP!Called => CP!GInv /\ CP!SInv
  BY CodeAssumptions, CP!CallHolds
<1> QED BY <1>1, PTL

LEMMA CodeHandedOverNext ==
  CompilerInv' /\ phase' = "code" => C!IsCode(fn)' /\ (Supported(func) => C!ReadsWritten(fn))'
<1>1. CompilerInv /\ phase = "code" => C!IsCode(fn) /\ (Supported(func) => C!ReadsWritten(fn))
  BY CodeHandedOver
<1>2. (CompilerInv /\ phase = "code")' => (C!IsCode(fn) /\ (Supported(func) => C!ReadsWritten(fn)))'
  BY <1>1, PTL
<1> QED BY <1>2

LEMMA CodeInvStep ==
  ASSUME CodeInv, CompilerInv', [Next]_vars
  PROVE  CodeInv'
<1>1. CASE phase' # "code"
  BY <1>1 DEF CodeInv
<1>2. CASE StartCode
  <2>1. /\ phase' = "code" /\ fn' = Code /\ args' \in Arguments
        /\ \E junk \in Junk : mach' = C!AtCall(fn', args', junk)
        /\ env' = C!NothingWritten(fn')
        /\ cpu' = "entry" /\ ip' = 1 /\ rsp' = 8 /\ clean' = TRUE
    BY <1>2 DEF StartCode
  <2>2. C!IsCode(fn')
    BY <2>1, CodeHandedOverNext
  <2>3. CP!Called'
    BY <2>1, <2>2, SameCode DEF CP!Called
  <2> QED BY <2>3, CallHoldsNext DEF CodeInv
<1>3. ASSUME phase = "code", phase' = "code", [CP!Next]_CP!vars
      PROVE  CodeInv'
  <2>1. CP!GInv /\ CP!SInv
    BY <1>3 DEF CodeInv
  <2>2. CP!GInv' /\ CP!SInv'
    BY <1>3, <2>1, CodeAssumptions, CP!NextKeeps
  <2> QED BY <2>2 DEF CodeInv
<1>4. CASE Run
  BY <1>3, <1>4, SameRun DEF Run, driverVars
<1>5. CASE UNCHANGED vars
  <2>1. phase' = phase /\ UNCHANGED CP!vars
    BY <1>5 DEF vars, driverVars, codeVars, CP!vars
  <2> QED BY <1>1, <1>3, <2>1
<1>6. CASE MakeTac \/ StartLifeTimes \/ FindLifeTimes \/ StartCompile \/ Allocate \/ NextFunction
  <2>1. phase' # "code"
    BY <1>6 DEF MakeTac, StartLifeTimes, FindLifeTimes, StartCompile, Allocate, NextFunction, driverVars
  <2> QED BY <1>1, <2>1
<1> QED BY <1>2, <1>4, <1>5, <1>6 DEF Next, Terminated

\* The constructor is through when anything after it runs.
DoneInv == phase # "tac" => s = Count(func)

LEMMA DoneInvStep ==
  ASSUME DoneInv, [Next]_vars
  PROVE  DoneInv'
BY DEF DoneInv, Next, MakeTac, StartLifeTimes, FindLifeTimes, StartCompile, Allocate, StartCode, Run,
  NextFunction, Terminated, vars, driverVars, tacVars

\* What a supported function returns is what all of its entries return.
LEMMA MeantByEntries ==
  ASSUME TacInv, s = Count(func), Supported(func), args \in Given
  PROVE  /\ next_varid \in Nat /\ entries \in Seq(CodeOver(next_varid)) /\ Len(entries) \in Nat
         /\ Unwritten(0 .. next_varid - 1) \in Runs(next_varid)
         /\ Meant(func, args) = RunEntries(Unwritten(0 .. next_varid - 1), entries, args, Len(entries)).ret
<1>1. /\ IsFunction(func) /\ next_varid \in Nat /\ entries \in Seq(CodeOver(next_varid))
      /\ CopiedBy(func, s) \/ MeansSoFar(func, entries, next_varid, s)
  BY DEF TacInv, IBuilt, Built
<1>2. ~CopiedBy(func, s)
  BY DEF CopiedBy, Supported
<1>3. next_varid <= next_varid
  BY <1>1
<1>4. Agrees(RunAll(Unwritten(0 .. next_varid - 1), entries, args), RunOf(func, args, s), func.n_user)
  BY <1>1, <1>2, <1>3 DEF MeansSoFar
<1>5. Len(entries) \in Nat /\ Unwritten(0 .. next_varid - 1) \in Runs(next_varid)
  BY <1>1, UnwrittenRun
<1> QED BY <1>1, <1>4, <1>5 DEF Agrees, RunAll, Meant

\* A run that has returned or is stuck stays so to the last entry.
LEMMA ReturnStays ==
  ASSUME NEW n \in Nat, NEW m \in Runs(n), NEW es \in Seq(CodeOver(n)), NEW given \in Given,
         NEW j \in 0 .. Len(es), RunEntries(m, es, given, j).ret # NoReturn
  PROVE  RunEntries(m, es, given, Len(es)).ret = RunEntries(m, es, given, j).ret
<1> DEFINE r == RunEntries(m, es, given, j)
           T == {h \in Nat : j + h <= Len(es) => RunEntries(m, es, given, j + h) = r}
<1>1. Len(es) \in Nat /\ j \in Nat /\ j + 0 = j /\ j <= Len(es)
  OBVIOUS
<1>2. 0 \in T
  BY <1>1
<1>3. \A h \in Nat : h \in T => h + 1 \in T
  <2> SUFFICES ASSUME NEW h \in Nat, h \in T, j + (h + 1) <= Len(es)
               PROVE  RunEntries(m, es, given, j + (h + 1)) = r
    OBVIOUS
  <2>1. RunEntries(m, es, given, j + h) = r
    BY <1>1
  <2>2. j + (h + 1) \in 1 .. Len(es) /\ (j + (h + 1)) - 1 = j + h
    BY <1>1
  <2>3. RunEntries(m, es, given, j + (h + 1)) = RunEntry(r, es[j + (h + 1)], given)
    BY <2>1, <2>2, RunDefined
  <2> QED BY <2>3 DEF RunEntry
<1>4. Nat \subseteq T
  <2> HIDE DEF T
  <2> QED BY <1>2, <1>3, AllNumbers
<1>5. Len(es) - j \in Nat /\ j + (Len(es) - j) = Len(es)
  BY <1>1
<1>6. RunEntries(m, es, given, Len(es)) = r
  BY <1>4, <1>5
<1> QED BY <1>6

\* The entries, run as far as the call has got
Reached == RunEntries(Unwritten(0 .. next_varid - 1), entries, args, ip - 1)

\* CodeGen evaluates the entries on zeros where a variable was not written, and
\* stops where they have no value: for a supported function it is their run.
MeaningInv ==
  phase = "code" /\ cpu \in {"entry", "run"} /\ Supported(func) =>
    /\ Reached.ret = NoReturn
    /\ \A v \in 0 .. next_varid - 1 : CP!Written(entries, v, ip) => Reached.env[v] = env[v]

\* What a call is about
LEMMA CallOf ==
  ASSUME CompilerInv, CodeInv, DoneInv, phase = "code"
  PROVE  /\ TacInv /\ s = Count(func) /\ fn.entries = entries /\ fn.n_vars = next_varid
         /\ CP!GInv /\ CP!SInv /\ args \in Arguments /\ args \in Given
         /\ next_varid \in Nat /\ entries \in Seq(CodeOver(next_varid)) /\ Len(entries) \in Nat
         /\ env \in [0 .. next_varid - 1 -> Values] /\ ip \in 1 .. Len(entries) + 1
         /\ Supported(func) => CP!ReadsWritten(fn)
<1>1. TacInv /\ s = Count(func) /\ CP!GInv /\ CP!SInv /\ fn = Code
  BY DEF CompilerInv, CodeInv, DoneInv, BackInv
<1>2. fn.entries = entries /\ fn.n_vars = next_varid
  BY <1>1 DEF Code
<1>3. next_varid \in Nat /\ entries \in Seq(CodeOver(next_varid)) /\ Len(entries) \in Nat
  BY <1>1 DEF TacInv, IBuilt, Built
<1>4. args \in Arguments /\ args \in Given
  BY <1>1, ArgumentsAssumption DEF CP!GInv, Given
<1>5. env \in [0 .. next_varid - 1 -> Values] /\ ip \in 1 .. Len(entries) + 1
  BY <1>1, <1>2, SameWords DEF CP!GInv, CP!Vars, CP!Ids
<1>6. Supported(func) => CP!ReadsWritten(fn)
  BY CodeHandedOver, SameCode
<1> QED BY <1>1, <1>2, <1>3, <1>4, <1>5, <1>6

\* The entry that is next, and what its run reads
LEMMA NextEntry ==
  ASSUME CompilerInv, CodeInv, DoneInv, MeaningInv, phase = "code", cpu = "run", Supported(func),
         ip <= Len(entries)
  PROVE  /\ Reached \in Runs(next_varid) /\ Reached.ret = NoReturn
         /\ entries[ip] \in CodeOver(next_varid) /\ CP!Cur = entries[ip]
         /\ RunEntries(Unwritten(0 .. next_varid - 1), entries, args, ip) = RunEntry(Reached, entries[ip], args)
         /\ \A v \in {entries[ip].b, entries[ip].c} \ {-1} :
              /\ v \in 0 .. next_varid - 1 /\ env[v] \in Values
              /\ Reached.env[v] = env[v]
<1> DEFINE n == next_varid
           u == Unwritten(0 .. n - 1)
<1>1. /\ fn.entries = entries /\ fn.n_vars = n /\ args \in Given /\ n \in Nat
      /\ entries \in Seq(CodeOver(n)) /\ Len(entries) \in Nat /\ CP!ReadsWritten(fn)
      /\ env \in [0 .. n - 1 -> Values] /\ ip \in 1 .. Len(entries) + 1
  BY CallOf
<1>2. u \in Runs(n)
  BY <1>1, UnwrittenRun
<1>3. ip \in 1 .. Len(entries) /\ ip - 1 \in 0 .. Len(entries)
  BY <1>1
<1>4. entries[ip] \in CodeOver(n) /\ CP!Cur = entries[ip]
  BY <1>1, <1>3 DEF CP!Cur
<1>5. /\ Reached \in Runs(n)
      /\ RunEntries(u, entries, args, ip) = RunEntry(Reached, entries[ip], args)
  <2> HIDE DEF u
  <2>1. /\ RunEntries(u, entries, args, ip - 1) \in Runs(n)
        /\ RunEntries(u, entries, args, ip) = RunEntry(RunEntries(u, entries, args, ip - 1), entries[ip], args)
    BY <1>1, <1>2, <1>3, RunDefined
  <2> QED BY <2>1 DEF Reached, u
<1>6. /\ Reached.ret = NoReturn
      /\ \A v \in 0 .. n - 1 : CP!Written(entries, v, ip) => Reached.env[v] = env[v]
  BY DEF MeaningInv
<1>7. ASSUME NEW v \in {entries[ip].b, entries[ip].c} \ {-1}
      PROVE  v \in 0 .. n - 1 /\ env[v] \in Values /\ Reached.env[v] = env[v]
  <2>1. v \in 0 .. n - 1
    BY <1>4 DEF CodeOver
  <2>2. CP!Written(entries, v, ip)
    BY <1>1, <1>3 DEF CP!ReadsWritten, CP!Reads
  <2> QED BY <1>1, <1>6, <2>1, <2>2
<1> QED BY <1>4, <1>5, <1>6, <1>7

\* An entry that runs has the value CodeGen gives it.
LEMMA EntryHasValue ==
  ASSUME CompilerInv, CodeInv, DoneInv, MeaningInv, phase = "code", Supported(func), CP!Next,
         cpu = "run", cpu' = "run"
  PROVE  /\ ip <= Len(entries) /\ entries[ip].type # "ret" /\ ip' = ip + 1
         /\ EntryValue(Reached, entries[ip], args) \in Values
         /\ env' = [env EXCEPT ![entries[ip].a] = EntryValue(Reached, entries[ip], args)]
<1> DEFINE e == entries[ip]
           n == next_varid
<1>1. fn.entries = entries /\ args \in Given /\ n \in Nat
  BY CallOf
<1>2. CP!OpAssign \/ CP!OpParam \/ CP!OpAdd \/ CP!OpSub \/ CP!OpMul \/ CP!OpDiv
  BY DEF CP!Next, CP!Prologue, CP!DivTrap, CP!OpRet, CP!ImplicitReturn, CP!NoEpilogue
<1>3. ip <= Len(entries)
  BY <1>1, <1>2 DEF CP!OpAssign, CP!OpParam, CP!OpAdd, CP!OpSub, CP!OpMul, CP!OpDiv, CP!At
<1>4. /\ e \in CodeOver(n) /\ CP!Cur = e
      /\ \A v \in {e.b, e.c} \ {-1} : v \in 0 .. n - 1 /\ env[v] \in Values /\ Reached.env[v] = env[v]
  BY <1>3, NextEntry
<1> HIDE DEF e
<1>5. CASE CP!OpAssign
  <2>1. e.type = "assign" /\ ip' = ip + 1 /\ env' = [env EXCEPT ![e.a] = e.value]
    BY <1>4, <1>5 DEF CP!OpAssign, CP!At, CP!Runs
  <2>2. EntryValue(Reached, e, args) = e.value /\ e.value \in Values
    BY <1>4, <2>1 DEF EntryValue, CodeOver, Ops
  <2> QED BY <1>3, <2>1, <2>2 DEF e
<1>6. CASE CP!OpParam
  <2>1. e.type = "param" /\ ip' = ip + 1 /\ env' = [env EXCEPT ![e.a] = args[e.value]]
    BY <1>4, <1>6 DEF CP!OpParam, CP!At, CP!Runs
  <2>2. EntryValue(Reached, e, args) = args[e.value] /\ e.value \in 0 .. MaxParams - 1
    BY <1>4, <2>1 DEF EntryValue, CodeOver, Ops
  <2>3. args[e.value] \in Values
    BY <1>1, <2>2 DEF Given
  <2> QED BY <1>3, <2>1, <2>2, <2>3 DEF e
<1>7. ASSUME e.type \in Ops, ip' = ip + 1, env' = [env EXCEPT ![e.a] = CP!Expected],
             e.type = "div" => ~NoQuotient(Signed(env[e.b]), Signed(env[e.c]))
      PROVE  /\ EntryValue(Reached, e, args) \in Values
             /\ env' = [env EXCEPT ![e.a] = EntryValue(Reached, e, args)]
  <2>1. e.b \in 0 .. n - 1 /\ e.c \in 0 .. n - 1
    BY <1>4, <1>7 DEF CodeOver, Ops
  <2>2. e.b # -1 /\ e.c # -1
    BY <1>1, <2>1
  <2>3. /\ env[e.b] \in Values /\ env[e.c] \in Values
        /\ Reached.env[e.b] = env[e.b] /\ Reached.env[e.c] = env[e.c]
    BY <1>4, <2>2
  <2>4. EntryValue(Reached, e, args) = Computed(e.type, env[e.b], env[e.c])
    BY <1>7, <2>3 DEF EntryValue, Ops
  <2>5. Computed(e.type, env[e.b], env[e.c]) = Meaning(e.type, env[e.b], env[e.c])
    BY <1>7, <2>3, NoValueApart DEF Computed
  <2>6. CP!Expected = Meaning(e.type, env[e.b], env[e.c])
    BY <1>4, SameWords DEF CP!Expected
  <2>7. Meaning(e.type, env[e.b], env[e.c]) \in Values
    BY <1>7, <2>3, MeaningTyped
  <2> QED BY <1>7, <2>4, <2>5, <2>6, <2>7
<1>8. CASE CP!OpAdd \/ CP!OpSub \/ CP!OpMul
  <2>1. e.type \in {"add", "sub", "mul"} /\ ip' = ip + 1 /\ env' = [env EXCEPT ![e.a] = CP!Expected]
    BY <1>4, <1>8 DEF CP!OpAdd, CP!OpSub, CP!OpMul, CP!At, CP!Runs
  <2> QED BY <1>3, <1>7, <2>1 DEF e, Ops
<1>9. CASE CP!OpDiv
  <2>1. /\ e.type = "div" /\ ip' = ip + 1 /\ env' = [env EXCEPT ![e.a] = CP!Expected]
        /\ ~NoQuotient(Signed(env[e.b]), Signed(env[e.c]))
    BY <1>4, <1>9, SameWords DEF CP!OpDiv, CP!At, CP!Runs
  <2> QED BY <1>3, <1>7, <2>1 DEF e, Ops
<1> QED BY <1>2, <1>5, <1>6, <1>8, <1>9

LEMMA MeaningInvStep ==
  ASSUME CompilerInv, CodeInv, DoneInv, MeaningInv, CompilerInv', CodeInv', DoneInv', [Next]_vars
  PROVE  MeaningInv'
<1> SUFFICES ASSUME phase' = "code", cpu' \in {"entry", "run"}, Supported(func')
             PROVE  MeaningInv'
  BY DEF MeaningInv
<1>1. CASE StartCode
  <2>1. ip' = 1 /\ UNCHANGED <<func, next_varid, entries>> /\ args' \in Arguments
    BY <1>1 DEF StartCode, tacVars
  <2>2. next_varid \in Nat /\ entries \in Seq(CodeOver(next_varid)) /\ args' \in Given
    BY <2>1, ArgumentsAssumption DEF CompilerInv, TacInv, IBuilt, Built, Given
  <2>3. /\ Unwritten(0 .. next_varid - 1) \in Runs(next_varid)
        /\ Unwritten(0 .. next_varid - 1).ret = NoReturn
    BY <2>2, UnwrittenRun
  <2>4. RunEntries(Unwritten(0 .. next_varid - 1), entries, args', 0) = Unwritten(0 .. next_varid - 1)
    BY <2>2, <2>3, RunDefined
  <2>5. Reached'.ret = NoReturn
    <3>1. Reached' = RunEntries(Unwritten(0 .. next_varid' - 1), entries', args', ip' - 1)
      BY DEF Reached
    <3>2. ip' - 1 = 0
      BY <2>1
    <3> QED BY <2>1, <2>3, <2>4, <3>1, <3>2
  <2>6. \A v : ~CP!Written(entries', v, ip')
    BY <2>1 DEF CP!Written
  <2> QED BY <2>5, <2>6 DEF MeaningInv
<1>2. ASSUME UNCHANGED <<func, next_varid, entries, args, ip, env, phase>>, cpu \in {"entry", "run"}
      PROVE  MeaningInv'
  <2>1. Reached' = Reached
    BY <1>2 DEF Reached
  <2> QED BY <1>2, <2>1 DEF MeaningInv
<1>3. CASE Run
  <2>1. CP!Next /\ phase = "code" /\ UNCHANGED <<func, next_varid, entries, phase>>
    BY <1>3, SameRun DEF Run, driverVars, tacVars
  <2>2. args' = args
    BY <2>1, SameRun, RunKeepsFunction
  <2>3. CASE cpu = "entry"
    <3>1. CP!Prologue
      BY <2>1, <2>3 DEF CP!Next, CP!OpAssign, CP!OpParam, CP!OpAdd, CP!OpSub, CP!OpMul, CP!OpDiv,
        CP!DivTrap, CP!OpRet, CP!ImplicitReturn, CP!NoEpilogue, CP!At
    <3> QED BY <1>2, <2>1, <2>2, <2>3, <3>1 DEF CP!Prologue
  <2>4. CASE cpu = "run"
    <3> DEFINE n == next_varid
               e == entries[ip]
               x == EntryValue(Reached, e, args)
               m == RunEntries(Unwritten(0 .. n - 1), entries, args, ip)
    <3>1. cpu' = "run"
      BY <2>1, <2>4 DEF CP!Next, CP!Prologue, CP!OpAssign, CP!OpParam, CP!OpAdd, CP!OpSub, CP!OpMul,
        CP!OpDiv, CP!DivTrap, CP!OpRet, CP!ImplicitReturn, CP!NoEpilogue, CP!Runs
    <3>2. /\ ip <= Len(entries) /\ e.type # "ret" /\ ip' = ip + 1 /\ x \in Values
          /\ env' = [env EXCEPT ![e.a] = x]
      BY <2>1, <2>4, <3>1, EntryHasValue
    <3>3. /\ Reached \in Runs(n) /\ Reached.ret = NoReturn /\ e \in CodeOver(n)
          /\ m = RunEntry(Reached, e, args)
      BY <2>1, <2>4, <3>2, NextEntry
    <3>4. /\ args \in Given /\ n \in Nat /\ env \in [0 .. n - 1 -> Values]
          /\ ip \in 1 .. Len(entries) + 1 /\ Len(entries) \in Nat
      BY <2>1, CallOf
    <3>5. Reached' = m
      <4>1. Reached' = RunEntries(Unwritten(0 .. n' - 1), entries', args', ip' - 1)
        BY DEF Reached
      <4>2. ip' - 1 = ip
        BY <3>2, <3>4
      <4> QED BY <2>1, <2>2, <4>1, <4>2
    <3> HIDE DEF e, x, m
    <3>6. m = Assigned(Reached, e.a, x) /\ x \in Results /\ e.a \in 0 .. n - 1 /\ x # NoValue
      <4>1. x = EntryValue(Reached, e, args)
        BY DEF x
      <4> QED BY <3>2, <3>3, <3>4, <4>1, EntryRun, NoValueApart
    <3>7. /\ m.ret = NoReturn /\ m.env[e.a] = x
          /\ \A v \in 0 .. n - 1 : v # e.a => m.env[v] = Reached.env[v]
      BY <3>3, <3>4, <3>6, AssignedRun
    <3>8. ASSUME NEW v \in 0 .. n - 1, CP!Written(entries, v, ip + 1)
          PROVE  m.env[v] = env'[v]
      <4>1. CASE v = e.a
        BY <3>2, <3>4, <3>7, <4>1
      <4>2. CASE v # e.a
        <5>1. PICK w \in 1 .. (ip + 1) - 1 : v \in CP!Writes(entries[w])
          BY <3>8 DEF CP!Written
        <5>2. w # ip
          BY <4>2, <5>1 DEF CP!Writes, e
        <5>3. w \in 1 .. ip - 1
          BY <3>4, <5>1, <5>2
        <5>4. CP!Written(entries, v, ip)
          BY <5>1, <5>3 DEF CP!Written
        <5>5. Reached.env[v] = env[v]
          BY <2>1, <2>4, <5>4 DEF MeaningInv
        <5> QED BY <3>2, <3>4, <3>7, <4>2, <5>5
      <4> QED BY <4>1, <4>2
    <3> QED BY <2>1, <3>2, <3>5, <3>7, <3>8 DEF MeaningInv
  <2> QED BY <2>1, <2>3, <2>4 DEF CP!Next, CP!Prologue, CP!OpAssign, CP!OpParam, CP!OpAdd, CP!OpSub,
        CP!OpMul, CP!OpDiv, CP!DivTrap, CP!OpRet, CP!ImplicitReturn, CP!NoEpilogue, CP!At
<1>4. CASE UNCHANGED vars
  BY <1>2, <1>4 DEF vars, driverVars, tacVars, codeVars
<1>5. CASE MakeTac \/ StartLifeTimes \/ FindLifeTimes \/ StartCompile \/ Allocate \/ NextFunction
  BY <1>5 DEF MakeTac, StartLifeTimes, FindLifeTimes, StartCompile, Allocate, NextFunction, driverVars
<1> QED BY <1>1, <1>3, <1>4, <1>5 DEF Next, Terminated

-----------------------------------------------------------------------------
(***************************************************************************)
(* A function costs at most one register, so compile_expression() does not *)
(* run out of them before the function with the number of the last one.    *)
(***************************************************************************)
CountInv ==
  /\ phase \in {"tac", "lifetimes"} \/ (phase = "alloc" /\ stage \in {"generated", "first"}) =>
       Len(reg_avail) + at > Len(InitialRegs)
  /\ Len(reg_avail) + at >= Len(InitialRegs)
  /\ phase = "alloc" /\ stage = "threw" => at >= Len(InitialRegs)

LEMMA CountInvStep ==
  ASSUME CompilerInv, CountInv, [Next]_vars
  PROVE  CountInv'
<1> DEFINE l == Len(reg_avail)
           r == Len(InitialRegs)
<1>1. l \in Nat /\ r \in Nat /\ at \in Nat /\ reg_avail \in Seq(Nat)
  <2>1. reg_avail \in Seq(Nat) /\ at \in 1 .. Len(file) /\ Len(file) \in Nat
    BY DEF CompilerInv, TacInv, InFile, BackInv, AP!AInv, AP!Registers
  <2> QED BY <2>1, AllocAssumptions
<1> HIDE DEF r
<1>2. /\ phase \in {"tac", "lifetimes"} \/ (phase = "alloc" /\ stage \in {"generated", "first"}) => l + at > r
      /\ l + at >= r
      /\ phase = "alloc" /\ stage = "threw" => at >= r
  BY DEF CountInv, r
<1>3. ASSUME /\ phase' \in {"tac", "lifetimes"} \/ (phase' = "alloc" /\ stage' \in {"generated", "first"}) => l' + at' > r
             /\ l' + at' >= r
             /\ phase' = "alloc" /\ stage' = "threw" => at' >= r
      PROVE  CountInv'
  BY <1>3 DEF CountInv, r
<1>4. ASSUME UNCHANGED <<reg_avail, at, phase, stage>>
      PROVE  CountInv'
  BY <1>2, <1>3, <1>4
<1>5. CASE MakeTac \/ FindLifeTimes
  BY <1>4, <1>5 DEF MakeTac, FindLifeTimes, driverVars, allocVars
<1>6. CASE StartLifeTimes
  BY <1>2, <1>3, <1>6 DEF StartLifeTimes, allocVars
<1>7. CASE StartCompile
  BY <1>2, <1>3, <1>7 DEF StartCompile, A!StartCompile
<1>8. CASE StartCode
  BY <1>2, <1>3, <1>8 DEF StartCode, allocVars
<1>9. CASE Run
  BY <1>4, <1>9 DEF Run, driverVars, allocVars
<1>10. CASE NextFunction
  <2>1. at' = at + 1 /\ phase' = "tac" /\ reg_avail' = reg_avail
    BY <1>10 DEF NextFunction, allocVars
  <2> QED BY <1>1, <1>2, <1>3, <2>1
<1>11. CASE UNCHANGED vars
  BY <1>4, <1>11 DEF vars, driverVars, allocVars
<1>12. CASE Allocate
  <2>1. phase = "alloc" /\ phase' = "alloc" /\ at' = at /\ A!Compiling
    BY <1>12 DEF Allocate, driverVars
  <2>2. CASE A!FirstColor
    <3>1. stage = "generated" /\ reg_avail' = reg_avail /\ (stage' = "first" \/ (stage' = "threw" /\ l = 0))
      BY <2>2 DEF A!FirstColor, A!Enter
    <3> QED BY <1>1, <1>2, <1>3, <2>1, <3>1
  <2>3. CASE A!Coloring
    BY <1>4, <2>1, <2>3 DEF A!Coloring, A!allocator
  <2>4. CASE A!KeepFirst \/ A!KeepSecond \/ A!SwapColors
    <3>1. reg_avail' = reg_avail /\ stage' \in {"colored", "compiled"}
      BY <2>4 DEF A!KeepFirst, A!KeepSecond, A!SwapColors
    <3> QED BY <1>2, <1>3, <2>1, <3>1
  <2>5. CASE A!Reserve
    <3>1. /\ stage = "first" /\ reg_avail' = SubSeq(reg_avail, 1, l - 1)
          /\ stage' = "second" \/ (stage' = "threw" /\ l - 1 = 0)
      BY <2>5 DEF A!Reserve, A!Enter, A!RegsLeft, A!SecondCount
    <3>2. l' >= l - 1 /\ l' \in Nat
      <4>1. CASE l = 0
        <5>1. reg_avail' \in Seq(Nat) /\ 1 > l - 1
          BY <1>1, <3>1, <4>1
        <5> QED BY <4>1, <5>1
      <4>2. CASE l # 0
        <5>1. PICK j : j = l - 1
          OBVIOUS
        <5>2. j \in Nat /\ j <= Len(reg_avail)
          BY <1>1, <4>2, <5>1
        <5>3. Len(SubSeq(reg_avail, 1, j)) = j
          BY <1>1, <5>2
        <5> QED BY <1>1, <3>1, <5>1, <5>2, <5>3
      <4> QED BY <4>1, <4>2
    <3>3. PICK x, y : x = l /\ y = l'
      OBVIOUS
    <3>4. /\ x \in Nat /\ y \in Nat /\ y >= x - 1 /\ x + at > r
          /\ stage' = "second" \/ (stage' = "threw" /\ x - 1 = 0)
      BY <1>1, <1>2, <2>1, <3>1, <3>2, <3>3
    <3>5. y + at >= r /\ (stage' = "threw" => at >= r)
      BY <1>1, <3>4
    <3> QED BY <1>3, <2>1, <3>3, <3>4, <3>5
  <2> QED BY <2>1, <2>2, <2>3, <2>4, <2>5 DEF A!Compiling
<1> QED BY <1>5, <1>6, <1>7, <1>8, <1>9, <1>10, <1>11, <1>12 DEF Next, Terminated

-----------------------------------------------------------------------------
(***************************************************************************)
(* The whole compiler implements Source: every step is one of Source or    *)
(* none.                                                                   *)
(***************************************************************************)
FullInv == CompilerInv /\ CodeInv /\ DoneInv /\ MeaningInv /\ CountInv

LEMMA FullInvariance == Spec => []FullInv
<1>1. Init => FullInv
  <2>1. ASSUME Init PROVE CountInv
    <3>1. at = 1 /\ phase = "tac" /\ reg_avail = InitialRegs
      BY <2>1 DEF Init, A!AllocInit
    <3>2. Len(InitialRegs) \in Nat
      BY AllocAssumptions
    <3> QED BY <3>1, <3>2 DEF CountInv
  <2>2. Init => CompilerInv
    BY TacInvInit, BackInvInit DEF CompilerInv, LifeInv, Phases, Init
  <2> QED BY <2>1, <2>2 DEF FullInv, Init, CodeInv, DoneInv, MeaningInv
<1>2. FullInv /\ [Next]_vars => FullInv'
  <2> SUFFICES ASSUME FullInv, [Next]_vars PROVE FullInv'
    OBVIOUS
  <2>1. CompilerInv'
    BY TacInvStep, LifeInvStep, BackInvStep DEF CompilerInv, FullInv
  <2>2. CodeInv' /\ DoneInv'
    BY <2>1, CodeInvStep, DoneInvStep DEF FullInv
  <2>3. MeaningInv'
    BY <2>1, <2>2, MeaningInvStep DEF FullInv
  <2>4. CountInv'
    BY CountInvStep DEF FullInv
  <2> QED BY <2>1, <2>2, <2>3, <2>4 DEF FullInv
<1> QED BY <1>1, <1>2, PTL DEF Spec

\* A division that faults has no value.
LEMMA FaultMeant ==
  ASSUME FullInv, FullInv', phase = "code", phase' = "code", Supported(func), CP!DivTrap, clean'
  PROVE  cpu' = "trapped" /\ Meant(func, args) = Stuck
<1> DEFINE n == next_varid
           e == entries[ip]
           u == Unwritten(0 .. n - 1)
<1>1. /\ cpu = "run" /\ ip <= Len(fn.entries) /\ CP!Cur.type = "div" /\ cpu' \in {"trapped", "undefined"}
      /\ UNCHANGED <<fn, args, ip, mach, env>>
  BY DEF CP!DivTrap, CP!At
<1>2. /\ CompilerInv /\ CodeInv /\ DoneInv /\ MeaningInv
      /\ fn.entries = entries /\ args \in Given /\ n \in Nat /\ entries \in Seq(CodeOver(n))
      /\ Len(entries) \in Nat /\ ip \in 1 .. Len(entries) + 1
      /\ CP!ReadsWritten(fn) /\ TacInv /\ s = Count(func)
  BY CallOf DEF FullInv
<1>3. /\ Reached \in Runs(n) /\ Reached.ret = NoReturn /\ e \in CodeOver(n) /\ CP!Cur = e
      /\ RunEntries(u, entries, args, ip) = RunEntry(Reached, e, args)
      /\ \A v \in {e.b, e.c} \ {-1} : v \in 0 .. n - 1 /\ env[v] \in Values /\ Reached.env[v] = env[v]
  BY <1>1, <1>2, NextEntry
<1>4. cpu' = "trapped" /\ NoQuotient(Signed(env[e.b]), Signed(env[e.c]))
  <2>1. CP!SInv'
    BY DEF FullInv, CodeInv
  <2>2. CP!ReadsWritten(fn')
    BY <1>1, <1>2
  <2>3. /\ cpu' = "trapped" => CP!NoQuotient(CP!Signed(env'[CP!Cur'.b]), CP!Signed(env'[CP!Cur'.c]))
        /\ cpu' # "undefined"
    BY <2>1, <2>2 DEF CP!SInv, CP!FaultsJustified
  <2>4. CP!Cur' = e
    BY <1>1, <1>3 DEF CP!Cur
  <2> QED BY <1>1, <2>3, <2>4, SameWords
<1> HIDE DEF e, u
<1>5. e.b \in 0 .. n - 1 /\ e.c \in 0 .. n - 1 /\ e.type = "div" /\ e.a \in 0 .. n - 1
  BY <1>1, <1>3 DEF CodeOver, Ops
<1>6. Reached.env[e.b] = env[e.b] /\ Reached.env[e.c] = env[e.c]
  <2>1. e.b # -1 /\ e.c # -1
    BY <1>2, <1>5
  <2> QED BY <1>3, <2>1
<1>7. EntryValue(Reached, e, args) = NoValue
  BY <1>4, <1>5, <1>6 DEF EntryValue, Computed
<1>8. RunEntry(Reached, e, args).ret = Stuck
  <2>1. RunEntry(Reached, e, args) = Assigned(Reached, e.a, NoValue)
    BY <1>2, <1>3, <1>5, <1>7, EntryRun
  <2> QED BY <1>2, <1>3, <1>5, <2>1, AssignedRun DEF Results
<1>9. RunEntries(u, entries, args, ip).ret = Stuck /\ ip \in 0 .. Len(entries) /\ u \in Runs(n)
  <2>1. ip \in 0 .. Len(entries)
    BY <1>1, <1>2
  <2>2. RunEntries(u, entries, args, ip).ret = Stuck
    BY <1>3, <1>8
  <2> QED BY <1>2, <2>1, <2>2, UnwrittenRun DEF u
<1>10. RunEntries(u, entries, args, Len(entries)).ret = Stuck
  BY <1>2, <1>9, ReturnStays, NoValueApart
<1> QED BY <1>2, <1>4, <1>10, MeantByEntries DEF u

\* What op_ret() leaves in eax is what the statements return.
LEMMA AnswerMeant ==
  ASSUME FullInv, phase = "code", Supported(func), CP!OpRet, clean
  PROVE  Meant(func, args) = mach'.reg[0]
<1> DEFINE n == next_varid
           e == entries[ip]
           u == Unwritten(0 .. n - 1)
<1>1. cpu = "run" /\ ip <= Len(fn.entries) /\ CP!Cur.type = "ret"
  BY DEF CP!OpRet, CP!At
<1>2. /\ CompilerInv /\ CodeInv /\ DoneInv /\ MeaningInv
      /\ fn.entries = entries /\ fn.n_vars = n /\ args \in Given /\ n \in Nat /\ entries \in Seq(CodeOver(n))
      /\ Len(entries) \in Nat /\ ip \in 1 .. Len(entries) + 1
      /\ CP!ReadsWritten(fn) /\ TacInv /\ s = Count(func) /\ CP!GInv /\ CP!SInv
  BY CallOf DEF FullInv
<1>3. /\ Reached \in Runs(n) /\ Reached.ret = NoReturn /\ e \in CodeOver(n) /\ CP!Cur = e
      /\ RunEntries(u, entries, args, ip) = RunEntry(Reached, e, args)
      /\ \A v \in {e.b, e.c} \ {-1} : v \in 0 .. n - 1 /\ env[v] \in Values /\ Reached.env[v] = env[v]
  BY <1>1, <1>2, NextEntry
<1>4. mach'.reg[0] = env[e.b]
  <2>1. mach'.reg[CP!eax] = env[CP!Cur.b]
    BY <1>2, CodeAssumptions, CP!RetReturns
  <2> QED BY <1>3, <2>1 DEF CP!eax
<1> HIDE DEF e, u
<1>5. e.b \in 0 .. n - 1 /\ e.type = "ret"
  BY <1>1, <1>3 DEF CodeOver, Ops
<1>6. Reached.env[e.b] = env[e.b] /\ env[e.b] \in Values
  <2>1. e.b # -1
    BY <1>2, <1>5
  <2> QED BY <1>3, <2>1
<1>7. RunEntry(Reached, e, args).ret = env[e.b]
  <2>1. RunEntry(Reached, e, args) = Answered(Reached, env[e.b])
    BY <1>2, <1>3, <1>5, <1>6, EntryRun
  <2>2. env[e.b] \in Results /\ env[e.b] # NoValue
    BY <1>6, NoValueApart DEF Results
  <2> QED BY <1>2, <1>3, <2>1, <2>2, AnsweredRun
<1>8. RunEntries(u, entries, args, ip).ret = env[e.b] /\ ip \in 0 .. Len(entries) /\ u \in Runs(n)
  BY <1>1, <1>2, <1>3, <1>7, UnwrittenRun DEF u
<1>9. RunEntries(u, entries, args, Len(entries)).ret = env[e.b]
  BY <1>2, <1>6, <1>8, ReturnStays, NoValueApart
<1> QED BY <1>2, <1>4, <1>9, MeantByEntries DEF u

\* epilogue() after the last entry comes only where no statement returns.
LEMMA NoAnswerMeant ==
  ASSUME FullInv, phase = "code", Supported(func), CP!ImplicitReturn
  PROVE  Meant(func, args) = NoReturn
<1>1. cpu = "run" /\ ip = Len(fn.entries) + 1
  BY DEF CP!ImplicitReturn
<1>2. /\ fn.entries = entries /\ args \in Given /\ Len(entries) \in Nat /\ TacInv /\ s = Count(func)
  BY CallOf DEF FullInv
<1>3. Reached.ret = NoReturn
  BY <1>1 DEF FullInv, MeaningInv
<1>4. ip - 1 = Len(entries)
  BY <1>1, <1>2
<1> QED BY <1>2, <1>3, <1>4, MeantByEntries DEF Reached

LEMMA SameRunOf ==
  ASSUME NEW f, NEW given, NEW n
  PROVE  Promise!RunOf(f, given, n) = RunOf(f, given, n)
BY Zenon DEF Promise!Count, Count, Promise!RunOf, RunOf, Promise!Unwritten, Unwritten,
  Promise!RunStatement, RunStatement, Promise!Assigned, Assigned, Promise!Answered, Answered,
  Promise!ValueOf, ValueOf, Promise!ValueAt, ValueAt, Promise!Computed, Computed,
  Promise!Meaning, Meaning, Promise!NoQuotient, NoQuotient, Promise!Quotient, Quotient,
  Promise!Abs, Abs, Promise!Signed, Signed, Promise!NoValue, NoValue,
  Promise!NoReturn, NoReturn, Promise!Stuck, Stuck

LEMMA SamePromise ==
  /\ \A f : Promise!Supported(f) <=> Supported(f)
  /\ \A f, given : Promise!Meant(f, given) = Meant(f, given)
  /\ Promise!Values = Values /\ Promise!NoReturn = NoReturn /\ Promise!Stuck = Stuck
<1>1. \A f : Promise!Supported(f) <=> Supported(f)
  BY DEF Promise!Supported, Supported, Promise!Copies, Copies, Promise!Whole, Whole,
    Promise!Uses, Uses, Promise!Set, Set
<1>2. Promise!Values = Values /\ Promise!NoReturn = NoReturn /\ Promise!Stuck = Stuck
  BY DEF Promise!Values, Values, Promise!NoReturn, NoReturn, Promise!Stuck, Stuck
<1>3. \A f, given : Promise!Meant(f, given) = Meant(f, given)
  BY SameRunOf, Zenon DEF Promise!Meant, Meant, Promise!Count, Count
<1> QED BY <1>1, <1>2, <1>3

\* How far Source takes the call to be, in every pass
StatusKnown ==
  /\ phase # "code" /\ ~(phase = "alloc" /\ stage = "threw") => Status = "waiting"
  /\ phase = "alloc" /\ stage = "threw" => Status = "rejected"
  /\ phase = "code" /\ cpu \in {"entry", "run"} => Status = "called"
  /\ phase = "code" /\ cpu \notin {"entry", "run"} => Status = cpu

LEMMA StatusIs == StatusKnown /\ StatusKnown'
<1>1. StatusKnown
  BY DEF StatusKnown, Status
<1> QED BY <1>1, PTL

LEMMA PromiseStart ==
  ASSUME Init
  PROVE  Promise!Init
<1>1. file \in Files /\ at = 1 /\ phase = "tac" /\ args = <<>>
  BY DEF Init, Idle
<1>2. Status = "waiting"
  BY <1>1, StatusIs DEF StatusKnown
<1> QED BY <1>1, <1>2, SamePromise DEF Promise!Init

\* The steps of a call
LEMMA RunPromised ==
  ASSUME FullInv, FullInv', Run
  PROVE  [Promise!Next]_(Promise!sourceVars)
<1>1. /\ CP!Next /\ phase = "code" /\ phase' = "code"
      /\ UNCHANGED <<file, at, func>> /\ func = file[at]
  BY SameRun DEF Run, driverVars, tacVars, FullInv, CompilerInv, TacInv
<1>2. UNCHANGED args
  BY <1>1, SameRun, RunKeepsFunction
<1>3. cpu \in {"entry", "run"} /\ Status = "called"
  <2>1. cpu \in {"entry", "run"}
    BY <1>1 DEF CP!Next, CP!Prologue, CP!OpAssign, CP!OpParam, CP!OpAdd, CP!OpSub, CP!OpMul, CP!OpDiv,
      CP!DivTrap, CP!OpRet, CP!ImplicitReturn, CP!NoEpilogue, CP!At
  <2> QED BY <1>1, <2>1, StatusIs DEF StatusKnown
<1>4. (Supported(func') <=> Supported(func)) /\ (Promise!Supported(func) <=> Supported(func))
  BY <1>1, SamePromise
<1>5. clean \in BOOLEAN /\ clean' \in BOOLEAN
  <2>1. (phase = "code" => clean \in BOOLEAN) /\ (phase' = "code" => clean' \in BOOLEAN)
    BY DEF FullInv, CodeInv, CP!GInv
  <2> QED BY <1>1, <2>1
<1>6. CASE cpu' = "run"
  <2>1. Status' = "called"
    BY <1>1, <1>6, StatusIs DEF StatusKnown
  <2>2. clean' => clean
    BY <1>1, <1>5, <1>6 DEF CP!Next, CP!Prologue, CP!OpAssign, CP!OpParam, CP!OpAdd, CP!OpSub, CP!OpMul, CP!OpDiv,
      CP!DivTrap, CP!OpRet, CP!ImplicitReturn, CP!NoEpilogue, CP!Runs
  <2>3. CASE Supported(func) /\ clean /\ ~clean'
    BY <1>1, <1>2, <1>3, <1>4, <2>1, <2>3 DEF Promise!Next, Promise!Excuse
  <2>4. CASE ~(Supported(func) /\ clean /\ ~clean')
    BY <1>1, <1>2, <1>3, <1>4, <2>1, <2>2, <2>4 DEF Promise!sourceVars
  <2> QED BY <2>3, <2>4
<1>7. CASE CP!DivTrap
  <2>1. cpu' \in {"trapped", "undefined"} /\ (clean' => clean)
    BY <1>5, <1>7 DEF CP!DivTrap
  <2>2. Status' = cpu'
    BY <1>1, <2>1, StatusIs DEF StatusKnown
  <2>3. Supported(func) /\ clean' => cpu' = "trapped" /\ Promise!Meant(func, args) = Promise!Stuck
    BY <1>1, <1>7, FaultMeant, SamePromise
  <2> QED BY <1>1, <1>2, <1>3, <1>4, <2>1, <2>2, <2>3 DEF Promise!Next, Promise!Fault, Promise!Function
<1>8. ASSUME cpu' = "returned", clean' = clean,
             Supported(func) /\ clean => Meant(func, args) \in {NoReturn, mach'.reg[0]}
      PROVE  Promise!Answer
  <2>1. Status' = "returned"
    BY <1>1, <1>8, StatusIs DEF StatusKnown
  <2>2. mach'.reg[0] \in Values
    <3>1. phase' = "code" => mach'.reg[0] \in CP!Values
      BY DEF FullInv, CodeInv, CP!GInv, CP!Machines, CP!Registers
    <3> QED BY <1>1, <3>1, SameWords
  <2> QED BY <1>1, <1>2, <1>3, <1>4, <1>8, <2>1, <2>2, SamePromise DEF Promise!Answer, Promise!Function
<1>9. CASE CP!OpRet
  BY <1>1, <1>8, <1>9, AnswerMeant DEF CP!OpRet, Promise!Next
<1>10. CASE CP!ImplicitReturn
  BY <1>1, <1>8, <1>10, NoAnswerMeant DEF CP!ImplicitReturn, Promise!Next
<1>11. CASE CP!NoEpilogue
  <2>1. cpu' = "undefined" /\ clean' = FALSE
    BY <1>11 DEF CP!NoEpilogue
  <2>2. Status' = cpu'
    BY <1>1, <2>1, StatusIs DEF StatusKnown
  <2> QED BY <1>1, <1>2, <1>3, <1>4, <2>1, <2>2 DEF Promise!Next, Promise!Fault, Promise!Function
<1> QED BY <1>1, <1>3, <1>6, <1>7, <1>9, <1>10, <1>11 DEF CP!Next, CP!Prologue, CP!OpAssign, CP!OpParam, CP!OpAdd,
      CP!OpSub, CP!OpMul, CP!OpDiv, CP!Runs, CP!At

LEMMA StepPromised ==
  ASSUME FullInv, FullInv', [Next]_vars
  PROVE  [Promise!Next]_(Promise!sourceVars)
<1>1. func = file[at]
  BY DEF FullInv, CompilerInv, TacInv
<1>2. ASSUME UNCHANGED <<file, at, args>>, phase # "code", phase' # "code", Status' = Status, Status # "returned"
      PROVE  [Promise!Next]_(Promise!sourceVars)
  BY <1>2 DEF Promise!sourceVars
<1>3. CASE MakeTac \/ StartLifeTimes \/ FindLifeTimes
  <2>1. UNCHANGED <<file, at, args>> /\ phase \in {"tac", "lifetimes"} /\ phase' \in {"tac", "lifetimes"}
    BY <1>3 DEF MakeTac, StartLifeTimes, FindLifeTimes, driverVars, codeVars
  <2>2. Status = "waiting" /\ Status' = "waiting"
    BY <2>1, StatusIs DEF StatusKnown
  <2> QED BY <1>2, <2>1, <2>2
<1>4. CASE StartCompile
  <2>1. UNCHANGED <<file, at, args>> /\ phase = "lifetimes" /\ phase' = "alloc" /\ stage' = "generated"
    BY <1>4 DEF StartCompile, codeVars, A!StartCompile
  <2>2. Status = "waiting" /\ Status' = "waiting"
    BY <2>1, StatusIs DEF StatusKnown
  <2> QED BY <1>2, <2>1, <2>2
<1>5. CASE Allocate
  <2>1. UNCHANGED <<file, at, args>> /\ phase = "alloc" /\ phase' = "alloc" /\ A!Compiling
    BY <1>5 DEF Allocate, driverVars, codeVars
  <2>2. stage # "threw"
    BY <2>1 DEF A!Compiling, A!Coloring, A!FirstColor, A!KeepFirst, A!KeepSecond, A!SwapColors, A!Reserve
  <2>3. Status = "waiting"
    BY <2>1, <2>2, StatusIs DEF StatusKnown
  <2>4. CASE stage' = "threw"
    <3>1. Status' = "rejected" /\ at >= Len(InitialRegs)
      BY <2>1, <2>4, StatusIs DEF StatusKnown, FullInv, CountInv
    <3> QED BY <2>1, <2>3, <3>1 DEF Promise!Next, Promise!Reject
  <2>5. CASE stage' # "threw"
    <3>1. Status' = "waiting"
      BY <2>1, <2>5, StatusIs DEF StatusKnown
    <3> QED BY <1>2, <2>1, <2>3, <3>1
  <2> QED BY <2>4, <2>5
<1>6. CASE StartCode
  <2>1. /\ phase = "alloc" /\ stage = "compiled" /\ phase' = "code" /\ args' \in Arguments /\ cpu' = "entry"
        /\ clean' = TRUE /\ UNCHANGED <<file, at, func>>
    BY <1>6 DEF StartCode, tacVars
  <2>2. Status = "waiting" /\ Status' = "called"
    BY <2>1, StatusIs DEF StatusKnown
  <2>3. Supported(func') <=> Promise!Supported(file[at])
    BY <1>1, <2>1, SamePromise
  <2> QED BY <2>1, <2>2, <2>3 DEF Promise!Next, Promise!Call, Promise!Function
<1>7. CASE Run
  BY <1>7, RunPromised
<1>8. CASE NextFunction
  <2>1. /\ Status \in {"returned", "rejected"} /\ at < Len(file) /\ at' = at + 1 /\ phase' = "tac"
        /\ args' = <<>> /\ file' = file
    BY <1>8 DEF NextFunction, Idle
  <2>2. Status' = "waiting"
    BY <2>1, StatusIs DEF StatusKnown
  <2> QED BY <2>1, <2>2, SamePromise DEF Promise!Next, Promise!Proceed
<1>9. CASE UNCHANGED vars
  BY <1>9 DEF vars, driverVars, tacVars, allocVars, codeVars, Promise!sourceVars, Status
<1> QED BY <1>3, <1>4, <1>5, <1>6, <1>7, <1>8, <1>9 DEF Next, Terminated

\* The compiler does what Source promises for every file and every value of the
\* arguments, the registers and the word: a call returns what the statements
\* say or faults where they have no value, unless it met a hazard that CodeGen
\* names or the function is one compile_expression() has no code for; and no
\* function before the one with the number of the last register is rejected.
\* For files of one function this is main() in emjit.cpp with every pass it
\* calls; for longer ones, compile_expression() called again on one tac2x64.
THEOREM CompilerKeepsPromise == Spec => KeepsPromise
<1>1. Init => Promise!Init
  BY PromiseStart
<1>2. FullInv /\ FullInv' /\ [Next]_vars => [Promise!Next]_(Promise!sourceVars)
  BY StepPromised
<1> QED BY <1>1, <1>2, FullInvariance, PTL DEF Spec, KeepsPromise, Promise!Spec
=============================================================================
