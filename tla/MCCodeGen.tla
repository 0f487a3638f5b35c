----------------------------- MODULE MCCodeGen -----------------------------
(***************************************************************************)
(* Instances of CodeGen.                                                   *)
(***************************************************************************)
EXTENDS CodeGen, Entries

\* esi and r11d: the first is also the register of an argument.
TwoRegs == <<6, 11>>

\* reg_avail after a colouring that needed the given number of slots
Left(slots) == IF slots = 0 THEN TwoRegs ELSE SubSeq(TwoRegs, 1, 1)

\* The entries p over n variables with every assignment the contract allows
\* that has no more than the given number of slots.
WithPlacements(p, n, slots) ==
  LET f(m, s) == [entries |-> p, n_vars |-> n, color_map |-> m, n_spills |-> s,
                  regs |-> Left(s), temp |-> IF s = 0 THEN -1 ELSE 11]
      none  == f([v \in Ids(n) |-> 0], 0)
      graph == Interference([n_vars |-> n, live |-> {LiveSet(none, j) : j \in 1 .. Len(p)}])
  IN  UNION {{f(m, s) : m \in {q \in [Ids(n) -> -s .. Len(Left(s)) - 1] :
                                 IsAssignment(q, graph, n, Len(Left(s)), s)}} : s \in 0 .. slots}

Words8 == 8

\* f(x) with two operations on x, a constant and a result, in every shape,
\* and the same without a return: the epilogue comes after the last entry.
TwoOps ==
  {<<Param(0, 0), Assign(1, 3), x, y, Ret(2)>> :
     x \in {Arith(t, a, b, 1) : t \in {"add", "sub", "mul", "div"}, a \in Ids(3), b \in Ids(2)},
     y \in {Arith(t, 2, b, c) : t \in {"add", "mul", "div"}, b \in Ids(2), c \in Ids(2)}}
NoReturn == {SubSeq(p, 1, 4) : p \in TwoOps}

\* Arguments in registers that have a colour, and on the caller's stack, some
\* of them never used.
ThreeArgs == Params(3) \o <<Arith("sub", 0, 0, 1), Arith("mul", 2, 0, 2), Ret(2)>>
EightArgs == Params(8) \o <<Arith("add", 6, 6, 7), Arith("sub", 6, 6, 0), Ret(6)>>

\* As many variables that are live together as give a frame of n slots.
Large(n) ==
  [entries |-> [j \in 1 .. n + 1 |-> Assign(j - 1, 1)]
                 \o [j \in 1 .. n |-> Arith("add", 0, 0, j)] \o <<Ret(0)>>,
   n_vars |-> n + 1, n_spills |-> n, regs |-> Left(n), temp |-> 11,
   color_map |-> [v \in Ids(n + 1) |-> 0 - v]]

\* Frames around the sizes at which the form of sub changes
LargeInputs == {Large(n) : n \in {31, 32, 63, 64}}

\* A function that does no more than copy variables has no entries.
Nothing == WithPlacements(<<>>, 1, 0)

MCInputs ==
  Nothing \cup UNION {WithPlacements(p, 3, 2) : p \in TwoOps \cup NoReturn}
    \cup LargeInputs \cup WithPlacements(ThreeArgs, 3, 2) \cup WithPlacements(EightArgs, 8, 2)

MCArguments ==
  {[n \in 0 .. 8 |-> IF n = 0 THEN x ELSE (n * x + 1) % Word] : x \in Values}
MCJunk == {1}
=============================================================================
