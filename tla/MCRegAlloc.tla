----------------------------- MODULE MCRegAlloc -----------------------------
(***************************************************************************)
(* Instances of RegAlloc with the first and the last registers of the      *)
(* code's reg_avail.                                                       *)
(***************************************************************************)
EXTENDS RegAlloc

\* Every interference graph on n variables.
FunctionsOf(n) ==
  {[n_vars |-> n, live |-> pairs] : pairs \in SUBSET {s \in SUBSET Ids(n) : Cardinality(s) = 2}}

Complete(n) == {[n_vars |-> n, live |-> {Ids(n)}]}

\* ebx, ecx and r11, the first, the second and the last register.
ThreeRegs == <<3, 1, 11>>
ThreeKs == 0 .. 3

\* One object compiles four functions, until no register may be left: every
\* graph on three variables, and of those with an id 3 to swap, the paths,
\* cycles and stars, and graphs that need one slot or more.
FourVars(live_sets) == [n_vars |-> 4, live |-> live_sets]
LongFunctions ==
  UNION {Complete(n) : n \in {1, 2, 4, 5}} \cup FunctionsOf(3) \cup
  {FourVars({{0, 1}, {1, 2}, {2, 3}}), FourVars({{0, 1}, {1, 2}, {2, 3}, {0, 3}}),
   FourVars({{0, 3}, {1, 3}, {2, 3}}), FourVars({{0, 1, 2}, {2, 3}}),
   FourVars({{0, 1, 2}, {1, 2, 3}})}
LongGenerate == 4

\* Two functions that need a slot each.
SpillFunctions == Complete(4)
SpillGenerate == 2
=============================================================================
