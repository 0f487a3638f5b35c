--------------------------- MODULE MCInterfGraph ---------------------------
(***************************************************************************)
(* Instances of InterfGraph.  A function is given by the pairs of its      *)
(* variables that are live together, so that every graph is an input.      *)
(***************************************************************************)
EXTENDS InterfGraph

\* Every interference graph on n variables, as a function's live sets.
FunctionsOf(n) ==
  {[n_vars |-> n, live |-> pairs] : pairs \in SUBSET {s \in SUBSET Ids(n) : Cardinality(s) = 2}}

\* Five variables: an odd cycle, a wheel, two triangles that meet in a
\* variable, and an entry at which all of them are live.
FiveVars(live_sets) == [n_vars |-> 5, live |-> live_sets]
Five ==
  {FiveVars({{0, 1}, {1, 2}, {2, 3}, {3, 4}, {0, 4}}),
   FiveVars({{0, 1, 4}, {1, 2, 4}, {2, 3, 4}, {0, 3, 4}}),
   FiveVars({{0, 1, 2}, {2, 3, 4}}),
   FiveVars({Ids(5)})}

\* One object compiles two functions of different sizes.
ReuseFunctions == UNION {FunctionsOf(n) : n \in {2, 3, 4}} \cup Five
ReuseKs == 0 .. 4
ReuseMaxGenerate == 2
=============================================================================
