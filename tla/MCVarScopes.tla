---------------------------- MODULE MCVarScopes ----------------------------
EXTENDS VarScopes, TLC

\* Variables are interchangeable, and so are functions.
Symmetry == Permutations(Names) \cup Permutations(FunctionNames)
=============================================================================
