------------------------------ MODULE Entries ------------------------------
(***************************************************************************)
(* The entries of the three-address code, for the instances of CodeGen.    *)
(***************************************************************************)
EXTENDS Integers

Param(v, n)    == [type |-> "param", a |-> v, b |-> -1, c |-> -1, value |-> n]
Assign(v, x)   == [type |-> "assign", a |-> v, b |-> -1, c |-> -1, value |-> x]
Arith(t, a, b, c) == [type |-> t, a |-> a, b |-> b, c |-> c, value |-> 0]
Ret(v)         == [type |-> "ret", a |-> -1, b |-> v, c |-> -1, value |-> 0]
Params(n) == [j \in 1 .. n |-> Param(j - 1, j - 1)]
=============================================================================
