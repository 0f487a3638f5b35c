---------------------------- MODULE MCLifeTimes ----------------------------
(***************************************************************************)
(* Instances of LifeTimes.                                                 *)
(***************************************************************************)
EXTENDS LifeTimes

\* An arithmetic entry, an assignment of a constant or a parameter, and a
\* return: the shapes the tac constructor and add_from_exp() append.
Entries ==
  [a : VarIds, b : VarIds, c : VarIds]
    \cup [a : VarIds, b : {-1}, c : {-1}]
    \cup [a : {-1}, b : VarIds, c : {-1}]

MCNumVars == 3

\* Every program of three entries over three variables, and longer ones over
\* two variables, for ranges that are closed and reopened.
Two == 0 .. 1
MCPrograms ==
  [1 .. 3 -> Entries]
    \cup [1 .. 5 -> {e \in Entries : e.a \in Two \cup {-1} /\ e.b \in Two \cup {-1} /\ e.c \in {-1, 0}}]
=============================================================================
