----------------------------- MODULE Placement -----------------------------
(***************************************************************************)
(* Interference and the contract of a placement: what interf_graph owes    *)
(* the back end, and what the back end's code generation rests on.         *)
(***************************************************************************)
EXTENDS Integers

Ids(n) == 0 .. n - 1

\* Two different variables interfere when some entry finds both live.
Interference(f) ==
  {e \in Ids(f.n_vars) \X Ids(f.n_vars) :
     /\ e[1] # e[2]
     /\ \E s \in f.live : e[1] \in s /\ e[2] \in s}

(***************************************************************************)
(* The contract of a placement m of n variables over the registers         *)
(* 0..regs-1, with the given number of stack slots.                        *)
(***************************************************************************)

\* Interfering variables never share a register or a slot.
Apart(m, g) == \A e \in g : m[e[1]] # m[e[2]]

\* The slots are -1, -2, ..., -slots: none unused, none shared.
SlotsExact(m, n, slots) ==
  /\ \A s \in 1 .. slots : \E v \in Ids(n) : m[v] = -s
  /\ \A v \in Ids(n) : m[v] < 0 => -m[v] <= slots
  /\ \A u, v \in Ids(n) : m[u] < 0 /\ m[u] = m[v] => u = v

\* A variable is on the stack only if its neighbours take every register.
SpillsForced(m, g, n, regs) ==
  \A v \in Ids(n) : m[v] < 0 =>
    \A c \in Ids(regs) : \E u \in Ids(n) : <<v, u>> \in g /\ m[u] = c

\* What the generated code rests on.
IsAssignment(m, g, n, regs, slots) ==
  /\ m \in [Ids(n) -> Int]
  /\ \A v \in Ids(n) : m[v] < regs
  /\ Apart(m, g)
  /\ SlotsExact(m, n, slots)

IsPlacement(m, g, n, regs, slots) ==
  IsAssignment(m, g, n, regs, slots) /\ SpillsForced(m, g, n, regs)
=============================================================================
