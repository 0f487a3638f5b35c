--------------------------- MODULE GraphColoring ---------------------------
(***************************************************************************)
(* What the back end relies on when it calls interf_graph: generate() may  *)
(* keep more edges than the function at hand needs but never fewer, and    *)
(* color(k) answers with a placement of every variable in one of k         *)
(* registers or in a stack slot of its own.  How the placement is found,   *)
(* and in how many steps, is left open.                                    *)
(***************************************************************************)
EXTENDS Placement

CONSTANTS
  Functions,    \* the compiled functions: [n_vars, live], see InterfGraph
  Ks,           \* the register counts color() is called with
  MaxGenerate   \* bound on the number of calls of generate()

VARIABLES
  n_vars,       \* the variable ids are 0..n_vars-1
  graph,        \* ordered pairs of interfering variable ids
  generated,    \* number of generate() calls so far
  status,       \* "empty", "ready", "busy", "colored" or "threw"
  k,            \* registers available to the running or last color()
  color_map,    \* the placement returned: registers >= 0, stack slots < 0
  n_spills      \* stack slots the last completed color() used

abstractVars ==
  <<n_vars, graph, generated, status, k, color_map, n_spills>>

-----------------------------------------------------------------------------

Init ==
  /\ n_vars = 0
  /\ graph = {}
  /\ generated = 0
  /\ status = "empty"
  /\ k = 0
  /\ color_map = [v \in {} |-> 0]
  /\ n_spills = 0

\* Edges of an earlier function may stay, edges of this one are all there.
Generate(f) ==
  /\ status # "busy"
  /\ generated < MaxGenerate
  /\ generated' = generated + 1
  /\ n_vars' = f.n_vars
  /\ Interference(f) \subseteq graph'
  /\ graph' \subseteq Interference(f) \cup graph
  /\ graph' \subseteq Ids(f.n_vars) \X Ids(f.n_vars)
  /\ status' = "ready"
  /\ k' = 0
  /\ color_map' = [v \in {} |-> 0]
  /\ UNCHANGED n_spills

\* A call with no register at all is refused, any other one starts.
Call(regs) ==
  /\ status \in {"ready", "colored", "threw"}
  /\ k' = regs
  /\ color_map' = [v \in {} |-> 0]
  /\ status' = IF regs = 0 THEN "threw" ELSE "busy"
  /\ UNCHANGED <<n_vars, graph, generated, n_spills>>

Return ==
  /\ status = "busy"
  /\ status' = "colored"
  /\ IsPlacement(color_map', graph, n_vars, k, n_spills')
  /\ UNCHANGED <<n_vars, graph, generated, k>>

Next ==
  \/ \E f \in Functions : Generate(f)
  \/ \E regs \in Ks : Call(regs)
  \/ Return

Spec == Init /\ [][Next]_abstractVars
=============================================================================
