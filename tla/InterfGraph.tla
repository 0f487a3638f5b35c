---------------------------- MODULE InterfGraph ----------------------------
(***************************************************************************)
(* interf_graph (compiler/interfgraph.h, interfgraph.cpp): the register    *)
(* interference graph and its Chaitin-Briggs colouring.  One object lives  *)
(* as long as the tac2x64 that owns it: generate() is called once per      *)
(* compiled function and color(k) once or twice after it.  color() is one  *)
(* call in the code; here every iteration of its three loops is a step, so *)
(* that what holds between the iterations can be stated and proved.        *)
(*                                                                         *)
(* A compiled function is abstracted to what generate() reads of it: the   *)
(* number of variables and the set of the live_vars sets of its entries.   *)
(***************************************************************************)
EXTENDS Integers, Sequences, FiniteSets

CONSTANTS
  Functions,    \* the functions compiled: records [n_vars, live]
  Ks,           \* the register counts color() is called with
  MaxGenerate   \* bound on the number of calls of generate()

Ids(n) == 0 .. n - 1

ASSUME FunctionsAssumption ==
  \A f \in Functions : f.n_vars \in Nat /\ f.live \subseteq SUBSET Ids(f.n_vars)
ASSUME KsAssumption == Ks \subseteq Nat
ASSUME MaxGenerateAssumption == MaxGenerate \in Nat

VARIABLES
  (* members of the object *)
  n_vars,       \* variable ids are 0..n_vars-1
  graph,        \* the pairs <<row, column>> that are true in the matrix
  stack,        \* ids taken out by stage 1, last one first to come back
  removed,      \* ids whose removed[] bit is set
  n_spills,     \* stack slots of the last color() that returned
  (* locals of color() *)
  pc,           \* where the call is: see Phases
  k,            \* its argument
  i,            \* index of the stage 1 loop
  found, left,  \* what the current pass over the variables has counted
  spills,       \* possible spills; from stage 3 on, those still to be placed
  color,        \* colours used so far, in stage 3 minus the slots used so far
  color_map,    \* the result, a map that grows from empty
  (* history, for the properties and the bound *)
  live,         \* the live sets generate() was last called with
  generated     \* number of generate() calls

object  == <<n_vars, graph, stack, removed, n_spills>>
locals  == <<pc, k, i, found, left, spills, color, color_map>>
history == <<live, generated>>
vars == <<object, locals, history>>

Phases == {"empty", "ready", "scan", "pop", "place", "colored", "threw", "failed"}
Running == {"scan", "pop", "place"}

Vars == Ids(n_vars)
EmptyMap == [v \in {} |-> 0]

-----------------------------------------------------------------------------
(***************************************************************************)
(* Variants of the definitions below, each with one plausible slip.        *)
(***************************************************************************)
EdgesSkippingLastVar(f) ==
  {e \in Ids(f.n_vars - 1) \X Ids(f.n_vars - 1) :
     e[1] # e[2] /\ \E s \in f.live : e[1] \in s /\ e[2] \in s}
DegreeLessOrEqual(v, lt) ==
  v \notin removed /\ Cardinality({u \in Vars \ removed : <<v, u>> \in graph}) <= lt
DegreeWithItself(v, lt) ==
  v \notin removed /\ Cardinality({u \in Vars \ removed : u = v \/ <<v, u>> \in graph}) < lt
CanUseIgnoringLastVar(id, max_color) ==
  {c \in Ids(max_color) :
     \A u \in Vars \ (removed \cup {n_vars - 1}) :
       u # id /\ <<id, u>> \in graph => color_map[u] # c}
StageThreeColorsUsed == Cardinality({c \in Ids(k) : \E v \in DOMAIN color_map : color_map[v] = c})
RemoveSpillForgotten(id) == removed
RestoreSpillForgotten(id) == removed
MaxDegreeFromTwo == {v \in Vars \ removed :
                       Cardinality({u \in Vars \ removed : <<v, u>> \in graph}) > 1}
-----------------------------------------------------------------------------
(***************************************************************************)
(* Helpers.                                                                *)
(***************************************************************************)

\* The edges one function contributes: a clique for every entry.
Edges(f) ==
  {e \in Ids(f.n_vars) \X Ids(f.n_vars) :
     e[1] # e[2] /\ \E s \in f.live : e[1] \in s /\ e[2] \in s}

Neighbours(v) == {u \in Vars \ removed : <<v, u>> \in graph}

interference_nodes(v) == IF v \in removed THEN 0 ELSE Cardinality(Neighbours(v))

interference_nodes_lt(v, lt) == v \notin removed /\ Cardinality(Neighbours(v)) < lt

\* The candidates for the largest degree: the search starts from max = 0.
Searched == {v \in Vars : interference_nodes(v) > 0}

\* The first of the nodes with the most edges, or -1.
MaxDegree ==
  IF Searched = {} THEN -1
  ELSE CHOOSE v \in Searched :
         \A u \in Searched :
           \/ interference_nodes(u) < interference_nodes(v)
           \/ interference_nodes(u) = interference_nodes(v) /\ v <= u

\* The neighbours of id that are back in the graph.
Placed(id) == {u \in Vars \ removed : u # id /\ <<id, u>> \in graph}

can_use(id, max_color) ==
  {c \in Ids(max_color) : \A u \in Placed(id) : color_map[u] # c}

\* The lowest colour below max_color that no such neighbour has, or -1.
try_add_reuse(id, max_color) ==
  LET usable == can_use(id, max_color)
  IN  IF usable = {} THEN -1
      ELSE CHOOSE c \in usable : \A d \in usable : c <= d

\* color_map[id] = c
WithColor(id, c) ==
  [v \in DOMAIN color_map \cup {id} |-> IF v = id THEN c ELSE color_map[v]]

\* removed[id] = true for a possible spill, and back to false in stage 3
RemoveSpill(id)  == removed \cup {id}
RestoreSpill(id) == removed \ {id}

\* The bound of the search for a register in stage 3
StageThreeColors == k

\* --color
NextSlot == color - 1

-----------------------------------------------------------------------------
Init ==
  /\ n_vars = 0 /\ graph = {} /\ stack = <<>> /\ removed = {} /\ n_spills = 0
  /\ pc = "empty" /\ k = 0 /\ i = 0 /\ found = 0 /\ left = 0
  /\ spills = {} /\ color = 0 /\ color_map = EmptyMap
  /\ live = {} /\ generated = 0

(***************************************************************************)
(* set_n_vars() and generate(): the matrix is resized, which keeps what it *)
(* held within the new bounds, and the edges of this function are set.     *)
(***************************************************************************)
Generate(f) ==
  /\ pc \notin Running \cup {"failed"}
  /\ generated < MaxGenerate
  /\ n_vars' = f.n_vars
  /\ graph' = (graph \cap (Ids(f.n_vars) \X Ids(f.n_vars))) \cup Edges(f)
  /\ removed' = removed \cap Ids(f.n_vars)
  /\ stack' = <<>>
  /\ pc' = "ready" /\ k' = 0 /\ color_map' = EmptyMap
  /\ live' = f.live /\ generated' = generated + 1
  /\ UNCHANGED <<n_spills, i, found, left, spills, color>>

(***************************************************************************)
(* color(k) is entered.                                                    *)
(***************************************************************************)
Enter(regs) ==
  /\ pc \in {"ready", "colored", "threw"}
  /\ k' = regs
  /\ pc' = IF regs = 0 THEN "threw" ELSE "scan"
  /\ i' = 0 /\ found' = 0 /\ left' = 0
  /\ spills' = {} /\ color' = 0 /\ color_map' = EmptyMap
  /\ UNCHANGED <<object, history>>

(***************************************************************************)
(* Stage 1, one iteration of the pass over the variables: a node with      *)
(* fewer than k edges is pushed.                                           *)
(***************************************************************************)
ScanPush ==
  /\ pc = "scan" /\ i < n_vars
  /\ interference_nodes_lt(i, k)
  /\ stack' = Append(stack, i)
  /\ removed' = removed \cup {i}
  /\ found' = found + 1
  /\ i' = i + 1
  /\ UNCHANGED <<n_vars, graph, n_spills, pc, k, left, spills, color, color_map, history>>

ScanKeep ==
  /\ pc = "scan" /\ i < n_vars
  /\ ~interference_nodes_lt(i, k)
  /\ left' = IF i \in removed THEN left ELSE left + 1
  /\ i' = i + 1
  /\ UNCHANGED <<object, pc, k, found, spills, color, color_map, history>>

\* The pass pushed something: do another one.
NextPass ==
  /\ pc = "scan" /\ i = n_vars /\ found > 0
  /\ i' = 0 /\ found' = 0 /\ left' = 0
  /\ UNCHANGED <<object, pc, k, spills, color, color_map, history>>

\* Nothing was pushed but nodes are left: the one with the most edges
\* becomes a possible spill.
PickSpill ==
  /\ pc = "scan" /\ i = n_vars /\ found = 0 /\ left > 0
  /\ LET maxid == MaxDegree
     IN  IF maxid = -1
         THEN pc' = "failed" /\ UNCHANGED <<removed, spills>>
         ELSE /\ removed' = RemoveSpill(maxid)
              /\ spills' = spills \cup {maxid}
              /\ UNCHANGED pc
  /\ i' = 0 /\ left' = 0
  /\ UNCHANGED <<n_vars, graph, stack, n_spills, k, found, color, color_map, history>>

\* The graph is empty: on to stage 2.
StageTwo ==
  /\ pc = "scan" /\ i = n_vars /\ found = 0 /\ left = 0
  /\ pc' = "pop" /\ i' = 0
  /\ UNCHANGED <<object, k, found, left, spills, color, color_map, history>>

(***************************************************************************)
(* Stage 2: the last pushed node comes back and takes a colour that is     *)
(* used already, or a new one.                                             *)
(***************************************************************************)
Pop ==
  /\ pc = "pop" /\ stack # <<>>
  /\ LET id == stack[Len(stack)]
         c  == try_add_reuse(id, color)
     IN  /\ stack' = SubSeq(stack, 1, Len(stack) - 1)
         /\ removed' = removed \ {id}
         /\ IF Placed(id) \subseteq DOMAIN color_map
            THEN /\ color_map' = WithColor(id, IF c # -1 THEN c ELSE color)
                 /\ color' = IF c # -1 THEN color ELSE color + 1
                 /\ UNCHANGED pc
            ELSE pc' = "failed" /\ UNCHANGED <<color, color_map>>
  /\ UNCHANGED <<n_vars, graph, n_spills, k, i, found, left, spills, history>>

StageThree ==
  /\ pc = "pop" /\ stack = <<>>
  /\ pc' = "place" /\ color' = 0
  /\ UNCHANGED <<object, k, i, found, left, spills, color_map, history>>

(***************************************************************************)
(* Stage 3: the possible spills, in the order the hash set yields them,    *)
(* take a register that is free after all, or a new stack slot.            *)
(***************************************************************************)
Place(id) ==
  /\ pc = "place" /\ id \in spills
  /\ spills' = spills \ {id}
  /\ removed' = RestoreSpill(id)
  /\ LET c == try_add_reuse(id, StageThreeColors)
     IN  IF Placed(id) \subseteq DOMAIN color_map
         THEN /\ color_map' = WithColor(id, IF c # -1 THEN c ELSE NextSlot)
              /\ color' = IF c # -1 THEN color ELSE NextSlot
              /\ UNCHANGED pc
         ELSE pc' = "failed" /\ UNCHANGED <<color, color_map>>
  /\ UNCHANGED <<n_vars, graph, stack, n_spills, k, i, found, left, history>>

Return ==
  /\ pc = "place" /\ spills = {}
  /\ n_spills' = -color
  /\ pc' = "colored" /\ color' = 0
  /\ UNCHANGED <<n_vars, graph, stack, removed, k, i, found, left, spills, color_map, history>>

-----------------------------------------------------------------------------
\* The iterations of one call of color()
Step ==
  \/ ScanPush \/ ScanKeep \/ NextPass \/ PickSpill \/ StageTwo
  \/ Pop \/ StageThree
  \/ \E id \in Vars : Place(id)
  \/ Return

Next ==
  \/ \E f \in Functions : Generate(f)
  \/ \E regs \in Ks : Enter(regs)
  \/ Step

Spec == Init /\ [][Next]_vars

\* A call that is running goes on; when generate() and color() are called is
\* up to the caller.
FairSpec == Spec /\ WF_vars(Step)

-----------------------------------------------------------------------------
(***************************************************************************)
(* Properties.                                                             *)
(***************************************************************************)

\* Types of the members, of color()'s locals and of the history.
TypeOK ==
  /\ n_vars \in Nat
  /\ graph \subseteq Vars \X Vars
  /\ stack \in Seq(Vars)
  /\ removed \subseteq Vars
  /\ n_spills \in Nat
  /\ pc \in Phases
  /\ k \in Nat
  /\ i \in 0 .. n_vars
  /\ found \in Nat /\ left \in Nat
  /\ spills \subseteq Vars
  /\ color \in Int
  /\ DOMAIN color_map \subseteq Vars
  /\ color_map \in [DOMAIN color_map -> Int]
  /\ live \subseteq SUBSET Vars
  /\ generated \in 0 .. MaxGenerate

\* What color() returns keeps any two variables apart that an entry of the
\* function last given to generate() finds live together, whatever functions
\* came before and however often color() was called since.
LiveApart ==
  pc = "colored" =>
    \A s \in live : \A u, v \in s : u # v => color_map[u] # color_map[v]

\* None of the "Internal error" exceptions behind a non-zero k is ever thrown:
\* while nodes are left one of them has an edge, and every neighbour that
\* try_add_reuse() looks at has been given a colour.
NoInternalError == pc # "failed"

\* can_use[] is indexed within its bounds: max_color is the number of colours
\* so far in stage 2 and k in stage 3, and stage 2 never needs a colour beyond
\* the k registers, because every node on the stack had fewer than k edges to
\* the nodes that come back before it.
ColorsInBounds ==
  /\ pc = "pop" => color <= k /\ \A v \in DOMAIN color_map : color_map[v] < color
  /\ pc = "place" => \A v \in DOMAIN color_map : color_map[v] < k

\* The slots are exactly -1 .. -n_spills and no two variables share one:
\* compile_expression() reserves n_spills slots in the frame.
SlotsCounted ==
  pc = "colored" =>
    /\ \A s \in 1 .. n_spills : \E v \in Vars : color_map[v] = -s
    /\ \A v \in Vars : color_map[v] < 0 => -color_map[v] <= n_spills
    /\ \A u, v \in Vars : color_map[u] < 0 /\ color_map[u] = color_map[v] => u = v

\* A graph that falls apart by taking out nodes with fewer than k edges.
Dismantles ==
  \A S \in SUBSET Vars : S # {} =>
    \E v \in S : Cardinality({u \in S : <<v, u>> \in graph}) < k

\* Stage 1 gives up on a node only when it has to: a graph that falls apart
\* in some order is coloured without a single stack slot, although color()
\* tries one order only.
NoNeedlessSpill == pc = "colored" /\ Dismantles => n_spills = 0

\* Between calls everything is back in the graph, so color() can be called a
\* second time, as compile_expression() does with a register less.
Reusable == pc \notin Running => removed = {} /\ stack = <<>>

\* color() comes to an end: the passes of stage 1, which stop only when one
\* pushes nothing, and its possible spills eventually empty the graph.
Terminates == pc \in Running ~> pc \notin Running

\* A call of color() answers as the contract of GraphColoring says, with all
\* of its iterations hidden.
Contract == INSTANCE GraphColoring WITH
  status    <- IF pc \in Running THEN "busy" ELSE pc,
  color_map <- IF pc = "colored" THEN color_map ELSE EmptyMap
Refines == Contract!Spec
-----------------------------------------------------------------------------
(***************************************************************************)
(* The inductive invariant behind these properties.  The two facts that    *)
(* carry it are PushedLow, which bounds the colours stage 2 can need, and  *)
(* Passed, which says what a pass of stage 1 has learned when it ends.     *)
(***************************************************************************)

Stacked == {stack[p] : p \in 1 .. Len(stack)}

\* Edges go both ways, and every pair that is live together has one.
GraphCovers ==
  /\ \A e \in graph : e[1] # e[2] /\ <<e[2], e[1]>> \in graph
  /\ \A s \in live : \A u, v \in s : u # v => <<u, v>> \in graph

\* removed[] is set for the stack and the possible spills, and nothing else.
RemovedExact ==
  /\ removed = Stacked \cup spills
  /\ Stacked \cap spills = {}
  /\ \A p, q \in 1 .. Len(stack) : stack[p] = stack[q] => p = q
  /\ pc \notin Running => stack = <<>> /\ spills = {}
  /\ pc = "place" => stack = <<>>
  /\ pc \in Running => k > 0
  /\ pc # "scan" => i = 0

\* The node at p has fewer than k edges to the nodes pushed after it.
PushedLow ==
  pc \in {"scan", "pop"} =>
    \A p \in 1 .. Len(stack) :
      Cardinality({u \in Vars \ (spills \cup {stack[q] : q \in 1 .. p}) :
                     <<stack[p], u>> \in graph}) < k

\* The nodes the pass has been over: left says whether one of them stays, and
\* as long as nothing was pushed those that stay have k edges or more.
Passed ==
  pc = "scan" =>
    /\ color = 0 /\ color_map = EmptyMap
    /\ left = 0 <=> Ids(i) \subseteq removed
    /\ found = 0 => \A v \in Ids(i) \ removed : Cardinality(Neighbours(v)) >= k

\* Stage 2 uses the colours 0..color-1, of which there are at most k.
PoppedLow ==
  pc = "pop" => color \in 0 .. k /\ \A v \in DOMAIN color_map : color_map[v] \in Ids(color)

\* The contract, for the part of the graph that has a place already.
Slots == CASE pc = "pop"   -> 0
           [] pc = "place" -> 0 - color
           [] OTHER        -> n_spills
PlacedSoFar ==
  pc \in {"pop", "place", "colored"} =>
    /\ Slots >= 0
    /\ DOMAIN color_map = Vars \ removed
    /\ \A v \in DOMAIN color_map : color_map[v] < k /\ color_map[v] >= -Slots
    /\ \A u, v \in DOMAIN color_map : <<u, v>> \in graph => color_map[u] # color_map[v]
    /\ \A s \in 1 .. Slots : \E v \in DOMAIN color_map : color_map[v] = -s
    /\ \A u, v \in DOMAIN color_map : color_map[u] < 0 /\ color_map[u] = color_map[v] => u = v
    /\ \A v \in DOMAIN color_map : color_map[v] < 0 =>
         \A c \in Ids(k) : \E u \in DOMAIN color_map : <<v, u>> \in graph /\ color_map[u] = c

\* A possible spill is proof that the graph does not fall apart.
SpillJustified ==
  Dismantles =>
    /\ pc \in Running => spills = {} /\ color >= 0
    /\ pc = "colored" => n_spills = 0

\* All of it, with the types.
IInv ==
  /\ TypeOK /\ pc # "failed"
  /\ GraphCovers /\ RemovedExact /\ PushedLow /\ Passed /\ PoppedLow
  /\ PlacedSoFar /\ SpillJustified
=============================================================================
