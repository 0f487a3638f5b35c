------------------------------ MODULE RegAlloc ------------------------------
(***************************************************************************)
(* How tac2x64::compile_expression() gives every variable of a function a  *)
(* register or a stack slot (compiler/tac2x64.cpp): it colours with all of *)
(* reg_avail, and when that needs the stack it takes the last register out *)
(* for loads and stores and colours again.  One tac2x64 compiles function  *)
(* after function, and what it takes out stays out.  The graph and its     *)
(* colouring are those of InterfGraph, step by step.                       *)
(***************************************************************************)
EXTENDS InterfGraph

CONSTANT InitialRegs     \* reg_avail of a new tac2x64, register numbers

ASSUME InitialRegsAssumption ==
  /\ InitialRegs \in Seq(Nat)
  /\ \A p, q \in 1 .. Len(InitialRegs) : InitialRegs[p] = InitialRegs[q] => p = q

r11 == 11

VARIABLES
  stage,         \* how far compile_expression() is
  reg_avail,     \* the registers there are colours for, colour 0 first
  temp_reg_idx,  \* the load/store register, or -1
  mapping        \* tac2x64's color_map

allocator == <<stage, reg_avail, temp_reg_idx, mapping>>
allVars == <<vars, allocator>>

Stages == {"idle", "generated", "first", "second", "colored", "compiled", "threw"}

RegOf(c) == reg_avail[c + 1]

-----------------------------------------------------------------------------
(***************************************************************************)
(* Variants of the definitions below, each with one plausible slip.        *)
(***************************************************************************)
RemovedAtTheFront == SubSeq(reg_avail, 2, Len(reg_avail))
RecolorWithAll == Len(reg_avail)
SwappedOneWay(m, old, new) == [v \in DOMAIN m |-> IF m[v] = old THEN new ELSE m[v]]
SwappedSlotsToo(m, id, new) == FALSE
-----------------------------------------------------------------------------
\* reg_avail.pop_back()
RegsLeft == SubSeq(reg_avail, 1, Len(reg_avail) - 1)

\* What color() is called with the second time: reg_avail has lost one.
SecondCount == Len(reg_avail) - 1

\* color_map[id]: a map gives a key it does not have the value 0.
WithKey(m, id) == [v \in DOMAIN m \cup {id} |-> IF v \in DOMAIN m THEN m[v] ELSE 0]

\* The loop of try_swap_colors() and the restores after it.
Exchanged(m, old, new) ==
  [v \in DOMAIN m |-> CASE m[v] = old -> new
                        [] m[v] = new /\ new # old -> old
                        [] OTHER -> m[v]]

\* A variable on the stack stays there.
OnStack(m, id, new) == m[id] < 0

try_swap_colors(m, id, new) ==
  LET known == WithKey(m, id)
  IN  IF OnStack(known, id, new) THEN known ELSE Exchanged(known, known[id], new)

-----------------------------------------------------------------------------
AllocInit ==
  /\ Init
  /\ stage = "idle"
  /\ reg_avail = InitialRegs
  /\ temp_reg_idx = -1
  /\ mapping = EmptyMap

\* compile_expression() starts, also after an earlier call threw.
StartCompile(f) ==
  /\ stage \in {"idle", "compiled", "threw"}
  /\ Generate(f)
  /\ stage' = "generated"
  /\ UNCHANGED <<reg_avail, temp_reg_idx, mapping>>

\* color_map = rig.color(reg_avail.size())
FirstColor ==
  /\ stage = "generated"
  /\ Enter(Len(reg_avail))
  /\ stage' = IF pc' = "threw" THEN "threw" ELSE "first"
  /\ UNCHANGED <<reg_avail, temp_reg_idx, mapping>>

\* color() is running.
Coloring ==
  /\ stage \in {"first", "second"}
  /\ Step
  /\ UNCHANGED allocator

\* No spill: the first colouring is the one.
KeepFirst ==
  /\ stage = "first" /\ pc = "colored" /\ n_spills = 0
  /\ stage' = "colored" /\ mapping' = color_map
  /\ UNCHANGED <<vars, reg_avail, temp_reg_idx>>

\* A spill: reserve the last register and colour again without it.
Reserve ==
  /\ stage = "first" /\ pc = "colored" /\ n_spills # 0
  /\ temp_reg_idx' = reg_avail[Len(reg_avail)]
  /\ reg_avail' = RegsLeft
  /\ mapping' = color_map
  /\ Enter(SecondCount)
  /\ stage' = IF pc' = "threw" THEN "threw" ELSE "second"

KeepSecond ==
  /\ stage = "second" /\ pc = "colored"
  /\ stage' = "colored" /\ mapping' = color_map
  /\ UNCHANGED <<vars, reg_avail, temp_reg_idx>>

\* try_swap_colors(3, 0); the code is generated from the mapping it leaves.
SwapColors ==
  /\ stage = "colored"
  /\ mapping' = try_swap_colors(mapping, 3, 0)
  /\ stage' = "compiled"
  /\ UNCHANGED <<vars, reg_avail, temp_reg_idx>>

Compiling ==
  FirstColor \/ Coloring \/ KeepFirst \/ Reserve \/ KeepSecond \/ SwapColors

AllocNext == (\E f \in Functions : StartCompile(f)) \/ Compiling

AllocSpec == AllocInit /\ [][AllocNext]_allVars

\* A call of compile_expression() runs on; the next one is up to the caller.
AllocFairSpec == AllocSpec /\ WF_allVars(Compiling)

-----------------------------------------------------------------------------
(***************************************************************************)
(* Properties.                                                             *)
(***************************************************************************)

\* Types of the allocator's own variables: reg_avail is what is left of the
\* initial list when registers are taken from its end.
AllocTypeOK ==
  /\ stage \in Stages
  /\ Len(reg_avail) <= Len(InitialRegs)
  /\ reg_avail = SubSeq(InitialRegs, 1, Len(reg_avail))
  /\ temp_reg_idx \in {InitialRegs[p] : p \in 1 .. Len(InitialRegs)} \cup {-1}
  /\ \A v \in DOMAIN mapping : v \in Nat /\ mapping[v] \in Int

\* Every colour the code generator looks up has a register, although color()
\* was last called with another count than the function before it.
RegistersExist ==
  stage = "compiled" =>
    \A v \in DOMAIN mapping : mapping[v] >= 0 => mapping[v] + 1 \in DOMAIN reg_avail

\* When a variable is in a slot there is a load/store register, and no
\* variable is in it.
TempExclusive ==
  stage = "compiled" /\ (\E v \in Vars : mapping[v] < 0) =>
    /\ temp_reg_idx # -1
    /\ \A v \in Vars : mapping[v] >= 0 => RegOf(mapping[v]) # temp_reg_idx

\* After the swap no two variables that are live together share a register
\* or a slot, and prologue() has been told of every slot.
MappingApart ==
  stage = "compiled" =>
    /\ \A s \in live : \A u, v \in s : u # v => mapping[u] # mapping[v]
    /\ \A v \in Vars : mapping[v] < 0 => -mapping[v] \in 1 .. n_spills

\* The swap moves registers around and leaves the slots alone: the frame that
\* color() counted is the frame the code uses.
SlotsStay ==
  [][stage = "colored" /\ stage' = "compiled" =>
       \A v \in DOMAIN mapping : mapping[v] < 0 \/ mapping'[v] < 0 => mapping'[v] = mapping[v]
    ]_allVars

\* compile_expression() comes to an end, also when it colours twice.
CompileEnds == stage = "generated" ~> stage \in {"compiled", "threw"}

\* tac2x64.h:113 and :128 on r11: "Removed from the list in case of spilling",
\* "Load/store temp register. ALWAYS at the end."
TempIsR11 == temp_reg_idx \in {-1, r11}
=============================================================================
