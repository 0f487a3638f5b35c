------------------------------ MODULE Compiler ------------------------------
(***************************************************************************)
(* The passes put together as main() does (emjit.cpp): a parsed function   *)
(* goes through the tac constructor (Tac), calculate_life_times()          *)
(* (LifeTimes), compile_expression() (RegAlloc on InterfGraph, then        *)
(* CodeGen) and is called.  main() does so once, for the function "main":  *)
(* that is a file of one function here.  A longer one is a use of the      *)
(* class: nothing in compile_expression() keeps a program from calling it  *)
(* again, and the object then has the graph and the registers that the     *)
(* functions before left behind.  A pass is an instance with variables of  *)
(* its own; what it starts from is what the pass before it left, and       *)
(* nothing is assumed about it.                                            *)
(***************************************************************************)
EXTENDS Tac, FiniteSets

CONSTANTS
  Files,         \* sequences of parsed functions that one tac2x64 compiles
  Junk,          \* what a register may hold at the call
  InitialRegs,   \* reg_avail of a new tac2x64
  MaxVars        \* bound on the variables of a function

ASSUME FilesAssumption ==
  \A f \in Files : Len(f) \in Nat \ {0} /\ \A j \in 1 .. Len(f) : IsFunction(f[j])

ASSUME MaxVarsAssumption == MaxVars \in Nat

ASSUME JunkAssumption == Junk \subseteq Values

VARIABLES
  file, at,      \* the file and the function that is being dealt with
  phase,         \* the pass it is in: "tac", "lifetimes", "alloc" or "code"
  (* calculate_life_times() *)
  operands, visited, last_read, live_vars, warned,
  (* the interf_graph *)
  n_vars, graph, stack, removed, n_spills,
  pc, k, i, found, left, spills, color, color_map, live, generated,
  (* the tac2x64 *)
  stage, reg_avail, temp_reg_idx, mapping,
  (* the call *)
  fn, args, cpu, ip, rsp, mach, env, clean

L == INSTANCE LifeTimes WITH
       NumVars <- MaxVars, Programs <- {}, entries <- operands, i <- visited
A == INSTANCE RegAlloc WITH Functions <- {}, Ks <- {}, MaxGenerate <- 10
C == INSTANCE CodeGen WITH Inputs <- {}, pc <- cpu

\* Different registers that code can be generated for
ASSUME RegistersAssumption == InitialRegs \in Seq(C!Usable) /\ C!Distinct(InitialRegs)

driverVars == <<file, at, phase>>
lifeVars   == <<operands, visited, last_read, live_vars, warned>>
graphVars  == <<n_vars, graph, stack, removed, n_spills, pc, k, i, found, left, spills,
                color, color_map, live, generated>>
allocVars  == <<graphVars, stage, reg_avail, temp_reg_idx, mapping>>
codeVars   == <<fn, args, cpu, ip, rsp, mach, env, clean>>
vars == <<driverVars, tacVars, lifeVars, allocVars, codeVars>>

-----------------------------------------------------------------------------
\* What the passes hand over.
OperandIds(e) == [a |-> e.a, b |-> e.b, c |-> e.c]

Lives == [n_vars |-> next_varid, live |-> {live_vars[j] : j \in DOMAIN live_vars}]

Code ==
  [entries |-> entries, n_vars |-> next_varid, n_spills |-> n_spills,
   color_map |-> [v \in 0 .. next_varid - 1 |-> mapping[v]],
   regs |-> reg_avail, temp |-> temp_reg_idx]

Idle == <<>>

Init ==
  /\ file \in Files /\ at = 1 /\ phase = "tac"
  /\ Construct(file[1]) /\ left_first \in BOOLEAN
  /\ operands = <<>> /\ visited = -1 /\ last_read = Idle /\ live_vars = Idle /\ warned = {}
  /\ A!AllocInit
  /\ fn = Idle /\ args = Idle /\ cpu = "idle" /\ ip = 1 /\ rsp = 8
  /\ mach = Idle /\ env = Idle /\ clean = TRUE

\* tac t(main)
MakeTac ==
  /\ phase = "tac"
  /\ TacNext
  /\ UNCHANGED <<driverVars, lifeVars, allocVars, codeVars>>

StartLifeTimes ==
  /\ phase = "tac" /\ s = Count(func) /\ next_varid <= MaxVars
  /\ phase' = "lifetimes"
  /\ operands' = [j \in DOMAIN entries |-> OperandIds(entries[j])]
  /\ visited' = Len(entries) - 1
  /\ last_read' = [id \in 0 .. MaxVars - 1 |-> -1]
  /\ live_vars' = [j \in 0 .. Len(entries) - 1 |-> {}]
  /\ warned' = {}
  /\ UNCHANGED <<file, at, tacVars, allocVars, codeVars>>

FindLifeTimes ==
  /\ phase = "lifetimes"
  /\ L!Next
  /\ UNCHANGED <<driverVars, tacVars, allocVars, codeVars>>

\* t2e.compile_expression(t)
StartCompile ==
  /\ phase = "lifetimes" /\ L!Done
  /\ phase' = "alloc"
  /\ A!StartCompile(Lives)
  /\ UNCHANGED <<file, at, tacVars, lifeVars, codeVars>>

Allocate ==
  /\ phase = "alloc"
  /\ A!Compiling
  /\ UNCHANGED <<driverVars, tacVars, lifeVars, codeVars>>

\* The handlers emit the code and main_fn(...) calls it.
StartCode ==
  /\ phase = "alloc" /\ stage = "compiled"
  /\ phase' = "code"
  /\ fn' = Code
  /\ args' \in Arguments
  /\ \E junk \in Junk : mach' = C!AtCall(Code, args', junk)
  /\ env' = C!NothingWritten(Code)
  /\ cpu' = "entry" /\ ip' = 1 /\ rsp' = 8 /\ clean' = TRUE
  /\ UNCHANGED <<file, at, tacVars, lifeVars, allocVars>>

Run ==
  /\ phase = "code"
  /\ C!Next
  /\ UNCHANGED <<driverVars, tacVars, lifeVars, allocVars>>

\* How far the current function is.
Status ==
  CASE phase = "code" /\ cpu \in {"entry", "run"} -> "called"
    [] phase = "code" /\ cpu \notin {"entry", "run"} -> cpu
    [] phase = "alloc" /\ stage = "threw" -> "rejected"
    [] OTHER -> "waiting"

\* After the call, or after compile_expression() threw, the same tac2x64 is
\* given another function.  main() stops at its first.
NextFunction ==
  /\ at < Len(file)
  /\ Status \in {"returned", "rejected"}
  /\ at' = at + 1 /\ phase' = "tac"
  /\ func' = file[at + 1]
  /\ s' = 0 /\ next_varid' = func'.n_user /\ entries' = <<>>
  /\ fn' = Idle /\ args' = Idle /\ cpu' = "idle" /\ ip' = 1 /\ rsp' = 8
  /\ mach' = Idle /\ env' = Idle /\ clean' = TRUE
  /\ UNCHANGED <<file, left_first, lifeVars, allocVars>>

\* A call faults, or the last function of the file is dealt with.
Ended ==
  \/ Status \in {"trapped", "undefined"}
  \/ at = Len(file) /\ Status \in {"returned", "rejected"}

\* Nothing more happens then; in every other state some pass can go on.
Terminated == Ended /\ UNCHANGED vars

Next ==
  \/ MakeTac \/ StartLifeTimes \/ FindLifeTimes \/ StartCompile \/ Allocate
  \/ StartCode \/ Run \/ NextFunction \/ Terminated

Spec == Init /\ [][Next]_vars

-----------------------------------------------------------------------------
(***************************************************************************)
(* Properties.                                                             *)
(***************************************************************************)
\* The properties of Tac, for every function of a file.
MeansTheSame  == phase = "tac" => EntriesMeanTheSame
TempsReadOnce == phase = "tac" => TempsOfOneUse

\* What the back end takes for granted is what the passes before it deliver:
\* entries in the shapes the handlers expect, variables that are live together
\* apart, every colour a register, every slot in the frame, and nothing in the
\* load/store register, whatever the same tac2x64 compiled before; every
\* variable written before it is read, if the statements give it a value.  And
\* the bits calculate_life_times() set are the live sets CodeGen's own claims
\* are about.
HandedOver ==
  phase = "code" /\ cpu = "entry" =>
    /\ C!IsCode(fn)
    /\ Supported(func) => C!ReadsWritten(fn)
    /\ \A j \in 1 .. Len(entries) : live_vars[j - 1] = C!LiveSet(fn, j)

\* The whole compiler does what Source promises: a call that met none of the
\* hazards returns what the source says or faults where the source has no
\* value, and no function is rejected that comes before the last register.
Promise == INSTANCE Source WITH
  NumRegisters <- Len(InitialRegs),
  status  <- Status,
  result  <- IF Status = "returned" THEN mach.reg[0] ELSE NoReturn,
  excused <- phase = "code" /\ (~Supported(func) \/ ~clean)
KeepsPromise == Promise!Spec

\* Without the excuses: a call that returns, returns what the statements say
\* with the operators as tac::debug_print() prints them (tac.cpp:123-140).
ReturnsAsSource ==
  Status = "returned" => Meant(func, args) \in {NoReturn, mach.reg[0]}
=============================================================================
