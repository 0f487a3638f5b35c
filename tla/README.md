# A TLA+ model of emjit

emjit (`src/src/`) parses small integer functions, turns them into three-address
code, gives their variables registers and stack slots, and writes x86-64 machine
code into memory that is mapped page by page when it is touched. This directory
models those steps as state machines, puts them together as the compiler that
`main()` drives for one function and a user of the class `tac2x64` may drive for more,
and checks them with TLC on small instances. With TLAPS it proves, for
every input, the safety properties of the scopes, the three-address code, the liveness
pass, the colouring of the interference graph, the allocation of registers, the
generated code and the memory; and that the compiler put together from these passes
implements the meaning of the source. Paths below are relative to `src/src/`.

## The system

```
 file --> scanner, parser --> driver: functions, var_defs      VarScopes
                                |
                                v   expressions, statements      (meaning: Language)
                              tac constructor                   Tac            \
                                |   entries a = b op c                          |
                                v                                               |
                              tac::calculate_life_times         LifeTimes       | Compiler
                                |   live_vars of every entry                    | (promise:
                                v                                               |  Source)
          tac2x64::compile_expression  <---> interf_graph       RegAlloc /      |
                                |   color_map, n_spills         InterfGraph     |
                                v                 (contract: GraphColoring)     |
                              tac2x64 handlers per entry        CodeGen        /
                                |   x64_instruction objects
                                v
                              x64_instruction templates         X64Encode
                                |   bytes
                                v
                              instruction_stream -> auto_allocator <- segv_catcher
                                                                AutoMemory
```

| Component (source) | State it keeps | Operations | What is hard |
|---|---|---|---|
| identifiers: `parser/vardefs.*`, `driver.*`, actions of `parser.yy` | tree of scopes with id counters, function table, current scope | declare, look up, open and "destroy" a scope, add a function | scopes are never closed, lookups go through all earlier functions, errors in the middle of a rule |
| three-address code: `compiler/tac.cpp` | entries, `next_varid` | one recursion per expression, one entry per parameter and return | unspecified order of evaluating arguments, temporaries, copies |
| liveness: `tac.cpp:52-103` | `last_read` per id, a bit per id and entry | one backward pass | ranges at the first and the last entry, reopened ranges, dead stores, reads without a write |
| interference graph: `compiler/interfgraph.*` | adjacency matrix, `removed[]`, stack, `n_spills` | `generate()`, `color(k)` | one object for all functions: what is left of the earlier ones; order of an `unordered_set`; bounds of `can_use[]`; termination |
| register allocation: `tac2x64.cpp:343-400` | `reg_avail`, `temp_reg_idx`, `color_map` | colour, reserve a register, colour again, swap two colours | a register is lost for good with every function that spills |
| code generation: `compiler/tac2x64.*` | the stream; at run time registers and frame | a handler per kind of entry, prologue, epilogue | operands that share a place, `eax`/`edx`, argument registers that are overwritten, sizes at 127/128 and 255/256 |
| encoding: `arch/x64/x64instruction.h` | prefixes, opcode, ModRM, SIB, offset, immediate | a template per form of operands | REX for `spl`..`dil` and against `ah`..`bh`, `rsp`/`r12`, `rbp`/`r13` |
| memory: `memory/*`, `arch/instructionstream.h` | handlers, pages, signal actions, `data_size` | make and destroy allocators, serve a fault, write an instruction | a fault between any two bytes; handlers that come and go; shared pages; actions saved and restored by two owners |

Components call each other from left to right and top to bottom; the only
callbacks are the signal handlers: a write by the stream or a run of the code may
fault, `segv_catcher::handler()` finds the allocator, and the access is tried
again. There is one thread. Nothing is persisted.

### Not modelled

The lexer and Bison's skeleton (generated; which rules are reduced is an input of
VarScopes and Tac), the disassembler (pipes bytes through `objdump`), names of
registers (tables for printing), `x64testing` (compares literal bytes),
`stack_variable` (nobody includes it), the sample program. Of modelled files:
printing, `tac::experiments()` (compiled out), `get_var_name()` (only printing calls
it), `find_lt_nodes()` and `is_reg_live()` (no callers).

Two seams are left between modelled parts. CodeGen executes instructions by their
effect, and X64Encode shows that an instruction's bytes are read back as the operands
it was built from; no module executes bytes. AutoMemory's bytes are written or not,
and their values are not distinguished.

## Modules

`Placement` holds what several modules share: which variables of a function
interfere, what the generated code rests on (`IsAssignment`) and the whole contract of
a colouring (`IsPlacement`, which adds that no slot is used without need). `Words`
holds arithmetic on words of `Word` values, and what the operations of an entry mean.
`Language` says what a parsed function means: its statements, run one after the other.
An expression is the sequence of the objects the parser makes for it, in the order in
which it makes them, so that what is said of an expression is said of the object at a
place from the objects before it; `Supported` is a function that copies no variable and
reads none that has no value.

**InterfGraph** models `interf_graph`. The members `n_vars, graph, stack, removed,
n_spills` are variables of the same names (`graph` as the set of pairs that are
true, `removed` as the set of ids whose bit is set), and so are the locals of
`color()`. A function is reduced to the number of its variables and its
`live_vars` sets, all that `generate()` reads. `Generate` is `set_n_vars()` and
`generate()`, and keeps the old edges inside of the new bounds as `resize()` does.
A call of `color(k)` is cut into the iterations of its loops: `Enter`; stage 1
`ScanPush`, `ScanKeep`, `NextPass`, `PickSpill`; `StageTwo`; `Pop`; `StageThree`;
`Place(id)` with any remaining `id`, as the hash set yields them; `Return`.
`pc = "failed"` is an "Internal error" exception behind a non-zero `k`,
`"threw"` is the one for `k = 0`.

**GraphColoring** is the abstract specification: `Generate` keeps at least the
edges of this function and none that were never there, and `Return` answers with
any placement that satisfies the contract. `InterfGraph!Refines` states that
InterfGraph implements it when the iterations are hidden.

**LifeTimes** models `calculate_life_times()`: a step is one iteration of the loop
over the entries (`VisitWrite` with its `add_live_range()`, `VisitOther`).

**RegAlloc** extends InterfGraph with `compile_expression()` up to the code:
`FirstColor`, `Coloring` (a step of `color()`), `KeepFirst`, `Reserve` (`pop_back`
and the second `color()`), `KeepSecond`, `SwapColors`.

**CodeGen** models the code of a function. A step emits the code of one entry and
executes it on a machine with sixteen 32-bit registers and a frame addressed from
`rbp`; beside it `env` evaluates the entry as `tac::debug_print()` prints it. The
assignment of places is an input, with `reg_avail` and the load/store register, and
may be any that `IsAssignment` allows, so the module relies on no more than what
RegAlloc and InterfGraph are shown to give (`IsCode`); that no variable is read before
it is written (`ReadsWritten`) is kept apart, because a function that reads the variable
of another is compiled as well. Where a handler is wrong for some shapes of
operands, a predicate names the shape (`WriteSafe`, `ParamSafe`, `SubSafe`, `MulSafe`,
`DivSafe`), and `clean` records whether an entry so far had it. A function without
entries leaves `last_was_ret` uninitialised (`tac2x64.cpp:382`): whether it gets its
epilogue is open, `ImplicitReturn` or `NoEpilogue`, which runs into what follows the code.

**Tac** models the constructor (`AddParam`, `AddDecl`, `AddReturn`) and
`add_from_exp()`. C++ does not fix the order in which the operands of an entry are
evaluated, so `left_first` is a choice of the build.

**Compiler** takes a function through Tac, LifeTimes, RegAlloc on InterfGraph and
CodeGen and calls it. `main()` (`emjit.cpp:43-60`) does this once, for the function named
`main`: that is a file of one function here. In a longer file the same `tac2x64` takes
the next function; `main()` has no such loop, but `compile_expression()` can be called
again and its members outlive a call, so this is the use of the class at its interface,
and harder than the program. Each pass is an instance with variables of its own, and what it starts from is
what the pass before it left (`StartLifeTimes`, `StartCompile`, `StartCode`); no
assumption of a pass is assumed here, they are the property `HandedOver`. `MaxVars`
bounds the variables of a function (guard of `StartLifeTimes`): the arrays of LifeTimes
have that size.

**Source** is the abstract specification of the whole: a function is called (in a file
of several, one after the other) and returns what Language says. It excuses a call whose function is not `Supported`
or that met a hazard of CodeGen, and lets a function be rejected no sooner
than at the number of the last register. `Compiler!KeepsPromise` is the refinement, and
hides every pass.

**VarScopes** models `var_defs`, `driver` and the actions of the grammar; a step is
the reduction of a rule. An expression is reduced to one identifier or none.
`BadToken` is a syntax error anywhere, `Parse` the next file for the same driver.

**AutoMemory** models allocators, handlers, the instruction stream and signal
actions on an address space of a few pages. The processor's part (`Complete`,
`Fault`, delivery of the signal) is external, modelled from how the code uses it.
`mmap()` may fail, in the constructor, which ignores it, and in the fault handler. The
address of a fault passes through an `int`. `Exit` is the destructor of the catcher.

**X64Encode** builds an instruction from its operands with the templates'
functions, writes the bytes (fields of a byte, not bits) and decodes them as the
processor does: register, immediate and memory operands, the accumulator with a 64-bit
address, `imul` of three operands, jumps and calls with an offset, conditions and their
inverses, and the fixed instructions. Arithmetic with an immediate has any of the eight
opcode extensions, and the decoder compares it. An opcode is a name (`mov_reg`,
`arith_eax`, ...), so that a constructor with the byte of another instruction cannot be
seen: those bytes are literals that `x64testing` compares. `IsOperation` says which
instructions there are, with which operands their constructors are declared for.

`VarScopesProofs`, `LifeTimesProofs`, `RegAllocProofs` (with the theorems about
InterfGraph, which RegAlloc extends), `CodeGenProofs`, `CompilerProofs` (with the lemmas
about Language and Tac, which Compiler extends), `AutoMemoryProofs` and `X64EncodeProofs`
hold the theorems; `Recursion` holds induction over the natural numbers and the existence
of recursive functions, in forms that the others can cite.
The `MC*` modules give the constants their values.

## What the runs check

| Run | Instance and bounds | Properties |
|---|---|---|
| `graph` | two functions in a row, every graph on 2 to 4 variables and C5, the wheel W4, two joined triangles and K5; `k` in 0..4; `color()` any number of times | `LiveApart`, `NoInternalError`, `NoNeedlessSpill`, `Reusable`, `Refines`, `Terminates`, and the invariant `IInv` of the proofs |
| `lifetimes` | all programs of 3 entries over 3 variables, and of 5 entries over 2 | `VisitedExact`, `Exact`, `WriteInterferes` |
| `alloc` | four functions on one object with three registers; every graph on 3 variables, selected ones on 4, complete ones up to 5 | `RegistersExist`, `TempExclusive`, `MappingApart`, `SlotsStay`, `CompileEnds` |
| `code` | every pair of operations in every shape of operands, with every assignment in two registers and two slots, with a return and without, all 8 argument values; three and eight parameters; no entries at all; frames of 124, 128, 252 and 256 bytes | `Simulates`, `FaultsJustified`, `FrameHeld`, `CallerKeeps` |
| `compiler` | 2,919 functions of an expression of depth 2; 130 of several statements, with copies, dead values, a return in the middle and none; 19 files of two and three functions that use up registers; 3 whose second function reads a variable of the first, 3 whose second function only copies one and has no entries; both orders of operands; three registers, one of them an argument's; words of 3 bits | `MeansTheSame`, `TempsReadOnce`, `HandedOver`, `KeepsPromise` |
| `scopes` | three functions with up to four parameters and statements each, three variable and two function names (symmetric), errors and further files | `IdsBelowTemps`, `NamesApart`, `FunctionsSettled` |
| `memory` | pages of two bytes; two allocators that share a page, a third that an `int` cuts down into the second's last page and beyond; instructions of one or two bytes | `CodeIntact`, `HandlersAlive`, `CrashJustified`, `BytesStay`, `AccessServed` |
| `encode` | all sixteen registers in all register and immediate forms; addresses with every base and three displacements, special bases with special indices; every extension of the arithmetic opcode; every condition in every state of the flags | `ReadsBack`, `SizeIsRead`, `RefusedJustly` |

Each of these runs but `compiler` also has the type invariant of its module
(`ScopesTypeOK` in `scopes`, `MemoryTypeOK` in `memory`, `TypeOK` elsewhere; in `graph`
it is a part of `IInv`, as are the bounds of `can_use[]` and the count of the slots; in `memory` it says
that no instruction goes beyond the stream's allocator).

Why the bounds are enough to be interesting. Two calls of `generate()` with functions
of different sizes are what it takes to leave edges and rows behind; four variables
have every graph in which stage 1 has to pick a spill, stage 3 finds a register after
all (the cycle C4 with two registers), and a second slot is needed (K4 with two). What
holds beyond is proved. In `alloc`, four functions exhaust three registers, and in
`compiler` files of three do, as every function that spills costs one. An expression of
depth two has every pair of operations, one on the result of the other and next to it;
deeper ones repeat what `add_from_exp()` does at a node. In `code`, an entry has three
operands in up to four places, so all equalities between places occur, with the
load/store register next to them; the frames lie on both sides of the limits at which
`prologue()` changes the form of `sub`. Three variables make every pattern of write,
read and write in `lifetimes`. In `memory`, an allocator of three bytes has a page of
its own and one it shares.

### Fairness

`FairSpec` of InterfGraph and `AllocFairSpec` of RegAlloc have weak fairness of the
steps of a call that is running: it is a sequential function, so it continues; when
the next function is compiled is up to the caller, and no fairness is assumed of
`Generate`, `Enter` and `StartCompile`. `FairSpec` of AutoMemory has weak fairness
of the processor, which retries an access and delivers signals, and of the loop that
writes the bytes of an instruction. None is assumed of the program that makes and
destroys objects. `mmap()` may always fail, hence `refused` in `AccessServed`.

Deadlock is checked in `graph`, where `color()` can be called for ever, and in
`compiler`, where nothing is stuck before the file is done: no pass waits for a state
that the pass before it never reaches. The others do end: a program is over, functions
run out, the process is dead.

### Where the code departs from what it says

Four runs end in a counterexample to what a comment or a call in the source says.

* `alloc_temp`, `TempIsR11`: `r11` is the load/store register of the first function
  that spills only. `pop_back()` (`tac2x64.cpp:359`) takes a register for good, the
  next such function reserves `edi`, and so on until none is left.
* `compiled`, `ReturnsAsSource`: when the result of a subtraction shares the register
  of its second operand, `op_sub()` subtracts the wrong way round. The run takes
  `f(x, y) { var z = x - y; return z * x; }` through every pass with the registers of the
  code, and it is the allocator that makes the two share one.
* `scopes_leak`, `OwnVariablesOnly`: `destroy_var_scope()` drops what
  `get_parent_scope()` returns, so a function sees the variables of those before it.
* `memory_trap`, `CrashAsDocumented`: `~tac2x64()` installs the saved action of
  `SIGTRAP` for `SIGSEGV`, after which a fault in a live allocator is fatal.

### What the properties excuse

Others are stated as exceptions in the properties of the passing runs. These hold for
everything else and do not catch the case they except; no run reports it, unless it is
one of the four above.

* `Simulates`, `FaultsJustified` and `KeepsPromise` hold unless the call met one of
  `SubSafe`, `MulSafe`, `DivSafe`, `ParamSafe`, `WriteSafe` in CodeGen: `sub` is swapped
  as above; `imul` overwrites its second operand first; a negative dividend is taken as
  unsigned; a parameter is moved into the register of a later argument; a variable that
  is never read has no live range and is still written. Each is needed: with any of them
  replaced by TRUE `Simulates` fails in `code`. Of the five only the first has a run
  with a counterexample (`compiled`); `ReturnsAsSource` fails in the same way for
  `var z = x * y; return z * x;`, `return (x - y) / 2;`, `var z = 3; return x + y;` and
  `f(x, y, z) { return z + x * y; }` when that is the file it is given. `KeepsPromise` also
  excuses the functions that are not `Supported`.
* The same three leave open what a function without an epilogue does (`NoEpilogue`): its
  call ends without an answer.
* `FrameHeld`: with 128 to 255 bytes of slots `sub rsp, imm8` adds to `rsp`.
* `CallerKeeps`: `ebx` is in `reg_avail` and saved nowhere, so it is not among the
  registers that a caller keeps, nor is any other that the compiler gives to variables.
* `MeansTheSame`: `x = y` appends no entry (`tac.cpp:183`).
* `ReadsBack`: `ah`, `ch`, `dh`, `bh` with an address of `r8`..`r15` become `spl`..`dil`
  (`HighWithExtended`, `x64instruction.h:777`); `push`/`pop` of `r8w`..`r15w` are not
  masked (`ExtendedWord`); an address without a base has the base `edi` (`Absolute`); an
  unsigned immediate that is narrower than its register is read with a sign
  (`SignExtended`); `jecxz` tests `rcx` (`WideCounter`).
* `WriteInterferes` is about variables that are read later: what a dead store overwrites
  is `WriteSafe`'s case.
* `BytesStay` and `CodeIntact` except pages that two allocators reach (`Sole`): there the
  second mapping replaces the bytes of the first. `HandlersAlive` needs allocators that
  begin at different addresses.
* `AccessServed` is about accesses the allocator permits, at addresses below 2 GB: a
  forbidden one faults for ever, and `std::function<bool(int)>` cuts a larger one down.
* `CrashJustified` excuses a destroyed `tac2x64` (the case of `CrashAsDocumented`), a
  refused `mmap()`, and an address of no allocator, such as one a stream still writes to
  after `~auto_allocator()`.
* `RefusedJustly` says that a refusal is justified, not that all that should be refused
  is: what is accepted and read otherwise is the exceptions of `ReadsBack`.
* `WriteInterferes` and `Exact` say nothing is live before it is written; the warning
  of `tac.cpp:60` for such a variable is in a branch that no call reaches (`warned`
  stays empty).
* Left-over edges of an earlier function (`interfgraph.cpp:22`) do no harm to the
  colouring but may cost a register: that is why `GraphColoring!Generate` leaves them
  open.

## What is proved

The theorems hold for every value of the constants under the assumptions the modules
state: a function's live sets are sets of its ids, `Ks` and `MaxGenerate` are natural
numbers, programs are sequences of entries over the ids, a word has an even number of
values, the functions given to CodeGen are as `IsInput` says, those given to Compiler
are as `IsFunction` says, those encoded as `IsOperation` says, and so on. TLC evaluates
those assumptions in the runs. AutoMemory needs two facts about allocators that its
`ASSUME`s do not state, so they are in the statements: `StartsDiffer` (no two allocators
begin at one address: handlers are removed by it) and, for the bytes, `PreAllocFits`
(no more is mapped at first than the allocator has).

The argument for the compiler reads: the entries mean what the statements mean and every
temporary is read once (`MeaningIsKept`, `TempsAreReadOnce`), the live sets are exact
(`ExactAtTheEnd`), the colouring keeps what is live together apart (`LiveStayApart`),
that survives two colourings and the swap (`MappingStaysApart`, `ColorsHaveRegisters`,
`TempIsExclusive`), and with any assignment that keeps it apart the code simulates the
entries (`CodeSimulates`). Each link is proved on its own, for every input;
`PassesHandOver` proves that they fit together, and `CompilerKeepsPromise` that the
whole implements Source.

**Compiler.** `CompilerProofs` cites the proofs of the passes as instances on Compiler's
own variables (`LP`, `AP`, `CP`); the lemmas named `Same...` say that an action is the
same there, and `LifeAssumptions`, `AllocAssumptions` and `CodeAssumptions` prove what
those modules assume, so nothing is assumed twice. The invariant grows in two steps.
`CompilerInv` is the invariant of each pass while it runs, with what it leaves behind:
`TacInv`, `LifeInv` (the operands are those of the entries, and after the pass the live
sets are exact for them), `BackInv` (the graph has this function's live sets and the
code is made from this function's colours). From it `CodeHandedOver` gets `IsCode`, shape
by shape, and `PassesHandOver` follows. `FullInv` adds what holds during a call:
`CodeInv` (CodeGen's own invariant), `MeaningInv` (the entries, run by Language's rules
as far as the call has got, have not returned and hold what `env` holds: CodeGen starts
`env` with zeros and stops at a division without a quotient, Language does neither) and
`CountInv` (registers that are left and functions so far: what `Source!Reject` needs).
`StepPromised` maps each action to a step of Source or a stutter; those that are not a
stutter rest on `FaultMeant` (a division that faults is one where the statements have no
value), `AnswerMeant` (what `op_ret()` leaves in `eax` is what they return) and
`NoAnswerMeant`.

**Tac.** Facts about every depth of an expression are proved in set form: the set of
places at which the fact holds has every place whose earlier places it has
(`AllNumbersBelow` of `Recursion`), so no theorem with an operator parameter is needed;
`RecursiveFunction` does the same for the existence of the functions by which
`ValueAt`, `RunOf`, `RunEntries` and the constructor are defined. `AddMeans` says that
the entries made for an object leave its value in the operand they return, whatever
runs before and whichever operand is evaluated first, and change no id outside of the
range they took; `AddTemps` that the temporaries of that range are written and read
once; `AddReads` that they read only what is written before or by themselves. The
invariant is `Built`, these three for the statements dealt with so far; each of
`AddParam`, `AddDecl` and `AddReturn` has a lemma (`BuiltParam`, `BuiltDecl`,
`BuiltReturn`).

**InterfGraph.** The invariant `IInv` (`Invariance`) carries everything else. Its parts:

* `GraphCovers`: edges go both ways and cover the live sets; `RemovedExact`: `removed`
  is exactly what is on the stack or among the possible spills, and empty between calls.
* `PushedLow`: a node on the stack has fewer than `k` edges to nodes that come back
  before it. This bounds the colours stage 2 can need: `try_add_reuse()` finds a colour
  below `color`, or `color` of them are taken by fewer than `k` neighbours.
* `Passed`: what a pass of stage 1 has learned, so that when nothing was pushed every
  remaining node has `k > 0` edges and the search for the largest degree finds one.
* `PoppedLow`, `PlacedSoFar`: the contract of a placement, for the part of the graph
  that is back. `PlacedSoFar` counts slots up to `Slots`, whose meaning changes with the
  stage.
* `SpillJustified`: a possible spill shows that the graph does not fall apart.

`StepPreserves` has one lemma per action behind it. From `IInv` follow `TypeCorrect`,
`NeverFails`, `LiveStayApart`, `IndexedInBounds`, `SlotsAreCounted`, `SpillsAreNeeded`,
`AlwaysReusable`; and `Implements`, which maps every step to one of `GraphColoring` or a
stutter (`StepSimulation`; the step that is not a stutter is `Return`, by
`ReturnsPlacement`). The counting facts (`Degrees`, `AllColorsTaken`) rest on
`FiniteSetTheorems`.

**LifeTimes.** The invariant says that the bits set so far and `last_read` are exactly the
liveness of the entries visited (`VisitedExact`) with the types. `ExactAtTheEnd` and
`WritesInterfere` follow; the second is what makes an edge in the interference graph of
every write and every value that survives it.

**RegAlloc.** `AInv` is `IInv` of InterfGraph, which the steps of `color()` keep, with
`Registers` (`reg_avail` is a prefix of the first list and the load/store register comes
behind it), `Calls` (where a call of `color()` is when `compile_expression()` is at each
of its stages, and that `k` is the number of registers left) and `Sound` (the mapping is
below that number, its slots are in the frame, neighbours are apart). No colour passes
the end of `reg_avail` because the second colouring starts over with the shorter list;
and because the swap exchanges two colours for all variables, `Sound` survives it.

**CodeGen.** `StoreLoad` says what is stored is read back and nothing else changes;
from it come the effect of `src_dest()` with and without the load/store register
(`SrcDestLoad`), and from that one lemma per handler: the entry's variable gets the
entry's value and every place but the scratch registers keeps what is in it
(`AssignRuns`, `ParamRuns`, `AddSubRuns`, `MulRuns`, `DivRuns`, `RetRuns`, over all ways
in which the operands can share places). `SamePlace` and `ScratchHoldsNone` turn the
contract of the assignment into facts about places. The invariant is `GInv` (types,
and where `rsp` is) with `SInv`: what is live is held, and so are the arguments that
no entry has moved yet (`ArgsHeld`), without which a later parameter could not be
simulated. `RunsKeeps` shows once that a handler which keeps other places preserves
it; each action then has a lemma of a few steps. `StepsKeepCallers` is the same for
what belongs to the caller.

**VarScopes.** The invariant says that the maps of every scope are inverse
(`ScopeOK`), that the current scope is the youngest (`ScopesOK`), and that a finished
function's scope is older than the one being parsed (`ScopesSettled`), also after a file
that failed; hence nothing is added to it (`FunctionsStaySettled`). `NInv` adds that the
ids of a scope begin where those of the scopes before it end (`IdsRise`) and that what a
function refers to has its id from its scope or an older one (`RefsResolved`); so its ids
are below those of its temporaries (`IdsStayBelowTemps`), and two of its variables never
share one (`NamesStayApart`).

**AutoMemory.** `MInv` has the types, what is under way, and that signal actions and the
catcher go together (`Actions`). `CrashJustified` needs `Doomed`: once the catcher's
action is gone for a reason that excuses nothing, the thread is at an address of no
allocator and stays there; and `Pending`: a fault is only pending where the page still
forbids the access. `BytesStay` and `CodeIntact` need that a page was mapped for an
allocator that reaches it, through the `int` or not (`PagesBelong`), that bytes are only
where something is mapped, and that what is written of the instruction under way counts
as well (`Written`).

**X64Encode.** Every form of instruction has a lemma that says `Correct(Encoded)`: the
object fits its fields, and if the code is its bytes the processor reads the operands
and finds the end (`RegRegCorrect`, `ArithImmCorrect`, `StoreLoadCorrect` and so on;
the forms with an address share `MemoryFits` and `MemoryRead`). They rest on `Built`, a
sequence of bytes made from a set of prefixes, an opcode and what follows: `ReadBuilt`
shows that skipping 67, 66, REX and 0f in turn finds just these, `ShapedIsBuilt` that
the constructors make opcodes of this kind, with the bits of REX that the registers ask
for, and `ReadRegister` that bits, prefixes and opcode name the register again. The
exceptions are not assumed away: where `ReadsBack` excuses one, the lemma has the case.
`OperationSettled` puts the forms together: the object is correct, or it was refused for
a reason that `RefusedJustly` names. What is left of the invariant (`XInv`) is that the
object is the one the operands give and the bytes are the object's.

Only model-checked:

* the liveness properties `Terminates`, `CompileEnds` and `AccessServed`: liveness under
  fairness and `ENABLED` are out of the prover's reach;
* the four runs that end in a counterexample.

## Plan

In this order, most important first; all of it is done.

1. InterfGraph with GraphColoring; invariant, refinement, proofs.
2. LifeTimes; exactness, proofs.
3. RegAlloc on top of InterfGraph; proofs on top of InterfGraph's.
4. CodeGen against the contract of Placement; its simulation proved.
5. Tac against Language. 6. VarScopes, proofs. 7. AutoMemory, proofs. 8. X64Encode,
proofs. 9. Compiler, and Source as what it promises.

What could follow: a stream whose bytes are those of X64Encode, executed from the pages
of AutoMemory, to close the two seams named above.
