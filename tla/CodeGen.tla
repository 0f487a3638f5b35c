------------------------------ MODULE CodeGen ------------------------------
(***************************************************************************)
(* The code tac2x64 emits for a function (compiler/tac2x64.cpp and .h):    *)
(* prologue(), one handler per kind of entry, epilogue().  A step emits    *)
(* the code of one entry and runs it, on a machine of 32-bit registers and *)
(* a stack frame; next to it the entry is evaluated as tac::debug_print()  *)
(* prints it: a = b + c.                                                   *)
(*                                                                         *)
(* What the earlier passes contribute is an input: the entries, any        *)
(* assignment of registers and slots to their variables that keeps the     *)
(* contract of Placement for the live sets of LifeTimes, reg_avail and the *)
(* load/store register.  A word has Word values, 2^32 in the code.         *)
(***************************************************************************)
EXTENDS Placement, Words, Sequences

CONSTANTS
  Inputs,       \* functions: [entries, n_vars, color_map, n_spills, regs, temp]
  Arguments,    \* what functions are called with: the functions 0..8 -> Values
  Junk          \* what a register may hold at the call

eax == 0
edx == 2
Registers == 0 .. 15

\* edi, esi, edx, ecx, r8d and r9d
reg_args == <<7, 6, 2, 1, 8, 9>>

Kinds == {"assign", "param", "add", "sub", "mul", "div", "ret"}
Operands(n) == Ids(n) \cup {-1}
Entry(n) ==
  [type : Kinds, a : Operands(n), b : Operands(n), c : Operands(n), value : Values \cup 0 .. 8]

\* value is the number that is assigned, or the number of the argument.
Writes(e) == {e.a} \ {-1}
Reads(e)  == {e.b, e.c} \ {-1}

LiveAt(p, v, j) ==
  \E r \in j .. Len(p) :
    v \in Reads(p[r]) /\ \A w \in j .. r - 1 : v \notin Writes(p[w])

Written(p, v, j) == \E w \in 1 .. j - 1 : v \in Writes(p[w])

\* live_vars of the entry at j, as calculate_life_times() leaves it
LiveSet(f, j) == {v \in Ids(f.n_vars) : LiveAt(f.entries, v, j) /\ Written(f.entries, v, j)}

\* eax and edx are for idiv, esp and ebp for the frame.
Usable == Registers \ {eax, edx, 4, 5}

Distinct(regs) == \A p, q \in 1 .. Len(regs) : regs[p] = regs[q] => p = q
Members(regs) == {regs[p] : p \in 1 .. Len(regs)}

\* Where slots are used no variable is in the load/store register.
HasTemp(f) == f.n_spills # 0 => f.temp \in Usable \ Members(f.regs)

\* The shapes the tac constructor and add_from_exp() append.
Shaped(e) ==
  CASE e.type \in {"assign", "param"} -> e.a # -1 /\ Reads(e) = {}
    [] e.type = "ret"                 -> e.a = -1 /\ e.b # -1 /\ e.c = -1
    [] OTHER                          -> -1 \notin {e.a, e.b, e.c}

\* Parameters come first, in order; every place is one of the function's own.
IsCode(f) ==
  /\ f.entries \in Seq(Entry(f.n_vars))
  /\ \A j \in 1 .. Len(f.entries) :
       /\ Shaped(f.entries[j])
       /\ f.entries[j].type = "param" =>
            f.entries[j].value = j - 1 /\ j <= 9 /\ \A h \in 1 .. j - 1 : f.entries[h].type = "param"
       /\ f.entries[j].type = "assign" => f.entries[j].value \in Values
  /\ f.regs \in Seq(Usable) /\ Distinct(f.regs) /\ f.n_spills \in Nat /\ HasTemp(f)
  /\ IsAssignment(f.color_map,
       Interference([n_vars |-> f.n_vars, live |-> {LiveSet(f, j) : j \in 1 .. Len(f.entries)}]),
       f.n_vars, Len(f.regs), f.n_spills)

\* Nothing is read before it is written.
ReadsWritten(f) ==
  \A j \in 1 .. Len(f.entries) : \A v \in Reads(f.entries[j]) : Written(f.entries, v, j)

IsInput(f) == IsCode(f) /\ ReadsWritten(f)

ASSUME InputsAssumption == \A f \in Inputs : IsInput(f)
ASSUME ArgumentsAssumption == Arguments \subseteq [0 .. 8 -> Values] /\ Junk \subseteq Values

VARIABLES
  fn,       \* the function
  args,     \* what it was called with
  pc,       \* "entry", "run", "returned", "trapped" or "undefined"
  ip,       \* the entry that is next
  rsp,      \* the stack pointer, relative to rbp
  mach,     \* [reg, stack]: register contents, and stack contents by offset from rbp
  env,      \* the value of every variable by the entries so far
  clean     \* no entry so far met one of the hazards below

vars == <<fn, args, pc, ip, rsp, mach, env, clean>>

Cur == fn.entries[ip]
color(v) == fn.color_map[v]
-----------------------------------------------------------------------------
(***************************************************************************)
(* Variants of the definitions below, each with one plausible slip.        *)
(***************************************************************************)
SlotFromZero(c) == (c + 1) * 4
ParamSkipsReturn(n) == (n - 5) * 8
StackSizeHalved(f) == f.n_spills * 2
ResultNotMoved(m, e) == m
-----------------------------------------------------------------------------
(***************************************************************************)
(* Where things are: struct var and var_from_tac_var().                    *)
(***************************************************************************)
InReg(r) == [type |-> "reg", i |-> r]
InStack(offset) == [type |-> "stack", i |-> offset]
Constant(x) == [type |-> "constant", i |-> x]

get_stack_var_pos(c) == c * 4
get_stack_param_pos(n) == (n - 4) * 8

LoadStore == InReg(fn.temp)

Loc(v) ==
  IF color(v) >= 0 THEN InReg(fn.regs[color(v) + 1])
  ELSE InStack(get_stack_var_pos(color(v)))

ArgLoc(n) ==
  IF n < Len(reg_args) THEN InReg(reg_args[n + 1]) ELSE InStack(get_stack_param_pos(n))

Load(m, src) ==
  CASE src.type = "reg"      -> m.reg[src.i]
    [] src.type = "stack"    -> m.stack[src.i]
    [] src.type = "constant" -> src.i

Store(m, dst, x) ==
  IF dst.type = "reg" THEN [m EXCEPT !.reg[dst.i] = x] ELSE [m EXCEPT !.stack[dst.i] = x]

(***************************************************************************)
(* Instructions.                                                           *)
(***************************************************************************)
\* What the two-operand instruction T leaves in its destination.
Result(T, old, x) == IF T = "mov" THEN x ELSE Meaning(T, old, x)

Apply(m, T, dst, src) == Store(m, dst, Result(T, Load(m, dst), Load(m, src)))

\* src_dest<T>(): memory is written from a register only.
src_dest(m, T, dst, src) ==
  IF dst.type = "reg" \/ src.type = "reg" THEN Apply(m, T, dst, src)
  ELSE Apply(Store(m, LoadStore, Load(m, src)), T, dst, LoadStore)

\* The accumulating forms of op_add() and op_sub() apply.
IsLeft(e)  == color(e.a) = color(e.b)
IsRight(e) == color(e.a) = color(e.c)

op_assign(m, e) == src_dest(m, "mov", Loc(e.a), Constant(e.value))

op_param(m, e) == src_dest(m, "mov", Loc(e.a), ArgLoc(e.value))

\* op_add() and op_sub()
op_addsub(m, e) ==
  IF IsLeft(e) THEN src_dest(m, e.type, Loc(e.a), Loc(e.c))
  ELSE IF IsRight(e) THEN src_dest(m, e.type, Loc(e.a), Loc(e.b))
  ELSE src_dest(src_dest(m, "mov", Loc(e.a), Loc(e.b)), e.type, Loc(e.a), Loc(e.c))

\* A variable in a slot is multiplied in the load/store register.
MulReg(v) == IF color(v) < 0 THEN LoadStore ELSE Loc(v)

op_mul(m, e) ==
  LET rega  == MulReg(e.a)
      regb  == MulReg(e.b)
      m1 == IF color(e.b) < 0 THEN src_dest(m, "mov", regb, Loc(e.b)) ELSE m
      m2 == IF rega # regb THEN Apply(m1, "mov", rega, regb) ELSE m1
      m3 == Apply(m2, "mul", rega, Loc(e.c))
  IN  IF color(e.a) < 0 THEN src_dest(m3, "mov", Loc(e.a), rega) ELSE m3

\* Variant: the xor is left out.
DivWithoutXor(m, e) == src_dest(m, "mov", InReg(eax), Loc(e.b))

\* mov eax, b and xor edx, edx: the dividend is the word in eax, unsigned.
DivSetup(m, e) == Store(src_dest(m, "mov", InReg(eax), Loc(e.b)), InReg(edx), 0)
Dividend(m) == m.reg[edx] * Word + m.reg[eax]

IdivTraps(m, e) ==
  LET s == DivSetup(m, e) IN NoQuotient(Dividend(s), Signed(Load(s, Loc(e.c))))

op_div(m, e) ==
  LET s == DivSetup(m, e)
      d == Signed(Load(s, Loc(e.c)))
      n == Dividend(s)
      q == Quotient(n, d)
      t == Store(Store(s, InReg(eax), q % Word), InReg(edx), (n - q * d) % Word)
  IN  src_dest(t, "mov", Loc(e.a), InReg(eax))

op_ret(m, e) == src_dest(m, "mov", InReg(eax), Loc(e.b))

-----------------------------------------------------------------------------
(***************************************************************************)
(* The hazards: what the handlers do not look at.                          *)
(***************************************************************************)

\* The entry writes where a variable is that is still to be read, which only
\* an entry does whose own variable is never read.
WriteSafe(e) ==
  \A u \in LiveSet(fn, ip + 1) \ {e.a} : color(u) # color(e.a)

\* A parameter is moved to the register of an argument that is moved later.
ParamSafe(e) ==
  \A j \in ip + 1 .. Len(fn.entries) :
    fn.entries[j].type = "param" => ArgLoc(fn.entries[j].value) # Loc(e.a)

\* a has the place of c: the operands are swapped.
SubSafe(e) == IsLeft(e) \/ ~IsRight(e)

\* a has the register of c, which is overwritten with b first.
MulSafe(e) == IsLeft(e) \/ ~IsRight(e) \/ color(e.a) < 0

\* The sign of a negative dividend is lost.
DivSafe(e) == env[e.b] < Word \div 2

-----------------------------------------------------------------------------
\* The frame: slots, saved rbp and return address, and the arguments that are
\* not in registers, where the caller puts them.
FrameOffsets(f) == {-4 * s : s \in 1 .. f.n_spills} \cup {0, 8} \cup {16, 24, 32}

AtCall(f, given, junk) ==
  [reg |-> [r \in Registers |->
              IF \E n \in 0 .. 5 : reg_args[n + 1] = r
              THEN given[CHOOSE n \in 0 .. 5 : reg_args[n + 1] = r] ELSE junk],
   stack |-> [o \in FrameOffsets(f) |-> IF o >= 16 THEN given[6 + (o - 16) \div 8] ELSE junk]]

NothingWritten(f) == [v \in Ids(f.n_vars) |-> 0]

Init ==
  /\ fn \in Inputs
  /\ args \in Arguments
  /\ \E junk \in Junk : mach = AtCall(fn, args, junk)
  /\ env = NothingWritten(fn)
  /\ pc = "entry" /\ ip = 1 /\ rsp = 8 /\ clean = TRUE

\* The number of bytes prologue() is given, and what sub rsp takes off: an
\* 8-bit operand is sign extended.
StackSize(f) == f.n_spills * 4
Subtracted(size) == IF size < 256 /\ size > 127 THEN size - 256 ELSE size

Prologue ==
  /\ pc = "entry"
  /\ pc' = "run"
  /\ rsp' = 0 - Subtracted(StackSize(fn))
  /\ UNCHANGED <<fn, args, ip, mach, env, clean>>

At(kinds) == pc = "run" /\ ip <= Len(fn.entries) /\ Cur.type \in kinds

Runs(m, x, safe) ==
  /\ mach' = m
  /\ env' = [env EXCEPT ![Cur.a] = x]
  /\ ip' = ip + 1
  /\ clean' = (clean /\ WriteSafe(Cur) /\ safe)
  /\ UNCHANGED <<fn, args, pc, rsp>>

\* The entry's value from the values of its operands
Expected == Meaning(Cur.type, env[Cur.b], env[Cur.c])

OpAssign == At({"assign"}) /\ Runs(op_assign(mach, Cur), Cur.value, TRUE)
OpAdd    == At({"add"}) /\ Runs(op_addsub(mach, Cur), Expected, TRUE)
OpSub    == At({"sub"}) /\ Runs(op_addsub(mach, Cur), Expected, SubSafe(Cur))
OpMul    == At({"mul"}) /\ Runs(op_mul(mach, Cur), Expected, MulSafe(Cur))
OpParam  == At({"param"}) /\ Runs(op_param(mach, Cur), args[Cur.value], ParamSafe(Cur))

OpDiv ==
  /\ At({"div"}) /\ ~IdivTraps(mach, Cur) /\ ~NoQuotient(Signed(env[Cur.b]), Signed(env[Cur.c]))
  /\ Runs(op_div(mach, Cur), Expected, DivSafe(Cur))

\* The processor raises a fault, or the entry has no value.
DivTrap ==
  /\ At({"div"})
  /\ IdivTraps(mach, Cur) \/ NoQuotient(Signed(env[Cur.b]), Signed(env[Cur.c]))
  /\ pc' = IF IdivTraps(mach, Cur) THEN "trapped" ELSE "undefined"
  /\ clean' = (clean /\ DivSafe(Cur))
  /\ UNCHANGED <<fn, args, ip, rsp, mach, env>>

\* op_ret() and epilogue(); the entries after it are not reached.
OpRet ==
  /\ At({"ret"})
  /\ mach' = op_ret(mach, Cur)
  /\ pc' = "returned"
  /\ UNCHANGED <<fn, args, ip, rsp, env, clean>>

\* epilogue() after the last entry
ImplicitReturn ==
  /\ pc = "run" /\ ip = Len(fn.entries) + 1
  /\ pc' = "returned"
  /\ UNCHANGED <<fn, args, ip, rsp, mach, env, clean>>

\* last_was_ret gets its first value from an entry.  Where there is none it may
\* as well be true: no epilogue() is emitted and what is behind the code runs.
NoEpilogue ==
  /\ pc = "run" /\ Len(fn.entries) = 0
  /\ pc' = "undefined" /\ clean' = FALSE
  /\ UNCHANGED <<fn, args, ip, rsp, mach, env>>

Next ==
  \/ Prologue
  \/ OpAssign \/ OpParam \/ OpAdd \/ OpSub \/ OpMul \/ OpDiv \/ DivTrap
  \/ OpRet \/ ImplicitReturn \/ NoEpilogue

Spec == Init /\ [][Next]_vars

-----------------------------------------------------------------------------
(***************************************************************************)
(* Properties.                                                             *)
(***************************************************************************)

\* Types of the machine and of the evaluation.
TypeOK ==
  /\ pc \in {"entry", "run", "returned", "trapped", "undefined"}
  /\ ip \in 1 .. Len(fn.entries) + 1
  /\ rsp \in Int
  /\ mach.reg \in [Registers -> Values]
  /\ mach.stack \in [FrameOffsets(fn) -> Values]
  /\ env \in [Ids(fn.n_vars) -> Values]
  /\ clean \in BOOLEAN

Holds(v) == Load(mach, Loc(v)) = env[v]

\* Unless an entry met a hazard, every variable that is still to be read has
\* its value in its register or slot: for every placement of the contract,
\* whichever of its operands share a place, and with the load/store register,
\* eax and edx overwritten on the way.
Simulates ==
  pc = "run" /\ clean => \A v \in LiveSet(fn, ip) : Holds(v)

\* It faults only where the division has no value.
FaultsJustified ==
  clean => /\ pc = "trapped" => NoQuotient(Signed(env[Cur.b]), Signed(env[Cur.c]))
           /\ pc # "undefined"

\* Every slot is above the stack pointer, where a signal handler that runs on
\* this stack leaves it alone, whether prologue() takes the byte or the word
\* form of sub; only a byte that sign extension makes negative is an exception.
FrameHeld ==
  pc = "run" /\ StackSize(fn) \notin 128 .. 255 =>
    \A v \in Ids(fn.n_vars) : color(v) < 0 => get_stack_var_pos(color(v)) >= rsp

\* What the caller keeps across the call: saved rbp, return address, stacked
\* arguments, and every register outside reg_avail, the load/store register,
\* eax and edx.  ebx is in reg_avail and not saved, so it is not among them.
CallerKeeps ==
  [][/\ \A o \in FrameOffsets(fn) : o >= 0 => mach'.stack[o] = mach.stack[o]
     /\ \A r \in Registers \ (Members(fn.regs) \cup {fn.temp, eax, edx}) :
          mach'.reg[r] = mach.reg[r]]_vars
=============================================================================
