---------------------------- MODULE CodeGenProofs ----------------------------
(***************************************************************************)
(* Proofs about CodeGen, for every size of a word, all functions of the    *)
(* entries, every assignment of registers and slots that keeps live        *)
(* variables apart, and all arguments: the code that is emitted simulates  *)
(* the entries.                                                            *)
(***************************************************************************)
EXTENDS CodeGen, TLAPS

-----------------------------------------------------------------------------
(***************************************************************************)
(* The inductive invariant.                                                *)
(***************************************************************************)
Machines == [reg : [Registers -> Values], stack : [FrameOffsets(fn) -> Values]]

\* What an instruction may write, and what it may read
Places  == {InReg(r) : r \in Registers} \cup {InStack(o) : o \in FrameOffsets(fn)}
Sources == Places \cup {Constant(x) : x \in Values}

Vars == Ids(fn.n_vars)

TwoOperand == {"mov", "add", "sub", "mul"}

\* The types, and the frame
GInv ==
  /\ IsCode(fn) /\ args \in Arguments
  /\ pc \in {"entry", "run", "returned", "trapped", "undefined"}
  /\ ip \in 1 .. Len(fn.entries) + 1
  /\ clean \in BOOLEAN
  /\ mach \in Machines
  /\ env \in [Vars -> Values]
  /\ rsp \in Int
  /\ pc = "run" => rsp = 0 - Subtracted(StackSize(fn))

\* The arguments that no entry has moved yet are where the caller put them.
ArgsHeld ==
  \A j \in ip .. Len(fn.entries) :
    fn.entries[j].type = "param" =>
      Load(mach, ArgLoc(fn.entries[j].value)) = args[fn.entries[j].value]

LiveHeld == ReadsWritten(fn) /\ \A v \in LiveSet(fn, ip) : Holds(v)

\* What the code does is only known where nothing is read that was not written;
\* the types are kept by any code.
SInv ==
  ReadsWritten(fn) =>
    /\ pc \in {"entry", "run"} /\ clean => LiveHeld /\ ArgsHeld
    /\ FaultsJustified

\* The state in which a function is called
Called ==
  /\ IsCode(fn) /\ args \in Arguments
  /\ \E junk \in Junk : mach = AtCall(fn, args, junk)
  /\ env = NothingWritten(fn)
  /\ pc = "entry" /\ ip = 1 /\ rsp = 8 /\ clean = TRUE

-----------------------------------------------------------------------------
(***************************************************************************)
(* Reading and writing places.                                             *)
(***************************************************************************)

LEMMA WordFacts ==
  /\ Word \in Nat /\ Word > 1
  /\ Word \div 2 \in Nat
  /\ \A x \in Values : x \in Nat /\ Signed(x) \in Int
  /\ \A x \in Int : x % Word \in Values
<1>1. Word \in Nat /\ Word > 1 /\ Word \div 2 \in Nat
  BY WordAssumption
<1>2. \A x \in Int : x % Word \in Values
  BY <1>1 DEF Values
<1> QED BY <1>1, <1>2 DEF Values, Signed

LEMMA PlaceCases ==
  ASSUME NEW p \in Places
  PROVE  \/ p.type = "reg" /\ p.i \in Registers /\ p = InReg(p.i)
         \/ p.type = "stack" /\ p.i \in FrameOffsets(fn) /\ p = InStack(p.i)
<1>1. CASE \E r \in Registers : p = InReg(r)
  BY <1>1 DEF InReg
<1>2. CASE \E o \in FrameOffsets(fn) : p = InStack(o)
  BY <1>2 DEF InStack
<1> QED BY <1>1, <1>2 DEF Places

LEMMA LoadTyped ==
  ASSUME NEW m \in Machines, NEW p \in Sources
  PROVE  Load(m, p) \in Values
<1>1. CASE p \in Places
  BY <1>1, PlaceCases DEF Load, Machines
<1>2. CASE \E x \in Values : p = Constant(x)
  BY <1>2 DEF Load, Constant
<1> QED BY <1>1, <1>2 DEF Sources

\* What is stored is read back, and nothing else changes.
LEMMA StoreLoad ==
  ASSUME NEW m \in Machines, NEW p \in Places, NEW x \in Values
  PROVE  /\ Store(m, p, x) \in Machines
         /\ \A q \in Sources : Load(Store(m, p, x), q) = IF q = p THEN x ELSE Load(m, q)
<1>0. m.reg \in [Registers -> Values] /\ m.stack \in [FrameOffsets(fn) -> Values]
  BY DEF Machines
<1> DEFINE t == Store(m, p, x)
<1>1. CASE p.type = "reg" /\ p.i \in Registers /\ p = InReg(p.i)
  <2>1. t \in Machines /\ t.reg = [m.reg EXCEPT ![p.i] = x] /\ t.stack = m.stack
    BY <1>1 DEF Store, Machines
  <2> HIDE DEF t
  <2>2. ASSUME NEW q \in Places PROVE Load(t, q) = IF q = p THEN x ELSE Load(m, q)
    <3>1. CASE q.type = "reg" /\ q.i \in Registers /\ q = InReg(q.i)
      BY <1>0, <1>1, <2>1, <3>1 DEF Load
    <3>2. CASE q.type = "stack" /\ q.i \in FrameOffsets(fn) /\ q = InStack(q.i)
      BY <1>0, <1>1, <2>1, <3>2 DEF Load
    <3> QED BY <3>1, <3>2, PlaceCases
  <2>3. ASSUME NEW c \in Values PROVE Load(t, Constant(c)) = Load(m, Constant(c)) /\ Constant(c) # p
    BY <1>1 DEF Load, Constant
  <2> QED BY <2>1, <2>2, <2>3 DEF Sources, t
<1>2. CASE p.type = "stack" /\ p.i \in FrameOffsets(fn) /\ p = InStack(p.i)
  <2>1. t \in Machines /\ t.stack = [m.stack EXCEPT ![p.i] = x] /\ t.reg = m.reg
    BY <1>2 DEF Store, Machines
  <2> HIDE DEF t
  <2>2. ASSUME NEW q \in Places PROVE Load(t, q) = IF q = p THEN x ELSE Load(m, q)
    <3>1. CASE q.type = "reg" /\ q.i \in Registers /\ q = InReg(q.i)
      BY <1>0, <1>2, <2>1, <3>1 DEF Load
    <3>2. CASE q.type = "stack" /\ q.i \in FrameOffsets(fn) /\ q = InStack(q.i)
      BY <1>0, <1>2, <2>1, <3>2 DEF Load
    <3> QED BY <3>1, <3>2, PlaceCases
  <2>3. ASSUME NEW c \in Values PROVE Load(t, Constant(c)) = Load(m, Constant(c)) /\ Constant(c) # p
    BY <1>2 DEF Load, Constant
  <2> QED BY <2>1, <2>2, <2>3 DEF Sources, t
<1> QED BY <1>1, <1>2, PlaceCases

-----------------------------------------------------------------------------
(***************************************************************************)
(* Where variables are.                                                    *)
(***************************************************************************)

\* What an input gives a variable
LEMMA Placed ==
  ASSUME IsCode(fn)
  PROVE  /\ fn.n_spills \in Nat /\ fn.regs \in Seq(Usable)
         /\ \A v \in Vars : color(v) \in Int /\ color(v) < Len(fn.regs) /\ color(v) >= 0 - fn.n_spills
         /\ \A v \in Vars : color(v) < 0 => fn.n_spills # 0
<1> DEFINE g == Interference([n_vars |-> fn.n_vars, live |-> {LiveSet(fn, j) : j \in 1 .. Len(fn.entries)}])
<1>2. IsAssignment(fn.color_map, g, fn.n_vars, Len(fn.regs), fn.n_spills)
  BY DEF IsCode
<1> HIDE DEF g
<1>3. /\ fn.color_map \in [Vars -> Int] /\ \A v \in Vars : fn.color_map[v] < Len(fn.regs)
      /\ \A v \in Vars : fn.color_map[v] < 0 => -fn.color_map[v] <= fn.n_spills
  BY <1>2 DEF IsAssignment, SlotsExact, Vars
<1>4. fn.n_spills \in Nat /\ fn.regs \in Seq(Usable)
  BY DEF IsCode
<1>5. ASSUME NEW v \in Vars
      PROVE  color(v) \in Int /\ color(v) < Len(fn.regs) /\ color(v) >= 0 - fn.n_spills
             /\ (color(v) < 0 => fn.n_spills # 0)
  BY <1>3, <1>4 DEF color
<1> QED BY <1>4, <1>5

\* The load/store register is one, and holds no variable, where it is used.
LEMMA TempFree ==
  ASSUME IsCode(fn), fn.n_spills # 0
  PROVE  fn.temp \in Usable /\ fn.temp \notin Members(fn.regs)
  BY DEF IsCode, HasTemp

\* Variables are in the registers of fn.regs and in slots; two are in one
\* place exactly if they have one colour.
LEMMA VariablePlaces ==
  ASSUME IsCode(fn), NEW v \in Vars
  PROVE  /\ Loc(v) \in Places
         /\ color(v) >= 0 => Loc(v) = InReg(Loc(v).i) /\ Loc(v).i \in Members(fn.regs) /\ Loc(v).i \in Usable
                            /\ Loc(v).type = "reg"
         /\ color(v) < 0 => Loc(v) = InStack(color(v) * 4) /\ Loc(v).type = "stack" /\ fn.n_spills # 0
<1>1. CASE color(v) >= 0
  <2>1. color(v) + 1 \in 1 .. Len(fn.regs)
    BY <1>1, Placed
  <2>2. fn.regs[color(v) + 1] \in Usable /\ fn.regs[color(v) + 1] \in Members(fn.regs)
    BY <2>1, Placed DEF Members
  <2>3. Loc(v) = InReg(fn.regs[color(v) + 1])
    BY <1>1 DEF Loc
  <2>4. Loc(v).i = fn.regs[color(v) + 1] /\ Loc(v).type = "reg"
    BY <2>3 DEF InReg
  <2>5. Usable \subseteq Registers
    BY DEF Usable
  <2> QED BY <1>1, <2>2, <2>3, <2>4, <2>5, Placed DEF Places
<1>2. CASE color(v) < 0
  <2>1. Loc(v) = InStack(color(v) * 4)
    BY <1>2, Placed DEF Loc, get_stack_var_pos
  <2>2. color(v) * 4 \in FrameOffsets(fn)
    <3>1. 0 - color(v) \in 1 .. fn.n_spills /\ color(v) * 4 = -4 * (0 - color(v))
      BY <1>2, Placed
    <3> QED BY <3>1 DEF FrameOffsets
  <2> QED BY <1>2, <2>1, <2>2, Placed DEF Places, InStack
<1> QED BY <1>1, <1>2, Placed

LEMMA SamePlace ==
  ASSUME IsCode(fn), NEW u \in Vars, NEW v \in Vars
  PROVE  Loc(u) = Loc(v) <=> color(u) = color(v)
<1>1. color(u) = color(v) => Loc(u) = Loc(v)
  BY DEF Loc
<1>2. ASSUME Loc(u) = Loc(v) PROVE color(u) = color(v)
  <2>1. CASE color(u) >= 0
    <3>1. color(v) >= 0
      BY <1>2, <2>1, VariablePlaces, Placed
    <3>2. fn.regs[color(u) + 1] = fn.regs[color(v) + 1]
      BY <1>2, <2>1, <3>1 DEF Loc, InReg
    <3>3. color(u) + 1 \in 1 .. Len(fn.regs) /\ color(v) + 1 \in 1 .. Len(fn.regs)
      BY <2>1, <3>1, Placed
    <3>4. Distinct(fn.regs)
      BY DEF IsCode
    <3>5. color(u) + 1 = color(v) + 1
      BY <3>2, <3>3, <3>4 DEF Distinct
    <3> QED BY <3>5, Placed
  <2>2. CASE color(u) < 0
    <3>1. color(v) < 0
      BY <1>2, <2>2, VariablePlaces, Placed
    <3>2. color(u) * 4 = color(v) * 4
      BY <1>2, <2>2, <3>1, VariablePlaces DEF InStack
    <3> QED BY <3>2, Placed
  <2> QED BY <2>1, <2>2, Placed
<1> QED BY <1>1, <1>2

\* No variable is in a register the handlers use for themselves.
LEMMA ScratchHoldsNone ==
  ASSUME IsCode(fn), NEW v \in Vars
  PROVE  /\ Loc(v) # InReg(eax) /\ Loc(v) # InReg(edx)
         /\ fn.n_spills # 0 => Loc(v) # LoadStore
<1>1. CASE color(v) >= 0
  <2>1. Loc(v).i \in Usable /\ Loc(v).i \in Members(fn.regs)
    BY <1>1, VariablePlaces
  <2>2. Loc(v).i # eax /\ Loc(v).i # edx
    BY <2>1 DEF Usable
  <2>3. fn.n_spills # 0 => Loc(v).i # fn.temp
    BY <2>1, TempFree
  <2> QED BY <2>2, <2>3 DEF InReg, LoadStore
<1>2. CASE color(v) < 0
  BY <1>2, VariablePlaces DEF InReg, LoadStore
<1> QED BY <1>1, <1>2, Placed

-----------------------------------------------------------------------------
(***************************************************************************)
(* Instructions.                                                           *)
(***************************************************************************)

LEMMA ResultTyped ==
  ASSUME NEW T \in TwoOperand, NEW x \in Values, NEW y \in Values
  PROVE  Result(T, x, y) \in Values
<1>1. x + y \in Int /\ x - y \in Int /\ x * y \in Int
  BY DEF Values
<1>2. (x + y) % Word \in Values /\ (x - y) % Word \in Values /\ (x * y) % Word \in Values
  BY <1>1, WordFacts
<1> QED BY <1>2 DEF Result, Meaning, TwoOperand

LEMMA ApplyLoad ==
  ASSUME NEW m \in Machines, NEW T \in TwoOperand, NEW dst \in Places, NEW src \in Sources
  PROVE  /\ Apply(m, T, dst, src) \in Machines
         /\ \A q \in Sources :
              Load(Apply(m, T, dst, src), q) = IF q = dst THEN Result(T, Load(m, dst), Load(m, src)) ELSE Load(m, q)
<1>1. Load(m, dst) \in Values /\ Load(m, src) \in Values
  BY LoadTyped DEF Sources
<1>2. Result(T, Load(m, dst), Load(m, src)) \in Values
  BY <1>1, ResultTyped
<1> QED BY <1>2, StoreLoad DEF Apply

\* An operand that is loaded into another place first
LEMMA ThroughLoad ==
  ASSUME NEW m \in Machines, NEW T \in TwoOperand, NEW dst \in Places, NEW src \in Sources,
         NEW tmp \in Places, tmp # dst
  PROVE  /\ Apply(Store(m, tmp, Load(m, src)), T, dst, tmp) \in Machines
         /\ \A q \in Sources :
              Load(Apply(Store(m, tmp, Load(m, src)), T, dst, tmp), q) =
                IF q = dst THEN Result(T, Load(m, dst), Load(m, src))
                ELSE IF q = tmp THEN Load(m, src) ELSE Load(m, q)
<1> DEFINE n == Store(m, tmp, Load(m, src))
<1>1. n \in Machines /\ \A q \in Sources : Load(n, q) = IF q = tmp THEN Load(m, src) ELSE Load(m, q)
  BY LoadTyped, StoreLoad
<1>2. tmp \in Sources /\ dst \in Sources
  BY DEF Sources
<1> HIDE DEF n
<1>3. Load(n, tmp) = Load(m, src) /\ Load(n, dst) = Load(m, dst)
  BY <1>1, <1>2
<1>4. n \in Machines
  BY <1>1
<1>5. Apply(n, T, dst, tmp) \in Machines /\ \A q \in Sources :
        Load(Apply(n, T, dst, tmp), q) = IF q = dst THEN Result(T, Load(n, dst), Load(n, tmp)) ELSE Load(n, q)
  BY <1>2, <1>4, ApplyLoad
<1>6. ASSUME NEW q \in Sources
      PROVE  Load(Apply(n, T, dst, tmp), q) =
               IF q = dst THEN Result(T, Load(m, dst), Load(m, src))
               ELSE IF q = tmp THEN Load(m, src) ELSE Load(m, q)
  BY <1>1, <1>3, <1>5
<1> QED BY <1>5, <1>6 DEF n

\* src_dest() changes its destination, and the load/store register where both
\* operands are in memory.
LEMMA SrcDestLoad ==
  ASSUME IsCode(fn), NEW m \in Machines, NEW T \in TwoOperand,
         NEW dst \in Places, NEW src \in Sources,
         dst.type # "reg" => fn.n_spills # 0
  PROVE  /\ src_dest(m, T, dst, src) \in Machines
         /\ \A q \in Sources :
              Load(src_dest(m, T, dst, src), q) =
                IF q = dst THEN Result(T, Load(m, dst), Load(m, src))
                ELSE IF q = LoadStore /\ dst.type # "reg" /\ src.type # "reg" THEN Load(m, src)
                ELSE Load(m, q)
<1>1. CASE dst.type = "reg" \/ src.type = "reg"
  BY <1>1, ApplyLoad DEF src_dest
<1>2. CASE ~(dst.type = "reg" \/ src.type = "reg")
  <2>1. LoadStore \in Places /\ LoadStore # dst
    <3>1. fn.temp \in Registers
      BY <1>2, TempFree DEF Usable
    <3> QED BY <1>2, <3>1 DEF LoadStore, Places, InReg
  <2>2. src_dest(m, T, dst, src) = Apply(Store(m, LoadStore, Load(m, src)), T, dst, LoadStore)
    BY <1>2 DEF src_dest
  <2> QED BY <1>2, <2>1, <2>2, ThroughLoad
<1> QED BY <1>1, <1>2

-----------------------------------------------------------------------------
(***************************************************************************)
(* The handlers: the variable that is written has the entry's value, and   *)
(* every other place keeps what is in it, but for the registers that the   *)
(* handlers use for themselves.                                            *)
(***************************************************************************)

\* A place that a handler for an entry that writes v leaves alone
Kept(v, q) ==
  q # Loc(v) /\ q # InReg(eax) /\ q # InReg(edx) /\ (fn.n_spills # 0 => q # LoadStore)

KeepsOthers(m, n, v) == \A q \in Places : Kept(v, q) => Load(n, q) = Load(m, q)

\* A variable of another colour is in such a place.
LEMMA OthersKept ==
  ASSUME IsCode(fn), NEW v \in Vars, NEW u \in Vars, color(u) # color(v)
  PROVE  Loc(u) \in Places /\ Kept(v, Loc(u))
  BY VariablePlaces, SamePlace, ScratchHoldsNone DEF Kept

\* src_dest() to a variable
LEMMA ToVariable ==
  ASSUME IsCode(fn), NEW m \in Machines, NEW T \in TwoOperand, NEW v \in Vars, NEW src \in Sources
  PROVE  /\ src_dest(m, T, Loc(v), src) \in Machines
         /\ Load(src_dest(m, T, Loc(v), src), Loc(v)) = Result(T, Load(m, Loc(v)), Load(m, src))
         /\ \A q \in Sources :
              q # Loc(v) /\ (fn.n_spills # 0 => q # LoadStore) =>
                Load(src_dest(m, T, Loc(v), src), q) = Load(m, q)
         /\ KeepsOthers(m, src_dest(m, T, Loc(v), src), v)
<1>1. Loc(v) \in Places /\ (Loc(v).type # "reg" => fn.n_spills # 0) /\ Loc(v) \in Sources
  BY VariablePlaces, Placed DEF Sources
<1>2. /\ src_dest(m, T, Loc(v), src) \in Machines
      /\ \A q \in Sources :
           Load(src_dest(m, T, Loc(v), src), q) =
             IF q = Loc(v) THEN Result(T, Load(m, Loc(v)), Load(m, src))
             ELSE IF q = LoadStore /\ Loc(v).type # "reg" /\ src.type # "reg" THEN Load(m, src)
             ELSE Load(m, q)
  BY <1>1, SrcDestLoad
<1>3. \A q \in Sources :
        q # Loc(v) /\ (fn.n_spills # 0 => q # LoadStore) =>
          Load(src_dest(m, T, Loc(v), src), q) = Load(m, q)
  BY <1>1, <1>2
<1>4. KeepsOthers(m, src_dest(m, T, Loc(v), src), v)
  BY <1>3 DEF KeepsOthers, Kept, Sources
<1> QED BY <1>1, <1>2, <1>3, <1>4

\* mov to a register
LEMMA ToRegister ==
  ASSUME IsCode(fn), NEW m \in Machines, NEW r \in Registers, NEW src \in Sources
  PROVE  /\ src_dest(m, "mov", InReg(r), src) \in Machines
         /\ \A q \in Sources :
              Load(src_dest(m, "mov", InReg(r), src), q) = IF q = InReg(r) THEN Load(m, src) ELSE Load(m, q)
<1>1. InReg(r) \in Places /\ InReg(r).type = "reg" /\ "mov" \in TwoOperand
  BY DEF Places, InReg, TwoOperand
<1>2. \A q \in Sources :
        Load(src_dest(m, "mov", InReg(r), src), q) =
          IF q = InReg(r) THEN Result("mov", Load(m, InReg(r)), Load(m, src)) ELSE Load(m, q)
  BY <1>1, SrcDestLoad
<1>3. src_dest(m, "mov", InReg(r), src) \in Machines
  BY <1>1, SrcDestLoad
<1> QED BY <1>2, <1>3 DEF Result

LEMMA AssignRuns ==
  ASSUME IsCode(fn), NEW m \in Machines, NEW e, e.a \in Vars, e.value \in Values
  PROVE  /\ op_assign(m, e) \in Machines
         /\ Load(op_assign(m, e), Loc(e.a)) = e.value
         /\ KeepsOthers(m, op_assign(m, e), e.a)
<1>1. Constant(e.value) \in Sources /\ "mov" \in TwoOperand /\ Load(m, Constant(e.value)) = e.value
  BY DEF Sources, TwoOperand, Load, Constant
<1> QED BY <1>1, ToVariable DEF op_assign, Result

LEMMA AddSubRuns ==
  ASSUME IsCode(fn), NEW m \in Machines, NEW e, e.a \in Vars, e.b \in Vars, e.c \in Vars,
         e.type \in {"add", "sub"}
  PROVE  /\ op_addsub(m, e) \in Machines
         /\ e.type = "add" \/ SubSafe(e) =>
              Load(op_addsub(m, e), Loc(e.a)) = Meaning(e.type, Load(m, Loc(e.b)), Load(m, Loc(e.c)))
         /\ KeepsOthers(m, op_addsub(m, e), e.a)
<1> DEFINE x == Load(m, Loc(e.b))
           y == Load(m, Loc(e.c))
<1>1. /\ Loc(e.a) \in Sources /\ Loc(e.b) \in Sources /\ Loc(e.c) \in Sources
      /\ e.type \in TwoOperand /\ "mov" \in TwoOperand
      /\ x \in Values /\ y \in Values
  BY VariablePlaces, LoadTyped DEF Sources, TwoOperand
<1>2. \A s, t : Result(e.type, s, t) = Meaning(e.type, s, t) /\ Result("mov", s, t) = t
  BY DEF Result
<1>3. CASE IsLeft(e)
  <2>1. op_addsub(m, e) = src_dest(m, e.type, Loc(e.a), Loc(e.c)) /\ Loc(e.a) = Loc(e.b)
    BY <1>3, SamePlace DEF op_addsub, IsLeft
  <2> QED BY <1>1, <1>2, <2>1, ToVariable
<1>4. CASE ~IsLeft(e) /\ IsRight(e)
  <2>1. op_addsub(m, e) = src_dest(m, e.type, Loc(e.a), Loc(e.b)) /\ Loc(e.a) = Loc(e.c)
    BY <1>4, SamePlace DEF op_addsub, IsRight
  <2>2. Load(op_addsub(m, e), Loc(e.a)) = Meaning(e.type, y, x)
    BY <1>1, <1>2, <2>1, ToVariable
  <2>3. e.type = "add" => Meaning(e.type, y, x) = Meaning(e.type, x, y)
    <3>1. y + x = x + y
      BY <1>1, WordFacts
    <3> QED BY <3>1 DEF Meaning
  <2>4. ~SubSafe(e)
    BY <1>4 DEF SubSafe
  <2> QED BY <1>1, <2>1, <2>2, <2>3, <2>4, ToVariable
<1>5. CASE ~IsLeft(e) /\ ~IsRight(e)
  <2> DEFINE n == src_dest(m, "mov", Loc(e.a), Loc(e.b))
  <2>1. /\ n \in Machines /\ Load(n, Loc(e.a)) = x /\ KeepsOthers(m, n, e.a)
        /\ \A q \in Sources : q # Loc(e.a) /\ (fn.n_spills # 0 => q # LoadStore) => Load(n, q) = Load(m, q)
    BY <1>1, <1>2, ToVariable
  <2>2. Load(n, Loc(e.c)) = y
    BY <1>1, <1>5, <2>1, SamePlace, ScratchHoldsNone DEF IsRight
  <2>3. op_addsub(m, e) = src_dest(n, e.type, Loc(e.a), Loc(e.c))
    BY <1>5 DEF op_addsub
  <2> HIDE DEF n
  <2>4. /\ op_addsub(m, e) \in Machines /\ KeepsOthers(n, op_addsub(m, e), e.a)
        /\ Load(op_addsub(m, e), Loc(e.a)) = Result(e.type, Load(n, Loc(e.a)), Load(n, Loc(e.c)))
    BY <1>1, <2>1, <2>3, ToVariable
  <2> QED BY <1>2, <2>1, <2>2, <2>4 DEF KeepsOthers
<1> QED BY <1>3, <1>4, <1>5

\* The register a variable is multiplied in
LEMMA MulRegs ==
  ASSUME IsCode(fn), NEW v \in Vars
  PROVE  /\ MulReg(v) \in Places /\ MulReg(v) \in Sources /\ MulReg(v).type = "reg"
         /\ color(v) < 0 => MulReg(v) = LoadStore /\ fn.n_spills # 0
         /\ color(v) >= 0 => MulReg(v) = Loc(v)
<1>1. CASE color(v) < 0
  <2>1. MulReg(v) = LoadStore /\ fn.n_spills # 0
    BY <1>1, Placed DEF MulReg
  <2>2. fn.temp \in Registers
    BY <2>1, TempFree DEF Usable
  <2> QED BY <1>1, <2>1, <2>2, Placed DEF LoadStore, Places, Sources, InReg
<1>2. CASE color(v) >= 0
  <2>1. MulReg(v) = Loc(v) /\ ~(color(v) < 0)
    BY <1>2, Placed DEF MulReg
  <2> QED BY <1>2, <2>1, VariablePlaces DEF Sources
<1> QED BY <1>1, <1>2, Placed

LEMMA MulRuns ==
  ASSUME IsCode(fn), NEW m \in Machines, NEW e, e.a \in Vars, e.b \in Vars, e.c \in Vars
  PROVE  /\ op_mul(m, e) \in Machines
         /\ MulSafe(e) =>
              Load(op_mul(m, e), Loc(e.a)) = Meaning("mul", Load(m, Loc(e.b)), Load(m, Loc(e.c)))
         /\ KeepsOthers(m, op_mul(m, e), e.a)
<1> DEFINE x  == Load(m, Loc(e.b))
           y  == Load(m, Loc(e.c))
           ra == MulReg(e.a)
           rb == MulReg(e.b)
           m1 == IF color(e.b) < 0 THEN src_dest(m, "mov", rb, Loc(e.b)) ELSE m
           m2 == IF ra # rb THEN Apply(m1, "mov", ra, rb) ELSE m1
           m3 == Apply(m2, "mul", ra, Loc(e.c))
           Free(q) == fn.n_spills # 0 => q # LoadStore
<1>1. op_mul(m, e) = IF color(e.a) < 0 THEN src_dest(m3, "mov", Loc(e.a), ra) ELSE m3
  BY DEF op_mul
<1>2. /\ Loc(e.a) \in Sources /\ Loc(e.b) \in Sources /\ Loc(e.c) \in Sources
      /\ Free(Loc(e.a)) /\ Free(Loc(e.b)) /\ Free(Loc(e.c))
      /\ "mov" \in TwoOperand /\ "mul" \in TwoOperand
      /\ \A s, t : Result("mul", s, t) = Meaning("mul", s, t) /\ Result("mov", s, t) = t
  BY VariablePlaces, ScratchHoldsNone DEF Sources, TwoOperand, Result
<1>3. /\ ra \in Places /\ rb \in Places /\ ra \in Sources /\ rb \in Sources
      /\ color(e.a) < 0 => ra = LoadStore /\ fn.n_spills # 0
      /\ color(e.b) < 0 => rb = LoadStore /\ fn.n_spills # 0
      /\ color(e.a) >= 0 => ra = Loc(e.a)
      /\ color(e.b) >= 0 => rb = Loc(e.b)
      /\ color(e.a) \in Int /\ color(e.b) \in Int /\ color(e.c) \in Int
  BY MulRegs, Placed
<1>4. m1 \in Machines /\ Load(m1, rb) = x /\ \A q \in Sources : Free(q) => Load(m1, q) = Load(m, q)
  <2>1. CASE color(e.b) < 0
    <3>1. \E r \in Registers : rb = InReg(r)
      BY <1>3, <2>1, TempFree DEF LoadStore, Usable
    <3>2. m1 = src_dest(m, "mov", rb, Loc(e.b))
      BY <2>1
    <3> HIDE DEF m1, rb
    <3>3. m1 \in Machines /\ \A q \in Sources : Load(m1, q) = IF q = rb THEN x ELSE Load(m, q)
      BY <1>2, <3>1, <3>2, ToRegister
    <3> QED BY <1>3, <2>1, <3>3
  <2>2. CASE ~(color(e.b) < 0)
    BY <1>3, <2>2
  <2> QED BY <2>1, <2>2
<1>5. m2 \in Machines /\ Load(m2, ra) = x
      /\ \A q \in Sources : Free(q) /\ (q # ra \/ ra = rb) => Load(m2, q) = Load(m, q)
  <2> HIDE DEF m1, ra, rb
  <2>1. CASE ra # rb
    <3>1. m2 = Apply(m1, "mov", ra, rb)
      BY <2>1
    <3> HIDE DEF m2
    <3>2. m2 \in Machines /\ \A q \in Sources : Load(m2, q) = IF q = ra THEN Load(m1, rb) ELSE Load(m1, q)
      BY <1>2, <1>3, <1>4, <3>1, ApplyLoad
    <3> QED BY <1>3, <1>4, <2>1, <3>2
  <2>2. CASE ra = rb
    BY <1>4, <2>2
  <2> QED BY <2>1, <2>2
<1>6. m3 \in Machines /\ Load(m3, ra) = Meaning("mul", x, Load(m2, Loc(e.c)))
      /\ \A q \in Sources : Free(q) /\ q # ra => Load(m3, q) = Load(m, q)
  <2> HIDE DEF m1, m2, ra, rb
  <2>1. m3 \in Machines /\ \A q \in Sources :
          Load(m3, q) = IF q = ra THEN Result("mul", Load(m2, ra), Load(m2, Loc(e.c))) ELSE Load(m2, q)
    BY <1>2, <1>3, <1>5, ApplyLoad
  <2> HIDE DEF m3
  <2> QED BY <1>2, <1>3, <1>5, <2>1
<1>7. MulSafe(e) => Load(m2, Loc(e.c)) = y
  <2> SUFFICES ASSUME MulSafe(e) PROVE Load(m2, Loc(e.c)) = y
    OBVIOUS
  <2>1. Loc(e.c) # ra \/ ra = rb
    <3>1. CASE color(e.a) < 0
      BY <1>2, <1>3, <3>1
    <3>2. CASE color(e.a) >= 0 /\ IsLeft(e)
      BY <1>3, <3>2, SamePlace DEF IsLeft
    <3>3. CASE color(e.a) >= 0 /\ ~IsRight(e)
      BY <1>3, <3>3, SamePlace DEF IsRight
    <3> QED BY <1>3, <3>1, <3>2, <3>3 DEF MulSafe
  <2> HIDE DEF m2, ra, rb
  <2> QED BY <1>2, <1>5, <2>1
<1> HIDE DEF m1, m2, m3, ra, rb, x, y
<1>8. CASE color(e.a) < 0
  <2>1. /\ op_mul(m, e) \in Machines /\ Load(op_mul(m, e), Loc(e.a)) = Load(m3, ra)
        /\ KeepsOthers(m3, op_mul(m, e), e.a)
    BY <1>1, <1>2, <1>3, <1>6, <1>8, ToVariable
  <2>2. KeepsOthers(m, op_mul(m, e), e.a)
    BY <1>3, <1>6, <1>8, <2>1 DEF KeepsOthers, Kept, Sources
  <2> QED BY <1>6, <1>7, <2>1, <2>2 DEF x, y
<1>9. CASE color(e.a) >= 0
  <2>1. op_mul(m, e) = m3 /\ ra = Loc(e.a)
    BY <1>1, <1>3, <1>9
  <2>2. KeepsOthers(m, m3, e.a)
    BY <1>6, <2>1 DEF KeepsOthers, Kept, Sources
  <2> QED BY <1>6, <1>7, <2>1, <2>2 DEF x, y
<1> QED BY <1>3, <1>8, <1>9

\* The dividend is the word of b, without a sign.
LEMMA DivSet ==
  ASSUME IsCode(fn), NEW m \in Machines, NEW e, e.b \in Vars, e.c \in Vars
  PROVE  /\ DivSetup(m, e) \in Machines
         /\ Dividend(DivSetup(m, e)) = Load(m, Loc(e.b))
         /\ Load(DivSetup(m, e), Loc(e.c)) = Load(m, Loc(e.c))
         /\ \A q \in Places : q # InReg(eax) /\ q # InReg(edx) => Load(DivSetup(m, e), q) = Load(m, q)
<1> DEFINE n == src_dest(m, "mov", InReg(eax), Loc(e.b))
           s == DivSetup(m, e)
<1>1. /\ Loc(e.b) \in Sources /\ Loc(e.c) \in Places /\ Load(m, Loc(e.b)) \in Values
      /\ eax \in Registers /\ edx \in Registers /\ InReg(eax) \in Places /\ InReg(edx) \in Places
      /\ InReg(eax) # InReg(edx) /\ 0 \in Values
  BY VariablePlaces, LoadTyped, WordFacts DEF Sources, Places, InReg, eax, edx, Registers, Values
<1>2. n \in Machines /\ \A q \in Sources : Load(n, q) = IF q = InReg(eax) THEN Load(m, Loc(e.b)) ELSE Load(m, q)
  BY <1>1, ToRegister
<1>3. s = Store(n, InReg(edx), 0)
  BY DEF DivSetup
<1> HIDE DEF n
<1>4. s \in Machines /\ \A q \in Sources : Load(s, q) = IF q = InReg(edx) THEN 0 ELSE Load(n, q)
  BY <1>1, <1>2, <1>3, StoreLoad
<1> HIDE DEF s
<1>5. Load(s, InReg(eax)) = Load(m, Loc(e.b)) /\ Load(s, InReg(edx)) = 0
  BY <1>1, <1>2, <1>4 DEF Sources
<1>6. s.reg[eax] = Load(m, Loc(e.b)) /\ s.reg[edx] = 0
  BY <1>5 DEF Load, InReg
<1>7. Dividend(s) = Load(m, Loc(e.b))
  BY <1>1, <1>6, WordFacts DEF Dividend, Values
<1>8. \A q \in Places : q # InReg(eax) /\ q # InReg(edx) => Load(s, q) = Load(m, q)
  BY <1>2, <1>4 DEF Sources
<1> QED BY <1>1, <1>4, <1>7, <1>8, ScratchHoldsNone DEF s

LEMMA DivRuns ==
  ASSUME IsCode(fn), NEW m \in Machines, NEW e, e.a \in Vars, e.b \in Vars, e.c \in Vars
  PROVE  /\ IdivTraps(m, e) <=> NoQuotient(Load(m, Loc(e.b)), Signed(Load(m, Loc(e.c))))
         /\ ~IdivTraps(m, e) =>
              /\ op_div(m, e) \in Machines
              /\ Load(op_div(m, e), Loc(e.a)) =
                   Quotient(Load(m, Loc(e.b)), Signed(Load(m, Loc(e.c)))) % Word
              /\ KeepsOthers(m, op_div(m, e), e.a)
<1> DEFINE s == DivSetup(m, e)
           x == Load(m, Loc(e.b))
           d == Signed(Load(m, Loc(e.c)))
           q == Quotient(x, d)
           u == Store(s, InReg(eax), q % Word)
           t == Store(u, InReg(edx), (x - q * d) % Word)
<1>1. /\ s \in Machines /\ Dividend(s) = x /\ Load(s, Loc(e.c)) = Load(m, Loc(e.c))
      /\ \A p \in Places : p # InReg(eax) /\ p # InReg(edx) => Load(s, p) = Load(m, p)
  BY DivSet
<1>2. IdivTraps(m, e) <=> NoQuotient(x, d)
  BY <1>1 DEF IdivTraps
<1>3. ASSUME ~IdivTraps(m, e)
      PROVE  /\ op_div(m, e) \in Machines
             /\ Load(op_div(m, e), Loc(e.a)) = q % Word
             /\ KeepsOthers(m, op_div(m, e), e.a)
  <2>1. x \in Values /\ d \in Int /\ q \in Int
    <3>1. Loc(e.b) \in Sources /\ Loc(e.c) \in Sources
      BY VariablePlaces DEF Sources
    <3>2. q \in -(Word \div 2) .. Word \div 2 - 1
      BY <1>2, <1>3 DEF NoQuotient
    <3> QED BY <3>1, <3>2, LoadTyped, WordFacts
  <2>2. op_div(m, e) = src_dest(t, "mov", Loc(e.a), InReg(eax))
    BY <1>1 DEF op_div
  <2>3. q % Word \in Values /\ (x - q * d) % Word \in Values
    <3>1. x - q * d \in Int
      BY <2>1, WordFacts
    <3> QED BY <2>1, <3>1, WordFacts
  <2>4. InReg(eax) \in Places /\ InReg(edx) \in Places /\ InReg(eax) # InReg(edx) /\ InReg(eax) \in Sources
        /\ "mov" \in TwoOperand
    BY DEF Sources, Places, InReg, eax, edx, Registers, TwoOperand
  <2> HIDE DEF s, q, x, d
  <2>5. u \in Machines /\ \A p \in Sources : Load(u, p) = IF p = InReg(eax) THEN q % Word ELSE Load(s, p)
    BY <1>1, <2>3, <2>4, StoreLoad
  <2> HIDE DEF u
  <2>6. t \in Machines
        /\ \A p \in Sources : Load(t, p) = IF p = InReg(edx) THEN (x - q * d) % Word ELSE Load(u, p)
    BY <2>3, <2>4, <2>5, StoreLoad
  <2> HIDE DEF t
  <2>7. Load(t, InReg(eax)) = q % Word
    BY <2>4, <2>5, <2>6
  <2>8. KeepsOthers(m, t, e.a)
    BY <1>1, <2>5, <2>6 DEF KeepsOthers, Kept, Sources
  <2>9. /\ op_div(m, e) \in Machines /\ KeepsOthers(t, op_div(m, e), e.a)
        /\ Load(op_div(m, e), Loc(e.a)) = q % Word
    BY <2>2, <2>4, <2>6, <2>7, ToVariable DEF Result
  <2> QED BY <2>8, <2>9 DEF KeepsOthers
<1> QED BY <1>2, <1>3

\* The first six arguments are in registers, the others in the caller's frame.
LEMMA ArgPlaces ==
  ASSUME NEW n \in 0 .. 8
  PROVE  /\ ArgLoc(n) \in Places
         /\ n < 6 => ArgLoc(n).type = "reg"
         /\ n >= 6 => ArgLoc(n) = InStack((n - 4) * 8) /\ (n - 4) * 8 \in {16, 24, 32}
<1>1. Len(reg_args) = 6
  BY DEF reg_args
<1>2. CASE n < 6
  <2>1. ArgLoc(n) = InReg(reg_args[n + 1])
    BY <1>1, <1>2 DEF ArgLoc
  <2>2. n \in {0, 1, 2, 3, 4, 5}
    BY <1>2
  <2>3. reg_args[n + 1] \in Registers
    BY <2>2 DEF reg_args, Registers
  <2> QED BY <1>2, <2>1, <2>3 DEF Places, InReg
<1>3. CASE n >= 6
  <2>1. ArgLoc(n) = InStack((n - 4) * 8)
    BY <1>1, <1>3 DEF ArgLoc, get_stack_param_pos
  <2>2. (n - 4) * 8 \in {16, 24, 32}
    BY <1>3
  <2>3. (n - 4) * 8 \in FrameOffsets(fn)
    BY <2>2 DEF FrameOffsets
  <2> QED BY <1>3, <2>1, <2>2, <2>3 DEF Places
<1> QED BY <1>2, <1>3

\* A parameter's move goes through the load/store register only where the
\* argument is in the caller's frame, and then the later ones are too.
LEMMA ParamRuns ==
  ASSUME IsCode(fn), NEW m \in Machines, NEW e, e.a \in Vars, e.value \in 0 .. 8
  PROVE  /\ op_param(m, e) \in Machines
         /\ Load(op_param(m, e), Loc(e.a)) = Load(m, ArgLoc(e.value))
         /\ KeepsOthers(m, op_param(m, e), e.a)
         /\ \A n \in 0 .. 8 :
              n > e.value /\ ArgLoc(n) # Loc(e.a) => Load(op_param(m, e), ArgLoc(n)) = Load(m, ArgLoc(n))
<1> DEFINE arg == ArgLoc(e.value)
<1>1. arg \in Sources /\ "mov" \in TwoOperand /\ op_param(m, e) = src_dest(m, "mov", Loc(e.a), arg)
  BY ArgPlaces DEF Sources, TwoOperand, op_param
<1>2. /\ op_param(m, e) \in Machines /\ KeepsOthers(m, op_param(m, e), e.a)
      /\ Load(op_param(m, e), Loc(e.a)) = Load(m, arg)
  <2> HIDE DEF arg
  <2> QED BY <1>1, ToVariable DEF Result
<1>3. ASSUME NEW n \in 0 .. 8, n > e.value, ArgLoc(n) # Loc(e.a)
      PROVE  Load(op_param(m, e), ArgLoc(n)) = Load(m, ArgLoc(n))
  <2>1. ~(ArgLoc(n) = LoadStore /\ Loc(e.a).type # "reg" /\ arg.type # "reg")
    <3>1. CASE e.value < 6
      BY <3>1, ArgPlaces
    <3>2. CASE e.value >= 6
      <4>1. ArgLoc(n) = InStack((n - 4) * 8)
        BY <1>3, <3>2, ArgPlaces
      <4> QED BY <4>1 DEF InStack, LoadStore, InReg
    <3> QED BY <3>1, <3>2
  <2>2. Loc(e.a) \in Places /\ (Loc(e.a).type # "reg" => fn.n_spills # 0) /\ ArgLoc(n) \in Sources
    BY VariablePlaces, ArgPlaces, Placed DEF Sources
  <2> HIDE DEF arg
  <2> QED BY <1>1, <1>3, <2>1, <2>2, SrcDestLoad
<1> QED BY <1>2, <1>3

LEMMA RetRuns ==
  ASSUME IsCode(fn), NEW m \in Machines, NEW e, e.b \in Vars
  PROVE  /\ op_ret(m, e) \in Machines
         /\ \A q \in Places : q # InReg(eax) => Load(op_ret(m, e), q) = Load(m, q)
         /\ Load(op_ret(m, e), InReg(eax)) = Load(m, Loc(e.b))
<1>1. Loc(e.b) \in Sources /\ eax \in Registers
  BY VariablePlaces DEF Sources, eax, Registers
<1>2. /\ op_ret(m, e) \in Machines
      /\ \A q \in Sources : Load(op_ret(m, e), q) = IF q = InReg(eax) THEN Load(m, Loc(e.b)) ELSE Load(m, q)
  BY <1>1, ToRegister DEF op_ret
<1>3. InReg(eax) \in Sources
  BY <1>1 DEF Sources, Places
<1> QED BY <1>2, <1>3 DEF Sources

-----------------------------------------------------------------------------
(***************************************************************************)
(* Entries and what is live.                                               *)
(***************************************************************************)

LEMMA EntryFacts ==
  ASSUME IsCode(fn), ip \in 1 .. Len(fn.entries)
  PROVE  /\ Cur.type \in Kinds /\ Len(fn.entries) \in Nat
         /\ Cur.type # "ret" => Cur.a \in Vars
         /\ Cur.type \in {"add", "sub", "mul", "div"} => Cur.b \in Vars /\ Cur.c \in Vars
         /\ Cur.type = "ret" => Cur.b \in Vars
         /\ Cur.type = "assign" => Cur.value \in Values
         /\ Cur.type = "param" => Cur.value \in 0 .. 8 /\ Cur.value = ip - 1
         /\ Cur.type # "param" => \A j \in ip + 1 .. Len(fn.entries) : fn.entries[j].type # "param"
         /\ \A j \in ip + 1 .. Len(fn.entries) :
              fn.entries[j].type = "param" => fn.entries[j].value = j - 1 /\ fn.entries[j].value \in 0 .. 8
<1>2. fn.entries \in Seq(Entry(fn.n_vars)) /\ Len(fn.entries) \in Nat /\ Cur \in Entry(fn.n_vars)
  BY DEF IsCode, Cur
<1>3. Cur.type \in Kinds /\ Cur.a \in Vars \cup {-1} /\ Cur.b \in Vars \cup {-1} /\ Cur.c \in Vars \cup {-1}
  BY <1>2 DEF Entry, Operands, Vars
<1>4. /\ Shaped(Cur)
      /\ Cur.type = "param" => Cur.value = ip - 1 /\ ip <= 9
      /\ Cur.type = "assign" => Cur.value \in Values
  BY DEF IsCode, Cur
<1>5. /\ Cur.type # "ret" => Cur.a \in Vars
      /\ Cur.type \in {"add", "sub", "mul", "div"} => Cur.b \in Vars /\ Cur.c \in Vars
      /\ Cur.type = "ret" => Cur.b \in Vars
  <2>1. CASE Cur.type \in {"assign", "param"}
    BY <1>3, <1>4, <2>1 DEF Shaped
  <2>2. CASE Cur.type = "ret"
    BY <1>3, <1>4, <2>2 DEF Shaped
  <2>3. CASE Cur.type \in {"add", "sub", "mul", "div"}
    BY <1>3, <1>4, <2>3 DEF Shaped
  <2> QED BY <1>3, <2>1, <2>2, <2>3 DEF Kinds
<1>6. ASSUME NEW j \in ip + 1 .. Len(fn.entries), fn.entries[j].type = "param"
      PROVE  fn.entries[j].value = j - 1 /\ fn.entries[j].value \in 0 .. 8 /\ Cur.type = "param"
  <2>1. j \in 1 .. Len(fn.entries) /\ ip \in 1 .. j - 1
    BY <1>2
  <2>2. fn.entries[j].value = j - 1 /\ j <= 9 /\ fn.entries[ip].type = "param"
    BY <1>6, <2>1 DEF IsCode
  <2> QED BY <2>1, <2>2 DEF Cur
<1>7. Cur.type = "param" => Cur.value \in 0 .. 8
  BY <1>2, <1>4
<1> QED BY <1>2, <1>3, <1>4, <1>5, <1>6, <1>7

\* What an entry reads is live at it.
LEMMA ReadsLive ==
  ASSUME IsCode(fn), ReadsWritten(fn), ip \in 1 .. Len(fn.entries), NEW v \in Vars, v \in Reads(Cur)
  PROVE  v \in LiveSet(fn, ip)
<1>1. Written(fn.entries, v, ip) /\ Len(fn.entries) \in Nat
  BY EntryFacts DEF ReadsWritten, Cur
<1>2. LiveAt(fn.entries, v, ip)
  BY <1>1 DEF LiveAt, Cur
<1> QED BY <1>1, <1>2 DEF LiveSet, Vars

\* What is live behind an entry, and not written by it, is live at it.
LEMMA StaysLive ==
  ASSUME IsCode(fn), ip \in 1 .. Len(fn.entries), NEW v \in LiveSet(fn, ip + 1), v # Cur.a
  PROVE  v \in LiveSet(fn, ip) /\ v \in Vars
<1>1. v \in Vars /\ LiveAt(fn.entries, v, ip + 1) /\ Written(fn.entries, v, ip + 1) /\ Len(fn.entries) \in Nat
  BY EntryFacts DEF LiveSet, Vars
<1>2. v \notin Writes(fn.entries[ip])
  BY DEF Writes, Cur
<1>3. LiveAt(fn.entries, v, ip)
  <2>1. PICK r \in ip + 1 .. Len(fn.entries) :
          v \in Reads(fn.entries[r]) /\ \A w \in ip + 1 .. r - 1 : v \notin Writes(fn.entries[w])
    BY <1>1 DEF LiveAt
  <2>2. r \in ip .. Len(fn.entries) /\ \A w \in ip .. r - 1 : v \notin Writes(fn.entries[w])
    BY <1>1, <1>2, <2>1
  <2> QED BY <2>1, <2>2 DEF LiveAt
<1>4. Written(fn.entries, v, ip)
  <2>1. PICK w \in 1 .. ip : v \in Writes(fn.entries[w])
    BY <1>1 DEF Written
  <2>2. w \in 1 .. ip - 1
    BY <1>2, <2>1
  <2> QED BY <2>1, <2>2 DEF Written
<1> QED BY <1>1, <1>3, <1>4 DEF LiveSet, Vars

-----------------------------------------------------------------------------
(***************************************************************************)
(* The invariant holds at first, and every step keeps it.                  *)
(***************************************************************************)

LEMMA CallHolds ==
  ASSUME Called
  PROVE  GInv /\ SInv
<1>1. PICK junk \in Junk : mach = AtCall(fn, args, junk)
  BY DEF Called
<1>2. IsCode(fn) /\ args \in [0 .. 8 -> Values] /\ junk \in Values
  BY ArgumentsAssumption DEF Called
<1> DEFINE given(r) == CHOOSE n \in 0 .. 5 : reg_args[n + 1] = r
<1>3. \A r \in Registers : (\E n \in 0 .. 5 : reg_args[n + 1] = r) =>
        given(r) \in 0 .. 5 /\ reg_args[given(r) + 1] = r
  OBVIOUS
<1> HIDE DEF given
<1>4. mach.reg = [r \in Registers |->
                    IF \E n \in 0 .. 5 : reg_args[n + 1] = r THEN args[given(r)] ELSE junk]
  BY <1>1 DEF AtCall, given
<1>5. mach.stack = [o \in FrameOffsets(fn) |-> IF o >= 16 THEN args[6 + (o - 16) \div 8] ELSE junk]
  BY <1>1 DEF AtCall
<1>6. mach.reg \in [Registers -> Values]
  <2>1. \A r \in Registers : mach.reg[r] \in Values
    BY <1>2, <1>3, <1>4
  <2> QED BY <1>4, <2>1
<1>7. mach.stack \in [FrameOffsets(fn) -> Values]
  <2>1. ASSUME NEW o \in FrameOffsets(fn) PROVE mach.stack[o] \in Values
    <3>1. CASE o >= 16
      <4>1. o \in {16, 24, 32}
        <5>1. fn.n_spills \in Nat
          BY <1>2 DEF IsCode
        <5> QED BY <3>1, <5>1 DEF FrameOffsets
      <4>2. 6 + (o - 16) \div 8 \in 0 .. 8
        BY <4>1
      <4> QED BY <1>2, <1>5, <3>1, <4>2
    <3>2. CASE ~(o >= 16)
      BY <1>2, <1>5, <3>2
    <3> QED BY <3>1, <3>2
  <2> QED BY <1>5, <2>1
<1>8. mach \in Machines
  BY <1>1, <1>6, <1>7 DEF Machines, AtCall
<1>9. GInv
  <2>1. Len(fn.entries) \in Nat
    <3>1. fn.entries \in Seq(Entry(fn.n_vars))
      BY <1>2 DEF IsCode
    <3> QED BY <3>1
  <2>2. env \in [Vars -> Values]
    BY WordFacts DEF Called, NothingWritten, Vars, Values
  <2> QED BY <1>2, <1>8, <2>1, <2>2 DEF Called, GInv
<1>10. ReadsWritten(fn) => LiveHeld
  BY DEF Called, LiveHeld, LiveSet, Written
<1>11. ASSUME NEW n \in 0 .. 8 PROVE Load(mach, ArgLoc(n)) = args[n]
  <2>1. CASE n < 6
    <3>1. n \in {0, 1, 2, 3, 4, 5} /\ Len(reg_args) = 6
      BY <2>1 DEF reg_args
    <3>2. ArgLoc(n) = InReg(reg_args[n + 1])
      BY <2>1, <3>1 DEF ArgLoc
    <3>3. reg_args[n + 1] \in Registers /\ \A h \in 0 .. 5 : reg_args[h + 1] = reg_args[n + 1] => h = n
      BY <3>1 DEF reg_args, Registers
    <3>4. given(reg_args[n + 1]) = n
      BY <1>3, <2>1, <3>3
    <3>5. mach.reg[reg_args[n + 1]] = args[n]
      BY <1>4, <2>1, <3>3, <3>4
    <3> QED BY <3>2, <3>5 DEF Load, InReg
  <2>2. CASE n >= 6
    <3>1. ArgLoc(n) = InStack((n - 4) * 8) /\ (n - 4) * 8 \in {16, 24, 32}
      BY <2>2, ArgPlaces
    <3>2. (n - 4) * 8 \in FrameOffsets(fn) /\ 6 + ((n - 4) * 8 - 16) \div 8 = n
      BY <2>2 DEF FrameOffsets
    <3>3. mach.stack[(n - 4) * 8] = args[n]
      BY <1>5, <3>1, <3>2
    <3> QED BY <3>1, <3>3 DEF Load, InStack
  <2> QED BY <2>1, <2>2
<1>12. ArgsHeld
  <2> SUFFICES ASSUME NEW j \in 1 .. Len(fn.entries), fn.entries[j].type = "param"
               PROVE  fn.entries[j].value \in 0 .. 8
    BY <1>11 DEF ArgsHeld, Called
  <2>1. fn.entries[j].value = j - 1 /\ j <= 9
    BY <1>2 DEF IsCode
  <2> QED BY <2>1
<1>13. FaultsJustified
  BY DEF Called, FaultsJustified
<1> QED BY <1>9, <1>10, <1>12, <1>13 DEF SInv

\* The places do not move while a function runs.
LEMMA SameFunction ==
  ASSUME UNCHANGED fn
  PROVE  /\ Machines' = Machines /\ Vars' = Vars
         /\ \A v : Loc(v)' = Loc(v)
  BY DEF Machines, Vars, Loc, color

\* A step that runs the code m of an entry keeps the types.
LEMMA RunsTyped ==
  ASSUME GInv, At(Kinds \ {"ret"}),
         NEW m \in Machines, NEW x \in Values, NEW safe, Runs(m, x, safe)
  PROVE  /\ GInv'
         /\ env'[Cur.a] = x /\ \A v \in Vars : v # Cur.a => env'[v] = env[v]
         /\ IsCode(fn) /\ ip \in 1 .. Len(fn.entries) /\ Len(fn.entries) \in Nat /\ Cur.a \in Vars
<1>1. /\ mach' = m /\ env' = [env EXCEPT ![Cur.a] = x] /\ ip' = ip + 1
      /\ clean' = (clean /\ WriteSafe(Cur) /\ safe) /\ UNCHANGED <<fn, args, pc, rsp>>
  BY DEF Runs
<1>2. /\ IsCode(fn) /\ ip \in 1 .. Len(fn.entries) /\ Len(fn.entries) \in Nat /\ pc = "run"
      /\ Cur.a \in Vars /\ env \in [Vars -> Values]
  <2>1. IsCode(fn) /\ ip \in 1 .. Len(fn.entries) + 1 /\ ip <= Len(fn.entries) /\ Cur.type # "ret"
        /\ pc = "run" /\ env \in [Vars -> Values]
    BY DEF GInv, At
  <2>3. fn.entries \in Seq(Entry(fn.n_vars))
    BY <2>1 DEF IsCode
  <2>4. ip \in 1 .. Len(fn.entries) /\ Len(fn.entries) \in Nat
    BY <2>1, <2>3
  <2> QED BY <2>1, <2>4, EntryFacts
<1>3. Machines' = Machines /\ Vars' = Vars
  BY <1>1, SameFunction
<1>4. env' \in [Vars -> Values] /\ env'[Cur.a] = x /\ \A v \in Vars : v # Cur.a => env'[v] = env[v]
  BY <1>1, <1>2
<1>5. clean' \in BOOLEAN
  BY <1>1 DEF GInv, WriteSafe
<1>6. GInv'
  BY <1>1, <1>2, <1>3, <1>4, <1>5 DEF GInv, StackSize
<1> QED BY <1>2, <1>4, <1>6

\* Such a step, if it gives the entry's variable the value x, simulates it.
LEMMA RunsKeeps ==
  ASSUME GInv, SInv, At(Kinds \ {"ret"}),
         NEW m \in Machines, NEW x \in Values, NEW safe \in BOOLEAN, Runs(m, x, safe),
         KeepsOthers(mach, m, Cur.a),
         LiveHeld /\ ArgsHeld /\ safe => Load(m, Loc(Cur.a)) = x,
         \A j \in ip + 1 .. Len(fn.entries) :
           safe /\ fn.entries[j].type = "param" =>
             Load(m, ArgLoc(fn.entries[j].value)) = Load(mach, ArgLoc(fn.entries[j].value))
  PROVE  GInv' /\ SInv'
<1>1. /\ mach' = m /\ ip' = ip + 1 /\ pc = "run"
      /\ clean' = (clean /\ WriteSafe(Cur) /\ safe) /\ UNCHANGED <<fn, args, pc, rsp>>
  BY DEF Runs, At
<1>2. IsCode(fn) /\ ip \in 1 .. Len(fn.entries) /\ Len(fn.entries) \in Nat /\ Cur.a \in Vars
  BY RunsTyped
<1>3. \A v : Loc(v)' = Loc(v)
  BY <1>1, SameFunction
<1>4. env'[Cur.a] = x /\ \A v \in Vars : v # Cur.a => env'[v] = env[v]
  BY RunsTyped
<1>6. GInv'
  BY RunsTyped
<1>7. ASSUME clean', ReadsWritten(fn) PROVE LiveHeld'
  <2>1. WriteSafe(Cur) /\ safe /\ clean /\ LiveHeld /\ ArgsHeld
    BY <1>1, <1>2, <1>7 DEF SInv
  <2>2. ASSUME NEW v \in LiveSet(fn, ip + 1) PROVE Load(m, Loc(v)) = env'[v]
    <3>1. CASE v = Cur.a
      BY <1>4, <2>1, <3>1
    <3>2. CASE v # Cur.a
      <4>1. v \in LiveSet(fn, ip) /\ v \in Vars
        BY <1>2, <3>2, StaysLive
      <4>2. color(v) # color(Cur.a)
        BY <2>1, <3>2 DEF WriteSafe
      <4>3. Load(m, Loc(v)) = Load(mach, Loc(v))
        BY <1>2, <4>1, <4>2, OthersKept DEF KeepsOthers
      <4>4. Load(mach, Loc(v)) = env[v]
        BY <2>1, <4>1 DEF LiveHeld, Holds
      <4> QED BY <1>4, <3>2, <4>1, <4>3, <4>4
    <3> QED BY <3>1, <3>2
  <2>3. \A v : Holds(v)' <=> Load(m, Loc(v)) = env'[v]
    BY <1>1, <1>3 DEF Holds
  <2>4. LiveSet(fn, ip)' = LiveSet(fn, ip + 1)
    BY <1>1
  <2>5. ReadsWritten(fn)'
    BY <1>1, <1>7
  <2> QED BY <2>2, <2>3, <2>4, <2>5 DEF LiveHeld
<1>8. ASSUME clean', ReadsWritten(fn) PROVE ArgsHeld'
  <2>1. WriteSafe(Cur) /\ safe /\ ArgsHeld
    BY <1>1, <1>2, <1>8 DEF SInv
  <2>2. ASSUME NEW j \in ip + 1 .. Len(fn.entries), fn.entries[j].type = "param"
        PROVE  Load(m, ArgLoc(fn.entries[j].value)) = args[fn.entries[j].value]
    <3>1. Load(m, ArgLoc(fn.entries[j].value)) = Load(mach, ArgLoc(fn.entries[j].value))
      BY <2>1, <2>2
    <3>2. j \in ip .. Len(fn.entries)
      BY <1>2
    <3> QED BY <2>1, <2>2, <3>1, <3>2 DEF ArgsHeld
  <2> QED BY <1>1, <2>2 DEF ArgsHeld
<1>9. FaultsJustified'
  BY <1>1, <1>2 DEF FaultsJustified
<1> QED BY <1>1, <1>6, <1>7, <1>8, <1>9 DEF SInv

\* The entry that is next, with the values of its operands
LEMMA AtEntry ==
  ASSUME GInv, pc = "run", ip <= Len(fn.entries)
  PROVE  /\ IsCode(fn) /\ ip \in 1 .. Len(fn.entries) /\ mach \in Machines /\ env \in [Vars -> Values]
         /\ \A v \in Vars : v \in Reads(Cur) /\ LiveHeld => Load(mach, Loc(v)) = env[v]
<1>1. IsCode(fn) /\ mach \in Machines /\ env \in [Vars -> Values]
  BY DEF GInv
<1>2. ip \in 1 .. Len(fn.entries)
  <2>1. fn.entries \in Seq(Entry(fn.n_vars))
    BY <1>1 DEF IsCode
  <2> QED BY <2>1 DEF GInv
<1>3. ASSUME NEW v \in Vars, v \in Reads(Cur), LiveHeld PROVE Load(mach, Loc(v)) = env[v]
  BY <1>1, <1>2, <1>3, ReadsLive DEF LiveHeld, Holds
<1> QED BY <1>1, <1>2, <1>3

\* The operands of an operation
LEMMA Operate ==
  ASSUME GInv, At({"add", "sub", "mul", "div"})
  PROVE  /\ Cur.a \in Vars /\ Cur.b \in Vars /\ Cur.c \in Vars
         /\ env[Cur.b] \in Values /\ env[Cur.c] \in Values
         /\ LiveHeld => Load(mach, Loc(Cur.b)) = env[Cur.b] /\ Load(mach, Loc(Cur.c)) = env[Cur.c]
         /\ \A j \in ip + 1 .. Len(fn.entries) : fn.entries[j].type # "param"
<1>1. pc = "run" /\ ip <= Len(fn.entries) /\ Cur.type \in {"add", "sub", "mul", "div"}
  BY DEF At
<1>2. IsCode(fn) /\ ip \in 1 .. Len(fn.entries) /\ env \in [Vars -> Values]
  BY <1>1, AtEntry
<1>3. Cur.a \in Vars /\ Cur.b \in Vars /\ Cur.c \in Vars
  BY <1>1, <1>2, EntryFacts
<1>4. \A j \in ip + 1 .. Len(fn.entries) : fn.entries[j].type # "param"
  BY <1>1, <1>2, EntryFacts
<1>5. Cur.b \in Reads(Cur) /\ Cur.c \in Reads(Cur)
  BY <1>3 DEF Reads, Vars, Ids
<1>6. LiveHeld => Load(mach, Loc(Cur.b)) = env[Cur.b] /\ Load(mach, Loc(Cur.c)) = env[Cur.c]
  BY <1>1, <1>3, <1>5, AtEntry
<1> QED BY <1>2, <1>3, <1>4, <1>6

LEMMA OpAssignKeeps ==
  ASSUME GInv, SInv, OpAssign
  PROVE  GInv' /\ SInv'
<1>1. At({"assign"}) /\ Runs(op_assign(mach, Cur), Cur.value, TRUE) /\ pc = "run" /\ ip <= Len(fn.entries)
      /\ Cur.type = "assign"
  BY DEF OpAssign, At
<1>2. IsCode(fn) /\ mach \in Machines /\ ip \in 1 .. Len(fn.entries)
  BY <1>1, AtEntry
<1>3. Cur.a \in Vars /\ Cur.value \in Values /\ \A j \in ip + 1 .. Len(fn.entries) : fn.entries[j].type # "param"
  BY <1>1, <1>2, EntryFacts
<1>4. At(Kinds \ {"ret"})
  BY <1>1 DEF At, Kinds
<1>5. /\ op_assign(mach, Cur) \in Machines /\ Load(op_assign(mach, Cur), Loc(Cur.a)) = Cur.value
      /\ KeepsOthers(mach, op_assign(mach, Cur), Cur.a)
  BY <1>2, <1>3, AssignRuns
<1> QED BY <1>1, <1>3, <1>4, <1>5, RunsKeeps

LEMMA OpParamKeeps ==
  ASSUME GInv, SInv, OpParam
  PROVE  GInv' /\ SInv'
<1> DEFINE m == op_param(mach, Cur)
           x == args[Cur.value]
<1>1. Runs(m, x, ParamSafe(Cur)) /\ pc = "run" /\ ip <= Len(fn.entries) /\ Cur.type = "param"
  BY DEF OpParam, At
<1>2. IsCode(fn) /\ mach \in Machines /\ ip \in 1 .. Len(fn.entries)
  BY <1>1, AtEntry
<1>3. Cur.a \in Vars /\ Cur.value \in 0 .. 8 /\ Cur.value = ip - 1
      /\ \A j \in ip + 1 .. Len(fn.entries) :
           fn.entries[j].type = "param" => fn.entries[j].value = j - 1 /\ fn.entries[j].value \in 0 .. 8
  BY <1>1, <1>2, EntryFacts
<1>4. At(Kinds \ {"ret"})
  BY <1>1 DEF At, Kinds
<1>5. /\ m \in Machines /\ Load(m, Loc(Cur.a)) = Load(mach, ArgLoc(Cur.value))
      /\ KeepsOthers(mach, m, Cur.a)
      /\ \A n \in 0 .. 8 :
           n > Cur.value /\ ArgLoc(n) # Loc(Cur.a) => Load(m, ArgLoc(n)) = Load(mach, ArgLoc(n))
  BY <1>2, <1>3, ParamRuns
<1>6. x \in Values
  BY <1>3, ArgumentsAssumption DEF GInv
<1>7. ArgsHeld => Load(mach, ArgLoc(Cur.value)) = x
  <2>1. ip \in ip .. Len(fn.entries)
    BY <1>2
  <2> QED BY <1>1, <2>1 DEF ArgsHeld, Cur
<1>8. ASSUME ParamSafe(Cur), NEW j \in ip + 1 .. Len(fn.entries), fn.entries[j].type = "param"
      PROVE  Load(m, ArgLoc(fn.entries[j].value)) = Load(mach, ArgLoc(fn.entries[j].value))
  <2>1. ArgLoc(fn.entries[j].value) # Loc(Cur.a)
    BY <1>8 DEF ParamSafe
  <2>2. fn.entries[j].value \in 0 .. 8 /\ fn.entries[j].value > Cur.value
    BY <1>2, <1>3, <1>8
  <2> QED BY <1>5, <2>1, <2>2
<1>9. ParamSafe(Cur) \in BOOLEAN
  BY DEF ParamSafe
<1> HIDE DEF m, x
<1> QED BY <1>1, <1>4, <1>5, <1>6, <1>7, <1>8, <1>9, RunsKeeps

LEMMA ArithmeticKeeps ==
  ASSUME GInv, SInv, OpAdd \/ OpSub \/ OpMul
  PROVE  GInv' /\ SInv'
<1>1. /\ pc = "run" /\ ip <= Len(fn.entries) /\ Cur.type \in {"add", "sub", "mul"}
      /\ At({"add", "sub", "mul", "div"}) /\ At(Kinds \ {"ret"})
  BY DEF OpAdd, OpSub, OpMul, At, Kinds
<1>2. IsCode(fn) /\ mach \in Machines
  BY <1>1, AtEntry
<1>3. /\ Cur.a \in Vars /\ Cur.b \in Vars /\ Cur.c \in Vars
      /\ LiveHeld => Load(mach, Loc(Cur.b)) = env[Cur.b] /\ Load(mach, Loc(Cur.c)) = env[Cur.c]
      /\ \A j \in ip + 1 .. Len(fn.entries) : fn.entries[j].type # "param"
  BY <1>1, Operate
<1>4. Expected \in Values
  <2>1. env[Cur.b] \in Values /\ env[Cur.c] \in Values /\ Cur.type \in TwoOperand /\ Cur.type # "mov"
    BY <1>1, Operate DEF TwoOperand
  <2> QED BY <2>1, ResultTyped DEF Result, Expected
<1>5. CASE OpAdd \/ OpSub
  <2>1. PICK safe \in BOOLEAN : /\ Runs(op_addsub(mach, Cur), Expected, safe)
                                /\ Cur.type \in {"add", "sub"}
                                /\ safe => Cur.type = "add" \/ SubSafe(Cur)
    <3>1. CASE OpAdd
      BY <3>1 DEF OpAdd, At
    <3>2. CASE OpSub
      <4>1. SubSafe(Cur) \in BOOLEAN
        BY DEF SubSafe, IsLeft, IsRight
      <4> QED BY <3>2, <4>1 DEF OpSub, At
    <3> QED BY <1>5, <3>1, <3>2
  <2>2. /\ op_addsub(mach, Cur) \in Machines /\ KeepsOthers(mach, op_addsub(mach, Cur), Cur.a)
        /\ safe => Load(op_addsub(mach, Cur), Loc(Cur.a))
                     = Meaning(Cur.type, Load(mach, Loc(Cur.b)), Load(mach, Loc(Cur.c)))
    BY <1>2, <1>3, <2>1, AddSubRuns
  <2>3. LiveHeld /\ ArgsHeld /\ safe => Load(op_addsub(mach, Cur), Loc(Cur.a)) = Expected
    BY <1>3, <2>2 DEF Expected
  <2> QED BY <1>1, <1>3, <1>4, <2>1, <2>2, <2>3, RunsKeeps
<1>6. CASE OpMul
  <2>1. Runs(op_mul(mach, Cur), Expected, MulSafe(Cur)) /\ Cur.type = "mul"
    BY <1>6 DEF OpMul, At
  <2>2. /\ op_mul(mach, Cur) \in Machines /\ KeepsOthers(mach, op_mul(mach, Cur), Cur.a)
        /\ MulSafe(Cur) => Load(op_mul(mach, Cur), Loc(Cur.a))
                             = Meaning("mul", Load(mach, Loc(Cur.b)), Load(mach, Loc(Cur.c)))
    BY <1>2, <1>3, MulRuns
  <2>3. LiveHeld /\ ArgsHeld /\ MulSafe(Cur) => Load(op_mul(mach, Cur), Loc(Cur.a)) = Expected
    BY <1>3, <2>1, <2>2 DEF Expected
  <2>4. MulSafe(Cur) \in BOOLEAN
    BY DEF MulSafe, IsLeft, IsRight
  <2> QED BY <1>1, <1>3, <1>4, <2>1, <2>2, <2>3, <2>4, RunsKeeps
<1> QED BY <1>5, <1>6

\* The divisions of the machine and of the entry
LEMMA Divides ==
  ASSUME GInv, SInv, ReadsWritten(fn), At({"div"})
  PROVE  clean /\ DivSafe(Cur) =>
           /\ Load(mach, Loc(Cur.b)) = Signed(env[Cur.b]) /\ Load(mach, Loc(Cur.c)) = env[Cur.c]
           /\ IdivTraps(mach, Cur) <=> NoQuotient(Signed(env[Cur.b]), Signed(env[Cur.c]))
<1> SUFFICES ASSUME clean, DivSafe(Cur)
             PROVE  /\ Load(mach, Loc(Cur.b)) = Signed(env[Cur.b]) /\ Load(mach, Loc(Cur.c)) = env[Cur.c]
                    /\ IdivTraps(mach, Cur) <=> NoQuotient(Signed(env[Cur.b]), Signed(env[Cur.c]))
  OBVIOUS
<1>1. At({"add", "sub", "mul", "div"}) /\ pc = "run" /\ ip <= Len(fn.entries)
  BY DEF At
<1>2. IsCode(fn) /\ mach \in Machines /\ LiveHeld
  BY <1>1, AtEntry DEF SInv
<1>3. /\ Cur.a \in Vars /\ Cur.b \in Vars /\ Cur.c \in Vars
      /\ Load(mach, Loc(Cur.b)) = env[Cur.b] /\ Load(mach, Loc(Cur.c)) = env[Cur.c]
  BY <1>1, <1>2, Operate
<1>4. Signed(env[Cur.b]) = env[Cur.b]
  BY DEF DivSafe, Signed
<1>5. IdivTraps(mach, Cur) <=> NoQuotient(Load(mach, Loc(Cur.b)), Signed(Load(mach, Loc(Cur.c))))
  BY <1>2, <1>3, DivRuns
<1> QED BY <1>3, <1>4, <1>5

LEMMA OpDivKeeps ==
  ASSUME GInv, SInv, OpDiv
  PROVE  GInv' /\ SInv'
<1>1. /\ pc = "run" /\ ip <= Len(fn.entries) /\ Cur.type = "div"
      /\ At({"div"}) /\ At({"add", "sub", "mul", "div"}) /\ At(Kinds \ {"ret"})
      /\ ~IdivTraps(mach, Cur) /\ ~NoQuotient(Signed(env[Cur.b]), Signed(env[Cur.c]))
      /\ Runs(op_div(mach, Cur), Expected, DivSafe(Cur))
  BY DEF OpDiv, At, Kinds
<1>2. IsCode(fn) /\ mach \in Machines
  BY <1>1, AtEntry
<1>3. /\ Cur.a \in Vars /\ Cur.b \in Vars /\ Cur.c \in Vars
      /\ \A j \in ip + 1 .. Len(fn.entries) : fn.entries[j].type # "param"
  BY <1>1, Operate
<1>4. Expected = Quotient(Signed(env[Cur.b]), Signed(env[Cur.c])) % Word
  BY <1>1 DEF Expected, Meaning
<1>5. Expected \in Values
  <2>1. Quotient(Signed(env[Cur.b]), Signed(env[Cur.c])) \in Int
    BY <1>1 DEF NoQuotient
  <2> QED BY <1>4, <2>1, WordFacts
<1>6. /\ op_div(mach, Cur) \in Machines /\ KeepsOthers(mach, op_div(mach, Cur), Cur.a)
      /\ Load(op_div(mach, Cur), Loc(Cur.a)) =
           Quotient(Load(mach, Loc(Cur.b)), Signed(Load(mach, Loc(Cur.c)))) % Word
  BY <1>1, <1>2, <1>3, DivRuns
<1>7. ReadsWritten(fn) /\ clean /\ DivSafe(Cur) => Load(op_div(mach, Cur), Loc(Cur.a)) = Expected
  BY <1>1, <1>4, <1>6, Divides
<1>8. DivSafe(Cur) \in BOOLEAN
  BY DEF DivSafe
<1>9. CASE clean
  <2>1. LiveHeld => ReadsWritten(fn)
    BY DEF LiveHeld
  <2> QED BY <1>1, <1>3, <1>5, <1>6, <1>7, <1>8, <1>9, <2>1, RunsKeeps
<1>10. CASE ~clean
  <2>1. GInv'
    BY <1>1, <1>3, <1>5, <1>6, RunsTyped
  <2>2. ~clean' /\ pc' = "run"
    BY <1>1, <1>10 DEF Runs
  <2> QED BY <2>1, <2>2 DEF SInv, FaultsJustified
<1> QED BY <1>9, <1>10 DEF GInv

LEMMA DivTrapKeeps ==
  ASSUME GInv, SInv, DivTrap
  PROVE  GInv' /\ SInv'
<1>1. /\ At({"div"}) /\ pc = "run"
      /\ IdivTraps(mach, Cur) \/ NoQuotient(Signed(env[Cur.b]), Signed(env[Cur.c]))
      /\ pc' = IF IdivTraps(mach, Cur) THEN "trapped" ELSE "undefined"
      /\ clean' = (clean /\ DivSafe(Cur)) /\ UNCHANGED <<fn, args, ip, rsp, mach, env>>
  BY DEF DivTrap, At
<1>2. GInv'
  BY <1>1, SameFunction DEF GInv, DivSafe
<1>3. ReadsWritten(fn) => FaultsJustified'
  BY <1>1, Divides DEF FaultsJustified, Cur
<1> QED BY <1>1, <1>2, <1>3 DEF SInv

LEMMA NoEpilogueKeeps ==
  ASSUME GInv, SInv, NoEpilogue
  PROVE  GInv' /\ SInv'
<1>1. /\ pc' = "undefined" /\ clean' = FALSE /\ UNCHANGED <<fn, args, ip, rsp, mach, env>>
  BY DEF NoEpilogue
<1>2. GInv'
  BY <1>1, SameFunction DEF GInv
<1> QED BY <1>1, <1>2 DEF SInv, FaultsJustified

LEMMA FrameKeeps ==
  ASSUME GInv, SInv, Prologue \/ OpRet \/ ImplicitReturn
  PROVE  GInv' /\ SInv'
<1>1. UNCHANGED <<fn, args, ip, env, clean>>
  BY DEF Prologue, OpRet, ImplicitReturn
<1>2. Machines' = Machines /\ Vars' = Vars /\ \A v : Loc(v)' = Loc(v)
  BY <1>1, SameFunction
<1>3. CASE Prologue
  <2>1. pc = "entry" /\ pc' = "run" /\ rsp' = 0 - Subtracted(StackSize(fn)) /\ mach' = mach
    BY <1>3 DEF Prologue
  <2>2. rsp' \in Int
    BY <2>1, Placed DEF GInv, Subtracted, StackSize
  <2>3. GInv'
    BY <1>1, <1>2, <2>1, <2>2 DEF GInv, StackSize
  <2>4. LiveHeld => LiveHeld'
    BY <1>1, <1>2, <2>1 DEF LiveHeld, Holds
  <2>5. ArgsHeld => ArgsHeld'
    BY <1>1, <2>1 DEF ArgsHeld
  <2> QED BY <1>1, <2>1, <2>3, <2>4, <2>5 DEF SInv, FaultsJustified
<1>4. CASE OpRet \/ ImplicitReturn
  <2>1. pc = "run" /\ pc' = "returned" /\ rsp' = rsp
    BY <1>4 DEF OpRet, ImplicitReturn, At
  <2>2. mach' \in Machines
    <3>1. CASE OpRet
      <4>1. ip <= Len(fn.entries) /\ Cur.type = "ret" /\ mach' = op_ret(mach, Cur)
        BY <3>1 DEF OpRet, At
      <4>2. IsCode(fn) /\ mach \in Machines /\ ip \in 1 .. Len(fn.entries)
        BY <2>1, <4>1, AtEntry
      <4>3. Cur.b \in Vars
        BY <4>1, <4>2, EntryFacts
      <4> QED BY <4>1, <4>2, <4>3, RetRuns
    <3>2. CASE ImplicitReturn
      BY <3>2 DEF ImplicitReturn, GInv
    <3> QED BY <1>4, <3>1, <3>2
  <2>3. GInv'
    BY <1>1, <1>2, <2>1, <2>2 DEF GInv
  <2> QED BY <2>1, <2>3 DEF SInv, FaultsJustified
<1> QED BY <1>3, <1>4

\* What a function returns
LEMMA RetReturns ==
  ASSUME GInv, SInv, ReadsWritten(fn), clean, OpRet
  PROVE  Cur.b \in Vars /\ mach'.reg[eax] = env[Cur.b]
<1>1. pc = "run" /\ ip <= Len(fn.entries) /\ Cur.type = "ret" /\ mach' = op_ret(mach, Cur)
  BY DEF OpRet, At
<1>2. /\ IsCode(fn) /\ ip \in 1 .. Len(fn.entries) /\ mach \in Machines
      /\ \A v \in Vars : v \in Reads(Cur) /\ LiveHeld => Load(mach, Loc(v)) = env[v]
  BY <1>1, AtEntry
<1>3. Cur.b \in Vars /\ Cur.b # -1
  <2>1. Shaped(Cur)
    BY <1>2 DEF IsCode, Cur
  <2>2. Cur.b # -1
    BY <1>1, <2>1 DEF Shaped
  <2> QED BY <1>1, <1>2, <2>2, EntryFacts
<1>4. LiveHeld /\ Cur.b \in Reads(Cur)
  BY <1>1, <1>3 DEF SInv, Reads
<1>5. Load(mach', InReg(eax)) = Load(mach, Loc(Cur.b))
  BY <1>1, <1>2, <1>3, RetRuns
<1>6. Load(mach, Loc(Cur.b)) = env[Cur.b]
  BY <1>2, <1>3, <1>4
<1>7. Load(mach', InReg(eax)) = mach'.reg[eax]
  BY DEF Load, InReg
<1> QED BY <1>3, <1>5, <1>6, <1>7

LEMMA NextKeeps ==
  GInv /\ SInv /\ [Next]_vars => GInv' /\ SInv'
<1> SUFFICES ASSUME GInv, SInv, [Next]_vars PROVE GInv' /\ SInv'
  OBVIOUS
<1>1. CASE UNCHANGED vars
  <2>1. UNCHANGED <<fn, args, pc, ip, rsp, mach, env, clean>>
    BY <1>1 DEF vars
  <2>2. Machines' = Machines /\ Vars' = Vars /\ \A v : Loc(v)' = Loc(v)
    BY <2>1, SameFunction
  <2>3. GInv'
    BY <2>1, <2>2 DEF GInv, StackSize
  <2>4. LiveHeld => LiveHeld'
    BY <2>1, <2>2 DEF LiveHeld, Holds
  <2>5. ArgsHeld => ArgsHeld'
    BY <2>1 DEF ArgsHeld
  <2> QED BY <2>1, <2>3, <2>4, <2>5 DEF SInv, FaultsJustified, Cur
<1>2. CASE Prologue \/ OpRet \/ ImplicitReturn
  BY <1>2, FrameKeeps
<1>3. CASE OpAssign
  BY <1>3, OpAssignKeeps
<1>4. CASE OpParam
  BY <1>4, OpParamKeeps
<1>5. CASE OpAdd \/ OpSub \/ OpMul
  BY <1>5, ArithmeticKeeps
<1>6. CASE OpDiv
  BY <1>6, OpDivKeeps
<1>7. CASE DivTrap
  BY <1>7, DivTrapKeeps
<1>8. CASE NoEpilogue
  BY <1>8, NoEpilogueKeeps
<1> QED BY <1>1, <1>2, <1>3, <1>4, <1>5, <1>6, <1>7, <1>8 DEF Next

\* No step changes the function or what it was called with.
LEMMA FunctionKept ==
  ASSUME [Next]_vars
  PROVE  fn' = fn /\ args' = args
BY DEF Next, Prologue, OpAssign, OpParam, OpAdd, OpSub, OpMul, OpDiv, DivTrap, OpRet, ImplicitReturn,
  NoEpilogue, Runs, vars

LEMMA Invariance ==
  Spec => [](GInv /\ SInv /\ ReadsWritten(fn))
<1>1. Init => GInv /\ SInv /\ ReadsWritten(fn)
  <2>1. Init => Called /\ ReadsWritten(fn)
    BY InputsAssumption DEF Init, Called, IsInput
  <2> QED BY <2>1, CallHolds
<1>2. GInv /\ SInv /\ ReadsWritten(fn) /\ [Next]_vars => (GInv /\ SInv /\ ReadsWritten(fn))'
  BY NextKeeps, FunctionKept
<1> QED BY <1>1, <1>2, PTL DEF Spec

-----------------------------------------------------------------------------
(***************************************************************************)
(* What the caller keeps.                                                  *)
(***************************************************************************)
CallerRegisters == Registers \ (Members(fn.regs) \cup {fn.temp, eax, edx})

CallerPlaces ==
  {InReg(r) : r \in CallerRegisters} \cup {InStack(o) : o \in {o \in FrameOffsets(fn) : o >= 0}}

\* No handler writes such a place.
LEMMA CallersKept ==
  ASSUME IsCode(fn), NEW q \in CallerPlaces
  PROVE  q \in Places /\ q # InReg(eax) /\ \A v \in Vars : Kept(v, q)
<1>1. CASE \E r \in CallerRegisters : q = InReg(r)
  <2>1. PICK r \in CallerRegisters : q = InReg(r)
    BY <1>1
  <2>2. r \in Registers /\ r \notin Members(fn.regs) /\ r # fn.temp /\ r # eax /\ r # edx
    BY DEF CallerRegisters
  <2>3. q # InReg(eax) /\ q # InReg(edx) /\ q # LoadStore /\ q.type = "reg" /\ q.i = r
    BY <2>1, <2>2 DEF InReg, LoadStore
  <2>4. ASSUME NEW v \in Vars PROVE q # Loc(v)
    <3>1. CASE color(v) >= 0
      BY <2>2, <2>3, <3>1, VariablePlaces
    <3>2. CASE color(v) < 0
      BY <2>3, <3>2, VariablePlaces
    <3> QED BY <3>1, <3>2, Placed
  <2> QED BY <2>1, <2>2, <2>3, <2>4 DEF Kept, Places
<1>2. CASE \E o \in FrameOffsets(fn) : o >= 0 /\ q = InStack(o)
  <2>1. PICK o \in FrameOffsets(fn) : o >= 0 /\ q = InStack(o)
    BY <1>2
  <2>2. q # InReg(eax) /\ q # InReg(edx) /\ q # LoadStore /\ q.type = "stack" /\ q.i = o
    BY <2>1 DEF InReg, InStack, LoadStore
  <2>3. ASSUME NEW v \in Vars PROVE q # Loc(v)
    <3>1. CASE color(v) >= 0
      BY <2>2, <3>1, VariablePlaces
    <3>2. CASE color(v) < 0
      <4>1. Loc(v).i = color(v) * 4 /\ color(v) \in Int
        BY <3>2, VariablePlaces, Placed DEF InStack
      <4>2. color(v) * 4 < 0
        BY <3>2, <4>1
      <4> QED BY <2>1, <2>2, <4>1, <4>2
    <3> QED BY <3>1, <3>2, Placed
  <2> QED BY <2>1, <2>2, <2>3 DEF Kept, Places
<1> QED BY <1>1, <1>2 DEF CallerPlaces

\* Every step leaves them alone.
LEMMA StepsKeepCallers ==
  ASSUME GInv, [Next]_vars
  PROVE  IsCode(fn) /\ \A q \in CallerPlaces : Load(mach', q) = Load(mach, q)
<1>1. IsCode(fn) /\ mach \in Machines
  BY DEF GInv
<1>2. CASE mach' = mach
  BY <1>1, <1>2
<1>3. CASE \E v \in Vars : KeepsOthers(mach, mach', v)
  BY <1>1, <1>3, CallersKept DEF KeepsOthers
<1>4. ASSUME At(Kinds \ {"ret"}) PROVE ip \in 1 .. Len(fn.entries) /\ Cur.a \in Vars /\ pc = "run"
  <2>1. pc = "run" /\ ip <= Len(fn.entries) /\ Cur.type # "ret"
    BY <1>4 DEF At
  <2> QED BY <1>1, <2>1, AtEntry, EntryFacts
<1>5. CASE OpAssign
  <2>1. At(Kinds \ {"ret"}) /\ Cur.type = "assign" /\ mach' = op_assign(mach, Cur)
    BY <1>5 DEF OpAssign, At, Kinds, Runs
  <2>2. Cur.a \in Vars /\ Cur.value \in Values
    BY <1>1, <1>4, <2>1, EntryFacts
  <2> QED BY <1>1, <1>3, <2>1, <2>2, AssignRuns
<1>6. CASE OpParam
  <2>1. At(Kinds \ {"ret"}) /\ Cur.type = "param" /\ mach' = op_param(mach, Cur)
    BY <1>6 DEF OpParam, At, Kinds, Runs
  <2>2. Cur.a \in Vars /\ Cur.value \in 0 .. 8
    BY <1>1, <1>4, <2>1, EntryFacts
  <2> QED BY <1>1, <1>3, <2>1, <2>2, ParamRuns
<1>7. CASE OpAdd \/ OpSub \/ OpMul
  <2>1. At({"add", "sub", "mul", "div"})
    BY <1>7 DEF OpAdd, OpSub, OpMul, At
  <2>2. Cur.a \in Vars /\ Cur.b \in Vars /\ Cur.c \in Vars
    BY <2>1, Operate
  <2>3. \/ Cur.type \in {"add", "sub"} /\ mach' = op_addsub(mach, Cur)
        \/ mach' = op_mul(mach, Cur)
    BY <1>7 DEF OpAdd, OpSub, OpMul, At, Runs
  <2> QED BY <1>1, <1>3, <2>2, <2>3, AddSubRuns, MulRuns
<1>8. CASE OpDiv
  <2>1. At({"add", "sub", "mul", "div"}) /\ ~IdivTraps(mach, Cur) /\ mach' = op_div(mach, Cur)
    BY <1>8 DEF OpDiv, At, Runs
  <2>2. Cur.a \in Vars /\ Cur.b \in Vars /\ Cur.c \in Vars
    BY <2>1, Operate
  <2> QED BY <1>1, <1>3, <2>1, <2>2, DivRuns
<1>9. CASE OpRet
  <2>1. pc = "run" /\ ip <= Len(fn.entries) /\ Cur.type = "ret" /\ mach' = op_ret(mach, Cur)
    BY <1>9 DEF OpRet, At
  <2>2. Cur.b \in Vars
    BY <1>1, <2>1, AtEntry, EntryFacts
  <2> QED BY <1>1, <2>1, <2>2, RetRuns, CallersKept
<1>10. CASE Prologue \/ DivTrap \/ ImplicitReturn \/ NoEpilogue \/ UNCHANGED vars
  BY <1>2, <1>10 DEF Prologue, DivTrap, ImplicitReturn, NoEpilogue, vars
<1> QED BY <1>5, <1>6, <1>7, <1>8, <1>9, <1>10 DEF Next

-----------------------------------------------------------------------------
(***************************************************************************)
(* The theorems.                                                           *)
(***************************************************************************)

\* The generated code keeps machine words in registers and slots: no handler
\* reads or writes outside the frame, whatever the assignment.
THEOREM MachineTyped == Spec => []TypeOK
<1>1. GInv => TypeOK
  BY DEF GInv, TypeOK, Machines, Vars
<1> QED BY <1>1, Invariance, PTL

\* The code of the entries simulates them: unless an entry met one of the
\* listed hazards, every variable that is still to be read has its value in
\* the place that was assigned to it.
THEOREM CodeSimulates == Spec => []Simulates
<1>1. SInv /\ ReadsWritten(fn) => Simulates
  BY DEF SInv, Simulates, LiveHeld
<1> QED BY <1>1, Invariance, PTL

\* idiv raises a fault exactly where the division of the entry has no value.
THEOREM FaultsAreJustified == Spec => []FaultsJustified
<1>1. SInv /\ ReadsWritten(fn) => FaultsJustified
  BY DEF SInv
<1> QED BY <1>1, Invariance, PTL

\* prologue() takes off enough for every slot, but for the sizes of which
\* the byte form of sub makes a negative number.
THEOREM SlotsAboveStackPointer == Spec => []FrameHeld
<1>1. ASSUME GInv PROVE FrameHeld
  <2>1. IsCode(fn) /\ (pc = "run" => rsp = 0 - Subtracted(StackSize(fn)))
    BY <1>1 DEF GInv
  <2>2. ASSUME pc = "run", StackSize(fn) \notin 128 .. 255, NEW v \in Ids(fn.n_vars), color(v) < 0
        PROVE  get_stack_var_pos(color(v)) >= rsp
    <3>1. fn.n_spills \in Nat /\ color(v) \in Int /\ color(v) >= 0 - fn.n_spills
      BY <2>1, Placed DEF Vars
    <3>2. rsp = 0 - fn.n_spills * 4
      BY <2>1, <2>2, <3>1 DEF Subtracted, StackSize
    <3> QED BY <3>1, <3>2 DEF get_stack_var_pos
  <2> QED BY <2>2 DEF FrameHeld
<1> QED BY <1>1, Invariance, PTL

\* No step of the generated code writes what the caller keeps: saved rbp, the
\* return address, stacked arguments and the registers it does not use.
THEOREM CallerIsKept == Spec => CallerKeeps
<1> DEFINE A == /\ \A o \in FrameOffsets(fn) : o >= 0 => mach'.stack[o] = mach.stack[o]
                /\ \A r \in Registers \ (Members(fn.regs) \cup {fn.temp, eax, edx}) :
                     mach'.reg[r] = mach.reg[r]
<1>1. ASSUME GInv, [Next]_vars PROVE A
  <2>1. ASSUME NEW o \in FrameOffsets(fn), o >= 0 PROVE mach'.stack[o] = mach.stack[o]
    <3>1. InStack(o) \in CallerPlaces
      BY <2>1 DEF CallerPlaces
    <3>2. Load(mach', InStack(o)) = Load(mach, InStack(o))
      BY <1>1, <3>1, StepsKeepCallers
    <3> QED BY <3>2 DEF Load, InStack
  <2>2. ASSUME NEW r \in Registers \ (Members(fn.regs) \cup {fn.temp, eax, edx})
        PROVE  mach'.reg[r] = mach.reg[r]
    <3>1. InReg(r) \in CallerPlaces
      BY DEF CallerPlaces, CallerRegisters
    <3>2. Load(mach', InReg(r)) = Load(mach, InReg(r))
      BY <1>1, <3>1, StepsKeepCallers
    <3> QED BY <3>2 DEF Load, InReg
  <2> QED BY <2>1, <2>2
<1>2. GInv /\ [Next]_vars => [A]_vars
  BY <1>1
<1> HIDE DEF A
<1>3. Spec => [][A]_vars
  BY <1>2, Invariance, PTL DEF Spec
<1> QED BY <1>3 DEF CallerKeeps, A
=============================================================================
