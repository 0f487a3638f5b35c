----------------------------- MODULE X64Encode -----------------------------
(***************************************************************************)
(* x64_instruction and the instruction templates built on it               *)
(* (arch/x64/x64instruction.h): a constructor encodes its operands, and    *)
(* emit_to() writes the bytes.  Next to it, how the processor reads them.  *)
(* A byte is a record of its fields; opcodes are named by what they do.    *)
(***************************************************************************)
EXTENDS Integers, Sequences

CONSTANT Operations  \* instructions with their operands, see Meant

VARIABLES
  op,    \* the instruction
  inst,  \* the x64_instruction: [opcode, modrm, sib, imm], Thrown or NotBuilt
  code   \* what emit_to() wrote

vars == <<op, inst, code>>

NotBuilt == [opcode |-> <<>>, modrm |-> <<>>, sib |-> <<>>, imm |-> <<>>]
Thrown == [NotBuilt EXCEPT !.opcode = <<[b |-> "none"]>>]

\* Registers: x64_reg64, 32, 16, 8 and 8h.
Reg(class, n) == [class |-> class, value |-> n]
SizeOf == [r64 |-> 8, r32 |-> 4, r16 |-> 2, r8 |-> 1, r8h |-> 1]
Normal == {"r64", "r32", "r16"}

None == -1
Op(what, byte, low) == <<[b |-> "op", what |-> what, byte |-> byte, low |-> low]>>
Opcode(what) == Op(what, FALSE, 0)

\* Of the numbers, those of n bytes: High stands for the unsigned one that has
\* the bytes of Negative.
Negative == -3
High == 253
Written(x) == IF x = High THEN Negative ELSE x
Imm(x, size) == [k \in 1 .. size |-> [b |-> "imm", num |-> Written(x), k |-> k]]

If(condition, bytes) == IF condition THEN bytes ELSE <<>>
Flag(condition, f) == IF condition THEN {f} ELSE {}
-----------------------------------------------------------------------------
(***************************************************************************)
(* Variants of the definitions below, each with one plausible slip.        *)
(***************************************************************************)
FromTheEighth(reg) == reg.class = "r8" /\ reg.value >= 8
SizeWithoutSib(i) == Len(i.opcode) + Len(i.modrm) + Len(i.imm)
AnyRegister(dst, src) == "r8h" \in {dst.class, src.class}
NotMasked(rm, reg, mod) == <<[b |-> "modrm", rm |-> rm, reg |-> reg, mod |-> mod]>>
-----------------------------------------------------------------------------
\* x64_modrm and x64_sib
ModRM(rm, reg, mod) == <<[b |-> "modrm", rm |-> rm % 8, reg |-> reg % 8, mod |-> mod]>>
SIB(base, index, scale) ==
  <<[b |-> "sib", base |-> base % 8, index |-> index % 8, scale |-> scale]>>

\* add_rex(): spl, bpl, sil, dil and up need the prefix.
add_rex(reg) == reg.class = "r8" /\ reg.value >= 4
is_extended(reg) == reg.value >= 8

\* shift()
Code(reg) == IF reg.class = "r8h" THEN Reg("r8h", reg.value + 4) ELSE reg

\* x64_add_rex(a, c, b, oper_size): a is the base or the r/m register, c the
\* index, b the reg field.
x64_add_rex(a, c, b, oper_size) ==
  LET bits == Flag(is_extended(a), "b") \cup Flag(is_extended(b), "r")
              \cup Flag(is_extended(c), "x") \cup Flag(oper_size = 8, "w")
  IN  If(bits # {} \/ \E reg \in {a, b, c} : add_rex(reg), <<[b |-> "rex", bits |-> bits]>>)

Zero(reg) == Reg(reg.class, 0)

add_prefixes(a, b) ==
  If(SizeOf[a.class] = 2, <<[b |-> "66"]>>) \o x64_add_rex(a, Zero(a), b, SizeOf[a.class])

\* rbp and r13 are not encoded without an offset.
NeedsOffset(base) == base \in {5, 13}

\* rsp and r12 are not encoded without a SIB byte.
NeedsSib(base) == base \in {4, 12}

\* An x64_address: [size, base, index, scale, offset, offset_size].
Offset(address) ==
  IF address.offset_size > 0 THEN Imm(address.offset, address.offset_size)
  ELSE If(NeedsOffset(address.base), Imm(0, 1))

ModOf(offset) == IF Len(offset) = 0 THEN 0 ELSE IF Len(offset) = 1 THEN 1 ELSE 2

\* The stack pointer is not an index.
Refused(address) == address.index = 4

set_x64_reg_address(reg, address, oc) ==
  LET mod == ModOf(Offset(address)) IN
  IF Refused(address) THEN Thrown
  ELSE [opcode |-> If(address.size = 4, <<[b |-> "67"]>>)
                   \o If(SizeOf[reg.class] = 2, <<[b |-> "66"]>>)
                   \o x64_add_rex(Reg("r64", address.base), Reg("r64", address.index), reg,
                                  SizeOf[reg.class])
                   \o oc,
        modrm |-> IF address.index # None THEN ModRM(4, reg.value, mod)
                  ELSE ModRM(address.base, reg.value, mod),
        sib |-> IF address.index # None THEN SIB(address.base, address.index, address.scale)
                ELSE If(NeedsSib(address.base), SIB(4, 4, 0)),
        imm |-> Offset(address)]

Direct(opcode, modrm, imm) == [opcode |-> opcode, modrm |-> modrm, sib |-> <<>>, imm |-> imm]

\* reg_reg(a, b)
reg_reg(a, b, oc) == Direct(add_prefixes(a, b) \o oc, ModRM(a.value, b.value, 3), <<>>)

\* The opcode of the template's parameters A and C, or of B and D
Wide(what, reg) == Op(what, SizeOf[reg.class] = 1, 0)

(***************************************************************************)
(* The constructors.                                                       *)
(***************************************************************************)
WithHigh(a, b) == "r8h" \in {a.class, b.class}

\* A register that needs the prefix is refused next to ah, ch, dh or bh.
NoRex(dst, src) == WithHigh(dst, src) /\ (add_rex(dst) \/ add_rex(src))

\* x64_srcdst_oper_base(dst, src)
RegReg(dst, src) ==
  IF NoRex(dst, src) THEN Thrown
  ELSE reg_reg(Code(dst), Code(src), Wide("store", dst))

\* x64_arith_base(reg, imm), reg_imm_oroc() and reg_imm(), with the opcode
\* extension MOD of the template
ArithImm(reg, ext, x, size) ==
  LET r == Code(reg)
      full == size = SizeOf[reg.class] \/ (reg.class = "r64" /\ size = 4)
  IN  IF full /\ r.value = 0
      THEN Direct(add_prefixes(r, Zero(r)) \o Wide("arith_eax", reg), <<>>, Imm(x, size))
      ELSE Direct(add_prefixes(r, Zero(r)) \o
                    (IF full THEN Wide("arith", reg) ELSE Opcode("arith_short")),
                  ModRM(r.value, ext, 3), Imm(x, size))

\* orred_oc_reg_imm(), and the form of x64_mov() with an extended immediate
MovImm(reg, x, size) ==
  IF reg.class = "r64" /\ size = 4
  THEN Direct(add_prefixes(reg, Zero(reg)) \o Opcode("mov_ext"), ModRM(reg.value, 0, 3), Imm(x, 4))
  ELSE Direct(add_prefixes(reg, Zero(reg)) \o
                Op("mov_imm", SizeOf[reg.class] = 1, Code(reg).value % 8), <<>>, Imm(x, size))

\* x64_single_op_base(reg), with the opcode extension ext
Single(reg, ext) ==
  Direct(add_prefixes(Code(reg), Zero(reg)) \o Wide("single", reg), ModRM(Code(reg).value, ext, 3), <<>>)

\* x64_jmpcall_base(reg)
JmpReg(reg, ext) ==
  Direct(x64_add_rex(reg, Zero(reg), Reg("r32", 0), 4) \o Opcode("jmp"), ModRM(reg.value, ext, 3), <<>>)

\* x64_pushpop(reg): or-ing an extended register into 0x50 makes it 0x58, pop.
PushPop(what, reg) ==
  IF reg.class = "r64"
  THEN Direct(x64_add_rex(reg, Zero(reg), Zero(reg), 4) \o
                Op(what, FALSE, reg.value % 8), <<>>, <<>>)
  ELSE Direct(<<[b |-> "66"]>> \o Op(IF is_extended(reg) THEN "pop" ELSE what, FALSE, reg.value % 8),
              <<>>, <<>>)

\* x64_imul(dst, src, n)
ImulImm(dst, src, x, size) ==
  [reg_reg(src, dst, Opcode(IF size = 1 THEN "imul_short" ELSE "imul_imm")) EXCEPT !.imm = Imm(x, size)]

\* x64_mov() between al, ax, eax or rax and an immediate address, by eax_imm()
MovOffset(what, reg, addr) ==
  Direct(add_prefixes(reg, Zero(reg)) \o Wide(what, reg), <<>>, Imm(addr, 8))

\* x64_cond; the mnemonics x64_jo .. x64_jpo are named after the conditions.
x64_cond ==
  [overflow |-> 0, not_overflow |-> 1,
   below |-> 2, not_above_or_equal |-> 2, carry |-> 2,
   not_below |-> 3, above_or_equal |-> 3, not_carry |-> 3,
   equal |-> 4, zero |-> 4, not_equal |-> 5, not_zero |-> 5,
   below_or_equal |-> 6, not_above |-> 6, above |-> 7, not_below_or_equal |-> 7,
   sign |-> 8, not_sign |-> 9,
   parity |-> 10, parity_even |-> 10, not_parity |-> 11, parity_odd |-> 11,
   less |-> 12, not_greater_or_equal |-> 12, greater_or_equal |-> 13, not_less |-> 13,
   less_or_equal |-> 14, not_greater |-> 14, greater |-> 15, not_less_or_equal |-> 15]

\* x64_jmp_cond::invert(): a switch that pairs each condition with the next.
invert(cond) == IF cond % 2 = 0 THEN cond + 1 ELSE cond - 1

\* x64_jmp_cond(cond, off)
JmpCond(cond, off) == Direct(Op("jcc", FALSE, cond), <<>>, Imm(off, 1))

(***************************************************************************)
(* The instructions, with the operands their constructors are declared for. *)
(***************************************************************************)
Registers == [class : Normal \cup {"r8"}, value : 0 .. 15] \cup [class : {"r8h"}, value : 0 .. 3]
WideRegisters == {r \in Registers : r.class \in Normal}

Addresses ==
  [size : {4, 8}, base : None .. 15, index : None .. 15, scale : 0 .. 3,
   offset : Int \ {High}, offset_size : {0, 1, 4}]

IsAddress(a) ==
  /\ a \in Addresses
  /\ a.index = None => a.scale = 0
  /\ a.base # None /\ a.offset_size = 0 => a.offset = 0
  /\ a.base = None => a.index = None /\ a.offset_size = 0

\* The immediate operands that arithmetic instructions and mov take
ArithSizes == [r64 |-> {1, 4}, r32 |-> {1, 4}, r16 |-> {1, 2}, r8 |-> {1}, r8h |-> {1}]
MovSizes   == [r64 |-> {4, 8}, r32 |-> {4}, r16 |-> {2}, r8 |-> {1}, r8h |-> {1}]

IsOperation(o) ==
  \/ /\ o \in [form : {"reg_reg"}, rm : Registers, reg : Registers]
     /\ SizeOf[o.rm.class] = SizeOf[o.reg.class]
  \/ /\ o \in [form : {"imul"}, rm : WideRegisters, reg : WideRegisters]
     /\ o.rm.class = o.reg.class
  \/ /\ o \in [form : {"imul_imm"}, rm : WideRegisters, reg : WideRegisters, imm : Int, size : {1, 2, 4}]
     /\ o.rm.class = o.reg.class /\ o.size \in ArithSizes[o.rm.class]
  \/ /\ o \in [form : {"arith_imm"}, rm : Registers, ext : 0 .. 7, imm : Int, size : {1, 2, 4}]
     /\ o.size \in ArithSizes[o.rm.class]
  \/ /\ o \in [form : {"mov_imm"}, rm : Registers, imm : Int, size : {1, 2, 4, 8}]
     /\ o.size \in MovSizes[o.rm.class]
  \/ /\ o \in [form : {"store", "load"}, reg : Registers, address : Addresses]
     /\ IsAddress(o.address)
  \/ /\ o \in [form : {"imul_mem"}, reg : WideRegisters, address : Addresses]
     /\ IsAddress(o.address)
  \/ /\ o \in [form : {"single_mem"}, class : Normal \cup {"r8h"}, ext : 0 .. 7, address : Addresses]
     /\ IsAddress(o.address)
  \/ o \in [form : {"jmp_mem"}, ext : 0 .. 7, address : Addresses] /\ IsAddress(o.address)
  \/ o \in [form : {"single"}, rm : Registers, ext : 0 .. 7]
  \/ o \in [form : {"jmp"}, rm : Registers, ext : 0 .. 7] /\ o.rm.class = "r64"
  \/ o \in [form : {"push", "pop"}, rm : WideRegisters] /\ o.rm.class # "r32"
  \/ /\ o \in [form : {"moffs"}, what : {"moffs_load", "moffs_store"}, rm : Registers, imm : Int]
     /\ o.rm.class # "r8h" /\ o.rm.value = 0
  \/ o \in [form : {"near"}, what : {"call_near", "jmp_near"}, imm : Int]
  \/ o \in [form : {"jecxz"}, imm : Int]
  \/ o \in [form : {"jcc", "jcc_not"}, cond : DOMAIN x64_cond, imm : Int]
  \/ o \in [form : {"one_byte"}, what : {"int3", "nop", "leave", "ret", "lret"}]
  \/ o = [form |-> "ud2"]

ASSUME OperationsAssumption == \A o \in Operations : IsOperation(o)

Encoded ==
  CASE op.form = "reg_reg"    -> RegReg(op.rm, op.reg)
    [] op.form = "store"      -> set_x64_reg_address(Code(op.reg), op.address, Wide("store", op.reg))
    [] op.form = "load"       -> set_x64_reg_address(Code(op.reg), op.address, Wide("load", op.reg))
    [] op.form = "imul"       -> reg_reg(op.rm, op.reg, <<[b |-> "0f"]>> \o Opcode("imul"))
    [] op.form = "arith_imm"  -> ArithImm(op.rm, op.ext, op.imm, op.size)
    [] op.form = "mov_imm"    -> MovImm(op.rm, op.imm, op.size)
    [] op.form = "single"     -> Single(op.rm, op.ext)
    [] op.form = "single_mem" -> set_x64_reg_address(Reg(op.class, op.ext), op.address,
                                                     Wide("single", Reg(op.class, op.ext)))
    [] op.form = "jmp"        -> JmpReg(op.rm, op.ext)
    [] op.form = "jmp_mem"    -> set_x64_reg_address(Reg("r32", op.ext), op.address, Opcode("jmp"))
    [] op.form = "imul_imm"   -> ImulImm(op.reg, op.rm, op.imm, op.size)
    [] op.form = "imul_mem"   -> set_x64_reg_address(op.reg, op.address, <<[b |-> "0f"]>> \o Opcode("imul"))
    [] op.form = "moffs"      -> MovOffset(op.what, op.rm, op.imm)
    [] op.form = "near"       -> Direct(Opcode(op.what), <<>>, Imm(op.imm, 4))
    [] op.form = "jecxz"      -> Direct(Opcode("jcxz"), <<>>, Imm(op.imm, 1))
    [] op.form = "jcc"        -> JmpCond(x64_cond[op.cond], op.imm)
    [] op.form = "jcc_not"    -> JmpCond(invert(x64_cond[op.cond]), op.imm)
    [] op.form = "ud2"        -> Direct(<<[b |-> "0f"]>> \o Opcode("ud2"), <<>>, <<>>)
    [] op.form = "one_byte"   -> Direct(Opcode(op.what), <<>>, <<>>)
    [] op.form = "push"       -> PushPop("push", op.rm)
    [] op.form = "pop"        -> PushPop("pop", op.rm)

size(i) == Len(i.opcode) + Len(i.modrm) + Len(i.sib) + Len(i.imm)

emit_to(i) == i.opcode \o i.modrm \o i.sib \o i.imm

Init == op \in Operations /\ inst = NotBuilt /\ code = <<>>

Construct ==
  /\ inst = NotBuilt
  /\ inst' = Encoded
  /\ UNCHANGED <<op, code>>

Write ==
  /\ inst \notin {NotBuilt, Thrown} /\ code = <<>>
  /\ code' = emit_to(inst)
  /\ UNCHANGED <<op, inst>>

Next == Construct \/ Write

Spec == Init /\ [][Next]_vars

-----------------------------------------------------------------------------
(***************************************************************************)
(* How the processor reads the code.                                       *)
(***************************************************************************)
Has(c, b)  == c # <<>> /\ Head(c).b = b
Skip(c, b) == IF Has(c, b) THEN Tail(c) ELSE c

\* What follows 67, 66, REX and 0f
After67  == Skip(code, "67")
After66  == Skip(After67, "66")
AfterRex == Skip(After66, "rex")
Rest     == Tail(Skip(AfterRex, "0f"))

opcode == Head(Skip(AfterRex, "0f"))
HasRex == Has(After66, "rex")
Bits   == IF HasRex THEN Head(After66).bits ELSE {}
Extra(bit) == IF bit \in Bits THEN 8 ELSE 0

Class ==
  IF opcode.byte THEN "r8"
  ELSE IF "w" \in Bits \/ opcode.what = "jmp" THEN "r64"
  ELSE IF Has(After67, "66") THEN "r16"
  ELSE IF opcode.what \in {"push", "pop"} THEN "r64" ELSE "r32"

Named(n, bit) ==
  IF Class = "r8" /\ ~HasRex /\ n \in 4 .. 7 THEN Reg("r8h", n - 4) ELSE Reg(Class, n + Extra(bit))

InOpcode == opcode.what \in {"mov_imm", "arith_eax", "push", "pop", "moffs_load", "moffs_store",
                             "call_near", "jmp_near", "jcxz", "jcc", "ud2",
                             "int3", "nop", "leave", "ret", "lret"}
Mod      == Rest[1].mod
InMemory == ~InOpcode /\ Mod # 3
HasSib   == InMemory /\ Rest[1].rm = 4
Base     == IF HasSib THEN Rest[2].base ELSE Rest[1].rm

\* The number of bytes of the displacement and of the immediate operand
Displacement ==
  IF ~InMemory \/ (Mod = 0 /\ Base # 5) THEN 0 ELSE IF Mod = 1 THEN 1 ELSE 4

Immediate ==
  CASE opcode.what \in {"arith_short", "imul_short", "jcxz", "jcc"} -> 1
    [] opcode.what \in {"mov_ext", "call_near", "jmp_near"} -> 4
    [] opcode.what \in {"moffs_load", "moffs_store"} -> 8
    [] opcode.what = "mov_imm" -> SizeOf[Class]
    [] opcode.what \in {"arith", "arith_eax", "imul_imm"} -> IF Class = "r64" THEN 4 ELSE SizeOf[Class]
    [] OTHER -> 0

LengthRead ==
  Len(code) - Len(Rest) + (IF InOpcode THEN 0 ELSE 1) + (IF HasSib THEN 1 ELSE 0)
  + Displacement + Immediate

Addressing == {"store", "load", "imul_mem", "single_mem", "jmp_mem"}

\* The address that is read: no base in the forms that mean an absolute
\* address or one relative to rip.
Addressed ==
  LET index == IF HasSib THEN Rest[2].index + Extra("x") ELSE 4
  IN  [size   |-> IF Has(code, "67") THEN 4 ELSE 8,
       base   |-> IF Mod = 0 /\ Base = 5 THEN None ELSE Base + Extra("b"),
       index  |-> IF index = 4 THEN None ELSE index,
       scale  |-> IF index = 4 THEN 0 ELSE Rest[2].scale,
       offset |-> IF Displacement = 0 THEN 0 ELSE code[Len(code)].num]

Meant(address) ==
  [size |-> address.size, base |-> address.base, index |-> address.index,
   scale |-> address.scale, offset |-> address.offset]

Register == Named(IF InOpcode THEN opcode.low ELSE Rest[1].rm, "b")

\* The register that jcxz compares with zero
Counter == Reg(IF Has(code, "67") THEN "r32" ELSE "r64", 1)

\* When the condition of a jump holds, by its number and by its name
Flags == SUBSET {"of", "cf", "zf", "sf", "pf"}

Taken(number, flags) ==
  LET differ == ("sf" \in flags) # ("of" \in flags)
      holds == <<"of" \in flags, "cf" \in flags, "zf" \in flags, flags \cap {"cf", "zf"} # {},
                 "sf" \in flags, "pf" \in flags, differ, differ \/ "zf" \in flags>>
  IN  holds[number \div 2 + 1] # (number % 2 = 1)

True(cond, flags) ==
  LET below == "cf" \in flags
      equal == "zf" \in flags
      less  == ("sf" \in flags) # ("of" \in flags)
  IN  CASE cond = "overflow" -> "of" \in flags
        [] cond = "not_overflow" -> "of" \notin flags
        [] cond = "sign" -> "sf" \in flags
        [] cond = "not_sign" -> "sf" \notin flags
        [] cond \in {"parity", "parity_even"} -> "pf" \in flags
        [] cond \in {"not_parity", "parity_odd"} -> "pf" \notin flags
        [] cond \in {"below", "not_above_or_equal", "carry"} -> below
        [] cond \in {"not_below", "above_or_equal", "not_carry"} -> ~below
        [] cond \in {"equal", "zero"} -> equal
        [] cond \in {"not_equal", "not_zero"} -> ~equal
        [] cond \in {"below_or_equal", "not_above"} -> below \/ equal
        [] cond \in {"above", "not_below_or_equal"} -> ~below /\ ~equal
        [] cond \in {"less", "not_greater_or_equal"} -> less
        [] cond \in {"greater_or_equal", "not_less"} -> ~less
        [] cond \in {"less_or_equal", "not_greater"} -> less \/ equal
        [] cond \in {"greater", "not_less_or_equal"} -> ~less /\ ~equal

\* A narrow immediate is read with its sign.
NumberMeant ==
  IF op.form \in {"arith_imm", "mov_imm"} /\ op.size < SizeOf[op.rm.class] THEN op.imm
  ELSE Written(op.imm)

OperandsRead ==
  /\ op.form \in {"reg_reg", "imul", "imul_imm", "imul_mem", "store", "load"} => Named(Rest[1].reg, "r") = op.reg
  /\ op.form \in {"single", "single_mem", "jmp", "jmp_mem"} => Rest[1].reg = op.ext
  /\ op.form = "arith_imm" => opcode.what = "arith_eax" \/ Rest[1].reg = op.ext
  /\ op.form \in Addressing =>
       InMemory /\ Addressed = Meant(op.address)
  /\ op.form \in {"reg_reg", "imul", "imul_imm", "arith_imm", "mov_imm", "moffs", "single", "jmp", "push", "pop"} =>
       ~InMemory /\ Register = op.rm
  /\ op.form \in {"single", "single_mem"} => opcode.what = "single"
  /\ op.form \in {"push", "pop"} => opcode.what = op.form
  /\ op.form \in {"moffs", "near", "one_byte"} => opcode.what = op.what
  /\ op.form = "jcc" => \A f \in Flags : Taken(opcode.low, f) = True(op.cond, f)
  /\ op.form = "jcc_not" => \A f \in Flags : Taken(opcode.low, f) = ~True(op.cond, f)
  /\ op.form = "jecxz" => Counter = Reg("r32", 1)
  /\ "imm" \in DOMAIN op => code[Len(code)].num = NumberMeant

(***************************************************************************)
(* Properties.                                                             *)
(***************************************************************************)

\* Fields fit their bits, and the opcode its 15 bytes.
TypeOK ==
  /\ Len(inst.opcode) <= 15 /\ Len(inst.imm) <= 8
  /\ inst.modrm # <<>> => inst.modrm[1].rm \in 0 .. 7 /\ inst.modrm[1].reg \in 0 .. 7
  /\ inst.sib # <<>> => inst.sib[1].base \in 0 .. 7 /\ inst.sib[1].index \in 0 .. 7

\* ah, ch, dh or bh with an address of extended registers
HighWithExtended ==
  /\ op.form \in {"store", "load"} /\ op.reg.class = "r8h"
  /\ op.address.base >= 8 \/ op.address.index >= 8

ExtendedWord == op.form \in {"push", "pop"} /\ op.rm.class = "r16" /\ is_extended(op.rm)

\* x64_address(int32_t): -1, for no register, is encoded as the base edi.
Absolute == op.form \in Addressing /\ op.address.base = None

\* An unsigned immediate narrower than its register, with its highest bit set
SignExtended ==
  op.form \in {"arith_imm", "mov_imm"} /\ op.imm = High /\ op.size < SizeOf[op.rm.class]

\* Without the prefix, e3 compares rcx instead of ecx.
WideCounter == op.form = "jecxz"

Exceptions == HighWithExtended \/ ExtendedWord \/ Absolute \/ SignExtended \/ WideCounter

\* The processor reads the operands that the constructor was given, with the
\* exceptions above: every register in every field, the addresses that need an
\* offset or a SIB byte, 8-bit registers that need or forbid the prefix, every
\* condition and its inverse in every state of the flags.
ReadsBack == code # <<>> => OperandsRead \/ Exceptions

\* The processor finds the end of the instruction where size(), by which
\* instruction_stream advances, says it is.
SizeIsRead == code # <<>> => LengthRead = size(inst) /\ size(inst) = Len(code)

\* A constructor throws for the operands that have no encoding only.
RefusedJustly ==
  inst = Thrown =>
    \/ op.form \in Addressing /\ op.address.index = 4
    \/ op.form = "reg_reg" /\ WithHigh(op.rm, op.reg) /\ \E r \in {op.rm, op.reg} : add_rex(r)
=============================================================================
