---------------------------- MODULE MCX64Encode ----------------------------
(***************************************************************************)
(* Instances of X64Encode: every class of register and, of the registers,  *)
(* those that an encoding treats specially, their neighbours and ends.     *)
(***************************************************************************)
EXTENDS X64Encode

Numbers == {0, 3, 4, 5, 7, 8, 12, 13, 15}
R(class) == IF class = "r8h" THEN {Reg(class, n) : n \in 0 .. 3}
            ELSE {Reg(class, n) : n \in 0 .. 15}
Few(class) == {r \in R(class) : r.value \in Numbers}
Classes == Normal \cup {"r8", "r8h"}

Displacements == {<<0, 0>>, <<-8, 1>>, <<1000, 4>>}

Address(z, b, x, s, d) ==
  [size |-> z, base |-> b, index |-> x, scale |-> s, offset |-> d[1], offset_size |-> d[2]]

InMemoryAt ==
  {Address(z, b, None, 0, d) : z \in {4, 8}, b \in 0 .. 15, d \in Displacements} \cup
  {Address(8, b, x, s, d) : b \in Numbers, x \in {0, 4, 5, 12, 13}, s \in {0, 3}, d \in Displacements} \cup
  {Address(4, None, None, 0, <<1000, 0>>)}  \* x64_address(1000)

Memory ==
  UNION {{[form |-> f, reg |-> r, address |-> a] :
            f \in {"store", "load"}, r \in {q \in Few(c) : q.value \in {0, 3, 4, 13}}, a \in InMemoryAt} : c \in Classes} \cup
  UNION {{[form |-> "imul_mem", reg |-> r, address |-> a] : r \in Few(c), a \in InMemoryAt} : c \in Normal} \cup
  {[form |-> "single_mem", class |-> c, ext |-> e, address |-> a] :
     c \in Normal \cup {"r8h"}, e \in {0, 7}, a \in InMemoryAt} \cup
  {[form |-> "jmp_mem", ext |-> e, address |-> a] : e \in {2, 4}, a \in InMemoryAt}

Bytes == R("r8") \cup R("r8h")

InRegisters ==
  UNION {{[form |-> "reg_reg", rm |-> p, reg |-> q] : p \in R(c), q \in R(c)} : c \in Normal} \cup
  {[form |-> "reg_reg", rm |-> p, reg |-> q] : p \in Bytes, q \in Bytes} \cup
  UNION {{[form |-> "imul", rm |-> p, reg |-> q] : p \in R(c), q \in R(c)} : c \in Normal} \cup
  UNION {{[form |-> "single", rm |-> p, ext |-> e] : p \in R(c), e \in {0, 7}} : c \in Classes} \cup
  {[form |-> "jmp", rm |-> p, ext |-> e] : p \in R("r64"), e \in {2, 4}} \cup
  UNION {{[form |-> f, rm |-> p] : f \in {"push", "pop"}, p \in R(c)} : c \in {"r64", "r16"}}

Signed == {5, Negative}

Immediates ==
  UNION {{[form |-> "arith_imm", rm |-> p, ext |-> e, imm |-> i, size |-> n] :
            p \in R(c), e \in 0 .. 7, n \in ArithSizes[c], i \in {5, High}} : c \in Classes} \cup
  UNION {{[form |-> "mov_imm", rm |-> p, imm |-> i, size |-> n] : p \in R(c), n \in MovSizes[c], i \in {5, High}} : c \in Classes}

Jumps ==
  {[form |-> "near", what |-> w, imm |-> i] : w \in {"call_near", "jmp_near"}, i \in Signed} \cup
  {[form |-> "jecxz", imm |-> i] : i \in Signed} \cup
  {[form |-> f, cond |-> c, imm |-> i] : f \in {"jcc", "jcc_not"}, c \in DOMAIN x64_cond, i \in Signed}

Others ==
  UNION {{[form |-> "imul_imm", rm |-> p, reg |-> q, imm |-> i, size |-> n] :
            p \in Few(c), q \in Few(c), i \in Signed, n \in ArithSizes[c]} : c \in Normal} \cup
  {[form |-> "moffs", what |-> w, rm |-> Reg(c, 0), imm |-> 5] :
     w \in {"moffs_load", "moffs_store"}, c \in Normal \cup {"r8"}} \cup
  {[form |-> "one_byte", what |-> w] : w \in {"int3", "nop", "leave", "ret", "lret"}} \cup
  {[form |-> "ud2"]}

MCOperations == Jumps \cup Others \cup Memory \cup InRegisters \cup Immediates
=============================================================================
