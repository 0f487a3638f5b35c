-------------------------- MODULE X64EncodeProofs --------------------------
(***************************************************************************)
(* Theorems about X64Encode, for every instruction and all operands its    *)
(* constructor is declared for.                                            *)
(***************************************************************************)
EXTENDS X64Encode, SequenceTheorems, TLAPS

-----------------------------------------------------------------------------
(***************************************************************************)
(* Bytes, and how prefixes are skipped.                                    *)
(***************************************************************************)
RexByte(bits) == [b |-> "rex", bits |-> bits]
OpByte(what, byte, low) == [b |-> "op", what |-> what, byte |-> byte, low |-> low]

\* The opcodes without a ModRM byte, and all of them
OpcodeOnly == {"mov_imm", "arith_eax", "push", "pop", "moffs_load", "moffs_store",
               "call_near", "jmp_near", "jcxz", "jcc", "ud2", "int3", "nop", "leave", "ret", "lret"}
OpcodeNames == OpcodeOnly \cup
  {"store", "load", "arith", "arith_short", "mov_ext", "single", "jmp", "imul", "imul_short", "imul_imm"}

Prefixes == {[b |-> "67"], [b |-> "66"], [b |-> "0f"]} \cup {RexByte(bits) : bits \in SUBSET {"b", "r", "x", "w"}}
Ops      == [b : {"op"}, what : OpcodeNames, byte : BOOLEAN, low : 0 .. 15]
ModRMs   == [b : {"modrm"}, rm : 0 .. 7, reg : 0 .. 7, mod : 0 .. 3]
SIBs     == [b : {"sib"}, base : 0 .. 7, index : 0 .. 7, scale : 0 .. 3]
Imms     == [b : {"imm"}, num : Int, k : Nat]
Bytes    == Prefixes \cup Ops \cup ModRMs \cup SIBs \cup Imms

LEMMA SkipByte ==
  ASSUME NEW y \in Bytes, NEW r \in Seq(Bytes), NEW p, NEW f, ~Has(r, y.b)
  PROVE  /\ If(f \in p, <<y>>) \o r \in Seq(Bytes)
         /\ Has(If(f \in p, <<y>>) \o r, y.b) <=> f \in p
         /\ Skip(If(f \in p, <<y>>) \o r, y.b) = r
         /\ f \in p => Head(If(f \in p, <<y>>) \o r) = y
         /\ \A b : b # y.b /\ ~Has(r, b) => ~Has(If(f \in p, <<y>>) \o r, b)
<1> DEFINE c == If(f \in p, <<y>>) \o r
<1>1. CASE f \in p
  <2>1. c = <<y>> \o r
    BY <1>1 DEF If
  <2>2. <<y>> \o r \in Seq(Bytes)
    OBVIOUS
  <2>3. Tail(<<y>> \o r) = r
    OBVIOUS
  <2>4. Head(<<y>> \o r) = y
    OBVIOUS
  <2>5. <<y>> \o r # <<>>
    OBVIOUS
  <2> HIDE DEF c
  <2>6. \A b : Has(c, b) <=> y.b = b
    BY <2>1, <2>4, <2>5 DEF Has
  <2>7. Skip(c, y.b) = r
    <3>1. Has(c, y.b)
      BY <2>6
    <3> QED BY <2>1, <2>3, <3>1 DEF Skip
  <2> QED BY <1>1, <2>1, <2>2, <2>4, <2>6, <2>7 DEF c
<1>2. CASE f \notin p
  <2>1. c = r
    <3>1. <<>> \o r = r
      BY ConcatEmptySeq
    <3> QED BY <1>2, <3>1 DEF If
  <2> HIDE DEF c
  <2> QED BY <1>2, <2>1 DEF Skip, c
<1> QED BY <1>1, <1>2

\* The bytes of an instruction with the prefixes p: 67, 66, REX with these bits,
\* 0f, the opcode, and the rest.
Laid(p, bits, o, t) ==
  If("67" \in p, <<[b |-> "67"]>>) \o (If("66" \in p, <<[b |-> "66"]>>) \o
    (If("rex" \in p, <<RexByte(bits)>>) \o (If("0f" \in p, <<[b |-> "0f"]>>) \o (<<o>> \o t))))

\* What an opcode of these parts is in the object
Prefixed(p, bits, o) ==
  ((If("67" \in p, <<[b |-> "67"]>>) \o If("66" \in p, <<[b |-> "66"]>>)) \o If("rex" \in p, <<RexByte(bits)>>)) \o
    (If("0f" \in p, <<[b |-> "0f"]>>) \o <<o>>)

\* An instruction of these parts
Built(i, p, bits, o) ==
  /\ p \in SUBSET {"67", "66", "rex", "0f"}
  /\ bits \in SUBSET {"b", "r", "x", "w"} /\ o \in Ops
  /\ i.opcode = Prefixed(p, bits, o)
  /\ i.modrm \in Seq(Bytes) /\ i.sib \in Seq(Bytes) /\ i.imm \in Seq(Bytes)

LEMMA LaidParts ==
  ASSUME NEW p \in SUBSET {"67", "66", "rex", "0f"},
         NEW bits \in SUBSET {"b", "r", "x", "w"}, NEW o \in Ops, NEW t \in Seq(Bytes),
         code = Laid(p, bits, o, t)
  PROVE  /\ (Has(code, "67") <=> "67" \in p) /\ (Has(After67, "66") <=> "66" \in p) /\ (HasRex <=> "rex" \in p)
         /\ Bits = (IF "rex" \in p THEN bits ELSE {})
         /\ opcode = o /\ Rest = t /\ code \in Seq(Bytes)
<1> DEFINE c4 == <<o>> \o t
           c3 == If("0f" \in p, <<[b |-> "0f"]>>) \o c4
           c2 == If("rex" \in p, <<RexByte(bits)>>) \o c3
           c1 == If("66" \in p, <<[b |-> "66"]>>) \o c2
           c0 == If("67" \in p, <<[b |-> "67"]>>) \o c1
<1>1. /\ o \in Bytes /\ [b |-> "67"] \in Bytes /\ [b |-> "66"] \in Bytes /\ [b |-> "0f"] \in Bytes
      /\ RexByte(bits) \in Bytes
  BY DEF Bytes, Prefixes
<1>2. c4 \in Seq(Bytes) /\ Head(c4) = o /\ Tail(c4) = t /\ c4 # <<>>
  <2>1. c4 \in Seq(Bytes)
    BY <1>1
  <2>2. Head(c4) = o
    BY <1>1
  <2>3. Tail(c4) = t
    BY <1>1
  <2>4. c4 # <<>>
    BY <1>1
  <2> QED BY <2>1, <2>2, <2>3, <2>4
<1>3. ~Has(c4, "0f") /\ ~Has(c4, "rex") /\ ~Has(c4, "66") /\ ~Has(c4, "67")
  BY <1>2 DEF Has, Ops
<1> HIDE DEF c4
<1>4. /\ c3 \in Seq(Bytes) /\ Skip(c3, "0f") = c4
      /\ ~Has(c3, "rex") /\ ~Has(c3, "66") /\ ~Has(c3, "67")
  BY <1>1, <1>2, <1>3, SkipByte
<1> HIDE DEF c3
<1>5. /\ c2 \in Seq(Bytes) /\ (Has(c2, "rex") <=> "rex" \in p) /\ Skip(c2, "rex") = c3
      /\ "rex" \in p => Head(c2) = RexByte(bits)
      /\ ~Has(c2, "66") /\ ~Has(c2, "67")
  <2>1. PICK y \in Bytes : y = RexByte(bits) /\ y.b = "rex"
    BY <1>1 DEF RexByte
  <2>2. c2 = If("rex" \in p, <<y>>) \o c3
    BY <2>1
  <2> HIDE DEF c2
  <2>3. ~Has(c3, y.b)
    BY <1>4, <2>1
  <2>4. /\ c2 \in Seq(Bytes) /\ (Has(c2, y.b) <=> "rex" \in p) /\ Skip(c2, y.b) = c3 /\ ("rex" \in p => Head(c2) = y)
        /\ \A b : b # y.b /\ ~Has(c3, b) => ~Has(c2, b)
    BY <1>4, <2>2, <2>3, SkipByte
  <2> QED BY <1>4, <2>1, <2>4
<1> HIDE DEF c2
<1>6. c1 \in Seq(Bytes) /\ (Has(c1, "66") <=> "66" \in p) /\ Skip(c1, "66") = c2 /\ ~Has(c1, "67")
  BY <1>1, <1>5, SkipByte
<1> HIDE DEF c1
<1>7. c0 \in Seq(Bytes) /\ (Has(c0, "67") <=> "67" \in p) /\ Skip(c0, "67") = c1
  BY <1>1, <1>6, SkipByte
<1>8. code = c0
  BY DEF Laid, c1, c2, c3, c4
<1> HIDE DEF c0
<1>9. After67 = c1 /\ After66 = c2 /\ AfterRex = c3
  BY <1>5, <1>6, <1>7, <1>8 DEF After67, After66, AfterRex
<1>10. opcode = o /\ Rest = t
  BY <1>2, <1>4, <1>9 DEF opcode, Rest
<1>11. (HasRex <=> "rex" \in p) /\ Bits = (IF "rex" \in p THEN bits ELSE {})
  BY <1>5, <1>9 DEF HasRex, Bits, RexByte
<1> QED BY <1>6, <1>7, <1>8, <1>9, <1>10, <1>11

LEMMA Regrouped ==
  ASSUME NEW p \in Seq(Bytes), NEW q \in Seq(Bytes), NEW r \in Seq(Bytes)
  PROVE  (p \o q) \o r = p \o (q \o r)
BY ConcatAssociative

LEMMA EmitsLaid ==
  ASSUME NEW i, NEW p, NEW bits, NEW o, Built(i, p, bits, o)
  PROVE  /\ emit_to(i) = Laid(p, bits, o, (i.modrm \o i.sib) \o i.imm)
         /\ (i.modrm \o i.sib) \o i.imm \in Seq(Bytes)
         /\ size(i) = Len(emit_to(i))
         /\ Len(i.opcode) <= 5 /\ i.opcode \in Seq(Bytes)
<1> DEFINE A == If("67" \in p, <<[b |-> "67"]>>)
           B == If("66" \in p, <<[b |-> "66"]>>)
           C == If("rex" \in p, <<RexByte(bits)>>)
           D == If("0f" \in p, <<[b |-> "0f"]>>)
           O == <<o>>
           m == i.modrm
           s == i.sib
           im == i.imm
           t == (m \o s) \o im
           oc == ((A \o B) \o C) \o (D \o O)
<1>1. /\ A \in Seq(Bytes) /\ B \in Seq(Bytes) /\ C \in Seq(Bytes) /\ D \in Seq(Bytes) /\ O \in Seq(Bytes)
      /\ Len(A) <= 1 /\ Len(B) <= 1 /\ Len(C) <= 1 /\ Len(D) <= 1 /\ Len(O) = 1
  <2>1. /\ o \in Bytes /\ [b |-> "67"] \in Bytes /\ [b |-> "66"] \in Bytes /\ [b |-> "0f"] \in Bytes
        /\ RexByte(bits) \in Bytes
    BY DEF Built, Bytes, Prefixes
  <2>2. ASSUME NEW c, NEW y \in Bytes
        PROVE  If(c, <<y>>) \in Seq(Bytes) /\ Len(If(c, <<y>>)) <= 1
    <3>1. <<y>> \in Seq(Bytes) /\ Len(<<y>>) = 1 /\ <<>> \in Seq(Bytes) /\ Len(<<>>) = 0
      OBVIOUS
    <3> QED BY <3>1 DEF If
  <2>3. O \in Seq(Bytes) /\ Len(O) = 1
    BY <2>1
  <2> QED BY <2>1, <2>2, <2>3
<1>2. m \in Seq(Bytes) /\ s \in Seq(Bytes) /\ im \in Seq(Bytes) /\ i.opcode = oc
  BY DEF Built, Prefixed
<1>3. emit_to(i) = ((oc \o m) \o s) \o im /\ size(i) = Len(oc) + Len(m) + Len(s) + Len(im)
  BY <1>2 DEF emit_to, size
<1>4. Laid(p, bits, o, t) = A \o (B \o (C \o (D \o (O \o t))))
  BY DEF Laid
<1> DEFINE front == A \o B
           f     == front \o C
           back  == D \o O
           u     == O \o t
           v     == D \o u
           rest     == C \o v
           ms    == m \o s
           om    == oc \o m
           oms   == om \o s
<1> HIDE DEF A, B, C, D, O, m, s, im, oc, t, front, f, back, u, v, rest, ms, om, oms
<1>5. front \in Seq(Bytes) /\ Len(front) = Len(A) + Len(B)
  BY <1>1, ConcatProperties DEF front
<1>6. f \in Seq(Bytes) /\ Len(f) = Len(front) + Len(C)
  BY <1>1, <1>5, ConcatProperties DEF f
<1>7. back \in Seq(Bytes) /\ Len(back) = Len(D) + Len(O)
  BY <1>1, ConcatProperties DEF back
<1>8. oc \in Seq(Bytes) /\ Len(oc) = Len(f) + Len(back)
  BY <1>6, <1>7, ConcatProperties DEF oc, f, front, back
<1>9. Len(oc) <= 5 /\ Len(oc) \in Nat
  BY <1>1, <1>5, <1>6, <1>7, <1>8
<1>10. ms \in Seq(Bytes)
  BY <1>2 DEF ms
<1>11. t \in Seq(Bytes)
  BY <1>2, <1>10 DEF t, ms
<1>12. om \in Seq(Bytes) /\ Len(om) = Len(oc) + Len(m)
  BY <1>2, <1>8, ConcatProperties DEF om
<1>13. oms \in Seq(Bytes) /\ Len(oms) = Len(om) + Len(s)
  BY <1>2, <1>12, ConcatProperties DEF oms
<1>14. Len(oms \o im) = Len(oms) + Len(im)
  BY <1>2, <1>13, ConcatProperties
<1>15. emit_to(i) = oms \o im
  BY <1>3 DEF oms, om
<1>16. size(i) = Len(emit_to(i))
  BY <1>2, <1>3, <1>9, <1>12, <1>13, <1>14, <1>15
<1>17. m \in Seq(Bytes)
  BY <1>2
<1>18. s \in Seq(Bytes)
  BY <1>2
<1>19. im \in Seq(Bytes)
  BY <1>2
<1>20. oc \in Seq(Bytes)
  BY <1>8
<1>21. oms = oc \o ms
  BY <1>17, <1>18, <1>20, Regrouped DEF oms, om, ms
<1>22. (oc \o ms) \o im = oc \o t
  BY <1>10, <1>19, <1>20, Regrouped DEF t, ms
<1>23. u \in Seq(Bytes)
  BY <1>1, <1>11 DEF u
<1>24. v \in Seq(Bytes)
  BY <1>1, <1>23 DEF v
<1>25. rest \in Seq(Bytes)
  BY <1>1, <1>24 DEF rest
<1>26. (f \o back) \o t = f \o (back \o t)
  <2>1. f \in Seq(Bytes)
    BY <1>6
  <2>2. back \in Seq(Bytes)
    BY <1>7
  <2> QED BY <1>11, <2>1, <2>2, Regrouped
<1>27. back \o t = v
  <2>1. D \in Seq(Bytes)
    BY <1>1
  <2>2. O \in Seq(Bytes)
    BY <1>1
  <2> QED BY <1>11, <2>1, <2>2, Regrouped DEF back, v, u
<1>28. f \o v = front \o rest
  <2>1. front \in Seq(Bytes)
    BY <1>5
  <2>2. C \in Seq(Bytes)
    BY <1>1
  <2> QED BY <1>24, <2>1, <2>2, Regrouped DEF f, rest
<1>29. front \o rest = A \o (B \o rest)
  <2>1. A \in Seq(Bytes)
    BY <1>1
  <2>2. B \in Seq(Bytes)
    BY <1>1
  <2> QED BY <1>25, <2>1, <2>2, Regrouped DEF front
<1>30. oc = f \o back
  BY DEF oc, f, front, back
<1>31. emit_to(i) = A \o (B \o rest)
  BY <1>15, <1>21, <1>22, <1>26, <1>27, <1>28, <1>29, <1>30, Zenon
<1>32. emit_to(i) = Laid(p, bits, o, t)
  BY <1>4, <1>31 DEF rest, v, u
<1> QED BY <1>2, <1>8, <1>9, <1>11, <1>16, <1>32 DEF t, m, s, im

-----------------------------------------------------------------------------
(***************************************************************************)
(* What is read of an instruction that is built and written.               *)
(***************************************************************************)
LEMMA LastOfConcat ==
  ASSUME NEW p \in Seq(Bytes), NEW q \in Seq(Bytes), q # <<>>
  PROVE  (p \o q)[Len(p \o q)] = q[Len(q)]
<1>1. Len(p) \in Nat /\ Len(q) \in Nat \ {0}
  BY EmptySeq
<1>2. Len(p \o q) = Len(p) + Len(q)
  BY ConcatProperties
<1>3. \A k \in 1 .. Len(p) + Len(q) : (p \o q)[k] = IF k <= Len(p) THEN p[k] ELSE q[k - Len(p)]
  BY ConcatProperties
<1>4. (p \o q)[Len(p) + Len(q)] = q[Len(p) + Len(q) - Len(p)]
  BY <1>1, <1>3
<1> QED BY <1>1, <1>2, <1>4

\* The bytes after the opcode
LEMMA Parts ==
  ASSUME NEW m \in Seq(Bytes), NEW s \in Seq(Bytes), NEW im \in Seq(Bytes)
  PROVE  /\ Len((m \o s) \o im) = Len(m) + Len(s) + Len(im)
         /\ m # <<>> => ((m \o s) \o im)[1] = m[1]
         /\ Len(m) = 1 /\ s # <<>> => ((m \o s) \o im)[2] = s[1]
<1> DEFINE ms == m \o s
<1>1. /\ Len(m) \in Nat /\ Len(s) \in Nat /\ Len(im) \in Nat
      /\ (m # <<>> => Len(m) > 0) /\ (s # <<>> => Len(s) > 0)
  BY EmptySeq
<1>2. /\ ms \in Seq(Bytes) /\ Len(ms) = Len(m) + Len(s)
      /\ \A k \in 1 .. Len(m) + Len(s) : ms[k] = IF k <= Len(m) THEN m[k] ELSE s[k - Len(m)]
  BY ConcatProperties
<1> HIDE DEF ms
<1>3. /\ Len(ms \o im) = Len(ms) + Len(im)
      /\ \A k \in 1 .. Len(ms) + Len(im) : (ms \o im)[k] = IF k <= Len(ms) THEN ms[k] ELSE im[k - Len(ms)]
  <2>1. ms \in Seq(Bytes)
    BY <1>2
  <2> QED BY <2>1, ConcatProperties
<1>4. Len(ms \o im) = Len(m) + Len(s) + Len(im)
  BY <1>1, <1>2, <1>3
<1>5. ASSUME m # <<>> PROVE (ms \o im)[1] = m[1]
  <2>1. Len(ms) \in Nat /\ Len(m) > 0 /\ Len(ms) >= Len(m)
    BY <1>1, <1>2, <1>5
  <2>2. (ms \o im)[1] = ms[1]
    BY <1>1, <1>3, <2>1
  <2>3. ms[1] = m[1]
    BY <1>1, <1>2, <2>1
  <2> QED BY <2>2, <2>3
<1>6. ASSUME Len(m) = 1, s # <<>> PROVE (ms \o im)[2] = s[1]
  <2>1. Len(ms) \in Nat /\ Len(ms) >= 2 /\ Len(s) > 0
    BY <1>1, <1>2, <1>6
  <2>2. (ms \o im)[2] = ms[2]
    BY <1>1, <1>3, <2>1
  <2>3. ms[2] = s[1]
    BY <1>1, <1>2, <1>6, <2>1
  <2> QED BY <2>2, <2>3
<1> QED BY <1>4, <1>5, <1>6 DEF ms

LEMMA ReadBuilt ==
  ASSUME NEW i, NEW p \in SUBSET {"67", "66", "rex", "0f"},
         NEW bits \in SUBSET {"b", "r", "x", "w"}, NEW o \in Ops, Built(i, p, bits, o),
         bits # {} => "rex" \in p, code = emit_to(i)
  PROVE  /\ (Has(code, "67") <=> "67" \in p) /\ (Has(After67, "66") <=> "66" \in p) /\ (HasRex <=> "rex" \in p)
         /\ Bits = bits /\ opcode = o
         /\ size(i) = Len(code) /\ Len(code) \in Nat
         /\ Len(Rest) = Len(i.modrm) + Len(i.sib) + Len(i.imm)
         /\ i.modrm # <<>> => Rest[1] = i.modrm[1]
         /\ Len(i.modrm) = 1 /\ i.sib # <<>> => Rest[2] = i.sib[1]
         /\ i.imm # <<>> => code[Len(code)] = i.imm[Len(i.imm)]
<1> DEFINE t == (i.modrm \o i.sib) \o i.imm
           q == (i.opcode \o i.modrm) \o i.sib
<1>1. /\ p \in SUBSET {"67", "66", "rex", "0f"}
      /\ bits \in SUBSET {"b", "r", "x", "w"} /\ o \in Ops
      /\ i.modrm \in Seq(Bytes) /\ i.sib \in Seq(Bytes) /\ i.imm \in Seq(Bytes)
  BY DEF Built
<1>2. code = Laid(p, bits, o, t) /\ t \in Seq(Bytes) /\ size(i) = Len(code) /\ i.opcode \in Seq(Bytes)
  BY EmitsLaid
<1>3. code = q \o i.imm
  BY DEF emit_to
<1>4. /\ Len(t) = Len(i.modrm) + Len(i.sib) + Len(i.imm)
      /\ i.modrm # <<>> => t[1] = i.modrm[1]
      /\ Len(i.modrm) = 1 /\ i.sib # <<>> => t[2] = i.sib[1]
  <2> DEFINE m == i.modrm
             s == i.sib
             im == i.imm
  <2>1. m \in Seq(Bytes) /\ s \in Seq(Bytes) /\ im \in Seq(Bytes) /\ t = (m \o s) \o im
    BY <1>1
  <2> HIDE DEF m, s, im, t
  <2>2. /\ Len((m \o s) \o im) = Len(m) + Len(s) + Len(im)
        /\ m # <<>> => ((m \o s) \o im)[1] = m[1]
        /\ Len(m) = 1 /\ s # <<>> => ((m \o s) \o im)[2] = s[1]
    BY <2>1, Parts
  <2> QED BY <2>1, <2>2 DEF m, s, im
<1> HIDE DEF t
<1>5. /\ (Has(code, "67") <=> "67" \in p) /\ (Has(After67, "66") <=> "66" \in p) /\ (HasRex <=> "rex" \in p)
      /\ Bits = (IF "rex" \in p THEN bits ELSE {})
      /\ opcode = o /\ Rest = t /\ code \in Seq(Bytes)
  <2>1. code = Laid(p, bits, o, t)
    BY <1>2
  <2>2. t \in Seq(Bytes)
    BY <1>2
  <2> QED BY <2>1, <2>2, LaidParts
<1>6. Bits = bits
  BY <1>5
<1>7. Len(code) \in Nat
  BY <1>5, EmptySeq
<1>8. i.opcode \o i.modrm \in Seq(Bytes)
  BY <1>1, <1>2, ConcatProperties
<1>9. q \in Seq(Bytes)
  BY <1>1, <1>8, ConcatProperties
<1> HIDE DEF q
<1>10. i.imm # <<>> => code[Len(code)] = i.imm[Len(i.imm)]
  BY <1>1, <1>3, <1>9, LastOfConcat
<1> QED BY <1>2, <1>4, <1>5, <1>6, <1>7, <1>10

-----------------------------------------------------------------------------
(***************************************************************************)
(* Opcodes with the prefixes that the constructors give them.              *)
(***************************************************************************)
RexBits(a, c, b, n) ==
  Flag(is_extended(a), "b") \cup Flag(is_extended(b), "r")
  \cup Flag(is_extended(c), "x") \cup Flag(n = 8, "w")

\* 67, 66 or 0f if they are in q, and the REX prefix of these operands
WithPrefixes(q, a, c, b, n, o) ==
  ((If("67" \in q, <<[b |-> "67"]>>) \o If("66" \in q, <<[b |-> "66"]>>)) \o x64_add_rex(a, c, b, n)) \o
    (If("0f" \in q, <<[b |-> "0f"]>>) \o <<o>>)

\* An instruction with such an opcode
Shaped(i, q, a, c, b, n, o) ==
  /\ q \in SUBSET {"67", "66", "0f"} /\ o \in Ops
  /\ i.opcode = WithPrefixes(q, a, c, b, n, o)
  /\ i.modrm \in Seq(Bytes) /\ i.sib \in Seq(Bytes) /\ i.imm \in Seq(Bytes)

LEMMA ShapedIsBuilt ==
  ASSUME NEW i, NEW q, NEW a, NEW c, NEW b, NEW n, NEW o, Shaped(i, q, a, c, b, n, o)
  PROVE  \E p \in SUBSET {"67", "66", "rex", "0f"}, bits \in SUBSET {"b", "r", "x", "w"} :
           /\ Built(i, p, bits, o)
           /\ ("67" \in p <=> "67" \in q) /\ ("66" \in p <=> "66" \in q)
           /\ bits # {} => "rex" \in p
           /\ "b" \in bits <=> is_extended(a)
           /\ "x" \in bits <=> is_extended(c)
           /\ "r" \in bits <=> is_extended(b)
           /\ "w" \in bits <=> n = 8
           /\ "rex" \in p <=> bits # {} \/ add_rex(a) \/ add_rex(c) \/ add_rex(b)
<1> DEFINE bits == RexBits(a, c, b, n)
           p == q \cup (IF bits # {} \/ \E reg \in {a, b, c} : add_rex(reg) THEN {"rex"} ELSE {})
<1>1. /\ bits \in SUBSET {"b", "r", "x", "w"}
      /\ "b" \in bits <=> is_extended(a)
      /\ "x" \in bits <=> is_extended(c)
      /\ "r" \in bits <=> is_extended(b)
      /\ "w" \in bits <=> n = 8
  BY DEF RexBits, Flag
<1>2. x64_add_rex(a, c, b, n) =
        If(bits # {} \/ \E reg \in {a, b, c} : add_rex(reg), <<RexByte(bits)>>)
  BY DEF x64_add_rex, RexBits, RexByte
<1> HIDE DEF bits
<1>3. q \in SUBSET {"67", "66", "0f"}
  BY DEF Shaped
<1>4. /\ p \in SUBSET {"67", "66", "rex", "0f"}
      /\ ("67" \in p <=> "67" \in q) /\ ("66" \in p <=> "66" \in q) /\ ("0f" \in p <=> "0f" \in q)
      /\ "rex" \in p <=> bits # {} \/ \E reg \in {a, b, c} : add_rex(reg)
  BY <1>3
<1> HIDE DEF p
<1>5. x64_add_rex(a, c, b, n) = If("rex" \in p, <<RexByte(bits)>>)
  BY <1>2, <1>4 DEF If
<1>6. WithPrefixes(q, a, c, b, n, o) = Prefixed(p, bits, o)
  <2>1. /\ If("67" \in q, <<[b |-> "67"]>>) = If("67" \in p, <<[b |-> "67"]>>)
        /\ If("66" \in q, <<[b |-> "66"]>>) = If("66" \in p, <<[b |-> "66"]>>)
        /\ If("0f" \in q, <<[b |-> "0f"]>>) = If("0f" \in p, <<[b |-> "0f"]>>)
    BY <1>4 DEF If
  <2> QED BY <1>5, <2>1 DEF WithPrefixes, Prefixed
<1>7. Built(i, p, bits, o)
  BY <1>1, <1>4, <1>6 DEF Shaped, Built
<1> QED BY <1>1, <1>4, <1>7

LEMMA ReadShaped ==
  ASSUME NEW i, NEW q, NEW a, NEW c, NEW b, NEW n, NEW o, Shaped(i, q, a, c, b, n, o),
         code = emit_to(i)
  PROVE  /\ (Has(code, "67") <=> "67" \in q) /\ (Has(After67, "66") <=> "66" \in q)
         /\ "b" \in Bits <=> is_extended(a)
         /\ "x" \in Bits <=> is_extended(c)
         /\ "r" \in Bits <=> is_extended(b)
         /\ "w" \in Bits <=> n = 8
         /\ Bits \in SUBSET {"b", "r", "x", "w"}
         /\ HasRex <=> Bits # {} \/ add_rex(a) \/ add_rex(c) \/ add_rex(b)
         /\ opcode = o
         /\ size(i) = Len(code) /\ Len(code) \in Nat
         /\ Len(Rest) = Len(i.modrm) + Len(i.sib) + Len(i.imm)
         /\ i.modrm # <<>> => Rest[1] = i.modrm[1]
         /\ Len(i.modrm) = 1 /\ i.sib # <<>> => Rest[2] = i.sib[1]
         /\ i.imm # <<>> => code[Len(code)] = i.imm[Len(i.imm)]
<1>1. PICK p \in SUBSET {"67", "66", "rex", "0f"}, bits \in SUBSET {"b", "r", "x", "w"} :
           /\ Built(i, p, bits, o)
           /\ ("67" \in p <=> "67" \in q) /\ ("66" \in p <=> "66" \in q)
           /\ bits # {} => "rex" \in p
           /\ "b" \in bits <=> is_extended(a)
           /\ "x" \in bits <=> is_extended(c)
           /\ "r" \in bits <=> is_extended(b)
           /\ "w" \in bits <=> n = 8
           /\ "rex" \in p <=> bits # {} \/ add_rex(a) \/ add_rex(c) \/ add_rex(b)
  BY ShapedIsBuilt
<1>2. o \in Ops
  BY DEF Shaped
<1>3. /\ (Has(code, "67") <=> "67" \in p) /\ (Has(After67, "66") <=> "66" \in p) /\ (HasRex <=> "rex" \in p)
      /\ Bits = bits /\ opcode = o
      /\ size(i) = Len(code) /\ Len(code) \in Nat
      /\ Len(Rest) = Len(i.modrm) + Len(i.sib) + Len(i.imm)
      /\ i.modrm # <<>> => Rest[1] = i.modrm[1]
      /\ Len(i.modrm) = 1 /\ i.sib # <<>> => Rest[2] = i.sib[1]
      /\ i.imm # <<>> => code[Len(code)] = i.imm[Len(i.imm)]
  BY <1>1, <1>2, ReadBuilt
<1>4. HasRex <=> bits # {} \/ add_rex(a) \/ add_rex(c) \/ add_rex(b)
  BY <1>1, <1>3
<1>5. HasRex <=> Bits # {} \/ add_rex(a) \/ add_rex(c) \/ add_rex(b)
  BY <1>3, <1>4
<1> QED BY <1>1, <1>3, <1>5

LEMMA ReadOpcode ==
  ASSUME NEW i, NEW q, NEW a, NEW c, NEW b, NEW n, NEW o, Shaped(i, q, a, c, b, n, o),
         code = emit_to(i)
  PROVE  opcode = o /\ (i.imm # <<>> => code[Len(code)] = i.imm[Len(i.imm)])
BY ReadShaped

\* An object that a constructor built is not the one it throws.
LEMMA ShapedFits ==
  ASSUME NEW i, NEW q, NEW a, NEW c, NEW b, NEW n, NEW o, Shaped(i, q, a, c, b, n, o)
  PROVE  Len(i.opcode) <= 15 /\ i # Thrown
<1>1. PICK p \in SUBSET {"67", "66", "rex", "0f"}, bits \in SUBSET {"b", "r", "x", "w"} : Built(i, p, bits, o)
  BY ShapedIsBuilt
<1>2. Len(i.opcode) <= 5 /\ i.opcode \in Seq(Bytes)
  BY <1>1, EmitsLaid
<1>3. Len(i.opcode) <= 15
  BY <1>2, EmptySeq
<1>4. ASSUME i = Thrown PROVE FALSE
  <2>1. i.opcode = <<[b |-> "none"]>>
    BY <1>4 DEF Thrown, NotBuilt
  <2>2. i.opcode[1] \in Bytes
    <3>1. Len(i.opcode) = 1
      BY <2>1
    <3> QED BY <1>2, <3>1, ElementOfSeq
  <2>3. i.opcode[1] = [b |-> "none"]
    BY <2>1
  <2>4. PICK y \in Bytes : y = [b |-> "none"]
    BY <2>2, <2>3
  <2>5. y.b = "none"
    BY <2>4
  <2>6. y \notin Prefixes
    BY <2>5 DEF Prefixes, RexByte
  <2>7. y \notin Ops /\ y \notin ModRMs /\ y \notin SIBs /\ y \notin Imms
    BY <2>5 DEF Ops, ModRMs, SIBs, Imms
  <2> QED BY <2>6, <2>7 DEF Bytes
<1> QED BY <1>3, <1>4

-----------------------------------------------------------------------------
(***************************************************************************)
(* The bytes after the opcode.                                             *)
(***************************************************************************)
LEMMA ModRMByte ==
  ASSUME NEW rm \in Int, NEW reg \in Int, NEW mod \in 0 .. 3
  PROVE  LET m == ModRM(rm, reg, mod)
         IN  /\ m \in Seq(Bytes) /\ Len(m) = 1 /\ m # <<>>
             /\ m[1].rm = rm % 8 /\ m[1].reg = reg % 8 /\ m[1].mod = mod
             /\ m[1].rm \in 0 .. 7 /\ m[1].reg \in 0 .. 7
<1>1. rm % 8 \in 0 .. 7 /\ reg % 8 \in 0 .. 7
  OBVIOUS
<1> DEFINE y == [b |-> "modrm", rm |-> rm % 8, reg |-> reg % 8, mod |-> mod]
<1>2. y \in Bytes
  BY <1>1 DEF Bytes, ModRMs
<1>3. y.rm = rm % 8 /\ y.reg = reg % 8 /\ y.mod = mod
  OBVIOUS
<1>4. ModRM(rm, reg, mod) = <<y>>
  BY DEF ModRM
<1> HIDE DEF y
<1>5. <<y>> \in Seq(Bytes) /\ Len(<<y>>) = 1 /\ <<y>> # <<>> /\ <<y>>[1] = y
  BY <1>2
<1> QED BY <1>1, <1>3, <1>4, <1>5

LEMMA SIBByte ==
  ASSUME NEW base \in Int, NEW index \in Int, NEW scale \in 0 .. 3
  PROVE  LET s == SIB(base, index, scale)
         IN  /\ s \in Seq(Bytes) /\ Len(s) = 1 /\ s # <<>>
             /\ s[1].base = base % 8 /\ s[1].index = index % 8 /\ s[1].scale = scale
             /\ s[1].base \in 0 .. 7 /\ s[1].index \in 0 .. 7
<1>1. base % 8 \in 0 .. 7 /\ index % 8 \in 0 .. 7
  OBVIOUS
<1> DEFINE y == [b |-> "sib", base |-> base % 8, index |-> index % 8, scale |-> scale]
<1>2. y \in Bytes
  BY <1>1 DEF Bytes, SIBs
<1>3. y.base = base % 8 /\ y.index = index % 8 /\ y.scale = scale
  OBVIOUS
<1>4. SIB(base, index, scale) = <<y>>
  BY DEF SIB
<1> HIDE DEF y
<1>5. <<y>> \in Seq(Bytes) /\ Len(<<y>>) = 1 /\ <<y>> # <<>> /\ <<y>>[1] = y
  BY <1>2
<1> QED BY <1>1, <1>3, <1>4, <1>5

LEMMA ImmBytes ==
  ASSUME NEW x \in Int, NEW n \in {1, 2, 4, 8}
  PROVE  /\ Imm(x, n) \in Seq(Bytes) /\ Len(Imm(x, n)) = n /\ Imm(x, n) # <<>>
         /\ Imm(x, n)[Len(Imm(x, n))].num = Written(x)
<1> DEFINE s == Imm(x, n)
<1>1. Written(x) \in Int
  BY DEF Written, Negative
<1>2. ASSUME NEW k \in 1 .. n PROVE [b |-> "imm", num |-> Written(x), k |-> k] \in Bytes
  BY <1>1 DEF Bytes, Imms
<1>3. s \in [1 .. n -> Bytes] /\ n \in Nat
  BY <1>2 DEF Imm
<1>4. s \in Seq(Bytes)
  BY <1>3, SeqDef
<1>5. s[n].num = Written(x) /\ DOMAIN s = 1 .. n
  BY DEF Imm
<1>6. Len(s) \in Nat /\ DOMAIN s = 1 .. Len(s)
  BY <1>4, LenProperties
<1>7. Len(s) = n
  <2>1. n \in 1 .. Len(s) /\ Len(s) >= 1
    BY <1>5, <1>6
  <2>2. Len(s) \in 1 .. n
    BY <1>5, <1>6, <2>1
  <2>3. n <= Len(s) /\ Len(s) <= n /\ n \in Nat
    BY <1>3, <2>1, <2>2
  <2>4. \A k, l \in Nat : k <= l /\ l <= k => k = l
    OBVIOUS
  <2>5. Len(s) \in Nat
    BY <1>6
  <2> QED BY <2>3, <2>4, <2>5
<1> HIDE DEF s
<1>8. s # <<>>
  BY <1>7
<1> QED BY <1>4, <1>5, <1>7, <1>8 DEF s

LEMMA Nothing ==
  <<>> \in Seq(Bytes) /\ Len(<<>>) = 0
OBVIOUS

\* An instruction whose ModRM byte names two registers
LEMMA ReadDirect ==
  ASSUME NEW i, NEW q, NEW a, NEW c, NEW b, NEW n, NEW o, Shaped(i, q, a, c, b, n, o),
         code = emit_to(i),
         NEW rm \in Int, NEW reg \in Int, i.modrm = ModRM(rm, reg, 3), i.sib = <<>>,
         o.what \notin OpcodeOnly
  PROVE  /\ ~InOpcode /\ ~InMemory
         /\ Rest[1].rm = rm % 8 /\ Rest[1].reg = reg % 8
         /\ Len(i.imm) = Immediate => LengthRead = size(i) /\ size(i) = Len(code)
<1>1. /\ opcode = o
      /\ size(i) = Len(code) /\ Len(code) \in Nat
      /\ Len(Rest) = Len(i.modrm) + Len(i.sib) + Len(i.imm)
      /\ i.modrm # <<>> => Rest[1] = i.modrm[1]
  BY ReadShaped
<1>2. /\ Len(i.modrm) = 1 /\ i.modrm # <<>> /\ i.modrm[1].mod = 3
      /\ i.modrm[1].rm = rm % 8 /\ i.modrm[1].reg = reg % 8
  <2> DEFINE m == ModRM(rm, reg, 3)
  <2>1. 3 \in 0 .. 3
    OBVIOUS
  <2>2. Len(m) = 1 /\ m # <<>> /\ m[1].rm = rm % 8 /\ m[1].reg = reg % 8 /\ m[1].mod = 3
    BY <2>1, ModRMByte
  <2>3. i.modrm = m
    OBVIOUS
  <2> HIDE DEF m
  <2> QED BY <2>2, <2>3
<1>3. Rest[1].rm = rm % 8 /\ Rest[1].reg = reg % 8 /\ Rest[1].mod = 3
  BY <1>1, <1>2
<1>4. ~InOpcode
  BY <1>1 DEF InOpcode, OpcodeOnly
<1>5. ~InMemory
  BY <1>3 DEF InMemory, Mod
<1>6. ~HasSib /\ Displacement = 0
  BY <1>5 DEF HasSib, Displacement
<1>7. Len(Rest) = 1 + Len(i.imm) /\ Len(i.imm) \in Nat
  <2>1. Len(i.imm) \in Nat
    BY EmptySeq DEF Shaped
  <2>2. Len(i.sib) = 0 /\ Len(i.modrm) = 1
    BY <1>2, Nothing
  <2>3. Len(Rest) = Len(i.modrm) + Len(i.sib) + Len(i.imm)
    BY <1>1
  <2> QED BY <2>1, <2>2, <2>3
<1>8. ASSUME Len(i.imm) = Immediate PROVE LengthRead = Len(code)
  <2>1. LengthRead = Len(code) - Len(Rest) + 1 + 0 + 0 + Immediate
    BY <1>4, <1>6 DEF LengthRead
  <2>2. Len(code) \in Nat
    BY <1>1
  <2> QED BY <1>7, <1>8, <2>1, <2>2
<1> QED BY <1>1, <1>3, <1>4, <1>5, <1>8

\* An instruction without one
LEMMA ReadInOpcode ==
  ASSUME NEW i, NEW q, NEW a, NEW c, NEW b, NEW n, NEW o, Shaped(i, q, a, c, b, n, o),
         code = emit_to(i), i.modrm = <<>>, i.sib = <<>>, o.what \in OpcodeOnly
  PROVE  /\ InOpcode /\ ~InMemory
         /\ Len(i.imm) = Immediate => LengthRead = size(i) /\ size(i) = Len(code)
<1>1. /\ opcode = o
      /\ size(i) = Len(code) /\ Len(code) \in Nat
      /\ Len(Rest) = Len(i.modrm) + Len(i.sib) + Len(i.imm)
  BY ReadShaped
<1>2. InOpcode /\ ~InMemory
  BY <1>1 DEF InOpcode, OpcodeOnly, InMemory
<1>3. ~HasSib /\ Displacement = 0
  BY <1>2 DEF HasSib, Displacement
<1>4. Len(Rest) = Len(i.imm) /\ Len(i.imm) \in Nat
  <2>1. Len(i.imm) \in Nat
    BY EmptySeq DEF Shaped
  <2>2. Len(i.sib) = 0 /\ Len(i.modrm) = 0
    BY Nothing
  <2> QED BY <1>1, <2>1, <2>2
<1>5. ASSUME Len(i.imm) = Immediate PROVE LengthRead = Len(code)
  <2>1. LengthRead = Len(code) - Len(Rest) + 0 + 0 + 0 + Immediate
    BY <1>2, <1>3 DEF LengthRead
  <2> QED BY <1>1, <1>4, <1>5, <2>1
<1> QED BY <1>1, <1>2, <1>5

-----------------------------------------------------------------------------
(***************************************************************************)
(* Registers.                                                              *)
(***************************************************************************)

\* The bits of a register's number are in a field and in the prefix, and its
\* class in the opcode and the prefixes.
LEMMA ReadRegister ==
  ASSUME NEW r \in Registers, NEW bit,
         Class = (IF SizeOf[r.class] = 1 THEN "r8" ELSE r.class),
         bit \in Bits <=> is_extended(Code(r)),
         r.class = "r8h" => ~HasRex,
         add_rex(r) => HasRex
  PROVE  Named(Code(r).value % 8, bit) = r
<1>1. CASE r.class = "r8h"
  <2>1. r.value \in 0 .. 3 /\ r = Reg("r8h", r.value)
    BY <1>1 DEF Registers, Normal, Reg
  <2>2. Code(r).value = r.value + 4 /\ (r.value + 4) % 8 = r.value + 4
    BY <1>1, <2>1 DEF Code, Reg
  <2>3. Class = "r8" /\ ~HasRex
    BY <1>1 DEF SizeOf
  <2>4. Named(r.value + 4, bit) = Reg("r8h", r.value + 4 - 4)
    BY <2>1, <2>3 DEF Named
  <2> QED BY <2>1, <2>2, <2>4
<1>2. CASE r.class # "r8h"
  <2>1. /\ r.value \in 0 .. 15 /\ r = Reg(r.class, r.value) /\ Code(r) = r
        /\ r.class \in {"r64", "r32", "r16", "r8"}
    BY <1>2 DEF Registers, Normal, Reg, Code
  <2>2. Class = r.class
    BY <2>1 DEF SizeOf
  <2>3. (r.value % 8) + Extra(bit) = r.value
    BY <2>1 DEF Extra, is_extended
  <2>4. ~(Class = "r8" /\ ~HasRex /\ r.value % 8 \in 4 .. 7)
    <3>1. ASSUME r.class = "r8", ~HasRex, r.value % 8 \in 4 .. 7 PROVE FALSE
      <4>1. r.value >= 4
        BY <2>1, <3>1
      <4> QED BY <3>1, <4>1 DEF add_rex
    <3> QED BY <2>2, <3>1
  <2>5. Named(r.value % 8, bit) = Reg(Class, (r.value % 8) + Extra(bit))
    BY <2>4 DEF Named
  <2> QED BY <2>1, <2>2, <2>3, <2>5
<1> QED BY <1>1, <1>2

\* The class of a register in an opcode that has two forms, of a byte and wide.
LEMMA ReadClass ==
  ASSUME NEW r \in Registers,
         opcode.byte <=> SizeOf[r.class] = 1,
         opcode.what \notin {"jmp", "push", "pop"},
         "w" \in Bits <=> SizeOf[r.class] = 8,
         Has(After67, "66") <=> SizeOf[r.class] = 2
  PROVE  Class = IF SizeOf[r.class] = 1 THEN "r8" ELSE r.class
<1>1. r.class \in {"r64", "r32", "r16", "r8", "r8h"}
  BY DEF Registers, Normal
<1>2. CASE r.class \in {"r8", "r8h"}
  BY <1>2 DEF Class, SizeOf
<1>3. CASE r.class = "r64"
  BY <1>3 DEF Class, SizeOf
<1>4. CASE r.class = "r32"
  BY <1>4 DEF Class, SizeOf
<1>5. CASE r.class = "r16"
  BY <1>5 DEF Class, SizeOf
<1> QED BY <1>1, <1>2, <1>3, <1>4, <1>5

LEMMA RegisterParts ==
  ASSUME NEW r \in Registers
  PROVE  /\ r.class \in {"r64", "r32", "r16", "r8", "r8h"} /\ r.value \in 0 .. 15
         /\ Code(r).value \in 0 .. 15 /\ Code(r).class = r.class
         /\ SizeOf[r.class] \in {1, 2, 4, 8}
         /\ SizeOf[r.class] = 1 <=> r.class \in {"r8", "r8h"}
         /\ SizeOf[r.class] = 8 <=> r.class = "r64"
         /\ SizeOf[r.class] = 2 <=> r.class = "r16"
         /\ ~is_extended(Zero(r)) /\ ~add_rex(Zero(r)) /\ ~is_extended(Zero(Code(r))) /\ ~add_rex(Zero(Code(r)))
         /\ add_rex(Code(r)) <=> add_rex(r)
         /\ r.class = "r8h" => ~is_extended(Code(r)) /\ ~add_rex(r)
         /\ is_extended(r) => is_extended(Code(r))
<1>1. r.class \in {"r64", "r32", "r16", "r8", "r8h"} /\ r.value \in 0 .. 15 /\ (r.class = "r8h" => r.value \in 0 .. 3)
  BY DEF Registers, Normal
<1>2. Code(r).value \in 0 .. 15 /\ Code(r).class = r.class
  BY <1>1 DEF Code, Reg
<1>3. /\ SizeOf[r.class] \in {1, 2, 4, 8}
      /\ SizeOf[r.class] = 1 <=> r.class \in {"r8", "r8h"}
      /\ SizeOf[r.class] = 8 <=> r.class = "r64"
      /\ SizeOf[r.class] = 2 <=> r.class = "r16"
  BY <1>1 DEF SizeOf
<1>4. ~is_extended(Zero(r)) /\ ~add_rex(Zero(r)) /\ ~is_extended(Zero(Code(r))) /\ ~add_rex(Zero(Code(r)))
  BY DEF is_extended, add_rex, Zero, Reg
<1>5. add_rex(Code(r)) <=> add_rex(r)
  BY <1>1 DEF add_rex, Code, Reg
<1>6. r.class = "r8h" => ~is_extended(Code(r)) /\ ~add_rex(r)
  BY <1>1 DEF add_rex, is_extended, Code, Reg
<1>7. is_extended(r) => is_extended(Code(r))
  BY <1>1 DEF is_extended, Code, Reg
<1> QED BY <1>1, <1>2, <1>3, <1>4, <1>5, <1>6, <1>7

LEMMA CodeValue ==
  ASSUME NEW r \in Registers
  PROVE  Code(r).value \in Int
BY RegisterParts

-----------------------------------------------------------------------------
(***************************************************************************)
(* The opcodes the constructors make, as bytes with prefixes.              *)
(***************************************************************************)
LEMMA OpcodeByte ==
  ASSUME NEW what \in OpcodeNames, NEW low \in 0 .. 15
  PROVE  /\ \E o \in Ops : o.what = what /\ o.low = low /\ ~o.byte /\ Op(what, FALSE, low) = <<o>>
         /\ \E o \in Ops : o.what = what /\ o.low = low /\ o.byte /\ Op(what, TRUE, low) = <<o>>
BY DEF Op, Ops

LEMMA WideByte ==
  ASSUME NEW what \in OpcodeNames, NEW low \in 0 .. 15, NEW r
  PROVE  \E o \in Ops : /\ o.what = what /\ o.low = low /\ (o.byte <=> SizeOf[r.class] = 1)
                        /\ Op(what, SizeOf[r.class] = 1, low) = <<o>>
<1>1. CASE SizeOf[r.class] = 1
  BY <1>1 DEF Op, Ops
<1>2. CASE SizeOf[r.class] # 1
  <2>1. (SizeOf[r.class] = 1) = FALSE
    BY <1>2
  <2>2. Op(what, SizeOf[r.class] = 1, low) = Op(what, FALSE, low)
    BY <2>1, Zenon
  <2>3. PICK o \in Ops : o.what = what /\ o.low = low /\ ~o.byte /\ Op(what, FALSE, low) = <<o>>
    BY OpcodeByte
  <2> QED BY <1>2, <2>2, <2>3
<1> QED BY <1>1, <1>2

LEMMA WideOpcode ==
  ASSUME NEW what \in OpcodeNames, NEW r
  PROVE  \E o \in Ops : /\ o.what = what /\ o.low = 0 /\ (o.byte <=> SizeOf[r.class] = 1)
                        /\ Wide(what, r) = <<o>>
BY WideByte DEF Wide

LEMMA PlainOpcode ==
  ASSUME NEW what \in OpcodeNames
  PROVE  \E o \in Ops : o.what = what /\ o.low = 0 /\ ~o.byte /\ Opcode(what) = <<o>>
<1>1. 0 \in 0 .. 15
  OBVIOUS
<1> QED BY <1>1, OpcodeByte DEF Opcode

LEMMA PrefixBytes ==
  ASSUME NEW a, NEW c, NEW b, NEW n, NEW o \in Ops
  PROVE  /\ x64_add_rex(a, c, b, n) \o <<o>> = WithPrefixes({}, a, c, b, n, o)
         /\ add_prefixes(a, b) \o <<o>> =
              WithPrefixes(IF SizeOf[a.class] = 2 THEN {"66"} ELSE {}, a, Zero(a), b, SizeOf[a.class], o)
         /\ add_prefixes(a, b) \o (<<[b |-> "0f"]>> \o <<o>>) =
              WithPrefixes({"0f"} \cup IF SizeOf[a.class] = 2 THEN {"66"} ELSE {},
                           a, Zero(a), b, SizeOf[a.class], o)
<1>1. \A s \in Seq(Bytes) : <<>> \o s = s
  BY ConcatEmptySeq
<1>2. o \in Bytes /\ [b |-> "66"] \in Bytes /\ [b |-> "0f"] \in Bytes
  BY DEF Bytes, Prefixes
<1>3. \A y \in Bytes : <<y>> \in Seq(Bytes)
  OBVIOUS
<1>4. <<>> \in Seq(Bytes)
  OBVIOUS
<1>5. ASSUME NEW d, NEW k PROVE x64_add_rex(a, d, b, k) \in Seq(Bytes)
  <2>1. RexByte(RexBits(a, d, b, k)) \in Bytes
    BY DEF Bytes, Prefixes, RexBits, Flag
  <2>2. x64_add_rex(a, d, b, k) \in {<<>>, <<RexByte(RexBits(a, d, b, k))>>}
    BY DEF x64_add_rex, RexBits, RexByte, If
  <2> QED BY <1>3, <1>4, <2>1, <2>2
<1>6. x64_add_rex(a, c, b, n) \o <<o>> = WithPrefixes({}, a, c, b, n, o)
  <2>1. WithPrefixes({}, a, c, b, n, o) = ((<<>> \o <<>>) \o x64_add_rex(a, c, b, n)) \o (<<>> \o <<o>>)
    BY DEF WithPrefixes, If
  <2> QED BY <1>1, <1>2, <1>3, <1>4, <1>5, <2>1
<1>7. ASSUME NEW w \in {<<>>, <<[b |-> "66"]>>} PROVE <<>> \o w = w
  BY <1>1, <1>2, <1>3, <1>4
<1> DEFINE w == If(SizeOf[a.class] = 2, <<[b |-> "66"]>>)
           q == IF SizeOf[a.class] = 2 THEN {"66"} ELSE {}
<1>8. <<>> \o w = w
  BY <1>7 DEF If
<1>9. add_prefixes(a, b) = w \o x64_add_rex(a, Zero(a), b, SizeOf[a.class])
  BY DEF add_prefixes
<1>10. If("66" \in q, <<[b |-> "66"]>>) = w /\ "67" \notin q /\ "0f" \notin q
  BY DEF If
<1> HIDE DEF w
<1>11. add_prefixes(a, b) \o <<o>> = WithPrefixes(q, a, Zero(a), b, SizeOf[a.class], o)
  <2>1. WithPrefixes(q, a, Zero(a), b, SizeOf[a.class], o) =
          ((<<>> \o w) \o x64_add_rex(a, Zero(a), b, SizeOf[a.class])) \o (<<>> \o <<o>>)
    BY <1>10 DEF WithPrefixes, If
  <2>2. <<>> \o <<o>> = <<o>>
    BY <1>1, <1>2, <1>3
  <2> QED BY <1>8, <1>9, <2>1, <2>2
<1>12. add_prefixes(a, b) \o (<<[b |-> "0f"]>> \o <<o>>) =
        WithPrefixes({"0f"} \cup q, a, Zero(a), b, SizeOf[a.class], o)
  <2>1. WithPrefixes({"0f"} \cup q, a, Zero(a), b, SizeOf[a.class], o) =
          ((<<>> \o If("66" \in q, <<[b |-> "66"]>>)) \o x64_add_rex(a, Zero(a), b, SizeOf[a.class]))
            \o (<<[b |-> "0f"]>> \o <<o>>)
    BY <1>10 DEF WithPrefixes, If
  <2> QED BY <1>8, <1>9, <1>10, <2>1
<1> QED BY <1>6, <1>11, <1>12

\* add_prefixes() and an opcode, of one byte or two
LEMMA AddPrefixes ==
  ASSUME NEW r \in Registers, NEW a \in {r, Code(r)}, NEW b, NEW o \in Ops, NEW q \in SUBSET {"66"},
         "66" \in q <=> SizeOf[r.class] = 2
  PROVE  /\ add_prefixes(a, b) \o <<o>> = WithPrefixes(q, a, Zero(a), b, SizeOf[r.class], o)
         /\ add_prefixes(a, b) \o (<<[b |-> "0f"]>> \o <<o>>) =
              WithPrefixes(q \cup {"0f"}, a, Zero(a), b, SizeOf[r.class], o)
<1>1. a.class = r.class
  BY RegisterParts
<1>2. q = IF SizeOf[a.class] = 2 THEN {"66"} ELSE {}
  BY <1>1
<1>3. q \cup {"0f"} = {"0f"} \cup IF SizeOf[a.class] = 2 THEN {"66"} ELSE {}
  BY <1>2
<1>4. /\ add_prefixes(a, b) \o <<o>> =
           WithPrefixes(IF SizeOf[a.class] = 2 THEN {"66"} ELSE {}, a, Zero(a), b, SizeOf[a.class], o)
      /\ add_prefixes(a, b) \o (<<[b |-> "0f"]>> \o <<o>>) =
           WithPrefixes({"0f"} \cup IF SizeOf[a.class] = 2 THEN {"66"} ELSE {},
                        a, Zero(a), b, SizeOf[a.class], o)
  BY PrefixBytes
<1> QED BY <1>1, <1>2, <1>3, <1>4

\* Opcodes without REX
Eax == Reg("r32", 0)

LEMMA NoRexBytes ==
  ASSUME NEW o \in Ops
  PROVE  /\ <<o>> = WithPrefixes({}, Eax, Eax, Eax, 4, o)
         /\ <<[b |-> "0f"]>> \o <<o>> = WithPrefixes({"0f"}, Eax, Eax, Eax, 4, o)
         /\ <<[b |-> "66"]>> \o <<o>> = WithPrefixes({"66"}, Eax, Eax, Eax, 4, o)
<1>1. \A s \in Seq(Bytes) : <<>> \o s = s /\ s \o <<>> = s
  BY ConcatEmptySeq
<1>2. <<>> \in Seq(Bytes) /\ <<o>> \in Seq(Bytes) /\ <<[b |-> "66"]>> \in Seq(Bytes) /\ <<[b |-> "0f"]>> \in Seq(Bytes)
  <2>1. o \in Bytes /\ [b |-> "66"] \in Bytes /\ [b |-> "0f"] \in Bytes
    BY DEF Bytes, Prefixes
  <2>2. \A y \in Bytes : <<y>> \in Seq(Bytes)
    OBVIOUS
  <2>3. <<>> \in Seq(Bytes)
    OBVIOUS
  <2> QED BY <2>1, <2>2, <2>3
<1>3. x64_add_rex(Eax, Eax, Eax, 4) = <<>>
  BY DEF x64_add_rex, Eax, Reg, is_extended, add_rex, Flag, If
<1>4. /\ WithPrefixes({}, Eax, Eax, Eax, 4, o) = ((<<>> \o <<>>) \o <<>>) \o (<<>> \o <<o>>)
      /\ WithPrefixes({"0f"}, Eax, Eax, Eax, 4, o) = ((<<>> \o <<>>) \o <<>>) \o (<<[b |-> "0f"]>> \o <<o>>)
      /\ WithPrefixes({"66"}, Eax, Eax, Eax, 4, o) = ((<<>> \o <<[b |-> "66"]>>) \o <<>>) \o (<<>> \o <<o>>)
  BY <1>3 DEF WithPrefixes, If
<1>5. <<>> \o <<>> = <<>> /\ <<>> \o <<o>> = <<o>>
  BY <1>1, <1>2
<1>6. (<<>> \o <<[b |-> "66"]>>) \o <<>> = <<[b |-> "66"]>>
  BY <1>1, <1>2
<1>7. <<>> \o (<<[b |-> "0f"]>> \o <<o>>) = <<[b |-> "0f"]>> \o <<o>>
  <2>1. <<[b |-> "0f"]>> \o <<o>> \in Seq(Bytes)
    BY <1>2, ConcatProperties
  <2> QED BY <1>1, <2>1
<1> QED BY <1>4, <1>5, <1>6, <1>7

-----------------------------------------------------------------------------
(***************************************************************************)
(* Operands in registers.                                                  *)
(***************************************************************************)

\* The operand whose extension bit is b, and the class of the operands.
LEMMA ReadFirst ==
  ASSUME NEW i, NEW q, NEW b, NEW o, NEW r \in Registers,
         Shaped(i, q, Code(r), Zero(Code(r)), b, SizeOf[r.class], o), code = emit_to(i),
         "66" \in q <=> SizeOf[r.class] = 2,
         o.byte <=> SizeOf[r.class] = 1, o.what \notin {"jmp", "push", "pop"},
         r.class = "r8h" => ~is_extended(b) /\ ~add_rex(b)
  PROVE  /\ Class = IF SizeOf[r.class] = 1 THEN "r8" ELSE r.class
         /\ Named(Code(r).value % 8, "b") = r
<1>1. /\ Has(After67, "66") <=> "66" \in q
      /\ "b" \in Bits <=> is_extended(Code(r))
      /\ "x" \in Bits <=> is_extended(Zero(Code(r)))
      /\ "r" \in Bits <=> is_extended(b)
      /\ "w" \in Bits <=> SizeOf[r.class] = 8
      /\ Bits \in SUBSET {"b", "r", "x", "w"}
      /\ HasRex <=> Bits # {} \/ add_rex(Code(r)) \/ add_rex(Zero(Code(r))) \/ add_rex(b)
      /\ opcode = o
  BY ReadShaped
<1>2. Class = IF SizeOf[r.class] = 1 THEN "r8" ELSE r.class
  BY <1>1, ReadClass
<1>3. r.class = "r8h" => ~HasRex
  <2> SUFFICES ASSUME r.class = "r8h" PROVE ~HasRex
    OBVIOUS
  <2>1. /\ ~is_extended(Code(r)) /\ ~add_rex(Code(r)) /\ SizeOf[r.class] # 8
        /\ ~is_extended(Zero(Code(r))) /\ ~add_rex(Zero(Code(r)))
    BY RegisterParts
  <2>2. Bits = {}
    BY <1>1, <2>1
  <2> QED BY <1>1, <2>1, <2>2
<1>4. add_rex(r) => HasRex
  BY <1>1, RegisterParts
<1>5. Named(Code(r).value % 8, "b") = r
  BY <1>1, <1>2, <1>3, <1>4, ReadRegister
<1> QED BY <1>2, <1>5

\* The two registers of a ModRM byte
LEMMA ReadSecond ==
  ASSUME NEW i, NEW q, NEW o, NEW r \in Registers, NEW s \in Registers,
         Shaped(i, q, Code(r), Zero(Code(r)), Code(s), SizeOf[r.class], o), code = emit_to(i),
         "66" \in q <=> SizeOf[r.class] = 2,
         o.byte <=> SizeOf[r.class] = 1, o.what \notin {"jmp", "push", "pop"},
         SizeOf[r.class] = SizeOf[s.class], ~NoRex(r, s)
  PROVE  /\ Named(Code(r).value % 8, "b") = r
         /\ Named(Code(s).value % 8, "r") = s
         /\ Class = IF SizeOf[r.class] = 1 THEN "r8" ELSE r.class
<1>1. /\ "b" \in Bits <=> is_extended(Code(r))
      /\ "x" \in Bits <=> is_extended(Zero(Code(r)))
      /\ "r" \in Bits <=> is_extended(Code(s))
      /\ "w" \in Bits <=> SizeOf[r.class] = 8
      /\ Bits \in SUBSET {"b", "r", "x", "w"}
      /\ HasRex <=> Bits # {} \/ add_rex(Code(r)) \/ add_rex(Zero(Code(r))) \/ add_rex(Code(s))
  BY ReadShaped
\* Next to ah, ch, dh or bh no register needs the prefix.
<1>2. ASSUME NEW u \in {r, s}, r.class = "r8h" \/ s.class = "r8h"
      PROVE  ~is_extended(Code(u)) /\ ~add_rex(Code(u))
  <2>1. ~add_rex(u)
    BY <1>2 DEF NoRex, WithHigh
  <2>2. SizeOf[u.class] = 1 /\ u \in Registers
    BY <1>2, RegisterParts
  <2>3. u.class \in {"r8", "r8h"}
    BY <2>2, RegisterParts
  <2>4. ~is_extended(Code(u))
    <3>1. CASE u.class = "r8h"
      BY <2>2, <3>1, RegisterParts
    <3>2. CASE u.class = "r8"
      <4>1. Code(u) = u /\ u.value \in 0 .. 15 /\ ~(u.value >= 4)
        BY <2>1, <2>2, <3>2, RegisterParts DEF Code, add_rex
      <4> QED BY <4>1 DEF is_extended
    <3> QED BY <2>3, <3>1, <3>2
  <2> QED BY <2>1, <2>2, <2>4, RegisterParts
<1>3. /\ Class = IF SizeOf[r.class] = 1 THEN "r8" ELSE r.class
      /\ Named(Code(r).value % 8, "b") = r
  <2>1. r.class = "r8h" => ~is_extended(Code(s)) /\ ~add_rex(Code(s))
    BY <1>2
  <2> QED BY <2>1, ReadFirst
<1>4. Class = IF SizeOf[s.class] = 1 THEN "r8" ELSE s.class
  <2>1. SizeOf[s.class] = SizeOf[r.class] /\ SizeOf[r.class] # 1 => r.class = s.class
    BY RegisterParts DEF SizeOf
  <2> QED BY <1>3, <2>1
<1>5. s.class = "r8h" => ~HasRex
  <2> SUFFICES ASSUME s.class = "r8h" PROVE ~HasRex
    OBVIOUS
  <2>1. /\ ~is_extended(Code(r)) /\ ~add_rex(Code(r)) /\ ~is_extended(Code(s)) /\ ~add_rex(Code(s))
        /\ SizeOf[r.class] # 8 /\ ~is_extended(Zero(Code(r))) /\ ~add_rex(Zero(Code(r)))
    BY <1>2, RegisterParts
  <2>2. Bits = {}
    BY <1>1, <2>1
  <2> QED BY <1>1, <2>1, <2>2
<1>6. add_rex(s) => HasRex
  BY <1>1, RegisterParts
<1>7. Named(Code(s).value % 8, "r") = s
  BY <1>1, <1>4, <1>5, <1>6, ReadRegister
<1> QED BY <1>3, <1>7

-----------------------------------------------------------------------------
(***************************************************************************)
(* The forms of instructions, one by one.                                  *)
(***************************************************************************)

\* TypeOK of the object i
Fits(i) ==
  /\ Len(i.opcode) <= 15 /\ Len(i.imm) <= 8
  /\ i.modrm # <<>> => i.modrm[1].rm \in 0 .. 7 /\ i.modrm[1].reg \in 0 .. 7
  /\ i.sib # <<>> => i.sib[1].base \in 0 .. 7 /\ i.sib[1].index \in 0 .. 7

\* What the processor makes of the bytes of i
WellRead(i) == (OperandsRead \/ Exceptions) /\ LengthRead = size(i) /\ size(i) = Len(code)

Correct(i) == i # Thrown /\ Fits(i) /\ (code = emit_to(i) => WellRead(i))

LEMMA DirectFields ==
  ASSUME NEW oc, NEW m, NEW im
  PROVE  /\ Direct(oc, m, im).opcode = oc /\ Direct(oc, m, im).modrm = m
         /\ Direct(oc, m, im).sib = <<>> /\ Direct(oc, m, im).imm = im
BY DEF Direct

LEMMA DirectFits ==
  ASSUME NEW i, NEW q, NEW a, NEW c, NEW b, NEW n, NEW o, Shaped(i, q, a, c, b, n, o),
         NEW rm \in Int, NEW reg \in Int, i.modrm \in {<<>>, ModRM(rm, reg, 3)}, i.sib = <<>>, Len(i.imm) <= 8
  PROVE  i # Thrown /\ Fits(i)
<1>1. 3 \in 0 .. 3
  OBVIOUS
<1>2. ModRM(rm, reg, 3)[1].rm \in 0 .. 7 /\ ModRM(rm, reg, 3)[1].reg \in 0 .. 7
  BY <1>1, ModRMByte
<1>3. Len(i.opcode) <= 15 /\ i # Thrown
  BY ShapedFits
<1> QED BY <1>2, <1>3 DEF Fits

\* A ModRM byte that names two registers
NamesTwo(i, r, s, o) ==
  /\ r \in Registers /\ s \in Registers /\ SizeOf[r.class] = SizeOf[s.class] /\ ~NoRex(r, s)
  /\ o \in Ops /\ (o.byte <=> SizeOf[r.class] = 1) /\ o.what \notin OpcodeOnly \cup {"jmp", "push", "pop"}
  /\ i.opcode \in {add_prefixes(Code(r), Code(s)) \o <<o>>,
                   add_prefixes(Code(r), Code(s)) \o (<<[b |-> "0f"]>> \o <<o>>)}
  /\ i.modrm = ModRM(Code(r).value, Code(s).value, 3) /\ i.sib = <<>>
  /\ i.imm \in Seq(Bytes) /\ Len(i.imm) <= 8

LEMMA TwoRegisters ==
  ASSUME NEW i, NEW r, NEW s, NEW o, NamesTwo(i, r, s, o)
  PROVE  /\ i # Thrown /\ Fits(i)
         /\ code = emit_to(i) =>
              /\ ~InMemory /\ ~InOpcode /\ opcode = o
              /\ Register = r /\ Named(Rest[1].reg, "r") = s
              /\ Class = IF SizeOf[r.class] = 1 THEN "r8" ELSE r.class
              /\ Len(i.imm) = Immediate => LengthRead = size(i) /\ size(i) = Len(code)
              /\ i.imm # <<>> => code[Len(code)] = i.imm[Len(i.imm)]
<1> DEFINE w == IF SizeOf[r.class] = 2 THEN {"66"} ELSE {}
<1> USE DEF NamesTwo
<1>1. w \in SUBSET {"66"} /\ ("66" \in w <=> SizeOf[r.class] = 2)
  OBVIOUS
<1> HIDE DEF w
<1>2. Code(r).value \in Int /\ Code(s).value \in Int
  BY RegisterParts
<1>3. PICK q \in {w, w \cup {"0f"}} : i.opcode = WithPrefixes(q, Code(r), Zero(Code(r)), Code(s), SizeOf[r.class], o)
  <2>1. Code(r) \in {r, Code(r)}
    OBVIOUS
  <2>2. /\ add_prefixes(Code(r), Code(s)) \o <<o>> = WithPrefixes(w, Code(r), Zero(Code(r)), Code(s), SizeOf[r.class], o)
        /\ add_prefixes(Code(r), Code(s)) \o (<<[b |-> "0f"]>> \o <<o>>) =
             WithPrefixes(w \cup {"0f"}, Code(r), Zero(Code(r)), Code(s), SizeOf[r.class], o)
    BY <1>1, <2>1, AddPrefixes
  <2> QED BY <2>2
<1>4. Shaped(i, q, Code(r), Zero(Code(r)), Code(s), SizeOf[r.class], o)
  <2>1. 3 \in 0 .. 3
    OBVIOUS
  <2>2. ModRM(Code(r).value, Code(s).value, 3) \in Seq(Bytes)
    BY <1>2, <2>1, ModRMByte
  <2>3. q \in SUBSET {"67", "66", "0f"}
    BY <1>1
  <2> QED BY <1>3, <2>2, <2>3, Nothing DEF Shaped
<1>5. i # Thrown /\ Fits(i)
  BY <1>2, <1>4, DirectFits
<1>6. ASSUME code = emit_to(i)
      PROVE  /\ ~InMemory /\ ~InOpcode /\ opcode = o
             /\ Register = r /\ Named(Rest[1].reg, "r") = s
             /\ Class = IF SizeOf[r.class] = 1 THEN "r8" ELSE r.class
             /\ Len(i.imm) = Immediate => LengthRead = size(i) /\ size(i) = Len(code)
             /\ i.imm # <<>> => code[Len(code)] = i.imm[Len(i.imm)]
  <2>1. opcode = o /\ (i.imm # <<>> => code[Len(code)] = i.imm[Len(i.imm)])
    BY <1>4, <1>6, ReadOpcode
  <2>2. /\ ~InOpcode /\ ~InMemory
        /\ Rest[1].rm = Code(r).value % 8 /\ Rest[1].reg = Code(s).value % 8
        /\ Len(i.imm) = Immediate => LengthRead = size(i) /\ size(i) = Len(code)
    BY <1>2, <1>4, <1>6, ReadDirect
  <2>3. /\ Named(Code(r).value % 8, "b") = r /\ Named(Code(s).value % 8, "r") = s
        /\ Class = IF SizeOf[r.class] = 1 THEN "r8" ELSE r.class
    <3>1. "66" \in q <=> SizeOf[r.class] = 2
      BY <1>1
    <3> QED BY <1>4, <1>6, <3>1, ReadSecond
  <2>4. Register = r
    BY <2>2, <2>3 DEF Register
  <2> QED BY <2>1, <2>2, <2>3, <2>4
<1> QED BY <1>5, <1>6

\* A ModRM byte that names a register, next to an opcode extension, or an opcode
\* that holds the register
NamesOne(i, r, b, reg, o) ==
  /\ r \in Registers /\ ~is_extended(b) /\ ~add_rex(b) /\ reg \in Int
  /\ o \in Ops /\ (o.byte <=> SizeOf[r.class] = 1) /\ o.what \notin {"jmp", "push", "pop"}
  /\ i.opcode = add_prefixes(Code(r), b) \o <<o>>
  /\ \/ o.what \notin OpcodeOnly /\ i.modrm = ModRM(Code(r).value, reg, 3)
     \/ o.what \in OpcodeOnly /\ i.modrm = <<>> /\ o.low = Code(r).value % 8
  /\ i.sib = <<>> /\ i.imm \in Seq(Bytes) /\ Len(i.imm) <= 8

LEMMA OneRegister ==
  ASSUME NEW i, NEW r, NEW b, NEW reg, NEW o, NamesOne(i, r, b, reg, o)
  PROVE  /\ i # Thrown /\ Fits(i)
         /\ code = emit_to(i) =>
              /\ ~InMemory /\ opcode = o /\ Register = r
              /\ o.what \notin OpcodeOnly => Rest[1].reg = reg % 8
              /\ Class = IF SizeOf[r.class] = 1 THEN "r8" ELSE r.class
              /\ Len(i.imm) = Immediate => LengthRead = size(i) /\ size(i) = Len(code)
              /\ i.imm # <<>> => code[Len(code)] = i.imm[Len(i.imm)]
<1> DEFINE q == IF SizeOf[r.class] = 2 THEN {"66"} ELSE {}
<1> USE DEF NamesOne
<1>1. q \in SUBSET {"66"} /\ ("66" \in q <=> SizeOf[r.class] = 2)
  OBVIOUS
<1> HIDE DEF q
<1>2. Code(r).value \in Int
  <2>1. r \in Registers
    OBVIOUS
  <2> QED BY <2>1, CodeValue
<1>3. i.opcode = WithPrefixes(q, Code(r), Zero(Code(r)), b, SizeOf[r.class], o)
  <2>1. Code(r) \in {r, Code(r)}
    OBVIOUS
  <2>2. add_prefixes(Code(r), b) \o <<o>> = WithPrefixes(q, Code(r), Zero(Code(r)), b, SizeOf[r.class], o)
    BY <1>1, <2>1, AddPrefixes
  <2> QED BY <2>2
<1>4. Shaped(i, q, Code(r), Zero(Code(r)), b, SizeOf[r.class], o)
  <2>1. 3 \in 0 .. 3
    OBVIOUS
  <2>2. ModRM(Code(r).value, reg, 3) \in Seq(Bytes)
    BY <1>2, <2>1, ModRMByte
  <2> QED BY <1>1, <1>3, <2>2, Nothing DEF Shaped
<1>5. i # Thrown /\ Fits(i)
  BY <1>2, <1>4, DirectFits
<1>6. ASSUME code = emit_to(i)
      PROVE  /\ ~InMemory /\ opcode = o /\ Register = r
             /\ o.what \notin OpcodeOnly => Rest[1].reg = reg % 8
             /\ Class = IF SizeOf[r.class] = 1 THEN "r8" ELSE r.class
             /\ Len(i.imm) = Immediate => LengthRead = size(i) /\ size(i) = Len(code)
             /\ i.imm # <<>> => code[Len(code)] = i.imm[Len(i.imm)]
  <2>1. opcode = o /\ (i.imm # <<>> => code[Len(code)] = i.imm[Len(i.imm)])
    BY <1>4, <1>6, ReadShaped
  <2>2. /\ Named(Code(r).value % 8, "b") = r
        /\ Class = IF SizeOf[r.class] = 1 THEN "r8" ELSE r.class
    BY <1>1, <1>4, <1>6, ReadFirst
  <2>3. CASE o.what \notin OpcodeOnly /\ i.modrm = ModRM(Code(r).value, reg, 3)
    <3>1. /\ ~InOpcode /\ ~InMemory
          /\ Rest[1].rm = Code(r).value % 8 /\ Rest[1].reg = reg % 8
          /\ Len(i.imm) = Immediate => LengthRead = size(i) /\ size(i) = Len(code)
      BY <1>2, <1>4, <1>6, <2>3, ReadDirect
    <3>2. Register = r
      BY <2>2, <3>1 DEF Register
    <3> QED BY <2>1, <2>2, <3>1, <3>2
  <2>4. CASE o.what \in OpcodeOnly /\ i.modrm = <<>> /\ o.low = Code(r).value % 8
    <3>1. /\ InOpcode /\ ~InMemory
          /\ Len(i.imm) = Immediate => LengthRead = size(i) /\ size(i) = Len(code)
      BY <1>4, <1>6, <2>4, ReadInOpcode
    <3>2. Register = r
      BY <2>1, <2>2, <2>4, <3>1 DEF Register
    <3> QED BY <2>1, <2>2, <2>4, <3>1, <3>2
  <2> QED BY <2>3, <2>4
<1> QED BY <1>5, <1>6

\* The instruction, by its form and operands
IsRegReg(form, r, s) ==
  op.form = form /\ op.rm = r /\ op.reg = s /\ DOMAIN op = {"form", "rm", "reg"}
IsImulImm(r, s, x, n) ==
  /\ op.form = "imul_imm" /\ op.rm = r /\ op.reg = s /\ op.imm = x /\ op.size = n
  /\ DOMAIN op = {"form", "rm", "reg", "imm", "size"}
LEMMA RegRegCorrect ==
  ASSUME NEW r \in Registers, NEW s \in Registers, SizeOf[r.class] = SizeOf[s.class], ~NoRex(r, s),
         IsRegReg("reg_reg", r, s)
  PROVE  Correct(Encoded)
<1>1. PICK o \in Ops : /\ o.what = "store" /\ o.low = 0 /\ (o.byte <=> SizeOf[r.class] = 1)
                       /\ Wide("store", r) = <<o>>
  <2>1. "store" \in OpcodeNames
    BY DEF OpcodeNames
  <2> QED BY <2>1, WideOpcode
<1>2. /\ Encoded.opcode = add_prefixes(Code(r), Code(s)) \o <<o>>
      /\ Encoded.modrm = ModRM(Code(r).value, Code(s).value, 3)
      /\ Encoded.sib = <<>> /\ Encoded.imm = <<>>
  <2>1. Encoded = RegReg(r, s)
    BY DEF Encoded, IsRegReg
  <2> QED BY <1>1, <2>1 DEF RegReg, reg_reg, Direct
<1>3. o.what \notin OpcodeOnly \cup {"jmp", "push", "pop"} /\ Len(Encoded.imm) = 0
  BY <1>1, <1>2, Nothing DEF OpcodeOnly
<1>4. NamesTwo(Encoded, r, s, o)
  BY <1>1, <1>2, <1>3, Nothing DEF NamesTwo
<1>5. Encoded # Thrown /\ Fits(Encoded)
  BY <1>4, TwoRegisters
<1>6. ASSUME code = emit_to(Encoded) PROVE WellRead(Encoded)
  <2>1. /\ ~InMemory /\ opcode = o
        /\ Register = r /\ Named(Rest[1].reg, "r") = s
        /\ Len(Encoded.imm) = Immediate => LengthRead = size(Encoded) /\ size(Encoded) = Len(code)
    BY <1>4, <1>6, TwoRegisters
  <2>2. Immediate = 0
    BY <1>1, <2>1 DEF Immediate
  <2>3. OperandsRead
    BY <2>1 DEF OperandsRead, Addressing, IsRegReg
  <2> QED BY <1>3, <2>1, <2>2, <2>3 DEF WellRead
<1> QED BY <1>5, <1>6 DEF Correct

LEMMA ImulCorrect ==
  ASSUME NEW r \in WideRegisters, NEW s \in WideRegisters, r.class = s.class, IsRegReg("imul", r, s)
  PROVE  Correct(Encoded)
<1>1. /\ r \in Registers /\ s \in Registers /\ ~NoRex(r, s) /\ Code(r) = r /\ Code(s) = s
      /\ SizeOf[r.class] = SizeOf[s.class] /\ SizeOf[r.class] # 1
  BY DEF WideRegisters, Normal, NoRex, WithHigh, Code, SizeOf
<1>2. PICK o \in Ops : o.what = "imul" /\ ~o.byte /\ Opcode("imul") = <<o>>
  <2>1. "imul" \in OpcodeNames
    BY DEF OpcodeNames
  <2> QED BY <2>1, PlainOpcode
<1>3. /\ Encoded.opcode = add_prefixes(r, s) \o (<<[b |-> "0f"]>> \o <<o>>)
      /\ Encoded.modrm = ModRM(r.value, s.value, 3)
      /\ Encoded.sib = <<>> /\ Encoded.imm = <<>>
  <2>1. Encoded = reg_reg(r, s, <<[b |-> "0f"]>> \o Opcode("imul"))
    BY DEF Encoded, IsRegReg
  <2> QED BY <1>2, <2>1 DEF reg_reg, Direct
<1>4. o.what \notin OpcodeOnly \cup {"jmp", "push", "pop"} /\ Len(Encoded.imm) = 0
  BY <1>2, <1>3, Nothing DEF OpcodeOnly
<1>5. NamesTwo(Encoded, r, s, o)
  BY <1>1, <1>2, <1>3, <1>4, Nothing DEF NamesTwo
<1>6. Encoded # Thrown /\ Fits(Encoded)
  BY <1>5, TwoRegisters
<1>7. ASSUME code = emit_to(Encoded) PROVE WellRead(Encoded)
  <2>1. /\ ~InMemory /\ opcode = o
        /\ Register = r /\ Named(Rest[1].reg, "r") = s
        /\ Len(Encoded.imm) = Immediate => LengthRead = size(Encoded) /\ size(Encoded) = Len(code)
    BY <1>5, <1>7, TwoRegisters
  <2>2. Immediate = 0
    BY <1>2, <2>1 DEF Immediate
  <2>3. OperandsRead
    BY <2>1 DEF OperandsRead, Addressing, IsRegReg
  <2> QED BY <1>4, <2>1, <2>2, <2>3 DEF WellRead
<1> QED BY <1>6, <1>7 DEF Correct

LEMMA ImulImmCorrect ==
  ASSUME NEW r \in WideRegisters, NEW s \in WideRegisters, r.class = s.class,
         NEW x \in Int, NEW n \in {1, 2, 4}, n \in ArithSizes[r.class], IsImulImm(r, s, x, n)
  PROVE  Correct(Encoded)
<1> DEFINE what == IF n = 1 THEN "imul_short" ELSE "imul_imm"
<1>1. /\ r \in Registers /\ s \in Registers /\ ~NoRex(r, s) /\ Code(r) = r /\ Code(s) = s
      /\ SizeOf[r.class] = SizeOf[s.class] /\ SizeOf[r.class] # 1
  BY DEF WideRegisters, Normal, NoRex, WithHigh, Code, SizeOf
<1>2. PICK o \in Ops : o.what = what /\ ~o.byte /\ Opcode(what) = <<o>>
  <2>1. what \in OpcodeNames
    BY DEF OpcodeNames
  <2> HIDE DEF what
  <2> QED BY <2>1, PlainOpcode
<1>3. /\ Encoded.opcode = add_prefixes(r, s) \o <<o>>
      /\ Encoded.modrm = ModRM(r.value, s.value, 3)
      /\ Encoded.sib = <<>> /\ Encoded.imm = Imm(x, n)
  <2>1. Encoded = ImulImm(s, r, x, n)
    BY DEF Encoded, IsImulImm
  <2> QED BY <1>2, <2>1 DEF ImulImm, reg_reg, Direct
<1>4. /\ Len(Encoded.imm) = n /\ Encoded.imm \in Seq(Bytes) /\ Encoded.imm # <<>>
      /\ Encoded.imm[Len(Encoded.imm)].num = Written(x)
  <2>1. n \in {1, 2, 4, 8}
    OBVIOUS
  <2>2. /\ Imm(x, n) \in Seq(Bytes) /\ Len(Imm(x, n)) = n /\ Imm(x, n) # <<>>
        /\ Imm(x, n)[Len(Imm(x, n))].num = Written(x)
    BY <2>1, ImmBytes
  <2> QED BY <1>3, <2>2
<1>5. o.what \notin OpcodeOnly \cup {"jmp", "push", "pop"} /\ n <= 8
  BY <1>2 DEF OpcodeOnly
<1>6. NamesTwo(Encoded, r, s, o)
  BY <1>1, <1>2, <1>3, <1>4, <1>5 DEF NamesTwo
<1>7. Encoded # Thrown /\ Fits(Encoded)
  BY <1>6, TwoRegisters
<1>8. ASSUME code = emit_to(Encoded) PROVE WellRead(Encoded)
  <2>1. /\ ~InMemory /\ opcode = o
        /\ Register = r /\ Named(Rest[1].reg, "r") = s
        /\ Class = IF SizeOf[r.class] = 1 THEN "r8" ELSE r.class
        /\ Len(Encoded.imm) = Immediate => LengthRead = size(Encoded) /\ size(Encoded) = Len(code)
        /\ Encoded.imm # <<>> => code[Len(code)] = Encoded.imm[Len(Encoded.imm)]
    BY <1>6, <1>8, TwoRegisters
  <2>2. Immediate = n
    <3>1. CASE n = 1
      BY <1>2, <2>1, <3>1 DEF Immediate
    <3>2. CASE n # 1
      <4>1. n = IF r.class = "r64" THEN 4 ELSE SizeOf[r.class]
        BY <3>2 DEF WideRegisters, Normal, ArithSizes, SizeOf
      <4>2. Class = r.class
        BY <1>1, <2>1
      <4> QED BY <1>2, <2>1, <3>2, <4>1, <4>2 DEF Immediate
    <3> QED BY <3>1, <3>2
  <2>3. NumberMeant = Written(x)
    BY DEF NumberMeant, IsImulImm
  <2>4. OperandsRead
    BY <1>4, <2>1, <2>3 DEF OperandsRead, Addressing, IsImulImm
  <2> QED BY <1>4, <2>1, <2>2, <2>4 DEF WellRead
<1> QED BY <1>7, <1>8 DEF Correct

\* Of ah, ch, dh and bh neither the number nor the code is extended.
LEMMA CodePrefixes ==
  ASSUME NEW r \in Registers, NEW b
  PROVE  add_prefixes(r, b) = add_prefixes(Code(r), b)
<1>1. CASE r.class = "r8h"
  <2>1. /\ Code(r).class = r.class /\ ~is_extended(Code(r)) /\ ~add_rex(r) /\ ~add_rex(Code(r))
    BY <1>1, RegisterParts
  <2>2. ~is_extended(r) /\ Zero(Code(r)) = Zero(r)
    BY <1>1, <2>1, RegisterParts DEF Zero
  <2>3. x64_add_rex(r, Zero(r), b, SizeOf[r.class]) = x64_add_rex(Code(r), Zero(r), b, SizeOf[r.class])
    BY <2>1, <2>2 DEF x64_add_rex, If, Flag
  <2> QED BY <2>1, <2>2, <2>3 DEF add_prefixes
<1>2. CASE r.class # "r8h"
  BY <1>2 DEF Code
<1> QED BY <1>1, <1>2

LEMMA NumberOne ==
  ASSUME NEW x \in Int, NEW n \in {1, 2, 4, 8}, NEW i, i.imm = Imm(x, n)
  PROVE  /\ Len(i.imm) = n /\ Len(i.imm) <= 8 /\ i.imm \in Seq(Bytes) /\ i.imm # <<>>
         /\ i.imm[Len(i.imm)].num = Written(x)
<1>1. /\ Imm(x, n) \in Seq(Bytes) /\ Len(Imm(x, n)) = n /\ Imm(x, n) # <<>>
      /\ Imm(x, n)[Len(Imm(x, n))].num = Written(x)
  BY ImmBytes
<1> QED BY <1>1

IsRegImm(form, r, x, n) ==
  op.form = form /\ op.rm = r /\ op.imm = x /\ op.size = n

\* A narrow immediate is read with its sign, unless its highest bit is set.
LEMMA RegImmNumber ==
  ASSUME NEW form \in {"arith_imm", "mov_imm"}, NEW r, NEW x, NEW n, IsRegImm(form, r, x, n),
         code[Len(code)].num = Written(x), ~InMemory, Register = r,
         form = "arith_imm" => opcode.what = "arith_eax" \/ Rest[1].reg = op.ext
  PROVE  OperandsRead \/ Exceptions
<1>1. CASE x = High /\ n < SizeOf[r.class]
  BY <1>1 DEF Exceptions, SignExtended, IsRegImm
<1>2. CASE ~(x = High /\ n < SizeOf[r.class])
  <2>1. NumberMeant = Written(x)
    BY <1>2 DEF NumberMeant, Written, IsRegImm
  <2> QED BY <2>1 DEF OperandsRead, Addressing, IsRegImm
<1> QED BY <1>1, <1>2

LEMMA ArithImmCorrect ==
  ASSUME NEW r \in Registers, NEW e \in 0 .. 7, NEW x \in Int, NEW n \in {1, 2, 4}, n \in ArithSizes[r.class],
         IsRegImm("arith_imm", r, x, n), op.ext = e
  PROVE  Correct(Encoded)
<1> DEFINE full == n = SizeOf[r.class] \/ (r.class = "r64" /\ n = 4)
           b == Zero(Code(r))
           what == IF full THEN IF Code(r).value = 0 THEN "arith_eax" ELSE "arith" ELSE "arith_short"
<1>1. /\ r.class \in {"r64", "r32", "r16", "r8", "r8h"} /\ ~is_extended(b) /\ ~add_rex(b)
      /\ Code(r).value \in 0 .. 15
  BY RegisterParts
<1>2. /\ ~full => n = 1 /\ SizeOf[r.class] # 1
      /\ full => n = IF r.class = "r64" THEN 4 ELSE IF r.class = "r8h" THEN 1 ELSE SizeOf[r.class]
  BY <1>1 DEF ArithSizes, SizeOf
<1>3. PICK o \in Ops : /\ o.what = what /\ o.low = 0 /\ (o.byte <=> SizeOf[r.class] = 1)
                       /\ <<o>> = IF full THEN Wide(what, r) ELSE Opcode(what)
  <2>1. what \in OpcodeNames
    BY DEF OpcodeNames, OpcodeOnly
  <2>2. CASE full
    <3> HIDE DEF what
    <3>1. PICK o \in Ops : o.what = what /\ o.low = 0 /\ (o.byte <=> SizeOf[r.class] = 1) /\ Wide(what, r) = <<o>>
      BY <2>1, WideOpcode
    <3> QED BY <2>2, <3>1
  <2>3. CASE ~full
    <3> HIDE DEF what
    <3>1. PICK o \in Ops : o.what = what /\ o.low = 0 /\ ~o.byte /\ Opcode(what) = <<o>>
      BY <2>1, PlainOpcode
    <3>2. SizeOf[r.class] # 1
      BY <1>2, <2>3
    <3> QED BY <2>3, <3>1, <3>2
  <2> QED BY <2>2, <2>3
<1>4. /\ Encoded.opcode = add_prefixes(Code(r), b) \o <<o>>
      /\ Encoded.modrm = IF what = "arith_eax" THEN <<>> ELSE ModRM(Code(r).value, e, 3)
      /\ Encoded.sib = <<>> /\ Encoded.imm = Imm(x, n)
  <2>1. Encoded = ArithImm(r, e, x, n)
    BY DEF Encoded, IsRegImm
  <2>2. CASE full /\ Code(r).value = 0
    BY <1>3, <2>1, <2>2 DEF ArithImm, Direct
  <2>3. CASE full /\ Code(r).value # 0
    BY <1>3, <2>1, <2>3 DEF ArithImm, Direct
  <2>4. CASE ~full
    BY <1>3, <2>1, <2>4 DEF ArithImm, Direct
  <2> QED BY <2>2, <2>3, <2>4
<1>5. /\ Len(Encoded.imm) = n /\ Encoded.imm \in Seq(Bytes) /\ Encoded.imm # <<>> /\ Len(Encoded.imm) <= 8
      /\ Encoded.imm[Len(Encoded.imm)].num = Written(x)
  <2>1. n \in {1, 2, 4, 8}
    OBVIOUS
  <2> QED BY <1>4, <2>1, NumberOne
<1>6. /\ o.what \notin {"jmp", "push", "pop"}
      /\ \/ o.what \notin OpcodeOnly /\ Encoded.modrm = ModRM(Code(r).value, e, 3)
         \/ o.what \in OpcodeOnly /\ Encoded.modrm = <<>> /\ o.low = Code(r).value % 8
  BY <1>3, <1>4 DEF OpcodeOnly
<1>7. NamesOne(Encoded, r, b, e, o)
  <2>1. e \in Int
    OBVIOUS
  <2> QED BY <1>1, <1>3, <1>4, <1>5, <1>6, <2>1 DEF NamesOne
<1>8. Encoded # Thrown /\ Fits(Encoded)
  BY <1>7, OneRegister
<1>9. ASSUME code = emit_to(Encoded) PROVE WellRead(Encoded)
  <2>1. /\ ~InMemory /\ opcode = o /\ Register = r
        /\ o.what \notin OpcodeOnly => Rest[1].reg = e % 8
        /\ Class = IF SizeOf[r.class] = 1 THEN "r8" ELSE r.class
        /\ Len(Encoded.imm) = Immediate => LengthRead = size(Encoded) /\ size(Encoded) = Len(code)
        /\ Encoded.imm # <<>> => code[Len(code)] = Encoded.imm[Len(Encoded.imm)]
    BY <1>7, <1>9, OneRegister
  <2>2. Immediate = n
    <3>1. CASE ~full
      BY <1>2, <1>3, <2>1, <3>1 DEF Immediate
    <3>2. CASE full
      <4>1. n = IF Class = "r64" THEN 4 ELSE SizeOf[Class]
        BY <1>1, <1>2, <2>1, <3>2 DEF SizeOf
      <4>2. opcode.what \in {"arith", "arith_eax"}
        BY <1>3, <2>1, <3>2
      <4> QED BY <4>1, <4>2 DEF Immediate
    <3> QED BY <3>1, <3>2
  <2>3. OperandsRead \/ Exceptions
    <3>1. code[Len(code)].num = Written(x)
      BY <1>5, <2>1
    <3>2. "arith_imm" \in {"arith_imm", "mov_imm"}
      OBVIOUS
    <3>3. opcode.what = "arith_eax" \/ Rest[1].reg = op.ext
      <4>1. e % 8 = e
        OBVIOUS
      <4>2. what \notin OpcodeOnly \/ what = "arith_eax"
        BY DEF OpcodeOnly
      <4> QED BY <1>3, <2>1, <4>1, <4>2
    <3> QED BY <2>1, <3>1, <3>2, <3>3, RegImmNumber
  <2> QED BY <1>5, <2>1, <2>2, <2>3 DEF WellRead
<1> QED BY <1>8, <1>9 DEF Correct

LEMMA MovImmCorrect ==
  ASSUME NEW r \in Registers, NEW x \in Int, NEW n \in {1, 2, 4, 8}, n \in MovSizes[r.class],
         IsRegImm("mov_imm", r, x, n)
  PROVE  Correct(Encoded)
<1> DEFINE ext == r.class = "r64" /\ n = 4
           b == Zero(r)
           low == Code(r).value % 8
<1>1. /\ r.class \in {"r64", "r32", "r16", "r8", "r8h"} /\ ~is_extended(b) /\ ~add_rex(b)
      /\ Code(r).value \in 0 .. 15 /\ low \in 0 .. 15
  <2>1. /\ r.class \in {"r64", "r32", "r16", "r8", "r8h"} /\ ~is_extended(b) /\ ~add_rex(b)
        /\ Code(r).value \in 0 .. 15
    BY RegisterParts
  <2>2. low \in 0 .. 15
    BY <2>1
  <2> QED BY <2>1, <2>2
<1>2. /\ ~ext => n = SizeOf[r.class] /\ n = IF r.class = "r8h" THEN 1 ELSE SizeOf[r.class]
      /\ ext => SizeOf[r.class] # 1 /\ Code(r) = r /\ n = 4
  BY <1>1 DEF MovSizes, SizeOf, Code
<1> HIDE DEF low
<1>3. PICK o \in Ops : /\ (o.byte <=> SizeOf[r.class] = 1)
                       /\ IF ext THEN o.what = "mov_ext" /\ <<o>> = Opcode("mov_ext")
                          ELSE o.what = "mov_imm" /\ o.low = low /\ <<o>> = Op("mov_imm", SizeOf[r.class] = 1, low)
  <2>1. "mov_ext" \in OpcodeNames /\ "mov_imm" \in OpcodeNames
    BY DEF OpcodeNames, OpcodeOnly
  <2>2. CASE ext
    <3>1. PICK o \in Ops : o.what = "mov_ext" /\ o.low = 0 /\ ~o.byte /\ Opcode("mov_ext") = <<o>>
      BY <2>1, PlainOpcode
    <3> QED BY <1>2, <2>2, <3>1
  <2>3. CASE ~ext
    <3>1. PICK o \in Ops : /\ o.what = "mov_imm" /\ o.low = low /\ (o.byte <=> SizeOf[r.class] = 1)
                           /\ Op("mov_imm", SizeOf[r.class] = 1, low) = <<o>>
      BY <1>1, <2>1, WideByte
    <3> QED BY <2>3, <3>1
  <2> QED BY <2>2, <2>3
<1>4. /\ Encoded.opcode = add_prefixes(Code(r), b) \o <<o>>
      /\ Encoded.modrm = IF ext THEN ModRM(Code(r).value, 0, 3) ELSE <<>>
      /\ Encoded.sib = <<>> /\ Encoded.imm = Imm(x, n)
  <2>1. Encoded = MovImm(r, x, n) /\ add_prefixes(r, b) = add_prefixes(Code(r), b)
    BY CodePrefixes DEF Encoded, IsRegImm
  <2>2. CASE ext
    BY <1>2, <1>3, <2>1, <2>2 DEF MovImm, Direct
  <2>3. CASE ~ext
    BY <1>3, <2>1, <2>3 DEF MovImm, Direct, low
  <2> QED BY <2>2, <2>3
<1>5. /\ Len(Encoded.imm) = n /\ Encoded.imm \in Seq(Bytes) /\ Encoded.imm # <<>> /\ Len(Encoded.imm) <= 8
      /\ Encoded.imm[Len(Encoded.imm)].num = Written(x)
  BY <1>4, NumberOne
<1>6. /\ o.what \notin {"jmp", "push", "pop"}
      /\ \/ o.what \notin OpcodeOnly /\ Encoded.modrm = ModRM(Code(r).value, 0, 3)
         \/ o.what \in OpcodeOnly /\ Encoded.modrm = <<>> /\ o.low = Code(r).value % 8
  BY <1>3, <1>4 DEF OpcodeOnly, low
<1>7. NamesOne(Encoded, r, b, 0, o)
  <2>1. 0 \in Int
    OBVIOUS
  <2> QED BY <1>1, <1>3, <1>4, <1>5, <1>6, <2>1 DEF NamesOne
<1>8. Encoded # Thrown /\ Fits(Encoded)
  BY <1>7, OneRegister
<1>9. ASSUME code = emit_to(Encoded) PROVE WellRead(Encoded)
  <2>1. /\ ~InMemory /\ opcode = o /\ Register = r
        /\ Class = IF SizeOf[r.class] = 1 THEN "r8" ELSE r.class
        /\ Len(Encoded.imm) = Immediate => LengthRead = size(Encoded) /\ size(Encoded) = Len(code)
        /\ Encoded.imm # <<>> => code[Len(code)] = Encoded.imm[Len(Encoded.imm)]
    BY <1>7, <1>9, OneRegister
  <2>2. Immediate = n
    <3>1. CASE ext
      BY <1>2, <1>3, <2>1, <3>1 DEF Immediate
    <3>2. CASE ~ext
      <4>1. n = SizeOf[Class]
        BY <1>1, <1>2, <2>1, <3>2 DEF SizeOf
      <4>2. opcode.what = "mov_imm"
        BY <1>3, <2>1, <3>2
      <4> QED BY <4>1, <4>2 DEF Immediate
    <3> QED BY <3>1, <3>2
  <2>3. OperandsRead \/ Exceptions
    <3>1. code[Len(code)].num = Written(x)
      BY <1>5, <2>1
    <3>2. "mov_imm" \in {"arith_imm", "mov_imm"}
      OBVIOUS
    <3> QED BY <2>1, <3>1, <3>2, RegImmNumber
  <2> QED BY <1>5, <2>1, <2>2, <2>3 DEF WellRead
<1> QED BY <1>8, <1>9 DEF Correct

IsSingle(form, r, e) == op.form = form /\ op.rm = r /\ op.ext = e /\ DOMAIN op = {"form", "rm", "ext"}

LEMMA SingleCorrect ==
  ASSUME NEW r \in Registers, NEW e \in 0 .. 7, IsSingle("single", r, e)
  PROVE  Correct(Encoded)
<1> DEFINE b == Zero(r)
<1>1. ~is_extended(b) /\ ~add_rex(b)
  BY RegisterParts
<1>2. PICK o \in Ops : /\ o.what = "single" /\ (o.byte <=> SizeOf[r.class] = 1) /\ Wide("single", r) = <<o>>
  <2>1. "single" \in OpcodeNames
    BY DEF OpcodeNames
  <2> QED BY <2>1, WideOpcode
<1>3. /\ Encoded.opcode = add_prefixes(Code(r), b) \o <<o>>
      /\ Encoded.modrm = ModRM(Code(r).value, e, 3)
      /\ Encoded.sib = <<>> /\ Encoded.imm = <<>>
  <2>1. Encoded = Single(r, e)
    BY DEF Encoded, IsSingle
  <2> QED BY <1>2, <2>1 DEF Single, Direct
<1>4. Len(Encoded.imm) = 0 /\ Encoded.imm \in Seq(Bytes)
  BY <1>3, Nothing
<1>5. o.what \notin {"jmp", "push", "pop"} /\ o.what \notin OpcodeOnly /\ e \in Int
  BY <1>2 DEF OpcodeOnly
<1>6. NamesOne(Encoded, r, b, e, o)
  BY <1>1, <1>2, <1>3, <1>4, <1>5 DEF NamesOne
<1>7. Encoded # Thrown /\ Fits(Encoded)
  BY <1>6, OneRegister
<1>8. ASSUME code = emit_to(Encoded) PROVE WellRead(Encoded)
  <2>1. /\ ~InMemory /\ opcode = o /\ Register = r
        /\ o.what \notin OpcodeOnly => Rest[1].reg = e % 8
        /\ Len(Encoded.imm) = Immediate => LengthRead = size(Encoded) /\ size(Encoded) = Len(code)
    BY <1>6, <1>8, OneRegister
  <2>2. Immediate = 0
    BY <1>2, <2>1 DEF Immediate
  <2>3. Rest[1].reg = e
    <3>1. e % 8 = e
      OBVIOUS
    <3> QED BY <1>5, <2>1, <3>1
  <2>4. OperandsRead
    BY <1>2, <2>1, <2>3 DEF OperandsRead, Addressing, IsSingle
  <2> QED BY <1>4, <2>1, <2>2, <2>4 DEF WellRead
<1> QED BY <1>7, <1>8 DEF Correct

IsMoffs(what, r, x) ==
  op.form = "moffs" /\ op.what = what /\ op.rm = r /\ op.imm = x /\ DOMAIN op = {"form", "what", "rm", "imm"}

LEMMA MoffsCorrect ==
  ASSUME NEW r \in Registers, NEW x \in Int, NEW what \in {"moffs_load", "moffs_store"},
         r.class # "r8h", r.value = 0, IsMoffs(what, r, x)
  PROVE  Correct(Encoded)
<1> DEFINE b == Zero(r)
<1>1. ~is_extended(b) /\ ~add_rex(b) /\ Code(r) = r
  BY RegisterParts DEF Code
<1>2. PICK o \in Ops : o.what = what /\ o.low = 0 /\ (o.byte <=> SizeOf[r.class] = 1) /\ Wide(what, r) = <<o>>
  <2>1. what \in OpcodeNames
    BY DEF OpcodeNames, OpcodeOnly
  <2> QED BY <2>1, WideOpcode
<1>3. /\ Encoded.opcode = add_prefixes(Code(r), b) \o <<o>>
      /\ Encoded.modrm = <<>> /\ Encoded.sib = <<>> /\ Encoded.imm = Imm(x, 8)
  <2>1. Encoded = MovOffset(what, r, x)
    BY DEF Encoded, IsMoffs
  <2> QED BY <1>1, <1>2, <2>1 DEF MovOffset, Direct
<1>4. /\ Len(Encoded.imm) = 8 /\ Encoded.imm \in Seq(Bytes) /\ Encoded.imm # <<>>
      /\ Encoded.imm[Len(Encoded.imm)].num = Written(x)
  <2>1. 8 \in {1, 2, 4, 8}
    OBVIOUS
  <2> QED BY <1>3, <2>1, NumberOne
<1>5. o.what \notin {"jmp", "push", "pop"} /\ o.what \in OpcodeOnly /\ o.low = Code(r).value % 8
  BY <1>1, <1>2 DEF OpcodeOnly
<1>6. NamesOne(Encoded, r, b, 0, o)
  <2>1. 0 \in Int
    OBVIOUS
  <2>2. Len(Encoded.imm) <= 8
    BY <1>4
  <2>3. r \in Registers /\ Encoded.opcode = add_prefixes(Code(r), b) \o <<o>>
    BY <1>3
  <2> HIDE DEF b
  <2> QED BY <1>1, <1>2, <1>3, <1>4, <1>5, <2>1, <2>2, <2>3 DEF NamesOne
<1>7. Encoded # Thrown /\ Fits(Encoded)
  BY <1>6, OneRegister
<1>8. ASSUME code = emit_to(Encoded) PROVE WellRead(Encoded)
  <2>1. /\ ~InMemory /\ opcode = o /\ Register = r
        /\ Len(Encoded.imm) = Immediate => LengthRead = size(Encoded) /\ size(Encoded) = Len(code)
        /\ Encoded.imm # <<>> => code[Len(code)] = Encoded.imm[Len(Encoded.imm)]
    BY <1>6, <1>8, OneRegister
  <2>2. Immediate = 8
    BY <1>2, <2>1 DEF Immediate
  <2>3. NumberMeant = Written(x)
    BY DEF NumberMeant, IsMoffs
  <2>4. OperandsRead
    BY <1>2, <1>4, <2>1, <2>3 DEF OperandsRead, Addressing, IsMoffs
  <2> QED BY <1>4, <2>1, <2>2, <2>4 DEF WellRead
<1> QED BY <1>7, <1>8 DEF Correct

-----------------------------------------------------------------------------
(***************************************************************************)
(* Jumps, pushes and instructions without operands.                        *)
(***************************************************************************)
Less(f) == ("sf" \in f) # ("of" \in f)

LEMMA TakenAt ==
  ASSUME NEW f \in Flags
  PROVE  /\ Taken(0, f) = ("of" \in f) /\ Taken(1, f) = ~("of" \in f)
         /\ Taken(2, f) = ("cf" \in f) /\ Taken(3, f) = ~("cf" \in f)
         /\ Taken(4, f) = ("zf" \in f) /\ Taken(5, f) = ~("zf" \in f)
         /\ Taken(6, f) = ("cf" \in f \/ "zf" \in f) /\ Taken(7, f) = ~("cf" \in f \/ "zf" \in f)
         /\ Taken(8, f) = ("sf" \in f) /\ Taken(9, f) = ~("sf" \in f)
         /\ Taken(10, f) = ("pf" \in f) /\ Taken(11, f) = ~("pf" \in f)
         /\ Taken(12, f) = (Less(f)) /\ Taken(13, f) = ~(Less(f))
         /\ Taken(14, f) = (Less(f) \/ "zf" \in f) /\ Taken(15, f) = ~(Less(f) \/ "zf" \in f)
<1>1. Taken(0, f) = ("of" \in f) /\ Taken(1, f) = ~("of" \in f)
  BY DEF Taken
<1>2. Taken(2, f) = ("cf" \in f) /\ Taken(3, f) = ~("cf" \in f)
  BY DEF Taken
<1>3. Taken(4, f) = ("zf" \in f) /\ Taken(5, f) = ~("zf" \in f)
  BY DEF Taken
<1>4. Taken(6, f) = ("cf" \in f \/ "zf" \in f) /\ Taken(7, f) = ~("cf" \in f \/ "zf" \in f)
  BY DEF Taken, Flags
<1>5. Taken(8, f) = ("sf" \in f) /\ Taken(9, f) = ~("sf" \in f)
  BY DEF Taken
<1>6. Taken(10, f) = ("pf" \in f) /\ Taken(11, f) = ~("pf" \in f)
  BY DEF Taken
<1>7. Taken(12, f) = (Less(f)) /\ Taken(13, f) = ~(Less(f))
  BY DEF Taken, Less
<1>8. Taken(14, f) = (Less(f) \/ "zf" \in f) /\ Taken(15, f) = ~(Less(f) \/ "zf" \in f)
  BY DEF Taken, Less
<1> QED BY <1>1, <1>2, <1>3, <1>4, <1>5, <1>6, <1>7, <1>8

\* invert() turns a condition into its negation.
LEMMA Inverted ==
  ASSUME NEW f \in Flags, NEW n \in 0 .. 15
  PROVE  Taken(invert(n), f) = ~Taken(n, f) /\ invert(n) \in 0 .. 15
<1>1. CASE n \in {0, 1}
  <2>1. Taken(1, f) = ~Taken(0, f) /\ Taken(0, f) = ~Taken(1, f)
    BY DEF Taken, Flags
  <2>2. invert(0) = 1 /\ invert(1) = 0
    BY DEF invert
  <2> QED BY <1>1, <2>1, <2>2
<1>2. CASE n \in {2, 3}
  <2>1. Taken(3, f) = ~Taken(2, f) /\ Taken(2, f) = ~Taken(3, f)
    BY DEF Taken, Flags
  <2>2. invert(2) = 3 /\ invert(3) = 2
    BY DEF invert
  <2> QED BY <1>2, <2>1, <2>2
<1>3. CASE n \in {4, 5}
  <2>1. Taken(5, f) = ~Taken(4, f) /\ Taken(4, f) = ~Taken(5, f)
    BY DEF Taken, Flags
  <2>2. invert(4) = 5 /\ invert(5) = 4
    BY DEF invert
  <2> QED BY <1>3, <2>1, <2>2
<1>4. CASE n \in {6, 7}
  <2>1. Taken(7, f) = ~Taken(6, f) /\ Taken(6, f) = ~Taken(7, f)
    BY DEF Taken, Flags
  <2>2. invert(6) = 7 /\ invert(7) = 6
    BY DEF invert
  <2> QED BY <1>4, <2>1, <2>2
<1>5. CASE n \in {8, 9}
  <2>1. Taken(9, f) = ~Taken(8, f) /\ Taken(8, f) = ~Taken(9, f)
    BY DEF Taken, Flags
  <2>2. invert(8) = 9 /\ invert(9) = 8
    BY DEF invert
  <2> QED BY <1>5, <2>1, <2>2
<1>6. CASE n \in {10, 11}
  <2>1. Taken(11, f) = ~Taken(10, f) /\ Taken(10, f) = ~Taken(11, f)
    BY DEF Taken, Flags
  <2>2. invert(10) = 11 /\ invert(11) = 10
    BY DEF invert
  <2> QED BY <1>6, <2>1, <2>2
<1>7. CASE n \in {12, 13}
  <2>1. Taken(13, f) = ~Taken(12, f) /\ Taken(12, f) = ~Taken(13, f)
    BY DEF Taken, Flags
  <2>2. invert(12) = 13 /\ invert(13) = 12
    BY DEF invert
  <2> QED BY <1>7, <2>1, <2>2
<1>8. CASE n \in {14, 15}
  <2>1. Taken(15, f) = ~Taken(14, f) /\ Taken(14, f) = ~Taken(15, f)
    BY DEF Taken, Flags
  <2>2. invert(14) = 15 /\ invert(15) = 14
    BY DEF invert
  <2> QED BY <1>8, <2>1, <2>2
<1> QED BY <1>1, <1>2, <1>3, <1>4, <1>5, <1>6, <1>7, <1>8

\* The number of a condition and its name mean the same.
LEMMA Conditions ==
  ASSUME NEW f \in Flags, NEW cond \in DOMAIN x64_cond
  PROVE  Taken(x64_cond[cond], f) = True(cond, f) /\ x64_cond[cond] \in 0 .. 15
<1>1. CASE cond \in {"overflow"}
  <2>1. x64_cond[cond] = 0
    BY <1>1 DEF x64_cond
  <2>2. True(cond, f) = Taken(0, f)
    BY <1>1, TakenAt DEF True, Less
  <2> QED BY <2>1, <2>2
<1>2. CASE cond \in {"not_overflow"}
  <2>1. x64_cond[cond] = 1
    BY <1>2 DEF x64_cond
  <2>2. True(cond, f) = Taken(1, f)
    BY <1>2, TakenAt DEF True, Less
  <2> QED BY <2>1, <2>2
<1>3. CASE cond \in {"below", "not_above_or_equal", "carry"}
  <2>1. x64_cond[cond] = 2
    BY <1>3 DEF x64_cond
  <2>2. True(cond, f) = Taken(2, f)
    BY <1>3, TakenAt DEF True, Less
  <2> QED BY <2>1, <2>2
<1>4. CASE cond \in {"not_below", "above_or_equal", "not_carry"}
  <2>1. x64_cond[cond] = 3
    BY <1>4 DEF x64_cond
  <2>2. True(cond, f) = Taken(3, f)
    BY <1>4, TakenAt DEF True, Less
  <2> QED BY <2>1, <2>2
<1>5. CASE cond \in {"equal", "zero"}
  <2>1. x64_cond[cond] = 4
    BY <1>5 DEF x64_cond
  <2>2. True(cond, f) = Taken(4, f)
    BY <1>5, TakenAt DEF True, Less
  <2> QED BY <2>1, <2>2
<1>6. CASE cond \in {"not_equal", "not_zero"}
  <2>1. x64_cond[cond] = 5
    BY <1>6 DEF x64_cond
  <2>2. True(cond, f) = Taken(5, f)
    BY <1>6, TakenAt DEF True, Less
  <2> QED BY <2>1, <2>2
<1>7. CASE cond \in {"below_or_equal", "not_above"}
  <2>1. x64_cond[cond] = 6
    BY <1>7 DEF x64_cond
  <2>2. True(cond, f) = Taken(6, f)
    BY <1>7, TakenAt DEF True, Less
  <2> QED BY <2>1, <2>2
<1>8. CASE cond \in {"above", "not_below_or_equal"}
  <2>1. x64_cond[cond] = 7
    BY <1>8 DEF x64_cond
  <2>2. True(cond, f) = Taken(7, f)
    BY <1>8, TakenAt DEF True, Less
  <2> QED BY <2>1, <2>2
<1>9. CASE cond \in {"sign"}
  <2>1. x64_cond[cond] = 8
    BY <1>9 DEF x64_cond
  <2>2. True(cond, f) = Taken(8, f)
    BY <1>9, TakenAt DEF True, Less
  <2> QED BY <2>1, <2>2
<1>10. CASE cond \in {"not_sign"}
  <2>1. x64_cond[cond] = 9
    BY <1>10 DEF x64_cond
  <2>2. True(cond, f) = Taken(9, f)
    BY <1>10, TakenAt DEF True, Less
  <2> QED BY <2>1, <2>2
<1>11. CASE cond \in {"parity", "parity_even"}
  <2>1. x64_cond[cond] = 10
    BY <1>11 DEF x64_cond
  <2>2. True(cond, f) = Taken(10, f)
    BY <1>11, TakenAt DEF True, Less
  <2> QED BY <2>1, <2>2
<1>12. CASE cond \in {"not_parity", "parity_odd"}
  <2>1. x64_cond[cond] = 11
    BY <1>12 DEF x64_cond
  <2>2. True(cond, f) = Taken(11, f)
    BY <1>12, TakenAt DEF True, Less
  <2> QED BY <2>1, <2>2
<1>13. CASE cond \in {"less", "not_greater_or_equal"}
  <2>1. x64_cond[cond] = 12
    BY <1>13 DEF x64_cond
  <2>2. True(cond, f) = Taken(12, f)
    BY <1>13, TakenAt DEF True, Less
  <2> QED BY <2>1, <2>2
<1>14. CASE cond \in {"greater_or_equal", "not_less"}
  <2>1. x64_cond[cond] = 13
    BY <1>14 DEF x64_cond
  <2>2. True(cond, f) = Taken(13, f)
    BY <1>14, TakenAt DEF True, Less
  <2> QED BY <2>1, <2>2
<1>15. CASE cond \in {"less_or_equal", "not_greater"}
  <2>1. x64_cond[cond] = 14
    BY <1>15 DEF x64_cond
  <2>2. True(cond, f) = Taken(14, f)
    BY <1>15, TakenAt DEF True, Less
  <2> QED BY <2>1, <2>2
<1>16. CASE cond \in {"greater", "not_less_or_equal"}
  <2>1. x64_cond[cond] = 15
    BY <1>16 DEF x64_cond
  <2>2. True(cond, f) = Taken(15, f)
    BY <1>16, TakenAt DEF True, Less
  <2> QED BY <2>1, <2>2
<1> QED BY <1>1, <1>2, <1>3, <1>4, <1>5, <1>6, <1>7, <1>8, <1>9, <1>10, <1>11, <1>12, <1>13, <1>14, <1>15, <1>16 DEF x64_cond

\* An instruction that names no register
NamesNone(i, o) ==
  /\ o \in Ops /\ o.what \in OpcodeOnly
  /\ i.opcode \in {<<o>>, <<[b |-> "0f"]>> \o <<o>>}
  /\ i.modrm = <<>> /\ i.sib = <<>> /\ i.imm \in Seq(Bytes) /\ Len(i.imm) <= 8

LEMMA NoRegister ==
  ASSUME NEW i, NEW o, NamesNone(i, o)
  PROVE  /\ i # Thrown /\ Fits(i)
         /\ code = emit_to(i) =>
              /\ ~InMemory /\ opcode = o
              /\ Len(i.imm) = Immediate => LengthRead = size(i) /\ size(i) = Len(code)
              /\ i.imm # <<>> => code[Len(code)] = i.imm[Len(i.imm)]
<1> USE DEF NamesNone
<1>1. PICK q \in {{}, {"0f"}} : i.opcode = WithPrefixes(q, Eax, Eax, Eax, 4, o)
  <2>1. o \in Ops
    OBVIOUS
  <2>2. /\ <<o>> = WithPrefixes({}, Eax, Eax, Eax, 4, o)
        /\ <<[b |-> "0f"]>> \o <<o>> = WithPrefixes({"0f"}, Eax, Eax, Eax, 4, o)
    BY <2>1, NoRexBytes
  <2> QED BY <2>2
<1>2. Shaped(i, q, Eax, Eax, Eax, 4, o)
  BY <1>1, Nothing DEF Shaped
<1>3. i # Thrown /\ Fits(i)
  <2>1. 0 \in Int /\ i.modrm \in {<<>>, ModRM(0, 0, 3)} /\ i.sib = <<>> /\ Len(i.imm) <= 8
    OBVIOUS
  <2> HIDE DEF NamesNone
  <2> QED BY <1>2, <2>1, DirectFits
<1>4. ASSUME code = emit_to(i)
      PROVE  /\ ~InMemory /\ opcode = o
             /\ Len(i.imm) = Immediate => LengthRead = size(i) /\ size(i) = Len(code)
             /\ i.imm # <<>> => code[Len(code)] = i.imm[Len(i.imm)]
  <2>1. opcode = o /\ (i.imm # <<>> => code[Len(code)] = i.imm[Len(i.imm)])
    BY <1>2, <1>4, ReadOpcode
  <2>2. /\ ~InMemory
        /\ Len(i.imm) = Immediate => LengthRead = size(i) /\ size(i) = Len(code)
    BY <1>2, <1>4, ReadInOpcode
  <2> QED BY <2>1, <2>2
<1> QED BY <1>3, <1>4

IsNear(what, x) == op.form = "near" /\ op.what = what /\ op.imm = x /\ DOMAIN op = {"form", "what", "imm"}

LEMMA NearCorrect ==
  ASSUME NEW what \in {"call_near", "jmp_near"}, NEW x \in Int, IsNear(what, x)
  PROVE  Correct(Encoded)
<1>1. PICK o \in Ops : o.what = what /\ o.low = 0 /\ ~o.byte /\ Opcode(what) = <<o>>
  <2>1. what \in OpcodeNames
    BY DEF OpcodeNames, OpcodeOnly
  <2> QED BY <2>1, PlainOpcode
<1>2. Encoded.opcode = <<o>> /\ Encoded.modrm = <<>> /\ Encoded.sib = <<>> /\ Encoded.imm = Imm(x, 4)
  BY <1>1 DEF Encoded, Direct, IsNear
<1>3. /\ Len(Encoded.imm) = 4 /\ Encoded.imm \in Seq(Bytes) /\ Encoded.imm # <<>>
      /\ Len(Encoded.imm) <= 8 /\ Encoded.imm[Len(Encoded.imm)].num = Written(x)
  <2>1. 4 \in {1, 2, 4, 8}
    OBVIOUS
  <2> QED BY <1>2, <2>1, NumberOne
<1>4. NamesNone(Encoded, o)
  BY <1>1, <1>2, <1>3 DEF NamesNone, OpcodeOnly
<1>5. Encoded # Thrown /\ Fits(Encoded)
  BY <1>4, NoRegister
<1>6. ASSUME code = emit_to(Encoded) PROVE WellRead(Encoded)
  <2>1. /\ ~InMemory /\ opcode = o
        /\ Len(Encoded.imm) = Immediate => LengthRead = size(Encoded) /\ size(Encoded) = Len(code)
        /\ Encoded.imm # <<>> => code[Len(code)] = Encoded.imm[Len(Encoded.imm)]
    BY <1>4, <1>6, NoRegister
  <2>2. Immediate = 4
    BY <1>1, <2>1 DEF Immediate
  <2>3. NumberMeant = Written(x)
    BY DEF NumberMeant, IsNear
  <2>4. OperandsRead
    BY <1>1, <1>3, <2>1, <2>3 DEF OperandsRead, Addressing, IsNear
  <2> QED BY <1>3, <2>1, <2>2, <2>4 DEF WellRead
<1> QED BY <1>5, <1>6 DEF Correct

LEMMA JecxzCorrect ==
  ASSUME NEW x \in Int, op.form = "jecxz", op.imm = x
  PROVE  Correct(Encoded)
<1>1. PICK o \in Ops : o.what = "jcxz" /\ o.low = 0 /\ ~o.byte /\ Opcode("jcxz") = <<o>>
  <2>1. "jcxz" \in OpcodeNames
    BY DEF OpcodeNames, OpcodeOnly
  <2> QED BY <2>1, PlainOpcode
<1>2. Encoded.opcode = <<o>> /\ Encoded.modrm = <<>> /\ Encoded.sib = <<>> /\ Encoded.imm = Imm(x, 1)
  BY <1>1 DEF Encoded, Direct
<1>3. /\ Len(Encoded.imm) = 1 /\ Encoded.imm \in Seq(Bytes) /\ Len(Encoded.imm) <= 8
  <2>1. 1 \in {1, 2, 4, 8}
    OBVIOUS
  <2> QED BY <1>2, <2>1, NumberOne
<1>4. NamesNone(Encoded, o)
  BY <1>1, <1>2, <1>3 DEF NamesNone, OpcodeOnly
<1>5. Encoded # Thrown /\ Fits(Encoded)
  BY <1>4, NoRegister
<1>6. ASSUME code = emit_to(Encoded) PROVE WellRead(Encoded)
  <2>1. /\ opcode = o
        /\ Len(Encoded.imm) = Immediate => LengthRead = size(Encoded) /\ size(Encoded) = Len(code)
    BY <1>4, <1>6, NoRegister
  <2>2. Immediate = 1
    BY <1>1, <2>1 DEF Immediate
  <2>3. Exceptions
    BY DEF Exceptions, WideCounter
  <2> QED BY <1>3, <2>1, <2>2, <2>3 DEF WellRead
<1> QED BY <1>5, <1>6 DEF Correct

IsJcc(form, cond, x) ==
  op.form = form /\ op.cond = cond /\ op.imm = x /\ DOMAIN op = {"form", "cond", "imm"}

LEMMA JccCorrect ==
  ASSUME NEW form \in {"jcc", "jcc_not"}, NEW cond \in DOMAIN x64_cond, NEW x \in Int, IsJcc(form, cond, x)
  PROVE  Correct(Encoded)
<1> DEFINE number == IF form = "jcc" THEN x64_cond[cond] ELSE invert(x64_cond[cond])
<1>1. x64_cond[cond] \in 0 .. 15
  <2>1. {} \in Flags
    BY DEF Flags
  <2> QED BY <2>1, Conditions
<1>2. number \in 0 .. 15
  <2>1. {} \in Flags
    BY DEF Flags
  <2>2. invert(x64_cond[cond]) \in 0 .. 15
    BY <1>1, <2>1, Inverted
  <2> QED BY <1>1, <2>2
<1>3. PICK o \in Ops : o.what = "jcc" /\ o.low = number /\ ~o.byte /\ Op("jcc", FALSE, number) = <<o>>
  <2>1. "jcc" \in OpcodeNames
    BY DEF OpcodeNames, OpcodeOnly
  <2> HIDE DEF number
  <2> QED BY <1>2, <2>1, OpcodeByte
<1>4. Encoded.opcode = <<o>> /\ Encoded.modrm = <<>> /\ Encoded.sib = <<>> /\ Encoded.imm = Imm(x, 1)
  <2>1. Encoded = JmpCond(number, x)
    BY DEF Encoded, IsJcc
  <2> HIDE DEF number
  <2> QED BY <1>3, <2>1 DEF JmpCond, Direct
<1>5. /\ Len(Encoded.imm) = 1 /\ Encoded.imm \in Seq(Bytes) /\ Encoded.imm # <<>>
      /\ Len(Encoded.imm) <= 8 /\ Encoded.imm[Len(Encoded.imm)].num = Written(x)
  <2>1. 1 \in {1, 2, 4, 8}
    OBVIOUS
  <2> QED BY <1>4, <2>1, NumberOne
<1>6. NamesNone(Encoded, o)
  BY <1>3, <1>4, <1>5 DEF NamesNone, OpcodeOnly
<1>7. Encoded # Thrown /\ Fits(Encoded)
  BY <1>6, NoRegister
<1>8. ASSUME code = emit_to(Encoded) PROVE WellRead(Encoded)
  <2>1. /\ ~InMemory /\ opcode = o
        /\ Len(Encoded.imm) = Immediate => LengthRead = size(Encoded) /\ size(Encoded) = Len(code)
        /\ Encoded.imm # <<>> => code[Len(code)] = Encoded.imm[Len(Encoded.imm)]
    BY <1>6, <1>8, NoRegister
  <2>2. Immediate = 1
    BY <1>3, <2>1 DEF Immediate
  <2>3. NumberMeant = Written(x)
    BY DEF NumberMeant, IsJcc
  <2>4. ASSUME NEW f \in Flags
        PROVE  /\ form = "jcc" => Taken(opcode.low, f) = True(cond, f)
               /\ form = "jcc_not" => Taken(opcode.low, f) = ~True(cond, f)
    <3>1. Taken(x64_cond[cond], f) = True(cond, f)
      BY Conditions
    <3>2. Taken(invert(x64_cond[cond]), f) = ~Taken(x64_cond[cond], f)
      BY <1>1, Inverted
    <3>3. opcode.low = number
      BY <1>3, <2>1
    <3> QED BY <3>1, <3>2, <3>3
  <2>5. OperandsRead
    BY <1>5, <2>1, <2>3, <2>4 DEF OperandsRead, Addressing, IsJcc
  <2> QED BY <1>5, <2>1, <2>2, <2>5 DEF WellRead
<1> QED BY <1>7, <1>8 DEF Correct

IsOneByte(what) == op.form = "one_byte" /\ op.what = what /\ DOMAIN op = {"form", "what"}
IsUd2 == op.form = "ud2" /\ DOMAIN op = {"form"}

LEMMA PlainCorrect ==
  ASSUME NEW what \in {"int3", "nop", "leave", "ret", "lret", "ud2"},
         IF what = "ud2" THEN IsUd2 ELSE IsOneByte(what)
  PROVE  Correct(Encoded)
<1>1. PICK o \in Ops : o.what = what /\ o.low = 0 /\ ~o.byte /\ Opcode(what) = <<o>>
  <2>1. what \in OpcodeNames
    BY DEF OpcodeNames, OpcodeOnly
  <2> QED BY <2>1, PlainOpcode
<1>2. /\ Encoded.opcode \in {<<o>>, <<[b |-> "0f"]>> \o <<o>>}
      /\ Encoded.modrm = <<>> /\ Encoded.sib = <<>> /\ Encoded.imm = <<>>
  <2>1. CASE what = "ud2"
    <3>1. Encoded = Direct(<<[b |-> "0f"]>> \o <<o>>, <<>>, <<>>)
      BY <1>1, <2>1 DEF Encoded, IsUd2
    <3> DEFINE oc == <<[b |-> "0f"]>> \o <<o>>
    <3>2. oc \in {<<o>>, <<[b |-> "0f"]>> \o <<o>>} /\ Encoded = Direct(oc, <<>>, <<>>)
      BY <3>1
    <3> HIDE DEF oc
    <3>3. Encoded.opcode = oc /\ Encoded.modrm = <<>> /\ Encoded.sib = <<>> /\ Encoded.imm = <<>>
      BY <3>2, DirectFields
    <3> QED BY <3>2, <3>3
  <2>2. CASE what # "ud2"
    <3>1. Encoded = Direct(<<o>>, <<>>, <<>>)
      BY <1>1, <2>2 DEF Encoded, IsOneByte
    <3> QED BY <3>1, DirectFields
  <2> QED BY <2>1, <2>2
<1>3. Len(Encoded.imm) = 0 /\ Encoded.imm \in Seq(Bytes)
  BY <1>2, Nothing
<1>4. NamesNone(Encoded, o)
  BY <1>1, <1>2, <1>3 DEF NamesNone, OpcodeOnly
<1>5. Encoded # Thrown /\ Fits(Encoded)
  BY <1>4, NoRegister
<1>6. ASSUME code = emit_to(Encoded) PROVE WellRead(Encoded)
  <2>1. /\ ~InMemory /\ opcode = o
        /\ Len(Encoded.imm) = Immediate => LengthRead = size(Encoded) /\ size(Encoded) = Len(code)
    BY <1>4, <1>6, NoRegister
  <2>2. Immediate = 0
    BY <1>1, <2>1 DEF Immediate
  <2>3. OperandsRead
    BY <1>1, <2>1 DEF OperandsRead, Addressing, IsUd2, IsOneByte
  <2> QED BY <1>3, <2>1, <2>2, <2>3 DEF WellRead
<1> QED BY <1>5, <1>6 DEF Correct

LEMMA JmpCorrect ==
  ASSUME NEW r \in Registers, r.class = "r64", NEW e \in 0 .. 7, IsSingle("jmp", r, e)
  PROVE  Correct(Encoded)
<1> DEFINE i == Encoded
<1>1. /\ Code(r) = r /\ r.value \in 0 .. 15 /\ r.value \in Int /\ e \in Int
      /\ ~is_extended(Zero(r)) /\ ~add_rex(Zero(r)) /\ ~add_rex(r)
  BY RegisterParts DEF Code, add_rex
<1>2. PICK o \in Ops : o.what = "jmp" /\ ~o.byte /\ Opcode("jmp") = <<o>>
  <2>1. "jmp" \in OpcodeNames
    BY DEF OpcodeNames
  <2> QED BY <2>1, PlainOpcode
<1>3. /\ i.opcode = WithPrefixes({}, r, Zero(r), Eax, 4, o)
      /\ i.modrm = ModRM(r.value, e, 3) /\ i.sib = <<>> /\ i.imm = <<>>
  <2>1. i = JmpReg(r, e)
    BY DEF Encoded, IsSingle
  <2>2. x64_add_rex(r, Zero(r), Eax, 4) \o <<o>> = WithPrefixes({}, r, Zero(r), Eax, 4, o)
    BY PrefixBytes
  <2> QED BY <1>2, <2>1, <2>2 DEF JmpReg, Direct, Eax
<1> HIDE DEF i
<1>4. Shaped(i, {}, r, Zero(r), Eax, 4, o)
  <2>1. 3 \in 0 .. 3
    OBVIOUS
  <2>2. ModRM(r.value, e, 3) \in Seq(Bytes)
    BY <1>1, <2>1, ModRMByte
  <2> QED BY <1>3, <2>2, Nothing DEF Shaped
<1>5. Len(i.imm) = 0
  BY <1>3, Nothing
<1>6. i # Thrown /\ Fits(i)
  BY <1>1, <1>3, <1>4, <1>5, DirectFits
<1>7. ASSUME code = emit_to(i) PROVE WellRead(i)
  <2>1. opcode = o
    BY <1>4, <1>7, ReadOpcode
  <2>2. o.what \notin OpcodeOnly
    BY <1>2 DEF OpcodeOnly
  <2>3. /\ ~InOpcode /\ ~InMemory
        /\ Rest[1].rm = r.value % 8 /\ Rest[1].reg = e % 8
        /\ Len(i.imm) = Immediate => LengthRead = size(i) /\ size(i) = Len(code)
    BY <1>1, <1>3, <1>4, <1>7, <2>2, ReadDirect
  <2>4. "b" \in Bits <=> is_extended(r)
    BY <1>4, <1>7, ReadShaped
  <2>5. Class = "r64" /\ SizeOf[r.class] # 1
    BY <1>2, <2>1 DEF Class, SizeOf
  <2>6. Named(r.value % 8, "b") = r
    <3>1. Class = IF SizeOf[r.class] = 1 THEN "r8" ELSE r.class
      BY <2>5
    <3>2. "b" \in Bits <=> is_extended(Code(r))
      BY <1>1, <2>4
    <3>3. Named(Code(r).value % 8, "b") = r
      BY <1>1, <3>1, <3>2, ReadRegister
    <3> QED BY <1>1, <3>3
  <2>7. Register = r
    BY <2>3, <2>6 DEF Register
  <2>8. Rest[1].reg = e
    <3>1. e % 8 = e
      OBVIOUS
    <3> QED BY <2>3, <3>1
  <2>9. Immediate = 0
    BY <1>2, <2>1 DEF Immediate
  <2>10. OperandsRead
    BY <2>3, <2>7, <2>8 DEF OperandsRead, Addressing, IsSingle
  <2> QED BY <1>5, <2>3, <2>9, <2>10 DEF WellRead
<1> QED BY <1>6, <1>7 DEF Correct, i

IsPushPop(form, r) == op.form = form /\ op.rm = r /\ DOMAIN op = {"form", "rm"}

LEMMA PushPopCorrect ==
  ASSUME NEW r \in WideRegisters, r.class # "r32", NEW form \in {"push", "pop"}, IsPushPop(form, r)
  PROVE  Correct(Encoded)
<1> DEFINE i == Encoded
           what == IF r.class = "r16" /\ is_extended(r) THEN "pop" ELSE form
           low == r.value % 8
<1>1. /\ r \in Registers /\ r.class \in {"r64", "r16"} /\ Code(r) = r
      /\ r.value \in 0 .. 15 /\ low \in 0 .. 15
      /\ ~is_extended(Zero(r)) /\ ~add_rex(Zero(r)) /\ ~add_rex(r)
  <2>1. r \in Registers /\ r.class \in {"r64", "r16"}
    BY DEF WideRegisters, Normal
  <2>2. /\ Code(r) = r /\ r.value \in 0 .. 15
        /\ ~is_extended(Zero(r)) /\ ~add_rex(Zero(r)) /\ ~add_rex(r)
    BY <2>1, RegisterParts DEF Code, add_rex
  <2>3. low \in 0 .. 15
    BY <2>2
  <2> QED BY <2>1, <2>2, <2>3
<1>2. PICK o \in Ops : o.what = what /\ o.low = low /\ ~o.byte /\ Op(what, FALSE, low) = <<o>>
  <2>1. what \in OpcodeNames
    BY DEF OpcodeNames, OpcodeOnly
  <2>2. low \in 0 .. 15
    BY <1>1
  <2> HIDE DEF what, low
  <2> QED BY <2>1, <2>2, OpcodeByte
<1>3. i = PushPop(form, r)
  BY DEF Encoded, IsPushPop
<1>4. /\ i.opcode = IF r.class = "r64" THEN x64_add_rex(r, Zero(r), Zero(r), 4) \o <<o>>
                    ELSE <<[b |-> "66"]>> \o <<o>>
      /\ i.modrm = <<>> /\ i.sib = <<>> /\ i.imm = <<>>
  <2>1. CASE r.class = "r64"
    <3>1. Op(form, FALSE, low) = <<o>>
      BY <1>2, <2>1
    <3> QED BY <1>3, <2>1, <3>1 DEF PushPop, Direct
  <2>2. CASE r.class # "r64"
    <3>1. Op(IF is_extended(r) THEN "pop" ELSE form, FALSE, low) = <<o>>
      BY <1>1, <1>2, <2>2
    <3> QED BY <1>3, <2>2, <3>1 DEF PushPop, Direct
  <2> QED BY <2>1, <2>2
<1> HIDE DEF i, low
<1>5. o.what \in OpcodeOnly /\ o.what = what
  BY <1>2 DEF OpcodeOnly
<1>6. Len(i.imm) = 0
  BY <1>4, Nothing
<1>7. CASE r.class = "r64"
  <2>1. Shaped(i, {}, r, Zero(r), Zero(r), 4, o)
    <3>1. x64_add_rex(r, Zero(r), Zero(r), 4) \o <<o>> = WithPrefixes({}, r, Zero(r), Zero(r), 4, o)
      BY PrefixBytes
    <3> QED BY <1>4, <1>7, <3>1, Nothing DEF Shaped
  <2>2. i # Thrown /\ Fits(i)
    <3>1. 0 \in Int
      OBVIOUS
    <3> QED BY <1>4, <1>6, <2>1, <3>1, DirectFits
  <2>3. ASSUME code = emit_to(i) PROVE WellRead(i)
    <3>1. opcode = o
      BY <2>1, <2>3, ReadOpcode
    <3>2. /\ InOpcode /\ ~InMemory
          /\ Len(i.imm) = Immediate => LengthRead = size(i) /\ size(i) = Len(code)
      BY <1>4, <1>5, <2>1, <2>3, ReadInOpcode
    <3>3. ("b" \in Bits <=> is_extended(r)) /\ ("w" \in Bits <=> 4 = 8)
      BY <2>1, <2>3, ReadShaped
    <3>4. Has(After67, "66") <=> "66" \in {}
      BY <2>1, <2>3, ReadShaped
    <3>5. Class = "r64" /\ SizeOf[r.class] # 1
      BY <1>2, <1>7, <3>1, <3>3, <3>4 DEF Class, SizeOf
    <3>6. Named(low, "b") = r
      <4>1. Class = IF SizeOf[r.class] = 1 THEN "r8" ELSE r.class
        BY <1>7, <3>5
      <4>2. "b" \in Bits <=> is_extended(Code(r))
        BY <1>1, <3>3
      <4>3. Named(Code(r).value % 8, "b") = r
        BY <1>1, <1>7, <4>1, <4>2, ReadRegister
      <4> QED BY <1>1, <4>3 DEF low
    <3>7. Register = r
      BY <1>2, <3>1, <3>2, <3>6 DEF Register
    <3>8. Immediate = 0
      BY <1>5, <3>1 DEF Immediate
    <3>9. opcode.what = form
      BY <1>5, <1>7, <3>1
    <3>10. OperandsRead
      BY <3>2, <3>7, <3>9 DEF OperandsRead, Addressing, IsPushPop
    <3> QED BY <1>6, <3>2, <3>8, <3>10 DEF WellRead
  <2> QED BY <2>2, <2>3 DEF Correct, i
<1>8. CASE r.class = "r16"
  <2>1. Shaped(i, {"66"}, Eax, Eax, Eax, 4, o)
    <3>1. <<[b |-> "66"]>> \o <<o>> = WithPrefixes({"66"}, Eax, Eax, Eax, 4, o)
      BY NoRexBytes
    <3> QED BY <1>4, <1>8, <3>1, Nothing DEF Shaped
  <2>2. i # Thrown /\ Fits(i)
    <3>1. 0 \in Int
      OBVIOUS
    <3> QED BY <1>4, <1>6, <2>1, <3>1, DirectFits
  <2>3. ASSUME code = emit_to(i) PROVE WellRead(i)
    <3>1. opcode = o
      BY <2>1, <2>3, ReadOpcode
    <3>2. /\ InOpcode /\ ~InMemory
          /\ Len(i.imm) = Immediate => LengthRead = size(i) /\ size(i) = Len(code)
      BY <1>4, <1>5, <2>1, <2>3, ReadInOpcode
    <3>3. ("b" \in Bits <=> is_extended(Eax)) /\ ("w" \in Bits <=> 4 = 8)
      BY <2>1, <2>3, ReadShaped
    <3>4. Has(After67, "66") <=> "66" \in {"66"}
      BY <2>1, <2>3, ReadShaped
    <3>5. Immediate = 0
      BY <1>5, <3>1 DEF Immediate
    <3>6. OperandsRead \/ Exceptions
      <4>1. CASE is_extended(r)
        BY <1>8, <4>1 DEF Exceptions, ExtendedWord, IsPushPop
      <4>2. CASE ~is_extended(r)
        <5>1. "b" \notin Bits
          BY <3>3 DEF Eax, Reg, is_extended
        <5>2. Class = "r16" /\ SizeOf[r.class] # 1
          BY <1>2, <1>8, <3>1, <3>3, <3>4 DEF Class, SizeOf
        <5>3. Class = IF SizeOf[r.class] = 1 THEN "r8" ELSE r.class
          BY <1>8, <5>2
        <5>4. "b" \in Bits <=> is_extended(Code(r))
          BY <1>1, <4>2, <5>1
        <5>5. Named(Code(r).value % 8, "b") = r
          BY <1>1, <1>8, <5>3, <5>4, ReadRegister
        <5>6. Register = r
          BY <1>1, <1>2, <3>1, <3>2, <5>5 DEF Register, low
        <5>7. opcode.what = form
          BY <1>5, <3>1, <4>2
        <5> QED BY <3>2, <5>6, <5>7 DEF OperandsRead, Addressing, IsPushPop
      <4> QED BY <4>1, <4>2
    <3> QED BY <1>6, <3>2, <3>5, <3>6 DEF WellRead
  <2> QED BY <2>2, <2>3 DEF Correct, i
<1> QED BY <1>1, <1>7, <1>8

-----------------------------------------------------------------------------
(***************************************************************************)
(* Operands in memory.                                                     *)
(***************************************************************************)
LEMMA AddressParts ==
  ASSUME NEW A, IsAddress(A)
  PROVE  /\ A.size \in {4, 8} /\ A.base \in -1 .. 15 /\ A.index \in -1 .. 15 /\ A.scale \in 0 .. 3
         /\ A.offset \in Int /\ A.offset # High /\ A.offset_size \in {0, 1, 4}
         /\ A.index = None => A.scale = 0
         /\ A.base # None /\ A.offset_size = 0 => A.offset = 0
         /\ A.base = None => A.index = None /\ A.offset_size = 0
BY DEF IsAddress, Addresses, None

LEMMA OffsetBytes ==
  ASSUME NEW A, IsAddress(A)
  PROVE  /\ Offset(A) \in Seq(Bytes) /\ Len(Offset(A)) \in {0, 1, 4}
         /\ Len(Offset(A)) = 0 <=> A.offset_size = 0 /\ ~NeedsOffset(A.base)
         /\ ModOf(Offset(A)) = IF Len(Offset(A)) = 0 THEN 0 ELSE IF Len(Offset(A)) = 1 THEN 1 ELSE 2
         /\ Len(Offset(A)) # 0 => Offset(A) # <<>> /\ Offset(A)[Len(Offset(A))].num = A.offset
<1>1. /\ A.offset \in Int /\ A.offset # High /\ A.offset_size \in {0, 1, 4}
      /\ A.base # None /\ A.offset_size = 0 => A.offset = 0
  BY AddressParts
<1>2. CASE A.offset_size > 0
  <2>1. A.offset_size \in {1, 2, 4, 8} /\ A.offset_size \in {1, 4}
    BY <1>1, <1>2
  <2>2. Offset(A) = Imm(A.offset, A.offset_size)
    BY <1>2 DEF Offset
  <2>3. /\ Imm(A.offset, A.offset_size) \in Seq(Bytes) /\ Len(Imm(A.offset, A.offset_size)) = A.offset_size
        /\ Imm(A.offset, A.offset_size) # <<>>
        /\ Imm(A.offset, A.offset_size)[Len(Imm(A.offset, A.offset_size))].num = Written(A.offset)
    BY <1>1, <2>1, ImmBytes
  <2>4. Written(A.offset) = A.offset
    BY <1>1 DEF Written
  <2> QED BY <2>1, <2>2, <2>3, <2>4 DEF ModOf
<1>3. CASE A.offset_size = 0 /\ NeedsOffset(A.base)
  <2>1. Offset(A) = Imm(0, 1)
    BY <1>3 DEF Offset, If
  <2>2. Imm(0, 1) \in Seq(Bytes) /\ Len(Imm(0, 1)) = 1 /\ Imm(0, 1) # <<>> /\ Imm(0, 1)[Len(Imm(0, 1))].num = Written(0)
    <3>1. 1 \in {1, 2, 4, 8} /\ 0 \in Int
      OBVIOUS
    <3> QED BY <3>1, ImmBytes
  <2>3. A.offset = 0 /\ Written(0) = 0
    BY <1>1, <1>3 DEF NeedsOffset, None, Written, High
  <2> QED BY <1>3, <2>1, <2>2, <2>3 DEF ModOf
<1>4. CASE A.offset_size = 0 /\ ~NeedsOffset(A.base)
  <2>1. Offset(A) = <<>>
    BY <1>4 DEF Offset, If
  <2> QED BY <1>4, <2>1, Nothing DEF ModOf
<1> QED BY <1>1, <1>2, <1>3, <1>4

InMemoryOf(reg, A, o) ==
  /\ IsAddress(A) /\ ~Refused(A)
  /\ SizeOf[reg.class] \in {1, 2, 4, 8} /\ reg.value \in 0 .. 15
  /\ o \in Ops /\ o.what \notin OpcodeOnly

\* The object for a register or an opcode extension and an address
LEMMA MemoryShaped ==
  ASSUME NEW i, NEW reg, NEW A, NEW o, InMemoryOf(reg, A, o),
         \/ i = set_x64_reg_address(reg, A, <<o>>)
         \/ i = set_x64_reg_address(reg, A, <<[b |-> "0f"]>> \o <<o>>)
  PROVE  /\ \E q : /\ Shaped(i, q, Reg("r64", A.base), Reg("r64", A.index), reg, SizeOf[reg.class], o)
                   /\ "67" \in q <=> A.size = 4
                   /\ "66" \in q <=> SizeOf[reg.class] = 2
         /\ i.modrm = ModRM(IF A.index # None THEN 4 ELSE A.base, reg.value, ModOf(Offset(A)))
         /\ i.sib = IF A.index # None THEN SIB(A.base, A.index, A.scale) ELSE If(NeedsSib(A.base), SIB(4, 4, 0))
         /\ i.imm = Offset(A)
<1> DEFINE rex == x64_add_rex(Reg("r64", A.base), Reg("r64", A.index), reg, SizeOf[reg.class])
           w == (If(A.size = 4, <<[b |-> "67"]>>) \o If(SizeOf[reg.class] = 2, <<[b |-> "66"]>>)) \o rex
           q0 == (IF A.size = 4 THEN {"67"} ELSE {}) \cup (IF SizeOf[reg.class] = 2 THEN {"66"} ELSE {})
<1>1. PICK oc \in {<<o>>, <<[b |-> "0f"]>> \o <<o>>} : i = set_x64_reg_address(reg, A, oc)
  OBVIOUS
<1>2. ~Refused(A) /\ o \in Ops /\ IsAddress(A) /\ reg.value \in Int
  BY DEF InMemoryOf
<1>3. /\ i.opcode = w \o oc
      /\ i.modrm = ModRM(IF A.index # None THEN 4 ELSE A.base, reg.value, ModOf(Offset(A)))
      /\ i.sib = IF A.index # None THEN SIB(A.base, A.index, A.scale) ELSE If(NeedsSib(A.base), SIB(4, 4, 0))
      /\ i.imm = Offset(A)
  BY <1>1, <1>2 DEF set_x64_reg_address
<1>4. /\ q0 \in SUBSET {"67", "66"} /\ ("67" \in q0 <=> A.size = 4) /\ ("66" \in q0 <=> SizeOf[reg.class] = 2)
  OBVIOUS
<1> HIDE DEF q0
<1>5. \E q \in {q0, q0 \cup {"0f"}} :
        w \o oc = WithPrefixes(q, Reg("r64", A.base), Reg("r64", A.index), reg, SizeOf[reg.class], o)
  <2>1. w = (If("67" \in q0, <<[b |-> "67"]>>) \o If("66" \in q0, <<[b |-> "66"]>>)) \o rex
    BY <1>4 DEF If
  <2>2. CASE oc = <<o>>
    <3>1. "0f" \notin q0
      BY <1>4
    <3>2. <<>> \o <<o>> = <<o>>
      OBVIOUS
    <3> HIDE DEF w, rex
    <3>3. WithPrefixes(q0, Reg("r64", A.base), Reg("r64", A.index), reg, SizeOf[reg.class], o) =
            ((If("67" \in q0, <<[b |-> "67"]>>) \o If("66" \in q0, <<[b |-> "66"]>>)) \o rex) \o (<<>> \o <<o>>)
      BY <3>1 DEF WithPrefixes, If, rex
    <3> QED BY <2>1, <2>2, <3>2, <3>3
  <2>3. CASE oc = <<[b |-> "0f"]>> \o <<o>>
    <3> DEFINE q1 == q0 \cup {"0f"}
    <3>1. "0f" \in q1 /\ ("67" \in q1 <=> "67" \in q0) /\ ("66" \in q1 <=> "66" \in q0)
      OBVIOUS
    <3> HIDE DEF w, rex, q1
    <3>2. WithPrefixes(q1, Reg("r64", A.base), Reg("r64", A.index), reg, SizeOf[reg.class], o) =
            ((If("67" \in q0, <<[b |-> "67"]>>) \o If("66" \in q0, <<[b |-> "66"]>>)) \o rex)
              \o (<<[b |-> "0f"]>> \o <<o>>)
      BY <3>1 DEF WithPrefixes, If, rex
    <3>3. w \o oc = WithPrefixes(q1, Reg("r64", A.base), Reg("r64", A.index), reg, SizeOf[reg.class], o)
      BY <2>1, <2>3, <3>2
    <3> QED BY <3>3 DEF q1
  <2> QED BY <2>2, <2>3
<1>6. PICK q \in {q0, q0 \cup {"0f"}} :
        w \o oc = WithPrefixes(q, Reg("r64", A.base), Reg("r64", A.index), reg, SizeOf[reg.class], o)
  BY <1>5
<1> HIDE DEF w
<1>7. i.modrm \in Seq(Bytes)
  <2> DEFINE rm == IF A.index # None THEN 4 ELSE A.base
  <2>1. ModOf(Offset(A)) \in 0 .. 3
    BY <1>2, OffsetBytes
  <2>2. rm \in Int
    BY <1>2, AddressParts
  <2>3. i.modrm = ModRM(rm, reg.value, ModOf(Offset(A)))
    BY <1>3
  <2> HIDE DEF rm
  <2>4. ModRM(rm, reg.value, ModOf(Offset(A))) \in Seq(Bytes)
    BY <1>2, <2>1, <2>2, ModRMByte
  <2> QED BY <2>3, <2>4
<1>8. i.sib \in Seq(Bytes)
  <2>1. A.base \in Int /\ A.index \in Int /\ A.scale \in 0 .. 3 /\ 4 \in Int /\ 0 \in 0 .. 3
    BY <1>2, AddressParts
  <2>2. SIB(A.base, A.index, A.scale) \in Seq(Bytes)
    BY <2>1, SIBByte
  <2>3. SIB(4, 4, 0) \in Seq(Bytes)
    BY <2>1, SIBByte
  <2> QED BY <1>3, <2>2, <2>3, Nothing DEF If
<1>9. i.imm \in Seq(Bytes)
  BY <1>2, <1>3, OffsetBytes
<1>10. Shaped(i, q, Reg("r64", A.base), Reg("r64", A.index), reg, SizeOf[reg.class], o)
  <2>1. q \in SUBSET {"67", "66", "0f"}
    BY <1>4
  <2> QED BY <1>2, <1>3, <1>6, <1>7, <1>8, <1>9, <2>1 DEF Shaped
<1>11. ("67" \in q <=> A.size = 4) /\ ("66" \in q <=> SizeOf[reg.class] = 2)
  BY <1>4
<1> QED BY <1>3, <1>10, <1>11

LEMMA MemoryFits ==
  ASSUME NEW i, NEW reg, NEW A, NEW o, InMemoryOf(reg, A, o),
         \/ i = set_x64_reg_address(reg, A, <<o>>)
         \/ i = set_x64_reg_address(reg, A, <<[b |-> "0f"]>> \o <<o>>)
  PROVE  i # Thrown /\ Fits(i)
<1> DEFINE rm == IF A.index # None THEN 4 ELSE A.base
           m == ModRM(rm, reg.value, ModOf(Offset(A)))
<1>1. PICK q : Shaped(i, q, Reg("r64", A.base), Reg("r64", A.index), reg, SizeOf[reg.class], o)
  BY MemoryShaped
<1>2. /\ i.modrm = m /\ i.imm = Offset(A)
      /\ i.sib = IF A.index # None THEN SIB(A.base, A.index, A.scale) ELSE If(NeedsSib(A.base), SIB(4, 4, 0))
  BY MemoryShaped
<1>3. IsAddress(A) /\ reg.value \in Int
  BY DEF InMemoryOf
<1>4. Len(i.opcode) <= 15 /\ i # Thrown
  BY <1>1, ShapedFits
<1>5. Len(i.imm) <= 8
  <2>1. Len(Offset(A)) \in {0, 1, 4}
    BY <1>3, OffsetBytes
  <2>2. \A n \in {0, 1, 4} : n <= 8
    OBVIOUS
  <2>3. Len(Offset(A)) <= 8
    BY <2>1, <2>2
  <2>4. i.imm = Offset(A)
    BY <1>2
  <2> QED BY <2>3, <2>4
<1>6. i.modrm[1].rm \in 0 .. 7 /\ i.modrm[1].reg \in 0 .. 7
  <2>1. ModOf(Offset(A)) \in 0 .. 3
    BY <1>3, OffsetBytes
  <2>2. rm \in Int
    BY <1>3, AddressParts
  <2> HIDE DEF rm
  <2>3. m[1].rm \in 0 .. 7 /\ m[1].reg \in 0 .. 7
    BY <1>3, <2>1, <2>2, ModRMByte
  <2> HIDE DEF m
  <2> QED BY <1>2, <2>3
<1>7. i.sib # <<>> => i.sib[1].base \in 0 .. 7 /\ i.sib[1].index \in 0 .. 7
  <2>1. A.base \in Int /\ A.index \in Int /\ A.scale \in 0 .. 3 /\ 4 \in Int /\ 0 \in 0 .. 3
    BY <1>3, AddressParts
  <2>2. SIB(A.base, A.index, A.scale)[1].base \in 0 .. 7 /\ SIB(A.base, A.index, A.scale)[1].index \in 0 .. 7
    BY <2>1, SIBByte
  <2>3. SIB(4, 4, 0)[1].base \in 0 .. 7 /\ SIB(4, 4, 0)[1].index \in 0 .. 7
    BY <2>1, SIBByte
  <2> QED BY <1>2, <2>2, <2>3 DEF If
<1> QED BY <1>4, <1>5, <1>6, <1>7 DEF Fits

\* The bit for 64 bits, by a name for the number
IsEight(n) == n = 8

LEMMA ReadWide ==
  ASSUME NEW i, NEW q, NEW a, NEW c, NEW b, NEW n, NEW o, Shaped(i, q, a, c, b, n, o),
         code = emit_to(i)
  PROVE  "w" \in Bits <=> IsEight(n)
<1>1. PICK p \in SUBSET {"67", "66", "rex", "0f"}, bits \in SUBSET {"b", "r", "x", "w"} :
           Built(i, p, bits, o) /\ (bits # {} => "rex" \in p) /\ ("w" \in bits <=> n = 8)
  BY ShapedIsBuilt
<1>2. o \in Ops
  BY DEF Shaped
<1>3. Bits = bits
  BY <1>1, <1>2, ReadBuilt
<1> QED BY <1>1, <1>3 DEF IsEight

\* The fields of the two bytes, by a name for the remainder
Low(n) == n % 8

LEMMA Low7 == \A n \in Int : Low(n) \in 0 .. 7
  BY DEF Low

LEMMA ModRMLow ==
  ASSUME NEW m, NEW rm, NEW reg, NEW mod, rm \in Int, reg \in Int, mod \in 0 .. 3, m = ModRM(rm, reg, mod)
  PROVE  Len(m) = 1 /\ m # <<>> /\ m[1].rm = Low(rm) /\ m[1].reg = Low(reg) /\ m[1].mod = mod
  BY ModRMByte DEF Low

LEMMA SIBLow ==
  ASSUME NEW s, NEW base, NEW index, NEW scale, base \in Int, index \in Int, scale \in 0 .. 3,
         s = SIB(base, index, scale)
  PROVE  Len(s) = 1 /\ s # <<>> /\ s[1].base = Low(base) /\ s[1].index = Low(index) /\ s[1].scale = scale
<1> DEFINE y == [b |-> "sib", base |-> Low(base), index |-> Low(index), scale |-> scale]
<1>1. s = <<y>>
  BY DEF SIB, Low
<1>2. y.base = Low(base) /\ y.index = Low(index) /\ y.scale = scale
  OBVIOUS
<1> HIDE DEF y
<1> QED BY <1>1, <1>2

\* The processor reads the address, its offset and the length from the bytes.
LEMMA MemoryRead ==
  ASSUME NEW i, NEW reg, NEW A, NEW o, InMemoryOf(reg, A, o),
         \/ i = set_x64_reg_address(reg, A, <<o>>)
         \/ i = set_x64_reg_address(reg, A, <<[b |-> "0f"]>> \o <<o>>),
         code = emit_to(i)
  PROVE  /\ InMemory /\ ~InOpcode /\ opcode = o
         /\ Rest[1].reg = Low(reg.value)
         /\ A.base # None => Addressed = Meant(A)
         /\ Immediate = 0 => LengthRead = size(i) /\ size(i) = Len(code)
         /\ "r" \in Bits <=> is_extended(reg)
         /\ "w" \in Bits <=> SizeOf[reg.class] = 8
         /\ Has(After67, "66") <=> SizeOf[reg.class] = 2
         /\ add_rex(reg) => HasRex
         /\ A.base < 8 /\ A.index < 8 /\ ~is_extended(reg) /\ ~add_rex(reg) /\ SizeOf[reg.class] # 8 => ~HasRex
<1> DEFINE base == Reg("r64", A.base)
           index == Reg("r64", A.index)
           rm == IF A.index # None THEN 4 ELSE A.base
           mod == ModOf(Offset(A))
           L == Len(Offset(A))
<1>1. PICK q : /\ Shaped(i, q, base, index, reg, SizeOf[reg.class], o)
               /\ "67" \in q <=> A.size = 4
               /\ "66" \in q <=> SizeOf[reg.class] = 2
  BY MemoryShaped
<1>2. /\ i.modrm = ModRM(rm, reg.value, mod) /\ i.imm = Offset(A)
      /\ i.sib = IF A.index # None THEN SIB(A.base, A.index, A.scale) ELSE If(NeedsSib(A.base), SIB(4, 4, 0))
  BY MemoryShaped
<1>3. /\ IsAddress(A) /\ A.index # 4 /\ reg.value \in Int /\ o.what \notin OpcodeOnly
  BY DEF InMemoryOf, Refused
<1>4. /\ A.size \in {4, 8} /\ A.base \in -1 .. 15 /\ A.index \in -1 .. 15 /\ A.scale \in 0 .. 3
      /\ A.offset \in Int /\ A.offset_size \in {0, 1, 4}
      /\ A.index = -1 => A.scale = 0
      /\ A.base # -1 /\ A.offset_size = 0 => A.offset = 0
      /\ A.base = -1 => A.index = -1 /\ A.offset_size = 0
  BY <1>3, AddressParts DEF None
<1>5. /\ ("b" \in Bits <=> A.base >= 8) /\ ("x" \in Bits <=> A.index >= 8)
      /\ ~add_rex(base) /\ ~add_rex(index)
  <2>1. ("b" \in Bits <=> is_extended(base)) /\ ("x" \in Bits <=> is_extended(index))
    BY <1>1, ReadShaped
  <2> QED BY <2>1 DEF is_extended, Reg, add_rex
<1> HIDE DEF base, index
<1>6. /\ Has(code, "67") <=> A.size = 4
      /\ Has(After67, "66") <=> SizeOf[reg.class] = 2
      /\ "r" \in Bits <=> is_extended(reg)
      /\ "w" \in Bits <=> SizeOf[reg.class] = 8
      /\ Bits \in SUBSET {"b", "r", "x", "w"}
      /\ HasRex <=> Bits # {} \/ add_rex(base) \/ add_rex(index) \/ add_rex(reg)
  <2>1. Shaped(i, q, base, index, reg, SizeOf[reg.class], o)
    BY <1>1
  <2>2. Has(code, "67") <=> "67" \in q
    BY <2>1, ReadShaped
  <2>4. Has(After67, "66") <=> "66" \in q
    BY <2>1, ReadShaped
  <2>5. "r" \in Bits <=> is_extended(reg)
    BY <2>1, ReadShaped
  <2>6. "w" \in Bits <=> SizeOf[reg.class] = 8
    <3> DEFINE z == SizeOf[reg.class]
    <3>1. Shaped(i, q, base, index, reg, z, o)
      BY <2>1
    <3> HIDE DEF z
    <3>2. "w" \in Bits <=> IsEight(z)
      BY <3>1, ReadWide
    <3> QED BY <3>2 DEF z, IsEight
  <2>3. /\ Bits \in SUBSET {"b", "r", "x", "w"}
        /\ HasRex <=> Bits # {} \/ add_rex(base) \/ add_rex(index) \/ add_rex(reg)
    BY <2>1, ReadShaped
  <2> QED BY <1>1, <2>2, <2>3, <2>4, <2>5, <2>6
<1>7. /\ opcode = o
      /\ size(i) = Len(code) /\ Len(code) \in Nat
      /\ Len(Rest) = Len(i.modrm) + Len(i.sib) + Len(i.imm)
      /\ i.modrm # <<>> => Rest[1] = i.modrm[1]
      /\ Len(i.modrm) = 1 /\ i.sib # <<>> => Rest[2] = i.sib[1]
      /\ i.imm # <<>> => code[Len(code)] = i.imm[Len(i.imm)]
  BY <1>1, ReadShaped
<1>8. /\ L \in {0, 1, 4} /\ (L = 0 <=> A.offset_size = 0 /\ ~NeedsOffset(A.base))
      /\ mod = IF L = 0 THEN 0 ELSE IF L = 1 THEN 1 ELSE 2
      /\ L # 0 => Offset(A) # <<>> /\ Offset(A)[L].num = A.offset
  BY <1>3, OffsetBytes
<1> HIDE DEF mod, L
\* The ModRM byte
<1>9. /\ Len(i.modrm) = 1 /\ i.modrm # <<>>
      /\ i.modrm[1].rm = Low(rm) /\ i.modrm[1].reg = Low(reg.value) /\ i.modrm[1].mod = mod
  <2>1. rm \in Int /\ mod \in 0 .. 3
    BY <1>4, <1>8
  <2> HIDE DEF rm
  <2> DEFINE v == reg.value
             m == i.modrm
  <2>2. v \in Int /\ m = ModRM(rm, v, mod)
    BY <1>2, <1>3
  <2> HIDE DEF v, m
  <2>3. Len(m) = 1 /\ m # <<>> /\ m[1].rm = Low(rm) /\ m[1].reg = Low(v) /\ m[1].mod = mod
    BY <2>1, <2>2, ModRMLow
  <2> QED BY <2>3 DEF v, m
<1>10. Rest[1].rm = Low(rm) /\ Rest[1].reg = Low(reg.value) /\ Rest[1].mod = mod
  BY <1>7, <1>9
<1>11. InMemory /\ ~InOpcode /\ Mod = mod
  <2>1. ~InOpcode
    BY <1>3, <1>7 DEF InOpcode, OpcodeOnly
  <2>2. Mod = mod /\ mod # 3
    BY <1>8, <1>10 DEF Mod
  <2> QED BY <2>1, <2>2 DEF InMemory
\* The SIB byte
<1>12. /\ HasSib <=> A.index # -1 \/ A.base \in {4, 12}
       /\ Len(i.sib) = IF HasSib THEN 1 ELSE 0
       /\ HasSib => /\ Rest[2].base = Low(A.base)
                    /\ A.index # -1 => Rest[2].index = Low(A.index) /\ Rest[2].scale = A.scale
                    /\ A.index = -1 => Rest[2].index = 4
  <2>1. HasSib <=> Low(rm) = 4
    BY <1>10, <1>11 DEF HasSib
  <2>2. CASE A.index # -1
    <3>1. HasSib
      BY <2>1, <2>2 DEF None, Low
    <3>2. /\ Len(i.sib) = 1 /\ i.sib # <<>>
          /\ i.sib[1].base = Low(A.base) /\ i.sib[1].index = Low(A.index) /\ i.sib[1].scale = A.scale
      <4> DEFINE ab == A.base
                 ai == A.index
                 as == A.scale
                 s == i.sib
      <4>1. ab \in Int /\ ai \in Int /\ as \in 0 .. 3
        BY <1>4
      <4>2. s = SIB(ab, ai, as)
        BY <1>2, <2>2 DEF None
      <4> HIDE DEF ab, ai, as, s
      <4>3. Len(s) = 1 /\ s # <<>> /\ s[1].base = Low(ab) /\ s[1].index = Low(ai) /\ s[1].scale = as
        BY <4>1, <4>2, SIBLow
      <4> QED BY <4>3 DEF ab, ai, as, s
    <3>3. Rest[2] = i.sib[1]
      BY <1>7, <1>9, <3>2
    <3> QED BY <2>2, <3>1, <3>2, <3>3
  <2>3. CASE A.index = -1 /\ A.base \in {4, 12}
    <3>1. HasSib /\ Low(A.base) = 4
      BY <2>1, <2>3 DEF None, Low
    <3>2. Len(i.sib) = 1 /\ i.sib # <<>> /\ i.sib[1].base = 4 /\ i.sib[1].index = 4
      <4> DEFINE s == i.sib
      <4>1. 4 \in Int /\ 0 \in 0 .. 3 /\ Low(4) = 4
        BY DEF Low
      <4>2. s = SIB(4, 4, 0)
        BY <1>2, <2>3 DEF None, NeedsSib, If
      <4> HIDE DEF s
      <4>3. Len(s) = 1 /\ s # <<>> /\ s[1].base = Low(4) /\ s[1].index = Low(4)
        BY <4>1, <4>2, SIBLow
      <4> QED BY <4>1, <4>3 DEF s
    <3>3. Rest[2] = i.sib[1]
      BY <1>7, <1>9, <3>2
    <3> QED BY <2>3, <3>1, <3>2, <3>3
  <2>4. CASE A.index = -1 /\ A.base \notin {4, 12}
    <3>1. ~HasSib
      BY <1>4, <2>1, <2>4 DEF None, Low
    <3>2. i.sib = <<>>
      BY <1>2, <2>4 DEF None, NeedsSib, If
    <3> QED BY <2>4, <3>1, <3>2, Nothing
  <2> QED BY <2>2, <2>3, <2>4
<1>13. Base = Low(A.base)
  <2>1. CASE HasSib
    BY <1>12, <2>1 DEF Base
  <2>2. CASE ~HasSib
    BY <1>10, <1>12, <2>2 DEF Base, None
  <2> QED BY <2>1, <2>2
<1>14. Displacement = L
  <2>1. CASE L = 0
    <3>1. Base # 5
      BY <1>4, <1>8, <1>13, <2>1 DEF NeedsOffset, Low
    <3> QED BY <1>8, <1>11, <2>1, <3>1 DEF Displacement
  <2>2. CASE L # 0
    BY <1>8, <1>11, <2>2 DEF Displacement
  <2> QED BY <2>1, <2>2
<1>15. ASSUME Immediate = 0 PROVE LengthRead = size(i) /\ size(i) = Len(code)
  <2>1. Len(Rest) = 1 + (IF HasSib THEN 1 ELSE 0) + L
    <3>1. Len(i.imm) = L
      BY <1>2 DEF L
    <3>2. Len(Rest) = Len(i.modrm) + Len(i.sib) + Len(i.imm)
      BY <1>7
    <3>3. Len(i.modrm) = 1
      BY <1>9
    <3>4. Len(i.sib) = IF HasSib THEN 1 ELSE 0
      BY <1>12
    <3> QED BY <3>1, <3>2, <3>3, <3>4
  <2>2. LengthRead = Len(code) - Len(Rest) + 1 + (IF HasSib THEN 1 ELSE 0) + L + 0
    BY <1>11, <1>14, <1>15 DEF LengthRead
  <2>3. Len(code) \in Nat /\ L \in Nat
    BY <1>7, <1>8
  <2>4. size(i) = Len(code)
    BY <1>7
  <2> QED BY <2>1, <2>2, <2>3, <2>4
<1>16. ASSUME A.base # None PROVE Addressed = Meant(A)
  <2> DEFINE n == IF HasSib THEN Rest[2].index + Extra("x") ELSE 4
  <2>1. (IF Has(code, "67") THEN 4 ELSE 8) = A.size
    BY <1>4, <1>6
  <2>2. (IF Mod = 0 /\ Base = 5 THEN None ELSE Base + Extra("b")) = A.base
    <3>1. ~(Mod = 0 /\ Base = 5)
      <4>1. ASSUME Mod = 0, Base = 5 PROVE FALSE
        <5>1. L = 0
          BY <1>8, <1>11, <4>1
        <5>2. A.base \notin {5, 13}
          BY <1>8, <5>1 DEF NeedsOffset
        <5> QED BY <1>4, <1>13, <4>1, <5>2 DEF Low
      <4> QED BY <4>1
    <3>2. Low(A.base) + Extra("b") = A.base
      BY <1>4, <1>5, <1>16 DEF Extra, None, Low
    <3> QED BY <1>13, <3>1, <3>2
  <2>3. n = IF A.index = -1 THEN 4 ELSE A.index
    <3>1. CASE A.index = -1
      <4>1. Extra("x") = 0
        BY <1>5, <3>1 DEF Extra
      <4> QED BY <1>12, <3>1, <4>1
    <3>2. CASE A.index # -1
      <4>1. Low(A.index) + Extra("x") = A.index
        BY <1>4, <1>5, <3>2 DEF Extra, Low
      <4> QED BY <1>12, <3>2, <4>1
    <3> QED BY <3>1, <3>2
  <2>4. (IF n = 4 THEN None ELSE n) = A.index /\ (IF n = 4 THEN 0 ELSE Rest[2].scale) = A.scale
    <3>1. CASE A.index = -1
      BY <1>4, <2>3, <3>1 DEF None
    <3>2. CASE A.index # -1
      <4>1. n = A.index /\ n # 4
        BY <1>3, <2>3, <3>2
      <4>2. Rest[2].scale = A.scale
        BY <1>12, <3>2
      <4> QED BY <4>1, <4>2
    <3> QED BY <3>1, <3>2
  <2>5. (IF Displacement = 0 THEN 0 ELSE code[Len(code)].num) = A.offset
    <3>1. CASE L = 0
      BY <1>4, <1>8, <1>14, <1>16, <3>1 DEF None
    <3>2. CASE L # 0
      BY <1>2, <1>7, <1>8, <1>14, <3>2 DEF L
    <3> QED BY <3>1, <3>2
  <2> QED BY <2>1, <2>2, <2>4, <2>5 DEF Addressed, Meant
<1>17. add_rex(reg) => HasRex
  BY <1>6
<1>18. ASSUME A.base < 8, A.index < 8, ~is_extended(reg), ~add_rex(reg), SizeOf[reg.class] # 8 PROVE ~HasRex
  <2>1. "b" \notin Bits /\ "x" \notin Bits
    BY <1>4, <1>5, <1>18
  <2>2. Bits = {}
    BY <1>6, <1>18, <2>1
  <2> QED BY <1>5, <1>6, <1>18, <2>2
<1> QED BY <1>6, <1>7, <1>10, <1>11, <1>15, <1>16, <1>17, <1>18

\* A register and an address, stored or loaded.  With an extended register in
\* the address, ah to bh are read as others: HighWithExtended.
IsMem(form, r, A) ==
  op.form = form /\ op.reg = r /\ op.address = A /\ DOMAIN op = {"form", "reg", "address"}

LEMMA StoreLoadCorrect ==
  ASSUME NEW form \in {"store", "load"}, NEW r \in Registers, NEW A, IsAddress(A), ~Refused(A),
         IsMem(form, r, A)
  PROVE  Correct(Encoded)
<1> DEFINE i == Encoded
           reg == Code(r)
<1>1. PICK o \in Ops : o.what = form /\ (o.byte <=> SizeOf[r.class] = 1) /\ Wide(form, r) = <<o>>
  <2>1. form \in OpcodeNames
    BY DEF OpcodeNames
  <2> QED BY <2>1, WideOpcode
<1>2. i = set_x64_reg_address(reg, A, <<o>>)
  BY <1>1 DEF Encoded, IsMem
<1>3. /\ r.class \in {"r64", "r32", "r16", "r8", "r8h"} /\ reg.class = r.class /\ reg.value \in 0 .. 15
      /\ SizeOf[r.class] \in {1, 2, 4, 8} /\ (SizeOf[r.class] = 8 <=> r.class = "r64")
      /\ add_rex(reg) <=> add_rex(r)
      /\ r.class = "r8h" => ~is_extended(reg) /\ ~add_rex(r)
  BY RegisterParts
<1> HIDE DEF i, reg
<1>4. o.what \notin OpcodeOnly
  BY <1>1 DEF OpcodeOnly
<1>5. InMemoryOf(reg, A, o)
  BY <1>3, <1>4 DEF InMemoryOf
<1>6. i # Thrown /\ Fits(i)
  BY <1>2, <1>5, MemoryFits
<1>7. ASSUME code = emit_to(i) PROVE WellRead(i)
  <2>1. /\ InMemory /\ ~InOpcode /\ opcode = o
        /\ Rest[1].reg = Low(reg.value)
        /\ A.base # None => Addressed = Meant(A)
        /\ Immediate = 0 => LengthRead = size(i) /\ size(i) = Len(code)
        /\ "r" \in Bits <=> is_extended(reg)
        /\ "w" \in Bits <=> SizeOf[reg.class] = 8
        /\ Has(After67, "66") <=> SizeOf[reg.class] = 2
        /\ add_rex(reg) => HasRex
        /\ A.base < 8 /\ A.index < 8 /\ ~is_extended(reg) /\ ~add_rex(reg) /\ SizeOf[reg.class] # 8 => ~HasRex
    BY <1>2, <1>5, <1>7, MemoryRead
  <2>2. Immediate = 0
    BY <1>1, <2>1 DEF Immediate
  <2>3. ASSUME ~Exceptions PROVE OperandsRead
    <3>1. /\ A.base # None
          /\ r.class = "r8h" => ~(A.base >= 8 \/ A.index >= 8)
      BY <2>3 DEF Exceptions, Absolute, HighWithExtended, Addressing, IsMem
    <3>2. A.base \in Int /\ A.index \in Int
      BY AddressParts
    <3>3. r.class = "r8h" => ~HasRex
      <4>1. ASSUME r.class = "r8h" PROVE ~HasRex
        <5>1. A.base < 8 /\ A.index < 8
          BY <3>1, <3>2, <4>1
        <5>2. ~is_extended(reg) /\ ~add_rex(reg) /\ SizeOf[reg.class] # 8
          BY <1>3, <4>1
        <5> QED BY <2>1, <5>1, <5>2
      <4> QED BY <4>1
    <3>4. Class = IF SizeOf[r.class] = 1 THEN "r8" ELSE r.class
      <4>1. /\ opcode.byte <=> SizeOf[r.class] = 1
            /\ opcode.what \notin {"jmp", "push", "pop"}
            /\ "w" \in Bits <=> SizeOf[r.class] = 8
            /\ Has(After67, "66") <=> SizeOf[r.class] = 2
        BY <1>1, <1>3, <2>1
      <4> QED BY <4>1, ReadClass
    <3>5. Named(reg.value % 8, "r") = r
      <4>1. "r" \in Bits <=> is_extended(Code(r))
        BY <2>1 DEF reg
      <4>2. add_rex(r) => HasRex
        BY <1>3, <2>1
      <4>3. Named(Code(r).value % 8, "r") = r
        BY <3>3, <3>4, <4>1, <4>2, ReadRegister
      <4> QED BY <4>3 DEF reg
    <3>6. Named(Rest[1].reg, "r") = r
      BY <2>1, <3>5 DEF Low
    <3> QED BY <2>1, <3>1, <3>6 DEF OperandsRead, Addressing, IsMem
  <2> QED BY <2>1, <2>2, <2>3 DEF WellRead
<1> QED BY <1>6, <1>7 DEF Correct, i

LEMMA ImulMemCorrect ==
  ASSUME NEW r \in WideRegisters, NEW A, IsAddress(A), ~Refused(A), IsMem("imul_mem", r, A)
  PROVE  Correct(Encoded)
<1> DEFINE i == Encoded
<1>1. PICK o \in Ops : o.what = "imul" /\ ~o.byte /\ Opcode("imul") = <<o>>
  <2>1. "imul" \in OpcodeNames
    BY DEF OpcodeNames
  <2> QED BY <2>1, PlainOpcode
<1>2. i = set_x64_reg_address(r, A, <<[b |-> "0f"]>> \o <<o>>)
  BY <1>1 DEF Encoded, IsMem
<1>3. /\ r \in Registers /\ r.class \in {"r64", "r32", "r16"} /\ r.value \in 0 .. 15 /\ Code(r) = r
      /\ SizeOf[r.class] \in {1, 2, 4, 8} /\ SizeOf[r.class] # 1 /\ ~add_rex(r)
  BY DEF WideRegisters, Registers, Normal, SizeOf, Code, add_rex
<1> HIDE DEF i
<1>4. o.what \notin OpcodeOnly
  BY <1>1 DEF OpcodeOnly
<1>5. InMemoryOf(r, A, o)
  BY <1>3, <1>4 DEF InMemoryOf
<1>6. i # Thrown /\ Fits(i)
  BY <1>2, <1>5, MemoryFits
<1>7. ASSUME code = emit_to(i) PROVE WellRead(i)
  <2>1. /\ InMemory /\ ~InOpcode /\ opcode = o
        /\ Rest[1].reg = Low(r.value)
        /\ A.base # None => Addressed = Meant(A)
        /\ Immediate = 0 => LengthRead = size(i) /\ size(i) = Len(code)
        /\ "r" \in Bits <=> is_extended(r)
        /\ "w" \in Bits <=> SizeOf[r.class] = 8
        /\ Has(After67, "66") <=> SizeOf[r.class] = 2
    BY <1>2, <1>5, <1>7, MemoryRead
  <2>2. Immediate = 0
    BY <1>1, <2>1 DEF Immediate
  <2>3. ASSUME ~Exceptions PROVE OperandsRead
    <3>1. A.base # None
      BY <2>3 DEF Exceptions, Absolute, Addressing, IsMem
    <3>2. Class = IF SizeOf[r.class] = 1 THEN "r8" ELSE r.class
      <4>1. /\ opcode.byte <=> SizeOf[r.class] = 1
            /\ opcode.what \notin {"jmp", "push", "pop"}
        BY <1>1, <1>3, <2>1
      <4> QED BY <1>3, <2>1, <4>1, ReadClass
    <3>3. Named(r.value % 8, "r") = r
      <4>1. /\ "r" \in Bits <=> is_extended(Code(r))
            /\ r.class # "r8h"
        BY <1>3, <2>1
      <4>2. Named(Code(r).value % 8, "r") = r
        BY <1>3, <3>2, <4>1, ReadRegister
      <4> QED BY <1>3, <4>2
    <3>4. Named(Rest[1].reg, "r") = r
      BY <2>1, <3>3 DEF Low
    <3> QED BY <2>1, <3>1, <3>4 DEF OperandsRead, Addressing, IsMem
  <2> QED BY <2>1, <2>2, <2>3 DEF WellRead
<1> QED BY <1>6, <1>7 DEF Correct, i

\* An opcode extension and an address
IsExtMem(form, e, A) ==
  /\ op.form = form /\ op.ext = e /\ op.address = A
  /\ DOMAIN op \in {{"form", "ext", "address"}, {"form", "class", "ext", "address"}}

LEMMA ExtMemCorrect ==
  ASSUME NEW form \in {"single_mem", "jmp_mem"}, NEW e \in 0 .. 7, NEW reg, NEW A, NEW o,
         IsExtMem(form, e, A), InMemoryOf(reg, A, o), reg.value = e,
         IF form = "jmp_mem" THEN o.what = "jmp" ELSE o.what = "single",
         Encoded = set_x64_reg_address(reg, A, <<o>>)
  PROVE  Correct(Encoded)
<1> DEFINE i == Encoded
<1>1. i = set_x64_reg_address(reg, A, <<o>>)
  OBVIOUS
<1> HIDE DEF i
<1>2. i # Thrown /\ Fits(i)
  BY <1>1, MemoryFits
<1>3. ASSUME code = emit_to(i) PROVE WellRead(i)
  <2>1. /\ InMemory /\ ~InOpcode /\ opcode = o
        /\ Rest[1].reg = Low(reg.value)
        /\ A.base # None => Addressed = Meant(A)
        /\ Immediate = 0 => LengthRead = size(i) /\ size(i) = Len(code)
    BY <1>1, <1>3, MemoryRead
  <2>2. Immediate = 0
    BY <2>1 DEF Immediate
  <2>3. Rest[1].reg = e
    BY <2>1 DEF Low
  <2>4. ASSUME ~Exceptions PROVE OperandsRead
    <3>1. A.base # None
      BY <2>4 DEF Exceptions, Absolute, Addressing, IsExtMem
    <3> QED BY <2>1, <2>3, <3>1 DEF OperandsRead, Addressing, IsExtMem
  <2> QED BY <2>1, <2>2, <2>4 DEF WellRead
<1> QED BY <1>2, <1>3 DEF Correct, i

LEMMA SingleMemCorrect ==
  ASSUME NEW class \in Normal \cup {"r8h"}, NEW e \in 0 .. 7, NEW A, IsAddress(A), ~Refused(A),
         IsExtMem("single_mem", e, A), op.class = class
  PROVE  Correct(Encoded)
<1> DEFINE reg == Reg(class, e)
<1>1. PICK o \in Ops : o.what = "single" /\ Wide("single", reg) = <<o>>
  <2>1. "single" \in OpcodeNames
    BY DEF OpcodeNames
  <2> HIDE DEF reg
  <2> QED BY <2>1, WideOpcode
<1>2. Encoded = set_x64_reg_address(reg, A, <<o>>)
  BY <1>1 DEF Encoded, IsExtMem
<1>3. reg.value = e /\ reg.value \in 0 .. 15 /\ SizeOf[reg.class] \in {1, 2, 4, 8}
  BY DEF Reg, SizeOf, Normal
<1>4. o.what \notin OpcodeOnly
  BY <1>1 DEF OpcodeOnly
<1> HIDE DEF reg
<1>5. InMemoryOf(reg, A, o)
  BY <1>3, <1>4 DEF InMemoryOf
<1>6. o.what = "single" /\ reg.value = e
  BY <1>1, <1>3
<1> QED BY <1>2, <1>5, <1>6, ExtMemCorrect

LEMMA JmpMemCorrect ==
  ASSUME NEW e \in 0 .. 7, NEW A, IsAddress(A), ~Refused(A), IsExtMem("jmp_mem", e, A)
  PROVE  Correct(Encoded)
<1> DEFINE reg == Reg("r32", e)
<1>1. PICK o \in Ops : o.what = "jmp" /\ Opcode("jmp") = <<o>>
  <2>1. "jmp" \in OpcodeNames
    BY DEF OpcodeNames
  <2> QED BY <2>1, PlainOpcode
<1>2. Encoded = set_x64_reg_address(reg, A, <<o>>)
  BY <1>1 DEF Encoded, IsExtMem
<1>3. reg.value = e /\ reg.value \in 0 .. 15 /\ SizeOf[reg.class] \in {1, 2, 4, 8}
  BY DEF Reg, SizeOf
<1>4. o.what \notin OpcodeOnly
  BY <1>1 DEF OpcodeOnly
<1> HIDE DEF reg
<1>5. InMemoryOf(reg, A, o)
  BY <1>3, <1>4 DEF InMemoryOf
<1>6. o.what = "jmp" /\ reg.value = e
  BY <1>1, <1>3
<1> QED BY <1>2, <1>5, <1>6, ExtMemCorrect

-----------------------------------------------------------------------------
(***************************************************************************)
(* Every instruction.                                                      *)
(***************************************************************************)

\* The operands that have no encoding
Unencodable ==
  \/ op.form \in Addressing /\ op.address.index = 4
  \/ op.form = "reg_reg" /\ WithHigh(op.rm, op.reg) /\ \E r \in {op.rm, op.reg} : add_rex(r)

Settled == Correct(Encoded) \/ (Encoded = Thrown /\ Unencodable)

LEMMA RegRegSettled ==
  ASSUME op \in [form : {"reg_reg"}, rm : Registers, reg : Registers],
         SizeOf[op.rm.class] = SizeOf[op.reg.class]
  PROVE  Settled
<1>1. op.rm \in Registers /\ op.reg \in Registers /\ op.form = "reg_reg" /\ DOMAIN op = {"form", "rm", "reg"}
  OBVIOUS
<1>2. CASE NoRex(op.rm, op.reg)
  <2>1. Encoded = Thrown
    BY <1>1, <1>2 DEF Encoded, RegReg
  <2>2. Unencodable
    BY <1>1, <1>2 DEF Unencodable, NoRex
  <2> QED BY <2>1, <2>2 DEF Settled
<1>3. CASE ~NoRex(op.rm, op.reg)
  <2>1. IsRegReg("reg_reg", op.rm, op.reg)
    BY <1>1 DEF IsRegReg
  <2>2. Correct(Encoded)
    BY <1>1, <1>3, <2>1, RegRegCorrect
  <2> QED BY <2>2 DEF Settled
<1> QED BY <1>2, <1>3

LEMMA ImulSettled ==
  ASSUME op \in [form : {"imul"}, rm : WideRegisters, reg : WideRegisters], op.rm.class = op.reg.class
  PROVE  Settled
<1>1. op.rm \in WideRegisters /\ op.reg \in WideRegisters
  OBVIOUS
<1>2. IsRegReg("imul", op.rm, op.reg)
  BY DEF IsRegReg
<1>3. Correct(Encoded)
  BY <1>1, <1>2, ImulCorrect
<1> QED BY <1>3 DEF Settled

LEMMA ImulImmSettled ==
  ASSUME op \in [form : {"imul_imm"}, rm : WideRegisters, reg : WideRegisters, imm : Int, size : {1, 2, 4}],
         op.rm.class = op.reg.class, op.size \in ArithSizes[op.rm.class]
  PROVE  Settled
<1>1. op.rm \in WideRegisters /\ op.reg \in WideRegisters /\ op.imm \in Int /\ op.size \in {1, 2, 4}
  OBVIOUS
<1>2. IsImulImm(op.rm, op.reg, op.imm, op.size)
  BY DEF IsImulImm
<1>3. Correct(Encoded)
  BY <1>1, <1>2, ImulImmCorrect
<1> QED BY <1>3 DEF Settled

LEMMA ArithImmSettled ==
  ASSUME op \in [form : {"arith_imm"}, rm : Registers, ext : 0 .. 7, imm : Int, size : {1, 2, 4}],
         op.size \in ArithSizes[op.rm.class]
  PROVE  Settled
<1>1. op.rm \in Registers /\ op.ext \in 0 .. 7 /\ op.imm \in Int /\ op.size \in {1, 2, 4}
  OBVIOUS
<1>2. IsRegImm("arith_imm", op.rm, op.imm, op.size)
  BY DEF IsRegImm
<1>3. Correct(Encoded)
  BY <1>1, <1>2, ArithImmCorrect
<1> QED BY <1>3 DEF Settled

LEMMA MovImmSettled ==
  ASSUME op \in [form : {"mov_imm"}, rm : Registers, imm : Int, size : {1, 2, 4, 8}],
         op.size \in MovSizes[op.rm.class]
  PROVE  Settled
<1>1. op.rm \in Registers /\ op.imm \in Int /\ op.size \in {1, 2, 4, 8}
  OBVIOUS
<1>2. IsRegImm("mov_imm", op.rm, op.imm, op.size)
  BY DEF IsRegImm
<1>3. Correct(Encoded)
  BY <1>1, <1>2, MovImmCorrect
<1> QED BY <1>3 DEF Settled

\* The forms with an address throw for the stack pointer as the index.
LEMMA RefusedSettled ==
  ASSUME op.form \in Addressing, Refused(op.address)
  PROVE  Settled
<1>1. Encoded = Thrown
  BY DEF Addressing, Encoded, set_x64_reg_address
<1> QED BY <1>1 DEF Settled, Unencodable, Refused

LEMMA StoreLoadSettled ==
  ASSUME op \in [form : {"store", "load"}, reg : Registers, address : Addresses], IsAddress(op.address)
  PROVE  Settled
<1>1. op.form \in {"store", "load"} /\ op.reg \in Registers
  OBVIOUS
<1>2. CASE Refused(op.address)
  BY <1>1, <1>2, RefusedSettled DEF Addressing
<1>3. CASE ~Refused(op.address)
  <2>1. IsMem(op.form, op.reg, op.address)
    BY DEF IsMem
  <2>2. Correct(Encoded)
    BY <1>1, <1>3, <2>1, StoreLoadCorrect
  <2> QED BY <2>2 DEF Settled
<1> QED BY <1>2, <1>3

LEMMA ImulMemSettled ==
  ASSUME op \in [form : {"imul_mem"}, reg : WideRegisters, address : Addresses], IsAddress(op.address)
  PROVE  Settled
<1>1. op.form = "imul_mem" /\ op.reg \in WideRegisters
  OBVIOUS
<1>2. CASE Refused(op.address)
  BY <1>1, <1>2, RefusedSettled DEF Addressing
<1>3. CASE ~Refused(op.address)
  <2>1. IsMem("imul_mem", op.reg, op.address)
    BY DEF IsMem
  <2>2. Correct(Encoded)
    BY <1>1, <1>3, <2>1, ImulMemCorrect
  <2> QED BY <2>2 DEF Settled
<1> QED BY <1>2, <1>3

LEMMA SingleMemSettled ==
  ASSUME op \in [form : {"single_mem"}, class : Normal \cup {"r8h"}, ext : 0 .. 7, address : Addresses],
         IsAddress(op.address)
  PROVE  Settled
<1>1. op.form = "single_mem" /\ op.class \in Normal \cup {"r8h"} /\ op.ext \in 0 .. 7
  OBVIOUS
<1>2. CASE Refused(op.address)
  BY <1>1, <1>2, RefusedSettled DEF Addressing
<1>3. CASE ~Refused(op.address)
  <2>1. IsExtMem("single_mem", op.ext, op.address)
    BY DEF IsExtMem
  <2>2. Correct(Encoded)
    BY <1>1, <1>3, <2>1, SingleMemCorrect
  <2> QED BY <2>2 DEF Settled
<1> QED BY <1>2, <1>3

LEMMA JmpMemSettled ==
  ASSUME op \in [form : {"jmp_mem"}, ext : 0 .. 7, address : Addresses], IsAddress(op.address)
  PROVE  Settled
<1>1. op.form = "jmp_mem" /\ op.ext \in 0 .. 7
  OBVIOUS
<1>2. CASE Refused(op.address)
  BY <1>1, <1>2, RefusedSettled DEF Addressing
<1>3. CASE ~Refused(op.address)
  <2>1. IsExtMem("jmp_mem", op.ext, op.address)
    BY DEF IsExtMem
  <2>2. Correct(Encoded)
    BY <1>1, <1>3, <2>1, JmpMemCorrect
  <2> QED BY <2>2 DEF Settled
<1> QED BY <1>2, <1>3

LEMMA ExtensionSettled ==
  ASSUME op \in [form : {"single", "jmp"}, rm : Registers, ext : 0 .. 7],
         op.form = "jmp" => op.rm.class = "r64"
  PROVE  Settled
<1>1. op.form \in {"single", "jmp"} /\ op.rm \in Registers /\ op.ext \in 0 .. 7
  OBVIOUS
<1>2. IsSingle(op.form, op.rm, op.ext)
  BY DEF IsSingle
<1>3. CASE op.form = "single"
  <2>1. IsSingle("single", op.rm, op.ext)
    BY <1>2, <1>3
  <2>2. Correct(Encoded)
    BY <1>1, <2>1, SingleCorrect
  <2> QED BY <2>2 DEF Settled
<1>4. CASE op.form = "jmp"
  <2>1. IsSingle("jmp", op.rm, op.ext) /\ op.rm.class = "r64"
    BY <1>2, <1>4
  <2>2. Correct(Encoded)
    BY <1>1, <2>1, JmpCorrect
  <2> QED BY <2>2 DEF Settled
<1> QED BY <1>1, <1>3, <1>4

LEMMA PushPopSettled ==
  ASSUME op \in [form : {"push", "pop"}, rm : WideRegisters], op.rm.class # "r32"
  PROVE  Settled
<1>1. op.form \in {"push", "pop"} /\ op.rm \in WideRegisters
  OBVIOUS
<1>2. IsPushPop(op.form, op.rm)
  BY DEF IsPushPop
<1>3. Correct(Encoded)
  BY <1>1, <1>2, PushPopCorrect
<1> QED BY <1>3 DEF Settled

LEMMA MoffsSettled ==
  ASSUME op \in [form : {"moffs"}, what : {"moffs_load", "moffs_store"}, rm : Registers, imm : Int],
         op.rm.class # "r8h", op.rm.value = 0
  PROVE  Settled
<1>1. op.rm \in Registers /\ op.imm \in Int /\ op.what \in {"moffs_load", "moffs_store"}
  OBVIOUS
<1>2. IsMoffs(op.what, op.rm, op.imm)
  BY DEF IsMoffs
<1>3. Correct(Encoded)
  BY <1>1, <1>2, MoffsCorrect
<1> QED BY <1>3 DEF Settled

LEMMA BranchSettled ==
  ASSUME \/ op \in [form : {"near"}, what : {"call_near", "jmp_near"}, imm : Int]
         \/ op \in [form : {"jecxz"}, imm : Int]
         \/ op \in [form : {"jcc", "jcc_not"}, cond : DOMAIN x64_cond, imm : Int]
  PROVE  Settled
<1>1. CASE op \in [form : {"near"}, what : {"call_near", "jmp_near"}, imm : Int]
  <2>1. op.what \in {"call_near", "jmp_near"} /\ op.imm \in Int
    BY <1>1
  <2>2. IsNear(op.what, op.imm)
    BY <1>1 DEF IsNear
  <2>3. Correct(Encoded)
    BY <2>1, <2>2, NearCorrect
  <2> QED BY <2>3 DEF Settled
<1>2. CASE op \in [form : {"jecxz"}, imm : Int]
  <2>1. op.form = "jecxz" /\ op.imm \in Int
    BY <1>2
  <2>2. Correct(Encoded)
    BY <2>1, JecxzCorrect
  <2> QED BY <2>2 DEF Settled
<1>3. CASE op \in [form : {"jcc", "jcc_not"}, cond : DOMAIN x64_cond, imm : Int]
  <2>1. op.form \in {"jcc", "jcc_not"} /\ op.cond \in DOMAIN x64_cond /\ op.imm \in Int
    BY <1>3
  <2>2. IsJcc(op.form, op.cond, op.imm)
    BY <1>3 DEF IsJcc
  <2>3. Correct(Encoded)
    BY <2>1, <2>2, JccCorrect
  <2> QED BY <2>3 DEF Settled
<1> QED BY <1>1, <1>2, <1>3

LEMMA PlainSettled ==
  ASSUME \/ op \in [form : {"one_byte"}, what : {"int3", "nop", "leave", "ret", "lret"}]
         \/ op = [form |-> "ud2"]
  PROVE  Settled
<1>1. CASE op \in [form : {"one_byte"}, what : {"int3", "nop", "leave", "ret", "lret"}]
  <2>1. op.what \in {"int3", "nop", "leave", "ret", "lret", "ud2"} /\ op.what # "ud2"
    BY <1>1
  <2>2. IsOneByte(op.what)
    BY <1>1 DEF IsOneByte
  <2>3. Correct(Encoded)
    BY <2>1, <2>2, PlainCorrect
  <2> QED BY <2>3 DEF Settled
<1>2. CASE op = [form |-> "ud2"]
  <2>1. IsUd2
    BY <1>2 DEF IsUd2
  <2>2. "ud2" \in {"int3", "nop", "leave", "ret", "lret", "ud2"}
    OBVIOUS
  <2>3. Correct(Encoded)
    BY <2>1, <2>2, PlainCorrect
  <2> QED BY <2>3 DEF Settled
<1> QED BY <1>1, <1>2

LEMMA OperationSettled ==
  ASSUME IsOperation(op)
  PROVE  Settled
<1>1. ASSUME op \in [form : {"single"}, rm : Registers, ext : 0 .. 7] PROVE Settled
  <2>1. op \in [form : {"single", "jmp"}, rm : Registers, ext : 0 .. 7] /\ op.form # "jmp"
    BY <1>1
  <2> QED BY <2>1, ExtensionSettled
<1>2. ASSUME op \in [form : {"jmp"}, rm : Registers, ext : 0 .. 7], op.rm.class = "r64" PROVE Settled
  <2>1. op \in [form : {"single", "jmp"}, rm : Registers, ext : 0 .. 7]
    BY <1>2
  <2> QED BY <1>2, <2>1, ExtensionSettled
<1> QED
  BY <1>1, <1>2, RegRegSettled, ImulSettled, ImulImmSettled, ArithImmSettled, MovImmSettled,
     StoreLoadSettled, ImulMemSettled, SingleMemSettled, JmpMemSettled, PushPopSettled, MoffsSettled,
     BranchSettled, PlainSettled, Zenon DEF IsOperation

-----------------------------------------------------------------------------
(***************************************************************************)
(* The invariant: the object is the one the constructor makes of the       *)
(* operands, and the bytes are those of the object.                        *)
(***************************************************************************)
XInv ==
  /\ op \in Operations
  /\ inst \in {NotBuilt, Encoded}
  /\ code # <<>> => inst = Encoded /\ inst # Thrown /\ code = emit_to(inst)

LEMMA InvInit == Init => XInv
BY DEF Init, XInv

\* Encoded depends on op only, which no step changes.
LEMMA InvNext == XInv /\ [Next]_vars => XInv'
<1> SUFFICES ASSUME XInv, [Next]_vars PROVE XInv'
  OBVIOUS
<1>1. op' = op
  BY DEF Next, Construct, Write, vars
<1>2. Encoded' = Encoded
  BY <1>1 DEF Encoded
<1>3. CASE Construct
  <2>1. inst' = Encoded /\ code' = code
    BY <1>3 DEF Construct
  <2>2. code # <<>> => inst = Encoded /\ inst # Thrown /\ code = emit_to(inst)
    BY DEF XInv
  <2> QED BY <1>1, <1>2, <2>1, <2>2 DEF XInv, emit_to
<1>4. CASE Write
  <2>1. inst' = inst /\ code' = emit_to(inst) /\ inst # NotBuilt /\ inst # Thrown
    BY <1>4 DEF Write
  <2>2. inst = Encoded
    BY <2>1 DEF XInv
  <2> QED BY <1>1, <1>2, <2>1, <2>2 DEF XInv, emit_to
<1>5. CASE UNCHANGED vars
  BY <1>1, <1>2, <1>5 DEF XInv, vars, emit_to
<1> QED BY <1>3, <1>4, <1>5 DEF Next

\* An object that no constructor has run for, and one that was not made, hold
\* nothing.
LEMMA FitsNotMade == Fits(NotBuilt) /\ Fits(Thrown)
<1>1. Len(<<>>) = 0 /\ Len(<<[b |-> "none"]>>) = 1
  OBVIOUS
<1>2. /\ NotBuilt.opcode = <<>> /\ NotBuilt.modrm = <<>> /\ NotBuilt.sib = <<>> /\ NotBuilt.imm = <<>>
      /\ Thrown.opcode = <<[b |-> "none"]>>
      /\ Thrown.modrm = <<>> /\ Thrown.sib = <<>> /\ Thrown.imm = <<>>
  BY DEF NotBuilt, Thrown
<1> QED BY <1>1, <1>2 DEF Fits

LEMMA ThrownIsMarked == Thrown # NotBuilt
<1>1. <<[b |-> "none"]>> # <<>>
  OBVIOUS
<1>2. NotBuilt.opcode = <<>> /\ Thrown.opcode = <<[b |-> "none"]>>
  BY DEF NotBuilt, Thrown
<1> QED BY <1>1, <1>2

LEMMA InvSettled == XInv => Settled
BY OperationSettled, OperationsAssumption DEF XInv

LEMMA InvTypeOK == XInv => TypeOK
<1> SUFFICES ASSUME XInv PROVE TypeOK
  OBVIOUS
<1>1. Fits(Encoded)
  BY InvSettled, FitsNotMade DEF Settled, Correct
<1>2. Fits(inst)
  BY <1>1, FitsNotMade DEF XInv
<1> QED BY <1>2 DEF TypeOK, Fits

LEMMA InvWellRead == XInv /\ code # <<>> => WellRead(inst)
<1> SUFFICES ASSUME XInv, code # <<>> PROVE WellRead(inst)
  OBVIOUS
<1>1. inst = Encoded /\ inst # Thrown /\ code = emit_to(inst)
  BY DEF XInv
<1>2. Correct(Encoded)
  BY <1>1, InvSettled DEF Settled
<1> QED BY <1>1, <1>2 DEF Correct

LEMMA InvRefused == XInv => RefusedJustly
<1> SUFFICES ASSUME XInv, inst = Thrown PROVE Unencodable
  BY DEF RefusedJustly, Unencodable
<1>1. Encoded = Thrown
  BY ThrownIsMarked DEF XInv
<1>2. ~Correct(Encoded)
  BY <1>1 DEF Correct
<1> QED BY <1>2, InvSettled DEF Settled

LEMMA Invariant == Spec => []XInv
BY InvInit, InvNext, PTL DEF Spec

\* The fields of every object that a constructor makes fit their bits, the
\* opcode fits opcode_len and the immediate its 8 bytes: x64_modrm, x64_sib and
\* the arrays of x64_instruction lose nothing.
THEOREM EncodingTypeOK == Spec => []TypeOK
BY Invariant, InvTypeOK, PTL

\* For every register in every field, every address and every immediate, the
\* processor reads from the bytes that emit_to() writes the operands that the
\* constructor was given, with the exceptions that Exceptions lists.
THEOREM EncodingReadsBack == Spec => []ReadsBack
<1>1. XInv => ReadsBack
  BY InvWellRead DEF WellRead, ReadsBack
<1> QED BY <1>1, Invariant, PTL

\* The processor finds the end of the instruction where size() says that it is,
\* the next position of instruction_stream, and emit_to() writes as many bytes.
THEOREM EncodingSizeIsRead == Spec => []SizeIsRead
<1>1. XInv => SizeIsRead
  BY InvWellRead DEF WellRead, SizeIsRead
<1> QED BY <1>1, Invariant, PTL

\* A constructor throws for the stack pointer as an index, and for ah, ch, dh or
\* bh next to a register that needs the prefix, and for nothing else.
THEOREM EncodingRefusedJustly == Spec => []RefusedJustly
BY Invariant, InvRefused, PTL
=============================================================================
