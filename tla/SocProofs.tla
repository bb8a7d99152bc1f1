----------------------------- MODULE SocProofs ------------------------------
(***************************************************************************)
(* The assembler and the address map, for every operand and every address; *)
(* the registers of the running SoC keep their width, and an access of any *)
(* program arrives where the map says.  Two of the repository's programs,  *)
(* word by word: the timer demo and the AES program.                       *)
(***************************************************************************)
EXTENDS SocPrograms, FiniteSetTheorems, SequenceTheorems, WellFoundedInduction,
        TLAPS

-----------------------------------------------------------------------------
(* Arithmetic.                                                             *)

LEMMA Remainder ==
  ASSUME NEW n \in Int, NEW d \in Nat \ {0}
  PROVE  n % d \in Int /\ 0 <= n % d /\ n % d < d /\ n \div d \in Int
  OBVIOUS

LEMMA MinusOne == ASSUME NEW d \in Nat \ {0} PROVE (0 - 1) % d = d - 1
  OBVIOUS

LEMMA Glue ==
  ASSUME NEW a, NEW b
  PROVE  <<a>> \o <<b>> = <<a, b>> /\ <<a>> \o <<>> = <<a>>
  <1> DEFINE S == {a, b}
  <1>1. <<a>> \in Seq(S) /\ <<b>> \in Seq(S) /\ <<a, b>> \in Seq(S)
    OBVIOUS
  <1>2. <<a>> \o <<>> = <<a>>
    BY <1>1
  <1>3. <<a>> \o <<b>> \in Seq(S) /\ Len(<<a>> \o <<b>>) = 2
    BY <1>1
  <1>4. (<<a>> \o <<b>>)[1] = a /\ (<<a>> \o <<b>>)[2] = b
    BY <1>1
  <1>5. \A k \in 1 .. 2 : (<<a>> \o <<b>>)[k] = <<a, b>>[k]
    BY <1>4
  <1> QED BY <1>1, <1>2, <1>3, <1>5, SeqEqual

LEMMA BitsRange ==
  ASSUME NEW n
  PROVE  /\ n \in Bits(3) <=> n \in Int /\ 0 <= n /\ n <= 7
         /\ n \in Bits(5) <=> n \in Int /\ 0 <= n /\ n <= 31
         /\ n \in Bits(7) <=> n \in Int /\ 0 <= n /\ n <= 127
  BY DEF Bits

LEMMA WordRange ==
  ASSUME NEW n
  PROVE  /\ n \in Bits(12) <=> n \in Int /\ 0 <= n /\ n < Lo12
         /\ n \in Bits(20) <=> n \in Int /\ 0 <= n /\ n < Hi20
  BY SMT DEF Bits, Hi20, Lo12

LEMMA Sizes == Hi20 \in Nat \ {0} /\ Lo12 \in Nat \ {0}
  BY DEF Hi20, Lo12

LEMMA Widths ==
  ASSUME NEW n \in Int
  PROVE  n % Hi20 \in Bits(20) /\ n % Lo12 \in Bits(12) /\ n \div Lo12 \in Int
  BY Sizes, Remainder, WordRange

LEMMA NumType == ASSUME NEW n \in Int PROVE Num(n) \in Word
  BY Widths DEF Num, W, Word

LEMMA PlusType == ASSUME NEW a \in Word, NEW b \in Word PROVE Plus(a, b) \in Word
  <1>1. a.hi \in Int /\ a.lo \in Int /\ b.hi \in Int /\ b.lo \in Int
    BY WordRange DEF Word
  <1>2. (a.lo + b.lo) \div Lo12 \in Int
    BY <1>1, Widths
  <1> QED BY <1>1, <1>2, Widths DEF Plus, W, Word

LEMMA AndType ==
  ASSUME NEW m \in Int, NEW n \in Int
  PROVE  And12(m, n) \in Bits(12) /\ And20(m, n) \in Bits(20)
  <1> DEFINE Below(v, b) == v \in Int /\ 0 <= v /\ v < b
  <1>0. ASSUME NEW i \in Int
        PROVE  i \div 2 \in Int /\ i \div 4 \in Int /\ i \div 16 \in Int /\ i \div 4096 \in Int
    OBVIOUS
  <1>1. ASSUME NEW i \in Int, NEW j \in Int PROVE Below(And1(i, j), 2)
    BY DEF And1
  <1>2. ASSUME NEW i \in Int, NEW j \in Int PROVE Below(And2(i, j), 4)
    <2>1. Below(And1(i, j), 2) /\ Below(And1(i \div 2, j \div 2), 2)
      BY <1>0, <1>1
    <2> QED BY <2>1 DEF And2
  <1>3. ASSUME NEW i \in Int, NEW j \in Int PROVE Below(And4(i, j), 16)
    <2>1. Below(And2(i, j), 4) /\ Below(And2(i \div 4, j \div 4), 4)
      BY <1>0, <1>2
    <2> QED BY <2>1 DEF And4
  <1>4. ASSUME NEW i \in Int, NEW j \in Int PROVE Below(And8(i, j), 256)
    <2>1. Below(And4(i, j), 16) /\ Below(And4(i \div 16, j \div 16), 16)
      BY <1>0, <1>3
    <2> QED BY <2>1 DEF And8
  <1>5. Below(And12(m, n), Lo12)
    <2>1. Below(And4(m, n), 16) /\ Below(And8(m \div 16, n \div 16), 256)
      BY <1>0, <1>3, <1>4
    <2> QED BY <2>1 DEF And12, Lo12
  <1>6. Below(And20(m, n), Hi20)
    <2>1. Below(And8(m \div 4096, n \div 4096), 256)
      BY <1>0, <1>4
    <2> QED BY <1>5, <2>1, SMT DEF And20, Lo12, Hi20
  <1> QED BY <1>5, <1>6, WordRange

LEMMA BitsType ==
  ASSUME NEW a \in Word, NEW b \in Word
  PROVE  BitsAnd(a, b) \in Word /\ BitsNot(a) \in Word /\ BitsOr(a, b) \in Word
  <1>1. ASSUME NEW v \in Word PROVE BitsNot(v) \in Word /\ v.hi \in Int /\ v.lo \in Int
    BY Sizes, WordRange DEF BitsNot, W, Word
  <1>2. ASSUME NEW v \in Word, NEW w \in Word PROVE BitsAnd(v, w) \in Word
    BY <1>1, AndType DEF BitsAnd, W, Word
  <1> QED BY <1>1, <1>2 DEF BitsOr

\* The fields of an instruction.
LEMMA FieldRanges ==
  ASSUME NEW i \in Instruction
  PROVE  /\ i.rd \in Bits(5) /\ i.rs1 \in Bits(5) /\ i.rs2 \in Bits(5) /\ i.op \in Bits(7)
         /\ i.rd \in Int /\ i.rs1 \in Int /\ i.rs2 \in Int /\ i.f3 \in Int /\ i.f7 \in Int
         /\ 0 <= i.rd /\ i.rd <= 31 /\ 0 <= i.rs1 /\ i.rs1 <= 31
         /\ 0 <= i.rs2 /\ i.rs2 <= 31 /\ 0 <= i.f3 /\ i.f3 <= 7
         /\ 0 <= i.f7 /\ i.f7 <= 127
  BY BitsRange DEF Instruction

LEMMA Immediates ==
  ASSUME NEW i \in Instruction
  PROVE  imm_i(i) \in Int /\ imm_s(i) \in Int /\ imm_b(i) \in Int /\ imm_u(i) \in Word
  <1>1. imm_i(i) \in Int /\ imm_s(i) \in Int
    BY FieldRanges DEF imm_i, imm_s, Signed
  <1>2. imm_b(i) \in Int
    <2>1. /\ i.f7 \div 64 \in Int /\ i.f7 % 64 \in Int
          /\ i.rd \div 2 \in Int /\ i.rd % 2 \in Int
      BY FieldRanges
    <2> QED BY <2>1 DEF imm_b, Signed
  <1>3. imm_u(i) \in Word
    <2> DEFINE h == 8192 * i.f7 + 256 * i.rs2 + 8 * i.rs1 + i.f3
    <2>1. h \in Int /\ 0 <= h /\ h < Hi20
      BY FieldRanges, SMT DEF Hi20
    <2>2. h \in Bits(20) /\ 0 \in Bits(12)
      BY <2>1, WordRange, Sizes
    <2> HIDE DEF h
    <2>3. W(h, 0) \in Word
      BY <2>2 DEF W, Word
    <2> QED BY <2>3 DEF imm_u, h
  <1> QED BY <1>1, <1>2, <1>3

-----------------------------------------------------------------------------
(* What the encoders put in a word is what the core takes out of it.       *)

LEMMA SplitTwelve ==
  ASSUME NEW n \in Int, -2048 <= n, n <= 2047
  PROVE  LET v == n % 4096
         IN /\ v \div 32 \in Bits(7) /\ v % 32 \in Bits(5)
            /\ Signed(32 * (v \div 32) + (v % 32), 2048) = n
  BY BitsRange DEF Signed

LEMMA SplitThirteen ==
  ASSUME NEW n \in Int, -4096 <= n, n <= 4095
  PROVE  LET v  == n % 8192
             f7 == 64 * (v \div 4096) + ((v \div 32) % 64)
             rd == 2 * ((v \div 2) % 16) + ((v \div 2048) % 2)
         IN /\ f7 \in Bits(7) /\ rd \in Bits(5)
            /\ Signed(4096 * (f7 \div 64) + 2048 * (rd % 2) + 32 * (f7 % 64)
                        + 2 * (rd \div 2), 4096) = n - (n % 2)
  BY BitsRange DEF Signed

LEMMA BranchReadsBack ==
  ASSUME NEW n \in Int, NEW r, NEW s, NEW f3 \in Bits(3)
  PROVE  LET i == BType(n, r, s, f3)
         IN IF -4096 <= n /\ n <= 4095 /\ AreRegs({r, s})
              THEN i \in Instruction /\ imm_b(i) = n - (n % 2) /\ i.rs2 = r /\ i.rs1 = s
              ELSE i = AsmError
  <1>1. /\ Fits(n, 13) <=> -4096 <= n /\ n <= 4095
        /\ AreRegs({r, s}) <=> r \in Bits(5) /\ s \in Bits(5)
        /\ AreRegs({r, s}) <=> AreRegs({s, r})
    BY DEF Fits, AreRegs
  <1>2. 99 \in Bits(7)
    BY BitsRange
  <1> QED BY <1>1, <1>2, SplitThirteen DEF BType, Fields, Instruction, imm_b

\* An immediate in range comes back from the decode as it was given, in each of
\* the three layouts, with the registers in their fields; any other is refused
\* (asm.py:44-51, 86-105 against id_stage.sv:69-71).
THEOREM ImmediatesReadBack ==
  ASSUME NEW n \in Int, NEW r, NEW s, NEW f3 \in Bits(3), NEW op \in Bits(7)
  PROVE  /\ LET i == IType(n, r, f3, s, op)
            IN IF -2048 <= n /\ n <= 2047 /\ AreRegs({r, s})
                 THEN i \in Instruction /\ imm_i(i) = n /\ i.rs1 = r /\ i.rd = s
                 ELSE i = AsmError
         /\ LET i == SType(n, r, s, f3, op)
            IN IF -2048 <= n /\ n <= 2047 /\ AreRegs({r, s})
                 THEN i \in Instruction /\ imm_s(i) = n /\ i.rs2 = r /\ i.rs1 = s
                 ELSE i = AsmError
         /\ LET i == BType(n, r, s, f3)
            IN IF -4096 <= n /\ n <= 4095 /\ AreRegs({r, s})
                 THEN i \in Instruction /\ imm_b(i) = n - (n % 2) /\ i.rs2 = r /\ i.rs1 = s
                 ELSE i = AsmError
  <1>1. /\ Fits(n, 12) <=> -2048 <= n /\ n <= 2047
        /\ AreRegs({r, s}) <=> r \in Bits(5) /\ s \in Bits(5)
        /\ AreRegs({r, s}) <=> AreRegs({s, r})
    BY DEF Fits, AreRegs
  <1>2. LET i == IType(n, r, f3, s, op)
        IN IF -2048 <= n /\ n <= 2047 /\ AreRegs({r, s})
             THEN i \in Instruction /\ imm_i(i) = n /\ i.rs1 = r /\ i.rd = s
             ELSE i = AsmError
    BY <1>1, SplitTwelve DEF IType, Fields, Instruction, imm_i
  <1>3. LET i == SType(n, r, s, f3, op)
        IN IF -2048 <= n /\ n <= 2047 /\ AreRegs({r, s})
             THEN i \in Instruction /\ imm_s(i) = n /\ i.rs2 = r /\ i.rs1 = s
             ELSE i = AsmError
    BY <1>1, SplitTwelve DEF SType, Fields, Instruction, imm_s
  <1>4. LET i == BType(n, r, s, f3)
        IN IF -4096 <= n /\ n <= 4095 /\ AreRegs({r, s})
             THEN i \in Instruction /\ imm_b(i) = n - (n % 2) /\ i.rs2 = r /\ i.rs1 = s
             ELSE i = AsmError
    BY BranchReadsBack
  <1> QED BY <1>2, <1>3, <1>4

\* The registers after a lui or an addi: what LoadUpper and Immediate do.
Wrote(regs, i) ==
  IF i.rd = 0 THEN regs
  ELSE [regs EXCEPT ![i.rd] = IF i.op = 55 THEN imm_u(i)
                              ELSE Plus(regs[i.rs1], Num(imm_i(i)))]

LEMMA WroteTo ==
  ASSUME NEW regs, NEW i, i.rd # 0
  PROVE  /\ i.op = 55 => Wrote(regs, i) = [regs EXCEPT ![i.rd] = imm_u(i)]
         /\ i.op # 55 => Wrote(regs, i) = [regs EXCEPT ![i.rd] = Plus(regs[i.rs1], Num(imm_i(i)))]
  BY DEF Wrote

LEMMA WroteStep == LoadUpper \/ (Immediate /\ insn.f3 = 0) => x' = Wrote(x, insn)
  BY DEF LoadUpper, Immediate, Fetches, SetReg, x1, Wrote

\* A lower half, and what its sign takes from the upper one.
LEMMA NumSigned ==
  ASSUME NEW lo \in Int, 0 <= lo, lo < Lo12
  PROVE  /\ lo < 2048 => Num(lo) = W(0, lo)
         /\ lo >= 2048 => Num(lo - 4096) = W(Hi20 - 1, lo)
  <1>1. CASE lo < 2048
    <2>1. lo \div Lo12 = 0 /\ lo % Lo12 = lo /\ 0 % Hi20 = 0
      BY <1>1 DEF Lo12, Hi20
    <2> QED BY <1>1, <2>1 DEF Num
  <1>2. CASE lo >= 2048
    <2>1. (lo - 4096) \div 4096 = 0 - 1 /\ (lo - 4096) % 4096 = lo
      BY <1>2 DEF Lo12
    <2>2. (0 - 1) % Hi20 = Hi20 - 1
      BY MinusOne, Sizes
    <2>3. Num(lo - 4096) = W(Hi20 - 1, lo)
      BY <2>1, <2>2 DEF Num, Lo12
    <2> QED BY <1>2, <2>3
  <1> QED BY <1>1, <1>2

LEMMA LuiReadsBack ==
  ASSUME NEW rd \in Bits(5), NEW h \in Bits(20)
  PROVE  /\ lui(rd, h) = <<lui(rd, h)[1]>> /\ lui(rd, h)[1] \in Instruction
         /\ lui(rd, h)[1].op = 55 /\ lui(rd, h)[1].rd = rd /\ imm_u(lui(rd, h)[1]) = W(h, 0)
  <1>1. h \in Int /\ 0 <= h /\ h < 1048576
    BY WordRange, SMT DEF Hi20
  <1> DEFINE a == h \div 8192
             b == (h \div 256) % 32
             c == (h \div 8) % 32
             d == h % 8
  <1>2. a \in Bits(7) /\ b \in Bits(5) /\ c \in Bits(5) /\ d \in Bits(3)
    BY <1>1, BitsRange, SMT
  <1>3. 8192 * a + 256 * b + 8 * c + d = h
    BY <1>1, SMT
  <1>4. 55 \in Bits(7) /\ AreRegs({rd})
    BY BitsRange DEF AreRegs
  <1>5. lui(rd, h) = <<Fields(55, rd, d, c, b, a)>>
    BY <1>4 DEF lui
  <1> HIDE DEF a, b, c, d
  <1>6. Fields(55, rd, d, c, b, a) \in Instruction
    BY <1>2, <1>4 DEF Fields, Instruction
  <1> QED BY <1>3, <1>5, <1>6 DEF Fields, imm_u

LEMMA AddiReadsBack ==
  ASSUME NEW rd \in Bits(5), NEW r \in Bits(5), NEW n \in Int, -2048 <= n, n <= 2047
  PROVE  /\ addi(rd, r, n) = <<addi(rd, r, n)[1]>> /\ addi(rd, r, n)[1] \in Instruction
         /\ addi(rd, r, n)[1].op = 19 /\ addi(rd, r, n)[1].f3 = 0
         /\ addi(rd, r, n)[1].rd = rd /\ addi(rd, r, n)[1].rs1 = r
         /\ imm_i(addi(rd, r, n)[1]) = n
  <1>1. AreRegs({r, rd}) /\ 19 \in Bits(7) /\ 0 \in Bits(3)
    BY BitsRange DEF AreRegs
  <1>2. LET i == IType(n, r, 0, rd, 19)
        IN i \in Instruction /\ imm_i(i) = n /\ i.rs1 = r /\ i.rd = rd
    BY <1>1, ImmediatesReadBack
  <1>3. Fits(n, 12)
    BY DEF Fits
  <1>4. IType(n, r, 0, rd, 19).op = 19 /\ IType(n, r, 0, rd, 19).f3 = 0
    BY <1>1, <1>3 DEF IType, Fields
  <1> QED BY <1>2, <1>4 DEF addi

\* li leaves any 32-bit constant in any register but x0, whether it takes one
\* instruction or two, whatever the sign of the lower half (asm.py:202-223).
THEOREM LoadsAnyConstant ==
  ASSUME NEW regs \in [Bits(5) -> Word], regs[0] = Num(0),
         NEW rd \in Bits(5) \ {0}, NEW value \in Word
  PROVE  LET code == li(rd, value)
         IN /\ code \in Seq(Instruction)
            /\ \/ Len(code) = 1 /\ Wrote(regs, code[1]) = [regs EXCEPT ![rd] = value]
               \/ /\ Len(code) = 2
                  /\ Wrote(Wrote(regs, code[1]), code[2]) = [regs EXCEPT ![rd] = value]
  <1> DEFINE neg  == value.lo >= 2048
             low  == IF neg THEN value.lo - 4096 ELSE value.lo
             high == IF neg THEN (value.hi + 1) % Hi20 ELSE value.hi
             carry == IF neg THEN Hi20 - 1 ELSE 0
  <1>1. /\ value.lo \in Int /\ 0 <= value.lo /\ value.lo < Lo12 /\ value.lo < 4096
        /\ value.hi \in Int /\ 0 <= value.hi /\ value.hi < Hi20
        /\ value = W(value.hi, value.lo)
    BY WordRange DEF Word, W, Lo12
  <1>2. low \in Int /\ -2048 <= low /\ low <= 2047
    BY <1>1
  <1>3. high \in Bits(20)
    BY <1>1, Widths, WordRange
  <1>4. Num(low) = W(carry, value.lo)
    BY <1>1, NumSigned
  <1>5. (high + carry) % Hi20 = value.hi
    <2>1. CASE neg
      <3>1. CASE value.hi + 1 < Hi20
        <4>1. (value.hi + 1) % Hi20 = value.hi + 1
          BY <1>1, <3>1, Sizes
        <4> QED BY <1>1, <2>1, <4>1, SMT DEF Hi20
      <3>2. CASE value.hi + 1 = Hi20
        <4>1. (value.hi + 1) % Hi20 = 0
          BY <1>1, <3>2, Sizes
        <4> QED BY <1>1, <2>1, <3>2, <4>1, SMT DEF Hi20
      <3> QED BY <1>1, <3>1, <3>2, Sizes
    <2>2. CASE ~neg
      BY <1>1, <2>2, SMT DEF Hi20
    <2> QED BY <2>1, <2>2
  <1>6. li(rd, value) = IF high = 0 THEN addi(rd, 0, low)
                        ELSE lui(rd, high) \o (IF low = 0 THEN <<>> ELSE addi(rd, rd, low))
    BY DEF li
  <1>7. 0 \in Bits(5)
    BY BitsRange
  <1>8. high \in Int /\ carry \in Int /\ 0 % Hi20 = 0 /\ value.lo \div Lo12 = 0
        /\ value.lo % Lo12 = value.lo
    BY <1>1, <1>3, WordRange, SMT DEF Hi20, Lo12
  <1>9. Plus(W(high, 0), Num(low)) = value
    BY <1>1, <1>4, <1>5, <1>8 DEF Plus, W
  <1>10. Plus(Num(0), Num(low)) = Plus(W(0, 0), Num(low))
    BY NumSigned, Sizes
  <1> HIDE DEF neg, low, high, carry
  <1>11. CASE high = 0
    <2> DEFINE i == addi(rd, 0, low)[1]
    <2>1. /\ addi(rd, 0, low) = <<i>> /\ i \in Instruction /\ i.op = 19 /\ i.rd = rd
          /\ i.rs1 = 0 /\ imm_i(i) = low
      BY <1>2, <1>7, AddiReadsBack
    <2> HIDE DEF i
    <2>2. Plus(regs[i.rs1], Num(imm_i(i))) = value
      BY <1>9, <1>10, <1>11, <2>1
    <2>4. Wrote(regs, i) = [regs EXCEPT ![rd] = value]
      BY <2>1, <2>2, WroteTo
    <2>3. li(rd, value) = <<i>>
      BY <1>6, <1>11, <2>1
    <2> QED BY <2>1, <2>3, <2>4
  <1>12. CASE high # 0
    <2> DEFINE i == lui(rd, high)[1]
               j == addi(rd, rd, low)[1]
    <2>1. /\ lui(rd, high) = <<i>> /\ i \in Instruction /\ i.op = 55 /\ i.rd = rd
          /\ imm_u(i) = W(high, 0)
      BY <1>3, LuiReadsBack
    <2>2. /\ addi(rd, rd, low) = <<j>> /\ j \in Instruction /\ j.op = 19 /\ j.rd = rd
          /\ j.rs1 = rd /\ imm_i(j) = low
      BY <1>2, AddiReadsBack
    <2> HIDE DEF i, j
    <2>3. Wrote(regs, i) = [regs EXCEPT ![rd] = W(high, 0)]
      BY <2>1, WroteTo
    <2>4. CASE low = 0
      <3>1. value.lo = 0 /\ carry = 0
        BY <1>1, <2>4 DEF low, neg, carry, Lo12
      <3>3. W(high, 0) = value
        BY <1>1, <1>3, <1>5, <3>1, WordRange, Sizes DEF high, neg
      <3>2. li(rd, value) = <<i>>
        BY <1>6, <1>12, <2>1, <2>4, Glue
      <3> QED BY <2>1, <2>3, <3>2, <3>3
    <2>5. CASE low # 0
      <3>1. li(rd, value) = <<i, j>>
        BY <1>6, <1>12, <2>1, <2>2, <2>5, Glue
      <3>2. Plus(Wrote(regs, i)[j.rs1], Num(imm_i(j))) = value
        BY <1>9, <2>2, <2>3
      <3>3. Wrote(Wrote(regs, i), j) = [Wrote(regs, i) EXCEPT ![rd] = value]
        BY <2>2, <3>2, WroteTo
      <3>4. [Wrote(regs, i) EXCEPT ![rd] = value] = [regs EXCEPT ![rd] = value]
        BY <2>3
      <3>5. Wrote(Wrote(regs, i), j) = [regs EXCEPT ![rd] = value]
        BY <3>3, <3>4
      <3> HIDE DEF Wrote
      <3>6. <<i, j>> \in Seq(Instruction) /\ Len(<<i, j>>) = 2
        BY <2>1, <2>2
      <3> QED BY <3>1, <3>5, <3>6
    <2> QED BY <2>4, <2>5
  <1> QED BY <1>11, <1>12
-----------------------------------------------------------------------------
(* Labels and words of a whole program.                                    *)

LEMMA Induct ==
  ASSUME NEW S, 0 \in S, \A n \in Nat : n \in S => n + 1 \in S
  PROVE  Nat \subseteq S
  <1> DEFINE R == {ss \in Nat \X Nat : ss[1] < ss[2]}
             T == Nat \ S
  <1>1. SUFFICES ASSUME T # {} PROVE FALSE
    OBVIOUS
  <1>2. IsWellFoundedOn(R, Nat)
    BY NatLessThanWellFounded DEF OpToRel
  <1>3. PICK n \in T : \A m \in T : <<m, n>> \notin R
    <2> HIDE DEF R, T
    <2>1. T \subseteq Nat
      BY DEF T
    <2> QED BY <1>1, <1>2, <2>1, WFMin
  <1>4. n # 0 /\ n \in Nat
    OBVIOUS
  <1>5. n - 1 \in Nat /\ n - 1 < n
    BY <1>4
  <1>6. n - 1 \notin T
    BY <1>3, <1>5
  <1> QED BY <1>5, <1>6

\* A call adds a word, unless it is a label.
Counts(marks) ==
  /\ Count(marks, 0) = 0
  /\ \A i \in Nat : /\ Count(marks, i) \in Int
                   /\ Count(marks, i + 1) = Count(marks, i) + (IF i + 1 \in marks THEN 0 ELSE 1)

LEMMA CountStep ==
  ASSUME NEW n \in Nat, NEW marks \in SUBSET (1 .. n)
  PROVE  Counts(marks)
  <1> DEFINE Upto(i) == {m \in marks : m <= i}
  <1>0. \A m \in marks : m \in Int /\ 1 <= m
    OBVIOUS
  <1>1. ASSUME NEW i \in Int
        PROVE  /\ IsFiniteSet(Upto(i)) /\ Cardinality(Upto(i)) \in Int
               /\ Count(marks, i) = i - Cardinality(Upto(i))
    <2>1. IsFiniteSet(1 .. n)
      BY FS_Interval
    <2>2. IsFiniteSet(Upto(i))
      BY <2>1, FS_Subset
    <2>3. Cardinality(Upto(i)) \in Nat
      BY <2>2, FS_CardinalityType
    <2> QED BY <2>2, <2>3 DEF Count
  <1>2. Count(marks, 0) = 0
    <2>0. \A m \in marks : ~(m <= 0)
      BY <1>0
    <2>1. Upto(0) = {}
      BY <2>0
    <2>2. Cardinality(Upto(0)) = 0
      BY <2>1, FS_EmptySet
    <2> HIDE DEF Upto
    <2> QED BY <1>1, <2>2
  <1>3. ASSUME NEW i \in Nat
        PROVE  /\ Count(marks, i) \in Int
               /\ Count(marks, i + 1) = Count(marks, i) + (IF i + 1 \in marks THEN 0 ELSE 1)
    <2>0. i \in Int /\ i + 1 \in Int
      OBVIOUS
    <2>1. CASE i + 1 \in marks
      <3>0. \A m \in marks : m <= i + 1 <=> m <= i \/ m = i + 1
        BY <1>0
      <3>1. Upto(i + 1) = Upto(i) \cup {i + 1}
        BY <2>1, <3>0
      <3>2. i + 1 \notin Upto(i)
        OBVIOUS
      <3> HIDE DEF Upto
      <3>3. Cardinality(Upto(i + 1)) = Cardinality(Upto(i)) + 1
        BY <1>1, <3>1, <3>2, FS_AddElement
      <3> QED BY <1>1, <2>0, <2>1, <3>3
    <2>2. CASE i + 1 \notin marks
      <3>0. \A m \in marks : m <= i + 1 <=> m <= i
        BY <1>0, <2>2
      <3>1. Upto(i + 1) = Upto(i)
        BY <3>0
      <3> HIDE DEF Upto
      <3> QED BY <1>1, <2>0, <2>2, <3>1
    <2> QED BY <2>1, <2>2
  <1> QED BY <1>2, <1>3 DEF Counts

LEMMA CountGrows ==
  ASSUME NEW n \in Nat, NEW marks \in SUBSET (1 .. n)
  PROVE  /\ \A i, j \in Nat : i <= j => Count(marks, i) <= Count(marks, j)
         /\ \A i \in Nat : Count(marks, i) \in Nat /\ Count(marks, i) <= i
         /\ \A i, j \in Nat : i < j /\ j \notin marks => Count(marks, i) < Count(marks, j)
  <1> DEFINE C(i) == Count(marks, i)
  <1>1. C(0) = 0 /\ \A i \in Nat : C(i) \in Int /\ C(i + 1) = C(i) + (IF i + 1 \in marks THEN 0 ELSE 1)
    <2>1. Counts(marks)
      BY CountStep
    <2> QED BY <2>1 DEF Counts
  <1> HIDE DEF C
  <1>2. ASSUME NEW i \in Nat, NEW d \in Nat PROVE C(i) <= C(i + d)
    <2> DEFINE S == {e \in Nat : C(i) <= C(i + e)}
    <2>1. 0 \in S
      BY <1>1
    <2>2. ASSUME NEW e \in Nat, e \in S PROVE e + 1 \in S
      <3>1. C(i + e) \in Int /\ C(i + e) <= C(i + e + 1) /\ C(i + e + 1) \in Int /\ C(i) \in Int
        BY <1>1
      <3>2. i + e + 1 = i + (e + 1)
        OBVIOUS
      <3> QED BY <2>2, <3>1, <3>2
    <2> HIDE DEF S
    <2>3. Nat \subseteq S
      BY <2>1, <2>2, Induct
    <2> QED BY <2>3 DEF S
  <1>3. ASSUME NEW i \in Nat, NEW j \in Nat, i <= j PROVE C(i) <= C(j)
    <2>1. j - i \in Nat /\ i + (j - i) = j
      BY <1>3
    <2> QED BY <1>2, <2>1
  <1>4. ASSUME NEW i \in Nat PROVE C(i) \in Nat /\ C(i) <= i
    <2> DEFINE S == {e \in Nat : C(e) <= e}
    <2>1. 0 \in S
      BY <1>1
    <2>2. ASSUME NEW e \in Nat, e \in S PROVE e + 1 \in S
      BY <1>1, <2>2
    <2> HIDE DEF S
    <2>3. Nat \subseteq S
      BY <2>1, <2>2, Induct
    <2>4. C(0) <= C(i) /\ C(0) = 0 /\ C(i) \in Int
      BY <1>1, <1>3
    <2> QED BY <2>3, <2>4 DEF S
  <1>5. ASSUME NEW i \in Nat, NEW j \in Nat, i < j, j \notin marks PROVE C(i) < C(j)
    <2>1. j - 1 \in Nat /\ i <= j - 1 /\ (j - 1) + 1 = j
      BY <1>5
    <2>2. C(i) <= C(j - 1) /\ C(j) = C(j - 1) + 1
      BY <1>1, <1>3, <1>5, <2>1
    <2> QED BY <1>1, <2>1, <2>2
  <1> QED BY <1>3, <1>4, <1>5 DEF C

\* Every place in the ROM is some call's.
LEMMA PlaceExists ==
  ASSUME NEW n \in Nat, NEW marks \in SUBSET (1 .. n), NEW k \in 1 .. Count(marks, n)
  PROVE  \E i \in k .. n : i \notin marks /\ Count(marks, i) = k
  <1> DEFINE C(i) == Count(marks, i)
             S == {e \in Nat : \A l \in 1 .. C(e) : \E i \in 1 .. e : i \notin marks /\ C(i) = l}
  <1>1. /\ C(0) = 0
        /\ \A i \in Nat : C(i) \in Int /\ C(i + 1) = C(i) + (IF i + 1 \in marks THEN 0 ELSE 1)
        /\ \A i \in Nat : C(i) <= i
    <2>1. Counts(marks)
      BY CountStep
    <2>2. ASSUME NEW i \in Nat PROVE Count(marks, i) <= i
      BY CountGrows
    <2> QED BY <2>1, <2>2 DEF Counts
  <1> HIDE DEF C
  <1>2. 0 \in S
    BY <1>1
  <1>3. ASSUME NEW e \in Nat, e \in S PROVE e + 1 \in S
    <2> SUFFICES ASSUME NEW l \in 1 .. C(e + 1)
                 PROVE  \E i \in 1 .. e + 1 : i \notin marks /\ C(i) = l
      OBVIOUS
    <2>1. CASE l \in 1 .. C(e)
      BY <1>3, <2>1
    <2>2. CASE l \notin 1 .. C(e)
      <3>1. e + 1 \notin marks /\ C(e + 1) = l
        BY <1>1, <2>2
      <3> QED BY <3>1
    <2> QED BY <2>1, <2>2
  <1> HIDE DEF S
  <1>4. n \in S
    BY <1>2, <1>3, Induct
  <1>5. PICK i \in 1 .. n : i \notin marks /\ C(i) = k
    BY <1>4 DEF S, C
  <1>6. k <= i
    BY <1>1, <1>5
  <1> QED BY <1>5, <1>6 DEF C

\* The words of a program are its calls without the labels, in their order, and a
\* label is the address of what comes next.
LEMMA BuiltWords ==
  ASSUME NEW program \in Seq(Entry)
  PROVE  LET marks == Marks(program)
             asm   == Built(program)
         IN /\ marks \in SUBSET (1 .. Len(program))
            /\ asm.words \in Seq(Entry) /\ Len(asm.words) = Count(marks, Len(program))
            /\ \A i \in DOMAIN program \ marks :
                 Count(marks, i) \in DOMAIN asm.words /\ asm.words[Count(marks, i)] = program[i]
            /\ \A k \in DOMAIN asm.words :
                 \E i \in DOMAIN program \ marks : asm.words[k] = program[i]
            /\ \A x0 \in DOMAIN asm.labels : asm.labels[x0] \in Nat
            /\ asm.ok => \A l \in marks : /\ program[l].name \in DOMAIN asm.labels
                                        /\ asm.labels[program[l].name] = 4 * Count(marks, l)
  <1> DEFINE marks == Marks(program)
             asm   == Built(program)
             n     == Len(program)
             place(k) == CHOOSE i \in k .. n : i \notin marks /\ Count(marks, i) = k
             mark(x0) == CHOOSE i \in marks : program[i].name = x0
  <1>1. n \in Nat /\ DOMAIN program = 1 .. n /\ marks \in SUBSET (1 .. n)
    BY DEF Marks
  <1>2. /\ asm.words = [k \in 1 .. Count(marks, n) |-> program[place(k)]]
        /\ asm.labels = [x0 \in {program[i].name : i \in marks} |-> 4 * Count(marks, mark(x0))]
        /\ asm.ok => \A i, j \in marks : program[i].name = program[j].name => i = j
    BY DEF Built
  <1> HIDE DEF marks, asm, place, mark
  <1>3. \A i \in Nat : Count(marks, i) \in Nat /\ Count(marks, i) <= i
    BY <1>1, CountGrows
  <1>4. ASSUME NEW i \in 1 .. n, i \notin marks
        PROVE  Count(marks, i) \in 1 .. Count(marks, n)
    <2>1. 0 \in Nat /\ 0 < i /\ i \in Nat /\ i <= n
      OBVIOUS
    <2>2. Count(marks, 0) < Count(marks, i) /\ Count(marks, i) <= Count(marks, n)
      BY <1>1, <1>4, <2>1, CountGrows
    <2> QED BY <1>1, <1>3, <2>1, <2>2
  <1>5. ASSUME NEW k \in 1 .. Count(marks, n)
        PROVE  place(k) \in 1 .. n /\ place(k) \notin marks /\ Count(marks, place(k)) = k
    <2>1. \E i \in k .. n : i \notin marks /\ Count(marks, i) = k
      BY <1>1, PlaceExists
    <2>2. place(k) \in k .. n /\ place(k) \notin marks /\ Count(marks, place(k)) = k
      BY <2>1 DEF place
    <2>3. k \in Int /\ 1 <= k
      BY <1>1, <1>3
    <2> QED BY <1>1, <2>2, <2>3
  <1>6. ASSUME NEW i \in 1 .. n, i \notin marks, NEW j \in 1 .. n, j \notin marks,
               Count(marks, i) = Count(marks, j)
        PROVE  i = j
    <2>1. i \in Nat /\ j \in Nat /\ Count(marks, i) \in Nat
      BY <1>3
    <2>2. i < j => Count(marks, i) < Count(marks, j)
      BY <1>1, <1>6, <2>1, CountGrows
    <2>3. j < i => Count(marks, j) < Count(marks, i)
      BY <1>1, <1>6, <2>1, CountGrows
    <2> QED BY <1>6, <2>1, <2>2, <2>3
  <1>7. ASSUME NEW i \in 1 .. n, i \notin marks
        PROVE  Count(marks, i) \in DOMAIN asm.words /\ asm.words[Count(marks, i)] = program[i]
    <2>1. Count(marks, i) \in 1 .. Count(marks, n)
      BY <1>4, <1>7
    <2>2. place(Count(marks, i)) = i
      BY <1>5, <1>6, <1>7, <2>1
    <2> QED BY <1>2, <2>1, <2>2
  <1>8. asm.words \in Seq(Entry) /\ Len(asm.words) = Count(marks, n)
    <2>1. \A k \in 1 .. Count(marks, n) : program[place(k)] \in Entry
      BY <1>1, <1>5
    <2>2. Count(marks, n) \in Nat
      BY <1>1, <1>3
    <2> HIDE DEF Entry
    <2> QED BY <1>2, <2>1, <2>2
  <1>9. \A k \in DOMAIN asm.words :
          \E i \in DOMAIN program \ marks : asm.words[k] = program[i]
    <2> SUFFICES ASSUME NEW k \in 1 .. Count(marks, n)
                 PROVE  \E i \in (1 .. n) \ marks : asm.words[k] = program[i]
      BY <1>1, <1>2
    <2>1. asm.words[k] = program[place(k)]
      BY <1>2
    <2>2. place(k) \in (1 .. n) \ marks
      BY <1>5
    <2> QED BY <2>1, <2>2
  <1>10. ASSUME asm.ok, NEW l \in marks
         PROVE  /\ program[l].name \in DOMAIN asm.labels
                /\ asm.labels[program[l].name] = 4 * Count(marks, l)
    <2>1. mark(program[l].name) = l
      BY <1>2, <1>10 DEF mark
    <2> QED BY <1>2, <2>1
  <1>11. ASSUME NEW x0 \in DOMAIN asm.labels PROVE asm.labels[x0] \in Nat
    <2>1. x0 \in {program[i].name : i \in marks} /\ asm.labels[x0] = 4 * Count(marks, mark(x0))
      BY <1>2, <1>11
    <2>2. mark(x0) \in marks
      BY <2>1 DEF mark
    <2>3. \A m \in 1 .. n : m \in Nat
      OBVIOUS
    <2>4. mark(x0) \in Nat
      BY <1>1, <2>2, <2>3
    <2>5. Count(marks, mark(x0)) \in Nat
      BY <1>3, <2>4
    <2> QED BY <2>1, <2>5
  <1> QED BY <1>1, <1>7, <1>8, <1>9, <1>10, <1>11 DEF marks, asm

\* A branch, wherever it stands and whether its label is before or behind it, is
\* either refused or taken to the call that follows its label; it is refused for
\* its distance or its registers only (asm.py:61-72, 99-105, 127-133, 227-242).
THEOREM BranchesLand ==
  ASSUME NEW program \in Seq(Entry), Built(program).ok,
         NEW i \in DOMAIN program, program[i].kind \in {"beq", "bne"},
         NEW l \in Marks(program), program[l].name = program[i].target
  PROVE  LET asm  == Built(program)
             k    == Count(Marks(program), i)
             dest == 4 * Count(Marks(program), l)
             word == Resolved(asm, k)
         IN IF /\ -4096 <= dest - 4 * (k - 1) /\ dest - 4 * (k - 1) <= 4095
               /\ AreRegs({program[i].rs1, program[i].rs2})
              THEN /\ word \in Instruction /\ 4 * (k - 1) + imm_b(word) = dest
                   /\ word.rs1 = program[i].rs1 /\ word.rs2 = program[i].rs2
                   /\ word.f3 = IF program[i].kind = "beq" THEN 0 ELSE 1
                   /\ \A j \in DOMAIN program :
                        /\ l < j /\ ~IsLabel(program[j])
                        /\ \A m \in l .. j - 1 : IsLabel(program[m])
                        => asm.words[dest \div 4 + 1] = program[j]
              ELSE word = AsmError
  <1> DEFINE marks == Marks(program)
             asm   == Built(program)
             k     == Count(marks, i)
             dest  == 4 * Count(marks, l)
             off   == dest - 4 * (k - 1)
             f3    == IF program[i].kind = "beq" THEN 0 ELSE 1
             word  == Resolved(asm, k)
  <1>1. DOMAIN program = 1 .. Len(program) /\ Len(program) \in Nat /\ i \notin marks
    BY DEF Marks, IsLabel
  <1>2. /\ marks \in SUBSET (1 .. Len(program))
        /\ k \in DOMAIN asm.words /\ asm.words[k] = program[i]
        /\ program[l].name \in DOMAIN asm.labels /\ asm.labels[program[l].name] = dest
        /\ \A j \in DOMAIN program \ marks : asm.words[Count(marks, j)] = program[j]
    BY <1>1, BuiltWords
  <1>3. l \in Nat /\ i \in Nat /\ Count(marks, l) \in Nat /\ k \in Nat
    <2>1. \A m \in 1 .. Len(program) : m \in Nat
      OBVIOUS
    <2>2. l \in Nat /\ i \in Nat
      BY <1>1, <1>2, <2>1
    <2> HIDE DEF marks
    <2> QED BY <1>1, <1>2, <2>2, CountGrows
  <1>4. word = BType(off, program[i].rs2, program[i].rs1, f3)
    <2> HIDE DEF asm, k, dest
    <2>1. asm.words[k] = program[i] /\ program[i].target \in DOMAIN asm.labels
          /\ asm.labels[program[i].target] = dest
      BY <1>2
    <2>2. program[i].kind \in {"beq", "bne"}
      OBVIOUS
    <2> QED BY <2>1, <2>2 DEF Resolved
  <1>5. off \in Int /\ off % 2 = 0 /\ 4 * (k - 1) + off = dest /\ dest \div 4 = Count(marks, l)
    <2> DEFINE a == Count(marks, l)
    <2> HIDE DEF k, a
    <2>1. a \in Nat /\ k \in Nat
      BY <1>3 DEF a
    <2>2. 4 * a - 4 * (k - 1) = 2 * (2 * a - 2 * k + 2)
      BY <2>1
    <2>3. \A e \in Int : (2 * e) % 2 = 0
      OBVIOUS
    <2>4. (4 * a) \div 4 = a /\ 2 * a - 2 * k + 2 \in Int
      BY <2>1
    <2>5. dest = 4 * a /\ off = dest - 4 * (k - 1) /\ Count(marks, l) = a
      BY DEF a
    <2> HIDE DEF dest, off, marks
    <2>6. off = 2 * (2 * a - 2 * k + 2)
      BY <2>2, <2>5
    <2>7. off % 2 = 0 /\ off \in Int
      BY <2>3, <2>4, <2>6
    <2>8. 4 * (k - 1) + off = dest
      BY <2>1, <2>5
    <2> QED BY <2>4, <2>5, <2>7, <2>8
  <1>6. ASSUME NEW j \in DOMAIN program, l < j, ~IsLabel(program[j]),
               \A m \in l .. j - 1 : IsLabel(program[m])
        PROVE  asm.words[dest \div 4 + 1] = program[j]
    <2>1. j \in Nat /\ j - 1 \in Nat /\ l <= j - 1 /\ j \in DOMAIN program \ marks
      BY <1>1, <1>3, <1>6 DEF Marks
    <2>2. \A m \in Nat : l < m /\ m <= j - 1 => m \in marks
      BY <1>1, <1>3, <1>6, <2>1 DEF Marks
    <2>3. \A m \in Nat : Count(marks, m + 1) = Count(marks, m) + (IF m + 1 \in marks THEN 0 ELSE 1)
      <3>1. Counts(marks)
        BY <1>1, <1>2, CountStep
      <3> QED BY <3>1 DEF Counts
    <2> DEFINE S == {e \in Nat : l + e <= j - 1 => Count(marks, l + e) = Count(marks, l)}
    <2> HIDE DEF marks
    <2>4. 0 \in S
      BY <1>3
    <2>5. ASSUME NEW e \in Nat, e \in S PROVE e + 1 \in S
      <3> SUFFICES ASSUME l + (e + 1) <= j - 1
                   PROVE  Count(marks, l + (e + 1)) = Count(marks, l)
        OBVIOUS
      <3>1. l + (e + 1) = (l + e) + 1 /\ l + e \in Nat /\ l + e <= j - 1 /\ l < (l + e) + 1
        BY <1>3, <2>1
      <3>2. (l + e) + 1 \in marks
        BY <2>2, <3>1
      <3>3. Count(marks, l + e) = Count(marks, l)
        BY <2>5, <3>1
      <3> QED BY <1>3, <2>3, <3>1, <3>2, <3>3
    <2> HIDE DEF S
    <2>6. j - 1 - l \in S
      <3>1. j - 1 - l \in Nat
        BY <1>3, <2>1
      <3> QED BY <2>4, <2>5, <3>1, Induct
    <2>7. l + (j - 1 - l) = j - 1 /\ (j - 1) + 1 = j
      BY <1>3, <2>1
    <2>8. Count(marks, j - 1) = Count(marks, l)
      BY <2>1, <2>6, <2>7 DEF S
    <2>9. Count(marks, j) = Count(marks, l) + 1
      BY <2>1, <2>3, <2>7, <2>8
    <2> QED BY <1>2, <1>5, <2>1, <2>9
  <1> HIDE DEF asm, marks, k, dest, off, f3
  <1>7. f3 \in Bits(3)
    BY BitsRange DEF f3
  <1>8. IF -4096 <= off /\ off <= 4095 /\ AreRegs({program[i].rs1, program[i].rs2})
          THEN /\ word \in Instruction /\ imm_b(word) = off
               /\ word.rs1 = program[i].rs1 /\ word.rs2 = program[i].rs2 /\ word.f3 = f3
          ELSE word = AsmError
    <2>1. AreRegs({program[i].rs2, program[i].rs1}) <=> AreRegs({program[i].rs1, program[i].rs2})
      BY DEF AreRegs
    <2>2. LET w == BType(off, program[i].rs2, program[i].rs1, f3)
          IN IF -4096 <= off /\ off <= 4095 /\ AreRegs({program[i].rs2, program[i].rs1})
               THEN /\ w \in Instruction /\ imm_b(w) = off - (off % 2)
                    /\ w.rs2 = program[i].rs2 /\ w.rs1 = program[i].rs1
               ELSE w = AsmError
      BY <1>5, <1>7, BranchReadsBack
    <2>3. off - (off % 2) = off
      BY <1>5
    <2>4. BType(off, program[i].rs2, program[i].rs1, f3) # AsmError
            => BType(off, program[i].rs2, program[i].rs1, f3).f3 = f3
      BY DEF BType, Fields
    <2>5. \A w \in Instruction : w # AsmError
      BY DEF Instruction, AsmError
    <2> QED BY <1>4, <2>1, <2>2, <2>3, <2>4, <2>5
  <1> QED BY <1>5, <1>6, <1>8 DEF asm, marks, k, dest, off, f3

LEMMA BranchType ==
  ASSUME NEW n \in Int, NEW r, NEW s, NEW f3 \in Bits(3)
  PROVE  BType(n, r, s, f3) \in Instruction \/ BType(n, r, s, f3) = AsmError
  <1> DEFINE good == -4096 <= n /\ n <= 4095 /\ AreRegs({r, s})
  <1>1. IF good THEN BType(n, r, s, f3) \in Instruction /\ BType(n, r, s, f3).rs2 = r
        ELSE BType(n, r, s, f3) = AsmError
    BY BranchReadsBack
  <1> HIDE DEF good
  <1>2. CASE good
    BY <1>1, <1>2
  <1>3. CASE ~good
    BY <1>1, <1>3
  <1> QED BY <1>2, <1>3

\* What the assembler lets through is a sequence of 32-bit words.
LEMMA AssembledWords ==
  ASSUME NEW program \in Seq(Entry), assemble(Built(program)).ok
  PROVE  assemble(Built(program)).words \in Seq(Instruction)
  <1> DEFINE asm   == Built(program)
             words == [k \in DOMAIN asm.words |-> Resolved(asm, k)]
  <1>1. /\ assemble(asm).words = words
        /\ \A k \in DOMAIN asm.words : Resolved(asm, k) # AsmError
    BY DEF assemble
  <1>2. /\ asm.words \in Seq(Entry)
        /\ \A x0 \in DOMAIN asm.labels : asm.labels[x0] \in Nat
    BY BuiltWords
  <1> HIDE DEF asm
  <1>3. ASSUME NEW k \in DOMAIN asm.words PROVE Resolved(asm, k) \in Instruction
    <2>1. asm.words[k] \in Entry /\ k \in Nat /\ Resolved(asm, k) # AsmError
      BY <1>1, <1>2
    <2>2. CASE asm.words[k] \in Instruction
      <3>1. asm.words[k].kind = "word"
        BY <2>2 DEF Instruction
      <3> QED BY <2>2, <3>1 DEF Resolved
    <2>3. CASE asm.words[k] \notin Instruction
      <3>1. asm.words[k].kind # "word"
        BY <2>1, <2>3 DEF Entry, AsmError, Resolved
      <3>2. asm.words[k].kind \in {"beq", "bne"} /\ asm.words[k].target \in DOMAIN asm.labels
        BY <2>1, <3>1 DEF Resolved
      <3> DEFINE n  == asm.labels[asm.words[k].target] - 4 * (k - 1)
                 f3 == IF asm.words[k].kind = "beq" THEN 0 ELSE 1
      <3>3. Resolved(asm, k) = BType(n, asm.words[k].rs2, asm.words[k].rs1, f3)
        BY <3>1, <3>2 DEF Resolved
      <3>4. n \in Int
        <4> DEFINE to == asm.labels[asm.words[k].target]
        <4>1. to \in Nat
          BY <1>2, <3>2
        <4> HIDE DEF to
        <4>2. to - 4 * (k - 1) \in Int
          BY <2>1, <4>1
        <4> QED BY <4>2 DEF to
      <3>5. f3 \in Bits(3)
        BY BitsRange
      <3> HIDE DEF n, f3
      <3>6. BType(n, asm.words[k].rs2, asm.words[k].rs1, f3) \in Instruction
            \/ BType(n, asm.words[k].rs2, asm.words[k].rs1, f3) = AsmError
        BY <3>4, <3>5, BranchType
      <3> QED BY <2>1, <3>3, <3>6
    <2> QED BY <2>2, <2>3
  <1>4. words \in Seq(Instruction)
    <2> HIDE DEF Instruction
    <2>1. DOMAIN asm.words = 1 .. Len(asm.words) /\ Len(asm.words) \in Nat
      BY <1>2
    <2> QED BY <1>3, <2>1
  <1> QED BY <1>1, <1>4 DEF asm

-----------------------------------------------------------------------------
(* The running SoC.                                                        *)

Block == [1 .. 4 -> Word]

\* Registers, memory, the cipher's words and the CSRs hold 32 bits.
SocTypeOK ==
  /\ imem \in Seq(Instruction) /\ pc \in Int
  /\ x \in [0 .. 31 -> Word]
  /\ \A a \in DOMAIN ram : ram[a] \in Word
  /\ aes \in [key : Block, data : Block, loaded : Block, block : Block,
              cipher : Block \X Block, busy : {0, 1}, done : {0, 1}]
  /\ csr \in [mie : Word, mtvec : Word, mepc : Word, mcause : Word, mscratch : Word,
              MIE : {0, 1}, MPIE : {0, 1}]

LEMMA RegisterFile == 0 .. 31 = Bits(5)
  BY BitsRange

LEMMA Fetched ==
  ASSUME SocTypeOK, NEW op, Fetches(op)
  PROVE  /\ insn \in Instruction /\ x1 \in Word /\ x2 \in Word
         /\ insn.rd \in 0 .. 31 /\ insn.rs1 \in Int /\ insn.f3 \in Int
  <1>1. insn \in Instruction
    <2>1. imem \in Seq(Instruction) /\ pc \div 4 + 1 \in DOMAIN imem
      BY DEF SocTypeOK, Fetches
    <2> QED BY <2>1 DEF insn
  <1>2. insn.rs1 \in 0 .. 31 /\ insn.rs2 \in 0 .. 31 /\ insn.rd \in 0 .. 31 /\ insn.f3 \in Int
    BY <1>1, FieldRanges, RegisterFile
  <1> QED BY <1>1, <1>2, FieldRanges DEF SocTypeOK, x1, x2

LEMMA AddressType ==
  ASSUME NEW w \in Word
  PROVE  /\ AddressOf(w) \in Int /\ 0 <= AddressOf(w)
         /\ AddressOf(w) <= 2147483647
  <1>1. w.hi \in Int /\ 0 <= w.hi /\ w.lo \in Int /\ 0 <= w.lo /\ w.lo < 4096
    BY WordRange DEF Word, Lo12
  <1>2. Hi20 \div 2 = 524288
    BY SMT DEF Hi20
  <1> QED BY <1>1, <1>2, SMT DEF AddressOf, Lo12

-----------------------------------------------------------------------------
(* The address map.                                                        *)

LEMMA MapRows ==
  /\ DOMAIN MAP = 1 .. 6
  /\ MAP[1].name = "ram"   /\ MAP[1].base = 0          /\ MAP[1].size = 65536
  /\ MAP[2].name = "uart"  /\ MAP[2].base = 268435456  /\ MAP[2].size = 4096
  /\ MAP[3].name = "spi"   /\ MAP[3].base = 268439552  /\ MAP[3].size = 4096
  /\ MAP[4].name = "aes"   /\ MAP[4].base = 536870912  /\ MAP[4].size = 4096
  /\ MAP[5].name = "clint" /\ MAP[5].base = 1073741824 /\ MAP[5].size = 65536
  /\ MAP[6].name = "trng"  /\ MAP[6].base = 805306368  /\ MAP[6].size = 4096
  BY SMT DEF MAP, Region, KB

LEMMA MapSet == ToSet(MAP) = {MAP[1], MAP[2], MAP[3], MAP[4], MAP[5], MAP[6]}
  <1>1. ToSet(MAP) = {MAP[k] : k \in 1 .. 6}
    BY MapRows, SMT DEF ToSet
  <1>2. 1 .. 6 = {1, 2, 3, 4, 5, 6}
    OBVIOUS
  <1> HIDE DEF MAP
  <1> QED BY <1>1, <1>2

LEMMA Apart == Overlaps = {}
  <1> SUFFICES ASSUME NEW r \in ToSet(MAP), NEW s \in ToSet(MAP), r # s PROVE ~Meet(r, s)
    BY DEF Overlaps
  <1> QED BY MapRows, MapSet, SMT DEF Meet, Limit

\* The first hit is the only one.
LEMMA Decoded ==
  ASSUME NEW a \in Int, 0 <= a, a <= 2147483647
  PROVE  Decode(a) = IF a <= 65535 THEN "ram"
                     ELSE IF 268435456 <= a /\ a <= 268439551 THEN "uart"
                     ELSE IF 268439552 <= a /\ a <= 268443647 THEN "spi"
                     ELSE IF 536870912 <= a /\ a <= 536875007 THEN "aes"
                     ELSE IF 1073741824 <= a /\ a <= 1073807359 THEN "clint"
                     ELSE IF 805306368 <= a /\ a <= 805310463 THEN "trng"
                     ELSE "none"
  <1> DEFINE hits == {i \in DOMAIN MAP : InRegion(MAP[i], a)}
  <1>1. hits = {i \in 1 .. 6 : InRegion(MAP[i], a)}
    BY MapRows, MapSet, SMT
  <1>2. /\ InRegion(MAP[1], a) <=> a <= 65535
        /\ InRegion(MAP[2], a) <=> 268435456 <= a /\ a <= 268439551
        /\ InRegion(MAP[3], a) <=> 268439552 <= a /\ a <= 268443647
        /\ InRegion(MAP[4], a) <=> 536870912 <= a /\ a <= 536875007
        /\ InRegion(MAP[5], a) <=> 1073741824 <= a /\ a <= 1073807359
        /\ InRegion(MAP[6], a) <=> 805306368 <= a /\ a <= 805310463
    BY MapRows, MapSet, SMT DEF InRegion, Limit
  <1>3. ASSUME NEW i \in 1 .. 6, InRegion(MAP[i], a) PROVE hits = {i}
    BY <1>1, <1>2, <1>3, SMT
  <1>4. ASSUME NEW i \in 1 .. 6, InRegion(MAP[i], a) PROVE Decode(a) = MAP[i].name
    <2>1. hits = {i}
      BY <1>3, <1>4
    <2>2. (CHOOSE k \in hits : \A j \in hits : k <= j) = i
      BY <2>1
    <2> HIDE DEF hits
    <2> QED BY <2>1, <2>2 DEF Decode, hits
  <1>5. (\A i \in 1 .. 6 : ~InRegion(MAP[i], a)) => Decode(a) = "none"
    BY <1>1 DEF Decode
  <1> HIDE DEF hits
  <1> QED BY <1>2, <1>4, <1>5, MapRows, MapSet, SMT

LEMMA MapRegisters ==
  /\ MAP[1].registers = {} /\ MAP[6].registers = {<<"DATA", 0>>, <<"STATUS", 4>>}
  /\ MAP[2].registers = {<<n, UartReg[n]>> : n \in DOMAIN UartReg}
  /\ MAP[3].registers = {<<"DATA", 0>>, <<"STATUS", 4>>, <<"CONFIG", 8>>}
  /\ MAP[4].registers = {<<n, AesReg[n]>> : n \in DOMAIN AesReg}
  /\ MAP[5].registers = {<<n, ClintReg[n]>> : n \in DOMAIN ClintReg}
  <1>1. DOMAIN UartReg = {"DATA", "STAT", "DIV", "CTRL", "IRQ_EN", "IRQ_STAT"}
    BY DEF UartReg
  <1>2. DOMAIN AesReg = {"KEY0", "KEY1", "KEY2", "KEY3", "DATA0", "DATA1", "DATA2", "DATA3",
                         "CTRL", "STATUS", "OUT0", "OUT1", "OUT2", "OUT3"}
    BY DEF AesReg
  <1>3. DOMAIN ClintReg = {"MSIP", "MTIMECMP_LO", "MTIMECMP_HI", "MTIME_LO", "MTIME_HI"}
    BY DEF ClintReg
  <1>4. MAP[1].registers = {} /\ MAP[6].registers = {<<"DATA", 0>>, <<"STATUS", 4>>}
        /\ MAP[3].registers = {<<"DATA", 0>>, <<"STATUS", 4>>, <<"CONFIG", 8>>}
    BY DEF MAP, Region
  <1>5. MAP[2].registers = {<<n, UartReg[n]>> : n \in DOMAIN UartReg}
    <2>1. MAP[2].registers =
            {<<"DATA", 0>>, <<"STAT", 4>>, <<"DIV", 8>>, <<"CTRL", 12>>, <<"IRQ_EN", 16>>,
             <<"IRQ_STAT", 20>>}
      BY DEF MAP, Region
    <2> QED BY <1>1, <2>1 DEF UartReg
  <1>6. MAP[4].registers = {<<n, AesReg[n]>> : n \in DOMAIN AesReg}
    <2>1. MAP[4].registers =
            {<<"KEY0", 0>>, <<"KEY1", 4>>, <<"KEY2", 8>>, <<"KEY3", 12>>,
             <<"DATA0", 16>>, <<"DATA1", 20>>, <<"DATA2", 24>>, <<"DATA3", 28>>,
             <<"CTRL", 32>>, <<"STATUS", 36>>,
             <<"OUT0", 48>>, <<"OUT1", 52>>, <<"OUT2", 56>>, <<"OUT3", 60>>}
      BY DEF MAP, Region
    <2> QED BY <1>2, <2>1 DEF AesReg
  <1>7. MAP[5].registers = {<<n, ClintReg[n]>> : n \in DOMAIN ClintReg}
    <2>1. MAP[5].registers =
            {<<"MSIP", 0>>, <<"MTIMECMP_LO", 16384>>, <<"MTIMECMP_HI", 16388>>,
             <<"MTIME_LO", 49144>>, <<"MTIME_HI", 49148>>}
      BY DEF MAP, Region
    <2> QED BY <1>3, <2>1 DEF ClintReg
  <1> QED BY <1>4, <1>5, <1>6, <1>7

\* No two registers of a slave share an offset.
LEMMA OneOffset ==
  /\ \A m, n \in DOMAIN AesReg : AesReg[m] = AesReg[n] => m = n
  /\ \A m, n \in DOMAIN UartReg : UartReg[m] = UartReg[n] => m = n
  /\ \A m, n \in DOMAIN ClintReg : ClintReg[m] = ClintReg[n] => m = n
  <1>1. \A m, n \in DOMAIN AesReg : AesReg[m] = AesReg[n] => m = n
    BY DEF AesReg
  <1>2. \A m, n \in DOMAIN UartReg : UartReg[m] = UartReg[n] => m = n
    BY DEF UartReg
  <1>3. \A m, n \in DOMAIN ClintReg : ClintReg[m] = ClintReg[n] => m = n
    BY DEF ClintReg
  <1> QED BY <1>1, <1>2, <1>3, SMT

LEMMA NamedBack ==
  ASSUME NEW regs, NEW n \in DOMAIN regs, \A m \in DOMAIN regs : regs[m] = regs[n] => m = n
  PROVE  Named(regs, regs[n]) = n
  BY DEF Named

LEMMA RegisterNames ==
  ASSUME NEW q \in ToSet(MAP), NEW reg \in q.registers
  PROVE  reg[1] \notin {"BASE", "SIZE", "LIMIT"}
  <1>1. DOMAIN UartReg = {"DATA", "STAT", "DIV", "CTRL", "IRQ_EN", "IRQ_STAT"}
    BY DEF UartReg
  <1>2. DOMAIN AesReg = {"KEY0", "KEY1", "KEY2", "KEY3", "DATA0", "DATA1", "DATA2", "DATA3",
                         "CTRL", "STATUS", "OUT0", "OUT1", "OUT2", "OUT3"}
    BY DEF AesReg
  <1>3. DOMAIN ClintReg = {"MSIP", "MTIMECMP_LO", "MTIMECMP_HI", "MTIME_LO", "MTIME_HI"}
    BY DEF ClintReg
  <1> HIDE DEF MAP
  <1>4. CASE q = MAP[2]
    <2>1. PICK n \in DOMAIN UartReg : reg = <<n, UartReg[n]>>
      BY <1>4, MapRegisters
    <2> QED BY <1>1, <2>1
  <1>5. CASE q = MAP[4]
    <2>1. PICK n \in DOMAIN AesReg : reg = <<n, AesReg[n]>>
      BY <1>5, MapRegisters
    <2> QED BY <1>2, <2>1
  <1>6. CASE q = MAP[5]
    <2>1. PICK n \in DOMAIN ClintReg : reg = <<n, ClintReg[n]>>
      BY <1>6, MapRegisters
    <2> QED BY <1>3, <2>1
  <1>7. CASE q \in {MAP[1], MAP[3], MAP[6]}
    BY <1>7, MapRegisters
  <1> QED BY <1>4, <1>5, <1>6, <1>7, MapSet

\* What the two headers define.
LEMMA Lines ==
  ASSUME NEW d
  PROVE  /\ d \in ToSystemVerilog <=>
              \E q \in ToSet(MAP) :
                \/ d \in {<<q.name, "BASE", q.base>>, <<q.name, "SIZE", q.size>>}
                \/ d = <<q.name, "LIMIT", Limit(q)>>
                \/ \E reg \in q.registers : d = <<q.name, reg[1], q.base + reg[2]>>
         /\ d \in ToC <=>
              \E q \in ToSet(MAP) :
                \/ d \in {<<q.name, "BASE", q.base>>, <<q.name, "SIZE", q.size>>}
                \/ \E reg \in q.registers : d = <<q.name, reg[1], q.base + reg[2]>>
  <1> HIDE DEF MAP
  <1> QED BY DEF ToSystemVerilog, ToC, Header

LEMMA Bases ==
  Base("ram") = 0 /\ Base("uart") = 268435456 /\ Base("aes") = 536870912
    /\ Base("clint") = 1073741824
  <1>1. ASSUME NEW q \in ToSet(MAP) PROVE Base(q.name) = q.base
    <2> DEFINE line == <<q.name, "BASE", q.base>>
    <2>1. line \in ToSystemVerilog /\ line[1] = q.name /\ line[2] = "BASE"
      BY Lines
    <2>2. ASSUME NEW d \in ToSystemVerilog, d[1] = q.name, d[2] = "BASE" PROVE d[3] = q.base
      <3>1. PICK s \in ToSet(MAP) :
              \/ d \in {<<s.name, "BASE", s.base>>, <<s.name, "SIZE", s.size>>}
              \/ d = <<s.name, "LIMIT", Limit(s)>>
              \/ \E reg \in s.registers : d = <<s.name, reg[1], s.base + reg[2]>>
        BY <2>2, Lines
      <3>2. d = <<s.name, "BASE", s.base>>
        BY <2>2, <3>1, RegisterNames
      <3>3. s = q
        BY <2>2, <3>2, MapRows, MapSet, SMT
      <3> QED BY <3>2, <3>3
    <2> QED BY <2>1, <2>2 DEF Base, Defined
  <1> QED BY <1>1, MapRows, MapSet, SMT

\* At most one slave answers an address, mapped or not.
LEMMA SelectedSlaves ==
  ASSUME NEW a \in Int, 0 <= a, a <= 2147483647
  PROVE  Selected(a) = IF a <= 268435455 THEN {"ram"}
                       ELSE IF a <= 536870911
                         THEN (IF (a \div 4096) % 16 = 0 THEN {"uart"} ELSE {})
                       ELSE IF a <= 805306367 THEN {"aes"}
                       ELSE IF 1073741824 <= a /\ a <= 1342177279 THEN {"clint"}
                       ELSE {}
  <1>1. /\ Nibble(Base("ram")) = 0 /\ Nibble(Base("uart")) = 1 /\ Nibble(Base("aes")) = 2
        /\ Nibble(Base("clint")) = 4 /\ Page(Base("uart")) = 0
    BY Bases, SMT DEF Nibble, Page
  <1>2. /\ Nibble(a) = 0 <=> a <= 268435455
        /\ Nibble(a) = 1 <=> 268435456 <= a /\ a <= 536870911
        /\ Nibble(a) = 2 <=> 536870912 <= a /\ a <= 805306367
        /\ Nibble(a) = 4 <=> 1073741824 <= a /\ a <= 1342177279
    BY SMT DEF Nibble
  <1>3. \A r : r \in Selected(a) <=>
               \/ r = "ram" /\ Nibble(a) = 0
               \/ r = "aes" /\ Nibble(a) = 2
               \/ r = "clint" /\ Nibble(a) = 4
               \/ r = "uart" /\ Nibble(a) = 1 /\ (a \div 4096) % 16 = 0
    BY <1>1 DEF Selected, Page
  <1> QED BY <1>2, <1>3, SMT

LEMMA ArrivesAt ==
  ASSUME NEW a
  PROVE  /\ Selected(a) = {"aes"} => Arrives(a) = {<<"aes", Named(AesReg, a % 256)>>}
         /\ Selected(a) = {"uart"} => Arrives(a) = {<<"uart", Named(UartReg, a % 32)>>}
         /\ Selected(a) = {"clint"} => Arrives(a) = {<<"clint", Named(ClintReg, a % 65536)>>}
  <1>1. ASSUME NEW r, Selected(a) = {r} PROVE Arrives(a) = {Target(r, a)}
    BY <1>1 DEF Arrives
  <1>2. /\ Target("aes", a) = <<"aes", Named(AesReg, a % 256)>>
        /\ Target("uart", a) = <<"uart", Named(UartReg, a % 32)>>
        /\ Target("clint", a) = <<"clint", Named(ClintReg, a % 65536)>>
    BY SMT DEF Target
  <1> QED BY <1>1, <1>2, SMT

\* For every address: the regions do not meet and no two slaves answer; one the
\* map gives a region to is answered by that region's slave, if soc_top attaches
\* it; and a register's address in the C header is in its region and reaches
\* that register (memmap.py:137-153, 183-206, soc_top.sv:79-89).
THEOREM MapDecides ==
  ASSUME NEW a \in Int, 0 <= a, a <= 2147483647
  PROVE  /\ Overlaps = {} /\ \A r, s \in Selected(a) : r = s
         /\ Decode(a) # "none" => Selected(a) = {Decode(a)} \ {"spi", "trng"}
         /\ \A d \in ToC : d[3] = a /\ d[2] \notin {"BASE", "SIZE"} =>
              /\ d[1] = Decode(a)
              /\ d[1] \in {"aes", "uart", "clint"} => Arrives(a) = {<<d[1], d[2]>>}
  <1>1. Overlaps = {} /\ \A r, s \in Selected(a) : r = s
    BY Apart, SelectedSlaves, SMT
  <1>2. Decode(a) # "none" => Selected(a) = {Decode(a)} \ {"spi", "trng"}
    <2>1. 268435456 <= a /\ a <= 268439551 => (a \div 4096) % 16 = 0
      BY SMT
    <2>2. 268439552 <= a /\ a <= 268443647 => (a \div 4096) % 16 = 1
      BY SMT
    <2> QED BY <2>1, <2>2, Decoded, SelectedSlaves, SMT
  <1>3. ASSUME NEW d \in ToC, d[3] = a, d[2] \notin {"BASE", "SIZE"}
        PROVE  /\ d[1] = Decode(a)
               /\ d[1] \in {"aes", "uart", "clint"} => Arrives(a) = {<<d[1], d[2]>>}
    <2>0. PICK q \in ToSet(MAP) : \E reg \in q.registers : d = <<q.name, reg[1], q.base + reg[2]>>
      <3>1. \E q \in ToSet(MAP) :
              \/ d \in {<<q.name, "BASE", q.base>>, <<q.name, "SIZE", q.size>>}
              \/ \E reg \in q.registers : d = <<q.name, reg[1], q.base + reg[2]>>
        BY <1>3, Lines
      <3> QED BY <1>3, <3>1
    <2>1. PICK reg \in q.registers : d = <<q.name, reg[1], q.base + reg[2]>>
      BY <2>0
    <2>2. ASSUME NEW regs, NEW n \in DOMAIN regs, reg = <<n, regs[n]>>,
                 \A m1, m2 \in DOMAIN regs : regs[m1] = regs[m2] => m1 = m2
          PROVE  d[2] = n /\ a = q.base + regs[n] /\ Named(regs, regs[n]) = n
      BY <1>3, <2>1, <2>2, NamedBack
    <2>3. CASE q = MAP[2]
      <3>1. PICK n \in DOMAIN UartReg : reg = <<n, UartReg[n]>>
        BY <2>1, <2>3, MapRegisters
      <3>2. d[1] = "uart" /\ d[2] = n /\ a = 268435456 + UartReg[n] /\ Named(UartReg, UartReg[n]) = n
        BY <2>1, <2>2, <2>3, <3>1, OneOffset, MapRows, SMT
      <3>3. UartReg[n] \in Int /\ 0 <= UartReg[n] /\ UartReg[n] < 32
        BY DEF UartReg
      <3>4. a % 32 = UartReg[n] /\ (a \div 4096) % 16 = 0
        BY <3>2, <3>3, SMT
      <3>5. Decode(a) = "uart" /\ Selected(a) = {"uart"}
        BY <3>2, <3>3, <3>4, Decoded, SelectedSlaves, SMT
      <3>6. Arrives(a) = {<<"uart", Named(UartReg, a % 32)>>}
        BY <3>5, ArrivesAt, SMT
      <3> QED BY <3>2, <3>4, <3>5, <3>6, SMT
    <2>4. CASE q = MAP[4]
      <3>1. PICK n \in DOMAIN AesReg : reg = <<n, AesReg[n]>>
        BY <2>1, <2>4, MapRegisters
      <3>2. d[1] = "aes" /\ d[2] = n /\ a = 536870912 + AesReg[n] /\ Named(AesReg, AesReg[n]) = n
        BY <2>1, <2>2, <2>4, <3>1, OneOffset, MapRows, SMT
      <3>3. AesReg[n] \in Int /\ 0 <= AesReg[n] /\ AesReg[n] < 256
        BY DEF AesReg
      <3>4. a % 256 = AesReg[n]
        BY <3>2, <3>3, SMT
      <3>5. Decode(a) = "aes" /\ Selected(a) = {"aes"}
        BY <3>2, <3>3, Decoded, SelectedSlaves, SMT
      <3>6. Arrives(a) = {<<"aes", Named(AesReg, a % 256)>>}
        BY <3>5, ArrivesAt, SMT
      <3> QED BY <3>2, <3>4, <3>5, <3>6, SMT
    <2>5. CASE q = MAP[5]
      <3>1. PICK n \in DOMAIN ClintReg : reg = <<n, ClintReg[n]>>
        BY <2>1, <2>5, MapRegisters
      <3>2. d[1] = "clint" /\ d[2] = n /\ a = 1073741824 + ClintReg[n]
            /\ Named(ClintReg, ClintReg[n]) = n
        BY <2>1, <2>2, <2>5, <3>1, OneOffset, MapRows, SMT
      <3>3. ClintReg[n] \in Int /\ 0 <= ClintReg[n] /\ ClintReg[n] < 65536
        BY DEF ClintReg
      <3>4. a % 65536 = ClintReg[n]
        BY <3>2, <3>3, SMT
      <3>5. Decode(a) = "clint" /\ Selected(a) = {"clint"}
        BY <3>2, <3>3, Decoded, SelectedSlaves, SMT
      <3>6. Arrives(a) = {<<"clint", Named(ClintReg, a % 65536)>>}
        BY <3>5, ArrivesAt, SMT
      <3> QED BY <3>2, <3>4, <3>5, <3>6, SMT
    <2>6. CASE q \in {MAP[1], MAP[3], MAP[6]}
      <3>1. CASE q = MAP[3]
        <4>1. reg[2] \in Int /\ 0 <= reg[2] /\ reg[2] <= 8 /\ q.name = "spi" /\ q.base = 268439552
          BY <2>1, <3>1, MapRows, MapRegisters, SMT
        <4>2. d[1] = "spi" /\ a = 268439552 + reg[2]
          BY <1>3, <2>1, <4>1
        <4> QED BY <4>1, <4>2, Decoded, SMT
      <3>2. CASE q = MAP[6]
        <4>1. reg[2] \in Int /\ 0 <= reg[2] /\ reg[2] <= 8 /\ q.name = "trng" /\ q.base = 805306368
          BY <2>1, <3>2, MapRows, MapRegisters, SMT
        <4>2. d[1] = "trng" /\ a = 805306368 + reg[2]
          BY <1>3, <2>1, <4>1
        <4> QED BY <4>1, <4>2, Decoded, SMT
      <3> QED BY <2>1, <2>6, <3>1, <3>2, MapRegisters
    <2> QED BY <2>1, <2>3, <2>4, <2>5, <2>6, MapSet
  <1> QED BY <1>1, <1>2, <1>3, SMT

-----------------------------------------------------------------------------
(* Every step keeps the types.                                             *)

AesType == [key : Block, data : Block, loaded : Block, block : Block,
            cipher : Block \X Block, busy : {0, 1}, done : {0, 1}]
CsrType == [mie : Word, mtvec : Word, mepc : Word, mcause : Word, mscratch : Word,
            MIE : {0, 1}, MPIE : {0, 1}]

LEMMA Zero == Num(0) \in Word /\ Num(1) \in Word
  BY NumType

LEMMA RegsKept ==
  ASSUME SocTypeOK, NEW op, Fetches(op), NEW v \in Word, SetReg(v)
  PROVE  x' \in [0 .. 31 -> Word]
  <1>1. insn.rd \in 0 .. 31 /\ x \in [0 .. 31 -> Word]
    BY Fetched DEF SocTypeOK
  <1> HIDE DEF insn, Word
  <1> QED BY <1>1 DEF SetReg

LEMMA AesKept ==
  ASSUME SocTypeOK, NEW reg, NEW w \in Word
  PROVE  AesWritten(reg, w) \in AesType
  <1>1. aes \in AesType
    BY DEF SocTypeOK, AesType
  <1> HIDE DEF Word
  <1>2. reg \in DOMAIN KeyWord => KeyWord[reg] \in 1 .. 4
    BY DEF KeyWord
  <1>3. reg \in DOMAIN DataWord => DataWord[reg] \in 1 .. 4
    BY DEF DataWord
  <1> DEFINE key == [aes.key EXCEPT ![KeyWord[reg]] = w]
  <1>4. reg \in DOMAIN KeyWord => key \in Block
    BY <1>1, <1>2 DEF AesType, Block
  <1>5. reg \in DOMAIN DataWord => [aes.data EXCEPT ![DataWord[reg]] = w] \in Block
    BY <1>1, <1>3 DEF AesType, Block
  <1>9. /\ DOMAIN KeyWord = {"KEY0", "KEY1", "KEY2", "KEY3"}
        /\ DOMAIN DataWord = {"DATA0", "DATA1", "DATA2", "DATA3"}
    BY DEF KeyWord, DataWord
  <1>6. CASE reg \in DOMAIN KeyWord
    <2>1. AesWritten(reg, w) = [aes EXCEPT !.key = key, !.loaded = key]
      BY <1>6, <1>9 DEF AesWritten
    <2> HIDE DEF key
    <2> QED BY <1>1, <1>4, <1>6, <2>1 DEF AesType
  <1>7. CASE reg \notin DOMAIN KeyWord /\ reg \in DOMAIN DataWord
    <2>1. AesWritten(reg, w) = [aes EXCEPT !.data = [aes.data EXCEPT ![DataWord[reg]] = w]]
      BY <1>1, <1>7, <1>9 DEF AesWritten, AesType
    <2> QED BY <1>1, <1>5, <1>7, <2>1 DEF AesType
  <1>8. CASE reg \notin DOMAIN KeyWord /\ reg \notin DOMAIN DataWord
    <2>1. AesWritten(reg, w) \in {aes, [aes EXCEPT !.busy = 1, !.done = 0, !.block = aes.data]}
      BY <1>8 DEF AesWritten
    <2> QED BY <1>1, <2>1 DEF AesType
  <1> QED BY <1>6, <1>7, <1>8

LEMMA CsrKept ==
  ASSUME SocTypeOK, NEW w \in Word
  PROVE  CsrWritten(w) \in CsrType /\ CsrRead \in Word
  <1>1. csr \in CsrType
    BY DEF SocTypeOK, CsrType
  <1>2. w.lo \in Int /\ 0 <= w.lo /\ w.lo < Lo12
    BY WordRange DEF Word
  <1>3. Aligned(w) \in Word
    <2>1. w.lo - (w.lo % 4) \in Int /\ 0 <= w.lo - (w.lo % 4) /\ w.lo - (w.lo % 4) <= w.lo
      BY <1>2
    <2>2. w.lo - (w.lo % 4) < Lo12
      BY <1>2, <2>1, Sizes
    <2> QED BY <2>1, <2>2, WordRange DEF Aligned, W, Word
  <1>4. (w.lo \div 8) % 2 \in {0, 1} /\ (w.lo \div 128) % 2 \in {0, 1}
    BY <1>2
  <1>5. Mstatus \in Word
    <2> DEFINE lo == 2048 + 8 * csr.MIE + 128 * csr.MPIE
    <2>1. lo \in Int /\ 0 <= lo /\ lo < Lo12
      BY <1>1 DEF CsrType, Lo12
    <2>2. lo \in Bits(12) /\ 1 \in Bits(20)
      BY <2>1, WordRange, SMT DEF Hi20
    <2> HIDE DEF lo
    <2>3. W(1, lo) \in Word
      BY <2>2 DEF W, Word
    <2> QED BY <2>3 DEF Mstatus, lo
  <1> HIDE DEF Word
  <1>6. CsrRead \in Word
    BY <1>1, <1>5, Zero DEF CsrRead, CsrType
  <1>7. CsrWritten(w) \in
          {csr, [csr EXCEPT !.MIE = (w.lo \div 8) % 2, !.MPIE = (w.lo \div 128) % 2],
           [csr EXCEPT !.mie = w], [csr EXCEPT !.mtvec = Aligned(w)],
           [csr EXCEPT !.mscratch = w], [csr EXCEPT !.mepc = Aligned(w)],
           [csr EXCEPT !.mcause = w]}
    BY DEF CsrWritten
  <1>8. CsrWritten(w) \in CsrType
    <2>1. [csr EXCEPT !.MIE = (w.lo \div 8) % 2, !.MPIE = (w.lo \div 128) % 2] \in CsrType
      BY <1>1, <1>4 DEF CsrType
    <2>2. /\ [csr EXCEPT !.mie = w] \in CsrType /\ [csr EXCEPT !.mtvec = Aligned(w)] \in CsrType
          /\ [csr EXCEPT !.mscratch = w] \in CsrType /\ [csr EXCEPT !.mepc = Aligned(w)] \in CsrType
          /\ [csr EXCEPT !.mcause = w] \in CsrType
      BY <1>1, <1>3 DEF CsrType
    <2> QED BY <1>1, <1>7, <2>1, <2>2
  <1> QED BY <1>6, <1>8

LEMMA AnswersWords ==
  ASSUME SocTypeOK, NEW t PROVE Answers(t) \subseteq Word
  <1> HIDE DEF Word
  <1>1. \A a : Stored(a) \in Word
    BY Zero DEF Stored, SocTypeOK
  <1>2. Num(aes.done) \in Word /\ Num(aes.busy) \in Word
    BY Zero DEF SocTypeOK
  <1>3. Times \subseteq Word
    BY ProgramsAssumption
  <1> QED BY <1>1, <1>2, <1>3, Zero DEF Answers

LEMMA SocTypeSplit ==
  SocTypeOK <=>
    /\ imem \in Seq(Instruction) /\ pc \in Int /\ x \in [0 .. 31 -> Word]
    /\ \A a \in DOMAIN ram : ram[a] \in Word
    /\ aes \in AesType /\ csr \in CsrType
  BY DEF SocTypeOK, AesType, CsrType

LEMMA SocStarts == Init => SocTypeOK
  <1> SUFFICES ASSUME Init PROVE SocTypeOK
    OBVIOUS
  <1>1. PICK image \in {assemble(Built(prog.calls))} : image.ok /\ imem = image.words
    BY DEF Init
  <1>2. imem \in Seq(Instruction)
    <2>1. prog.calls \in Seq(Entry)
      BY ProgramsAssumption DEF Init
    <2> QED BY <1>1, <2>1, AssembledWords
  <1>3. pc \in Int /\ x \in [0 .. 31 -> Word]
    BY Zero DEF Init
  <1>4. DOMAIN ram = {}
    BY DEF Init
  <1>5. aes \in AesType
    <2> DEFINE zero == [i \in 1 .. 4 |-> Num(0)]
    <2>1. zero \in Block
      BY Zero DEF Block
    <2>2. aes = [key |-> zero, data |-> zero, loaded |-> zero, block |-> zero,
                 cipher |-> <<zero, zero>>, busy |-> 0, done |-> 0]
      BY DEF Init
    <2> HIDE DEF zero
    <2> QED BY <2>1, <2>2 DEF AesType
  <1>6. csr \in CsrType
    BY Zero DEF Init, CsrType
  <1> QED BY <1>2, <1>3, <1>4, <1>5, <1>6, SocTypeSplit

LEMMA SocSteps == SocTypeOK /\ [Next]_socVars => SocTypeOK'
  <1> SUFFICES ASSUME SocTypeOK, [Next]_socVars PROVE SocTypeOK'
    OBVIOUS
  <1>0. /\ imem \in Seq(Instruction) /\ pc \in Int /\ x \in [0 .. 31 -> Word]
        /\ \A a \in DOMAIN ram : ram[a] \in Word
        /\ aes \in AesType /\ csr \in CsrType
    BY SocTypeSplit
  <1> HIDE DEF insn
  <1> DEFINE Kept == /\ imem' \in Seq(Instruction) /\ pc' \in Int /\ x' \in [0 .. 31 -> Word]
                     /\ \A a \in DOMAIN ram' : ram'[a] \in Word
                     /\ aes' \in AesType /\ csr' \in CsrType
  <1>1. Kept => SocTypeOK'
    BY DEF SocTypeOK, AesType, CsrType
  <1>2. CASE LoadUpper
    <2>1. Fetches(55) /\ SetReg(imm_u(insn)) /\ imm_u(insn) \in Word
      BY <1>2, Fetched, Immediates DEF LoadUpper
    <2>2. x' \in [0 .. 31 -> Word]
      BY <2>1, RegsKept
    <2> QED BY <1>0, <1>1, <1>2, <2>2 DEF LoadUpper, Next4, NoBus, Same
  <1>3. CASE Immediate
    <2> DEFINE v == IF insn.f3 = 0 THEN Plus(x1, Num(imm_i(insn)))
                    ELSE BitsAnd(x1, Num(imm_i(insn)))
    <2>1. Fetches(19) /\ SetReg(v)
      BY <1>3 DEF Immediate
    <2>2. v \in Word
      BY <2>1, Fetched, Immediates, NumType, PlusType, BitsType
    <2> HIDE DEF v
    <2>3. x' \in [0 .. 31 -> Word]
      BY <2>1, <2>2, RegsKept
    <2> QED BY <1>0, <1>1, <1>3, <2>3 DEF Immediate, Next4, NoBus, Same
  <1>4. CASE AddRegs
    <2>1. Fetches(51) /\ SetReg(Plus(x1, x2)) /\ Plus(x1, x2) \in Word
      BY <1>4, Fetched, PlusType DEF AddRegs
    <2>2. x' \in [0 .. 31 -> Word]
      BY <2>1, RegsKept
    <2> QED BY <1>0, <1>1, <1>4, <2>2 DEF AddRegs, Next4, NoBus, Same
  <1>5. CASE Load
    <2>1. PICK v \in Word : SetReg(v)
      <3>1. CASE Arrives(LoadAddress) = {}
        BY <1>5, <3>1, Zero DEF Load
      <3>2. CASE Arrives(LoadAddress) # {}
        BY <1>5, <3>2, AnswersWords DEF Load
      <3> QED BY <3>1, <3>2
    <2>2. x' \in [0 .. 31 -> Word]
      BY <1>5, <2>1, RegsKept DEF Load
    <2> QED BY <1>0, <1>1, <1>5, <2>2 DEF Load, Next4, NoBus, Same
  <1>6. CASE Store
    <2>1. Fetches(35) /\ x2 \in Word
      BY <1>6, Fetched DEF Store
    <2>2. \A a \in DOMAIN ram' : ram'[a] \in Word
      <3>1. \/ ram' = ram
            \/ ram' = [a \in DOMAIN ram \cup {StoreAddress} |->
                         IF a = StoreAddress THEN x2 ELSE ram[a]]
        BY <1>6 DEF Store
      <3> QED BY <1>0, <2>1, <3>1
    <2>3. aes' \in AesType
      <3>1. aes' = aes \/ \E reg : aes' = AesWritten(reg, x2)
        BY <1>6 DEF Store
      <3> QED BY <1>0, <2>1, <3>1, AesKept
    <2>4. imem' = imem /\ pc' = pc + 4 /\ x' = x /\ csr' = csr
      BY <1>6 DEF Store, Next4, Same
    <2> QED BY <1>0, <1>1, <2>2, <2>3, <2>4
  <1>7. CASE BranchStep
    <2>1. imm_b(insn) \in Int
      BY <1>7, Fetched, Immediates DEF BranchStep
    <2>2. pc' \in Int
      <3>1. pc' = pc + imm_b(insn) \/ pc' = pc + 4
        BY <1>7 DEF BranchStep
      <3> DEFINE off == imm_b(insn)
      <3>2. off \in Int /\ (pc' = pc + off \/ pc' = pc + 4)
        BY <2>1, <3>1
      <3> HIDE DEF off
      <3>3. pc \in Int
        BY <1>0
      <3> QED BY <3>2, <3>3
    <2> QED BY <1>0, <1>1, <1>7, <2>2 DEF BranchStep, NoBus, Same
  <1>8. CASE CsrStep
    <2>1. Fetches(115) /\ SetReg(CsrRead)
      BY <1>8 DEF CsrStep
    <2>2. x1 \in Word /\ Num(insn.rs1) \in Word
      BY <2>1, Fetched, NumType
    <2>3. \A w \in Word : CsrWritten(w) \in CsrType /\ CsrRead \in Word
      BY CsrKept
    <2>4. CsrRead \in Word
      BY <2>2, <2>3
    <2> DEFINE src == IF insn.f3 >= 4 THEN Num(insn.rs1) ELSE x1
    <2>5. csr' \in {CsrWritten(src), CsrWritten(BitsOr(CsrRead, src)),
                    CsrWritten(BitsAnd(CsrRead, BitsNot(src))), csr}
      BY <1>8 DEF CsrStep
    <2>6. src \in Word
      BY <2>2
    <2> HIDE DEF src
    <2>7. BitsOr(CsrRead, src) \in Word /\ BitsAnd(CsrRead, BitsNot(src)) \in Word
      BY <2>4, <2>6, BitsType
    <2>8. csr' \in CsrType
      BY <1>0, <2>3, <2>5, <2>6, <2>7
    <2>9. x' \in [0 .. 31 -> Word]
      BY <2>1, <2>4, RegsKept
    <2>10. imem' = imem /\ pc' = pc + 4 /\ ram' = ram /\ aes' = aes
      BY <1>8 DEF CsrStep, Next4, NoBus, Same
    <2> QED BY <1>0, <1>1, <2>8, <2>9, <2>10
  <1>10. CASE MachineReturn
    <2>1. csr' \in CsrType
      BY <1>0, <1>10 DEF MachineReturn, CsrType
    <2>2. pc' \in Int
      BY <1>0, <1>10, AddressType DEF MachineReturn, CsrType
    <2> QED BY <1>0, <1>1, <1>10, <2>1, <2>2 DEF MachineReturn, NoBus, Same
  <1>11. CASE Interrupt
    <2>1. Num(pc) \in Word /\ W(524288, 7) \in Word
      <3>1. 524288 \in Bits(20) /\ 7 \in Bits(12)
        BY WordRange, SMT DEF Hi20, Lo12
      <3>2. \A h \in Bits(20), l \in Bits(12) : W(h, l) \in Word
        BY DEF W, Word
      <3>3. W(524288, 7) \in Word
        BY <3>1, <3>2, SMT
      <3> QED BY <1>0, <3>3, NumType, SMT
    <2>2. csr' = [csr EXCEPT !.mepc = Num(pc), !.mcause = W(524288, 7), !.MPIE = csr.MIE, !.MIE = 0]
      BY <1>11, SMT DEF Interrupt
    <2>3. csr \in CsrType
      BY <1>0
    <2>4. csr' \in CsrType
      <3>1. PICK u \in Word : u = Num(pc)
        BY <2>1, SMT
      <3>2. PICK v \in Word : v = W(524288, 7)
        BY <2>1, SMT
      <3>3. csr' = [csr EXCEPT !.mepc = u, !.mcause = v, !.MPIE = csr.MIE, !.MIE = 0]
        BY <2>2, <3>1, <3>2, SMT
      <3> HIDE DEF Word
      <3> QED BY <2>3, <3>3 DEF CsrType
    <2>5. pc' \in Int
      <3>1. pc' = AddressOf(csr.mtvec) /\ csr.mtvec \in Word
        BY <1>0, <1>11, SMT DEF Interrupt, CsrType
      <3> QED BY <3>1, AddressType
    <2>6. UNCHANGED <<imem, x, ram, aes>>
      BY <1>11, SMT DEF Interrupt, NoBus
    <2> QED BY <1>0, <1>1, <2>4, <2>5, <2>6
  <1>12. CASE AesFinishes
    <2>1. aes' \in AesType
      BY <1>0, <1>12 DEF AesFinishes, AesType
    <2> QED BY <1>0, <1>1, <1>12, <2>1 DEF AesFinishes
  <1>13. CASE UNCHANGED socVars
    BY <1>0, <1>1, <1>13 DEF socVars
  <1> QED BY <1>2, <1>3, <1>4, <1>5, <1>6, <1>7, <1>8, <1>10, <1>11, <1>12, <1>13
          DEF Next, Execute

\* In every state of every program the registers, the memory, the CSRs and the
\* cipher's words hold 32 bits (rv_core.sv, csr_file.sv, aes_regs.sv).
THEOREM SocTypes == Spec => []SocTypeOK
  BY SocStarts, SocSteps, PTL DEF Spec

\* The address of the access a step makes, and that the map has a region for it.
Accessed == IF insn.op = 35 THEN StoreAddress ELSE LoadAddress
Mapped   == Load \/ Store => Decode(Accessed) # "none"

LEMMA AccessedType ==
  ASSUME SocTypeOK, Load \/ Store
  PROVE  Accessed \in Int /\ 0 <= Accessed /\ Accessed <= 2147483647
  <1>1. PICK op : Fetches(op)
    BY DEF Load, Store
  <1>2. Plus(x1, Num(imm_i(insn))) \in Word /\ Plus(x1, Num(imm_s(insn))) \in Word
    BY <1>1, Fetched, Immediates, NumType, PlusType
  <1>3. Accessed = AddressOf(Plus(x1, Num(imm_s(insn))))
          \/ Accessed = AddressOf(Plus(x1, Num(imm_i(insn))))
    BY DEF Accessed, StoreAddress, LoadAddress
  <1> QED BY <1>2, <1>3, AddressType, SMT

\* Every load and store of a program that stays inside the map arrives in the
\* region memmap.decode names and in no other, at the register the C header
\* names, whatever the program computes its addresses with (memmap.py:137-143,
\* 183-206, soc_top.sv:79-89).
THEOREM DecodesAsMapped == Spec /\ [][Mapped]_socVars => DecodesLikeTheMap
  <1> DEFINE Arrived ==
        LET a == IF insn.op = 35 THEN StoreAddress ELSE LoadAddress
            r == Decode(a)
        IN (Load \/ Store) =>
             /\ Overlaps = {} /\ r # "none"
             /\ Selected(a) = {r} \ {"spi", "trng"}
             /\ \A d \in ToC : d[3] = a /\ d[1] = r /\ r \in {"aes", "uart", "clint"}
                  /\ d[2] \notin {"BASE", "SIZE"} => Arrives(a) = {<<r, d[2]>>}
  <1>1. SocTypeOK /\ [Mapped]_socVars => [Arrived]_socVars
    <2> SUFFICES ASSUME SocTypeOK, Mapped, Load \/ Store PROVE Arrived
      OBVIOUS
    <2> DEFINE a == Accessed
    <2>1. a \in Int /\ 0 <= a /\ a <= 2147483647 /\ Decode(a) # "none"
      BY AccessedType, SMT DEF Mapped
    <2>2. /\ Overlaps = {}
          /\ Selected(a) = {Decode(a)} \ {"spi", "trng"}
          /\ \A d \in ToC : d[3] = a /\ d[2] \notin {"BASE", "SIZE"} =>
               /\ d[1] = Decode(a)
               /\ d[1] \in {"aes", "uart", "clint"} => Arrives(a) = {<<d[1], d[2]>>}
      <3> HIDE DEF a
      <3> QED BY <2>1, MapDecides, SMT
    <2>3. a = IF insn.op = 35 THEN StoreAddress ELSE LoadAddress
      BY DEF Accessed
    <2> HIDE DEF a
    <2>4. Decode(a) # "none"
      BY <2>1, SMT
    <2> QED BY <2>2, <2>3, <2>4
  <1>2. DecodesLikeTheMap <=> [][Arrived]_socVars
    BY DEF DecodesLikeTheMap
  <1> HIDE DEF Arrived
  <1> QED BY <1>1, <1>2, SocTypes, PTL

-----------------------------------------------------------------------------
(* Words of an image, as the disassembler lists them.                      *)

Addi(i, rd, rs1, n) == i.op = 19 /\ i.f3 = 0 /\ i.rd = rd /\ i.rs1 = rs1 /\ imm_i(i) = n
Lui(i, rd, high)    == i.op = 55 /\ i.rd = rd /\ imm_u(i) = W(high, 0)
Lw(i, rd, rs1, n)   == i.op = 3 /\ i.rd = rd /\ i.rs1 = rs1 /\ imm_i(i) = n
Sw(i, rs2, rs1, n)  == i.op = 35 /\ i.rs2 = rs2 /\ i.rs1 = rs1 /\ imm_s(i) = n
Beq(i, rs1, rs2, n) == i.op = 99 /\ i.f3 = 0 /\ i.rs1 = rs1 /\ i.rs2 = rs2 /\ imm_b(i) = n
System3(i, f3, rd, rs1, csr_no) ==
  i.op = 115 /\ i.f3 = f3 /\ i.rd = rd /\ i.rs1 = rs1 /\ 32 * i.f7 + i.rs2 = csr_no

\* The upper bits of the addresses of mtimecmp and, rounded up, of mtime.
CompareHigh == \h40004
TimeHigh    == \h4000C

\* build_timer_demo's words: the handler is 2 to 14, the enable 32, the loop 34 to 36.
TimerHandler(m) ==
  /\ Addi(m[2], 21, 21, 1) /\ Sw(m[3], 21, 20, 4)
  /\ System3(m[4], 2, 26, 0, 834) /\ Sw(m[5], 26, 20, 8)
  /\ System3(m[6], 2, 27, 0, 833) /\ Sw(m[7], 27, 20, 12)
  /\ Addi(m[8], 25, 0, -1) /\ Sw(m[9], 25, 24, 0) /\ Sw(m[10], 0, 28, 0)
  /\ Lw(m[11], 23, 22, 0) /\ Addi(m[12], 23, 23, 400) /\ Sw(m[13], 23, 24, 0)
  /\ System3(m[14], 0, 0, 0, 770)
TimerSetUp(m) ==
  /\ Beq(m[1], 0, 0, 56)
  /\ Addi(m[15], 20, 0, 0)
  /\ Lui(m[16], 22, TimeHigh) /\ Addi(m[17], 22, 22, -8)
  /\ Lui(m[18], 24, CompareHigh)
  /\ Lui(m[19], 28, CompareHigh) /\ Addi(m[20], 28, 28, 4)
  /\ Addi(m[21], 21, 0, 0)
  /\ Addi(m[22], 25, 0, -1) /\ Sw(m[23], 25, 24, 0) /\ Sw(m[24], 0, 28, 0)
  /\ Lw(m[25], 23, 22, 0) /\ Addi(m[26], 23, 23, 400) /\ Sw(m[27], 23, 24, 0)
  /\ Addi(m[28], 5, 0, 4) /\ System3(m[29], 1, 0, 5, 773)
  /\ Addi(m[30], 6, 0, 128) /\ System3(m[31], 1, 0, 6, 772)
  /\ m[32] = csrrsi(0, 768, 8)[1]
TimerLoop(m) ==
  /\ Addi(m[33], 1, 0, 0)
  /\ Addi(m[34], 1, 1, 1) /\ Sw(m[35], 1, 20, 0) /\ Beq(m[36], 0, 0, -8)
TimerImage(m) ==
  m \in Seq(Instruction) /\ Len(m) = 36 /\ TimerHandler(m) /\ TimerSetUp(m) /\ TimerLoop(m)

-----------------------------------------------------------------------------
(* The timer program.                                                      *)

\* Between two of its words.
At(i, j)  == 4 * i <= pc /\ pc <= 4 * j
InHandler == At(1, 13)
\* Where the program goes on when the handler is through.
Resumes   == IF InHandler THEN AddressOf(csr.mepc) ELSE pc

TimerRegs ==
  /\ x[0] = Num(0)
  /\ ~(At(0, 0) \/ At(14, 14)) => x[20] = Num(0)
  /\ ~(At(0, 0) \/ At(14, 17)) => x[24] = W(CompareHigh, 0)
  /\ ~(At(0, 0) \/ At(14, 18)) => x[28] = W(CompareHigh, IF At(19, 19) THEN 0 ELSE 4)
  /\ At(28, 28) => x[5] = Num(4)
  /\ At(6, 6) => x[27] = csr.mepc
TimerCsrs ==
  /\ csr.MIE = 1 => At(32, 35)
  /\ ~(At(0, 0) \/ At(14, 28)) => csr.mtvec = Num(4)
  /\ InHandler => csr.mepc \in {Num(4 * k) : k \in 32 .. 35}
\* The counts, and how far the words in the registers are ahead of those stored.
TimerTallies ==
  LET loops == StoresTo(0, Len(stores))
      ticks == StoresTo(1, Len(stores))
  IN /\ irqs \in Nat /\ loops \in Nat
     /\ ticks = irqs - (IF At(1, 2) THEN 1 ELSE 0)
     /\ ~(At(0, 0) \/ At(14, 20)) => x[21] = Num(IF At(1, 1) THEN irqs - 1 ELSE irqs)
     /\ At(0, 0) \/ At(14, 31) => irqs = 0
     /\ Resumes <= 4 * 32 => loops = 0
     /\ Resumes > 4 * 32 => x[1] = Num(IF Resumes = 4 * 34 THEN loops + 1 ELSE loops)
Access == {Slot(s) : s \in 0 .. 3} \cup {{<<"clint", r>>} : r \in DOMAIN ClintReg}
TimerStores ==
  /\ stores \in Seq(Access \X Word)
  /\ \A i \in DOMAIN stores, s \in {0, 1} :
       stores[i][1] = Slot(s) => stores[i][2] = Num(StoresTo(s, i))
  /\ \A i \in DOMAIN stores :
       stores[i][1] = Slot(3) => stores[i][2] \in {Num(4 * k) : k \in 32 .. 35}
TimerInv ==
  /\ pc \in {4 * k : k \in 0 .. 35}
  /\ TimerRegs /\ TimerCsrs /\ TimerTallies /\ TimerStores

\* What the calls of a builder leave.
LEMMA AddiReads ==
  ASSUME NEW rd \in Bits(5), NEW r \in Bits(5), NEW n \in Int, -2048 <= n, n <= 2047
  PROVE  /\ addi(rd, r, n) = <<addi(rd, r, n)[1]>> /\ addi(rd, r, n)[1] \in Instruction
         /\ Addi(addi(rd, r, n)[1], rd, r, n)
  BY AddiReadsBack DEF Addi

LEMMA LuiReads ==
  ASSUME NEW rd \in Bits(5), NEW h \in Bits(20)
  PROVE  /\ lui(rd, h) = <<lui(rd, h)[1]>> /\ lui(rd, h)[1] \in Instruction
         /\ Lui(lui(rd, h)[1], rd, h)
  BY LuiReadsBack DEF Lui

LEMMA LwReads ==
  ASSUME NEW rd \in Bits(5), NEW r \in Bits(5), NEW n \in Int, -2048 <= n, n <= 2047
  PROVE  /\ lw(rd, r, n) = <<lw(rd, r, n)[1]>> /\ lw(rd, r, n)[1] \in Instruction
         /\ Lw(lw(rd, r, n)[1], rd, r, n)
  <1>1. AreRegs({r, rd}) /\ 3 \in Bits(7) /\ 2 \in Bits(3)
    BY BitsRange DEF AreRegs
  <1>2. LET i == IType(n, r, 2, rd, 3)
        IN i \in Instruction /\ imm_i(i) = n /\ i.rs1 = r /\ i.rd = rd
    BY <1>1, ImmediatesReadBack
  <1>3. Fits(n, 12)
    BY DEF Fits
  <1>4. IType(n, r, 2, rd, 3).op = 3
    BY <1>1, <1>3 DEF IType, Fields
  <1> QED BY <1>2, <1>4 DEF lw, Lw

LEMMA SwReads ==
  ASSUME NEW rs2 \in Bits(5), NEW rs1 \in Bits(5), NEW n \in Int, -2048 <= n, n <= 2047
  PROVE  /\ sw(rs2, rs1, n) = <<sw(rs2, rs1, n)[1]>> /\ sw(rs2, rs1, n)[1] \in Instruction
         /\ Sw(sw(rs2, rs1, n)[1], rs2, rs1, n)
  <1>1. AreRegs({rs2, rs1}) /\ AreRegs({rs1, rs2}) /\ 35 \in Bits(7) /\ 2 \in Bits(3)
    BY BitsRange DEF AreRegs
  <1>3. Fits(n, 12) /\ rs2 \in Bits(5) /\ rs1 \in Bits(5)
    BY DEF Fits
  <1>2. LET i == SType(n, rs2, rs1, 2, 35)
        IN i \in Instruction /\ imm_s(i) = n /\ i.rs2 = rs2 /\ i.rs1 = rs1
    BY <1>1, <1>3, SplitTwelve DEF SType, Fields, Instruction, imm_s
  <1>4. SType(n, rs2, rs1, 2, 35).op = 35
    BY <1>1, <1>3 DEF SType, Fields
  <1> QED BY <1>2, <1>4 DEF sw, Sw

LEMMA SystemReads ==
  ASSUME NEW c \in Bits(12), NEW src \in Bits(5), NEW f3 \in Bits(3), NEW rd \in Bits(5),
         NEW s, s = System(c, src, f3, rd)
  PROVE  s[1] \in Instruction /\ System3(s[1], f3, rd, src, c)
  <1>1. AreRegs({src, rd}) /\ 115 \in Bits(7)
    BY BitsRange DEF AreRegs
  <1>2. System(c, src, f3, rd) = <<Fields(115, rd, f3, src, c % 32, c \div 32)>>
    BY <1>1 DEF System
  <1>3. c \in Int /\ 0 <= c /\ c < 4096
    BY WordRange, SMT DEF Lo12
  <1>4. c % 32 \in Bits(5) /\ c \div 32 \in Bits(7) /\ 32 * (c \div 32) + (c % 32) = c
    BY <1>3, BitsRange
  <1>5. Fields(115, rd, f3, src, c % 32, c \div 32) \in Instruction
    BY <1>1, <1>4 DEF Fields, Instruction
  <1> QED BY <1>2, <1>4, <1>5 DEF Fields, System3

\* li, by the constant it loads: a small number, an upper half, or both.
LEMMA LiSmall ==
  ASSUME NEW rd, NEW n \in Int, -2048 <= n, n <= 2047
  PROVE  li(rd, Num(n)) = addi(rd, 0, n)
  <1>1. CASE n >= 0
    <2>1. Num(n) = W(0, n)
      BY <1>1, NumSigned, SMT DEF Lo12
    <2> DEFINE v == W(0, n)
    <2>3. v.hi = 0 /\ v.lo = n /\ ~(n >= 2048)
      BY <1>1 DEF W
    <2> HIDE DEF v
    <2>4. li(rd, v) = addi(rd, 0, n)
      BY <2>3 DEF li
    <2>2. li(rd, W(0, n)) = addi(rd, 0, n)
      BY <2>4 DEF v
    <2> QED BY <2>1, <2>2
  <1>2. CASE n < 0
    <2>1. n + 4096 \in Int /\ 0 <= n + 4096 /\ n + 4096 < Lo12 /\ n + 4096 >= 2048
          /\ (n + 4096) - 4096 = n
      BY <1>2, SMT DEF Lo12
    <2>2. Num(n) = W(Hi20 - 1, n + 4096)
      BY <2>1, NumSigned
    <2>3. ((Hi20 - 1) + 1) % Hi20 = 0
      BY SMT DEF Hi20
    <2> DEFINE v == W(Hi20 - 1, n + 4096)
    <2>5. v.lo = n + 4096 /\ v.lo >= 2048 /\ (v.hi + 1) % Hi20 = 0
      BY <2>1, <2>3 DEF W
    <2> HIDE DEF v
    <2> DEFINE neg  == v.lo >= 2048
               low  == IF neg THEN v.lo - 4096 ELSE v.lo
               high == IF neg THEN (v.hi + 1) % Hi20 ELSE v.hi
    <2>7. li(rd, v) = IF high = 0 THEN addi(rd, 0, low)
                      ELSE lui(rd, high) \o (IF low = 0 THEN <<>> ELSE addi(rd, rd, low))
      BY DEF li
    <2>8. high = 0 /\ low = v.lo - 4096
      BY <2>5
    <2> HIDE DEF high, low
    <2>6. li(rd, v) = addi(rd, 0, v.lo - 4096)
      BY <2>7, <2>8
    <2>4. li(rd, W(Hi20 - 1, n + 4096)) = addi(rd, 0, (n + 4096) - 4096)
      BY <2>5, <2>6 DEF v
    <2> QED BY <2>1, <2>2, <2>4
  <1> QED BY <1>1, <1>2

LEMMA LiUpper ==
  ASSUME NEW rd \in Bits(5), NEW h \in Bits(20), h # 0
  PROVE  li(rd, W(h, 0)) = lui(rd, h)
  <1>1. li(rd, W(h, 0)) = lui(rd, h) \o <<>>
    BY DEF li, W
  <1>2. lui(rd, h) = <<lui(rd, h)[1]>>
    BY LuiReads
  <1> QED BY <1>1, <1>2, Glue

LEMMA LiBoth ==
  ASSUME NEW rd \in Bits(5), NEW h \in Bits(20), NEW lo \in Int, 0 < lo, lo < Lo12,
         NEW high, high = (IF lo >= 2048 THEN (h + 1) % Hi20 ELSE h), high \in Bits(20), high # 0,
         NEW low, low = (IF lo >= 2048 THEN lo - 4096 ELSE lo)
  PROVE  li(rd, W(h, lo)) = <<lui(rd, high)[1], addi(rd, rd, low)[1]>>
  <1>1. lo < 4096 /\ low \in Int /\ -2048 <= low /\ low <= 2047 /\ low # 0
    BY DEF Lo12
  <1>2. li(rd, W(h, lo)) = lui(rd, high) \o addi(rd, rd, low)
    BY <1>1 DEF li, W
  <1>3. lui(rd, high) = <<lui(rd, high)[1]>> /\ addi(rd, rd, low) = <<addi(rd, rd, low)[1]>>
    BY <1>1, LuiReads, AddiReads
  <1> DEFINE i == lui(rd, high)[1]
             j == addi(rd, rd, low)[1]
  <1> HIDE DEF i, j
  <1>4. li(rd, W(h, lo)) = <<i>> \o <<j>>
    BY <1>2, <1>3 DEF i, j
  <1> QED BY <1>4, Glue DEF i, j

LEMMA RegionBase ==
  /\ region("ram").base = 0 /\ region("uart").base = 268435456
  /\ region("aes").base = 536870912 /\ region("clint").base = 1073741824
  <1>1. ASSUME NEW q \in ToSet(MAP) PROVE region(q.name) = q
    <2>1. \A r \in ToSet(MAP) : r.name = q.name => r = q
      BY MapRows, MapSet, SMT
    <2> QED BY <2>1 DEF region
  <1> QED BY <1>1, MapRows, MapSet, SMT

\* One label more, one word less from there on.
LEMMA CountAdd ==
  ASSUME NEW n \in Nat, NEW marks \in SUBSET (1 .. n), NEW m \in Nat, m \notin marks, NEW i \in Int
  PROVE  /\ Count(marks \cup {m}, i) = Count(marks, i) - (IF m <= i THEN 1 ELSE 0)
         /\ Count({}, i) = i /\ Count(marks, i) \in Int
  <1> DEFINE Upto(s) == {e \in s : e <= i}
  <1>1. \A s : Count(s, i) = i - Cardinality(Upto(s))
    BY DEF Count
  <1>2. IsFiniteSet(Upto(marks)) /\ Cardinality(Upto(marks)) \in Nat
    <2>1. IsFiniteSet(1 .. n)
      BY FS_Interval
    <2>2. IsFiniteSet(Upto(marks))
      BY <2>1, FS_Subset
    <2> QED BY <2>2, FS_CardinalityType
  <1>3. Upto({}) = {} /\ Cardinality({}) = 0
    BY FS_EmptySet
  <1>4. CASE m <= i
    <2>1. Upto(marks \cup {m}) = Upto(marks) \cup {m} /\ m \notin Upto(marks)
      BY <1>4
    <2> HIDE DEF Upto
    <2>2. Cardinality(Upto(marks \cup {m})) = Cardinality(Upto(marks)) + 1
      BY <1>2, <2>1, FS_AddElement
    <2>3. /\ Count(marks \cup {m}, i) = i - Cardinality(Upto(marks \cup {m}))
          /\ Count(marks, i) = i - Cardinality(Upto(marks)) /\ Count({}, i) = i - Cardinality({})
      BY <1>1, <1>3
    <2> QED BY <1>2, <1>3, <1>4, <2>2, <2>3
  <1>5. CASE ~(m <= i)
    <2>1. Upto(marks \cup {m}) = Upto(marks)
      BY <1>5
    <2> HIDE DEF Upto
    <2> QED BY <1>1, <1>2, <1>3, <1>5, <2>1
  <1> QED BY <1>4, <1>5

\* What the ROM has for a call.
LEMMA ImageOf ==
  ASSUME NEW program \in Seq(Entry), NEW image, image = assemble(Built(program)), image.ok,
         NEW i \in DOMAIN program, ~IsLabel(program[i]),
         NEW k, k = Count(Marks(program), i)
  PROVE  /\ k \in DOMAIN image.words
         /\ program[i] \in Instruction => image.words[k] = program[i]
         /\ program[i].kind = "beq" =>
              \A l \in Marks(program) :
                program[l].name = program[i].target =>
                  Beq(image.words[k], program[i].rs1, program[i].rs2,
                      4 * Count(Marks(program), l) - 4 * (k - 1))
  <1> DEFINE asm == Built(program)
             marks == Marks(program)
  <1>1. i \in DOMAIN program \ marks
    BY DEF Marks
  <1>2. /\ k \in DOMAIN asm.words /\ asm.words[k] = program[i]
        /\ marks \in SUBSET (1 .. Len(program))
    BY <1>1, BuiltWords
  <1>3. /\ image.words = [j \in DOMAIN asm.words |-> Resolved(asm, j)]
        /\ asm.ok /\ Resolved(asm, k) # AsmError
    BY <1>2 DEF assemble
  <1> HIDE DEF asm
  <1>4. k \in DOMAIN image.words /\ image.words[k] = Resolved(asm, k)
    BY <1>2, <1>3
  <1>5. program[i] \in Instruction => image.words[k] = program[i]
    <2>1. program[i] \in Instruction => program[i].kind = "word"
      BY DEF Instruction
    <2> QED BY <1>2, <1>4, <2>1 DEF Resolved
  <1>6. ASSUME program[i].kind = "beq", NEW l \in marks, program[l].name = program[i].target
        PROVE  Beq(image.words[k], program[i].rs1, program[i].rs2,
                   4 * Count(marks, l) - 4 * (k - 1))
    <2> DEFINE cc  == Count(marks, l)
               off == 4 * cc - 4 * (k - 1)
               r1  == program[i].rs1
               r2  == program[i].rs2
               word == BType(off, r2, r1, 0)
    <2>1. cc \in Int /\ k \in Int
      <3>1. \A m \in 1 .. Len(program) : m \in Nat
        OBVIOUS
      <3>2. l \in Nat /\ i \in Nat /\ Len(program) \in Nat
        BY <1>2, <3>1
      <3> HIDE DEF marks
      <3>3. Count(marks, l) \in Nat /\ Count(marks, i) \in Nat
        BY <1>2, <3>2, CountGrows
      <3>4. k = Count(marks, i)
        BY DEF marks
      <3> QED BY <3>3, <3>4
    <2>2. program[l].name \in DOMAIN asm.labels /\ asm.labels[program[l].name] = 4 * cc
      BY <1>3, <1>6, BuiltWords DEF asm
    <2>3. Resolved(asm, k) = word
      <3> HIDE DEF marks, cc
      <3> QED BY <1>2, <1>6, <2>2 DEF Resolved
    <2> HIDE DEF cc, marks
    <2>4. off \in Int /\ off % 2 = 0
      <3>1. off = 2 * (2 * cc - 2 * k + 2) /\ 2 * cc - 2 * k + 2 \in Int
        BY <2>1
      <3>2. \A e \in Int : (2 * e) % 2 = 0
        OBVIOUS
      <3> HIDE DEF off
      <3> QED BY <3>1, <3>2
    <2> HIDE DEF off, r1, r2
    <2>5. IF -4096 <= off /\ off <= 4095 /\ AreRegs({r2, r1})
            THEN word \in Instruction /\ imm_b(word) = off - (off % 2) /\ word.rs2 = r2
                 /\ word.rs1 = r1
            ELSE word = AsmError
      <3>1. 0 \in Bits(3)
        BY BitsRange
      <3> QED BY <2>4, <3>1, BranchReadsBack, SMTT(30)
    <2>6. word # AsmError
      BY <1>3, <2>3
    <2>7. word.op = 99 /\ word.f3 = 0
      <3> DEFINE good == Fits(off, 13) /\ AreRegs({r1, r2})
      <3>1. good
        BY <2>6 DEF BType
      <3> QED BY <3>1 DEF BType, Fields
    <2> HIDE DEF word
    <2>8. imm_b(word) = off /\ word.rs2 = r2 /\ word.rs1 = r1
      BY <2>4, <2>5, <2>6
    <2>9. Beq(word, r1, r2, off)
      BY <2>7, <2>8 DEF Beq
    <2> QED BY <1>4, <2>3, <2>9 DEF off, r1, r2, cc, marks
  <1> QED BY <1>4, <1>5, <1>6

\* A program, call by call, against its listing.
Starts(s, T, n) ==
  /\ T \in Seq({T[k] : k \in 1 .. Len(T)}) /\ n \in Nat /\ n <= Len(T)
  /\ s \in Seq({T[k] : k \in 1 .. Len(T)}) /\ Len(s) = n
  /\ \A k \in 1 .. n : s[k] = T[k]

LEMMA Grows ==
  ASSUME NEW T, NEW n, NEW s, Starts(s, T, n), n < Len(T), NEW t, t = <<T[n + 1]>>
  PROVE  Starts(s \o t, T, n + 1)
  <1> DEFINE S == {T[k] : k \in 1 .. Len(T)}
  <1>1. /\ n \in Nat /\ Len(T) \in Nat /\ T \in Seq(S) /\ s \in Seq(S) /\ Len(s) = n
        /\ \A k \in 1 .. n : s[k] = T[k]
    BY DEF Starts
  <1>2. T[n + 1] \in S /\ n + 1 \in Nat /\ n + 1 <= Len(T)
    BY <1>1
  <1> DEFINE e == T[n + 1]
  <1> HIDE DEF S, e
  <1>3. <<e>> \in Seq(S) /\ Len(<<e>>) = 1 /\ <<e>>[1] = e
    BY <1>2 DEF e
  <1>4. s \o <<e>> \in Seq(S) /\ Len(s \o <<e>>) = n + 1
    BY <1>1, <1>3
  <1>5. \A k \in 1 .. n + 1 : (s \o <<e>>)[k] = IF k <= n THEN s[k] ELSE e
    BY <1>1, <1>3
  <1>6. \A k \in 1 .. n + 1 : (s \o <<e>>)[k] = T[k]
    BY <1>1, <1>5 DEF e
  <1> QED BY <1>1, <1>2, <1>4, <1>6 DEF Starts, S, e

LEMMA GrowsBy ==
  ASSUME NEW T, NEW n, NEW s, Starts(s, T, n), NEW R, NEW m, Starts(R, R, m), m = Len(R),
         n + m <= Len(T), \A k \in 1 .. m : R[k] = T[n + k]
  PROVE  Starts(s \o R, T, n + m)
  <1> DEFINE S == {T[k] : k \in 1 .. Len(T)}
  <1>1. /\ n \in Nat /\ m \in Nat /\ Len(T) \in Nat /\ T \in Seq(S) /\ s \in Seq(S) /\ Len(s) = n
        /\ \A k \in 1 .. n : s[k] = T[k]
    BY DEF Starts
  <1>2. R \in Seq(S)
    <2>1. R = [k \in 1 .. m |-> R[k]]
      BY DEF Starts
    <2>2. ASSUME NEW k \in 1 .. m PROVE R[k] \in S
      <3>1. n + k \in 1 .. Len(T) /\ R[k] = T[n + k]
        BY <1>1
      <3> QED BY <3>1
    <2> HIDE DEF S
    <2>3. [k \in 1 .. m |-> R[k]] \in Seq(S)
      BY <1>1, <2>2
    <2> QED BY <2>1, <2>3
  <1> HIDE DEF S
  <1>3. s \o R \in Seq(S) /\ Len(s \o R) = n + m /\ n + m \in Nat
    BY <1>1, <1>2, SMTT(30)
  <1>4. \A k \in 1 .. n + m : (s \o R)[k] = IF k <= n THEN s[k] ELSE R[k - n]
    BY <1>1, <1>2
  <1>5. ASSUME NEW k \in 1 .. n + m PROVE (s \o R)[k] = T[k]
    <2>1. CASE k <= n
      BY <1>1, <1>4, <2>1
    <2>2. CASE ~(k <= n)
      <3>1. k - n \in 1 .. m /\ n + (k - n) = k
        BY <1>1, <2>2
      <3> QED BY <1>4, <2>2, <3>1
    <2> QED BY <2>1, <2>2
  <1> QED BY <1>1, <1>3, <1>5 DEF Starts, S

LEMMA Grown ==
  ASSUME NEW T, NEW s, Starts(s, T, Len(T)) PROVE s = T
  <1> DEFINE S == {T[k] : k \in 1 .. Len(T)}
  <1>1. T \in Seq(S) /\ s \in Seq(S) /\ Len(s) = Len(T) /\ \A k \in 1 .. Len(T) : s[k] = T[k]
    BY DEF Starts
  <1> HIDE DEF S
  <1> QED BY <1>1, SeqEqual

LEMMA Listed ==
  ASSUME NEW T, NEW n \in Nat, T = [k \in 1 .. n |-> T[k]]
  PROVE  Starts(T, T, n) /\ Len(T) = n /\ Starts(<<>>, T, 0)
  <1> DEFINE S == {T[k] : k \in 1 .. n}
  <1>1. \A k \in 1 .. n : T[k] \in S
    OBVIOUS
  <1> HIDE DEF S
  <1>2. T \in Seq(S) /\ Len(T) = n
    BY <1>1
  <1>3. <<>> \in Seq(S) /\ Len(<<>>) = 0
    OBVIOUS
  <1> QED BY <1>2, <1>3 DEF Starts, S

\* The calls of build_timer_demo, an li in the instructions it is.
RearmListing ==
  << addi(25, 0, -1)[1], sw(25, 24, 0)[1], sw(0, 28, 0)[1], lw(23, 22, 0)[1],
     addi(23, 23, 400)[1], sw(23, 24, 0)[1] >>
TimerListing ==
  << beq(0, 0, "start")[1], label("handler")[1], addi(21, 21, 1)[1], sw(21, 20, 4)[1],
     csrr(26, 834)[1], sw(26, 20, 8)[1], csrr(27, 833)[1], sw(27, 20, 12)[1],
     addi(25, 0, -1)[1], sw(25, 24, 0)[1], sw(0, 28, 0)[1], lw(23, 22, 0)[1],
     addi(23, 23, 400)[1], sw(23, 24, 0)[1], mret[1], label("start")[1],
     addi(20, 0, 0)[1], lui(22, TimeHigh)[1], addi(22, 22, -8)[1], lui(24, CompareHigh)[1],
     lui(28, CompareHigh)[1], addi(28, 28, 4)[1], addi(21, 0, 0)[1], addi(25, 0, -1)[1],
     sw(25, 24, 0)[1], sw(0, 28, 0)[1], lw(23, 22, 0)[1], addi(23, 23, 400)[1],
     sw(23, 24, 0)[1], addi(5, 0, 4)[1], csrw(773, 5)[1], addi(6, 0, 128)[1],
     csrw(772, 6)[1], csrrsi(0, 768, 8)[1], addi(1, 0, 0)[1], label("loop")[1],
     addi(1, 1, 1)[1], sw(1, 20, 0)[1], beq(0, 0, "loop")[1] >>

LEMMA OneWord ==
  /\ beq(0, 0, "start") = <<beq(0, 0, "start")[1]>> /\ label("handler") = <<label("handler")[1]>>
  /\ addi(21, 21, 1) = <<addi(21, 21, 1)[1]>> /\ sw(21, 20, 4) = <<sw(21, 20, 4)[1]>>
  /\ csrr(26, 834) = <<csrr(26, 834)[1]>> /\ sw(26, 20, 8) = <<sw(26, 20, 8)[1]>>
  /\ csrr(27, 833) = <<csrr(27, 833)[1]>> /\ sw(27, 20, 12) = <<sw(27, 20, 12)[1]>>
  /\ addi(25, 0, -1) = <<addi(25, 0, -1)[1]>> /\ sw(25, 24, 0) = <<sw(25, 24, 0)[1]>>
  /\ sw(0, 28, 0) = <<sw(0, 28, 0)[1]>> /\ lw(23, 22, 0) = <<lw(23, 22, 0)[1]>>
  /\ addi(23, 23, 400) = <<addi(23, 23, 400)[1]>> /\ sw(23, 24, 0) = <<sw(23, 24, 0)[1]>>
  /\ mret = <<mret[1]>> /\ label("start") = <<label("start")[1]>>
  /\ addi(20, 0, 0) = <<addi(20, 0, 0)[1]>> /\ lui(22, TimeHigh) = <<lui(22, TimeHigh)[1]>>
  /\ addi(22, 22, -8) = <<addi(22, 22, -8)[1]>> /\ lui(24, CompareHigh) = <<lui(24, CompareHigh)[1]>>
  /\ lui(28, CompareHigh) = <<lui(28, CompareHigh)[1]>> /\ addi(28, 28, 4) = <<addi(28, 28, 4)[1]>>
  /\ addi(21, 0, 0) = <<addi(21, 0, 0)[1]>> /\ addi(5, 0, 4) = <<addi(5, 0, 4)[1]>>
  /\ csrw(773, 5) = <<csrw(773, 5)[1]>> /\ addi(6, 0, 128) = <<addi(6, 0, 128)[1]>>
  /\ csrw(772, 6) = <<csrw(772, 6)[1]>> /\ csrrsi(0, 768, 8) = <<csrrsi(0, 768, 8)[1]>>
  /\ addi(1, 0, 0) = <<addi(1, 0, 0)[1]>> /\ label("loop") = <<label("loop")[1]>>
  /\ addi(1, 1, 1) = <<addi(1, 1, 1)[1]>> /\ sw(1, 20, 0) = <<sw(1, 20, 0)[1]>>
  /\ beq(0, 0, "loop") = <<beq(0, 0, "loop")[1]>>
  BY DEF addi, sw, lw, lui, csrr, csrrs, mret, csrw, csrrw, csrrsi, System, beq, Pending, label

LEMMA RearmListingIs ==
  /\ Starts(RearmListing, RearmListing, 6) /\ Len(RearmListing) = 6 /\ Starts(<<>>, RearmListing, 0)
  /\ RearmListing[1] = addi(25, 0, -1)[1] /\ RearmListing[2] = sw(25, 24, 0)[1]
  /\ RearmListing[3] = sw(0, 28, 0)[1] /\ RearmListing[4] = lw(23, 22, 0)[1]
  /\ RearmListing[5] = addi(23, 23, 400)[1] /\ RearmListing[6] = sw(23, 24, 0)[1]
  <1>1. RearmListing = [k \in 1 .. 6 |-> RearmListing[k]]
    BY DEF RearmListing
  <1>2. Starts(RearmListing, RearmListing, 6) /\ Len(RearmListing) = 6 /\ Starts(<<>>, RearmListing, 0)
    BY <1>1, Listed
  <1>3. /\ RearmListing[1] = addi(25, 0, -1)[1] /\ RearmListing[2] = sw(25, 24, 0)[1]
         /\ RearmListing[3] = sw(0, 28, 0)[1] /\ RearmListing[4] = lw(23, 22, 0)[1]
         /\ RearmListing[5] = addi(23, 23, 400)[1] /\ RearmListing[6] = sw(23, 24, 0)[1]
    BY SMT DEF RearmListing
  <1> QED BY <1>2, <1>3

LEMMA TimerListingIs ==
  /\ Starts(TimerListing, TimerListing, 39) /\ Len(TimerListing) = 39 /\ Starts(<<>>, TimerListing, 0)
  /\ TimerListing[1] = beq(0, 0, "start")[1] /\ TimerListing[2] = label("handler")[1]
  /\ TimerListing[3] = addi(21, 21, 1)[1] /\ TimerListing[4] = sw(21, 20, 4)[1]
  /\ TimerListing[5] = csrr(26, 834)[1] /\ TimerListing[6] = sw(26, 20, 8)[1]
  /\ TimerListing[7] = csrr(27, 833)[1] /\ TimerListing[8] = sw(27, 20, 12)[1]
  /\ TimerListing[9] = addi(25, 0, -1)[1] /\ TimerListing[10] = sw(25, 24, 0)[1]
  /\ TimerListing[11] = sw(0, 28, 0)[1] /\ TimerListing[12] = lw(23, 22, 0)[1]
  /\ TimerListing[13] = addi(23, 23, 400)[1] /\ TimerListing[14] = sw(23, 24, 0)[1]
  /\ TimerListing[15] = mret[1] /\ TimerListing[16] = label("start")[1]
  /\ TimerListing[17] = addi(20, 0, 0)[1] /\ TimerListing[18] = lui(22, TimeHigh)[1]
  /\ TimerListing[19] = addi(22, 22, -8)[1] /\ TimerListing[20] = lui(24, CompareHigh)[1]
  /\ TimerListing[21] = lui(28, CompareHigh)[1] /\ TimerListing[22] = addi(28, 28, 4)[1]
  /\ TimerListing[23] = addi(21, 0, 0)[1] /\ TimerListing[24] = addi(25, 0, -1)[1]
  /\ TimerListing[25] = sw(25, 24, 0)[1] /\ TimerListing[26] = sw(0, 28, 0)[1]
  /\ TimerListing[27] = lw(23, 22, 0)[1] /\ TimerListing[28] = addi(23, 23, 400)[1]
  /\ TimerListing[29] = sw(23, 24, 0)[1] /\ TimerListing[30] = addi(5, 0, 4)[1]
  /\ TimerListing[31] = csrw(773, 5)[1] /\ TimerListing[32] = addi(6, 0, 128)[1]
  /\ TimerListing[33] = csrw(772, 6)[1] /\ TimerListing[34] = csrrsi(0, 768, 8)[1]
  /\ TimerListing[35] = addi(1, 0, 0)[1] /\ TimerListing[36] = label("loop")[1]
  /\ TimerListing[37] = addi(1, 1, 1)[1] /\ TimerListing[38] = sw(1, 20, 0)[1]
  /\ TimerListing[39] = beq(0, 0, "loop")[1]
  <1>1. TimerListing = [k \in 1 .. 39 |-> TimerListing[k]]
    BY DEF TimerListing
  <1>2. Starts(TimerListing, TimerListing, 39) /\ Len(TimerListing) = 39 /\ Starts(<<>>, TimerListing, 0)
    BY <1>1, Listed
  <1>3. /\ TimerListing[1] = beq(0, 0, "start")[1] /\ TimerListing[2] = label("handler")[1]
         /\ TimerListing[3] = addi(21, 21, 1)[1] /\ TimerListing[4] = sw(21, 20, 4)[1]
         /\ TimerListing[5] = csrr(26, 834)[1] /\ TimerListing[6] = sw(26, 20, 8)[1]
         /\ TimerListing[7] = csrr(27, 833)[1] /\ TimerListing[8] = sw(27, 20, 12)[1]
    BY SMT DEF TimerListing
  <1>4. /\ TimerListing[9] = addi(25, 0, -1)[1] /\ TimerListing[10] = sw(25, 24, 0)[1]
         /\ TimerListing[11] = sw(0, 28, 0)[1] /\ TimerListing[12] = lw(23, 22, 0)[1]
         /\ TimerListing[13] = addi(23, 23, 400)[1] /\ TimerListing[14] = sw(23, 24, 0)[1]
         /\ TimerListing[15] = mret[1] /\ TimerListing[16] = label("start")[1]
    BY SMT DEF TimerListing
  <1>5. /\ TimerListing[17] = addi(20, 0, 0)[1] /\ TimerListing[18] = lui(22, TimeHigh)[1]
         /\ TimerListing[19] = addi(22, 22, -8)[1] /\ TimerListing[20] = lui(24, CompareHigh)[1]
         /\ TimerListing[21] = lui(28, CompareHigh)[1] /\ TimerListing[22] = addi(28, 28, 4)[1]
         /\ TimerListing[23] = addi(21, 0, 0)[1] /\ TimerListing[24] = addi(25, 0, -1)[1]
    BY SMT DEF TimerListing
  <1>6. /\ TimerListing[25] = sw(25, 24, 0)[1] /\ TimerListing[26] = sw(0, 28, 0)[1]
         /\ TimerListing[27] = lw(23, 22, 0)[1] /\ TimerListing[28] = addi(23, 23, 400)[1]
         /\ TimerListing[29] = sw(23, 24, 0)[1] /\ TimerListing[30] = addi(5, 0, 4)[1]
         /\ TimerListing[31] = csrw(773, 5)[1] /\ TimerListing[32] = addi(6, 0, 128)[1]
    BY SMT DEF TimerListing
  <1>7. /\ TimerListing[33] = csrw(772, 6)[1] /\ TimerListing[34] = csrrsi(0, 768, 8)[1]
         /\ TimerListing[35] = addi(1, 0, 0)[1] /\ TimerListing[36] = label("loop")[1]
         /\ TimerListing[37] = addi(1, 1, 1)[1] /\ TimerListing[38] = sw(1, 20, 0)[1]
         /\ TimerListing[39] = beq(0, 0, "loop")[1]
    BY SMT DEF TimerListing
  <1> QED BY <1>2, <1>3, <1>4, <1>5, <1>6, <1>7

LEMMA RearmIs == Rearm = RearmListing
  <1> DEFINE T  == RearmListing
             p1 == addi(25, 0, -1)
             p2 == p1 \o sw(25, 24, 0)
             p3 == p2 \o sw(0, 28, 0)
             p4 == p3 \o lw(23, 22, 0)
             p5 == p4 \o addi(23, 23, 400)
             p6 == p5 \o sw(23, 24, 0)
  <1>1. li(25, Num(-1)) = addi(25, 0, -1)
    BY LiSmall
  <1>2. Rearm = p6
    BY <1>1 DEF Rearm
  <1> HIDE DEF T
  <1>3. p1 = <<T[1]>> /\ sw(25, 24, 0) = <<T[2]>> /\ sw(0, 28, 0) = <<T[3]>>
    BY OneWord, RearmListingIs DEF T
  <1>4. lw(23, 22, 0) = <<T[4]>> /\ addi(23, 23, 400) = <<T[5]>> /\ sw(23, 24, 0) = <<T[6]>>
    BY OneWord, RearmListingIs DEF T
  <1>5. Starts(<<>>, T, 0) /\ Len(T) = 6
    BY RearmListingIs DEF T
  <1> DEFINE p0 == <<>> \o p1
  <1> HIDE DEF p1
  <1>6. p0 = p1
    BY <1>3
  <1>7. Starts(p0, T, 0 + 1)
    <2> HIDE DEF p0
    <2>1. 0 < Len(T) /\ p1 = <<T[0 + 1]>>
      BY <1>3, <1>5
    <2> QED BY <1>5, <2>1, Grows DEF p0
  <1> HIDE DEF p0, p2, p3, p4, p5, p6
  <1>9. Starts(p2, T, 2)
    <2>1. Starts(p1, T, 1) /\ 1 < Len(T) /\ sw(25, 24, 0) = <<T[1 + 1]>>
      BY <1>6, <1>7, <1>3, <1>5
    <2>2. Starts(p1 \o sw(25, 24, 0), T, 1 + 1)
      BY <2>1, Grows
    <2> QED BY <2>2 DEF p2
  <1>10. Starts(p3, T, 3)
    <2>1. Starts(p2, T, 2) /\ 2 < Len(T) /\ sw(0, 28, 0) = <<T[2 + 1]>>
      BY <1>9, <1>3, <1>5
    <2>2. Starts(p2 \o sw(0, 28, 0), T, 2 + 1)
      BY <2>1, Grows
    <2> QED BY <2>2 DEF p3
  <1>11. Starts(p4, T, 4)
    <2>1. Starts(p3, T, 3) /\ 3 < Len(T) /\ lw(23, 22, 0) = <<T[3 + 1]>>
      BY <1>10, <1>4, <1>5
    <2>2. Starts(p3 \o lw(23, 22, 0), T, 3 + 1)
      BY <2>1, Grows
    <2> QED BY <2>2 DEF p4
  <1>12. Starts(p5, T, 5)
    <2>1. Starts(p4, T, 4) /\ 4 < Len(T) /\ addi(23, 23, 400) = <<T[4 + 1]>>
      BY <1>11, <1>4, <1>5
    <2>2. Starts(p4 \o addi(23, 23, 400), T, 4 + 1)
      BY <2>1, Grows
    <2> QED BY <2>2 DEF p5
  <1>13. Starts(p6, T, 6)
    <2>1. Starts(p5, T, 5) /\ 5 < Len(T) /\ sw(23, 24, 0) = <<T[5 + 1]>>
      BY <1>12, <1>4, <1>5
    <2>2. Starts(p5 \o sw(23, 24, 0), T, 5 + 1)
      BY <2>1, Grows
    <2> QED BY <2>2 DEF p6
  <1> QED BY <1>2, <1>5, <1>13, Grown DEF T

LEMMA TimerConstants ==
  /\ li(20, base("ram")) = addi(20, 0, 0) /\ li(21, Num(0)) = addi(21, 0, 0)
  /\ li(1, Num(0)) = addi(1, 0, 0) /\ li(6, Num(128)) = addi(6, 0, 128)
  /\ handler_pc = 4 /\ li(5, Num(handler_pc)) = addi(5, 0, 4)
  /\ li(22, Num(region("clint").base + \hBFF8)) = <<lui(22, TimeHigh)[1], addi(22, 22, -8)[1]>>
  /\ li(24, Num(region("clint").base + \h4000)) = lui(24, CompareHigh)
  /\ li(28, Num(region("clint").base + \h4004)) = <<lui(28, CompareHigh)[1], addi(28, 28, 4)[1]>>
  <1>1. base("ram") = Num(0) /\ region("clint").base = 1073741824
    BY RegionBase, SMT DEF base
  <1>2. handler_pc = 4
    <2>0. Count({}, 1) = 1
      <3>1. 1 \in Nat /\ {} \in SUBSET (1 .. 1) /\ 1 \notin {} /\ 1 \in Int
        OBVIOUS
      <3> QED BY <3>1, CountAdd
    <2> DEFINE q == beq(0, 0, "start")
               e == [kind |-> "beq", rs1 |-> 0, rs2 |-> 0, target |-> "start"]
    <2>1. q = <<e>> /\ ~IsLabel(e)
      BY DEF beq, Pending, IsLabel
    <2> HIDE DEF e
    <2>2. Len(q) = 1 /\ DOMAIN q = {1} /\ q[1] = e
      BY <2>1
    <2>3. Marks(q) = {}
      BY <2>1, <2>2 DEF Marks
    <2> HIDE DEF q
    <2>4. Len(Built(q).words) = Count({}, 1)
      <3>1. Built(q).words = [k \in 1 .. Count({}, 1) |->
                                q[CHOOSE i \in k .. Len(q) : i \notin {} /\ Count({}, i) = k]]
        BY <2>2, <2>3 DEF Built
      <3> QED BY <2>0, <3>1
    <2> QED BY <2>0, <2>4 DEF PcOf, handler_pc, q
  <1>3. /\ li(20, Num(0)) = addi(20, 0, 0) /\ li(21, Num(0)) = addi(21, 0, 0)
        /\ li(1, Num(0)) = addi(1, 0, 0) /\ li(6, Num(128)) = addi(6, 0, 128)
        /\ li(5, Num(4)) = addi(5, 0, 4)
    BY LiSmall
  <1> DEFINE mtime   == region("clint").base + \hBFF8
             compare == region("clint").base + \h4000
             upper   == region("clint").base + \h4004
  <1>4. /\ Num(mtime) = W(TimeHigh - 1, 4088)
        /\ Num(compare) = W(CompareHigh, 0) /\ Num(upper) = W(CompareHigh, 4)
    <2>1. mtime = 1073790968 /\ compare = 1073758208 /\ upper = 1073758212
      BY <1>1, SMT
    <2>2. /\ Num(1073790968) = W(TimeHigh - 1, 4088) /\ Num(1073758208) = W(CompareHigh, 0)
          /\ Num(1073758212) = W(CompareHigh, 4)
      BY SMTT(30) DEF Num, Hi20, Lo12, CompareHigh, TimeHigh
    <2> HIDE DEF mtime, compare, upper
    <2> QED BY <2>1, <2>2, SMT
  <1> HIDE DEF mtime, compare, upper
  <1>5. 22 \in Bits(5) /\ 24 \in Bits(5) /\ 28 \in Bits(5)
    BY BitsRange
  <1>6. TimeHigh - 1 \in Bits(20) /\ TimeHigh \in Bits(20) /\ CompareHigh \in Bits(20)
    BY WordRange, SMTT(30) DEF Hi20, CompareHigh, TimeHigh
  <1>10. CompareHigh # 0 /\ TimeHigh # 0 /\ TimeHigh - 1 # 0
    BY SMT DEF CompareHigh, TimeHigh
  <1>7. li(22, W(TimeHigh - 1, 4088)) = <<lui(22, TimeHigh)[1], addi(22, 22, -8)[1]>>
    <2>1. /\ TimeHigh = (IF 4088 >= 2048 THEN ((TimeHigh - 1) + 1) % Hi20 ELSE TimeHigh - 1)
          /\ -8 = (IF 4088 >= 2048 THEN 4088 - 4096 ELSE 4088) /\ 4088 < Lo12
      BY SMTT(30) DEF Hi20, Lo12, TimeHigh
    <2> QED BY <1>5, <1>6, <1>10, <2>1, LiBoth
  <1>8. li(28, W(CompareHigh, 4)) = <<lui(28, CompareHigh)[1], addi(28, 28, 4)[1]>>
    <2>1. /\ CompareHigh = (IF 4 >= 2048 THEN (CompareHigh + 1) % Hi20 ELSE CompareHigh)
          /\ 4 = (IF 4 >= 2048 THEN 4 - 4096 ELSE 4) /\ 4 < Lo12
      BY SMTT(30) DEF Hi20, Lo12
    <2> QED BY <1>5, <1>6, <1>10, <2>1, LiBoth
  <1>9. li(24, W(CompareHigh, 0)) = lui(24, CompareHigh)
    BY <1>5, <1>6, <1>10, LiUpper
  <1>11. /\ li(22, Num(mtime)) = <<lui(22, TimeHigh)[1], addi(22, 22, -8)[1]>>
         /\ li(24, Num(compare)) = lui(24, CompareHigh)
         /\ li(28, Num(upper)) = <<lui(28, CompareHigh)[1], addi(28, 28, 4)[1]>>
    BY <1>4, <1>7, <1>8, <1>9
  <1>12. base("ram") = Num(0)
    BY <1>1, SMT
  <1> QED BY <1>2, <1>3, <1>11, <1>12 DEF mtime, compare, upper

LEMMA GrowsTwice ==
  ASSUME NEW T, NEW n, NEW s, Starts(s, T, n), n + 1 < Len(T), NEW t,
         t = <<T[n + 1], T[n + 2]>>
  PROVE  Starts(s \o t, T, n + 2)
  <1> DEFINE S == {T[k] : k \in 1 .. Len(T)}
             a == T[n + 1]
             b == T[n + 2]
  <1>1. n \in Nat /\ Len(T) \in Nat /\ T \in Seq(S)
    BY DEF Starts
  <1>2. s \in Seq(S) /\ Len(s) = n /\ \A k \in 1 .. n : s[k] = T[k]
    BY DEF Starts
  <1>8. n + 1 \in 1 .. Len(T) /\ n + 2 \in 1 .. Len(T)
    BY <1>1, SMTT(30)
  <1>9. a \in S /\ b \in S
    BY <1>8
  <1> HIDE DEF S, a, b
  <1>3. a \in S /\ b \in S /\ t = <<a, b>>
    BY <1>9 DEF a, b
  <1>4. t \in Seq(S) /\ Len(t) = 2 /\ t[1] = a /\ t[2] = b
    BY <1>3
  <1>5. s \o t \in Seq(S) /\ Len(s \o t) = n + 2
    BY <1>1, <1>2, <1>4
  <1>6. \A k \in 1 .. n + 2 : (s \o t)[k] = IF k <= n THEN s[k] ELSE t[k - n]
    BY <1>1, <1>2, <1>4
  <1>7. ASSUME NEW k \in 1 .. n + 2 PROVE (s \o t)[k] = T[k]
    <2>1. CASE k <= n
      BY <1>1, <1>2, <1>6, <2>1
    <2>2. CASE k = n + 1
      BY <1>1, <1>2, <1>4, <1>6, <2>2 DEF a
    <2>3. CASE k = n + 2
      BY <1>1, <1>2, <1>4, <1>6, <2>3, SMTT(30) DEF b
    <2> QED BY <1>1, <1>2, <2>1, <2>2, <2>3
  <1>10. n + 2 \in Nat /\ n + 2 <= Len(T)
    BY <1>1
  <1> QED BY <1>1, <1>5, <1>7, <1>10 DEF Starts, S

LEMMA TimerIs == build_timer_demo = TimerListing
  <1> DEFINE T   == TimerListing
             p1 == beq(0, 0, "start")
             p2 == p1 \o label("handler")
             p3 == p2 \o addi(Ticks, Ticks, 1)
             p4 == p3 \o sw(Ticks, 20, 4)
             p5 == p4 \o csrr(26, 834)
             p6 == p5 \o sw(26, 20, 8)
             p7 == p6 \o csrr(27, 833)
             p8 == p7 \o sw(27, 20, 12)
             p9 == p8 \o Rearm
             p10 == p9 \o mret
             p11 == p10 \o label("start")
             p12 == p11 \o li(20, base("ram"))
             p13 == p12 \o li(22, Num(region("clint").base + \hBFF8))
             p14 == p13 \o li(24, Num(region("clint").base + \h4000))
             p15 == p14 \o li(28, Num(region("clint").base + \h4004))
             p16 == p15 \o li(Ticks, Num(0))
             p17 == p16 \o Rearm
             p18 == p17 \o li(5, Num(handler_pc))
             p19 == p18 \o csrw(773, 5)
             p20 == p19 \o li(6, Num(128))
             p21 == p20 \o csrw(772, 6)
             p22 == p21 \o csrrsi(0, 768, 8)
             p23 == p22 \o li(1, Num(0))
             p24 == p23 \o label("loop")
             p25 == p24 \o addi(1, 1, 1)
             p26 == p25 \o sw(1, 20, 0)
             p27 == p26 \o beq(0, 0, "loop")
  <1>1. build_timer_demo = p27
    BY DEF build_timer_demo
  <1>2. Starts(<<>>, T, 0) /\ Starts(T, T, 39) /\ Len(T) = 39 /\ Ticks = 21
    BY TimerListingIs DEF Ticks
  <1>3. RearmListing = Rearm /\ Starts(RearmListing, RearmListing, 6) /\ Len(RearmListing) = 6
        /\ (\A k \in 1 .. 6 : RearmListing[k] = T[8 + k] /\ RearmListing[k] = T[23 + k])
    <2>1. ASSUME NEW k \in 1 .. 6
          PROVE  RearmListing[k] = T[8 + k] /\ RearmListing[k] = T[23 + k]
      <3>1. RearmListing[1] = T[9] /\ RearmListing[1] = T[24]
        BY RearmListingIs, TimerListingIs
      <3>2. RearmListing[2] = T[10] /\ RearmListing[2] = T[25]
        BY RearmListingIs, TimerListingIs
      <3>3. RearmListing[3] = T[11] /\ RearmListing[3] = T[26]
        BY RearmListingIs, TimerListingIs
      <3>4. RearmListing[4] = T[12] /\ RearmListing[4] = T[27]
        BY RearmListingIs, TimerListingIs
      <3>5. RearmListing[5] = T[13] /\ RearmListing[5] = T[28]
        BY RearmListingIs, TimerListingIs
      <3>6. RearmListing[6] = T[14] /\ RearmListing[6] = T[29]
        BY RearmListingIs, TimerListingIs
      <3>7. k = 1 \/ k = 2 \/ k = 3 \/ k = 4 \/ k = 5 \/ k = 6
        OBVIOUS
      <3> HIDE DEF T
      <3>8. CASE k = 1
        <4>1. 8 + k = 9 /\ 23 + k = 24
          BY <3>8
        <4> QED BY <3>1, <3>8, <4>1
      <3>9. CASE k = 2
        <4>1. 8 + k = 10 /\ 23 + k = 25
          BY <3>9
        <4> QED BY <3>2, <3>9, <4>1
      <3>10. CASE k = 3
        <4>1. 8 + k = 11 /\ 23 + k = 26
          BY <3>10
        <4> QED BY <3>3, <3>10, <4>1
      <3>11. CASE k = 4
        <4>1. 8 + k = 12 /\ 23 + k = 27
          BY <3>11
        <4> QED BY <3>4, <3>11, <4>1
      <3>12. CASE k = 5
        <4>1. 8 + k = 13 /\ 23 + k = 28
          BY <3>12
        <4> QED BY <3>5, <3>12, <4>1
      <3>13. CASE k = 6
        <4>1. 8 + k = 14 /\ 23 + k = 29
          BY <3>13
        <4> QED BY <3>6, <3>13, <4>1
      <3> QED BY <3>7, <3>8, <3>9, <3>10, <3>11, <3>12, <3>13
    <2> HIDE DEF T
    <2> QED BY <2>1, RearmIs, RearmListingIs
  <1> HIDE DEF T
  <1>4. /\ beq(0, 0, "start") = <<T[1]>>
        /\ label("handler") = <<T[2]>>
        /\ addi(Ticks, Ticks, 1) = <<T[3]>>
        /\ sw(Ticks, 20, 4) = <<T[4]>>
    BY OneWord, TimerListingIs, TimerConstants, <1>2 DEF T
  <1>5. /\ csrr(26, 834) = <<T[5]>>
        /\ sw(26, 20, 8) = <<T[6]>>
        /\ csrr(27, 833) = <<T[7]>>
        /\ sw(27, 20, 12) = <<T[8]>>
    BY OneWord, TimerListingIs, TimerConstants, <1>2 DEF T
  <1>6. /\ mret = <<T[15]>>
        /\ label("start") = <<T[16]>>
        /\ li(20, base("ram")) = <<T[17]>>
        /\ li(22, Num(region("clint").base + \hBFF8)) = <<T[18], T[19]>>
    BY OneWord, TimerListingIs, TimerConstants, <1>2 DEF T
  <1>7. /\ li(24, Num(region("clint").base + \h4000)) = <<T[20]>>
        /\ li(28, Num(region("clint").base + \h4004)) = <<T[21], T[22]>>
        /\ li(Ticks, Num(0)) = <<T[23]>>
        /\ li(5, Num(handler_pc)) = <<T[30]>>
    BY OneWord, TimerListingIs, TimerConstants, <1>2, SMTT(30) DEF T
  <1>8. /\ csrw(773, 5) = <<T[31]>>
        /\ li(6, Num(128)) = <<T[32]>>
        /\ csrw(772, 6) = <<T[33]>>
        /\ csrrsi(0, 768, 8) = <<T[34]>>
    BY OneWord, TimerListingIs, TimerConstants, <1>2 DEF T
  <1>9. /\ li(1, Num(0)) = <<T[35]>>
        /\ label("loop") = <<T[36]>>
        /\ addi(1, 1, 1) = <<T[37]>>
        /\ sw(1, 20, 0) = <<T[38]>>
    BY OneWord, TimerListingIs, TimerConstants, <1>2 DEF T
  <1>10. /\ beq(0, 0, "loop") = <<T[39]>>
    BY OneWord, TimerListingIs, TimerConstants, <1>2 DEF T
  <1> HIDE DEF p1, p2, p3, p4, p5, p6, p7, p8, p9, p10, p11, p12, p13, p14, p15, p16, p17, p18, p19, p20, p21, p22, p23, p24, p25, p26, p27
  <1>11. Starts(p1, T, 1)
    <2>1. <<>> \o <<T[1]>> = p1
      BY <1>4 DEF p1
    <2>2. 0 < Len(T) /\ <<T[1]>> = <<T[0 + 1]>>
      BY <1>2
    <2>3. Starts(<<>> \o <<T[1]>>, T, 0 + 1)
      BY <1>2, <2>2, Grows
    <2> QED BY <2>1, <2>3
  <1>12. Starts(p2, T, 2)
    <2>1. Starts(p1, T, 1) /\ 1 < Len(T) /\ label("handler") = <<T[1 + 1]>>
      BY <1>11, <1>4, <1>2
    <2>2. Starts(p1 \o label("handler"), T, 1 + 1)
      BY <2>1, Grows
    <2> QED BY <2>2 DEF p2
  <1>13. Starts(p3, T, 3)
    <2>1. Starts(p2, T, 2) /\ 2 < Len(T) /\ addi(Ticks, Ticks, 1) = <<T[2 + 1]>>
      BY <1>12, <1>4, <1>2
    <2>2. Starts(p2 \o addi(Ticks, Ticks, 1), T, 2 + 1)
      BY <2>1, Grows
    <2> QED BY <2>2 DEF p3
  <1>14. Starts(p4, T, 4)
    <2>1. Starts(p3, T, 3) /\ 3 < Len(T) /\ sw(Ticks, 20, 4) = <<T[3 + 1]>>
      BY <1>13, <1>4, <1>2
    <2>2. Starts(p3 \o sw(Ticks, 20, 4), T, 3 + 1)
      BY <2>1, Grows
    <2> QED BY <2>2 DEF p4
  <1>15. Starts(p5, T, 5)
    <2>1. Starts(p4, T, 4) /\ 4 < Len(T) /\ csrr(26, 834) = <<T[4 + 1]>>
      BY <1>14, <1>5, <1>2
    <2>2. Starts(p4 \o csrr(26, 834), T, 4 + 1)
      BY <2>1, Grows
    <2> QED BY <2>2 DEF p5
  <1>16. Starts(p6, T, 6)
    <2>1. Starts(p5, T, 5) /\ 5 < Len(T) /\ sw(26, 20, 8) = <<T[5 + 1]>>
      BY <1>15, <1>5, <1>2
    <2>2. Starts(p5 \o sw(26, 20, 8), T, 5 + 1)
      BY <2>1, Grows
    <2> QED BY <2>2 DEF p6
  <1>17. Starts(p7, T, 7)
    <2>1. Starts(p6, T, 6) /\ 6 < Len(T) /\ csrr(27, 833) = <<T[6 + 1]>>
      BY <1>16, <1>5, <1>2
    <2>2. Starts(p6 \o csrr(27, 833), T, 6 + 1)
      BY <2>1, Grows
    <2> QED BY <2>2 DEF p7
  <1>18. Starts(p8, T, 8)
    <2>1. Starts(p7, T, 7) /\ 7 < Len(T) /\ sw(27, 20, 12) = <<T[7 + 1]>>
      BY <1>17, <1>5, <1>2
    <2>2. Starts(p7 \o sw(27, 20, 12), T, 7 + 1)
      BY <2>1, Grows
    <2> QED BY <2>2 DEF p8
  <1>19. Starts(p9, T, 14)
    <2>1. /\ Starts(p8, T, 8) /\ 8 + 6 <= Len(T)
          /\ \A k \in 1 .. 6 : RearmListing[k] = T[8 + k]
      BY <1>18, <1>2, <1>3
    <2>2. Starts(p8 \o RearmListing, T, 8 + 6)
      BY <1>3, <2>1, GrowsBy
    <2> QED BY <1>3, <2>2 DEF p9
  <1>20. Starts(p10, T, 15)
    <2>1. Starts(p9, T, 14) /\ 14 < Len(T) /\ mret = <<T[14 + 1]>>
      BY <1>19, <1>6, <1>2
    <2>2. Starts(p9 \o mret, T, 14 + 1)
      BY <2>1, Grows
    <2> QED BY <2>2 DEF p10
  <1>21. Starts(p11, T, 16)
    <2>1. Starts(p10, T, 15) /\ 15 < Len(T) /\ label("start") = <<T[15 + 1]>>
      BY <1>20, <1>6, <1>2
    <2>2. Starts(p10 \o label("start"), T, 15 + 1)
      BY <2>1, Grows
    <2> QED BY <2>2 DEF p11
  <1>22. Starts(p12, T, 17)
    <2>1. Starts(p11, T, 16) /\ 16 < Len(T) /\ li(20, base("ram")) = <<T[16 + 1]>>
      BY <1>21, <1>6, <1>2
    <2>2. Starts(p11 \o li(20, base("ram")), T, 16 + 1)
      BY <2>1, Grows
    <2> QED BY <2>2 DEF p12
  <1>23. Starts(p13, T, 19)
    <2>1. Starts(p12, T, 17) /\ 17 + 1 < Len(T)
      BY <1>22, <1>2
    <2>2. Starts(p12 \o li(22, Num(region("clint").base + \hBFF8)), T, 17 + 2)
      BY <2>1, <1>6, GrowsTwice
    <2> QED BY <2>2 DEF p13
  <1>24. Starts(p14, T, 20)
    <2>1. Starts(p13, T, 19) /\ 19 < Len(T) /\ li(24, Num(region("clint").base + \h4000)) = <<T[19 + 1]>>
      BY <1>23, <1>7, <1>2
    <2>2. Starts(p13 \o li(24, Num(region("clint").base + \h4000)), T, 19 + 1)
      BY <2>1, Grows
    <2> QED BY <2>2 DEF p14
  <1>25. Starts(p15, T, 22)
    <2>1. Starts(p14, T, 20) /\ 20 + 1 < Len(T)
      BY <1>24, <1>2
    <2>2. Starts(p14 \o li(28, Num(region("clint").base + \h4004)), T, 20 + 2)
      BY <2>1, <1>7, GrowsTwice, SMTT(30)
    <2> QED BY <2>2 DEF p15
  <1>26. Starts(p16, T, 23)
    <2>1. Starts(p15, T, 22) /\ 22 < Len(T) /\ li(Ticks, Num(0)) = <<T[22 + 1]>>
      BY <1>25, <1>7, <1>2
    <2>2. Starts(p15 \o li(Ticks, Num(0)), T, 22 + 1)
      BY <2>1, Grows
    <2> QED BY <2>2 DEF p16
  <1>27. Starts(p17, T, 29)
    <2>1. /\ Starts(p16, T, 23) /\ 23 + 6 <= Len(T)
          /\ \A k \in 1 .. 6 : RearmListing[k] = T[23 + k]
      BY <1>26, <1>2, <1>3
    <2>2. Starts(p16 \o RearmListing, T, 23 + 6)
      BY <1>3, <2>1, GrowsBy
    <2> QED BY <1>3, <2>2 DEF p17
  <1>28. Starts(p18, T, 30)
    <2>1. Starts(p17, T, 29) /\ 29 < Len(T) /\ li(5, Num(handler_pc)) = <<T[29 + 1]>>
      BY <1>27, <1>7, <1>2
    <2>2. Starts(p17 \o li(5, Num(handler_pc)), T, 29 + 1)
      BY <2>1, Grows
    <2> QED BY <2>2 DEF p18
  <1>29. Starts(p19, T, 31)
    <2>1. Starts(p18, T, 30) /\ 30 < Len(T) /\ csrw(773, 5) = <<T[30 + 1]>>
      BY <1>28, <1>8, <1>2
    <2>2. Starts(p18 \o csrw(773, 5), T, 30 + 1)
      BY <2>1, Grows
    <2> QED BY <2>2 DEF p19
  <1>30. Starts(p20, T, 32)
    <2>1. Starts(p19, T, 31) /\ 31 < Len(T) /\ li(6, Num(128)) = <<T[31 + 1]>>
      BY <1>29, <1>8, <1>2
    <2>2. Starts(p19 \o li(6, Num(128)), T, 31 + 1)
      BY <2>1, Grows
    <2> QED BY <2>2 DEF p20
  <1>31. Starts(p21, T, 33)
    <2>1. Starts(p20, T, 32) /\ 32 < Len(T) /\ csrw(772, 6) = <<T[32 + 1]>>
      BY <1>30, <1>8, <1>2
    <2>2. Starts(p20 \o csrw(772, 6), T, 32 + 1)
      BY <2>1, Grows
    <2> QED BY <2>2 DEF p21
  <1>32. Starts(p22, T, 34)
    <2>1. Starts(p21, T, 33) /\ 33 < Len(T) /\ csrrsi(0, 768, 8) = <<T[33 + 1]>>
      BY <1>31, <1>8, <1>2
    <2>2. Starts(p21 \o csrrsi(0, 768, 8), T, 33 + 1)
      BY <2>1, Grows
    <2> QED BY <2>2 DEF p22
  <1>33. Starts(p23, T, 35)
    <2>1. Starts(p22, T, 34) /\ 34 < Len(T) /\ li(1, Num(0)) = <<T[34 + 1]>>
      BY <1>32, <1>9, <1>2
    <2>2. Starts(p22 \o li(1, Num(0)), T, 34 + 1)
      BY <2>1, Grows
    <2> QED BY <2>2 DEF p23
  <1>34. Starts(p24, T, 36)
    <2>1. Starts(p23, T, 35) /\ 35 < Len(T) /\ label("loop") = <<T[35 + 1]>>
      BY <1>33, <1>9, <1>2
    <2>2. Starts(p23 \o label("loop"), T, 35 + 1)
      BY <2>1, Grows
    <2> QED BY <2>2 DEF p24
  <1>35. Starts(p25, T, 37)
    <2>1. Starts(p24, T, 36) /\ 36 < Len(T) /\ addi(1, 1, 1) = <<T[36 + 1]>>
      BY <1>34, <1>9, <1>2
    <2>2. Starts(p24 \o addi(1, 1, 1), T, 36 + 1)
      BY <2>1, Grows
    <2> QED BY <2>2 DEF p25
  <1>36. Starts(p26, T, 38)
    <2>1. Starts(p25, T, 37) /\ 37 < Len(T) /\ sw(1, 20, 0) = <<T[37 + 1]>>
      BY <1>35, <1>9, <1>2
    <2>2. Starts(p25 \o sw(1, 20, 0), T, 37 + 1)
      BY <2>1, Grows
    <2> QED BY <2>2 DEF p26
  <1>37. Starts(p27, T, 39)
    <2>1. Starts(p26, T, 38) /\ 38 < Len(T) /\ beq(0, 0, "loop") = <<T[38 + 1]>>
      BY <1>36, <1>10, <1>2
    <2>2. Starts(p26 \o beq(0, 0, "loop"), T, 38 + 1)
      BY <2>1, Grows
    <2> QED BY <2>2 DEF p27
  <1> QED BY <1>1, <1>2, <1>37, Grown DEF T

\* The call that is a word, and which.
LEMMA TimerWords ==
  /\ TimerListing[3] \in Instruction /\ Addi(TimerListing[3], 21, 21, 1)
  /\ TimerListing[4] \in Instruction /\ Sw(TimerListing[4], 21, 20, 4)
  /\ TimerListing[5] \in Instruction /\ System3(TimerListing[5], 2, 26, 0, 834)
  /\ TimerListing[6] \in Instruction /\ Sw(TimerListing[6], 26, 20, 8)
  /\ TimerListing[7] \in Instruction /\ System3(TimerListing[7], 2, 27, 0, 833)
  /\ TimerListing[8] \in Instruction /\ Sw(TimerListing[8], 27, 20, 12)
  /\ TimerListing[9] \in Instruction /\ Addi(TimerListing[9], 25, 0, -1)
  /\ TimerListing[10] \in Instruction /\ Sw(TimerListing[10], 25, 24, 0)
  /\ TimerListing[11] \in Instruction /\ Sw(TimerListing[11], 0, 28, 0)
  /\ TimerListing[12] \in Instruction /\ Lw(TimerListing[12], 23, 22, 0)
  /\ TimerListing[13] \in Instruction /\ Addi(TimerListing[13], 23, 23, 400)
  /\ TimerListing[14] \in Instruction /\ Sw(TimerListing[14], 23, 24, 0)
  /\ TimerListing[15] \in Instruction /\ System3(TimerListing[15], 0, 0, 0, 770)
  /\ TimerListing[17] \in Instruction /\ Addi(TimerListing[17], 20, 0, 0)
  /\ TimerListing[18] \in Instruction /\ Lui(TimerListing[18], 22, TimeHigh)
  /\ TimerListing[19] \in Instruction /\ Addi(TimerListing[19], 22, 22, -8)
  /\ TimerListing[20] \in Instruction /\ Lui(TimerListing[20], 24, CompareHigh)
  /\ TimerListing[21] \in Instruction /\ Lui(TimerListing[21], 28, CompareHigh)
  /\ TimerListing[22] \in Instruction /\ Addi(TimerListing[22], 28, 28, 4)
  /\ TimerListing[23] \in Instruction /\ Addi(TimerListing[23], 21, 0, 0)
  /\ TimerListing[24] \in Instruction /\ Addi(TimerListing[24], 25, 0, -1)
  /\ TimerListing[25] \in Instruction /\ Sw(TimerListing[25], 25, 24, 0)
  /\ TimerListing[26] \in Instruction /\ Sw(TimerListing[26], 0, 28, 0)
  /\ TimerListing[27] \in Instruction /\ Lw(TimerListing[27], 23, 22, 0)
  /\ TimerListing[28] \in Instruction /\ Addi(TimerListing[28], 23, 23, 400)
  /\ TimerListing[29] \in Instruction /\ Sw(TimerListing[29], 23, 24, 0)
  /\ TimerListing[30] \in Instruction /\ Addi(TimerListing[30], 5, 0, 4)
  /\ TimerListing[31] \in Instruction /\ System3(TimerListing[31], 1, 0, 5, 773)
  /\ TimerListing[32] \in Instruction /\ Addi(TimerListing[32], 6, 0, 128)
  /\ TimerListing[33] \in Instruction /\ System3(TimerListing[33], 1, 0, 6, 772)
  /\ TimerListing[34] \in Instruction /\ System3(TimerListing[34], 6, 0, 8, 768)
  /\ TimerListing[35] \in Instruction /\ Addi(TimerListing[35], 1, 0, 0)
  /\ TimerListing[37] \in Instruction /\ Addi(TimerListing[37], 1, 1, 1)
  /\ TimerListing[38] \in Instruction /\ Sw(TimerListing[38], 1, 20, 0)
  <1>1. /\ 0 \in Bits(5) /\ 1 \in Bits(5) /\ 5 \in Bits(5) /\ 6 \in Bits(5) /\ 8 \in Bits(5)
        /\ 20 \in Bits(5) /\ 21 \in Bits(5) /\ 22 \in Bits(5) /\ 23 \in Bits(5) /\ 24 \in Bits(5)
        /\ 25 \in Bits(5) /\ 26 \in Bits(5) /\ 27 \in Bits(5) /\ 28 \in Bits(5)
    BY BitsRange
  <1>2. /\ 834 \in Bits(12) /\ 833 \in Bits(12) /\ 770 \in Bits(12) /\ 773 \in Bits(12)
        /\ 772 \in Bits(12) /\ 768 \in Bits(12)
    BY WordRange, SMT DEF Lo12
  <1>3. 0 \in Bits(3) /\ 1 \in Bits(3) /\ 2 \in Bits(3) /\ 6 \in Bits(3)
    BY BitsRange
  <1>4. TimeHigh \in Bits(20) /\ CompareHigh \in Bits(20)
    BY WordRange, SMTT(30) DEF Hi20, TimeHigh, CompareHigh
  <1>5. TimerListing[3] \in Instruction /\ Addi(TimerListing[3], 21, 21, 1)
    <2>1. addi(21, 21, 1)[1] \in Instruction /\ Addi(addi(21, 21, 1)[1], 21, 21, 1)
      BY <1>1, AddiReads
    <2> QED BY <2>1, TimerListingIs
  <1>6. TimerListing[4] \in Instruction /\ Sw(TimerListing[4], 21, 20, 4)
    <2>1. sw(21, 20, 4)[1] \in Instruction /\ Sw(sw(21, 20, 4)[1], 21, 20, 4)
      BY <1>1, SwReads
    <2> QED BY <2>1, TimerListingIs
  <1>7. TimerListing[5] \in Instruction /\ System3(TimerListing[5], 2, 26, 0, 834)
    <2> DEFINE s == System(834, 0, 2, 26)
    <2>1. csrr(26, 834) = s
      BY DEF csrr, csrrs
    <2> HIDE DEF s
    <2>2. s[1] \in Instruction /\ System3(s[1], 2, 26, 0, 834)
      BY <1>1, <1>2, <1>3, SystemReads DEF s
    <2>3. TimerListing[5] = csrr(26, 834)[1]
      BY TimerListingIs, SMT
    <2>4. TimerListing[5] = s[1]
      BY <2>1, <2>3
    <2> QED BY <2>2, <2>4
  <1>8. TimerListing[6] \in Instruction /\ Sw(TimerListing[6], 26, 20, 8)
    <2>1. sw(26, 20, 8)[1] \in Instruction /\ Sw(sw(26, 20, 8)[1], 26, 20, 8)
      BY <1>1, SwReads
    <2> QED BY <2>1, TimerListingIs
  <1>9. TimerListing[7] \in Instruction /\ System3(TimerListing[7], 2, 27, 0, 833)
    <2> DEFINE s == System(833, 0, 2, 27)
    <2>1. csrr(27, 833) = s
      BY DEF csrr, csrrs
    <2> HIDE DEF s
    <2>2. s[1] \in Instruction /\ System3(s[1], 2, 27, 0, 833)
      BY <1>1, <1>2, <1>3, SystemReads DEF s
    <2>3. TimerListing[7] = csrr(27, 833)[1]
      BY TimerListingIs, SMT
    <2>4. TimerListing[7] = s[1]
      BY <2>1, <2>3
    <2> QED BY <2>2, <2>4
  <1>10. TimerListing[8] \in Instruction /\ Sw(TimerListing[8], 27, 20, 12)
    <2>1. sw(27, 20, 12)[1] \in Instruction /\ Sw(sw(27, 20, 12)[1], 27, 20, 12)
      BY <1>1, SwReads
    <2> QED BY <2>1, TimerListingIs
  <1>11. TimerListing[9] \in Instruction /\ Addi(TimerListing[9], 25, 0, -1)
    <2>1. addi(25, 0, -1)[1] \in Instruction /\ Addi(addi(25, 0, -1)[1], 25, 0, -1)
      BY <1>1, AddiReads
    <2> QED BY <2>1, TimerListingIs
  <1>12. TimerListing[10] \in Instruction /\ Sw(TimerListing[10], 25, 24, 0)
    <2>1. sw(25, 24, 0)[1] \in Instruction /\ Sw(sw(25, 24, 0)[1], 25, 24, 0)
      BY <1>1, SwReads
    <2> QED BY <2>1, TimerListingIs
  <1>13. TimerListing[11] \in Instruction /\ Sw(TimerListing[11], 0, 28, 0)
    <2>1. sw(0, 28, 0)[1] \in Instruction /\ Sw(sw(0, 28, 0)[1], 0, 28, 0)
      BY <1>1, SwReads
    <2> QED BY <2>1, TimerListingIs
  <1>14. TimerListing[12] \in Instruction /\ Lw(TimerListing[12], 23, 22, 0)
    <2>1. lw(23, 22, 0)[1] \in Instruction /\ Lw(lw(23, 22, 0)[1], 23, 22, 0)
      BY <1>1, LwReads
    <2> QED BY <2>1, TimerListingIs
  <1>15. TimerListing[13] \in Instruction /\ Addi(TimerListing[13], 23, 23, 400)
    <2>1. addi(23, 23, 400)[1] \in Instruction /\ Addi(addi(23, 23, 400)[1], 23, 23, 400)
      BY <1>1, AddiReads
    <2> QED BY <2>1, TimerListingIs
  <1>16. TimerListing[14] \in Instruction /\ Sw(TimerListing[14], 23, 24, 0)
    <2>1. sw(23, 24, 0)[1] \in Instruction /\ Sw(sw(23, 24, 0)[1], 23, 24, 0)
      BY <1>1, SwReads
    <2> QED BY <2>1, TimerListingIs
  <1>17. TimerListing[15] \in Instruction /\ System3(TimerListing[15], 0, 0, 0, 770)
    <2> DEFINE s == System(770, 0, 0, 0)
    <2>1. mret = s
      BY DEF mret
    <2> HIDE DEF s
    <2>2. s[1] \in Instruction /\ System3(s[1], 0, 0, 0, 770)
      BY <1>1, <1>2, <1>3, SystemReads DEF s
    <2>3. TimerListing[15] = mret[1]
      BY TimerListingIs, SMT
    <2>4. TimerListing[15] = s[1]
      BY <2>1, <2>3
    <2> QED BY <2>2, <2>4
  <1>18. TimerListing[17] \in Instruction /\ Addi(TimerListing[17], 20, 0, 0)
    <2>1. addi(20, 0, 0)[1] \in Instruction /\ Addi(addi(20, 0, 0)[1], 20, 0, 0)
      BY <1>1, AddiReads
    <2> QED BY <2>1, TimerListingIs
  <1>19. TimerListing[18] \in Instruction /\ Lui(TimerListing[18], 22, TimeHigh)
    <2>1. lui(22, TimeHigh)[1] \in Instruction /\ Lui(lui(22, TimeHigh)[1], 22, TimeHigh)
      BY <1>1, <1>4, LuiReads
    <2> QED BY <2>1, TimerListingIs
  <1>20. TimerListing[19] \in Instruction /\ Addi(TimerListing[19], 22, 22, -8)
    <2>1. addi(22, 22, -8)[1] \in Instruction /\ Addi(addi(22, 22, -8)[1], 22, 22, -8)
      BY <1>1, AddiReads
    <2> QED BY <2>1, TimerListingIs
  <1>21. TimerListing[20] \in Instruction /\ Lui(TimerListing[20], 24, CompareHigh)
    <2>1. lui(24, CompareHigh)[1] \in Instruction /\ Lui(lui(24, CompareHigh)[1], 24, CompareHigh)
      BY <1>1, <1>4, LuiReads
    <2> QED BY <2>1, TimerListingIs
  <1>22. TimerListing[21] \in Instruction /\ Lui(TimerListing[21], 28, CompareHigh)
    <2>1. lui(28, CompareHigh)[1] \in Instruction /\ Lui(lui(28, CompareHigh)[1], 28, CompareHigh)
      BY <1>1, <1>4, LuiReads
    <2> QED BY <2>1, TimerListingIs
  <1>23. TimerListing[22] \in Instruction /\ Addi(TimerListing[22], 28, 28, 4)
    <2>1. addi(28, 28, 4)[1] \in Instruction /\ Addi(addi(28, 28, 4)[1], 28, 28, 4)
      BY <1>1, AddiReads
    <2> QED BY <2>1, TimerListingIs
  <1>24. TimerListing[23] \in Instruction /\ Addi(TimerListing[23], 21, 0, 0)
    <2>1. addi(21, 0, 0)[1] \in Instruction /\ Addi(addi(21, 0, 0)[1], 21, 0, 0)
      BY <1>1, AddiReads
    <2> QED BY <2>1, TimerListingIs
  <1>25. TimerListing[24] \in Instruction /\ Addi(TimerListing[24], 25, 0, -1)
    <2>1. addi(25, 0, -1)[1] \in Instruction /\ Addi(addi(25, 0, -1)[1], 25, 0, -1)
      BY <1>1, AddiReads
    <2> QED BY <2>1, TimerListingIs
  <1>26. TimerListing[25] \in Instruction /\ Sw(TimerListing[25], 25, 24, 0)
    <2>1. sw(25, 24, 0)[1] \in Instruction /\ Sw(sw(25, 24, 0)[1], 25, 24, 0)
      BY <1>1, SwReads
    <2> QED BY <2>1, TimerListingIs
  <1>27. TimerListing[26] \in Instruction /\ Sw(TimerListing[26], 0, 28, 0)
    <2>1. sw(0, 28, 0)[1] \in Instruction /\ Sw(sw(0, 28, 0)[1], 0, 28, 0)
      BY <1>1, SwReads
    <2> QED BY <2>1, TimerListingIs
  <1>28. TimerListing[27] \in Instruction /\ Lw(TimerListing[27], 23, 22, 0)
    <2>1. lw(23, 22, 0)[1] \in Instruction /\ Lw(lw(23, 22, 0)[1], 23, 22, 0)
      BY <1>1, LwReads
    <2> QED BY <2>1, TimerListingIs
  <1>29. TimerListing[28] \in Instruction /\ Addi(TimerListing[28], 23, 23, 400)
    <2>1. addi(23, 23, 400)[1] \in Instruction /\ Addi(addi(23, 23, 400)[1], 23, 23, 400)
      BY <1>1, AddiReads
    <2> QED BY <2>1, TimerListingIs
  <1>30. TimerListing[29] \in Instruction /\ Sw(TimerListing[29], 23, 24, 0)
    <2>1. sw(23, 24, 0)[1] \in Instruction /\ Sw(sw(23, 24, 0)[1], 23, 24, 0)
      BY <1>1, SwReads
    <2> QED BY <2>1, TimerListingIs
  <1>31. TimerListing[30] \in Instruction /\ Addi(TimerListing[30], 5, 0, 4)
    <2>1. addi(5, 0, 4)[1] \in Instruction /\ Addi(addi(5, 0, 4)[1], 5, 0, 4)
      BY <1>1, AddiReads
    <2> QED BY <2>1, TimerListingIs
  <1>32. TimerListing[31] \in Instruction /\ System3(TimerListing[31], 1, 0, 5, 773)
    <2> DEFINE s == System(773, 5, 1, 0)
    <2>1. csrw(773, 5) = s
      BY DEF csrw, csrrw
    <2> HIDE DEF s
    <2>2. s[1] \in Instruction /\ System3(s[1], 1, 0, 5, 773)
      BY <1>1, <1>2, <1>3, SystemReads DEF s
    <2>3. TimerListing[31] = csrw(773, 5)[1]
      BY TimerListingIs, SMT
    <2>4. TimerListing[31] = s[1]
      BY <2>1, <2>3
    <2> QED BY <2>2, <2>4
  <1>33. TimerListing[32] \in Instruction /\ Addi(TimerListing[32], 6, 0, 128)
    <2>1. addi(6, 0, 128)[1] \in Instruction /\ Addi(addi(6, 0, 128)[1], 6, 0, 128)
      BY <1>1, AddiReads
    <2> QED BY <2>1, TimerListingIs
  <1>34. TimerListing[33] \in Instruction /\ System3(TimerListing[33], 1, 0, 6, 772)
    <2> DEFINE s == System(772, 6, 1, 0)
    <2>1. csrw(772, 6) = s
      BY DEF csrw, csrrw
    <2> HIDE DEF s
    <2>2. s[1] \in Instruction /\ System3(s[1], 1, 0, 6, 772)
      BY <1>1, <1>2, <1>3, SystemReads DEF s
    <2>3. TimerListing[33] = csrw(772, 6)[1]
      BY TimerListingIs, SMT
    <2>4. TimerListing[33] = s[1]
      BY <2>1, <2>3
    <2> QED BY <2>2, <2>4
  <1>35. TimerListing[34] \in Instruction /\ System3(TimerListing[34], 6, 0, 8, 768)
    <2> DEFINE s == System(768, 8, 6, 0)
    <2>1. csrrsi(0, 768, 8) = s
      BY DEF csrrsi
    <2> HIDE DEF s
    <2>2. s[1] \in Instruction /\ System3(s[1], 6, 0, 8, 768)
      BY <1>1, <1>2, <1>3, SystemReads DEF s
    <2>3. TimerListing[34] = csrrsi(0, 768, 8)[1]
      BY TimerListingIs, SMT
    <2>4. TimerListing[34] = s[1]
      BY <2>1, <2>3
    <2> QED BY <2>2, <2>4
  <1>36. TimerListing[35] \in Instruction /\ Addi(TimerListing[35], 1, 0, 0)
    <2>1. addi(1, 0, 0)[1] \in Instruction /\ Addi(addi(1, 0, 0)[1], 1, 0, 0)
      BY <1>1, AddiReads
    <2> QED BY <2>1, TimerListingIs
  <1>37. TimerListing[37] \in Instruction /\ Addi(TimerListing[37], 1, 1, 1)
    <2>1. addi(1, 1, 1)[1] \in Instruction /\ Addi(addi(1, 1, 1)[1], 1, 1, 1)
      BY <1>1, AddiReads
    <2> QED BY <2>1, TimerListingIs
  <1>38. TimerListing[38] \in Instruction /\ Sw(TimerListing[38], 1, 20, 0)
    <2>1. sw(1, 20, 0)[1] \in Instruction /\ Sw(sw(1, 20, 0)[1], 1, 20, 0)
      BY <1>1, SwReads
    <2> QED BY <2>1, TimerListingIs
  <1> QED BY <1>5, <1>6, <1>7, <1>8, <1>9, <1>10, <1>11, <1>12, <1>13, <1>14, <1>15, <1>16,
            <1>17, <1>18, <1>19, <1>20, <1>21, <1>22, <1>23, <1>24, <1>25, <1>26, <1>27, <1>28,
            <1>29, <1>30, <1>31, <1>32, <1>33, <1>34, <1>35, <1>36, <1>37, <1>38

LEMMA TimerMarks ==
  ASSUME TimerListing \in Seq(Entry)
  PROVE  /\ Marks(TimerListing) = {2, 16, 36} /\ DOMAIN TimerListing = 1 .. 39
         /\ Len(TimerListing) = 39
         /\ \A i \in Int : Count({2, 16, 36}, i) = i - (IF 2 <= i THEN 1 ELSE 0)
                             - (IF 16 <= i THEN 1 ELSE 0) - (IF 36 <= i THEN 1 ELSE 0)
         /\ TimerListing[1] = [kind |-> "beq", rs1 |-> 0, rs2 |-> 0, target |-> "start"]
         /\ TimerListing[39] = [kind |-> "beq", rs1 |-> 0, rs2 |-> 0, target |-> "loop"]
         /\ TimerListing[16].name = "start" /\ TimerListing[36].name = "loop"
  <1>1. Len(TimerListing) = 39 /\ DOMAIN TimerListing = 1 .. 39
    BY TimerListingIs
  <1>2. /\ TimerListing[1] = [kind |-> "beq", rs1 |-> 0, rs2 |-> 0, target |-> "start"]
        /\ TimerListing[39] = [kind |-> "beq", rs1 |-> 0, rs2 |-> 0, target |-> "loop"]
        /\ TimerListing[2] = [kind |-> "label", name |-> "handler"]
        /\ TimerListing[16] = [kind |-> "label", name |-> "start"]
        /\ TimerListing[36] = [kind |-> "label", name |-> "loop"]
    BY TimerListingIs DEF beq, Pending, label
  <1>3. \A i \in Instruction : i.kind = "word"
    BY DEF Instruction
  <1>4. ASSUME NEW i \in 1 .. 39, i \notin {2, 16, 36} PROVE ~IsLabel(TimerListing[i])
    <2>1. /\ TimerListing[3] \in Instruction /\ TimerListing[4] \in Instruction /\ TimerListing[5] \in Instruction
          /\ TimerListing[6] \in Instruction /\ TimerListing[7] \in Instruction /\ TimerListing[8] \in Instruction
          /\ TimerListing[9] \in Instruction /\ TimerListing[10] \in Instruction /\ TimerListing[11] \in Instruction
          /\ TimerListing[12] \in Instruction /\ TimerListing[13] \in Instruction /\ TimerListing[14] \in Instruction
          /\ TimerListing[15] \in Instruction
      BY TimerWords, SMT
    <2>2. 3 <= i /\ i <= 15 => TimerListing[i] \in Instruction
      <3>1. 3 <= i /\ i <= 15 => i = 3 \/ i = 4 \/ i = 5 \/ i = 6 \/ i = 7 \/ i = 8 \/ i = 9 \/ i = 10
            \/ i = 11 \/ i = 12 \/ i = 13 \/ i = 14 \/ i = 15
        OBVIOUS
      <3> QED BY <2>1, <3>1
    <2>3. /\ TimerListing[17] \in Instruction /\ TimerListing[18] \in Instruction /\ TimerListing[19] \in Instruction
          /\ TimerListing[20] \in Instruction /\ TimerListing[21] \in Instruction /\ TimerListing[22] \in Instruction
          /\ TimerListing[23] \in Instruction /\ TimerListing[24] \in Instruction /\ TimerListing[25] \in Instruction
          /\ TimerListing[26] \in Instruction /\ TimerListing[27] \in Instruction /\ TimerListing[28] \in Instruction
          /\ TimerListing[29] \in Instruction /\ TimerListing[30] \in Instruction /\ TimerListing[31] \in Instruction
          /\ TimerListing[32] \in Instruction /\ TimerListing[33] \in Instruction /\ TimerListing[34] \in Instruction
          /\ TimerListing[35] \in Instruction
      BY TimerWords, SMT
    <2>4. 17 <= i /\ i <= 35 => TimerListing[i] \in Instruction
      <3>1. 17 <= i /\ i <= 35 => i = 17 \/ i = 18 \/ i = 19 \/ i = 20 \/ i = 21 \/ i = 22 \/ i = 23 \/ i = 24
            \/ i = 25 \/ i = 26 \/ i = 27 \/ i = 28 \/ i = 29 \/ i = 30 \/ i = 31 \/ i = 32
            \/ i = 33 \/ i = 34 \/ i = 35
        OBVIOUS
      <3> QED BY <2>3, <3>1
    <2>5. /\ TimerListing[37] \in Instruction /\ TimerListing[38] \in Instruction
      BY TimerWords, SMT
    <2>6. 37 <= i /\ i <= 38 => TimerListing[i] \in Instruction
      <3>1. 37 <= i /\ i <= 38 => i = 37 \/ i = 38
        OBVIOUS
      <3> QED BY <2>5, <3>1
    <2>7. i = 1 \/ i = 39 => ~IsLabel(TimerListing[i])
      BY <1>2 DEF IsLabel
    <2>8. i = 1 \/ i = 39 \/ (3 <= i /\ i <= 15) \/ (17 <= i /\ i <= 35) \/ (37 <= i /\ i <= 38)
      BY <1>4
    <2> QED BY <1>3, <2>2, <2>4, <2>6, <2>7, <2>8 DEF IsLabel
  <1>5. IsLabel(TimerListing[2]) /\ IsLabel(TimerListing[16]) /\ IsLabel(TimerListing[36])
    BY <1>2 DEF IsLabel
  <1>6. Marks(TimerListing) = {2, 16, 36}
    <2>1. \A i : i \in Marks(TimerListing) <=> i \in 1 .. 39 /\ IsLabel(TimerListing[i])
      BY <1>1 DEF Marks
    <2>2. \A i \in {2, 16, 36} : i \in 1 .. 39
      OBVIOUS
    <2> QED BY <1>4, <1>5, <2>1, <2>2
  <1>7. ASSUME NEW i \in Int
        PROVE  Count({2, 16, 36}, i) = i - (IF 2 <= i THEN 1 ELSE 0)
                             - (IF 16 <= i THEN 1 ELSE 0) - (IF 36 <= i THEN 1 ELSE 0)
    <2> DEFINE m0 == {}
               m1 == {2}
               m2 == {2, 16}
               m3 == {2, 16, 36}
    <2>1. /\ m0 \in SUBSET (1 .. 39) /\ m1 \in SUBSET (1 .. 39) /\ m2 \in SUBSET (1 .. 39)
          /\ 2 \notin m0 /\ 16 \notin m1 /\ 36 \notin m2
          /\ m0 \cup {2} = m1 /\ m1 \cup {16} = m2 /\ m2 \cup {36} = m3
      OBVIOUS
    <2>5. Count(m0, i) = i
      <3>1. {e \in {} : e <= i} = {} /\ Cardinality({}) = 0
        BY FS_EmptySet
      <3> QED BY <3>1 DEF Count
    <2>7. 39 \in Nat /\ 2 \in Nat /\ 16 \in Nat /\ 36 \in Nat
      OBVIOUS
    <2> HIDE DEF m0, m1, m2, m3
    <2>8. ASSUME NEW n, n = 39, NEW s \in SUBSET (1 .. n), NEW m \in Nat, m \notin s
          PROVE  Count(s \cup {m}, i) = Count(s, i) - (IF m <= i THEN 1 ELSE 0)
      <3>1. n \in Nat
        BY <2>8
      <3> QED BY <2>8, <3>1, CountAdd, ZenonT(60)
    <2>2. Count(m1, i) = Count(m0, i) - (IF 2 <= i THEN 1 ELSE 0)
      <3>1. Count(m0 \cup {2}, i) = Count(m0, i) - (IF 2 <= i THEN 1 ELSE 0)
        BY <2>1, <2>7, <2>8
      <3> QED BY <2>1, <3>1
    <2>3. Count(m2, i) = Count(m1, i) - (IF 16 <= i THEN 1 ELSE 0)
      <3>1. Count(m1 \cup {16}, i) = Count(m1, i) - (IF 16 <= i THEN 1 ELSE 0)
        BY <2>1, <2>7, <2>8
      <3> QED BY <2>1, <3>1
    <2>4. Count(m3, i) = Count(m2, i) - (IF 36 <= i THEN 1 ELSE 0)
      <3>1. Count(m2 \cup {36}, i) = Count(m2, i) - (IF 36 <= i THEN 1 ELSE 0)
        BY <2>1, <2>7, <2>8
      <3> QED BY <2>1, <3>1
    <2>6. Count(m3, i) = i - (IF 2 <= i THEN 1 ELSE 0) - (IF 16 <= i THEN 1 ELSE 0)
                           - (IF 36 <= i THEN 1 ELSE 0)
      BY <2>2, <2>3, <2>4, <2>5
    <2> QED BY <2>6 DEF m3
  <1> QED BY <1>1, <1>2, <1>6, <1>7

LEMMA TimerImageIs ==
  ASSUME TimerListing \in Seq(Entry), NEW image, image = assemble(Built(TimerListing)), image.ok
  PROVE  TimerImage(image.words)
  <1> DEFINE m == image.words
             P == TimerListing
             marks == {2, 16, 36}
  <1>1. m \in Seq(Instruction)
    BY AssembledWords
  <1>2. Len(m) = 36
    <2>1. Len(Built(TimerListing).words) = Count({2, 16, 36}, 39)
      <3> HIDE DEF TimerListing
      <3>1. Len(Built(TimerListing).words) = Count(Marks(TimerListing), Len(TimerListing))
        BY BuiltWords
      <3> QED BY <3>1, TimerMarks
    <2>2. Count({2, 16, 36}, 39) = 36
      BY TimerMarks
    <2>3. m = [j \in DOMAIN Built(TimerListing).words |-> Resolved(Built(TimerListing), j)]
          /\ Built(TimerListing).words \in Seq(Entry)
      BY BuiltWords DEF assemble
    <2> DEFINE ws == Built(TimerListing).words
    <2> HIDE DEF ws
    <2>6. ws \in Seq(Entry) /\ Len(ws) = 36
      BY <2>1, <2>2, <2>3 DEF ws
    <2>4. DOMAIN ws = 1 .. 36
      BY <2>6
    <2> HIDE DEF m
    <2>5. DOMAIN m = 1 .. 36
      BY <2>3, <2>4 DEF ws
    <2> QED BY <1>1, <2>5
  <1>3. ASSUME NEW i \in 1 .. 39, i \notin marks, NEW k, k = Count(marks, i)
        PROVE  /\ P[i] \in Instruction => m[k] = P[i]
               /\ P[i].kind = "beq" =>
                    \A l \in marks :
                      P[l].name = P[i].target =>
                        Beq(m[k], P[i].rs1, P[i].rs2, 4 * Count(marks, l) - 4 * (k - 1))
    <2>1. i \in DOMAIN P /\ ~IsLabel(P[i]) /\ Marks(P) = marks
      BY <1>3, TimerMarks DEF Marks
    <2> HIDE DEF P, marks
    <2>2. P \in Seq(Entry) /\ image = assemble(Built(P))
      BY DEF P
    <2> QED BY <1>3, <2>1, <2>2, ImageOf
  <1>4. m[2] = P[3]
    <2>1. 3 \in 1 .. 39 /\ 3 \notin marks /\ 2 = Count(marks, 3)
      BY TimerMarks
    <2>2. P[3] \in Instruction
      BY TimerWords
    <2> HIDE DEF P, m, marks
    <2> QED BY <1>3, <2>1, <2>2
  <1>5. m[3] = P[4]
    <2>1. 4 \in 1 .. 39 /\ 4 \notin marks /\ 3 = Count(marks, 4)
      BY TimerMarks
    <2>2. P[4] \in Instruction
      BY TimerWords
    <2> HIDE DEF P, m, marks
    <2> QED BY <1>3, <2>1, <2>2
  <1>6. m[4] = P[5]
    <2>1. 5 \in 1 .. 39 /\ 5 \notin marks /\ 4 = Count(marks, 5)
      BY TimerMarks
    <2>2. P[5] \in Instruction
      BY TimerWords
    <2> HIDE DEF P, m, marks
    <2> QED BY <1>3, <2>1, <2>2
  <1>7. m[5] = P[6]
    <2>1. 6 \in 1 .. 39 /\ 6 \notin marks /\ 5 = Count(marks, 6)
      BY TimerMarks
    <2>2. P[6] \in Instruction
      BY TimerWords
    <2> HIDE DEF P, m, marks
    <2> QED BY <1>3, <2>1, <2>2
  <1>8. m[6] = P[7]
    <2>1. 7 \in 1 .. 39 /\ 7 \notin marks /\ 6 = Count(marks, 7)
      BY TimerMarks
    <2>2. P[7] \in Instruction
      BY TimerWords
    <2> HIDE DEF P, m, marks
    <2> QED BY <1>3, <2>1, <2>2
  <1>9. m[7] = P[8]
    <2>1. 8 \in 1 .. 39 /\ 8 \notin marks /\ 7 = Count(marks, 8)
      BY TimerMarks
    <2>2. P[8] \in Instruction
      BY TimerWords
    <2> HIDE DEF P, m, marks
    <2> QED BY <1>3, <2>1, <2>2
  <1>10. m[8] = P[9]
    <2>1. 9 \in 1 .. 39 /\ 9 \notin marks /\ 8 = Count(marks, 9)
      BY TimerMarks
    <2>2. P[9] \in Instruction
      BY TimerWords
    <2> HIDE DEF P, m, marks
    <2> QED BY <1>3, <2>1, <2>2
  <1>11. m[9] = P[10]
    <2>1. 10 \in 1 .. 39 /\ 10 \notin marks /\ 9 = Count(marks, 10)
      BY TimerMarks
    <2>2. P[10] \in Instruction
      BY TimerWords
    <2> HIDE DEF P, m, marks
    <2> QED BY <1>3, <2>1, <2>2
  <1>12. m[10] = P[11]
    <2>1. 11 \in 1 .. 39 /\ 11 \notin marks /\ 10 = Count(marks, 11)
      BY TimerMarks
    <2>2. P[11] \in Instruction
      BY TimerWords
    <2> HIDE DEF P, m, marks
    <2> QED BY <1>3, <2>1, <2>2
  <1>13. m[11] = P[12]
    <2>1. 12 \in 1 .. 39 /\ 12 \notin marks /\ 11 = Count(marks, 12)
      BY TimerMarks
    <2>2. P[12] \in Instruction
      BY TimerWords
    <2> HIDE DEF P, m, marks
    <2> QED BY <1>3, <2>1, <2>2
  <1>14. m[12] = P[13]
    <2>1. 13 \in 1 .. 39 /\ 13 \notin marks /\ 12 = Count(marks, 13)
      BY TimerMarks
    <2>2. P[13] \in Instruction
      BY TimerWords
    <2> HIDE DEF P, m, marks
    <2> QED BY <1>3, <2>1, <2>2
  <1>15. m[13] = P[14]
    <2>1. 14 \in 1 .. 39 /\ 14 \notin marks /\ 13 = Count(marks, 14)
      BY TimerMarks
    <2>2. P[14] \in Instruction
      BY TimerWords
    <2> HIDE DEF P, m, marks
    <2> QED BY <1>3, <2>1, <2>2
  <1>16. m[14] = P[15]
    <2>1. 15 \in 1 .. 39 /\ 15 \notin marks /\ 14 = Count(marks, 15)
      BY TimerMarks
    <2>2. P[15] \in Instruction
      BY TimerWords
    <2> HIDE DEF P, m, marks
    <2> QED BY <1>3, <2>1, <2>2
  <1>17. m[15] = P[17]
    <2>1. 17 \in 1 .. 39 /\ 17 \notin marks /\ 15 = Count(marks, 17)
      BY TimerMarks
    <2>2. P[17] \in Instruction
      BY TimerWords
    <2> HIDE DEF P, m, marks
    <2> QED BY <1>3, <2>1, <2>2
  <1>18. m[16] = P[18]
    <2>1. 18 \in 1 .. 39 /\ 18 \notin marks /\ 16 = Count(marks, 18)
      BY TimerMarks
    <2>2. P[18] \in Instruction
      BY TimerWords
    <2> HIDE DEF P, m, marks
    <2> QED BY <1>3, <2>1, <2>2
  <1>19. m[17] = P[19]
    <2>1. 19 \in 1 .. 39 /\ 19 \notin marks /\ 17 = Count(marks, 19)
      BY TimerMarks
    <2>2. P[19] \in Instruction
      BY TimerWords
    <2> HIDE DEF P, m, marks
    <2> QED BY <1>3, <2>1, <2>2
  <1>20. m[18] = P[20]
    <2>1. 20 \in 1 .. 39 /\ 20 \notin marks /\ 18 = Count(marks, 20)
      BY TimerMarks
    <2>2. P[20] \in Instruction
      BY TimerWords
    <2> HIDE DEF P, m, marks
    <2> QED BY <1>3, <2>1, <2>2
  <1>21. m[19] = P[21]
    <2>1. 21 \in 1 .. 39 /\ 21 \notin marks /\ 19 = Count(marks, 21)
      BY TimerMarks
    <2>2. P[21] \in Instruction
      BY TimerWords
    <2> HIDE DEF P, m, marks
    <2> QED BY <1>3, <2>1, <2>2
  <1>22. m[20] = P[22]
    <2>1. 22 \in 1 .. 39 /\ 22 \notin marks /\ 20 = Count(marks, 22)
      BY TimerMarks
    <2>2. P[22] \in Instruction
      BY TimerWords
    <2> HIDE DEF P, m, marks
    <2> QED BY <1>3, <2>1, <2>2
  <1>23. m[21] = P[23]
    <2>1. 23 \in 1 .. 39 /\ 23 \notin marks /\ 21 = Count(marks, 23)
      BY TimerMarks
    <2>2. P[23] \in Instruction
      BY TimerWords
    <2> HIDE DEF P, m, marks
    <2> QED BY <1>3, <2>1, <2>2
  <1>24. m[22] = P[24]
    <2>1. 24 \in 1 .. 39 /\ 24 \notin marks /\ 22 = Count(marks, 24)
      BY TimerMarks
    <2>2. P[24] \in Instruction
      BY TimerWords
    <2> HIDE DEF P, m, marks
    <2> QED BY <1>3, <2>1, <2>2
  <1>25. m[23] = P[25]
    <2>1. 25 \in 1 .. 39 /\ 25 \notin marks /\ 23 = Count(marks, 25)
      BY TimerMarks
    <2>2. P[25] \in Instruction
      BY TimerWords
    <2> HIDE DEF P, m, marks
    <2> QED BY <1>3, <2>1, <2>2
  <1>26. m[24] = P[26]
    <2>1. 26 \in 1 .. 39 /\ 26 \notin marks /\ 24 = Count(marks, 26)
      BY TimerMarks
    <2>2. P[26] \in Instruction
      BY TimerWords
    <2> HIDE DEF P, m, marks
    <2> QED BY <1>3, <2>1, <2>2
  <1>27. m[25] = P[27]
    <2>1. 27 \in 1 .. 39 /\ 27 \notin marks /\ 25 = Count(marks, 27)
      BY TimerMarks
    <2>2. P[27] \in Instruction
      BY TimerWords
    <2> HIDE DEF P, m, marks
    <2> QED BY <1>3, <2>1, <2>2
  <1>28. m[26] = P[28]
    <2>1. 28 \in 1 .. 39 /\ 28 \notin marks /\ 26 = Count(marks, 28)
      BY TimerMarks
    <2>2. P[28] \in Instruction
      BY TimerWords
    <2> HIDE DEF P, m, marks
    <2> QED BY <1>3, <2>1, <2>2
  <1>29. m[27] = P[29]
    <2>1. 29 \in 1 .. 39 /\ 29 \notin marks /\ 27 = Count(marks, 29)
      BY TimerMarks
    <2>2. P[29] \in Instruction
      BY TimerWords
    <2> HIDE DEF P, m, marks
    <2> QED BY <1>3, <2>1, <2>2
  <1>30. m[28] = P[30]
    <2>1. 30 \in 1 .. 39 /\ 30 \notin marks /\ 28 = Count(marks, 30)
      BY TimerMarks
    <2>2. P[30] \in Instruction
      BY TimerWords
    <2> HIDE DEF P, m, marks
    <2> QED BY <1>3, <2>1, <2>2
  <1>31. m[29] = P[31]
    <2>1. 31 \in 1 .. 39 /\ 31 \notin marks /\ 29 = Count(marks, 31)
      BY TimerMarks
    <2>2. P[31] \in Instruction
      BY TimerWords
    <2> HIDE DEF P, m, marks
    <2> QED BY <1>3, <2>1, <2>2
  <1>32. m[30] = P[32]
    <2>1. 32 \in 1 .. 39 /\ 32 \notin marks /\ 30 = Count(marks, 32)
      BY TimerMarks
    <2>2. P[32] \in Instruction
      BY TimerWords
    <2> HIDE DEF P, m, marks
    <2> QED BY <1>3, <2>1, <2>2
  <1>33. m[31] = P[33]
    <2>1. 33 \in 1 .. 39 /\ 33 \notin marks /\ 31 = Count(marks, 33)
      BY TimerMarks
    <2>2. P[33] \in Instruction
      BY TimerWords
    <2> HIDE DEF P, m, marks
    <2> QED BY <1>3, <2>1, <2>2
  <1>34. m[32] = P[34]
    <2>1. 34 \in 1 .. 39 /\ 34 \notin marks /\ 32 = Count(marks, 34)
      BY TimerMarks
    <2>2. P[34] \in Instruction
      BY TimerWords
    <2> HIDE DEF P, m, marks
    <2> QED BY <1>3, <2>1, <2>2
  <1>35. m[33] = P[35]
    <2>1. 35 \in 1 .. 39 /\ 35 \notin marks /\ 33 = Count(marks, 35)
      BY TimerMarks
    <2>2. P[35] \in Instruction
      BY TimerWords
    <2> HIDE DEF P, m, marks
    <2> QED BY <1>3, <2>1, <2>2
  <1>36. m[34] = P[37]
    <2>1. 37 \in 1 .. 39 /\ 37 \notin marks /\ 34 = Count(marks, 37)
      BY TimerMarks
    <2>2. P[37] \in Instruction
      BY TimerWords
    <2> HIDE DEF P, m, marks
    <2> QED BY <1>3, <2>1, <2>2
  <1>37. m[35] = P[38]
    <2>1. 38 \in 1 .. 39 /\ 38 \notin marks /\ 35 = Count(marks, 38)
      BY TimerMarks
    <2>2. P[38] \in Instruction
      BY TimerWords
    <2> HIDE DEF P, m, marks
    <2> QED BY <1>3, <2>1, <2>2
  <1>38. Beq(m[1], 0, 0, 56)
    <2>1. 1 \in 1 .. 39 /\ 1 \notin marks /\ 1 = Count(marks, 1) /\ 16 \in marks
          /\ 4 * Count(marks, 16) - 4 * (1 - 1) = 56
      BY TimerMarks
    <2>3. P[1] = [kind |-> "beq", rs1 |-> 0, rs2 |-> 0, target |-> "start"]
          /\ P[16].name = "start"
      BY TimerMarks
    <2> HIDE DEF P, m
    <2>2. P[1].kind = "beq" /\ P[1].rs1 = 0 /\ P[1].rs2 = 0 /\ P[16].name = P[1].target
      BY <2>3
    <2> HIDE DEF marks
    <2>4. Beq(m[1], P[1].rs1, P[1].rs2, 4 * Count(marks, 16) - 4 * (1 - 1))
      <3>1. \A q \in marks : P[q].name = P[1].target =>
              Beq(m[1], P[1].rs1, P[1].rs2, 4 * Count(marks, q) - 4 * (1 - 1))
        BY <1>3, <2>1, <2>2
      <3> QED BY <2>1, <2>2, <3>1, Zenon
    <2> DEFINE off == 4 * Count(marks, 16) - 4 * (1 - 1)
    <2>5. off = 56
      BY <2>1
    <2> HIDE DEF off
    <2>6. Beq(m[1], P[1].rs1, P[1].rs2, off)
      BY <2>4 DEF off
    <2> QED BY <2>2, <2>5, <2>6
  <1>39. Beq(m[36], 0, 0, -8)
    <2>1. 39 \in 1 .. 39 /\ 39 \notin marks /\ 36 = Count(marks, 39) /\ 36 \in marks
          /\ 4 * Count(marks, 36) - 4 * (36 - 1) = -8
      BY TimerMarks
    <2>3. P[39] = [kind |-> "beq", rs1 |-> 0, rs2 |-> 0, target |-> "loop"]
          /\ P[36].name = "loop"
      BY TimerMarks
    <2> HIDE DEF P, m
    <2>2. P[39].kind = "beq" /\ P[39].rs1 = 0 /\ P[39].rs2 = 0 /\ P[36].name = P[39].target
      BY <2>3
    <2> HIDE DEF marks
    <2>4. Beq(m[36], P[39].rs1, P[39].rs2, 4 * Count(marks, 36) - 4 * (36 - 1))
      <3>1. \A q \in marks : P[q].name = P[39].target =>
              Beq(m[36], P[39].rs1, P[39].rs2, 4 * Count(marks, q) - 4 * (36 - 1))
        BY <1>3, <2>1, <2>2
      <3> QED BY <2>1, <2>2, <3>1, Zenon
    <2> DEFINE off == 4 * Count(marks, 36) - 4 * (36 - 1)
    <2>5. off = -8
      BY <2>1
    <2> HIDE DEF off
    <2>6. Beq(m[36], P[39].rs1, P[39].rs2, off)
      BY <2>4 DEF off
    <2> QED BY <2>2, <2>5, <2>6
  <1> HIDE DEF m, P
  <1>40. TimerHandler(m)
    <2>1. Addi(m[2], 21, 21, 1)
      BY <1>4, TimerWords DEF P
    <2>2. Sw(m[3], 21, 20, 4)
      BY <1>5, TimerWords DEF P
    <2>3. System3(m[4], 2, 26, 0, 834)
      BY <1>6, TimerWords DEF P
    <2>4. Sw(m[5], 26, 20, 8)
      BY <1>7, TimerWords DEF P
    <2>5. System3(m[6], 2, 27, 0, 833)
      BY <1>8, TimerWords DEF P
    <2>6. Sw(m[7], 27, 20, 12)
      BY <1>9, TimerWords DEF P
    <2>7. Addi(m[8], 25, 0, -1)
      BY <1>10, TimerWords DEF P
    <2>8. Sw(m[9], 25, 24, 0)
      BY <1>11, TimerWords DEF P
    <2>9. Sw(m[10], 0, 28, 0)
      BY <1>12, TimerWords DEF P
    <2>10. Lw(m[11], 23, 22, 0)
      BY <1>13, TimerWords DEF P
    <2>11. Addi(m[12], 23, 23, 400)
      BY <1>14, TimerWords DEF P
    <2>12. Sw(m[13], 23, 24, 0)
      BY <1>15, TimerWords DEF P
    <2>13. System3(m[14], 0, 0, 0, 770)
      BY <1>16, TimerWords DEF P
    <2> QED BY <2>1, <2>2, <2>3, <2>4, <2>5, <2>6, <2>7, <2>8, <2>9, <2>10, <2>11, <2>12,
              <2>13
           DEF TimerHandler
  <1>41. TimerSetUp(m)
    <2>2. Addi(m[15], 20, 0, 0)
      BY <1>17, TimerWords DEF P
    <2>3. Lui(m[16], 22, TimeHigh)
      BY <1>18, TimerWords DEF P
    <2>4. Addi(m[17], 22, 22, -8)
      BY <1>19, TimerWords DEF P
    <2>5. Lui(m[18], 24, CompareHigh)
      BY <1>20, TimerWords DEF P
    <2>6. Lui(m[19], 28, CompareHigh)
      BY <1>21, TimerWords DEF P
    <2>7. Addi(m[20], 28, 28, 4)
      BY <1>22, TimerWords DEF P
    <2>8. Addi(m[21], 21, 0, 0)
      BY <1>23, TimerWords DEF P
    <2>9. Addi(m[22], 25, 0, -1)
      BY <1>24, TimerWords DEF P
    <2>10. Sw(m[23], 25, 24, 0)
      BY <1>25, TimerWords DEF P
    <2>11. Sw(m[24], 0, 28, 0)
      BY <1>26, TimerWords DEF P
    <2>12. Lw(m[25], 23, 22, 0)
      BY <1>27, TimerWords DEF P
    <2>13. Addi(m[26], 23, 23, 400)
      BY <1>28, TimerWords DEF P
    <2>14. Sw(m[27], 23, 24, 0)
      BY <1>29, TimerWords DEF P
    <2>15. Addi(m[28], 5, 0, 4)
      BY <1>30, TimerWords DEF P
    <2>16. System3(m[29], 1, 0, 5, 773)
      BY <1>31, TimerWords DEF P
    <2>17. Addi(m[30], 6, 0, 128)
      BY <1>32, TimerWords DEF P
    <2>18. System3(m[31], 1, 0, 6, 772)
      BY <1>33, TimerWords DEF P
    <2>19. m[32] = csrrsi(0, 768, 8)[1]
      BY <1>34, TimerListingIs DEF P
    <2> QED BY <1>38, <2>2, <2>3, <2>4, <2>5, <2>6, <2>7, <2>8, <2>9, <2>10, <2>11, <2>12,
              <2>13, <2>14, <2>15, <2>16, <2>17, <2>18, <2>19
           DEF TimerSetUp
  <1>42. TimerLoop(m)
    <2>1. Addi(m[33], 1, 0, 0)
      BY <1>35, TimerWords DEF P
    <2>2. Addi(m[34], 1, 1, 1)
      BY <1>36, TimerWords DEF P
    <2>3. Sw(m[35], 1, 20, 0)
      BY <1>37, TimerWords DEF P
    <2> QED BY <2>1, <2>2, <2>3, <1>39
           DEF TimerLoop
  <1> QED BY <1>1, <1>2, <1>40, <1>41, <1>42 DEF TimerImage, m

-----------------------------------------------------------------------------
(* What a word does.                                                       *)

LEMMA OpOf ==
  ASSUME Execute
  PROVE  /\ insn.op = 55 => LoadUpper
         /\ insn.op = 19 => Immediate
         /\ insn.op = 3 => Load
         /\ insn.op = 35 => Store
         /\ insn.op = 99 => BranchStep
         /\ insn.op = 115 => CsrStep \/ MachineReturn
  <1>1. /\ (LoadUpper => insn.op = 55) /\ (Immediate => insn.op = 19)
        /\ (AddRegs => insn.op = 51) /\ (Load => insn.op = 3) /\ (Store => insn.op = 35)
        /\ (BranchStep => insn.op = 99) /\ (CsrStep => insn.op = 115)
        /\ (MachineReturn => insn.op = 115)
    BY DEF LoadUpper, Immediate, AddRegs, Load, Store, BranchStep, CsrStep, MachineReturn, Fetches
  <1> QED BY <1>1, SMT DEF Execute

\* The registers but rd stay as they are, and so does what the word is not about.
Puts(rd, w) == x' = IF rd = 0 THEN x ELSE [x EXCEPT ![rd] = w]
Quiet == UNCHANGED <<irqs, csr, stores>>
Ahead == pc' = pc + 4

LEMMA AddiStep ==
  ASSUME Execute, NEW rd, NEW r, NEW n, Addi(insn, rd, r, n)
  PROVE  Puts(rd, Plus(x[r], Num(n))) /\ Ahead /\ Quiet
  <1>1. Immediate
    BY OpOf DEF Addi
  <1> QED BY <1>1 DEF Immediate, Addi, SetReg, Puts, x1, Ahead, Next4, Quiet, NoBus, Same

LEMMA LuiStep ==
  ASSUME Execute, NEW rd, NEW h, Lui(insn, rd, h)
  PROVE  Puts(rd, W(h, 0)) /\ Ahead /\ Quiet
  <1>1. LoadUpper
    BY OpOf DEF Lui
  <1> QED BY <1>1 DEF LoadUpper, Lui, SetReg, Puts, Ahead, Next4, Quiet, NoBus, Same

LEMMA LwStep ==
  ASSUME Execute, NEW rd, NEW r, NEW n, Lw(insn, rd, r, n)
  PROVE  (\E w : Puts(rd, w)) /\ Ahead /\ Quiet
  <1>1. Load
    BY OpOf DEF Lw
  <1>2. \E w : SetReg(w)
    BY <1>1 DEF Load
  <1>3. \A w : SetReg(w) => Puts(rd, w)
    BY DEF Lw, SetReg, Puts
  <1>4. Ahead /\ Quiet
    BY <1>1 DEF Load, Ahead, Next4, Quiet, NoBus, Same
  <1> QED BY <1>2, <1>3, <1>4

LEMMA SwStep ==
  ASSUME Execute, NEW rs2, NEW rs1, NEW n, Sw(insn, rs2, rs1, n),
         NEW t, t = Arrives(AddressOf(Plus(x[rs1], Num(n))))
  PROVE  /\ stores' = IF t = {} THEN stores ELSE Append(stores, <<t, x[rs2]>>)
         /\ Ahead /\ UNCHANGED <<x, irqs, csr>>
  <1>1. Store
    BY OpOf DEF Sw
  <1>2. Ahead /\ UNCHANGED <<x, irqs, csr>>
    BY <1>1 DEF Store, Ahead, Next4, Same
  <1>3. StoreAddress = AddressOf(Plus(x[rs1], Num(n))) /\ x2 = x[rs2]
    BY DEF Sw, StoreAddress, x1, x2
  <1>4. stores' = IF Arrives(StoreAddress) = {} THEN stores
                  ELSE Append(stores, <<Arrives(StoreAddress), x2>>)
    BY <1>1 DEF Store
  <1> QED BY <1>2, <1>3, <1>4

LEMMA BeqStep ==
  ASSUME Execute, NEW n, Beq(insn, 0, 0, n)
  PROVE  pc' = pc + n /\ UNCHANGED x /\ Quiet
  <1>1. BranchStep
    BY OpOf DEF Beq
  <1> QED BY <1>1 DEF BranchStep, Beq, x1, x2, Quiet, NoBus, Same

LEMMA CsrrStep ==
  ASSUME Execute, NEW rd, NEW c, System3(insn, 2, rd, 0, c)
  PROVE  /\ c = 834 => Puts(rd, csr.mcause)
         /\ c = 833 => Puts(rd, csr.mepc)
         /\ Ahead /\ Quiet
  <1>1. CsrStep
    BY OpOf DEF System3, MachineReturn
  <1>2. csr_addr = c /\ insn.f3 = 2 /\ insn.rs1 = 0 /\ insn.rd = rd
    BY DEF System3, csr_addr
  <1>3. csr' = csr
    <2>1. 2 % 4 = 2
      OBVIOUS
    <2> QED BY <1>1, <1>2, <2>1 DEF CsrStep
  <1>4. /\ c = 834 => CsrRead = csr.mcause
        /\ c = 833 => CsrRead = csr.mepc
    BY <1>2 DEF CsrRead
  <1>5. Puts(rd, CsrRead) /\ Ahead /\ UNCHANGED <<irqs, stores>>
    BY <1>1, <1>2 DEF CsrStep, SetReg, Puts, Ahead, Next4, NoBus, Same
  <1> QED BY <1>3, <1>4, <1>5 DEF Quiet

LEMMA CsrwStep ==
  ASSUME Execute, NEW r, NEW c, System3(insn, 1, 0, r, c)
  PROVE  /\ c = 773 => csr' = [csr EXCEPT !.mtvec = Aligned(x[r])]
         /\ c = 772 => csr' = [csr EXCEPT !.mie = x[r]]
         /\ Ahead /\ UNCHANGED <<x, irqs, stores>>
  <1>1. CsrStep
    BY OpOf DEF System3, MachineReturn
  <1>2. csr_addr = c /\ insn.f3 = 1 /\ insn.rs1 = r /\ insn.rd = 0
    BY DEF System3, csr_addr
  <1>3. csr' = CsrWritten(x[r])
    <2>1. 1 % 4 = 1 /\ ~(1 >= 4)
      OBVIOUS
    <2> QED BY <1>1, <1>2, <2>1 DEF CsrStep, x1
  <1>4. Ahead /\ UNCHANGED <<x, irqs, stores>>
    BY <1>1, <1>2 DEF CsrStep, SetReg, Ahead, Next4, NoBus, Same
  <1> QED BY <1>2, <1>3, <1>4 DEF CsrWritten

LEMMA CsrsiStep ==
  ASSUME Execute, SocTypeOK, System3(insn, 6, 0, 8, 768)
  PROVE  /\ csr'.mepc = csr.mepc /\ csr'.mtvec = csr.mtvec
         /\ Ahead /\ UNCHANGED <<x, irqs, stores>>
  <1>1. CsrStep
    BY OpOf DEF System3, MachineReturn
  <1>2. csr_addr = 768 /\ insn.f3 = 6 /\ insn.rs1 = 8 /\ insn.rd = 0
    BY DEF System3, csr_addr
  <1>3. csr' = CsrWritten(BitsOr(CsrRead, Num(8)))
    <2>1. 6 % 4 = 2 /\ 6 >= 4
      OBVIOUS
    <2> QED BY <1>1, <1>2, <2>1 DEF CsrStep
  <1>4. Ahead /\ UNCHANGED <<x, irqs, stores>>
    BY <1>1, <1>2 DEF CsrStep, SetReg, Ahead, Next4, NoBus, Same
  <1>5. ASSUME NEW w PROVE CsrWritten(w).mepc = csr.mepc /\ CsrWritten(w).mtvec = csr.mtvec
    <2>1. CsrWritten(w) = [csr EXCEPT !.MIE = (w.lo \div 8) % 2, !.MPIE = (w.lo \div 128) % 2]
      BY <1>2 DEF CsrWritten
    <2> QED BY <2>1
  <1> QED BY <1>3, <1>4, <1>5

LEMMA MretStep ==
  ASSUME Execute, SocTypeOK, System3(insn, 0, 0, 0, 770)
  PROVE  /\ pc' = AddressOf(csr.mepc) /\ csr'.mepc = csr.mepc /\ csr'.mtvec = csr.mtvec
         /\ UNCHANGED <<x, irqs, stores>>
  <1>1. MachineReturn
    BY OpOf DEF System3, CsrStep
  <1> QED BY <1>1 DEF MachineReturn, NoBus, Same, SocTypeOK

-----------------------------------------------------------------------------
(* The timer program, word by word: k words are before the one executed.    *)

LEMMA PutsReads ==
  ASSUME x \in [0 .. 31 -> Word], NEW rd \in Bits(5), NEW w, Puts(rd, w)
  PROVE  \A r \in Bits(5) : x'[r] = IF r = rd /\ rd # 0 THEN w ELSE x[r]
  <1>1. x \in [Bits(5) -> Word]
    BY RegisterFile
  <1> HIDE DEF Word
  <1> QED BY <1>1 DEF Puts

Lands(r, n, src) ==
  LET t == Arrives(AddressOf(Plus(x[r], Num(n))))
  IN stores' = IF t = {} THEN stores ELSE Append(stores, <<t, x[src]>>)

RegsMove(k) ==
  /\ x'[0] = x[0]
  /\ x'[1] = IF k = 32 THEN Plus(x[0], Num(0))
             ELSE IF k = 33 THEN Plus(x[1], Num(1)) ELSE x[1]
  /\ x'[5] = IF k = 27 THEN Plus(x[0], Num(4)) ELSE x[5]
  /\ x'[20] = IF k = 14 THEN Plus(x[0], Num(0)) ELSE x[20]
  /\ x'[21] = IF k = 1 THEN Plus(x[21], Num(1))
              ELSE IF k = 20 THEN Plus(x[0], Num(0)) ELSE x[21]
  /\ x'[24] = IF k = 17 THEN W(CompareHigh, 0) ELSE x[24]
  /\ x'[27] = IF k = 5 THEN csr.mepc ELSE x[27]
  /\ x'[28] = IF k = 18 THEN W(CompareHigh, 0)
              ELSE IF k = 19 THEN Plus(x[28], Num(4)) ELSE x[28]
CsrsMove(k) ==
  /\ csr'.mepc = csr.mepc
  /\ csr'.mtvec = IF k = 28 THEN Aligned(x[5]) ELSE csr.mtvec
  /\ k \notin {13, 31} => csr'.MIE = csr.MIE
StoresMove(k) ==
  /\ k = 2 => Lands(20, 4, 21)
  /\ k = 4 => Lands(20, 8, 26)
  /\ k = 6 => Lands(20, 12, 27)
  /\ k \in {8, 22} => Lands(24, 0, 25)
  /\ k \in {9, 23} => Lands(28, 0, 0)
  /\ k \in {12, 26} => Lands(24, 0, 23)
  /\ k = 34 => Lands(20, 0, 1)
  /\ k \notin {2, 4, 6, 8, 9, 12, 22, 23, 26, 34} => stores' = stores
TimerMoves(k) ==
  /\ pc' = IF k = 0 THEN 56 ELSE IF k = 13 THEN AddressOf(csr.mepc)
           ELSE IF k = 35 THEN 132 ELSE pc + 4
  /\ RegsMove(k) /\ CsrsMove(k) /\ StoresMove(k) /\ irqs' = irqs

LEMMA WordAt ==
  ASSUME NEW k \in Int, pc = 4 * k PROVE insn = imem[k + 1]
  <1>1. pc \div 4 = k
    BY SMT
  <1> QED BY <1>1 DEF insn

\* A register no table is about.
LEMMA RegsStay ==
  ASSUME x \in [0 .. 31 -> Word], NEW rd \in Bits(5), NEW w, Puts(rd, w),
         NEW k, k \notin {1, 5, 14, 17, 18, 19, 20, 27, 32, 33}, rd \notin {1, 5, 20, 21, 24, 27, 28}
  PROVE  RegsMove(k)
  <1>1. /\ 0 \in Bits(5) /\ 1 \in Bits(5) /\ 5 \in Bits(5) /\ 20 \in Bits(5) /\ 21 \in Bits(5)
        /\ 24 \in Bits(5) /\ 27 \in Bits(5) /\ 28 \in Bits(5)
    BY BitsRange
  <1>2. \A r \in Bits(5) : x'[r] = IF r = rd /\ rd # 0 THEN w ELSE x[r]
    BY PutsReads
  <1>3. \A r \in {0, 1, 5, 20, 21, 24, 27, 28} : x'[r] = x[r]
    BY <1>1, <1>2
  <1> QED BY <1>3 DEF RegsMove

LEMMA RegsMoved ==
  ASSUME x \in [0 .. 31 -> Word], NEW rd \in Bits(5), NEW w, Puts(rd, w), rd # 0
  PROVE  /\ x'[rd] = w
         /\ \A r \in {0, 1, 5, 20, 21, 24, 27, 28} : r # rd => x'[r] = x[r]
  <1>1. /\ 0 \in Bits(5) /\ 1 \in Bits(5) /\ 5 \in Bits(5) /\ 20 \in Bits(5) /\ 21 \in Bits(5)
        /\ 24 \in Bits(5) /\ 27 \in Bits(5) /\ 28 \in Bits(5)
    BY BitsRange
  <1>2. \A r \in Bits(5) : x'[r] = IF r = rd /\ rd # 0 THEN w ELSE x[r]
    BY PutsReads
  <1> QED BY <1>1, <1>2

LEMMA CsrrsiReads == System3(csrrsi(0, 768, 8)[1], 6, 0, 8, 768)
  <1>1. 768 \in Bits(12)
    BY WordRange, SMT DEF Lo12
  <1>2. 8 \in Bits(5) /\ 0 \in Bits(5) /\ 6 \in Bits(3)
    BY BitsRange
  <1> DEFINE s == System(768, 8, 6, 0)
  <1> HIDE DEF s
  <1>3. System3(s[1], 6, 0, 8, 768)
    BY <1>1, <1>2, SystemReads DEF s
  <1> QED BY <1>3 DEF csrrsi, s

LEMMA TimerStep ==
  ASSUME SocTypeOK, TimerImage(imem), NEW k \in 0 .. 35, pc = 4 * k, Execute
  PROVE  TimerMoves(k)
  <1>1. TimerHandler(imem) /\ TimerSetUp(imem) /\ TimerLoop(imem)
    BY DEF TimerImage
  <1>2. x \in [0 .. 31 -> Word]
    BY DEF SocTypeOK
  <1>3. insn = imem[k + 1]
    BY WordAt
  <1>4. /\ 1 \in Bits(5) /\ 5 \in Bits(5) /\ 6 \in Bits(5) /\ 20 \in Bits(5) /\ 21 \in Bits(5)
        /\ 22 \in Bits(5) /\ 23 \in Bits(5) /\ 24 \in Bits(5) /\ 25 \in Bits(5) /\ 26 \in Bits(5)
        /\ 27 \in Bits(5) /\ 28 \in Bits(5)
    BY BitsRange
  <1> HIDE DEF TimerHandler, TimerSetUp, TimerLoop
  <1>5. CASE k = 0
    <2>1. Beq(insn, 0, 0, 56)
      BY <1>1, <1>3, <1>5 DEF TimerSetUp
    <2>2. pc' = pc + (56) /\ UNCHANGED x /\ Quiet
      BY <2>1, BeqStep
    <2>4. RegsMove(k)
      BY <1>5, <2>2 DEF RegsMove
    <2> QED BY <1>5, <2>2, <2>4 DEF TimerMoves, CsrsMove, StoresMove, Quiet
  <1>6. CASE k = 1
    <2>1. Addi(insn, 21, 21, 1)
      BY <1>1, <1>3, <1>6 DEF TimerHandler
    <2>2. Puts(21, Plus(x[21], Num(1))) /\ Ahead /\ Quiet
      BY <2>1, AddiStep
    <2>3. x'[21] = Plus(x[21], Num(1)) /\ \A r \in {0, 1, 5, 20, 21, 24, 27, 28} : r # 21 => x'[r] = x[r]
      BY <1>2, <1>4, <2>2, RegsMoved
    <2>4. RegsMove(k)
      BY <1>6, <2>3 DEF RegsMove
    <2> QED BY <1>6, <2>2, <2>4 DEF TimerMoves, CsrsMove, StoresMove, Ahead, Quiet
  <1>7. CASE k = 2
    <2>1. Sw(insn, 21, 20, 4)
      BY <1>1, <1>3, <1>7 DEF TimerHandler
    <2>2. Lands(20, 4, 21) /\ Ahead /\ UNCHANGED <<x, irqs, csr>>
      BY <2>1, SwStep DEF Lands
    <2>4. RegsMove(k)
      BY <1>7, <2>2 DEF RegsMove
    <2>5. StoresMove(k)
      BY <1>7, <2>2 DEF StoresMove
    <2> QED BY <1>7, <2>2, <2>4, <2>5 DEF TimerMoves, CsrsMove, Ahead
  <1>8. CASE k = 3
    <2>1. System3(insn, 2, 26, 0, 834)
      BY <1>1, <1>3, <1>8 DEF TimerHandler
    <2>2. Puts(26, csr.mcause) /\ Ahead /\ Quiet
      BY <2>1, CsrrStep
    <2>4. RegsMove(k)
      BY <1>2, <1>4, <1>8, <2>2, RegsStay
    <2> QED BY <1>8, <2>2, <2>4 DEF TimerMoves, CsrsMove, StoresMove, Ahead, Quiet
  <1>9. CASE k = 4
    <2>1. Sw(insn, 26, 20, 8)
      BY <1>1, <1>3, <1>9 DEF TimerHandler
    <2>2. Lands(20, 8, 26) /\ Ahead /\ UNCHANGED <<x, irqs, csr>>
      BY <2>1, SwStep DEF Lands
    <2>4. RegsMove(k)
      BY <1>9, <2>2 DEF RegsMove
    <2>5. StoresMove(k)
      BY <1>9, <2>2 DEF StoresMove
    <2> QED BY <1>9, <2>2, <2>4, <2>5 DEF TimerMoves, CsrsMove, Ahead
  <1>10. CASE k = 5
    <2>1. System3(insn, 2, 27, 0, 833)
      BY <1>1, <1>3, <1>10 DEF TimerHandler
    <2>2. Puts(27, csr.mepc) /\ Ahead /\ Quiet
      BY <2>1, CsrrStep
    <2>3. x'[27] = csr.mepc /\ \A r \in {0, 1, 5, 20, 21, 24, 27, 28} : r # 27 => x'[r] = x[r]
      BY <1>2, <1>4, <2>2, RegsMoved
    <2>4. RegsMove(k)
      BY <1>10, <2>3 DEF RegsMove
    <2> QED BY <1>10, <2>2, <2>4 DEF TimerMoves, CsrsMove, StoresMove, Ahead, Quiet
  <1>11. CASE k = 6
    <2>1. Sw(insn, 27, 20, 12)
      BY <1>1, <1>3, <1>11 DEF TimerHandler
    <2>2. Lands(20, 12, 27) /\ Ahead /\ UNCHANGED <<x, irqs, csr>>
      BY <2>1, SwStep DEF Lands
    <2>4. RegsMove(k)
      BY <1>11, <2>2 DEF RegsMove
    <2>5. StoresMove(k)
      BY <1>11, <2>2 DEF StoresMove
    <2> QED BY <1>11, <2>2, <2>4, <2>5 DEF TimerMoves, CsrsMove, Ahead
  <1>12. CASE k = 7
    <2>1. Addi(insn, 25, 0, -1)
      BY <1>1, <1>3, <1>12 DEF TimerHandler
    <2>2. Puts(25, Plus(x[0], Num(-1))) /\ Ahead /\ Quiet
      BY <2>1, AddiStep
    <2>4. RegsMove(k)
      BY <1>2, <1>4, <1>12, <2>2, RegsStay
    <2> QED BY <1>12, <2>2, <2>4 DEF TimerMoves, CsrsMove, StoresMove, Ahead, Quiet
  <1>13. CASE k = 8
    <2>1. Sw(insn, 25, 24, 0)
      BY <1>1, <1>3, <1>13 DEF TimerHandler
    <2>2. Lands(24, 0, 25) /\ Ahead /\ UNCHANGED <<x, irqs, csr>>
      BY <2>1, SwStep DEF Lands
    <2>4. RegsMove(k)
      BY <1>13, <2>2 DEF RegsMove
    <2>5. StoresMove(k)
      BY <1>13, <2>2 DEF StoresMove
    <2> QED BY <1>13, <2>2, <2>4, <2>5 DEF TimerMoves, CsrsMove, Ahead
  <1>14. CASE k = 9
    <2>1. Sw(insn, 0, 28, 0)
      BY <1>1, <1>3, <1>14 DEF TimerHandler
    <2>2. Lands(28, 0, 0) /\ Ahead /\ UNCHANGED <<x, irqs, csr>>
      BY <2>1, SwStep DEF Lands
    <2>4. RegsMove(k)
      BY <1>14, <2>2 DEF RegsMove
    <2>5. StoresMove(k)
      BY <1>14, <2>2 DEF StoresMove
    <2> QED BY <1>14, <2>2, <2>4, <2>5 DEF TimerMoves, CsrsMove, Ahead
  <1>15. CASE k = 10
    <2>1. Lw(insn, 23, 22, 0)
      BY <1>1, <1>3, <1>15 DEF TimerHandler
    <2>2. PICK v : Puts(23, v) /\ Ahead /\ Quiet
      BY <2>1, LwStep
    <2>4. RegsMove(k)
      BY <1>2, <1>4, <1>15, <2>2, RegsStay
    <2> QED BY <1>15, <2>2, <2>4 DEF TimerMoves, CsrsMove, StoresMove, Ahead, Quiet
  <1>16. CASE k = 11
    <2>1. Addi(insn, 23, 23, 400)
      BY <1>1, <1>3, <1>16 DEF TimerHandler
    <2>2. Puts(23, Plus(x[23], Num(400))) /\ Ahead /\ Quiet
      BY <2>1, AddiStep
    <2>4. RegsMove(k)
      BY <1>2, <1>4, <1>16, <2>2, RegsStay
    <2> QED BY <1>16, <2>2, <2>4 DEF TimerMoves, CsrsMove, StoresMove, Ahead, Quiet
  <1>17. CASE k = 12
    <2>1. Sw(insn, 23, 24, 0)
      BY <1>1, <1>3, <1>17 DEF TimerHandler
    <2>2. Lands(24, 0, 23) /\ Ahead /\ UNCHANGED <<x, irqs, csr>>
      BY <2>1, SwStep DEF Lands
    <2>4. RegsMove(k)
      BY <1>17, <2>2 DEF RegsMove
    <2>5. StoresMove(k)
      BY <1>17, <2>2 DEF StoresMove
    <2> QED BY <1>17, <2>2, <2>4, <2>5 DEF TimerMoves, CsrsMove, Ahead
  <1>18. CASE k = 13
    <2>1. System3(insn, 0, 0, 0, 770)
      BY <1>1, <1>3, <1>18 DEF TimerHandler
    <2>2. /\ pc' = AddressOf(csr.mepc) /\ csr'.mepc = csr.mepc /\ csr'.mtvec = csr.mtvec
          /\ UNCHANGED <<x, irqs, stores>>
      BY <2>1, MretStep
    <2>4. RegsMove(k)
      BY <1>18, <2>2 DEF RegsMove
    <2> QED BY <1>18, <2>2, <2>4 DEF TimerMoves, CsrsMove, StoresMove
  <1>19. CASE k = 14
    <2>1. Addi(insn, 20, 0, 0)
      BY <1>1, <1>3, <1>19 DEF TimerSetUp
    <2>2. Puts(20, Plus(x[0], Num(0))) /\ Ahead /\ Quiet
      BY <2>1, AddiStep
    <2>3. x'[20] = Plus(x[0], Num(0)) /\ \A r \in {0, 1, 5, 20, 21, 24, 27, 28} : r # 20 => x'[r] = x[r]
      BY <1>2, <1>4, <2>2, RegsMoved
    <2>4. RegsMove(k)
      BY <1>19, <2>3 DEF RegsMove
    <2> QED BY <1>19, <2>2, <2>4 DEF TimerMoves, CsrsMove, StoresMove, Ahead, Quiet
  <1>20. CASE k = 15
    <2>1. Lui(insn, 22, TimeHigh)
      BY <1>1, <1>3, <1>20 DEF TimerSetUp
    <2>2. Puts(22, W(TimeHigh, 0)) /\ Ahead /\ Quiet
      BY <2>1, LuiStep
    <2>4. RegsMove(k)
      BY <1>2, <1>4, <1>20, <2>2, RegsStay
    <2> QED BY <1>20, <2>2, <2>4 DEF TimerMoves, CsrsMove, StoresMove, Ahead, Quiet
  <1>21. CASE k = 16
    <2>1. Addi(insn, 22, 22, -8)
      BY <1>1, <1>3, <1>21 DEF TimerSetUp
    <2>2. Puts(22, Plus(x[22], Num(-8))) /\ Ahead /\ Quiet
      BY <2>1, AddiStep
    <2>4. RegsMove(k)
      BY <1>2, <1>4, <1>21, <2>2, RegsStay
    <2> QED BY <1>21, <2>2, <2>4 DEF TimerMoves, CsrsMove, StoresMove, Ahead, Quiet
  <1>22. CASE k = 17
    <2>1. Lui(insn, 24, CompareHigh)
      BY <1>1, <1>3, <1>22 DEF TimerSetUp
    <2>2. Puts(24, W(CompareHigh, 0)) /\ Ahead /\ Quiet
      BY <2>1, LuiStep
    <2>3. x'[24] = W(CompareHigh, 0) /\ \A r \in {0, 1, 5, 20, 21, 24, 27, 28} : r # 24 => x'[r] = x[r]
      BY <1>2, <1>4, <2>2, RegsMoved
    <2>4. RegsMove(k)
      BY <1>22, <2>3 DEF RegsMove
    <2> QED BY <1>22, <2>2, <2>4 DEF TimerMoves, CsrsMove, StoresMove, Ahead, Quiet
  <1>23. CASE k = 18
    <2>1. Lui(insn, 28, CompareHigh)
      BY <1>1, <1>3, <1>23 DEF TimerSetUp
    <2>2. Puts(28, W(CompareHigh, 0)) /\ Ahead /\ Quiet
      BY <2>1, LuiStep
    <2>3. x'[28] = W(CompareHigh, 0) /\ \A r \in {0, 1, 5, 20, 21, 24, 27, 28} : r # 28 => x'[r] = x[r]
      BY <1>2, <1>4, <2>2, RegsMoved
    <2>4. RegsMove(k)
      BY <1>23, <2>3 DEF RegsMove
    <2> QED BY <1>23, <2>2, <2>4 DEF TimerMoves, CsrsMove, StoresMove, Ahead, Quiet
  <1>24. CASE k = 19
    <2>1. Addi(insn, 28, 28, 4)
      BY <1>1, <1>3, <1>24 DEF TimerSetUp
    <2>2. Puts(28, Plus(x[28], Num(4))) /\ Ahead /\ Quiet
      BY <2>1, AddiStep
    <2>3. x'[28] = Plus(x[28], Num(4)) /\ \A r \in {0, 1, 5, 20, 21, 24, 27, 28} : r # 28 => x'[r] = x[r]
      BY <1>2, <1>4, <2>2, RegsMoved
    <2>4. RegsMove(k)
      BY <1>24, <2>3 DEF RegsMove
    <2> QED BY <1>24, <2>2, <2>4 DEF TimerMoves, CsrsMove, StoresMove, Ahead, Quiet
  <1>25. CASE k = 20
    <2>1. Addi(insn, 21, 0, 0)
      BY <1>1, <1>3, <1>25 DEF TimerSetUp
    <2>2. Puts(21, Plus(x[0], Num(0))) /\ Ahead /\ Quiet
      BY <2>1, AddiStep
    <2>3. x'[21] = Plus(x[0], Num(0)) /\ \A r \in {0, 1, 5, 20, 21, 24, 27, 28} : r # 21 => x'[r] = x[r]
      BY <1>2, <1>4, <2>2, RegsMoved
    <2>4. RegsMove(k)
      BY <1>25, <2>3 DEF RegsMove
    <2> QED BY <1>25, <2>2, <2>4 DEF TimerMoves, CsrsMove, StoresMove, Ahead, Quiet
  <1>26. CASE k = 21
    <2>1. Addi(insn, 25, 0, -1)
      BY <1>1, <1>3, <1>26 DEF TimerSetUp
    <2>2. Puts(25, Plus(x[0], Num(-1))) /\ Ahead /\ Quiet
      BY <2>1, AddiStep
    <2>4. RegsMove(k)
      BY <1>2, <1>4, <1>26, <2>2, RegsStay
    <2> QED BY <1>26, <2>2, <2>4 DEF TimerMoves, CsrsMove, StoresMove, Ahead, Quiet
  <1>27. CASE k = 22
    <2>1. Sw(insn, 25, 24, 0)
      BY <1>1, <1>3, <1>27 DEF TimerSetUp
    <2>2. Lands(24, 0, 25) /\ Ahead /\ UNCHANGED <<x, irqs, csr>>
      BY <2>1, SwStep DEF Lands
    <2>4. RegsMove(k)
      BY <1>27, <2>2 DEF RegsMove
    <2>5. StoresMove(k)
      BY <1>27, <2>2 DEF StoresMove
    <2> QED BY <1>27, <2>2, <2>4, <2>5 DEF TimerMoves, CsrsMove, Ahead
  <1>28. CASE k = 23
    <2>1. Sw(insn, 0, 28, 0)
      BY <1>1, <1>3, <1>28 DEF TimerSetUp
    <2>2. Lands(28, 0, 0) /\ Ahead /\ UNCHANGED <<x, irqs, csr>>
      BY <2>1, SwStep DEF Lands
    <2>4. RegsMove(k)
      BY <1>28, <2>2 DEF RegsMove
    <2>5. StoresMove(k)
      BY <1>28, <2>2 DEF StoresMove
    <2> QED BY <1>28, <2>2, <2>4, <2>5 DEF TimerMoves, CsrsMove, Ahead
  <1>29. CASE k = 24
    <2>1. Lw(insn, 23, 22, 0)
      BY <1>1, <1>3, <1>29 DEF TimerSetUp
    <2>2. PICK v : Puts(23, v) /\ Ahead /\ Quiet
      BY <2>1, LwStep
    <2>4. RegsMove(k)
      BY <1>2, <1>4, <1>29, <2>2, RegsStay
    <2> QED BY <1>29, <2>2, <2>4 DEF TimerMoves, CsrsMove, StoresMove, Ahead, Quiet
  <1>30. CASE k = 25
    <2>1. Addi(insn, 23, 23, 400)
      BY <1>1, <1>3, <1>30 DEF TimerSetUp
    <2>2. Puts(23, Plus(x[23], Num(400))) /\ Ahead /\ Quiet
      BY <2>1, AddiStep
    <2>4. RegsMove(k)
      BY <1>2, <1>4, <1>30, <2>2, RegsStay
    <2> QED BY <1>30, <2>2, <2>4 DEF TimerMoves, CsrsMove, StoresMove, Ahead, Quiet
  <1>31. CASE k = 26
    <2>1. Sw(insn, 23, 24, 0)
      BY <1>1, <1>3, <1>31 DEF TimerSetUp
    <2>2. Lands(24, 0, 23) /\ Ahead /\ UNCHANGED <<x, irqs, csr>>
      BY <2>1, SwStep DEF Lands
    <2>4. RegsMove(k)
      BY <1>31, <2>2 DEF RegsMove
    <2>5. StoresMove(k)
      BY <1>31, <2>2 DEF StoresMove
    <2> QED BY <1>31, <2>2, <2>4, <2>5 DEF TimerMoves, CsrsMove, Ahead
  <1>32. CASE k = 27
    <2>1. Addi(insn, 5, 0, 4)
      BY <1>1, <1>3, <1>32 DEF TimerSetUp
    <2>2. Puts(5, Plus(x[0], Num(4))) /\ Ahead /\ Quiet
      BY <2>1, AddiStep
    <2>3. x'[5] = Plus(x[0], Num(4)) /\ \A r \in {0, 1, 5, 20, 21, 24, 27, 28} : r # 5 => x'[r] = x[r]
      BY <1>2, <1>4, <2>2, RegsMoved
    <2>4. RegsMove(k)
      BY <1>32, <2>3 DEF RegsMove
    <2> QED BY <1>32, <2>2, <2>4 DEF TimerMoves, CsrsMove, StoresMove, Ahead, Quiet
  <1>33. CASE k = 28
    <2>1. System3(insn, 1, 0, 5, 773)
      BY <1>1, <1>3, <1>33 DEF TimerSetUp
    <2>2. csr' = [csr EXCEPT !.mtvec = Aligned(x[5])] /\ Ahead /\ UNCHANGED <<x, irqs, stores>>
      BY <2>1, CsrwStep
    <2>3. CsrsMove(k)
      <3>1. csr \in CsrType
        BY SocTypeSplit
      <3> QED BY <1>33, <2>2, <3>1 DEF CsrsMove, CsrType
    <2>4. RegsMove(k)
      BY <1>33, <2>2 DEF RegsMove
    <2> QED BY <1>33, <2>2, <2>3, <2>4 DEF TimerMoves, StoresMove, Ahead
  <1>34. CASE k = 29
    <2>1. Addi(insn, 6, 0, 128)
      BY <1>1, <1>3, <1>34 DEF TimerSetUp
    <2>2. Puts(6, Plus(x[0], Num(128))) /\ Ahead /\ Quiet
      BY <2>1, AddiStep
    <2>4. RegsMove(k)
      BY <1>2, <1>4, <1>34, <2>2, RegsStay
    <2> QED BY <1>34, <2>2, <2>4 DEF TimerMoves, CsrsMove, StoresMove, Ahead, Quiet
  <1>35. CASE k = 30
    <2>1. System3(insn, 1, 0, 6, 772)
      BY <1>1, <1>3, <1>35 DEF TimerSetUp
    <2>2. csr' = [csr EXCEPT !.mie = x[6]] /\ Ahead /\ UNCHANGED <<x, irqs, stores>>
      BY <2>1, CsrwStep
    <2>3. CsrsMove(k)
      <3>1. csr \in CsrType
        BY SocTypeSplit
      <3> QED BY <1>35, <2>2, <3>1 DEF CsrsMove, CsrType
    <2>4. RegsMove(k)
      BY <1>35, <2>2 DEF RegsMove
    <2> QED BY <1>35, <2>2, <2>3, <2>4 DEF TimerMoves, StoresMove, Ahead
  <1>36. CASE k = 31
    <2>1. System3(insn, 6, 0, 8, 768)
      <3>1. insn = csrrsi(0, 768, 8)[1]
        BY <1>1, <1>3, <1>36 DEF TimerSetUp
      <3> QED BY <3>1, CsrrsiReads
    <2>2. /\ csr'.mepc = csr.mepc /\ csr'.mtvec = csr.mtvec
          /\ Ahead /\ UNCHANGED <<x, irqs, stores>>
      BY <2>1, CsrsiStep
    <2>4. RegsMove(k)
      BY <1>36, <2>2 DEF RegsMove
    <2> QED BY <1>36, <2>2, <2>4 DEF TimerMoves, CsrsMove, StoresMove, Ahead
  <1>37. CASE k = 32
    <2>1. Addi(insn, 1, 0, 0)
      BY <1>1, <1>3, <1>37 DEF TimerLoop
    <2>2. Puts(1, Plus(x[0], Num(0))) /\ Ahead /\ Quiet
      BY <2>1, AddiStep
    <2>3. x'[1] = Plus(x[0], Num(0)) /\ \A r \in {0, 1, 5, 20, 21, 24, 27, 28} : r # 1 => x'[r] = x[r]
      BY <1>2, <1>4, <2>2, RegsMoved
    <2>4. RegsMove(k)
      BY <1>37, <2>3 DEF RegsMove
    <2> QED BY <1>37, <2>2, <2>4 DEF TimerMoves, CsrsMove, StoresMove, Ahead, Quiet
  <1>38. CASE k = 33
    <2>1. Addi(insn, 1, 1, 1)
      BY <1>1, <1>3, <1>38 DEF TimerLoop
    <2>2. Puts(1, Plus(x[1], Num(1))) /\ Ahead /\ Quiet
      BY <2>1, AddiStep
    <2>3. x'[1] = Plus(x[1], Num(1)) /\ \A r \in {0, 1, 5, 20, 21, 24, 27, 28} : r # 1 => x'[r] = x[r]
      BY <1>2, <1>4, <2>2, RegsMoved
    <2>4. RegsMove(k)
      BY <1>38, <2>3 DEF RegsMove
    <2> QED BY <1>38, <2>2, <2>4 DEF TimerMoves, CsrsMove, StoresMove, Ahead, Quiet
  <1>39. CASE k = 34
    <2>1. Sw(insn, 1, 20, 0)
      BY <1>1, <1>3, <1>39 DEF TimerLoop
    <2>2. Lands(20, 0, 1) /\ Ahead /\ UNCHANGED <<x, irqs, csr>>
      BY <2>1, SwStep DEF Lands
    <2>4. RegsMove(k)
      BY <1>39, <2>2 DEF RegsMove
    <2>5. StoresMove(k)
      BY <1>39, <2>2 DEF StoresMove
    <2> QED BY <1>39, <2>2, <2>4, <2>5 DEF TimerMoves, CsrsMove, Ahead
  <1>40. CASE k = 35
    <2>1. Beq(insn, 0, 0, -8)
      BY <1>1, <1>3, <1>40 DEF TimerLoop
    <2>2. pc' = pc + (-8) /\ UNCHANGED x /\ Quiet
      BY <2>1, BeqStep
    <2>4. RegsMove(k)
      BY <1>40, <2>2 DEF RegsMove
    <2> QED BY <1>40, <2>2, <2>4 DEF TimerMoves, CsrsMove, StoresMove, Quiet
  <1> QED BY <1>5, <1>6, <1>7, <1>8, <1>9, <1>10, <1>11, <1>12, <1>13, <1>14, <1>15, <1>16,
            <1>17, <1>18, <1>19, <1>20, <1>21, <1>22, <1>23, <1>24, <1>25, <1>26, <1>27, <1>28,
            <1>29, <1>30, <1>31, <1>32, <1>33, <1>34, <1>35, <1>36, <1>37, <1>38, <1>39, <1>40

-----------------------------------------------------------------------------
(* Sums of small numbers, and where the program's stores arrive.            *)

LEMMA NumSum ==
  ASSUME NEW a \in Int, NEW b \in Int
  PROVE  Plus(Num(a), Num(b)) = Num(a + b)
  <1> DEFINE qa == a \div Lo12
             ra == a % Lo12
             qb == b \div Lo12
             rb == b % Lo12
             c  == (ra + rb) \div Lo12
  <1>1. /\ qa \in Int /\ qb \in Int /\ ra \in Int /\ rb \in Int /\ c \in Int
        /\ 0 <= ra /\ ra < Lo12 /\ 0 <= rb /\ rb < Lo12
    BY Sizes, Remainder
  <1>2. (a + b) \div Lo12 = qa + qb + c /\ (a + b) % Lo12 = (ra + rb) % Lo12
    BY SMT DEF Lo12
  <1>3. ((qa % Hi20) + (qb % Hi20) + c) % Hi20 = (qa + qb + c) % Hi20
    <2> HIDE DEF qa, qb, c
    <2> QED BY <1>1, SMT DEF Hi20
  <1>4. /\ Num(a).hi = qa % Hi20 /\ Num(a).lo = ra
        /\ Num(b).hi = qb % Hi20 /\ Num(b).lo = rb
    BY DEF Num, W
  <1>5. Plus(Num(a), Num(b)) = W(((qa % Hi20) + (qb % Hi20) + c) % Hi20, (ra + rb) % Lo12)
    <2> HIDE DEF qa, qb, ra, rb
    <2> QED BY <1>4 DEF Plus
  <1>6. Num(a + b) = W((qa + qb + c) % Hi20, (ra + rb) % Lo12)
    <2> HIDE DEF qa, qb, ra, rb, c
    <2> QED BY <1>2 DEF Num
  <1> QED BY <1>3, <1>5, <1>6

LEMMA NumAddress ==
  ASSUME NEW n \in Int, 0 <= n, n <= 2147483647
  PROVE  AddressOf(Num(n)) = n
  <1>1. /\ n \div Lo12 < Hi20 \div 2 /\ (n \div Lo12) % Hi20 = n \div Lo12
        /\ (n \div Lo12) * Lo12 + (n % Lo12) = n
    BY SMT DEF Lo12, Hi20
  <1>2. Num(n).hi = n \div Lo12 /\ Num(n).lo = n % Lo12
    BY <1>1, SMT DEF Num, W
  <1> QED BY <1>1, <1>2, SMT DEF AddressOf

LEMMA NumFour == Num(4) = W(0, 4) /\ Aligned(Num(4)) = Num(4) /\ Num(0) = W(0, 0)
  <1>1. Num(4) = W(0, 4) /\ Num(0) = W(0, 0)
    BY SMT DEF Num, Lo12, Hi20
  <1>2. W(0, 4).hi = 0 /\ W(0, 4).lo = 4
    BY DEF W
  <1>3. Aligned(W(0, 4)) = W(0, 4)
    <2>1. 4 - (4 % 4) = 4
      OBVIOUS
    <2> QED BY <1>2, <2>1 DEF Aligned
  <1> QED BY <1>1, <1>3

LEMMA PlusZero == ASSUME NEW n \in Int PROVE Plus(Num(0), Num(n)) = Num(n)
  <1>1. 0 + n = n
    OBVIOUS
  <1> QED BY <1>1, NumSum

LEMMA RamTarget ==
  ASSUME NEW n \in Int, 0 <= n, n <= 268435455
  PROVE  Arrives(AddressOf(Plus(Num(0), Num(n)))) = {<<"ram", n>>}
  <1>1. Plus(Num(0), Num(n)) = Num(n)
    BY PlusZero, SMT
  <1>2. AddressOf(Num(n)) = n
    BY NumAddress, SMT
  <1>3. Selected(n) = {"ram"}
    BY SelectedSlaves, SMT
  <1>4. Target("ram", n) = <<"ram", n>>
    BY SMT DEF Target
  <1> QED BY <1>1, <1>2, <1>3, <1>4, SMT DEF Arrives

LEMMA ClintTargets ==
  /\ Plus(W(CompareHigh, 0), Num(4)) = W(CompareHigh, 4)
  /\ Arrives(AddressOf(Plus(W(CompareHigh, 0), Num(0)))) = {<<"clint", "MTIMECMP_LO">>}
  /\ Arrives(AddressOf(Plus(W(CompareHigh, 4), Num(0)))) = {<<"clint", "MTIMECMP_HI">>}
  <1>1. Num(1073758208) = W(CompareHigh, 0) /\ Num(1073758212) = W(CompareHigh, 4)
    BY SMTT(30) DEF Num, Lo12, Hi20, CompareHigh
  <1>2. /\ 1073758208 + 4 = 1073758212 /\ 1073758208 + 0 = 1073758208
        /\ 1073758212 + 0 = 1073758212
    BY SMT
  <1>3. /\ Plus(W(CompareHigh, 0), Num(4)) = W(CompareHigh, 4)
        /\ Plus(W(CompareHigh, 0), Num(0)) = W(CompareHigh, 0)
        /\ Plus(W(CompareHigh, 4), Num(0)) = W(CompareHigh, 4)
    <2>1. /\ Plus(Num(1073758208), Num(4)) = Num(1073758212)
          /\ Plus(Num(1073758208), Num(0)) = Num(1073758208)
          /\ Plus(Num(1073758212), Num(0)) = Num(1073758212)
      BY <1>2, NumSum, SMTT(30)
    <2> QED BY <1>1, <2>1, SMT
  <1>4. AddressOf(Num(1073758208)) = 1073758208 /\ AddressOf(Num(1073758212)) = 1073758212
    BY NumAddress, SMT
  <1>5. Selected(1073758208) = {"clint"} /\ Selected(1073758212) = {"clint"}
    BY SelectedSlaves, SMT
  <1>6. 1073758208 % 65536 = 16384 /\ 1073758212 % 65536 = 16388
    BY SMT
  <1>7. Named(ClintReg, 16384) = "MTIMECMP_LO" /\ Named(ClintReg, 16388) = "MTIMECMP_HI"
    <2>1. /\ "MTIMECMP_LO" \in DOMAIN ClintReg /\ ClintReg["MTIMECMP_LO"] = 16384
          /\ "MTIMECMP_HI" \in DOMAIN ClintReg /\ ClintReg["MTIMECMP_HI"] = 16388
      BY DEF ClintReg
    <2> HIDE DEF ClintReg
    <2>2. /\ Named(ClintReg, ClintReg["MTIMECMP_LO"]) = "MTIMECMP_LO"
          /\ Named(ClintReg, ClintReg["MTIMECMP_HI"]) = "MTIMECMP_HI"
      BY <2>1, OneOffset, NamedBack, SMT
    <2> QED BY <2>1, <2>2, SMT
  <1>8. /\ Arrives(1073758208) = {<<"clint", "MTIMECMP_LO">>}
        /\ Arrives(1073758212) = {<<"clint", "MTIMECMP_HI">>}
    BY <1>5, <1>6, <1>7, ArrivesAt, SMT
  <1> QED BY <1>1, <1>3, <1>4, <1>8, SMT

-----------------------------------------------------------------------------
(* Counting stores.                                                        *)

Tally(st, s, n) == Cardinality({i \in 1 .. n : st[i][1] = Slot(s)})

LEMMA TallyAppend ==
  ASSUME NEW S, NEW st \in Seq(S), NEW e \in S, NEW s \in Int
  PROVE  /\ \A i \in 1 .. Len(st) : Tally(Append(st, e), s, i) = Tally(st, s, i)
         /\ Tally(Append(st, e), s, Len(st) + 1)
              = Tally(st, s, Len(st)) + (IF e[1] = Slot(s) THEN 1 ELSE 0)
         /\ Tally(st, s, Len(st)) \in Nat
  <1> DEFINE n == Len(st)
             longer == Append(st, e)
             Hits(q, m) == {i \in 1 .. m : q[i][1] = Slot(s)}
  <1>1. /\ longer \in Seq(S) /\ Len(longer) = n + 1 /\ longer[n + 1] = e /\ n \in Nat
        /\ \A i \in 1 .. n : longer[i] = st[i]
    OBVIOUS
  <1> HIDE DEF longer
  <1>2. ASSUME NEW i \in 0 .. n PROVE Hits(longer, i) = Hits(st, i)
    <2>1. \A j \in 1 .. i : longer[j] = st[j]
      BY <1>1
    <2> QED BY <2>1
  <1>3. IsFiniteSet(Hits(st, n)) /\ Cardinality(Hits(st, n)) \in Nat
    <2>1. IsFiniteSet(1 .. n)
      BY <1>1, FS_Interval
    <2>2. IsFiniteSet(Hits(st, n))
      BY <2>1, FS_Subset
    <2> QED BY <2>2, FS_CardinalityType
  <1>4. \A q, m : Tally(q, s, m) = Cardinality(Hits(q, m))
    BY DEF Tally
  <1>5. \A i \in 1 .. n : Tally(longer, s, i) = Tally(st, s, i)
    <2> HIDE DEF Hits
    <2> QED BY <1>1, <1>2, <1>4
  <1>8. Tally(st, s, n) \in Nat
    <2> HIDE DEF Hits
    <2> QED BY <1>3, <1>4
  <1>6. CASE e[1] = Slot(s)
    <2>1. Hits(longer, n + 1) = Hits(longer, n) \cup {n + 1} /\ n + 1 \notin Hits(st, n)
      BY <1>1, <1>6
    <2>2. Hits(longer, n) = Hits(st, n)
      <3>1. n \in 0 .. n
        BY <1>1
      <3> HIDE DEF Hits
      <3> QED BY <1>2, <3>1
    <2> HIDE DEF Hits
    <2>3. Cardinality(Hits(st, n) \cup {n + 1}) = Cardinality(Hits(st, n)) + 1
      BY <1>3, <2>1, FS_AddElement
    <2>5. Hits(longer, n + 1) = Hits(st, n) \cup {n + 1}
      BY <2>1, <2>2
    <2>6. /\ Tally(longer, s, n + 1) = Cardinality(Hits(longer, n + 1))
          /\ Tally(st, s, n) = Cardinality(Hits(st, n))
      BY <1>4
    <2>4. Tally(longer, s, n + 1) = Tally(st, s, n) + 1
      BY <2>3, <2>5, <2>6
    <2> QED BY <1>5, <1>6, <1>8, <2>4 DEF longer
  <1>7. CASE e[1] # Slot(s)
    <2>1. Hits(longer, n + 1) = Hits(longer, n)
      BY <1>1, <1>7
    <2>2. Hits(longer, n) = Hits(st, n)
      <3>1. n \in 0 .. n
        BY <1>1
      <3> HIDE DEF Hits
      <3> QED BY <1>2, <3>1
    <2> HIDE DEF Hits
    <2>4. Tally(longer, s, n + 1) = Tally(st, s, n)
      BY <1>4, <2>1, <2>2
    <2> QED BY <1>5, <1>7, <1>8, <2>4 DEF longer
  <1> QED BY <1>6, <1>7 DEF longer

LEMMA SlotsApart ==
  /\ \A i, j \in Int : Slot(i) = Slot(j) => i = j
  /\ \A i \in Int : \A r : Slot(i) # {<<"clint", r>>} /\ Slot(i) # {} /\ {<<"clint", r>>} # {}
  <1>1. ASSUME NEW i, NEW r PROVE Slot(i) # {<<"clint", r>>}
    <2>1. <<"ram", 4 * i>> # <<"clint", r>>
      OBVIOUS
    <2> QED BY <2>1 DEF Slot
  <1>2. ASSUME NEW i \in Int, NEW j \in Int, Slot(i) = Slot(j) PROVE i = j
    <2>1. <<"ram", 4 * i>> = <<"ram", 4 * j>>
      BY <1>2 DEF Slot
    <2> QED BY <2>1
  <1>3. \A a : {a} # {}
    OBVIOUS
  <1> QED BY <1>1, <1>2, <1>3 DEF Slot

\* Where the program has been returned to: into the enable's wake, or the loop.
Returns == {Num(4 * k) : k \in 32 .. 35}

\* TimerStores, of any sequence of stores.
Evidence(st) ==
  /\ st \in Seq(Access \X Word)
  /\ \A i \in DOMAIN st, s \in {0, 1} : st[i][1] = Slot(s) => st[i][2] = Num(Tally(st, s, i))
  /\ \A i \in DOMAIN st : st[i][1] = Slot(3) => st[i][2] \in Returns

LEMMA EvidenceKept ==
  ASSUME NEW st, Evidence(st), NEW t \in Access, NEW w \in Word,
         t = Slot(0) => w = Num(Tally(st, 0, Len(st)) + 1),
         t = Slot(1) => w = Num(Tally(st, 1, Len(st)) + 1),
         t = Slot(3) => w \in Returns
  PROVE  /\ Evidence(Append(st, <<t, w>>))
         /\ \A s \in Int : Tally(Append(st, <<t, w>>), s, Len(Append(st, <<t, w>>)))
                             = Tally(st, s, Len(st)) + (IF t = Slot(s) THEN 1 ELSE 0)
  <1> DEFINE S == Access \X Word
             e == <<t, w>>
             n == Len(st)
             longer == Append(st, e)
  <1>1. st \in Seq(S) /\ e \in S /\ e[1] = t /\ e[2] = w
    BY DEF Evidence
  <1> HIDE DEF S, e
  <1>2. /\ longer \in Seq(S) /\ Len(longer) = n + 1 /\ longer[n + 1] = e /\ n \in Nat
        /\ \A i \in 1 .. n : longer[i] = st[i]
    BY <1>1
  <1>3. \A s \in Int : \A i \in 1 .. n : Tally(longer, s, i) = Tally(st, s, i)
    BY <1>1, TallyAppend
  <1>4. \A s \in Int : Tally(longer, s, Len(longer))
                         = Tally(st, s, n) + (IF e[1] = Slot(s) THEN 1 ELSE 0)
    <2>1. \A s \in Int : Tally(longer, s, n + 1)
                           = Tally(st, s, n) + (IF e[1] = Slot(s) THEN 1 ELSE 0)
      BY <1>1, TallyAppend
    <2> QED BY <1>2, <2>1
  <1> HIDE DEF longer
  <1>5. ASSUME NEW i \in DOMAIN longer, NEW s \in {0, 1}, longer[i][1] = Slot(s)
        PROVE  longer[i][2] = Num(Tally(longer, s, i))
    <2>1. i \in 1 .. n \/ i = n + 1
      BY <1>2
    <2>2. CASE i \in 1 .. n
      <3>1. longer[i] = st[i] /\ i \in DOMAIN st /\ Tally(longer, s, i) = Tally(st, s, i)
        BY <1>1, <1>2, <1>3, <2>2
      <3> QED BY <1>5, <3>1 DEF Evidence
    <2>3. CASE i = n + 1
      <3>1. longer[i] = e /\ i = Len(longer) /\ t = Slot(s) /\ s \in Int
        BY <1>1, <1>2, <1>5, <2>3
      <3>2. Tally(longer, s, i) = Tally(st, s, n) + 1
        BY <1>1, <1>4, <3>1
      <3>3. s = 0 \/ s = 1
        OBVIOUS
      <3>4. w = Num(Tally(st, s, n) + 1)
        BY <3>1, <3>3
      <3> QED BY <1>1, <3>1, <3>2, <3>4
    <2> QED BY <2>1, <2>2, <2>3
  <1>6. ASSUME NEW i \in DOMAIN longer, longer[i][1] = Slot(3)
        PROVE  longer[i][2] \in Returns
    <2>1. i \in 1 .. n \/ i = n + 1
      BY <1>2
    <2>2. CASE i \in 1 .. n
      <3>1. longer[i] = st[i] /\ i \in DOMAIN st
        BY <1>1, <1>2, <2>2
      <3> QED BY <1>6, <3>1 DEF Evidence
    <2>3. CASE i = n + 1
      BY <1>1, <1>2, <1>6, <2>3
    <2> QED BY <2>1, <2>2, <2>3
  <1>7. Evidence(longer)
    BY <1>2, <1>5, <1>6 DEF Evidence, S
  <1> QED BY <1>1, <1>4, <1>7 DEF longer, e

LEMMA TimerEvidence ==
  /\ TimerStores <=> Evidence(stores)
  /\ \A s, n : StoresTo(s, n) = Tally(stores, s, n)
  BY DEF TimerStores, Evidence, StoresTo, Tally, Returns

LEMMA StoresKept ==
  ASSUME TimerStores, NEW t \in Access, NEW w \in Word, stores' = Append(stores, <<t, w>>),
         t = Slot(0) => w = Num(StoresTo(0, Len(stores)) + 1),
         t = Slot(1) => w = Num(StoresTo(1, Len(stores)) + 1),
         t = Slot(3) => w \in Returns
  PROVE  /\ TimerStores'
         /\ \A s \in {0, 1} : StoresTo(s, Len(stores))'
                                = StoresTo(s, Len(stores)) + (IF t = Slot(s) THEN 1 ELSE 0)
  <1> DEFINE longer == stores'
  <1>1. Evidence(stores) /\ \A s, n : StoresTo(s, n) = Tally(stores, s, n)
    BY TimerEvidence
  <1>2. /\ TimerStores' <=> Evidence(longer)
        /\ \A s : StoresTo(s, Len(stores))' = Tally(longer, s, Len(longer))
    BY DEF TimerStores, Evidence, StoresTo, Tally, Returns
  <1>3. /\ longer = Append(stores, <<t, w>>)
        /\ t = Slot(0) => w = Num(Tally(stores, 0, Len(stores)) + 1)
        /\ t = Slot(1) => w = Num(Tally(stores, 1, Len(stores)) + 1)
    BY <1>1
  <1> HIDE DEF longer
  <1> DEFINE l == Append(stores, <<t, w>>)
  <1>4. /\ Evidence(l)
        /\ \A s \in Int : Tally(l, s, Len(l))
                            = Tally(stores, s, Len(stores)) + (IF t = Slot(s) THEN 1 ELSE 0)
    BY <1>1, <1>3, EvidenceKept
  <1> HIDE DEF l
  <1>5. longer = l
    BY <1>3 DEF l
  <1> QED BY <1>1, <1>2, <1>4, <1>5

LEMMA StoresSame ==
  ASSUME TimerStores, stores' = stores
  PROVE  /\ TimerStores' /\ StoresTo(0, Len(stores))' = StoresTo(0, Len(stores))
         /\ StoresTo(1, Len(stores))' = StoresTo(1, Len(stores))
  <1>1. \A s, n : StoresTo(s, n)' = StoresTo(s, n)
    BY DEF StoresTo
  <1> QED BY <1>1 DEF TimerStores

-----------------------------------------------------------------------------
(* Every step keeps the timer program's invariant.                         *)

\* In front of which word the program is, and before which the handler returns it.
Stands(k, j) ==
  /\ k \in 0 .. 35 /\ pc = 4 * k
  /\ j \in 32 .. 35 /\ (1 <= k /\ k <= 13 => csr.mepc = Num(4 * j))

LEMMA SomeWord ==
  ASSUME TimerInv PROVE \E k, j \in Int : Stands(k, j)
  <1>1. PICK k \in 0 .. 35 : pc = 4 * k
    BY DEF TimerInv
  <1>2. CASE 1 <= k /\ k <= 13
    <2>1. InHandler
      BY <1>1, <1>2 DEF InHandler, At
    <2>2. PICK j \in 32 .. 35 : csr.mepc = Num(4 * j)
      BY <2>1 DEF TimerInv, TimerCsrs
    <2> QED BY <1>1, <2>2, SMTT(30) DEF Stands
  <1>3. CASE ~(1 <= k /\ k <= 13)
    <2>1. Stands(k, 32)
      BY <1>1, <1>3 DEF Stands
    <2> QED BY <2>1
  <1> QED BY <1>2, <1>3

LEMMA ReturnAddress ==
  ASSUME NEW j \in 32 .. 35 PROVE AddressOf(Num(4 * j)) = 4 * j
  <1>1. 4 * j \in Int /\ 0 <= 4 * j /\ 4 * j <= 2147483647
    BY SMT
  <1> QED BY <1>1, NumAddress, SMT

LEMMA NextWord ==
  ASSUME NEW k \in Int, NEW j \in Int, Stands(k, j), TimerMoves(k)
  PROVE  \E m \in 0 .. 35 :
           /\ pc' = 4 * m
           /\ m = IF k = 0 THEN 14 ELSE IF k = 13 THEN j ELSE IF k = 35 THEN 33 ELSE k + 1
           /\ csr'.mepc = csr.mepc
  <1> DEFINE m == IF k = 0 THEN 14 ELSE IF k = 13 THEN j ELSE IF k = 35 THEN 33 ELSE k + 1
  <1>1. k \in 0 .. 35 /\ pc = 4 * k /\ j \in 32 .. 35 /\ (k = 13 => AddressOf(csr.mepc) = 4 * j)
    BY ReturnAddress DEF Stands
  <1>2. pc' = IF k = 0 THEN 56 ELSE IF k = 13 THEN AddressOf(csr.mepc)
              ELSE IF k = 35 THEN 132 ELSE pc + 4
    BY DEF TimerMoves
  <1>3. m \in 0 .. 35
    BY <1>1
  <1>4. pc' = 4 * m
    BY <1>1, <1>2
  <1>5. csr'.mepc = csr.mepc
    BY DEF TimerMoves, CsrsMove
  <1> QED BY <1>3, <1>4, <1>5

\* Where the word is, for a step from word k to word m.
LEMMA Whereabouts ==
  ASSUME NEW k \in Int, NEW j \in Int, Stands(k, j)
  PROVE  /\ \A a, b \in Int : At(a, b) <=> a <= k /\ k <= b
         /\ InHandler <=> 1 <= k /\ k <= 13
         /\ Resumes = IF 1 <= k /\ k <= 13 THEN 4 * j ELSE 4 * k
  <1>1. \A a, b \in Int : At(a, b) <=> a <= k /\ k <= b
    BY DEF At, Stands
  <1>2. InHandler <=> 1 <= k /\ k <= 13
    BY <1>1 DEF InHandler
  <1> QED BY <1>1, <1>2, ReturnAddress DEF Resumes, Stands

LEMMA Thereabouts ==
  ASSUME NEW m \in Int, NEW j \in 32 .. 35, pc' = 4 * m,
         1 <= m /\ m <= 13 => csr'.mepc = Num(4 * j)
  PROVE  /\ \A a, b \in Int : At(a, b)' <=> a <= m /\ m <= b
         /\ InHandler' <=> 1 <= m /\ m <= 13
         /\ Resumes' = IF 1 <= m /\ m <= 13 THEN 4 * j ELSE 4 * m
  <1>1. \A a, b \in Int : At(a, b)' <=> a <= m /\ m <= b
    BY DEF At
  <1>2. InHandler' <=> 1 <= m /\ m <= 13
    BY DEF InHandler, At
  <1> QED BY <1>1, <1>2, ReturnAddress DEF Resumes

LEMMA RegsStep ==
  ASSUME TimerInv, NEW k \in Int, NEW j \in Int, Stands(k, j), TimerMoves(k),
         NEW m \in 0 .. 35, pc' = 4 * m,
         m = (IF k = 0 THEN 14 ELSE IF k = 13 THEN j ELSE IF k = 35 THEN 33 ELSE k + 1)
  PROVE  TimerRegs'
  <1>1. /\ k \in 0 .. 35 /\ pc = 4 * k /\ j \in 32 .. 35
        /\ RegsMove(k) /\ TimerRegs /\ csr'.mepc = csr.mepc
    BY DEF Stands, TimerMoves, CsrsMove, TimerInv
  <1>2. Plus(Num(0), Num(0)) = Num(0) /\ Plus(Num(0), Num(4)) = Num(4)
    BY PlusZero
  <1>3. x'[0] = Num(0) /\ x[0] = Num(0)
    BY <1>1 DEF RegsMove, TimerRegs
  <1>4. ~(At(0, 0) \/ At(14, 14))' => x'[20] = Num(0)
    BY <1>1, <1>2, <1>3 DEF RegsMove, TimerRegs, At
  <1>5. ~(At(0, 0) \/ At(14, 17))' => x'[24] = W(CompareHigh, 0)
    BY <1>1 DEF RegsMove, TimerRegs, At
  <1>6. ~(At(0, 0) \/ At(14, 18))' => x'[28] = W(CompareHigh, IF m = 19 THEN 0 ELSE 4)
    <2>1. CASE k = 19
      <3>1. x[28] = W(CompareHigh, 0)
        BY <1>1, <2>1 DEF TimerRegs, At
      <3>2. x'[28] = Plus(x[28], Num(4))
        BY <1>1, <2>1 DEF RegsMove
      <3> QED BY <2>1, <3>1, <3>2, ClintTargets
    <2>2. CASE k = 18
      BY <1>1, <2>2 DEF RegsMove
    <2>3. CASE k \notin {18, 19}
      <3>1. x'[28] = x[28]
        BY <1>1, <2>3 DEF RegsMove
      <3>2. ~(At(0, 0) \/ At(14, 18))' => ~(At(0, 0) \/ At(14, 18)) /\ ~At(19, 19) /\ m # 19
        BY <1>1, <2>3 DEF At
      <3> QED BY <3>1, <3>2, <1>1 DEF TimerRegs
    <2> QED BY <2>1, <2>2, <2>3
  <1>7. At(28, 28)' => x'[5] = Num(4)
    BY <1>1, <1>2, <1>3 DEF RegsMove, TimerRegs, At
  <1>8. At(6, 6)' => x'[27] = csr'.mepc
    BY <1>1 DEF RegsMove, TimerRegs, At
  <1>9. At(19, 19)' <=> m = 19
    BY DEF At
  <1> QED BY <1>3, <1>4, <1>5, <1>6, <1>7, <1>8, <1>9 DEF TimerRegs

LEMMA CsrsStep ==
  ASSUME TimerInv, SocTypeOK, NEW k \in Int, NEW j \in Int, Stands(k, j), TimerMoves(k),
         NEW m \in 0 .. 35, pc' = 4 * m,
         m = (IF k = 0 THEN 14 ELSE IF k = 13 THEN j ELSE IF k = 35 THEN 33 ELSE k + 1)
  PROVE  TimerCsrs'
  <1>1. /\ k \in 0 .. 35 /\ pc = 4 * k /\ j \in 32 .. 35
        /\ CsrsMove(k) /\ TimerCsrs /\ TimerRegs
    BY DEF Stands, TimerMoves, TimerInv
  <1>2. csr'.MIE = 1 => At(32, 35)'
    BY <1>1 DEF CsrsMove, TimerCsrs, At
  <1>3. ~(At(0, 0) \/ At(14, 28))' => csr'.mtvec = Num(4)
    <2>1. CASE k = 28
      <3>1. x[5] = Num(4)
        BY <1>1, <2>1 DEF TimerRegs, At
      <3>2. csr'.mtvec = Aligned(x[5])
        BY <1>1, <2>1 DEF CsrsMove
      <3> QED BY <3>1, <3>2, NumFour
    <2>2. CASE k # 28
      BY <1>1, <2>2 DEF CsrsMove, TimerCsrs, At
    <2> QED BY <2>1, <2>2
  <1>4. InHandler' => csr'.mepc \in Returns
    <2>1. InHandler' => InHandler
      BY <1>1 DEF InHandler, At
    <2> QED BY <1>1, <2>1 DEF TimerCsrs, CsrsMove, Returns
  <1> QED BY <1>2, <1>3, <1>4 DEF TimerCsrs, Returns

LEMMA LandsInRam ==
  ASSUME NEW s \in 0 .. 3, NEW n, n = 4 * s, NEW r, x[20] = Num(0), Lands(20, n, r)
  PROVE  stores' = Append(stores, <<Slot(s), x[r]>>) /\ Slot(s) \in Access
  <1> DEFINE t == Arrives(AddressOf(Plus(x[20], Num(n))))
  <1>1. n \in Int /\ 0 <= n /\ n <= 268435455
    BY SMT
  <1>2. t = Slot(s)
    BY <1>1, RamTarget, SMT DEF Slot
  <1>3. Slot(s) # {} /\ Slot(s) \in Access
    <2>1. Slot(s) # {}
      BY DEF Slot
    <2> QED BY <2>1 DEF Access
  <1>4. stores' = IF t = {} THEN stores ELSE Append(stores, <<t, x[r]>>)
    BY DEF Lands
  <1> HIDE DEF t
  <1> QED BY <1>2, <1>3, <1>4

LEMMA ClintApart == ASSUME NEW i, NEW c PROVE Slot(i) # {<<"clint", c>>}
  <1>1. <<"ram", 4 * i>> # <<"clint", c>>
    OBVIOUS
  <1> QED BY <1>1 DEF Slot

LEMMA LandsAtClint ==
  ASSUME NEW b, x[b] \in {W(CompareHigh, 0), W(CompareHigh, 4)}, NEW r, Lands(b, 0, r)
  PROVE  \E t \in Access : /\ stores' = Append(stores, <<t, x[r]>>)
                           /\ t # Slot(0) /\ t # Slot(1) /\ t # Slot(3)
  <1> DEFINE t == Arrives(AddressOf(Plus(x[b], Num(0))))
  <1>1. PICK c \in DOMAIN ClintReg : t = {<<"clint", c>>}
    <2>1. "MTIMECMP_LO" \in DOMAIN ClintReg /\ "MTIMECMP_HI" \in DOMAIN ClintReg
      BY DEF ClintReg
    <2>2. CASE x[b] = W(CompareHigh, 0)
      <3>1. t = {<<"clint", "MTIMECMP_LO">>}
        BY <2>2, ClintTargets
      <3> HIDE DEF t
      <3> QED BY <2>1, <3>1
    <2>3. CASE x[b] = W(CompareHigh, 4)
      <3>1. t = {<<"clint", "MTIMECMP_HI">>}
        BY <2>3, ClintTargets
      <3> HIDE DEF t
      <3> QED BY <2>1, <3>1
    <2> QED BY <2>2, <2>3
  <1>2. stores' = IF t = {} THEN stores ELSE Append(stores, <<t, x[r]>>)
    BY DEF Lands
  <1> HIDE DEF t
  <1>3. t # {} /\ t \in Access
    BY <1>1 DEF Access
  <1>4. t # Slot(0) /\ t # Slot(1) /\ t # Slot(3)
    <2>1. ASSUME NEW i \in Int PROVE t # Slot(i)
      <3>1. Slot(i) # {<<"clint", c>>}
        BY ClintApart
      <3> QED BY <1>1, <3>1
    <2> QED BY <2>1, SMT
  <1>5. stores' = Append(stores, <<t, x[r]>>)
    BY <1>2, <1>3
  <1> QED BY <1>3, <1>4, <1>5

LEMMA StoresStep ==
  ASSUME TimerInv, SocTypeOK, NEW k \in Int, NEW j \in Int, Stands(k, j), TimerMoves(k)
  PROVE  /\ TimerStores'
         /\ StoresTo(0, Len(stores))' = StoresTo(0, Len(stores)) + (IF k = 34 THEN 1 ELSE 0)
         /\ StoresTo(1, Len(stores))' = StoresTo(1, Len(stores)) + (IF k = 2 THEN 1 ELSE 0)
  <1> DEFINE loops  == StoresTo(0, Len(stores))
             ticks  == StoresTo(1, Len(stores))
             loops1 == StoresTo(0, Len(stores))'
             ticks1 == StoresTo(1, Len(stores))'
  <1>1. /\ k \in 0 .. 35 /\ pc = 4 * k /\ j \in 32 .. 35
        /\ StoresMove(k) /\ TimerRegs /\ TimerCsrs /\ TimerTallies /\ TimerStores
    BY DEF Stands, TimerMoves, TimerInv
  <1>2. /\ x[1] \in Word /\ x[21] \in Word /\ x[26] \in Word /\ x[27] \in Word
        /\ x[0] \in Word /\ x[23] \in Word /\ x[25] \in Word
    <2>1. /\ 0 \in Bits(5) /\ 1 \in Bits(5) /\ 21 \in Bits(5) /\ 23 \in Bits(5)
          /\ 25 \in Bits(5) /\ 26 \in Bits(5) /\ 27 \in Bits(5)
      BY BitsRange
    <2>2. \A r \in Bits(5) : x[r] \in Word
      BY RegisterFile DEF SocTypeOK
    <2> QED BY <2>1, <2>2
  <1>4. loops \in Nat /\ irqs \in Nat /\ ticks = irqs - (IF At(1, 2) THEN 1 ELSE 0)
    BY <1>1 DEF TimerTallies
  <1>5. At(1, 2) <=> 1 <= k /\ k <= 2
    BY <1>1 DEF At
  <1>6. /\ Slot(0) # Slot(1) /\ Slot(0) # Slot(3) /\ Slot(1) # Slot(3)
        /\ Slot(2) # Slot(0) /\ Slot(2) # Slot(1) /\ Slot(2) # Slot(3)
    BY SlotsApart
  <1>7. ASSUME NEW t \in Access, NEW w \in Word, stores' = Append(stores, <<t, w>>),
               t = Slot(0) => w = Num(loops + 1),
               t = Slot(1) => w = Num(ticks + 1),
               t = Slot(3) => w \in Returns
        PROVE  /\ TimerStores'
               /\ loops1 = loops + (IF t = Slot(0) THEN 1 ELSE 0)
               /\ ticks1 = ticks + (IF t = Slot(1) THEN 1 ELSE 0)
    BY <1>1, <1>7, StoresKept
  <1>8. /\ k # 0 /\ ~(14 <= k /\ k <= 14) => x[20] = Num(0)
        /\ k # 0 /\ ~(14 <= k /\ k <= 17) => x[24] = W(CompareHigh, 0)
        /\ k # 0 /\ ~(14 <= k /\ k <= 19) => x[28] = W(CompareHigh, 4)
    BY <1>1 DEF TimerRegs, At
  <1>15. ticks \in Int
    BY <1>4
  <1> DEFINE Kept == /\ TimerStores'
                     /\ loops1 = loops + (IF k = 34 THEN 1 ELSE 0)
                     /\ ticks1 = ticks + (IF k = 2 THEN 1 ELSE 0)
  <1> SUFFICES Kept
    OBVIOUS
  <1>9. CASE k = 2
    <2> DEFINE w == x[21]
    <2>1. stores' = Append(stores, <<Slot(1), w>>) /\ Slot(1) \in Access
      <3>1. Lands(20, 4, 21) /\ x[20] = Num(0) /\ 1 \in 0 .. 3 /\ 4 = 4 * 1
        BY <1>1, <1>8, <1>9 DEF StoresMove
      <3> QED BY <3>1, LandsInRam
    <2>2. w = Num(irqs) /\ irqs = ticks + 1
      <3>1. At(1, 2) /\ ~At(1, 1) /\ ~(At(0, 0) \/ At(14, 20))
        BY <1>1, <1>9 DEF At
      <3>2. x[21] = Num(irqs)
        BY <1>1, <3>1 DEF TimerTallies
      <3> HIDE DEF loops, ticks
      <3> QED BY <1>4, <3>1, <3>2
    <2>3. w \in Word
      BY <1>2
    <2> HIDE DEF w
    <2>4. w = Num(ticks + 1)
      <3> HIDE DEF loops, ticks
      <3> QED BY <2>2
    <2>5. /\ TimerStores'
          /\ loops1 = loops + (IF Slot(1) = Slot(0) THEN 1 ELSE 0)
          /\ ticks1 = ticks + (IF Slot(1) = Slot(1) THEN 1 ELSE 0)
      <3> HIDE DEF loops, ticks, loops1, ticks1
      <3> QED BY <1>6, <1>7, <2>1, <2>3, <2>4
    <2> HIDE DEF loops, ticks, loops1, ticks1
    <2> QED BY <1>6, <1>9, <2>5
  <1>10. CASE k = 34
    <2> DEFINE w == x[1]
    <2>1. stores' = Append(stores, <<Slot(0), w>>) /\ Slot(0) \in Access
      <3>1. Lands(20, 0, 1) /\ x[20] = Num(0) /\ 0 \in 0 .. 3
        BY <1>1, <1>8, <1>10 DEF StoresMove
      <3>2. 0 = 4 * 0
        OBVIOUS
      <3> HIDE DEF w
      <3>3. stores' = Append(stores, <<Slot(0), x[1]>>) /\ Slot(0) \in Access
        BY <3>1, <3>2, LandsInRam, SMT
      <3> QED BY <3>3 DEF w
    <2>2. w = Num(loops + 1)
      <3>1. Resumes = 4 * 34
        BY <1>10, Whereabouts
      <3> QED BY <1>1, <3>1 DEF TimerTallies
    <2>3. w \in Word
      BY <1>2
    <2> HIDE DEF w, loops, ticks, loops1, ticks1
    <2>5. /\ TimerStores'
          /\ loops1 = loops + (IF Slot(0) = Slot(0) THEN 1 ELSE 0)
          /\ ticks1 = ticks + (IF Slot(0) = Slot(1) THEN 1 ELSE 0)
      BY <1>6, <1>7, <2>1, <2>2, <2>3
    <2> QED BY <1>6, <1>10, <2>5
  <1>11. CASE k = 4
    <2> DEFINE w == x[26]
    <2>1. stores' = Append(stores, <<Slot(2), w>>) /\ Slot(2) \in Access
      <3>1. Lands(20, 8, 26) /\ x[20] = Num(0) /\ 2 \in 0 .. 3 /\ 8 = 4 * 2
        BY <1>1, <1>8, <1>11 DEF StoresMove
      <3> QED BY <3>1, LandsInRam
    <2>3. w \in Word
      BY <1>2
    <2> HIDE DEF w, loops, ticks, loops1, ticks1
    <2>5. /\ TimerStores'
          /\ loops1 = loops + (IF Slot(2) = Slot(0) THEN 1 ELSE 0)
          /\ ticks1 = ticks + (IF Slot(2) = Slot(1) THEN 1 ELSE 0)
      BY <1>6, <1>7, <2>1, <2>3
    <2> QED BY <1>6, <1>11, <2>5
  <1>12. CASE k = 6
    <2> DEFINE w == x[27]
    <2>1. stores' = Append(stores, <<Slot(3), w>>) /\ Slot(3) \in Access
      <3>1. Lands(20, 12, 27) /\ x[20] = Num(0) /\ 3 \in 0 .. 3 /\ 12 = 4 * 3
        BY <1>1, <1>8, <1>12 DEF StoresMove
      <3> QED BY <3>1, LandsInRam
    <2>2. w \in Returns
      <3>1. At(6, 6) /\ InHandler
        BY <1>1, <1>12 DEF InHandler, At
      <3> QED BY <1>1, <3>1 DEF TimerRegs, TimerCsrs, Returns
    <2>3. w \in Word
      BY <1>2
    <2> HIDE DEF w, loops, ticks, loops1, ticks1
    <2>5. /\ TimerStores'
          /\ loops1 = loops + (IF Slot(3) = Slot(0) THEN 1 ELSE 0)
          /\ ticks1 = ticks + (IF Slot(3) = Slot(1) THEN 1 ELSE 0)
      BY <1>6, <1>7, <2>1, <2>2, <2>3
    <2> QED BY <1>6, <1>12, <2>5
  <1>13. CASE k \in {8, 9, 12, 22, 23, 26}
    <2>1. PICK r \in {0, 23, 25} :
            \E t \in Access : /\ stores' = Append(stores, <<t, x[r]>>)
                              /\ t # Slot(0) /\ t # Slot(1) /\ t # Slot(3)
      <3>1. CASE k \in {8, 22}
        <4>1. x[24] = W(CompareHigh, 0) /\ Lands(24, 0, 25)
          BY <1>1, <1>8, <3>1 DEF StoresMove
        <4> QED BY <4>1, LandsAtClint
      <3>2. CASE k \in {12, 26}
        <4>1. x[24] = W(CompareHigh, 0) /\ Lands(24, 0, 23)
          BY <1>1, <1>8, <3>2 DEF StoresMove
        <4> QED BY <4>1, LandsAtClint
      <3>3. CASE k \in {9, 23}
        <4>1. x[28] = W(CompareHigh, 4) /\ Lands(28, 0, 0)
          BY <1>1, <1>8, <3>3 DEF StoresMove
        <4> QED BY <4>1, LandsAtClint
      <3> QED BY <1>13, <3>1, <3>2, <3>3
    <2>2. PICK t \in Access : /\ stores' = Append(stores, <<t, x[r]>>)
                              /\ t # Slot(0) /\ t # Slot(1) /\ t # Slot(3)
      BY <2>1
    <2> DEFINE w == x[r]
    <2>3. w \in Word
      BY <1>2
    <2>4. stores' = Append(stores, <<t, w>>)
      BY <2>2
    <2> HIDE DEF w, loops, ticks, loops1, ticks1
    <2>5. /\ TimerStores'
          /\ loops1 = loops + (IF t = Slot(0) THEN 1 ELSE 0)
          /\ ticks1 = ticks + (IF t = Slot(1) THEN 1 ELSE 0)
      BY <1>7, <2>2, <2>3, <2>4
    <2> QED BY <1>4, <1>13, <2>2, <2>5
  <1>14. CASE k \notin {2, 4, 6, 8, 9, 12, 22, 23, 26, 34}
    <2>1. stores' = stores
      BY <1>1, <1>14 DEF StoresMove
    <2>2. TimerStores' /\ loops1 = loops /\ ticks1 = ticks
      BY <1>1, <2>1, StoresSame
    <2>3. k \notin {2, 34}
      BY <1>14
    <2> HIDE DEF loops, ticks, loops1, ticks1
    <2> QED BY <1>4, <1>15, <2>2, <2>3
  <1> HIDE DEF Kept
  <1> QED BY <1>9, <1>10, <1>11, <1>12, <1>13, <1>14

LEMMA TalliesStep ==
  ASSUME TimerInv, SocTypeOK, NEW k \in Int, NEW j \in Int, Stands(k, j), TimerMoves(k),
         NEW m \in 0 .. 35, pc' = 4 * m, csr'.mepc = csr.mepc,
         m = (IF k = 0 THEN 14 ELSE IF k = 13 THEN j ELSE IF k = 35 THEN 33 ELSE k + 1)
  PROVE  TimerTallies'
  <1> DEFINE loops  == StoresTo(0, Len(stores))
             ticks  == StoresTo(1, Len(stores))
             loops1 == StoresTo(0, Len(stores))'
             ticks1 == StoresTo(1, Len(stores))'
  <1>1. /\ k \in 0 .. 35 /\ j \in 32 .. 35
        /\ RegsMove(k) /\ irqs' = irqs /\ TimerRegs
    BY DEF Stands, TimerMoves, TimerInv
  <1>2. loops1 = loops + (IF k = 34 THEN 1 ELSE 0) /\ ticks1 = ticks + (IF k = 2 THEN 1 ELSE 0)
    BY StoresStep
  <1>3. /\ \A a, b \in Int : At(a, b) <=> a <= k /\ k <= b
        /\ Resumes = IF 1 <= k /\ k <= 13 THEN 4 * j ELSE 4 * k
    BY Whereabouts
  <1>4. /\ \A a, b \in Int : At(a, b)' <=> a <= m /\ m <= b
        /\ Resumes' = IF 1 <= m /\ m <= 13 THEN 4 * j ELSE 4 * m
    <2>1. 1 <= m /\ m <= 13 => csr'.mepc = Num(4 * j)
      BY <1>1 DEF Stands
    <2>2. m \in Int
      OBVIOUS
    <2>3. j \in 32 .. 35 /\ pc' = 4 * m
      BY <1>1
    <2>4. \A a, b \in Int : At(a, b)' <=> a <= m /\ m <= b
      BY <2>1, <2>2, <2>3, Thereabouts, ZenonT(30)
    <2>5. Resumes' = IF 1 <= m /\ m <= 13 THEN 4 * j ELSE 4 * m
      BY <2>1, <2>2, <2>3, Thereabouts
    <2> QED BY <2>4, <2>5
  <1>5. /\ At(0, 0) <=> k = 0
        /\ At(1, 1) <=> k = 1
        /\ At(1, 2) <=> 1 <= k /\ k <= 2
        /\ At(14, 20) <=> 14 <= k /\ k <= 20
        /\ At(14, 31) <=> 14 <= k /\ k <= 31
    BY <1>3
  <1>6. /\ At(0, 0)' <=> m = 0
        /\ At(1, 1)' <=> m = 1
        /\ At(1, 2)' <=> 1 <= m /\ m <= 2
        /\ At(14, 20)' <=> 14 <= m /\ m <= 20
        /\ At(14, 31)' <=> 14 <= m /\ m <= 31
    BY <1>4
  <1>7. /\ irqs \in Nat /\ loops \in Nat
        /\ ticks = irqs - (IF 1 <= k /\ k <= 2 THEN 1 ELSE 0)
        /\ ~(k = 0 \/ (14 <= k /\ k <= 20)) => x[21] = Num(IF k = 1 THEN irqs - 1 ELSE irqs)
        /\ k = 0 \/ (14 <= k /\ k <= 31) => irqs = 0
        /\ Resumes <= 4 * 32 => loops = 0
        /\ Resumes > 4 * 32 => x[1] = Num(IF Resumes = 4 * 34 THEN loops + 1 ELSE loops)
    <2>1. TimerTallies
      BY DEF TimerInv
    <2> QED BY <1>5, <2>1 DEF TimerTallies
  <1> HIDE DEF loops, ticks, loops1, ticks1
  <1>8. ticks1 = irqs' - (IF At(1, 2)' THEN 1 ELSE 0)
    BY <1>1, <1>2, <1>6, <1>7
  <1>9. ~(At(0, 0)' \/ At(14, 20)') => x'[21] = Num(IF At(1, 1)' THEN irqs' - 1 ELSE irqs')
    <2>1. x'[21] = IF k = 1 THEN Plus(x[21], Num(1))
                   ELSE IF k = 20 THEN Plus(x[0], Num(0)) ELSE x[21]
      BY <1>1 DEF RegsMove
    <2>2. CASE k = 1
      <3>1. irqs - 1 \in Int /\ 1 \in Int /\ (irqs - 1) + 1 = irqs /\ m = 2
        BY <1>7, <2>2
      <3>2. Plus(Num(irqs - 1), Num(1)) = Num(irqs)
        BY <3>1, NumSum
      <3>3. x[21] = Num(irqs - 1)
        BY <1>7, <2>2
      <3> QED BY <1>1, <1>6, <2>1, <2>2, <3>1, <3>2, <3>3
    <2>3. CASE k = 20
      <3>1. irqs = 0 /\ m = 21 /\ x[0] = Num(0)
        BY <1>1, <1>7, <2>3 DEF TimerRegs
      <3>2. x'[21] = Num(0)
        BY <2>1, <2>3, <3>1, PlusZero
      <3> QED BY <1>1, <1>6, <3>1, <3>2
    <2>4. CASE k \notin {1, 20}
      <3>1. x'[21] = x[21]
        BY <2>1, <2>4
      <3>2. m # 1 /\ (~(m = 0 \/ (14 <= m /\ m <= 20)) => ~(k = 0 \/ (14 <= k /\ k <= 20)))
        BY <1>1, <2>4
      <3> QED BY <1>1, <1>6, <1>7, <2>4, <3>1, <3>2
    <2> QED BY <2>2, <2>3, <2>4
  <1>10. At(0, 0)' \/ At(14, 31)' => irqs' = 0
    BY <1>1, <1>6, <1>7
  <1>11. Resumes' <= 4 * 32 => loops1 = 0
    BY <1>1, <1>2, <1>3, <1>4, <1>7
  <1>12. Resumes' > 4 * 32 => x'[1] = Num(IF Resumes' = 4 * 34 THEN loops1 + 1 ELSE loops1)
    <2>1. x'[1] = IF k = 32 THEN Plus(x[0], Num(0))
                  ELSE IF k = 33 THEN Plus(x[1], Num(1)) ELSE x[1]
      BY <1>1 DEF RegsMove
    <2>2. CASE k = 32
      <3>1. loops1 = 0 /\ Resumes' = 132 /\ x[0] = Num(0)
        BY <1>1, <1>2, <1>3, <1>4, <1>7, <2>2 DEF TimerRegs
      <3>2. x'[1] = Num(0)
        BY <2>1, <2>2, <3>1, PlusZero
      <3> QED BY <3>1, <3>2
    <2>3. CASE k = 33
      <3>1. loops1 = loops /\ Resumes' = 136 /\ Resumes = 132
        BY <1>2, <1>3, <1>4, <1>7, <2>3
      <3>2. x[1] = Num(loops)
        BY <1>7, <3>1
      <3>3. Plus(Num(loops), Num(1)) = Num(loops + 1)
        <4>1. loops \in Int /\ 1 \in Int
          BY <1>7
        <4> QED BY <4>1, NumSum
      <3> QED BY <2>1, <2>3, <3>1, <3>2, <3>3
    <2>4. CASE k = 34
      <3>1. loops1 = loops + 1 /\ Resumes' = 140 /\ Resumes = 136
        BY <1>2, <1>3, <1>4, <1>7, <2>4
      <3> QED BY <1>7, <2>1, <2>4, <3>1
    <2>5. CASE k = 35
      <3>1. loops1 = loops /\ Resumes' = 132 /\ Resumes = 140
        BY <1>2, <1>3, <1>4, <1>7, <2>5
      <3> QED BY <1>7, <2>1, <2>5, <3>1
    <2>6. CASE k \notin 32 .. 35
      <3>1. loops1 = loops /\ x'[1] = x[1]
        BY <1>2, <1>7, <2>1, <2>6
      <3>2. Resumes' > 4 * 32 => Resumes' = Resumes
        BY <1>1, <1>3, <1>4, <2>6
      <3> QED BY <1>7, <3>1, <3>2
    <2> QED BY <1>1, <2>2, <2>3, <2>4, <2>5, <2>6
  <1>13. loops1 \in Nat /\ irqs' \in Nat
    BY <1>1, <1>2, <1>7
  <1> QED BY <1>8, <1>9, <1>10, <1>11, <1>12, <1>13 DEF TimerTallies, loops1, ticks1

LEMMA ExecuteKeeps ==
  ASSUME SocTypeOK, TimerImage(imem), TimerInv, Execute
  PROVE  TimerInv'
  <1>1. PICK k, j \in Int : Stands(k, j)
    BY SomeWord
  <1>2. TimerMoves(k)
    <2>1. k \in 0 .. 35 /\ pc = 4 * k
      BY <1>1 DEF Stands
    <2> QED BY <2>1, TimerStep
  <1>3. PICK m \in 0 .. 35 :
          /\ pc' = 4 * m
          /\ m = IF k = 0 THEN 14 ELSE IF k = 13 THEN j ELSE IF k = 35 THEN 33 ELSE k + 1
          /\ csr'.mepc = csr.mepc
    BY <1>1, <1>2, NextWord
  <1>4. TimerRegs' /\ TimerCsrs'
    BY <1>1, <1>2, <1>3, RegsStep, CsrsStep
  <1>5. TimerStores'
    BY <1>1, <1>2, StoresStep
  <1>6. TimerTallies'
    BY <1>1, <1>2, <1>3, TalliesStep
  <1> QED BY <1>3, <1>4, <1>5, <1>6 DEF TimerInv

LEMMA InterruptKeeps ==
  ASSUME SocTypeOK, TimerInv, Interrupt
  PROVE  TimerInv'
  <1>1. PICK k, j \in Int : Stands(k, j)
    BY SomeWord
  <1>2. TimerRegs /\ TimerCsrs /\ TimerTallies /\ TimerStores /\ csr.MIE = 1
    BY DEF TimerInv, Interrupt
  <1>3. k \in 32 .. 35 /\ pc = 4 * k
    <2>1. At(32, 35)
      BY <1>2 DEF TimerCsrs
    <2> QED BY <1>1, <2>1 DEF Stands, At
  <1>4. /\ pc' = AddressOf(csr.mtvec) /\ irqs' = irqs + 1
        /\ UNCHANGED <<x, stores>>
        /\ csr' = [csr EXCEPT !.mepc = Num(pc), !.mcause = W(524288, 7),
                              !.MPIE = csr.MIE, !.MIE = 0]
    BY DEF Interrupt, NoBus
  <1>5. csr'.mepc = Num(4 * k) /\ csr'.MIE = 0 /\ csr'.mtvec = csr.mtvec
    BY <1>3, <1>4 DEF SocTypeOK
  <1>6. csr.mtvec = Num(4) /\ pc' = 4 * 1
    <2>1. csr.mtvec = Num(4)
      BY <1>2, <1>3 DEF TimerCsrs, At
    <2>2. 4 \in Int /\ 0 <= 4 /\ 4 <= 2147483647
      BY SMT
    <2>3. AddressOf(Num(4)) = 4
      BY <2>2, NumAddress, SMT
    <2> QED BY <1>4, <2>1, <2>3
  <1>7. /\ \A a, b \in Int : At(a, b)' <=> a <= 1 /\ 1 <= b
        /\ Resumes' = 4 * k
    <2>1. ASSUME NEW m \in Int, m = 1
          PROVE  /\ \A a, b \in Int : At(a, b)' <=> a <= m /\ m <= b
                 /\ Resumes' = 4 * k
      <3>1. pc' = 4 * m /\ csr'.mepc = Num(4 * k) /\ 1 <= m /\ m <= 13
        BY <1>5, <1>6, <2>1
      <3>2. /\ \A a, b \in Int : At(a, b)' <=> a <= m /\ m <= b
            /\ Resumes' = IF 1 <= m /\ m <= 13 THEN 4 * k ELSE 4 * m
        BY <1>3, <3>1, Thereabouts
      <3> QED BY <3>1, <3>2
    <2>2. 1 \in Int
      OBVIOUS
    <2> QED BY <2>1, <2>2
  <1>8. /\ \A a, b \in Int : At(a, b) <=> a <= k /\ k <= b
        /\ Resumes = 4 * k
    <2>1. /\ \A a, b \in Int : At(a, b) <=> a <= k /\ k <= b
          /\ Resumes = IF 1 <= k /\ k <= 13 THEN 4 * j ELSE 4 * k
      BY <1>1, Whereabouts
    <2> QED BY <1>3, <2>1
  <1>9. TimerRegs'
    <2>1. /\ x[0] = Num(0) /\ x[20] = Num(0) /\ x[24] = W(CompareHigh, 0)
          /\ x[28] = W(CompareHigh, 4)
      BY <1>2, <1>3 DEF TimerRegs, At
    <2>2. ~At(19, 19)' /\ ~At(28, 28)' /\ ~At(6, 6)'
      BY <1>7
    <2> QED BY <1>4, <2>1, <2>2 DEF TimerRegs
  <1>10. TimerCsrs'
    BY <1>3, <1>5, <1>6 DEF TimerCsrs
  <1>11. TimerTallies'
    <2> DEFINE loops == StoresTo(0, Len(stores))
               ticks == StoresTo(1, Len(stores))
    <2>1. loops' = loops /\ ticks' = ticks
      BY <1>4 DEF StoresTo
    <2>2. ~At(1, 2) /\ ~At(0, 0) /\ ~At(14, 20) /\ ~At(1, 1)
      BY <1>3, <1>8
    <2>3. /\ irqs \in Nat /\ loops \in Nat /\ ticks = irqs /\ x[21] = Num(irqs)
          /\ Resumes <= 4 * 32 => loops = 0
          /\ Resumes > 4 * 32 => x[1] = Num(IF Resumes = 4 * 34 THEN loops + 1 ELSE loops)
      BY <1>2, <2>2 DEF TimerTallies
    <2>4. At(1, 2)' /\ At(1, 1)' /\ ~At(0, 0)' /\ ~At(14, 31)' /\ ~At(14, 20)'
      BY <1>7
    <2>5. x' = x /\ Resumes' = Resumes /\ irqs' = irqs + 1 /\ irqs' - 1 = irqs /\ irqs' \in Nat
      BY <1>4, <1>7, <1>8, <2>3
    <2>6. loops' \in Nat /\ ticks' = irqs' - (IF At(1, 2)' THEN 1 ELSE 0)
      BY <2>1, <2>3, <2>4, <2>5
    <2>7. x'[21] = Num(IF At(1, 1)' THEN irqs' - 1 ELSE irqs')
      BY <2>3, <2>4, <2>5
    <2>8. /\ Resumes' <= 4 * 32 => loops' = 0
          /\ Resumes' > 4 * 32 => x'[1] = Num(IF Resumes' = 4 * 34 THEN loops' + 1 ELSE loops')
      BY <2>1, <2>3, <2>5
    <2> QED BY <2>4, <2>5, <2>6, <2>7, <2>8 DEF TimerTallies
  <1>12. TimerStores'
    BY <1>2, <1>4, StoresSame
  <1>13. pc' \in {4 * n : n \in 0 .. 35}
    BY <1>6
  <1> QED BY <1>9, <1>10, <1>11, <1>12, <1>13 DEF TimerInv

LEMMA NothingKeeps ==
  ASSUME TimerInv, UNCHANGED <<pc, x, csr, irqs, stores>>
  PROVE  TimerInv'
  <1>1. \A a, b : At(a, b)' <=> At(a, b)
    BY DEF At
  <1>2. (InHandler' <=> InHandler) /\ Resumes' = Resumes
    BY DEF InHandler, At, Resumes
  <1>3. TimerRegs'
    BY <1>1 DEF TimerInv, TimerRegs
  <1>4. TimerCsrs'
    BY <1>1, <1>2 DEF TimerInv, TimerCsrs
  <1>5. TimerTallies'
    BY <1>1, <1>2, StoresSame DEF TimerInv, TimerTallies
  <1>6. TimerStores'
    BY StoresSame DEF TimerInv
  <1> QED BY <1>3, <1>4, <1>5, <1>6 DEF TimerInv

\* Behind reset, the timer demo in the ROM.
TimerRuns == prog.name = "timer" => TimerImage(imem) /\ TimerInv

LEMMA TimerStarts ==
  ASSUME \A p \in Programs : p.name = "timer" => p.calls = build_timer_demo, Init
  PROVE  TimerRuns
  <1> SUFFICES ASSUME prog.name = "timer" PROVE TimerImage(imem) /\ TimerInv
    BY DEF TimerRuns
  <1>1. TimerImage(imem)
    <2>1. prog.calls = TimerListing /\ TimerListing \in Seq(Entry)
      BY TimerIs, ProgramsAssumption DEF Init
    <2>2. PICK image : image = assemble(Built(prog.calls)) /\ image.ok /\ imem = image.words
      BY DEF Init
    <2> HIDE DEF TimerListing
    <2> QED BY <2>1, <2>2, TimerImageIs
  <1>2. /\ pc = 0 /\ irqs = 0 /\ stores = <<>>
        /\ x = [r \in 0 .. 31 |-> Num(0)]
        /\ csr.MIE = 0
    BY DEF Init
  <1>3. /\ At(0, 0) /\ ~InHandler /\ ~At(28, 28) /\ ~At(6, 6) /\ ~At(1, 2) /\ ~At(1, 1)
    BY <1>2 DEF At, InHandler
  <1>4. TimerRegs
    BY <1>2, <1>3 DEF TimerRegs
  <1>5. TimerCsrs
    BY <1>2, <1>3 DEF TimerCsrs
  <1>6. TimerStores
    <2>1. DOMAIN stores = {} /\ stores \in Seq(Access \X Word)
      BY <1>2
    <2> QED BY <2>1 DEF TimerStores
  <1>7. TimerTallies
    <2>1. \A s : StoresTo(s, Len(stores)) = 0
      <3>1. Len(stores) = 0
        BY <1>2
      <3>2. \A s : {i \in 1 .. 0 : stores[i][1] = Slot(s)} = {}
        OBVIOUS
      <3> QED BY <3>1, <3>2, FS_EmptySet DEF StoresTo
    <2>2. Resumes = 0
      BY <1>2, <1>3 DEF Resumes
    <2> DEFINE loops == StoresTo(0, Len(stores))
               ticks == StoresTo(1, Len(stores))
    <2>3. loops = 0 /\ ticks = 0
      BY <2>1
    <2> HIDE DEF loops, ticks
    <2>4. loops \in Nat /\ irqs \in Nat /\ ticks = irqs - (IF At(1, 2) THEN 1 ELSE 0)
      <3>1. pc = 0 /\ irqs = 0
        BY <1>2
      <3>2. (IF At(1, 2) THEN 1 ELSE 0) = 0
        BY <3>1 DEF At
      <3>3. ticks = irqs - 0
        BY <2>3, <3>1
      <3> QED BY <2>3, <3>1, <3>2, <3>3
    <2>5. ~(At(0, 0) \/ At(14, 20)) => x[21] = Num(IF At(1, 1) THEN irqs - 1 ELSE irqs)
      BY <1>3
    <2>6. /\ Resumes <= 4 * 32 => loops = 0
          /\ Resumes > 4 * 32 => x[1] = Num(IF Resumes = 4 * 34 THEN loops + 1 ELSE loops)
      BY <2>2, <2>3
    <2> QED BY <1>2, <2>4, <2>5, <2>6 DEF TimerTallies, loops, ticks
  <1>8. pc \in {4 * k : k \in 0 .. 35}
    <2>1. pc = 4 * 0 /\ 0 \in 0 .. 35
      BY <1>2
    <2> QED BY <2>1
  <1> QED BY <1>1, <1>4, <1>5, <1>6, <1>7, <1>8 DEF TimerInv

LEMMA TimerGoesOn ==
  ASSUME SocTypeOK, TimerRuns, [Next]_socVars
  PROVE  TimerRuns'
  <1>1. prog' = prog /\ imem' = imem
    BY DEF Next, Execute, LoadUpper, Immediate, AddRegs, Load, Store, BranchStep, CsrStep,
           MachineReturn, Same, Interrupt, AesFinishes, socVars
  <1> SUFFICES ASSUME prog.name = "timer" PROVE TimerInv'
    BY <1>1 DEF TimerRuns, TimerImage, TimerHandler, TimerSetUp, TimerLoop
  <1>2. TimerImage(imem) /\ TimerInv
    BY DEF TimerRuns
  <1>3. CASE Execute
    BY <1>2, <1>3, ExecuteKeeps
  <1>4. CASE Interrupt
    BY <1>2, <1>4, InterruptKeeps
  <1>5. CASE AesFinishes \/ UNCHANGED socVars
    <2>1. UNCHANGED <<pc, x, csr, irqs, stores>>
      BY <1>5 DEF AesFinishes, socVars
    <2> QED BY <1>2, <2>1, NothingKeeps
  <1> QED BY <1>3, <1>4, <1>5 DEF Next

LEMMA TimerRunsCounts ==
  ASSUME TimerRuns
  PROVE  TimerCounts
  <1> SUFFICES ASSUME prog.name = "timer"
               PROVE  /\ \A i \in DOMAIN stores, s \in {0, 1} :
                           stores[i][1] = Slot(s) => stores[i][2] = Num(StoresTo(s, i))
                      /\ \A i \in DOMAIN stores :
                           stores[i][1] = Slot(3) =>
                             LET resume == AddressOf(stores[i][2]) \div 4
                             IN /\ resume < Len(imem)
                                /\ \E k \in 1 .. resume : imem[k] = csrrsi(0, 768, 8)[1]
                      /\ StoresTo(1, Len(stores)) <= irqs
    BY DEF TimerCounts
  <1>1. TimerImage(imem) /\ TimerStores /\ TimerTallies
    BY DEF TimerRuns, TimerInv
  <1>2. Len(imem) = 36 /\ imem[32] = csrrsi(0, 768, 8)[1]
    BY <1>1 DEF TimerImage, TimerSetUp
  <1>3. ASSUME NEW i \in DOMAIN stores, stores[i][1] = Slot(3)
        PROVE  LET resume == AddressOf(stores[i][2]) \div 4
               IN /\ resume < Len(imem)
                  /\ \E k \in 1 .. resume : imem[k] = csrrsi(0, 768, 8)[1]
    <2>1. PICK k \in 32 .. 35 : stores[i][2] = Num(4 * k)
      BY <1>1, <1>3 DEF TimerStores
    <2>2. AddressOf(stores[i][2]) = 4 * k
      BY <2>1, ReturnAddress
    <2>3. (4 * k) \div 4 = k
      OBVIOUS
    <2> DEFINE resume == AddressOf(stores[i][2]) \div 4
    <2>4. resume = k
      BY <2>2, <2>3
    <2> HIDE DEF resume
    <2>5. resume < Len(imem) /\ 32 \in 1 .. resume
      BY <1>2, <2>4
    <2>6. \E n \in 1 .. resume : imem[n] = csrrsi(0, 768, 8)[1]
      BY <1>2, <2>5
    <2> QED BY <2>5, <2>6 DEF resume
  <1>4. \A i \in DOMAIN stores, s \in {0, 1} :
           stores[i][1] = Slot(s) => stores[i][2] = Num(StoresTo(s, i))
    BY <1>1 DEF TimerStores
  <1>5. StoresTo(1, Len(stores)) <= irqs
    <2> DEFINE ticks == StoresTo(1, Len(stores))
    <2>1. irqs \in Nat /\ ticks = irqs - (IF At(1, 2) THEN 1 ELSE 0)
      BY <1>1 DEF TimerTallies
    <2> HIDE DEF ticks
    <2>2. ticks <= irqs
      BY <2>1
    <2> QED BY <2>2 DEF ticks
  <1> QED BY <1>3, <1>4, <1>5

\* The timer demo as firmware.py builds it, assembled and run on the SoC: loop and
\* handler each count on by one, whenever and however often the interrupt comes and
\* whatever the clock says, and the address the handler puts on record is behind
\* the enable (firmware.py:109-115).
THEOREM TimerDemoCounts ==
  ASSUME \A p \in Programs : p.name = "timer" => p.calls = build_timer_demo
  PROVE  Spec => []TimerCounts
  <1>1. Init => TimerRuns
    BY TimerStarts
  <1>2. SocTypeOK /\ TimerRuns /\ [Next]_socVars => TimerRuns'
    BY TimerGoesOn
  <1>3. TimerRuns => TimerCounts
    BY TimerRunsCounts
  <1> QED BY <1>1, <1>2, <1>3, SocTypes, PTL DEF Spec

-----------------------------------------------------------------------------
(* The AES program.                                                        *)

\* What li makes of a constant that takes two instructions.
High(w) == IF w.lo >= 2048 THEN (w.hi + 1) % Hi20 ELSE w.hi
Low(w)  == IF w.lo >= 2048 THEN w.lo - 4096 ELSE w.lo
TakesTwo(w) == w \in Word /\ High(w) # 0 /\ Low(w) # 0

AesHigh  == \h20000
UartHigh == \h10000

\* The word stored i-th, and the first of the instructions that store it: an
\* upper half, a lower half and a store.
Given(i) == IF i <= 4 THEN KEY[5 - i] ELSE PLAINTEXT[9 - i]
Begin(i) == IF i <= 4 THEN 3 * i - 2 ELSE 3 * i + 2

\* The words of the image; word k + 1 is at address 4 * k.
SocStoreAt(m, i, k) ==
  /\ Lui(m[k + 1], 2, High(Given(i))) /\ Addi(m[k + 2], 2, 2, Low(Given(i)))
  /\ Sw(m[k + 3], 2, 1, 4 * (i - 1))
SocImage(m) ==
  /\ m \in Seq(Instruction) /\ Len(m) = 37
  /\ Lui(m[1], 1, AesHigh)
  /\ \A i \in 1 .. 8 : SocStoreAt(m, i, Begin(i))
  /\ \A j \in 14 .. 17 : Addi(m[j], 0, 0, 0)
  /\ Addi(m[30], 2, 0, 1) /\ Sw(m[31], 2, 1, 32)
  /\ Lw(m[32], 2, 1, 36) /\ Beq(m[33], 2, 0, -4)
  /\ Lui(m[34], 6, UartHigh) /\ Addi(m[35], 7, 0, 65) /\ Sw(m[36], 7, 6, 0)
  /\ Beq(m[37], 0, 0, 0)

\* The stores made when k words are behind.
Made(k) ==
  IF k < 4 THEN 0 ELSE IF k < 7 THEN 1 ELSE IF k < 10 THEN 2 ELSE IF k < 13 THEN 3
  ELSE IF k < 20 THEN 4 ELSE IF k < 23 THEN 5 ELSE IF k < 26 THEN 6 ELSE IF k < 29 THEN 7
  ELSE IF k < 31 THEN 8 ELSE IF k < 36 THEN 9 ELSE 10

SocRegs(k) ==
  /\ x[0] = Num(0)
  /\ k >= 1 => x[1] = W(AesHigh, 0)
  /\ \A i \in 1 .. 8 : /\ k = Begin(i) + 1 => x[2] = W(High(Given(i)), 0)
                       /\ k = Begin(i) + 2 => x[2] = Given(i)
  /\ k = 30 => x[2] = Num(1)
  /\ k \in {34, 35} => x[6] = W(UartHigh, 0)
  /\ k = 35 => x[7] = Num(65)
\* The key and the block come in from the last word to the first; done is the
\* completion of this block.
SocAes(n) ==
  /\ aes.loaded = aes.key
  /\ \A i \in 1 .. 4 : i <= n => aes.key[5 - i] = KEY[5 - i]
  /\ \A i \in 5 .. 8 : i <= n => aes.data[9 - i] = PLAINTEXT[9 - i]
  /\ n <= 8 => aes.busy = 0 /\ aes.done = 0
  /\ n >= 9 => aes.block = aes.data
  /\ aes.done = 1 => aes.cipher = <<aes.key, aes.data>>
\* Behind the poll, done.
SocPolled(k) == k >= 33 \/ (k = 32 /\ x[2] # Num(0)) => aes.done = 1
SocAt(k) ==
  /\ pc = 4 * k /\ csr.MIE = 0
  /\ SocRegs(k) /\ SocAes(Made(k)) /\ SocPolled(k)
  /\ stores = [i \in 1 .. Made(k) |-> BuildStores[i]]
SocInv == \E k \in 0 .. 36 : SocAt(k)

StoreCall(i, p) ==
  IF p = 1 THEN lui(2, High(Given(i)))[1]
  ELSE IF p = 2 THEN addi(2, 2, Low(Given(i)))[1] ELSE sw(2, 1, 4 * (i - 1))[1]
\* The calls of StoreWords from the first-th word on, and those of build.
StoreListing(first) == [k \in 1 .. 12 |-> StoreCall(first + ((k - 1) \div 3), ((k - 1) % 3) + 1)]
SocRest ==
  << addi(2, 0, 1)[1], sw(2, 1, 32)[1], label("wait")[1], lw(2, 1, 36)[1],
     beq(2, 0, "wait")[1], lui(6, UartHigh)[1], addi(7, 0, 65)[1], sw(7, 6, 0)[1],
     label("done")[1], beq(0, 0, "done")[1] >>
SocListing ==
  [e \in 1 .. 39 |-> IF e = 1 THEN lui(1, AesHigh)[1]
                     ELSE IF e <= 13 THEN StoreListing(1)[e - 1]
                     ELSE IF e <= 17 THEN nop[1]
                     ELSE IF e <= 29 THEN StoreListing(5)[e - 17] ELSE SocRest[e - 29]]

LEMMA HighLow ==
  ASSUME NEW w \in Word
  PROVE  /\ High(w) \in Bits(20) /\ High(w) \in Int
         /\ Low(w) \in Int /\ -2048 <= Low(w) /\ Low(w) <= 2047
  <1>1. w.hi \in Bits(20) /\ w.lo \in Int /\ 0 <= w.lo /\ w.lo < 4096
    BY WordRange DEF Word, Lo12
  <1>2. w.hi \in Int /\ (w.hi + 1) % Hi20 \in Bits(20)
    BY <1>1, WordRange, Widths
  <1>3. High(w) \in Bits(20)
    BY <1>1, <1>2 DEF High
  <1>4. Low(w) \in Int /\ -2048 <= Low(w) /\ Low(w) <= 2047
    BY <1>1 DEF Low
  <1> QED BY <1>3, <1>4, WordRange

LEMMA LiTwo ==
  ASSUME NEW rd \in Bits(5), NEW w, TakesTwo(w)
  PROVE  li(rd, w) = <<lui(rd, High(w))[1], addi(rd, rd, Low(w))[1]>>
  <1>1. li(rd, w) = lui(rd, High(w)) \o addi(rd, rd, Low(w))
    BY DEF li, High, Low, TakesTwo
  <1>2. w \in Word
    BY DEF TakesTwo
  <1>3. lui(rd, High(w)) = <<lui(rd, High(w))[1]>> /\ addi(rd, rd, Low(w)) = <<addi(rd, rd, Low(w))[1]>>
    BY <1>2, HighLow, LuiReads, AddiReads
  <1> DEFINE i == lui(rd, High(w))[1]
             j == addi(rd, rd, Low(w))[1]
  <1> HIDE DEF i, j
  <1>4. li(rd, w) = <<i>> \o <<j>>
    BY <1>1, <1>3 DEF i, j
  <1> QED BY <1>4, Glue DEF i, j

\* The sign of the lower half is what the upper half makes up for.
LEMMA HalvesAdd ==
  ASSUME NEW w \in Word
  PROVE  Plus(W(High(w), 0), Num(Low(w))) = w
  <1>1. w.hi \in Int /\ 0 <= w.hi /\ w.hi < Hi20 /\ w.lo \in Int /\ 0 <= w.lo /\ w.lo < Lo12
        /\ w = W(w.hi, w.lo)
    BY WordRange DEF Word, W
  <1> DEFINE h == w.hi
             l == w.lo
  <1> HIDE DEF h, l
  <1>2. h \in Int /\ 0 <= h /\ h < Hi20 /\ l \in Int /\ 0 <= l /\ l < Lo12
    BY <1>1 DEF h, l
  <1>3. CASE l < 2048
    <2>1. High(w) = h /\ Num(Low(w)) = W(0, l)
      <3>1. High(w) = h /\ Low(w) = l
        BY <1>2, <1>3 DEF High, Low, h, l
      <3> QED BY <1>2, <1>3, <3>1, NumSigned
    <2>2. Plus(W(h, 0), W(0, l)) = W((h + 0 + (0 + l) \div Lo12) % Hi20, (0 + l) % Lo12)
      BY DEF Plus, W
    <2>3. (h + 0 + (0 + l) \div Lo12) % Hi20 = h /\ (0 + l) % Lo12 = l
      BY <1>2, SMT DEF Lo12, Hi20
    <2>4. Plus(W(h, 0), W(0, l)) = W(h, l)
      BY <2>2, <2>3
    <2> QED BY <1>1, <2>1, <2>4 DEF h, l
  <1>4. CASE l >= 2048
    <2>1. High(w) = (h + 1) % Hi20 /\ Num(Low(w)) = W(Hi20 - 1, l)
      <3>1. High(w) = (h + 1) % Hi20 /\ Low(w) = l - 4096
        BY <1>2, <1>4 DEF High, Low, h, l
      <3> QED BY <1>2, <1>4, <3>1, NumSigned
    <2> DEFINE u == (h + 1) % Hi20
    <2>2. Plus(W(u, 0), W(Hi20 - 1, l)) = W((u + (Hi20 - 1) + (0 + l) \div Lo12) % Hi20, (0 + l) % Lo12)
      BY DEF Plus, W
    <2>3. (u + (Hi20 - 1) + (0 + l) \div Lo12) % Hi20 = h /\ (0 + l) % Lo12 = l
      BY <1>2, SMT DEF Lo12, Hi20
    <2>4. Plus(W(u, 0), W(Hi20 - 1, l)) = W(h, l)
      BY <2>2, <2>3
    <2> QED BY <1>1, <2>1, <2>4 DEF h, l
  <1> QED BY <1>2, <1>3, <1>4

LEMMA GivenWords ==
  /\ KEY \in Block /\ PLAINTEXT \in Block
  /\ \A i \in 1 .. 8 : TakesTwo(Given(i)) /\ Given(i) \in Word
  <1>1. \A n \in 1 .. 4 : n = 1 \/ n = 2 \/ n = 3 \/ n = 4
    OBVIOUS
  <1>2. ASSUME NEW hi \in Int, 1 <= hi, hi + 1 < Hi20, NEW lo \in Int, 1 <= lo, lo < Lo12
        PROVE  TakesTwo(W(hi, lo))
    <2>1. W(hi, lo) \in Word
      <3>1. 0 <= hi /\ hi < Hi20 /\ 0 <= lo
        BY <1>2, SMT DEF Hi20
      <3>2. hi \in Bits(20) /\ lo \in Bits(12)
        BY <1>2, <3>1, WordRange
      <3> QED BY <3>2 DEF W, Word
    <2>2. (hi + 1) % Hi20 = hi + 1 /\ lo < 4096
      BY <1>2, SMT DEF Hi20, Lo12
    <2>3. High(W(hi, lo)) # 0 /\ Low(W(hi, lo)) # 0
      BY <1>2, <2>2 DEF High, Low, W
    <2> QED BY <2>1, <2>3 DEF TakesTwo
  <1>3. /\ TakesTwo(W(\h2B7E1, \h516)) /\ TakesTwo(W(\h28AED, \h2A6))
        /\ TakesTwo(W(\hABF71, \h588)) /\ TakesTwo(W(\h09CF4, \hF3C))
        /\ TakesTwo(W(\h3243F, \h6A8)) /\ TakesTwo(W(\h885A3, \h08D))
        /\ TakesTwo(W(\h31319, \h8A2)) /\ TakesTwo(W(\hE0370, \h734))
    BY <1>2, SMTT(30) DEF Hi20, Lo12
  <1>4. /\ TakesTwo(KEY[1]) /\ TakesTwo(KEY[2]) /\ TakesTwo(KEY[3]) /\ TakesTwo(KEY[4])
        /\ TakesTwo(PLAINTEXT[1]) /\ TakesTwo(PLAINTEXT[2]) /\ TakesTwo(PLAINTEXT[3])
        /\ TakesTwo(PLAINTEXT[4])
        /\ KEY = [n \in 1 .. 4 |-> KEY[n]] /\ PLAINTEXT = [n \in 1 .. 4 |-> PLAINTEXT[n]]
    BY <1>3, SMTT(30) DEF KEY, PLAINTEXT
  <1> HIDE DEF KEY, PLAINTEXT
  <1>5. \A n \in 1 .. 4 : TakesTwo(KEY[n]) /\ TakesTwo(PLAINTEXT[n])
    BY <1>1, <1>4
  <1>6. KEY \in Block /\ PLAINTEXT \in Block
    BY <1>4, <1>5 DEF TakesTwo, Block
  <1>7. ASSUME NEW i \in 1 .. 8 PROVE TakesTwo(Given(i))
    <2>1. i <= 4 => 5 - i \in 1 .. 4
      OBVIOUS
    <2>2. ~(i <= 4) => 9 - i \in 1 .. 4
      OBVIOUS
    <2> QED BY <1>5, <2>1, <2>2 DEF Given
  <1> QED BY <1>6, <1>7 DEF TakesTwo

LEMMA GrowsThrice ==
  ASSUME NEW T, NEW n, NEW s, Starts(s, T, n), n + 2 < Len(T), NEW t,
         t = <<T[n + 1], T[n + 2], T[n + 3]>>
  PROVE  Starts(s \o t, T, n + 3)
  <1>1. n \in Nat /\ Len(T) \in Nat
    BY DEF Starts
  <1>2. t = [k \in 1 .. 3 |-> t[k]] /\ t[1] = T[n + 1] /\ t[2] = T[n + 2] /\ t[3] = T[n + 3]
    OBVIOUS
  <1> HIDE DEF Starts
  <1>3. Starts(t, t, 3) /\ Len(t) = 3
    BY <1>2, Listed
  <1>4. \A k \in 1 .. 3 : t[k] = T[n + k]
    <2>1. \A k \in 1 .. 3 : k = 1 \/ k = 2 \/ k = 3
      OBVIOUS
    <2> QED BY <1>2, <2>1
  <1>5. n + 3 <= Len(T)
    BY <1>1
  <1> QED BY <1>3, <1>4, <1>5, GrowsBy

LEMMA StoreWordsIs ==
  /\ StoreWords(KEY, 0) = StoreListing(1) /\ StoreWords(PLAINTEXT, 16) = StoreListing(5)
  /\ \A first \in {1, 5} : Starts(StoreListing(first), StoreListing(first), 12)
                             /\ Len(StoreListing(first)) = 12
  <1>1. ASSUME NEW first \in {1, 5}, NEW value, NEW offset, offset = 4 * (first - 1),
               \A i \in 1 .. 4 : Words(value)[i] = Given(first + i - 1)
        PROVE  StoreWords(value, offset) = StoreListing(first)
    <2> DEFINE T == StoreListing(first)
               piece(i) == li(2, Words(value)[i]) \o sw(2, 1, offset + 4 * (i - 1))
    <2>1. StoreWords(value, offset) = piece(1) \o piece(2) \o piece(3) \o piece(4)
      BY DEF StoreWords
    <2>2. ASSUME NEW i \in 1 .. 4 PROVE piece(i) = <<T[3 * i - 2], T[3 * i - 1], T[3 * i]>>
      <3> DEFINE j == first + i - 1
                 at == offset + 4 * (i - 1)
                 a == lui(2, High(Given(j)))[1]
                 b == addi(2, 2, Low(Given(j)))[1]
                 c == sw(2, 1, 4 * (j - 1))[1]
      <3>1. j \in 1 .. 8 /\ at = 4 * (j - 1) /\ 2 \in Bits(5)
        BY <1>1, BitsRange
      <3>2. li(2, Words(value)[i]) = <<a, b>>
        BY <1>1, <3>1, GivenWords, LiTwo
      <3>3. sw(2, 1, at) = <<c>>
        BY <3>1 DEF sw
      <3>4. <<a, b>> \o <<c>> = <<a, b, c>>
        <4> HIDE DEF a, b, c
        <4> DEFINE S == {a, b, c}
        <4>1. <<a, b>> \in Seq(S) /\ <<c>> \in Seq(S) /\ <<a, b, c>> \in Seq(S)
          OBVIOUS
        <4>2. <<a, b>> \o <<c>> \in Seq(S) /\ Len(<<a, b>> \o <<c>>) = 3
          BY <4>1
        <4>3. \A k \in 1 .. 3 : (<<a, b>> \o <<c>>)[k] = <<a, b, c>>[k]
          BY <4>1
        <4> QED BY <4>1, <4>2, <4>3, SeqEqual
      <3>5. T[3 * i - 2] = a /\ T[3 * i - 1] = b /\ T[3 * i] = c
        <4>1. /\ 3 * i - 2 \in 1 .. 12 /\ 3 * i - 1 \in 1 .. 12 /\ 3 * i \in 1 .. 12
              /\ (3 * i - 2 - 1) \div 3 = i - 1 /\ (3 * i - 2 - 1) % 3 = 0
              /\ (3 * i - 1 - 1) \div 3 = i - 1 /\ (3 * i - 1 - 1) % 3 = 1
              /\ (3 * i - 1) \div 3 = i - 1 /\ (3 * i - 1) % 3 = 2
              /\ first + (i - 1) = j
          BY <1>1
        <4>2. /\ T[3 * i - 2] = StoreCall(j, 0 + 1) /\ T[3 * i - 1] = StoreCall(j, 1 + 1)
              /\ T[3 * i] = StoreCall(j, 2 + 1)
          <5> HIDE DEF j
          <5> QED BY <4>1 DEF StoreListing
        <4> HIDE DEF j, T
        <4> QED BY <4>2 DEF StoreCall
      <3> HIDE DEF a, b, c, T, at
      <3>6. piece(i) = <<a, b>> \o <<c>>
        BY <3>2, <3>3 DEF at
      <3> QED BY <3>4, <3>5, <3>6
    <2>3. Starts(T, T, 12) /\ Len(T) = 12 /\ Starts(<<>>, T, 0)
      <3>1. T = [k \in 1 .. 12 |-> T[k]]
        BY DEF StoreListing
      <3> QED BY <3>1, Listed
    <2>4. /\ piece(1) = <<T[0 + 1], T[0 + 2], T[0 + 3]>> /\ piece(2) = <<T[3 + 1], T[3 + 2], T[3 + 3]>>
          /\ piece(3) = <<T[6 + 1], T[6 + 2], T[6 + 3]>> /\ piece(4) = <<T[9 + 1], T[9 + 2], T[9 + 3]>>
      <3>1. \A i \in 1 .. 4, n \in Int : n = 3 * i - 3 => piece(i) = <<T[n + 1], T[n + 2], T[n + 3]>>
        <4>1. ASSUME NEW i \in 1 .. 4, NEW n \in Int, n = 3 * i - 3
              PROVE  n + 1 = 3 * i - 2 /\ n + 2 = 3 * i - 1 /\ n + 3 = 3 * i
          BY <4>1
        <4> HIDE DEF T, piece
        <4> QED BY <2>2, <4>1
      <3> HIDE DEF T, piece
      <3> QED BY <3>1
    <2> DEFINE p1 == piece(1)
               p2 == p1 \o piece(2)
               p3 == p2 \o piece(3)
               p4 == p3 \o piece(4)
    <2> HIDE DEF T
    <2>9. ASSUME NEW n \in {0, 3, 6, 9}, NEW s, Starts(s, T, n), NEW t,
                 t = <<T[n + 1], T[n + 2], T[n + 3]>>
          PROVE  Starts(s \o t, T, n + 3)
      <3>1. n + 2 < Len(T)
        BY <2>3
      <3> QED BY <2>9, <3>1, GrowsThrice
    <2>5. Starts(p1, T, 3)
      <3>1. Starts(<<>> \o p1, T, 0 + 3)
        <4> HIDE DEF piece
        <4> QED BY <2>3, <2>4, <2>9
      <3>2. <<>> \o p1 = p1
        <4> HIDE DEF piece, p1
        <4>1. p1 = <<T[0 + 1], T[0 + 2], T[0 + 3]>>
          BY <2>4 DEF p1
        <4> QED BY <4>1
      <3> QED BY <3>1, <3>2
    <2> HIDE DEF piece, p1, p2, p3, p4
    <2>6. Starts(p2, T, 6)
      <3>1. Starts(p1 \o piece(2), T, 3 + 3)
        BY <2>4, <2>5, <2>9
      <3> QED BY <3>1 DEF p2
    <2>7. Starts(p3, T, 9)
      <3>1. Starts(p2 \o piece(3), T, 6 + 3)
        BY <2>4, <2>6, <2>9
      <3> QED BY <3>1 DEF p3
    <2>8. Starts(p4, T, 12)
      <3>1. Starts(p3 \o piece(4), T, 9 + 3)
        BY <2>4, <2>7, <2>9
      <3> QED BY <3>1 DEF p4
    <2> QED BY <2>1, <2>3, <2>8, Grown DEF p1, p2, p3, p4, T
  <1>2. ASSUME NEW v \in Block PROVE \A i \in 1 .. 4 : Words(v)[i] = v[5 - i]
    <2>1. Len(v) = 4
      BY DEF Block
    <2>2. \A i \in 1 .. 4 : 4 - i + 1 = 5 - i
      OBVIOUS
    <2> QED BY <2>1, <2>2 DEF Words, Reverse
  <1>3. StoreWords(KEY, 0) = StoreListing(1)
    <2>1. \A i \in 1 .. 4 : Words(KEY)[i] = Given(1 + i - 1)
      <3>1. \A i \in 1 .. 4 : 1 + i - 1 = i /\ i <= 4
        OBVIOUS
      <3> QED BY <1>2, <3>1, GivenWords DEF Given
    <2>2. 0 = 4 * (1 - 1) /\ 1 \in {1, 5}
      OBVIOUS
    <2> QED BY <1>1, <2>1, <2>2
  <1>4. StoreWords(PLAINTEXT, 16) = StoreListing(5)
    <2>1. \A i \in 1 .. 4 : Words(PLAINTEXT)[i] = Given(5 + i - 1)
      <3>1. \A i \in 1 .. 4 : ~(5 + i - 1 <= 4) /\ 9 - (5 + i - 1) = 5 - i
        OBVIOUS
      <3> QED BY <1>2, <3>1, GivenWords DEF Given
    <2>2. 16 = 4 * (5 - 1) /\ 5 \in {1, 5}
      OBVIOUS
    <2> QED BY <1>1, <2>1, <2>2
  <1>5. ASSUME NEW first \in {1, 5}
        PROVE  Starts(StoreListing(first), StoreListing(first), 12) /\ Len(StoreListing(first)) = 12
    <2> DEFINE T == StoreListing(first)
    <2>1. T = [k \in 1 .. 12 |-> T[k]]
      BY DEF StoreListing
    <2> QED BY <2>1, Listed
  <1> QED BY <1>3, <1>4, <1>5

LEMMA SocListingIs ==
  /\ Starts(SocListing, SocListing, 39) /\ Len(SocListing) = 39 /\ Starts(<<>>, SocListing, 0)
  /\ DOMAIN SocListing = 1 .. 39
  /\ SocListing[1] = lui(1, AesHigh)[1]
  /\ \A k \in 1 .. 12 : SocListing[1 + k] = StoreListing(1)[k]
                          /\ SocListing[17 + k] = StoreListing(5)[k]
  /\ \A e \in 14 .. 17 : SocListing[e] = nop[1]
  /\ SocListing[30] = addi(2, 0, 1)[1] /\ SocListing[31] = sw(2, 1, 32)[1]
  /\ SocListing[32] = label("wait")[1] /\ SocListing[33] = lw(2, 1, 36)[1]
  /\ SocListing[34] = beq(2, 0, "wait")[1] /\ SocListing[35] = lui(6, UartHigh)[1]
  /\ SocListing[36] = addi(7, 0, 65)[1] /\ SocListing[37] = sw(7, 6, 0)[1]
  /\ SocListing[38] = label("done")[1] /\ SocListing[39] = beq(0, 0, "done")[1]
  <1> DEFINE T == SocListing
  <1>1. T = [e \in 1 .. 39 |-> T[e]] /\ DOMAIN T = 1 .. 39
    BY DEF SocListing
  <1>2. Starts(T, T, 39) /\ Len(T) = 39 /\ Starts(<<>>, T, 0)
    <2> HIDE DEF T
    <2> QED BY <1>1, Listed
  <1>3. ASSUME NEW e \in 1 .. 39
        PROVE  T[e] = IF e = 1 THEN lui(1, AesHigh)[1]
                      ELSE IF e <= 13 THEN StoreListing(1)[e - 1]
                      ELSE IF e <= 17 THEN nop[1]
                      ELSE IF e <= 29 THEN StoreListing(5)[e - 17] ELSE SocRest[e - 29]
    BY DEF SocListing
  <1> HIDE DEF T
  <1>4. T[1] = lui(1, AesHigh)[1]
    BY <1>3
  <1>5. ASSUME NEW k \in 1 .. 12
        PROVE  T[1 + k] = StoreListing(1)[k] /\ T[17 + k] = StoreListing(5)[k]
    <2>1. /\ 1 + k \in 1 .. 39 /\ 1 + k # 1 /\ 1 + k <= 13 /\ (1 + k) - 1 = k
          /\ 17 + k \in 1 .. 39 /\ 17 + k # 1 /\ ~(17 + k <= 13) /\ ~(17 + k <= 17)
          /\ 17 + k <= 29 /\ (17 + k) - 17 = k
      OBVIOUS
    <2> QED BY <1>3, <2>1
  <1>6. \A e \in 14 .. 17 : T[e] = nop[1]
    BY <1>3
  <1>7. ASSUME NEW e \in 30 .. 39 PROVE T[e] = SocRest[e - 29]
    BY <1>3
  <1>8. /\ T[30] = SocRest[1] /\ T[31] = SocRest[2] /\ T[32] = SocRest[3] /\ T[33] = SocRest[4]
        /\ T[34] = SocRest[5] /\ T[35] = SocRest[6] /\ T[36] = SocRest[7] /\ T[37] = SocRest[8]
        /\ T[38] = SocRest[9] /\ T[39] = SocRest[10]
    <2>1. ASSUME NEW n \in 1 .. 10, NEW e \in Int, e = 29 + n PROVE T[e] = SocRest[n]
      <3>1. e \in 30 .. 39 /\ e - 29 = n
        BY <2>1
      <3> QED BY <1>7, <3>1
    <2> QED BY <2>1
  <1>9. /\ SocRest[1] = addi(2, 0, 1)[1] /\ SocRest[2] = sw(2, 1, 32)[1]
        /\ SocRest[3] = label("wait")[1] /\ SocRest[4] = lw(2, 1, 36)[1]
        /\ SocRest[5] = beq(2, 0, "wait")[1] /\ SocRest[6] = lui(6, UartHigh)[1]
        /\ SocRest[7] = addi(7, 0, 65)[1] /\ SocRest[8] = sw(7, 6, 0)[1]
        /\ SocRest[9] = label("done")[1] /\ SocRest[10] = beq(0, 0, "done")[1]
    BY SMT DEF SocRest
  <1> QED BY <1>1, <1>2, <1>4, <1>5, <1>6, <1>8, <1>9 DEF T

LEMMA SocConstants ==
  /\ li(1, base("aes")) = lui(1, AesHigh) /\ li(6, base("uart")) = lui(6, UartHigh)
  /\ li(2, Num(1)) = addi(2, 0, 1) /\ li(7, Num(65)) = addi(7, 0, 65)
  /\ AesHigh \in Bits(20) /\ UartHigh \in Bits(20)
  <1>1. base("aes") = W(AesHigh, 0) /\ base("uart") = W(UartHigh, 0)
    <2>1. base("aes") = Num(536870912) /\ base("uart") = Num(268435456)
      BY RegionBase, SMT DEF base
    <2>2. Num(536870912) = W(AesHigh, 0) /\ Num(268435456) = W(UartHigh, 0)
      BY SMTT(30) DEF Num, Hi20, Lo12, AesHigh, UartHigh
    <2> QED BY <2>1, <2>2, SMT
  <1>2. AesHigh \in Bits(20) /\ UartHigh \in Bits(20)
    BY WordRange, SMTT(30) DEF Hi20, AesHigh, UartHigh
  <1>3. AesHigh # 0 /\ UartHigh # 0
    BY SMT DEF AesHigh, UartHigh
  <1>4. 1 \in Bits(5) /\ 6 \in Bits(5)
    BY BitsRange
  <1>5. li(1, W(AesHigh, 0)) = lui(1, AesHigh) /\ li(6, W(UartHigh, 0)) = lui(6, UartHigh)
    BY <1>2, <1>3, <1>4, LiUpper
  <1>6. li(2, Num(1)) = addi(2, 0, 1) /\ li(7, Num(65)) = addi(7, 0, 65)
    BY LiSmall
  <1> QED BY <1>1, <1>2, <1>5, <1>6

\* Three words, call by call.
LEMMA Glued ==
  ASSUME NEW a, NEW b, NEW c
  PROVE  <<a>> \o <<b>> \o <<c>> = <<a, b, c>>
  <1> DEFINE S == {a, b, c}
  <1>1. <<a>> \o <<b>> = <<a, b>>
    BY Glue
  <1>2. <<a, b>> \in Seq(S) /\ <<c>> \in Seq(S) /\ <<a, b, c>> \in Seq(S)
    OBVIOUS
  <1>3. <<a, b>> \o <<c>> \in Seq(S) /\ Len(<<a, b>> \o <<c>>) = 3
    BY <1>2
  <1>4. \A k \in 1 .. 3 : (<<a, b>> \o <<c>>)[k] = <<a, b, c>>[k]
    BY <1>2
  <1>5. <<a, b>> \o <<c>> = <<a, b, c>>
    <2> HIDE DEF S
    <2> QED BY <1>2, <1>3, <1>4, SeqEqual
  <1> QED BY <1>1, <1>5

LEMMA SocIs == build = SocListing
  <1> DEFINE T   == SocListing
             p1  == li(1, base("aes"))
             p2  == p1 \o StoreWords(KEY, 0)
             p3  == p2 \o nop
             p4  == p3 \o nop
             p5  == p4 \o nop
             p6  == p5 \o nop
             p7  == p6 \o StoreWords(PLAINTEXT, 16)
             p8  == p7 \o li(2, Num(1))
             p9  == p8 \o sw(2, 1, 32)
             p10 == p9 \o Poll
             p11 == p10 \o li(6, base("uart"))
             p12 == p11 \o li(7, Num(65))
             p13 == p12 \o sw(7, 6, 0)
             p14 == p13 \o Spin("done")
  <1>1. build = p14
    BY DEF build
  <1>2. /\ Starts(T, T, 39) /\ Len(T) = 39 /\ Starts(<<>>, T, 0)
        /\ \A k \in 1 .. 12 : T[1 + k] = StoreListing(1)[k] /\ T[17 + k] = StoreListing(5)[k]
        /\ T[14] = nop[1] /\ T[15] = nop[1] /\ T[16] = nop[1] /\ T[17] = nop[1]
    BY SocListingIs
  <1>3. /\ li(1, base("aes")) = <<T[1]>> /\ nop = <<nop[1]>> /\ li(2, Num(1)) = <<T[30]>>
        /\ sw(2, 1, 32) = <<T[31]>> /\ li(6, base("uart")) = <<T[35]>>
        /\ li(7, Num(65)) = <<T[36]>> /\ sw(7, 6, 0) = <<T[37]>>
    <2>1. /\ lui(1, AesHigh) = <<lui(1, AesHigh)[1]>> /\ lui(6, UartHigh) = <<lui(6, UartHigh)[1]>>
          /\ \A rd, r, n : addi(rd, r, n) = <<addi(rd, r, n)[1]>> /\ sw(rd, r, n) = <<sw(rd, r, n)[1]>>
      BY DEF lui, addi, sw
    <2>2. nop = <<nop[1]>>
      BY <2>1 DEF nop
    <2> HIDE DEF T
    <2> QED BY <2>1, <2>2, SocConstants, SocListingIs DEF T
  <1>4. Poll = <<T[32], T[33], T[34]>> /\ Spin("done") = <<T[38], T[39]>>
    <2>1. /\ label("wait") = <<T[32]>> /\ lw(2, 1, 36) = <<T[33]>> /\ beq(2, 0, "wait") = <<T[34]>>
          /\ label("done") = <<T[38]>> /\ beq(0, 0, "done") = <<T[39]>>
      <3>1. /\ label("wait") = <<label("wait")[1]>> /\ label("done") = <<label("done")[1]>>
            /\ lw(2, 1, 36) = <<lw(2, 1, 36)[1]>>
            /\ beq(2, 0, "wait") = <<beq(2, 0, "wait")[1]>>
            /\ beq(0, 0, "done") = <<beq(0, 0, "done")[1]>>
        BY DEF label, lw, beq, Pending
      <3> QED BY <3>1, SocListingIs
    <2> HIDE DEF T
    <2>2. Poll = <<T[32]>> \o <<T[33]>> \o <<T[34]>> /\ Spin("done") = <<T[38]>> \o <<T[39]>>
      BY <2>1 DEF Poll, Spin
    <2> QED BY <2>2, Glue, Glued
  <1> HIDE DEF T
  <1>5. ASSUME NEW n \in 0 .. 38, NEW s, Starts(s, T, n), NEW t, t = <<T[n + 1]>>
        PROVE  Starts(s \o t, T, n + 1)
    <2>1. n < Len(T)
      BY <1>2
    <2> QED BY <1>5, <2>1, Grows
  <1>6. ASSUME NEW n \in {1, 17}, NEW s, Starts(s, T, n), NEW first \in {1, 5},
               \A k \in 1 .. 12 : StoreListing(first)[k] = T[n + k]
        PROVE  Starts(s \o StoreListing(first), T, n + 12)
    <2> DEFINE R == StoreListing(first)
    <2>1. Starts(R, R, 12) /\ Len(R) = 12
      BY StoreWordsIs
    <2>2. n + 12 <= Len(T)
      BY <1>2
    <2> HIDE DEF R
    <2> QED BY <1>6, <2>1, <2>2, GrowsBy DEF R
  <1> HIDE DEF p1, p2, p3, p4, p5, p6, p7, p8, p9, p10, p11, p12, p13, p14
  <1>7. Starts(p1, T, 1)
    <2>1. p1 = <<T[1]>>
      BY <1>3 DEF p1
    <2>2. Starts(<<>> \o p1, T, 0 + 1)
      <3>1. p1 = <<T[0 + 1]>> /\ 0 \in 0 .. 38
        BY <2>1
      <3> QED BY <1>2, <1>5, <3>1
    <2>3. <<>> \o p1 = p1
      BY <2>1
    <2> QED BY <2>2, <2>3
  <1>8. Starts(p2, T, 13)
    <2>1. p2 = p1 \o StoreListing(1)
      BY StoreWordsIs DEF p2
    <2>2. Starts(p1 \o StoreListing(1), T, 1 + 12)
      BY <1>2, <1>6, <1>7
    <2> QED BY <2>1, <2>2
  <1>9. Starts(p6, T, 17)
    <2>1. ASSUME NEW n \in 13 .. 16, NEW s, Starts(s, T, n) PROVE Starts(s \o nop, T, n + 1)
      <3>1. n + 1 = 14 \/ n + 1 = 15 \/ n + 1 = 16 \/ n + 1 = 17
        OBVIOUS
      <3>2. T[n + 1] = nop[1]
        BY <1>2, <3>1
      <3>3. nop = <<T[n + 1]>> /\ n \in 0 .. 38
        BY <1>3, <3>2
      <3> QED BY <1>5, <2>1, <3>3
    <2>2. Starts(p3, T, 14)
      <3>1. Starts(p2 \o nop, T, 13 + 1)
        BY <1>8, <2>1
      <3> QED BY <3>1 DEF p3
    <2>3. Starts(p4, T, 15)
      <3>1. Starts(p3 \o nop, T, 14 + 1)
        BY <2>2, <2>1
      <3> QED BY <3>1 DEF p4
    <2>4. Starts(p5, T, 16)
      <3>1. Starts(p4 \o nop, T, 15 + 1)
        BY <2>3, <2>1
      <3> QED BY <3>1 DEF p5
    <2>5. Starts(p5 \o nop, T, 16 + 1)
      BY <2>4, <2>1
    <2> QED BY <2>5 DEF p6
  <1>10. Starts(p7, T, 29)
    <2>1. p7 = p6 \o StoreListing(5)
      BY StoreWordsIs DEF p7
    <2>2. Starts(p6 \o StoreListing(5), T, 17 + 12)
      BY <1>2, <1>6, <1>9
    <2> QED BY <2>1, <2>2
  <1>11. Starts(p9, T, 31)
    <2>1. Starts(p7 \o li(2, Num(1)), T, 29 + 1)
      BY <1>3, <1>5, <1>10
    <2>2. Starts(p8, T, 30)
      BY <2>1 DEF p8
    <2>3. Starts(p8 \o sw(2, 1, 32), T, 30 + 1)
      BY <1>3, <1>5, <2>2
    <2> QED BY <2>3 DEF p9
  <1>12. Starts(p10, T, 34)
    <2>1. Poll = <<T[31 + 1], T[31 + 2], T[31 + 3]>> /\ 31 + 2 < Len(T)
      BY <1>2, <1>4
    <2>2. Starts(p9 \o Poll, T, 31 + 3)
      BY <1>11, <2>1, GrowsThrice
    <2> QED BY <2>2 DEF p10
  <1>13. Starts(p13, T, 37)
    <2>1. Starts(p10 \o li(6, base("uart")), T, 34 + 1)
      BY <1>3, <1>5, <1>12
    <2>2. Starts(p11, T, 35)
      BY <2>1 DEF p11
    <2>3. Starts(p11 \o li(7, Num(65)), T, 35 + 1)
      BY <1>3, <1>5, <2>2
    <2>4. Starts(p12, T, 36)
      BY <2>3 DEF p12
    <2>5. Starts(p12 \o sw(7, 6, 0), T, 36 + 1)
      BY <1>3, <1>5, <2>4
    <2> QED BY <2>5 DEF p13
  <1>14. Starts(p14, T, 39)
    <2>1. Spin("done") = <<T[37 + 1], T[37 + 2]>> /\ 37 + 1 < Len(T)
      BY <1>2, <1>4
    <2>2. Starts(p13 \o Spin("done"), T, 37 + 2)
      BY <1>13, <2>1, GrowsTwice
    <2> QED BY <2>2 DEF p14
  <1> QED BY <1>1, <1>2, <1>14, Grown DEF T

LEMMA SocWords ==
  /\ SocListing[1] \in Instruction /\ Lui(SocListing[1], 1, AesHigh)
  /\ \A i \in 1 .. 8 : SocStoreAt(SocListing, i, Begin(i))
  /\ \A e \in 14 .. 17 : Addi(SocListing[e], 0, 0, 0)
  /\ \A e \in 1 .. 31 : SocListing[e] \in Instruction
  /\ Addi(SocListing[30], 2, 0, 1) /\ Sw(SocListing[31], 2, 1, 32)
  /\ SocListing[33] \in Instruction /\ Lw(SocListing[33], 2, 1, 36)
  /\ SocListing[35] \in Instruction /\ Lui(SocListing[35], 6, UartHigh)
  /\ SocListing[36] \in Instruction /\ Addi(SocListing[36], 7, 0, 65)
  /\ SocListing[37] \in Instruction /\ Sw(SocListing[37], 7, 6, 0)
  <1> DEFINE T == SocListing
  <1>1. 0 \in Bits(5) /\ 1 \in Bits(5) /\ 2 \in Bits(5) /\ 6 \in Bits(5) /\ 7 \in Bits(5)
    BY BitsRange
  <1>2. ASSUME NEW i \in 1 .. 8, NEW p \in 1 .. 3
        PROVE  StoreCall(i, p) \in Instruction
               /\ (p = 1 => Lui(StoreCall(i, p), 2, High(Given(i))))
               /\ (p = 2 => Addi(StoreCall(i, p), 2, 2, Low(Given(i))))
               /\ (p = 3 => Sw(StoreCall(i, p), 2, 1, 4 * (i - 1)))
    <2>1. /\ High(Given(i)) \in Bits(20) /\ Low(Given(i)) \in Int
          /\ -2048 <= Low(Given(i)) /\ Low(Given(i)) <= 2047
      BY GivenWords, HighLow
    <2>2. 4 * (i - 1) \in Int /\ -2048 <= 4 * (i - 1) /\ 4 * (i - 1) <= 2047
      OBVIOUS
    <2> DEFINE n == 4 * (i - 1)
    <2>3. CASE p = 1
      BY <1>1, <2>1, <2>3, LuiReads DEF StoreCall
    <2>4. CASE p = 2
      BY <1>1, <2>1, <2>4, AddiReads DEF StoreCall
    <2>5. CASE p = 3
      <3>1. StoreCall(i, p) = sw(2, 1, n)[1]
        BY <2>5 DEF StoreCall
      <3>2. n \in Int /\ -2048 <= n /\ n <= 2047
        BY <2>2
      <3> HIDE DEF n
      <3>3. sw(2, 1, n)[1] \in Instruction /\ Sw(sw(2, 1, n)[1], 2, 1, n)
        BY <1>1, <3>2, SwReads
      <3> QED BY <2>5, <3>1, <3>3 DEF n
    <2> QED BY <2>3, <2>4, <2>5
  <1>3. ASSUME NEW i \in 1 .. 8, NEW p \in 1 .. 3 PROVE T[Begin(i) + p] = StoreCall(i, p)
    <2>1. CASE i <= 4
      <3> DEFINE k == 3 * i - 3 + p
      <3>1. /\ k \in 1 .. 12 /\ Begin(i) + p = 1 + k /\ 1 + ((k - 1) \div 3) = i
            /\ ((k - 1) % 3) + 1 = p
        BY <2>1 DEF Begin
      <3> HIDE DEF k
      <3>2. T[1 + k] = StoreListing(1)[k]
        BY <3>1, SocListingIs
      <3> QED BY <3>1, <3>2 DEF StoreListing
    <2>2. CASE ~(i <= 4)
      <3> DEFINE k == 3 * i - 15 + p
      <3>1. /\ k \in 1 .. 12 /\ Begin(i) + p = 17 + k /\ 5 + ((k - 1) \div 3) = i
            /\ ((k - 1) % 3) + 1 = p
        BY <2>2 DEF Begin
      <3> HIDE DEF k
      <3>2. T[17 + k] = StoreListing(5)[k]
        BY <3>1, SocListingIs
      <3> QED BY <3>1, <3>2 DEF StoreListing
    <2> QED BY <2>1, <2>2
  <1>4. T[1] \in Instruction /\ Lui(T[1], 1, AesHigh)
    BY <1>1, SocConstants, SocListingIs, LuiReads
  <1>5. nop[1] \in Instruction /\ Addi(nop[1], 0, 0, 0)
    BY <1>1, AddiReads DEF nop
  <1>6. /\ T[30] \in Instruction /\ Addi(T[30], 2, 0, 1) /\ T[36] \in Instruction
        /\ Addi(T[36], 7, 0, 65)
    <2>1. T[30] = addi(2, 0, 1)[1] /\ T[36] = addi(7, 0, 65)[1]
      BY SocListingIs
    <2> HIDE DEF T
    <2> QED BY <1>1, <2>1, AddiReads
  <1>7. /\ T[31] \in Instruction /\ Sw(T[31], 2, 1, 32)
        /\ T[37] \in Instruction /\ Sw(T[37], 7, 6, 0)
    <2>1. T[31] = sw(2, 1, 32)[1] /\ T[37] = sw(7, 6, 0)[1]
      BY SocListingIs
    <2> HIDE DEF T
    <2> QED BY <1>1, <2>1, SwReads
  <1>8. /\ T[33] \in Instruction /\ Lw(T[33], 2, 1, 36)
        /\ T[35] \in Instruction /\ Lui(T[35], 6, UartHigh)
    <2>1. T[33] = lw(2, 1, 36)[1] /\ T[35] = lui(6, UartHigh)[1]
      BY SocListingIs
    <2> HIDE DEF T
    <2> QED BY <1>1, <2>1, LwReads, LuiReads, SocConstants
  <1>9. \A e \in 14 .. 17 : T[e] = nop[1]
    BY SocListingIs
  <1> HIDE DEF T
  <1>10. ASSUME NEW i \in 1 .. 8 PROVE SocStoreAt(T, i, Begin(i))
    <2>1. /\ T[Begin(i) + 1] = StoreCall(i, 1) /\ T[Begin(i) + 2] = StoreCall(i, 2)
          /\ T[Begin(i) + 3] = StoreCall(i, 3)
      BY <1>3
    <2>2. /\ Lui(StoreCall(i, 1), 2, High(Given(i))) /\ Addi(StoreCall(i, 2), 2, 2, Low(Given(i)))
          /\ Sw(StoreCall(i, 3), 2, 1, 4 * (i - 1))
      BY <1>2
    <2> QED BY <2>1, <2>2 DEF SocStoreAt
  <1>11. ASSUME NEW e \in 1 .. 31 PROVE T[e] \in Instruction
    <2>1. CASE e = 1 \/ e = 30 \/ e = 31
      BY <1>4, <1>6, <1>7, <2>1
    <2>2. CASE 14 <= e /\ e <= 17
      BY <1>5, <1>9, <2>2
    <2>3. CASE 2 <= e /\ e <= 13
      <3> DEFINE i == (e - 2) \div 3 + 1
                 p == ((e - 2) % 3) + 1
      <3>1. i \in 1 .. 8 /\ p \in 1 .. 3 /\ Begin(i) + p = e
        BY <2>3 DEF Begin
      <3> HIDE DEF i, p
      <3> QED BY <1>2, <1>3, <3>1
    <2>4. CASE 18 <= e /\ e <= 29
      <3> DEFINE i == (e - 18) \div 3 + 5
                 p == ((e - 18) % 3) + 1
      <3>1. i \in 1 .. 8 /\ p \in 1 .. 3 /\ Begin(i) + p = e
        BY <2>4 DEF Begin
      <3> HIDE DEF i, p
      <3> QED BY <1>2, <1>3, <3>1
    <2> QED BY <2>1, <2>2, <2>3, <2>4
  <1> QED BY <1>4, <1>5, <1>6, <1>7, <1>8, <1>9, <1>10, <1>11 DEF T

LEMMA SocMarks ==
  /\ Marks(SocListing) = {32, 38}
  /\ \A i \in Int : Count({32, 38}, i) = i - (IF 32 <= i THEN 1 ELSE 0)
                                           - (IF 38 <= i THEN 1 ELSE 0)
  /\ SocListing[34] = [kind |-> "beq", rs1 |-> 2, rs2 |-> 0, target |-> "wait"]
  /\ SocListing[39] = [kind |-> "beq", rs1 |-> 0, rs2 |-> 0, target |-> "done"]
  /\ SocListing[32].name = "wait" /\ SocListing[38].name = "done"
  <1>1. /\ SocListing[34] = [kind |-> "beq", rs1 |-> 2, rs2 |-> 0, target |-> "wait"]
        /\ SocListing[39] = [kind |-> "beq", rs1 |-> 0, rs2 |-> 0, target |-> "done"]
        /\ SocListing[32] = [kind |-> "label", name |-> "wait"]
        /\ SocListing[38] = [kind |-> "label", name |-> "done"]
    BY SocListingIs DEF beq, Pending, label
  <1>2. \A i \in Instruction : ~IsLabel(i)
    BY DEF Instruction, IsLabel
  <1>3. ASSUME NEW e \in 1 .. 39, e \notin {32, 38} PROVE ~IsLabel(SocListing[e])
    <2>1. CASE e <= 31
      BY <1>2, <2>1, SocWords
    <2>2. CASE e \in {33, 35, 36, 37}
      BY <1>2, <2>2, SocWords
    <2>3. CASE e \in {34, 39}
      BY <1>1, <2>3 DEF IsLabel
    <2> QED BY <1>3, <2>1, <2>2, <2>3
  <1>4. Marks(SocListing) = {32, 38}
    <2>1. \A i : i \in Marks(SocListing) <=> i \in 1 .. 39 /\ IsLabel(SocListing[i])
      BY SocListingIs DEF Marks
    <2>2. IsLabel(SocListing[32]) /\ IsLabel(SocListing[38]) /\ 32 \in 1 .. 39 /\ 38 \in 1 .. 39
      BY <1>1 DEF IsLabel
    <2> QED BY <1>3, <2>1, <2>2
  <1>5. ASSUME NEW i \in Int
        PROVE  Count({32, 38}, i) = i - (IF 32 <= i THEN 1 ELSE 0) - (IF 38 <= i THEN 1 ELSE 0)
    <2> DEFINE m0 == {}
               m1 == {32}
               m2 == {32, 38}
    <2>1. /\ m0 \in SUBSET (1 .. 39) /\ m1 \in SUBSET (1 .. 39) /\ 32 \notin m0 /\ 38 \notin m1
          /\ m0 \cup {32} = m1 /\ m1 \cup {38} = m2 /\ 32 \in Nat /\ 38 \in Nat
      OBVIOUS
    <2>2. Count(m0, i) = i
      <3>1. {e \in {} : e <= i} = {} /\ Cardinality({}) = 0
        BY FS_EmptySet
      <3> QED BY <3>1 DEF Count
    <2> HIDE DEF m0, m1, m2
    <2>3. ASSUME NEW n, n = 39, NEW s \in SUBSET (1 .. n), NEW m \in Nat, m \notin s
          PROVE  Count(s \cup {m}, i) = Count(s, i) - (IF m <= i THEN 1 ELSE 0)
      <3>1. n \in Nat
        BY <2>3
      <3> QED BY <2>3, <3>1, CountAdd, ZenonT(60)
    <2>4. Count(m0 \cup {32}, i) = Count(m0, i) - (IF 32 <= i THEN 1 ELSE 0)
      BY <2>1, <2>3
    <2>5. Count(m1 \cup {38}, i) = Count(m1, i) - (IF 38 <= i THEN 1 ELSE 0)
      BY <2>1, <2>3
    <2>6. Count(m2, i) = i - (IF 32 <= i THEN 1 ELSE 0) - (IF 38 <= i THEN 1 ELSE 0)
      BY <2>1, <2>2, <2>4, <2>5
    <2> QED BY <2>6 DEF m2
  <1> QED BY <1>1, <1>4, <1>5

LEMMA SocImageIs ==
  ASSUME SocListing \in Seq(Entry), NEW image, image = assemble(Built(SocListing)), image.ok
  PROVE  SocImage(image.words)
  <1> DEFINE m == image.words
             P == SocListing
             marks == {32, 38}
  <1>1. m \in Seq(Instruction)
    BY AssembledWords
  <1>2. Len(m) = 37
    <2> DEFINE ws == Built(P).words
    <2>1. Len(ws) = Count(marks, 39) /\ ws \in Seq(Entry)
      <3>1. Len(ws) = Count(Marks(P), Len(P)) /\ ws \in Seq(Entry)
        <4> HIDE DEF SocListing
        <4> QED BY BuiltWords
      <3> QED BY <3>1, SocMarks, SocListingIs
    <2>2. Count(marks, 39) = 37
      BY SocMarks
    <2>3. m = [j \in DOMAIN Built(P).words |-> Resolved(Built(P), j)]
      BY DEF assemble
    <2>4. m = [j \in DOMAIN ws |-> Resolved(Built(P), j)]
      BY <2>3
    <2> HIDE DEF ws, m, P, marks
    <2>7. ws \in Seq(Entry) /\ Len(ws) = 37
      BY <2>1, <2>2
    <2>5. DOMAIN ws = 1 .. 37
      BY <2>7
    <2>6. DOMAIN m = 1 .. 37
      BY <2>4, <2>5
    <2> QED BY <1>1, <2>6
  <1>3. ASSUME NEW i \in 1 .. 39, i \notin marks, NEW k, k = Count(marks, i)
        PROVE  /\ P[i] \in Instruction => m[k] = P[i]
               /\ P[i].kind = "beq" =>
                    \A l \in marks :
                      P[l].name = P[i].target =>
                        Beq(m[k], P[i].rs1, P[i].rs2, 4 * Count(marks, l) - 4 * (k - 1))
    <2>1. i \in DOMAIN P /\ ~IsLabel(P[i]) /\ Marks(P) = marks
      BY <1>3, SocMarks, SocListingIs DEF Marks
    <2> HIDE DEF P, marks
    <2>2. P \in Seq(Entry) /\ image = assemble(Built(P))
      BY DEF P
    <2> QED BY <1>3, <2>1, <2>2, ImageOf
  <1>4. /\ \A e \in 1 .. 31 : Count(marks, e) = e
        /\ Count(marks, 32) = 31 /\ Count(marks, 33) = 32 /\ Count(marks, 34) = 33
        /\ Count(marks, 35) = 34 /\ Count(marks, 36) = 35 /\ Count(marks, 37) = 36
        /\ Count(marks, 38) = 36 /\ Count(marks, 39) = 37
    <2>1. \A i \in Int : Count(marks, i) = i - (IF 32 <= i THEN 1 ELSE 0)
                                             - (IF 38 <= i THEN 1 ELSE 0)
      BY SocMarks
    <2> HIDE DEF marks
    <2>2. ASSUME NEW e \in 1 .. 31 PROVE Count(marks, e) = e
      <3>1. e \in Int /\ ~(32 <= e) /\ ~(38 <= e) /\ e - 0 - 0 = e
        OBVIOUS
      <3> QED BY <2>1, <3>1
    <2>3. /\ Count(marks, 32) = 31 /\ Count(marks, 33) = 32 /\ Count(marks, 34) = 33
          /\ Count(marks, 35) = 34 /\ Count(marks, 36) = 35 /\ Count(marks, 37) = 36
          /\ Count(marks, 38) = 36 /\ Count(marks, 39) = 37
      BY <2>1
    <2> QED BY <2>2, <2>3
  <1>5. ASSUME NEW e \in 1 .. 31 PROVE m[e] = P[e]
    <2>1. e \in 1 .. 39 /\ e \notin marks
      OBVIOUS
    <2>2. P[e] \in Instruction
      BY SocWords
    <2> HIDE DEF P, m, marks
    <2>3. e = Count(marks, e)
      BY <1>4
    <2> QED BY <1>3, <2>1, <2>2, <2>3
  <1>6. m[32] = P[33] /\ m[34] = P[35] /\ m[35] = P[36] /\ m[36] = P[37]
    <2>1. /\ 33 \notin marks /\ 35 \notin marks /\ 36 \notin marks /\ 37 \notin marks
          /\ P[33] \in Instruction /\ P[35] \in Instruction /\ P[36] \in Instruction
          /\ P[37] \in Instruction
      BY SocWords
    <2>2. 33 \in 1 .. 39 /\ 35 \in 1 .. 39 /\ 36 \in 1 .. 39 /\ 37 \in 1 .. 39
      OBVIOUS
    <2> HIDE DEF P, m, marks
    <2> QED BY <1>3, <1>4, <2>1, <2>2
  <1>7. Beq(m[33], 2, 0, -4)
    <2>1. /\ 34 \in 1 .. 39 /\ 34 \notin marks /\ P[34].kind = "beq" /\ 32 \in marks
          /\ P[32].name = P[34].target /\ P[34].rs1 = 2 /\ P[34].rs2 = 0
      BY SocMarks
    <2>2. 4 * 31 - 4 * (33 - 1) = -4
      OBVIOUS
    <2> HIDE DEF P, m, marks
    <2>4. 33 = Count(marks, 34) /\ Count(marks, 32) = 31
      BY <1>4
    <2>3. \A k : k = Count(marks, 34) =>
            Beq(m[k], P[34].rs1, P[34].rs2, 4 * Count(marks, 32) - 4 * (k - 1))
      BY <1>3, <2>1
    <2>5. Beq(m[33], P[34].rs1, P[34].rs2, 4 * Count(marks, 32) - 4 * (33 - 1))
      BY <2>3, <2>4
    <2>6. Beq(m[33], 2, 0, 4 * 31 - 4 * (33 - 1))
      BY <2>1, <2>4, <2>5
    <2> QED BY <2>2, <2>6
  <1>8. Beq(m[37], 0, 0, 0)
    <2>1. /\ 39 \in 1 .. 39 /\ 39 \notin marks /\ P[39].kind = "beq" /\ 38 \in marks
          /\ P[38].name = P[39].target /\ P[39].rs1 = 0 /\ P[39].rs2 = 0
      BY SocMarks
    <2>2. 4 * 36 - 4 * (37 - 1) = 0
      OBVIOUS
    <2> HIDE DEF P, m, marks
    <2>4. 37 = Count(marks, 39) /\ Count(marks, 38) = 36
      BY <1>4
    <2>3. \A k : k = Count(marks, 39) =>
            Beq(m[k], P[39].rs1, P[39].rs2, 4 * Count(marks, 38) - 4 * (k - 1))
      BY <1>3, <2>1
    <2>5. Beq(m[37], P[39].rs1, P[39].rs2, 4 * Count(marks, 38) - 4 * (37 - 1))
      BY <2>3, <2>4
    <2>6. Beq(m[37], 0, 0, 4 * 36 - 4 * (37 - 1))
      BY <2>1, <2>4, <2>5
    <2> QED BY <2>2, <2>6
  <1>9. ASSUME NEW i \in 1 .. 8 PROVE SocStoreAt(m, i, Begin(i))
    <2>1. Begin(i) + 1 \in 1 .. 31 /\ Begin(i) + 2 \in 1 .. 31 /\ Begin(i) + 3 \in 1 .. 31
      BY DEF Begin
    <2>2. SocStoreAt(P, i, Begin(i))
      BY SocWords
    <2> HIDE DEF P, m
    <2> QED BY <1>5, <2>1, <2>2 DEF SocStoreAt
  <1>10. /\ Lui(P[1], 1, AesHigh) /\ (\A e \in 14 .. 17 : Addi(P[e], 0, 0, 0))
         /\ Addi(P[30], 2, 0, 1) /\ Sw(P[31], 2, 1, 32) /\ Lw(P[33], 2, 1, 36)
         /\ Lui(P[35], 6, UartHigh) /\ Addi(P[36], 7, 0, 65) /\ Sw(P[37], 7, 6, 0)
    BY SocWords
  <1> HIDE DEF P, m
  <1>11. /\ Lui(m[1], 1, AesHigh) /\ (\A e \in 14 .. 17 : Addi(m[e], 0, 0, 0))
         /\ Addi(m[30], 2, 0, 1) /\ Sw(m[31], 2, 1, 32) /\ Lw(m[32], 2, 1, 36)
         /\ Lui(m[34], 6, UartHigh) /\ Addi(m[35], 7, 0, 65) /\ Sw(m[36], 7, 6, 0)
    <2>1. m[1] = P[1] /\ m[30] = P[30] /\ m[31] = P[31] /\ \A e \in 14 .. 17 : m[e] = P[e]
      BY <1>5
    <2> QED BY <1>6, <1>10, <2>1
  <1> QED BY <1>1, <1>2, <1>7, <1>8, <1>9, <1>11 DEF SocImage, m

-----------------------------------------------------------------------------
(* The AES program, word by word.                                          *)

AesName ==
  <<"KEY0", "KEY1", "KEY2", "KEY3", "DATA0", "DATA1", "DATA2", "DATA3", "CTRL">>

LEMMA AesNames ==
  /\ \A i \in 1 .. 9 : AesName[i] \in DOMAIN AesReg /\ AesReg[AesName[i]] = 4 * (i - 1)
  /\ \A i \in 1 .. 4 : AesName[i] \in DOMAIN KeyWord /\ KeyWord[AesName[i]] = 5 - i
  /\ \A i \in 5 .. 8 : /\ AesName[i] \in DOMAIN DataWord \ DOMAIN KeyWord
                       /\ DataWord[AesName[i]] = 9 - i
  /\ AesName[9] = "CTRL"
  <1>1. /\ AesName[1] = "KEY0" /\ AesName[2] = "KEY1" /\ AesName[3] = "KEY2" /\ AesName[4] = "KEY3"
        /\ AesName[5] = "DATA0" /\ AesName[6] = "DATA1" /\ AesName[7] = "DATA2"
        /\ AesName[8] = "DATA3" /\ AesName[9] = "CTRL"
    BY DEF AesName
  <1>2. DOMAIN AesReg = {"KEY0", "KEY1", "KEY2", "KEY3", "DATA0", "DATA1", "DATA2", "DATA3",
                         "CTRL", "STATUS", "OUT0", "OUT1", "OUT2", "OUT3"}
    BY DEF AesReg
  <1>3. /\ AesReg["KEY0"] = 0 /\ AesReg["KEY1"] = 4 /\ AesReg["KEY2"] = 8 /\ AesReg["KEY3"] = 12
        /\ AesReg["DATA0"] = 16 /\ AesReg["DATA1"] = 20 /\ AesReg["DATA2"] = 24
        /\ AesReg["DATA3"] = 28 /\ AesReg["CTRL"] = 32
    BY DEF AesReg
  <1>4. /\ DOMAIN KeyWord = {"KEY0", "KEY1", "KEY2", "KEY3"}
        /\ KeyWord["KEY0"] = 4 /\ KeyWord["KEY1"] = 3 /\ KeyWord["KEY2"] = 2 /\ KeyWord["KEY3"] = 1
    BY DEF KeyWord
  <1>5. /\ DOMAIN DataWord = {"DATA0", "DATA1", "DATA2", "DATA3"}
        /\ DataWord["DATA0"] = 4 /\ DataWord["DATA1"] = 3 /\ DataWord["DATA2"] = 2
        /\ DataWord["DATA3"] = 1
    BY DEF DataWord
  <1>6. /\ \A i \in 1 .. 4 : i = 1 \/ i = 2 \/ i = 3 \/ i = 4
        /\ \A i \in 5 .. 8 : i = 5 \/ i = 6 \/ i = 7 \/ i = 8
        /\ \A i \in 1 .. 9 : i \in 1 .. 4 \/ i \in 5 .. 8 \/ i = 9
    OBVIOUS
  <1>7. \A i \in 1 .. 4 : /\ AesName[i] \in DOMAIN AesReg /\ AesReg[AesName[i]] = 4 * (i - 1)
                          /\ AesName[i] \in DOMAIN KeyWord /\ KeyWord[AesName[i]] = 5 - i
    BY <1>1, <1>2, <1>3, <1>4, <1>6
  <1>8. \A i \in 5 .. 8 : /\ AesName[i] \in DOMAIN AesReg /\ AesReg[AesName[i]] = 4 * (i - 1)
                          /\ AesName[i] \in DOMAIN DataWord \ DOMAIN KeyWord
                          /\ DataWord[AesName[i]] = 9 - i
    BY <1>1, <1>2, <1>3, <1>4, <1>5, <1>6
  <1>9. AesName[9] \in DOMAIN AesReg /\ AesReg[AesName[9]] = 4 * (9 - 1)
    BY <1>1, <1>2, <1>3
  <1> QED BY <1>1, <1>6, <1>7, <1>8, <1>9

SocStores ==
  [i \in 1 .. 10 |-> IF i <= 8 THEN <<{<<"aes", AesName[i]>>}, Given(i)>>
                     ELSE IF i = 9 THEN <<{<<"aes", "CTRL">>}, Num(1)>>
                     ELSE <<{<<"uart", "DATA">>}, Num(65)>>]

LEMMA BuildStoresAre == BuildStores = SocStores
  <1> DEFINE a == [i \in 1 .. 4 |-> To("aes", <<"KEY0", "KEY1", "KEY2", "KEY3">>[i], KEY[5 - i])]
             b == [i \in 1 .. 4 |-> To("aes", <<"DATA0", "DATA1", "DATA2", "DATA3">>[i],
                                       PLAINTEXT[5 - i])]
             c == <<To("aes", "CTRL", Num(1)), To("uart", "DATA", Num(65))>>
             T == SocStores
  <1>1. BuildStores = (a \o b) \o c
    BY DEF BuildStores
  <1>2. /\ \A i \in 1 .. 4 : a[i] = <<{<<"aes", AesName[i]>>}, Given(i)>>
        /\ \A i \in 1 .. 4 : b[i] = <<{<<"aes", AesName[4 + i]>>}, Given(4 + i)>>
        /\ c[1] = <<{<<"aes", "CTRL">>}, Num(1)>> /\ c[2] = <<{<<"uart", "DATA">>}, Num(65)>>
    <2>1. \A i \in 1 .. 4 : /\ <<"KEY0", "KEY1", "KEY2", "KEY3">>[i] = AesName[i]
                            /\ <<"DATA0", "DATA1", "DATA2", "DATA3">>[i] = AesName[4 + i]
      <3>1. \A i \in 1 .. 4 : i = 1 \/ i = 2 \/ i = 3 \/ i = 4
        OBVIOUS
      <3> QED BY <3>1 DEF AesName
    <2>2. \A i \in 1 .. 4 : /\ Given(i) = KEY[5 - i] /\ Given(4 + i) = PLAINTEXT[5 - i]
      <3>1. \A i \in 1 .. 4 : i <= 4 /\ ~(4 + i <= 4) /\ 9 - (4 + i) = 5 - i
        OBVIOUS
      <3> QED BY <3>1 DEF Given
    <2> QED BY <2>1, <2>2 DEF To
  <1>3. /\ T = [i \in 1 .. 10 |-> T[i]] /\ a = [i \in 1 .. 4 |-> a[i]]
        /\ b = [i \in 1 .. 4 |-> b[i]] /\ c = [i \in 1 .. 2 |-> c[i]]
    BY DEF SocStores
  <1>4. /\ \A i \in 1 .. 8 : T[i] = <<{<<"aes", AesName[i]>>}, Given(i)>>
        /\ T[9] = <<{<<"aes", "CTRL">>}, Num(1)>> /\ T[10] = <<{<<"uart", "DATA">>}, Num(65)>>
    BY DEF SocStores
  <1> HIDE DEF a, b, c, T
  <1>5. /\ \A k \in 1 .. 4 : a[k] = T[0 + k] /\ b[k] = T[4 + k]
        /\ \A k \in 1 .. 2 : c[k] = T[8 + k]
    <2>1. \A k \in 1 .. 4 : 0 + k = k /\ k \in 1 .. 8 /\ 4 + k \in 1 .. 8
      OBVIOUS
    <2>2. \A k \in 1 .. 2 : (k = 1 /\ 8 + k = 9) \/ (k = 2 /\ 8 + k = 10)
      OBVIOUS
    <2> QED BY <1>2, <1>4, <2>1, <2>2
  <1>6. /\ Starts(T, T, 10) /\ Len(T) = 10 /\ Starts(<<>>, T, 0)
        /\ Starts(a, a, 4) /\ Len(a) = 4 /\ Starts(b, b, 4) /\ Len(b) = 4
        /\ Starts(c, c, 2) /\ Len(c) = 2
    BY <1>3, Listed
  <1>7. Starts(<<>> \o a, T, 0 + 4)
    <2>1. 0 + 4 <= Len(T)
      BY <1>6
    <2> QED BY <1>5, <1>6, <2>1, GrowsBy
  <1>8. <<>> \o a = a
    BY <1>6 DEF Starts
  <1>9. Starts(a \o b, T, 4 + 4)
    <2>1. 4 + 4 <= Len(T) /\ Starts(a, T, 4)
      BY <1>6, <1>7, <1>8
    <2> QED BY <1>5, <1>6, <2>1, GrowsBy
  <1>10. Starts((a \o b) \o c, T, 8 + 2)
    <2>1. 8 + 2 <= Len(T) /\ Starts(a \o b, T, 8)
      BY <1>6, <1>9
    <2> QED BY <1>5, <1>6, <2>1, GrowsBy
  <1>11. Starts((a \o b) \o c, T, Len(T))
    BY <1>6, <1>10
  <1> QED BY <1>1, <1>11, Grown DEF T

\* A step of the program further, a store longer.
LEMMA OneMore ==
  ASSUME NEW n \in 0 .. 9, stores = [i \in 1 .. n |-> BuildStores[i]],
         stores' = Append(stores, BuildStores[n + 1])
  PROVE  stores' = [i \in 1 .. n + 1 |-> BuildStores[i]]
  <1> DEFINE B == BuildStores
             S == {B[i] : i \in 1 .. n + 1}
             s == [i \in 1 .. n |-> B[i]]
             t == [i \in 1 .. n + 1 |-> B[i]]
  <1>1. \A i \in 1 .. n + 1 : B[i] \in S
    OBVIOUS
  <1> HIDE DEF S, B
  <1>2. s \in Seq(S) /\ Len(s) = n /\ t \in Seq(S) /\ Len(t) = n + 1 /\ B[n + 1] \in S
    BY <1>1
  <1>3. Append(s, B[n + 1]) \in Seq(S) /\ Len(Append(s, B[n + 1])) = n + 1
    BY <1>2
  <1>4. \A i \in 1 .. n + 1 : Append(s, B[n + 1])[i] = t[i]
    BY <1>2
  <1>5. Append(s, B[n + 1]) = t
    <2> HIDE DEF s, t
    <2> QED BY <1>2, <1>3, <1>4, SeqEqual
  <1> QED BY <1>5 DEF B

LEMMA AesTarget ==
  ASSUME NEW i \in 1 .. 9, NEW n, n = 4 * (i - 1), NEW a, a = AddressOf(Plus(W(AesHigh, 0), Num(n)))
  PROVE  Arrives(a) = {<<"aes", AesName[i]>>} /\ Selected(a) = {"aes"}
  <1>1. Num(536870912) = W(AesHigh, 0)
    BY SMTT(30) DEF Num, Lo12, Hi20, AesHigh
  <1>2. n \in Int /\ 0 <= n /\ n <= 32 /\ 536870912 + n \in Int
    BY SMT
  <1>3. a = 536870912 + n
    <2>1. Plus(Num(536870912), Num(n)) = Num(536870912 + n)
      BY <1>2, NumSum, SMTT(30)
    <2>2. AddressOf(Num(536870912 + n)) = 536870912 + n
      BY <1>2, NumAddress, SMT
    <2> QED BY <1>1, <2>1, <2>2, SMT
  <1>4. Selected(a) = {"aes"} /\ a % 256 = n
    BY <1>2, <1>3, SelectedSlaves, SMT
  <1>5. Arrives(a) = {<<"aes", Named(AesReg, n)>>}
    BY <1>4, ArrivesAt, SMT
  <1>6. Named(AesReg, n) = AesName[i]
    <2>1. AesName[i] \in DOMAIN AesReg /\ AesReg[AesName[i]] = n
      BY AesNames, SMT
    <2> QED BY <2>1, OneOffset, NamedBack, SMT
  <1> QED BY <1>4, <1>5, <1>6, SMT

LEMMA StatusTarget ==
  ASSUME NEW a, a = AddressOf(Plus(W(AesHigh, 0), Num(36)))
  PROVE  Arrives(a) = {<<"aes", "STATUS">>}
  <1>1. Num(536870912) = W(AesHigh, 0)
    BY SMTT(30) DEF Num, Lo12, Hi20, AesHigh
  <1>3. a = 536870948
    <2>1. Plus(Num(536870912), Num(36)) = Num(536870948)
      <3>1. 536870912 + 36 = 536870948
        BY SMT
      <3> QED BY <3>1, NumSum, SMTT(30)
    <2>2. AddressOf(Num(536870948)) = 536870948
      BY NumAddress, SMT
    <2> QED BY <1>1, <2>1, <2>2, SMT
  <1>4. Selected(a) = {"aes"} /\ a % 256 = 36
    BY <1>3, SelectedSlaves, SMT
  <1>5. Arrives(a) = {<<"aes", Named(AesReg, 36)>>}
    BY <1>4, ArrivesAt, SMT
  <1>6. Named(AesReg, 36) = "STATUS"
    <2>1. "STATUS" \in DOMAIN AesReg /\ AesReg["STATUS"] = 36
      BY DEF AesReg
    <2> QED BY <2>1, OneOffset, NamedBack, SMT
  <1> QED BY <1>5, <1>6, SMT

LEMMA UartTarget ==
  ASSUME NEW a, a = AddressOf(Plus(W(UartHigh, 0), Num(0)))
  PROVE  Arrives(a) = {<<"uart", "DATA">>} /\ "aes" \notin Selected(a)
  <1>1. Num(268435456) = W(UartHigh, 0)
    BY SMTT(30) DEF Num, Lo12, Hi20, UartHigh
  <1>3. a = 268435456
    <2>1. Plus(Num(268435456), Num(0)) = Num(268435456)
      <3>1. 268435456 + 0 = 268435456
        BY SMT
      <3> QED BY <3>1, NumSum, SMTT(30)
    <2>2. AddressOf(Num(268435456)) = 268435456
      BY NumAddress, SMT
    <2> QED BY <1>1, <2>1, <2>2, SMT
  <1>4. Selected(a) = {"uart"} /\ a % 32 = 0
    BY <1>3, SelectedSlaves, SMT
  <1>5. Arrives(a) = {<<"uart", Named(UartReg, 0)>>}
    BY <1>4, ArrivesAt, SMT
  <1>6. Named(UartReg, 0) = "DATA"
    <2>1. "DATA" \in DOMAIN UartReg /\ UartReg["DATA"] = 0
      BY DEF UartReg
    <2> QED BY <2>1, OneOffset, NamedBack, SMT
  <1>7. "aes" # "uart"
    OBVIOUS
  <1> QED BY <1>4, <1>5, <1>6, <1>7, SMT

\* What the words do to the cipher, and what the poll learns of it.
LEMMA CipherStep ==
  ASSUME Execute
  PROVE  /\ insn.op # 35 => aes' = aes
         /\ \A rs2, rs1, n, a :
              Sw(insn, rs2, rs1, n) /\ a = AddressOf(Plus(x[rs1], Num(n))) =>
                /\ "aes" \notin Selected(a) => aes' = aes
                /\ \A reg : "aes" \in Selected(a) /\ Arrives(a) = {<<"aes", reg>>} =>
                              aes' = AesWritten(reg, x[rs2])
         /\ \A rd, r, n :
              Lw(insn, rd, r, n) /\ Arrives(AddressOf(Plus(x[r], Num(n)))) = {<<"aes", "STATUS">>}
                => Puts(rd, Num(aes.done))
         /\ \A r1, r2, n :
              Beq(insn, r1, r2, n) =>
                /\ pc' = IF x[r1] = x[r2] THEN pc + n ELSE pc + 4
                /\ UNCHANGED x /\ Quiet
  <1>1. insn.op # 35 => aes' = aes
    <2>1. Store => insn.op = 35
      BY DEF Store, Fetches
    <2> QED BY <2>1 DEF Execute, LoadUpper, Immediate, AddRegs, Load, BranchStep, CsrStep,
                        MachineReturn, NoBus
  <1>2. ASSUME NEW rs2, NEW rs1, NEW n, NEW a, Sw(insn, rs2, rs1, n),
               a = AddressOf(Plus(x[rs1], Num(n)))
        PROVE  /\ "aes" \notin Selected(a) => aes' = aes
               /\ \A reg : "aes" \in Selected(a) /\ Arrives(a) = {<<"aes", reg>>} =>
                             aes' = AesWritten(reg, x[rs2])
    <2>1. Store
      BY <1>2, OpOf DEF Sw
    <2>2. StoreAddress = a /\ x2 = x[rs2]
      BY <1>2 DEF Sw, StoreAddress, x1, x2
    <2>3. aes' = IF "aes" \in Selected(a)
                   THEN AesWritten((CHOOSE t \in Arrives(a) : t[1] = "aes")[2], x[rs2]) ELSE aes
      BY <2>1, <2>2 DEF Store
    <2>4. ASSUME NEW reg, Arrives(a) = {<<"aes", reg>>}
          PROVE  (CHOOSE t \in Arrives(a) : t[1] = "aes")[2] = reg
      <3> DEFINE c == CHOOSE t \in Arrives(a) : t[1] = "aes"
      <3>1. c = <<"aes", reg>>
        BY <2>4
      <3> HIDE DEF c
      <3>2. c[2] = reg
        BY <3>1
      <3> QED BY <3>2 DEF c
    <2> QED BY <2>3, <2>4
  <1>3. ASSUME NEW rd, NEW r, NEW n, Lw(insn, rd, r, n),
               Arrives(AddressOf(Plus(x[r], Num(n)))) = {<<"aes", "STATUS">>}
        PROVE  Puts(rd, Num(aes.done))
    <2> DEFINE t == <<"aes", "STATUS">>
    <2>1. Load
      BY <1>3, OpOf DEF Lw
    <2>2. Arrives(LoadAddress) = {t}
      BY <1>3 DEF Lw, LoadAddress, x1
    <2>3. Answers(t) = {Num(aes.done)}
      <3>1. Answers(<<"aes", "STATUS">>) = {Num(aes.done)}
        <4>1. <<"aes", "STATUS">>[1] # "ram"
          OBVIOUS
        <4>2. <<"aes", "STATUS">> # <<"aes", "CTRL">> /\ <<"aes", "STATUS">> # <<"clint", "MTIME_LO">>
          OBVIOUS
        <4> QED BY <4>1, <4>2, Zenon DEF Answers
      <3> QED BY <3>1
    <2> HIDE DEF t
    <2>4. SetReg(Num(aes.done))
      <3>1. \E q \in Arrives(LoadAddress) : \E w \in Answers(q) : SetReg(w)
        BY <2>1, <2>2 DEF Load
      <3>2. \E w \in Answers(t) : SetReg(w)
        BY <2>2, <3>1
      <3> QED BY <2>3, <3>2
    <2> QED BY <1>3, <2>4 DEF Lw, SetReg, Puts
  <1>4. ASSUME NEW r1, NEW r2, NEW n, Beq(insn, r1, r2, n)
        PROVE  /\ pc' = IF x[r1] = x[r2] THEN pc + n ELSE pc + 4
               /\ UNCHANGED x /\ Quiet
    <2>1. BranchStep
      BY <1>4, OpOf DEF Beq
    <2>2. pc' = IF (x1 = x2) = (insn.f3 = 0) THEN pc + imm_b(insn) ELSE pc + 4
      BY <2>1 DEF BranchStep
    <2>3. x1 = x[r1] /\ x2 = x[r2] /\ insn.f3 = 0 /\ imm_b(insn) = n
      BY <1>4 DEF Beq, x1, x2
    <2> QED BY <2>1, <2>2, <2>3 DEF BranchStep, Quiet, NoBus, Same
  <1> QED BY <1>1, <1>2, <1>3, <1>4

LEMMA Places ==
  ASSUME NEW k \in 0 .. 36
  PROVE  \/ k = 0 \/ k \in 13 .. 16 \/ k \in 29 .. 36
         \/ \E i \in 1 .. 8 : k = Begin(i) \/ k = Begin(i) + 1 \/ k = Begin(i) + 2
  <1>1. CASE 1 <= k /\ k <= 12
    <2> DEFINE i == (k + 2) \div 3
    <2>1. i \in 1 .. 4 /\ (k = 3 * i - 2 \/ k = 3 * i - 1 \/ k = 3 * i)
      BY <1>1
    <2> HIDE DEF i
    <2>2. i \in 1 .. 8 /\ (k = Begin(i) \/ k = Begin(i) + 1 \/ k = Begin(i) + 2)
      BY <2>1 DEF Begin
    <2> QED BY <2>2
  <1>2. CASE 17 <= k /\ k <= 28
    <2> DEFINE i == (k - 2) \div 3
    <2>1. i \in 5 .. 8 /\ (k = 3 * i + 2 \/ k = 3 * i + 3 \/ k = 3 * i + 4)
      BY <1>2
    <2> HIDE DEF i
    <2>2. i \in 1 .. 8 /\ (k = Begin(i) \/ k = Begin(i) + 1 \/ k = Begin(i) + 2)
      BY <2>1 DEF Begin
    <2> QED BY <2>2
  <1> QED BY <1>1, <1>2

LEMMA Begins ==
  ASSUME NEW i \in 1 .. 8, NEW b, b = Begin(i)
  PROVE  /\ b \in 1 .. 12 \/ b \in 17 .. 28
         /\ b \in 1 .. 26 /\ b + 1 \in 1 .. 27 /\ b + 2 \in 1 .. 28 /\ b + 3 \in 1 .. 29
         /\ Made(b) = i - 1 /\ Made(b + 1) = i - 1 /\ Made(b + 2) = i - 1 /\ Made(b + 3) = i
         /\ \A j \in 1 .. 8 : /\ b + 1 = Begin(j) + 1 => j = i
                              /\ b + 2 = Begin(j) + 2 => j = i
                              /\ b + 1 # Begin(j) + 2 /\ b + 2 # Begin(j) + 1
                              /\ b + 3 # Begin(j) + 1 /\ b + 3 # Begin(j) + 2
  <1>1. i = 1 \/ i = 2 \/ i = 3 \/ i = 4 \/ i = 5 \/ i = 6 \/ i = 7 \/ i = 8
    OBVIOUS
  <1>2. b = IF i <= 4 THEN 3 * i - 2 ELSE 3 * i + 2
    BY DEF Begin
  <1>3. /\ b \in 1 .. 12 \/ b \in 17 .. 28
        /\ b \in 1 .. 26 /\ b + 1 \in 1 .. 27 /\ b + 2 \in 1 .. 28 /\ b + 3 \in 1 .. 29
    BY <1>2
  <1>4. Made(b) = i - 1 /\ Made(b + 1) = i - 1 /\ Made(b + 2) = i - 1 /\ Made(b + 3) = i
    BY <1>1, <1>2 DEF Made
  <1>5. ASSUME NEW j \in 1 .. 8
        PROVE  /\ b + 1 = Begin(j) + 1 => j = i
               /\ b + 2 = Begin(j) + 2 => j = i
               /\ b + 1 # Begin(j) + 2 /\ b + 2 # Begin(j) + 1
               /\ b + 3 # Begin(j) + 1 /\ b + 3 # Begin(j) + 2
    BY <1>2 DEF Begin
  <1> QED BY <1>3, <1>4, <1>5

\* Behind the nops and at the end nothing is in the middle of a store.
LEMMA Elsewhere ==
  ASSUME NEW j \in 1 .. 8, NEW m \in 0 .. 36, m <= 1 \/ m \in 13 .. 17 \/ m >= 29
  PROVE  m # Begin(j) + 1 /\ m # Begin(j) + 2
  BY DEF Begin

\* What a word in front of word m puts in a register, if it puts anything.
Readies(k, m, rd, w) ==
  /\ k = 0 => rd = 1
  /\ rd = 1 => w = W(AesHigh, 0)
  /\ \A i \in 1 .. 8 : /\ m = Begin(i) + 1 => rd = 2 /\ w = W(High(Given(i)), 0)
                       /\ m = Begin(i) + 2 => rd = 2 /\ w = Given(i)
  /\ m = 30 => rd = 2 /\ w = Num(1)
  /\ m \in {34, 35} => IF rd = 6 THEN w = W(UartHigh, 0) ELSE k \in {34, 35}
  /\ m = 35 => rd = 7 /\ w = Num(65)

LEMMA RegsPut ==
  ASSUME x \in [0 .. 31 -> Word], NEW k \in 0 .. 36, SocRegs(k),
         NEW rd \in {1, 2, 6, 7}, NEW w, Puts(rd, w), NEW m \in 0 .. 36, Readies(k, m, rd, w)
  PROVE  SocRegs(m)'
  <1>1. 0 \in Bits(5) /\ 1 \in Bits(5) /\ 2 \in Bits(5) /\ 6 \in Bits(5) /\ 7 \in Bits(5)
    BY BitsRange
  <1>2. \A r \in Bits(5) : x'[r] = IF r = rd /\ rd # 0 THEN w ELSE x[r]
    BY <1>1, PutsReads
  <1>3. /\ x'[0] = x[0] /\ x'[rd] = w
        /\ rd # 1 => x'[1] = x[1]
        /\ rd # 6 => x'[6] = x[6]
    BY <1>1, <1>2
  <1>4. /\ x[0] = Num(0)
        /\ k >= 1 => x[1] = W(AesHigh, 0)
        /\ k \in {34, 35} => x[6] = W(UartHigh, 0)
    BY DEF SocRegs
  <1>5. x'[0] = Num(0) /\ (m >= 1 => x'[1] = W(AesHigh, 0))
    <2>1. (k = 0 => rd = 1) /\ (rd = 1 => w = W(AesHigh, 0))
      BY DEF Readies
    <2> QED BY <1>3, <1>4, <2>1
  <1>6. \A i \in 1 .. 8 : /\ m = Begin(i) + 1 => x'[2] = W(High(Given(i)), 0)
                          /\ m = Begin(i) + 2 => x'[2] = Given(i)
    BY <1>3 DEF Readies
  <1>7. /\ m = 30 => x'[2] = Num(1)
        /\ m \in {34, 35} => x'[6] = W(UartHigh, 0)
        /\ m = 35 => x'[7] = Num(65)
    BY <1>3, <1>4 DEF Readies
  <1> QED BY <1>5, <1>6, <1>7 DEF SocRegs

LEMMA RegsSame ==
  ASSUME NEW k \in 1 .. 36, SocRegs(k), x' = x, NEW m \in 0 .. 36, m \notin {30, 34, 35},
         \A i \in 1 .. 8 : m # Begin(i) + 1 /\ m # Begin(i) + 2
  PROVE  SocRegs(m)'
  BY DEF SocRegs

LEMMA QuietStep ==
  ASSUME NEW k \in 0 .. 36, SocAt(k), NEW m \in 0 .. 36, pc' = 4 * m, Quiet, aes' = aes,
         Made(m) = Made(k), SocRegs(m)', SocPolled(m)'
  PROVE  SocAt(m)'
  <1>1. SocAes(Made(k)) /\ stores = [i \in 1 .. Made(k) |-> BuildStores[i]] /\ csr.MIE = 0
    BY DEF SocAt
  <1>2. SocAes(Made(m))'
    BY <1>1 DEF SocAes
  <1> QED BY <1>1, <1>2 DEF SocAt, Quiet

\* A step that stores what it is to.
LEMMA StoreStep ==
  ASSUME NEW k \in 0 .. 36, SocAt(k), NEW m \in 0 .. 36, pc' = 4 * m, csr' = csr,
         Made(k) \in 0 .. 9, Made(m) = Made(k) + 1, stores' = Append(stores, BuildStores[Made(k) + 1]),
         SocAes(Made(k) + 1)', SocRegs(m)', SocPolled(m)'
  PROVE  SocAt(m)'
  <1>1. stores = [i \in 1 .. Made(k) |-> BuildStores[i]] /\ csr.MIE = 0
    BY DEF SocAt
  <1>2. stores' = [i \in 1 .. Made(k) + 1 |-> BuildStores[i]]
    <2> DEFINE n == Made(k)
    <2> HIDE DEF n
    <2>1. n \in 0 .. 9 /\ stores = [i \in 1 .. n |-> BuildStores[i]]
          /\ stores' = Append(stores, BuildStores[n + 1])
      BY <1>1 DEF n
    <2>2. stores' = [i \in 1 .. n + 1 |-> BuildStores[i]]
      BY <2>1, OneMore
    <2> QED BY <2>2 DEF n
  <1> QED BY <1>1, <1>2 DEF SocAt

LEMMA AesGets ==
  ASSUME NEW i \in 1 .. 8, NEW n, n = i - 1, SocAes(n), aes \in AesType,
         aes' = AesWritten(AesName[i], Given(i))
  PROVE  SocAes(i)'
  <1>1. /\ DOMAIN KeyWord = {"KEY0", "KEY1", "KEY2", "KEY3"}
        /\ DOMAIN DataWord = {"DATA0", "DATA1", "DATA2", "DATA3"}
    BY DEF KeyWord, DataWord
  <1>2. /\ aes.loaded = aes.key /\ aes.busy = 0 /\ aes.done = 0
        /\ \A j \in 1 .. 4 : j <= n => aes.key[5 - j] = KEY[5 - j]
        /\ \A j \in 5 .. 8 : j <= n => aes.data[9 - j] = PLAINTEXT[9 - j]
    BY DEF SocAes
  <1>3. aes.key \in Block /\ aes.data \in Block
    BY DEF AesType
  <1>4. CASE i <= 4
    <2>1. AesName[i] \in DOMAIN KeyWord /\ KeyWord[AesName[i]] = 5 - i /\ Given(i) = KEY[5 - i]
      BY <1>4, AesNames DEF Given
    <2> DEFINE key == [aes.key EXCEPT ![5 - i] = KEY[5 - i]]
    <2>2. AesWritten(AesName[i], Given(i)) = [aes EXCEPT !.key = key, !.loaded = key]
      BY <1>1, <2>1 DEF AesWritten
    <2>3. \A j \in 1 .. 4 : j <= i => key[5 - j] = KEY[5 - j]
      <3> HIDE DEF Word
      <3>1. aes.key \in [1 .. 4 -> Word]
        BY <1>3 DEF Block
      <3>2. \A e \in 1 .. 4 : key[e] = IF e = 5 - i THEN KEY[5 - i] ELSE aes.key[e]
        BY <1>4, <3>1
      <3>3. \A j \in 1 .. 4 : 5 - j \in 1 .. 4 /\ (j <= i /\ 5 - j # 5 - i => j <= n)
        BY <1>4
      <3> HIDE DEF key
      <3> QED BY <1>2, <3>2, <3>3
    <2> HIDE DEF key
    <2>4. /\ aes'.key = key /\ aes'.loaded = key /\ aes'.data = aes.data
          /\ aes'.busy = aes.busy /\ aes'.done = aes.done
      BY <2>2 DEF AesType
    <2>5. (\A j \in 5 .. 8 : ~(j <= i)) /\ ~(i >= 9)
      BY <1>4
    <2> QED BY <1>2, <2>3, <2>4, <2>5 DEF SocAes
  <1>5. CASE ~(i <= 4)
    <2>1. /\ AesName[i] \in DOMAIN DataWord /\ AesName[i] \notin DOMAIN KeyWord
          /\ DataWord[AesName[i]] = 9 - i /\ Given(i) = PLAINTEXT[9 - i]
      BY <1>5, AesNames DEF Given
    <2> DEFINE data == [aes.data EXCEPT ![9 - i] = PLAINTEXT[9 - i]]
    <2>2. AesWritten(AesName[i], Given(i)) = [aes EXCEPT !.data = data]
      BY <1>1, <2>1 DEF AesWritten, AesType
    <2>3. \A j \in 5 .. 8 : j <= i => data[9 - j] = PLAINTEXT[9 - j]
      <3> HIDE DEF Word
      <3>1. aes.data \in [1 .. 4 -> Word]
        BY <1>3 DEF Block
      <3>2. \A e \in 1 .. 4 : data[e] = IF e = 9 - i THEN PLAINTEXT[9 - i] ELSE aes.data[e]
        BY <1>5, <3>1
      <3>3. \A j \in 5 .. 8 : 9 - j \in 1 .. 4 /\ (j <= i /\ 9 - j # 9 - i => j <= n)
        BY <1>5
      <3> HIDE DEF data
      <3> QED BY <1>2, <3>2, <3>3
    <2> HIDE DEF data
    <2>4. /\ aes'.key = aes.key /\ aes'.loaded = aes.loaded /\ aes'.data = data
          /\ aes'.busy = aes.busy /\ aes'.done = aes.done
      BY <2>2 DEF AesType
    <2>5. (\A j \in 1 .. 4 : j <= i /\ j <= n) /\ ~(i >= 9)
      BY <1>5
    <2> QED BY <1>2, <2>3, <2>4, <2>5 DEF SocAes
  <1> QED BY <1>4, <1>5

LEMMA AesBegins ==
  ASSUME SocAes(8), aes \in AesType, aes' = AesWritten("CTRL", Num(1))
  PROVE  SocAes(9)'
  <1>1. Num(1).lo % 2 = 1
    BY SMT DEF Num, W, Lo12
  <1>2. aes' = [aes EXCEPT !.busy = 1, !.done = 0, !.block = aes.data]
    BY <1>1 DEF AesWritten, KeyWord, DataWord
  <1>3. /\ aes'.key = aes.key /\ aes'.loaded = aes.loaded /\ aes'.data = aes.data
        /\ aes'.done = 0 /\ aes'.block = aes'.data
    BY <1>2 DEF AesType
  <1>4. (\A i \in 1 .. 4 : i <= 8) /\ (\A i \in 5 .. 8 : i <= 8) /\ ~(9 <= 8)
    OBVIOUS
  <1> QED BY <1>3, <1>4 DEF SocAes

LEMMA AesDone ==
  ASSUME NEW n \in 0 .. 10, SocAes(n), aes \in AesType, AesFinishes
  PROVE  SocAes(n)' /\ aes'.done = 1
  <1>1. /\ aes.busy = 1
        /\ aes' = [aes EXCEPT !.busy = 0, !.done = 1, !.cipher = <<aes.loaded, aes.block>>]
    BY DEF AesFinishes
  <1>2. /\ aes'.key = aes.key /\ aes'.loaded = aes.loaded /\ aes'.data = aes.data
        /\ aes'.block = aes.block /\ aes'.done = 1 /\ aes'.cipher = <<aes.loaded, aes.block>>
    BY <1>1 DEF AesType
  <1>3. ~(n <= 8) /\ aes.block = aes.data
    BY <1>1 DEF SocAes
  <1> QED BY <1>2, <1>3 DEF SocAes

LEMMA SocHere ==
  ASSUME SocTypeOK, NEW k \in 0 .. 36, SocAt(k)
  PROVE  /\ insn = imem[k + 1] /\ pc = 4 * k /\ pc + 4 = 4 * (k + 1)
         /\ x \in [0 .. 31 -> Word] /\ aes \in AesType
         /\ SocRegs(k) /\ SocAes(Made(k)) /\ SocPolled(k)
         /\ x[0] = Num(0) /\ (k >= 1 => x[1] = W(AesHigh, 0))
  <1>1. pc = 4 * k /\ SocRegs(k) /\ SocAes(Made(k)) /\ SocPolled(k)
    BY DEF SocAt
  <1>2. insn = imem[k + 1]
    BY <1>1, WordAt
  <1>3. x \in [0 .. 31 -> Word] /\ aes \in AesType
    BY SocTypeSplit
  <1> QED BY <1>1, <1>2, <1>3 DEF SocRegs

\* Into the registers, and nothing else.
LEMMA SocPuts ==
  ASSUME SocTypeOK, NEW k \in 0 .. 35, SocAt(k), Execute, insn.op # 35,
         NEW rd \in {1, 2, 6, 7}, NEW w, Puts(rd, w), Ahead, Quiet,
         Made(k + 1) = Made(k), SocPolled(k + 1)', Readies(k, k + 1, rd, w)
  PROVE  SocAt(k + 1)'
  <1> DEFINE m == k + 1
  <1>1. m \in 0 .. 36 /\ k \in 0 .. 36 /\ Made(m) = Made(k) /\ SocPolled(m)' /\ Readies(k, m, rd, w)
    OBVIOUS
  <1>2. /\ pc' = 4 * m /\ aes' = aes /\ SocRegs(k) /\ x \in [0 .. 31 -> Word]
    BY <1>1, SocHere, CipherStep DEF Ahead
  <1> HIDE DEF m
  <1>3. SocRegs(m)'
    BY <1>1, <1>2, RegsPut
  <1>4. SocAt(m)'
    BY <1>1, <1>2, <1>3, QuietStep
  <1> QED BY <1>4 DEF m

LEMMA FirstWord ==
  ASSUME SocTypeOK, SocImage(imem), SocAt(0), Execute PROVE SocAt(1)'
  <1>1. Lui(imem[1], 1, AesHigh)
    BY DEF SocImage
  <1> DEFINE k == 0
  <1>2. k \in 0 .. 35 /\ k \in 0 .. 36 /\ SocAt(k) /\ k + 1 = 1 /\ k = 0
    OBVIOUS
  <1> HIDE DEF k
  <1>3. Lui(insn, 1, AesHigh)
    BY <1>1, <1>2, SocHere
  <1>4. Puts(1, W(AesHigh, 0)) /\ Ahead /\ Quiet
    BY <1>3, LuiStep
  <1>5. \A i \in 1 .. 8 : k + 1 # Begin(i) + 1 /\ k + 1 # Begin(i) + 2
    BY <1>2, Elsewhere
  <1>6. Made(k + 1) = Made(k) /\ SocPolled(k + 1)' /\ k + 1 \notin {30, 34, 35}
    BY <1>2 DEF Made, SocPolled
  <1>7. SocAt(k + 1)'
    <2>1. insn.op # 35 /\ Readies(k, k + 1, 1, W(AesHigh, 0))
      BY <1>3, <1>5, <1>6 DEF Lui, Readies
    <2> QED BY <1>2, <1>4, <1>6, <2>1, SocPuts
  <1> QED BY <1>2, <1>7

LEMMA StoreWord ==
  ASSUME SocTypeOK, SocImage(imem), NEW i \in 1 .. 8, NEW b, b = Begin(i), Execute
  PROVE  /\ SocAt(b) => SocAt(b + 1)'
         /\ SocAt(b + 1) => SocAt(b + 2)'
         /\ SocAt(b + 2) => SocAt(b + 3)'
  <1>1. /\ Lui(imem[b + 1], 2, High(Given(i))) /\ Addi(imem[b + 2], 2, 2, Low(Given(i)))
        /\ Sw(imem[b + 3], 2, 1, 4 * (i - 1))
    BY DEF SocImage, SocStoreAt
  <1>2. /\ b \in 1 .. 26 /\ b + 1 \in 1 .. 27 /\ b + 2 \in 1 .. 28 /\ b + 3 \in 1 .. 29
        /\ Made(b) = i - 1 /\ Made(b + 1) = i - 1 /\ Made(b + 2) = i - 1 /\ Made(b + 3) = i
    BY Begins
  <1>3. \A j \in 1 .. 8 : /\ b + 1 = Begin(j) + 1 => j = i
                          /\ b + 2 = Begin(j) + 2 => j = i
                          /\ b + 1 # Begin(j) + 2 /\ b + 2 # Begin(j) + 1
                          /\ b + 3 # Begin(j) + 1 /\ b + 3 # Begin(j) + 2
    BY Begins
  <1>4. \A m \in 0 .. 29 : SocPolled(m)'
    BY DEF SocPolled
  <1>5. ASSUME SocAt(b) PROVE SocAt(b + 1)'
    <2>1. b \in 0 .. 36 /\ b \in 0 .. 35 /\ b # 0 /\ b + 1 \notin {30, 34, 35} /\ b + 1 \in 0 .. 29
      BY <1>2
    <2>2. Lui(insn, 2, High(Given(i)))
      BY <1>1, <1>5, <2>1, SocHere
    <2>3. Puts(2, W(High(Given(i)), 0)) /\ Ahead /\ Quiet /\ insn.op # 35
      BY <2>2, LuiStep DEF Lui
    <2>4. Readies(b, b + 1, 2, W(High(Given(i)), 0))
      BY <1>3, <2>1 DEF Readies
    <2> QED BY <1>2, <1>4, <1>5, <2>1, <2>3, <2>4, SocPuts
  <1>6. ASSUME SocAt(b + 1) PROVE SocAt(b + 2)'
    <2> DEFINE k == b + 1
    <2>1. /\ k \in 0 .. 36 /\ k \in 0 .. 35 /\ k # 0 /\ k + 1 \notin {30, 34, 35}
          /\ k + 1 \in 0 .. 29 /\ k + 1 = b + 2 /\ Made(k + 1) = Made(k) /\ SocAt(k)
      BY <1>2, <1>6
    <2>2. x[2] = W(High(Given(i)), 0)
      BY <1>6, <2>1 DEF SocAt, SocRegs
    <2> HIDE DEF k
    <2>3. Addi(insn, 2, 2, Low(Given(i)))
      BY <1>1, <2>1, SocHere
    <2>4. Puts(2, Plus(x[2], Num(Low(Given(i))))) /\ Ahead /\ Quiet /\ insn.op # 35
      BY <2>3, AddiStep DEF Addi
    <2>5. Plus(x[2], Num(Low(Given(i)))) = Given(i)
      BY <2>2, GivenWords, HalvesAdd
    <2>6. Puts(2, Given(i))
      BY <2>4, <2>5
    <2>7. Readies(k, k + 1, 2, Given(i))
      BY <1>3, <2>1 DEF Readies
    <2>8. SocAt(k + 1)'
      BY <1>4, <2>1, <2>4, <2>6, <2>7, SocPuts
    <2> QED BY <2>1, <2>8
  <1>7. ASSUME SocAt(b + 2) PROVE SocAt(b + 3)'
    <2> DEFINE k == b + 2
               m == b + 3
               n == 4 * (i - 1)
               t == Arrives(AddressOf(Plus(x[1], Num(n))))
    <2>1. /\ k \in 0 .. 36 /\ k \in 1 .. 36 /\ k + 1 = m /\ SocAt(k) /\ m \in 0 .. 36
          /\ m \in 0 .. 29 /\ Made(k) = i - 1 /\ Made(m) = i /\ m \notin {30, 34, 35}
      BY <1>2, <1>7
    <2>2. x[2] = Given(i)
      BY <1>7, <2>1 DEF SocAt, SocRegs
    <2>3. \A j \in 1 .. 8 : m # Begin(j) + 1 /\ m # Begin(j) + 2
      BY <1>3
    <2> HIDE DEF k, m, n, t
    <2>4. Sw(insn, 2, 1, n)
      <3>1. insn = imem[m]
        BY <2>1, SocHere
      <3> QED BY <1>1, <3>1 DEF n, m
    <2>5. /\ pc + 4 = 4 * m /\ aes \in AesType /\ SocRegs(k) /\ SocAes(Made(k))
          /\ x[1] = W(AesHigh, 0)
      BY <2>1, SocHere
    <2>6. t = {<<"aes", AesName[i]>>} /\ Selected(AddressOf(Plus(x[1], Num(n)))) = {"aes"}
      <3>1. i \in 1 .. 9 /\ n = 4 * (i - 1)
        BY DEF n
      <3> QED BY <2>5, <3>1, AesTarget DEF t
    <2>7. stores' = Append(stores, <<t, x[2]>>) /\ Ahead /\ UNCHANGED <<x, irqs, csr>>
      <3>1. stores' = IF t = {} THEN stores ELSE Append(stores, <<t, x[2]>>)
        BY <2>4, SwStep DEF t
      <3>2. Ahead /\ UNCHANGED <<x, irqs, csr>>
        BY <2>4, SwStep
      <3> QED BY <2>6, <3>1, <3>2
    <2>8. stores' = Append(stores, BuildStores[i])
      <3>1. BuildStores[i] = <<{<<"aes", AesName[i]>>}, Given(i)>>
        BY BuildStoresAre DEF SocStores
      <3> QED BY <2>2, <2>6, <2>7, <3>1
    <2>9. aes' = AesWritten(AesName[i], Given(i))
      <3> DEFINE a == AddressOf(Plus(x[1], Num(n)))
      <3>1. Selected(a) = {"aes"} /\ Arrives(a) = {<<"aes", AesName[i]>>}
        BY <2>6 DEF t
      <3>2. \A reg : "aes" \in Selected(a) /\ Arrives(a) = {<<"aes", reg>>} =>
                       aes' = AesWritten(reg, x[2])
        BY <2>4, CipherStep
      <3> HIDE DEF a
      <3> QED BY <2>2, <3>1, <3>2
    <2>10. SocAes(i)'
      <3>1. SocAes(i - 1)
        BY <2>1, <2>5
      <3> QED BY <2>5, <2>9, <3>1, AesGets
    <2>11. SocRegs(m)' /\ SocPolled(m)'
      BY <1>4, <2>1, <2>3, <2>5, <2>7, RegsSame
    <2>12. /\ pc' = 4 * m /\ csr' = csr /\ Made(k) \in 0 .. 9 /\ Made(m) = Made(k) + 1
           /\ Made(k) + 1 = i
      BY <2>1, <2>5, <2>7 DEF Ahead
    <2>13. stores' = Append(stores, BuildStores[Made(k) + 1]) /\ SocAes(Made(k) + 1)'
      BY <2>8, <2>10, <2>12
    <2>14. SocAt(m)'
      BY <2>1, <2>11, <2>12, <2>13, StoreStep
    <2> QED BY <2>14 DEF m
  <1> QED BY <1>5, <1>6, <1>7

LEMMA NopWord ==
  ASSUME SocTypeOK, SocImage(imem), NEW k \in 13 .. 16, SocAt(k), Execute PROVE SocAt(k + 1)'
  <1> DEFINE m == k + 1
  <1>1. /\ k \in 0 .. 36 /\ k \in 1 .. 36 /\ m \in 14 .. 17 /\ m \in 0 .. 36
        /\ m \notin {30, 34, 35} /\ Made(m) = Made(k) /\ m \in 13 .. 17
    BY DEF Made
  <1> HIDE DEF m
  <1>2. Addi(insn, 0, 0, 0)
    <2>1. insn = imem[m]
      BY <1>1, SocHere DEF m
    <2> QED BY <1>1, <2>1 DEF SocImage
  <1>3. x' = x /\ pc' = 4 * m /\ Quiet /\ aes' = aes /\ SocRegs(k)
    <2>1. Puts(0, Plus(x[0], Num(0))) /\ Ahead /\ Quiet /\ insn.op # 35
      BY <1>2, AddiStep DEF Addi
    <2> QED BY <1>1, <2>1, SocHere, CipherStep DEF Puts, Ahead, m
  <1>4. \A i \in 1 .. 8 : m # Begin(i) + 1 /\ m # Begin(i) + 2
    BY <1>1, Elsewhere
  <1>5. SocRegs(m)' /\ SocPolled(m)'
    <2>1. SocRegs(m)'
      BY <1>1, <1>3, <1>4, RegsSame
    <2>2. SocPolled(m)'
      BY <1>1 DEF SocPolled
    <2> QED BY <2>1, <2>2
  <1>6. SocAt(m)'
    BY <1>1, <1>3, <1>5, QuietStep
  <1> QED BY <1>6 DEF m

\* One into x2, the address of the UART into x6, the byte into x7.
LEMMA PutWords ==
  ASSUME SocTypeOK, SocImage(imem), NEW k \in {29, 33, 34}, SocAt(k), Execute
  PROVE  SocAt(k + 1)'
  <1>1. /\ k \in 0 .. 35 /\ k \in 0 .. 36 /\ k + 1 >= 29 /\ k + 1 \in 0 .. 36 /\ k # 0
        /\ Made(k + 1) = Made(k)
    BY DEF Made
  <1>2. insn = imem[k + 1] /\ x[0] = Num(0) /\ SocPolled(k) /\ SocRegs(k)
    BY <1>1, SocHere
  <1>3. \A i \in 1 .. 8 : k + 1 # Begin(i) + 1 /\ k + 1 # Begin(i) + 2
    BY <1>1, Elsewhere
  <1>4. Plus(x[0], Num(1)) = Num(1) /\ Plus(x[0], Num(65)) = Num(65)
    BY <1>2, PlusZero
  <1>5. \E rd \in {1, 2, 6, 7} : \E w : Puts(rd, w) /\ Readies(k, k + 1, rd, w)
    <2>1. CASE k = 29
      <3>1. Addi(insn, 2, 0, 1)
        BY <1>2, <2>1 DEF SocImage
      <3>2. Puts(2, Num(1))
        BY <1>4, <3>1, AddiStep
      <3>3. Readies(k, k + 1, 2, Num(1))
        BY <1>3, <2>1 DEF Readies
      <3> QED BY <3>2, <3>3
    <2>2. CASE k = 33
      <3>1. Lui(insn, 6, UartHigh)
        BY <1>2, <2>2 DEF SocImage
      <3>2. Puts(6, W(UartHigh, 0))
        BY <3>1, LuiStep
      <3>3. Readies(k, k + 1, 6, W(UartHigh, 0))
        BY <1>3, <2>2 DEF Readies
      <3> QED BY <3>2, <3>3
    <2>3. CASE k = 34
      <3>1. Addi(insn, 7, 0, 65)
        BY <1>2, <2>3 DEF SocImage
      <3>2. Puts(7, Num(65))
        BY <1>4, <3>1, AddiStep
      <3>3. Readies(k, k + 1, 7, Num(65))
        BY <1>3, <2>3 DEF Readies
      <3> QED BY <3>2, <3>3
    <2> QED BY <2>1, <2>2, <2>3
  <1>6. Ahead /\ Quiet /\ insn.op # 35
    <2>1. Addi(insn, 2, 0, 1) \/ Lui(insn, 6, UartHigh) \/ Addi(insn, 7, 0, 65)
      <3>1. (k = 29 /\ k + 1 = 30) \/ (k = 33 /\ k + 1 = 34) \/ (k = 34 /\ k + 1 = 35)
        OBVIOUS
      <3>2. Addi(imem[30], 2, 0, 1) /\ Lui(imem[34], 6, UartHigh) /\ Addi(imem[35], 7, 0, 65)
        BY DEF SocImage
      <3> QED BY <1>2, <3>1, <3>2
    <2>2. insn.op # 35
      BY <2>1 DEF Addi, Lui
    <2> QED BY <2>1, <2>2, AddiStep, LuiStep
  <1>7. SocPolled(k + 1)'
    <2>1. aes' = aes
      BY <1>6, CipherStep
    <2> QED BY <1>2, <2>1 DEF SocPolled
  <1> QED BY <1>1, <1>5, <1>6, <1>7, SocPuts

LEMMA CtrlWord ==
  ASSUME SocTypeOK, SocImage(imem), SocAt(30), Execute PROVE SocAt(31)'
  <1> DEFINE k == 30
             m == 31
             n == 32
             t == Arrives(AddressOf(Plus(x[1], Num(n))))
  <1>1. /\ k \in 0 .. 36 /\ k \in 1 .. 36 /\ k + 1 = m /\ SocAt(k) /\ m \in 0 .. 36
        /\ Made(k) = 8 /\ Made(m) = 9 /\ m \notin {30, 34, 35} /\ m >= 29
        /\ Made(k) \in 0 .. 9 /\ Made(m) = Made(k) + 1 /\ Made(k) + 1 = 9
    BY DEF Made
  <1>2. x[2] = Num(1) /\ SocPolled(m)'
    BY DEF SocAt, SocRegs, SocPolled
  <1>3. Sw(imem[m], 2, 1, n)
    BY DEF SocImage
  <1> HIDE DEF k, m, t
  <1>4. /\ Sw(insn, 2, 1, n) /\ pc + 4 = 4 * m /\ aes \in AesType /\ SocRegs(k) /\ SocAes(8)
        /\ x[1] = W(AesHigh, 0)
    BY <1>1, <1>3, SocHere
  <1>5. t = {<<"aes", "CTRL">>} /\ Selected(AddressOf(Plus(x[1], Num(n)))) = {"aes"}
    <2>1. 9 \in 1 .. 9 /\ n = 4 * (9 - 1)
      OBVIOUS
    <2> HIDE DEF n
    <2>2. /\ Arrives(AddressOf(Plus(W(AesHigh, 0), Num(n)))) = {<<"aes", AesName[9]>>}
          /\ Selected(AddressOf(Plus(W(AesHigh, 0), Num(n)))) = {"aes"}
      BY <2>1, AesTarget
    <2> QED BY <1>4, <2>2, AesNames DEF t
  <1> HIDE DEF n
  <1>6. stores' = Append(stores, <<t, x[2]>>) /\ Ahead /\ UNCHANGED <<x, irqs, csr>>
    <2>1. stores' = IF t = {} THEN stores ELSE Append(stores, <<t, x[2]>>)
      BY <1>4, SwStep DEF t
    <2>2. Ahead /\ UNCHANGED <<x, irqs, csr>>
      BY <1>4, SwStep
    <2> QED BY <1>5, <2>1, <2>2
  <1>7. stores' = Append(stores, BuildStores[9])
    <2>1. BuildStores[9] = <<{<<"aes", "CTRL">>}, Num(1)>>
      BY BuildStoresAre DEF SocStores
    <2> QED BY <1>2, <1>5, <1>6, <2>1
  <1>8. aes' = AesWritten("CTRL", Num(1))
    <2> DEFINE a == AddressOf(Plus(x[1], Num(n)))
    <2>1. Selected(a) = {"aes"} /\ Arrives(a) = {<<"aes", "CTRL">>}
      BY <1>5 DEF t
    <2>2. \A reg : "aes" \in Selected(a) /\ Arrives(a) = {<<"aes", reg>>} =>
                     aes' = AesWritten(reg, x[2])
      BY <1>4, CipherStep
    <2> HIDE DEF a
    <2> QED BY <1>2, <2>1, <2>2
  <1>9. SocAes(9)'
    BY <1>4, <1>8, AesBegins
  <1>10. SocRegs(m)'
    <2>1. \A j \in 1 .. 8 : m # Begin(j) + 1 /\ m # Begin(j) + 2
      BY <1>1, Elsewhere
    <2> QED BY <1>1, <1>4, <1>6, <2>1, RegsSame
  <1>11. pc' = 4 * m /\ csr' = csr
    BY <1>4, <1>6 DEF Ahead
  <1>12. stores' = Append(stores, BuildStores[Made(k) + 1]) /\ SocAes(Made(k) + 1)'
    BY <1>1, <1>7, <1>9
  <1>13. SocAt(m)'
    BY <1>1, <1>2, <1>10, <1>11, <1>12, StoreStep
  <1> QED BY <1>13 DEF m

\* The poll reads done.
LEMMA PollWord ==
  ASSUME SocTypeOK, SocImage(imem), SocAt(31), Execute PROVE SocAt(32)'
  <1> DEFINE k == 31
             m == 32
  <1>1. /\ k \in 0 .. 35 /\ k \in 0 .. 36 /\ k + 1 = m /\ SocAt(k) /\ m \in 0 .. 36 /\ m >= 29
        /\ k # 0 /\ m \notin {30, 34, 35} /\ m # 35 /\ Made(k + 1) = Made(k) /\ ~(m >= 33)
    BY DEF Made
  <1>2. Lw(imem[m], 2, 1, 36)
    BY DEF SocImage
  <1> HIDE DEF k, m
  <1>3. Lw(insn, 2, 1, 36) /\ x[1] = W(AesHigh, 0) /\ x \in [0 .. 31 -> Word] /\ aes \in AesType
    BY <1>1, <1>2, SocHere
  <1>4. Puts(2, Num(aes.done)) /\ Ahead /\ Quiet /\ insn.op # 35
    <2>1. Arrives(AddressOf(Plus(x[1], Num(36)))) = {<<"aes", "STATUS">>}
      BY <1>3, StatusTarget
    <2>2. Puts(2, Num(aes.done))
      BY <1>3, <2>1, CipherStep
    <2>3. Ahead /\ Quiet
      BY <1>3, LwStep
    <2> QED BY <1>3, <2>2, <2>3 DEF Lw
  <1>5. Readies(k, k + 1, 2, Num(aes.done))
    <2>1. \A i \in 1 .. 8 : m # Begin(i) + 1 /\ m # Begin(i) + 2
      BY <1>1, Elsewhere
    <2> QED BY <1>1, <2>1 DEF Readies
  <1>6. SocPolled(k + 1)'
    <2>1. aes' = aes
      BY <1>4, CipherStep
    <2>2. x'[2] = Num(aes.done)
      <3>1. 2 \in Bits(5)
        BY BitsRange
      <3> QED BY <1>3, <1>4, <3>1, PutsReads
    <2>3. aes.done = 0 \/ aes.done = 1
      BY <1>3 DEF AesType
    <2> QED BY <1>1, <2>1, <2>2, <2>3 DEF SocPolled
  <1>7. SocAt(k + 1)'
    BY <1>1, <1>4, <1>5, <1>6, SocPuts
  <1> QED BY <1>1, <1>7 DEF m

\* Back to the poll, or on when it has read one.
LEMMA WaitWord ==
  ASSUME SocTypeOK, SocImage(imem), SocAt(32), Execute PROVE SocAt(31)' \/ SocAt(33)'
  <1> DEFINE k == 32
  <1>1. /\ k \in 0 .. 36 /\ k \in 1 .. 36 /\ SocAt(k) /\ k = 32 /\ k + 1 = 33
        /\ Made(31) = Made(k) /\ Made(33) = Made(k)
    BY DEF Made
  <1>2. Beq(imem[33], 2, 0, -4)
    BY DEF SocImage
  <1> HIDE DEF k
  <1>3. /\ Beq(insn, 2, 0, -4) /\ pc = 4 * 32 /\ SocRegs(k) /\ SocPolled(k) /\ x[0] = Num(0)
    BY <1>1, <1>2, SocHere
  <1>4. /\ pc' = IF x[2] = x[0] THEN pc + (-4) ELSE pc + 4
        /\ x' = x /\ Quiet /\ aes' = aes
    <2>1. /\ pc' = IF x[2] = x[0] THEN pc + (-4) ELSE pc + 4
          /\ UNCHANGED x /\ Quiet
      BY <1>3, CipherStep
    <2>2. insn.op # 35
      BY <1>3 DEF Beq
    <2> QED BY <2>1, <2>2, CipherStep
  <1>5. ASSUME NEW m \in {31, 33}, pc' = 4 * m, SocPolled(m)' PROVE SocAt(m)'
    <2>1. m \in 0 .. 36 /\ m >= 29 /\ m \notin {30, 34, 35} /\ Made(m) = Made(k)
      BY <1>1
    <2>2. \A i \in 1 .. 8 : m # Begin(i) + 1 /\ m # Begin(i) + 2
      BY <2>1, Elsewhere
    <2>3. SocRegs(m)'
      BY <1>1, <1>3, <1>4, <2>1, <2>2, RegsSame
    <2> QED BY <1>1, <1>4, <1>5, <2>1, <2>3, QuietStep
  <1>6. CASE x[2] = Num(0)
    <2>1. pc' = 4 * 31
      BY <1>3, <1>4, <1>6
    <2>2. SocPolled(31)'
      BY DEF SocPolled
    <2> QED BY <1>5, <2>1, <2>2
  <1>7. CASE x[2] # Num(0)
    <2>1. pc' = 4 * 33
      BY <1>3, <1>4, <1>7
    <2>2. aes.done = 1
      BY <1>1, <1>3, <1>7 DEF SocPolled
    <2>3. SocPolled(33)'
      BY <1>4, <2>2 DEF SocPolled
    <2> QED BY <1>5, <2>1, <2>3
  <1> QED BY <1>6, <1>7

LEMMA UartWord ==
  ASSUME SocTypeOK, SocImage(imem), SocAt(35), Execute PROVE SocAt(36)'
  <1> DEFINE k == 35
             m == 36
             t == Arrives(AddressOf(Plus(x[6], Num(0))))
  <1>1. /\ k \in 0 .. 36 /\ k \in 1 .. 36 /\ k + 1 = m /\ SocAt(k) /\ m \in 0 .. 36
        /\ Made(k) = 9 /\ Made(m) = 10 /\ m \notin {30, 34, 35} /\ m >= 29
        /\ Made(k) \in 0 .. 9 /\ Made(m) = Made(k) + 1 /\ Made(k) + 1 = 10
        /\ k >= 33 /\ k \in {34, 35} /\ k = 35
    BY DEF Made
  <1>2. Sw(imem[m], 7, 6, 0)
    BY DEF SocImage
  <1> HIDE DEF k, m, t
  <1>3. /\ Sw(insn, 7, 6, 0) /\ pc + 4 = 4 * m /\ SocRegs(k) /\ SocAes(9) /\ SocPolled(k)
    BY <1>1, <1>2, SocHere
  <1>4. x[6] = W(UartHigh, 0) /\ x[7] = Num(65) /\ aes.done = 1
    BY <1>1, <1>3 DEF SocRegs, SocPolled
  <1>5. t = {<<"uart", "DATA">>} /\ "aes" \notin Selected(AddressOf(Plus(x[6], Num(0))))
    BY <1>4, UartTarget DEF t
  <1>6. stores' = Append(stores, <<t, x[7]>>) /\ Ahead /\ UNCHANGED <<x, irqs, csr>>
    <2>1. stores' = IF t = {} THEN stores ELSE Append(stores, <<t, x[7]>>)
      BY <1>3, SwStep DEF t
    <2>2. Ahead /\ UNCHANGED <<x, irqs, csr>>
      BY <1>3, SwStep
    <2> QED BY <1>5, <2>1, <2>2
  <1>7. stores' = Append(stores, BuildStores[10])
    <2>1. BuildStores[10] = <<{<<"uart", "DATA">>}, Num(65)>>
      BY BuildStoresAre DEF SocStores
    <2> QED BY <1>4, <1>5, <1>6, <2>1
  <1>8. aes' = aes
    BY <1>3, <1>5, CipherStep
  <1>9. SocAes(10)'
    <2>1. (\A i \in 1 .. 4 : i <= 9) /\ (\A i \in 5 .. 8 : i <= 9) /\ ~(10 <= 8)
      OBVIOUS
    <2> QED BY <1>3, <1>8, <2>1 DEF SocAes
  <1>10. SocRegs(m)' /\ SocPolled(m)'
    <2>1. \A j \in 1 .. 8 : m # Begin(j) + 1 /\ m # Begin(j) + 2
      BY <1>1, Elsewhere
    <2>2. SocRegs(m)'
      BY <1>1, <1>3, <1>6, <2>1, RegsSame
    <2>3. SocPolled(m)'
      BY <1>4, <1>8 DEF SocPolled
    <2> QED BY <2>2, <2>3
  <1>11. pc' = 4 * m /\ csr' = csr
    BY <1>3, <1>6 DEF Ahead
  <1>12. stores' = Append(stores, BuildStores[Made(k) + 1]) /\ SocAes(Made(k) + 1)'
    BY <1>1, <1>7, <1>9
  <1>13. SocAt(m)'
    BY <1>1, <1>10, <1>11, <1>12, StoreStep
  <1> QED BY <1>13 DEF m

LEMMA SpinWord ==
  ASSUME SocTypeOK, SocImage(imem), SocAt(36), Execute PROVE SocAt(36)'
  <1> DEFINE k == 36
  <1>1. /\ k \in 0 .. 36 /\ k \in 1 .. 36 /\ SocAt(k) /\ k >= 29 /\ k \notin {30, 34, 35}
        /\ k + 1 = 37 /\ k >= 33
    OBVIOUS
  <1>2. Beq(imem[37], 0, 0, 0)
    BY DEF SocImage
  <1> HIDE DEF k
  <1>3. Beq(insn, 0, 0, 0) /\ pc = 4 * k /\ SocRegs(k) /\ SocPolled(k)
    BY <1>1, <1>2, SocHere
  <1>4. pc' = pc + 0 /\ x' = x /\ Quiet /\ aes' = aes
    <2>1. insn.op # 35
      BY <1>3 DEF Beq
    <2> QED BY <1>3, <2>1, BeqStep, CipherStep
  <1>5. SocRegs(k)'
    <2>1. \A j \in 1 .. 8 : k # Begin(j) + 1 /\ k # Begin(j) + 2
      BY <1>1, Elsewhere
    <2> QED BY <1>1, <1>3, <1>4, <2>1, RegsSame
  <1>6. SocPolled(k)' /\ pc' = 4 * k
    BY <1>1, <1>3, <1>4 DEF SocPolled
  <1>7. SocAt(k)'
    BY <1>1, <1>4, <1>5, <1>6, QuietStep
  <1> QED BY <1>7 DEF k

LEMMA SocExecutes ==
  ASSUME SocTypeOK, SocImage(imem), SocInv, Execute
  PROVE  SocInv'
  <1>1. PICK k \in 0 .. 36 : SocAt(k)
    BY DEF SocInv
  <1> SUFFICES \E m \in 0 .. 36 : SocAt(m)'
    BY DEF SocInv
  <1>2. CASE k = 0
    <2>1. SocAt(1)' /\ 1 \in 0 .. 36
      BY <1>1, <1>2, FirstWord
    <2> QED BY <2>1
  <1>3. CASE k \in 13 .. 16
    <2>1. SocAt(k + 1)' /\ k + 1 \in 0 .. 36
      BY <1>1, <1>3, NopWord
    <2> QED BY <2>1
  <1>4. ASSUME NEW i \in 1 .. 8, k = Begin(i) \/ k = Begin(i) + 1 \/ k = Begin(i) + 2
        PROVE  \E m \in 0 .. 36 : SocAt(m)'
    <2> DEFINE b == Begin(i)
    <2>1. /\ SocAt(b) => SocAt(b + 1)'
          /\ SocAt(b + 1) => SocAt(b + 2)'
          /\ SocAt(b + 2) => SocAt(b + 3)'
      BY StoreWord
    <2>2. b + 1 \in 0 .. 36 /\ b + 2 \in 0 .. 36 /\ b + 3 \in 0 .. 36
      BY DEF Begin
    <2> HIDE DEF b
    <2>3. k = b \/ k = b + 1 \/ k = b + 2
      BY <1>4 DEF b
    <2> QED BY <1>1, <2>1, <2>2, <2>3
  <1>5. CASE k \in 29 .. 36
    <2>1. CASE k \in {29, 33, 34}
      <3>1. SocAt(k + 1)' /\ k + 1 \in 0 .. 36
        BY <1>1, <2>1, PutWords
      <3> QED BY <3>1
    <2>2. CASE k = 30
      <3>1. SocAt(31)' /\ 31 \in 0 .. 36
        BY <1>1, <2>2, CtrlWord
      <3> QED BY <3>1
    <2>3. CASE k = 31
      <3>1. SocAt(32)' /\ 32 \in 0 .. 36
        BY <1>1, <2>3, PollWord
      <3> QED BY <3>1
    <2>4. CASE k = 32
      <3>1. (SocAt(31)' \/ SocAt(33)') /\ 31 \in 0 .. 36 /\ 33 \in 0 .. 36
        BY <1>1, <2>4, WaitWord
      <3> QED BY <3>1
    <2>5. CASE k = 35 \/ k = 36
      <3>1. SocAt(36)' /\ 36 \in 0 .. 36
        BY <1>1, <2>5, UartWord, SpinWord
      <3> QED BY <3>1
    <2> QED BY <1>5, <2>1, <2>2, <2>3, <2>4, <2>5
  <1> QED BY <1>2, <1>3, <1>4, <1>5, Places

LEMMA SocWaits ==
  ASSUME SocTypeOK, SocInv, AesFinishes \/ UNCHANGED <<pc, x, aes, csr, stores>>
  PROVE  SocInv'
  <1>1. PICK k \in 0 .. 36 : SocAt(k)
    BY DEF SocInv
  <1>2. /\ UNCHANGED <<pc, x, csr, stores>>
        /\ aes' = aes \/ AesFinishes
    BY DEF AesFinishes
  <1>3. Made(k) \in 0 .. 10 /\ aes \in AesType
    BY SocTypeSplit DEF Made
  <1>4. SocRegs(k) /\ SocAes(Made(k)) /\ SocPolled(k)
    BY <1>1 DEF SocAt
  <1>5. SocRegs(k)'
    BY <1>2, <1>4 DEF SocRegs
  <1>6. SocAes(Made(k))' /\ SocPolled(k)'
    <2> DEFINE n == Made(k)
    <2>1. n \in 0 .. 10 /\ SocAes(n)
      BY <1>3, <1>4
    <2> HIDE DEF n
    <2>2. CASE aes' = aes
      <3>1. SocAes(n)'
        BY <2>1, <2>2 DEF SocAes
      <3> QED BY <1>2, <1>4, <2>2, <3>1 DEF SocPolled, n
    <2>3. CASE AesFinishes
      <3>1. SocAes(n)' /\ aes'.done = 1
        BY <1>3, <2>1, <2>3, AesDone
      <3> QED BY <3>1 DEF SocPolled, n
    <2> QED BY <1>2, <2>2, <2>3
  <1>7. SocAt(k)'
    BY <1>1, <1>2, <1>5, <1>6 DEF SocAt
  <1> QED BY <1>7 DEF SocInv

\* Behind reset, the AES program in the ROM.
SocRuns ==
  prog.name = "soc" => prog.says = BuildStores /\ SocImage(imem) /\ SocInv
SocGiven == \A p \in Programs : p.name = "soc" => p.calls = build /\ p.says = BuildStores

LEMMA BuildStarts ==
  ASSUME SocGiven, Init
  PROVE  SocRuns
  <1> SUFFICES ASSUME prog.name = "soc" PROVE prog.says = BuildStores /\ SocImage(imem) /\ SocInv
    BY DEF SocRuns
  <1>1. prog.says = BuildStores
    BY DEF SocGiven, Init
  <1>2. SocImage(imem)
    <2>1. prog.calls = SocListing /\ SocListing \in Seq(Entry)
      BY SocIs, ProgramsAssumption DEF SocGiven, Init
    <2>2. PICK image : image = assemble(Built(prog.calls)) /\ image.ok /\ imem = image.words
      BY DEF Init
    <2> HIDE DEF SocListing
    <2> QED BY <2>1, <2>2, SocImageIs
  <1> DEFINE zero == [i \in 1 .. 4 |-> Num(0)]
  <1>3. /\ pc = 0 /\ x = [r \in 0 .. 31 |-> Num(0)] /\ csr.MIE = 0 /\ stores = <<>>
        /\ aes = [key |-> zero, data |-> zero, loaded |-> zero, block |-> zero,
                  cipher |-> <<zero, zero>>, busy |-> 0, done |-> 0]
    BY DEF Init
  <1> DEFINE k == 0
  <1>4. k \in 0 .. 36 /\ k = 0 /\ Made(k) = 0 /\ pc = 4 * k
    BY <1>3 DEF Made
  <1> HIDE DEF k
  <1>5. SocRegs(k)
    <2>1. \A i \in 1 .. 8 : k # Begin(i) + 1 /\ k # Begin(i) + 2
      BY <1>4, Elsewhere
    <2>2. x[0] = Num(0)
      BY <1>3
    <2> QED BY <1>4, <2>1, <2>2 DEF SocRegs
  <1>6. SocAes(Made(k))
    <2>1. (\A i \in 1 .. 4 : ~(i <= 0)) /\ (\A i \in 5 .. 8 : ~(i <= 0)) /\ ~(0 >= 9)
      OBVIOUS
    <2>2. aes.loaded = aes.key /\ aes.busy = 0 /\ aes.done = 0
      BY <1>3
    <2> QED BY <1>4, <2>1, <2>2 DEF SocAes
  <1>7. stores = [i \in 1 .. Made(k) |-> BuildStores[i]]
    <2> DEFINE s == [i \in 1 .. 0 |-> BuildStores[i]]
    <2>1. s = <<>>
      OBVIOUS
    <2> QED BY <1>3, <1>4, <2>1
  <1>8. SocAt(k)
    BY <1>3, <1>4, <1>5, <1>6, <1>7 DEF SocAt, SocPolled
  <1> QED BY <1>1, <1>2, <1>4, <1>8 DEF SocInv

LEMMA BuildGoesOn ==
  ASSUME SocTypeOK, SocRuns, [Next]_socVars
  PROVE  SocRuns'
  <1>1. prog' = prog /\ imem' = imem
    BY DEF Next, Execute, LoadUpper, Immediate, AddRegs, Load, Store, BranchStep, CsrStep,
           MachineReturn, Same, Interrupt, AesFinishes, socVars
  <1> SUFFICES ASSUME prog.name = "soc" PROVE SocInv'
    BY <1>1 DEF SocRuns, SocImage, SocStoreAt
  <1>2. SocImage(imem) /\ SocInv
    BY DEF SocRuns
  <1>3. CASE Execute
    BY <1>2, <1>3, SocExecutes
  <1>4. ~Interrupt
    <2>1. csr.MIE = 0
      BY <1>2 DEF SocInv, SocAt
    <2> QED BY <2>1 DEF Interrupt
  <1>5. CASE AesFinishes \/ UNCHANGED socVars
    <2>1. AesFinishes \/ UNCHANGED <<pc, x, aes, csr, stores>>
      BY <1>5 DEF socVars
    <2> QED BY <1>2, <2>1, SocWaits
  <1> QED BY <1>3, <1>4, <1>5 DEF Next

LEMMA BuildSays ==
  ASSUME SocRuns, prog.name = "soc"
  PROVE  DoesWhatItSays
  <1>1. PICK k \in 0 .. 36 : SocAt(k)
    BY DEF SocRuns, SocInv
  <1> DEFINE n == Made(k)
             B == SocStores
             S == {B[i] : i \in 1 .. 10}
             s == [i \in 1 .. n |-> B[i]]
  <1>2. prog.says = B /\ stores = s /\ n \in 0 .. 10
    BY <1>1, BuildStoresAre DEF SocRuns, SocAt, Made
  <1>3. B = [i \in 1 .. 10 |-> B[i]]
    BY DEF SocStores
  <1>4. \A i \in 1 .. 10 : B[i] \in S
    OBVIOUS
  <1> HIDE DEF n, B, S
  <1>5. B \in Seq(S) /\ Len(B) = 10
    BY <1>3, <1>4
  <1>6. s \in Seq(S) /\ Len(s) = n
    <2>1. \A i \in 1 .. n : B[i] \in S
      BY <1>2, <1>4
    <2> QED BY <1>2, <2>1
  <1>7. SubSeq(B, 1, n) = s /\ SubSeq(s, 1, n) = s
    BY <1>2, <1>5, <1>6
  <1>8. IsPrefix(s, B)
    <2> HIDE DEF s
    <2> QED BY <1>2, <1>5, <1>6, <1>7 DEF IsPrefix
  <1> QED BY <1>2, <1>8 DEF DoesWhatItSays

LEMMA BuildWaits ==
  ASSUME SocTypeOK, SocRuns, prog.name = "soc"
  PROVE  WaitsForCipher
  <1>1. PICK k \in 0 .. 36 : SocAt(k)
    BY DEF SocRuns, SocInv
  <1> DEFINE n == Made(k)
  <1>2. stores = [i \in 1 .. n |-> SocStores[i]] /\ n \in 0 .. 10
    BY <1>1, BuildStoresAre DEF SocAt, Made
  <1>3. SocAes(n) /\ SocPolled(k) /\ (n = 10 => k = 36)
    BY <1>1 DEF SocAt, Made
  <1> HIDE DEF n
  <1> SUFFICES ASSUME NEW i \in 1 .. Len(stores) - 1, <<"aes", "CTRL">> \in stores[i][1]
               PROVE  /\ aes.done = 1
                      /\ aes.cipher = <<aes.key, aes.data>>
                      /\ aes.cipher = <<KEY, PLAINTEXT>>
    BY DEF WaitsForCipher
  <1>4. Len(stores) = n
    BY <1>2
  <1>5. i \in 1 .. 9 /\ i <= n - 1 /\ stores[i] = SocStores[i]
    BY <1>2, <1>4
  <1>6. i = 9
    <2> SUFFICES ASSUME i # 9 PROVE FALSE
      OBVIOUS
    <2>1. i \in 1 .. 8
      BY <1>5
    <2>2. SocStores[i] = <<{<<"aes", AesName[i]>>}, Given(i)>>
      BY <2>1 DEF SocStores
    <2>3. <<"aes", "CTRL">> = <<"aes", AesName[i]>>
      BY <1>5, <2>2
    <2>4. AesName[i] # "CTRL"
      <3>1. i = 1 \/ i = 2 \/ i = 3 \/ i = 4 \/ i = 5 \/ i = 6 \/ i = 7 \/ i = 8
        BY <2>1
      <3> QED BY <3>1 DEF AesName
    <2> QED BY <2>3, <2>4
  <1>7. n = 10 /\ k = 36
    BY <1>2, <1>3, <1>5, <1>6
  <1>8. aes.done = 1 /\ aes.cipher = <<aes.key, aes.data>>
    BY <1>3, <1>7 DEF SocAes, SocPolled
  <1>9. aes.key = KEY /\ aes.data = PLAINTEXT
    <2>1. aes.key \in Block /\ aes.data \in Block /\ KEY \in Block /\ PLAINTEXT \in Block
      BY GivenWords DEF SocTypeOK
    <2>2. ASSUME NEW e \in 1 .. 4 PROVE aes.key[e] = KEY[e] /\ aes.data[e] = PLAINTEXT[e]
      <3>1. 5 - e \in 1 .. 4 /\ 5 - e <= 10 /\ 5 - (5 - e) = e
        OBVIOUS
      <3>2. 9 - e \in 5 .. 8 /\ 9 - e <= 10 /\ 9 - (9 - e) = e
        OBVIOUS
      <3>3. aes.key[5 - (5 - e)] = KEY[5 - (5 - e)] /\ aes.data[9 - (9 - e)] = PLAINTEXT[9 - (9 - e)]
        BY <1>3, <1>7, <3>1, <3>2 DEF SocAes
      <3> QED BY <3>1, <3>2, <3>3
    <2>3. ASSUME NEW a \in Block, NEW b \in Block, \A e \in 1 .. 4 : a[e] = b[e] PROVE a = b
      <3> HIDE DEF Word
      <3> QED BY <2>3 DEF Block
    <2> QED BY <2>1, <2>2, <2>3
  <1> QED BY <1>8, <1>9

\* The AES program as firmware.py builds it, assembled and run on the SoC: for as long
\* as the cipher takes, what it has stored is the key and the block word by word,
\* the start, and then the byte to the UART, each where the map says and nothing
\* else (firmware.py:30-75; tb_soc.sv watches for the writes to both windows).
THEOREM BuildStoresInOrder ==
  ASSUME \A p \in Programs : p.name = "soc" => p.calls = build /\ p.says = BuildStores
  PROVE  Spec => [](prog.name = "soc" => DoesWhatItSays)
  <1>1. Init => SocRuns
    BY BuildStarts DEF SocGiven
  <1>2. SocTypeOK /\ SocRuns /\ [Next]_socVars => SocRuns'
    BY BuildGoesOn
  <1>3. SocRuns => (prog.name = "soc" => DoesWhatItSays)
    BY BuildSays
  <1> QED BY <1>1, <1>2, <1>3, SocTypes, PTL DEF Spec

\* And the byte goes out only behind the completion of the cipher on the whole key
\* and the whole block (firmware.py:38-40, 56-68).
THEOREM BuildWaitsForCipher ==
  ASSUME \A p \in Programs : p.name = "soc" => p.calls = build /\ p.says = BuildStores
  PROVE  Spec => [](prog.name = "soc" => WaitsForCipher)
  <1>1. Init => SocRuns
    BY BuildStarts DEF SocGiven
  <1>2. SocTypeOK /\ SocRuns /\ [Next]_socVars => SocRuns'
    BY BuildGoesOn
  <1>3. SocTypeOK /\ SocRuns => (prog.name = "soc" => WaitsForCipher)
    BY BuildWaits
  <1> QED BY <1>1, <1>2, <1>3, SocTypes, PTL DEF Spec
=============================================================================
