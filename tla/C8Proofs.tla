------------------------------- MODULE C8Proofs -----------------------------
(***************************************************************************)
(* C8Cpu keeps its widths; on a program that has none of the two           *)
(* instructions they disagree about it does what the simulator does; a     *)
(* program that keeps its stores out of the stack returns where it called  *)
(* from; and what the core executes of an assembled source is what the     *)
(* source says: for every program and any number of instructions.          *)
(***************************************************************************)
EXTENDS C8Flow, SequenceTheorems, FiniteSetTheorems, WellFoundedInduction, TLAPS

-----------------------------------------------------------------------------
(* Fields and bits.                                                        *)

LEMMA Between == ASSUME NEW n \in Nat PROVE \A x \in 0 .. n : x \in Int /\ 0 <= x /\ x <= n
  OBVIOUS

LEMMA Ranges ==
  /\ \A w \in Insn : w \in Int /\ 0 <= w /\ w <= 65535
  /\ \A b \in Byte : b \in Int /\ 0 <= b /\ b <= 255
  <1> DEFINE top == 65535
             high == 255
  <1>1. Insn = 0 .. top
    BY DEF Insn
  <1>2. Byte = 0 .. high
    BY DEF Byte
  <1>3. top \in Nat /\ high \in Nat
    OBVIOUS
  <1>4. top = 65535 /\ high = 255
    OBVIOUS
  <1> HIDE DEF top, high
  <1>5. \A w \in Insn : w \in Int /\ 0 <= w /\ w <= top
    BY <1>1, <1>3, Between
  <1>6. \A b \in Byte : b \in Int /\ 0 <= b /\ b <= high
    BY <1>2, <1>3, Between
  <1> QED BY <1>4, <1>5, <1>6

LEMMA Remainders ==
  \A x \in Int : /\ x % 2 \in 0 .. 1 /\ x % 8 \in 0 .. 7 /\ x % 16 \in 0 .. 15 /\ x % 64 \in 0 .. 63
                 /\ x % 256 \in 0 .. 255 /\ x % 512 \in 0 .. 511
  OBVIOUS

LEMMA Quotients ==
  \A x \in Int : /\ x \div 2 \in Int /\ x \div 8 \in Int /\ x \div 64 \in Int
                 /\ x \div 512 \in Int /\ x \div 4096 \in Int
                 /\ 0 <= x /\ x <= 511 => x \div 256 \in 0 .. 1
  OBVIOUS

LEMMA Fields ==
  ASSUME NEW w \in Insn
  PROVE  /\ Op(w) \in 0 .. 15 /\ Rd(w) \in Reg /\ Rs1(w) \in Reg /\ Rs2(w) \in Reg
         /\ Fn(w) \in 0 .. 7 /\ Imm8(w) \in Byte /\ Imm6(w) \in 0 .. 63 /\ Imm9(w) \in 0 .. 511
  <1>1. w \in Int
    BY Ranges
  <1>2. Op(w) \in 0 .. 15
    BY <1>1, Quotients, Remainders DEF Op
  <1>3. Rd(w) \in Reg /\ Rs1(w) \in Reg /\ Rs2(w) \in Reg
    BY <1>1, Quotients, Remainders DEF Rd, Rs1, Rs2, Reg
  <1>4. Fn(w) \in 0 .. 7 /\ Imm8(w) \in Byte /\ Imm6(w) \in 0 .. 63 /\ Imm9(w) \in 0 .. 511
    BY <1>1, Remainders DEF Fn, Imm8, Imm6, Imm9, Byte
  <1> QED BY <1>2, <1>3, <1>4

LEMMA OneBit ==
  ASSUME NEW a \in Byte
  PROVE  /\ Bit(a, 1) \in 0 .. 1 /\ Bit(a, 2) \in 0 .. 1 /\ Bit(a, 4) \in 0 .. 1
         /\ Bit(a, 8) \in 0 .. 1 /\ Bit(a, 16) \in 0 .. 1 /\ Bit(a, 32) \in 0 .. 1
         /\ Bit(a, 64) \in 0 .. 1 /\ Bit(a, 128) \in 0 .. 1
  BY DEF Bit, Byte

LEMMA BitOps ==
  ASSUME NEW x \in 0 .. 1, NEW y \in 0 .. 1
  PROVE  x * y \in 0 .. 1 /\ x + y - x * y \in 0 .. 1 /\ (x + y) % 2 \in 0 .. 1
  <1>1. CASE x = 0
    BY <1>1
  <1>2. CASE x = 1
    BY <1>2
  <1> QED BY <1>1, <1>2

LEMMA EightBits ==
  ASSUME NEW b1 \in 0 .. 1, NEW b2 \in 0 .. 1, NEW b3 \in 0 .. 1, NEW b4 \in 0 .. 1,
         NEW b5 \in 0 .. 1, NEW b6 \in 0 .. 1, NEW b7 \in 0 .. 1, NEW b8 \in 0 .. 1
  PROVE  b1 + 2 * b2 + 4 * b3 + 8 * b4 + 16 * b5 + 32 * b6 + 64 * b7 + 128 * b8 \in Byte
  BY DEF Byte

\* A bytewise operation returns a byte.
LEMMA BytesOut ==
  ASSUME NEW a \in Byte, NEW b \in Byte
  PROVE  BitAnd(a, b) \in Byte /\ BitOr(a, b) \in Byte /\ BitXor(a, b) \in Byte
  <1>1. BitAnd(a, b) \in Byte
    <2>1. /\ Bit(a, 1) * Bit(b, 1) \in 0 .. 1 /\ Bit(a, 2) * Bit(b, 2) \in 0 .. 1
          /\ Bit(a, 4) * Bit(b, 4) \in 0 .. 1 /\ Bit(a, 8) * Bit(b, 8) \in 0 .. 1
          /\ Bit(a, 16) * Bit(b, 16) \in 0 .. 1 /\ Bit(a, 32) * Bit(b, 32) \in 0 .. 1
          /\ Bit(a, 64) * Bit(b, 64) \in 0 .. 1 /\ Bit(a, 128) * Bit(b, 128) \in 0 .. 1
      BY OneBit, BitOps
    <2> QED BY <2>1, EightBits DEF BitAnd, FromBits
  <1>2. BitOr(a, b) \in Byte
    <2> DEFINE or(w) == Bit(a, w) + Bit(b, w) - Bit(a, w) * Bit(b, w)
    <2>1. /\ or(1) \in 0 .. 1 /\ or(2) \in 0 .. 1 /\ or(4) \in 0 .. 1 /\ or(8) \in 0 .. 1
          /\ or(16) \in 0 .. 1 /\ or(32) \in 0 .. 1 /\ or(64) \in 0 .. 1 /\ or(128) \in 0 .. 1
      BY OneBit, BitOps
    <2>2. BitOr(a, b) = or(1) + 2 * or(2) + 4 * or(4) + 8 * or(8) + 16 * or(16) + 32 * or(32)
                          + 64 * or(64) + 128 * or(128)
      BY DEF BitOr, FromBits
    <2> HIDE DEF or
    <2> QED BY <2>1, <2>2, EightBits
  <1>3. BitXor(a, b) \in Byte
    <2> DEFINE xor(w) == (Bit(a, w) + Bit(b, w)) % 2
    <2>1. /\ xor(1) \in 0 .. 1 /\ xor(2) \in 0 .. 1 /\ xor(4) \in 0 .. 1 /\ xor(8) \in 0 .. 1
          /\ xor(16) \in 0 .. 1 /\ xor(32) \in 0 .. 1 /\ xor(64) \in 0 .. 1
          /\ xor(128) \in 0 .. 1
      BY OneBit, BitOps
    <2>2. BitXor(a, b) = xor(1) + 2 * xor(2) + 4 * xor(4) + 8 * xor(8) + 16 * xor(16)
                           + 32 * xor(32) + 64 * xor(64) + 128 * xor(128)
      BY DEF BitXor, FromBits
    <2> HIDE DEF xor
    <2> QED BY <2>1, <2>2, EightBits
  <1> QED BY <1>1, <1>2, <1>3

LEMMA SignBit == \A a \in Byte : Sign(a) \in 0 .. 1 /\ IsZero(a) \in 0 .. 1
  <1>1. ASSUME NEW a \in Byte PROVE Sign(a) \in 0 .. 1
    <2>1. Bit(a, 128) \in 0 .. 1
      BY OneBit
    <2> QED BY <2>1 DEF Sign
  <1>2. \A a \in Byte : IsZero(a) \in 0 .. 1
    BY DEF IsZero
  <1> QED BY <1>1, <1>2

-----------------------------------------------------------------------------
(* The operands and the ALU.                                               *)

LEMMA Operands ==
  ASSUME C8TypeOK
  PROVE  /\ insn \in Insn /\ rs1_val \in Byte /\ rs2_val \in Byte /\ MemAddr \in Byte
         /\ Op(insn) \in 0 .. 15 /\ Rd(insn) \in Reg /\ Fn(insn) \in 0 .. 7
         /\ Imm8(insn) \in Byte /\ Imm6(insn) \in 0 .. 63 /\ Imm9(insn) \in 0 .. 511
  <1>1. insn \in Insn
    BY DEF C8TypeOK, insn
  <1>2. \A i \in Reg : RdData(i) \in Byte
    <2>1. regs \in [Reg -> Byte]
      BY DEF C8TypeOK
    <2>2. 0 \in Byte
      BY DEF Byte
    <2> QED BY <2>1, <2>2 DEF RdData
  <1>3. rs1_val \in Byte /\ rs2_val \in Byte
    BY <1>1, <1>2, Fields DEF rs1_val, rs2_val
  <1>4. MemAddr \in Byte
    <2>1. Imm6(insn) \in 0 .. 63
      BY <1>1, Fields
    <2> DEFINE j == IF Imm6(insn) < 32 THEN 0 ELSE 192
    <2>2. j \in Int /\ rs1_val \in Int
      BY <1>3, Ranges
    <2>3. MemAddr = (rs1_val + Imm6(insn) + j) % 256
      BY DEF MemAddr
    <2> HIDE DEF j
    <2>4. rs1_val + Imm6(insn) + j \in Int
      BY <2>1, <2>2
    <2>5. (rs1_val + Imm6(insn) + j) % 256 \in Byte
      BY <2>4, Remainders DEF Byte
    <2> QED BY <2>3, <2>5
  <1> QED BY <1>1, <1>3, <1>4, Fields

LEMMA Outs ==
  ASSUME NEW r \in Byte, NEW c \in 0 .. 1, NEW v \in 0 .. 1
  PROVE  Out(r, c, v).result \in Byte /\ Out(r, c, v).flags \in Flags
  BY SignBit DEF Out, Flags

LEMMA AluTypes ==
  ASSUME C8TypeOK PROVE Alu.result \in Byte /\ Alu.flags \in Flags
  <1> rs1_val \in Byte /\ rs2_val \in Byte /\ Op(insn) \in 0 .. 15 /\ Fn(insn) \in 0 .. 7
    BY Operands
  <1>0. Sign(rs1_val) \in 0 .. 1 /\ Sign(rs2_val) \in 0 .. 1
    BY SignBit
  <1>1. AluAdd.result \in Byte /\ AluAdd.flags \in Flags
    <2> DEFINE wide == rs1_val + rs2_val
               r == wide % 256
               v == (1 - Sign(rs1_val)) * (1 - Sign(rs2_val)) * Sign(r)
                      + Sign(rs1_val) * Sign(rs2_val) * (1 - Sign(r))
    <2>1. r \in Byte /\ wide \div 256 \in 0 .. 1
      <3>1. wide \in Int /\ 0 <= wide /\ wide <= 511
        BY Ranges
      <3> HIDE DEF wide
      <3> QED BY <3>1, Remainders, Quotients DEF Byte
    <2>2. Sign(r) \in 0 .. 1
      BY <2>1, SignBit
    <2>3. \A x, y, z \in 0 .. 1 : (1 - x) * (1 - y) * z + x * y * (1 - z) \in 0 .. 1
      <3> SUFFICES ASSUME NEW x \in 0 .. 1, NEW y \in 0 .. 1, NEW z \in 0 .. 1
                   PROVE  (1 - x) * (1 - y) * z + x * y * (1 - z) \in 0 .. 1
        OBVIOUS
      <3>1. CASE x = 0 /\ y = 0
        BY <3>1
      <3>2. CASE x = 0 /\ y = 1
        BY <3>2
      <3>3. CASE x = 1 /\ y = 0
        BY <3>3
      <3>4. CASE x = 1 /\ y = 1
        BY <3>4
      <3> QED BY <3>1, <3>2, <3>3, <3>4
    <2>4. v \in 0 .. 1
      <3> HIDE DEF r
      <3> QED BY <1>0, <2>2, <2>3
    <2>5. AluAdd = Out(r, wide \div 256, v)
      BY DEF AluAdd
    <2> HIDE DEF wide, r, v
    <2> QED BY <2>1, <2>4, <2>5, Outs
  <1>2. AluSub.result \in Byte /\ AluSub.flags \in Flags
    <2> DEFINE wide == (rs1_val - rs2_val) % 512
               r == wide % 256
               v == Sign(rs1_val) * (1 - Sign(rs2_val)) * (1 - Sign(r))
                      + (1 - Sign(rs1_val)) * Sign(rs2_val) * Sign(r)
    <2>1. r \in Byte /\ wide \div 256 \in 0 .. 1
      <3>1. rs1_val - rs2_val \in Int
        BY Ranges
      <3>2. wide \in 0 .. 511
        BY <3>1, Remainders
      <3> HIDE DEF wide
      <3>3. wide \in Int /\ 0 <= wide /\ wide <= 511
        BY <3>2
      <3> QED BY <3>3, Remainders, Quotients DEF Byte
    <2>2. Sign(r) \in 0 .. 1
      BY <2>1, SignBit
    <2>3. \A x, y, z \in 0 .. 1 : x * (1 - y) * (1 - z) + (1 - x) * y * z \in 0 .. 1
      <3> SUFFICES ASSUME NEW x \in 0 .. 1, NEW y \in 0 .. 1, NEW z \in 0 .. 1
                   PROVE  x * (1 - y) * (1 - z) + (1 - x) * y * z \in 0 .. 1
        OBVIOUS
      <3>1. CASE x = 0 /\ y = 0
        BY <3>1
      <3>2. CASE x = 0 /\ y = 1
        BY <3>2
      <3>3. CASE x = 1 /\ y = 0
        BY <3>3
      <3>4. CASE x = 1 /\ y = 1
        BY <3>4
      <3> QED BY <3>1, <3>2, <3>3, <3>4
    <2>4. v \in 0 .. 1
      <3> HIDE DEF r
      <3> QED BY <1>0, <2>2, <2>3
    <2>5. AluSub = Out(r, wide \div 256, v)
      BY DEF AluSub
    <2> HIDE DEF wide, r, v
    <2> QED BY <2>1, <2>4, <2>5, Outs
  <1>3. \A r \in Byte : Out(r, 0, 0).result \in Byte /\ Out(r, 0, 0).flags \in Flags
    <2>1. 0 \in 0 .. 1
      OBVIOUS
    <2> QED BY <2>1, Outs
  <1>4. AluShift.result \in Byte /\ AluShift.flags \in Flags
    <2>1. /\ (2 * rs1_val) % 256 \in Byte /\ rs1_val \div 2 \in Byte
          /\ 128 * (rs1_val % 2) + rs1_val \div 2 \in Byte /\ rs1_val % 2 \in 0 .. 1
      BY DEF Byte
    <2>2. flags.C \in 0 .. 1
      BY DEF C8TypeOK, Flags
    <2>3. CASE Fn(insn) % 4 = 0
      BY <1>0, <2>1, <2>3, Outs DEF AluShift
    <2>4. CASE Fn(insn) % 4 = 1
      BY <2>1, <2>4, Outs DEF AluShift
    <2>5. CASE Fn(insn) % 4 = 2
      BY <2>1, <2>5, Outs DEF AluShift
    <2>6. CASE Fn(insn) % 4 = 3
      BY <2>2, <2>6, Outs DEF AluShift
    <2> QED BY <2>3, <2>4, <2>5, <2>6
  <1>5. /\ BitAnd(rs1_val, rs2_val) \in Byte /\ BitOr(rs1_val, rs2_val) \in Byte
        /\ BitXor(rs1_val, rs2_val) \in Byte
    BY BytesOut
  <1> QED BY <1>1, <1>2, <1>3, <1>4, <1>5 DEF Alu

-----------------------------------------------------------------------------
(* Types.                                                                  *)

LEMMA Wires ==
  ASSUME C8TypeOK
  PROVE  /\ dm_addr \in Byte /\ rf_wr_data \in Byte /\ dm_wr_data \in Byte
         /\ sp_next \in Byte /\ pc_next \in Byte
  <1>1. insn \in Insn /\ rs2_val \in Byte /\ MemAddr \in Byte /\ Imm8(insn) \in Byte
    BY Operands
  <1>2. /\ (sp + 1) % 256 \in Byte /\ (sp - 1) % 256 \in Byte /\ (pc + 1) % 256 \in Byte
        /\ (pc + Imm8(insn)) % 256 \in Byte
    <2>1. \A x, y \in Byte : (x + y) % 256 \in Byte
      BY DEF Byte
    <2>2. \A x \in Byte : (x - 1) % 256 \in Byte /\ (x + 1) % 256 \in Byte
      BY DEF Byte
    <2>3. sp \in Byte /\ pc \in Byte
      BY DEF C8TypeOK
    <2> QED BY <1>1, <2>1, <2>2, <2>3
  <1>3. dm_addr \in Byte
    <2>1. 0 \in Byte
      BY DEF Byte
    <2>2. sp \in Byte
      BY DEF C8TypeOK
    <2> QED BY <1>1, <1>2, <2>1, <2>2 DEF dm_addr
  <1>4. dmem[dm_addr] \in Byte
    BY <1>3 DEF C8TypeOK
  <1>5. rf_wr_data \in Byte
    BY <1>1, <1>4, AluTypes DEF rf_wr_data
  <1>6. dm_wr_data \in Byte
    BY <1>1, <1>2 DEF dm_wr_data
  <1>7. sp_next \in Byte
    BY <1>2 DEF sp_next, C8TypeOK
  <1>8. pc_next \in Byte
    BY <1>1, <1>2, <1>4 DEF pc_next, C8TypeOK
  <1> QED BY <1>3, <1>5, <1>6, <1>7, <1>8

LEMMA WriteBackTypes ==
  ASSUME C8TypeOK, WriteBack
  PROVE  dmem' \in [Byte -> Byte] /\ regs' \in [Reg -> Byte] /\ regs'[0] = 0
  <1>1. Rd(insn) \in Reg
    BY Operands
  <1>2. 0 \in Reg
    BY DEF Reg
  <1> QED BY <1>1, <1>2, Wires DEF C8TypeOK, WriteBack

\* Every register keeps its width and register 0 its zero, for every program.
THEOREM C8Types == Spec => []C8TypeOK
  <1>1. Init => C8TypeOK
    <2> SUFFICES ASSUME Init PROVE C8TypeOK
      OBVIOUS
    <2>1. halt \in BOOLEAN /\ rst_n \in BOOLEAN
      BY Zenon DEF Init
    <2>2. imem \in [Byte -> Insn] /\ dmem \in [Byte -> Byte] /\ regs \in [Reg -> Byte]
            /\ regs[0] = 0
      BY DEF Init, Byte, Reg
    <2>3. pc \in Byte /\ sp \in Byte /\ flags \in Flags
      BY DEF Init, Byte, Flags, NoFlags
    <2>4. rst_cnt \in 0 .. 4 /\ cycles \in 0 .. MAX_CYCLES
      BY C8Assumption DEF Init
    <2> QED BY <2>1, <2>2, <2>3, <2>4 DEF C8TypeOK
  <1>2. C8TypeOK /\ [Next]_cpuVars => C8TypeOK'
    <2> SUFFICES ASSUME C8TypeOK, [Next]_cpuVars PROVE C8TypeOK'
      OBVIOUS
    <2>1. CASE PowerOn
      <3>1. pc' \in Byte /\ sp' \in Byte /\ flags' \in Flags
        BY <2>1 DEF PowerOn, Byte, Flags, NoFlags
      <3>2. halt' \in BOOLEAN /\ rst_n' \in BOOLEAN
        BY <2>1, Zenon DEF PowerOn, C8TypeOK
      <3>3. rst_cnt' \in 0 .. 4
        BY <2>1 DEF PowerOn, C8TypeOK
      <3>4. imem' = imem /\ cycles' = cycles /\ WriteBack
        BY <2>1 DEF PowerOn
      <3> QED BY <3>1, <3>2, <3>3, <3>4, WriteBackTypes DEF C8TypeOK
    <2>2. CASE Execute
      <3>1. pc' \in Byte /\ sp' \in Byte
        BY <2>2, Wires DEF Execute
      <3>2. flags' \in Flags
        BY <2>2, AluTypes DEF Execute, C8TypeOK
      <3>3. halt' \in BOOLEAN /\ rst_n' \in BOOLEAN
        BY <2>2, Zenon DEF Execute, C8TypeOK
      <3>4. cycles' \in 0 .. MAX_CYCLES
        BY <2>2, C8Assumption DEF Execute, C8TypeOK
      <3>5. imem' = imem /\ rst_cnt' = rst_cnt /\ WriteBack
        BY <2>2 DEF Execute
      <3> QED BY <3>1, <3>2, <3>3, <3>4, <3>5, WriteBackTypes DEF C8TypeOK
    <2>3. CASE UNCHANGED cpuVars
      BY <2>3 DEF cpuVars, C8TypeOK
    <2> QED BY <2>1, <2>2, <2>3 DEF Next, Edge
  <1> QED BY <1>1, <1>2, PTL DEF Spec

-----------------------------------------------------------------------------
(* Power-on.                                                               *)

Zeros == [i \in Reg |-> 0]
Blank == [a \in Byte |-> 0]

\* The program has neither a store whose rd field is not its rs2 field nor a
\* shift of the fourth kind.
Alike(m) ==
  \A a \in Byte : /\ Op(m[a]) = ST => Rd(m[a]) = Rs2(m[a])
                  /\ Op(m[a]) = SHF => Fn(m[a]) % 4 # 3

\* What the writes during reset can have left before the first instruction:
\* what that instruction writes itself.
PowerOnInv ==
  /\ ~rst_n => cycles = 0
  /\ cycles = 0 =>
       /\ pc = 0 /\ sp = 255 /\ flags = NoFlags /\ ~halt
       /\ \/ regs = Zeros
          \/ /\ Op(insn) = LDI /\ Rd(insn) # 0
             /\ regs = [Zeros EXCEPT ![Rd(insn)] = Imm8(insn)]
       /\ \/ dmem = Blank
          \/ Op(insn) = CALL /\ dmem = [Blank EXCEPT ![255] = 1]

LEMMA ZeroBits == BitAnd(0, 0) = 0 /\ BitOr(0, 0) = 0 /\ BitXor(0, 0) = 0
  <1>1. /\ Bit(0, 1) = 0 /\ Bit(0, 2) = 0 /\ Bit(0, 4) = 0 /\ Bit(0, 8) = 0 /\ Bit(0, 16) = 0
        /\ Bit(0, 32) = 0 /\ Bit(0, 64) = 0 /\ Bit(0, 128) = 0
    BY DEF Bit
  <1>2. BitAnd(0, 0) = 0
    BY <1>1 DEF BitAnd, FromBits
  <1>3. BitOr(0, 0) = 0
    BY <1>1 DEF BitOr, FromBits
  <1>4. BitXor(0, 0) = 0
    BY <1>1 DEF BitXor, FromBits
  <1> QED BY <1>2, <1>3, <1>4

\* The ALU of two zero operands gives zero.
LEMMA ZeroAlu ==
  ASSUME C8TypeOK, rs1_val = 0, rs2_val = 0 PROVE Alu.result = 0
  <1>1. \A r, c, v : Out(r, c, v).result = r
    BY DEF Out
  <1>2. AluAdd.result = 0
    BY <1>1 DEF AluAdd
  <1>3. AluSub.result = 0
    BY <1>1 DEF AluSub
  <1>4. AluShift.result = 0
    <2>1. Fn(insn) \in 0 .. 7
      BY Operands
    <2>2. (2 * 0) % 256 = 0 /\ 0 \div 2 = 0 /\ 128 * (0 % 2) + 0 \div 2 = 0
      OBVIOUS
    <2>3. CASE Fn(insn) % 4 = 0
      BY <1>1, <2>2, <2>3 DEF AluShift
    <2>4. CASE Fn(insn) % 4 = 1
      BY <1>1, <2>2, <2>4 DEF AluShift
    <2>5. CASE Fn(insn) % 4 = 2
      BY <1>1, <2>2, <2>5 DEF AluShift
    <2>6. CASE Fn(insn) % 4 = 3
      BY <1>1, <2>6 DEF AluShift
    <2> QED BY <2>1, <2>3, <2>4, <2>5, <2>6
  <1>5. /\ Out(BitAnd(rs1_val, rs2_val), 0, 0).result = 0
        /\ Out(BitOr(rs1_val, rs2_val), 0, 0).result = 0
        /\ Out(BitXor(rs1_val, rs2_val), 0, 0).result = 0
    BY <1>1, ZeroBits
  <1> QED BY <1>2, <1>3, <1>4, <1>5 DEF Alu

LEMMA PowerOnKeeps ==
  ASSUME C8TypeOK, PowerOnInv, PowerOn PROVE PowerOnInv'
  <1>1. /\ cycles = 0 /\ pc = 0 /\ sp = 255 /\ ~halt /\ pc' = 0 /\ sp' = 255
        /\ flags' = NoFlags /\ ~halt' /\ cycles' = 0
    BY DEF PowerOn, PowerOnInv
  <1>2. insn' = insn /\ WriteBack
    BY <1>1 DEF insn, PowerOn
  <1>3. Rd(insn) \in Reg /\ Rs1(insn) \in Reg /\ Rs2(insn) \in Reg /\ Imm8(insn) \in Byte
    BY Operands, Fields
  <1>4. \/ regs' = Zeros
        \/ /\ Op(insn) = LDI /\ Rd(insn) # 0
           /\ regs' = [Zeros EXCEPT ![Rd(insn)] = Imm8(insn)]
    <2>1. CASE Op(insn) = LDI
      <3>1. rf_wr_data = Imm8(insn)
        BY <2>1 DEF rf_wr_data, LDI, LD
      <3> QED BY <1>1, <1>2, <1>3, <2>1, <3>1 DEF WriteBack, PowerOnInv, Zeros
    <2>2. CASE Op(insn) # LDI
      <3>1. regs = Zeros
        BY <1>1, <2>2 DEF PowerOnInv
      <3>2. rs1_val = 0 /\ rs2_val = 0
        BY <1>3, <3>1 DEF rs1_val, rs2_val, RdData, Zeros
      <3>3. Op(insn) = LD => dmem = Blank
        BY <1>1 DEF PowerOnInv, LD, CALL
      <3>4. dm_addr \in Byte
        BY Wires
      <3>5. rf_wr_data = 0
        BY <2>2, <3>2, <3>3, <3>4, ZeroAlu DEF rf_wr_data, Blank
      <3>6. [Zeros EXCEPT ![Rd(insn)] = 0] = Zeros
        BY DEF Zeros
      <3> QED BY <1>2, <3>1, <3>5, <3>6 DEF WriteBack
    <2> QED BY <2>1, <2>2
  <1>5. \/ dmem' = Blank
        \/ Op(insn) = CALL /\ dmem' = [Blank EXCEPT ![255] = 1]
    <2>1. CASE Op(insn) = CALL
      <3>1. dm_addr = 255 /\ dm_wr_data = 1
        <4>1. dm_addr = 255
          BY <1>1, <2>1 DEF dm_addr, CALL, ST, LD, RET
        <4>2. (pc + 1) % 256 = 1
          BY <1>1
        <4> QED BY <2>1, <4>1, <4>2 DEF dm_wr_data, CALL, ST
      <3>2. dmem' = dmem \/ dmem' = [dmem EXCEPT ![255] = 1]
        BY <1>2, <3>1 DEF WriteBack
      <3> QED BY <1>1, <2>1, <3>2 DEF PowerOnInv, Blank
    <2>2. CASE Op(insn) # CALL
      <3>1. dmem = Blank
        BY <1>1, <2>2 DEF PowerOnInv
      <3>2. Op(insn) = ST => rs2_val = 0
        <4>1. Op(insn) = ST => regs = Zeros
          BY <1>1 DEF PowerOnInv, ST, LDI
        <4> QED BY <1>3, <4>1 DEF rs2_val, RdData, Zeros
      <3>3. dm_wr_en => dm_wr_data = 0
        BY <2>2, <3>2 DEF dm_wr_en, dm_wr_data
      <3>4. [Blank EXCEPT ![dm_addr] = 0] = Blank
        BY DEF Blank
      <3> QED BY <1>2, <3>1, <3>3, <3>4 DEF WriteBack
    <2> QED BY <2>1, <2>2
  <1> QED BY <1>1, <1>2, <1>4, <1>5 DEF PowerOnInv

LEMMA PowerOnHolds == Spec => []PowerOnInv
  <1>1. Init => PowerOnInv
    BY DEF Init, PowerOnInv, Zeros, Blank
  <1>2. C8TypeOK /\ PowerOnInv /\ [Next]_cpuVars => PowerOnInv'
    <2> SUFFICES ASSUME C8TypeOK, PowerOnInv, [Next]_cpuVars PROVE PowerOnInv'
      OBVIOUS
    <2>1. CASE PowerOn
      BY <2>1, PowerOnKeeps
    <2>2. CASE Execute
      <3>1. cycles' # 0
        BY <2>2 DEF Execute, C8TypeOK
      <3>2. rst_n /\ rst_n' = rst_n
        BY <2>2 DEF Execute
      <3> QED BY <3>1, <3>2 DEF PowerOnInv
    <2>3. CASE UNCHANGED cpuVars
      BY <2>3 DEF cpuVars, PowerOnInv, insn
    <2> QED BY <2>1, <2>2, <2>3 DEF Next, Edge
  <1> QED BY <1>1, <1>2, C8Types, PTL DEF Spec

-----------------------------------------------------------------------------
(* The simulator's view of the state.                                      *)

regsV == IF cycles = 0 THEN Zeros ELSE regs
dmemV == IF cycles = 0 THEN Blank ELSE dmem

LEMMA SameWords ==
  /\ \A w : /\ Sim!Op(w) = Op(w) /\ Sim!Rd(w) = Rd(w) /\ Sim!Rs1(w) = Rs1(w)
            /\ Sim!Rs2(w) = Rs2(w) /\ Sim!Fn(w) = Fn(w)
            /\ Sim!Imm6(w) = Imm6(w) /\ Sim!Imm8(w) = Imm8(w) /\ Sim!Imm9(w) = Imm9(w)
  /\ \A a : Sim!Sign(a) = Sign(a) /\ Sim!IsZero(a) = IsZero(a)
  /\ Sim!Byte = Byte /\ Sim!Insn = Insn /\ Sim!NoFlags = NoFlags /\ Sim!Reg = Reg
  BY DEF Sim!Op, Op, Sim!Rd, Rd, Sim!Rs1, Rs1, Sim!Rs2, Rs2, Sim!Fn, Fn, Sim!Imm6, Imm6,
         Sim!Imm8, Imm8, Sim!Imm9, Imm9, Sim!Sign, Sign, Sim!Bit, Bit, Sim!IsZero, IsZero,
         Sim!Byte, Byte, Sim!Insn, Insn, Sim!NoFlags, NoFlags, Sim!Reg, Reg

LEMMA SameBits ==
  \A a, b : /\ Sim!BitAnd(a, b) = BitAnd(a, b) /\ Sim!BitOr(a, b) = BitOr(a, b)
           /\ Sim!BitXor(a, b) = BitXor(a, b)
  BY DEF Sim!BitAnd, BitAnd, Sim!BitOr, BitOr, Sim!BitXor, BitXor, Sim!FromBits, FromBits,
         Sim!Bit, Bit

\* Every instruction but LDI sees the registers as they are, every one but CALL
\* the memory, and those two overwrite what differs.
LEMMA View ==
  ASSUME C8TypeOK, PowerOnInv
  PROVE  /\ Op(insn) # LDI \/ Rd(insn) = 0 => regsV = regs
         /\ Op(insn) = LDI => [regsV EXCEPT ![Rd(insn)] = Imm8(insn)]
                                = [regs EXCEPT ![Rd(insn)] = Imm8(insn)]
         /\ Op(insn) # CALL => dmemV = dmem
         /\ Op(insn) = CALL => [dmemV EXCEPT ![sp] = (pc + 1) % 256]
                                 = [dmem EXCEPT ![sp] = (pc + 1) % 256]
  <1>1. CASE cycles # 0
    BY <1>1 DEF regsV, dmemV
  <1>2. CASE cycles = 0
    <2>1. /\ pc = 0 /\ sp = 255 /\ regsV = Zeros /\ dmemV = Blank
          /\ \/ regs = Zeros
             \/ /\ Op(insn) = LDI /\ Rd(insn) # 0
                /\ regs = [Zeros EXCEPT ![Rd(insn)] = Imm8(insn)]
          /\ \/ dmem = Blank
             \/ Op(insn) = CALL /\ dmem = [Blank EXCEPT ![255] = 1]
      BY <1>2 DEF PowerOnInv, regsV, dmemV
    <2>2. (pc + 1) % 256 = 1
      BY <2>1
    <2>3. [[Zeros EXCEPT ![Rd(insn)] = Imm8(insn)] EXCEPT ![Rd(insn)] = Imm8(insn)]
            = [Zeros EXCEPT ![Rd(insn)] = Imm8(insn)]
      BY DEF Zeros
    <2>4. [[Blank EXCEPT ![255] = 1] EXCEPT ![255] = 1] = [Blank EXCEPT ![255] = 1]
      BY DEF Blank
    <2> QED BY <2>1, <2>2, <2>3, <2>4
  <1> QED BY <1>1, <1>2

LEMMA SimReads ==
  ASSUME C8TypeOK, PowerOnInv
  PROVE  /\ Sim!insn = insn
         /\ Op(insn) # LDI => /\ Sim!rs1 = rs1_val /\ Sim!rs2 = rs2_val
                              /\ Sim!RegRead(Rd(insn)) = RdData(Rd(insn))
  <1>1. Sim!insn = insn
    BY DEF Sim!insn, insn
  <1>2. \A i : Sim!RegRead(i) = IF i = 0 THEN 0 ELSE regsV[i]
    BY DEF Sim!RegRead, regsV, Zeros
  <1> QED BY <1>1, <1>2, SameWords, View DEF Sim!rs1, Sim!rs2, rs1_val, rs2_val, RdData

LEMMA SameAddress ==
  ASSUME C8TypeOK, PowerOnInv, Op(insn) \in {LD, ST} PROVE Sim!Address = MemAddr
  <1>1. Sim!insn = insn /\ Sim!rs1 = rs1_val
    BY SimReads DEF LD, ST, LDI
  <1>2. rs1_val \in Int /\ Imm6(insn) \in Int
    BY Operands, Ranges
  <1>3. Sim!Signed6(Imm6(insn)) = IF Imm6(insn) < 32 THEN Imm6(insn) ELSE Imm6(insn) - 64
    BY DEF Sim!Signed6
  <1>4. \A a, i \in Int : (a + (i - 64)) % 256 = (a + i + 192) % 256
    OBVIOUS
  <1>5. CASE Imm6(insn) < 32
    BY <1>1, <1>2, <1>3, <1>5, SameWords DEF Sim!Address, MemAddr
  <1>6. CASE ~(Imm6(insn) < 32)
    BY <1>1, <1>2, <1>3, <1>4, <1>6, SameWords DEF Sim!Address, MemAddr
  <1> QED BY <1>5, <1>6

LEMMA SameTarget ==
  ASSUME C8TypeOK, Sim!insn = insn
  PROVE  (pc + Sim!Signed9(Sim!Imm9(Sim!insn))) % 256 = (pc + Imm8(insn)) % 256
  <1>1. insn \in Int /\ pc \in Int
    <2>1. insn \in Insn
      BY Operands
    <2>2. pc \in Byte
      BY DEF C8TypeOK
    <2> QED BY <2>1, <2>2, Ranges
  <1>2. \A w \in Int : w % 512 = w % 256 \/ w % 512 = (w % 256) + 256
    OBVIOUS
  <1>3. \A a, b \in Int : (a + (b + 256 - 512)) % 256 = (a + b) % 256
    OBVIOUS
  <1>4. Imm8(insn) \in Int /\ 0 <= Imm8(insn) /\ Imm8(insn) <= 255
    BY Operands, Ranges
  <1>5. Imm9(insn) = Imm8(insn) \/ Imm9(insn) = Imm8(insn) + 256
    BY <1>1, <1>2 DEF Imm9, Imm8
  <1>6. CASE Imm9(insn) = Imm8(insn)
    BY <1>4, <1>6, SameWords DEF Sim!Signed9
  <1>7. CASE Imm9(insn) = Imm8(insn) + 256
    <2>1. Sim!Signed9(Imm9(insn)) = Imm8(insn) + 256 - 512
      BY <1>4, <1>7 DEF Sim!Signed9
    <2> QED BY <1>1, <1>3, <1>4, <2>1, SameWords
  <1> QED BY <1>5, <1>6, <1>7

LEMMA SameBranch ==
  ASSUME C8TypeOK, Sim!insn = insn PROVE Sim!BranchTaken <=> branch_taken
  <1>1. Sim!Rd(Sim!insn) = Rd(insn) /\ Rd(insn) \in 0 .. 7
    BY SameWords, Operands DEF Reg
  <1>2. CASE Rd(insn) = 0
    BY <1>1, <1>2 DEF Sim!BranchTaken, branch_taken
  <1>3. CASE Rd(insn) = 1
    BY <1>1, <1>3 DEF Sim!BranchTaken, branch_taken
  <1>4. CASE Rd(insn) = 2
    BY <1>1, <1>4 DEF Sim!BranchTaken, branch_taken
  <1>5. CASE Rd(insn) = 3
    BY <1>1, <1>5 DEF Sim!BranchTaken, branch_taken
  <1>6. CASE Rd(insn) = 4
    BY <1>1, <1>6 DEF Sim!BranchTaken, branch_taken
  <1>7. CASE Rd(insn) = 5
    BY <1>1, <1>7 DEF Sim!BranchTaken, branch_taken
  <1>8. CASE Rd(insn) = 6
    BY <1>1, <1>8 DEF Sim!BranchTaken, branch_taken
  <1>9. CASE Rd(insn) = 7
    BY <1>1, <1>9 DEF Sim!BranchTaken, branch_taken
  <1> QED BY <1>1, <1>2, <1>3, <1>4, <1>5, <1>6, <1>7, <1>8, <1>9

-----------------------------------------------------------------------------
(* The two arithmetics agree.                                              *)

LEMMA SameFlags == \A r, c, v : Sim!SetFlags(r, c, v) = Out(r, c, v).flags /\ Out(r, c, v).result = r
  BY SameWords DEF Sim!SetFlags, Out

LEMMA OverflowBits ==
  ASSUME NEW x \in 0 .. 1, NEW y \in 0 .. 1, NEW z \in 0 .. 1
  PROVE  /\ (IF x = y /\ z # x THEN 1 ELSE 0) = (1 - x) * (1 - y) * z + x * y * (1 - z)
         /\ (IF x # y /\ z # x THEN 1 ELSE 0) = x * (1 - y) * (1 - z) + (1 - x) * y * z
  <1>1. CASE x = 0 /\ y = 0
    BY <1>1
  <1>2. CASE x = 0 /\ y = 1
    BY <1>2
  <1>3. CASE x = 1 /\ y = 0
    BY <1>3
  <1>4. CASE x = 1 /\ y = 1
    BY <1>4
  <1> QED BY <1>1, <1>2, <1>3, <1>4

\* The simulator's borrow is bit 8 of a signed difference, the RTL's of nine bits.
LEMMA SameBorrow ==
  \A x, y \in Byte : /\ ((x - y) % 512) % 256 = (x - y) % 256
                     /\ ((x - y) % 512) \div 256 = ((x - y) \div 256) % 2
  <1> SUFFICES ASSUME NEW x \in Int, 0 <= x, x <= 255, NEW y \in Int, 0 <= y, y <= 255
               PROVE  /\ ((x - y) % 512) % 256 = (x - y) % 256
                      /\ ((x - y) % 512) \div 256 = ((x - y) \div 256) % 2
    BY Ranges
  <1>1. CASE x >= y
    <2>1. (x - y) % 512 = x - y /\ (x - y) % 256 = x - y /\ (x - y) \div 256 = 0
      BY <1>1
    <2> QED BY <2>1
  <1>2. CASE x < y
    <2>3. (x - y) % 512 = x - y + 512
      BY <1>2
    <2>4. (x - y) % 256 = x - y + 256
      BY <1>2
    <2>5. ((x - y) \div 256) % 2 = 1
      <3>1. \A d \in Int : -255 <= d /\ d <= -1 => (d \div 256) % 2 = 1
        OBVIOUS
      <3>2. x - y \in Int /\ -255 <= x - y /\ x - y <= -1
        BY <1>2
      <3> QED BY <3>1, <3>2
    <2>6. (x - y + 512) % 256 = x - y + 256 /\ (x - y + 512) \div 256 = 1
      <3>1. \A d \in Int : -255 <= d /\ d <= -1 => (d + 512) % 256 = d + 256
        OBVIOUS
      <3>2. \A d \in Int : -255 <= d /\ d <= -1 => (d + 512) \div 256 = 1
        OBVIOUS
      <3>3. x - y \in Int /\ -255 <= x - y /\ x - y <= -1
        BY <1>2
      <3> QED BY <3>1, <3>2, <3>3
    <2> QED BY <2>3, <2>4, <2>5, <2>6
  <1> QED BY <1>1, <1>2

LEMMA SameSum ==
  ASSUME C8TypeOK, Sim!rs1 = rs1_val, Sim!rs2 = rs2_val
  PROVE  Sim!Sum.r = AluAdd.result /\ Sim!Sum.f = AluAdd.flags
  <1> DEFINE r == (rs1_val + rs2_val) % 256
             c == (rs1_val + rs2_val) \div 256
             x == Sign(rs1_val)
             y == Sign(rs2_val)
             z == Sign(r)
  <1>1. rs1_val \in Byte /\ rs2_val \in Byte
    BY Operands
  <1>2. x \in 0 .. 1 /\ y \in 0 .. 1 /\ z \in 0 .. 1
    <2>1. rs1_val + rs2_val \in Int
      BY <1>1, Ranges
    <2>2. r \in Byte
      BY <2>1, Remainders DEF Byte
    <2> QED BY <1>1, <2>2, SignBit
  <1>3. Sim!Sum = [r |-> r, f |-> Sim!SetFlags(r, c, IF x = y /\ z # x THEN 1 ELSE 0)]
    BY SameWords DEF Sim!Sum
  <1>4. AluAdd = Out(r, c, (1 - x) * (1 - y) * z + x * y * (1 - z))
    BY DEF AluAdd
  <1> HIDE DEF r, c, x, y, z
  <1> QED BY <1>2, <1>3, <1>4, OverflowBits, SameFlags

LEMMA SameDifference ==
  ASSUME C8TypeOK, Sim!rs1 = rs1_val, Sim!rs2 = rs2_val
  PROVE  Sim!Difference.r = AluSub.result /\ Sim!Difference.f = AluSub.flags
  <1> DEFINE r == (rs1_val - rs2_val) % 256
             c == ((rs1_val - rs2_val) \div 256) % 2
             x == Sign(rs1_val)
             y == Sign(rs2_val)
             z == Sign(r)
  <1>1. rs1_val \in Byte /\ rs2_val \in Byte
    BY Operands
  <1>2. x \in 0 .. 1 /\ y \in 0 .. 1 /\ z \in 0 .. 1
    <2>1. rs1_val - rs2_val \in Int
      BY <1>1, Ranges
    <2>2. r \in Byte
      BY <2>1, Remainders DEF Byte
    <2> QED BY <1>1, <2>2, SignBit
  <1>3. Sim!Difference = [r |-> r, f |-> Sim!SetFlags(r, c, IF x # y /\ z # x THEN 1 ELSE 0)]
    BY SameWords DEF Sim!Difference
  <1>4. ((rs1_val - rs2_val) % 512) % 256 = r /\ ((rs1_val - rs2_val) % 512) \div 256 = c
    BY <1>1, SameBorrow
  <1>5. AluSub = Out(r, c, x * (1 - y) * (1 - z) + (1 - x) * y * z)
    BY <1>4 DEF AluSub
  <1> HIDE DEF r, c, x, y, z
  <1> QED BY <1>2, <1>3, <1>5, OverflowBits, SameFlags

LEMMA SameShift ==
  ASSUME C8TypeOK, Sim!insn = insn, Sim!rs1 = rs1_val, Fn(insn) % 4 # 3
  PROVE  Sim!Shifted.r = AluShift.result
           /\ Sim!SetFlags(Sim!Shifted.r, Sim!Shifted.c, 0) = AluShift.flags
  <1>1. Fn(insn) \in 0 .. 7 /\ rs1_val \in 0 .. 255 /\ Sim!Fn(Sim!insn) = Fn(insn)
    BY Operands, SameWords DEF Byte
  <1>2. (rs1_val * 2) % 256 = (2 * rs1_val) % 256
          /\ rs1_val \div 2 + 128 * (rs1_val % 2) = 128 * (rs1_val % 2) + rs1_val \div 2
    BY <1>1
  <1>3. CASE Fn(insn) % 4 = 0
    <2>1. Sim!Shifted = [r |-> (rs1_val * 2) % 256, c |-> Sign(rs1_val)]
      BY <1>1, <1>3, SameWords DEF Sim!Shifted
    <2>2. AluShift = Out((rs1_val * 2) % 256, Sign(rs1_val), 0)
      BY <1>2, <1>3 DEF AluShift
    <2> QED BY <2>1, <2>2, SameFlags
  <1>4. CASE Fn(insn) % 4 = 1
    <2>1. Sim!Shifted = [r |-> rs1_val \div 2, c |-> rs1_val % 2]
      BY <1>1, <1>4 DEF Sim!Shifted
    <2>2. AluShift = Out(rs1_val \div 2, rs1_val % 2, 0)
      BY <1>4 DEF AluShift
    <2> QED BY <2>1, <2>2, SameFlags
  <1>5. CASE Fn(insn) % 4 = 2
    <2>1. Sim!Shifted = [r |-> rs1_val \div 2 + 128 * (rs1_val % 2), c |-> rs1_val % 2]
      BY <1>1, <1>5 DEF Sim!Shifted
    <2>2. AluShift = Out(rs1_val \div 2 + 128 * (rs1_val % 2), rs1_val % 2, 0)
      BY <1>2, <1>5 DEF AluShift
    <2> QED BY <2>1, <2>2, SameFlags
  <1> QED BY <1>1, <1>3, <1>4, <1>5

LEMMA SameAlu ==
  ASSUME C8TypeOK, PowerOnInv, Alike(imem),
         Op(insn) \in {ADD, SUB, AND, OR, XOR, SHF, CMP}
  PROVE  Sim!Computed.r = Alu.result /\ Sim!Computed.f = Alu.flags
  <1>1. /\ Sim!insn = insn /\ Sim!Op(Sim!insn) = Op(insn)
        /\ Sim!rs1 = rs1_val /\ Sim!rs2 = rs2_val
    BY SimReads, SameWords DEF ADD, SUB, AND, OR, XOR, SHF, CMP, LDI
  <1> USE DEF ADD, SUB, AND, OR, XOR, SHF, CMP, Sim!ADD, Sim!SUB, Sim!AND, Sim!OR, Sim!XOR,
              Sim!CMP
  <1>2. CASE Op(insn) = ADD
    BY <1>1, <1>2, SameSum DEF Sim!Computed, Alu
  <1>3. CASE Op(insn) \in {SUB, CMP}
    BY <1>1, <1>3, SameDifference DEF Sim!Computed, Alu
  <1>4. CASE Op(insn) = AND
    BY <1>1, <1>4, SameBits, SameFlags DEF Sim!Computed, Alu, Sim!Logic
  <1>5. CASE Op(insn) = OR
    BY <1>1, <1>5, SameBits, SameFlags DEF Sim!Computed, Alu, Sim!Logic
  <1>6. CASE Op(insn) = XOR
    BY <1>1, <1>6, SameBits, SameFlags DEF Sim!Computed, Alu, Sim!Logic
  <1>7. CASE Op(insn) = SHF
    <2>1. Fn(insn) % 4 # 3
      BY <1>7 DEF Alike, C8TypeOK, insn
    <2> QED BY <1>1, <1>7, <2>1, SameShift DEF Sim!Computed, Alu
  <1> QED BY <1>2, <1>3, <1>4, <1>5, <1>6, <1>7

-----------------------------------------------------------------------------
(* One instruction of the RTL is one step() of the simulator.              *)

LEMMA Executed ==
  ASSUME C8TypeOK, Execute
  PROVE  /\ cycles' # 0 /\ cycles' = cycles + 1 /\ imem' = imem /\ ~halt /\ cycles < MAX_CYCLES
         /\ pc' = pc_next /\ sp' = sp_next
         /\ regs' = IF Op(insn) \in {ADD, SUB, AND, OR, XOR, SHF, LDI, LD} /\ Rd(insn) # 0
                      THEN [regs EXCEPT ![Rd(insn)] = rf_wr_data] ELSE regs
         /\ dmem' = IF Op(insn) \in {ST, CALL}
                      THEN [dmem EXCEPT ![dm_addr] = dm_wr_data] ELSE dmem
         /\ flags' = IF Op(insn) \in {ADD, SUB, AND, OR, XOR, SHF, CMP}
                       THEN Alu.flags ELSE flags
  <1>1. cycles' # 0 /\ cycles' = cycles + 1
    BY DEF Execute, C8TypeOK
  <1>2. imem' = imem /\ ~halt /\ cycles < MAX_CYCLES /\ pc' = pc_next /\ sp' = sp_next
    BY DEF Execute
  <1>3. ~halt /\ WriteBack
    BY DEF Execute
  <1>4. flags' = IF flag_update THEN Alu.flags ELSE flags
    BY DEF Execute
  <1> QED BY <1>1, <1>2, <1>3, <1>4 DEF WriteBack, rf_wr_en, dm_wr_en, flag_update, Running

LEMMA SimFrame ==
  ASSUME C8TypeOK, PowerOnInv, Execute
  PROVE  /\ \A next : pc' = next /\ halt' = halt => Sim!GoOn(next)
         /\ \A i, v : regs' = (IF i = 0 THEN regsV ELSE [regsV EXCEPT ![i] = v])
                       => Sim!RegWrite(i, v)
         /\ Sim!NextPc = (pc + 1) % 256
  <1>1. \A next : pc' = next /\ halt' = halt => Sim!GoOn(next)
    BY Executed DEF Sim!GoOn
  <1>2. \A i, v : regs' = (IF i = 0 THEN regsV ELSE [regsV EXCEPT ![i] = v])
                  => Sim!RegWrite(i, v)
    BY Executed DEF Sim!RegWrite, regsV, Zeros
  <1>3. Sim!NextPc = (pc + 1) % 256
    BY DEF Sim!NextPc
  <1> QED BY <1>1, <1>2, <1>3

LEMMA SimOps ==
  /\ Sim!NOP = 0 /\ Sim!ADD = 1 /\ Sim!SUB = 2 /\ Sim!AND = 3 /\ Sim!OR = 4 /\ Sim!XOR = 5
  /\ Sim!SHF = 6 /\ Sim!CMP = 7 /\ Sim!LDI = 8 /\ Sim!LD = 9 /\ Sim!ST = 10 /\ Sim!BR = 11
  /\ Sim!JMP = 12 /\ Sim!CALL = 13 /\ Sim!RET = 14 /\ Sim!HLT = 15
  BY DEF Sim!NOP, Sim!ADD, Sim!SUB, Sim!AND, Sim!OR, Sim!XOR, Sim!SHF, Sim!CMP, Sim!LDI, Sim!LD,
         Sim!ST, Sim!BR, Sim!JMP, Sim!CALL, Sim!RET, Sim!HLT

LEMMA StepMaps ==
  ASSUME C8TypeOK, PowerOnInv, Alike(imem), Execute PROVE Sim!Next
  <1>1. Sim!insn = insn /\ Sim!Op(Sim!insn) = Op(insn) /\ Sim!Rd(Sim!insn) = Rd(insn)
          /\ Sim!Imm8(Sim!insn) = Imm8(insn) /\ Op(insn) \in 0 .. 15
    BY SimReads, SameWords, Operands
  <1>2. cycles < MAX_CYCLES /\ ~halt
    BY Executed
  <1>3. halt' = halt \/ Op(insn) = HLT
    <2>1. halt \in BOOLEAN /\ ~halt /\ halt' = (Op(insn) = HLT)
      BY DEF Execute, C8TypeOK
    <2> QED BY <2>1, Zenon
  <1>4. Op(insn) # CALL => dmemV = dmem
    BY View
  <1>5. ASSUME Op(insn) \notin {ST, CALL}
        PROVE  dmem' = dmem /\ dmem' = dmemV
    BY <1>4, <1>5, Executed
  <1>6. ASSUME Op(insn) \notin {ADD, SUB, AND, OR, XOR, SHF, LDI, LD}
        PROVE  regs' = regs /\ regs' = regsV
    BY <1>6, View, Executed DEF LDI
  <1> USE DEF NOP, ADD, SUB, AND, OR, XOR, SHF, CMP, LDI, LD, ST, BR, JMP, CALL, RET, HLT
  <1>7. CASE Op(insn) = NOP
    <2>1. Sim!Nop
      BY <1>1, <1>3, <1>5, <1>6, <1>7, Executed, SimFrame, SimOps
      DEF Sim!Nop, pc_next, sp_next, regsV, dmemV, Zeros, Blank
    <2> QED BY <1>2, <2>1 DEF Sim!Next, Sim!Step
  <1>8. CASE Op(insn) \in {ADD, SUB, AND, OR, XOR, SHF}
    <2>1. Sim!Computed.r = Alu.result /\ Sim!Computed.f = Alu.flags
      BY <1>8, SameAlu
    <2>2. regsV = regs /\ rf_wr_data = Alu.result
      BY <1>8, View DEF rf_wr_data
    <2>3. Sim!RegWrite(Rd(insn), Alu.result)
      BY <1>8, <2>2, Executed, SimFrame
    <2>4. Sim!GoOn(Sim!NextPc)
      BY <1>3, <1>8, Executed, SimFrame DEF pc_next
    <2>5. flags' = Alu.flags /\ sp' = sp
      BY <1>8, Executed DEF sp_next
    <2>6. Sim!Arith
      BY <1>1, <1>5, <1>8, <2>1, <2>3, <2>4, <2>5, Executed, SimOps DEF Sim!Arith, dmemV, Blank
    <2> QED BY <1>2, <2>6 DEF Sim!Next, Sim!Step
  <1>9. CASE Op(insn) = CMP
    <2>1. Sim!Computed.f = Alu.flags
      BY <1>9, SameAlu
    <2>2. Sim!GoOn(Sim!NextPc)
      BY <1>3, <1>9, Executed, SimFrame DEF pc_next
    <2>3. flags' = Alu.flags /\ sp' = sp
      BY <1>9, Executed DEF sp_next
    <2>4. Sim!Compare
      BY <1>1, <1>5, <1>6, <1>9, <2>1, <2>2, <2>3, Executed, SimOps
      DEF Sim!Compare, regsV, dmemV, Zeros, Blank
    <2> QED BY <1>2, <2>4 DEF Sim!Next, Sim!Step
  <1>10. CASE Op(insn) = LDI
    <2>1. regs' = IF Rd(insn) = 0 THEN regsV ELSE [regsV EXCEPT ![Rd(insn)] = Imm8(insn)]
      BY <1>10, View, Executed DEF rf_wr_data
    <2>2. Sim!RegWrite(Rd(insn), Imm8(insn))
      BY <2>1, SimFrame
    <2>3. Sim!GoOn(Sim!NextPc)
      BY <1>3, <1>10, Executed, SimFrame DEF pc_next
    <2>4. Sim!LoadImmediate
      BY <1>1, <1>5, <1>10, <2>2, <2>3, Executed, SimOps
      DEF Sim!LoadImmediate, dmemV, Blank, sp_next
    <2> QED BY <1>2, <2>4 DEF Sim!Next, Sim!Step
  <1>11. CASE Op(insn) = LD
    <2>1. regsV = regs /\ rf_wr_data = dmemV[MemAddr]
      BY <1>4, <1>11, View DEF rf_wr_data, dm_addr
    <2>2. Sim!RegWrite(Rd(insn), dmemV[MemAddr])
      BY <1>11, <2>1, Executed, SimFrame
    <2>3. Sim!GoOn(Sim!NextPc)
      BY <1>3, <1>11, Executed, SimFrame DEF pc_next
    <2>4. Sim!Address = MemAddr
      BY <1>11, SameAddress
    <2>5. Sim!LoadByte
      BY <1>1, <1>5, <1>11, <2>2, <2>3, <2>4, Executed, SimOps
      DEF Sim!LoadByte, dmemV, Blank, sp_next
    <2> QED BY <1>2, <2>5 DEF Sim!Next, Sim!Step
  <1>12. CASE Op(insn) = ST
    <2>1. Rd(insn) = Rs2(insn)
      BY <1>12 DEF Alike, C8TypeOK, insn
    <2>2. Sim!RegRead(Sim!Rd(Sim!insn)) = rs2_val /\ Sim!Address = MemAddr
      BY <1>1, <1>12, <2>1, SimReads, SameAddress DEF rs2_val
    <2>3. dmem' = [dmemV EXCEPT ![MemAddr] = rs2_val]
      BY <1>4, <1>12, Executed DEF dm_addr, dm_wr_data
    <2>4. Sim!GoOn(Sim!NextPc)
      BY <1>3, <1>12, Executed, SimFrame DEF pc_next
    <2>5. Sim!StoreByte
      BY <1>1, <1>6, <1>12, <2>2, <2>3, <2>4, Executed, SimOps
      DEF Sim!StoreByte, regsV, dmemV, Zeros, Blank, sp_next
    <2> QED BY <1>2, <2>5 DEF Sim!Next, Sim!Step
  <1>13. CASE Op(insn) = BR
    <2>1. pc' = IF Sim!BranchTaken THEN (pc + Sim!Signed9(Sim!Imm9(Sim!insn))) % 256
                                   ELSE Sim!NextPc
      <3>1. (pc + Sim!Signed9(Sim!Imm9(Sim!insn))) % 256 = (pc + Imm8(insn)) % 256
        BY <1>1, SameTarget
      <3>2. Sim!NextPc = (pc + 1) % 256
        BY SimFrame
      <3>3. pc' = IF branch_taken THEN (pc + Imm8(insn)) % 256 ELSE (pc + 1) % 256
        BY <1>13, Executed DEF pc_next
      <3>4. Sim!BranchTaken <=> branch_taken
        BY <1>1, SameBranch
      <3> QED BY <3>1, <3>2, <3>3, <3>4
    <2>2. Sim!GoOn(IF Sim!BranchTaken THEN (pc + Sim!Signed9(Sim!Imm9(Sim!insn))) % 256
                                      ELSE Sim!NextPc)
      BY <1>3, <1>13, <2>1, SimFrame
    <2>3. Sim!Branch
      BY <1>1, <1>5, <1>6, <1>13, <2>2, Executed, SimOps
      DEF Sim!Branch, regsV, dmemV, Zeros, Blank, sp_next
    <2> QED BY <1>2, <2>3 DEF Sim!Next, Sim!Step
  <1>14. CASE Op(insn) = JMP
    <2>1. Sim!GoOn(Imm8(insn))
      BY <1>3, <1>14, Executed, SimFrame DEF pc_next
    <2>2. Sim!Jump
      BY <1>1, <1>5, <1>6, <1>14, <2>1, Executed, SimOps
      DEF Sim!Jump, regsV, dmemV, Zeros, Blank, sp_next
    <2> QED BY <1>2, <2>2 DEF Sim!Next, Sim!Step
  <1>15. CASE Op(insn) = CALL
    <2>1. Sim!GoOn(Imm8(insn))
      BY <1>3, <1>15, Executed, SimFrame DEF pc_next
    <2>2. dmem' = [dmemV EXCEPT ![sp] = (pc + 1) % 256] /\ sp' = (sp - 1) % 256
      BY <1>15, View, Executed DEF dm_addr, dm_wr_data, sp_next
    <2>3. Sim!NextPc = (pc + 1) % 256
      BY SimFrame
    <2>4. Sim!Call
      BY <1>1, <1>6, <1>15, <2>1, <2>2, <2>3, Executed, SimOps
      DEF Sim!Call, regsV, dmemV, Zeros, Blank
    <2> QED BY <1>2, <2>4 DEF Sim!Next, Sim!Step
  <1>16. CASE Op(insn) = RET
    <2>1. sp' = (sp + 1) % 256 /\ pc' = dmemV[sp']
      BY <1>4, <1>16, Executed DEF sp_next, pc_next, dm_addr
    <2>2. Sim!GoOn(dmemV[sp'])
      BY <1>3, <1>16, <2>1, SimFrame
    <2>3. Sim!Return
      BY <1>1, <1>5, <1>6, <1>16, <2>1, <2>2, Executed, SimOps
      DEF Sim!Return, regsV, dmemV, Zeros, Blank
    <2> QED BY <1>2, <2>3 DEF Sim!Next, Sim!Step
  <1>17. CASE Op(insn) = HLT
    <2>1. halt' = TRUE
      BY <1>17, Zenon DEF Execute
    <2>2. pc' = pc /\ sp' = sp /\ flags' = flags
      BY <1>17, Executed DEF pc_next, sp_next
    <2>3. Sim!Halt
      BY <1>1, <1>5, <1>6, <1>17, <2>1, <2>2, Executed, SimOps
      DEF Sim!Halt, regsV, dmemV, Zeros, Blank
    <2> QED BY <1>2, <2>3 DEF Sim!Next, Sim!Step
  <1> QED BY <1>1, <1>7, <1>8, <1>9, <1>10, <1>11, <1>12, <1>13, <1>14, <1>15, <1>16, <1>17

LEMMA PowerOnStutters ==
  ASSUME C8TypeOK, PowerOnInv, PowerOn PROVE UNCHANGED Sim!simVars
  <1>1. /\ cycles = 0 /\ pc = 0 /\ sp = 255 /\ flags = NoFlags /\ ~halt
        /\ pc' = 0 /\ sp' = 255 /\ flags' = NoFlags /\ cycles' = 0 /\ imem' = imem
    BY DEF PowerOn, PowerOnInv
  <1>2. halt' = halt
    <2>1. halt \in BOOLEAN /\ ~halt /\ halt' = FALSE
      BY <1>1 DEF PowerOn, C8TypeOK
    <2> QED BY <2>1, Zenon
  <1> QED BY <1>1, <1>2, SameWords DEF Sim!simVars

\* The RTL implements the simulator on every program without the two
\* instructions they disagree about: the writes during reset included.
THEOREM RefinesSim == Spec /\ Alike(imem) => ImplementsSim
  <1>1. Init => Sim!Init
    BY SameWords DEF Init, Sim!Init
  <1>2. Alike(imem) /\ [Next]_cpuVars => Alike(imem)'
    <2> SUFFICES ASSUME Alike(imem), [Next]_cpuVars PROVE Alike(imem)'
      OBVIOUS
    <2>1. imem' = imem
      BY DEF Next, Edge, PowerOn, Execute, cpuVars
    <2> QED BY <2>1 DEF Alike
  <1>3. C8TypeOK /\ PowerOnInv /\ Alike(imem) /\ [Next]_cpuVars => [Sim!Next]_(Sim!simVars)
    <2> SUFFICES ASSUME C8TypeOK, PowerOnInv, Alike(imem), [Next]_cpuVars
                 PROVE  Sim!Next \/ UNCHANGED Sim!simVars
      OBVIOUS
    <2>1. CASE PowerOn
      BY <2>1, PowerOnStutters
    <2>2. CASE Execute
      BY <2>2, StepMaps
    <2>3. CASE UNCHANGED cpuVars
      BY <2>3 DEF cpuVars, Sim!simVars
    <2> QED BY <2>1, <2>2, <2>3 DEF Next, Edge
  <1> QED BY <1>1, <1>2, <1>3, C8Types, PowerOnHolds, PTL DEF Spec, ImplementsSim, Sim!Spec

-----------------------------------------------------------------------------
(* The stack.                                                              *)

\* The cells of data memory that hold the open calls' return addresses.
CellAt(s, i) == (s + i) % 256
StackCell(i) == CellAt(sp, i)

\* A store into one of them, and a call nested too deep for the memory.
StoresIntoStack ==
  FlowExecute /\ Op(insn) = ST /\ \E i \in 1 .. Len(returns) : dm_addr = StackCell(i)
Overflows == FlowExecute /\ Op(insn) = CALL /\ Len(returns) >= 256

\* The memory holds the open calls above sp, the last one nearest.
StackHolds ==
  /\ returns \in Seq(Byte) /\ Len(returns) <= 256
  /\ ~rst_n => returns = <<>>
  /\ \A i \in 1 .. Len(returns) : dmem[StackCell(i)] = returns[i]

LEMMA Around ==
  ASSUME NEW s \in Byte, NEW i \in Nat
  PROVE  CellAt(s, i) \in Byte /\ (1 <= i /\ i <= 255 => CellAt(s, i) # s)
  <1>1. s \in Int /\ 0 <= s /\ s <= 255
    BY Ranges
  <1>2. (s + i) % 256 \in Byte
    BY <1>1, Remainders DEF Byte
  <1>3. 1 <= i /\ i <= 255 => (s + i) % 256 # s
    BY <1>1
  <1> QED BY <1>2, <1>3 DEF CellAt

LEMMA NewCell ==
  ASSUME NEW s \in Byte, NEW t, t = (s - 1) % 256
  PROVE  CellAt(t, 1) = s
  <1>1. s \in Int /\ 0 <= s /\ s <= 255
    BY Ranges
  <1>2. (((s - 1) % 256) + 1) % 256 = s
    BY <1>1
  <1> QED BY <1>2 DEF CellAt

LEMMA AfterPush ==
  ASSUME NEW s \in Byte, NEW i \in Nat, NEW t, t = (s - 1) % 256
  PROVE  CellAt(t, i + 1) = CellAt(s, i)
  <1>1. s \in Int
    BY Ranges
  <1>2. (((s - 1) % 256) + (i + 1)) % 256 = (s + i) % 256
    BY <1>1
  <1> QED BY <1>2 DEF CellAt

LEMMA AfterPop ==
  ASSUME NEW s \in Byte, NEW i \in Nat, NEW t, t = (s + 1) % 256
  PROVE  CellAt(t, i) = CellAt(s, i + 1)
  <1>1. s \in Int
    BY Ranges
  <1>2. (((s + 1) % 256) + i) % 256 = (s + (i + 1)) % 256
    BY <1>1
  <1> QED BY <1>2 DEF CellAt

LEMMA Pushed ==
  ASSUME NEW s \in Seq(Byte), NEW b \in Byte
  PROVE  /\ <<b>> \o s \in Seq(Byte) /\ Len(<<b>> \o s) = Len(s) + 1
         /\ (<<b>> \o s)[1] = b
         /\ \A i \in 1 .. Len(s) : (<<b>> \o s)[i + 1] = s[i]
  <1>1. <<b>> \in Seq(Byte) /\ Len(<<b>>) = 1 /\ <<b>>[1] = b
    OBVIOUS
  <1>2. Len(s) \in Nat
    OBVIOUS
  <1> QED BY <1>1, <1>2, ConcatProperties

LEMMA Popped ==
  ASSUME NEW s \in Seq(Byte), s # <<>>
  PROVE  /\ Tail(s) \in Seq(Byte) /\ Len(Tail(s)) = Len(s) - 1 /\ Len(s) > 0
         /\ Head(s) = s[1] /\ \A i \in 1 .. Len(Tail(s)) : Tail(s)[i] = s[i + 1]
  BY HeadTailProperties, EmptySeq

LEMMA StackCall ==
  ASSUME C8TypeOK, StackHolds, FlowExecute, ~Overflows, Op(insn) = CALL
  PROVE  StackHolds'
  <1>1. /\ returns' = <<(pc + 1) % 256>> \o returns /\ rst_n' = rst_n /\ rst_n
        /\ sp' = (sp - 1) % 256 /\ sp \in Byte /\ pc \in Byte
    BY DEF FlowExecute, Execute, Track, sp_next, C8TypeOK, CALL, RET
  <1>2. dmem' = [dmem EXCEPT ![sp] = (pc + 1) % 256] /\ dmem \in [Byte -> Byte]
    BY DEF FlowExecute, Execute, WriteBack, dm_wr_en, Running, dm_addr, dm_wr_data, C8TypeOK,
           CALL, ST, LD, RET
  <1>3. (pc + 1) % 256 \in Byte /\ Len(returns) <= 255 /\ Len(returns) \in Nat
        /\ returns \in Seq(Byte)
    <2>1. (pc + 1) % 256 \in Byte
      BY <1>1 DEF Byte
    <2> QED BY <2>1 DEF Overflows, StackHolds
  <1>4. /\ returns' \in Seq(Byte) /\ Len(returns') = Len(returns) + 1
        /\ returns'[1] = (pc + 1) % 256
        /\ \A i \in 1 .. Len(returns) : returns'[i + 1] = returns[i]
    BY <1>1, <1>3, Pushed
  <1>5. ASSUME NEW i \in 1 .. Len(returns') PROVE dmem'[StackCell(i)'] = returns'[i]
    <2>1. StackCell(i)' = CellAt(sp', i)
      BY DEF StackCell
    <2>2. CASE i = 1
      <3>1. StackCell(i)' = sp
        <4>1. CellAt(sp', 1) = sp
          BY <1>1, NewCell
        <4> QED BY <2>1, <2>2, <4>1
      <3> QED BY <1>1, <1>2, <1>4, <2>2, <3>1
    <2>3. CASE i # 1
      <3>1. PICK j \in 1 .. Len(returns) : i = j + 1
        <4>1. i \in 1 .. Len(returns) + 1 /\ Len(returns) \in Nat
          BY <1>3, <1>4
        <4>2. i - 1 \in 1 .. Len(returns) /\ i = (i - 1) + 1
          BY <2>3, <4>1
        <4> QED BY <4>2
      <3>2. j \in Nat /\ 1 <= j /\ j <= 255
        BY <1>3
      <3>3. StackCell(i)' = CellAt(sp, j)
        <4>1. CellAt(sp', j + 1) = CellAt(sp, j)
          BY <1>1, <3>2, AfterPush
        <4> QED BY <2>1, <3>1, <4>1
      <3>4. CellAt(sp, j) # sp /\ CellAt(sp, j) \in Byte
        BY <1>1, <3>2, Around
      <3>5. dmem[CellAt(sp, j)] = returns[j]
        BY <3>1 DEF StackHolds, StackCell
      <3>6. dmem'[CellAt(sp, j)] = dmem[CellAt(sp, j)]
        BY <1>2, <3>4
      <3>7. returns'[j + 1] = returns[j]
        BY <1>4, <3>1
      <3> QED BY <3>1, <3>3, <3>5, <3>6, <3>7
    <2> QED BY <2>2, <2>3
  <1> QED BY <1>1, <1>3, <1>4, <1>5 DEF StackHolds

LEMMA StackReturn ==
  ASSUME C8TypeOK, StackHolds, FlowExecute, Op(insn) = RET
  PROVE  StackHolds' /\ (returns # <<>> => pc' = Head(returns))
  <1>1. /\ returns' = IF returns # <<>> THEN Tail(returns) ELSE returns
        /\ rst_n' = rst_n /\ rst_n /\ sp' = (sp + 1) % 256 /\ sp \in Byte
        /\ pc' = dmem[(sp + 1) % 256]
    <2>1. Op(insn) # CALL /\ Op(insn) \notin {LD, ST, JMP, HLT} /\ Op(insn) # BR
      BY DEF CALL, RET, LD, ST, BR, JMP, HLT
    <2>2. pc' = pc_next /\ sp' = sp_next /\ rst_n' = rst_n /\ rst_n /\ Track
      BY DEF FlowExecute, Execute
    <2>3. returns' = IF returns # <<>> THEN Tail(returns) ELSE returns
      BY <2>1, <2>2 DEF Track
    <2>4. sp' = (sp + 1) % 256 /\ sp \in Byte
      BY <2>1, <2>2 DEF sp_next, C8TypeOK
    <2>5. dm_addr = (sp + 1) % 256
      BY <2>1 DEF dm_addr
    <2>6. pc' = dmem[(sp + 1) % 256]
      BY <2>1, <2>2, <2>5 DEF pc_next
    <2> QED BY <2>2, <2>3, <2>4, <2>6
  <1>2. dmem' = dmem
    BY DEF FlowExecute, Execute, WriteBack, dm_wr_en, RET, ST, CALL
  <1>3. CASE returns = <<>>
    BY <1>1, <1>3 DEF StackHolds
  <1>4. CASE returns # <<>>
    <2>1. /\ returns' \in Seq(Byte) /\ Len(returns') = Len(returns) - 1 /\ Len(returns) > 0
          /\ Len(returns) \in Nat /\ Len(returns) <= 256 /\ Head(returns) = returns[1]
          /\ \A i \in 1 .. Len(returns') : returns'[i] = returns[i + 1]
      BY <1>1, <1>4, Popped DEF StackHolds
    <2>2. pc' = Head(returns)
      BY <1>1, <2>1 DEF StackHolds, StackCell, CellAt
    <2>3. ASSUME NEW i \in 1 .. Len(returns') PROVE dmem'[StackCell(i)'] = returns'[i]
      <3>1. i \in Nat /\ i + 1 \in 1 .. Len(returns)
        <4>1. i \in 1 .. Len(returns) - 1 /\ Len(returns) \in Nat
          BY <2>1, Zenon
        <4> QED BY <4>1
      <3>2. StackCell(i)' = CellAt(sp, i + 1)
        <4>1. CellAt(sp', i) = CellAt(sp, i + 1)
          BY <1>1, <3>1, AfterPop
        <4> QED BY <4>1 DEF StackCell
      <3>3. dmem[CellAt(sp, i + 1)] = returns[i + 1]
        BY <3>1 DEF StackHolds, StackCell
      <3> QED BY <1>2, <2>1, <3>2, <3>3
    <2> QED BY <1>1, <2>1, <2>2, <2>3 DEF StackHolds
  <1> QED BY <1>3, <1>4

LEMMA StackOther ==
  ASSUME C8TypeOK, StackHolds, FlowExecute, ~StoresIntoStack, Op(insn) \notin {CALL, RET}
  PROVE  StackHolds'
  <1>1. returns' = returns /\ rst_n' = rst_n /\ sp' = sp /\ sp \in Byte
    BY DEF FlowExecute, Execute, Track, sp_next, C8TypeOK
  <1>2. \/ dmem' = dmem
        \/ Op(insn) = ST /\ dmem' = [dmem EXCEPT ![dm_addr] = dm_wr_data]
    BY DEF FlowExecute, Execute, WriteBack, dm_wr_en
  <1>3. ASSUME NEW i \in 1 .. Len(returns) PROVE dmem'[StackCell(i)] = returns[i]
    <2>1. dmem[StackCell(i)] = returns[i] /\ dmem \in [Byte -> Byte]
      BY DEF StackHolds, C8TypeOK
    <2>2. StackCell(i) \in Byte
      <3>1. i \in Nat
        OBVIOUS
      <3> QED BY <1>1, <3>1, Around DEF StackCell
    <2>3. Op(insn) = ST => dm_addr # StackCell(i)
      BY DEF StoresIntoStack
    <2> QED BY <1>2, <2>1, <2>2, <2>3
  <1> QED BY <1>1, <1>3 DEF StackHolds, StackCell

\* Every program that neither stores into a live cell of the stack nor nests its
\* calls deeper than the memory holds returns behind the call that is still open
\* (cpu.v, CALL and RET: one memory for data and return addresses).
THEOREM ReturnsHome ==
  FlowSpec /\ [][~StoresIntoStack /\ ~Overflows]_flowVars => CallsReturn
  <1>1. FlowInit => Init /\ StackHolds
    BY DEF FlowInit, StackHolds
  <1>2. [FlowNext]_flowVars => [Next]_cpuVars
    BY DEF FlowNext, FlowPowerOn, FlowExecute, Next, Edge, flowVars
  <1>3. C8TypeOK /\ StackHolds /\ [FlowNext]_flowVars
          /\ [~StoresIntoStack /\ ~Overflows]_flowVars => StackHolds'
    <2> SUFFICES ASSUME C8TypeOK, StackHolds, [FlowNext]_flowVars,
                        [~StoresIntoStack /\ ~Overflows]_flowVars
                 PROVE  StackHolds'
      OBVIOUS
    <2>1. CASE UNCHANGED flowVars
      BY <2>1 DEF flowVars, cpuVars, StackHolds, StackCell
    <2>2. CASE FlowPowerOn
      <3>1. returns' = <<>>
        BY <2>2 DEF FlowPowerOn, PowerOn, StackHolds
      <3> QED BY <3>1 DEF StackHolds
    <2>3. CASE FlowExecute /\ ~StoresIntoStack /\ ~Overflows
      BY <2>3, StackCall, StackReturn, StackOther
    <2> QED BY <2>1, <2>2, <2>3 DEF FlowNext
  <1>4. C8TypeOK /\ StackHolds /\ [FlowNext]_flowVars =>
          [(FlowExecute /\ Op(insn) = RET /\ returns # <<>>) => pc' = Head(returns)]_flowVars
    BY StackReturn
  <1> QED BY <1>1, <1>2, <1>3, <1>4, C8Types, PTL DEF FlowSpec, Spec, CallsReturn

-----------------------------------------------------------------------------
(* What the words of a line carry.                                         *)

\* A byte is the sum of its bits.
LEMMA SumOfBits ==
  ASSUME NEW a \in Byte
  PROVE  a = Bit(a, 1) + 2 * Bit(a, 2) + 4 * Bit(a, 4) + 8 * Bit(a, 8) + 16 * Bit(a, 16)
               + 32 * Bit(a, 32) + 64 * Bit(a, 64) + 128 * Bit(a, 128)
  <1>1. a \in Int /\ 0 <= a /\ a <= 255
    BY Ranges
  <1> QED BY <1>1, SMTT(30) DEF Bit

LEMMA TwoBits ==
  ASSUME NEW x \in 0 .. 1, NEW y \in 0 .. 1
  PROVE  (x + y) % 2 = x + y - 2 * (x * y) /\ x * y \in 0 .. 1
  <1>1. CASE x = 0
    BY <1>1
  <1>2. CASE x = 1
    BY <1>2
  <1> QED BY <1>1, <1>2

\* What or and exclusive or are in arithmetic.
LEMMA OrXor ==
  ASSUME NEW a \in Byte, NEW b \in Byte
  PROVE  BitOr(a, b) = (a + b) - BitAnd(a, b) /\ BitXor(a, b) = (a + b) - 2 * BitAnd(a, b)
  <1> DEFINE A(w) == Bit(a, w)
             B(w) == Bit(b, w)
             P(w) == Bit(a, w) * Bit(b, w)
             X(w) == (Bit(a, w) + Bit(b, w)) % 2
  <1>1. /\ A(1) \in 0 .. 1 /\ A(2) \in 0 .. 1 /\ A(4) \in 0 .. 1 /\ A(8) \in 0 .. 1
        /\ A(16) \in 0 .. 1 /\ A(32) \in 0 .. 1 /\ A(64) \in 0 .. 1 /\ A(128) \in 0 .. 1
    BY OneBit
  <1>2. /\ B(1) \in 0 .. 1 /\ B(2) \in 0 .. 1 /\ B(4) \in 0 .. 1 /\ B(8) \in 0 .. 1
        /\ B(16) \in 0 .. 1 /\ B(32) \in 0 .. 1 /\ B(64) \in 0 .. 1 /\ B(128) \in 0 .. 1
    BY OneBit
  <1>3. /\ P(1) \in 0 .. 1 /\ P(2) \in 0 .. 1 /\ P(4) \in 0 .. 1 /\ P(8) \in 0 .. 1
        /\ P(16) \in 0 .. 1 /\ P(32) \in 0 .. 1 /\ P(64) \in 0 .. 1 /\ P(128) \in 0 .. 1
    BY OneBit, TwoBits
  <1>4. /\ X(1) = A(1) + B(1) - 2 * P(1) /\ X(2) = A(2) + B(2) - 2 * P(2)
        /\ X(4) = A(4) + B(4) - 2 * P(4) /\ X(8) = A(8) + B(8) - 2 * P(8)
        /\ X(16) = A(16) + B(16) - 2 * P(16) /\ X(32) = A(32) + B(32) - 2 * P(32)
        /\ X(64) = A(64) + B(64) - 2 * P(64) /\ X(128) = A(128) + B(128) - 2 * P(128)
    BY OneBit, TwoBits
  <1>5. /\ a = A(1) + 2 * A(2) + 4 * A(4) + 8 * A(8) + 16 * A(16) + 32 * A(32) + 64 * A(64)
               + 128 * A(128)
        /\ b = B(1) + 2 * B(2) + 4 * B(4) + 8 * B(8) + 16 * B(16) + 32 * B(32) + 64 * B(64)
               + 128 * B(128)
    BY SumOfBits
  <1>6. BitAnd(a, b) = P(1) + 2 * P(2) + 4 * P(4) + 8 * P(8) + 16 * P(16) + 32 * P(32)
                         + 64 * P(64) + 128 * P(128)
    BY DEF BitAnd, FromBits
  <1>7. BitOr(a, b) = (A(1) + B(1) - P(1)) + 2 * (A(2) + B(2) - P(2)) + 4 * (A(4) + B(4) - P(4))
                        + 8 * (A(8) + B(8) - P(8)) + 16 * (A(16) + B(16) - P(16))
                        + 32 * (A(32) + B(32) - P(32)) + 64 * (A(64) + B(64) - P(64))
                        + 128 * (A(128) + B(128) - P(128))
    BY DEF BitOr, FromBits
  <1>8. BitXor(a, b) = X(1) + 2 * X(2) + 4 * X(4) + 8 * X(8) + 16 * X(16) + 32 * X(32)
                         + 64 * X(64) + 128 * X(128)
    BY DEF BitXor, FromBits
  <1> HIDE DEF A, B, P, X
  <1>9. /\ A(1) \in Int /\ A(2) \in Int /\ A(4) \in Int /\ A(8) \in Int
        /\ A(16) \in Int /\ A(32) \in Int /\ A(64) \in Int /\ A(128) \in Int
    BY <1>1
  <1>10. /\ B(1) \in Int /\ B(2) \in Int /\ B(4) \in Int /\ B(8) \in Int
         /\ B(16) \in Int /\ B(32) \in Int /\ B(64) \in Int /\ B(128) \in Int
    BY <1>2
  <1>11. /\ P(1) \in Int /\ P(2) \in Int /\ P(4) \in Int /\ P(8) \in Int
         /\ P(16) \in Int /\ P(32) \in Int /\ P(64) \in Int /\ P(128) \in Int
    BY <1>3
  <1>12. BitOr(a, b) = (a + b) - BitAnd(a, b)
    BY <1>5, <1>6, <1>7, <1>9, <1>10, <1>11
  <1>13. BitXor(a, b) = (a + b) - 2 * BitAnd(a, b)
    BY <1>4, <1>5, <1>6, <1>8, <1>9, <1>10, <1>11
  <1> QED BY <1>12, <1>13

Nibble == 0 .. 15

\* What each of the four formats carries comes back out of the word.
LEMMA RFields ==
  ASSUME NEW op \in Nibble, NEW rd \in Reg, NEW rs1 \in Reg, NEW rs2 \in Reg,
         NEW fn \in Reg, NEW w, w = encode_r(op, rd, rs1, rs2, fn)
  PROVE  Op(w) = op /\ Rd(w) = rd /\ Rs1(w) = rs1 /\ Rs2(w) = rs2 /\ Fn(w) = fn
  <1> DEFINE low == rs2 * 8 + fn
             mid == rs1 * 64 + low
  <1>1. op \in Int /\ rd \in Int /\ low \in Int /\ 0 <= low /\ low <= 63 /\ 0 <= rs1 /\ rs1 <= 7
        /\ rs1 \in Int /\ 0 <= rd /\ rd <= 7
    BY DEF Reg, Nibble
  <1>2. low % 8 = fn /\ (low \div 8) % 8 = rs2
    BY DEF Reg
  <1>3. w = op * 4096 + rd * 512 + mid
    BY DEF Reg, Nibble, encode_r
  <1> HIDE DEF low
  <1>4. mid \in Int /\ 0 <= mid /\ mid <= 511 /\ (mid \div 64) % 8 = rs1 /\ mid % 64 = low
    BY <1>1
  <1> HIDE DEF mid
  <1> DEFINE top == rd * 512 + mid
  <1>8. top \in Int /\ 0 <= top /\ top <= 4095 /\ top \div 512 = rd
    BY <1>1, <1>4
  <1>9. (w \div 512) % 8 = rd
    <2>1. w \div 512 = op * 8 + rd
      BY <1>1, <1>3, <1>4
    <2> QED BY <1>1, <2>1
  <1>5. w \div 4096 = op /\ (w \div 512) % 8 = rd /\ w % 512 = mid
    <2>1. w % 512 = mid
      BY <1>1, <1>3, <1>4
    <2>2. w = op * 4096 + top
      BY <1>1, <1>3, <1>4
    <2> HIDE DEF top
    <2>3. w \div 4096 = op
      BY <1>1, <1>8, <2>2
    <2> QED BY <1>9, <2>1, <2>3
  <1>6. op % 16 = op
    BY DEF Nibble
  <1>7. (w \div 64) % 8 = (mid \div 64) % 8 /\ (w \div 8) % 8 = (low \div 8) % 8 /\ w % 8 = low % 8
    BY <1>1, <1>3, <1>4
  <1> QED BY <1>2, <1>4, <1>5, <1>6, <1>7 DEF Op, Rd, Rs1, Rs2, Fn

LEMMA IFields ==
  ASSUME NEW op \in Nibble, NEW rd \in Reg, NEW imm \in Int,
         NEW w, w = encode_i(op, rd, imm)
  PROVE  Op(w) = op /\ Rd(w) = rd /\ Imm8(w) = imm % 256
  BY DEF Reg, Nibble, encode_i, Op, Rd, Imm8

LEMMA JFields ==
  ASSUME NEW op \in Nibble, NEW addr \in Int, NEW w, w = encode_j(op, addr)
  PROVE  Op(w) = op /\ Imm8(w) = addr % 256
  BY DEF Reg, Nibble, encode_j, Op, Imm8

LEMMA MFields ==
  ASSUME NEW op \in Nibble, NEW r \in Reg, NEW base \in Reg, NEW off \in Int,
         NEW w, w = encode_m(op, r, base, off)
  PROVE  Op(w) = op /\ Rd(w) = r /\ Rs1(w) = base /\ Imm6(w) = off % 64
  BY DEF Reg, Nibble, encode_m, Op, Rd, Rs1, Imm6

Binary == {"ADD", "SUB", "AND", "OR", "XOR"}

\* A line the second pass accepts, with what the labels stand for.
Accepted(ln, addr, labels) ==
  /\ \A k \in 1 .. Len(ln.args) : IsToken(ln.args[k])
  /\ HoldsWord(ln) /\ Acceptable(ln, addr, labels) /\ addr \in Int
  /\ \A tok : IsToken(tok) /\ Resolves(tok, labels) => Resolve(tok, labels) \in Int

LEMMA Opcodes ==
  /\ OPCODES["NOP"] = 0 /\ OPCODES["ADD"] = 1 /\ OPCODES["SUB"] = 2 /\ OPCODES["AND"] = 3
  /\ OPCODES["OR"] = 4 /\ OPCODES["XOR"] = 5 /\ OPCODES["JMP"] = 12 /\ OPCODES["CALL"] = 13
  /\ OPCODES["RET"] = 14 /\ OPCODES["HLT"] = 15
  BY DEF OPCODES, NOP, ADD, SUB, AND, OR, XOR, JMP, CALL, RET, HLT

LEMMA KindsOf ==
  ASSUME NEW ln, NEW k1, NEW k2, NEW k3
  PROVE  /\ Kinds(ln, <<k1, k2>>) =>
              Len(ln.args) = 2 /\ ln.args[1].kind \in k1 /\ ln.args[2].kind \in k2
         /\ Kinds(ln, <<k1, k2, k3>>) =>
              /\ Len(ln.args) = 3 /\ ln.args[1].kind \in k1 /\ ln.args[2].kind \in k2
              /\ ln.args[3].kind \in k3
  <1>1. Len(<<k1, k2>>) = 2 /\ DOMAIN <<k1, k2>> = 1 .. 2
    OBVIOUS
  <1>2. Len(<<k1, k2, k3>>) = 3 /\ DOMAIN <<k1, k2, k3>> = 1 .. 3
    OBVIOUS
  <1>3. ASSUME Kinds(ln, <<k1, k2>>)
        PROVE  Len(ln.args) = 2 /\ ln.args[1].kind \in k1 /\ ln.args[2].kind \in k2
    BY <1>1, <1>3 DEF Kinds
  <1>4. ASSUME Kinds(ln, <<k1, k2, k3>>)
        PROVE  /\ Len(ln.args) = 3 /\ ln.args[1].kind \in k1 /\ ln.args[2].kind \in k2
               /\ ln.args[3].kind \in k3
    BY <1>2, <1>4 DEF Kinds
  <1> QED BY <1>3, <1>4

\* The fields of the word of every accepted line.
LEMMA LineFields ==
  ASSUME NEW ln, NEW addr, NEW labels, Accepted(ln, addr, labels),
         NEW w, w = Word(ln, addr, labels)
  PROVE  LET a == ln.args
             m == ln.mnem
         IN /\ m \in Binary => /\ Op(w) = OPCODES[m] /\ Rd(w) = a[1].val
                               /\ Rs1(w) = a[2].val /\ Rs2(w) = a[3].val
            /\ m = "SHF" => /\ Op(w) = SHF /\ Rd(w) = a[1].val /\ Rs1(w) = a[2].val
                            /\ Fn(w) = a[3].val /\ a[3].val \in 0 .. 2
            /\ m = "CMP" => Op(w) = CMP
            /\ m = "LDI" => /\ Op(w) = LDI /\ Rd(w) = a[1].val /\ IsToken(a[2])
                            /\ Resolves(a[2], labels) /\ Imm8(w) = Resolve(a[2], labels)
            /\ m = "LD" => /\ Op(w) = LD /\ Rd(w) = a[1].val /\ Rs1(w) = a[2].val
                           /\ Imm6(w) = a[2].off % 64 /\ a[2].off \in Int
                           /\ InImm6(a[2].off)
            /\ m = "ST" => /\ Op(w) = ST /\ Rd(w) = a[2].val /\ Rs1(w) = a[1].val
                           /\ Imm6(w) = a[1].off % 64 /\ a[1].off \in Int
                           /\ InImm6(a[1].off)
            /\ m = "BR" => /\ Op(w) = BR /\ Rd(w) = a[1].val /\ IsToken(a[2]) /\ Len(a) = 2
                           /\ Resolves(a[2], labels)
                           /\ Imm8(w) = (Resolve(a[2], labels) - addr) % 256
            /\ m \in {"JMP", "CALL"} => /\ Op(w) = OPCODES[m] /\ IsToken(a[1]) /\ Len(a) = 1
                                        /\ Resolves(a[1], labels)
                                        /\ Imm8(w) = Resolve(a[1], labels)
            /\ m \in {"NOP", "HLT", "RET"} => Op(w) = OPCODES[m]
            /\ m \in Binary \cup {"NOP", "HLT", "RET", "CMP", "SHF", "LDI", "LD", "ST", "BR", "JMP",
                                 "CALL", ".WORD"}
  <1> DEFINE a == ln.args
             m == ln.mnem
  <1>1. \A k \in 1 .. Len(a) : IsToken(a[k])
    BY DEF Accepted
  <1>2. \A k \in 1 .. Len(a) : a[k].kind = "reg" => a[k].val \in Reg
    BY <1>1 DEF IsToken, Reg
  <1>3. CASE m \in Binary
    <2>1. Kinds(ln, <<R, R, R>>)
      BY <1>3 DEF Accepted, Acceptable, Binary
    <2>6. Len(a) = 3 /\ a[1].kind \in R /\ a[2].kind \in R /\ a[3].kind \in R
      BY <2>1, KindsOf
    <2>2. a[1].val \in Reg /\ a[2].val \in Reg /\ a[3].val \in Reg
      BY <1>2, <2>6 DEF R
    <2>3. w = encode_r(OPCODES[m], a[1].val, a[2].val, a[3].val, 0)
      BY <1>3 DEF Word, Binary
    <2>4. OPCODES[m] \in Nibble
      BY <1>3, Opcodes DEF Binary, Nibble
    <2>7. /\ Op(w) = OPCODES[m] /\ Rd(w) = a[1].val /\ Rs1(w) = a[2].val
          /\ Rs2(w) = a[3].val
      <3>1. 0 \in Reg
        BY DEF Reg
      <3> QED BY <2>2, <2>3, <2>4, <3>1, RFields
    <2> QED BY <1>3, <2>7 DEF Binary
  <1>4. CASE m = "SHF"
    <2>1. Kinds(ln, <<R, R, {"fn"}>>)
      BY <1>4 DEF Accepted, Acceptable
    <2>6. Len(a) = 3 /\ a[1].kind \in R /\ a[2].kind \in R /\ a[3].kind \in {"fn"}
      BY <2>1, KindsOf
    <2>2. a[1].val \in Reg /\ a[2].val \in Reg /\ a[3].kind = "fn" /\ Len(a) = 3
      BY <1>2, <2>6 DEF R
    <2>3. a[3].val \in 0 .. 2
      BY <1>1, <2>2 DEF IsToken
    <2>4. w = encode_r(SHF, a[1].val, a[2].val, 0, a[3].val)
      BY <1>4 DEF Word
    <2>5. SHF \in Nibble /\ a[3].val \in Reg
      BY <2>3 DEF SHF, Reg, Nibble
    <2>7. Op(w) = SHF /\ Rd(w) = a[1].val /\ Rs1(w) = a[2].val /\ Fn(w) = a[3].val
      <3>1. 0 \in Reg
        BY DEF Reg
      <3> QED BY <2>2, <2>4, <2>5, <3>1, RFields
    <2> QED BY <1>4, <2>3, <2>7 DEF Binary
  <1>5. CASE m = "CMP"
    <2>1. Kinds(ln, <<R, R>>)
      BY <1>5 DEF Accepted, Acceptable
    <2>5. Len(a) = 2 /\ a[1].kind \in R /\ a[2].kind \in R
      BY <2>1, KindsOf
    <2>2. a[1].val \in Reg /\ a[2].val \in Reg
      BY <1>2, <2>5 DEF R
    <2>3. w = encode_r(CMP, 0, a[1].val, a[2].val, 0)
      BY <1>5 DEF Word
    <2>4. CMP \in Nibble
      BY DEF CMP, Nibble
    <2>6. Op(w) = CMP
      <3>1. 0 \in Reg
        BY DEF Reg
      <3> QED BY <2>2, <2>3, <2>4, <3>1, RFields
    <2> QED BY <1>5, <2>6 DEF Binary
  <1>6. CASE m = "LDI"
    <2>1. /\ Len(a) = 2 /\ a[1].kind = "reg" /\ Resolves(a[2], labels)
          /\ InByte(Resolve(a[2], labels))
      BY <1>6 DEF Accepted, Acceptable
    <2>2. a[1].val \in Reg /\ IsToken(a[2])
      BY <1>1, <1>2, <2>1
    <2>3. Resolve(a[2], labels) \in Int
      BY <2>1, <2>2 DEF Accepted
    <2>4. w = encode_i(LDI, a[1].val, Resolve(a[2], labels))
      BY <1>6 DEF Word
    <2>5. LDI \in Nibble
      BY DEF LDI, Nibble
    <2>6. Resolve(a[2], labels) % 256 = Resolve(a[2], labels)
      BY <2>1, <2>3 DEF InByte
    <2> QED BY <1>6, <2>1, <2>2, <2>3, <2>4, <2>5, <2>6, IFields DEF Binary
  <1>7. CASE m = "LD"
    <2>1. Kinds(ln, <<R, {"mem"}>>) /\ InImm6(a[2].off)
      BY <1>7 DEF Accepted, Acceptable
    <2>6. Len(a) = 2 /\ a[1].kind \in R /\ a[2].kind \in {"mem"}
      BY <2>1, KindsOf
    <2>2. a[1].val \in Reg /\ a[2].kind = "mem" /\ IsToken(a[2])
      BY <1>1, <1>2, <2>6 DEF R
    <2>3. a[2].val \in Reg /\ a[2].off \in Int
      BY <2>2 DEF IsToken, Reg
    <2>4. w = encode_m(LD, a[1].val, a[2].val, a[2].off)
      BY <1>7 DEF Word
    <2>5. LD \in Nibble
      BY DEF LD, Nibble
    <2>7. /\ Op(w) = LD /\ Rd(w) = a[1].val /\ Rs1(w) = a[2].val
          /\ Imm6(w) = a[2].off % 64
      BY <2>2, <2>3, <2>4, <2>5, MFields
    <2> QED BY <1>7, <2>1, <2>3, <2>7 DEF Binary
  <1>8. CASE m = "ST"
    <2>1. Kinds(ln, <<{"mem"}, R>>) /\ InImm6(a[1].off)
      BY <1>8 DEF Accepted, Acceptable
    <2>6. Len(a) = 2 /\ a[1].kind \in {"mem"} /\ a[2].kind \in R
      BY <2>1, KindsOf
    <2>2. a[2].val \in Reg /\ a[1].kind = "mem" /\ IsToken(a[1])
      BY <1>1, <1>2, <2>6 DEF R
    <2>3. a[1].val \in Reg /\ a[1].off \in Int
      BY <2>2 DEF IsToken, Reg
    <2>4. w = encode_m(ST, a[2].val, a[1].val, a[1].off)
      BY <1>8 DEF Word
    <2>5. ST \in Nibble
      BY DEF ST, Nibble
    <2>7. /\ Op(w) = ST /\ Rd(w) = a[2].val /\ Rs1(w) = a[1].val
          /\ Imm6(w) = a[1].off % 64
      BY <2>2, <2>3, <2>4, <2>5, MFields
    <2> QED BY <1>8, <2>1, <2>3, <2>7 DEF Binary
  <1>9. CASE m = "BR"
    <2>1. Len(a) = 2 /\ a[1].kind = "cc" /\ Resolves(a[2], labels)
      BY <1>9 DEF Accepted, Acceptable
    <2>2. a[1].val \in Reg /\ IsToken(a[2])
      BY <1>1, <2>1 DEF IsToken, Reg
    <2>3. Resolve(a[2], labels) - addr \in Int
      BY <2>1, <2>2 DEF Accepted
    <2>4. w = encode_b(BR, a[1].val, Resolve(a[2], labels) - addr)
      BY <1>9 DEF Word
    <2>5. w = encode_i(BR, a[1].val, Resolve(a[2], labels) - addr)
      BY <2>4 DEF encode_b, encode_i
    <2>6. BR \in Nibble
      BY DEF BR, Nibble
    <2> QED BY <1>9, <2>1, <2>2, <2>3, <2>5, <2>6, IFields DEF Binary
  <1>10. CASE m \in {"JMP", "CALL"}
    <2>1. Len(a) = 1 /\ Resolves(a[1], labels) /\ InByte(Resolve(a[1], labels))
      BY <1>10 DEF Accepted, Acceptable
    <2>2. IsToken(a[1])
      BY <1>1, <2>1
    <2>3. Resolve(a[1], labels) \in Int
      BY <2>1, <2>2 DEF Accepted
    <2>4. w = encode_j(OPCODES[m], Resolve(a[1], labels))
      BY <1>10 DEF Word
    <2>5. OPCODES[m] \in Nibble
      BY <1>10, Opcodes DEF Nibble
    <2>6. Resolve(a[1], labels) % 256 = Resolve(a[1], labels)
      BY <2>1, <2>3 DEF InByte
    <2> QED BY <1>10, <2>1, <2>2, <2>3, <2>4, <2>5, <2>6, JFields DEF Binary
  <1>11. CASE m \in {"NOP", "HLT", "RET"}
    <2>1. w = OPCODES[m] * 4096
      BY <1>11 DEF Word
    <2>2. Op(w) = OPCODES[m]
      BY <1>11, <2>1, Opcodes DEF Op
    <2> QED BY <1>11, <2>2 DEF Binary
  <1>12. CASE m = ".WORD"
    BY <1>12 DEF Binary
  <1>13. m \in Binary \cup {"NOP", "HLT", "RET", "CMP", "SHF", "LDI", "LD", "ST", "BR", "JMP",
                          "CALL", ".WORD"}
    BY DEF Accepted, Acceptable, Binary
  <1> QED BY <1>3, <1>4, <1>5, <1>6, <1>7, <1>8, <1>9, <1>10, <1>11, <1>12, <1>13

-----------------------------------------------------------------------------
(* What the core does with the word of a line.                             *)

\* What the ALU returns, in the terms of the source.
LEMMA Computes ==
  ASSUME C8TypeOK
  PROVE  /\ Op(insn) = ADD => Alu.result = Results("ADD", rs1_val, rs2_val)
         /\ Op(insn) = SUB => Alu.result = Results("SUB", rs1_val, rs2_val)
         /\ Op(insn) = AND => Alu.result = Results("AND", rs1_val, rs2_val)
         /\ Op(insn) = OR  => Alu.result = Results("OR", rs1_val, rs2_val)
         /\ Op(insn) = XOR => Alu.result = Results("XOR", rs1_val, rs2_val)
         /\ Op(insn) = SHF =>
              /\ Fn(insn) = 0 => Alu.result = (2 * rs1_val) % 256
              /\ Fn(insn) = 1 => Alu.result = rs1_val \div 2
              /\ Fn(insn) = 2 => Alu.result = rs1_val \div 2 + 128 * (rs1_val % 2)
  <1>1. rs1_val \in Byte /\ rs2_val \in Byte /\ rs1_val \in Int /\ rs2_val \in Int
    BY Operands, Ranges
  <1>2. \A r, c, v : Out(r, c, v).result = r
    BY SameFlags
  <1>3. CASE Op(insn) = ADD
    <2>1. Alu = AluAdd
      BY <1>3 DEF Alu, ADD, SUB, AND, OR, XOR, CMP
    <2>2. AluAdd.result = (rs1_val + rs2_val) % 256
      BY <1>2 DEF AluAdd
    <2> QED BY <1>3, <2>1, <2>2 DEF Results, ADD, SUB, AND, OR, XOR, SHF
  <1>4. CASE Op(insn) = SUB
    <2>1. Alu = AluSub
      BY <1>4 DEF Alu, ADD, SUB, AND, OR, XOR, CMP
    <2>2. AluSub.result = ((rs1_val - rs2_val) % 512) % 256
      BY <1>2 DEF AluSub
    <2>3. ((rs1_val - rs2_val) % 512) % 256 = (rs1_val - rs2_val) % 256
      BY <1>1
    <2>4. Results("SUB", rs1_val, rs2_val) = (rs1_val - rs2_val) % 256
      BY DEF Results
    <2> QED BY <1>4, <2>1, <2>2, <2>3, <2>4 DEF ADD, SUB, AND, OR, XOR, SHF
  <1>5. CASE Op(insn) \in {AND, OR, XOR, SHF}
    <2>1. /\ Op(insn) = AND => Alu = Out(BitAnd(rs1_val, rs2_val), 0, 0)
          /\ Op(insn) = OR  => Alu = Out(BitOr(rs1_val, rs2_val), 0, 0)
          /\ Op(insn) = XOR => Alu = Out(BitXor(rs1_val, rs2_val), 0, 0)
          /\ Op(insn) = SHF => Alu = AluShift
      BY DEF Alu, ADD, SUB, CMP, AND, OR, XOR, SHF
    <2>2. /\ Results("AND", rs1_val, rs2_val) = BitAnd(rs1_val, rs2_val)
          /\ Results("OR", rs1_val, rs2_val) = BitOr(rs1_val, rs2_val)
          /\ Results("XOR", rs1_val, rs2_val) = BitXor(rs1_val, rs2_val)
      BY <1>1, OrXor DEF Results
    <2>3. /\ Op(insn) = AND => Alu.result = BitAnd(rs1_val, rs2_val)
          /\ Op(insn) = OR  => Alu.result = BitOr(rs1_val, rs2_val)
          /\ Op(insn) = XOR => Alu.result = BitXor(rs1_val, rs2_val)
      BY <1>2, <2>1
    <2>4. /\ Fn(insn) = 0 => AluShift.result = (2 * rs1_val) % 256
          /\ Fn(insn) = 1 => AluShift.result = rs1_val \div 2
          /\ Fn(insn) = 2 => AluShift.result = 128 * (rs1_val % 2) + rs1_val \div 2
      BY <1>2 DEF AluShift
    <2>5. 128 * (rs1_val % 2) + rs1_val \div 2 = rs1_val \div 2 + 128 * (rs1_val % 2)
      BY <1>1
    <2> QED BY <1>5, <2>1, <2>2, <2>3, <2>4, <2>5 DEF ADD, SUB, AND, OR, XOR, SHF
  <1> QED BY <1>3, <1>4, <1>5

\* What the instruction writes, by opcode.
LEMMA Writes ==
  ASSUME C8TypeOK, Execute
  PROVE  /\ Op(insn) \in {ADD, SUB, AND, OR, XOR, SHF} =>
              Put(Rd(insn), Alu.result) /\ UNCHANGED dmem
         /\ Op(insn) = LDI => Put(Rd(insn), Imm8(insn)) /\ UNCHANGED dmem
         /\ Op(insn) = LD => Put(Rd(insn), dmem[MemAddr]) /\ UNCHANGED dmem
         /\ Op(insn) = ST => dmem' = [dmem EXCEPT ![MemAddr] = rs2_val] /\ UNCHANGED regs
         /\ Op(insn) = CALL => UNCHANGED regs
         /\ Op(insn) \in {NOP, CMP, BR, JMP, RET, HLT} => UNCHANGED <<regs, dmem>>
  <1>1. CASE Op(insn) \in {ADD, SUB, AND, OR, XOR, SHF}
    <2>1. rf_wr_data = Alu.result
      BY <1>1 DEF rf_wr_data, ADD, SUB, AND, OR, XOR, SHF, LDI, LD
    <2> QED BY <1>1, <2>1, Executed
            DEF Put, NOP, ADD, SUB, AND, OR, XOR, SHF, CMP, LDI, LD, ST, BR, JMP, CALL, RET, HLT
  <1>2. CASE Op(insn) = LDI
    <2>1. rf_wr_data = Imm8(insn)
      BY <1>2 DEF rf_wr_data, LDI, LD
    <2> QED BY <1>2, <2>1, Executed
            DEF Put, NOP, ADD, SUB, AND, OR, XOR, SHF, CMP, LDI, LD, ST, BR, JMP, CALL, RET, HLT
  <1>3. CASE Op(insn) = LD
    <2>1. rf_wr_data = dmem[MemAddr]
      BY <1>3 DEF rf_wr_data, dm_addr, LDI, LD, ST, CALL, RET
    <2> QED BY <1>3, <2>1, Executed
            DEF Put, NOP, ADD, SUB, AND, OR, XOR, SHF, CMP, LDI, LD, ST, BR, JMP, CALL, RET, HLT
  <1>4. CASE Op(insn) = ST
    <2>1. dm_addr = MemAddr /\ dm_wr_data = rs2_val
      BY <1>4 DEF dm_addr, dm_wr_data, LD, ST, CALL, RET
    <2> QED BY <1>4, <2>1, Executed
            DEF Put, NOP, ADD, SUB, AND, OR, XOR, SHF, CMP, LDI, LD, ST, BR, JMP, CALL, RET, HLT
  <1>5. CASE Op(insn) \in {NOP, CMP, BR, JMP, CALL, RET, HLT}
    BY <1>5, Executed
    DEF Put, NOP, ADD, SUB, AND, OR, XOR, SHF, CMP, LDI, LD, ST, BR, JMP, CALL, RET, HLT
  <1>6. Op(insn) \in {ADD, SUB, AND, OR, XOR, SHF, LDI, LD, ST, NOP, CMP, BR, JMP, CALL, RET, HLT}
    BY Operands DEF NOP, ADD, SUB, AND, OR, XOR, SHF, CMP, LDI, LD, ST, BR, JMP, CALL, RET, HLT
  <1> QED BY <1>1, <1>2, <1>3, <1>4, <1>5, <1>6
          DEF NOP, ADD, SUB, AND, OR, XOR, SHF, CMP, LDI, LD, ST, BR, JMP, CALL, RET, HLT

LEMMA Offset ==
  ASSUME NEW v \in Int, NEW off \in Int, InImm6(off), NEW u, u = off % 64
  PROVE  /\ u < 32 => (v + u + 0) % 256 = (v + off) % 256
         /\ ~(u < 32) => (v + u + 192) % 256 = (v + off) % 256
  <1>1. -32 <= off /\ off <= 31
    BY DEF InImm6
  <1>2. CASE off >= 0
    <2>1. u = off /\ u < 32
      BY <1>1, <1>2
    <2> QED BY <2>1
  <1>3. CASE off < 0
    <2>1. u = off + 64 /\ ~(u < 32)
      BY <1>1, <1>3
    <2>2. v + u + 192 = (v + off) + 256
      BY <2>1
    <2> QED BY <2>1, <2>2
  <1> QED BY <1>2, <1>3

\* The core does to the registers and the memory what the line says.
LEMMA LineDoes ==
  ASSUME C8TypeOK, Execute, Alike(imem),
         NEW ln, NEW addr, NEW labels, Accepted(ln, addr, labels), ln.mnem # ".WORD",
         \A tok : Resolves(tok, labels) => Value(tok) = Resolve(tok, labels),
         insn = Word(ln, addr, labels)
  PROVE  Does(ln)
  <1> DEFINE a == ln.args
             m == ln.mnem
  <1>1. rs1_val = RdData(Rs1(insn)) /\ rs2_val = RdData(Rs2(insn)) /\ rs1_val \in Int
    BY Operands, Ranges DEF rs1_val, rs2_val
  <1>2. CASE m \in Binary
    <2>1. /\ Op(insn) = OPCODES[m] /\ Rd(insn) = a[1].val
          /\ Rs1(insn) = a[2].val /\ Rs2(insn) = a[3].val
      BY <1>2, LineFields
    <2>2. /\ m = "ADD" => Op(insn) = ADD
          /\ m = "SUB" => Op(insn) = SUB
          /\ m = "AND" => Op(insn) = AND
          /\ m = "OR"  => Op(insn) = OR
          /\ m = "XOR" => Op(insn) = XOR
      BY <2>1, Opcodes DEF ADD, SUB, AND, OR, XOR
    <2>3. Alu.result = Results(m, rs1_val, rs2_val)
      BY <1>2, <2>2, Computes DEF Binary
    <2>4. Put(Rd(insn), Alu.result) /\ UNCHANGED dmem
      BY <1>2, <2>2, Writes DEF Binary
    <2>5. Does(ln) <=> Put(a[1].val, Results(m, RdData(a[2].val), RdData(a[3].val)))
                         /\ UNCHANGED dmem
      BY <1>2 DEF Does, Binary
    <2> QED BY <1>1, <2>1, <2>3, <2>4, <2>5
  <1>3. CASE m = "SHF"
    <2>1. /\ Op(insn) = SHF /\ Rd(insn) = a[1].val /\ Rs1(insn) = a[2].val
          /\ Fn(insn) = a[3].val /\ a[3].val \in 0 .. 2
      BY <1>3, LineFields
    <2>2. Put(Rd(insn), Alu.result) /\ UNCHANGED dmem
      BY <2>1, Writes
    <2> DEFINE v == RdData(a[2].val)
               shifts == <<(2 * v) % 256, v \div 2, v \div 2 + 128 * (v % 2)>>
    <2>3. Does(ln) <=> Put(a[1].val, shifts[a[3].val + 1]) /\ UNCHANGED dmem
      BY <1>3 DEF Does
    <2>4. shifts[a[3].val + 1] = Alu.result
      <3>1. v = rs1_val
        BY <1>1, <2>1
      <3>4. /\ Fn(insn) = 0 => Alu.result = (2 * rs1_val) % 256
            /\ Fn(insn) = 1 => Alu.result = rs1_val \div 2
            /\ Fn(insn) = 2 => Alu.result = rs1_val \div 2 + 128 * (rs1_val % 2)
        BY <2>1, Computes
      <3>2. /\ a[3].val = 0 => Alu.result = (2 * v) % 256
            /\ a[3].val = 1 => Alu.result = v \div 2
            /\ a[3].val = 2 => Alu.result = v \div 2 + 128 * (v % 2)
        BY <2>1, <3>1, <3>4
      <3> HIDE DEF v
      <3>3. a[3].val = 0 \/ a[3].val = 1 \/ a[3].val = 2
        BY <2>1
      <3> QED BY <3>2, <3>3
    <2> QED BY <2>1, <2>2, <2>3, <2>4
  <1>4. CASE m = "LDI"
    <2>1. /\ Op(insn) = LDI /\ Rd(insn) = a[1].val /\ Resolves(a[2], labels)
          /\ Imm8(insn) = Resolve(a[2], labels)
      BY <1>4, LineFields
    <2>2. Does(ln) <=> Put(a[1].val, Value(a[2])) /\ UNCHANGED dmem
      BY <1>4 DEF Does
    <2> QED BY <2>1, <2>2, Writes
  <1>5. CASE m = "LD"
    <2>1. /\ Op(insn) = LD /\ Rd(insn) = a[1].val /\ Rs1(insn) = a[2].val
          /\ Imm6(insn) = a[2].off % 64 /\ a[2].off \in Int /\ InImm6(a[2].off)
      BY <1>5, LineFields
    <2>2. MemAddr = Cell(a[2])
      <3> DEFINE off == a[2].off
                 u == Imm6(insn)
      <3>1. off \in Int /\ InImm6(off) /\ u = off % 64
        BY <2>1
      <3>2. MemAddr = (rs1_val + u + (IF u < 32 THEN 0 ELSE 192)) % 256
        BY DEF MemAddr
      <3>3. Cell(a[2]) = (rs1_val + off) % 256
        BY <1>1, <2>1 DEF Cell
      <3> HIDE DEF off, u
      <3>4. /\ u < 32 => (rs1_val + u + 0) % 256 = (rs1_val + off) % 256
            /\ ~(u < 32) => (rs1_val + u + 192) % 256 = (rs1_val + off) % 256
        BY <1>1, <3>1, Offset
      <3> QED BY <3>2, <3>3, <3>4
    <2>3. Does(ln) <=> Put(a[1].val, dmem[Cell(a[2])]) /\ UNCHANGED dmem
      BY <1>5 DEF Does
    <2> QED BY <2>1, <2>2, <2>3, Writes
  <1>6. CASE m = "ST"
    <2>1. /\ Op(insn) = ST /\ Rd(insn) = a[2].val /\ Rs1(insn) = a[1].val
          /\ Imm6(insn) = a[1].off % 64 /\ a[1].off \in Int /\ InImm6(a[1].off)
      BY <1>6, LineFields
    <2>2. MemAddr = Cell(a[1])
      <3> DEFINE off == a[1].off
                 u == Imm6(insn)
      <3>1. off \in Int /\ InImm6(off) /\ u = off % 64
        BY <2>1
      <3>2. MemAddr = (rs1_val + u + (IF u < 32 THEN 0 ELSE 192)) % 256
        BY DEF MemAddr
      <3>3. Cell(a[1]) = (rs1_val + off) % 256
        BY <1>1, <2>1 DEF Cell
      <3> HIDE DEF off, u
      <3>4. /\ u < 32 => (rs1_val + u + 0) % 256 = (rs1_val + off) % 256
            /\ ~(u < 32) => (rs1_val + u + 192) % 256 = (rs1_val + off) % 256
        BY <1>1, <3>1, Offset
      <3> QED BY <3>2, <3>3, <3>4
    <2>3. Rs2(insn) = a[2].val
      BY <2>1 DEF Alike, C8TypeOK, insn
    <2>4. Does(ln) <=> dmem' = [dmem EXCEPT ![Cell(a[1])] = RdData(a[2].val)] /\ UNCHANGED regs
      BY <1>6 DEF Does
    <2> QED BY <1>1, <2>1, <2>2, <2>3, <2>4, Writes
  <1>7. CASE m = "CALL"
    <2>1. Op(insn) = CALL
      BY <1>7, LineFields, Opcodes DEF CALL
    <2> QED BY <1>7, <2>1, Writes DEF Does
  <1>8. CASE m \in {"NOP", "HLT", "RET", "CMP", "BR", "JMP"}
    <2>1. Op(insn) \in {NOP, CMP, BR, JMP, RET, HLT}
      <3>1. m \in {"NOP", "HLT", "RET", "JMP"} => Op(insn) = OPCODES[m]
        BY LineFields
      <3>2. m = "CMP" => Op(insn) = CMP
        BY LineFields
      <3>3. m = "BR" => Op(insn) = BR
        BY LineFields
      <3> QED BY <1>8, <3>1, <3>2, <3>3, Opcodes DEF NOP, JMP, RET, HLT
    <2>2. Does(ln) <=> UNCHANGED <<regs, dmem>>
      BY <1>8 DEF Does
    <2> QED BY <2>1, <2>2, Writes
  <1>9. m \in Binary \cup {"NOP", "HLT", "RET", "CMP", "SHF", "LDI", "LD", "ST", "BR", "JMP",
                         "CALL", ".WORD"}
    BY LineFields
  <1> QED BY <1>2, <1>3, <1>4, <1>5, <1>6, <1>7, <1>8, <1>9

-----------------------------------------------------------------------------
(* The first pass reaches the addresses the source says.                   *)

LEMMA Least ==
  ASSUME NEW T, T \subseteq Nat, T # {} PROVE \E n \in T : \A m \in T : n <= m
  <1> DEFINE Below == {ss \in Nat \X Nat : ss[1] < ss[2]}
  <1>1. IsWellFoundedOn(Below, Nat)
    BY NatLessThanWellFounded DEF OpToRel
  <1>2. PICK n \in T : \A m \in T : <<m, n>> \notin Below
    <2> HIDE DEF Below
    <2> QED BY <1>1, WFMin
  <1>3. ASSUME NEW m \in T, ~(n <= m) PROVE FALSE
    <2>1. m \in Nat /\ n \in Nat /\ m < n
      BY <1>3
    <2>2. <<m, n>> \in Below
      BY <2>1
    <2> HIDE DEF Below
    <2> QED BY <1>2, <2>2
  <1> QED BY <1>3

LEMMA Induct ==
  ASSUME NEW S, 0 \in S, \A n \in Nat : n \in S => n + 1 \in S
  PROVE  Nat \subseteq S
  <1>1. SUFFICES ASSUME Nat \ S # {} PROVE FALSE
    OBVIOUS
  <1>2. PICK n \in Nat \ S : \A m \in Nat \ S : n <= m
    BY <1>1, Least
  <1>3. n # 0 /\ n \in Nat
    OBVIOUS
  <1>4. n - 1 \in Nat /\ ~(n <= n - 1) /\ (n - 1) + 1 = n
    BY <1>3
  <1>5. n - 1 \in S
    BY <1>2, <1>4
  <1>6. n \in S
    BY <1>4, <1>5
  <1> QED BY <1>6

LEMMA Greatest ==
  ASSUME NEW n \in Nat, NEW S, S \subseteq 0 .. n, S # {}
  PROVE  \E m \in S : \A j \in S : j <= m
  <1> DEFINE B == {b \in Nat : \A j \in S : j <= b}
  <1>1. n \in B
    OBVIOUS
  <1>2. PICK b \in B : \A c \in B : b <= c
    <2>1. B \subseteq Nat /\ B # {}
      BY <1>1
    <2> HIDE DEF B
    <2> QED BY <2>1, Least
  <1>3. b \in Nat /\ \A j \in S : j <= b /\ j \in Nat
    OBVIOUS
  <1>4. b \in S
    <2>1. SUFFICES ASSUME b \notin S PROVE FALSE
      OBVIOUS
    <2>2. \A j \in S : j <= b - 1
      BY <1>3, <2>1
    <2>3. b # 0
      <3>1. PICK j : j \in S
        OBVIOUS
      <3>2. j <= b /\ j \in Nat /\ j # b
        BY <1>3, <2>1, <3>1
      <3> QED BY <1>3, <3>2
    <2>4. b - 1 \in B /\ ~(b <= b - 1)
      BY <1>3, <2>2, <2>3
    <2> QED BY <1>2, <2>4
  <1> QED BY <1>3, <1>4

\* The first pass is the recursion it is written as.
PassIs(lines, pass, k) ==
  pass = [i \in 0 .. k |-> IF i = 0 THEN Start ELSE FirstStep(pass[i - 1], lines[i])]

LEMMA PassExists == ASSUME NEW lines PROVE \A k \in Nat : \E pass : PassIs(lines, pass, k)
  <1> DEFINE S == {k \in Nat : \E pass : PassIs(lines, pass, k)}
  <1>1. 0 \in S
    <2> DEFINE p == [i \in 0 .. 0 |-> Start]
    <2>1. p = [i \in 0 .. 0 |-> IF i = 0 THEN Start ELSE FirstStep(p[i - 1], lines[i])]
      OBVIOUS
    <2>2. PassIs(lines, p, 0)
      BY <2>1 DEF PassIs
    <2> QED BY <2>2
  <1>2. ASSUME NEW k \in Nat, k \in S PROVE k + 1 \in S
    <2>1. PICK f : PassIs(lines, f, k)
      BY <1>2
    <2> DEFINE g == [i \in 0 .. (k + 1) |-> IF i = k + 1 THEN FirstStep(f[k], lines[k + 1]) ELSE f[i]]
    <2>2. \A i \in 0 .. k : f[i] = IF i = 0 THEN Start ELSE FirstStep(f[i - 1], lines[i])
      BY <2>1 DEF PassIs
    <2>3. \A i \in 0 .. k : g[i] = f[i]
      OBVIOUS
    <2>4. g[k + 1] = FirstStep(f[k], lines[k + 1])
      OBVIOUS
    <2> HIDE DEF g
    <2>5. ASSUME NEW i \in 0 .. (k + 1)
          PROVE  g[i] = IF i = 0 THEN Start ELSE FirstStep(g[i - 1], lines[i])
      <3>1. CASE i = 0
        <4>1. 0 \in 0 .. k
          OBVIOUS
        <4> QED BY <2>2, <2>3, <3>1, <4>1
      <3>2. CASE i = k + 1
        <4>1. i - 1 = k /\ k \in 0 .. k /\ i # 0
          BY <3>2
        <4>2. g[i - 1] = f[k]
          BY <2>3, <4>1
        <4> QED BY <2>4, <3>2, <4>1, <4>2
      <3>3. CASE i # 0 /\ i # k + 1
        <4>1. i \in 0 .. k /\ i - 1 \in 0 .. k
          BY <3>3
        <4>2. g[i] = f[i] /\ g[i - 1] = f[i - 1]
          BY <2>3, <4>1
        <4> QED BY <2>2, <3>3, <4>1, <4>2
      <3> QED BY <3>1, <3>2, <3>3
    <2>6. g = [i \in 0 .. (k + 1) |-> g[i]]
      BY DEF g
    <2>7. g = [i \in 0 .. (k + 1) |-> IF i = 0 THEN Start ELSE FirstStep(g[i - 1], lines[i])]
      BY <2>5, <2>6
    <2>8. PassIs(lines, g, k + 1)
      BY <2>7 DEF PassIs
    <2> QED BY <2>8
  <1> HIDE DEF S
  <1>3. Nat \subseteq S
    BY <1>1, <1>2, Induct
  <1> QED BY <1>3 DEF S

LEMMA PassUnfolds ==
  ASSUME NEW lines, Len(lines) \in Nat, NEW pass, pass = FirstPass(lines)
  PROVE  /\ pass[0] = Start
         /\ \A i \in 1 .. Len(lines) : pass[i] = FirstStep(pass[i - 1], lines[i])
  <1>1. pass = CHOOSE p : PassIs(lines, p, Len(lines))
    BY DEF FirstPass, PassIs
  <1>2. PassIs(lines, pass, Len(lines))
    BY <1>1, PassExists
  <1>3. 0 \in 0 .. Len(lines)
    OBVIOUS
  <1>4. pass[0] = Start
    BY <1>2, <1>3 DEF PassIs
  <1>5. ASSUME NEW i \in 1 .. Len(lines) PROVE pass[i] = FirstStep(pass[i - 1], lines[i])
    <2>1. i \in 0 .. Len(lines) /\ i # 0
      OBVIOUS
    <2> QED BY <1>2, <2>1 DEF PassIs
  <1> QED BY <1>4, <1>5

GreatestOf(S) == CHOOSE j \in S : \A k \in S : k <= j

LEMMA GreatestIs ==
  ASSUME NEW n \in Nat, NEW S, S \subseteq 0 .. n, S # {}
  PROVE  GreatestOf(S) \in S /\ \A k \in S : k <= GreatestOf(S)
  BY Greatest DEF GreatestOf

LEMMA OnlyGreatest ==
  ASSUME NEW n \in Nat, NEW S, S \subseteq 0 .. n, NEW m \in S, \A k \in S : k <= m
  PROVE  GreatestOf(S) = m
  <1>1. GreatestOf(S) \in S /\ m <= GreatestOf(S)
    BY GreatestIs
  <1>2. GreatestOf(S) <= m
    BY <1>1
  <1>3. \A k \in S : k \in Int
    OBVIOUS
  <1>4. GreatestOf(S) \in Int /\ m \in Int
    BY <1>1, <1>3
  <1> QED BY <1>1, <1>2, <1>4

IsOrg(j) == src[j].mnem = ".ORG"

LEMMA Origins ==
  /\ Origin(0) = 0
  /\ \A i \in Nat : Origin(i) \in 0 .. i /\ (Origin(i) # 0 => IsOrg(Origin(i)))
  /\ \A i \in Nat \ {0} :
       /\ IsOrg(i) => Origin(i) = i
       /\ ~IsOrg(i) => Origin(i) = Origin(i - 1)
  <1> DEFINE Orgs(i) == {j \in 1 .. i : src[j].mnem = ".ORG"}
  <1>1. \A i : Origin(i) = IF Orgs(i) = {} THEN 0 ELSE GreatestOf(Orgs(i))
    BY DEF Origin, GreatestOf
  <1>2. Orgs(0) = {}
    OBVIOUS
  <1>3. ASSUME NEW i \in Nat PROVE Origin(i) \in 0 .. i /\ (Origin(i) # 0 => IsOrg(Origin(i)))
    <2>1. CASE Orgs(i) = {}
      <3>1. Origin(i) = 0
        BY <1>1, <2>1
      <3> QED BY <3>1
    <2>2. CASE Orgs(i) # {}
      <3>1. Orgs(i) \subseteq 0 .. i
        OBVIOUS
      <3>2. GreatestOf(Orgs(i)) \in Orgs(i)
        <4> HIDE DEF Orgs
        <4> QED BY <2>2, <3>1, GreatestIs
      <3>3. Origin(i) \in Orgs(i)
        <4> HIDE DEF Orgs
        <4> QED BY <1>1, <2>2, <3>2
      <3> QED BY <3>3 DEF IsOrg
    <2> QED BY <2>1, <2>2
  <1>4. ASSUME NEW i \in Nat \ {0}, IsOrg(i) PROVE Origin(i) = i
    <2>1. i \in Orgs(i) /\ Orgs(i) \subseteq 0 .. i /\ \A k \in Orgs(i) : k <= i
      BY <1>4 DEF IsOrg
    <2> HIDE DEF Orgs
    <2>2. GreatestOf(Orgs(i)) = i
      BY <2>1, OnlyGreatest
    <2> QED BY <1>1, <2>1, <2>2
  <1>5. ASSUME NEW i \in Nat \ {0}, ~IsOrg(i) PROVE Origin(i) = Origin(i - 1)
    <2>1. Orgs(i) = Orgs(i - 1)
      BY <1>5 DEF IsOrg
    <2> HIDE DEF Orgs
    <2> QED BY <1>1, <2>1
  <1> HIDE DEF Orgs
  <1> QED BY <1>1, <1>2, <1>3, <1>4, <1>5

LEMMA NextReached ==
  ASSUME NEW n \in Nat, \A j \in 1 .. n : IsOrg(j) => src[j].args[1].val \in Int
  PROVE  /\ Reached(0) = 0
         /\ \A i \in 0 .. n : Reached(i) \in Int
         /\ \A i \in 1 .. n :
              /\ IsOrg(i) => Reached(i) = src[i].args[1].val
              /\ HoldsWord(src[i]) => Reached(i) = Reached(i - 1) + 1
              /\ src[i].mnem = "" => Reached(i) = Reached(i - 1)
  <1> DEFINE Base(o) == IF o = 0 THEN 0 ELSE src[o].args[1].val
             Words(o, i) == {j \in (o + 1) .. i : HoldsWord(src[j])}
  <1>1. \A i : Reached(i) = Base(Origin(i)) + Cardinality(Words(Origin(i), i))
    BY DEF Reached
  <1>2. ASSUME NEW i \in Nat, NEW o \in 0 .. i
        PROVE  IsFiniteSet(Words(o, i)) /\ Cardinality(Words(o, i)) \in Nat
    <2>1. IsFiniteSet((o + 1) .. i)
      <3>1. o + 1 \in Int /\ i \in Int
        OBVIOUS
      <3> QED BY <3>1, FS_Interval
    <2>2. Words(o, i) \subseteq (o + 1) .. i
      OBVIOUS
    <2> HIDE DEF Words
    <2> QED BY <2>1, <2>2, FS_Subset, FS_CardinalityType
  <1>3. \A i \in Nat : Words(i, i) = {}
    OBVIOUS
  <1>4. ASSUME NEW i \in 0 .. n PROVE Base(Origin(i)) \in Int
    <2>1. i \in Nat /\ i <= n
      OBVIOUS
    <2>2. Origin(i) \in 0 .. i /\ (Origin(i) # 0 => IsOrg(Origin(i)))
      BY <2>1, Origins
    <2>3. Origin(i) # 0 => Origin(i) \in 1 .. n
      BY <2>1, <2>2
    <2> QED BY <2>2, <2>3
  <1>5. ASSUME NEW i \in 0 .. n PROVE Reached(i) \in Int
    <2>1. Cardinality(Words(Origin(i), i)) \in Nat
      <3>1. i \in Nat
        OBVIOUS
      <3>2. Origin(i) \in 0 .. i
        BY <3>1, Origins
      <3> QED BY <1>2, <3>1, <3>2
    <2> HIDE DEF Base, Words
    <2> QED BY <1>1, <1>4, <2>1
  <1>6. Reached(0) = 0
    <2>1. Origin(0) = 0 /\ Base(0) = 0
      BY Origins
    <2>2. Words(0, 0) = {}
      BY <1>3
    <2>3. Cardinality({}) = 0
      BY FS_EmptySet
    <2> HIDE DEF Base, Words
    <2>4. Reached(0) = 0 + 0
      BY <1>1, <2>1, <2>2, <2>3
    <2> QED BY <2>4
  <1>7. ASSUME NEW i \in 1 .. n, IsOrg(i) PROVE Reached(i) = src[i].args[1].val
    <2>5. i \in Nat \ {0} /\ i # 0
      OBVIOUS
    <2>6. Origin(i) = i
      BY <1>7, <2>5, Origins
    <2>1. Origin(i) = i /\ Base(i) = src[i].args[1].val /\ src[i].args[1].val \in Int
      BY <1>7, <2>5, <2>6
    <2>2. Words(i, i) = {}
      BY <1>3
    <2>3. Cardinality({}) = 0
      BY FS_EmptySet
    <2> HIDE DEF Base, Words
    <2>4. Reached(i) = src[i].args[1].val + 0
      BY <1>1, <2>1, <2>2, <2>3
    <2> QED BY <2>1, <2>4
  <1>8. ASSUME NEW i \in 1 .. n, ~IsOrg(i)
        PROVE  /\ HoldsWord(src[i]) => Reached(i) = Reached(i - 1) + 1
               /\ ~HoldsWord(src[i]) => Reached(i) = Reached(i - 1)
    <2> DEFINE o == Origin(i - 1)
    <2>6. i - 1 \in Nat /\ i \in Nat \ {0} /\ i - 1 \in 0 .. n
      OBVIOUS
    <2>1. i - 1 \in Nat /\ o \in 0 .. (i - 1) /\ Origin(i) = o
      BY <1>8, <2>6, Origins
    <2>2. Base(o) \in Int /\ IsFiniteSet(Words(o, i - 1)) /\ Cardinality(Words(o, i - 1)) \in Nat
      BY <1>2, <1>4, <2>1, <2>6
    <2>3. /\ Reached(i) = Base(o) + Cardinality(Words(o, i))
          /\ Reached(i - 1) = Base(o) + Cardinality(Words(o, i - 1))
      <3> HIDE DEF Base, Words
      <3> QED BY <1>1, <2>1
    <2> HIDE DEF Base, o
    <2>4. CASE HoldsWord(src[i])
      <3>1. Words(o, i) = Words(o, i - 1) \cup {i} /\ i \notin Words(o, i - 1)
        BY <2>1, <2>4
      <3> HIDE DEF Words
      <3>2. Cardinality(Words(o, i)) = Cardinality(Words(o, i - 1)) + 1
        BY <2>2, <3>1, FS_AddElement
      <3> QED BY <2>2, <2>3, <2>4, <3>2
    <2>5. CASE ~HoldsWord(src[i])
      <3>1. Words(o, i) = Words(o, i - 1)
        BY <2>1, <2>5
      <3> HIDE DEF Words
      <3> QED BY <2>3, <2>5, <3>1
    <2> QED BY <2>4, <2>5
  <1>9. \A i :
          /\ HoldsWord(src[i]) => ~IsOrg(i)
          /\ src[i].mnem = "" => ~IsOrg(i) /\ ~HoldsWord(src[i])
    BY DEF HoldsWord, IsOrg
  <1> HIDE DEF Base, Words
  <1>10. ASSUME NEW i \in 1 .. n
         PROVE  /\ IsOrg(i) => Reached(i) = src[i].args[1].val
                /\ HoldsWord(src[i]) => Reached(i) = Reached(i - 1) + 1
                /\ src[i].mnem = "" => Reached(i) = Reached(i - 1)
    BY <1>7, <1>8, <1>9
  <1> QED BY <1>5, <1>6, <1>10

\* What a line that raises no AsmError does to the state of the pass.
LEMMA StepOK ==
  ASSUME NEW s, NEW ln, "ok" \in DOMAIN s, NEW t, t = FirstStep(s, ln)
  PROVE  /\ "ok" \in DOMAIN t
         /\ t.ok => /\ s.ok /\ ln.label \notin DOMAIN s.labels
                    /\ ln.mnem = ".ORG" => Len(ln.args) > 0 /\ ln.args[1].kind = "int"
                    /\ t.addr = IF ln.mnem = ".ORG" THEN ln.args[1].val ELSE s.pc
                    /\ t.pc = IF Emits(ln) THEN t.addr + 1 ELSE t.addr
                    /\ t.labels = WithLabel(s, ln.label)
  <1> DEFINE org  == ln.mnem = ".ORG"
             good == /\ ln.label \notin DOMAIN s.labels
                     /\ org => Len(ln.args) > 0 /\ ln.args[1].kind = "int"
             at   == IF org THEN ln.args[1].val ELSE s.pc
             next == [ok |-> TRUE, addr |-> at, labels |-> WithLabel(s, ln.label),
                      pc |-> IF Emits(ln) THEN at + 1 ELSE at]
  <1>1. t = IF ~s.ok \/ ~good THEN [s EXCEPT !.ok = FALSE] ELSE next
    BY DEF FirstStep
  <1>2. CASE ~s.ok \/ ~good
    <2>1. t = [s EXCEPT !.ok = FALSE]
      <3> HIDE DEF good, next
      <3> QED BY <1>1, <1>2, Zenon
    <2>2. "ok" \in DOMAIN t /\ t.ok = FALSE
      BY <2>1
    <2> QED BY <2>2, Zenon
  <1>3. CASE s.ok /\ good
    <2>1. t = next
      <3> HIDE DEF good, next
      <3> QED BY <1>1, <1>3, Zenon
    <2>2. /\ "ok" \in DOMAIN t /\ t.addr = at /\ t.labels = WithLabel(s, ln.label)
          /\ t.pc = IF Emits(ln) THEN at + 1 ELSE at
      <3> HIDE DEF at
      <3> QED BY <2>1
    <2> QED BY <1>3, <2>2, Zenon
  <1> QED BY <1>2, <1>3, Zenon

\* The pass behind line i knows the address and the labels up to there.
Stage(pass, i) ==
  /\ pass[i].pc = Reached(i)
  /\ DOMAIN pass[i].labels = {src[j].label : j \in 1 .. i} \ {None}
  /\ \A j \in 1 .. i : src[j].label # None => pass[i].labels[src[j].label] = AddressOf(j)

LEMMA NextStage ==
  ASSUME NEW pass, NEW i, i \in Nat \ {0}, Stage(pass, i - 1),
         src[i].label \notin DOMAIN pass[i - 1].labels,
         pass[i].pc = Reached(i), pass[i].labels = WithLabel(pass[i - 1], src[i].label)
  PROVE  Stage(pass, i)
  <1> DEFINE old == pass[i - 1].labels
             new == pass[i].labels
             x == src[i].label
  <1>1. new = [t \in DOMAIN old \cup ({x} \ {None}) |-> IF t = x THEN pass[i - 1].pc ELSE old[t]]
    BY DEF WithLabel
  <1>2. pass[i - 1].pc = AddressOf(i)
    BY DEF Stage, AddressOf
  <1>3. /\ DOMAIN old = {src[j].label : j \in 1 .. (i - 1)} \ {None}
        /\ \A j \in 1 .. (i - 1) : src[j].label # None => old[src[j].label] = AddressOf(j)
    BY DEF Stage
  <1>4. 1 .. i = (1 .. (i - 1)) \cup {i}
    OBVIOUS
  <1>5. x \notin DOMAIN old
    OBVIOUS
  <1> HIDE DEF old, new
  <1>6. DOMAIN new = {src[j].label : j \in 1 .. i} \ {None}
    <2>1. DOMAIN new = DOMAIN old \cup ({x} \ {None})
      BY <1>1
    <2>2. {src[j].label : j \in 1 .. i} = {src[j].label : j \in 1 .. (i - 1)} \cup {x}
      BY <1>4
    <2> QED BY <1>3, <2>1, <2>2
  <1>7. ASSUME NEW j \in 1 .. i, src[j].label # None PROVE new[src[j].label] = AddressOf(j)
    <2>1. CASE j = i
      BY <1>1, <1>2, <1>7, <2>1
    <2>2. CASE j # i
      <3>1. j \in 1 .. (i - 1)
        BY <2>2
      <3>2. src[j].label \in DOMAIN old /\ old[src[j].label] = AddressOf(j)
        BY <1>3, <1>7, <3>1
      <3>3. src[j].label # x
        BY <1>5, <3>2
      <3> QED BY <1>1, <3>2, <3>3
    <2> QED BY <2>1, <2>2
  <1> QED BY <1>6, <1>7 DEF Stage, new

\* A source both passes take: what the first leaves for the second.
LEMMA Stages ==
  ASSUME src \in Sources, NEW pass, pass = FirstPass(src), NEW n, n = Len(src), pass[n].ok
  PROVE  /\ n \in Nat /\ DOMAIN src = 1 .. n
         /\ \A i \in 0 .. n : Stage(pass, i) /\ Reached(i) \in Int
         /\ \A i \in 1 .. n : /\ HoldsWord(src[i]) => pass[i].addr = AddressOf(i)
                              /\ src[i].mnem = "" => Reached(i) = Reached(i - 1)
  <1>1. /\ n \in Nat /\ DOMAIN src = 1 .. n
        /\ \A i \in 1 .. n : \A k \in 1 .. Len(src[i].args) : IsToken(src[i].args[k])
    BY SourcesAssumption
  <1>2. pass[0] = Start /\ \A i \in 1 .. n : pass[i] = FirstStep(pass[i - 1], src[i])
    BY <1>1, PassUnfolds
  <1>3. \A i \in 0 .. n : "ok" \in DOMAIN pass[i]
    <2> DEFINE S == {i \in Nat : i <= n => "ok" \in DOMAIN pass[i]}
    <2>1. 0 \in S
      BY <1>2 DEF Start
    <2>2. ASSUME NEW i \in Nat, i \in S PROVE i + 1 \in S
      <3>1. CASE i + 1 <= n
        <4>1. i <= n /\ i + 1 \in 1 .. n /\ (i + 1) - 1 = i
          BY <1>1, <3>1
        <4>2. "ok" \in DOMAIN pass[i] /\ pass[i + 1] = FirstStep(pass[i], src[i + 1])
          BY <1>2, <2>2, <4>1
        <4>3. "ok" \in DOMAIN pass[i + 1]
          BY <4>2, StepOK
        <4> QED BY <4>3
      <3>2. CASE ~(i + 1 <= n)
        BY <3>2
      <3> QED BY <3>1, <3>2
    <2> HIDE DEF S
    <2>3. Nat \subseteq S
      BY <2>1, <2>2, Induct
    <2> QED BY <1>1, <2>3 DEF S
  <1>4. ASSUME NEW i \in 1 .. n
        PROVE  /\ i - 1 \in 0 .. n /\ "ok" \in DOMAIN pass[i - 1]
               /\ pass[i] = FirstStep(pass[i - 1], src[i])
    <2>1. i - 1 \in 0 .. n
      BY <1>1
    <2> QED BY <1>2, <1>3, <2>1
  <1>5. \A i \in 0 .. n : pass[i].ok
    <2> DEFINE S == {d \in Nat : d <= n => pass[n - d].ok}
    <2>1. 0 \in S
      <3>1. n - 0 = n
        BY <1>1
      <3> QED BY <3>1
    <2>2. ASSUME NEW d \in Nat, d \in S PROVE d + 1 \in S
      <3>1. CASE d + 1 <= n
        <4> DEFINE i == n - d
        <4>1. i \in 1 .. n /\ i - 1 = n - (d + 1)
          BY <1>1, <3>1
        <4>2. d <= n
          BY <1>1, <3>1
        <4>3. pass[i].ok
          BY <2>2, <4>2
        <4> HIDE DEF i
        <4>4. pass[i - 1].ok
          BY <1>4, <4>1, <4>3, StepOK, Zenon
        <4> QED BY <4>1, <4>4
      <3>2. CASE ~(d + 1 <= n)
        BY <3>2
      <3> QED BY <3>1, <3>2
    <2> HIDE DEF S
    <2>3. Nat \subseteq S
      BY <2>1, <2>2, Induct
    <2>4. ASSUME NEW i \in 0 .. n PROVE pass[i].ok
      <3>1. n - i \in Nat /\ n - i <= n /\ n - (n - i) = i
        BY <1>1
      <3>2. n - i \in S
        BY <2>3, <3>1
      <3> QED BY <3>1, <3>2 DEF S
    <2> QED BY <2>4
  <1>6. ASSUME NEW i \in 1 .. n
        PROVE  /\ src[i].label \notin DOMAIN pass[i - 1].labels
               /\ IsOrg(i) => Len(src[i].args) > 0 /\ src[i].args[1].kind = "int"
               /\ pass[i].addr = IF IsOrg(i) THEN src[i].args[1].val ELSE pass[i - 1].pc
               /\ pass[i].pc = IF Emits(src[i]) THEN pass[i].addr + 1 ELSE pass[i].addr
               /\ pass[i].labels = WithLabel(pass[i - 1], src[i].label)
    <2>1. pass[i].ok
      <3>1. i \in 0 .. n
        BY <1>1
      <3> QED BY <1>5, <3>1
    <2>2. pass[i].ok =>
            /\ src[i].label \notin DOMAIN pass[i - 1].labels
            /\ src[i].mnem = ".ORG" => Len(src[i].args) > 0 /\ src[i].args[1].kind = "int"
            /\ pass[i].addr = IF src[i].mnem = ".ORG" THEN src[i].args[1].val ELSE pass[i - 1].pc
            /\ pass[i].pc = IF Emits(src[i]) THEN pass[i].addr + 1 ELSE pass[i].addr
            /\ pass[i].labels = WithLabel(pass[i - 1], src[i].label)
      <3> DEFINE u == pass[i - 1]
                 v == pass[i]
                 ln == src[i]
      <3>1. "ok" \in DOMAIN u /\ v = FirstStep(u, ln)
        BY <1>4
      <3> HIDE DEF u, v, ln
      <3>2. v.ok => /\ ln.label \notin DOMAIN u.labels
                    /\ ln.mnem = ".ORG" => Len(ln.args) > 0 /\ ln.args[1].kind = "int"
                    /\ v.addr = IF ln.mnem = ".ORG" THEN ln.args[1].val ELSE u.pc
                    /\ v.pc = IF Emits(ln) THEN v.addr + 1 ELSE v.addr
                    /\ v.labels = WithLabel(u, ln.label)
        BY <3>1, StepOK
      <3> QED BY <3>2 DEF u, v, ln
    <2> QED BY <2>1, <2>2 DEF IsOrg
  <1>7. ASSUME NEW i \in 1 .. n, IsOrg(i) PROVE src[i].args[1].val \in Int
    <2>1. Len(src[i].args) > 0 /\ src[i].args[1].kind = "int"
      BY <1>6, <1>7
    <2>2. IsToken(src[i].args[1])
      BY <1>1, <2>1
    <2> QED BY <2>1, <2>2 DEF IsToken
  <1>8. /\ Reached(0) = 0
        /\ \A i \in 0 .. n : Reached(i) \in Int
        /\ \A i \in 1 .. n :
             /\ IsOrg(i) => Reached(i) = src[i].args[1].val
             /\ HoldsWord(src[i]) => Reached(i) = Reached(i - 1) + 1
             /\ src[i].mnem = "" => Reached(i) = Reached(i - 1)
    BY <1>1, <1>7, NextReached
  <1>9. ASSUME NEW i \in 1 .. n, Stage(pass, i - 1)
        PROVE  /\ pass[i].pc = Reached(i)
               /\ HoldsWord(src[i]) => pass[i].addr = AddressOf(i)
    <2>1. pass[i - 1].pc = Reached(i - 1)
      BY <1>9 DEF Stage
    <2>2. CASE IsOrg(i)
      <3>1. ~Emits(src[i]) /\ ~HoldsWord(src[i])
        BY <2>2 DEF IsOrg, Emits, HoldsWord
      <3>2. pass[i].addr = src[i].args[1].val /\ pass[i].pc = pass[i].addr
        BY <1>6, <2>2, <3>1
      <3> QED BY <1>8, <2>2, <3>1, <3>2
    <2>3. CASE HoldsWord(src[i])
      <3>1. ~IsOrg(i) /\ Emits(src[i])
        BY <2>3 DEF IsOrg, Emits, HoldsWord
      <3>2. pass[i].addr = pass[i - 1].pc /\ pass[i].pc = pass[i].addr + 1
        BY <1>6, <3>1
      <3> QED BY <1>8, <2>1, <2>3, <3>2 DEF AddressOf
    <2>4. CASE src[i].mnem = ""
      <3>1. ~IsOrg(i) /\ ~Emits(src[i]) /\ ~HoldsWord(src[i])
        BY <2>4 DEF IsOrg, Emits, HoldsWord
      <3>2. pass[i].addr = pass[i - 1].pc /\ pass[i].pc = pass[i].addr
        BY <1>6, <3>1
      <3> QED BY <1>8, <2>1, <2>4, <3>1, <3>2
    <2> QED BY <2>2, <2>3, <2>4 DEF IsOrg, HoldsWord
  <1>10. \A i \in 0 .. n : Stage(pass, i)
    <2> DEFINE S == {i \in Nat : i <= n => Stage(pass, i)}
    <2>1. 0 \in S
      <3>1. pass[0].pc = 0 /\ DOMAIN pass[0].labels = {} /\ 1 .. 0 = {}
        BY <1>2 DEF Start
      <3>2. Stage(pass, 0)
        BY <1>8, <3>1 DEF Stage
      <3> QED BY <3>2
    <2>2. ASSUME NEW k \in Nat, k \in S PROVE k + 1 \in S
      <3>1. CASE k + 1 <= n
        <4> DEFINE i == k + 1
        <4>1. i \in 1 .. n /\ i \in Nat \ {0} /\ i - 1 = k /\ k <= n
          BY <1>1, <3>1
        <4>2. Stage(pass, i - 1)
          BY <2>2, <4>1
        <4> HIDE DEF i
        <4>3. /\ pass[i].pc = Reached(i)
              /\ src[i].label \notin DOMAIN pass[i - 1].labels
              /\ pass[i].labels = WithLabel(pass[i - 1], src[i].label)
          BY <1>6, <1>9, <4>1, <4>2
        <4>4. Stage(pass, i)
          BY <4>1, <4>2, <4>3, NextStage
        <4> QED BY <4>4 DEF i
      <3>2. CASE ~(k + 1 <= n)
        BY <3>2
      <3> QED BY <3>1, <3>2
    <2> HIDE DEF S
    <2>3. Nat \subseteq S
      BY <2>1, <2>2, Induct
    <2> QED BY <1>1, <2>3 DEF S
  <1>11. ASSUME NEW i \in 1 .. n
         PROVE  /\ HoldsWord(src[i]) => pass[i].addr = AddressOf(i)
                /\ src[i].mnem = "" => Reached(i) = Reached(i - 1)
    BY <1>4, <1>8, <1>9, <1>10
  <1> QED BY <1>1, <1>8, <1>10, <1>11

-----------------------------------------------------------------------------
(* From the source to the core.                                            *)

\* The ROM holds the image of a source both passes take.
Burnt == src \in Sources /\ Assemble(src).ok /\ imem = ToHex(Assemble(src).words)

Passes == FirstPass(src)
Labels == Passes[Len(src)].labels

LEMMA Taken ==
  ASSUME Burnt
  PROVE  /\ Passes[Len(src)].ok
         /\ \A i \in Emitting(src) :
              Acceptable(src[i], Passes[i].addr, Labels) /\ Passes[i].addr <= 255
         /\ Assemble(src).words =
              [a \in {Passes[i].addr : i \in Emitting(src)} |->
                 Word(src[Winner(src, Passes, a)], Passes[Winner(src, Passes, a)].addr, Labels)]
  <1> DEFINE image == [a \in {Passes[i].addr : i \in Emitting(src)} |->
                         Word(src[Winner(src, Passes, a)], Passes[Winner(src, Passes, a)].addr,
                              Labels)]
  <1>1. Assemble(src) = IF ~Assembles(src, Passes) THEN [ok |-> FALSE]
                                                   ELSE [ok |-> TRUE, words |-> image]
    BY DEF Assemble, Passes, Labels
  <1>2. Assemble(src).ok
    BY DEF Burnt
  <1>3. Assembles(src, Passes)
    <2>1. SUFFICES ASSUME ~Assembles(src, Passes) PROVE FALSE
      OBVIOUS
    <2>2. Assemble(src) = [ok |-> FALSE]
      <3> HIDE DEF image
      <3> QED BY <1>1, <2>1, Zenon
    <2>3. Assemble(src).ok = FALSE
      BY <2>2
    <2> QED BY <1>2, <2>3, Zenon
  <1>4. Assemble(src) = [ok |-> TRUE, words |-> image]
    <2> HIDE DEF image
    <2> QED BY <1>1, <1>3, Zenon
  <1>5. Assemble(src).words = image
    <2> HIDE DEF image
    <2> QED BY <1>4
  <1>6. /\ Passes[Len(src)].ok
        /\ \A i \in Emitting(src) :
             Acceptable(src[i], Passes[i].addr, Labels) /\ Passes[i].addr <= 255
    BY <1>3, Zenon DEF Assembles, Labels
  <1> QED BY <1>5, <1>6

\* A token means in the source what it means to the assembler.
LEMMA Means ==
  ASSUME Burnt
  PROVE  /\ \A tok : IsLabel(tok) <=> tok \in DOMAIN Labels
         /\ \A tok : Resolves(tok, Labels) => Value(tok) = Resolve(tok, Labels)
         /\ \A tok : IsToken(tok) /\ Resolves(tok, Labels) => Resolve(tok, Labels) \in Int
  <1> DEFINE n == Len(src)
  <1>1. /\ n \in Nat /\ DOMAIN src = 1 .. n
        /\ \A i \in 0 .. n : Stage(Passes, i) /\ Reached(i) \in Int
    BY Taken, Stages DEF Burnt, Passes
  <1>2. /\ DOMAIN Labels = {src[j].label : j \in 1 .. n} \ {None}
        /\ \A j \in 1 .. n : src[j].label # None => Labels[src[j].label] = AddressOf(j)
    <2>1. n \in 0 .. n
      BY <1>1
    <2> QED BY <1>1, <2>1 DEF Stage, Labels
  <1>3. ASSUME NEW tok PROVE IsLabel(tok) <=> tok \in DOMAIN Labels
    BY <1>1, <1>2 DEF IsLabel
  <1>4. ASSUME NEW tok, IsLabel(tok)
        PROVE  /\ LineOf(tok) \in 1 .. n /\ Labels[tok] = AddressOf(LineOf(tok))
               /\ Labels[tok] \in Int
    <2>1. tok # None /\ LineOf(tok) \in 1 .. n /\ src[LineOf(tok)].label = tok
      BY <1>1, <1>4 DEF IsLabel, LineOf
    <2>2. Labels[tok] = AddressOf(LineOf(tok))
      BY <1>2, <2>1
    <2>3. LineOf(tok) - 1 \in 0 .. n
      BY <1>1, <2>1
    <2>4. AddressOf(LineOf(tok)) \in Int
      BY <1>1, <2>3 DEF AddressOf
    <2> QED BY <2>1, <2>2, <2>4
  <1>5. ASSUME NEW tok, Resolves(tok, Labels) PROVE Value(tok) = Resolve(tok, Labels)
    BY <1>3, <1>4 DEF Value, Resolve
  <1>6. ASSUME NEW tok, IsToken(tok), Resolves(tok, Labels) PROVE Resolve(tok, Labels) \in Int
    BY <1>3, <1>4, <1>6 DEF Resolve, Resolves, IsToken
  <1> QED BY <1>3, <1>5, <1>6

\* The word the core fetches is the word of the line that claims its address.
LEMMA Fetched ==
  ASSUME Burnt, pc \in Byte, Here # 0
  PROVE  /\ Here \in DOMAIN src /\ AddressOf(Here) = pc
         /\ Accepted(src[Here], pc, Labels)
         /\ insn = Word(src[Here], pc, Labels)
  <1> DEFINE n == Len(src)
             claims == {i \in DOMAIN src : HoldsWord(src[i]) /\ AddressOf(i) = pc}
  <1>1. /\ n \in Nat /\ DOMAIN src = 1 .. n
        /\ \A i \in 1 .. n : HoldsWord(src[i]) => Passes[i].addr = AddressOf(i)
    BY Taken, Stages DEF Burnt, Passes
  <1>2. claims # {} /\ Here = GreatestOf(claims)
    BY DEF Here, GreatestOf
  <1>3. claims \subseteq 0 .. n
    BY <1>1
  <1>4. Here \in claims
    <2> HIDE DEF claims, n
    <2> QED BY <1>1, <1>2, <1>3, GreatestIs
  <1>5. Here \in 1 .. n /\ HoldsWord(src[Here]) /\ AddressOf(Here) = pc /\ Passes[Here].addr = pc
    BY <1>1, <1>4
  <1>6. Emitting(src) = {i \in 1 .. n : HoldsWord(src[i])}
    BY <1>1 DEF Emitting, Emits, HoldsWord
  <1>7. Here \in Emitting(src)
    BY <1>5, <1>6
  <1>8. Claims(src, Passes, pc) = claims
    BY <1>1, <1>6 DEF Claims
  <1>9. Winner(src, Passes, pc) = Here
    <2>1. Winner(src, Passes, pc) = GreatestOf(Claims(src, Passes, pc))
      BY DEF Winner, GreatestOf
    <2> HIDE DEF claims
    <2> QED BY <1>2, <1>8, <2>1
  <1>10. insn = Word(src[Here], pc, Labels)
    <2>1. pc \in {Passes[i].addr : i \in Emitting(src)}
      BY <1>5, <1>7
    <2>2. Assemble(src).words[pc] = Word(src[Here], pc, Labels)
                /\ pc \in DOMAIN Assemble(src).words
      BY <1>5, <1>9, <2>1, Taken
    <2>3. insn = Assemble(src).words[pc]
      BY <2>2 DEF Burnt, ToHex, insn
    <2> QED BY <2>2, <2>3
  <1>11. \A k \in 1 .. Len(src[Here].args) : IsToken(src[Here].args[k])
    BY <1>1, <1>5, SourcesAssumption DEF Burnt
  <1>12. Acceptable(src[Here], pc, Labels)
    BY <1>5, <1>7, Taken
  <1>13. pc \in Int
    BY Ranges
  <1>14. Accepted(src[Here], pc, Labels)
    BY <1>5, <1>11, <1>12, <1>13, Means DEF Accepted
  <1> QED BY <1>1, <1>5, <1>10, <1>14

\* The first word behind a label stands at the label's address.
LEMMA FirstBehind ==
  ASSUME Burnt, NEW tok, IsLabel(tok), NEW i, IsFirstBehind(i, tok)
  PROVE  AddressOf(i) = AddressOf(LineOf(tok))
  <1> DEFINE n == Len(src)
             at == LineOf(tok)
  <1>1. /\ n \in Nat /\ DOMAIN src = 1 .. n
        /\ \A j \in 1 .. n : src[j].mnem = "" => Reached(j) = Reached(j - 1)
    BY Taken, Stages DEF Burnt, Passes
  <1>2. at \in 1 .. n
    BY <1>1 DEF IsLabel, LineOf
  <1>3. i \in 1 .. n /\ at <= i /\ \A j \in at .. (i - 1) : src[j].mnem = ""
    BY <1>1, <1>2 DEF IsFirstBehind
  <1> HIDE DEF at, n
  <1>9. at \in Nat /\ 1 <= at /\ i \in Nat /\ i <= n /\ at <= i /\ n \in Nat
    <2>1. n \in Nat /\ at \in 1 .. n /\ i \in 1 .. n /\ at <= i
      BY <1>1, <1>2, <1>3
    <2> QED BY <2>1
  <1> DEFINE S == {d \in Nat : at + d <= i => Reached((at + d) - 1) = Reached(at - 1)}
  <1>4. 0 \in S
    BY <1>9
  <1>5. ASSUME NEW d \in Nat, d \in S PROVE d + 1 \in S
    <2>1. CASE at + (d + 1) <= i
      <3>1. at + d \in at .. (i - 1) /\ at + d \in 1 .. n /\ at + d <= i
            /\ (at + (d + 1)) - 1 = at + d
        BY <1>9, <2>1
      <3>2. Reached(at + d) = Reached((at + d) - 1)
        BY <1>1, <1>3, <3>1
      <3> QED BY <1>5, <3>1, <3>2
    <2>2. CASE ~(at + (d + 1) <= i)
      BY <2>2
    <2> QED BY <2>1, <2>2
  <1> HIDE DEF S
  <1>6. Nat \subseteq S
    BY <1>4, <1>5, Induct
  <1>7. i - at \in S /\ at + (i - at) = i
    BY <1>6, <1>9
  <1>8. Reached(i - 1) = Reached(at - 1)
    BY <1>7, <1>9 DEF S
  <1> QED BY <1>8 DEF AddressOf, at

LEMMA BurntStays ==
  /\ FlowInit => Burnt
  /\ Burnt /\ [FlowNext]_flowVars => Burnt'
  <1>1. FlowInit => Burnt
    BY DEF FlowInit, Burnt
  <1>2. [FlowNext]_flowVars => src' = src /\ imem' = imem
    BY DEF FlowNext, FlowPowerOn, FlowExecute, PowerOn, Execute, Track, flowVars, cpuVars
  <1> QED BY <1>1, <1>2 DEF Burnt

LEMMA FlowIsSpec == FlowSpec => Spec
  <1>1. FlowInit => Init
    BY DEF FlowInit
  <1>2. [FlowNext]_flowVars => [Next]_cpuVars
    BY DEF FlowNext, FlowPowerOn, FlowExecute, Next, Edge, flowVars
  <1> QED BY <1>1, <1>2, PTL DEF FlowSpec, Spec

LEMMA BurntHolds == FlowSpec => [](Burnt /\ C8TypeOK)
  <1> QED BY BurntStays, FlowIsSpec, C8Types, PTL DEF FlowSpec

\* Of every source, each word the core executes does to the registers and the
\* memory what its line says (c8asm.py, cpu.v); the hypothesis leaves out the
\* stores whose register the core reads from other bits than the assembler fills.
THEOREM LinesExecute == FlowSpec /\ Alike(imem) => ExecutesItsLine
  <1>1. Alike(imem) /\ [FlowNext]_flowVars => Alike(imem)'
    <2> SUFFICES ASSUME Alike(imem), [FlowNext]_flowVars PROVE Alike(imem)'
      OBVIOUS
    <2>1. imem' = imem
      BY DEF FlowNext, FlowPowerOn, FlowExecute, PowerOn, Execute, Track, flowVars, cpuVars
    <2> QED BY <2>1 DEF Alike
  <1>2. Burnt /\ C8TypeOK /\ Alike(imem) =>
          [(FlowExecute /\ Here # 0 /\ src[Here].mnem # ".WORD") => Does(src[Here])]_flowVars
    <2> SUFFICES ASSUME Burnt, C8TypeOK, Alike(imem), FlowExecute, Here # 0,
                        src[Here].mnem # ".WORD"
                 PROVE  Does(src[Here])
      OBVIOUS
    <2>1. Execute /\ pc \in Byte
      BY DEF FlowExecute, C8TypeOK
    <2>2. Accepted(src[Here], pc, Labels) /\ insn = Word(src[Here], pc, Labels)
      BY <2>1, Fetched
    <2> QED BY <2>1, <2>2, Means, LineDoes
  <1> QED BY <1>1, <1>2, BurntHolds, PTL DEF FlowSpec, ExecutesItsLine

LEMMA JumpsTo ==
  ASSUME Burnt, C8TypeOK, FlowExecute, Here # 0, src[Here].mnem \in {"JMP", "CALL", "BR"},
         src[Here].mnem = "BR" => branch_taken,
         NEW tok, tok = src[Here].args[Len(src[Here].args)], IsLabel(tok),
         NEW i, IsFirstBehind(i, tok), AddressOf(i) \in Byte
  PROVE  pc' = AddressOf(i)
  <1> DEFINE ln == src[Here]
             goal == Resolve(tok, Labels)
  <1>1. pc \in Byte /\ pc' = pc_next
    BY DEF FlowExecute, Execute, C8TypeOK
  <1>2. Accepted(ln, pc, Labels) /\ insn = Word(ln, pc, Labels)
    BY <1>1, Fetched
  <1>3. goal = AddressOf(i)
    <2>1. Resolves(tok, Labels)
      BY Means DEF Resolves
    <2>2. Value(tok) = AddressOf(LineOf(tok))
      BY DEF Value
    <2> QED BY <2>1, <2>2, Means, FirstBehind
  <1>4. goal \in Byte /\ goal \in Int /\ 0 <= goal /\ goal <= 255 /\ pc \in Int
    BY <1>1, <1>3, Ranges
  <1>5. CASE ln.mnem \in {"JMP", "CALL"}
    <2>1. Op(insn) = OPCODES[ln.mnem] /\ Len(ln.args) = 1
          /\ Imm8(insn) = Resolve(ln.args[1], Labels)
      BY <1>2, <1>5, LineFields
    <2>2. Op(insn) \in {JMP, CALL}
      BY <1>5, <2>1, Opcodes DEF JMP, CALL
    <2>3. Imm8(insn) = goal
      BY <2>1
    <2>4. pc_next = Imm8(insn)
      BY <2>2 DEF pc_next, JMP, CALL, BR, RET, HLT
    <2> QED BY <1>1, <1>3, <2>3, <2>4
  <1>6. CASE ln.mnem = "BR"
    <2>1. Op(insn) = BR /\ Len(ln.args) = 2 /\ Imm8(insn) = (Resolve(ln.args[2], Labels) - pc) % 256
      BY <1>2, <1>6, LineFields
    <2>2. Imm8(insn) = (goal - pc) % 256
      BY <2>1
    <2>3. pc_next = (pc + Imm8(insn)) % 256
      <3>1. branch_taken
        BY <1>6
      <3> QED BY <2>1, <3>1 DEF pc_next, BR, JMP, CALL, RET, HLT
    <2> HIDE DEF goal
    <2>4. (pc + ((goal - pc) % 256)) % 256 = goal
      BY <1>4
    <2> QED BY <1>1, <1>3, <2>2, <2>3, <2>4
  <1> QED BY <1>5, <1>6

\* Of every source, whatever its gaps and its size, a jump, a call and a taken
\* branch to a label arrive at the first word behind it (c8asm.py _first_pass and
\* _second_pass, cpu.v pc_next).
THEOREM LabelsReached == FlowSpec => ReachesLabels
  <1> DEFINE ln  == src[Here]
             tok == ln.args[Len(ln.args)]
             Arrives == FlowExecute /\ Here # 0 /\ ln.mnem \in {"JMP", "CALL", "BR"}
                          /\ (ln.mnem = "BR" => branch_taken) /\ IsLabel(tok)
                        => \A i \in DOMAIN src :
                             IsFirstBehind(i, tok) /\ AddressOf(i) \in Byte => pc' = AddressOf(i)
  <1>1. Burnt /\ C8TypeOK => [Arrives]_flowVars
    BY JumpsTo
  <1>2. ReachesLabels <=> [][Arrives]_flowVars
    BY PTL DEF ReachesLabels
  <1> HIDE DEF Arrives
  <1> QED BY <1>1, <1>2, BurntHolds, PTL
=============================================================================
