-------------------------------- MODULE RvAsm -------------------------------
(***************************************************************************)
(* socgen/asm.py: the RV32I assembler the firmware is written with.  A     *)
(* program is the sequence of the calls its builder makes on an Assembler; *)
(* a 32-bit number is its upper twenty and lower twelve bits, an encoded   *)
(* instruction its six fields.  An exception is an entry "error".          *)
(***************************************************************************)
EXTENDS Integers, Sequences, SequencesExt

Hi20 == 1048576
Lo12 == 4096

\* A 32-bit number, and the one a small Python integer masks to.
W(hi, lo) == [hi |-> hi, lo |-> lo]
Num(n)    == W((n \div Lo12) % Hi20, n % Lo12)

Bits(width) == 0 .. 2 ^ width - 1

\* _check_imm and _reg
Fits(n, bits) == n >= -(2 ^ (bits - 1)) /\ n <= 2 ^ (bits - 1) - 1
AreRegs(rs)   == rs \subseteq Bits(5)

AsmError == [kind |-> "error"]
Fields(op, rd, f3, rs1, rs2, f7) ==
  [kind |-> "word", op |-> op, rd |-> rd, f3 |-> f3, rs1 |-> rs1, rs2 |-> rs2, f7 |-> f7]

\* What a register and a word of the ROM can be.
Word == [hi : Bits(20), lo : Bits(12)]
Instruction == [kind : {"word"}, op : Bits(7), rd : Bits(5), f3 : Bits(3),
                rs1 : Bits(5), rs2 : Bits(5), f7 : Bits(7)]

\* What one call leaves.
Entry == Instruction \cup {AsmError}
           \cup [kind : {"beq", "bne"}, rs1 : Int, rs2 : Int, target : STRING]
           \cup [kind : {"label"}, name : STRING]

-----------------------------------------------------------------------------
(* The formats.                                                            *)

RType(f7, rs2, rs1, f3, rd, op) ==
  IF AreRegs({rs1, rs2, rd}) THEN Fields(op, rd, f3, rs1, rs2, f7) ELSE AsmError

IType(imm, rs1, f3, rd, op) ==
  LET v == imm % 4096
  IN IF Fits(imm, 12) /\ AreRegs({rs1, rd})
       THEN Fields(op, rd, f3, rs1, v % 32, v \div 32) ELSE AsmError

SType(imm, rs2, rs1, f3, op) ==
  LET v == imm % 4096
  IN IF Fits(imm, 12) /\ AreRegs({rs1, rs2})
       THEN Fields(op, v % 32, f3, rs1, rs2, v \div 32) ELSE AsmError

\* Bug variant: bit 11 of the offset is not moved to bit 7 of the word.
BTypeUnswapped(offset, rs2, rs1, f3) ==
  LET v == offset % 8192
  IN IF Fits(offset, 13) /\ AreRegs({rs1, rs2})
       THEN Fields(99, 2 * ((v \div 2) % 16), f3, rs1, rs2, (v \div 32) % 128) ELSE AsmError

BType(offset, rs2, rs1, f3) ==
  LET v == offset % 8192
  IN IF Fits(offset, 13) /\ AreRegs({rs1, rs2})
       THEN Fields(99, 2 * ((v \div 2) % 16) + ((v \div 2048) % 2), f3, rs1, rs2,
                   64 * (v \div 4096) + ((v \div 32) % 64))
       ELSE AsmError

-----------------------------------------------------------------------------
(* The instructions the firmware is made of; a sequence of entries each.   *)

lui(rd, imm20) ==
  << IF AreRegs({rd})
       THEN Fields(55, rd, imm20 % 8, (imm20 \div 8) % 32, (imm20 \div 256) % 32, imm20 \div 8192)
       ELSE AsmError >>
addi(rd, rs1, imm) == <<IType(imm, rs1, 0, rd, 19)>>
add(rd, rs1, rs2)  == <<RType(0, rs2, rs1, 0, rd, 51)>>
andi(rd, rs1, imm) == <<IType(imm, rs1, 7, rd, 19)>>
sw(rs2, rs1, offset) == <<SType(offset, rs2, rs1, 2, 35)>>
lw(rd, rs1, offset)  == <<IType(offset, rs1, 2, rd, 3)>>
nop == addi(0, 0, 0)

\* A branch waits for its label.
Pending(kind, rs1, rs2, target) ==
  <<[kind |-> kind, rs1 |-> rs1, rs2 |-> rs2, target |-> target]>>
beq(rs1, rs2, target) == Pending("beq", rs1, rs2, target)
bne(rs1, rs2, target) == Pending("bne", rs1, rs2, target)
label(name) == <<[kind |-> "label", name |-> name]>>

\* A CSR address is unsigned: it is not held to an immediate's range.
System(csr, src, f3, rd) ==
  <<IF csr \in Bits(12) /\ AreRegs({src, rd})
      THEN Fields(115, rd, f3, src, csr % 32, csr \div 32) ELSE AsmError>>
csrrw(rd, csr, rs1)   == System(csr, rs1, 1, rd)
csrrs(rd, csr, rs1)   == System(csr, rs1, 2, rd)
csrrc(rd, csr, rs1)   == System(csr, rs1, 3, rd)
csrrwi(rd, csr, uimm) == System(csr, uimm, 5, rd)
csrrsi(rd, csr, uimm) == System(csr, uimm, 6, rd)
csrrci(rd, csr, uimm) == System(csr, uimm, 7, rd)
mret == System(770, 0, 0, 0)

csrw(csr, rs1) == csrrw(0, csr, rs1)
csrr(rd, csr)  == csrrs(rd, csr, 0)
csrs(csr, rs1) == csrrs(0, csr, rs1)
csrc(csr, rs1) == csrrc(0, csr, rs1)

\* Bug variant: the upper half is not corrected for a negative lower half.
liUncorrected(rd, value) ==
  LET low == IF value.lo >= 2048 THEN value.lo - 4096 ELSE value.lo
  IN IF value.hi = 0 THEN addi(rd, 0, low)
     ELSE lui(rd, value.hi) \o (IF low = 0 THEN <<>> ELSE addi(rd, rd, low))

\* addi sign-extends, so a lower half with bit 11 set takes one from the upper.
li(rd, value) ==
  LET neg  == value.lo >= 2048
      low  == IF neg THEN value.lo - 4096 ELSE value.lo
      high == IF neg THEN (value.hi + 1) % Hi20 ELSE value.hi
  IN IF high = 0 THEN addi(rd, 0, low)
     ELSE lui(rd, high) \o (IF low = 0 THEN <<>> ELSE addi(rd, rd, low))

-----------------------------------------------------------------------------
(* The Assembler: words in order, labels as byte addresses.                *)

IsLabel(entry) == entry.kind = "label"

Marks(program) == {i \in DOMAIN program : IsLabel(program[i])}

\* The words there are after the first i calls: a label takes none.
Count(marks, i) == i - Cardinality({m \in marks : m <= i})

\* What the calls of a program leave; an error in any call, a label defined
\* twice too, ends the build.
Built(program) ==
  LET marks == Marks(program)
      mark(x)  == CHOOSE i \in marks : program[i].name = x
      place(k) == CHOOSE i \in k .. Len(program) : i \notin marks /\ Count(marks, i) = k
  IN [ok |-> /\ \A i \in DOMAIN program : program[i].kind # "error"
             /\ \A i, j \in marks : program[i].name = program[j].name => i = j,
      words |-> [k \in 1 .. Count(marks, Len(program)) |-> program[place(k)]],
      labels |-> [x \in {program[i].name : i \in marks} |-> 4 * Count(marks, mark(x))]]
PcOf(asm) == 4 * Len(asm.words)

\* A branch's label, range and registers are looked at only here; it stands at
\* the address it was called at.
Resolved(asm, i) ==
  LET entry == asm.words[i]
  IN CASE entry.kind = "word" -> entry
       [] entry.kind \in {"beq", "bne"} ->
            IF entry.target \notin DOMAIN asm.labels THEN AsmError
            ELSE BType(asm.labels[entry.target] - 4 * (i - 1), entry.rs2, entry.rs1,
                       IF entry.kind = "beq" THEN 0 ELSE 1)
       [] OTHER -> AsmError

assemble(asm) ==
  LET words == [i \in DOMAIN asm.words |-> Resolved(asm, i)]
  IN [ok |-> asm.ok /\ \A i \in DOMAIN words : words[i] # AsmError, words |-> words]
=============================================================================
