-------------------------------- MODULE Rv32 --------------------------------
(***************************************************************************)
(* The RV32I subset the core decodes: words, instructions, the value an    *)
(* instruction computes, and what it does to the CSRs.  Both machines use  *)
(* it: Core (the pipeline) computes these values stage by stage, Isa (the  *)
(* sequential machine) all at once.                                        *)
(*                                                                         *)
(* A word is the set of its 1 bits, so OR is union and AND-NOT is          *)
(* difference, which is what CSRRS and CSRRC do.  The arithmetic of the    *)
(* ALU, of branch comparison and of sub-word access is a constant          *)
(* operator: nothing the pipeline may get wrong depends on it.             *)
(***************************************************************************)
EXTENDS Integers

CONSTANTS
  Bit,             \* the bit positions of a word: 0..31
  Reg,             \* register numbers, 0 among them: 0..31
  NPC,             \* instruction addresses (32-bit PC, bits 1:0 dropped): 2^30
  DEPTH,           \* words of instruction memory
  Addr,            \* words of data memory
  Func,            \* funct3 / ALU operation codes
  Alu(_, _, _),    \* ex_stage's ALU: operation, operand, operand
  Taken(_, _, _),  \* branch condition: funct3, rs1, rs2
  AddrOf(_),       \* the data word an effective address selects
  Merge(_,_,_,_),  \* store: funct3, address, old word, store data
  Extend(_,_,_),   \* load_extend: funct3, address, memory word
  PcOf(_),         \* the instruction address a word names
  WordOf(_),       \* the word that names an instruction address
  UimmWord(_),     \* the 5-bit rs1 field as a zero-extended word
  CauseWord(_)     \* the mcause code of a trap

Word == SUBSET Bit
PCs  == 0 .. NPC - 1

\* rv32i_pkg's bit positions: mstatus.MIE/MPIE and the three interrupt lines.
SoftBit  == 3
TimerBit == 7
ExtBit   == 11
IrqBits  == {SoftBit, TimerBit, ExtBit}
MIEBit   == 3
MPIEBit  == 7
MPPBits  == {11, 12}

Opcode == {"lui", "auipc", "jal", "jalr", "branch", "load", "store", "opimm",
           "op", "csr", "csri", "ecall", "ebreak", "mret", "fence", "unknown"}
CsrName == {"mstatus", "mie", "mtvec", "mscratch", "mepc", "mcause", "mtval",
            "mip", "other"}
Cause == {"ecall", "ebreak", "ext", "soft", "timer"}

\* An instruction word, split into the fields id_stage extracts.  rs1 and rs2
\* are the raw fields, whatever the format puts there.  "nop" is NOP_CTRL: the
\* control word of a flushed ID/EX slot, which no instruction word decodes to.
Instr == [op : Opcode \cup {"nop"}, f : Func, rd : Reg, rs1 : Reg, rs2 : Reg,
          imm : Word, off : PCs, csr : CsrName]

ASSUME ConstantsAssumption ==
  /\ NPC \in Nat \ {0} /\ DEPTH \in Nat \ {0}
  /\ 0 \in Reg /\ "ADD" \in Func
  /\ \A f \in Func, a, b \in Word : Alu(f, a, b) \in Word
  /\ \A f \in Func, a, b \in Word : Taken(f, a, b) \in BOOLEAN
  /\ \A a \in Word : AddrOf(a) \in Addr /\ PcOf(a) \in PCs
  /\ \A f \in Func, a, b, c \in Word : Merge(f, a, b, c) \in Word
  /\ \A f \in Func, a, b \in Word : Extend(f, a, b) \in Word
  /\ \A p \in PCs : WordOf(p) \in Word
  /\ \A r \in Reg : UimmWord(r) \in Word
  /\ \A c \in Cause : CauseWord(c) \in Word

Inc(p)       == (p + 1) % NPC
Target(p, i) == (p + i.off) % NPC

-----------------------------------------------------------------------------
(* Decode and execute.                                                     *)

RegWrite(op) == op \in {"lui", "auipc", "jal", "jalr", "load", "opimm", "op",
                        "csr", "csri"}
IsCsr(op)    == op \in {"csr", "csri"}
IsJump(op)   == op \in {"jal", "jalr"}

\* Everything but an unknown opcode and a NOP_CTRL slot decodes as valid.
Known(op) == op \in Opcode \ {"unknown"}

AluOp(i)         == IF i.op \in {"op", "opimm"} THEN i.f ELSE "ADD"
AluSrc(i)        == i.op \in {"lui", "auipc", "jalr", "load", "store", "opimm"}
OperandA(i, p, a) == IF i.op = "auipc" THEN WordOf(p) ELSE a
OperandB(i, b)    == IF AluSrc(i) THEN i.imm ELSE b

\* The ALU output, replaced by pc+4 for a jump and by the immediate for LUI.
AluResult(i, p, a, b) ==
  IF IsJump(i.op) THEN WordOf(Inc(p))
  ELSE IF i.op = "lui" THEN i.imm
  ELSE Alu(AluOp(i), OperandA(i, p, a), OperandB(i, b))

JumpTarget(i, p, a) ==
  IF i.op = "jalr" THEN PcOf(Alu("ADD", a, i.imm)) ELSE Target(p, i)

-----------------------------------------------------------------------------
(* The machine-mode CSRs.                                                  *)

CsrState == [MIE : BOOLEAN, MPIE : BOOLEAN, mie : Word, mtvec : PCs,
             mepc : PCs, mscratch : Word, mcause : Word, mtval : Word]

CsrReset == [MIE |-> FALSE, MPIE |-> FALSE, mie |-> {}, mtvec |-> 0,
             mepc |-> 0, mscratch |-> {}, mcause |-> {}, mtval |-> {}]

StatusWord(c) ==
  {b \in Bit : (b = MIEBit /\ c.MIE) \/ (b = MPIEBit /\ c.MPIE) \/ b \in MPPBits}

CsrRead(c, name, lines) ==
  CASE name = "mstatus"  -> StatusWord(c)
    [] name = "mie"      -> c.mie
    [] name = "mtvec"    -> WordOf(c.mtvec)
    [] name = "mscratch" -> c.mscratch
    [] name = "mepc"     -> WordOf(c.mepc)
    [] name = "mcause"   -> c.mcause
    [] name = "mtval"    -> c.mtval
    [] name = "mip"      -> lines \cap Bit
    [] OTHER             -> {}

\* mip and unimplemented addresses ignore writes.
CsrWrite(c, name, w) ==
  CASE name = "mstatus"  -> [c EXCEPT !.MIE = MIEBit \in w, !.MPIE = MPIEBit \in w]
    [] name = "mie"      -> [c EXCEPT !.mie = w]
    [] name = "mtvec"    -> [c EXCEPT !.mtvec = PcOf(w)]
    [] name = "mscratch" -> [c EXCEPT !.mscratch = w]
    [] name = "mepc"     -> [c EXCEPT !.mepc = PcOf(w)]
    [] name = "mcause"   -> [c EXCEPT !.mcause = w]
    [] name = "mtval"    -> [c EXCEPT !.mtval = w]
    [] OTHER             -> c

CsrSource(i, a) == IF i.op = "csri" THEN UimmWord(i.rs1) ELSE a

\* CSRRW always writes; a set or clear from x0 (or a zero immediate) only reads.
CsrWrites(i, src) ==
  /\ IsCsr(i.op)
  /\ \/ i.f = "RW"
     \/ i.f \in {"RS", "RC"} /\ (IF i.op = "csri" THEN src # {} ELSE i.rs1 # 0)

CsrNewWord(i, old, src) ==
  CASE i.f = "RS" -> old \cup src
    [] i.f = "RC" -> old \ src
    [] OTHER      -> src

CsrExecute(c, i, a, lines) ==
  LET src == CsrSource(i, a)
  IN IF CsrWrites(i, src)
       THEN CsrWrite(c, i.csr, CsrNewWord(i, CsrRead(c, i.csr, lines), src))
       ELSE c

\* The enabled, asserted interrupt lines; none while mstatus.MIE is clear.
Pending(c, lines) == IF c.MIE THEN c.mie \cap lines \cap IrqBits ELSE {}

\* External, then software, then timer.
IrqCause(lines) ==
  IF ExtBit \in lines THEN "ext" ELSE IF SoftBit \in lines THEN "soft" ELSE "timer"

TrapEntry(c, p, cause) ==
  [c EXCEPT !.mepc = p, !.mcause = CauseWord(cause), !.mtval = {},
            !.MPIE = c.MIE, !.MIE = FALSE]

TrapReturn(c) == [c EXCEPT !.MIE = c.MPIE, !.MPIE = TRUE]
=============================================================================
