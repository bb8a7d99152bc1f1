-------------------------------- MODULE C8Sim -------------------------------
(***************************************************************************)
(* modules/cpu8/sim/sim.py: the software model of the C8, one action per   *)
(* opcode of Sim.step, with reset() and load().  It is what the RTL is     *)
(* said to do, so C8Cpu is checked and proved to implement it.             *)
(***************************************************************************)
EXTENDS C8Word

CONSTANT MAX_CYCLES    \* the bound run() stops at

VARIABLES imem, dmem, regs, pc, sp, flags, halted, cycles

simVars == <<imem, dmem, regs, pc, sp, flags, halted, cycles>>

RegRead(i) == IF i = 0 THEN 0 ELSE regs[i]
RegWrite(i, v) == regs' = IF i = 0 THEN regs ELSE [regs EXCEPT ![i] = v]

\* _s6 and _s9
Signed6(v) == IF v < 32 THEN v ELSE v - 64
Signed9(v) == IF v < 256 THEN v ELSE v - 512

insn == imem[pc]
rs1  == RegRead(Rs1(insn))
rs2  == RegRead(Rs2(insn))
Address == (rs1 + Signed6(Imm6(insn))) % 256

\* The condition the rd field names: Z, N and C, set or clear, always, never.
BranchTaken ==
  \/ Rd(insn) = 0 /\ flags.Z = 1
  \/ Rd(insn) = 1 /\ flags.Z = 0
  \/ Rd(insn) = 2 /\ flags.N = 1
  \/ Rd(insn) = 3 /\ flags.N = 0
  \/ Rd(insn) = 4 /\ flags.C = 1
  \/ Rd(insn) = 5 /\ flags.C = 0
  \/ Rd(insn) = 6

\* _set_flags
SetFlags(r, carry, overflow) ==
  [Z |-> IsZero(r), N |-> Sign(r), C |-> carry, V |-> overflow]

\* What an ALU instruction writes and the flags it leaves; the borrow is bit 8
\* of a Python integer, which keeps its sign.
Sum ==
  LET wide == rs1 + rs2
      r    == wide % 256
      same == Sign(rs1) = Sign(rs2) /\ Sign(r) # Sign(rs1)
  IN [r |-> r, f |-> SetFlags(r, wide \div 256, IF same THEN 1 ELSE 0)]

Difference ==
  LET wide == rs1 - rs2
      r    == wide % 256
      differ == Sign(rs1) # Sign(rs2) /\ Sign(r) # Sign(rs1)
  IN [r |-> r, f |-> SetFlags(r, (wide \div 256) % 2, IF differ THEN 1 ELSE 0)]

Logic(r) == [r |-> r, f |-> SetFlags(r, 0, 0)]

Shifted ==
  LET way == Fn(insn) % 4
  IN CASE way = 0 -> [r |-> (rs1 * 2) % 256, c |-> Sign(rs1)]
       [] way = 1 -> [r |-> rs1 \div 2, c |-> rs1 % 2]
       [] OTHER   -> [r |-> rs1 \div 2 + 128 * (rs1 % 2), c |-> rs1 % 2]

Computed ==
  CASE Op(insn) = ADD -> Sum
    [] Op(insn) \in {SUB, CMP} -> Difference
    [] Op(insn) = AND -> Logic(BitAnd(rs1, rs2))
    [] Op(insn) = OR  -> Logic(BitOr(rs1, rs2))
    [] Op(insn) = XOR -> Logic(BitXor(rs1, rs2))
    [] OTHER -> [r |-> Shifted.r, f |-> SetFlags(Shifted.r, Shifted.c, 0)]

-----------------------------------------------------------------------------
(* The branches of step().                                                 *)

GoOn(next) == pc' = next /\ cycles' = cycles + 1 /\ UNCHANGED <<imem, halted>>
NextPc == (pc + 1) % 256

Nop == Op(insn) = NOP /\ GoOn(NextPc) /\ UNCHANGED <<dmem, regs, sp, flags>>

Arith ==
  /\ Op(insn) \in {ADD, SUB, AND, OR, XOR, SHF}
  /\ RegWrite(Rd(insn), Computed.r)
  /\ flags' = Computed.f
  /\ GoOn(NextPc) /\ UNCHANGED <<dmem, sp>>

Compare ==
  /\ Op(insn) = CMP
  /\ flags' = Computed.f
  /\ GoOn(NextPc) /\ UNCHANGED <<dmem, regs, sp>>

LoadImmediate ==
  /\ Op(insn) = LDI
  /\ RegWrite(Rd(insn), Imm8(insn))
  /\ GoOn(NextPc) /\ UNCHANGED <<dmem, sp, flags>>

LoadByte ==
  /\ Op(insn) = LD
  /\ RegWrite(Rd(insn), dmem[Address])
  /\ GoOn(NextPc) /\ UNCHANGED <<dmem, sp, flags>>

\* The rd field names the register that is stored.
StoreByte ==
  /\ Op(insn) = ST
  /\ dmem' = [dmem EXCEPT ![Address] = RegRead(Rd(insn))]
  /\ GoOn(NextPc) /\ UNCHANGED <<regs, sp, flags>>

Branch ==
  /\ Op(insn) = BR
  /\ GoOn(IF BranchTaken THEN (pc + Signed9(Imm9(insn))) % 256 ELSE NextPc)
  /\ UNCHANGED <<dmem, regs, sp, flags>>

Jump ==
  /\ Op(insn) = JMP
  /\ GoOn(Imm8(insn)) /\ UNCHANGED <<dmem, regs, sp, flags>>

Call ==
  /\ Op(insn) = CALL
  /\ dmem' = [dmem EXCEPT ![sp] = NextPc]
  /\ sp' = (sp - 1) % 256
  /\ GoOn(Imm8(insn)) /\ UNCHANGED <<regs, flags>>

Return ==
  /\ Op(insn) = RET
  /\ sp' = (sp + 1) % 256
  /\ GoOn(dmem[sp'])
  /\ UNCHANGED <<dmem, regs, flags>>

Halt ==
  /\ Op(insn) = HLT
  /\ halted' = TRUE
  /\ cycles' = cycles + 1
  /\ UNCHANGED <<imem, dmem, regs, pc, sp, flags>>

Step ==
  /\ ~halted
  /\ \/ Nop \/ Arith \/ Compare \/ LoadImmediate \/ LoadByte \/ StoreByte
     \/ Branch \/ Jump \/ Call \/ Return \/ Halt

\* reset() leaves registers and memory alone; load() replaces the program only.
Reset ==
  /\ pc' = 0 /\ sp' = 255 /\ flags' = NoFlags
  /\ halted' = FALSE /\ cycles' = 0
  /\ UNCHANGED <<imem, dmem, regs>>

Load ==
  /\ imem' \in [Byte -> Insn]
  /\ UNCHANGED <<dmem, regs, pc, sp, flags, halted, cycles>>

\* Sim(words)
Init ==
  /\ imem \in [Byte -> Insn]
  /\ dmem = [a \in Byte |-> 0] /\ regs = [i \in Reg |-> 0]
  /\ pc = 0 /\ sp = 255 /\ flags = NoFlags /\ halted = FALSE /\ cycles = 0

\* run() calls step() until HLT or the bound.
Next == (cycles < MAX_CYCLES /\ Step) \/ Reset \/ Load

Spec == Init /\ [][Next]_simVars
=============================================================================
