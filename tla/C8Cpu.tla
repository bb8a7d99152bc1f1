-------------------------------- MODULE C8Cpu -------------------------------
(***************************************************************************)
(* modules/cpu8/rtl: cpu.v with alu.v, regfile.v, dmem.v and imem.v, and   *)
(* the power-on reset of top.v.  One Edge is one rising clock edge.  The   *)
(* register file and the data memory have no reset: during reset they take *)
(* what the combinational decode asks for, the word at address 0.          *)
(***************************************************************************)
EXTENDS C8Word

CONSTANT MAX_CYCLES    \* instructions a behaviour executes

ASSUME C8Assumption == MAX_CYCLES \in Nat

VARIABLES
  imem, dmem, regs, pc, sp, flags, halt,
  rst_cnt, rst_n,   \* top.v's power-on counter and the reset it drives
  cycles            \* history: edges on which the core ran and was not halted

cpuVars == <<imem, dmem, regs, pc, sp, flags, halt, rst_cnt, rst_n, cycles>>

insn    == imem[pc]
RdData(i) == IF i = 0 THEN 0 ELSE regs[i]
rs1_val == RdData(Rs1(insn))
rs2_val == RdData(Rs2(insn))
\* imm6_sx, an 8-bit sum; off8 keeps the low eight bits of the offset.
MemAddr == (rs1_val + Imm6(insn) + (IF Imm6(insn) < 32 THEN 0 ELSE 192)) % 256

-----------------------------------------------------------------------------
(* alu.v: the result, and flags_out where flags_in is not passed through.  *)

Out(r, c, v) == [result |-> r,
                 flags |-> [Z |-> IsZero(r), N |-> Sign(r), C |-> c, V |-> v]]

AluAdd ==
  LET wide == rs1_val + rs2_val
      r    == wide % 256
      v    == (1 - Sign(rs1_val)) * (1 - Sign(rs2_val)) * Sign(r)
                + Sign(rs1_val) * Sign(rs2_val) * (1 - Sign(r))
  IN Out(r, wide \div 256, v)

\* wide is nine bits: its top bit is the borrow.
AluSub ==
  LET wide == (rs1_val - rs2_val) % 512
      r    == wide % 256
      v    == Sign(rs1_val) * (1 - Sign(rs2_val)) * (1 - Sign(r))
                + (1 - Sign(rs1_val)) * Sign(rs2_val) * Sign(r)
  IN Out(r, wide \div 256, v)

\* Function 3 has no case of its own: the operand comes through and C stays.
AluShift ==
  LET way == Fn(insn) % 4
  IN CASE way = 0 -> Out((2 * rs1_val) % 256, Sign(rs1_val), 0)
       [] way = 1 -> Out(rs1_val \div 2, rs1_val % 2, 0)
       [] way = 2 -> Out(128 * (rs1_val % 2) + rs1_val \div 2, rs1_val % 2, 0)
       [] way = 3 -> Out(rs1_val, flags.C, 0)

Alu ==
  CASE Op(insn) = ADD -> AluAdd
    [] Op(insn) \in {SUB, CMP} -> AluSub
    [] Op(insn) = AND -> Out(BitAnd(rs1_val, rs2_val), 0, 0)
    [] Op(insn) = OR  -> Out(BitOr(rs1_val, rs2_val), 0, 0)
    [] Op(insn) = XOR -> Out(BitXor(rs1_val, rs2_val), 0, 0)
    [] OTHER -> AluShift

-----------------------------------------------------------------------------
(* cpu.v: the control block, one wire per operator.                        *)

Running == ~halt

branch_taken ==
  CASE Rd(insn) = 0 -> flags.Z = 1
    [] Rd(insn) = 1 -> flags.Z = 0
    [] Rd(insn) = 2 -> flags.N = 1
    [] Rd(insn) = 3 -> flags.N = 0
    [] Rd(insn) = 4 -> flags.C = 1
    [] Rd(insn) = 5 -> flags.C = 0
    [] Rd(insn) = 6 -> TRUE
    [] OTHER -> FALSE

dm_addr ==
  CASE Op(insn) \in {LD, ST} -> MemAddr
    [] Op(insn) = CALL -> sp
    [] Op(insn) = RET -> (sp + 1) % 256
    [] OTHER -> 0

rf_wr_en == Running /\ Op(insn) \in {ADD, SUB, AND, OR, XOR, SHF, LDI, LD}
rf_wr_data ==
  CASE Op(insn) = LDI -> Imm8(insn)
    [] Op(insn) = LD  -> dmem[dm_addr]
    [] OTHER -> Alu.result

dm_wr_en == Running /\ Op(insn) \in {ST, CALL}
\* Bug variant: a call saves its own address.
dm_wr_dataHere == IF Op(insn) = ST THEN rs2_val ELSE pc

\* A store drives rs2_val, whose index is three bits of the offset.
dm_wr_data == IF Op(insn) = ST THEN rs2_val ELSE (pc + 1) % 256

\* Bug variant: LDI and LD set the flags, as the header of alu.v says.
flag_updateLoads == Running /\ Op(insn) \in {ADD, SUB, AND, OR, XOR, SHF, CMP, LDI, LD}

flag_update == Running /\ Op(insn) \in {ADD, SUB, AND, OR, XOR, SHF, CMP}

sp_next ==
  CASE Op(insn) = CALL -> (sp - 1) % 256
    [] Op(insn) = RET  -> (sp + 1) % 256
    [] OTHER -> sp

pc_next ==
  CASE Op(insn) = BR /\ branch_taken -> (pc + Imm8(insn)) % 256
    [] Op(insn) \in {JMP, CALL} -> Imm8(insn)
    [] Op(insn) = RET -> dmem[dm_addr]
    [] Op(insn) = HLT -> pc
    [] OTHER -> (pc + 1) % 256

-----------------------------------------------------------------------------
\* Bug variant: register 0 is written like the others.
WriteBackZero ==
  /\ regs' = IF rf_wr_en THEN [regs EXCEPT ![Rd(insn)] = rf_wr_data] ELSE regs
  /\ dmem' = IF dm_wr_en THEN [dmem EXCEPT ![dm_addr] = dm_wr_data] ELSE dmem

\* regfile.v and dmem.v write whenever they are enabled, in reset too.
WriteBack ==
  /\ regs' = IF rf_wr_en /\ Rd(insn) # 0
               THEN [regs EXCEPT ![Rd(insn)] = rf_wr_data] ELSE regs
  /\ dmem' = IF dm_wr_en THEN [dmem EXCEPT ![dm_addr] = dm_wr_data] ELSE dmem

\* top.v holds rst_n low while it counts to four.
PowerOn ==
  /\ ~rst_n
  /\ IF rst_cnt = 4 THEN rst_n' = TRUE /\ UNCHANGED rst_cnt
                    ELSE rst_cnt' = rst_cnt + 1 /\ UNCHANGED rst_n
  /\ pc' = 0 /\ sp' = 255 /\ flags' = NoFlags /\ halt' = FALSE
  /\ WriteBack
  /\ UNCHANGED <<imem, cycles>>

Execute ==
  /\ rst_n /\ ~halt
  /\ cycles < MAX_CYCLES
  /\ pc' = pc_next
  /\ sp' = sp_next
  /\ flags' = IF flag_update THEN Alu.flags ELSE flags
  /\ halt' = (Op(insn) = HLT)
  /\ cycles' = cycles + 1
  /\ WriteBack
  /\ UNCHANGED <<imem, rst_cnt, rst_n>>

Edge == PowerOn \/ Execute

\* The memories are initialised and rst_n is low from configuration on, so the
\* asynchronous reset holds the other registers already.
Init ==
  /\ imem \in [Byte -> Insn]
  /\ dmem = [a \in Byte |-> 0] /\ regs = [i \in Reg |-> 0]
  /\ pc = 0 /\ sp = 255 /\ flags = NoFlags /\ halt = FALSE
  /\ rst_cnt = 0 /\ rst_n = FALSE /\ cycles = 0

Next == Edge

Spec == Init /\ [][Next]_cpuVars

-----------------------------------------------------------------------------
\* Every register stays in its width and register 0 stays zero, whatever the
\* ungated writes during reset are (cpu.v, regfile.v, dmem.v, top.v).
C8TypeOK ==
  /\ imem \in [Byte -> Insn] /\ dmem \in [Byte -> Byte] /\ regs \in [Reg -> Byte]
  /\ regs[0] = 0
  /\ pc \in Byte /\ sp \in Byte /\ flags \in Flags /\ halt \in BOOLEAN
  /\ rst_cnt \in 0 .. 4 /\ rst_n \in BOOLEAN /\ cycles \in 0 .. MAX_CYCLES

-----------------------------------------------------------------------------
(* The simulator, with what the reset wrote hidden until the first         *)
(* instruction has executed.                                               *)

Sim == INSTANCE C8Sim WITH
  dmem <- IF cycles = 0 THEN [a \in Byte |-> 0] ELSE dmem,
  regs <- IF cycles = 0 THEN [i \in Reg |-> 0] ELSE regs,
  halted <- halt

\* The RTL does what the simulator does, cycle for cycle, from power-on: what
\* the register file and the memory take during reset is undone or repeated by
\* the first instruction (sim.py:4 "the same semantics as the Verilog RTL").
ImplementsSim == Sim!Spec
=============================================================================
