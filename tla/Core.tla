-------------------------------- MODULE Core --------------------------------
(***************************************************************************)
(* modules/core: the five-stage pipeline with its forwarding, load-use     *)
(* stall, tagged branch predictor and EX-stage traps, one step per clock   *)
(* edge.  Variables are the registers of the RTL under their RTL names     *)
(* (pc_fetch / predicted_fetch / fetch_valid are the fields of `fetch`,    *)
(* and so on); a wire is an operator; an always_ff block is an operator    *)
(* that gives its registers their next values.                             *)
(***************************************************************************)
EXTENDS Rv32

CONSTANTS
  IrqLines,      \* the interrupt lines the environment may assert
  BHT_ENTRIES,   \* predictor entries: 64
  Programs,      \* the instruction memories considered
  PowerUp        \* the register files considered at power-up

ASSUME CoreAssumption ==
  /\ IrqLines \subseteq IrqBits
  /\ BHT_ENTRIES \in Nat \ {0}
  /\ \A p \in Programs : /\ p \in [0 .. DEPTH - 1 -> Instr]
                         /\ \A n \in 0 .. DEPTH - 1 : p[n].op # "nop"
  /\ \A g \in PowerUp : g \in [Reg \ {0} -> Word]

VARIABLES
  imem,        \* instruction memory
  imem_data,   \* its output register: the word addressed a cycle ago
  pc_reg,      \* the fetch PC
  fetch,       \* [pc, pred, valid]: what the word on imem_data belongs to
  ifid,        \* [pc, instr, pred, valid]
  idex,        \* [pc, instr, pred, valid, a, b]: a, b are rs1_data, rs2_data
  exmem,       \* [op, f, rd, res, data, valid]
  memwb,       \* [op, f, rd, res, valid]
  regfile,
  mem,         \* data memory
  dmem_rdata,  \* its output register
  csr,
  bht, btb, btb_tag,
  irq          \* the interrupt lines, driven by the CLINT and the UART

vars == <<imem, imem_data, pc_reg, fetch, ifid, idex, exmem, memwb, regfile,
          mem, dmem_rdata, csr, bht, btb, btb_tag, irq>>

-----------------------------------------------------------------------------
(* Bubbles.                                                                *)

\* ADDI x0, x0, 0, the word IF/ID is flushed with: a known instruction, so
\* only the valid bit beside it tells it from a fetched one.
NopInstr == [op |-> "opimm", f |-> "ADD", rd |-> 0, rs1 |-> 0, rs2 |-> 0,
             imm |-> {}, off |-> 0, csr |-> "other"]
NopCtrl  == [NopInstr EXCEPT !.op = "nop"]

FetchBubble == [pc |-> 0, pred |-> FALSE, valid |-> FALSE]
IfIdBubble  == [pc |-> 0, instr |-> NopInstr, pred |-> FALSE, valid |-> FALSE]
IdExBubble  == [pc |-> 0, instr |-> NopCtrl, pred |-> FALSE, valid |-> FALSE,
                a |-> {}, b |-> {}]
ExMemBubble == [op |-> "nop", f |-> "ADD", rd |-> 0, res |-> {}, data |-> {},
                valid |-> FALSE]
MemWbBubble == [op |-> "nop", f |-> "ADD", rd |-> 0, res |-> {}, valid |-> FALSE]

-----------------------------------------------------------------------------
(* Predictor.                                                              *)

Idx(p)     == p % BHT_ENTRIES
Tag(p)     == p \div BHT_ENTRIES
Entries    == 0 .. BHT_ENTRIES - 1
AllOnesTag == (NPC - 1) \div BHT_ENTRIES

\* Bug variant: an index without a tag.
PredictTakenUntagged == bht[Idx(pc_reg)] >= 2

PredictTaken == bht[Idx(pc_reg)] >= 2 /\ btb_tag[Idx(pc_reg)] = Tag(pc_reg)

-----------------------------------------------------------------------------
(* Hazard unit, write-back value and forwarding.                           *)

LoadUse ==
  /\ idex.instr.op = "load"
  /\ \E r \in {ifid.instr.rs1, ifid.instr.rs2} : r # 0 /\ r = idex.instr.rd

WbData == IF memwb.op = "load" THEN Extend(memwb.f, memwb.res, dmem_rdata)
                               ELSE memwb.res

MemMatches(r) == RegWrite(exmem.op) /\ exmem.rd # 0 /\ exmem.rd = r
WbMatches(r)  == RegWrite(memwb.op) /\ memwb.rd # 0 /\ memwb.rd = r

\* id_stage's read port: write-back is visible in the same cycle.
ReadReg(r) == IF r = 0 THEN {} ELSE IF WbMatches(r) THEN WbData ELSE regfile[r]

\* Bug variant: the older of two writers of a register wins.
ForwardOldest(r, held) ==
  IF WbMatches(r) THEN WbData ELSE IF MemMatches(r) THEN exmem.res ELSE held

\* EX operand: MEM before WB before the value read in ID.
Forward(r, held) ==
  IF MemMatches(r) THEN exmem.res ELSE IF WbMatches(r) THEN WbData ELSE held

OperA == Forward(idex.instr.rs1, idex.a)
OperB == Forward(idex.instr.rs2, idex.b)

-----------------------------------------------------------------------------
(* EX: branch resolution, CSRs and traps, redirect.                        *)

BranchValid == idex.instr.op = "branch"
BranchTaken == Taken(idex.instr.f, OperA, OperB)
JumpValid   == IsJump(idex.instr.op)

Enabled   == Pending(csr, irq)
\* Bug variant: a branch is never interrupted.
TakeIrqNotBranch == Enabled # {} /\ idex.valid /\ idex.instr.op # "branch"
TakeIrq   == Enabled # {} /\ idex.valid
TakeSync  == idex.valid /\ idex.instr.op \in {"ecall", "ebreak"}
TakeTrap  == TakeIrq \/ TakeSync
TakeMret  == idex.valid /\ idex.instr.op = "mret"
TrapCause == IF TakeSync THEN idex.instr.op ELSE IrqCause(Enabled)
TrapValid  == TakeTrap \/ TakeMret
TrapTarget == IF TakeTrap THEN csr.mtvec ELSE csr.mepc

\* The prediction judged is the one carried with the instruction, not what
\* the BHT says by now.
BogusRedirect == idex.pred /\ ~BranchValid /\ ~JumpValid
\* Bug variant: the outcome is compared with the counter as it is now.
MispredictedNow ==
  BogusRedirect \/ (BranchValid /\ BranchTaken # (bht[Idx(idex.pc)] >= 2))
Mispredicted  == BogusRedirect \/ (BranchValid /\ BranchTaken # idex.pred)
Redirect      == TrapValid \/ JumpValid \/ Mispredicted

\* Priority: trap, jump, misprediction, prediction, pc+4.
PcNext ==
  IF TrapValid THEN TrapTarget
  ELSE IF JumpValid THEN JumpTarget(idex.instr, idex.pc, OperA)
  ELSE IF Mispredicted THEN IF BranchValid /\ BranchTaken
                              THEN Target(idex.pc, idex.instr) ELSE Inc(idex.pc)
  ELSE IF PredictTaken THEN btb[Idx(pc_reg)] ELSE Inc(pc_reg)

ExResult == IF IsCsr(idex.instr.op) THEN CsrRead(csr, idex.instr.csr, irq)
            ELSE AluResult(idex.instr, idex.pc, OperA, OperB)

-----------------------------------------------------------------------------
(* Next values, one operator per always_ff block.                          *)

\* Bug variant: the address is always the fetch PC, one ahead of the register.
ImemAddrAhead == pc_reg

\* A stall freezes the fetch registers but not the memory behind them, so the
\* address presented must be the one the frozen register names.
ImemAddr     == IF LoadUse THEN fetch.pc ELSE pc_reg
ImemDataNext == imem[ImemAddr % DEPTH]

\* A redirect outranks the stall.
PcRegNext == IF ~LoadUse \/ Redirect THEN PcNext ELSE pc_reg

\* Bug variant: a redirect leaves the word inside the memory alive.
FetchNextUnflushed ==
  IF LoadUse THEN fetch ELSE [pc |-> pc_reg, pred |-> PredictTaken, valid |-> TRUE]

FetchNext ==
  IF Redirect THEN FetchBubble
  ELSE IF LoadUse THEN fetch
  ELSE [pc |-> pc_reg, pred |-> PredictTaken, valid |-> TRUE]

IfIdNext ==
  IF Redirect \/ ~fetch.valid THEN IfIdBubble
  ELSE IF LoadUse THEN ifid
  ELSE [pc |-> fetch.pc, instr |-> imem_data, pred |-> fetch.pred, valid |-> TRUE]

\* Bug variant: the stall holds the load in EX instead of a bubble.
IdExNextHeld ==
  IF Redirect THEN IdExBubble
  ELSE IF LoadUse THEN idex
  ELSE [pc |-> ifid.pc, instr |-> ifid.instr, pred |-> ifid.pred,
        valid |-> ifid.valid /\ Known(ifid.instr.op),
        a |-> ReadReg(ifid.instr.rs1), b |-> ReadReg(ifid.instr.rs2)]

\* What the decoder makes of IF/ID: an unknown opcode keeps its fields but no
\* control bit, and no bubble is valid.
IdExNext ==
  IF Redirect \/ LoadUse THEN IdExBubble
  ELSE [pc |-> ifid.pc, instr |-> ifid.instr, pred |-> ifid.pred,
        valid |-> ifid.valid /\ Known(ifid.instr.op),
        a |-> ReadReg(ifid.instr.rs1), b |-> ReadReg(ifid.instr.rs2)]

\* Bug variant: the cancelled instruction goes on to MEM.
ExMemNextUncancelled ==
  [op |-> idex.instr.op, f |-> idex.instr.f, rd |-> idex.instr.rd,
   res |-> ExResult, data |-> OperB, valid |-> idex.valid]

\* A trap cancels the instruction in EX before it can store or write back.
ExMemNext ==
  IF TrapValid THEN ExMemBubble
  ELSE [op |-> idex.instr.op, f |-> idex.instr.f, rd |-> idex.instr.rd,
        res |-> ExResult, data |-> OperB, valid |-> idex.valid]

MemWbNext == [op |-> exmem.op, f |-> exmem.f, rd |-> exmem.rd,
              res |-> exmem.res, valid |-> exmem.valid]

RegfileNext ==
  [r \in Reg \ {0} |-> IF WbMatches(r) THEN WbData ELSE regfile[r]]

MemNext ==
  LET a == AddrOf(exmem.res)
  IN IF exmem.op = "store"
       THEN [mem EXCEPT ![a] = Merge(exmem.f, exmem.res, mem[a], exmem.data)]
       ELSE mem

\* Read-before-write, as the two non-blocking assignments order it.
DmemRdataNext == mem[AddrOf(exmem.res)]

CsrNext ==
  CASE TakeTrap               -> TrapEntry(csr, idex.pc, TrapCause)
    [] ~TakeTrap /\ TakeMret  -> TrapReturn(csr)
    [] OTHER                  -> IF idex.valid
                                   THEN CsrExecute(csr, idex.instr, OperA, irq)
                                   ELSE csr

\* Bug variant: no saturation.
CountedUnsaturated(n) == IF BranchTaken THEN n + 1 ELSE n - 1

Counted(n) == IF BranchTaken THEN (IF n = 3 THEN 3 ELSE n + 1)
                             ELSE (IF n = 0 THEN 0 ELSE n - 1)

\* A resolving branch trains its entry, even one a trap is cancelling.
PredictorNext ==
  IF BranchValid
    THEN /\ bht' = [bht EXCEPT ![Idx(idex.pc)] = Counted(@)]
         /\ btb' = [btb EXCEPT ![Idx(idex.pc)] = Target(idex.pc, idex.instr)]
         /\ btb_tag' = [btb_tag EXCEPT ![Idx(idex.pc)] = Tag(idex.pc)]
    ELSE UNCHANGED <<bht, btb, btb_tag>>

-----------------------------------------------------------------------------

\* Blocks without a reset: the memories and the register file.
Memories ==
  /\ imem_data' = ImemDataNext
  /\ regfile' = RegfileNext
  /\ mem' = MemNext
  /\ dmem_rdata' = DmemRdataNext
  /\ UNCHANGED imem

Lines == irq' \in SUBSET IrqLines

ClockEdge ==
  /\ Memories
  /\ pc_reg' = PcRegNext
  /\ fetch' = FetchNext
  /\ ifid' = IfIdNext
  /\ idex' = IdExNext
  /\ exmem' = ExMemNext
  /\ memwb' = MemWbNext
  /\ csr' = CsrNext
  /\ PredictorNext
  /\ Lines

\* The same edge with rst high.
Reset ==
  /\ Memories
  /\ pc_reg' = 0
  /\ fetch' = FetchBubble
  /\ ifid' = IfIdBubble
  /\ idex' = IdExBubble
  /\ exmem' = ExMemBubble
  /\ memwb' = MemWbBubble
  /\ csr' = CsrReset
  /\ bht' = [e \in Entries |-> 1]
  /\ btb' = [e \in Entries |-> 1 % NPC]
  /\ btb_tag' = [e \in Entries |-> AllOnesTag]
  /\ Lines

\* The state the first reset edge leaves; memory output registers hold
\* anything, which fetch_valid and NOP_CTRL keep from being used.
Init ==
  /\ imem \in Programs
  /\ imem_data \in {imem[0], imem[DEPTH - 1]}
  /\ pc_reg = 0
  /\ fetch = FetchBubble
  /\ ifid = IfIdBubble
  /\ idex = IdExBubble
  /\ exmem = ExMemBubble
  /\ memwb = MemWbBubble
  /\ regfile \in PowerUp
  /\ mem = [a \in Addr |-> {}]
  /\ dmem_rdata = {}
  /\ csr = CsrReset
  /\ bht = [e \in Entries |-> 1]
  /\ btb = [e \in Entries |-> 1 % NPC]
  /\ btb_tag = [e \in Entries |-> AllOnesTag]
  /\ irq \in SUBSET IrqLines

Next == ClockEdge \/ Reset

Spec == Init /\ [][Next]_vars

-----------------------------------------------------------------------------
(* The state the pipeline stands for.                                      *)

Fetched(p) == imem[p % DEPTH]

\* EX holds an instruction of the program, not a bubble.  An unknown opcode
\* is one too, although it is decoded as invalid.
Real == idex.valid \/ idex.instr.op = "unknown"

\* The oldest instruction that has not executed: the next one of Isa.
AbsPc == IF Real THEN idex.pc
         ELSE IF ifid.valid THEN ifid.pc
         ELSE IF fetch.valid THEN fetch.pc ELSE pc_reg

MemResult == IF exmem.op = "load"
               THEN Extend(exmem.f, exmem.res, mem[AddrOf(exmem.res)]) ELSE exmem.res

AbsRegs == [r \in Reg |-> IF r = 0 THEN {}
                          ELSE IF MemMatches(r) THEN MemResult
                          ELSE IF WbMatches(r) THEN WbData ELSE regfile[r]]

AbsMem == MemNext

I == INSTANCE Isa WITH pc <- AbsPc, regs <- AbsRegs, mem <- AbsMem

-----------------------------------------------------------------------------
(* Properties.                                                             *)

FetchType == [pc : PCs, pred : BOOLEAN, valid : BOOLEAN]
IfIdType  == [pc : PCs, instr : Instr, pred : BOOLEAN, valid : BOOLEAN]
IdExType  == [pc : PCs, instr : Instr, pred : BOOLEAN, valid : BOOLEAN,
              a : Word, b : Word]
OpType    == Opcode \cup {"nop"}
ExMemType == [op : OpType, f : Func, rd : Reg, res : Word, data : Word,
              valid : BOOLEAN]
MemWbType == [op : OpType, f : Func, rd : Reg, res : Word, valid : BOOLEAN]

\* Every register holds a value of its width; the two-bit counters saturate.
TypeOK ==
  /\ imem \in [0 .. DEPTH - 1 -> Instr] /\ imem_data \in Instr
  /\ pc_reg \in PCs /\ fetch \in FetchType /\ ifid \in IfIdType
  /\ idex \in IdExType /\ exmem \in ExMemType /\ memwb \in MemWbType
  /\ regfile \in [Reg \ {0} -> Word]
  /\ mem \in [Addr -> Word] /\ dmem_rdata \in Word
  /\ csr \in CsrState
  /\ bht \in [Entries -> 0 .. 3] /\ btb \in [Entries -> PCs]
  /\ btb_tag \in [Entries -> Nat]
  /\ irq \subseteq IrqLines

\* Fetch is two deep and the memory's output register does not stall with it,
\* yet every PC travels with its own instruction (riscv_core.sv:122-139).
FetchPairing ==
  /\ fetch.valid => imem_data = Fetched(fetch.pc)
  /\ ifid.valid => ifid.instr = Fetched(ifid.pc)
  /\ Real => idex.instr = Fetched(idex.pc)

\* A prediction is made before the instruction is fetched, let alone decoded;
\* the tag makes it one about a branch, with that branch's own target, so the
\* bogus-redirect net under it never catches anything (if_stage.sv:83-99).
PredictionSound ==
  /\ PredictTaken => Fetched(pc_reg).op = "branch"
                     /\ btb[Idx(pc_reg)] = Target(pc_reg, Fetched(pc_reg))
  /\ fetch.pred => Fetched(fetch.pc).op = "branch"
  /\ ~BogusRedirect

\* The address after an instruction on the path predicted for it.
Successor(p, pred) == IF pred THEN Target(p, Fetched(p)) ELSE Inc(p)

\* Whatever was flushed, stalled or still inside the memory, the slots behind
\* EX hold one unbroken path of the program and end at the fetch PC: nothing
\* is lost, duplicated or left over from a killed path (riscv_core.sv:160-202).
PathUnbroken ==
  /\ Real => ifid.valid
  /\ ifid.valid => fetch.valid
  /\ Real => ifid.pc = Successor(idex.pc, idex.pred)
  /\ ifid.valid => fetch.pc = Successor(ifid.pc, ifid.pred)
  /\ fetch.valid => pc_reg = Successor(fetch.pc, fetch.pred)

\* The operands EX computes with are the registers as every older instruction
\* leaves them, loads still on the memory bus included (hazard_unit.sv:60-85,
\* riscv_core.sv:388-402).
OperandsCurrent ==
  Real => OperA = AbsRegs[idex.instr.rs1] /\ OperB = AbsRegs[idex.instr.rs2]

\* The inductive invariant behind the four above: what a bubble looks like,
\* what the predictor has learnt, and what the forwarding muxes may assume.
BubblesInert ==
  /\ \A n \in 0 .. DEPTH - 1 : imem[n].op # "nop"
  /\ ~fetch.valid => ~fetch.pred
  /\ ~ifid.valid => ifid = IfIdBubble
  /\ ~Real => idex.instr \in {NopInstr, NopCtrl} /\ ~idex.pred
  /\ idex.valid => Known(idex.instr.op)

PredictorTrained ==
  \A e \in Entries : bht[e] >= 2 =>
    \E p \in PCs : /\ Idx(p) = e /\ Tag(p) = btb_tag[e]
                   /\ Fetched(p).op = "branch" /\ btb[e] = Target(p, Fetched(p))

PredictedBranches ==
  /\ fetch.pred => Fetched(fetch.pc).op = "branch"
  /\ ifid.pred => ifid.instr.op = "branch"
  /\ idex.pred => idex.instr.op = "branch"

OperandsHeld ==
  /\ idex.a = IF idex.instr.rs1 = 0 THEN {} ELSE regfile[idex.instr.rs1]
  /\ idex.b = IF idex.instr.rs2 = 0 THEN {} ELSE regfile[idex.instr.rs2]

LoadDelayed ==
  exmem.op = "load" =>
    \A r \in {idex.instr.rs1, idex.instr.rs2} : r = 0 \/ r # exmem.rd

\* No step of the pipeline leaves these facts, whatever the program: they
\* are what the stall, the flushes and the tag are for.
PipelineInv ==
  BubblesInert /\ PredictorTrained /\ PredictedBranches /\ FetchPairing
    /\ PathUnbroken /\ OperandsHeld /\ LoadDelayed

\* The pipeline is indistinguishable from executing the program one
\* instruction at a time with precise traps (csr_file.sv, docs/traps.md).
ImplementsIsa == I!Spec

\* An enabled interrupt that stays asserted is taken: no loop, stall or flush
\* pattern keeps a real instruction out of EX forever (csr_file.sv:74-81).
InterruptTaken == []<>(Enabled = {})

\* The pipeline keeps executing: no stall or chain of flushes lasts forever.
KeepsExecuting == []<>Real /\ []<>~LoadUse
=============================================================================
