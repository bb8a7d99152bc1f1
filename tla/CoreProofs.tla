----------------------------- MODULE CoreProofs -----------------------------
EXTENDS Perf, TLAPS


(* Arithmetic of instruction addresses.                                    *)

LEMMA ModRange ==
  ASSUME NEW x \in Nat, NEW n \in Nat \ {0}
  PROVE  x % n \in 0 .. n - 1
  OBVIOUS

LEMMA DivNat ==
  ASSUME NEW x \in Nat, NEW n \in Nat \ {0}
  PROVE  x \div n \in Nat
  OBVIOUS

LEMMA DivModKey ==
  ASSUME NEW x \in Nat, NEW y \in Nat, NEW n \in Nat \ {0},
         x % n = y % n, x \div n = y \div n
  PROVE  x = y
  OBVIOUS

LEMMA Sizes == NPC \in Nat \ {0} /\ DEPTH \in Nat \ {0} /\ BHT_ENTRIES \in Nat \ {0}
  BY ConstantsAssumption, CoreAssumption

LEMMA IncType == ASSUME NEW p \in PCs PROVE Inc(p) \in PCs
  <1>1. p + 1 \in Nat
    BY Sizes DEF PCs
  <1> QED BY <1>1, ModRange, Sizes DEF Inc, PCs

LEMMA TargetType == ASSUME NEW p \in PCs, NEW i \in Instr PROVE Target(p, i) \in PCs
  <1>1. p + i.off \in Nat
    BY Sizes DEF PCs, Instr
  <1> QED BY <1>1, ModRange, Sizes DEF Target, PCs

LEMMA IdxType == ASSUME NEW p \in PCs PROVE Idx(p) \in Entries /\ Tag(p) \in Nat
  <1>1. p \in Nat
    BY Sizes DEF PCs
  <1> QED BY <1>1, ModRange, DivNat, Sizes DEF Idx, Tag, Entries

LEMMA IdxTagKey ==
  ASSUME NEW p \in PCs, NEW q \in PCs, Idx(p) = Idx(q), Tag(p) = Tag(q)
  PROVE  p = q
  <1>1. p \in Nat /\ q \in Nat
    BY Sizes DEF PCs
  <1> QED BY <1>1, DivModKey, Sizes DEF Idx, Tag

LEMMA FetchedType ==
  ASSUME NEW m \in [0 .. DEPTH - 1 -> Instr], NEW p \in PCs
  PROVE  m[p % DEPTH] \in Instr
  <1>1. p \in Nat
    BY Sizes DEF PCs
  <1> QED BY <1>1, ModRange, Sizes

-----------------------------------------------------------------------------
(* Types of the values an instruction computes.                            *)

LEMMA ZeroWord == {} \in Word
  BY DEF Word

LEMMA AddFunc == "ADD" \in Func /\ 0 \in Reg
  BY ConstantsAssumption

LEMMA AluType == ASSUME NEW f \in Func, NEW a \in Word, NEW b \in Word
                 PROVE  Alu(f, a, b) \in Word
  BY ConstantsAssumption

LEMMA PcWordType == /\ \A p \in PCs : WordOf(p) \in Word
                    /\ \A w \in Word : PcOf(w) \in PCs /\ AddrOf(w) \in Addr
  BY ConstantsAssumption

LEMMA MemoryWordType ==
  ASSUME NEW f \in Func, NEW a \in Word, NEW b \in Word, NEW c \in Word
  PROVE  Merge(f, a, b, c) \in Word /\ Extend(f, a, b) \in Word
  BY ConstantsAssumption

LEMMA AluResultType ==
  ASSUME NEW i \in Instr, NEW p \in PCs, NEW a \in Word, NEW b \in Word
  PROVE  AluResult(i, p, a, b) \in Word
  <1>1. AluOp(i) \in Func
    BY AddFunc DEF AluOp, Instr
  <1>2. OperandA(i, p, a) \in Word
    BY PcWordType DEF OperandA
  <1>3. OperandB(i, b) \in Word
    BY DEF OperandB, Instr
  <1>4. WordOf(Inc(p)) \in Word /\ i.imm \in Word
    BY IncType, PcWordType DEF Instr
  <1> QED BY <1>1, <1>2, <1>3, <1>4, AluType DEF AluResult

LEMMA JumpTargetType ==
  ASSUME NEW i \in Instr, NEW p \in PCs, NEW a \in Word
  PROVE  JumpTarget(i, p, a) \in PCs
  <1>1. i.imm \in Word
    BY DEF Instr
  <1> QED BY <1>1, TargetType, AluType, AddFunc, PcWordType DEF JumpTarget

LEMMA CsrReadType ==
  ASSUME NEW c \in CsrState, NEW n, NEW l
  PROVE  CsrRead(c, n, l) \in Word
  <1>1. StatusWord(c) \in Word /\ l \cap Bit \in Word /\ {} \in Word
    BY DEF StatusWord, Word
  <1>2. /\ c.mie \in Word /\ c.mscratch \in Word /\ c.mcause \in Word
        /\ c.mtval \in Word /\ WordOf(c.mtvec) \in Word /\ WordOf(c.mepc) \in Word
    BY PcWordType DEF CsrState
  <1> QED BY <1>1, <1>2 DEF CsrRead

LEMMA CsrWriteType ==
  ASSUME NEW c \in CsrState, NEW n, NEW w \in Word
  PROVE  CsrWrite(c, n, w) \in CsrState
  <1>1. PcOf(w) \in PCs
    BY PcWordType
  <1>2. /\ [c EXCEPT !.mie = w] \in CsrState /\ [c EXCEPT !.mscratch = w] \in CsrState
        /\ [c EXCEPT !.mcause = w] \in CsrState /\ [c EXCEPT !.mtval = w] \in CsrState
        /\ [c EXCEPT !.mtvec = PcOf(w)] \in CsrState
        /\ [c EXCEPT !.mepc = PcOf(w)] \in CsrState
    BY <1>1 DEF CsrState
  <1>3. ASSUME NEW x \in BOOLEAN, NEW y \in BOOLEAN
        PROVE  [c EXCEPT !.MIE = x, !.MPIE = y] \in CsrState
    BY DEF CsrState
  <1>4. [c EXCEPT !.MIE = MIEBit \in w, !.MPIE = MPIEBit \in w] \in CsrState
    <2>1. (MIEBit \in w) \in BOOLEAN /\ (MPIEBit \in w) \in BOOLEAN
      OBVIOUS
    <2> QED BY <1>3, <2>1, Zenon
  <1> QED BY <1>2, <1>4 DEF CsrWrite

LEMMA CsrExecuteType ==
  ASSUME NEW c \in CsrState, NEW i \in Instr, NEW a \in Word, NEW l
  PROVE  CsrExecute(c, i, a, l) \in CsrState
  <1> DEFINE src == CsrSource(i, a)
             old == CsrRead(c, i.csr, l)
  <1>1. src \in Word
    BY ConstantsAssumption DEF CsrSource, Instr
  <1>2. old \in Word
    BY CsrReadType
  <1>3. CsrNewWord(i, old, src) \in Word
    <2> HIDE DEF src, old
    <2>1. old \cup src \in Word /\ old \ src \in Word
      BY <1>1, <1>2 DEF Word
    <2> QED BY <1>1, <2>1 DEF CsrNewWord
  <1> QED BY <1>3, CsrWriteType DEF CsrExecute

LEMMA TrapEntryType ==
  ASSUME NEW c \in CsrState, NEW p \in PCs, NEW k \in Cause
  PROVE  TrapEntry(c, p, k) \in CsrState /\ TrapReturn(c) \in CsrState
  <1>1. CauseWord(k) \in Word /\ {} \in Word
    BY ConstantsAssumption, ZeroWord
  <1> QED BY <1>1 DEF TrapEntry, TrapReturn, CsrState

LEMMA ResetTypes ==
  /\ CsrReset \in CsrState /\ FetchBubble \in FetchType /\ IfIdBubble \in IfIdType
  /\ IdExBubble \in IdExType /\ ExMemBubble \in ExMemType
  /\ MemWbBubble \in MemWbType
  <1>1. 0 \in PCs /\ {} \in Word
    BY Sizes, ZeroWord DEF PCs
  <1>2. NopInstr \in Instr /\ NopCtrl \in Instr
    BY <1>1, AddFunc DEF NopInstr, NopCtrl, Instr, Opcode, CsrName
  <1>3. CsrReset \in CsrState
    BY <1>1 DEF CsrReset, CsrState
  <1>4. FetchBubble \in FetchType /\ IfIdBubble \in IfIdType /\ IdExBubble \in IdExType
    BY <1>1, <1>2 DEF FetchBubble, FetchType, IfIdBubble, IfIdType, IdExBubble, IdExType
  <1>5. ExMemBubble \in ExMemType /\ MemWbBubble \in MemWbType
    BY <1>1, AddFunc DEF ExMemBubble, ExMemType, MemWbBubble, MemWbType, OpType
  <1> QED BY <1>3, <1>4, <1>5

-----------------------------------------------------------------------------
(* Types of the wires, for a state whose registers are well typed.         *)

LEMMA WbDataType == ASSUME TypeOK PROVE WbData \in Word
  <1>1. memwb.f \in Func /\ memwb.res \in Word /\ dmem_rdata \in Word
    BY DEF TypeOK, MemWbType
  <1> QED BY <1>1, MemoryWordType DEF WbData

LEMMA ForwardType ==
  ASSUME TypeOK, NEW r \in Reg, NEW w \in Word
  PROVE  Forward(r, w) \in Word /\ ReadReg(r) \in Word
  <1>1. exmem.res \in Word
    BY DEF TypeOK, ExMemType
  <1>2. r # 0 => regfile[r] \in Word
    BY DEF TypeOK
  <1> QED BY <1>1, <1>2, WbDataType, ZeroWord DEF Forward, ReadReg

LEMMA OperandType == ASSUME TypeOK PROVE OperA \in Word /\ OperB \in Word
  <1>1. /\ idex.instr.rs1 \in Reg /\ idex.instr.rs2 \in Reg
        /\ idex.a \in Word /\ idex.b \in Word
    BY DEF TypeOK, IdExType, Instr
  <1> QED BY <1>1, ForwardType DEF OperA, OperB

LEMMA TrapCauseType == TakeTrap => TrapCause \in Cause
  BY DEF TrapCause, Cause, TakeSync, IrqCause

LEMMA ExTypes == ASSUME TypeOK PROVE ExResult \in Word /\ CsrNext \in CsrState
  <1>1. idex.instr \in Instr /\ idex.pc \in PCs /\ csr \in CsrState
    BY DEF TypeOK, IdExType
  <1>2. ExResult \in Word
    BY <1>1, OperandType, CsrReadType, AluResultType DEF ExResult
  <1>3. TakeTrap => TrapEntry(csr, idex.pc, TrapCause) \in CsrState
    BY <1>1, TrapCauseType, TrapEntryType
  <1>4. TrapReturn(csr) \in CsrState
    <2>1. "timer" \in Cause
      BY DEF Cause
    <2> QED BY <1>1, <2>1, TrapEntryType
  <1>5. CsrExecute(csr, idex.instr, OperA, irq) \in CsrState
    BY <1>1, OperandType, CsrExecuteType
  <1>6. CsrNext \in CsrState
    BY <1>1, <1>3, <1>4, <1>5 DEF CsrNext
  <1> QED BY <1>2, <1>6

LEMMA PcNextType == ASSUME TypeOK PROVE PcNext \in PCs
  <1>1. idex.instr \in Instr /\ idex.pc \in PCs /\ pc_reg \in PCs
    BY DEF TypeOK, IdExType
  <1>2. TrapTarget \in PCs
    BY DEF TypeOK, CsrState, TrapTarget
  <1>3. btb[Idx(pc_reg)] \in PCs
    BY <1>1, IdxType DEF TypeOK
  <1> QED BY <1>1, <1>2, <1>3, OperandType, JumpTargetType, TargetType, IncType
          DEF PcNext

-----------------------------------------------------------------------------
(* Type correctness.                                                       *)

LEMMA InitTypeOK == Init => TypeOK
  <1> SUFFICES ASSUME Init PROVE TypeOK
    OBVIOUS
  <1>1. imem \in [0 .. DEPTH - 1 -> Instr] /\ regfile \in [Reg \ {0} -> Word]
    BY CoreAssumption DEF Init
  <1>2. 0 \in 0 .. DEPTH - 1 /\ DEPTH - 1 \in 0 .. DEPTH - 1
    BY Sizes
  <1>3. imem_data \in Instr
    BY <1>1, <1>2 DEF Init
  <1>4. 0 \in PCs /\ 1 % NPC \in PCs /\ AllOnesTag \in Nat
    BY Sizes, ModRange, DivNat DEF PCs, AllOnesTag
  <1>5. /\ bht \in [Entries -> 0 .. 3] /\ btb \in [Entries -> PCs]
        /\ btb_tag \in [Entries -> Nat]
    BY <1>4 DEF Init
  <1>6. mem \in [Addr -> Word] /\ dmem_rdata \in Word
    BY ZeroWord DEF Init
  <1> QED BY <1>1, <1>3, <1>4, <1>5, <1>6, ResetTypes DEF Init, TypeOK

\* What both kinds of edge do to the memories and the register file.
LEMMA MemoriesType ==
  ASSUME TypeOK, Memories
  PROVE  /\ imem' = imem /\ imem_data' \in Instr
         /\ regfile' \in [Reg \ {0} -> Word]
         /\ mem' \in [Addr -> Word] /\ dmem_rdata' \in Word
  <1>1. imem' = imem
    BY DEF Memories
  <1>2. ImemAddr \in PCs
    BY DEF ImemAddr, TypeOK, FetchType
  <1>3. imem_data' \in Instr
    BY <1>2, FetchedType DEF Memories, ImemDataNext, TypeOK
  <1>4. regfile' \in [Reg \ {0} -> Word]
    BY WbDataType DEF Memories, RegfileNext, TypeOK
  <1>5. /\ exmem.res \in Word /\ exmem.f \in Func /\ exmem.data \in Word
        /\ AddrOf(exmem.res) \in Addr
    BY PcWordType DEF TypeOK, ExMemType
  <1>6. mem[AddrOf(exmem.res)] \in Word
    BY <1>5 DEF TypeOK
  <1>7. mem' \in [Addr -> Word]
    BY <1>5, <1>6, MemoryWordType DEF Memories, MemNext, TypeOK
  <1>8. dmem_rdata' \in Word
    BY <1>6 DEF Memories, DmemRdataNext
  <1> QED BY <1>1, <1>3, <1>4, <1>7, <1>8

LEMMA PredictorType ==
  ASSUME TypeOK, PredictorNext
  PROVE  /\ bht' \in [Entries -> 0 .. 3] /\ btb' \in [Entries -> PCs]
         /\ btb_tag' \in [Entries -> Nat]
  <1>1. idex.instr \in Instr /\ idex.pc \in PCs
    BY DEF TypeOK, IdExType
  <1>2. \A n \in 0 .. 3 : Counted(n) \in 0 .. 3
    BY DEF Counted
  <1>3. CASE BranchValid
    <2>1. Idx(idex.pc) \in Entries /\ Tag(idex.pc) \in Nat
      BY <1>1, IdxType
    <2>2. Target(idex.pc, idex.instr) \in PCs
      BY <1>1, TargetType
    <2>3. Counted(bht[Idx(idex.pc)]) \in 0 .. 3
      BY <1>2, <2>1 DEF TypeOK
    <2>4. bht \in [Entries -> 0 .. 3] /\ btb \in [Entries -> PCs]
          /\ btb_tag \in [Entries -> Nat]
      BY DEF TypeOK
    <2> QED BY <1>3, <2>1, <2>2, <2>3, <2>4 DEF PredictorNext
  <1>4. CASE ~BranchValid
    BY <1>4 DEF PredictorNext, TypeOK
  <1> QED BY <1>3, <1>4

LEMMA NextTypeOK == TypeOK /\ [Next]_vars => TypeOK'
  <1> SUFFICES ASSUME TypeOK, [Next]_vars PROVE TypeOK'
    OBVIOUS
  <1>1. CASE ClockEdge
    <2>1. Memories /\ PredictorNext /\ irq' \subseteq IrqLines
      BY <1>1 DEF ClockEdge, Lines
    <2>2. pc_reg' \in PCs
      BY <1>1, PcNextType DEF ClockEdge, PcRegNext, TypeOK
    <2>3. fetch' \in FetchType
      <3>1. PredictTaken \in BOOLEAN
        BY Zenon DEF PredictTaken
      <3>2. pc_reg \in PCs /\ fetch \in FetchType
        BY DEF TypeOK
      <3>3. [pc |-> pc_reg, pred |-> PredictTaken, valid |-> TRUE] \in FetchType
        BY <3>1, <3>2 DEF FetchType
      <3> QED BY <1>1, <3>2, <3>3, ResetTypes DEF ClockEdge, FetchNext
    <2>4. ifid' \in IfIdType
      <3>1. [pc |-> fetch.pc, instr |-> imem_data, pred |-> fetch.pred,
             valid |-> TRUE] \in IfIdType
        BY DEF TypeOK, FetchType, IfIdType
      <3> QED BY <1>1, <3>1, ResetTypes DEF ClockEdge, IfIdNext, TypeOK
    <2>5. idex' \in IdExType
      <3>1. ifid.instr.rs1 \in Reg /\ ifid.instr.rs2 \in Reg
        BY DEF TypeOK, IfIdType, Instr
      <3>2. ReadReg(ifid.instr.rs1) \in Word /\ ReadReg(ifid.instr.rs2) \in Word
        BY <3>1, ForwardType, ZeroWord
      <3>3. (ifid.valid /\ Known(ifid.instr.op)) \in BOOLEAN
        BY Zenon
      <3>4. ifid.pc \in PCs /\ ifid.instr \in Instr /\ ifid.pred \in BOOLEAN
        BY DEF TypeOK, IfIdType
      <3>5. ASSUME NEW v \in BOOLEAN
            PROVE  [pc |-> ifid.pc, instr |-> ifid.instr, pred |-> ifid.pred,
                    valid |-> v, a |-> ReadReg(ifid.instr.rs1),
                    b |-> ReadReg(ifid.instr.rs2)] \in IdExType
        BY <3>2, <3>4 DEF IdExType
      <3>6. idex' = IdExNext
        BY <1>1 DEF ClockEdge
      <3> QED BY <3>3, <3>5, <3>6, ResetTypes, Zenon DEF IdExNext
    <2>6. exmem' \in ExMemType
      <3>1. [op |-> idex.instr.op, f |-> idex.instr.f, rd |-> idex.instr.rd,
             res |-> ExResult, data |-> OperB, valid |-> idex.valid] \in ExMemType
        BY ExTypes, OperandType DEF TypeOK, IdExType, Instr, ExMemType, OpType
      <3> QED BY <1>1, <3>1, ResetTypes DEF ClockEdge, ExMemNext
    <2>7. memwb' \in MemWbType
      BY <1>1 DEF ClockEdge, MemWbNext, TypeOK, ExMemType, MemWbType
    <2>8. csr' \in CsrState
      BY <1>1, ExTypes DEF ClockEdge
    <2> QED BY <2>1, <2>2, <2>3, <2>4, <2>5, <2>6, <2>7, <2>8, MemoriesType,
               PredictorType DEF TypeOK
  <1>2. CASE Reset
    <2>1. 0 \in PCs /\ 1 % NPC \in PCs /\ AllOnesTag \in Nat
      BY Sizes, ModRange, DivNat DEF PCs, AllOnesTag
    <2>2. Memories
      BY <1>2 DEF Reset
    <2>3. /\ bht' \in [Entries -> 0 .. 3] /\ btb' \in [Entries -> PCs]
          /\ btb_tag' \in [Entries -> Nat]
      BY <1>2, <2>1 DEF Reset
    <2>4. irq' \subseteq IrqLines
      BY <1>2 DEF Reset, Lines
    <2> QED BY <1>2, <2>1, <2>2, <2>3, <2>4, MemoriesType, ResetTypes
            DEF Reset, TypeOK
  <1>3. CASE UNCHANGED vars
    BY <1>3 DEF vars, TypeOK
  <1> QED BY <1>1, <1>2, <1>3 DEF Next

\* Every register keeps a value of its width, whatever the program, the
\* interrupts and the resets do.
THEOREM TypeCorrect == Spec => []TypeOK
  <1> QED BY InitTypeOK, NextTypeOK, PTL DEF Spec

-----------------------------------------------------------------------------
(* The pipeline invariant.  Each lemma takes one conjunct through a clock  *)
(* edge; Reset and Init only ever load bubbles.                            *)

LEMMA BubbleFields ==
  /\ FetchBubble.valid = FALSE /\ FetchBubble.pred = FALSE
  /\ IfIdBubble.valid = FALSE /\ IfIdBubble.pred = FALSE
  /\ IfIdBubble.instr = NopInstr
  /\ IdExBubble.valid = FALSE /\ IdExBubble.pred = FALSE
  /\ IdExBubble.instr = NopCtrl /\ IdExBubble.a = {} /\ IdExBubble.b = {}
  /\ ExMemBubble.op = "nop" /\ ExMemBubble.rd = 0
  /\ NopInstr.op = "opimm" /\ NopInstr.rs1 = 0 /\ NopInstr.rs2 = 0
  /\ NopCtrl.op = "nop" /\ NopCtrl.rs1 = 0 /\ NopCtrl.rs2 = 0
  /\ NopInstr.rd = 0 /\ NopCtrl.rd = 0
  BY DEF FetchBubble, IfIdBubble, IdExBubble, ExMemBubble, NopInstr, NopCtrl

\* What the other conjuncts make of EX: a bubble neither redirects nor stalls,
\* and every redirect but a trap comes from the instruction itself.
LEMMA BubbleIsQuiet ==
  ASSUME TypeOK, PipelineInv, ~Real
  PROVE  ~Redirect /\ ~LoadUse /\ ~TrapValid /\ ~BranchValid /\ ~JumpValid
  <1>1. ~idex.valid /\ idex.instr.op \in {"nop", "opimm"} /\ ~idex.pred
    BY BubbleFields DEF PipelineInv, BubblesInert, Real
  <1> QED BY <1>1 DEF Redirect, LoadUse, TrapValid, TakeTrap, TakeIrq, TakeSync,
                      TakeMret, BranchValid, JumpValid, IsJump, Mispredicted,
                      BogusRedirect

LEMMA NoBogusRedirect == ASSUME PipelineInv PROVE ~BogusRedirect
  BY DEF PipelineInv, PredictedBranches, BogusRedirect, BranchValid

LEMMA PredictionIsBranch ==
  ASSUME TypeOK, PipelineInv, PredictTaken
  PROVE  /\ Fetched(pc_reg).op = "branch"
         /\ btb[Idx(pc_reg)] = Target(pc_reg, Fetched(pc_reg))
  <1>1. pc_reg \in PCs
    BY DEF TypeOK
  <1>2. PICK p \in PCs : /\ Idx(p) = Idx(pc_reg) /\ Tag(p) = btb_tag[Idx(pc_reg)]
                        /\ Fetched(p).op = "branch"
                        /\ btb[Idx(pc_reg)] = Target(p, Fetched(p))
    BY <1>1, IdxType DEF PredictTaken, PipelineInv, PredictorTrained
  <1>3. p = pc_reg
    BY <1>1, <1>2, IdxTagKey DEF PredictTaken
  <1> QED BY <1>2, <1>3

LEMMA StepBubbles ==
  ASSUME TypeOK, PipelineInv, ClockEdge
  PROVE  BubblesInert'
  <1>1. imem' = imem
    BY DEF ClockEdge, Memories
  <1>2. ~fetch'.valid => ~fetch'.pred
    BY BubbleFields DEF ClockEdge, FetchNext, PipelineInv, BubblesInert
  <1>3. ~ifid'.valid => ifid' = IfIdBubble
    BY DEF ClockEdge, IfIdNext, PipelineInv, BubblesInert
  <1>4. ~Real' => idex'.instr \in {NopInstr, NopCtrl} /\ ~idex'.pred
    <2>1. idex' = IdExNext
      BY DEF ClockEdge
    <2>2. CASE Redirect \/ LoadUse
      BY <2>1, <2>2, BubbleFields DEF IdExNext
    <2>3. CASE ~(Redirect \/ LoadUse)
      <3>1. idex'.instr = ifid.instr /\ idex'.pred = ifid.pred
            /\ (idex'.valid <=> ifid.valid /\ Known(ifid.instr.op))
        BY <2>1, <2>3 DEF IdExNext
      <3>2. CASE ifid.valid
        <4>1. ifid.instr \in Instr
          BY DEF TypeOK, IfIdType
        <4>2. ifid.instr = Fetched(ifid.pc) /\ ifid.pc \in PCs
          BY <3>2 DEF PipelineInv, FetchPairing, TypeOK, IfIdType
        <4>3. ifid.pc % DEPTH \in 0 .. DEPTH - 1
          <5>1. ifid.pc \in Nat
            BY <4>2, Sizes DEF PCs
          <5> QED BY <5>1, ModRange, Sizes
        <4>4. ifid.instr.op # "nop"
          BY <4>2, <4>3 DEF PipelineInv, BubblesInert, Fetched
        <4>5. Known(ifid.instr.op) \/ ifid.instr.op = "unknown"
          BY <4>1, <4>4 DEF Instr, Known
        <4> QED BY <3>1, <3>2, <4>5 DEF Real
      <3>3. CASE ~ifid.valid
        BY <3>1, <3>3, BubbleFields DEF PipelineInv, BubblesInert
      <3> QED BY <3>2, <3>3
    <2> QED BY <2>2, <2>3
  <1>5. idex'.valid => Known(idex'.instr.op)
    BY BubbleFields DEF ClockEdge, IdExNext
  <1> QED BY <1>1, <1>2, <1>3, <1>4, <1>5 DEF BubblesInert, PipelineInv

LEMMA StepPredictor ==
  ASSUME TypeOK, PipelineInv, ClockEdge
  PROVE  PredictorTrained'
  <1> DEFINE Good(e, t, b) ==
        \E p \in PCs : /\ Idx(p) = e /\ Tag(p) = t
                       /\ Fetched(p).op = "branch" /\ b = Target(p, Fetched(p))
  <1>1. \A e \in Entries : bht[e] >= 2 => Good(e, btb_tag[e], btb[e])
    BY DEF PipelineInv, PredictorTrained
  <1>2. \A e \in Entries : bht'[e] >= 2 => Good(e, btb_tag'[e], btb'[e])
    <2>1. CASE ~BranchValid
      BY <1>1, <2>1 DEF ClockEdge, PredictorNext
    <2>2. CASE BranchValid
      <3> DEFINE e0 == Idx(idex.pc)
      <3>1. idex.pc \in PCs /\ e0 \in Entries
        BY IdxType DEF TypeOK, IdExType
      <3>2. idex.instr = Fetched(idex.pc)
        BY <2>2, BubbleIsQuiet DEF PipelineInv, FetchPairing
      <3>3. Good(e0, Tag(idex.pc), Target(idex.pc, idex.instr))
        BY <2>2, <3>1, <3>2 DEF BranchValid
      <3>4. /\ bht' = [bht EXCEPT ![e0] = Counted(@)]
            /\ btb' = [btb EXCEPT ![e0] = Target(idex.pc, idex.instr)]
            /\ btb_tag' = [btb_tag EXCEPT ![e0] = Tag(idex.pc)]
        BY <2>2 DEF ClockEdge, PredictorNext
      <3>5. btb'[e0] = Target(idex.pc, idex.instr) /\ btb_tag'[e0] = Tag(idex.pc)
        BY <3>1, <3>4 DEF TypeOK
      <3>6. \A e \in Entries \ {e0} : /\ bht'[e] = bht[e] /\ btb'[e] = btb[e]
                                      /\ btb_tag'[e] = btb_tag[e]
        BY <3>4 DEF TypeOK
      <3> HIDE DEF e0, Good
      <3> QED BY <1>1, <3>3, <3>5, <3>6
    <2> QED BY <2>1, <2>2
  <1>3. imem' = imem
    BY DEF ClockEdge, Memories
  <1> QED BY <1>2, <1>3 DEF PredictorTrained, Fetched

LEMMA StepPredicted ==
  ASSUME TypeOK, PipelineInv, ClockEdge
  PROVE  PredictedBranches'
  <1>1. imem' = imem
    BY DEF ClockEdge, Memories
  <1>2. fetch'.pred => Fetched(fetch'.pc).op = "branch"
    BY PredictionIsBranch, BubbleFields
       DEF ClockEdge, FetchNext, PipelineInv, PredictedBranches
  <1>3. ifid'.pred => ifid'.instr.op = "branch"
    BY BubbleFields DEF ClockEdge, IfIdNext, PipelineInv, PredictedBranches,
                        FetchPairing
  <1>4. idex'.pred => idex'.instr.op = "branch"
    BY BubbleFields DEF ClockEdge, IdExNext, PipelineInv, PredictedBranches
  <1> QED BY <1>1, <1>2, <1>3, <1>4 DEF PredictedBranches, Fetched

LEMMA StepPairing ==
  ASSUME TypeOK, PipelineInv, ClockEdge
  PROVE  FetchPairing'
  <1>1. imem' = imem
    BY DEF ClockEdge, Memories
  <1>2. fetch'.valid => imem_data' = Fetched(fetch'.pc)
    BY BubbleFields DEF ClockEdge, Memories, FetchNext, ImemDataNext, ImemAddr,
                        Fetched
  <1>3. ifid'.valid => ifid'.instr = Fetched(ifid'.pc)
    BY BubbleFields DEF ClockEdge, IfIdNext, PipelineInv, FetchPairing
  <1>4. Real' => idex'.instr = Fetched(idex'.pc)
    BY BubbleFields DEF ClockEdge, IdExNext, PipelineInv, FetchPairing,
                        BubblesInert, Real
  <1> QED BY <1>1, <1>2, <1>3, <1>4 DEF FetchPairing, Fetched

LEMMA StepPath ==
  ASSUME TypeOK, PipelineInv, ClockEdge
  PROVE  PathUnbroken'
  <1>1. imem' = imem
    BY DEF ClockEdge, Memories
  <1>2. /\ pc_reg' = PcRegNext /\ fetch' = FetchNext /\ ifid' = IfIdNext
        /\ idex' = IdExNext
    BY DEF ClockEdge
  <1>3. /\ Real => ifid.valid
        /\ ifid.valid => fetch.valid
        /\ ifid.valid => fetch.pc = Successor(ifid.pc, ifid.pred)
        /\ fetch.valid => pc_reg = Successor(fetch.pc, fetch.pred)
    BY DEF PipelineInv, PathUnbroken
  <1>4. CASE Redirect
    BY <1>2, <1>4, BubbleFields DEF FetchNext, IfIdNext, IdExNext, Real, PathUnbroken
  <1>5. CASE ~Redirect /\ LoadUse
    <2>1. fetch.valid /\ ifid.valid
      BY <1>3, <1>5, BubbleIsQuiet
    <2>2. /\ pc_reg' = pc_reg /\ fetch' = fetch /\ ifid' = ifid /\ ~Real'
      BY <1>2, <1>5, <2>1, BubbleFields
         DEF PcRegNext, FetchNext, IfIdNext, IdExNext, Real
    <2> QED BY <1>1, <1>3, <2>1, <2>2 DEF PathUnbroken, Successor, Fetched
  <1>6. CASE ~Redirect /\ ~LoadUse
    <2>1. fetch'.valid /\ fetch'.pc = pc_reg /\ fetch'.pred = PredictTaken
      BY <1>2, <1>6 DEF FetchNext
    <2>2. pc_reg' = Successor(pc_reg, PredictTaken)
      BY <1>2, <1>6, PredictionIsBranch DEF PcRegNext, PcNext, Redirect, Successor
    <2>3. ifid'.valid => fetch.valid /\ ifid'.pc = fetch.pc /\ ifid'.pred = fetch.pred
      BY <1>2, <1>6, BubbleFields DEF IfIdNext
    <2>4. ifid.valid => ifid'.valid /\ ifid'.pc = fetch.pc
      BY <1>2, <1>3, <1>6 DEF IfIdNext
    <2>5. Real' => ifid.valid /\ idex'.pc = ifid.pc /\ idex'.pred = ifid.pred
      BY <1>2, <1>6, BubbleFields DEF IdExNext, Real, PipelineInv, BubblesInert
    <2> QED BY <1>1, <1>3, <2>1, <2>2, <2>3, <2>4, <2>5
            DEF PathUnbroken, Successor, Fetched
  <1> QED BY <1>4, <1>5, <1>6

LEMMA StepOperands ==
  ASSUME TypeOK, PipelineInv, ClockEdge
  PROVE  OperandsHeld'
  <1>1. \A r \in Reg : ReadReg(r) = IF r = 0 THEN {} ELSE regfile'[r]
    BY DEF ReadReg, ClockEdge, Memories, RegfileNext
  <1>2. CASE Redirect \/ LoadUse
    BY <1>2, BubbleFields DEF ClockEdge, IdExNext, OperandsHeld
  <1>3. CASE ~(Redirect \/ LoadUse)
    <2>1. /\ idex'.instr = ifid.instr /\ idex'.a = ReadReg(ifid.instr.rs1)
          /\ idex'.b = ReadReg(ifid.instr.rs2)
      BY <1>3 DEF ClockEdge, IdExNext
    <2>2. ifid.instr.rs1 \in Reg /\ ifid.instr.rs2 \in Reg
      BY DEF TypeOK, IfIdType, Instr
    <2> QED BY <1>1, <2>1, <2>2 DEF OperandsHeld
  <1> QED BY <1>2, <1>3

LEMMA StepLoad ==
  ASSUME TypeOK, PipelineInv, ClockEdge
  PROVE  LoadDelayed'
  <1>1. CASE Redirect \/ LoadUse
    BY <1>1, BubbleFields DEF ClockEdge, IdExNext, LoadDelayed
  <1>2. CASE ~(Redirect \/ LoadUse)
    <2>1. ~TrapValid /\ idex'.instr = ifid.instr
      BY <1>2 DEF ClockEdge, IdExNext, Redirect
    <2>2. exmem'.op = idex.instr.op /\ exmem'.rd = idex.instr.rd
      BY <2>1 DEF ClockEdge, ExMemNext
    <2> QED BY <1>2, <2>1, <2>2 DEF LoadDelayed, LoadUse
  <1> QED BY <1>1, <1>2

LEMMA QuietPipeline ==
  ASSUME \A n \in 0 .. DEPTH - 1 : imem[n].op # "nop", fetch = FetchBubble,
         ifid = IfIdBubble, idex = IdExBubble, exmem = ExMemBubble,
         bht = [e \in Entries |-> 1]
  PROVE  PipelineInv
  <1>1. ~Real
    BY BubbleFields DEF Real
  <1> QED BY <1>1, BubbleFields
          DEF PipelineInv, BubblesInert, PredictorTrained, PredictedBranches,
              FetchPairing, PathUnbroken, OperandsHeld, LoadDelayed

LEMMA InitPipelineInv == Init => PipelineInv
  BY QuietPipeline, CoreAssumption DEF Init

LEMMA ResetPipelineInv == ASSUME PipelineInv, Reset PROVE PipelineInv'
  <1>1. imem' = imem /\ \A n \in 0 .. DEPTH - 1 : imem[n].op # "nop"
    BY DEF Reset, Memories, PipelineInv, BubblesInert
  <1>2. ~Real'
    BY BubbleFields DEF Reset, Real
  <1> QED BY <1>1, <1>2, BubbleFields
          DEF Reset, PipelineInv, BubblesInert, PredictorTrained,
              PredictedBranches, FetchPairing, PathUnbroken, OperandsHeld,
              LoadDelayed

LEMMA NextPipelineInv == TypeOK /\ PipelineInv /\ [Next]_vars => PipelineInv'
  <1> SUFFICES ASSUME TypeOK, PipelineInv, [Next]_vars PROVE PipelineInv'
    OBVIOUS
  <1>1. CASE ClockEdge
    BY <1>1, StepBubbles, StepPredictor, StepPredicted, StepPairing, StepPath,
       StepOperands, StepLoad DEF PipelineInv
  <1>2. CASE Reset
    BY <1>2, ResetPipelineInv
  <1>3. CASE UNCHANGED vars
    BY <1>3 DEF vars, PipelineInv, BubblesInert, PredictorTrained,
                PredictedBranches, FetchPairing, PathUnbroken, OperandsHeld,
                LoadDelayed, Real, Fetched, Successor
  <1> QED BY <1>1, <1>2, <1>3 DEF Next

\* The stall, the flushes, the tag and the operand muxes keep the pipeline's
\* bookkeeping intact for every program.
THEOREM PipelineCorrect == Spec => []PipelineInv
  <1>1. TypeOK /\ PipelineInv /\ [Next]_vars => TypeOK' /\ PipelineInv'
    BY NextTypeOK, NextPipelineInv
  <1> QED BY <1>1, InitTypeOK, InitPipelineInv, PTL DEF Spec

-----------------------------------------------------------------------------
(* What follows from the invariant.                                        *)

LEMMA InvOperands == TypeOK /\ PipelineInv => OperandsCurrent
  <1> SUFFICES ASSUME TypeOK, PipelineInv, Real PROVE OperandsCurrent
    BY DEF OperandsCurrent
  <1>1. ASSUME NEW r \in {idex.instr.rs1, idex.instr.rs2}, NEW w,
               w = IF r = 0 THEN {} ELSE regfile[r]
        PROVE  Forward(r, w) = AbsRegs[r]
    <2>1. r \in Reg
      BY DEF TypeOK, IdExType, Instr
    <2>2. MemMatches(r) => exmem.op # "load"
      BY DEF PipelineInv, LoadDelayed, MemMatches
    <2>3. r = 0 => ~MemMatches(r) /\ ~WbMatches(r)
      BY DEF MemMatches, WbMatches
    <2> QED BY <1>1, <2>1, <2>2, <2>3 DEF Forward, AbsRegs, MemResult
  <1>2. OperA = AbsRegs[idex.instr.rs1]
    BY <1>1 DEF OperA, PipelineInv, OperandsHeld
  <1>3. OperB = AbsRegs[idex.instr.rs2]
    BY <1>1 DEF OperB, PipelineInv, OperandsHeld
  <1> QED BY <1>2, <1>3 DEF OperandsCurrent

LEMMA InvPrediction == TypeOK /\ PipelineInv => PredictionSound
  BY PredictionIsBranch, NoBogusRedirect
     DEF PredictionSound, PipelineInv, PredictedBranches

\* Every PC travels with its own instruction.
THEOREM FetchPairingCorrect == Spec => []FetchPairing
  <1>1. PipelineInv => FetchPairing
    BY DEF PipelineInv
  <1> QED BY <1>1, PipelineCorrect, PTL

\* The slots behind EX hold one unbroken path ending at the fetch PC.
THEOREM PathCorrect == Spec => []PathUnbroken
  <1>1. PipelineInv => PathUnbroken
    BY DEF PipelineInv
  <1> QED BY <1>1, PipelineCorrect, PTL

\* Predictions are only ever about branches, and never bogus.
THEOREM PredictionCorrect == Spec => []PredictionSound
  <1> QED BY InvPrediction, TypeCorrect, PipelineCorrect, PTL

\* EX computes with the registers every older instruction left.
THEOREM OperandsCorrect == Spec => []OperandsCurrent
  <1> QED BY InvOperands, TypeCorrect, PipelineCorrect, PTL

-----------------------------------------------------------------------------
(* Refinement.  The next address, the registers, the memory and the CSRs   *)
(* of the sequential machine, one step of the pipeline later.              *)

LEMMA CodeHasNoNop ==
  ASSUME TypeOK, PipelineInv, ifid.valid
  PROVE  Known(ifid.instr.op) \/ ifid.instr.op = "unknown"
  <1>1. ifid.instr \in Instr
    BY DEF TypeOK, IfIdType
  <1>2. ifid.instr = Fetched(ifid.pc) /\ ifid.pc \in PCs
    BY DEF PipelineInv, FetchPairing, TypeOK, IfIdType
  <1>3. ifid.pc \in Nat
    BY <1>2, Sizes DEF PCs
  <1>4. ifid.pc % DEPTH \in 0 .. DEPTH - 1
    BY <1>3, ModRange, Sizes
  <1>5. ifid.instr.op # "nop"
    BY <1>2, <1>4 DEF PipelineInv, BubblesInert, Fetched
  <1> QED BY <1>1, <1>5 DEF Instr, Known

LEMMA AbsPcRedirect ==
  ASSUME TypeOK, PipelineInv, ClockEdge, Redirect
  PROVE  AbsPc' = PcNext
  BY BubbleFields DEF ClockEdge, PcRegNext, FetchNext, IfIdNext, IdExNext, AbsPc, Real

LEMMA AbsPcStep ==
  ASSUME TypeOK, PipelineInv, ClockEdge, ~Redirect
  PROVE  AbsPc' = IF Real THEN Successor(idex.pc, idex.pred) ELSE AbsPc
  <1>1. /\ pc_reg' = PcRegNext /\ fetch' = FetchNext /\ ifid' = IfIdNext
        /\ idex' = IdExNext
    BY DEF ClockEdge
  <1>2. /\ Real => ifid.valid /\ fetch.valid
        /\ Real => ifid.pc = Successor(idex.pc, idex.pred)
        /\ ifid.valid => fetch.valid
    BY DEF PipelineInv, PathUnbroken
  <1>3. CASE LoadUse
    <2>1. Real
      BY <1>3, BubbleIsQuiet
    <2>2. ~Real' /\ ifid' = ifid
      BY <1>1, <1>2, <1>3, <2>1, BubbleFields DEF IfIdNext, IdExNext, Real
    <2> QED BY <1>2, <2>1, <2>2 DEF AbsPc
  <1>4. CASE ~LoadUse
    <2>1. Real' <=> ifid.valid
      BY <1>1, <1>4, CodeHasNoNop, BubbleFields
         DEF IdExNext, Real, PipelineInv, BubblesInert
    <2>2. idex'.pc = ifid.pc
      BY <1>1, <1>4 DEF IdExNext
    <2>3. ifid'.valid <=> fetch.valid
      BY <1>1, <1>4, BubbleFields DEF IfIdNext
    <2>4. fetch.valid => ifid'.pc = fetch.pc
      BY <1>1, <1>4 DEF IfIdNext
    <2>5. fetch'.valid /\ fetch'.pc = pc_reg
      BY <1>1, <1>4 DEF FetchNext
    <2> QED BY <1>2, <2>1, <2>2, <2>3, <2>4, <2>5 DEF AbsPc
  <1> QED BY <1>3, <1>4

\* What MEM and WB hold is in the registers one edge later; only the
\* instruction leaving EX is new.
LEMMA RegsStep ==
  ASSUME TypeOK, ClockEdge, NEW r \in Reg, r # 0, ~MemMatches(r)'
  PROVE  AbsRegs'[r] = AbsRegs[r]
  <1>1. memwb' = MemWbNext
    BY DEF ClockEdge
  <1>2. WbMatches(r)' <=> MemMatches(r)
    BY <1>1 DEF WbMatches, MemMatches, MemWbNext
  <1>3. WbData' = MemResult
    BY <1>1 DEF WbData, MemResult, MemWbNext, ClockEdge, Memories, DmemRdataNext
  <1>4. regfile'[r] = IF WbMatches(r) THEN WbData ELSE regfile[r]
    BY DEF ClockEdge, Memories, RegfileNext
  <1> QED BY <1>2, <1>3, <1>4 DEF AbsRegs

LEMMA RegsStepNoWrite ==
  ASSUME TypeOK, ClockEdge, \A r \in Reg : ~MemMatches(r)'
  PROVE  AbsRegs' = AbsRegs
  <1>1. \A r \in Reg : AbsRegs'[r] = AbsRegs[r]
    BY RegsStep DEF AbsRegs
  <1> QED BY <1>1 DEF AbsRegs

LEMMA MemStep ==
  ASSUME ClockEdge
  PROVE  /\ mem' = AbsMem
         /\ exmem'.op # "store" => AbsMem' = AbsMem
  BY DEF ClockEdge, Memories, AbsMem, MemNext

\* Isa has its own copy of Rv32's operators; they are the pipeline's.
LEMMA SameDecode ==
  ASSUME NEW op
  PROVE  /\ I!Known(op) <=> Known(op)
         /\ I!RegWrite(op) <=> RegWrite(op)
         /\ I!IsCsr(op) <=> IsCsr(op)
         /\ I!IsJump(op) <=> IsJump(op)
  BY DEF I!Known, Known, I!Opcode, Opcode, I!RegWrite, RegWrite, I!IsCsr, IsCsr,
         I!IsJump, IsJump

LEMMA SameAddress ==
  ASSUME NEW i, NEW p, NEW a
  PROVE  /\ I!Inc(p) = Inc(p) /\ I!Target(p, i) = Target(p, i)
         /\ I!JumpTarget(i, p, a) = JumpTarget(i, p, a)
  BY DEF I!Inc, Inc, I!Target, Target, I!JumpTarget, JumpTarget

LEMMA SameResult ==
  ASSUME NEW i, NEW p, NEW a, NEW b
  PROVE  I!AluResult(i, p, a, b) = AluResult(i, p, a, b)
  BY SameDecode, SameAddress
     DEF I!AluResult, AluResult, I!AluOp, AluOp, I!OperandA, OperandA,
         I!OperandB, OperandB, I!AluSrc, AluSrc

LEMMA SameTraps ==
  ASSUME NEW c, NEW l, NEW p, NEW x
  PROVE  /\ I!Pending(c, l) = Pending(c, l)
         /\ I!IrqCause(l) = IrqCause(l)
         /\ I!TrapEntry(c, p, x) = TrapEntry(c, p, x)
         /\ I!TrapReturn(c) = TrapReturn(c)
         /\ I!CsrReset = CsrReset
  BY DEF I!Pending, Pending, I!IrqBits, IrqBits, I!SoftBit, SoftBit, I!TimerBit,
         TimerBit, I!ExtBit, ExtBit, I!IrqCause, IrqCause, I!TrapEntry, TrapEntry,
         I!TrapReturn, TrapReturn, I!CsrReset, CsrReset

LEMMA SameCsrRead ==
  ASSUME NEW c, NEW n, NEW l
  PROVE  I!CsrRead(c, n, l) = CsrRead(c, n, l)
  <1>1. I!StatusWord(c) = StatusWord(c)
    BY DEF I!StatusWord, StatusWord, I!MIEBit, MIEBit, I!MPIEBit, MPIEBit,
           I!MPPBits, MPPBits
  <1> QED BY <1>1 DEF I!CsrRead, CsrRead

LEMMA SameCsr ==
  ASSUME NEW c, NEW i, NEW a, NEW l
  PROVE  I!CsrExecute(c, i, a, l) = CsrExecute(c, i, a, l)
  <1>1. I!CsrSource(i, a) = CsrSource(i, a)
    BY DEF I!CsrSource, CsrSource
  <1>2. \A s : I!CsrWrites(i, s) <=> CsrWrites(i, s)
    BY SameDecode DEF I!CsrWrites, CsrWrites
  <1>3. \A o, s : I!CsrNewWord(i, o, s) = CsrNewWord(i, o, s)
    BY DEF I!CsrNewWord, CsrNewWord
  <1>4. \A n, w : I!CsrWrite(c, n, w) = CsrWrite(c, n, w)
    BY DEF I!CsrWrite, CsrWrite, I!MIEBit, MIEBit, I!MPIEBit, MPIEBit
  <1> QED BY <1>1, <1>2, <1>3, <1>4, SameCsrRead DEF I!CsrExecute, CsrExecute

LEMMA AbsState ==
  ASSUME TypeOK, PipelineInv, Real
  PROVE  /\ AbsPc = idex.pc
         /\ I!Current = idex.instr
         /\ I!A = OperA /\ I!B = OperB
         /\ idex.valid <=> Known(idex.instr.op)
  <1>1. AbsPc = idex.pc
    BY DEF AbsPc
  <1>2. I!Current = idex.instr
    BY <1>1 DEF I!Current, PipelineInv, FetchPairing, Fetched
  <1>3. I!A = OperA /\ I!B = OperB
    BY <1>2, InvOperands DEF I!A, I!B, OperandsCurrent
  <1>4. idex.valid <=> Known(idex.instr.op)
    BY DEF PipelineInv, BubblesInert, Real, Known
  <1> QED BY <1>1, <1>2, <1>3, <1>4

LEMMA StepIdle == ASSUME TypeOK, PipelineInv, ClockEdge, ~Real PROVE I!Idle
  <1>1. /\ ~Redirect /\ ~TrapValid /\ ~idex.valid
        /\ idex.instr.op \in {"nop", "opimm"} /\ idex.instr.rd = 0
    BY BubbleIsQuiet, BubbleFields DEF PipelineInv, BubblesInert, Real
  <1>2. AbsPc' = AbsPc
    BY <1>1, AbsPcStep
  <1>3. csr' = csr
    BY <1>1 DEF ClockEdge, CsrNext, TakeTrap, TakeIrq, TakeSync, TakeMret
  <1>4. exmem'.op \in {"nop", "opimm"} /\ exmem'.rd = 0
    BY <1>1 DEF ClockEdge, ExMemNext
  <1>5. AbsRegs' = AbsRegs
    BY <1>4, RegsStepNoWrite DEF MemMatches
  <1>6. AbsMem' = AbsMem
    BY <1>4, MemStep
  <1>7. imem' = imem /\ irq' \in SUBSET IrqLines
    BY DEF ClockEdge, Memories, Lines
  <1> QED BY <1>2, <1>3, <1>5, <1>6, <1>7 DEF I!Idle, I!Lines

\* A trap, of whatever kind: nothing of the cancelled instruction survives.
LEMMA TrapLeaves ==
  ASSUME TypeOK, PipelineInv, ClockEdge, TrapValid
  PROVE  /\ AbsPc' = TrapTarget /\ AbsRegs' = AbsRegs /\ AbsMem' = AbsMem
         /\ imem' = imem /\ I!Lines
  <1>1. AbsPc' = TrapTarget
    BY AbsPcRedirect DEF PcNext, Redirect
  <1>2. exmem' = ExMemBubble
    BY DEF ClockEdge, ExMemNext
  <1>3. AbsRegs' = AbsRegs
    BY <1>2, BubbleFields, RegsStepNoWrite DEF MemMatches
  <1>4. AbsMem' = AbsMem
    BY <1>2, BubbleFields, MemStep
  <1>5. imem' = imem /\ I!Lines
    BY DEF ClockEdge, Memories, Lines, I!Lines
  <1> QED BY <1>1, <1>3, <1>4, <1>5

LEMMA StepTrap ==
  ASSUME TypeOK, PipelineInv, ClockEdge, TakeTrap
  PROVE  I!Exception \/ I!Interrupt
  <1>1. idex.valid /\ Real /\ TrapValid
    BY DEF TakeTrap, TakeIrq, TakeSync, Real, TrapValid
  <1>2. AbsPc' = csr.mtvec /\ UNCHANGED <<imem, AbsRegs, AbsMem>> /\ I!Lines
    BY <1>1, TrapLeaves DEF TrapTarget
  <1>3. csr' = TrapEntry(csr, AbsPc, TrapCause)
    BY <1>1, AbsState DEF ClockEdge, CsrNext
  <1>4. CASE TakeSync
    <2>1. I!ExceptionOp /\ TrapCause = I!Current.op
      BY <1>1, <1>4, AbsState DEF I!ExceptionOp, TakeSync, TrapCause
    <2> QED BY <1>2, <1>3, <2>1, SameTraps DEF I!Exception
  <1>5. CASE ~TakeSync
    <2>1. ~I!ExceptionOp /\ I!Interrupted
      BY <1>1, <1>5, AbsState, SameTraps, SameDecode
         DEF I!ExceptionOp, I!Interrupted, TakeSync, TakeTrap, TakeIrq, Enabled
    <2>2. TrapCause = IrqCause(Pending(csr, irq))
      BY <1>5 DEF TrapCause, Enabled
    <2> QED BY <1>2, <1>3, <2>1, <2>2, SameTraps DEF I!Interrupt
  <1> QED BY <1>4, <1>5

LEMMA StepReturn ==
  ASSUME TypeOK, PipelineInv, ClockEdge, TakeMret, ~TakeTrap
  PROVE  I!Return
  <1>1. idex.valid /\ Real /\ TrapValid
    BY DEF TakeMret, Real, TrapValid
  <1>2. AbsPc' = csr.mepc /\ UNCHANGED <<imem, AbsRegs, AbsMem>> /\ I!Lines
    BY <1>1, TrapLeaves DEF TrapTarget
  <1>3. csr' = TrapReturn(csr)
    BY DEF ClockEdge, CsrNext
  <1>4. I!Current.op = "mret" /\ ~I!Interrupted
    BY <1>1, AbsState, SameTraps DEF TakeMret, TakeTrap, TakeIrq, I!Interrupted, Enabled
  <1> QED BY <1>2, <1>3, <1>4, SameTraps DEF I!Return

\* The next address of an instruction that is not trapped: the redirect it
\* causes, or the path predicted for it, which was then right.
LEMMA ExecutePc ==
  ASSUME TypeOK, PipelineInv, ClockEdge, Real, ~TrapValid
  PROVE  AbsPc' = I!Follow
  <1> DEFINE i == idex.instr
  <1>1. /\ i \in Instr /\ i = Fetched(idex.pc)
        /\ idex.pred \in BOOLEAN
    BY DEF TypeOK, IdExType, PipelineInv, FetchPairing
  <1>2. BranchTaken \in BOOLEAN
    <2>1. i.f \in Func
      BY <1>1 DEF Instr
    <2> QED BY <2>1, OperandType, ConstantsAssumption DEF BranchTaken
  <1>3. /\ I!Follow = CASE IsJump(i.op)   -> JumpTarget(i, idex.pc, OperA)
                        [] i.op = "branch" -> IF BranchTaken THEN Target(idex.pc, i)
                                                             ELSE Inc(idex.pc)
                        [] OTHER           -> Inc(idex.pc)
    BY AbsState, SameDecode, SameAddress DEF I!Follow, BranchTaken
  <1>4. AbsPc' = IF Redirect THEN PcNext ELSE Successor(idex.pc, idex.pred)
    BY AbsPcRedirect, AbsPcStep
  <1>5. CASE IsJump(i.op)
    <2>1. Redirect /\ PcNext = JumpTarget(i, idex.pc, OperA)
      BY <1>5 DEF Redirect, JumpValid, PcNext
    <2> QED BY <1>3, <1>4, <1>5, <2>1 DEF IsJump
  <1>6. CASE i.op = "branch"
    <2>1. ~IsJump(i.op) /\ BranchValid /\ ~JumpValid
      BY <1>6 DEF IsJump, BranchValid, JumpValid
    <2>2. Redirect <=> BranchTaken # idex.pred
      BY <2>1, <1>1, <1>2 DEF Redirect, Mispredicted, BogusRedirect
    <2>3. Redirect => PcNext = IF BranchTaken THEN Target(idex.pc, i) ELSE Inc(idex.pc)
      BY <2>1 DEF Redirect, PcNext
    <2> QED BY <1>1, <1>2, <1>3, <1>4, <1>6, <2>1, <2>2, <2>3 DEF Successor
  <1>7. CASE ~IsJump(i.op) /\ i.op # "branch"
    <2>1. ~BranchValid /\ ~JumpValid /\ ~Redirect /\ ~idex.pred
      BY <1>7, NoBogusRedirect
         DEF BranchValid, JumpValid, Redirect, Mispredicted, PipelineInv,
             PredictedBranches
    <2> QED BY <1>3, <1>4, <1>7, <2>1 DEF Successor
  <1> QED BY <1>5, <1>6, <1>7

LEMMA ExecuteRegs ==
  ASSUME TypeOK, PipelineInv, ClockEdge, Real, ~TrapValid
  PROVE  AbsRegs' = IF I!RegWrite(I!Current.op)
                      THEN I!WriteReg(I!Current.rd, I!Result) ELSE AbsRegs
  <1> DEFINE i == idex.instr
             addr == Alu("ADD", OperA, i.imm)
  <1>1. /\ exmem'.op = i.op /\ exmem'.f = i.f /\ exmem'.rd = i.rd
        /\ exmem'.res = ExResult
    BY DEF ClockEdge, ExMemNext
  <1>2. mem' = AbsMem
    BY MemStep
  <1>3. I!Result = CASE i.op = "load" -> Extend(i.f, addr, AbsMem[AddrOf(addr)])
                     [] IsCsr(i.op)   -> CsrRead(csr, i.csr, irq)
                     [] OTHER         -> AluResult(i, idex.pc, OperA, OperB)
    BY AbsState, SameDecode, SameCsrRead, SameResult DEF I!Result
  <1>4. i.op = "load" => ExResult = addr /\ ~IsCsr(i.op)
    BY DEF ExResult, IsCsr, AluResult, IsJump, AluOp, OperandA, OperandB, AluSrc
  <1>5. MemResult' = I!Result
    <2>1. CASE i.op = "load"
      BY <2>1, <1>1, <1>2, <1>3, <1>4 DEF MemResult
    <2>2. CASE i.op # "load"
      BY <2>2, <1>1, <1>3 DEF MemResult, ExResult
    <2> QED BY <2>1, <2>2
  <1>6. i.rd \in Reg
    BY DEF TypeOK, IdExType, Instr
  <1>7. \A r \in Reg : MemMatches(r)' <=> RegWrite(i.op) /\ i.rd # 0 /\ i.rd = r
    BY <1>1 DEF MemMatches
  <1>8. CASE RegWrite(i.op) /\ i.rd # 0
    <2>1. \A r \in Reg : AbsRegs'[r] = IF r = i.rd THEN I!Result ELSE AbsRegs[r]
      BY <1>5, <1>7, <1>8, RegsStep DEF AbsRegs
    <2>2. AbsRegs' = [AbsRegs EXCEPT ![i.rd] = I!Result]
      BY <2>1 DEF AbsRegs
    <2> QED BY <1>8, <2>2, AbsState, SameDecode DEF I!WriteReg
  <1>9. CASE ~(RegWrite(i.op) /\ i.rd # 0)
    <2>1. AbsRegs' = AbsRegs
      BY <1>7, <1>9, RegsStepNoWrite
    <2> QED BY <1>9, <2>1, AbsState, SameDecode DEF I!WriteReg
  <1> QED BY <1>8, <1>9

LEMMA ExecuteMem ==
  ASSUME TypeOK, PipelineInv, ClockEdge, Real, ~TrapValid
  PROVE  AbsMem' = IF I!Current.op = "store" THEN I!Stored ELSE AbsMem
  <1> DEFINE i == idex.instr
             addr == Alu("ADD", OperA, i.imm)
  <1>1. /\ exmem'.op = i.op /\ exmem'.f = i.f
        /\ exmem'.res = ExResult /\ exmem'.data = OperB
    BY DEF ClockEdge, ExMemNext
  <1>2. i.op = "store" => ExResult = addr
    BY DEF ExResult, IsCsr, AluResult, IsJump, AluOp, OperandA, OperandB, AluSrc
  <1>3. CASE i.op = "store"
    <2>1. AbsMem' = [mem' EXCEPT ![AddrOf(addr)] =
                       Merge(i.f, addr, mem'[AddrOf(addr)], OperB)]
      BY <1>1, <1>2, <1>3 DEF AbsMem, MemNext
    <2> QED BY <1>3, <2>1, MemStep, AbsState DEF I!Stored
  <1>4. CASE i.op # "store"
    BY <1>1, <1>4, MemStep, AbsState
  <1> QED BY <1>3, <1>4

LEMMA StepExecute ==
  ASSUME TypeOK, PipelineInv, ClockEdge, Real, ~TrapValid
  PROVE  I!Execute
  <1>1. /\ I!Current = idex.instr /\ I!A = OperA
        /\ idex.valid <=> Known(idex.instr.op)
    BY AbsState
  <1>2. ~I!ExceptionOp /\ I!Current.op # "mret"
    BY <1>1 DEF I!ExceptionOp, TrapValid, TakeTrap, TakeSync, TakeMret, Real, Known,
                Opcode
  <1>3. ~I!Interrupted
    BY <1>1, SameTraps, SameDecode
       DEF I!Interrupted, TrapValid, TakeTrap, TakeIrq, Enabled
  <1>4. csr' = I!CsrExecute(csr, I!Current, I!A, irq)
    <2>1. csr' = IF idex.valid THEN CsrExecute(csr, idex.instr, OperA, irq) ELSE csr
      BY DEF ClockEdge, CsrNext, TrapValid
    <2>2. ~idex.valid => CsrExecute(csr, idex.instr, OperA, irq) = csr
      BY <1>1 DEF Real, CsrExecute, CsrWrites, IsCsr
    <2> QED BY <1>1, <2>1, <2>2, SameCsr
  <1>5. imem' = imem /\ I!Lines
    BY DEF ClockEdge, Memories, Lines, I!Lines
  <1> QED BY <1>2, <1>3, <1>4, <1>5, ExecutePc, ExecuteRegs, ExecuteMem DEF I!Execute

LEMMA AbsRegsType == ASSUME TypeOK PROVE AbsRegs \in [Reg -> I!Word] /\ AbsRegs[0] = {}
  <1>1. MemResult \in Word /\ WbData \in Word /\ {} \in Word
    <2>1. exmem.f \in Func /\ exmem.res \in Word /\ mem \in [Addr -> Word]
      BY DEF TypeOK, ExMemType
    <2>2. mem[AddrOf(exmem.res)] \in Word
      BY <2>1, PcWordType
    <2> QED BY <2>1, <2>2, MemoryWordType, WbDataType, ZeroWord DEF MemResult
  <1>2. \A r \in Reg : AbsRegs[r] \in Word
    BY <1>1 DEF AbsRegs, TypeOK
  <1> QED BY <1>2, AddFunc DEF AbsRegs, Word, I!Word

LEMMA StepReset == ASSUME TypeOK', Reset PROVE I!Reset
  <1>1. /\ ~Real' /\ AbsPc' = 0
    BY BubbleFields DEF Reset, Real, AbsPc
  <1>2. AbsMem' = AbsMem
    BY BubbleFields DEF Reset, Memories, AbsMem, MemNext
  <1>3. AbsRegs' \in [Reg -> I!Word] /\ AbsRegs'[0] = {}
    <2>1. (AbsRegs \in [Reg -> I!Word] /\ AbsRegs[0] = {})'
      BY AbsRegsType, PTL
    <2> QED BY <2>1
  <1>4. imem' = imem /\ csr' = I!CsrReset /\ I!Lines
    BY SameTraps DEF Reset, Memories, Lines, I!Lines
  <1> QED BY <1>1, <1>2, <1>3, <1>4 DEF I!Reset

LEMMA InitMaps == Init => I!Init
  <1> SUFFICES ASSUME Init PROVE I!Init
    OBVIOUS
  <1>1. TypeOK
    BY InitTypeOK
  <1>2. AbsPc = 0 /\ AbsMem = mem
    BY BubbleFields DEF Init, AbsPc, Real, AbsMem, MemNext
  <1>3. imem \in [0 .. DEPTH - 1 -> I!Instr] /\ AbsMem \in [Addr -> I!Word]
    BY <1>1, <1>2
       DEF TypeOK, Instr, I!Instr, Opcode, I!Opcode, CsrName, I!CsrName, PCs, I!PCs,
           Word, I!Word
  <1>4. csr = I!CsrReset /\ irq \in SUBSET IrqLines
    BY SameTraps DEF Init
  <1> QED BY <1>1, <1>2, <1>3, <1>4, AbsRegsType DEF I!Init

\* Every edge of the pipeline is a step of the sequential machine.
LEMMA StepMaps == TypeOK /\ TypeOK' /\ PipelineInv /\ [Next]_vars => [I!Next]_(I!isaVars)
  <1> SUFFICES ASSUME TypeOK, TypeOK', PipelineInv, [Next]_vars
               PROVE  [I!Next]_(I!isaVars)
    OBVIOUS
  <1>1. CASE ClockEdge
    <2>1. CASE ~Real
      BY <1>1, <2>1, StepIdle DEF I!Next
    <2>2. CASE Real /\ ~TrapValid
      BY <1>1, <2>2, StepExecute DEF I!Next
    <2>3. CASE TakeTrap
      BY <1>1, <2>3, StepTrap DEF I!Next
    <2>4. CASE TakeMret /\ ~TakeTrap
      BY <1>1, <2>4, StepReturn DEF I!Next
    <2> QED BY <2>1, <2>2, <2>3, <2>4 DEF TrapValid
  <1>2. CASE Reset
    BY <1>2, StepReset DEF I!Next
  <1>3. CASE UNCHANGED vars
    <2>1. AbsPc' = AbsPc /\ AbsRegs' = AbsRegs /\ AbsMem' = AbsMem
      BY <1>3 DEF vars, AbsPc, Real, AbsRegs, MemMatches, WbMatches, MemResult, WbData,
                  AbsMem, MemNext
    <2> QED BY <1>3, <2>1 DEF vars, I!isaVars
  <1> QED BY <1>1, <1>2, <1>3 DEF Next

\* The pipeline implements the sequential machine: whatever the program, the
\* ALU, the predictor's size and the interrupts, software cannot tell the
\* five stages from one instruction at a time with precise traps.
THEOREM Refinement == Spec => ImplementsIsa
  <1>1. Spec => [](TypeOK /\ PipelineInv)
    BY TypeCorrect, PipelineCorrect, PTL
  <1> QED BY <1>1, InitMaps, StepMaps, PTL DEF Spec, ImplementsIsa, I!Spec
-----------------------------------------------------------------------------
(* The counters.  Perf's accounting holds for every program, core and      *)
(* bound.  The pipeline invariant does the work: it says how far behind    *)
(* EX the next instruction is.                                             *)

PerfTypeOK ==
  /\ perf \in [cycles : Nat, instret : Nat, branches : Nat, mispredicts : Nat,
               stall_cycles : Nat]
  /\ seen \in [slots : Nat, complete : Nat, overridden : Nat]

LEMMA RetireBubbles == ExMemBubble.valid = FALSE /\ MemWbBubble.valid = FALSE
  BY DEF ExMemBubble, MemWbBubble

\* What Perf runs is the pipeline, so what holds of the pipeline holds here.
LEMMA PerfCore == PerfSpec => [](TypeOK /\ PipelineInv)
  <1>1. PerfInit => Init
    BY DEF PerfInit
  <1>2. [PerfNext]_perfVars => [Next]_vars
    BY DEF PerfNext, PerfEdge, PerfReset, Next, perfVars
  <1>3. PerfSpec => Spec
    BY <1>1, <1>2, PTL DEF PerfSpec, Spec
  <1> QED BY <1>3, TypeCorrect, PipelineCorrect, PTL

LEMMA PerfTypes == PerfSpec => []PerfTypeOK
  <1>1. PerfInit => PerfTypeOK
    BY DEF PerfInit, PerfTypeOK, PerfZero, SeenZero
  <1>2. PerfTypeOK /\ [PerfNext]_perfVars => PerfTypeOK'
    <2> SUFFICES ASSUME PerfTypeOK, [PerfNext]_perfVars PROVE PerfTypeOK'
      OBVIOUS
    <2>1. \A P : One(P) \in Nat
      BY DEF One
    <2>2. CASE PerfEdge
      BY <2>1, <2>2, PerfAssumption
         DEF PerfEdge, Count, Record, GiveUp, PerfZero, SeenZero, PerfTypeOK
    <2>3. CASE PerfReset
      BY <2>3 DEF PerfReset, PerfTypeOK, PerfZero, SeenZero
    <2>4. CASE UNCHANGED perfVars
      BY <2>4 DEF perfVars, PerfTypeOK
    <2> QED BY <2>2, <2>3, <2>4 DEF PerfNext
  <1> QED BY <1>1, <1>2, PTL DEF PerfSpec

\* How far the next instruction is from EX after an edge.
LEMMA RefillStep ==
  ASSUME TypeOK, PipelineInv, ClockEdge
  PROVE  Refill' = IF Redirect THEN 3 ELSE IF LoadUse THEN 1
                   ELSE IF Real THEN 0 ELSE Refill - 1
  <1>1. /\ fetch' = FetchNext /\ ifid' = IfIdNext /\ idex' = IdExNext
    BY DEF ClockEdge
  <1>2. /\ Real => ifid.valid
        /\ ifid.valid => fetch.valid
    BY DEF PipelineInv, PathUnbroken
  <1>3. CASE Redirect
    BY <1>1, <1>3, BubbleFields DEF Refill, FetchNext, IfIdNext, IdExNext, Real
  <1>4. CASE ~Redirect /\ LoadUse
    <2>1. Real
      BY <1>4, BubbleIsQuiet
    <2>2. ~Real' /\ ifid' = ifid
      BY <1>1, <1>2, <1>4, <2>1, BubbleFields DEF IfIdNext, IdExNext, Real
    <2> QED BY <1>2, <1>4, <2>1, <2>2 DEF Refill
  <1>5. CASE ~Redirect /\ ~LoadUse
    <2>1. Real' <=> ifid.valid
      BY <1>1, <1>5, CodeHasNoNop, BubbleFields
         DEF IdExNext, Real, PipelineInv, BubblesInert
    <2>2. ifid'.valid <=> fetch.valid
      BY <1>1, <1>5, BubbleFields DEF IfIdNext
    <2>3. fetch'.valid
      BY <1>1, <1>5 DEF FetchNext
    <2> QED BY <1>2, <1>5, <2>1, <2>2, <2>3 DEF Refill
  <1> QED BY <1>3, <1>4, <1>5

LEMMA NextCycles ==
  ASSUME TypeOK, PipelineInv, PerfTypeOK, CyclesAccounted, [PerfNext]_perfVars
  PROVE  CyclesAccounted'
  <1>1. CASE PerfEdge /\ Followed
    <2>1. /\ perf'.cycles = perf.cycles + 1
          /\ perf'.mispredicts = perf.mispredicts + One(Redirect)
          /\ perf'.stall_cycles = perf.stall_cycles + One(LoadUse)
          /\ seen'.slots = seen.slots + One(Real)
          /\ seen'.overridden = seen.overridden + One(LoadUse /\ Redirect)
      BY <1>1 DEF PerfEdge, Count, Record, FlushIfId
    <2>2. Refill' = IF Redirect THEN 3 ELSE IF LoadUse THEN 1
                    ELSE IF Real THEN 0 ELSE Refill - 1
      BY <1>1, RefillStep DEF PerfEdge
    <2>3. /\ Redirect \/ LoadUse => Real
          /\ Real => Refill = 0
      BY BubbleIsQuiet DEF Refill
    <2>4. /\ perf.cycles \in Nat /\ perf.mispredicts \in Nat
          /\ perf.stall_cycles \in Nat /\ seen.slots \in Nat
          /\ seen.overridden \in Nat /\ Refill \in Nat
      BY DEF PerfTypeOK, Refill
    <2>5. perf.cycles + Refill =
            seen.slots + (perf.stall_cycles - seen.overridden) + 3 * (perf.mispredicts + 1)
      BY <1>1 DEF CyclesAccounted
    <2>6. perf'.cycles + Refill' =
            seen'.slots + (perf'.stall_cycles - seen'.overridden)
              + 3 * (perf'.mispredicts + 1)
      BY <2>1, <2>2, <2>3, <2>4, <2>5 DEF One
    <2> QED BY <2>6 DEF CyclesAccounted
  <1>2. CASE PerfReset
    <2>1. Refill' = 3
      BY <1>2, BubbleFields DEF PerfReset, Reset, Refill, Real
    <2> QED BY <1>2, <2>1 DEF PerfReset, PerfZero, SeenZero, CyclesAccounted
  <1>3. CASE UNCHANGED perfVars
    BY <1>3 DEF perfVars, vars, CyclesAccounted, Followed, Refill, Real
  <1>4. CASE PerfEdge /\ ~Followed
    BY <1>4, PerfAssumption
       DEF PerfEdge, GiveUp, PerfZero, Followed, CyclesAccounted
  <1> QED BY <1>1, <1>2, <1>3, <1>4 DEF PerfNext

\* Cycles are instructions, stalls and three bubbles per redirect, exactly.
THEOREM CyclesCorrect == PerfSpec => []CyclesAccounted
  <1>1. PerfInit => CyclesAccounted
    <2>1. PerfInit => Refill = 3
      BY BubbleFields DEF PerfInit, Init, Refill, Real
    <2> QED BY <2>1 DEF PerfInit, CyclesAccounted, PerfZero, SeenZero
  <1>2. TypeOK /\ PipelineInv /\ PerfTypeOK /\ CyclesAccounted
          /\ [PerfNext]_perfVars => CyclesAccounted'
    BY NextCycles
  <1> QED BY <1>1, <1>2, PerfCore, PerfTypes, PTL DEF PerfSpec

\* Whatever completes is retired once, but for MRET, which is missed: what the
\* hardware does, and not what riscv_core.sv:445-447 says of it.
THEOREM RetiredCorrect == PerfSpec => MissesOnlyReturns
  <1>1. PerfTypeOK =>
          (PerfEdge /\ Followed => Missed' = Missed + One(TakeMret /\ ~TakeTrap))
    <2> SUFFICES ASSUME PerfTypeOK, PerfEdge, Followed
                 PROVE  Missed' = Missed + One(TakeMret /\ ~TakeTrap)
      OBVIOUS
    <2>1. /\ perf'.instret = perf.instret + One(memwb.valid)
          /\ seen'.complete = seen.complete + One(idex.valid /\ ~TakeTrap)
      BY DEF PerfEdge, Count, Record, Retired
    <2>2. memwb'.valid = exmem.valid
      BY DEF PerfEdge, ClockEdge, MemWbNext
    <2>3. exmem'.valid = IF TrapValid THEN FALSE ELSE idex.valid
      BY RetireBubbles DEF PerfEdge, ClockEdge, ExMemNext
    <2>4. One(exmem'.valid) = One(idex.valid /\ ~TakeTrap) - One(TakeMret /\ ~TakeTrap)
      BY <2>3 DEF One, TrapValid, TakeMret
    <2>5. /\ perf.instret \in Nat /\ seen.complete \in Nat
          /\ \A P : One(P) \in Nat
      BY DEF PerfTypeOK, One
    <2> QED BY <2>1, <2>2, <2>4, <2>5 DEF Missed
  <1> QED BY <1>1, PerfTypes, PTL DEF PerfSpec, MissesOnlyReturns
=============================================================================
