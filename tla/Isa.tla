-------------------------------- MODULE Isa ---------------------------------
(***************************************************************************)
(* What the core promises software: one instruction at a time, each seeing *)
(* everything older and nothing younger, and interrupts taken exactly      *)
(* between two instructions.  There is no pipeline here, no prediction and *)
(* no forwarding; Core is shown to implement this machine.                 *)
(***************************************************************************)
EXTENDS Rv32

CONSTANT IrqLines      \* the interrupt lines the environment may assert

VARIABLES
  imem,  \* instruction memory, never written
  pc,    \* address of the next instruction to execute
  regs,  \* the register file
  mem,   \* data memory
  csr,   \* the machine-mode CSRs
  irq    \* the interrupt lines asserted now

isaVars == <<imem, pc, regs, mem, csr, irq>>

Current == imem[pc % DEPTH]
A       == regs[Current.rs1]
B       == regs[Current.rs2]

\* The lines are levels and change as the peripherals please.
Lines == irq' \in SUBSET IrqLines

WriteReg(r, w) == IF r = 0 THEN regs ELSE [regs EXCEPT ![r] = w]

\* An enabled pending interrupt is taken before the next known instruction,
\* unless that instruction is itself a trap, which comes first.
Interrupted == Pending(csr, irq) # {} /\ Known(Current.op)

ExceptionOp == Current.op \in {"ecall", "ebreak"}

Interrupt ==
  /\ Interrupted
  /\ ~ExceptionOp
  /\ csr' = TrapEntry(csr, pc, IrqCause(Pending(csr, irq)))
  /\ pc' = csr.mtvec
  /\ UNCHANGED <<imem, regs, mem>>
  /\ Lines

Exception ==
  /\ ExceptionOp
  /\ csr' = TrapEntry(csr, pc, Current.op)
  /\ pc' = csr.mtvec
  /\ UNCHANGED <<imem, regs, mem>>
  /\ Lines

Return ==
  /\ ~Interrupted
  /\ Current.op = "mret"
  /\ csr' = TrapReturn(csr)
  /\ pc' = csr.mepc
  /\ UNCHANGED <<imem, regs, mem>>
  /\ Lines

Result ==
  LET addr == Alu("ADD", A, Current.imm)
  IN CASE Current.op = "load" -> Extend(Current.f, addr, mem[AddrOf(addr)])
       [] IsCsr(Current.op)   -> CsrRead(csr, Current.csr, irq)
       [] OTHER               -> AluResult(Current, pc, A, B)

Stored ==
  LET addr == Alu("ADD", A, Current.imm)
  IN [mem EXCEPT ![AddrOf(addr)] = Merge(Current.f, addr, mem[AddrOf(addr)], B)]

Follow ==
  CASE IsJump(Current.op)     -> JumpTarget(Current, pc, A)
    [] Current.op = "branch"  -> IF Taken(Current.f, A, B)
                                   THEN Target(pc, Current) ELSE Inc(pc)
    [] OTHER                  -> Inc(pc)

Execute ==
  /\ ~Interrupted
  /\ ~ExceptionOp
  /\ Current.op # "mret"
  /\ regs' = IF RegWrite(Current.op) THEN WriteReg(Current.rd, Result) ELSE regs
  /\ mem' = IF Current.op = "store" THEN Stored ELSE mem
  /\ csr' = CsrExecute(csr, Current, A, irq)
  /\ pc' = Follow
  /\ UNCHANGED imem
  /\ Lines

\* A cycle in which nothing retires.
Idle == Lines /\ UNCHANGED <<imem, pc, regs, mem, csr>>

\* Reset promises a start address and quiet CSRs, memory as the last
\* instruction before it left it, and nothing about the registers but x0.
Reset ==
  /\ pc' = 0
  /\ csr' = CsrReset
  /\ regs' \in [Reg -> Word]
  /\ regs'[0] = {}
  /\ UNCHANGED <<imem, mem>>
  /\ Lines

Init ==
  /\ imem \in [0 .. DEPTH - 1 -> Instr]
  /\ pc = 0
  /\ regs \in [Reg -> Word] /\ regs[0] = {}
  /\ mem \in [Addr -> Word]
  /\ csr = CsrReset
  /\ irq \in SUBSET IrqLines

Next == Interrupt \/ Exception \/ Return \/ Execute \/ Idle \/ Reset

Spec == Init /\ [][Next]_isaVars
=============================================================================
