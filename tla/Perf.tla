-------------------------------- MODULE Perf --------------------------------
(***************************************************************************)
(* modules/core: the performance counters of riscv_core, beside the        *)
(* pipeline they count.  perf_instret counts on the same condition as the  *)
(* minstret CSR and mcycle on the same as perf_cycles, so one of each is   *)
(* kept.  A history record holds what the counters are about.              *)
(***************************************************************************)
EXTENDS Core

CONSTANT CYCLES    \* bound: edges the counters are followed for, far below their width

ASSUME PerfAssumption == CYCLES \in Nat

VARIABLES
  perf,   \* the counters: perf_cycles is perf.cycles, and so on
  seen    \* history: what went through EX, in the fields below

perfVars == <<vars, perf, seen>>

PerfZero == [cycles |-> 0, instret |-> 0, branches |-> 0, mispredicts |-> 0,
             stall_cycles |-> 0]

\* slots: edges at which EX held an instruction of the program.  complete: valid
\* instructions that executed, MRET included.  overridden: stalls counted on an
\* edge at which a redirect outranked them.
SeenZero == [slots |-> 0, complete |-> 0, overridden |-> 0]

One(P) == IF P THEN 1 ELSE 0

\* Bug variant: retirement is seen as an instruction enters EX, when a trap may
\* still cancel it.
RetiredEarly == idex.valid

\* WB holds a real instruction.
Retired == memwb.valid

\* Bug variant: only a misprediction counts, so neither a jump nor a trap does.
FlushMispredicted == Mispredicted

\* The IF flush the counter listens to, whatever raised it.
FlushIfId == Redirect

Count ==
  perf' = [cycles       |-> perf.cycles + 1,
           instret      |-> perf.instret + One(Retired),
           branches     |-> perf.branches + One(BranchValid),
           mispredicts  |-> perf.mispredicts + One(FlushIfId),
           stall_cycles |-> perf.stall_cycles + One(LoadUse)]

Record ==
  seen' = [slots      |-> seen.slots + One(Real),
           complete   |-> seen.complete + One(idex.valid /\ ~TakeTrap),
           overridden |-> seen.overridden + One(LoadUse /\ Redirect)]

PerfInit == Init /\ perf = PerfZero /\ seen = SeenZero

\* Past the bound the core goes on and the counters are no longer looked at.
Followed == perf.cycles < CYCLES
GiveUp   == perf' = [PerfZero EXCEPT !.cycles = CYCLES] /\ seen' = SeenZero

PerfEdge == ClockEdge /\ IF Followed THEN Count /\ Record ELSE GiveUp

PerfReset == Reset /\ perf' = PerfZero /\ seen' = SeenZero

PerfNext == PerfEdge \/ PerfReset

PerfSpec == PerfInit /\ [][PerfNext]_perfVars

\* The clock does not stop, and the reset is released for good some time.
PerfRunSpec == PerfSpec /\ WF_perfVars(PerfEdge) /\ <>[][PerfEdge]_perfVars

-----------------------------------------------------------------------------
(* Properties.                                                             *)

\* The edges until the next instruction reaches EX.
Refill == IF Real THEN 0 ELSE IF ifid.valid THEN 1 ELSE IF fetch.valid THEN 2 ELSE 3

\* Every cycle is accounted for: EX held an instruction, or the bubble of a
\* load-use stall, or one of the three a redirect (or reset) costs.  So a flush
\* is never wider or narrower than the fetch path is deep, and stalls never
\* last (riscv_core.sv:435-464, hazard_unit.sv:61-67).
CyclesAccounted ==
  Followed =>
    perf.cycles + Refill =
      seen.slots + (perf.stall_cycles - seen.overridden) + 3 * (perf.mispredicts + 1)

\* What completed and is neither retired nor on its way through MEM and WB.
Missed == seen.complete - (perf.instret + One(exmem.valid) + One(memwb.valid))

\* Each instruction that completes is retired once: none twice, none that a trap
\* cancelled, none lost behind EX, but for MRET.  It leaves EX as a bubble and the
\* counter misses every one, where riscv_core.sv:445-447 says that it no longer
\* does and docs/core.md:167 counts all instructions (riscv_core.sv:334-352, 448).
MissesOnlyReturns ==
  [][PerfEdge /\ Followed => Missed' = Missed + One(TakeMret /\ ~TakeTrap)]_perfVars
=============================================================================
