------------------------------- MODULE Clint --------------------------------
(***************************************************************************)
(* modules/clint: the machine timer and the software interrupt, one step   *)
(* per clock edge, under any accesses the bus may make.                    *)
(***************************************************************************)
EXTENDS Integers

CONSTANT W     \* values of one 32-bit half: 2^32

ASSUME ClintAssumption == W \in Nat \ {0, 1}

VARIABLES
  mtime,      \* free-running, 64 bits
  mtimecmp,   \* [lo, hi]
  msip_reg,
  rdata       \* the registered read port

clintVars == <<mtime, mtimecmp, msip_reg, rdata>>

Half     == 0 .. W - 1
Ones     == W - 1
Pair     == [lo : Half, hi : Half]
Value(c) == c.hi * W + c.lo

\* Register names; "other" is any offset without a register.
Register == {"MSIP", "MTIMECMP_LO", "MTIMECMP_HI", "MTIME_LO", "MTIME_HI", "other"}

\* Bug variants: an event, high only on the edge the deadline is met; and a
\* comparison early by one.
MtipPulse == mtime = Value(mtimecmp)
MtipEarly == mtime + 1 >= Value(mtimecmp)

\* A level, not a latch: the running comparison.
Mtip == mtime >= Value(mtimecmp)

Read(addr) ==
  CASE addr = "MSIP"        -> msip_reg
    [] addr = "MTIMECMP_LO" -> mtimecmp.lo
    [] addr = "MTIMECMP_HI" -> mtimecmp.hi
    [] addr = "MTIME_LO"    -> mtime % W
    [] addr = "MTIME_HI"    -> mtime \div W
    [] OTHER                -> 0

\* mtime is read-only.
Write(addr, wdata) ==
  /\ msip_reg' = IF addr = "MSIP" THEN wdata % 2 ELSE msip_reg
  /\ mtimecmp' = CASE addr = "MTIMECMP_LO" -> [mtimecmp EXCEPT !.lo = wdata]
                   [] addr = "MTIMECMP_HI" -> [mtimecmp EXCEPT !.hi = wdata]
                   [] OTHER                -> mtimecmp

\* Bug variant: no carry between the counter's halves.
CountNoCarry == mtime' = (mtime \div W) * W + ((mtime + 1) % W)

Count == mtime' = (mtime + 1) % (W * W)

\* One edge out of reset.  The read port follows the address whether or not
\* the window is selected.
Edge(addr) == Count /\ rdata' = Read(addr)

NoWrite == UNCHANGED <<mtimecmp, msip_reg>>

NoDeadline == [lo |-> Ones, hi |-> Ones]

ClintInit == /\ mtime = 0
             /\ mtimecmp = NoDeadline
             /\ msip_reg = 0
             /\ rdata = 0

ClintReset == /\ mtime' = 0
              /\ mtimecmp' = NoDeadline
              /\ msip_reg' = 0
              /\ rdata' = 0

ClintNext ==
  \/ \E addr \in Register : Edge(addr) /\ (NoWrite \/ \E w \in Half : Write(addr, w))
  \/ ClintReset

ClintSpec == ClintInit /\ [][ClintNext]_clintVars

-----------------------------------------------------------------------------
(* Properties.                                                             *)

ClintTypeOK ==
  /\ mtime \in 0 .. W * W - 1
  /\ mtimecmp \in Pair
  /\ msip_reg \in {0, 1}
  /\ rdata \in Half

\* Once high, mtip stays high until a store moves the deadline, reset, or mtime
\* itself wraps: a tick is not lost by being looked at late (clint.sv:7-11).
LevelHeld == [][Mtip /\ ~Mtip' => mtimecmp' # mtimecmp \/ mtime' = 0]_clintVars
=============================================================================
