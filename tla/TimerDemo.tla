----------------------------- MODULE TimerDemo ------------------------------
(***************************************************************************)
(* socgen/firmware.py build_timer_demo on the SoC: a loop interrupted by   *)
(* the timer, with the CLINT on the core's data bus.  One step per clock   *)
(* edge.  The core is reduced to what the program can see of it: one       *)
(* instruction in EX per edge or a bubble, its bus access in MEM on the    *)
(* edge after, an interrupt taken before an instruction in EX, and three   *)
(* bubbles behind every redirect (Core and Perf establish all four).       *)
(***************************************************************************)
EXTENDS Clint, Sequences

CONSTANTS
  PERIOD,    \* TIMER_PERIOD
  SLACK,     \* bound: bubbles between two instructions, beyond a redirect's
  HORIZON    \* bound: the time up to which the program is followed

ASSUME TimerAssumption == PERIOD \in Half /\ SLACK \in Nat /\ HORIZON \in Nat

\* The instructions, li of constants and register moves left out.  "ram" is a
\* store to the evidence slots, which the CLINT only sees as another address.
Handler == <<"count", "ram", "mcause", "ram", "mepc", "ram",
             "park", "high", "now", "add", "set", "mret">>
Main    == <<"park", "high", "now", "add", "set", "mtvec", "mie", "mstatus",
             "addi", "main", "loop">>
LOOP    == 9       \* the label "loop" in Main

VARIABLES
  at,      \* [in, n]: the next instruction
  mepc, MIE, MPIE,
  bus,     \* the access in MEM: [addr, we, wdata]
  x23,     \* the deadline register
  wait,    \* bubbles before the next instruction, at least
  idle,    \* bubbles spent beyond those
  due,     \* history: the time the handler is next asked to run at
  ran      \* history: "main" has executed since the last interrupt

coreVars == <<at, mepc, MIE, MPIE, bus, x23, wait, idle>>
vars == <<clintVars, coreVars, due, ran>>

MainAt(n)    == [in |-> "main", n |-> n]
HandlerAt(n) == [in |-> "handler", n |-> n]
Op == IF at.in = "main" THEN Main[at.n] ELSE Handler[at.n]

NoBus        == [addr |-> "other", we |-> FALSE, wdata |-> 0]
BusRead(a)   == [addr |-> a, we |-> FALSE, wdata |-> 0]
BusWrite(a, w) == [addr |-> a, we |-> TRUE, wdata |-> w]

\* What the CLINT does with the access in MEM, on every edge.
Clock ==
  /\ mtime < HORIZON
  /\ Edge(bus.addr)
  /\ IF bus.we THEN Write(bus.addr, bus.wdata) ELSE NoWrite

\* The word of a load is forwarded as it comes back from the bus.
Loading == bus.addr = "MTIME_LO"
Loaded  == IF Loading THEN Read("MTIME_LO") ELSE x23

\* The deadline meant by the time just read, whatever the halves can hold.
Due == IF Loading THEN mtime + PERIOD ELSE due

\* Bug variant: the global enable is not looked at.
TakeTimerUngated == Mtip

\* mtvec and mie are set before mstatus, so MIE alone gates the timer.
TakeTimer == MIE /\ Mtip

\* A load-use pair is kept apart by the stall.
Stalled == Op = "add" /\ Loading

\* A redirect's bubble, a stall's, or one the abstraction leaves open.
Bubble ==
  /\ Clock
  /\ \/ wait > 0 /\ wait' = wait - 1 /\ UNCHANGED idle
     \/ wait = 0 /\ Stalled /\ UNCHANGED <<wait, idle>>
     \/ wait = 0 /\ ~Stalled /\ idle < SLACK /\ idle' = idle + 1 /\ UNCHANGED wait
  /\ bus' = NoBus
  /\ x23' = Loaded
  /\ due' = Due
  /\ UNCHANGED <<at, mepc, MIE, MPIE, ran>>

\* The instruction in EX is cancelled and will be run again after mret.
Interrupt ==
  /\ wait = 0
  /\ ~Stalled
  /\ TakeTimer
  /\ Clock
  /\ at' = HandlerAt(1)
  /\ mepc' = at
  /\ MPIE' = MIE
  /\ MIE' = FALSE
  /\ wait' = 3
  /\ idle' = 0
  /\ bus' = NoBus
  /\ x23' = Loaded
  /\ ran' = FALSE
  /\ due' = Due

Execute ==
  /\ wait = 0
  /\ ~TakeTimer
  /\ ~Stalled
  /\ Clock
  /\ idle' = 0
  /\ bus' = CASE Op = "park" -> BusWrite("MTIMECMP_LO", Ones)
              [] Op = "high" -> BusWrite("MTIMECMP_HI", 0)
              [] Op = "now"  -> BusRead("MTIME_LO")
              [] Op = "set"  -> BusWrite("MTIMECMP_LO", x23)
              [] OTHER       -> NoBus
  /\ x23' = IF Op = "add" THEN (x23 + PERIOD) % W ELSE Loaded
  /\ MIE' = CASE Op = "mstatus" -> TRUE [] Op = "mret" -> MPIE [] OTHER -> MIE
  /\ MPIE' = IF Op = "mret" THEN TRUE ELSE MPIE
  /\ at' = CASE Op = "mret" -> mepc
             [] Op = "loop" -> MainAt(LOOP)
             [] OTHER       -> [at EXCEPT !.n = @ + 1]
  \* The loop branch may or may not have been predicted.
  /\ wait' \in CASE Op = "mret" -> {3} [] Op = "loop" -> {0, 3} [] OTHER -> {0}
  /\ ran' = (ran \/ Op = "main")
  /\ due' = Due
  /\ UNCHANGED mepc

Init ==
  /\ ClintInit
  /\ at = MainAt(1)
  /\ mepc = MainAt(1) /\ MIE = FALSE /\ MPIE = FALSE
  /\ bus = NoBus
  /\ x23 = 0
  /\ wait = 0 /\ idle = 0
  /\ due = 0
  /\ ran = FALSE

Next == Bubble \/ Interrupt \/ Execute

Spec == Init /\ [][Next]_vars

-----------------------------------------------------------------------------
(* Properties.                                                             *)

\* The handler never runs before the time it was asked for: the deadline it
\* writes last has reached the CLINT before mret can let the next interrupt in,
\* and no intermediate pair fires (firmware.py:138-151, clint.sv:71-107).
NeverEarly == [][Interrupt => mtime >= due]_vars

\* firmware.py:109-110: "the interrupted loop keeps counting after mret".  Between
\* two interrupts the loop makes progress: the handler leaves it time, until the
\* low word of mtime wraps (W is above HORIZON here).  Past that firmware.py:145
\* puts every deadline in the past.
LoopKeepsCounting == [][Interrupt => ran]_vars
=============================================================================
