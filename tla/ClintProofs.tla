----------------------------- MODULE ClintProofs ----------------------------
(***************************************************************************)
(* The timer's guarantees for every width of its halves, alone and under   *)
(* the update of a deadline; and the timer demonstration while mtime fits  *)
(* its low half: its ticks are never early, and the interrupted loop gets  *)
(* on between two of them, for every period that holds the handler's tail. *)
(***************************************************************************)
EXTENDS ClintUpdate, TimerDemo, TLAPS

LEMMA Width == W \in Nat /\ W > 1 /\ Ones \in Half /\ W * W \in Nat \ {0}
  <1>1. W \in Nat /\ W > 1
    BY ClintAssumption
  <1>2. W * W \in Nat \ {0}
    BY <1>1
  <1> QED BY <1>1, <1>2 DEF Ones, Half

LEMMA Wrap == ASSUME NEW x \in Nat, NEW n \in Nat \ {0}
              PROVE  x % n \in 0 .. n - 1
  OBVIOUS

LEMMA CountType == ASSUME mtime \in Nat, Count PROVE mtime' \in 0 .. W * W - 1
  <1>1. mtime + 1 \in Nat
    OBVIOUS
  <1> QED BY <1>1, Wrap, Width DEF Count

\* Fields of a pair and their weight.
LEMMA PairFields ==
  ASSUME NEW c \in Pair
  PROVE  /\ c.lo \in Half /\ c.hi \in Half /\ c.hi * W \in Nat
         /\ Value(c) = c.hi * W + c.lo /\ Value(c) \in Nat
  <1>1. c.lo \in Nat /\ c.hi \in Nat /\ c.lo \in Half /\ c.hi \in Half
    BY Width DEF Pair, Half
  <1>2. c.hi * W \in Nat
    BY <1>1, Width
  <1> QED BY <1>1, <1>2 DEF Value

\* Parking the low half at its maximum only moves a deadline later.
LEMMA Parked ==
  ASSUME NEW c \in Pair
  PROVE  /\ [lo |-> Ones, hi |-> c.hi] \in Pair
         /\ Value([lo |-> Ones, hi |-> c.hi]) >= Value(c)
  <1> DEFINE p == [lo |-> Ones, hi |-> c.hi]
  <1>1. p \in Pair /\ p.hi = c.hi /\ p.lo = Ones
    BY PairFields, Width DEF Pair
  <1>2. Value(p) = c.hi * W + Ones /\ Value(c) = c.hi * W + c.lo
    BY <1>1, PairFields
  <1>3. c.lo \in Int /\ c.lo <= Ones /\ Ones \in Int /\ c.hi * W \in Int
    BY PairFields, Width DEF Half, Ones
  <1> QED BY <1>1, <1>2, <1>3

LEMMA StoresTail ==
  ASSUME NEW d
  PROVE  /\ Stores(d) # <<>> /\ Tail(Stores(d)) # <<>> /\ Tail(Tail(Stores(d))) # <<>>
         /\ Tail(Tail(Tail(Stores(d)))) = <<>>
         /\ Head(Stores(d)) = Store("MTIMECMP_LO", Ones)
         /\ Head(Tail(Stores(d))) = Store("MTIMECMP_HI", d.hi)
         /\ Head(Tail(Tail(Stores(d)))) = Store("MTIMECMP_LO", d.lo)
  BY DEF Stores

LEMMA UpdateStarts == UpdateInit => UpdateInv
  BY Width DEF UpdateInit, ClintInit, UpdateInv, Stage, NoDeadline, Pair

LEMMA UpdateStep == UpdateInv /\ [UpdateNext]_updateVars => UpdateInv'
  <1> SUFFICES ASSUME UpdateInv, [UpdateNext]_updateVars PROVE UpdateInv'
    OBVIOUS
  <1>1. ASSUME NEW d \in Pair, NEW addr \in Register, Decide(d, addr)
        PROVE  UpdateInv'
    <2>1. mtimecmp = new
      BY <1>1, StoresTail DEF Decide, UpdateInv, Stage
    <2>2. mtime' \in Nat
      BY <1>1, CountType, Width DEF Decide, Edge, UpdateInv
    <2> QED BY <1>1, <2>1, <2>2 DEF Decide, NoWrite, UpdateInv, Stage
  <1>2. CASE StoreNext
    <2>1. mtime' \in Nat /\ old' = old /\ new' = new
      BY <1>2, CountType, Width DEF StoreNext, Edge, UpdateInv
    <2>2. CASE Stage(Stores(new), old)
      <3>1. Head(todo).addr = "MTIMECMP_LO" /\ Head(todo).wdata = Ones
        BY <2>2, StoresTail DEF Stage, Store
      <3>2. mtimecmp' = [mtimecmp EXCEPT !.lo = Ones]
        BY <1>2, <3>1 DEF StoreNext, Write
      <3>3. todo' = Tail(Stores(new))
        BY <1>2, <2>2, StoresTail DEF StoreNext, Stage
      <3> QED BY <2>1, <2>2, <3>2, <3>3 DEF UpdateInv, Stage, Pair
    <2>3. CASE Stage(Tail(Stores(new)), [lo |-> Ones, hi |-> old.hi])
      <3>0. Head(todo) = Store("MTIMECMP_HI", new.hi)
        <4>1. Head(Tail(Stores(new))) = Store("MTIMECMP_HI", new.hi)
          BY StoresTail
        <4> QED BY <2>3, <4>1 DEF Stage
      <3>1. Head(todo).addr = "MTIMECMP_HI" /\ Head(todo).wdata = new.hi
        BY <3>0 DEF Store
      <3>2. mtimecmp' = [mtimecmp EXCEPT !.hi = new.hi]
        BY <1>2, <3>1 DEF StoreNext, Write
      <3>3. todo' = Tail(Tail(Stores(new)))
        BY <1>2, <2>3, StoresTail DEF StoreNext, Stage
      <3> QED BY <2>1, <2>3, <3>2, <3>3 DEF UpdateInv, Stage
    <2>4. CASE Stage(Tail(Tail(Stores(new))), [lo |-> Ones, hi |-> new.hi])
      <3>0. Head(todo) = Store("MTIMECMP_LO", new.lo)
        <4>1. Head(Tail(Tail(Stores(new)))) = Store("MTIMECMP_LO", new.lo)
          BY StoresTail
        <4> QED BY <2>4, <4>1 DEF Stage
      <3>1. Head(todo).addr = "MTIMECMP_LO" /\ Head(todo).wdata = new.lo
        BY <3>0 DEF Store
      <3>2. mtimecmp' = [mtimecmp EXCEPT !.lo = new.lo]
        BY <1>2, <3>1 DEF StoreNext, Write
      <3>3. todo' = <<>>
        BY <1>2, <2>4, StoresTail DEF StoreNext, Stage
      <3> QED BY <2>1, <2>4, <3>2, <3>3 DEF UpdateInv, Stage, Pair
    <2>5. todo # <<>>
      BY <1>2 DEF StoreNext
    <2> QED BY <2>2, <2>3, <2>4, <2>5 DEF UpdateInv, Stage
  <1>3. ASSUME NEW addr \in Register, Access(addr)
        PROVE  UpdateInv'
    <2>1. mtime' \in Nat
      BY <1>3, CountType, Width DEF Access, Edge, UpdateInv
    <2>2. mtimecmp' = mtimecmp
      BY <1>3 DEF Access, NoWrite, Write
    <2> QED BY <1>3, <2>1, <2>2 DEF Access, UpdateInv, Stage
  <1>4. CASE Reset
    BY <1>4, Width DEF Reset, ClintReset, UpdateInv, Stage, NoDeadline, Pair
  <1>5. CASE UNCHANGED updateVars
    BY <1>5 DEF updateVars, clintVars, UpdateInv, Stage
  <1> QED BY <1>1, <1>2, <1>3, <1>4, <1>5 DEF UpdateNext, Running

LEMMA UpdateSafe == UpdateInv => NoSpuriousTimer /\ ArmedExactly
  <1> SUFFICES ASSUME UpdateInv PROVE NoSpuriousTimer /\ ArmedExactly
    OBVIOUS
  <1>1. /\ old \in Pair /\ new \in Pair /\ mtime \in Nat
    BY DEF UpdateInv
  <1>2. /\ mtimecmp \in Pair
        /\ Value(mtimecmp) >= Value(old) \/ Value(mtimecmp) >= Value(new)
    <2>1. Value(old) \in Int /\ Value(new) \in Int
      BY <1>1, PairFields
    <2> QED BY <1>1, <2>1, Parked DEF UpdateInv, Stage
  <1>3. Value(old) \in Int /\ Value(new) \in Int /\ Value(mtimecmp) \in Int
    BY <1>1, <1>2, PairFields
  <1>4. todo = <<>> => mtimecmp = new
    BY StoresTail DEF UpdateInv, Stage
  <1> QED BY <1>1, <1>2, <1>3, <1>4 DEF NoSpuriousTimer, ArmedExactly, Mtip

\* The invariant of the update protocol.
THEOREM UpdateCorrect == UpdateSpec => []UpdateInv
  <1> QED BY UpdateStarts, UpdateStep, PTL DEF UpdateSpec

\* No intermediate pair fires the timer, for any width, deadlines and delays.
THEOREM NoSpuriousCorrect == UpdateSpec => []NoSpuriousTimer
  <1> QED BY UpdateCorrect, UpdateSafe, PTL

\* Between updates the timer fires exactly at the deadline asked for.
THEOREM ArmedCorrect == UpdateSpec => []ArmedExactly
  <1> QED BY UpdateCorrect, UpdateSafe, PTL

-----------------------------------------------------------------------------
(* The timer on its own, under any accesses.                               *)

LEMMA WrapStep == ASSUME NEW n \in Nat \ {0}, NEW x \in 0 .. n - 1
                  PROVE  (x + 1) % n = IF x + 1 = n THEN 0 ELSE x + 1
  OBVIOUS

LEMMA HighHalf == ASSUME NEW n \in Nat \ {0}, NEW x \in 0 .. n * n - 1
                  PROVE  x \div n \in 0 .. n - 1
  <1>1. x \in Nat /\ x % n \in 0 .. n - 1 /\ x = n * (x \div n) + (x % n)
    OBVIOUS
  <1>2. x \div n \in Nat
    BY <1>1
  <1>3. ASSUME x \div n >= n PROVE FALSE
    <2>1. n * (x \div n) >= n * n
      BY <1>2, <1>3
    <2> QED BY <1>1, <1>2, <2>1
  <1> QED BY <1>2, <1>3

LEMMA EdgeType ==
  ASSUME ClintTypeOK, NEW addr, Edge(addr)
  PROVE  mtime' \in 0 .. W * W - 1 /\ rdata' \in Half
  <1>1. mtime \in Nat /\ W \in Nat \ {0} /\ 0 \in Half /\ 1 \in Half
    BY Width DEF ClintTypeOK, Half
  <1>2. mtime % W \in Half /\ mtime \div W \in Half
    BY <1>1, Wrap, HighHalf DEF ClintTypeOK, Half
  <1>3. mtimecmp.lo \in Half /\ mtimecmp.hi \in Half /\ msip_reg \in Half
    BY <1>1, PairFields DEF ClintTypeOK
  <1> QED BY <1>1, <1>2, <1>3, CountType DEF Edge, Read

LEMMA WriteType ==
  ASSUME ClintTypeOK, NEW addr, NEW w \in Half, Write(addr, w)
  PROVE  mtimecmp' \in Pair /\ msip_reg' \in {0, 1}
  <1>1. w % 2 \in 0 .. 1
    BY Wrap, Width DEF Half
  <1> QED BY <1>1 DEF Write, ClintTypeOK, Pair

\* Every register stays within its width.
THEOREM ClintTypeCorrect == ClintSpec => []ClintTypeOK
  <1>1. ClintInit => ClintTypeOK
    BY Width DEF ClintInit, ClintTypeOK, NoDeadline, Pair, Half
  <1>2. ClintTypeOK /\ [ClintNext]_clintVars => ClintTypeOK'
    <2> SUFFICES ASSUME ClintTypeOK, [ClintNext]_clintVars PROVE ClintTypeOK'
      OBVIOUS
    <2>1. ASSUME NEW addr \in Register, Edge(addr), NoWrite PROVE ClintTypeOK'
      BY <2>1, EdgeType DEF NoWrite, ClintTypeOK
    <2>2. ASSUME NEW addr \in Register, Edge(addr), NEW w \in Half, Write(addr, w)
          PROVE  ClintTypeOK'
      BY <2>2, EdgeType, WriteType DEF ClintTypeOK
    <2>3. CASE ClintReset
      BY <2>3, Width DEF ClintReset, ClintTypeOK, NoDeadline, Pair, Half
    <2>4. CASE UNCHANGED clintVars
      BY <2>4 DEF clintVars, ClintTypeOK
    <2> QED BY <2>1, <2>2, <2>3, <2>4 DEF ClintNext
  <1> QED BY <1>1, <1>2, PTL DEF ClintSpec

\* A raised timer interrupt is never dropped by the passing of time.
THEOREM LevelCorrect == ClintSpec => LevelHeld
  <1>1. ClintTypeOK /\ [ClintNext]_clintVars
          => [Mtip /\ ~Mtip' => mtimecmp' # mtimecmp \/ mtime' = 0]_clintVars
    <2> SUFFICES ASSUME ClintTypeOK, ClintNext, Mtip, mtimecmp' = mtimecmp,
                        mtime' # 0
                 PROVE  Mtip'
      BY DEF clintVars, Mtip
    <2>1. mtime \in Nat /\ mtime' = mtime + 1
      <3>1. Count
        BY DEF ClintNext, ClintReset, Edge
      <3> QED BY <3>1, WrapStep, Width DEF Count, ClintTypeOK
    <2>2. Value(mtimecmp) \in Int
      BY PairFields DEF ClintTypeOK
    <2> QED BY <2>1, <2>2 DEF Mtip
  <1> QED BY <1>1, ClintTypeCorrect, PTL DEF ClintSpec, LevelHeld

\* The software is one of the users the CLINT alone is proved for, so what holds
\* under any accesses holds under the update.
THEOREM UpdateImplements == UpdateSpec => ClintSpec
  <1>1. UpdateInit => ClintInit
    BY DEF UpdateInit
  <1>2. UpdateInv /\ [UpdateNext]_updateVars => [ClintNext]_clintVars
    <2> SUFFICES ASSUME UpdateInv, [UpdateNext]_updateVars PROVE [ClintNext]_clintVars
      OBVIOUS
    <2>1. ASSUME NEW d \in Pair, NEW addr \in Register, Decide(d, addr)
          PROVE  ClintNext
      BY <2>1 DEF Decide, ClintNext
    <2>2. CASE StoreNext
      <3>1. Head(todo).addr \in Register /\ Head(todo).wdata \in Half
        <4>1. \/ Head(todo) = Store("MTIMECMP_LO", Ones)
              \/ Head(todo) = Store("MTIMECMP_HI", new.hi)
              \/ Head(todo) = Store("MTIMECMP_LO", new.lo)
          <5>1. /\ Head(Stores(new)) = Store("MTIMECMP_LO", Ones)
                /\ Head(Tail(Stores(new))) = Store("MTIMECMP_HI", new.hi)
                /\ Head(Tail(Tail(Stores(new)))) = Store("MTIMECMP_LO", new.lo)
            BY StoresTail
          <5>2. todo \in {Stores(new), Tail(Stores(new)), Tail(Tail(Stores(new)))}
            BY <2>2 DEF UpdateInv, Stage, StoreNext
          <5> QED BY <5>1, <5>2
        <4>2. new.lo \in Half /\ new.hi \in Half
          BY PairFields DEF UpdateInv
        <4> QED BY <4>1, <4>2, Width DEF Store, Register
      <3> QED BY <2>2, <3>1 DEF StoreNext, ClintNext
    <2>3. ASSUME NEW addr \in Register, Access(addr) PROVE ClintNext
      <3>1. {0, 1} \subseteq Half
        BY Width DEF Half
      <3> QED BY <2>3, <3>1 DEF Access, ClintNext
    <2>4. CASE Reset
      BY <2>4 DEF Reset, ClintNext
    <2>5. CASE UNCHANGED updateVars
      BY <2>5 DEF updateVars
    <2> QED BY <2>1, <2>2, <2>3, <2>4, <2>5 DEF UpdateNext, Running
  <1> QED BY <1>1, <1>2, UpdateCorrect, PTL DEF UpdateSpec, ClintSpec
-----------------------------------------------------------------------------
(* The timer demonstration (TimerDemo).                                    *)


\* The clocks one instruction may take.
K == SLACK + 1

HandlerAts == {HandlerAt(n) : n \in 1 .. 12}
MainAts    == {MainAt(n) : n \in 1 .. 11}
LoopAts    == {MainAt(9), MainAt(10), MainAt(11)}

\* Before the instruction after "now", the one after "add", the one after "set".
AtAdd  == at = HandlerAt(10) \/ at = MainAt(4)
AtSet  == at = HandlerAt(11) \/ at = MainAt(5)
AtDone == at = HandlerAt(12) \/ at = MainAt(6)

TimerTypeOK ==
  /\ at \in HandlerAts \cup MainAts
  /\ MIE \in BOOLEAN /\ MPIE \in BOOLEAN /\ ran \in BOOLEAN
  /\ wait \in 0 .. 3 /\ idle \in 0 .. SLACK
  /\ x23 \in Nat /\ due \in Nat /\ mtime \in 0 .. HORIZON
  /\ mtimecmp \in [lo : Nat, hi : Nat]

\* Only the loop can be interrupted, and the handler goes back to it.
Gate ==
  /\ MIE <=> at \in LoopAts
  /\ at \in HandlerAts => MPIE /\ mepc \in LoopAts /\ ~ran
  /\ wait > 0 => at = HandlerAt(1) \/ at \in LoopAts

\* What is in MEM belongs to the instruction before.
InMem ==
  /\ bus.we \in BOOLEAN /\ bus.wdata \in Nat
  /\ Loading => AtAdd /\ ~bus.we /\ idle = 0
  /\ bus.we => \/ bus.addr = "MTIMECMP_LO" /\ (at = HandlerAt(8) \/ at = MainAt(2))
               \/ bus.addr = "MTIMECMP_HI" /\ bus.wdata = 0 /\ (at = HandlerAt(9) \/ at = MainAt(3))
               \/ bus.addr = "MTIMECMP_LO" /\ bus.wdata = due /\ AtDone

\* The deadline on its way from mtime to the comparator.
Deadline ==
  /\ at \notin {MainAt(1), MainAt(2)} /\ ~(at = MainAt(3) /\ bus.we) => mtimecmp.hi = 0
  /\ AtAdd /\ ~Loading => due = x23 + PERIOD /\ x23 < HORIZON
  /\ AtSet => x23 = due
  /\ AtDone /\ ~bus.we => mtimecmp.lo = due
  /\ at \in LoopAts \cup {MainAt(7), MainAt(8)} => mtimecmp.lo = due

\* At most n clocks since the time the deadline was computed from.
Within(n) == mtime + PERIOD <= due + n

\* Bubbles since the redirect that led here.
Spent == (3 - wait) + idle

\* Until "main" has run: how long ago that was, by the next instruction.
Soon ==
  /\ AtAdd /\ ~Loading => Within(1 + idle)
  /\ AtSet => Within(1 + K + idle)
  /\ AtDone => Within(1 + 2 * K + idle)
  /\ at = MainAt(7) => Within(1 + 3 * K + idle)
  /\ at = MainAt(8) => Within(1 + 4 * K + idle)
  /\ at = MainAt(11) /\ ~ran => Within(1 + 3 * K + Spent)
  /\ at = MainAt(9) /\ ~ran => Within(4 + 5 * K + Spent)
  /\ at = MainAt(10) /\ ~ran => Within(4 + 6 * K + Spent)

TimerInv == TimerTypeOK /\ Gate /\ InMem /\ Deadline /\ Soon

-----------------------------------------------------------------------------
LEMMA Positions ==
  /\ \A n, m \in 1 .. 12 : /\ HandlerAt(n) # MainAt(m)
                           /\ HandlerAt(n) = HandlerAt(m) <=> n = m
                           /\ MainAt(n) = MainAt(m) <=> n = m
  /\ \A n \in 1 .. 12 : HandlerAt(n).in = "handler" /\ HandlerAt(n).n = n
  /\ \A n \in 1 .. 12 : MainAt(n).in = "main" /\ MainAt(n).n = n
  BY DEF HandlerAt, MainAt

\* The program, by position.
LEMMA Program ==
  /\ at = HandlerAt(1) => Op = "count"
  /\ at = HandlerAt(2) => Op = "ram"
  /\ at = HandlerAt(3) => Op = "mcause"
  /\ at = HandlerAt(4) => Op = "ram"
  /\ at = HandlerAt(5) => Op = "mepc"
  /\ at = HandlerAt(6) => Op = "ram"
  /\ at = HandlerAt(7) \/ at = MainAt(1) => Op = "park"
  /\ at = HandlerAt(8) \/ at = MainAt(2) => Op = "high"
  /\ at = HandlerAt(9) \/ at = MainAt(3) => Op = "now"
  /\ AtAdd => Op = "add"
  /\ AtSet => Op = "set"
  /\ at = HandlerAt(12) => Op = "mret"
  /\ at = MainAt(6) => Op = "mtvec"
  /\ at = MainAt(7) => Op = "mie"
  /\ at = MainAt(8) => Op = "mstatus"
  /\ at = MainAt(9) => Op = "addi"
  /\ at = MainAt(10) => Op = "main"
  /\ at = MainAt(11) => Op = "loop"
  BY DEF Op, Main, Handler, HandlerAt, MainAt, AtAdd, AtSet

LEMMA Constants == /\ PERIOD \in Nat /\ SLACK \in Nat /\ HORIZON \in Nat /\ K \in Nat
                   /\ K = SLACK + 1 /\ W \in Nat /\ W > 1
  BY TimerAssumption, ClintAssumption DEF Half, K

\* One clock of the CLINT while mtime fits its low half.
LEMMA ClockEffect ==
  ASSUME TimerTypeOK, InMem, Clock, HORIZON + PERIOD <= W
  PROVE  /\ mtime < HORIZON /\ mtime' = mtime + 1 /\ mtime' \in 0 .. HORIZON
         /\ Loaded = IF Loading THEN mtime ELSE x23
         /\ mtimecmp' \in [lo : Nat, hi : Nat]
         /\ mtimecmp'.lo = IF bus.we /\ bus.addr = "MTIMECMP_LO" THEN bus.wdata ELSE mtimecmp.lo
         /\ mtimecmp'.hi = IF bus.we /\ bus.addr = "MTIMECMP_HI" THEN bus.wdata ELSE mtimecmp.hi
  <1>1. mtime \in Nat /\ mtime < HORIZON /\ HORIZON <= W
    BY Constants DEF TimerTypeOK, Clock
  <1>2. W < W * W
    BY Constants
  <1>3. \A x, y \in Nat : x < y => x % y = x
    OBVIOUS
  <1>4. mtime' = mtime + 1
    <2>1. mtime + 1 < W * W /\ mtime + 1 \in Nat /\ W * W \in Nat
      BY <1>1, <1>2, Constants
    <2> QED BY <2>1, <1>3 DEF Clock, Edge, Count
  <1>5. mtime % W = mtime
    BY <1>1, <1>3, Constants
  <1>6. mtimecmp' = IF bus.we
                      THEN CASE bus.addr = "MTIMECMP_LO" -> [mtimecmp EXCEPT !.lo = bus.wdata]
                             [] bus.addr = "MTIMECMP_HI" -> [mtimecmp EXCEPT !.hi = bus.wdata]
                             [] OTHER -> mtimecmp
                      ELSE mtimecmp
    BY DEF Clock, Write, NoWrite
  <1>7. Loaded = IF Loading THEN mtime ELSE x23
    BY <1>5 DEF Loaded, Read
  <1>8. /\ mtimecmp' \in [lo : Nat, hi : Nat]
        /\ mtimecmp'.lo = IF bus.we /\ bus.addr = "MTIMECMP_LO" THEN bus.wdata ELSE mtimecmp.lo
        /\ mtimecmp'.hi = IF bus.we /\ bus.addr = "MTIMECMP_HI" THEN bus.wdata ELSE mtimecmp.hi
    BY <1>6 DEF TimerTypeOK, InMem
  <1> QED BY <1>1, <1>4, <1>7, <1>8, Constants

LEMMA SoonLinear == ASSUME NEW n \in Nat PROVE Within(n) <=> mtime + PERIOD <= due + n
  BY DEF Within

LEMMA BubbleStep ==
  ASSUME TimerInv, Bubble, HORIZON + PERIOD <= W
  PROVE  TimerInv'
  <1>1. /\ mtime < HORIZON /\ mtime' = mtime + 1 /\ mtime' \in 0 .. HORIZON
        /\ Loaded = IF Loading THEN mtime ELSE x23
        /\ mtimecmp' \in [lo : Nat, hi : Nat]
        /\ mtimecmp'.lo = IF bus.we /\ bus.addr = "MTIMECMP_LO" THEN bus.wdata ELSE mtimecmp.lo
        /\ mtimecmp'.hi = IF bus.we /\ bus.addr = "MTIMECMP_HI" THEN bus.wdata ELSE mtimecmp.hi
    BY ClockEffect DEF TimerInv, Bubble
  <1>2. /\ at' = at /\ mepc' = mepc /\ MIE' = MIE /\ MPIE' = MPIE /\ ran' = ran
        /\ x23' = Loaded /\ due' = IF Loading THEN mtime + PERIOD ELSE due
        /\ ~bus'.we /\ bus'.we \in BOOLEAN /\ bus'.wdata = 0 /\ ~Loading'
    BY DEF Bubble, Due, NoBus, Loading
  <1>3. \/ Loading /\ wait' = wait /\ idle' = idle
        \/ wait > 0 /\ wait' = wait - 1 /\ idle' = idle
        \/ ~Loading /\ idle < SLACK /\ idle' = idle + 1 /\ wait' = wait
    <2>1. Loading => wait = 0
      BY Positions DEF TimerInv, InMem, Gate, AtAdd, LoopAts, TimerTypeOK
    <2>2. Loading => Stalled
      BY Program DEF TimerInv, InMem, Stalled
    <2> QED BY <2>1, <2>2 DEF Bubble, Stalled
  <1>4. TimerTypeOK'
    BY <1>1, <1>2, <1>3, Constants DEF TimerInv, TimerTypeOK
  <1>5. Gate'
    BY <1>2, <1>3 DEF TimerInv, TimerTypeOK, Gate
  <1>6. InMem'
    BY <1>2 DEF InMem
  <1>7. Deadline'
    BY <1>1, <1>2, Positions DEF TimerInv, Deadline, InMem, AtAdd, AtSet, AtDone, LoopAts
  <1>8. Soon'
    <2>1. mtime \in Nat /\ due \in Nat /\ wait \in Nat /\ idle \in Nat /\ wait <= 3
      BY Constants DEF TimerInv, TimerTypeOK
    <2>2. CASE Loading
      <3>1. AtAdd /\ idle' = 0 /\ due' = mtime + PERIOD
        BY <1>2, <1>3, <2>1, <2>2 DEF TimerInv, InMem
      <3>2. ~AtSet' /\ ~AtDone' /\ at' \notin {MainAt(n) : n \in 7 .. 11}
        BY <1>2, <3>1, Positions DEF AtAdd, AtSet, AtDone
      <3> QED BY <1>1, <2>1, <3>1, <3>2, Constants DEF Soon, Within
    <2>3. CASE ~Loading
      <3>1. Spent' = Spent + 1 /\ Spent \in Nat
        BY <1>3, <2>1, <2>3 DEF Spent
      <3>2. wait = 0 => idle' = idle + 1
        BY <1>3, <2>1, <2>3
      <3>3. AtAdd \/ AtSet \/ AtDone \/ at = MainAt(7) \/ at = MainAt(8) => wait = 0
        BY <2>1, Positions DEF TimerInv, Gate, LoopAts, AtAdd, AtSet, AtDone
      <3>4. ASSUME NEW n \in Nat, mtime + PERIOD <= due + (n + idle), idle' = idle + 1
            PROVE  Within(n + idle)'
        BY <1>1, <1>2, <2>1, <2>3, <3>4, Constants DEF Within
      <3>5. ASSUME NEW n \in Nat, mtime + PERIOD <= due + (n + Spent)
            PROVE  Within(n + Spent)'
        BY <1>1, <1>2, <2>1, <2>3, <3>1, <3>5, Constants DEF Within
      <3>6. Soon
        BY DEF TimerInv
      <3>7. AtAdd' => Within(1 + idle)'
        BY <1>2, <2>3, <3>2, <3>3, <3>4, <3>6 DEF Soon, Within, AtAdd
      <3>8. AtSet' => Within(1 + K + idle)'
        BY <1>2, <2>3, <3>2, <3>3, <3>4, <3>6, Constants DEF Soon, Within, AtSet
      <3>9. AtDone' => Within(1 + 2 * K + idle)'
        BY <1>2, <2>3, <3>2, <3>3, <3>4, <3>6, Constants DEF Soon, Within, AtDone
      <3>10. /\ at' = MainAt(7) => Within(1 + 3 * K + idle)'
             /\ at' = MainAt(8) => Within(1 + 4 * K + idle)'
        BY <1>2, <2>3, <3>2, <3>3, <3>4, <3>6, Constants DEF Soon, Within
      <3>11. at' = MainAt(11) /\ ~ran' => Within(1 + 3 * K + Spent)'
        BY <1>2, <3>5, <3>6, Constants DEF Soon, Within
      <3>12. at' = MainAt(9) /\ ~ran' => Within(4 + 5 * K + Spent)'
        BY <1>2, <3>5, <3>6, Constants DEF Soon, Within
      <3>13. at' = MainAt(10) /\ ~ran' => Within(4 + 6 * K + Spent)'
        BY <1>2, <3>5, <3>6, Constants DEF Soon, Within
      <3> QED BY <3>7, <3>8, <3>9, <3>10, <3>11, <3>12, <3>13 DEF Soon
    <2> QED BY <2>2, <2>3
  <1> QED BY <1>4, <1>5, <1>6, <1>7, <1>8 DEF TimerInv

\* An interrupt finds the deadline in place.
LEMMA Fires ==
  ASSUME TimerInv, Interrupt, HORIZON + PERIOD <= W
  PROVE  at \in LoopAts /\ ~bus.we /\ ~Loading /\ mtimecmp.hi = 0 /\ mtime >= due
  <1>1. at \in LoopAts /\ mtime >= Value(mtimecmp)
    BY DEF Interrupt, TakeTimer, Mtip, TimerInv, Gate
  <1>2. ~bus.we /\ ~Loading /\ mtimecmp.hi = 0 /\ mtimecmp.lo = due
    BY <1>1, Positions DEF TimerInv, InMem, Deadline, LoopAts, AtAdd, AtDone
  <1>3. Value(mtimecmp) = due
    BY <1>2, Constants DEF Value, TimerInv, TimerTypeOK
  <1> QED BY <1>1, <1>2, <1>3

LEMMA InterruptStep ==
  ASSUME TimerInv, Interrupt, HORIZON + PERIOD <= W
  PROVE  TimerInv'
  <1>1. /\ mtime' \in 0 .. HORIZON /\ Loaded = x23
        /\ mtimecmp' \in [lo : Nat, hi : Nat] /\ mtimecmp'.hi = mtimecmp.hi
    BY ClockEffect, Fires DEF TimerInv, Interrupt
  <1>2. /\ at' = HandlerAt(1) /\ mepc' = at /\ MIE' = FALSE /\ MPIE' = MIE /\ ~ran' /\ ran' \in BOOLEAN
        /\ x23' = x23 /\ due' = due /\ wait' = 3 /\ idle' = 0
        /\ ~bus'.we /\ bus'.we \in BOOLEAN /\ bus'.wdata = 0 /\ ~Loading'
    BY <1>1, Fires DEF Interrupt, Due, NoBus, Loading
  <1>3. /\ MIE = TRUE /\ at \in LoopAts /\ mtimecmp.hi = 0
    BY Fires DEF Interrupt, TakeTimer, TimerInv, TimerTypeOK
  <1>4. TimerTypeOK'
    <2>1. HandlerAt(1) \in HandlerAts
      BY DEF HandlerAts
    <2>2. MPIE' \in BOOLEAN /\ MIE' \in BOOLEAN
      BY <1>2, <1>3
    <2>3. x23' \in Nat /\ due' \in Nat /\ wait' \in 0 .. 3 /\ idle' \in 0 .. SLACK
      BY <1>2, Constants DEF TimerInv, TimerTypeOK
    <2> QED BY <1>1, <1>2, <2>1, <2>2, <2>3 DEF TimerTypeOK
  <1>5. Gate'
    BY <1>2, <1>3, Positions DEF Gate, LoopAts
  <1>6. InMem'
    BY <1>2 DEF InMem
  <1>7. Deadline'
    BY <1>1, <1>2, <1>3, Positions DEF Deadline, AtAdd, AtSet, AtDone, LoopAts
  <1>8. Soon'
    BY <1>2, Positions DEF Soon, AtAdd, AtSet, AtDone
  <1> QED BY <1>4, <1>5, <1>6, <1>7, <1>8 DEF TimerInv

\* What every instruction does, by the kind it is.
LEMMA ExecuteEffect ==
  ASSUME TimerInv, Execute, HORIZON + PERIOD <= W
  PROVE  /\ mtime < HORIZON /\ mtime' = mtime + 1 /\ mtime' \in 0 .. HORIZON
         /\ mtimecmp' \in [lo : Nat, hi : Nat]
         /\ mtimecmp'.lo = IF bus.we /\ bus.addr = "MTIMECMP_LO" THEN bus.wdata ELSE mtimecmp.lo
         /\ mtimecmp'.hi = IF bus.we /\ bus.addr = "MTIMECMP_HI" THEN bus.wdata ELSE mtimecmp.hi
         /\ wait = 0 /\ idle' = 0 /\ mepc' = mepc
         /\ ~Loading /\ due' = due
         /\ x23' = IF Op = "add" THEN (x23 + PERIOD) % W ELSE x23
  <1>1. Loading => AtAdd /\ Op = "add"
    BY Program DEF TimerInv, InMem
  <1>2. ~Loading
    BY <1>1 DEF Execute, Stalled
  <1>3. TimerTypeOK /\ InMem /\ Clock
    BY DEF TimerInv, Execute
  <1>4. Loaded = x23 /\ Due = due
    BY <1>2 DEF Loaded, Due
  <1> QED BY <1>2, <1>3, <1>4, ClockEffect DEF Execute

\* The handler up to the read of the time.
LEMMA HandlerHead ==
  ASSUME TimerInv, Execute, HORIZON + PERIOD <= W, NEW n \in 1 .. 8, at = HandlerAt(n)
  PROVE  TimerInv'
  <1>1. /\ at' = HandlerAt(n + 1) /\ MIE' = MIE /\ MPIE' = MPIE /\ wait' = 0
        /\ bus'.we \in BOOLEAN /\ bus'.wdata \in Nat /\ ~Loading'
        /\ bus'.we => \/ bus'.addr = "MTIMECMP_LO" /\ n = 7
                      \/ bus'.addr = "MTIMECMP_HI" /\ bus'.wdata = 0 /\ n = 8
        /\ Op # "add" /\ ran' = ran
    <2>1. Op \in {"count", "ram", "mcause", "mepc", "park", "high"}
          /\ (Op = "park" <=> n = 7) /\ (Op = "high" <=> n = 8)
      BY Program
    <2>2. at' = HandlerAt(n + 1)
      BY <2>1 DEF Execute, HandlerAt
    <2>3. MIE' = MIE /\ MPIE' = MPIE /\ wait' = 0 /\ Op # "add" /\ (ran' <=> ran)
      BY <2>1 DEF Execute
    <2>4. bus' = CASE Op = "park" -> BusWrite("MTIMECMP_LO", Ones)
                   [] Op = "high" -> BusWrite("MTIMECMP_HI", 0)
                   [] OTHER       -> NoBus
      BY <2>1 DEF Execute
    <2>5. /\ bus'.we \in BOOLEAN /\ bus'.wdata \in Nat /\ bus'.addr # "MTIME_LO"
          /\ bus'.we => \/ bus'.addr = "MTIMECMP_LO" /\ n = 7
                        \/ bus'.addr = "MTIMECMP_HI" /\ bus'.wdata = 0 /\ n = 8
      BY <2>1, <2>4, Constants DEF BusWrite, NoBus, Ones
    <2>6. ran' = ran
      BY <2>1 DEF Execute, TimerInv, TimerTypeOK
    <2> QED BY <2>1, <2>2, <2>3, <2>5, <2>6 DEF Loading
  <1>2. n + 1 \in 2 .. 9 /\ HandlerAt(n + 1) \in HandlerAts
    BY DEF HandlerAts
  <1>3. /\ mtime' \in 0 .. HORIZON /\ mtimecmp' \in [lo : Nat, hi : Nat]
        /\ idle' = 0 /\ mepc' = mepc /\ due' = due /\ x23' = x23
        /\ mtimecmp'.hi = IF bus.we /\ bus.addr = "MTIMECMP_HI" THEN bus.wdata ELSE mtimecmp.hi
    BY <1>1, ExecuteEffect
  <1>4. TimerTypeOK'
    BY <1>1, <1>2, <1>3, Constants DEF TimerInv, TimerTypeOK
  <1>5. Gate'
    BY <1>1, <1>2, <1>3, Positions DEF TimerInv, Gate, LoopAts, HandlerAts
  <1>6. InMem'
    BY <1>1 DEF InMem
  <1>7. Deadline'
    BY <1>1, <1>2, <1>3, Positions
       DEF TimerInv, Deadline, InMem, AtAdd, AtSet, AtDone, LoopAts
  <1>8. Soon'
    BY <1>1, <1>2, Positions DEF Soon, AtAdd, AtSet, AtDone
  <1> QED BY <1>4, <1>5, <1>6, <1>7, <1>8 DEF TimerInv

\* An instruction takes at most K clocks.
LEMMA Later ==
  ASSUME TimerInv, Execute, HORIZON + PERIOD <= W, NEW n \in Nat, NEW m \in Nat, n + K <= m
  PROVE  Within(n + idle) => Within(m)'
  <1>1. mtime' = mtime + 1 /\ due' = due
    BY ExecuteEffect
  <1>2. idle \in 0 .. SLACK /\ mtime \in Nat /\ due \in Nat
    BY Constants DEF TimerInv, TimerTypeOK
  <1> QED BY <1>1, <1>2, Constants DEF Within

LEMMA MainHead ==
  ASSUME TimerInv, Execute, HORIZON + PERIOD <= W, NEW n \in 1 .. 2, at = MainAt(n)
  PROVE  TimerInv'
  <1>1. /\ Op = IF n = 1 THEN "park" ELSE "high"
        /\ at' = MainAt(n + 1) /\ MIE' = MIE /\ MPIE' = MPIE /\ wait' = 0
        /\ bus' = IF n = 1 THEN BusWrite("MTIMECMP_LO", Ones) ELSE BusWrite("MTIMECMP_HI", 0)
    <2>1. Op = IF n = 1 THEN "park" ELSE "high"
      BY Program
    <2> QED BY <2>1 DEF Execute, MainAt
  <1>2. ran' \in BOOLEAN
    BY DEF Execute
  <1>3. /\ bus'.we \in BOOLEAN /\ bus'.wdata \in Nat /\ ~Loading' /\ bus'.we
        /\ \/ n = 1 /\ bus'.addr = "MTIMECMP_LO"
           \/ n = 2 /\ bus'.addr = "MTIMECMP_HI" /\ bus'.wdata = 0
    BY <1>1, Constants DEF BusWrite, Loading, Ones
  <1>4. n + 1 \in 2 .. 3 /\ MainAt(n + 1) \in MainAts
    BY DEF MainAts
  <1>5. /\ mtime' \in 0 .. HORIZON /\ mtimecmp' \in [lo : Nat, hi : Nat]
        /\ idle' = 0 /\ mepc' = mepc /\ due' = due /\ x23' = x23
    BY <1>1, ExecuteEffect
  <1>6. TimerTypeOK'
    BY <1>1, <1>2, <1>4, <1>5, Constants DEF TimerInv, TimerTypeOK
  <1>7. Gate'
    BY <1>1, <1>4, <1>5, Positions DEF TimerInv, Gate, LoopAts, HandlerAts
  <1>8. InMem'
    BY <1>1, <1>3 DEF InMem
  <1>9. Deadline'
    BY <1>1, <1>3, <1>4, Positions DEF Deadline, AtAdd, AtSet, AtDone, LoopAts
  <1>10. Soon'
    BY <1>1, <1>4, Positions DEF Soon, AtAdd, AtSet, AtDone
  <1> QED BY <1>6, <1>7, <1>8, <1>9, <1>10 DEF TimerInv

LEMMA NowStep ==
  ASSUME TimerInv, Execute, HORIZON + PERIOD <= W, at = HandlerAt(9) \/ at = MainAt(3)
  PROVE  TimerInv'
  <1>1. /\ Op = "now" /\ MIE' = MIE /\ MPIE' = MPIE /\ wait' = 0
        /\ bus' = BusRead("MTIME_LO")
        /\ at' = IF at = MainAt(3) THEN MainAt(4) ELSE HandlerAt(10)
    <2>1. Op = "now"
      BY Program
    <2>2. at' = [at EXCEPT !.n = @ + 1]
      BY <2>1 DEF Execute
    <2>3. at' = IF at = MainAt(3) THEN MainAt(4) ELSE HandlerAt(10)
      BY <2>2 DEF HandlerAt, MainAt
    <2> QED BY <2>1, <2>3 DEF Execute
  <1>2. ran' \in BOOLEAN /\ ran' = ran
    BY <1>1 DEF Execute, TimerInv, TimerTypeOK
  <1>3. ~bus'.we /\ bus'.we \in BOOLEAN /\ bus'.wdata = 0 /\ Loading'
    BY <1>1 DEF BusRead, Loading
  <1>4. at' \in MainAts \cup HandlerAts
    BY <1>1 DEF MainAts, HandlerAts
  <1>5. /\ mtime' \in 0 .. HORIZON /\ mtimecmp' \in [lo : Nat, hi : Nat]
        /\ mtimecmp'.hi = IF bus.we /\ bus.addr = "MTIMECMP_HI" THEN bus.wdata ELSE mtimecmp.hi
        /\ idle' = 0 /\ mepc' = mepc /\ due' = due /\ x23' = x23
    BY <1>1, ExecuteEffect
  <1>6. TimerTypeOK'
    BY <1>1, <1>2, <1>4, <1>5, Constants DEF TimerInv, TimerTypeOK
  <1>7. Gate'
    BY <1>1, <1>2, <1>5, Positions DEF TimerInv, Gate, LoopAts, HandlerAts
  <1>8. AtAdd' /\ ~AtSet' /\ ~AtDone' /\ at' \notin LoopAts \cup {MainAt(7), MainAt(8)}
    BY <1>1, Positions DEF AtAdd, AtSet, AtDone, LoopAts
  <1>9. InMem'
    BY <1>3, <1>5, <1>8 DEF InMem
  <1>10. mtimecmp'.hi = 0
    BY <1>5, Positions DEF TimerInv, InMem, Deadline, AtDone
  <1>11. Deadline'
    BY <1>3, <1>8, <1>10 DEF Deadline
  <1>12. Soon'
    BY <1>3, <1>8 DEF Soon, LoopAts
  <1> QED BY <1>6, <1>7, <1>9, <1>11, <1>12 DEF TimerInv

LEMMA AddStep ==
  ASSUME TimerInv, Execute, HORIZON + PERIOD <= W, AtAdd
  PROVE  TimerInv'
  <1>1. /\ Op = "add" /\ MIE' = MIE /\ MPIE' = MPIE /\ wait' = 0 /\ bus' = NoBus
        /\ at' = IF at = MainAt(4) THEN MainAt(5) ELSE HandlerAt(11)
    <2>1. Op = "add"
      BY Program
    <2>2. at' = [at EXCEPT !.n = @ + 1]
      BY <2>1 DEF Execute
    <2>3. at' = IF at = MainAt(4) THEN MainAt(5) ELSE HandlerAt(11)
      BY <2>2 DEF HandlerAt, MainAt, AtAdd
    <2> QED BY <2>1, <2>3 DEF Execute
  <1>2. ran' \in BOOLEAN /\ ran' = ran
    BY <1>1 DEF Execute, TimerInv, TimerTypeOK
  <1>3. ~bus'.we /\ bus'.we \in BOOLEAN /\ bus'.wdata = 0 /\ ~Loading'
    BY <1>1 DEF NoBus, Loading
  <1>4. at' \in MainAts \cup HandlerAts
    BY <1>1 DEF MainAts, HandlerAts
  <1>5. /\ mtime' \in 0 .. HORIZON /\ mtimecmp' \in [lo : Nat, hi : Nat] /\ ~Loading
        /\ mtimecmp'.hi = IF bus.we /\ bus.addr = "MTIMECMP_HI" THEN bus.wdata ELSE mtimecmp.hi
        /\ idle' = 0 /\ mepc' = mepc /\ due' = due /\ x23' = (x23 + PERIOD) % W
    BY <1>1, ExecuteEffect
  <1>6. x23' = due /\ due \in Nat
    <2>1. due = x23 + PERIOD /\ x23 < HORIZON /\ x23 \in Nat
      BY <1>5 DEF TimerInv, Deadline, TimerTypeOK
    <2>2. x23 + PERIOD < W /\ x23 + PERIOD \in Nat
      BY <2>1, Constants
    <2>3. \A x, y \in Nat : x < y => x % y = x
      OBVIOUS
    <2> QED BY <1>5, <2>1, <2>2, <2>3, Constants
  <1>7. TimerTypeOK'
    BY <1>1, <1>2, <1>4, <1>5, <1>6, Constants DEF TimerInv, TimerTypeOK
  <1>8. Gate'
    BY <1>1, <1>2, <1>5, Positions DEF TimerInv, Gate, LoopAts, HandlerAts, AtAdd
  <1>9. AtSet' /\ ~AtAdd' /\ ~AtDone' /\ at' \notin LoopAts \cup {MainAt(7), MainAt(8)}
    BY <1>1, Positions DEF AtAdd, AtSet, AtDone, LoopAts
  <1>10. InMem'
    BY <1>3 DEF InMem
  <1>11. mtimecmp'.hi = 0
    BY <1>5, Positions DEF TimerInv, InMem, Deadline, AtAdd, AtDone
  <1>12. Deadline'
    BY <1>5, <1>6, <1>9, <1>11 DEF Deadline
  <1>13. Soon'
    <2>1. Within(1 + idle) => Within(1 + K + 0)'
      BY Later, Constants
    <2> QED BY <1>5, <1>9, <2>1 DEF Soon, TimerInv, LoopAts
  <1> QED BY <1>7, <1>8, <1>10, <1>12, <1>13 DEF TimerInv

LEMMA SetStep ==
  ASSUME TimerInv, Execute, HORIZON + PERIOD <= W, AtSet
  PROVE  TimerInv'
  <1>1. /\ Op = "set" /\ MIE' = MIE /\ MPIE' = MPIE /\ wait' = 0
        /\ bus' = BusWrite("MTIMECMP_LO", x23)
        /\ at' = IF at = MainAt(5) THEN MainAt(6) ELSE HandlerAt(12)
    <2>1. Op = "set"
      BY Program
    <2>2. at' = [at EXCEPT !.n = @ + 1]
      BY <2>1 DEF Execute
    <2>3. at' = IF at = MainAt(5) THEN MainAt(6) ELSE HandlerAt(12)
      BY <2>2 DEF HandlerAt, MainAt, AtSet
    <2> QED BY <2>1, <2>3 DEF Execute
  <1>2. ran' \in BOOLEAN /\ ran' = ran
    BY <1>1 DEF Execute, TimerInv, TimerTypeOK
  <1>3. /\ bus'.we /\ bus'.we \in BOOLEAN /\ bus'.addr = "MTIMECMP_LO"
        /\ bus'.wdata = due /\ due \in Nat /\ ~Loading'
    BY <1>1 DEF BusWrite, Loading, TimerInv, Deadline, TimerTypeOK
  <1>4. at' \in MainAts \cup HandlerAts
    BY <1>1 DEF MainAts, HandlerAts
  <1>5. /\ mtime' \in 0 .. HORIZON /\ mtimecmp' \in [lo : Nat, hi : Nat]
        /\ mtimecmp'.hi = IF bus.we /\ bus.addr = "MTIMECMP_HI" THEN bus.wdata ELSE mtimecmp.hi
        /\ idle' = 0 /\ mepc' = mepc /\ due' = due /\ x23' = x23
    BY <1>1, ExecuteEffect
  <1>6. TimerTypeOK'
    BY <1>1, <1>2, <1>4, <1>5, Constants DEF TimerInv, TimerTypeOK
  <1>7. Gate'
    BY <1>1, <1>2, <1>5, Positions DEF TimerInv, Gate, LoopAts, HandlerAts, AtSet
  <1>8. AtDone' /\ ~AtAdd' /\ ~AtSet' /\ at' \notin LoopAts \cup {MainAt(7), MainAt(8)}
    BY <1>1, Positions DEF AtAdd, AtSet, AtDone, LoopAts
  <1>9. InMem'
    BY <1>3, <1>5, <1>8 DEF InMem
  <1>10. mtimecmp'.hi = 0
    BY <1>5, Positions DEF TimerInv, InMem, Deadline, AtSet, AtDone
  <1>11. Deadline'
    BY <1>3, <1>8, <1>10 DEF Deadline
  <1>12. Soon'
    <2>1. Within(1 + K + idle) => Within(1 + 2 * K + 0)'
      BY Later, Constants
    <2> QED BY <1>5, <1>8, <2>1 DEF Soon, TimerInv, LoopAts
  <1> QED BY <1>6, <1>7, <1>9, <1>11, <1>12 DEF TimerInv

\* Everything from the third store on leaves the bus alone and the deadline in place.
LEMMA Settled ==
  ASSUME TimerInv, Execute, HORIZON + PERIOD <= W,
         AtDone \/ at \in LoopAts \cup {MainAt(7), MainAt(8)}
  PROVE  /\ mtime' \in 0 .. HORIZON /\ mtimecmp' \in [lo : Nat, hi : Nat]
         /\ mtimecmp'.hi = 0 /\ mtimecmp'.lo = due
         /\ bus' = NoBus /\ ~bus'.we /\ bus'.we \in BOOLEAN /\ bus'.wdata = 0 /\ ~Loading'
         /\ idle' = 0 /\ mepc' = mepc /\ due' = due /\ x23' = x23 /\ wait = 0
  <1>1. Op \in {"mret", "mtvec", "mie", "mstatus", "addi", "main", "loop"}
    BY Program DEF AtDone, LoopAts
  <1>2. bus' = NoBus
    BY <1>1 DEF Execute
  <1>3. /\ mtime' \in 0 .. HORIZON /\ mtimecmp' \in [lo : Nat, hi : Nat]
        /\ mtimecmp'.lo = IF bus.we /\ bus.addr = "MTIMECMP_LO" THEN bus.wdata ELSE mtimecmp.lo
        /\ mtimecmp'.hi = IF bus.we /\ bus.addr = "MTIMECMP_HI" THEN bus.wdata ELSE mtimecmp.hi
        /\ idle' = 0 /\ mepc' = mepc /\ due' = due /\ x23' = x23 /\ wait = 0
    BY <1>1, ExecuteEffect
  <1>4. /\ bus.we => AtDone /\ bus.addr = "MTIMECMP_LO" /\ bus.wdata = due
        /\ mtimecmp.hi = 0 /\ (~bus.we => mtimecmp.lo = due)
    BY Positions DEF TimerInv, InMem, Deadline, AtDone, LoopAts
  <1> QED BY <1>2, <1>3, <1>4 DEF NoBus, Loading

LEMMA SetupStep ==
  ASSUME TimerInv, Execute, HORIZON + PERIOD <= W, NEW n \in 6 .. 8, at = MainAt(n)
  PROVE  TimerInv'
  <1>1. /\ Op = IF n = 6 THEN "mtvec" ELSE IF n = 7 THEN "mie" ELSE "mstatus"
        /\ at' = MainAt(n + 1) /\ MIE' = (IF n = 8 THEN TRUE ELSE MIE) /\ MPIE' = MPIE /\ wait' = 0
    <2>1. Op = IF n = 6 THEN "mtvec" ELSE IF n = 7 THEN "mie" ELSE "mstatus"
      BY Program
    <2>2. at' = MainAt(n + 1)
      BY <2>1 DEF Execute, MainAt
    <2>3. MIE' = CASE Op = "mstatus" -> TRUE [] Op = "mret" -> MPIE [] OTHER -> MIE
      BY DEF Execute
    <2>4. MIE' = IF n = 8 THEN TRUE ELSE MIE
      <3>1. CASE n = 8
        BY <2>1, <2>3, <3>1
      <3>2. CASE n # 8
        <4>1. Op \in {"mtvec", "mie"}
          BY <2>1, <3>2
        <4> QED BY <2>3, <3>2, <4>1
      <3> QED BY <3>1, <3>2
    <2>5. MPIE' = MPIE /\ wait' = 0
      BY <2>1 DEF Execute
    <2> QED BY <2>1, <2>2, <2>4, <2>5
  <1>2. AtDone \/ at \in LoopAts \cup {MainAt(7), MainAt(8)}
    BY DEF AtDone
  <1>3. ran' \in BOOLEAN
    BY DEF Execute
  <1>4. /\ mtime' \in 0 .. HORIZON /\ mtimecmp' \in [lo : Nat, hi : Nat]
        /\ mtimecmp'.hi = 0 /\ mtimecmp'.lo = due
        /\ ~bus'.we /\ bus'.we \in BOOLEAN /\ bus'.wdata = 0 /\ ~Loading'
        /\ idle' = 0 /\ mepc' = mepc /\ due' = due /\ x23' = x23
    BY <1>2, Settled
  <1>5. n + 1 \in 7 .. 9 /\ MainAt(n + 1) \in MainAts
    BY DEF MainAts
  <1>6. TimerTypeOK'
    <2>1. MIE' \in BOOLEAN /\ MPIE' \in BOOLEAN
      BY <1>1 DEF TimerInv, TimerTypeOK
    <2>2. wait' \in 0 .. 3 /\ idle' \in 0 .. SLACK /\ x23' \in Nat /\ due' \in Nat
      BY <1>1, <1>4, Constants DEF TimerInv, TimerTypeOK
    <2> QED BY <1>1, <1>3, <1>4, <1>5, <2>1, <2>2 DEF TimerTypeOK
  <1>7. Gate'
    BY <1>1, <1>4, <1>5, Positions DEF TimerInv, Gate, LoopAts, HandlerAts
  <1>8. ~AtAdd' /\ ~AtSet' /\ ~AtDone'
    BY <1>1, <1>5, Positions DEF AtAdd, AtSet, AtDone
  <1>9. InMem'
    BY <1>4 DEF InMem
  <1>10. Deadline'
    BY <1>4, <1>8 DEF Deadline
  <1>11. Soon'
    <2>1. /\ Within(1 + 2 * K + idle) => Within(1 + 3 * K + 0)'
          /\ Within(1 + 3 * K + idle) => Within(1 + 4 * K + 0)'
          /\ Within(1 + 4 * K + idle) => Within(4 + 5 * K + 3)'
      <3>1. Within(1 + 2 * K + idle) => Within(1 + 3 * K + 0)'
        BY Later, Constants
      <3>2. Within(1 + 3 * K + idle) => Within(1 + 4 * K + 0)'
        BY Later, Constants
      <3>3. Within(1 + 4 * K + idle) => Within(4 + 5 * K + 3)'
        BY Later, Constants
      <3> QED BY <3>1, <3>2, <3>3
    <2>2. Spent' = 3
      BY <1>1, <1>4 DEF Spent
    <2>3. at' = MainAt(7) => Within(1 + 3 * K + idle)'
      BY <1>1, <1>4, <1>5, <2>1, Positions DEF TimerInv, Soon, AtDone, Within
    <2>4. at' = MainAt(8) => Within(1 + 4 * K + idle)'
      BY <1>1, <1>4, <1>5, <2>1, Positions DEF TimerInv, Soon, Within
    <2>5. at' = MainAt(9) => Within(4 + 5 * K + Spent)'
      BY <1>1, <1>5, <2>1, <2>2, Positions DEF TimerInv, Soon, Within
    <2>6. at' # MainAt(10) /\ at' # MainAt(11)
      BY <1>1, <1>5, Positions
    <2> QED BY <1>8, <2>3, <2>4, <2>5, <2>6 DEF Soon
  <1> QED BY <1>6, <1>7, <1>9, <1>10, <1>11 DEF TimerInv

\* Back in the loop, wherever it was left or goes on.
LEMMA LoopType ==
  ASSUME TimerInv, Execute, HORIZON + PERIOD <= W,
         AtDone \/ at \in LoopAts,
         at' \in LoopAts, MIE' = TRUE, MPIE' \in BOOLEAN, wait' \in 0 .. 3
  PROVE  TimerTypeOK' /\ Gate' /\ InMem' /\ Deadline' /\ ~AtAdd' /\ ~AtSet' /\ ~AtDone'
  <1>1. /\ mtime' \in 0 .. HORIZON /\ mtimecmp' \in [lo : Nat, hi : Nat]
        /\ mtimecmp'.hi = 0 /\ mtimecmp'.lo = due
        /\ ~bus'.we /\ bus'.we \in BOOLEAN /\ bus'.wdata = 0 /\ ~Loading'
        /\ idle' = 0 /\ mepc' = mepc /\ due' = due /\ x23' = x23
    BY Settled
  <1>2. ran' \in BOOLEAN
    BY DEF Execute
  <1>3. LoopAts \subseteq MainAts
    BY DEF LoopAts, MainAts
  <1>4. /\ ~AtAdd' /\ ~AtSet' /\ ~AtDone' /\ at' \notin HandlerAts
        /\ at' \notin {MainAt(n) : n \in 1 .. 8}
    BY Positions DEF AtAdd, AtSet, AtDone, LoopAts, HandlerAts
  <1>5. TimerTypeOK'
    <2>1. idle' \in 0 .. SLACK /\ x23' \in Nat /\ due' \in Nat
      BY <1>1, Constants DEF TimerInv, TimerTypeOK
    <2> QED BY <1>1, <1>2, <1>3, <2>1 DEF TimerTypeOK
  <1>6. Gate'
    BY <1>4 DEF Gate
  <1>7. InMem'
    BY <1>1 DEF InMem
  <1>8. Deadline'
    BY <1>1, <1>4 DEF Deadline
  <1> QED BY <1>4, <1>5, <1>6, <1>7, <1>8

LEMMA MretStep ==
  ASSUME TimerInv, Execute, HORIZON + PERIOD <= W, at = HandlerAt(12)
  PROVE  TimerInv'
  <1>1. Op = "mret"
    BY Program
  <1>2. at' = mepc /\ mepc \in LoopAts /\ wait' = 3 /\ MPIE' = TRUE
    BY <1>1 DEF Execute, TimerInv, Gate, HandlerAts
  <1>3. MIE' = TRUE
    <2>1. MPIE = TRUE
      BY DEF TimerInv, TimerTypeOK, Gate, HandlerAts
    <2> QED BY <1>1, <2>1 DEF Execute
  <1>4. AtDone
    BY DEF AtDone
  <1>5. TimerTypeOK' /\ Gate' /\ InMem' /\ Deadline' /\ ~AtAdd' /\ ~AtSet' /\ ~AtDone'
    BY <1>2, <1>3, <1>4, LoopType
  <1>6. Spent' = 0
    BY <1>2, <1>4, Settled DEF Spent
  <1>7. Within(1 + 2 * K + idle)
    BY <1>4 DEF TimerInv, Soon
  <1>8. Within(1 + 3 * K + 0)' /\ Within(4 + 5 * K + 0)' /\ Within(4 + 6 * K + 0)'
    <2>1. Within(1 + 3 * K + 0)'
      BY <1>7, Later, Constants
    <2>2. Within(4 + 5 * K + 0)'
      BY <1>7, Later, Constants
    <2>3. Within(4 + 6 * K + 0)'
      BY <1>7, Later, Constants
    <2> QED BY <2>1, <2>2, <2>3
  <1>9. at' # MainAt(7) /\ at' # MainAt(8)
    BY <1>2, Positions DEF LoopAts
  <1>10. Soon'
    BY <1>5, <1>6, <1>8, <1>9 DEF Soon, Within
  <1> QED BY <1>5, <1>10 DEF TimerInv

LEMMA LoopStep ==
  ASSUME TimerInv, Execute, HORIZON + PERIOD <= W, at \in LoopAts
  PROVE  TimerInv'
  <1>1. Op = IF at = MainAt(9) THEN "addi" ELSE IF at = MainAt(10) THEN "main" ELSE "loop"
    BY Program DEF LoopAts
  <1>2. at' = IF at = MainAt(9) THEN MainAt(10)
              ELSE IF at = MainAt(10) THEN MainAt(11) ELSE MainAt(9)
    BY <1>1, Positions DEF Execute, MainAt, LoopAts, LOOP
  <1>3. MIE' = TRUE /\ MPIE' \in BOOLEAN /\ wait' \in 0 .. 3 /\ (at # MainAt(11) => wait' = 0)
    <2>1. MIE = TRUE /\ MPIE \in BOOLEAN
      BY DEF TimerInv, TimerTypeOK, Gate
    <2>2. wait' \in 0 .. 3 /\ (at # MainAt(11) => wait' = 0)
      BY <1>1 DEF Execute, LoopAts
    <2>3. MPIE' = MPIE
      BY <1>1 DEF Execute
    <2>4. MIE' = MIE
      BY <1>1 DEF Execute
    <2> QED BY <2>1, <2>2, <2>3, <2>4
  <1>4. TimerTypeOK' /\ Gate' /\ InMem' /\ Deadline' /\ ~AtAdd' /\ ~AtSet' /\ ~AtDone'
    BY <1>2, <1>3, LoopType DEF LoopAts
  <1>5. wait = 0 /\ idle' = 0 /\ due' = due /\ mtime' = mtime + 1
    BY Settled, ExecuteEffect
  <1>6. idle \in 0 .. SLACK /\ Spent = 3 + idle
    BY <1>5, Constants DEF TimerInv, TimerTypeOK, Spent
  <1>7. ran' <=> ran \/ at = MainAt(10)
    <2>1. Op = "main" <=> at = MainAt(10)
      BY <1>1, Positions DEF LoopAts
    <2> QED BY <2>1 DEF Execute
  <1>8. at' = MainAt(10) /\ ~ran' => Within(4 + 6 * K + Spent)'
    <2> SUFFICES ASSUME at' = MainAt(10), ~ran' PROVE Within(4 + 6 * K + Spent)'
      OBVIOUS
    <2>1. at = MainAt(9) /\ ~ran
      BY <1>2, <1>7, Positions DEF LoopAts
    <2>2. Spent' = 3
      BY <1>3, <1>5, <2>1, Positions DEF Spent
    <2>3. Within(7 + 5 * K + idle)
      BY <1>6, <2>1, Constants DEF TimerInv, TimerTypeOK, Soon, Within
    <2>4. Within(7 + 6 * K)'
      BY <2>3, Later, Constants
    <2> QED BY <1>5, <2>2, <2>4, Constants DEF TimerInv, TimerTypeOK, Within
  <1>9. at' = MainAt(9) /\ ~ran' => Within(4 + 5 * K + Spent)'
    <2> SUFFICES ASSUME at' = MainAt(9), ~ran' PROVE Within(4 + 5 * K + Spent)'
      OBVIOUS
    <2>1. at = MainAt(11) /\ ~ran
      BY <1>2, <1>7, Positions DEF LoopAts
    <2>2. wait' = 0 \/ wait' = 3
      BY <1>1, <2>1, Positions DEF Execute
    <2>3. Spent' = 3 \/ Spent' = 0
      <3>1. CASE wait' = 0
        BY <1>5, <3>1 DEF Spent
      <3>2. CASE wait' = 3
        BY <1>5, <3>2 DEF Spent
      <3> QED BY <2>2, <3>1, <3>2
    <2>4. Within(4 + 3 * K + idle)
      BY <1>6, <2>1, Constants DEF TimerInv, TimerTypeOK, Soon, Within
    <2>5. Within(4 + 5 * K + 0)'
      BY <2>4, Later, Constants
    <2>6. Within(4 + 5 * K + 3)'
      BY <2>4, Later, Constants
    <2> QED BY <2>3, <2>5, <2>6 DEF Within
  <1>10. at' = MainAt(11) => ran'
    BY <1>2, <1>7, Positions DEF LoopAts
  <1>11. at' # MainAt(7) /\ at' # MainAt(8)
    BY <1>2, Positions
  <1>12. Soon'
    BY <1>4, <1>8, <1>9, <1>10, <1>11 DEF Soon
  <1> QED BY <1>4, <1>12 DEF TimerInv

LEMMA ExecuteStep ==
  ASSUME TimerInv, Execute, HORIZON + PERIOD <= W
  PROVE  TimerInv'
  <1>1. at \in HandlerAts \cup MainAts
    BY DEF TimerInv, TimerTypeOK
  <1>2. CASE \E n \in 1 .. 8 : at = HandlerAt(n)
    BY <1>2, HandlerHead
  <1>3. CASE \E n \in 1 .. 2 : at = MainAt(n)
    BY <1>3, MainHead
  <1>4. CASE at = HandlerAt(9) \/ at = MainAt(3)
    BY <1>4, NowStep
  <1>5. CASE AtAdd
    BY <1>5, AddStep
  <1>6. CASE AtSet
    BY <1>6, SetStep
  <1>7. CASE at = HandlerAt(12)
    BY <1>7, MretStep
  <1>8. CASE \E n \in 6 .. 8 : at = MainAt(n)
    BY <1>8, SetupStep
  <1>9. CASE at \in LoopAts
    BY <1>9, LoopStep
  <1> QED BY <1>1, <1>2, <1>3, <1>4, <1>5, <1>6, <1>7, <1>8, <1>9
        DEF HandlerAts, MainAts, LoopAts, AtAdd, AtSet

LEMMA TimerInit == Init => TimerInv
  <1> SUFFICES ASSUME Init PROVE TimerInv
    OBVIOUS
  <1>1. MainAt(1) \in MainAts
    BY DEF MainAts
  <1>2. ~AtAdd /\ ~AtSet /\ ~AtDone /\ at \notin {MainAt(n) : n \in 7 .. 11} /\ at \notin HandlerAts
    BY Positions DEF Init, AtAdd, AtSet, AtDone, HandlerAts
  <1>3. TimerTypeOK
    <2>1. mtimecmp \in [lo : Nat, hi : Nat]
      BY Constants DEF Init, ClintInit, NoDeadline, Ones
    <2>2. mtime \in 0 .. HORIZON /\ wait \in 0 .. 3 /\ idle \in 0 .. SLACK
      BY Constants DEF Init, ClintInit
    <2> QED BY <1>1, <2>1, <2>2 DEF Init, TimerTypeOK
  <1>4. Gate /\ InMem
    BY <1>2 DEF Init, Gate, InMem, LoopAts, NoBus, Loading
  <1>5. Deadline /\ Soon
    BY <1>2 DEF Init, Deadline, Soon, LoopAts
  <1> QED BY <1>3, <1>4, <1>5 DEF TimerInv

LEMMA TimerInvariant == ASSUME HORIZON + PERIOD <= W PROVE Spec => []TimerInv
  <1>1. TimerInv /\ [Next]_vars => TimerInv'
    <2> SUFFICES ASSUME TimerInv, [Next]_vars PROVE TimerInv'
      OBVIOUS
    <2>1. CASE UNCHANGED vars
      BY <2>1 DEF vars, clintVars, coreVars, TimerInv, TimerTypeOK, Gate, InMem, Deadline,
                  Soon, Within, Spent, AtAdd, AtSet, AtDone, Loading
    <2> QED BY <2>1, BubbleStep, InterruptStep, ExecuteStep DEF Next
  <1> QED BY <1>1, TimerInit, PTL DEF Spec

\* While mtime and the deadline fit the low half, no tick is early: every interrupt
\* is at or after the time its handler asked for (firmware.py:138-151).
THEOREM OnTime == ASSUME HORIZON + PERIOD <= W PROVE Spec => NeverEarly
  <1>1. TimerInv /\ [Next]_vars => [Interrupt => mtime >= due]_vars
    BY Fires
  <1> QED BY <1>1, TimerInvariant, PTL DEF Spec, NeverEarly

\* With a period longer than the handler's tail and one turn of the loop can take,
\* "main" runs between any two interrupts (firmware.py:109-110).
THEOREM LoopRuns ==
  ASSUME HORIZON + PERIOD <= W, PERIOD > 6 + 7 * (SLACK + 1)
  PROVE  Spec => LoopKeepsCounting
  <1>1. ASSUME TimerInv, Interrupt PROVE ran
    <2>1. at \in LoopAts /\ mtime >= due /\ wait = 0
      BY <1>1, Fires DEF Interrupt
    <2>2. idle \in 0 .. SLACK /\ mtime \in Nat /\ due \in Nat /\ Spent = 3 + idle
      BY <1>1, <2>1, Constants DEF TimerInv, TimerTypeOK, Spent
    <2>3. SUFFICES ASSUME ~ran PROVE FALSE
      OBVIOUS
    <2>4. \/ Within(1 + 3 * K + Spent) \/ Within(4 + 5 * K + Spent) \/ Within(4 + 6 * K + Spent)
      BY <1>1, <2>1, <2>3 DEF TimerInv, Soon, LoopAts
    <2>5. mtime + PERIOD <= due + 7 + 6 * K + SLACK
      BY <2>2, <2>4, Constants DEF Within
    <2> QED BY <2>1, <2>2, <2>5, Constants
  <1>2. TimerInv /\ [Next]_vars => [Interrupt => ran]_vars
    BY <1>1
  <1> QED BY <1>2, TimerInvariant, PTL DEF Spec, LoopKeepsCounting
=============================================================================
