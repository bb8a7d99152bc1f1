----------------------------- MODULE UartProofs -----------------------------
(***************************************************************************)
(* The UART link, for every divisor, frame format and FIFO depth.          *)
(***************************************************************************)
EXTENDS UartLink, SequenceTheorems, TLAPS

TxStates == {"IDLE", "START", "DATA", "PARITY", "STOP1", "STOP2"}

\* What is owed of the stop bits never outlasts the clocks the engine has yet to
\* count before it can put the next start bit on the line.
Owed ==
  /\ cfg \in Configs
  /\ baud_cnt \in Nat /\ owed \in Nat
  /\ tx_state \in TxStates
  /\ tx_state = "IDLE" => owed <= cfg.div
  /\ tx_state = "START" => owed <= baud_cnt
  /\ tx_state \in {"DATA", "PARITY", "STOP1"} => owed = 0
  /\ tx_state = "STOP2" => owed = baud_cnt + BitTime

\* One clock of the transmit engine, as far as the line's stop bits are concerned.
LEMMA OwedEdge ==
  ASSUME Owed, NEW pop \in BOOLEAN, ClockEdge(pop)
  PROVE  Owed'
  <1>1. /\ cfg' = cfg /\ cfg \in Configs /\ cfg.div \in Nat
        /\ baud_cnt \in Nat /\ owed \in Nat
    BY LinkAssumption DEF Owed, ClockEdge
  <1>2. baud_cnt' = IF tx_state = "IDLE" \/ baud_tick THEN cfg.div ELSE baud_cnt - 1
    BY DEF ClockEdge, TxEdge, Baud
  <1>3. baud_cnt' \in Nat
    BY <1>1, <1>2 DEF baud_tick
  <1>4. owed' = IF At("STOP1") THEN (IF frame.stop2 THEN 2 ELSE 1) * BitTime - 1
                ELSE IF owed = 0 THEN 0 ELSE owed - 1
    BY DEF ClockEdge
  <1>5. \/ Idle \/ Latch(tx_fifo_rdata) \/ BetweenTicks
        \/ StartBit \/ DataBit \/ SendParity \/ StopBit
    BY DEF ClockEdge, TxEdge
  <1>6. CASE Idle
    BY <1>1, <1>2, <1>3, <1>4, <1>6 DEF Idle, Owed, At, TxStates, BitTime
  <1>7. CASE Latch(tx_fifo_rdata)
    BY <1>1, <1>2, <1>3, <1>4, <1>7 DEF Latch, Owed, At, TxStates, BitTime
  <1>8. CASE BetweenTicks
    BY <1>1, <1>2, <1>3, <1>4, <1>8 DEF BetweenTicks, Owed, At, TxStates, BitTime, baud_tick
  <1>9. CASE StartBit
    BY <1>1, <1>2, <1>3, <1>4, <1>9 DEF StartBit, Owed, At, TxStates, BitTime, baud_tick
  <1>10. CASE DataBit
    BY <1>1, <1>2, <1>3, <1>4, <1>10 DEF DataBit, Owed, At, TxStates, BitTime, baud_tick
  <1>11. CASE SendParity
    BY <1>1, <1>2, <1>3, <1>4, <1>11 DEF SendParity, Owed, At, TxStates, BitTime, baud_tick
  <1>12. CASE StopBit
    BY <1>1, <1>2, <1>3, <1>4, <1>12 DEF StopBit, Owed, At, TxStates, BitTime, baud_tick
  <1> QED BY <1>5, <1>6, <1>7, <1>8, <1>9, <1>10, <1>11, <1>12

LEMMA OwedNext == Owed /\ [Next]_vars => Owed'
  <1> SUFFICES ASSUME Owed, [Next]_vars PROVE Owed'
    OBVIOUS
  <1>1. CASE Running
    BY <1>1, OwedEdge DEF Running
  <1>2. CASE Reset
    BY <1>2, LinkAssumption DEF Reset, TxReset, Owed, TxStates
  <1>3. CASE Configure
    BY <1>3, LinkAssumption DEF Configure, txVars, history, Owed, TxStates
  <1>4. CASE UNCHANGED vars
    BY <1>4 DEF vars, txVars, history, Owed, BitTime
  <1> QED BY <1>1, <1>2, <1>3, <1>4 DEF Next

LEMMA OwedInvariant == Spec => []Owed
  <1>1. Init => Owed
    BY LinkAssumption DEF Init, TxInit, Owed, TxStates
  <1> QED BY <1>1, OwedNext, PTL DEF Spec

\* No start bit cuts the previous frame's stop bits short, for every divisor and
\* frame format, through resets and reconfigurations (uart_tx.sv:72-79, 142-150).
THEOREM StopBits == Spec => []StopBitsWhole
  <1>1. Owed => StopBitsWhole
    BY DEF Owed, StopBitsWhole, At, baud_tick
  <1> QED BY <1>1, OwedInvariant, PTL

-----------------------------------------------------------------------------
(* Receiving what was sent.  The two engines count in different units: the *)
(* transmitter's bit is div + 1 clocks, the receiver's is sixteen samples  *)
(* of div \div 16 + 1 clocks.                                              *)

\* Of a configuration: data bits, parity bits, the index of the first stop bit in
\* the frame, whose start bit is 0, and the clocks of a bit and of the stop bits,
Width(c)  == ((c.data_bits + 7) % 8) + 1
Pars(c)   == IF c.parity = "none" THEN 0 ELSE 1
StopAt(c) == Width(c) + Pars(c) + 1
Clocks(c) == c.div + 1
Stops(c)  == (IF c.stop2 THEN 2 ELSE 1) * Clocks(c)

\* the clocks of a sample, and those by which sixteen of them are longer than a bit.
SampleDiv(c)  == c.div \div 16
SampleTime(c) == SampleDiv(c) + 1
Late(c)       == 16 * SampleTime(c) - Clocks(c)

BitStart(c, b) == Clocks(c) * b
Drift(c, b)    == Late(c) * b
Samples(c, n)  == SampleTime(c) * n

\* A receiver x clocks late on the start bit is still on time for the stop bit.
InTime(x) == \A c \in Configs : x + Drift(c, StopAt(c) + 1) + 5 <= Samples(c, 8)

\* The sampling tolerance: whichever of the configurations the sample counter was
\* last loaded under.
Tolerance == \A c \in Configs : InTime(SampleDiv(c))

RxStates == {"IDLE", "START", "DATA", "PARITY", "STOP"}
Byte  == 0 .. 255
Three == [1 .. 3 -> Bit]

\* The bits of a byte, the parity of the first k of them, and its frame.
BitOf(p, i) == (p \div (2 ^ i)) % 2
Term(p, i, k) == IF i < k THEN BitOf(p, i) ELSE 0
Acc(p, k) == (Term(p, 0, k) + Term(p, 1, k) + Term(p, 2, k) + Term(p, 3, k)
                + Term(p, 4, k) + Term(p, 5, k) + Term(p, 6, k) + Term(p, 7, k)) % 2
Level(c, p, j) ==
  IF j = 0 THEN 0
  ELSE IF j \in 1 .. Width(c) THEN BitOf(p, j - 1)
  ELSE IF j = Width(c) + 1 /\ Pars(c) = 1 THEN ParityBit(c.parity, Acc(p, Width(c)))
  ELSE 1

\* The bit of the frame that is on the line, and the clocks it has been there.
InFrame == tx_state \in {"DATA", "PARITY", "STOP1"}
LineBit == CASE tx_state = "DATA"   -> bit_cnt
             [] tx_state = "PARITY" -> Width(cfg)
             [] tx_state = "STOP1"  -> Width(cfg) + Pars(cfg)
             [] OTHER               -> StopAt(cfg)
Into == IF InFrame THEN cfg.div - baud_cnt ELSE Stops(cfg) - 1 - owed
Now  == BitStart(cfg, LineBit) + Into

\* A byte is on the line, and has not all been received.
Unread == InFrame \/ (owed > 0 /\ rx_state # "IDLE")
Count(P) == IF P THEN 1 ELSE 0
Sent   == outstanding[Len(Arrived) + 1]

\* The receiver's clock: samples since it saw the start bit, and its lag behind
\* the line it sees, which is three clocks old.
RxBit   == CASE rx_state = "DATA"   -> rx_bit_cnt
             [] rx_state = "PARITY" -> Width(cfg)
             [] rx_state = "STOP"   -> Width(cfg) + Pars(cfg)
             [] OTHER               -> 0
RxPhase == IF rx_state = "START" THEN phase + 1 ELSE phase + 9
RxPos   == BitStart(cfg, RxBit) + Drift(cfg, RxBit) + Samples(cfg, RxPhase)
Lag     == Now + os_cnt - (RxPos + 3)

\* A start bit the receiver believes in and that is not there yet.
Spurious == rx_state = "START" /\ (~Unread \/ Now < 3)
Locked   == rx_state # "IDLE" /\ Unread /\ ~Spurious

LinkTypes ==
  /\ shift \in Byte /\ bit_cnt \in 0 .. 7 /\ parity_acc \in Bit /\ tx \in Bit
  /\ tx_fifo_rd \in BOOLEAN /\ fetch_pending \in BOOLEAN
  /\ tx_fifo_wr \in BOOLEAN /\ tx_fifo_wdata \in Byte
  /\ rx_s \in Three /\ vote_buf \in Three
  /\ os_cnt \in Nat /\ rx_state \in RxStates /\ phase \in 0 .. 15
  /\ rx_shift \in Byte /\ rx_bit_cnt \in 0 .. 7 /\ rx_parity_acc \in Bit
  /\ framing_err = FALSE /\ parity_err = FALSE
  /\ rx_fifo_wr \in BOOLEAN /\ rx_fifo_data \in Words
  /\ tx_fifo \in Seq(Byte) /\ rx_fifo \in Seq(Words)
  /\ outstanding \in Seq(Byte)

\* The transmit engine between the FIFO and the line.
Sending ==
  /\ tx_state # "IDLE" =>
       /\ frame = [m1 |-> LastBit, parity |-> cfg.parity, stop2 |-> cfg.stop2]
       /\ baud_cnt <= cfg.div
  /\ tx_fifo_rd <=> tx_state = "IDLE" /\ fetch_pending
  /\ fetch_pending => tx_state \in {"IDLE", "START"}
  /\ tx_fifo_rd => tx_fifo # <<>>
  /\ tx_state = "START" => bit_cnt = 0 /\ parity_acc = 0
  /\ tx_state = "DATA" => bit_cnt < Width(cfg)
  /\ tx_state = "PARITY" => Pars(cfg) = 1
  /\ tx_state = "STOP2" => cfg.stop2

\* Of the byte p: what is left of it to send,
ToSend(p) ==
  /\ tx_state = "DATA" =>
       /\ shift % (2 ^ (Width(cfg) - bit_cnt)) = p \div (2 ^ bit_cnt)
       /\ parity_acc = Acc(p, bit_cnt)
  /\ tx_state = "PARITY" => parity_acc = Acc(p, Width(cfg))

\* the bit of its frame that is on the line and those in the synchroniser,
OnLine(p) ==
  /\ tx = Level(cfg, p, LineBit)
  /\ \A i \in 1 .. 3 : rx_s[i] = Level(cfg, p, IF Into >= i THEN LineBit ELSE LineBit - 1)

\* and what the receiver has of it.
Taken(p) ==
  /\ rx_state = "DATA" =>
       /\ rx_shift \div (2 ^ (8 - rx_bit_cnt)) = p % (2 ^ rx_bit_cnt)
       /\ rx_parity_acc = Acc(p, rx_bit_cnt)
       /\ phase >= 8 => vote_buf[2] = Level(cfg, p, rx_bit_cnt + 1)
       /\ phase >= 9 => vote_buf[3] = Level(cfg, p, rx_bit_cnt + 1)
  /\ rx_state \in {"PARITY", "STOP"} => rx_shift \div (2 ^ (8 - Width(cfg))) = p
  /\ rx_state = "PARITY" =>
       /\ rx_parity_acc = Acc(p, Width(cfg))
       /\ phase >= 8 => vote_buf[2] = Level(cfg, p, Width(cfg) + 1)

Carried(p) == ToSend(p) /\ OnLine(p) /\ Taken(p)

\* The line without a byte on it: what a reset left in the synchroniser is gone
\* before the next byte can be fetched.
Line ==
  ~Unread =>
    /\ tx = 1
    /\ owed > 0 => \A i \in 1 .. 3 : rx_s[i] = 1
    /\ rx_s[1] = 0 => ~tx_fifo_wr
    /\ rx_s[1] = 0 \/ rx_s[2] = 0 => tx_fifo = <<>>
    /\ \A i \in 1 .. 3 : rx_s[i] = 0 => tx_state = "IDLE" /\ ~fetch_pending

\* A false start is given up before the next frame's start bit can be seen: the
\* clocks to its check are os_cnt and the samples left.
FalseStart ==
  Spurious =>
    LET check == os_cnt + Samples(cfg, 7)
    IN  /\ ~Unread => \A i \in 1 .. 3 : rx_s[i] = 0 => check + i >= Samples(cfg, phase) + 9
        /\ tx_state = "IDLE"  => check <= Samples(cfg, phase) + Clocks(cfg) + 3
        /\ tx_state = "START" => check <= Samples(cfg, phase) + baud_cnt + 3
        /\ Unread => check + Now < Samples(cfg, phase) + 3

Receiving ==
  /\ InTime(os_cnt)
  /\ rx_state # "IDLE" => os_cnt <= os_div
  /\ rx_state = "START" => phase <= 7
  /\ rx_state # "IDLE" /\ ~Unread => Spurious
  /\ InFrame /\ rx_state = "IDLE" =>
       LineBit = 0 /\ (Into >= 3 => InTime(Into - 3 + os_cnt))
  /\ Locked => Lag \in Nat /\ InTime(Lag)
  /\ rx_state \in {"DATA", "PARITY", "STOP"} =>
       rx_frame = [m1 |-> LastBit, parity |-> cfg.parity]
  /\ rx_state = "DATA" => rx_bit_cnt < Width(cfg)
  /\ rx_state = "PARITY" => Pars(cfg) = 1

\* A word of the receive FIFO is the byte p, and nothing is said against it.
Good(c, word, p) ==
  word.data \div (2 ^ (8 - Width(c))) = p /\ ~word.parity_err /\ ~word.framing_err

\* Of the accepted bytes out, oldest first: those that arrived, the one on the line
\* (if there is, u = 1), which is y, the one latched (q = 1) as x, those in the
\* transmit FIFO.
InPlace(c, out, arrived, u, y, q, x, fifo) ==
  /\ Len(out) = Len(arrived) + u + q + Len(fifo)
  /\ \A i \in 1 .. Len(arrived) : Good(c, arrived[i], out[i])
  /\ u = 1 => out[Len(arrived) + 1] = y /\ y < 2 ^ Width(c)
  /\ q = 1 => out[Len(arrived) + u + 1] = x % (2 ^ Width(c))
  /\ \A i \in 1 .. Len(fifo) : out[Len(arrived) + u + q + i] = fifo[i] % (2 ^ Width(c))

Board ==
  /\ InPlace(cfg, outstanding, Arrived, Count(Unread), Sent,
             Count(tx_state = "START"), shift, tx_fifo)
  /\ rx_fifo_wr => rx_state = "IDLE" /\ ~rx_fifo_full
  /\ Len(tx_fifo) <= TX_FIFO_DEPTH /\ Len(rx_fifo) <= RX_FIFO_DEPTH

LinkInv ==
  /\ Owed /\ LinkTypes /\ Sending /\ Line /\ FalseStart /\ Receiving /\ Board
  /\ Unread => \A p \in Byte : p = Sent => Carried(p)

(* The two clocks.                                                         *)

LEMMA Config ==
  ASSUME NEW c \in Configs
  PROVE  /\ c.div \in Nat /\ Clocks(c) = c.div + 1 /\ Clocks(c) \in Nat
         /\ Width(c) \in 1 .. 8 /\ Pars(c) \in {0, 1}
         /\ StopAt(c) = Width(c) + Pars(c) + 1 /\ StopAt(c) \in 2 .. 10
         /\ SampleDiv(c) \in Nat /\ SampleTime(c) = SampleDiv(c) + 1
         /\ Late(c) \in Nat /\ 16 * SampleTime(c) = Clocks(c) + Late(c)
         /\ c.stop2 \in BOOLEAN
         /\ Stops(c) = IF c.stop2 THEN Clocks(c) + Clocks(c) ELSE Clocks(c)
  <1>1. c.div \in Nat /\ c.data_bits \in 0 .. 7 /\ c.stop2 \in BOOLEAN
    BY LinkAssumption
  <1>2. \A d \in Nat : d \div 16 \in Nat /\ 16 * (d \div 16 + 1) - (d + 1) \in Nat
    OBVIOUS
  <1>3. \A d \in 0 .. 7 : ((d + 7) % 8) + 1 \in 1 .. 8
    OBVIOUS
  <1>4. Width(c) \in 1 .. 8
    BY <1>1, <1>3 DEF Width
  <1>5. Pars(c) \in {0, 1}
    BY DEF Pars
  <1>6. /\ SampleDiv(c) \in Nat /\ SampleTime(c) = SampleDiv(c) + 1 /\ Late(c) \in Nat
    BY <1>1, <1>2 DEF SampleDiv, SampleTime, Late, Clocks
  <1>7. 16 * SampleTime(c) = Clocks(c) + Late(c)
    BY <1>1, <1>6 DEF Late, Clocks
  <1>8. Stops(c) = IF c.stop2 THEN Clocks(c) + Clocks(c) ELSE Clocks(c)
    BY <1>1 DEF Stops, Clocks
  <1> QED BY <1>1, <1>4, <1>5, <1>6, <1>7, <1>8 DEF StopAt, Clocks

\* Multiples, by one at a time.
LEMMA Multiples ==
  ASSUME NEW k \in Nat
  PROVE  /\ \A b \in Nat : k * b \in Nat /\ k * (b + 1) = k * b + k
         /\ \A a \in Nat : \A b \in Nat : a <= b => k * a <= k * b
         /\ \A a \in Nat : \A b \in Nat : a < b => k * a + k <= k * b
  <1>1. \A b \in Nat : k * b \in Nat /\ k * (b + 1) = k * b + k
    OBVIOUS
  <1>2. ASSUME NEW a \in Nat, NEW b \in Nat, a <= b PROVE k * a <= k * b
    <2>1. \A d \in Nat : k * d \in Nat /\ k * (a + d) = k * a + k * d
      OBVIOUS
    <2>2. b - a \in Nat /\ b = a + (b - a)
      BY <1>2
    <2>3. k * (b - a) \in Nat /\ k * b = k * a + k * (b - a)
      BY <2>1, <2>2
    <2> QED BY <1>1, <2>3
  <1>3. ASSUME NEW a \in Nat, NEW b \in Nat, a < b PROVE k * a + k <= k * b
    <2>1. a + 1 \in Nat /\ a + 1 <= b
      BY <1>3
    <2> QED BY <1>1, <1>2, <2>1
  <1> QED BY <1>1, <1>2, <1>3

LEMMA Bits ==
  ASSUME NEW c \in Configs
  PROVE  /\ BitStart(c, 0) = 0
         /\ \A b \in Nat : BitStart(c, b) \in Nat /\ BitStart(c, b + 1) = BitStart(c, b) + Clocks(c)
         /\ \A a \in Nat : \A b \in Nat : a < b => BitStart(c, a) + Clocks(c) <= BitStart(c, b)
  <1>1. Clocks(c) \in Nat
    BY Config
  <1>2. BitStart(c, 0) = 0
    BY <1>1 DEF BitStart
  <1> QED BY <1>1, <1>2, Multiples DEF BitStart

LEMMA Drifts ==
  ASSUME NEW c \in Configs
  PROVE  /\ Drift(c, 0) = 0
         /\ \A b \in Nat : Drift(c, b) \in Nat /\ Drift(c, b + 1) = Drift(c, b) + Late(c)
         /\ \A a \in Nat : \A b \in Nat : a <= b => Drift(c, a) <= Drift(c, b)
  <1>1. Late(c) \in Nat
    BY Config
  <1>2. Drift(c, 0) = 0
    BY <1>1 DEF Drift
  <1> QED BY <1>1, <1>2, Multiples DEF Drift

LEMMA SampleTimes ==
  ASSUME NEW c \in Configs
  PROVE  /\ \A n \in Nat : Samples(c, n) \in Nat /\ Samples(c, n + 1) = Samples(c, n) + SampleTime(c)
         /\ \A m \in Nat : \A n \in Nat : m <= n => Samples(c, m) <= Samples(c, n)
  <1>1. SampleTime(c) \in Nat
    BY Config
  <1> QED BY <1>1, Multiples DEF Samples

\* The middle of the start bit, the samples around the edge of the next, and the
\* middle of the last.
LEMMA Eighths ==
  ASSUME NEW c \in Configs
  PROVE  /\ Samples(c, 7) \in Nat /\ Samples(c, 8) \in Nat /\ Samples(c, 16) \in Nat
         /\ Samples(c, 17) \in Nat /\ Samples(c, 24) \in Nat
         /\ Samples(c, 0) = 0
         /\ Samples(c, 7) + SampleTime(c) = Samples(c, 8)
         /\ Samples(c, 16) = Clocks(c) + Late(c)
         /\ Samples(c, 16) = Samples(c, 8) + Samples(c, 8)
         /\ Samples(c, 17) = Samples(c, 16) + SampleTime(c)
         /\ Samples(c, 24) = Samples(c, 16) + Samples(c, 8)
         /\ Samples(c, 8) >= 8 /\ SampleTime(c) <= Samples(c, 8)
  <1>1. SampleTime(c) \in Nat /\ SampleTime(c) >= 1 /\ 16 * SampleTime(c) = Clocks(c) + Late(c)
    BY Config
  <1>2. /\ SampleTime(c) * 7 \in Nat /\ SampleTime(c) * 8 \in Nat /\ SampleTime(c) * 16 \in Nat
        /\ SampleTime(c) * 17 \in Nat /\ SampleTime(c) * 24 \in Nat
        /\ SampleTime(c) * 0 = 0
        /\ SampleTime(c) * 7 + SampleTime(c) = SampleTime(c) * 8
        /\ SampleTime(c) * 16 = 16 * SampleTime(c)
        /\ SampleTime(c) * 16 = SampleTime(c) * 8 + SampleTime(c) * 8
        /\ SampleTime(c) * 17 = SampleTime(c) * 16 + SampleTime(c)
        /\ SampleTime(c) * 24 = SampleTime(c) * 16 + SampleTime(c) * 8
        /\ SampleTime(c) * 8 >= 8 /\ SampleTime(c) <= SampleTime(c) * 8
    BY <1>1
  <1> QED BY <1>1, <1>2 DEF Samples

LEMMA InTimeMeans ==
  ASSUME NEW c \in Configs, NEW x \in Nat, InTime(x)
  PROVE  x + Drift(c, StopAt(c) + 1) + 5 <= Samples(c, 8)
  BY DEF InTime

LEMMA InTimeBelow ==
  ASSUME NEW x \in Nat, NEW y \in Nat, y <= x, InTime(x)
  PROVE  InTime(y)
  <1> SUFFICES ASSUME NEW c \in Configs PROVE y + Drift(c, StopAt(c) + 1) + 5 <= Samples(c, 8)
    BY DEF InTime
  <1>1. x + Drift(c, StopAt(c) + 1) + 5 <= Samples(c, 8)
    BY InTimeMeans
  <1>2. StopAt(c) + 1 \in Nat
    BY Config
  <1>3. Drift(c, StopAt(c) + 1) \in Nat /\ Samples(c, 8) \in Nat
    BY <1>2, Drifts, Eighths
  <1> QED BY <1>1, <1>3

\* A bit is longer than the synchroniser.
LEMMA LongBit ==
  ASSUME NEW c \in Configs, Tolerance
  PROVE  /\ InTime(SampleDiv(c)) /\ InTime(0)
         /\ Clocks(c) >= 9
  <1>1. SampleDiv(c) \in Nat /\ Late(c) \in Nat /\ StopAt(c) + 1 \in Nat /\ Clocks(c) \in Nat
    BY Config
  <1>2. InTime(SampleDiv(c))
    BY DEF Tolerance
  <1>3. InTime(0)
    BY <1>1, <1>2, InTimeBelow
  <1>4. 0 + Drift(c, StopAt(c) + 1) + 5 <= Samples(c, 8)
    BY <1>3, InTimeMeans
  <1>5. Late(c) <= Drift(c, StopAt(c) + 1) /\ Drift(c, StopAt(c) + 1) \in Nat
    <2>1. Drift(c, 0 + 1) = Drift(c, 0) + Late(c) /\ Drift(c, 0) = 0
      BY Drifts
    <2>2. 1 \in Nat /\ 1 <= StopAt(c) + 1
      BY Config
    <2>3. Drift(c, 1) <= Drift(c, StopAt(c) + 1) /\ Drift(c, StopAt(c) + 1) \in Nat
      BY <1>1, <2>2, Drifts
    <2> QED BY <1>1, <2>1, <2>3
  <1>6. Samples(c, 8) \in Nat /\ Samples(c, 8) >= 8 /\ Samples(c, 8) + Samples(c, 8) = Clocks(c) + Late(c)
    BY Eighths
  <1> QED BY <1>1, <1>2, <1>3, <1>4, <1>5, <1>6

\* Every clock of a frame belongs to one bit.
LEMMA SameBit ==
  ASSUME NEW c \in Configs, NEW a \in Nat, NEW b \in Nat, NEW y \in 0 .. c.div, NEW z \in Nat,
         BitStart(c, a) + y = BitStart(c, b) + z
  PROVE  b <= a /\ (z <= c.div => a = b /\ y = z)
  <1>1. /\ BitStart(c, a) \in Nat /\ BitStart(c, b) \in Nat /\ Clocks(c) = c.div + 1 /\ c.div \in Nat
    BY Bits, Config
  <1>2. a < b => BitStart(c, a) + Clocks(c) <= BitStart(c, b)
    BY Bits
  <1>3. b < a => BitStart(c, b) + Clocks(c) <= BitStart(c, a)
    BY Bits
  <1> QED BY <1>1, <1>2, <1>3

\* The receiver is done with a frame in the middle of its first stop bit at the
\* latest, however late it started and however far it drifts.
LEMMA DoneInTime ==
  ASSUME NEW c \in Configs, NEW x \in Nat, InTime(x), NEW b \in 0 .. StopAt(c) - 1, NEW n \in 0 .. 24
  PROVE  BitStart(c, b) + Drift(c, b) + Samples(c, n) + x + 5
           <= BitStart(c, StopAt(c)) + Clocks(c)
  <1> DEFINE s == StopAt(c) - 1
  <1>1. s \in Nat /\ s + 1 = StopAt(c) /\ s + 1 \in Nat /\ b \in Nat /\ b <= s /\ n \in Nat
        /\ Late(c) \in Nat /\ Clocks(c) \in Nat
    BY Config
  <1> HIDE DEF s
  <1>2. x + Drift(c, s + 1 + 1) + 5 <= Samples(c, 8)
    BY <1>1, InTimeMeans
  <1>3. /\ Drift(c, s + 1 + 1) = Drift(c, s + 1) + Late(c)
        /\ Drift(c, s + 1) = Drift(c, s) + Late(c)
        /\ Drift(c, b) <= Drift(c, s) /\ Drift(c, b) \in Nat /\ Drift(c, s) \in Nat
    BY <1>1, Drifts
  <1>4. /\ BitStart(c, s + 1) = BitStart(c, s) + Clocks(c)
        /\ BitStart(c, b) \in Nat /\ BitStart(c, s) \in Nat
    BY <1>1, Bits
  <1>5. BitStart(c, b) <= BitStart(c, s)
    <2>1. b < s => BitStart(c, b) + Clocks(c) <= BitStart(c, s)
      BY <1>1, Bits
    <2> QED BY <1>1, <1>4, <2>1
  <1>6. Samples(c, n) <= Samples(c, 24) /\ Samples(c, n) \in Nat
    <2>1. n \in Nat /\ 24 \in Nat /\ n <= 24
      OBVIOUS
    <2> QED BY <2>1, SampleTimes
  <1>8. /\ Samples(c, 8) \in Nat /\ Samples(c, 16) \in Nat
        /\ Samples(c, 24) = Samples(c, 16) + Samples(c, 8)
        /\ Samples(c, 16) = Clocks(c) + Late(c)
        /\ Samples(c, 16) = Samples(c, 8) + Samples(c, 8)
    BY Eighths
  <1>7. BitStart(c, StopAt(c)) = BitStart(c, s) + Clocks(c)
    BY <1>1, <1>4
  <1> QED BY <1>1, <1>2, <1>3, <1>4, <1>5, <1>6, <1>7, <1>8

(* Bits of a byte.                                                         *)

LEMMA Powers ==
  /\ 2 ^ 0 = 1 /\ 2 ^ 1 = 2 /\ 2 ^ 2 = 4 /\ 2 ^ 3 = 8 /\ 2 ^ 4 = 16
  /\ 2 ^ 5 = 32 /\ 2 ^ 6 = 64 /\ 2 ^ 7 = 128 /\ 2 ^ 8 = 256
  OBVIOUS

\* The transmitter shifts a bit out at the bottom and a one in at the top.
LEMMA ShiftOut ==
  ASSUME NEW x \in Byte, NEW q \in Nat, NEW k \in 1 .. 8, x % (2 ^ k) = q
  PROVE  x % 2 = q % 2 /\ (k > 1 => (128 + x \div 2) % (2 ^ (k - 1)) = q \div 2)
  <1>1. CASE k = 1
    BY <1>1, Powers DEF Byte
  <1>2. CASE k = 2
    <2>1. 2 ^ k = 4 /\ 2 ^ (k - 1) = 2
      BY <1>2, Powers
    <2>2. x % 4 = q => x % 2 = q % 2 /\ (128 + x \div 2) % 2 = q \div 2
      BY DEF Byte
    <2> QED BY <2>1, <2>2
  <1>3. CASE k = 3
    <2>1. 2 ^ k = 8 /\ 2 ^ (k - 1) = 4
      BY <1>3, Powers
    <2>2. x % 8 = q => x % 2 = q % 2 /\ (128 + x \div 2) % 4 = q \div 2
      BY DEF Byte
    <2> QED BY <2>1, <2>2
  <1>4. CASE k = 4
    <2>1. 2 ^ k = 16 /\ 2 ^ (k - 1) = 8
      BY <1>4, Powers
    <2>2. x % 16 = q => x % 2 = q % 2 /\ (128 + x \div 2) % 8 = q \div 2
      BY DEF Byte
    <2> QED BY <2>1, <2>2
  <1>5. CASE k = 5
    <2>1. 2 ^ k = 32 /\ 2 ^ (k - 1) = 16
      BY <1>5, Powers
    <2>2. x % 32 = q => x % 2 = q % 2 /\ (128 + x \div 2) % 16 = q \div 2
      BY DEF Byte
    <2> QED BY <2>1, <2>2
  <1>6. CASE k = 6
    <2>1. 2 ^ k = 64 /\ 2 ^ (k - 1) = 32
      BY <1>6, Powers
    <2>2. x % 64 = q => x % 2 = q % 2 /\ (128 + x \div 2) % 32 = q \div 2
      BY DEF Byte
    <2> QED BY <2>1, <2>2
  <1>7. CASE k = 7
    <2>1. 2 ^ k = 128 /\ 2 ^ (k - 1) = 64
      BY <1>7, Powers
    <2>2. x % 128 = q => x % 2 = q % 2 /\ (128 + x \div 2) % 64 = q \div 2
      BY DEF Byte
    <2> QED BY <2>1, <2>2
  <1>8. CASE k = 8
    <2>1. 2 ^ k = 256 /\ 2 ^ (k - 1) = 128
      BY <1>8, Powers
    <2>2. x % 256 = q => x % 2 = q % 2 /\ (128 + x \div 2) % 128 = q \div 2
      BY DEF Byte
    <2> QED BY <2>1, <2>2
  <1> QED BY <1>1, <1>2, <1>3, <1>4, <1>5, <1>6, <1>7, <1>8

\* The receiver shifts it in at the top.
LEMMA ShiftIn ==
  ASSUME NEW x \in Byte, NEW p \in Byte, NEW n \in 0 .. 7, x \div (2 ^ (8 - n)) = p % (2 ^ n)
  PROVE  (128 * BitOf(p, n) + x \div 2) \div (2 ^ (8 - (n + 1))) = p % (2 ^ (n + 1))
  <1>0. CASE n = 0
    <2>1. 2 ^ (8 - n) = 256 /\ 2 ^ n = 1 /\ 2 ^ (8 - (n + 1)) = 128 /\ 2 ^ (n + 1) = 2
      BY <1>0, Powers
    <2>2. p % 2 = 1 * ((p \div 1) % 2) + (p % 1) /\ (p \div 1) % 2 \in {0, 1}
      BY DEF Byte
    <2>3. (128 * 0 + x \div 2) \div 128 = 1 * 0 + x \div 256
      BY DEF Byte
    <2>4. (128 * 1 + x \div 2) \div 128 = 1 * 1 + x \div 256
      BY DEF Byte
    <2> QED BY <2>1, <2>2, <2>3, <2>4 DEF BitOf
  <1>1. CASE n = 1
    <2>1. 2 ^ (8 - n) = 128 /\ 2 ^ n = 2 /\ 2 ^ (8 - (n + 1)) = 64 /\ 2 ^ (n + 1) = 4
      BY <1>1, Powers
    <2>2. p % 4 = 2 * ((p \div 2) % 2) + (p % 2) /\ (p \div 2) % 2 \in {0, 1}
      BY DEF Byte
    <2>3. (128 * 0 + x \div 2) \div 64 = 2 * 0 + x \div 128
      BY DEF Byte
    <2>4. (128 * 1 + x \div 2) \div 64 = 2 * 1 + x \div 128
      BY DEF Byte
    <2> QED BY <2>1, <2>2, <2>3, <2>4 DEF BitOf
  <1>2. CASE n = 2
    <2>1. 2 ^ (8 - n) = 64 /\ 2 ^ n = 4 /\ 2 ^ (8 - (n + 1)) = 32 /\ 2 ^ (n + 1) = 8
      BY <1>2, Powers
    <2>2. p % 8 = 4 * ((p \div 4) % 2) + (p % 4) /\ (p \div 4) % 2 \in {0, 1}
      BY DEF Byte
    <2>3. (128 * 0 + x \div 2) \div 32 = 4 * 0 + x \div 64
      BY DEF Byte
    <2>4. (128 * 1 + x \div 2) \div 32 = 4 * 1 + x \div 64
      BY DEF Byte
    <2> QED BY <2>1, <2>2, <2>3, <2>4 DEF BitOf
  <1>3. CASE n = 3
    <2>1. 2 ^ (8 - n) = 32 /\ 2 ^ n = 8 /\ 2 ^ (8 - (n + 1)) = 16 /\ 2 ^ (n + 1) = 16
      BY <1>3, Powers
    <2>2. p % 16 = 8 * ((p \div 8) % 2) + (p % 8) /\ (p \div 8) % 2 \in {0, 1}
      BY DEF Byte
    <2>3. (128 * 0 + x \div 2) \div 16 = 8 * 0 + x \div 32
      BY DEF Byte
    <2>4. (128 * 1 + x \div 2) \div 16 = 8 * 1 + x \div 32
      BY DEF Byte
    <2> QED BY <2>1, <2>2, <2>3, <2>4 DEF BitOf
  <1>4. CASE n = 4
    <2>1. 2 ^ (8 - n) = 16 /\ 2 ^ n = 16 /\ 2 ^ (8 - (n + 1)) = 8 /\ 2 ^ (n + 1) = 32
      BY <1>4, Powers
    <2>2. p % 32 = 16 * ((p \div 16) % 2) + (p % 16) /\ (p \div 16) % 2 \in {0, 1}
      BY DEF Byte
    <2>3. (128 * 0 + x \div 2) \div 8 = 16 * 0 + x \div 16
      BY DEF Byte
    <2>4. (128 * 1 + x \div 2) \div 8 = 16 * 1 + x \div 16
      BY DEF Byte
    <2> QED BY <2>1, <2>2, <2>3, <2>4 DEF BitOf
  <1>5. CASE n = 5
    <2>1. 2 ^ (8 - n) = 8 /\ 2 ^ n = 32 /\ 2 ^ (8 - (n + 1)) = 4 /\ 2 ^ (n + 1) = 64
      BY <1>5, Powers
    <2>2. p % 64 = 32 * ((p \div 32) % 2) + (p % 32) /\ (p \div 32) % 2 \in {0, 1}
      BY DEF Byte
    <2>3. (128 * 0 + x \div 2) \div 4 = 32 * 0 + x \div 8
      BY DEF Byte
    <2>4. (128 * 1 + x \div 2) \div 4 = 32 * 1 + x \div 8
      BY DEF Byte
    <2> QED BY <2>1, <2>2, <2>3, <2>4 DEF BitOf
  <1>6. CASE n = 6
    <2>1. 2 ^ (8 - n) = 4 /\ 2 ^ n = 64 /\ 2 ^ (8 - (n + 1)) = 2 /\ 2 ^ (n + 1) = 128
      BY <1>6, Powers
    <2>2. p % 128 = 64 * ((p \div 64) % 2) + (p % 64) /\ (p \div 64) % 2 \in {0, 1}
      BY DEF Byte
    <2>3. (128 * 0 + x \div 2) \div 2 = 64 * 0 + x \div 4
      BY DEF Byte
    <2>4. (128 * 1 + x \div 2) \div 2 = 64 * 1 + x \div 4
      BY DEF Byte
    <2> QED BY <2>1, <2>2, <2>3, <2>4 DEF BitOf
  <1>7. CASE n = 7
    <2>1. 2 ^ (8 - n) = 2 /\ 2 ^ n = 128 /\ 2 ^ (8 - (n + 1)) = 1 /\ 2 ^ (n + 1) = 256
      BY <1>7, Powers
    <2>2. p % 256 = 128 * ((p \div 128) % 2) + (p % 128) /\ (p \div 128) % 2 \in {0, 1}
      BY DEF Byte
    <2>3. (128 * 0 + x \div 2) \div 1 = 128 * 0 + x \div 2
      BY DEF Byte
    <2>4. (128 * 1 + x \div 2) \div 1 = 128 * 1 + x \div 2
      BY DEF Byte
    <2> QED BY <2>1, <2>2, <2>3, <2>4 DEF BitOf
  <1> QED BY <1>0, <1>1, <1>2, <1>3, <1>4, <1>5, <1>6, <1>7

LEMMA NextBit ==
  ASSUME NEW p \in Byte, NEW n \in 0 .. 7
  PROVE  /\ p \div (2 ^ n) \in Nat
         /\ p \div (2 ^ (n + 1)) = (p \div (2 ^ n)) \div 2
         /\ BitOf(p, n) \in Bit
  <1>0. CASE n = 0
    <2>1. 2 ^ n = 1 /\ 2 ^ (n + 1) = 2
      BY <1>0, Powers
    <2>2. /\ p \div 1 \in Nat /\ p \div 2 = (p \div 1) \div 2
          /\ (p \div 1) % 2 \in {0, 1}
      BY DEF Byte
    <2> QED BY <2>1, <2>2 DEF BitOf, Bit
  <1>1. CASE n = 1
    <2>1. 2 ^ n = 2 /\ 2 ^ (n + 1) = 4
      BY <1>1, Powers
    <2>2. /\ p \div 2 \in Nat /\ p \div 4 = (p \div 2) \div 2
          /\ (p \div 2) % 2 \in {0, 1}
      BY DEF Byte
    <2> QED BY <2>1, <2>2 DEF BitOf, Bit
  <1>2. CASE n = 2
    <2>1. 2 ^ n = 4 /\ 2 ^ (n + 1) = 8
      BY <1>2, Powers
    <2>2. /\ p \div 4 \in Nat /\ p \div 8 = (p \div 4) \div 2
          /\ (p \div 4) % 2 \in {0, 1}
      BY DEF Byte
    <2> QED BY <2>1, <2>2 DEF BitOf, Bit
  <1>3. CASE n = 3
    <2>1. 2 ^ n = 8 /\ 2 ^ (n + 1) = 16
      BY <1>3, Powers
    <2>2. /\ p \div 8 \in Nat /\ p \div 16 = (p \div 8) \div 2
          /\ (p \div 8) % 2 \in {0, 1}
      BY DEF Byte
    <2> QED BY <2>1, <2>2 DEF BitOf, Bit
  <1>4. CASE n = 4
    <2>1. 2 ^ n = 16 /\ 2 ^ (n + 1) = 32
      BY <1>4, Powers
    <2>2. /\ p \div 16 \in Nat /\ p \div 32 = (p \div 16) \div 2
          /\ (p \div 16) % 2 \in {0, 1}
      BY DEF Byte
    <2> QED BY <2>1, <2>2 DEF BitOf, Bit
  <1>5. CASE n = 5
    <2>1. 2 ^ n = 32 /\ 2 ^ (n + 1) = 64
      BY <1>5, Powers
    <2>2. /\ p \div 32 \in Nat /\ p \div 64 = (p \div 32) \div 2
          /\ (p \div 32) % 2 \in {0, 1}
      BY DEF Byte
    <2> QED BY <2>1, <2>2 DEF BitOf, Bit
  <1>6. CASE n = 6
    <2>1. 2 ^ n = 64 /\ 2 ^ (n + 1) = 128
      BY <1>6, Powers
    <2>2. /\ p \div 64 \in Nat /\ p \div 128 = (p \div 64) \div 2
          /\ (p \div 64) % 2 \in {0, 1}
      BY DEF Byte
    <2> QED BY <2>1, <2>2 DEF BitOf, Bit
  <1>7. CASE n = 7
    <2>1. 2 ^ n = 128 /\ 2 ^ (n + 1) = 256
      BY <1>7, Powers
    <2>2. /\ p \div 128 \in Nat /\ p \div 256 = (p \div 128) \div 2
          /\ (p \div 128) % 2 \in {0, 1}
      BY DEF Byte
    <2> QED BY <2>1, <2>2 DEF BitOf, Bit
  <1> QED BY <1>0, <1>1, <1>2, <1>3, <1>4, <1>5, <1>6, <1>7

LEMMA Whole ==
  ASSUME NEW w \in 1 .. 8, NEW p \in Byte
  PROVE  /\ p % (2 ^ w) \in Byte /\ p % (2 ^ w) < 2 ^ w
         /\ p < 2 ^ w => p % (2 ^ w) = p
         /\ p \div (2 ^ 0) = p /\ p % (2 ^ 0) = 0 /\ p \div (2 ^ 8) = 0
  <1>1. CASE w = 1
    <2>1. 2 ^ w = 2
      BY <1>1, Powers
    <2>2. p % 2 \in 0 .. 255 /\ p % 2 < 2 /\ (p < 2 => p % 2 = p)
      BY DEF Byte
    <2>3. p \div 1 = p /\ p % 1 = 0 /\ p \div 256 = 0
      BY DEF Byte
    <2> QED BY <2>1, <2>2, <2>3, Powers DEF Byte
  <1>2. CASE w = 2
    <2>1. 2 ^ w = 4
      BY <1>2, Powers
    <2>2. p % 4 \in 0 .. 255 /\ p % 4 < 4 /\ (p < 4 => p % 4 = p)
      BY DEF Byte
    <2>3. p \div 1 = p /\ p % 1 = 0 /\ p \div 256 = 0
      BY DEF Byte
    <2> QED BY <2>1, <2>2, <2>3, Powers DEF Byte
  <1>3. CASE w = 3
    <2>1. 2 ^ w = 8
      BY <1>3, Powers
    <2>2. p % 8 \in 0 .. 255 /\ p % 8 < 8 /\ (p < 8 => p % 8 = p)
      BY DEF Byte
    <2>3. p \div 1 = p /\ p % 1 = 0 /\ p \div 256 = 0
      BY DEF Byte
    <2> QED BY <2>1, <2>2, <2>3, Powers DEF Byte
  <1>4. CASE w = 4
    <2>1. 2 ^ w = 16
      BY <1>4, Powers
    <2>2. p % 16 \in 0 .. 255 /\ p % 16 < 16 /\ (p < 16 => p % 16 = p)
      BY DEF Byte
    <2>3. p \div 1 = p /\ p % 1 = 0 /\ p \div 256 = 0
      BY DEF Byte
    <2> QED BY <2>1, <2>2, <2>3, Powers DEF Byte
  <1>5. CASE w = 5
    <2>1. 2 ^ w = 32
      BY <1>5, Powers
    <2>2. p % 32 \in 0 .. 255 /\ p % 32 < 32 /\ (p < 32 => p % 32 = p)
      BY DEF Byte
    <2>3. p \div 1 = p /\ p % 1 = 0 /\ p \div 256 = 0
      BY DEF Byte
    <2> QED BY <2>1, <2>2, <2>3, Powers DEF Byte
  <1>6. CASE w = 6
    <2>1. 2 ^ w = 64
      BY <1>6, Powers
    <2>2. p % 64 \in 0 .. 255 /\ p % 64 < 64 /\ (p < 64 => p % 64 = p)
      BY DEF Byte
    <2>3. p \div 1 = p /\ p % 1 = 0 /\ p \div 256 = 0
      BY DEF Byte
    <2> QED BY <2>1, <2>2, <2>3, Powers DEF Byte
  <1>7. CASE w = 7
    <2>1. 2 ^ w = 128
      BY <1>7, Powers
    <2>2. p % 128 \in 0 .. 255 /\ p % 128 < 128 /\ (p < 128 => p % 128 = p)
      BY DEF Byte
    <2>3. p \div 1 = p /\ p % 1 = 0 /\ p \div 256 = 0
      BY DEF Byte
    <2> QED BY <2>1, <2>2, <2>3, Powers DEF Byte
  <1>8. CASE w = 8
    <2>1. 2 ^ w = 256
      BY <1>8, Powers
    <2>2. p % 256 \in 0 .. 255 /\ p % 256 < 256 /\ (p < 256 => p % 256 = p)
      BY DEF Byte
    <2>3. p \div 1 = p /\ p % 1 = 0 /\ p \div 256 = 0
      BY DEF Byte
    <2> QED BY <2>1, <2>2, <2>3, Powers DEF Byte
  <1> QED BY <1>1, <1>2, <1>3, <1>4, <1>5, <1>6, <1>7, <1>8

\* The parity of one more bit.
LEMMA Accumulated ==
  ASSUME NEW p \in Byte, NEW n \in 0 .. 7
  PROVE  /\ Acc(p, 0) = 0 /\ Acc(p, n) \in Bit
         /\ Acc(p, n + 1) = (Acc(p, n) + BitOf(p, n)) % 2
  <1> DEFINE b(i) == BitOf(p, i)
  <1>a. /\ b(0) \in Bit /\ b(1) \in Bit /\ b(2) \in Bit /\ b(3) \in Bit
        /\ b(4) \in Bit /\ b(5) \in Bit /\ b(6) \in Bit /\ b(7) \in Bit
    BY NextBit
  <1> HIDE DEF b
  <1>b. Acc(p, 0) = 0
    BY DEF Acc, Term
  <1>0. CASE n = 0
    <2>1. Acc(p, n) = (0 + 0 + 0 + 0 + 0 + 0 + 0 + 0) % 2
      BY <1>0 DEF Acc, Term, b
    <2>2. Acc(p, n + 1) = (b(0) + 0 + 0 + 0 + 0 + 0 + 0 + 0) % 2
      BY <1>0 DEF Acc, Term, b
    <2>3. BitOf(p, n) = b(0)
      BY <1>0 DEF b
    <2> QED BY <1>a, <1>b, <2>1, <2>2, <2>3 DEF Bit
  <1>1. CASE n = 1
    <2>1. Acc(p, n) = (b(0) + 0 + 0 + 0 + 0 + 0 + 0 + 0) % 2
      BY <1>1 DEF Acc, Term, b
    <2>2. Acc(p, n + 1) = (b(0) + b(1) + 0 + 0 + 0 + 0 + 0 + 0) % 2
      BY <1>1 DEF Acc, Term, b
    <2>3. BitOf(p, n) = b(1)
      BY <1>1 DEF b
    <2> QED BY <1>a, <1>b, <2>1, <2>2, <2>3 DEF Bit
  <1>2. CASE n = 2
    <2>1. Acc(p, n) = (b(0) + b(1) + 0 + 0 + 0 + 0 + 0 + 0) % 2
      BY <1>2 DEF Acc, Term, b
    <2>2. Acc(p, n + 1) = (b(0) + b(1) + b(2) + 0 + 0 + 0 + 0 + 0) % 2
      BY <1>2 DEF Acc, Term, b
    <2>3. BitOf(p, n) = b(2)
      BY <1>2 DEF b
    <2> QED BY <1>a, <1>b, <2>1, <2>2, <2>3 DEF Bit
  <1>3. CASE n = 3
    <2>1. Acc(p, n) = (b(0) + b(1) + b(2) + 0 + 0 + 0 + 0 + 0) % 2
      BY <1>3 DEF Acc, Term, b
    <2>2. Acc(p, n + 1) = (b(0) + b(1) + b(2) + b(3) + 0 + 0 + 0 + 0) % 2
      BY <1>3 DEF Acc, Term, b
    <2>3. BitOf(p, n) = b(3)
      BY <1>3 DEF b
    <2> QED BY <1>a, <1>b, <2>1, <2>2, <2>3 DEF Bit
  <1>4. CASE n = 4
    <2>1. Acc(p, n) = (b(0) + b(1) + b(2) + b(3) + 0 + 0 + 0 + 0) % 2
      BY <1>4 DEF Acc, Term, b
    <2>2. Acc(p, n + 1) = (b(0) + b(1) + b(2) + b(3) + b(4) + 0 + 0 + 0) % 2
      BY <1>4 DEF Acc, Term, b
    <2>3. BitOf(p, n) = b(4)
      BY <1>4 DEF b
    <2> QED BY <1>a, <1>b, <2>1, <2>2, <2>3 DEF Bit
  <1>5. CASE n = 5
    <2>1. Acc(p, n) = (b(0) + b(1) + b(2) + b(3) + b(4) + 0 + 0 + 0) % 2
      BY <1>5 DEF Acc, Term, b
    <2>2. Acc(p, n + 1) = (b(0) + b(1) + b(2) + b(3) + b(4) + b(5) + 0 + 0) % 2
      BY <1>5 DEF Acc, Term, b
    <2>3. BitOf(p, n) = b(5)
      BY <1>5 DEF b
    <2> QED BY <1>a, <1>b, <2>1, <2>2, <2>3 DEF Bit
  <1>6. CASE n = 6
    <2>1. Acc(p, n) = (b(0) + b(1) + b(2) + b(3) + b(4) + b(5) + 0 + 0) % 2
      BY <1>6 DEF Acc, Term, b
    <2>2. Acc(p, n + 1) = (b(0) + b(1) + b(2) + b(3) + b(4) + b(5) + b(6) + 0) % 2
      BY <1>6 DEF Acc, Term, b
    <2>3. BitOf(p, n) = b(6)
      BY <1>6 DEF b
    <2> QED BY <1>a, <1>b, <2>1, <2>2, <2>3 DEF Bit
  <1>7. CASE n = 7
    <2>1. Acc(p, n) = (b(0) + b(1) + b(2) + b(3) + b(4) + b(5) + b(6) + 0) % 2
      BY <1>7 DEF Acc, Term, b
    <2>2. Acc(p, n + 1) = (b(0) + b(1) + b(2) + b(3) + b(4) + b(5) + b(6) + b(7)) % 2
      BY <1>7 DEF Acc, Term, b
    <2>3. BitOf(p, n) = b(7)
      BY <1>7 DEF b
    <2> QED BY <1>a, <1>b, <2>1, <2>2, <2>3 DEF Bit
  <1> QED BY <1>0, <1>1, <1>2, <1>3, <1>4, <1>5, <1>6, <1>7

LEMMA Levels ==
  ASSUME NEW c \in Configs, NEW p \in Byte
  PROVE  /\ Level(c, p, 0) = 0 /\ Level(c, p, 0 - 1) = 1
         /\ \A n \in 0 .. Width(c) - 1 : Level(c, p, n + 1) = BitOf(p, n)
         /\ Pars(c) = 1 => Level(c, p, Width(c) + 1) = ParityBit(c.parity, Acc(p, Width(c)))
         /\ Level(c, p, StopAt(c)) = 1
  <1>1. Width(c) \in 1 .. 8 /\ Pars(c) \in {0, 1} /\ StopAt(c) = Width(c) + Pars(c) + 1
    BY Config
  <1>2. ASSUME NEW n \in 0 .. Width(c) - 1 PROVE Level(c, p, n + 1) = BitOf(p, n)
    <2>1. n + 1 \in 1 .. Width(c) /\ n + 1 # 0 /\ n + 1 - 1 = n
      BY <1>1
    <2> QED BY <2>1 DEF Level
  <1>3. Pars(c) = 1 => Level(c, p, Width(c) + 1) = ParityBit(c.parity, Acc(p, Width(c)))
    BY <1>1 DEF Level
  <1>4. Level(c, p, StopAt(c)) = 1
    BY <1>1 DEF Level
  <1> QED BY <1>1, <1>2, <1>3, <1>4 DEF Level

\* Two votes of three decide.
LEMMA TwoOfThree ==
  ASSUME NEW v \in Three, NEW m \in Bit, v[2] = m, v[3] = m
  PROVE  Majority(v) = m
  BY DEF Majority, Three, Bit

(* The transmitter's side of a clock.                                      *)

OnFrame == InFrame \/ owed > 0

LEMMA Ports ==
  ASSUME cfg \in Configs
  PROVE  /\ LastBit = Width(cfg) - 1 /\ DataBits = Width(cfg) /\ BitTime = Clocks(cfg)
         /\ os_div = SampleDiv(cfg)
  <1>1. cfg.data_bits \in 0 .. 7
    BY LinkAssumption
  <1>2. LastBit \in Nat /\ Width(cfg) = LastBit + 1
    BY <1>1 DEF LastBit, Width
  <1>3. LastBit = Width(cfg) - 1
    BY <1>2
  <1> QED BY <1>2, <1>3 DEF DataBits, BitTime, Clocks, os_div, SampleDiv

\* Where on its frame the line can be.
LEMMA Where ==
  ASSUME Owed, Sending, LinkTypes
  PROVE  /\ cfg \in Configs /\ LineBit \in 0 .. StopAt(cfg) /\ Into \in Nat
         /\ InFrame => owed = 0 /\ Into <= cfg.div /\ LineBit < StopAt(cfg)
         /\ ~InFrame => LineBit = StopAt(cfg) /\ Into = Stops(cfg) - 1 - owed
         /\ Stops(cfg) \in Nat /\ owed \in Nat /\ owed < Stops(cfg)
         /\ At("START") => owed = 0
  <1>1. /\ cfg \in Configs /\ cfg.div \in Nat /\ Clocks(cfg) = cfg.div + 1 /\ Width(cfg) \in 1 .. 8
        /\ Pars(cfg) \in {0, 1} /\ StopAt(cfg) = Width(cfg) + Pars(cfg) + 1
        /\ Stops(cfg) = IF cfg.stop2 THEN Clocks(cfg) + Clocks(cfg) ELSE Clocks(cfg)
    BY Config DEF Owed
  <1>2. baud_cnt \in Nat /\ owed \in Nat /\ tx_state \in TxStates
    BY DEF Owed
  <1>3. owed < Stops(cfg)
    BY <1>1, <1>2 DEF Owed, Sending, TxStates, BitTime
  <1>4. LineBit \in 0 .. StopAt(cfg) /\ (InFrame <=> LineBit < StopAt(cfg))
        /\ (~InFrame => LineBit = StopAt(cfg))
    <2>1. CASE tx_state = "DATA"
      <3>1. LineBit = bit_cnt /\ InFrame /\ bit_cnt \in 0 .. 7 /\ bit_cnt < Width(cfg)
        BY <2>1 DEF LineBit, InFrame, Sending, LinkTypes
      <3> QED BY <1>1, <3>1
    <2>2. CASE tx_state = "PARITY"
      <3>1. LineBit = Width(cfg) /\ InFrame
        BY <2>2 DEF LineBit, InFrame
      <3> QED BY <1>1, <3>1
    <2>3. CASE tx_state = "STOP1"
      <3>1. LineBit = Width(cfg) + Pars(cfg) /\ InFrame
        BY <2>3 DEF LineBit, InFrame
      <3> QED BY <1>1, <3>1
    <2>4. CASE tx_state \notin {"DATA", "PARITY", "STOP1"}
      <3>1. LineBit = StopAt(cfg) /\ ~InFrame
        BY <2>4 DEF LineBit, InFrame
      <3> QED BY <1>1, <3>1
    <2> QED BY <2>1, <2>2, <2>3, <2>4
  <1>5. InFrame => owed = 0 /\ Into <= cfg.div /\ Into \in Nat
    BY <1>1, <1>2 DEF InFrame, Into, Owed, Sending
  <1>6. ~InFrame => Into = Stops(cfg) - 1 - owed /\ Into \in Nat
    BY <1>1, <1>2, <1>3 DEF Into
  <1>7. At("START") => owed = 0
    BY <1>2 DEF At, baud_tick, Owed
  <1>8. Stops(cfg) \in Nat
    BY <1>1
  <1> QED BY <1>1, <1>2, <1>3, <1>4, <1>5, <1>6, <1>7, <1>8

\* What an edge of the transmit engine does while there is something on the line:
\* the bit goes on, or the next one follows it.
LEMMA LineMoves ==
  ASSUME Owed, Sending, LinkTypes, NEW pop \in BOOLEAN, ClockEdge(pop), OnFrame, ~At("START")
  PROVE  /\ \/ LineBit' = LineBit /\ Into' = Into + 1 /\ (InFrame <=> InFrame')
            \/ InFrame /\ baud_tick /\ Into = cfg.div /\ LineBit' = LineBit + 1 /\ Into' = 0
         /\ Now' = Now + 1
         /\ ~InFrame => ~InFrame'
  <1>1. /\ cfg' = cfg /\ cfg.div \in Nat /\ Clocks(cfg) = cfg.div + 1 /\ Width(cfg) \in 1 .. 8
        /\ Pars(cfg) \in {0, 1} /\ StopAt(cfg) = Width(cfg) + Pars(cfg) + 1 /\ cfg \in Configs
        /\ StopAt(cfg) \in Nat
        /\ Stops(cfg) = IF cfg.stop2 THEN Clocks(cfg) + Clocks(cfg) ELSE Clocks(cfg)
    BY Where, Config DEF ClockEdge
  <1>2. /\ baud_cnt \in Nat /\ owed \in Nat /\ tx_state \in TxStates /\ bit_cnt \in 0 .. 7
        /\ tx_state = "DATA" => bit_cnt < Width(cfg)
    BY DEF Owed, LinkTypes, Sending
  <1>3. baud_cnt' = IF tx_state = "IDLE" \/ baud_cnt = 0 THEN cfg.div ELSE baud_cnt - 1
    BY DEF ClockEdge, TxEdge, Baud, baud_tick
  <1>4. owed' = IF At("STOP1") THEN Stops(cfg) - 1 ELSE IF owed = 0 THEN 0 ELSE owed - 1
    <2>1. At("STOP1") => frame.stop2 = cfg.stop2
      BY DEF At, Sending
    <2> QED BY <2>1 DEF ClockEdge, Stops, BitTime, Clocks
  <1>5. \/ Idle \/ Latch(tx_fifo_rdata) \/ BetweenTicks
        \/ StartBit \/ DataBit \/ SendParity \/ StopBit
    BY DEF ClockEdge, TxEdge
  <1> DEFINE Moves == /\ \/ LineBit' = LineBit /\ Into' = Into + 1 /\ (InFrame <=> InFrame')
                         \/ InFrame /\ baud_tick /\ Into = cfg.div /\ LineBit' = LineBit + 1 /\ Into' = 0
                      /\ ~InFrame => ~InFrame'
  <1>6. ASSUME ~InFrame PROVE Moves
    <2>1. ~InFrame'
      BY <1>5, <1>6 DEF InFrame, Idle, Latch, BetweenTicks, StartBit, DataBit, SendParity, StopBit, At
    <2>2. owed > 0 /\ owed' = owed - 1
      BY <1>2, <1>4, <1>6 DEF OnFrame, At, InFrame
    <2>3. LineBit = StopAt(cfg) /\ LineBit' = StopAt(cfg)
      BY <1>1, <1>6, <2>1 DEF LineBit, InFrame
    <2>4. Into = Stops(cfg) - 1 - owed /\ Into' = Stops(cfg) - 1 - owed'
      BY <1>1, <1>6, <2>1 DEF Into
    <2>5. Into' = Into + 1
      BY <1>1, <1>2, <2>2, <2>4
    <2> QED BY <1>6, <2>1, <2>3, <2>5, Zenon
  <1>7. ASSUME InFrame, ~baud_tick PROVE Moves
    <2>1. tx_state' = tx_state /\ bit_cnt' = bit_cnt
      BY <1>5, <1>7 DEF InFrame, Idle, Latch, BetweenTicks, StartBit, DataBit, SendParity, StopBit, At
    <2>2. InFrame' /\ LineBit' = LineBit
      BY <1>1, <1>7, <2>1 DEF LineBit, InFrame
    <2>3. baud_cnt' = baud_cnt - 1
      BY <1>3, <1>7 DEF InFrame, baud_tick
    <2>4. Into = cfg.div - baud_cnt /\ Into' = cfg.div - baud_cnt'
      BY <1>1, <1>7, <2>2 DEF Into
    <2>5. Into' = Into + 1
      BY <1>1, <1>2, <2>3, <2>4
    <2> QED BY <1>7, <2>2, <2>5, Zenon
  <1>8. ASSUME InFrame, baud_tick PROVE Moves
    <2>1. baud_cnt = 0 /\ baud_cnt' = cfg.div
      BY <1>3, <1>8 DEF baud_tick
    <2>2. Into = cfg.div
      BY <1>1, <1>8, <2>1 DEF Into
    <2>3. DataBit \/ SendParity \/ StopBit
      BY <1>5, <1>8 DEF InFrame, Idle, Latch, BetweenTicks, StartBit, At
    <2>4. frame.m1 = LastBit /\ frame.parity = cfg.parity
      BY <1>8 DEF InFrame, Sending
    <2>5. LineBit' = LineBit + 1
      <3>1. LastBit = Width(cfg) - 1 /\ (cfg.parity # "none" <=> Pars(cfg) = 1)
        BY <1>1, Ports DEF Pars
      <3>2. CASE DataBit
        <4>1. LineBit = bit_cnt
          BY <3>2 DEF DataBit, At, LineBit
        <4>2. CASE bit_cnt = LastBit
          <5>1. tx_state' = IF cfg.parity # "none" THEN "PARITY" ELSE "STOP1"
            BY <2>4, <3>2, <4>2 DEF DataBit
          <5>2. LineBit' = Width(cfg)
            BY <1>1, <3>1, <5>1 DEF LineBit
          <5> QED BY <1>1, <1>2, <3>1, <4>1, <4>2, <5>2
        <4>3. CASE bit_cnt # LastBit
          <5>1. tx_state' = "DATA" /\ bit_cnt' = bit_cnt + 1
            BY <2>4, <3>2, <4>3 DEF DataBit, At
          <5> QED BY <4>1, <5>1 DEF LineBit
        <4> QED BY <4>2, <4>3
      <3>3. CASE SendParity
        <4>1. LineBit = Width(cfg) /\ Pars(cfg) = 1
          BY <3>3 DEF SendParity, At, LineBit, Sending
        <4>2. LineBit' = Width(cfg) + Pars(cfg)
          BY <1>1, <3>3 DEF SendParity, LineBit
        <4> QED BY <1>1, <4>1, <4>2
      <3>4. CASE StopBit
        <4>1. tx_state = "STOP1" /\ tx_state' \in {"STOP2", "IDLE"}
          BY <1>8, <3>4 DEF StopBit, At, InFrame
        <4>2. LineBit = Width(cfg) + Pars(cfg) /\ LineBit' = StopAt(cfg)
          BY <1>1, <4>1 DEF LineBit
        <4> QED BY <1>1, <4>2
      <3> QED BY <2>3, <3>2, <3>3, <3>4
    <2>6. Into' = 0
      <3>1. CASE InFrame'
        BY <1>1, <2>1, <3>1 DEF Into
      <3>2. CASE ~InFrame'
        <4>1. At("STOP1")
          BY <1>8, <2>3, <3>2 DEF InFrame, DataBit, SendParity, StopBit, At
        <4> QED BY <1>1, <1>4, <3>2, <4>1 DEF Into
      <3> QED BY <3>1, <3>2
    <2> QED BY <1>8, <2>1, <2>2, <2>5, <2>6, Zenon
  <1>9. Now' = Now + 1
    <2>1. Now' = BitStart(cfg, LineBit') + Into' /\ Now = BitStart(cfg, LineBit) + Into
      BY <1>1 DEF Now
    <2>2. LineBit \in Nat /\ Into \in Nat
      BY Where, Config
    <2>3. BitStart(cfg, LineBit) \in Nat /\ BitStart(cfg, LineBit + 1) = BitStart(cfg, LineBit) + Clocks(cfg)
      BY <1>1, <2>2, Bits
    <2> QED BY <1>1, <1>6, <1>7, <1>8, <2>1, <2>2, <2>3
  <1> QED BY <1>6, <1>7, <1>8, <1>9

LEMMA TxBits ==
  ASSUME Owed, Sending, LinkTypes, NEW pop \in BOOLEAN, ClockEdge(pop), OnFrame, ~At("START"),
         NEW p \in Byte, ToSend(p), tx = Level(cfg, p, LineBit)
  PROVE  ToSend(p)' /\ tx' = Level(cfg, p, LineBit')
  <1>1. /\ cfg' = cfg /\ cfg \in Configs /\ Width(cfg) \in 1 .. 8
        /\ LastBit = Width(cfg) - 1 /\ (cfg.parity # "none" <=> Pars(cfg) = 1)
    BY Where, Config, Ports DEF ClockEdge, Pars
  <1>2. /\ bit_cnt \in 0 .. 7 /\ shift \in Byte
        /\ tx_state = "DATA" => bit_cnt < Width(cfg)
    BY DEF LinkTypes, Sending
  <1>3. \/ Idle \/ Latch(tx_fifo_rdata) \/ BetweenTicks
        \/ StartBit \/ DataBit \/ SendParity \/ StopBit
    BY DEF ClockEdge, TxEdge
  <1>4. InFrame => frame.m1 = LastBit /\ frame.parity = cfg.parity
    BY DEF InFrame, Sending
  <1>5. CASE ~InFrame
    <2>1. ~InFrame' /\ LineBit = StopAt(cfg) /\ LineBit' = StopAt(cfg)
      BY <1>1, <1>5, LineMoves, Where DEF LineBit, InFrame
    <2>2. tx = 1
      BY <1>1, <2>1, Levels
    <2>3. tx' = 1
      BY <1>3, <1>5, <2>2 DEF InFrame, Idle, Latch, BetweenTicks, StartBit, DataBit, SendParity, StopBit, At
    <2>4. ToSend(p)'
      BY <2>1 DEF InFrame, ToSend
    <2> QED BY <1>1, <2>1, <2>3, <2>4, Levels
  <1>6. CASE InFrame /\ ~baud_tick
    <2>1. /\ tx_state' = tx_state /\ bit_cnt' = bit_cnt /\ shift' = shift
          /\ parity_acc' = parity_acc /\ tx' = tx
      BY <1>3, <1>6 DEF InFrame, Idle, Latch, BetweenTicks, StartBit, DataBit, SendParity, StopBit, At
    <2>2. LineBit' = LineBit
      BY <1>1, <2>1 DEF LineBit
    <2> QED BY <1>1, <2>1, <2>2 DEF ToSend
  <1>7. CASE InFrame /\ baud_tick
    <2>1. LineBit' = LineBit + 1
      <3>1. Into = cfg.div - 0
        BY <1>7 DEF Into, baud_tick
      <3>2. InFrame => baud_cnt' = cfg.div
        BY <1>7 DEF ClockEdge, TxEdge, Baud
      <3>3. cfg.div \in Nat /\ Into + 1 # 0 /\ Into = cfg.div
        BY <1>1, <3>1, Config
      <3>4. InFrame' => Into' = 0
        BY <1>1, <1>7, <3>2, <3>3 DEF Into
      <3>5. InFrame' => LineBit' = LineBit + 1
        BY <1>7, <3>3, <3>4, LineMoves
      <3>6. ~InFrame' => LineBit' = LineBit + 1
        BY <1>7, LineMoves, Zenon
      <3> QED BY <3>5, <3>6
    <2>2. CASE DataBit
      <3>1. tx_state = "DATA" /\ tx' = shift % 2 /\ LineBit = bit_cnt
        BY <2>2 DEF DataBit, At, LineBit
      <3> DEFINE k == Width(cfg) - bit_cnt
                 q == p \div (2 ^ bit_cnt)
      <3>2. /\ shift % (2 ^ k) = q /\ parity_acc = Acc(p, bit_cnt)
        BY <3>1 DEF ToSend
      <3>3. bit_cnt < Width(cfg) /\ k \in 1 .. 8 /\ bit_cnt \in 0 .. Width(cfg) - 1
        BY <1>1, <1>2, <3>1
      <3>4. q \in Nat /\ p \div (2 ^ (bit_cnt + 1)) = q \div 2
        BY <1>2, NextBit
      <3>5. k - 1 = Width(cfg) - (bit_cnt + 1)
        BY <1>1, <1>2
      <3>6. BitOf(p, bit_cnt) = q % 2
        BY DEF BitOf
      <3> HIDE DEF k, q
      <3>7. shift % 2 = q % 2 /\ (k > 1 => (128 + shift \div 2) % (2 ^ (k - 1)) = q \div 2)
        <4>1. shift \in Byte /\ q \in Nat /\ k \in 1 .. 8 /\ shift % (2 ^ k) = q
          BY <1>2, <3>2, <3>3, <3>4
        <4>2. shift % 2 = q % 2
          BY <4>1, ShiftOut, Zenon
        <4>3. ASSUME k > 1 PROVE (128 + shift \div 2) % (2 ^ (k - 1)) = q \div 2
          BY <4>1, <4>3, ShiftOut, ZenonT(40)
        <4> QED BY <4>2, <4>3
      <3>8. tx' = BitOf(p, bit_cnt)
        BY <3>1, <3>6, <3>7
      <3>9. Level(cfg, p, bit_cnt + 1) = BitOf(p, bit_cnt)
        BY <1>1, <3>3, Levels
      <3>10. parity_acc' = Acc(p, bit_cnt + 1)
        <4>1. Acc(p, bit_cnt + 1) = (Acc(p, bit_cnt) + BitOf(p, bit_cnt)) % 2 /\ Acc(p, bit_cnt) \in Bit
          BY <1>2, Accumulated
        <4>2. \A a \in Bit : \A x \in Byte : (a + x) % 2 = (a + (x % 2)) % 2
          BY DEF Bit, Byte
        <4>3. parity_acc' = (parity_acc + shift) % 2
          BY <2>2 DEF DataBit
        <4>4. parity_acc \in Bit /\ (parity_acc + shift) % 2 = (parity_acc + (shift % 2)) % 2
          BY <1>2, <3>2, <4>1, <4>2
        <4> QED BY <3>1, <3>2, <3>8, <4>1, <4>3, <4>4
      <3>11. CASE bit_cnt = LastBit
        <4>1. tx_state' = (IF Pars(cfg) = 1 THEN "PARITY" ELSE "STOP1")
          BY <1>1, <1>4, <1>7, <2>2, <3>11 DEF DataBit
        <4>2. bit_cnt + 1 = Width(cfg)
          BY <1>1, <3>11
        <4>3. ToSend(p)'
          BY <1>1, <3>10, <4>1, <4>2 DEF ToSend
        <4> QED BY <2>1, <3>1, <3>8, <3>9, <4>3
      <3>12. CASE bit_cnt # LastBit
        <4>1. tx_state' = "DATA" /\ bit_cnt' = bit_cnt + 1 /\ shift' = 128 + shift \div 2
          BY <1>4, <1>7, <2>2, <3>12 DEF DataBit, At
        <4>2. k > 1
          BY <1>1, <1>2, <3>3, <3>12 DEF k
        <4>3. shift' % (2 ^ (Width(cfg) - (bit_cnt + 1))) = p \div (2 ^ (bit_cnt + 1))
          BY <3>4, <3>5, <3>7, <4>1, <4>2
        <4>4. ToSend(p)'
          BY <1>1, <3>10, <4>1, <4>3 DEF ToSend
        <4> QED BY <2>1, <3>1, <3>8, <3>9, <4>4
      <3> QED BY <3>11, <3>12
    <2>3. CASE SendParity
      <3>1. /\ tx_state = "PARITY" /\ tx_state' = "STOP1" /\ LineBit = Width(cfg) /\ Pars(cfg) = 1
            /\ parity_acc = Acc(p, Width(cfg)) /\ tx' = ParityBit(cfg.parity, parity_acc)
        BY <1>4, <1>7, <2>3 DEF SendParity, At, LineBit, Sending, ToSend
      <3>2. ToSend(p)'
        BY <3>1 DEF ToSend
      <3> QED BY <1>1, <2>1, <3>1, <3>2, Levels
    <2>4. CASE StopBit
      <3>1. tx_state = "STOP1" /\ tx_state' \in {"STOP2", "IDLE"} /\ tx' = 1
        BY <1>7, <2>4 DEF StopBit, At, InFrame
      <3>2. LineBit' = StopAt(cfg)
        BY <1>1, <3>1 DEF LineBit
      <3>3. ToSend(p)'
        BY <3>1 DEF ToSend
      <3> QED BY <1>1, <3>1, <3>2, <3>3, Levels
    <2>5. DataBit \/ SendParity \/ StopBit
      BY <1>3, <1>7 DEF InFrame, Idle, Latch, BetweenTicks, StartBit, At
    <2> QED BY <2>2, <2>3, <2>4, <2>5
  <1> QED BY <1>5, <1>6, <1>7

\* The synchroniser holds the line's last three clocks.
LEMMA LineSeen ==
  ASSUME Tolerance, Owed, Sending, LinkTypes, NEW pop \in BOOLEAN, ClockEdge(pop), OnFrame,
         ~At("START"), NEW p \in Byte, ToSend(p), OnLine(p)
  PROVE  ToSend(p)' /\ OnLine(p)'
  <1>1. ToSend(p)' /\ tx' = Level(cfg, p, LineBit')
    BY TxBits DEF OnLine
  <1>2. cfg' = cfg /\ rx_s' = <<tx, rx_s[1], rx_s[2]>>
    BY DEF ClockEdge, RxEdge, Synchronise
  <1>3. cfg.div \in Nat /\ cfg.div >= 8 /\ LineBit \in Nat /\ Into \in Nat
    BY LongBit, Where, Config
  <1>4. \/ LineBit' = LineBit /\ Into' = Into + 1
        \/ Into = cfg.div /\ LineBit' = LineBit + 1 /\ Into' = 0
    BY LineMoves
  <1>5. /\ tx = Level(cfg, p, LineBit)
        /\ rx_s[1] = Level(cfg, p, IF Into >= 1 THEN LineBit ELSE LineBit - 1)
        /\ rx_s[2] = Level(cfg, p, IF Into >= 2 THEN LineBit ELSE LineBit - 1)
    BY DEF OnLine
  <1>6. /\ rx_s'[1] = tx /\ rx_s'[2] = rx_s[1] /\ rx_s'[3] = rx_s[2]
    BY <1>2
  <1>7. LineBit = IF Into' >= 1 THEN LineBit' ELSE LineBit' - 1
    BY <1>3, <1>4
  <1>8. (IF Into >= 1 THEN LineBit ELSE LineBit - 1) = (IF Into' >= 2 THEN LineBit' ELSE LineBit' - 1)
    BY <1>3, <1>4
  <1>9. (IF Into >= 2 THEN LineBit ELSE LineBit - 1) = (IF Into' >= 3 THEN LineBit' ELSE LineBit' - 1)
    BY <1>3, <1>4
  <1>10. \A i \in 1 .. 3 : rx_s'[i] = Level(cfg, p, IF Into' >= i THEN LineBit' ELSE LineBit' - 1)
    <2> SUFFICES ASSUME NEW i \in 1 .. 3
                 PROVE  rx_s'[i] = Level(cfg, p, IF Into' >= i THEN LineBit' ELSE LineBit' - 1)
      OBVIOUS
    <2>1. CASE i = 1
      BY <1>5, <1>6, <1>7, <2>1
    <2>2. CASE i = 2
      BY <1>5, <1>6, <1>8, <2>2
    <2>3. CASE i = 3
      BY <1>5, <1>6, <1>9, <2>3
    <2> QED BY <2>1, <2>2, <2>3
  <1> QED BY <1>1, <1>2, <1>10 DEF OnLine

\* What the receiver sees is the bit that was on the line three clocks ago.
LEMMA SeenBit ==
  ASSUME Owed, Sending, LinkTypes, OnFrame, NEW p \in Byte, OnLine(p),
         NEW m \in 0 .. StopAt(cfg), NEW z \in 0 .. cfg.div, Now = BitStart(cfg, m) + z + 3,
         cfg.div >= 3
  PROVE  rx_sync = Level(cfg, p, m)
  <1>1. /\ cfg \in Configs /\ LineBit \in 0 .. StopAt(cfg) /\ Into \in Nat /\ StopAt(cfg) \in Nat
        /\ cfg.div \in Nat /\ Clocks(cfg) = cfg.div + 1 /\ m \in Nat /\ LineBit \in Nat
        /\ InFrame => Into <= cfg.div
        /\ ~InFrame => LineBit = StopAt(cfg)
    BY Where, Config
  <1>2. rx_sync = Level(cfg, p, IF Into >= 3 THEN LineBit ELSE LineBit - 1)
    BY DEF rx_sync, OnLine
  <1>3. BitStart(cfg, LineBit) + Into = BitStart(cfg, m) + z + 3
        /\ BitStart(cfg, LineBit) \in Nat /\ BitStart(cfg, m) \in Nat
    BY <1>1, Bits DEF Now
  <1>4. CASE Into >= 3
    <2>1. Into - 3 \in Nat /\ BitStart(cfg, m) + z = BitStart(cfg, LineBit) + (Into - 3)
      BY <1>1, <1>3, <1>4
    <2>2. LineBit <= m /\ (Into - 3 <= cfg.div => m = LineBit)
      BY <1>1, <2>1, SameBit
    <2>3. m = LineBit
      BY <1>1, <2>2
    <2> QED BY <1>2, <1>4, <2>3
  <1>5. CASE Into < 3
    <2>1. LineBit > 0
      <3>1. LineBit = 0 => BitStart(cfg, LineBit) = 0
        BY <1>1, Bits
      <3> QED BY <1>1, <1>3, <1>5, <3>1
    <2> DEFINE b == LineBit - 1
    <2>2. b \in Nat /\ LineBit = b + 1
      BY <1>1, <2>1
    <2>3. BitStart(cfg, b + 1) = BitStart(cfg, b) + Clocks(cfg) /\ BitStart(cfg, b) \in Nat
      BY <1>1, <2>2, Bits
    <2>4. Clocks(cfg) + Into - 3 \in 0 .. cfg.div
      BY <1>1, <1>5
    <2>5. BitStart(cfg, m) + z = BitStart(cfg, b) + (Clocks(cfg) + Into - 3)
      BY <1>1, <1>3, <2>2, <2>3
    <2> HIDE DEF b
    <2>6. m = b
      BY <1>1, <2>2, <2>4, <2>5, SameBit
    <2> QED BY <1>1, <1>2, <1>5, <2>6 DEF b
  <1> QED BY <1>1, <1>4, <1>5

LEMMA SendingEdge ==
  ASSUME Owed, LinkTypes, Sending, NEW pop \in BOOLEAN, ClockEdge(pop)
  PROVE  Sending'
  <1>1. /\ cfg' = cfg /\ cfg \in Configs /\ cfg.div \in Nat /\ Width(cfg) \in 1 .. 8
        /\ LastBit' = LastBit /\ LastBit = Width(cfg) - 1
        /\ (cfg.parity # "none" <=> Pars(cfg) = 1)
    BY Config, Ports DEF Owed, ClockEdge, Pars, LastBit
  <1>2. /\ baud_cnt \in Nat /\ bit_cnt \in 0 .. 7 /\ tx_state \in TxStates
        /\ fetch_pending \in BOOLEAN /\ tx_fifo_rd \in BOOLEAN /\ tx_fifo \in Seq(Byte)
    BY DEF Owed, LinkTypes
  <1>3. baud_cnt' = IF tx_state = "IDLE" \/ baud_cnt = 0 THEN cfg.div ELSE baud_cnt - 1
    BY DEF ClockEdge, TxEdge, Baud, baud_tick
  <1>4. \/ Idle \/ Latch(tx_fifo_rdata) \/ BetweenTicks
        \/ StartBit \/ DataBit \/ SendParity \/ StopBit
    BY DEF ClockEdge, TxEdge
  <1> DEFINE ask == tx_state = "IDLE" /\ ~tx_fifo_empty /\ ~fetch_pending
  <1>5. tx_fifo_rd' = ask /\ fetch_pending' = (ask \/ (fetch_pending /\ tx_state = "IDLE"))
    BY DEF ClockEdge, TxEdge, Fetch
  <1>6. ASSUME tx_state' # "IDLE"
        PROVE  /\ frame' = [m1 |-> LastBit, parity |-> cfg.parity, stop2 |-> cfg.stop2]
               /\ baud_cnt' <= cfg.div
    <2>1. baud_cnt' <= cfg.div
      <3>1. tx_state # "IDLE" => baud_cnt <= cfg.div
        BY DEF Sending
      <3> QED BY <1>1, <1>2, <1>3, <3>1
    <2>2. tx_state = "IDLE" => Latch(tx_fifo_rdata)
      BY <1>4, <1>6 DEF Idle, BetweenTicks, StartBit, DataBit, SendParity, StopBit, At
    <2>3. tx_state # "IDLE" => frame' = frame
      BY <1>4 DEF Idle, Latch, BetweenTicks, StartBit, DataBit, SendParity, StopBit
    <2> QED BY <2>1, <2>2, <2>3 DEF Latch, Sending
  <1>7. tx_fifo_rd' <=> tx_state' = "IDLE" /\ fetch_pending'
    <2>1. CASE ask
      <3>1. tx_state' = "IDLE"
        BY <1>4, <2>1 DEF Idle, Latch, BetweenTicks, StartBit, DataBit, SendParity, StopBit, At
      <3> QED BY <1>5, <2>1, <3>1
    <2>2. CASE ~ask
      <3>1. tx_state = "IDLE" /\ fetch_pending => tx_state' = "START"
        BY <1>4 DEF Idle, Latch, BetweenTicks, StartBit, DataBit, SendParity, StopBit, At
      <3> QED BY <1>5, <2>2, <3>1
    <2> QED BY <2>1, <2>2
  <1>8. fetch_pending' => tx_state' \in {"IDLE", "START"}
    <2>1. tx_state = "IDLE" => tx_state' \in {"IDLE", "START"}
      BY <1>4 DEF Idle, Latch, BetweenTicks, StartBit, DataBit, SendParity, StopBit, At
    <2> QED BY <1>5, <2>1
  <1>9. tx_fifo_rd' => tx_fifo' # <<>>
    <2> SUFFICES ASSUME ask PROVE tx_fifo' # <<>>
      BY <1>5
    <2>1. ~tx_fifo_rd /\ tx_fifo # <<>>
      BY DEF Sending, tx_fifo_empty
    <2>2. tx_fifo' = IF tx_fifo_wr /\ Len(tx_fifo) < TX_FIFO_DEPTH THEN Append(tx_fifo, tx_fifo_wdata)
                                                                  ELSE tx_fifo
      BY <2>1 DEF ClockEdge, TxFifo!Edge, TxFifo!Popped
    <2>3. Append(tx_fifo, tx_fifo_wdata) # <<>>
      BY <1>2 DEF LinkTypes
    <2> QED BY <2>1, <2>2, <2>3
  <1>10. tx_state' = "START" => bit_cnt' = 0 /\ parity_acc' = 0
    BY <1>4 DEF Idle, Latch, BetweenTicks, StartBit, DataBit, SendParity, StopBit, At, Sending
  <1>11. tx_state' = "DATA" => bit_cnt' < Width(cfg)
    <2>1. CASE tx_state = "START"
      BY <1>1, <1>4, <2>1 DEF Idle, Latch, BetweenTicks, StartBit, DataBit, SendParity, StopBit, At, Sending
    <2>2. CASE tx_state = "DATA"
      <3>1. bit_cnt < Width(cfg) /\ frame.m1 = LastBit
        BY <2>2 DEF Sending
      <3>2. BetweenTicks => bit_cnt' = bit_cnt
        BY DEF BetweenTicks
      <3>3. DataBit /\ tx_state' = "DATA" => bit_cnt # frame.m1 /\ bit_cnt' = bit_cnt + 1
        BY DEF DataBit
      <3>4. BetweenTicks \/ DataBit
        BY <1>4, <2>2 DEF Idle, Latch, StartBit, SendParity, StopBit, At
      <3> QED BY <1>1, <1>2, <3>1, <3>2, <3>3, <3>4
    <2>3. tx_state \notin {"START", "DATA"} => tx_state' # "DATA"
      BY <1>4 DEF Idle, Latch, BetweenTicks, StartBit, DataBit, SendParity, StopBit, At
    <2> QED BY <2>1, <2>2, <2>3
  <1>12. tx_state' = "PARITY" => Pars(cfg) = 1
    <2>1. tx_state' = "PARITY" => tx_state = "PARITY" \/ (frame.parity # "none" /\ tx_state = "DATA")
      BY <1>4 DEF Idle, Latch, BetweenTicks, StartBit, DataBit, SendParity, StopBit, At
    <2> QED BY <1>1, <2>1 DEF Sending
  <1>13. tx_state' = "STOP2" => cfg.stop2
    <2>1. tx_state' = "STOP2" => tx_state = "STOP2" \/ (frame.stop2 /\ tx_state = "STOP1")
      BY <1>4 DEF Idle, Latch, BetweenTicks, StartBit, DataBit, SendParity, StopBit, At
    <2> QED BY <2>1 DEF Sending
  <1> QED BY <1>1, <1>6, <1>7, <1>8, <1>9, <1>10, <1>11, <1>12, <1>13 DEF Sending

\* The receiver's sample counter.
LEMMA SampleEdge ==
  ASSUME Tolerance, Owed, LinkTypes, InTime(os_cnt), NEW pop \in BOOLEAN, ClockEdge(pop)
  PROVE  /\ cfg' = cfg /\ cfg \in Configs /\ os_cnt \in Nat /\ os_cnt' \in Nat /\ InTime(os_cnt')
         /\ os_cnt' = IF sample_tick THEN SampleTime(cfg) - 1 ELSE os_cnt - 1
         /\ os_div = SampleTime(cfg) - 1 /\ os_div' = os_div /\ SampleTime(cfg) \in Nat
         /\ SampleTime(cfg) >= 1
         /\ sample_tick <=> os_cnt = 0
         /\ rx_s'[1] = tx /\ rx_s'[2] = rx_s[1] /\ rx_s'[3] = rx_s[2]
  <1>1. cfg' = cfg /\ cfg \in Configs /\ os_cnt \in Nat
    BY DEF ClockEdge, Owed, LinkTypes
  <1>2. /\ SampleDiv(cfg) \in Nat /\ SampleTime(cfg) = SampleDiv(cfg) + 1
        /\ os_div = SampleDiv(cfg) /\ os_div' = os_div
    BY <1>1, Config, Ports DEF os_div
  <1>3. os_cnt' = IF sample_tick THEN os_div ELSE os_cnt - 1
    BY DEF ClockEdge, RxEdge, Oversample
  <1>4. os_cnt' \in Nat
    BY <1>1, <1>2, <1>3 DEF sample_tick
  <1>5. InTime(os_cnt')
    <2>1. InTime(SampleDiv(cfg))
      BY <1>1, LongBit
    <2>2. os_cnt - 1 \in Nat => InTime(os_cnt - 1)
      <3>1. os_cnt - 1 <= os_cnt
        BY <1>1
      <3> QED BY <1>1, <3>1, InTimeBelow
    <2> QED BY <1>2, <1>3, <1>4, <2>1, <2>2
  <1>6. rx_s' = <<tx, rx_s[1], rx_s[2]>>
    BY DEF ClockEdge, RxEdge, Synchronise
  <1> QED BY <1>1, <1>2, <1>3, <1>4, <1>5, <1>6 DEF sample_tick

\* A receiver without a byte to receive listens, or is in a false start that it
\* gives up as soon as it checks it.
LEMMA Deaf ==
  ASSUME Tolerance, Owed, LinkTypes, Receiving, NEW pop \in BOOLEAN, ClockEdge(pop),
         rx_state \in {"IDLE", "START"}, rx_state = "START" => phase <= 7,
         sample_tick /\ rx_state = "START" /\ phase = 7 => rx_sync = 1
  PROVE  /\ rx_state' \in {"IDLE", "START"} /\ ~frame_done
         /\ rx_state' = "START" => os_cnt' <= os_div' /\ phase' \in 0 .. 7
         /\ rx_state = "IDLE" => /\ rx_state' = "START" <=> sample_tick /\ rx_sync = 0
                                 /\ rx_state' = "START" => phase' = 0
         /\ rx_state = "START" /\ rx_state' = "START" =>
              os_cnt' + 1 + Samples(cfg, phase) = os_cnt + Samples(cfg, phase')
         /\ rx_state = "START" /\ phase = 7 /\ sample_tick => rx_state' = "IDLE"
  <1>1. /\ cfg \in Configs /\ os_cnt \in Nat /\ os_cnt' \in Nat /\ phase \in 0 .. 15
        /\ os_cnt' = IF sample_tick THEN SampleTime(cfg) - 1 ELSE os_cnt - 1
        /\ os_div = SampleTime(cfg) - 1 /\ os_div' = os_div /\ SampleTime(cfg) \in Nat
        /\ sample_tick <=> os_cnt = 0
    BY SampleEdge DEF LinkTypes, Receiving
  <1>2. BetweenSamples \/ Listen \/ Start
    BY DEF ClockEdge, RxEdge, Sample, Vote, CheckParity, Stop, In
  <1>3. CASE BetweenSamples
    <2>1. ~sample_tick /\ rx_state' = rx_state /\ phase' = phase
      BY <1>3 DEF BetweenSamples
    <2>2. os_cnt' + 1 + Samples(cfg, phase) = os_cnt + Samples(cfg, phase')
      BY <1>1, <2>1, SampleTimes
    <2>3. rx_state = "START" => os_cnt <= os_div
      BY DEF Receiving
    <2> QED BY <1>1, <2>1, <2>2, <2>3 DEF frame_done, In
  <1>4. CASE Listen
    <2>1. sample_tick /\ rx_state = "IDLE" /\ phase' = 0 /\ rx_state' = (IF rx_sync = 0 THEN "START" ELSE "IDLE")
      BY <1>4 DEF Listen, In
    <2> QED BY <1>1, <2>1 DEF frame_done, In
  <1>5. CASE Start
    <2>1. sample_tick /\ rx_state = "START"
      BY <1>5 DEF Start, In
    <2>2. CASE phase = 7
      <3>1. rx_state' = "IDLE"
        BY <1>5, <2>1, <2>2 DEF Start
      <3> QED BY <2>1, <3>1 DEF frame_done, In
    <2>3. CASE phase # 7
      <3>1. rx_state' = "START" /\ phase' = phase + 1 /\ phase' \in 0 .. 7
        BY <1>1, <1>5, <2>1, <2>3 DEF Start, NextPhase
      <3>2. Samples(cfg, phase + 1) = Samples(cfg, phase) + SampleTime(cfg)
            /\ Samples(cfg, phase) \in Nat
        <4>1. cfg \in Configs /\ phase \in Nat
          BY <1>1
        <4> QED BY <4>1, SampleTimes, Zenon
      <3>3. os_cnt' + 1 + Samples(cfg, phase) = os_cnt + Samples(cfg, phase')
        BY <1>1, <2>1, <3>1, <3>2
      <3> QED BY <1>1, <2>1, <2>3, <3>1, <3>3 DEF frame_done, In
    <2> QED BY <2>2, <2>3
  <1> QED BY <1>2, <1>3, <1>4, <1>5

\* With no byte on the line, none appears but by a start bit.
LEMMA Quiet ==
  ASSUME Tolerance, Owed, LinkTypes, Sending, Line, FalseStart, Receiving,
         NEW pop \in BOOLEAN, ClockEdge(pop), ~Unread, ~At("START")
  PROVE  ~Unread' /\ Line' /\ FalseStart' /\ Receiving' /\ rx_state' \in {"IDLE", "START"} /\ ~frame_done
  <1>1. /\ cfg' = cfg /\ cfg \in Configs /\ os_cnt \in Nat /\ os_cnt' \in Nat /\ InTime(os_cnt')
        /\ os_cnt' = IF sample_tick THEN SampleTime(cfg) - 1 ELSE os_cnt - 1
        /\ SampleTime(cfg) \in Nat
        /\ rx_s'[1] = tx /\ rx_s'[2] = rx_s[1] /\ rx_s'[3] = rx_s[2]
        /\ sample_tick <=> os_cnt = 0
    BY SampleEdge DEF Receiving
  <1>2. /\ owed \in Nat /\ baud_cnt \in Nat /\ tx_state \in TxStates /\ rx_state \in RxStates
        /\ phase \in 0 .. 15 /\ tx = 1 /\ rx_s \in Three
    BY DEF Owed, LinkTypes, Line
  <1>3. \/ Idle \/ Latch(tx_fifo_rdata) \/ BetweenTicks \/ StopBit
    BY DEF ClockEdge, TxEdge, StartBit, DataBit, SendParity, Unread, InFrame, At
  <1>4. tx_state # "STOP1" /\ ~InFrame' /\ tx' = 1
    BY <1>2, <1>3 DEF Idle, Latch, BetweenTicks, StopBit, Unread, InFrame, At
  <1>5. rx_state \in {"IDLE", "START"} /\ (rx_state = "START" => Spurious /\ phase <= 7)
    BY <1>2 DEF Receiving, RxStates, Spurious
  <1> DEFINE check == os_cnt + Samples(cfg, 7)
  <1>6. /\ Samples(cfg, 7) \in Nat /\ Samples(cfg, 8) \in Nat /\ Samples(cfg, 7) + SampleTime(cfg) = Samples(cfg, 8)
        /\ Samples(cfg, 8) >= 8 /\ Samples(cfg, 0) = 0
        /\ Samples(cfg, 8) + Samples(cfg, 8) = Clocks(cfg) + Late(cfg)
    BY <1>1, Eighths
  <1>7. rx_sync \in Bit /\ (rx_sync = 0 => rx_s[3] = 0)
    BY <1>2 DEF rx_sync, Three
  <1>8. sample_tick /\ rx_state = "START" /\ phase = 7 => rx_sync = 1
    <2> SUFFICES ASSUME sample_tick, rx_state = "START", phase = 7, rx_s[3] = 0 PROVE FALSE
      BY <1>7 DEF Bit
    <2>1. check + 3 >= Samples(cfg, 7) + 9
      BY <1>5 DEF FalseStart
    <2> QED BY <1>1, <1>6, <2>1
  <1>9. /\ rx_state' \in {"IDLE", "START"} /\ ~frame_done
        /\ rx_state' = "START" => os_cnt' <= os_div' /\ phase' \in 0 .. 7
        /\ rx_state = "IDLE" => /\ rx_state' = "START" <=> sample_tick /\ rx_sync = 0
                                /\ rx_state' = "START" => phase' = 0
        /\ rx_state = "START" /\ rx_state' = "START" =>
              os_cnt' + 1 + Samples(cfg, phase) = os_cnt + Samples(cfg, phase')
    BY <1>5, <1>8, Deaf
  <1>10. owed' > 0 => owed > 0
    BY <1>2, <1>4 DEF ClockEdge, At
  <1>11. owed > 0 => rx_state = "IDLE" /\ rx_state' = "IDLE" /\ \A i \in 1 .. 3 : rx_s[i] = 1
    <2>1. owed > 0 => rx_state = "IDLE" /\ \A i \in 1 .. 3 : rx_s[i] = 1
      BY DEF Unread, Line
    <2> QED BY <1>9, <2>1 DEF rx_sync
  <1>12. ~Unread'
    BY <1>4, <1>10, <1>11 DEF Unread
  <1>13. \A i \in 1 .. 3 : rx_s'[i] = 0 => i # 1 /\ rx_s[i - 1] = 0 /\ i - 1 \in 1 .. 2
    <2> SUFFICES ASSUME NEW i \in 1 .. 3, rx_s'[i] = 0 PROVE i # 1 /\ rx_s[i - 1] = 0 /\ i - 1 \in 1 .. 2
      OBVIOUS
    <2>1. CASE i = 1
      BY <1>1, <1>2, <2>1
    <2>2. CASE i = 2
      BY <1>1, <2>2
    <2>3. CASE i = 3
      BY <1>1, <2>3
    <2> QED BY <2>1, <2>2, <2>3
  <1>14. rx_s[1] = 0 => tx_fifo' = <<>>
    <2> SUFFICES ASSUME rx_s[1] = 0 PROVE tx_fifo' = <<>>
      OBVIOUS
    <2>1. ~tx_fifo_wr /\ tx_fifo = <<>>
      BY DEF Line
    <2> QED BY <2>1 DEF ClockEdge, TxFifo!Edge, TxFifo!Popped
  <1>15. \A i \in 1 .. 2 : rx_s[i] = 0 => tx_state' = "IDLE" /\ ~fetch_pending'
    <2> SUFFICES ASSUME NEW i \in 1 .. 2, rx_s[i] = 0 PROVE tx_state' = "IDLE" /\ ~fetch_pending'
      OBVIOUS
    <2>1. tx_state = "IDLE" /\ ~fetch_pending /\ tx_fifo = <<>>
      <3>1. i = 1 \/ i = 2
        OBVIOUS
      <3> QED BY <3>1 DEF Line
    <2>2. tx_state' = "IDLE"
      BY <1>3, <2>1 DEF Idle, Latch, BetweenTicks, StopBit, At
    <2>3. ~fetch_pending'
      BY <2>1 DEF ClockEdge, TxEdge, Fetch, tx_fifo_empty
    <2> QED BY <2>2, <2>3
  <1>16. Line'
    <2>1. owed' > 0 => \A i \in 1 .. 3 : rx_s'[i] = 1
      <3> SUFFICES ASSUME owed > 0, NEW i \in 1 .. 3 PROVE rx_s'[i] = 1
        BY <1>10
      <3>1. rx_s[1] = 1 /\ rx_s[2] = 1
        BY <1>11
      <3> QED BY <1>1, <1>2, <3>1
    <2>2. rx_s'[1] # 0
      BY <1>1, <1>2
    <2>3. rx_s'[2] = 0 => tx_fifo' = <<>>
      BY <1>1, <1>14
    <2>4. \A i \in 1 .. 3 : rx_s'[i] = 0 => tx_state' = "IDLE" /\ ~fetch_pending'
      BY <1>13, <1>15
    <2> QED BY <1>4, <2>1, <2>2, <2>3, <2>4 DEF Line
  <1>17. ASSUME rx_state' = "START"
         PROVE  /\ \A i \in 1 .. 3 : rx_s'[i] = 0 => os_cnt' + Samples(cfg, 7) + i >= Samples(cfg, phase') + 9
                /\ tx_state' = "IDLE" => os_cnt' + Samples(cfg, 7) <= Samples(cfg, phase') + Clocks(cfg) + 3
                /\ tx_state' = "START" => os_cnt' + Samples(cfg, 7) <= Samples(cfg, phase') + baud_cnt' + 3
    <2>1. CASE rx_state = "IDLE"
      <3>1. sample_tick /\ rx_s[3] = 0 /\ phase' = 0 /\ os_cnt' = SampleTime(cfg) - 1
        BY <1>1, <1>7, <1>9, <1>17, <2>1
      <3>2. os_cnt' + Samples(cfg, 7) = Samples(cfg, 8) - 1
        BY <1>1, <1>6, <3>1
      <3>3. \A i \in 1 .. 3 : rx_s'[i] = 0 => Samples(cfg, 8) - 1 + i >= 0 + 9
        BY <1>6, <1>13
      <3>4. tx_state' = "IDLE"
        <4>1. tx_state = "IDLE" /\ ~fetch_pending
          BY <3>1 DEF Line
        <4> QED BY <1>3, <4>1 DEF Idle, Latch, BetweenTicks, StopBit, At
      <3>5. Samples(cfg, 8) <= Clocks(cfg)
        <4>1. Late(cfg) <= Samples(cfg, 8)
          <5>1. 0 + Drift(cfg, StopAt(cfg) + 1) + 5 <= Samples(cfg, 8)
            BY <1>1, LongBit, InTimeMeans
          <5>2. StopAt(cfg) \in Nat /\ StopAt(cfg) + 1 \in Nat /\ Late(cfg) \in Nat
            BY <1>1, Config
          <5>3. Drift(cfg, StopAt(cfg) + 1) = Drift(cfg, StopAt(cfg)) + Late(cfg)
                /\ Drift(cfg, StopAt(cfg)) \in Nat
            BY <1>1, <5>2, Drifts
          <5> QED BY <1>6, <5>1, <5>2, <5>3
        <4>2. Late(cfg) \in Nat /\ Clocks(cfg) \in Nat
          BY <1>1, Config
        <4> QED BY <1>6, <4>1, <4>2
      <3>6. Clocks(cfg) \in Nat
        BY <1>1, Config
      <3> QED BY <1>6, <3>1, <3>2, <3>3, <3>4, <3>5, <3>6
    <2>2. CASE rx_state = "START"
      <3>1. os_cnt' + 1 + Samples(cfg, phase) = os_cnt + Samples(cfg, phase')
        BY <1>9, <1>17, <2>2
      <3>2. phase \in Nat /\ phase' \in Nat
        BY <1>2, <1>9, <1>17
      <3>3. Samples(cfg, phase) \in Nat /\ Samples(cfg, phase') \in Nat
        BY <1>1, <3>2, SampleTimes
      <3>4. /\ \A i \in 1 .. 3 : rx_s[i] = 0 => check + i >= Samples(cfg, phase) + 9
            /\ tx_state = "IDLE"  => check <= Samples(cfg, phase) + Clocks(cfg) + 3
            /\ tx_state = "START" => check <= Samples(cfg, phase) + baud_cnt + 3
        BY <1>5, <2>2 DEF FalseStart
      <3>5. check = os_cnt' + Samples(cfg, 7) + 1 + Samples(cfg, phase) - Samples(cfg, phase')
        BY <1>1, <1>6, <3>1, <3>3
      <3>6. ASSUME NEW i \in 1 .. 3, rx_s'[i] = 0
            PROVE  os_cnt' + Samples(cfg, 7) + i >= Samples(cfg, phase') + 9
        <4>1. i - 1 \in 1 .. 3 /\ rx_s[i - 1] = 0
          BY <1>13, <3>6
        <4>2. check + (i - 1) >= Samples(cfg, phase) + 9
          BY <3>4, <4>1
        <4> QED BY <1>1, <1>6, <3>3, <3>5, <4>2
      <3>7. cfg.div \in Nat /\ Clocks(cfg) = cfg.div + 1
        BY <1>1, Config
      <3>8. ASSUME tx_state' = "IDLE"
            PROVE  os_cnt' + Samples(cfg, 7) <= Samples(cfg, phase') + Clocks(cfg) + 3
        <4>1. tx_state = "IDLE"
          <5>1. tx_state # "STOP2"
            <6>1. tx_state = "STOP2" => owed > 0
              BY <1>1, <1>2, <3>7, Ports DEF Owed
            <6> QED BY <1>11, <2>2, <6>1
          <5> QED BY <1>2, <1>3, <1>4, <3>8, <5>1 DEF Idle, Latch, BetweenTicks, StopBit, At
        <4> QED BY <1>1, <1>6, <3>3, <3>4, <3>5, <3>7, <4>1
      <3>9. ASSUME tx_state' = "START"
            PROVE  os_cnt' + Samples(cfg, 7) <= Samples(cfg, phase') + baud_cnt' + 3
        <4>1. baud_cnt' = IF tx_state = "IDLE" \/ baud_cnt = 0 THEN cfg.div ELSE baud_cnt - 1
          BY DEF ClockEdge, TxEdge, Baud, baud_tick
        <4>2. tx_state = "IDLE" \/ (tx_state = "START" /\ baud_cnt # 0)
          BY <1>3, <3>9 DEF Idle, Latch, BetweenTicks, StopBit, At, baud_tick
        <4> QED BY <1>1, <1>2, <1>6, <3>3, <3>4, <3>5, <3>7, <4>1, <4>2
      <3> QED BY <3>6, <3>8, <3>9
    <2> QED BY <1>5, <2>1, <2>2
  <1>18. FalseStart'
    BY <1>1, <1>12, <1>17 DEF FalseStart, Spurious
  <1>19. Receiving'
    <2>1. rx_state' = "START" => Spurious'
      BY <1>12 DEF Spurious
    <2> QED BY <1>1, <1>4, <1>9, <1>12, <2>1 DEF Receiving, Locked
  <1> QED BY <1>9, <1>12, <1>16, <1>18, <1>19

\* A start bit begins the frame of the latched byte, on a line that was idle.
LEMMA Begins ==
  ASSUME Tolerance, Owed, LinkTypes, Sending, Line, FalseStart, Receiving,
         NEW pop \in BOOLEAN, ClockEdge(pop), At("START"), NEW p \in Byte, p = Payload(shift)
  PROVE  ~Unread /\ Unread' /\ Carried(p)' /\ FalseStart' /\ Receiving' /\ ~frame_done
         /\ rx_state' \in {"IDLE", "START"}
  <1>1. /\ cfg' = cfg /\ cfg \in Configs /\ os_cnt \in Nat /\ os_cnt' \in Nat /\ InTime(os_cnt')
        /\ rx_s'[1] = tx /\ rx_s'[2] = rx_s[1] /\ rx_s'[3] = rx_s[2]
    BY SampleEdge DEF Receiving
  <1>2. ~Unread /\ tx_state = "START" /\ baud_cnt = 0
    <2>1. owed = 0
      BY Where
    <2> QED BY <2>1 DEF Unread, InFrame, At, baud_tick
  <1>3. tx = 1 /\ rx_s[1] = 1 /\ rx_s[2] = 1 /\ rx_s[3] = 1 /\ rx_sync = 1
    <2>1. \A i \in 1 .. 3 : rx_s[i] # 0 /\ rx_s[i] \in Bit
      BY <1>2 DEF Line, LinkTypes, Three
    <2> QED BY <1>2, <2>1 DEF Line, rx_sync, Bit
  <1>4. /\ tx' = 0 /\ tx_state' = "DATA" /\ shift' = shift /\ bit_cnt' = 0 /\ parity_acc' = 0
        /\ baud_cnt' = cfg.div
    <2>1. StartBit
      BY DEF ClockEdge, TxEdge, At, Idle, Latch, BetweenTicks, DataBit, SendParity, StopBit
    <2>2. baud_cnt' = cfg.div
      BY <1>2 DEF ClockEdge, TxEdge, Baud, baud_tick
    <2> QED BY <1>2, <2>1, <2>2 DEF StartBit, Sending
  <1>5. cfg.div \in Nat /\ Width(cfg) \in 1 .. 8
    BY <1>1, Config
  <1>6. InFrame' /\ Unread' /\ LineBit' = 0 /\ Into' = 0 /\ Now' = 0
    <2>1. InFrame' /\ LineBit' = 0
      BY <1>4 DEF InFrame, LineBit
    <2>2. Into' = 0
      BY <1>1, <1>4, <1>5, <2>1 DEF Into
    <2>3. Now' = 0
      <3>1. BitStart(cfg, 0) = 0
        BY <1>1, Bits
      <3> QED BY <1>1, <2>1, <2>2, <3>1 DEF Now
    <2> QED BY <2>1, <2>2, <2>3 DEF Unread
  <1>7. /\ rx_state \in {"IDLE", "START"} /\ (rx_state = "START" => Spurious /\ phase <= 7)
        /\ phase \in 0 .. 15
    BY <1>2 DEF Receiving, LinkTypes, RxStates, Spurious
  <1>8. /\ rx_state' \in {"IDLE", "START"} /\ ~frame_done
        /\ rx_state' = "START" => os_cnt' <= os_div' /\ phase' \in 0 .. 7
        /\ rx_state = "IDLE" => (rx_state' = "START" <=> sample_tick /\ rx_sync = 0)
        /\ rx_state = "START" /\ rx_state' = "START" =>
              os_cnt' + 1 + Samples(cfg, phase) = os_cnt + Samples(cfg, phase')
    BY <1>3, <1>7, Deaf
  <1>9. ToSend(p)'
    <2>1. p = shift % (2 ^ Width(cfg))
      BY <1>1, Ports DEF Payload
    <2>2. p \div (2 ^ 0) = p /\ Acc(p, 0) = 0
      BY <1>5, Whole, Accumulated
    <2>3. Width(cfg) - 0 = Width(cfg)
      BY <1>5
    <2> QED BY <1>1, <1>4, <2>1, <2>2, <2>3 DEF ToSend
  <1>10. OnLine(p)'
    <2>1. Level(cfg, p, 0) = 0 /\ Level(cfg, p, 0 - 1) = 1
      BY <1>1, Levels
    <2>2. \A i \in 1 .. 3 : rx_s'[i] = 1 /\ ~(0 >= i)
      <3>1. \A i \in 1 .. 3 : i = 1 \/ i = 2 \/ i = 3
        OBVIOUS
      <3> QED BY <1>1, <1>3, <3>1
    <2> QED BY <1>1, <1>4, <1>6, <2>1, <2>2 DEF OnLine
  <1>11. Taken(p)'
    BY <1>8 DEF Taken
  <1>12. ASSUME rx_state' = "START"
         PROVE  os_cnt' + Samples(cfg, 7) < Samples(cfg, phase') + 3
    <2>1. rx_state = "START"
      BY <1>3, <1>7, <1>8, <1>12
    <2>2. phase \in Nat /\ phase' \in Nat
      BY <1>7, <1>8, <1>12
    <2>3. Samples(cfg, phase) \in Nat /\ Samples(cfg, phase') \in Nat /\ Samples(cfg, 7) \in Nat
      BY <1>1, <2>2, SampleTimes, Eighths
    <2>4. os_cnt + Samples(cfg, 7) <= Samples(cfg, phase) + baud_cnt + 3
      BY <1>2, <1>7, <2>1 DEF FalseStart
    <2>5. os_cnt' + 1 + Samples(cfg, phase) = os_cnt + Samples(cfg, phase')
      BY <1>8, <1>12, <2>1
    <2> QED BY <1>1, <1>2, <2>3, <2>4, <2>5
  <1>13. FalseStart'
    <2>1. rx_state' = "START" => os_cnt' + Samples(cfg, 7) + 0 < Samples(cfg, phase') + 3
      <3>1. Samples(cfg, 7) \in Nat
        BY <1>1, Eighths
      <3>2. os_cnt' + Samples(cfg, 7) + 0 = os_cnt' + Samples(cfg, 7)
        BY <1>1, <3>1
      <3> QED BY <1>12, <3>2
    <2> QED BY <1>1, <1>4, <1>6, <2>1 DEF FalseStart, Spurious
  <1>14. Receiving'
    <2>1. rx_state' = "START" => Spurious'
      BY <1>6 DEF Spurious
    <2> QED BY <1>1, <1>6, <1>8, <2>1 DEF Receiving, Locked
  <1> QED BY <1>2, <1>6, <1>8, <1>9, <1>10, <1>11, <1>13, <1>14 DEF Carried

\* A receiver that has not yet seen the start bit: it finds it on a sample no later
\* than the sample counter's run after it is there, or gives up a false start first.
LEMMA Finds ==
  ASSUME Tolerance, Owed, LinkTypes, Sending, FalseStart, Receiving,
         NEW pop \in BOOLEAN, ClockEdge(pop), Unread, ~Locked, NEW p \in Byte, Carried(p)
  PROVE  Unread' /\ Carried(p)' /\ FalseStart' /\ Receiving' /\ ~frame_done
         /\ ~At("START") /\ rx_state' \in {"IDLE", "START"}
  <1>1. /\ cfg' = cfg /\ cfg \in Configs /\ os_cnt \in Nat /\ os_cnt' \in Nat /\ InTime(os_cnt')
        /\ os_cnt' = IF sample_tick THEN SampleTime(cfg) - 1 ELSE os_cnt - 1
        /\ SampleTime(cfg) \in Nat /\ SampleTime(cfg) >= 1
        /\ sample_tick <=> os_cnt = 0
    BY SampleEdge DEF Receiving
  <1>2. /\ cfg.div \in Nat /\ cfg.div >= 8 /\ Clocks(cfg) = cfg.div + 1
        /\ StopAt(cfg) \in Nat /\ StopAt(cfg) + 1 \in Nat /\ Late(cfg) \in Nat /\ StopAt(cfg) >= 1
    BY <1>1, Config, LongBit
  <1>3. LineBit \in Nat /\ Into \in Nat /\ owed \in Nat
    BY <1>2, Where
  <1>4. rx_state = "IDLE" \/ Spurious
    BY DEF Locked
  <1>5. InFrame /\ LineBit = 0 /\ (rx_state = "IDLE" /\ Into >= 3 => InTime(Into - 3 + os_cnt))
        /\ (Spurious => Into = Now /\ Now < 3)
    <2>1. CASE rx_state = "IDLE"
      <3>1. ~Spurious
        BY <2>1 DEF Spurious
      <3> QED BY <2>1, <3>1 DEF Unread, Receiving
    <2>2. CASE Spurious
      <3>1. Now < 3 /\ Now = BitStart(cfg, LineBit) + Into /\ rx_state # "IDLE"
        BY <2>2 DEF Spurious, Now
      <3>2. LineBit = 0
        <4>1. 0 < LineBit => BitStart(cfg, 0) + Clocks(cfg) <= BitStart(cfg, LineBit)
          BY <1>1, <1>3, Bits
        <4>2. BitStart(cfg, LineBit) \in Nat /\ BitStart(cfg, 0) = 0
          BY <1>1, <1>3, Bits
        <4> QED BY <1>2, <1>3, <3>1, <4>1, <4>2
      <3>3. InFrame
        BY <1>2, <3>2, Where
      <3>4. BitStart(cfg, LineBit) = 0
        BY <1>1, <3>2, Bits
      <3> QED BY <1>3, <3>1, <3>2, <3>3, <3>4
    <2> QED BY <1>4, <2>1, <2>2
  <1>6. OnFrame /\ ~At("START")
    BY <1>5 DEF OnFrame, InFrame, At
  <1>7. Now = Into
    <2>1. BitStart(cfg, 0) = 0
      BY <1>1, Bits
    <2> QED BY <1>3, <1>5, <2>1 DEF Now
  <1>8. Into # cfg.div
    <2> SUFFICES ASSUME Into = cfg.div PROVE FALSE
      OBVIOUS
    <2>1. rx_state = "IDLE" /\ cfg.div - 3 + os_cnt \in Nat /\ InTime(cfg.div - 3 + os_cnt)
      BY <1>1, <1>2, <1>4, <1>5, <1>7
    <2>2. cfg.div - 3 + os_cnt + Drift(cfg, StopAt(cfg) + 1) + 5 <= Samples(cfg, 8)
      BY <1>1, <2>1, InTimeMeans
    <2>3. /\ Drift(cfg, StopAt(cfg) + 1) = Drift(cfg, StopAt(cfg)) + Late(cfg)
          /\ Drift(cfg, StopAt(cfg)) \in Nat
      BY <1>1, <1>2, Drifts
    <2>4. Samples(cfg, 8) \in Nat /\ Samples(cfg, 8) + Samples(cfg, 8) = Clocks(cfg) + Late(cfg)
      BY <1>1, Eighths
    <2> QED BY <1>1, <1>2, <2>2, <2>3, <2>4
  <1>9. LineBit' = 0 /\ Into' = Into + 1 /\ InFrame' /\ Now' = Now + 1
    BY <1>5, <1>6, <1>8, LineMoves
  <1>10. Unread'
    BY <1>9 DEF Unread
  <1>11. ToSend(p)' /\ OnLine(p)'
    BY <1>6, LineSeen DEF Carried
  <1>12. rx_sync = IF Into >= 3 THEN 0 ELSE 1
    <2>1. rx_sync = Level(cfg, p, IF Into >= 3 THEN 0 ELSE 0 - 1)
      BY <1>5 DEF Carried, OnLine, rx_sync
    <2> QED BY <1>1, <1>3, <2>1, Levels
  <1>13. /\ rx_state \in {"IDLE", "START"} /\ (rx_state = "START" => Spurious /\ phase <= 7)
         /\ phase \in 0 .. 15
    BY <1>4 DEF Receiving, Spurious, LinkTypes
  <1>14. sample_tick /\ rx_state = "START" /\ phase = 7 => rx_sync = 1
    BY <1>3, <1>5, <1>7, <1>12, <1>13
  <1>15. /\ rx_state' \in {"IDLE", "START"} /\ ~frame_done
         /\ rx_state' = "START" => os_cnt' <= os_div' /\ phase' \in 0 .. 7
         /\ rx_state = "IDLE" => /\ rx_state' = "START" <=> sample_tick /\ rx_sync = 0
                                 /\ rx_state' = "START" => phase' = 0
         /\ rx_state = "START" /\ rx_state' = "START" =>
              os_cnt' + 1 + Samples(cfg, phase) = os_cnt + Samples(cfg, phase')
         /\ rx_state = "START" /\ phase = 7 /\ sample_tick => rx_state' = "IDLE"
    BY <1>13, <1>14, Deaf
  <1>16. Taken(p)'
    BY <1>15 DEF Taken
  <1>17. ASSUME rx_state = "START", rx_state' = "START"
         PROVE  Now' < 3 /\ os_cnt' + Samples(cfg, 7) + Now' < Samples(cfg, phase') + 3
    <2>1. phase \in Nat /\ phase' \in Nat /\ phase <= 7
      BY <1>13, <1>15, <1>17
    <2>2. /\ Samples(cfg, phase) \in Nat /\ Samples(cfg, phase') \in Nat /\ Samples(cfg, 7) \in Nat
      BY <1>1, <2>1, SampleTimes, Eighths
    <2>3. os_cnt + Samples(cfg, 7) + Now < Samples(cfg, phase) + 3 /\ Now < 3 /\ Now \in Nat
      BY <1>3, <1>5, <1>7, <1>13, <1>17 DEF FalseStart
    <2>4. os_cnt' + 1 + Samples(cfg, phase) = os_cnt + Samples(cfg, phase')
      BY <1>15, <1>17
    <2>5. os_cnt' + Samples(cfg, 7) + Now' < Samples(cfg, phase') + 3
      BY <1>1, <1>9, <2>2, <2>3, <2>4
    <2>6. phase < 7 => Samples(cfg, phase) + SampleTime(cfg) <= Samples(cfg, 7)
      <3> SUFFICES ASSUME phase < 7 PROVE Samples(cfg, phase) + SampleTime(cfg) <= Samples(cfg, 7)
        OBVIOUS
      <3>1. phase + 1 \in Nat /\ phase + 1 <= 7
        BY <2>1
      <3>2. Samples(cfg, phase + 1) <= Samples(cfg, 7)
        BY <1>1, <3>1, SampleTimes
      <3>3. Samples(cfg, phase + 1) = Samples(cfg, phase) + SampleTime(cfg)
        BY <1>1, <2>1, SampleTimes
      <3> QED BY <3>2, <3>3
    <2>7. Now # 2
      <3> SUFFICES ASSUME Now = 2 PROVE FALSE
        OBVIOUS
      <3>1. os_cnt + Samples(cfg, 7) <= Samples(cfg, phase)
        BY <1>1, <2>2, <2>3
      <3>2. phase = 7
        BY <1>1, <2>1, <2>2, <2>6, <3>1
      <3>3. sample_tick
        BY <1>1, <2>2, <3>1, <3>2
      <3> QED BY <1>15, <1>17, <3>2, <3>3
    <2> QED BY <1>9, <2>3, <2>5, <2>7
  <1>18. ASSUME rx_state = "IDLE", rx_state' = "START"
         PROVE  Now' >= 3 /\ Lag' = Into - 3 /\ Into - 3 \in Nat /\ InTime(Into - 3)
    <2>1. sample_tick /\ Into >= 3 /\ phase' = 0 /\ os_cnt = 0 /\ os_cnt' = SampleTime(cfg) - 1
      BY <1>1, <1>3, <1>12, <1>15, <1>18
    <2>2. InTime(Into - 3)
      <3>1. Into - 3 + os_cnt = Into - 3
        BY <1>3, <2>1
      <3> QED BY <1>5, <1>18, <2>1, <3>1
    <2>3. RxPos' = SampleTime(cfg)
      <3>1. RxBit' = 0 /\ RxPhase' = 0 + 1
        BY <1>18, <2>1 DEF RxBit, RxPhase
      <3>2. BitStart(cfg, 0) = 0 /\ Drift(cfg, 0) = 0 /\ Samples(cfg, 0) = 0
            /\ Samples(cfg, 0 + 1) = Samples(cfg, 0) + SampleTime(cfg)
        BY <1>1, Bits, Drifts, Eighths, SampleTimes
      <3> QED BY <1>1, <3>1, <3>2 DEF RxPos
    <2>4. Lag' = Into - 3
      BY <1>1, <1>3, <1>7, <1>9, <2>1, <2>3 DEF Lag
    <2> QED BY <1>3, <1>7, <1>9, <2>1, <2>2, <2>4
  <1>19. FalseStart'
    <2> SUFFICES ASSUME Spurious' PROVE os_cnt' + Samples(cfg, 7) + Now' < Samples(cfg, phase') + 3
      BY <1>1, <1>9, <1>10 DEF FalseStart, InFrame
    <2>1. rx_state' = "START" /\ Now' < 3
      BY <1>10 DEF Spurious
    <2>2. rx_state = "START"
      BY <1>3, <1>7, <1>9, <1>13, <1>18, <2>1
    <2> QED BY <1>17, <2>1, <2>2
  <1>20. Receiving'
    <2>1. Locked' => Lag' \in Nat /\ InTime(Lag')
      BY <1>10, <1>13, <1>15, <1>17, <1>18 DEF Locked, Spurious
    <2>2. ASSUME rx_state' = "IDLE", Into' >= 3 PROVE InTime(Into' - 3 + os_cnt')
      <3>1. CASE Into >= 3
        <4>1. rx_state = "IDLE" /\ ~sample_tick
          BY <1>3, <1>5, <1>7, <1>12, <1>13, <1>15, <2>2, <3>1
        <4>2. Into' - 3 + os_cnt' = Into - 3 + os_cnt
          BY <1>1, <1>3, <1>9, <4>1
        <4> QED BY <1>5, <3>1, <4>1, <4>2
      <3>2. CASE Into < 3
        <4>1. Into' - 3 + os_cnt' = os_cnt'
          BY <1>1, <1>3, <1>9, <2>2, <3>2
        <4> QED BY <1>1, <4>1
      <3> QED BY <1>3, <3>1, <3>2
    <2> QED BY <1>1, <1>9, <1>10, <1>15, <2>1, <2>2 DEF Receiving
  <1> QED BY <1>6, <1>10, <1>11, <1>15, <1>16, <1>19, <1>20 DEF Carried

(* The receiver in a frame.                                                *)

\* The first sample of a bit comes right after the last of the bit before.
LEMMA NextSample ==
  ASSUME NEW c \in Configs, NEW b \in Nat
  PROVE  BitStart(c, b + 1) + Drift(c, b + 1) + Samples(c, 9)
           = BitStart(c, b) + Drift(c, b) + Samples(c, 24) + SampleTime(c)
  <1>1. /\ BitStart(c, b) \in Nat /\ BitStart(c, b + 1) = BitStart(c, b) + Clocks(c)
        /\ Drift(c, b) \in Nat /\ Drift(c, b + 1) = Drift(c, b) + Late(c)
    BY Bits, Drifts
  <1>2. /\ Samples(c, 8) \in Nat /\ Samples(c, 16) \in Nat
        /\ Samples(c, 24) = Samples(c, 16) + Samples(c, 8) /\ Samples(c, 16) = Clocks(c) + Late(c)
    BY Eighths
  <1>3. Samples(c, 8 + 1) = Samples(c, 8) + SampleTime(c) /\ 8 + 1 = 9
    BY SampleTimes
  <1>4. Clocks(c) \in Nat /\ Late(c) \in Nat /\ SampleTime(c) \in Nat
    BY Config
  <1> QED BY <1>1, <1>2, <1>3, <1>4

\* The samples that count fall on the bit they are meant for.
LEMMA OnTheBit ==
  ASSUME NEW c \in Configs, NEW x \in Nat, InTime(x), NEW b \in 0 .. StopAt(c) - 1,
         NEW n \in {16, 17, 24}
  PROVE  \E z \in 0 .. c.div :
           BitStart(c, b) + Drift(c, b) + Samples(c, n) + x = BitStart(c, b + 1) + z
  <1>1. /\ c.div \in Nat /\ Clocks(c) = c.div + 1 /\ StopAt(c) \in Nat /\ StopAt(c) + 1 \in Nat
        /\ Late(c) \in Nat /\ b \in Nat /\ b + 1 \in Nat /\ b + 1 <= StopAt(c)
        /\ SampleTime(c) \in Nat
    BY Config
  <1>2. x + Drift(c, StopAt(c) + 1) + 5 <= Samples(c, 8)
    BY InTimeMeans
  <1>3. /\ Drift(c, StopAt(c) + 1) = Drift(c, StopAt(c)) + Late(c)
        /\ Drift(c, b + 1) <= Drift(c, StopAt(c)) /\ Drift(c, StopAt(c)) \in Nat
        /\ Drift(c, b + 1) = Drift(c, b) + Late(c) /\ Drift(c, b) \in Nat
    BY <1>1, Drifts
  <1>4. BitStart(c, b + 1) = BitStart(c, b) + Clocks(c) /\ BitStart(c, b) \in Nat
    BY <1>1, Bits
  <1>5. /\ Samples(c, 8) \in Nat /\ Samples(c, 16) \in Nat
        /\ Samples(c, 16) = Clocks(c) + Late(c)
        /\ Samples(c, 16) = Samples(c, 8) + Samples(c, 8)
        /\ Samples(c, 17) = Samples(c, 16) + SampleTime(c)
        /\ Samples(c, 24) = Samples(c, 16) + Samples(c, 8)
        /\ SampleTime(c) <= Samples(c, 8)
    BY Eighths
  <1> DEFINE z == Samples(c, n) - Samples(c, 16) + Drift(c, b + 1) + x
  <1>6. Samples(c, n) \in Nat /\ Samples(c, n) >= Samples(c, 16) /\ Samples(c, n) <= Samples(c, 16) + Samples(c, 8)
    <2>1. CASE n = 16
      BY <1>5, <2>1
    <2>2. CASE n = 17
      BY <1>1, <1>5, <2>2
    <2>3. CASE n = 24
      BY <1>5, <2>3
    <2> QED BY <2>1, <2>2, <2>3
  <1>7. z \in 0 .. c.div
    BY <1>1, <1>2, <1>3, <1>5, <1>6
  <1>8. BitStart(c, b) + Drift(c, b) + Samples(c, n) + x = BitStart(c, b + 1) + z
    BY <1>1, <1>3, <1>4, <1>5, <1>6
  <1> QED BY <1>7, <1>8

LEMMA OnTheStart ==
  ASSUME NEW c \in Configs, NEW x \in Nat, InTime(x)
  PROVE  Samples(c, 8) + x \in 0 .. c.div
  <1>1. /\ c.div \in Nat /\ Clocks(c) = c.div + 1 /\ StopAt(c) \in Nat /\ StopAt(c) + 1 \in Nat
        /\ Late(c) \in Nat
    BY Config
  <1>2. x + Drift(c, StopAt(c) + 1) + 5 <= Samples(c, 8)
    BY InTimeMeans
  <1>3. /\ Drift(c, StopAt(c) + 1) = Drift(c, StopAt(c)) + Late(c) /\ Drift(c, StopAt(c)) \in Nat
    BY <1>1, Drifts
  <1>4. /\ Samples(c, 8) \in Nat /\ Samples(c, 8) + Samples(c, 8) = Clocks(c) + Late(c)
    BY Eighths
  <1> QED BY <1>1, <1>2, <1>3, <1>4

\* A receiver that follows the frame of the byte p.
Tuned(p) == Owed /\ LinkTypes /\ Sending /\ Receiving /\ Locked /\ OnLine(p) /\ Taken(p)

\* It goes on following it: no sample comes early or late, what it took is right.
Follows(p) ==
  /\ rx_state' # "IDLE" /\ ~frame_done
  /\ RxPos' = RxPos + (IF sample_tick THEN SampleTime(cfg) ELSE 0)
  /\ Taken(p)'
  /\ parity_err' = FALSE /\ framing_err' = FALSE
  /\ rx_state' = "START" => phase' <= 7
  /\ rx_state' \in {"DATA", "PARITY", "STOP"} =>
       rx_frame' = [m1 |-> LastBit, parity |-> cfg.parity]
  /\ rx_state' = "DATA" => rx_bit_cnt' < Width(cfg)
  /\ rx_state' = "PARITY" => Pars(cfg) = 1

LEMMA InTheFrame ==
  ASSUME Tolerance, NEW p \in Byte, Tuned(p)
  PROVE  /\ cfg \in Configs /\ OnFrame /\ RxBit \in 0 .. StopAt(cfg) - 1 /\ RxPhase \in 0 .. 24
         /\ RxPos \in Nat /\ Lag \in Nat /\ InTime(Lag) /\ os_cnt \in Nat /\ Now \in Nat
         /\ Now + os_cnt = RxPos + Lag + 3
         /\ rx_state \in {"START", "DATA", "PARITY", "STOP"} /\ phase \in 0 .. 15
         /\ rx_state = "START" => phase <= 7
  <1>1. /\ cfg \in Configs /\ Width(cfg) \in 1 .. 8 /\ Pars(cfg) \in {0, 1}
        /\ StopAt(cfg) = Width(cfg) + Pars(cfg) + 1
    BY Config DEF Tuned, Owed
  <1>2. /\ OnFrame /\ Lag \in Nat /\ InTime(Lag) /\ os_cnt \in Nat /\ phase \in 0 .. 15
        /\ rx_state \in {"START", "DATA", "PARITY", "STOP"} /\ (rx_state = "START" => phase <= 7)
    BY DEF Tuned, Locked, Unread, OnFrame, Receiving, LinkTypes, RxStates
  <1>3. RxBit \in 0 .. StopAt(cfg) - 1
    <2>1. CASE rx_state = "START"
      BY <1>1, <2>1 DEF RxBit
    <2>2. CASE rx_state = "DATA"
      <3>1. RxBit = rx_bit_cnt /\ rx_bit_cnt \in 0 .. 7 /\ rx_bit_cnt < Width(cfg)
        BY <2>2 DEF RxBit, Tuned, LinkTypes, Receiving
      <3> QED BY <1>1, <3>1
    <2>3. CASE rx_state = "PARITY"
      <3>1. RxBit = Width(cfg) /\ Pars(cfg) = 1
        BY <2>3 DEF RxBit, Tuned, Receiving
      <3> QED BY <1>1, <3>1
    <2>4. CASE rx_state = "STOP"
      <3>1. RxBit = Width(cfg) + Pars(cfg)
        BY <2>4 DEF RxBit
      <3> QED BY <1>1, <3>1
    <2> QED BY <1>2, <2>1, <2>2, <2>3, <2>4
  <1>4. RxPhase \in 0 .. 24
    BY <1>2 DEF RxPhase
  <1>5. RxPos \in Nat
    <2>1. RxBit \in Nat /\ RxPhase \in Nat
      BY <1>1, <1>3, <1>4
    <2>2. BitStart(cfg, RxBit) \in Nat /\ Drift(cfg, RxBit) \in Nat /\ Samples(cfg, RxPhase) \in Nat
      BY <1>1, <2>1, Bits, Drifts, SampleTimes
    <2> QED BY <2>2 DEF RxPos
  <1>6. Now \in Nat
    <2>1. LineBit \in Nat /\ Into \in Nat
      BY <1>1, Where DEF Tuned
    <2>2. BitStart(cfg, LineBit) \in Nat
      BY <1>1, <2>1, Bits
    <2> QED BY <2>1, <2>2 DEF Now
  <1>7. Now + os_cnt = RxPos + Lag + 3
    BY <1>2, <1>5, <1>6 DEF Lag
  <1> QED BY <1>1, <1>2, <1>3, <1>4, <1>5, <1>6, <1>7

LEMMA Sampled ==
  ASSUME Tolerance, NEW p \in Byte, Tuned(p), sample_tick,
         rx_state \in {"DATA", "PARITY", "STOP"}, phase \in {7, 8, 15}
  PROVE  rx_sync = Level(cfg, p, RxBit + 1)
  <1>1. /\ cfg \in Configs /\ OnFrame /\ RxBit \in 0 .. StopAt(cfg) - 1 /\ Lag \in Nat /\ InTime(Lag)
        /\ Now \in Nat /\ RxPos \in Nat /\ Now = RxPos + Lag + 3
    <2>1. os_cnt = 0
      BY DEF sample_tick
    <2> QED BY <2>1, InTheFrame
  <1>2. RxPhase \in {16, 17, 24}
    BY DEF RxPhase
  <1>3. PICK z \in 0 .. cfg.div :
           BitStart(cfg, RxBit) + Drift(cfg, RxBit) + Samples(cfg, RxPhase) + Lag = BitStart(cfg, RxBit + 1) + z
    BY <1>1, <1>2, OnTheBit
  <1>4. StopAt(cfg) \in Nat /\ RxBit + 1 \in 0 .. StopAt(cfg) /\ cfg.div \in Nat /\ cfg.div >= 3
        /\ RxBit \in Nat /\ RxBit + 1 \in Nat
    BY <1>1, Config, LongBit
  <1>5. Now = BitStart(cfg, RxBit + 1) + z + 3
    <2>1. RxPos + Lag = BitStart(cfg, RxBit + 1) + z
      BY <1>3 DEF RxPos
    <2> QED BY <1>1, <2>1
  <1> QED BY <1>1, <1>4, <1>5, SeenBit DEF Tuned

\* Where the next edge finds the receiver: a sample of this bit or of the next.
LEMMA NextPos ==
  ASSUME NEW c \in Configs, cfg = c, cfg' = c, NEW b \in Nat, RxBit = b, NEW n \in Nat, RxPhase = n
  PROVE  /\ RxBit' = b /\ RxPhase' = n + 1 => RxPos' = RxPos + SampleTime(c)
         /\ RxBit' = b /\ RxPhase' = n => RxPos' = RxPos
         /\ n = 24 /\ RxBit' = b + 1 /\ RxPhase' = 9 => RxPos' = RxPos + SampleTime(c)
  <1>1. /\ BitStart(c, b) \in Nat /\ Drift(c, b) \in Nat /\ Samples(c, n) \in Nat
        /\ Samples(c, n + 1) = Samples(c, n) + SampleTime(c) /\ SampleTime(c) \in Nat
    <2>1. BitStart(c, b) \in Nat /\ Drift(c, b) \in Nat
      BY Bits, Drifts
    <2>2. Samples(c, n) \in Nat /\ Samples(c, n + 1) = Samples(c, n) + SampleTime(c)
      BY SampleTimes
    <2>3. SampleTime(c) \in Nat
      BY Config
    <2> QED BY <2>1, <2>2, <2>3
  <1>2. RxPos = BitStart(c, b) + Drift(c, b) + Samples(c, n)
    BY DEF RxPos
  <1>3. RxPos' = BitStart(c, RxBit') + Drift(c, RxBit') + Samples(c, RxPhase')
    BY DEF RxPos
  <1>4. ASSUME RxBit' = b, RxPhase' = n + 1 PROVE RxPos' = RxPos + SampleTime(c)
    BY <1>1, <1>2, <1>3, <1>4
  <1>5. ASSUME RxBit' = b, RxPhase' = n PROVE RxPos' = RxPos
    BY <1>2, <1>3, <1>5
  <1>6. ASSUME n = 24, RxBit' = b + 1, RxPhase' = 9 PROVE RxPos' = RxPos + SampleTime(c)
    <2>1. RxPos' = BitStart(c, b) + Drift(c, b) + Samples(c, 24) + SampleTime(c)
      BY <1>3, <1>6, NextSample
    <2> QED BY <1>2, <1>6, <2>1
  <1> QED BY <1>4, <1>5, <1>6

\* Halfway through it, the line still holds the start bit.
LEMMA FollowsStart ==
  ASSUME Tolerance, NEW p \in Byte, Tuned(p), NEW pop \in BOOLEAN, ClockEdge(pop), Start
  PROVE  Follows(p)
  <1>1. /\ cfg \in Configs /\ cfg' = cfg /\ OnFrame /\ Lag \in Nat /\ InTime(Lag) /\ Now \in Nat /\ RxPos \in Nat
        /\ Now + os_cnt = RxPos + Lag + 3 /\ os_cnt = 0 /\ phase \in 0 .. 7 /\ rx_state = "START" /\ sample_tick
    BY InTheFrame DEF Start, In, sample_tick, ClockEdge
  <1>2. RxBit = 0 /\ RxPhase = phase + 1 /\ ~frame_done
    BY <1>1 DEF RxBit, RxPhase, frame_done, In
  <1>3. parity_err = FALSE /\ framing_err = FALSE /\ rx_shift \in Byte
    BY DEF Tuned, LinkTypes
  <1>4. CASE phase # 7
    <2>1. rx_state' = "START" /\ phase' = phase + 1 /\ phase' \in 0 .. 7 /\ UNCHANGED rxData
      BY <1>1, <1>4 DEF Start, NextPhase
    <2>2. RxBit' = 0 /\ RxPhase' = phase + 1 + 1
      BY <2>1 DEF RxBit, RxPhase
    <2>3. RxPos' = RxPos + SampleTime(cfg)
      <3>1. 0 \in Nat /\ phase + 1 \in Nat
        BY <1>1
      <3> QED BY <1>1, <1>2, <2>2, <3>1, NextPos
    <2> QED BY <1>1, <1>2, <1>3, <2>1, <2>3 DEF Follows, Taken, rxData
  <1>5. CASE phase = 7
    <2>1. rx_sync = 0
      <3>1. RxPos = Samples(cfg, 8) /\ Samples(cfg, 8) \in Nat
        <4>1. BitStart(cfg, 0) = 0 /\ Drift(cfg, 0) = 0 /\ Samples(cfg, 8) \in Nat
          BY <1>1, Bits, Drifts, Eighths
        <4>2. RxPhase = 8
          BY <1>2, <1>5
        <4> QED BY <1>2, <4>1, <4>2 DEF RxPos
      <3>2. Samples(cfg, 8) + Lag \in 0 .. cfg.div
        BY <1>1, OnTheStart
      <3>3. Now = BitStart(cfg, 0) + (Samples(cfg, 8) + Lag) + 3
        <4>1. BitStart(cfg, 0) = 0
          BY <1>1, Bits
        <4> QED BY <1>1, <3>1, <4>1
      <3>4. 0 \in 0 .. StopAt(cfg) /\ cfg.div >= 3
        BY <1>1, Config, LongBit
      <3>5. rx_sync = Level(cfg, p, 0)
        BY <1>1, <3>2, <3>3, <3>4, SeenBit DEF Tuned
      <3> QED BY <1>1, <3>5, Levels
    <2>2. /\ rx_state' = "DATA" /\ phase' = 0 /\ rx_bit_cnt' = 0 /\ rx_parity_acc' = 0
          /\ rx_frame' = [m1 |-> LastBit, parity |-> cfg.parity]
          /\ UNCHANGED <<rx_shift, framing_err, parity_err>>
      BY <1>5, <2>1 DEF Start
    <2>3. RxBit' = 0 /\ RxPhase' = 9
      BY <2>2 DEF RxBit, RxPhase
    <2>4. RxPos' = RxPos + SampleTime(cfg)
      <3>1. 0 \in Nat /\ 8 \in Nat /\ RxPhase = 8 /\ RxPhase' = 8 + 1
        BY <1>2, <1>5, <2>3
      <3> QED BY <1>1, <1>2, <2>3, <3>1, NextPos
    <2>5. Taken(p)'
      <3>1. rx_shift' \div (2 ^ (8 - 0)) = p % (2 ^ 0) /\ Acc(p, 0) = 0
        <4>1. rx_shift \div (2 ^ 8) = 0 /\ p % (2 ^ 0) = 0 /\ 8 - 0 = 8
          BY <1>3, Whole
        <4> QED BY <2>2, <4>1, Accumulated
      <3> QED BY <1>1, <2>2, <3>1 DEF Taken
    <2>6. 0 < Width(cfg)
      BY <1>1, Config
    <2> QED BY <1>1, <1>2, <1>3, <2>2, <2>4, <2>5, <2>6 DEF Follows
  <1> QED BY <1>4, <1>5

\* The second and third votes are cast on the data bit; the first may come early.
LEMMA FollowsSample ==
  ASSUME Tolerance, NEW p \in Byte, Tuned(p), NEW pop \in BOOLEAN, ClockEdge(pop), Sample
  PROVE  Follows(p)
  <1>1. /\ cfg \in Configs /\ cfg' = cfg /\ phase \in 0 .. 15 /\ phase # 15 /\ rx_state = "DATA" /\ sample_tick
        /\ phase' = phase + 1 /\ RxBit \in Nat
    <2>1. RxBit \in 0 .. StopAt(cfg) - 1 /\ phase \in 0 .. 15 /\ cfg \in Configs
      BY InTheFrame
    <2> QED BY <2>1 DEF Sample, In, NextPhase, ClockEdge
  <1>2. /\ rx_state' = "DATA"
        /\ UNCHANGED <<rx_shift, rx_bit_cnt, rx_parity_acc, rx_frame, framing_err, parity_err>>
        /\ vote_buf' = IF phase \in 6 .. 8 THEN [vote_buf EXCEPT ![phase - 5] = rx_sync] ELSE vote_buf
    BY <1>1 DEF Sample
  <1>3. RxBit = rx_bit_cnt /\ RxBit' = RxBit /\ RxPhase = phase + 9 /\ RxPhase' = phase + 9 + 1 /\ ~frame_done
    BY <1>1, <1>2 DEF RxBit, RxPhase, frame_done, In
  <1>4. RxPos' = RxPos + SampleTime(cfg)
    <2>1. phase + 9 \in Nat
      BY <1>1
    <2> QED BY <1>1, <1>3, <2>1, NextPos
  <1>5. phase \in {7, 8} => rx_sync = Level(cfg, p, rx_bit_cnt + 1)
    BY <1>1, <1>3, Sampled
  <1>6. /\ phase >= 8 => vote_buf[2] = Level(cfg, p, rx_bit_cnt + 1)
        /\ phase >= 9 => vote_buf[3] = Level(cfg, p, rx_bit_cnt + 1)
    BY <1>1 DEF Tuned, Taken
  <1>7. vote_buf \in Three
    BY DEF Tuned, LinkTypes
  <1>8. /\ phase' >= 8 => vote_buf'[2] = Level(cfg, p, rx_bit_cnt + 1)
        /\ phase' >= 9 => vote_buf'[3] = Level(cfg, p, rx_bit_cnt + 1)
    <2>1. CASE phase < 7
      BY <1>1, <2>1
    <2>2. CASE phase = 7
      BY <1>1, <1>2, <1>5, <1>7, <2>2 DEF Three
    <2>3. CASE phase = 8
      BY <1>1, <1>2, <1>5, <1>6, <1>7, <2>3 DEF Three
    <2>4. CASE phase > 8
      BY <1>1, <1>2, <1>6, <2>4
    <2> QED BY <1>1, <2>1, <2>2, <2>3, <2>4
  <1>9. Taken(p)'
    BY <1>1, <1>2, <1>8 DEF Taken, Tuned
  <1> QED BY <1>1, <1>2, <1>3, <1>4, <1>9 DEF Follows, Tuned, LinkTypes, Receiving

\* The vote is the bit sent.
LEMMA FollowsVote ==
  ASSUME Tolerance, NEW p \in Byte, p < 2 ^ Width(cfg), Tuned(p), NEW pop \in BOOLEAN, ClockEdge(pop), Vote
  PROVE  Follows(p)
  <1>1. /\ cfg \in Configs /\ cfg' = cfg /\ phase = 15 /\ rx_state = "DATA" /\ sample_tick
    <2>1. cfg \in Configs
      BY InTheFrame
    <2> QED BY <2>1 DEF Vote, In, ClockEdge
  <1>2. /\ Width(cfg) \in 1 .. 8 /\ Pars(cfg) \in {0, 1} /\ LastBit = Width(cfg) - 1
        /\ (cfg.parity # "none" <=> Pars(cfg) = 1)
    BY <1>1, Config, Ports DEF Pars
  <1> DEFINE n == rx_bit_cnt
             m == Majority(vote_buf)
  <1>3. n \in 0 .. 7 /\ n \in 0 .. Width(cfg) - 1 /\ rx_shift \in Byte /\ vote_buf \in Three
    BY <1>1, <1>2 DEF Tuned, LinkTypes, Receiving
  <1>4. /\ rx_shift \div (2 ^ (8 - n)) = p % (2 ^ n)
        /\ rx_parity_acc = Acc(p, n)
        /\ vote_buf[2] = Level(cfg, p, n + 1) /\ vote_buf[3] = Level(cfg, p, n + 1)
    BY <1>1 DEF Tuned, Taken
  <1>5. m = BitOf(p, n)
    <2>1. Level(cfg, p, n + 1) = BitOf(p, n)
      BY <1>1, <1>3, Levels
    <2>2. BitOf(p, n) \in Bit
      BY <1>3, NextBit
    <2> QED BY <1>3, <1>4, <2>1, <2>2, TwoOfThree
  <1>6. /\ phase' = 0 /\ rx_shift' = 128 * m + rx_shift \div 2
        /\ rx_parity_acc' = (rx_parity_acc + m) % 2
        /\ UNCHANGED <<rx_frame, vote_buf, framing_err, parity_err>>
    BY DEF Vote
  <1> HIDE DEF m
  <1>7. /\ rx_shift' \div (2 ^ (8 - (n + 1))) = p % (2 ^ (n + 1))
        /\ rx_parity_acc' = Acc(p, n + 1)
    BY <1>3, <1>4, <1>5, <1>6, ShiftIn, Accumulated
  <1>8. /\ rx_frame.m1 = LastBit /\ rx_frame.parity = cfg.parity
        /\ rx_frame = [m1 |-> LastBit, parity |-> cfg.parity]
        /\ framing_err = FALSE /\ parity_err = FALSE
    BY <1>1 DEF Tuned, Receiving, LinkTypes
  <1>9. RxBit = n /\ RxPhase = 24 /\ ~frame_done
    BY <1>1 DEF RxBit, RxPhase, frame_done, In
  <1>10. ASSUME RxBit' = n + 1, rx_state' # "START", rx_state' # "IDLE" PROVE RxPos' = RxPos + SampleTime(cfg)
    <2>1. RxPhase' = 9
      BY <1>6, <1>10 DEF RxPhase
    <2>2. n \in Nat /\ 24 \in Nat
      BY <1>3
    <2> QED BY <1>1, <1>9, <1>10, <2>1, <2>2, NextPos
  <1>11. CASE n = LastBit
    <2>1. rx_state' = IF Pars(cfg) = 1 THEN "PARITY" ELSE "STOP"
      BY <1>2, <1>8, <1>11 DEF Vote
    <2>2. n + 1 = Width(cfg)
      BY <1>2, <1>3, <1>11
    <2>3. RxBit' = n + 1
      <3>1. CASE Pars(cfg) = 1
        BY <1>1, <2>1, <2>2, <3>1 DEF RxBit
      <3>2. CASE Pars(cfg) = 0
        BY <1>1, <1>2, <2>1, <2>2, <3>2 DEF RxBit
      <3> QED BY <1>2, <3>1, <3>2
    <2>4. Taken(p)'
      <3>1. p % (2 ^ Width(cfg)) = p
        BY <1>2, Whole
      <3>2. rx_shift' \div (2 ^ (8 - Width(cfg))) = p /\ rx_parity_acc' = Acc(p, Width(cfg))
        BY <1>7, <2>2, <3>1
      <3> QED BY <1>1, <1>6, <2>1, <3>2 DEF Taken
    <2> QED BY <1>1, <1>6, <1>8, <1>9, <1>10, <2>1, <2>3, <2>4 DEF Follows
  <1>12. CASE n # LastBit
    <2>1. rx_state' = "DATA" /\ rx_bit_cnt' = n + 1
      BY <1>1, <1>8, <1>12 DEF Vote
    <2>2. RxBit' = n + 1 /\ n + 1 < Width(cfg)
      BY <1>2, <1>3, <1>12, <2>1 DEF RxBit
    <2>3. Taken(p)'
      BY <1>1, <1>6, <1>7, <2>1 DEF Taken
    <2> QED BY <1>1, <1>6, <1>8, <1>9, <1>10, <2>1, <2>2, <2>3 DEF Follows
  <1> QED BY <1>11, <1>12

LEMMA FollowsParity ==
  ASSUME Tolerance, NEW p \in Byte, Tuned(p), NEW pop \in BOOLEAN, ClockEdge(pop), CheckParity
  PROVE  Follows(p)
  <1>1. /\ cfg \in Configs /\ cfg' = cfg /\ phase \in 0 .. 15 /\ rx_state = "PARITY" /\ sample_tick
    <2>1. cfg \in Configs /\ phase \in 0 .. 15
      BY InTheFrame
    <2> QED BY <2>1 DEF CheckParity, In, ClockEdge
  <1>2. Width(cfg) \in 1 .. 8 /\ Pars(cfg) = 1
    BY <1>1, Config DEF Tuned, Receiving
  <1>3. /\ rx_shift \div (2 ^ (8 - Width(cfg))) = p
        /\ rx_parity_acc = Acc(p, Width(cfg))
        /\ phase >= 8 => vote_buf[2] = Level(cfg, p, Width(cfg) + 1)
    BY <1>1 DEF Tuned, Taken
  <1>4. /\ rx_frame.parity = cfg.parity /\ rx_frame = [m1 |-> LastBit, parity |-> cfg.parity]
        /\ framing_err = FALSE /\ parity_err = FALSE /\ vote_buf \in Three
    BY <1>1 DEF Tuned, Receiving, LinkTypes
  <1>5. UNCHANGED <<rx_shift, rx_bit_cnt, rx_parity_acc, rx_frame, framing_err>>
    BY DEF CheckParity
  <1>6. RxBit = Width(cfg) /\ RxPhase = phase + 9 /\ ~frame_done
    BY <1>1 DEF RxBit, RxPhase, frame_done, In
  <1>7. Width(cfg) \in Nat /\ phase + 9 \in Nat
    BY <1>1, <1>2
  <1>8. CASE phase # 15
    <2>1. /\ phase' = phase + 1 /\ rx_state' = "PARITY" /\ parity_err' = parity_err
          /\ vote_buf' = IF phase = 7 THEN [vote_buf EXCEPT ![2] = rx_sync] ELSE vote_buf
      BY <1>1, <1>8 DEF CheckParity, NextPhase
    <2>2. RxBit' = Width(cfg) /\ RxPhase' = phase + 9 + 1
      BY <1>1, <2>1 DEF RxBit, RxPhase
    <2>3. RxPos' = RxPos + SampleTime(cfg)
      BY <1>1, <1>6, <1>7, <2>2, NextPos
    <2>4. phase' >= 8 => vote_buf'[2] = Level(cfg, p, Width(cfg) + 1)
      <3>1. CASE phase = 7
        <4>1. rx_sync = Level(cfg, p, Width(cfg) + 1)
          BY <1>1, <1>6, <3>1, Sampled
        <4> QED BY <1>4, <2>1, <3>1, <4>1 DEF Three
      <3>2. CASE phase # 7
        BY <1>1, <1>3, <2>1, <3>2
      <3> QED BY <3>1, <3>2
    <2>5. Taken(p)'
      BY <1>1, <1>3, <1>5, <2>1, <2>4 DEF Taken
    <2> QED BY <1>1, <1>2, <1>4, <1>5, <1>6, <2>1, <2>3, <2>5 DEF Follows
  <1>9. CASE phase = 15
    <2>1. /\ phase' = 0 /\ rx_state' = "STOP"
          /\ parity_err' = (vote_buf[2] # ParityBit(rx_frame.parity, rx_parity_acc))
      BY <1>9 DEF CheckParity
    <2>2. parity_err' = FALSE
      <3>1. Level(cfg, p, Width(cfg) + 1) = ParityBit(cfg.parity, Acc(p, Width(cfg)))
        BY <1>1, <1>2, Levels
      <3>2. vote_buf[2] = ParityBit(rx_frame.parity, rx_parity_acc)
        BY <1>3, <1>4, <1>9, <3>1
      <3> QED BY <2>1, <3>2
    <2>3. RxBit' = Width(cfg) + 1 /\ RxPhase' = 9
      BY <1>1, <1>2, <2>1 DEF RxBit, RxPhase
    <2>4. RxPos' = RxPos + SampleTime(cfg)
      <3>1. RxPhase = 24 /\ 24 \in Nat
        BY <1>6, <1>9
      <3> QED BY <1>1, <1>6, <1>7, <2>3, <3>1, NextPos
    <2>5. Taken(p)'
      BY <1>1, <1>3, <1>5, <2>1 DEF Taken
    <2> QED BY <1>1, <1>4, <1>5, <1>6, <2>1, <2>2, <2>4, <2>5 DEF Follows
  <1> QED BY <1>8, <1>9

LEMMA FollowsOn ==
  ASSUME Tolerance, NEW p \in Byte, p < 2 ^ Width(cfg), Tuned(p), NEW pop \in BOOLEAN, ClockEdge(pop),
         ~frame_done
  PROVE  Follows(p)
  <1>1. /\ cfg \in Configs /\ cfg' = cfg /\ phase \in 0 .. 15 /\ RxBit \in Nat /\ RxPhase \in Nat
        /\ rx_state \in {"START", "DATA", "PARITY", "STOP"} /\ (rx_state = "START" => phase <= 7)
    <2>1. /\ cfg \in Configs /\ phase \in 0 .. 15 /\ RxBit \in 0 .. StopAt(cfg) - 1 /\ RxPhase \in 0 .. 24
          /\ rx_state \in {"START", "DATA", "PARITY", "STOP"} /\ (rx_state = "START" => phase <= 7)
      BY InTheFrame
    <2> QED BY <2>1 DEF ClockEdge
  <1>2. BetweenSamples \/ Start \/ Sample \/ Vote \/ CheckParity \/ Stop(rx_fifo_full)
    BY <1>1 DEF ClockEdge, RxEdge, Listen, In
  <1>3. CASE BetweenSamples
    <2>1. ~sample_tick /\ UNCHANGED <<rx_state, phase, rxData>>
      BY <1>3 DEF BetweenSamples
    <2>2. RxBit' = RxBit /\ RxPhase' = RxPhase
      BY <1>1, <2>1 DEF RxBit, RxPhase, rxData
    <2>3. RxPos' = RxPos /\ RxPos + 0 = RxPos
      <3>1. RxPos \in Nat
        BY InTheFrame
      <3> QED BY <1>1, <2>2, <3>1, NextPos
    <2>4. Taken(p)'
      BY <1>1, <2>1 DEF Taken, Tuned, rxData
    <2> QED BY <1>1, <2>1, <2>3, <2>4 DEF Follows, rxData, Tuned, LinkTypes, Receiving
  <1>4. CASE Stop(rx_fifo_full)
    <2>1. /\ rx_state = "STOP" /\ sample_tick /\ phase # 15 /\ phase' = phase + 1 /\ rx_state' = "STOP"
          /\ UNCHANGED <<rx_shift, rx_bit_cnt, rx_parity_acc, rx_frame, vote_buf, parity_err, framing_err>>
      BY <1>1, <1>4 DEF Stop, In, NextPhase, frame_done
    <2>2. RxBit' = RxBit /\ RxPhase = phase + 9 /\ RxPhase' = phase + 9 + 1
      BY <1>1, <2>1 DEF RxBit, RxPhase
    <2>3. RxPos' = RxPos + SampleTime(cfg)
      BY <1>1, <2>2, NextPos
    <2>4. Taken(p)'
      BY <1>1, <2>1 DEF Taken, Tuned
    <2> QED BY <1>1, <2>1, <2>3, <2>4 DEF Follows, Tuned, LinkTypes, Receiving
  <1> QED BY <1>2, <1>3, <1>4, FollowsStart, FollowsSample, FollowsVote, FollowsParity

LEMMA TypesEdge ==
  ASSUME Owed, LinkTypes, Sending, Receiving, NEW pop \in BOOLEAN, ClockEdge(pop),
         parity_err' = FALSE, framing_err' = FALSE, outstanding' \in Seq(Byte)
  PROVE  LinkTypes'
  <1>1. /\ cfg \in Configs /\ Width(cfg) \in 1 .. 8 /\ LastBit = Width(cfg) - 1
    BY Config, Ports DEF Owed
  <1>2. shift' \in Byte /\ bit_cnt' \in 0 .. 7 /\ parity_acc' \in Bit /\ tx' \in Bit
    <2>1. shift \in Byte /\ bit_cnt \in 0 .. 7 /\ parity_acc \in Bit /\ tx \in Bit
      BY DEF LinkTypes
    <2>2. tx_fifo_rdata \in Byte
      <3>1. 0 \in Byte
        BY DEF Byte
      <3>2. tx_fifo \in Seq(Byte) /\ tx_fifo # <<>> => Head(tx_fifo) \in Byte
        OBVIOUS
      <3> QED BY <3>1, <3>2 DEF tx_fifo_rdata, tx_fifo_empty, LinkTypes
    <2>3. \/ Idle \/ Latch(tx_fifo_rdata) \/ BetweenTicks
          \/ StartBit \/ DataBit \/ SendParity \/ StopBit
      BY DEF ClockEdge, TxEdge
    <2>4. /\ \A a \in Bit : \A x \in Byte : (a + x) % 2 \in Bit /\ x % 2 \in Bit /\ 128 + x \div 2 \in Byte
          /\ \A par : \A a \in Bit : ParityBit(par, a) \in Bit
      BY DEF Bit, Byte, ParityBit
    <2>5. CASE DataBit
      <3>1. bit_cnt < Width(cfg) /\ frame.m1 = LastBit
        BY <2>5 DEF DataBit, At, Sending
      <3>2. bit_cnt' \in 0 .. 7
        <4>1. bit_cnt' = IF bit_cnt = LastBit THEN 0 ELSE bit_cnt + 1
          BY <2>5, <3>1 DEF DataBit
        <4> QED BY <1>1, <2>1, <3>1, <4>1
      <3> QED BY <2>1, <2>4, <2>5, <3>2 DEF DataBit
    <2>6. CASE ~DataBit
      BY <2>1, <2>2, <2>3, <2>4, <2>6 DEF Idle, Latch, BetweenTicks, StartBit, SendParity, StopBit, Bit
    <2> QED BY <2>5, <2>6
  <1>3. tx_fifo_rd' \in BOOLEAN /\ fetch_pending' \in BOOLEAN
    BY DEF ClockEdge, TxEdge, Fetch, LinkTypes
  <1>4. tx_fifo_wr' \in BOOLEAN /\ tx_fifo_wdata' \in Byte
    <2>1. Bytes \subseteq Byte /\ 0 \in Byte
      BY LinkAssumption DEF Byte
    <2>2. HostWrite
      BY DEF ClockEdge
    <2> QED BY <2>1, <2>2 DEF HostWrite
  <1>5. rx_s' \in Three /\ os_cnt' \in Nat
    <2>1. rx_s' = <<tx, rx_s[1], rx_s[2]>> /\ rx_s \in Three /\ tx \in Bit
      BY DEF ClockEdge, RxEdge, Synchronise, LinkTypes
    <2>2. rx_s' \in Three
      BY <2>1 DEF Three
    <2>3. os_cnt' \in Nat
      <3>1. os_cnt \in Nat /\ os_div \in Nat
        BY <1>1, Config, Ports DEF LinkTypes
      <3> QED BY <3>1 DEF ClockEdge, RxEdge, Oversample, sample_tick
    <2> QED BY <2>2, <2>3
  <1>6. /\ rx_state' \in RxStates /\ phase' \in 0 .. 15 /\ rx_shift' \in Byte /\ rx_bit_cnt' \in 0 .. 7
        /\ rx_parity_acc' \in Bit /\ vote_buf' \in Three
    <2>1. /\ rx_state \in RxStates /\ phase \in 0 .. 15 /\ rx_shift \in Byte /\ rx_bit_cnt \in 0 .. 7
          /\ rx_parity_acc \in Bit /\ vote_buf \in Three /\ rx_sync \in Bit
      BY DEF LinkTypes, rx_sync, Three
    <2>2. \/ BetweenSamples \/ Listen \/ Start \/ Sample \/ Vote \/ CheckParity
          \/ Stop(rx_fifo_full)
      BY DEF ClockEdge, RxEdge
    <2>3. (phase + 1) % 16 \in 0 .. 15
      BY <2>1
    <2>4. CASE BetweenSamples \/ Listen \/ Start \/ Stop(rx_fifo_full)
      <3>1. CASE BetweenSamples
        BY <2>1, <3>1 DEF BetweenSamples, rxData
      <3>2. CASE Listen
        BY <2>1, <3>2 DEF Listen, rxData, RxStates
      <3>3. CASE Start
        BY <2>1, <2>3, <3>3 DEF Start, NextPhase, rxData, RxStates, Bit
      <3>4. CASE Stop(rx_fifo_full)
        BY <2>1, <2>3, <3>4 DEF Stop, NextPhase, RxStates
      <3> QED BY <2>4, <3>1, <3>2, <3>3, <3>4
    <2>5. CASE Sample
      <3>1. [vote_buf EXCEPT ![phase - 5] = rx_sync] \in Three
        BY <2>1 DEF Three
      <3> QED BY <2>1, <2>3, <2>5, <3>1 DEF Sample, NextPhase
    <2>6. CASE CheckParity
      <3>1. [vote_buf EXCEPT ![2] = rx_sync] \in Three
        BY <2>1 DEF Three
      <3> QED BY <2>1, <2>3, <2>6, <3>1 DEF CheckParity, NextPhase, In, RxStates
    <2>7. CASE Vote
      <3>1. Majority(vote_buf) \in Bit
        BY DEF Majority, Bit
      <3>2. /\ \A m \in Bit : \A x \in Byte : 128 * m + x \div 2 \in Byte
            /\ \A m \in Bit : \A a \in Bit : (a + m) % 2 \in Bit
        BY DEF Bit, Byte
      <3>3. rx_bit_cnt' \in 0 .. 7
        <4>1. rx_bit_cnt < Width(cfg) /\ rx_frame.m1 = LastBit
          BY <2>7 DEF Vote, In, Receiving
        <4> QED BY <1>1, <2>1, <2>7, <4>1 DEF Vote
      <3>4. rx_shift' \in Byte /\ rx_parity_acc' \in Bit
        BY <2>1, <2>7, <3>1, <3>2 DEF Vote
      <3> QED BY <2>1, <2>7, <3>3, <3>4 DEF Vote, In, RxStates
    <2> QED BY <2>2, <2>4, <2>5, <2>6, <2>7
  <1>7. rx_fifo_wr' \in BOOLEAN /\ rx_fifo_data' \in Words
    <2>1. Entry \in Words
      BY DEF Entry, Words, LinkTypes, Byte
    <2>2. rx_fifo_data \in Words
      BY DEF LinkTypes
    <2>3. \/ BetweenSamples \/ Listen \/ Start \/ Sample \/ Vote \/ CheckParity
          \/ Stop(rx_fifo_full)
      BY DEF ClockEdge, RxEdge
    <2> QED BY <2>1, <2>2, <2>3 DEF BetweenSamples, Listen, Start, Sample, Vote, CheckParity, Stop, NoPush,
                                     rx_fifo_full
  <1>8. tx_fifo' \in Seq(Byte)
    <2>1. TxFifo!Popped(tx_fifo_rd) \in Seq(Byte)
      BY DEF TxFifo!Popped, LinkTypes
    <2> QED BY <2>1 DEF ClockEdge, TxFifo!Edge, LinkTypes
  <1>9. rx_fifo' \in Seq(Words)
    <2>1. RxFifo!Popped(pop) \in Seq(Words)
      BY DEF RxFifo!Popped, LinkTypes
    <2> QED BY <2>1 DEF ClockEdge, RxFifo!Edge, LinkTypes
  <1> QED BY <1>2, <1>3, <1>4, <1>5, <1>6, <1>7, <1>8, <1>9 DEF LinkTypes

\* The receiver follows the frame until it has it all.
LEMMA Keeps ==
  ASSUME Tolerance, Owed, LinkTypes, LinkTypes', Sending, Receiving, NEW pop \in BOOLEAN, ClockEdge(pop),
         Locked, ~frame_done, NEW p \in Byte, p < 2 ^ Width(cfg), Carried(p), Follows(p)
  PROVE  Unread' /\ Carried(p)' /\ FalseStart' /\ Receiving' /\ ~At("START")
  <1>1. /\ cfg' = cfg /\ cfg \in Configs /\ os_cnt \in Nat /\ os_cnt' \in Nat /\ InTime(os_cnt')
        /\ os_cnt' = IF sample_tick THEN SampleTime(cfg) - 1 ELSE os_cnt - 1
        /\ SampleTime(cfg) \in Nat /\ SampleTime(cfg) >= 1
        /\ sample_tick <=> os_cnt = 0
        /\ os_div = SampleTime(cfg) - 1 /\ os_div' = os_div
    BY SampleEdge DEF Receiving
  <1>2. Tuned(p)
    BY DEF Tuned, Carried
  <1>3. /\ OnFrame /\ RxBit \in 0 .. StopAt(cfg) - 1 /\ RxPhase \in 0 .. 24
        /\ RxPos \in Nat /\ Lag \in Nat /\ InTime(Lag) /\ Now \in Nat
        /\ Now + os_cnt = RxPos + Lag + 3
        /\ rx_state \in {"START", "DATA", "PARITY", "STOP"} /\ phase \in 0 .. 15
    BY <1>2, InTheFrame
  <1>4. /\ Width(cfg) \in 1 .. 8 /\ Pars(cfg) \in {0, 1} /\ StopAt(cfg) = Width(cfg) + Pars(cfg) + 1
        /\ Clocks(cfg) \in Nat /\ StopAt(cfg) \in Nat
        /\ Stops(cfg) = IF cfg.stop2 THEN Clocks(cfg) + Clocks(cfg) ELSE Clocks(cfg)
    BY <1>1, Config
  <1>5. ~At("START")
    BY <1>3, Where DEF OnFrame, InFrame, At
  <1>6. Now' = Now + 1 /\ ToSend(p)' /\ OnLine(p)'
    BY <1>3, <1>5, LineMoves, LineSeen DEF Carried
  <1>7. RxPos' \in Nat /\ Now' + os_cnt' = RxPos' + Lag + 3
    <2>1. RxPos' = RxPos + (IF sample_tick THEN SampleTime(cfg) ELSE 0)
      BY DEF Follows
    <2> QED BY <1>1, <1>3, <1>6, <2>1
  <1>8. Now' >= 3
    <2>1. RxPhase >= 1 /\ RxPhase \in Nat /\ RxBit \in Nat
      BY <1>3, <1>4 DEF RxPhase
    <2>2. /\ Samples(cfg, 1) <= Samples(cfg, RxPhase) /\ Samples(cfg, RxPhase) \in Nat
          /\ Samples(cfg, 0 + 1) = Samples(cfg, 0) + SampleTime(cfg)
      BY <1>1, <2>1, SampleTimes
    <2>3. Samples(cfg, 0) = 0 /\ BitStart(cfg, RxBit) \in Nat /\ Drift(cfg, RxBit) \in Nat
      BY <1>1, <2>1, Eighths, Bits, Drifts
    <2>4. RxPos >= SampleTime(cfg)
      BY <1>1, <2>2, <2>3 DEF RxPos
    <2>5. os_cnt <= SampleTime(cfg) - 1
      BY <1>1, <1>3 DEF Receiving
    <2> QED BY <1>1, <1>3, <1>6, <2>4, <2>5
  <1>9. rx_state' \in {"START", "DATA", "PARITY", "STOP"} /\ phase' \in 0 .. 15
    BY DEF Follows, LinkTypes, RxStates
  <1>10. RxBit' \in 0 .. StopAt(cfg) - 1
    <2>1. CASE rx_state' = "DATA"
      <3>1. RxBit' = rx_bit_cnt' /\ rx_bit_cnt' \in 0 .. 7 /\ rx_bit_cnt' < Width(cfg)
        BY <2>1 DEF RxBit, Follows, LinkTypes
      <3> QED BY <1>4, <3>1
    <2>2. CASE rx_state' = "PARITY"
      <3>1. RxBit' = Width(cfg) /\ Pars(cfg) = 1
        BY <1>1, <2>2 DEF RxBit, Follows
      <3> QED BY <1>4, <3>1
    <2>3. CASE rx_state' = "STOP"
      <3>1. RxBit' = Width(cfg) + Pars(cfg)
        BY <1>1, <2>3 DEF RxBit
      <3> QED BY <1>4, <3>1
    <2>4. CASE rx_state' = "START"
      <3>1. RxBit' = 0
        BY <2>4 DEF RxBit
      <3> QED BY <1>4, <3>1
    <2> QED BY <1>9, <2>1, <2>2, <2>3, <2>4
  <1>11. Now' + os_cnt' + 2 <= BitStart(cfg, StopAt(cfg)) + Clocks(cfg)
    <2>1. RxPhase' \in 0 .. 24
      <3>1. phase' \in 0 .. 15 /\ (rx_state' = "START" => phase' <= 7)
        BY <1>9 DEF Follows
      <3>2. ASSUME rx_state' = "START" PROVE RxPhase' = phase' + 1
        BY <3>2 DEF RxPhase
      <3>3. ASSUME rx_state' # "START" PROVE RxPhase' = phase' + 9
        BY <3>3 DEF RxPhase
      <3>4. \A y \in 0 .. 15 : y + 1 \in 0 .. 24 /\ y + 9 \in 0 .. 24
        OBVIOUS
      <3>5. phase' + 1 \in 0 .. 24 /\ phase' + 9 \in 0 .. 24
        BY <3>1, <3>4
      <3> QED BY <3>2, <3>3, <3>5
    <2>2. BitStart(cfg, RxBit') + Drift(cfg, RxBit') + Samples(cfg, RxPhase') + Lag + 5
            <= BitStart(cfg, StopAt(cfg)) + Clocks(cfg)
      BY <1>1, <1>3, <1>10, <2>1, DoneInTime
    <2>3. RxPos' = BitStart(cfg, RxBit') + Drift(cfg, RxBit') + Samples(cfg, RxPhase')
      BY <1>1 DEF RxPos
    <2>4. BitStart(cfg, StopAt(cfg)) \in Nat
      BY <1>1, <1>4, Bits
    <2> QED BY <1>1, <1>3, <1>4, <1>7, <2>2, <2>3, <2>4
  <1>12. Unread'
    <2> SUFFICES ASSUME ~InFrame' PROVE owed' > 0 /\ rx_state' # "IDLE"
      BY DEF Unread
    <2>1. Owed'
      BY OwedEdge
    <2>2. owed' \in Nat /\ LineBit' = StopAt(cfg)
      <3>1. tx_state' \notin {"DATA", "PARITY", "STOP1"}
        BY DEF InFrame
      <3> QED BY <1>1, <2>1, <3>1 DEF Owed, LineBit
    <2>3. Now' = BitStart(cfg, StopAt(cfg)) + (Stops(cfg) - 1 - owed')
      BY <1>1, <2>2 DEF Now, Into
    <2>4. Stops(cfg) - 1 - owed' + 2 <= Clocks(cfg) /\ Stops(cfg) >= Clocks(cfg) /\ Stops(cfg) \in Nat
      <3>1. BitStart(cfg, StopAt(cfg)) \in Nat
        BY <1>1, <1>4, Bits
      <3>2. Stops(cfg) \in Nat /\ Stops(cfg) >= Clocks(cfg)
        BY <1>4
      <3> QED BY <1>1, <1>4, <1>11, <2>2, <2>3, <3>1, <3>2
    <2> QED BY <1>4, <1>9, <2>2, <2>4
  <1>13. ~Spurious' /\ Locked'
    <2>1. Now' \in Nat
      BY <1>3, <1>6
    <2> QED BY <1>8, <1>9, <1>12, <2>1 DEF Spurious, Locked
  <1>14. Lag' = Lag
    BY <1>1, <1>3, <1>6, <1>7 DEF Lag
  <1>15. os_cnt' <= os_div'
    <2>1. os_cnt <= os_div
      BY <1>3 DEF Receiving
    <2> QED BY <1>1, <2>1
  <1>16. LastBit' = LastBit
    BY <1>1 DEF LastBit
  <1>17. Receiving'
    BY <1>1, <1>3, <1>9, <1>12, <1>13, <1>14, <1>15, <1>16 DEF Receiving, Follows
  <1> QED BY <1>5, <1>6, <1>12, <1>13, <1>17 DEF Carried, FalseStart, Follows

\* When it has it all, in the middle of the stop bit, the entry it makes is the byte
\* and the line is high and stays so.
LEMMA Completes ==
  ASSUME Tolerance, Owed, LinkTypes, Sending, Receiving, NEW pop \in BOOLEAN, ClockEdge(pop),
         Locked, frame_done, NEW p \in Byte, Carried(p)
  PROVE  /\ ~Unread' /\ Line' /\ FalseStart' /\ Receiving' /\ ~At("START")
         /\ Good(cfg, Entry, p) /\ rx_state' = "IDLE"
         /\ parity_err' = FALSE /\ framing_err' = FALSE
  <1>1. /\ cfg' = cfg /\ cfg \in Configs /\ os_cnt' \in Nat /\ InTime(os_cnt')
        /\ rx_s'[1] = tx /\ rx_s'[2] = rx_s[1] /\ rx_s'[3] = rx_s[2]
    BY SampleEdge DEF Receiving
  <1>2. Tuned(p)
    BY DEF Tuned, Carried
  <1>3. sample_tick /\ rx_state = "STOP" /\ phase = 15 /\ Stop(rx_fifo_full)
    BY DEF frame_done, In, ClockEdge, RxEdge, BetweenSamples, Listen, Start, Sample, Vote, CheckParity
  <1>4. /\ OnFrame /\ RxBit \in 0 .. StopAt(cfg) - 1 /\ Lag \in Nat /\ InTime(Lag)
        /\ Now = RxPos + Lag + 3 /\ RxPos \in Nat
    <2>1. os_cnt = 0
      BY <1>3 DEF sample_tick
    <2> QED BY <1>2, <2>1, InTheFrame
  <1>5. /\ Width(cfg) \in 1 .. 8 /\ Pars(cfg) \in {0, 1} /\ StopAt(cfg) = Width(cfg) + Pars(cfg) + 1
        /\ StopAt(cfg) \in Nat /\ cfg.div \in Nat
    BY <1>1, Config
  <1>6. RxBit + 1 = StopAt(cfg) /\ RxPhase = 24
    BY <1>3, <1>5 DEF RxBit, RxPhase
  <1>7. PICK z \in 0 .. cfg.div : Now = BitStart(cfg, StopAt(cfg)) + z + 3
    <2>1. PICK z \in 0 .. cfg.div :
            BitStart(cfg, RxBit) + Drift(cfg, RxBit) + Samples(cfg, 24) + Lag = BitStart(cfg, RxBit + 1) + z
      BY <1>1, <1>4, OnTheBit
    <2>2. RxPos + Lag = BitStart(cfg, StopAt(cfg)) + z
      BY <1>6, <2>1 DEF RxPos
    <2>3. z \in Nat /\ BitStart(cfg, StopAt(cfg)) \in Nat
      BY <1>1, <1>5, Bits
    <2>4. Now = BitStart(cfg, StopAt(cfg)) + z + 3
      BY <1>4, <2>2, <2>3
    <2> QED BY <2>4
  <1>8. LineBit = StopAt(cfg) /\ ~InFrame /\ Into >= 3 /\ Into \in Nat /\ owed > 0
    <2>1. /\ LineBit \in 0 .. StopAt(cfg) /\ Into \in Nat /\ LineBit \in Nat
          /\ InFrame => Into <= cfg.div /\ LineBit < StopAt(cfg)
          /\ ~InFrame => LineBit = StopAt(cfg)
      BY <1>5, Where
    <2>2. BitStart(cfg, LineBit) + Into = BitStart(cfg, StopAt(cfg)) + (z + 3) /\ z + 3 \in Nat
      <3>1. BitStart(cfg, StopAt(cfg)) \in Nat
        BY <1>1, <1>5, Bits
      <3> QED BY <1>7, <3>1 DEF Now
    <2>3. ~InFrame
      <3> SUFFICES ASSUME InFrame PROVE FALSE
        OBVIOUS
      <3>1. StopAt(cfg) <= LineBit
        BY <1>1, <1>5, <2>1, <2>2, SameBit
      <3> QED BY <1>5, <2>1, <3>1
    <2>4. Into = z + 3
      <3>1. BitStart(cfg, StopAt(cfg)) \in Nat
        BY <1>1, <1>5, Bits
      <3> QED BY <2>1, <2>2, <2>3, <3>1
    <2> QED BY <1>4, <1>5, <2>1, <2>3, <2>4 DEF OnFrame
  <1>9. ~At("START")
    BY <1>8, Where
  <1>10. ~InFrame' /\ tx' = 1
    <2>1. ~InFrame'
      BY <1>4, <1>8, <1>9, LineMoves
    <2>2. LineBit' = StopAt(cfg)
      BY <1>1, <2>1 DEF InFrame, LineBit
    <2>3. tx' = Level(cfg, p, StopAt(cfg))
      BY <1>4, <1>9, <2>2, TxBits DEF Carried, OnLine
    <2> QED BY <1>1, <2>1, <2>3, Levels
  <1>11. tx = 1 /\ rx_s[1] = 1 /\ rx_s[2] = 1 /\ rx_s[3] = 1
    <2>1. Level(cfg, p, StopAt(cfg)) = 1
      BY <1>1, Levels
    <2>2. tx = Level(cfg, p, LineBit)
          /\ rx_s[1] = Level(cfg, p, IF Into >= 1 THEN LineBit ELSE LineBit - 1)
          /\ rx_s[2] = Level(cfg, p, IF Into >= 2 THEN LineBit ELSE LineBit - 1)
          /\ rx_s[3] = Level(cfg, p, IF Into >= 3 THEN LineBit ELSE LineBit - 1)
      BY DEF Carried, OnLine
    <2> QED BY <1>8, <2>1, <2>2
  <1>12. /\ rx_state' = "IDLE" /\ framing_err' = FALSE /\ parity_err' = parity_err /\ parity_err = FALSE
         /\ framing_err = FALSE
    <2>1. rx_state' = "IDLE" /\ framing_err' = (rx_sync = 0) /\ parity_err' = parity_err
      BY <1>3 DEF Stop
    <2>2. rx_sync # 0
      BY <1>11 DEF rx_sync
    <2>3. parity_err = FALSE /\ framing_err = FALSE
      BY DEF LinkTypes
    <2>4. framing_err' = FALSE
      BY <2>1, <2>2, Zenon
    <2> QED BY <2>1, <2>3, <2>4
  <1>13. ~Unread'
    BY <1>10, <1>12 DEF Unread
  <1>14. Good(cfg, Entry, p)
    <2>1. rx_shift \div (2 ^ (8 - Width(cfg))) = p
      BY <1>3 DEF Carried, Taken
    <2> QED BY <1>12, <2>1 DEF Good, Entry
  <1>15. Line'
    <2>1. \A i \in 1 .. 3 : rx_s'[i] = 1
      <3>1. \A i \in 1 .. 3 : i = 1 \/ i = 2 \/ i = 3
        OBVIOUS
      <3> QED BY <1>1, <1>11, <3>1
    <2>2. rx_s'[1] = 1 /\ rx_s'[2] = 1
      BY <1>1, <1>11
    <2> QED BY <1>10, <2>1, <2>2 DEF Line
  <1>16. FalseStart' /\ Receiving'
    BY <1>1, <1>10, <1>12 DEF FalseStart, Receiving, Spurious, Locked
  <1> QED BY <1>9, <1>12, <1>13, <1>14, <1>15, <1>16

-----------------------------------------------------------------------------
(* The scoreboard: what an edge does to the bytes on their way.            *)

LEMMA DataWord ==
  ASSUME NEW c \in Configs, NEW b \in Byte
  PROVE  b % (2 ^ Width(c)) \in Byte /\ b % (2 ^ Width(c)) < 2 ^ Width(c)
  <1> DEFINE m == 2 ^ Width(c)
  <1>1. Width(c) \in 1 .. 8
    BY Config
  <1>2. m \in {2, 4, 8, 16, 32, 64, 128, 256}
    <2>1. ASSUME Width(c) = 1 PROVE m = 2
      BY <2>1, Powers
    <2>2. ASSUME Width(c) = 2 PROVE m = 4
      BY <2>2, Powers
    <2>3. ASSUME Width(c) = 3 PROVE m = 8
      BY <2>3, Powers
    <2>4. ASSUME Width(c) = 4 PROVE m = 16
      BY <2>4, Powers
    <2>5. ASSUME Width(c) = 5 PROVE m = 32
      BY <2>5, Powers
    <2>6. ASSUME Width(c) = 6 PROVE m = 64
      BY <2>6, Powers
    <2>7. ASSUME Width(c) = 7 PROVE m = 128
      BY <2>7, Powers
    <2>8. ASSUME Width(c) = 8 PROVE m = 256
      BY <2>8, Powers
    <2> HIDE DEF m
    <2> QED BY <1>1, <2>1, <2>2, <2>3, <2>4, <2>5, <2>6, <2>7, <2>8
  <1> HIDE DEF m
  <1>3. b % m \in Byte /\ b % m < m
    BY <1>2 DEF Byte
  <1> QED BY <1>3 DEF m

\* The host reads the oldest byte that arrived.
LEMMA Read ==
  ASSUME NEW c, NEW out \in Seq(Byte), NEW arrived \in Seq(Words), NEW u \in {0, 1}, NEW y,
         NEW q \in {0, 1}, NEW x, NEW fifo \in Seq(Byte), arrived # <<>>,
         InPlace(c, out, arrived, u, y, q, x, fifo)
  PROVE  /\ Tail(out) \in Seq(Byte) /\ Tail(arrived) \in Seq(Words)
         /\ InPlace(c, Tail(out), Tail(arrived), u, y, q, x, fifo)
  <1>1. /\ Len(out) = Len(arrived) + u + q + Len(fifo) /\ Len(arrived) \in Nat /\ Len(fifo) \in Nat
        /\ Len(arrived) >= 1 /\ Len(out) \in Nat /\ Len(out) >= 1 /\ out # <<>>
    BY DEF InPlace
  <1>2. /\ Tail(out) \in Seq(Byte) /\ Tail(arrived) \in Seq(Words)
        /\ Len(Tail(out)) = Len(out) - 1 /\ Len(Tail(arrived)) = Len(arrived) - 1
        /\ \A i \in 1 .. Len(out) - 1 : Tail(out)[i] = out[i + 1]
        /\ \A i \in 1 .. Len(arrived) - 1 : Tail(arrived)[i] = arrived[i + 1]
    BY <1>1
  <1>3. \A i \in 1 .. Len(Tail(arrived)) : Good(c, Tail(arrived)[i], Tail(out)[i])
    <2> SUFFICES ASSUME NEW i \in 1 .. Len(arrived) - 1 PROVE Good(c, Tail(arrived)[i], Tail(out)[i])
      BY <1>2
    <2>1. i + 1 \in 1 .. Len(arrived) /\ i \in 1 .. Len(out) - 1
      BY <1>1
    <2>2. Tail(out)[i] = out[i + 1] /\ Tail(arrived)[i] = arrived[i + 1]
      BY <1>2, <2>1
    <2>3. Good(c, arrived[i + 1], out[i + 1])
      BY <2>1 DEF InPlace
    <2> QED BY <2>2, <2>3
  <1>4. u = 1 => Tail(out)[Len(Tail(arrived)) + 1] = y /\ y < 2 ^ Width(c)
    <2> SUFFICES ASSUME u = 1 PROVE Tail(out)[Len(Tail(arrived)) + 1] = y /\ y < 2 ^ Width(c)
      OBVIOUS
    <2>1. Len(Tail(arrived)) + 1 = Len(arrived) /\ Len(arrived) \in 1 .. Len(out) - 1
      BY <1>1, <1>2
    <2> QED BY <1>2, <2>1 DEF InPlace
  <1>5. q = 1 => Tail(out)[Len(Tail(arrived)) + u + 1] = x % (2 ^ Width(c))
    <2> SUFFICES ASSUME q = 1 PROVE Tail(out)[Len(Tail(arrived)) + u + 1] = x % (2 ^ Width(c))
      OBVIOUS
    <2>1. Len(Tail(arrived)) + u + 1 = Len(arrived) + u /\ Len(arrived) + u \in 1 .. Len(out) - 1
      BY <1>1, <1>2
    <2>2. out[Len(arrived) + u + 1] = x % (2 ^ Width(c))
      BY DEF InPlace
    <2> QED BY <1>2, <2>1, <2>2
  <1>6. \A i \in 1 .. Len(fifo) : Tail(out)[Len(Tail(arrived)) + u + q + i] = fifo[i] % (2 ^ Width(c))
    <2> SUFFICES ASSUME NEW i \in 1 .. Len(fifo)
                 PROVE  Tail(out)[Len(Tail(arrived)) + u + q + i] = fifo[i] % (2 ^ Width(c))
      OBVIOUS
    <2> DEFINE n == Len(Tail(arrived)) + u + q + i
    <2>1. n \in 1 .. Len(out) - 1 /\ n + 1 = Len(arrived) + u + q + i
      BY <1>1, <1>2
    <2>2. out[Len(arrived) + u + q + i] = fifo[i] % (2 ^ Width(c))
      BY DEF InPlace
    <2> QED BY <1>2, <2>1, <2>2
  <1> QED BY <1>1, <1>2, <1>3, <1>4, <1>5, <1>6 DEF InPlace

\* The host's write goes into the transmit FIFO.
LEMMA Written ==
  ASSUME NEW c \in Configs, NEW out \in Seq(Byte), NEW arrived \in Seq(Words), NEW u \in {0, 1}, NEW y,
         NEW q \in {0, 1}, NEW x, NEW fifo \in Seq(Byte), NEW b \in Byte,
         InPlace(c, out, arrived, u, y, q, x, fifo)
  PROVE  /\ Append(out, b % (2 ^ Width(c))) \in Seq(Byte)
         /\ InPlace(c, Append(out, b % (2 ^ Width(c))), arrived, u, y, q, x, Append(fifo, b))
  <1> DEFINE new == b % (2 ^ Width(c))
             o   == Append(out, new)
             f   == Append(fifo, b)
  <1>1. new \in Byte
    BY DataWord
  <1> HIDE DEF new
  <1>2. /\ o \in Seq(Byte) /\ Len(o) = Len(out) + 1 /\ o[Len(out) + 1] = new
        /\ \A i \in 1 .. Len(out) : o[i] = out[i]
        /\ f \in Seq(Byte) /\ Len(f) = Len(fifo) + 1 /\ f[Len(fifo) + 1] = b
        /\ \A i \in 1 .. Len(fifo) : f[i] = fifo[i]
        /\ Len(out) \in Nat /\ Len(fifo) \in Nat /\ Len(arrived) \in Nat
    BY <1>1
  <1>3. Len(out) = Len(arrived) + u + q + Len(fifo)
    BY DEF InPlace
  <1> HIDE DEF o, f
  <1>4. \A i \in 1 .. Len(arrived) : Good(c, arrived[i], o[i])
    <2> SUFFICES ASSUME NEW i \in 1 .. Len(arrived) PROVE Good(c, arrived[i], o[i])
      OBVIOUS
    <2>1. i \in 1 .. Len(out)
      BY <1>2, <1>3
    <2>2. Good(c, arrived[i], out[i])
      BY DEF InPlace
    <2> QED BY <1>2, <2>1, <2>2
  <1>5. u = 1 => o[Len(arrived) + 1] = y /\ y < 2 ^ Width(c)
    <2> SUFFICES ASSUME u = 1 PROVE o[Len(arrived) + 1] = y /\ y < 2 ^ Width(c)
      OBVIOUS
    <2>1. Len(arrived) + 1 \in 1 .. Len(out)
      BY <1>2, <1>3
    <2> QED BY <1>2, <2>1 DEF InPlace
  <1>6. q = 1 => o[Len(arrived) + u + 1] = x % (2 ^ Width(c))
    <2> SUFFICES ASSUME q = 1 PROVE o[Len(arrived) + u + 1] = x % (2 ^ Width(c))
      OBVIOUS
    <2>1. Len(arrived) + u + 1 \in 1 .. Len(out)
      BY <1>2, <1>3
    <2>2. out[Len(arrived) + u + 1] = x % (2 ^ Width(c))
      BY DEF InPlace
    <2> QED BY <1>2, <2>1, <2>2
  <1>7. \A i \in 1 .. Len(f) : o[Len(arrived) + u + q + i] = f[i] % (2 ^ Width(c))
    <2> SUFFICES ASSUME NEW i \in 1 .. Len(fifo) + 1
                 PROVE  o[Len(arrived) + u + q + i] = f[i] % (2 ^ Width(c))
      BY <1>2
    <2>1. CASE i = Len(fifo) + 1
      <3>1. Len(arrived) + u + q + i = Len(out) + 1
        BY <1>2, <1>3, <2>1
      <3> QED BY <1>2, <2>1, <3>1 DEF new
    <2>2. CASE i # Len(fifo) + 1
      <3>1. i \in 1 .. Len(fifo) /\ Len(arrived) + u + q + i \in 1 .. Len(out)
        BY <1>2, <1>3, <2>2
      <3>2. out[Len(arrived) + u + q + i] = fifo[i] % (2 ^ Width(c))
        BY <3>1 DEF InPlace
      <3> QED BY <1>2, <3>1, <3>2
    <2> QED BY <2>1, <2>2
  <1>8. Len(o) = Len(arrived) + u + q + Len(f)
    BY <1>2, <1>3
  <1>9. InPlace(c, o, arrived, u, y, q, x, f)
    BY <1>4, <1>5, <1>6, <1>7, <1>8 DEF InPlace
  <1> QED BY <1>2, <1>9 DEF o, f, new

\* The engine latches the byte at the read pointer, which the FIFO drops.
LEMMA Latched ==
  ASSUME NEW c, NEW out \in Seq(Byte), NEW arrived \in Seq(Words), NEW u \in {0, 1}, NEW y,
         NEW x, NEW fifo \in Seq(Byte), fifo # <<>>,
         InPlace(c, out, arrived, u, y, 0, x, fifo)
  PROVE  InPlace(c, out, arrived, u, y, 1, Head(fifo), Tail(fifo))
  <1>1. /\ Len(fifo) \in Nat /\ Len(fifo) >= 1 /\ Head(fifo) = fifo[1]
        /\ Len(Tail(fifo)) = Len(fifo) - 1 /\ Len(arrived) \in Nat
        /\ \A i \in 1 .. Len(fifo) - 1 : Tail(fifo)[i] = fifo[i + 1]
    OBVIOUS
  <1>2. Len(out) = Len(arrived) + u + 1 + Len(Tail(fifo))
    BY <1>1 DEF InPlace
  <1>3. out[Len(arrived) + u + 1] = Head(fifo) % (2 ^ Width(c))
    <2>1. out[Len(arrived) + u + 0 + 1] = fifo[1] % (2 ^ Width(c))
      BY <1>1 DEF InPlace
    <2>2. Len(arrived) + u + 0 + 1 = Len(arrived) + u + 1
      BY <1>1
    <2> QED BY <1>1, <2>1, <2>2
  <1>4. \A i \in 1 .. Len(Tail(fifo)) : out[Len(arrived) + u + 1 + i] = Tail(fifo)[i] % (2 ^ Width(c))
    <2> SUFFICES ASSUME NEW i \in 1 .. Len(fifo) - 1
                 PROVE  out[Len(arrived) + u + 1 + i] = Tail(fifo)[i] % (2 ^ Width(c))
      BY <1>1
    <2>1. i + 1 \in 1 .. Len(fifo) /\ Len(arrived) + u + 0 + (i + 1) = Len(arrived) + u + 1 + i
      BY <1>1
    <2>2. out[Len(arrived) + u + 0 + (i + 1)] = fifo[i + 1] % (2 ^ Width(c))
      BY <2>1 DEF InPlace
    <2> QED BY <1>1, <2>1, <2>2
  <1> QED BY <1>2, <1>3, <1>4 DEF InPlace

\* The start bit puts the byte that was latched on the line.
LEMMA Launched ==
  ASSUME NEW c \in Configs, NEW out \in Seq(Byte), NEW arrived \in Seq(Words), NEW y, NEW z,
         NEW x \in Byte, NEW fifo \in Seq(Byte),
         InPlace(c, out, arrived, 0, y, 1, x, fifo)
  PROVE  InPlace(c, out, arrived, 1, x % (2 ^ Width(c)), 0, z, fifo)
  <1>1. Len(arrived) \in Nat /\ Len(fifo) \in Nat
    OBVIOUS
  <1>2. Len(out) = Len(arrived) + 1 + 0 + Len(fifo)
    BY <1>1 DEF InPlace
  <1>3. out[Len(arrived) + 1] = x % (2 ^ Width(c))
    <2>1. Len(arrived) + 0 + 1 = Len(arrived) + 1
      BY <1>1
    <2>2. out[Len(arrived) + 0 + 1] = x % (2 ^ Width(c))
      BY DEF InPlace
    <2> QED BY <2>1, <2>2
  <1>4. x % (2 ^ Width(c)) < 2 ^ Width(c)
    BY DataWord
  <1>5. \A i \in 1 .. Len(fifo) : out[Len(arrived) + 1 + 0 + i] = fifo[i] % (2 ^ Width(c))
    <2> SUFFICES ASSUME NEW i \in 1 .. Len(fifo)
                 PROVE  out[Len(arrived) + 1 + 0 + i] = fifo[i] % (2 ^ Width(c))
      OBVIOUS
    <2>1. out[Len(arrived) + 0 + 1 + i] = fifo[i] % (2 ^ Width(c))
      BY DEF InPlace
    <2>2. Len(arrived) + 0 + 1 + i = Len(arrived) + 1 + 0 + i
      BY <1>1
    <2> QED BY <2>1, <2>2
  <1>6. \A i \in 1 .. Len(arrived) : Good(c, arrived[i], out[i])
    BY DEF InPlace
  <1> QED BY <1>2, <1>3, <1>4, <1>5, <1>6 DEF InPlace

\* The byte on the line has arrived,
LEMMA HandedOver ==
  ASSUME NEW c, NEW out \in Seq(Byte), NEW arrived \in Seq(Words), NEW y, NEW z, NEW e \in Words,
         NEW q \in {0, 1}, NEW x, NEW fifo \in Seq(Byte), Good(c, e, y),
         InPlace(c, out, arrived, 1, y, q, x, fifo)
  PROVE  InPlace(c, out, Append(arrived, e), 0, z, q, x, fifo)
  <1> DEFINE a == Append(arrived, e)
  <1>1. /\ Len(a) = Len(arrived) + 1 /\ a[Len(arrived) + 1] = e /\ Len(arrived) \in Nat /\ Len(fifo) \in Nat
        /\ \A i \in 1 .. Len(arrived) : a[i] = arrived[i]
    OBVIOUS
  <1> HIDE DEF a
  <1>2. Len(out) = Len(a) + 0 + q + Len(fifo)
    BY <1>1 DEF InPlace
  <1>3. \A i \in 1 .. Len(a) : Good(c, a[i], out[i])
    <2> SUFFICES ASSUME NEW i \in 1 .. Len(arrived) + 1 PROVE Good(c, a[i], out[i])
      BY <1>1
    <2>1. CASE i = Len(arrived) + 1
      BY <1>1, <2>1 DEF InPlace
    <2>2. CASE i # Len(arrived) + 1
      <3>1. i \in 1 .. Len(arrived)
        BY <1>1, <2>2
      <3> QED BY <1>1, <3>1 DEF InPlace
    <2> QED BY <2>1, <2>2
  <1>4. q = 1 => out[Len(a) + 0 + 1] = x % (2 ^ Width(c))
    <2>1. Len(a) + 0 + 1 = Len(arrived) + 1 + 1
      BY <1>1
    <2> QED BY <2>1 DEF InPlace
  <1>5. \A i \in 1 .. Len(fifo) : out[Len(a) + 0 + q + i] = fifo[i] % (2 ^ Width(c))
    <2> SUFFICES ASSUME NEW i \in 1 .. Len(fifo)
                 PROVE  out[Len(a) + 0 + q + i] = fifo[i] % (2 ^ Width(c))
      OBVIOUS
    <2>1. Len(a) + 0 + q + i = Len(arrived) + 1 + q + i
      BY <1>1
    <2>2. out[Len(arrived) + 1 + q + i] = fifo[i] % (2 ^ Width(c))
      BY DEF InPlace
    <2> QED BY <2>1, <2>2
  <1>6. InPlace(c, out, a, 0, z, q, x, fifo)
    BY <1>2, <1>3, <1>4, <1>5 DEF InPlace
  <1> QED BY <1>6 DEF a

LEMMA Without ==
  ASSUME NEW out \in Seq(Byte), NEW k \in 1 .. Len(out)
  PROVE  /\ Seqs!RemoveAt(out, k) \in Seq(Byte) /\ Len(Seqs!RemoveAt(out, k)) = Len(out) - 1
         /\ \A i \in 1 .. Len(out) - 1 :
              Seqs!RemoveAt(out, k)[i] = IF i < k THEN out[i] ELSE out[i + 1]
  <1>1. k \in Nat /\ k >= 1 /\ Len(out) \in Nat /\ k <= Len(out)
    OBVIOUS
  <1> DEFINE before == SubSeq(out, 1, k - 1)
             after  == SubSeq(out, k + 1, Len(out))
             joined == before \o after
  <1>2. Seqs!RemoveAt(out, k) = joined
    BY DEF Seqs!RemoveAt
  <1>3. before \in Seq(Byte) /\ Len(before) = k - 1 /\ \A i \in 1 .. k - 1 : before[i] = out[i]
    BY <1>1
  <1>4. /\ after \in Seq(Byte) /\ Len(after) = Len(out) - k
        /\ \A i \in 1 .. Len(out) - k : after[i] = out[k + i]
    BY <1>1
  <1> HIDE DEF before, after
  <1>5. /\ joined \in Seq(Byte) /\ Len(joined) = Len(before) + Len(after)
        /\ \A i \in 1 .. Len(before) + Len(after) :
             joined[i] = IF i <= Len(before) THEN before[i] ELSE after[i - Len(before)]
    BY <1>3, <1>4, ConcatProperties
  <1> HIDE DEF joined
  <1>6. ASSUME NEW i \in 1 .. Len(out) - 1 PROVE joined[i] = IF i < k THEN out[i] ELSE out[i + 1]
    <2>1. joined[i] = IF i <= k - 1 THEN before[i] ELSE after[i - (k - 1)]
      <3>1. Len(before) = k - 1 /\ Len(after) = Len(out) - k
        BY <1>3, <1>4
      <3>2. i \in 1 .. Len(before) + Len(after)
        BY <1>1, <3>1
      <3>3. joined[i] = IF i <= Len(before) THEN before[i] ELSE after[i - Len(before)]
        BY <1>5, <3>2, Zenon
      <3> QED BY <3>1, <3>3
    <2>2. CASE i < k
      BY <1>1, <1>3, <2>1, <2>2
    <2>3. CASE ~(i < k)
      <3>1. /\ i - (k - 1) \in 1 .. Len(out) - k /\ k + (i - (k - 1)) = i + 1
            /\ ~(i <= k - 1)
        BY <1>1, <2>3
      <3>2. after[i - (k - 1)] = out[k + (i - (k - 1))]
        BY <1>4, <3>1
      <3> QED BY <2>1, <2>3, <3>1, <3>2
    <2> QED BY <2>2, <2>3
  <1>7. joined \in Seq(Byte) /\ Len(joined) = Len(out) - 1
    <2>1. joined \in Seq(Byte) /\ Len(joined) = Len(before) + Len(after)
      BY <1>5
    <2>2. Len(before) = k - 1 /\ Len(after) = Len(out) - k
      BY <1>3, <1>4
    <2> QED BY <1>1, <2>1, <2>2
  <1> QED BY <1>2, <1>6, <1>7

\* or is dropped for want of room.
LEMMA Dropped ==
  ASSUME NEW c, NEW out \in Seq(Byte), NEW arrived \in Seq(Words), NEW y, NEW z,
         NEW q \in {0, 1}, NEW x, NEW fifo \in Seq(Byte),
         InPlace(c, out, arrived, 1, y, q, x, fifo)
  PROVE  /\ Seqs!RemoveAt(out, Len(arrived) + 1) \in Seq(Byte)
         /\ InPlace(c, Seqs!RemoveAt(out, Len(arrived) + 1), arrived, 0, z, q, x, fifo)
  <1> DEFINE k    == Len(arrived)
             left == Seqs!RemoveAt(out, k + 1)
  <1>1. k \in Nat /\ Len(fifo) \in Nat /\ Len(out) \in Nat /\ Len(out) = k + 1 + q + Len(fifo)
    BY DEF InPlace
  <1>2. /\ left \in Seq(Byte) /\ Len(left) = Len(out) - 1
        /\ \A i \in 1 .. Len(out) - 1 : left[i] = IF i < k + 1 THEN out[i] ELSE out[i + 1]
    <2>1. k + 1 \in 1 .. Len(out)
      BY <1>1
    <2> HIDE DEF k
    <2> QED BY <2>1, Without
  <1> HIDE DEF k, left
  <1>3. \A i \in 1 .. k : Good(c, arrived[i], left[i])
    <2> SUFFICES ASSUME NEW i \in 1 .. k PROVE Good(c, arrived[i], left[i])
      OBVIOUS
    <2>1. i \in 1 .. Len(out) - 1 /\ i < k + 1
      BY <1>1
    <2>2. left[i] = out[i]
      BY <1>2, <2>1
    <2> QED BY <2>2 DEF InPlace, k
  <1>4. q = 1 => left[k + 0 + 1] = x % (2 ^ Width(c))
    <2> SUFFICES ASSUME q = 1 PROVE left[k + 0 + 1] = x % (2 ^ Width(c))
      OBVIOUS
    <2>1. k + 1 \in 1 .. Len(out) - 1 /\ k + 0 + 1 = k + 1 /\ ~(k + 1 < k + 1)
      BY <1>1
    <2>2. out[k + 1 + 1] = x % (2 ^ Width(c))
      BY DEF InPlace, k
    <2> QED BY <1>2, <2>1, <2>2
  <1>5. \A i \in 1 .. Len(fifo) : left[k + 0 + q + i] = fifo[i] % (2 ^ Width(c))
    <2> SUFFICES ASSUME NEW i \in 1 .. Len(fifo) PROVE left[k + 0 + q + i] = fifo[i] % (2 ^ Width(c))
      OBVIOUS
    <2>1. /\ k + 0 + q + i \in 1 .. Len(out) - 1 /\ ~(k + 0 + q + i < k + 1)
          /\ k + 0 + q + i + 1 = k + 1 + q + i
      BY <1>1
    <2>2. out[k + 1 + q + i] = fifo[i] % (2 ^ Width(c))
      BY DEF InPlace, k
    <2> QED BY <1>2, <2>1, <2>2
  <1>6. Len(left) = k + 0 + q + Len(fifo)
    BY <1>1, <1>2
  <1>7. InPlace(c, left, arrived, 0, z, q, x, fifo)
    BY <1>3, <1>4, <1>5, <1>6 DEF InPlace, k
  <1> QED BY <1>2, <1>7 DEF left, k

\* Of the edge: what the receive FIFO and the word about to be pushed become,
LEMMA ReceiveSide ==
  ASSUME LinkTypes, Board, NEW pop \in BOOLEAN, ClockEdge(pop)
  PROVE  /\ ~frame_done => Arrived' = IF pop /\ rx_fifo # <<>> THEN Tail(Arrived) ELSE Arrived
         /\ frame_done /\ ~rx_fifo_full =>
              Arrived' = IF pop /\ rx_fifo # <<>> THEN Tail(Append(Arrived, Entry)) ELSE Append(Arrived, Entry)
         /\ frame_done /\ rx_fifo_full =>
              Arrived' = IF pop /\ rx_fifo # <<>> THEN Tail(Arrived) ELSE Arrived
         /\ frame_done => Arrived = rx_fifo
         /\ Arrived \in Seq(Words) /\ Entry \in Words /\ (rx_fifo # <<>> => Arrived # <<>>)
         /\ rx_fifo_wr' => rx_state' = "IDLE" /\ ~rx_fifo_full'
         /\ Len(tx_fifo') <= TX_FIFO_DEPTH /\ Len(rx_fifo') <= RX_FIFO_DEPTH
  <1>1. /\ rx_fifo \in Seq(Words) /\ rx_fifo_data \in Words /\ Entry \in Words /\ tx_fifo \in Seq(Byte)
        /\ rx_fifo_wr \in BOOLEAN /\ Len(rx_fifo) \in Nat /\ Len(tx_fifo) \in Nat
        /\ Len(tx_fifo) <= TX_FIFO_DEPTH /\ Len(rx_fifo) <= RX_FIFO_DEPTH
        /\ TX_FIFO_DEPTH \in Nat /\ RX_FIFO_DEPTH \in Nat
        /\ tx_fifo_wdata \in Byte
    <2>1. /\ rx_fifo \in Seq(Words) /\ rx_fifo_data \in Words /\ tx_fifo \in Seq(Byte)
          /\ rx_fifo_wr \in BOOLEAN /\ tx_fifo_wdata \in Byte
      BY DEF LinkTypes
    <2>2. Entry \in Words
      BY DEF LinkTypes, Entry, Words, Byte
    <2> QED BY <2>1, <2>2, LinkAssumption DEF Board
  <1>2. frame_done => ~rx_fifo_wr
    BY DEF Board, frame_done, In
  <1>3. /\ rx_fifo_wr' <=> frame_done /\ ~rx_fifo_full
        /\ rx_fifo_wr' => rx_fifo_data' = Entry /\ rx_state' = "IDLE"
    BY DEF ClockEdge, RxEdge, BetweenSamples, Listen, Start, Sample, Vote, CheckParity, Stop, NoPush,
           frame_done, In
  <1>4. Arrived \in Seq(Words) /\ (rx_fifo # <<>> => Arrived # <<>>)
    BY <1>1 DEF Arrived
  <1> DEFINE rest == RxFifo!Popped(pop)
  <1>5. rest = IF pop /\ rx_fifo # <<>> THEN Tail(rx_fifo) ELSE rx_fifo
    BY DEF RxFifo!Popped
  <1>6. rest \in Seq(Words) /\ Len(rest) \in Nat /\ Len(rest) <= Len(rx_fifo)
    BY <1>1, <1>5
  <1>7. rx_fifo' = IF rx_fifo_wr THEN Append(rest, rx_fifo_data) ELSE rest
    <2>1. rx_fifo' = IF rx_fifo_wr /\ Len(rx_fifo) < RX_FIFO_DEPTH THEN Append(rest, rx_fifo_data) ELSE rest
      BY DEF ClockEdge, RxFifo!Edge
    <2>2. rx_fifo_wr => Len(rx_fifo) < RX_FIFO_DEPTH
      BY <1>1 DEF Board, rx_fifo_full
    <2> QED BY <2>1, <2>2
  <1> HIDE DEF rest
  <1>8. rx_fifo' = IF pop /\ rx_fifo # <<>> THEN Tail(Arrived) ELSE Arrived
    <2>1. \A s \in Seq(Words) : \A e \in Words : s # <<>> => Tail(Append(s, e)) = Append(Tail(s), e)
      BY HeadTailAppend
    <2>2. CASE rx_fifo_wr
      BY <1>1, <1>5, <1>7, <2>1, <2>2 DEF Arrived
    <2>3. CASE ~rx_fifo_wr
      BY <1>5, <1>7, <2>3 DEF Arrived
    <2> QED BY <2>2, <2>3
  <1>9. ~rx_fifo_wr' => Arrived' = IF pop /\ rx_fifo # <<>> THEN Tail(Arrived) ELSE Arrived
    BY <1>8 DEF Arrived
  <1>10. ASSUME rx_fifo_wr'
         PROVE  /\ Arrived' = IF pop /\ rx_fifo # <<>> THEN Tail(Append(Arrived, Entry)) ELSE Append(Arrived, Entry)
                /\ ~rx_fifo_full'
    <2>1. Arrived = rx_fifo /\ rx_fifo' = rest
      BY <1>2, <1>3, <1>7, <1>10 DEF Arrived
    <2>2. Arrived' = Append(rest, Entry)
      BY <1>3, <1>10, <2>1 DEF Arrived
    <2>3. \A s \in Seq(Words) : \A e \in Words : s # <<>> => Tail(Append(s, e)) = Append(Tail(s), e)
      BY HeadTailAppend
    <2>4. Len(rx_fifo) < RX_FIFO_DEPTH
      BY <1>1, <1>3, <1>10 DEF rx_fifo_full
    <2>5. ~rx_fifo_full'
      BY <1>1, <1>6, <2>1, <2>4 DEF rx_fifo_full
    <2> QED BY <1>1, <1>5, <2>1, <2>2, <2>3, <2>5
  <1>11. Len(rx_fifo') <= RX_FIFO_DEPTH
    <2>1. rx_fifo_wr => Len(rx_fifo) < RX_FIFO_DEPTH
      BY <1>1 DEF Board, rx_fifo_full
    <2>2. Len(Append(rest, rx_fifo_data)) = Len(rest) + 1
      BY <1>1, <1>6
    <2> QED BY <1>1, <1>6, <1>7, <2>1, <2>2
  <1>12. Len(tx_fifo') <= TX_FIFO_DEPTH
    <2> DEFINE kept == TxFifo!Popped(tx_fifo_rd)
    <2>1. kept \in Seq(Byte) /\ Len(kept) \in Nat /\ Len(kept) <= Len(tx_fifo)
      BY <1>1 DEF TxFifo!Popped
    <2>2. tx_fifo' = IF tx_fifo_wr /\ Len(tx_fifo) < TX_FIFO_DEPTH THEN Append(kept, tx_fifo_wdata) ELSE kept
      BY DEF ClockEdge, TxFifo!Edge
    <2> HIDE DEF kept
    <2>3. Len(Append(kept, tx_fifo_wdata)) = Len(kept) + 1
      BY <1>1, <2>1
    <2> QED BY <1>1, <2>1, <2>2, <2>3
  <1>13. frame_done => Arrived = rx_fifo
    BY <1>2 DEF Arrived
  <1> QED BY <1>1, <1>3, <1>4, <1>9, <1>10, <1>11, <1>12, <1>13

\* and, from what arrived or was dropped, where the bytes are after it.
LEMMA TransmitSide ==
  ASSUME Owed, LinkTypes, Sending, Board, NEW pop \in BOOLEAN, ClockEdge(pop),
         NEW out \in Seq(Byte), NEW arrived \in Seq(Words), NEW u \in {0, 1}, NEW y,
         NEW v \in {0, 1}, NEW z,
         InPlace(cfg, out, arrived, u, y, Count(tx_state = "START"), shift, tx_fifo),
         rx_fifo # <<>> => arrived # <<>>,
         Arrived' = (IF pop /\ rx_fifo # <<>> THEN Tail(arrived) ELSE arrived),
         outstanding' = (LET left == IF pop /\ rx_fifo # <<>> THEN Tail(out) ELSE out
                         IN  IF tx_fifo_wr /\ ~tx_fifo_full THEN Append(left, Payload(tx_fifo_wdata)) ELSE left),
         At("START") => u = 0 /\ v = 1 /\ z = Payload(shift),
         ~At("START") => v = u /\ z = y
  PROVE  /\ outstanding' \in Seq(Byte)
         /\ InPlace(cfg, outstanding', Arrived', v, z, Count(tx_state' = "START"), shift', tx_fifo')
  <1>1. /\ cfg \in Configs /\ DataBits = Width(cfg) /\ tx_fifo \in Seq(Byte) /\ shift \in Byte
        /\ tx_fifo_wdata \in Byte /\ Count(tx_state = "START") \in {0, 1}
        /\ Count(tx_state' = "START") \in {0, 1}
    BY Ports DEF Owed, LinkTypes, Count
  <1> DEFINE left == IF pop /\ rx_fifo # <<>> THEN Tail(out) ELSE out
             kept == TxFifo!Popped(tx_fifo_rd)
             a    == Arrived'
  <1>q. PICK q \in {0, 1} : q = Count(tx_state = "START")
    BY <1>1
  <1>r. PICK r \in {0, 1} : r = Count(tx_state' = "START")
    BY <1>1
  <1>h. a = Arrived' /\ r = Count(tx_state' = "START")
    BY <1>r
  <1>0. InPlace(cfg, out, arrived, u, y, q, shift, tx_fifo)
    BY <1>q
  <1>n. /\ tx_state = "START" => q = 1
        /\ tx_state # "START" => q = 0
        /\ tx_state' = "START" => r = 1
        /\ tx_state' # "START" => r = 0
    BY <1>q, <1>r DEF Count
  <1> HIDE DEF a
  <1>2. /\ left \in Seq(Byte) /\ a \in Seq(Words)
        /\ InPlace(cfg, left, a, u, y, q, shift, tx_fifo)
    <2>0. a = IF pop /\ rx_fifo # <<>> THEN Tail(arrived) ELSE arrived
      BY <1>h
    <2>1. CASE pop /\ rx_fifo # <<>>
      <3>0. arrived # <<>>
        BY <2>1
      <3>1. /\ Tail(out) \in Seq(Byte) /\ Tail(arrived) \in Seq(Words)
            /\ InPlace(cfg, Tail(out), Tail(arrived), u, y, q, shift, tx_fifo)
        <4>1. CASE u = 0 /\ q = 0
          BY <1>0, <1>1, <3>0, <4>1, Read
        <4>2. CASE u = 1 /\ q = 0
          BY <1>0, <1>1, <3>0, <4>2, Read
        <4>3. CASE u = 0 /\ q = 1
          BY <1>0, <1>1, <3>0, <4>3, Read
        <4>4. CASE u = 1 /\ q = 1
          BY <1>0, <1>1, <3>0, <4>4, Read
        <4> QED BY <4>1, <4>2, <4>3, <4>4
      <3> QED BY <2>0, <2>1, <3>1
    <2>2. CASE ~(pop /\ rx_fifo # <<>>)
      BY <1>0, <2>0, <2>2
    <2> QED BY <2>1, <2>2
  <1>3. outstanding' = IF tx_fifo_wr /\ ~tx_fifo_full THEN Append(left, Payload(tx_fifo_wdata)) ELSE left
    OBVIOUS
  <1> HIDE DEF left
  <1>4. kept = IF tx_fifo_rd /\ tx_fifo # <<>> THEN Tail(tx_fifo) ELSE tx_fifo
    BY DEF TxFifo!Popped
  <1>5. kept \in Seq(Byte)
    BY <1>1, <1>4
  <1>6. tx_fifo' = IF tx_fifo_wr /\ ~tx_fifo_full THEN Append(kept, tx_fifo_wdata) ELSE kept
    <2>1. tx_fifo' = IF tx_fifo_wr /\ Len(tx_fifo) < TX_FIFO_DEPTH THEN Append(kept, tx_fifo_wdata) ELSE kept
      BY DEF ClockEdge, TxFifo!Edge
    <2>2. tx_fifo_full <=> ~(Len(tx_fifo) < TX_FIFO_DEPTH)
      <3>1. Len(tx_fifo) \in Nat /\ TX_FIFO_DEPTH \in Nat /\ Len(tx_fifo) <= TX_FIFO_DEPTH
        BY <1>1, LinkAssumption DEF Board
      <3> QED BY <3>1 DEF tx_fifo_full
    <2> QED BY <2>1, <2>2
  <1> HIDE DEF kept
  <1>7. InPlace(cfg, left, a, v, z, r, shift', kept)
    <2>1. \/ Idle \/ Latch(tx_fifo_rdata) \/ BetweenTicks
          \/ StartBit \/ DataBit \/ SendParity \/ StopBit
      BY DEF ClockEdge, TxEdge
    <2>2. CASE Latch(tx_fifo_rdata)
      <3>1. tx_fifo_rd /\ tx_fifo # <<>> /\ ~At("START") /\ tx_state = "IDLE" /\ tx_state' = "START"
        BY <2>2 DEF Latch, Sending, At
      <3>2. shift' = Head(tx_fifo) /\ kept = Tail(tx_fifo)
        BY <1>4, <2>2, <3>1 DEF Latch, tx_fifo_rdata, tx_fifo_empty
      <3>3. q = 0 /\ r = 1
        BY <3>1, <1>n
      <3>4. InPlace(cfg, left, a, u, y, 1, Head(tx_fifo), Tail(tx_fifo))
        <4>1. InPlace(cfg, left, a, u, y, 0, shift, tx_fifo)
          BY <1>2, <3>3
        <4>2. left \in Seq(Byte) /\ a \in Seq(Words) /\ u \in {0, 1} /\ tx_fifo \in Seq(Byte) /\ tx_fifo # <<>>
          BY <1>1, <1>2, <3>1
        <4> QED BY <4>1, <4>2, Latched, Zenon
      <3> QED BY <3>1, <3>2, <3>3, <3>4
    <2>3. CASE StartBit
      <3>1. At("START") /\ tx_state = "START" /\ tx_state' = "DATA" /\ shift' = shift /\ ~tx_fifo_rd
        BY <2>3 DEF StartBit, Sending, At
      <3>2. q = 1 /\ r = 0 /\ kept = tx_fifo
        BY <1>4, <1>n, <3>1
      <3>3. InPlace(cfg, left, a, 1, shift % (2 ^ Width(cfg)), 0, shift, tx_fifo)
        BY <1>0, <1>1, <1>2, <3>1, <3>2, Launched
      <3>4. z = shift % (2 ^ Width(cfg))
        BY <1>1, <3>1 DEF Payload
      <3> QED BY <3>1, <3>2, <3>3, <3>4
    <2>4. CASE ~Latch(tx_fifo_rdata) /\ ~StartBit
      <3>1. ~tx_fifo_rd /\ ~At("START")
        <4>1. ~(tx_state = "IDLE" /\ fetch_pending)
          BY <2>1, <2>4 DEF Idle, BetweenTicks, DataBit, SendParity, StopBit, At
        <4>2. ~At("START")
          BY <2>1, <2>4 DEF Idle, BetweenTicks, DataBit, SendParity, StopBit, At
        <4> QED BY <4>1, <4>2 DEF Sending
      <3>2. /\ tx_state = "START" <=> tx_state' = "START"
            /\ tx_state = "START" => shift' = shift
        BY <2>1, <2>4 DEF Idle, BetweenTicks, DataBit, SendParity, StopBit, At
      <3>3. kept = tx_fifo /\ v = u /\ z = y /\ q = r
        BY <1>0, <1>4, <1>n, <3>1, <3>2
      <3>4. InPlace(cfg, left, a, u, y, q, shift, kept)
        BY <1>2, <3>3
      <3>5. CASE tx_state = "START"
        BY <3>2, <3>3, <3>4, <3>5
      <3>6. CASE tx_state # "START"
        <4>1. q = 0
          BY <1>n, <3>6
        <4>2. InPlace(cfg, left, a, u, y, 0, shift', kept)
          BY <3>4, <4>1 DEF InPlace
        <4> QED BY <3>3, <4>1, <4>2
      <3> QED BY <3>5, <3>6
    <2> QED BY <2>2, <2>3, <2>4
  <1> DEFINE x == shift'
             w == tx_fifo_wdata
  <1>8. InPlace(cfg, left, a, v, z, r, x, kept) /\ w \in Byte
    BY <1>1, <1>7
  <1> HIDE DEF x, w
  <1>9. /\ Append(left, w % (2 ^ Width(cfg))) \in Seq(Byte)
        /\ InPlace(cfg, Append(left, w % (2 ^ Width(cfg))), a, v, z, r, x, Append(kept, w))
    <2>1. CASE v = 0 /\ r = 0
      BY <1>1, <1>2, <1>5, <1>8, <2>1, Written
    <2>2. CASE v = 1 /\ r = 0
      BY <1>1, <1>2, <1>5, <1>8, <2>2, Written
    <2>3. CASE v = 0 /\ r = 1
      BY <1>1, <1>2, <1>5, <1>8, <2>3, Written
    <2>4. CASE v = 1 /\ r = 1
      BY <1>1, <1>2, <1>5, <1>8, <2>4, Written
    <2> QED BY <2>1, <2>2, <2>3, <2>4
  <1>10. outstanding' \in Seq(Byte) /\ InPlace(cfg, outstanding', a, v, z, r, x, tx_fifo')
    <2>1. ASSUME tx_fifo_wr /\ ~tx_fifo_full
          PROVE  outstanding' = Append(left, w % (2 ^ Width(cfg))) /\ tx_fifo' = Append(kept, w)
      BY <1>1, <1>3, <1>6, <2>1 DEF Payload, w
    <2>2. ASSUME ~(tx_fifo_wr /\ ~tx_fifo_full)
          PROVE  outstanding' = left /\ tx_fifo' = kept
      BY <1>3, <1>6, <2>2
    <2> QED BY <1>2, <1>8, <1>9, <2>1, <2>2
  <1> QED BY <1>10, <1>h DEF x

LEMMA Silent ==
  ASSUME LinkTypes, NEW pop \in BOOLEAN, ClockEdge(pop), rx_state \in {"IDLE", "START"}
  PROVE  parity_err' = FALSE /\ framing_err' = FALSE
  <1>1. /\ \/ BetweenSamples \/ Listen \/ Start \/ Sample \/ Vote \/ CheckParity
           \/ Stop(rx_fifo_full)
        /\ parity_err = FALSE /\ framing_err = FALSE
    BY DEF ClockEdge, RxEdge, LinkTypes
  <1>2. BetweenSamples \/ Listen \/ Start
    BY <1>1 DEF Sample, Vote, CheckParity, Stop, In
  <1> QED BY <1>1, <1>2 DEF BetweenSamples, Listen, Start, rxData

\* After an edge, the byte z is the one on the line, if there is one.
Onward(z) ==
  /\ outstanding' \in Seq(Byte)
  /\ InPlace(cfg, outstanding', Arrived', Count(Unread'), z,
             Count(tx_state' = "START"), shift', tx_fifo')
  /\ Line' /\ FalseStart' /\ Receiving'
  /\ parity_err' = FALSE /\ framing_err' = FALSE
  /\ Unread' => Carried(z)'

LEMMA WhileQuiet ==
  ASSUME Tolerance, LinkInv, NEW pop \in BOOLEAN, ClockEdge(pop), ~Unread, ~At("START")
  PROVE  Onward(0)
  <1>1. Owed /\ LinkTypes /\ Sending /\ Line /\ FalseStart /\ Receiving /\ Board
    BY DEF LinkInv
  <1>2. /\ ~Unread' /\ Line' /\ FalseStart' /\ Receiving' /\ ~frame_done
    BY <1>1, Quiet
  <1>3. rx_state \in {"IDLE", "START"}
    BY <1>1 DEF Receiving, Spurious, LinkTypes, RxStates
  <1>4. parity_err' = FALSE /\ framing_err' = FALSE
    BY <1>1, <1>3, Silent
  <1>5. InPlace(cfg, outstanding, Arrived, 0, 0, Count(tx_state = "START"), shift, tx_fifo)
    <2>1. Count(Unread) = 0
      BY DEF Count
    <2>2. InPlace(cfg, outstanding, Arrived, 0, Sent, Count(tx_state = "START"), shift, tx_fifo)
      BY <1>1, <2>1 DEF Board
    <2> QED BY <2>2 DEF InPlace
  <1>6. /\ Arrived' = (IF pop /\ rx_fifo # <<>> THEN Tail(Arrived) ELSE Arrived)
        /\ rx_fifo # <<>> => Arrived # <<>>
        /\ Arrived \in Seq(Words) /\ outstanding \in Seq(Byte)
    BY <1>1, <1>2, ReceiveSide DEF LinkTypes
  <1>7. outstanding' = (LET left == IF pop /\ rx_fifo # <<>> THEN Tail(outstanding) ELSE outstanding
                        IN  IF tx_fifo_wr /\ ~tx_fifo_full THEN Append(left, Payload(tx_fifo_wdata)) ELSE left)
    BY <1>2 DEF ClockEdge, Scored
  <1>8. /\ outstanding' \in Seq(Byte)
        /\ InPlace(cfg, outstanding', Arrived', 0, 0, Count(tx_state' = "START"), shift', tx_fifo')
    BY <1>1, <1>5, <1>6, <1>7, TransmitSide
  <1>9. Count(Unread') = 0
    BY <1>2 DEF Count
  <1> QED BY <1>2, <1>4, <1>8, <1>9 DEF Onward

LEMMA AtTheStartBit ==
  ASSUME Tolerance, LinkInv, NEW pop \in BOOLEAN, ClockEdge(pop), At("START")
  PROVE  Payload(shift) \in Byte /\ Onward(Payload(shift))
  <1>1. Owed /\ LinkTypes /\ Sending /\ Line /\ FalseStart /\ Receiving /\ Board
    BY DEF LinkInv
  <1>2. Payload(shift) \in Byte
    <2>1. cfg \in Configs /\ shift \in Byte /\ DataBits = Width(cfg)
      BY <1>1, Ports DEF Owed, LinkTypes
    <2> QED BY <2>1, DataWord DEF Payload
  <1>3. PICK z \in Byte : z = Payload(shift)
    BY <1>2
  <1>4. ~Unread /\ Unread' /\ Carried(z)' /\ FalseStart' /\ Receiving' /\ ~frame_done
    BY <1>1, <1>3, Begins
  <1>5. rx_state \in {"IDLE", "START"}
    BY <1>1, <1>4 DEF Receiving, Spurious, LinkTypes, RxStates
  <1>6. parity_err' = FALSE /\ framing_err' = FALSE
    BY <1>1, <1>5, Silent
  <1>7. InPlace(cfg, outstanding, Arrived, 0, 0, Count(tx_state = "START"), shift, tx_fifo)
    <2>1. Count(Unread) = 0
      BY <1>4 DEF Count
    <2>2. InPlace(cfg, outstanding, Arrived, 0, Sent, Count(tx_state = "START"), shift, tx_fifo)
      BY <1>1, <2>1 DEF Board
    <2> QED BY <2>2 DEF InPlace
  <1>8. /\ Arrived' = (IF pop /\ rx_fifo # <<>> THEN Tail(Arrived) ELSE Arrived)
        /\ rx_fifo # <<>> => Arrived # <<>>
        /\ Arrived \in Seq(Words) /\ outstanding \in Seq(Byte)
    BY <1>1, <1>4, ReceiveSide DEF LinkTypes
  <1>9. outstanding' = (LET left == IF pop /\ rx_fifo # <<>> THEN Tail(outstanding) ELSE outstanding
                        IN  IF tx_fifo_wr /\ ~tx_fifo_full THEN Append(left, Payload(tx_fifo_wdata)) ELSE left)
    BY <1>4 DEF ClockEdge, Scored
  <1>10. /\ outstanding' \in Seq(Byte)
         /\ InPlace(cfg, outstanding', Arrived', 1, z, Count(tx_state' = "START"), shift', tx_fifo')
    BY <1>1, <1>3, <1>7, <1>8, <1>9, TransmitSide
  <1>11. Count(Unread') = 1
    BY <1>4 DEF Count
  <1>12. Line'
    BY <1>4 DEF Line
  <1>13. Onward(z)
    BY <1>4, <1>6, <1>10, <1>11, <1>12 DEF Onward
  <1> QED BY <1>2, <1>3, <1>13

\* What the scoreboard says of the byte on the line.
LEMMA OnTheWay ==
  ASSUME LinkTypes, Board, Unread
  PROVE  /\ Sent \in Byte /\ Sent < 2 ^ Width(cfg)
         /\ InPlace(cfg, outstanding, Arrived, 1, Sent, Count(tx_state = "START"), shift, tx_fifo)
  <1>1. Count(Unread) = 1
    BY DEF Count
  <1>2. InPlace(cfg, outstanding, Arrived, 1, Sent, Count(tx_state = "START"), shift, tx_fifo)
    BY <1>1 DEF Board
  <1>3. Sent < 2 ^ Width(cfg)
    BY <1>2 DEF InPlace
  <1>4. Sent \in Byte
    <2>1. Arrived \in Seq(Words)
      BY DEF Arrived, LinkTypes
    <2>2. Len(outstanding) = Len(Arrived) + 1 + Count(tx_state = "START") + Len(tx_fifo)
      BY <1>2 DEF InPlace
    <2>3. Count(tx_state = "START") \in Nat /\ Len(tx_fifo) \in Nat /\ Len(Arrived) \in Nat
      BY <2>1 DEF Count, LinkTypes
    <2>4. outstanding \in Seq(Byte) /\ Len(Arrived) + 1 \in 1 .. Len(outstanding)
      BY <2>2, <2>3 DEF LinkTypes
    <2>5. \A i \in 1 .. Len(outstanding) : outstanding[i] \in Byte
      BY <2>4
    <2> QED BY <2>4, <2>5 DEF Sent
  <1> QED BY <1>2, <1>3, <1>4

\* The receiver is looking for the byte on the line or taking it.
LEMMA WhileUnread ==
  ASSUME Tolerance, LinkInv, NEW pop \in BOOLEAN, ClockEdge(pop), Unread, ~frame_done
  PROVE  Onward(Sent)
  <1>1. Owed /\ LinkTypes /\ Sending /\ Line /\ FalseStart /\ Receiving /\ Board
    BY DEF LinkInv
  <1>2. /\ Sent \in Byte /\ Sent < 2 ^ Width(cfg)
        /\ InPlace(cfg, outstanding, Arrived, 1, Sent, Count(tx_state = "START"), shift, tx_fifo)
    BY <1>1, OnTheWay
  <1>3. PICK p \in Byte : p = Sent
    BY <1>2
  <1>4. Carried(p) /\ p < 2 ^ Width(cfg)
    BY <1>2, <1>3 DEF LinkInv
  <1>5. /\ Arrived' = (IF pop /\ rx_fifo # <<>> THEN Tail(Arrived) ELSE Arrived)
        /\ rx_fifo # <<>> => Arrived # <<>>
        /\ Arrived \in Seq(Words) /\ outstanding \in Seq(Byte)
    BY <1>1, ReceiveSide DEF LinkTypes
  <1>6. outstanding' = (LET left == IF pop /\ rx_fifo # <<>> THEN Tail(outstanding) ELSE outstanding
                        IN  IF tx_fifo_wr /\ ~tx_fifo_full THEN Append(left, Payload(tx_fifo_wdata)) ELSE left)
    BY DEF ClockEdge, Scored
  <1>7. ASSUME ~At("START")
        PROVE  /\ outstanding' \in Seq(Byte)
               /\ InPlace(cfg, outstanding', Arrived', 1, p, Count(tx_state' = "START"), shift', tx_fifo')
    <2>1. InPlace(cfg, outstanding, Arrived, 1, p, Count(tx_state = "START"), shift, tx_fifo)
      BY <1>2, <1>3
    <2> QED BY <1>1, <1>5, <1>6, <1>7, <2>1, TransmitSide
  <1>8. ~At("START")
    BY <1>1, Where DEF Unread, InFrame, At
  <1>9. /\ Unread' /\ Carried(p)' /\ FalseStart' /\ Receiving'
        /\ parity_err' = FALSE /\ framing_err' = FALSE
    <2>1. CASE ~Locked
      <3>1. Unread' /\ Carried(p)' /\ FalseStart' /\ Receiving'
        BY <1>1, <1>4, <2>1, Finds
      <3>2. rx_state \in {"IDLE", "START"}
        BY <2>1 DEF Locked, Spurious
      <3> QED BY <1>1, <3>1, <3>2, Silent
    <2>2. CASE Locked
      <3>1. Tuned(p)
        BY <1>1, <1>4, <2>2 DEF Tuned, Carried
      <3>2. Follows(p)
        BY <1>4, <3>1, FollowsOn
      <3>3. parity_err' = FALSE /\ framing_err' = FALSE
        BY <3>2 DEF Follows
      <3>4. LinkTypes'
        BY <1>1, <1>7, <1>8, <3>3, TypesEdge
      <3> QED BY <1>1, <1>4, <2>2, <3>2, <3>3, <3>4, Keeps
    <2> QED BY <2>1, <2>2
  <1>10. Count(Unread') = 1
    BY <1>9 DEF Count
  <1>11. Line'
    BY <1>9 DEF Line
  <1>12. Onward(p)
    BY <1>7, <1>8, <1>9, <1>10, <1>11 DEF Onward
  <1> QED BY <1>3, <1>12

\* The receiver has it: it goes into the receive FIFO, or is dropped.
LEMMA WhenDone ==
  ASSUME Tolerance, LinkInv, NEW pop \in BOOLEAN, ClockEdge(pop), frame_done
  PROVE  Onward(0)
  <1>1. Owed /\ LinkTypes /\ Sending /\ Line /\ FalseStart /\ Receiving /\ Board
    BY DEF LinkInv
  <1>2. Unread /\ Locked
    BY <1>1 DEF frame_done, In, Receiving, Spurious, Locked
  <1>3. /\ Sent \in Byte
        /\ InPlace(cfg, outstanding, Arrived, 1, Sent, Count(tx_state = "START"), shift, tx_fifo)
    BY <1>1, <1>2, OnTheWay
  <1>4. PICK p \in Byte : p = Sent
    BY <1>3
  <1>5. Carried(p)
    BY <1>2, <1>4 DEF LinkInv
  <1>6. /\ ~Unread' /\ Line' /\ FalseStart' /\ Receiving' /\ ~At("START")
        /\ Good(cfg, Entry, p) /\ parity_err' = FALSE /\ framing_err' = FALSE
    BY <1>1, <1>2, <1>5, Completes
  <1>7. /\ Arrived \in Seq(Words) /\ Entry \in Words /\ outstanding \in Seq(Byte)
        /\ Arrived = rx_fifo /\ (rx_fifo # <<>> => Arrived # <<>>)
    BY <1>1, ReceiveSide DEF LinkTypes
  <1>8. PICK q \in {0, 1} : q = Count(tx_state = "START")
    BY DEF Count
  <1>9. InPlace(cfg, outstanding, Arrived, 1, p, q, shift, tx_fifo) /\ tx_fifo \in Seq(Byte)
    BY <1>1, <1>3, <1>4, <1>8 DEF LinkTypes
  <1>10. /\ outstanding' \in Seq(Byte)
         /\ InPlace(cfg, outstanding', Arrived', 0, 0, Count(tx_state' = "START"), shift', tx_fifo')
    <2>1. CASE rx_fifo_full
      <3> DEFINE out == Seqs!RemoveAt(outstanding, Len(Arrived) + 1)
      <3>1. out \in Seq(Byte) /\ InPlace(cfg, out, Arrived, 0, 0, q, shift, tx_fifo)
        <4>1. CASE q = 0
          BY <1>7, <1>9, <4>1, Dropped
        <4>2. CASE q = 1
          BY <1>7, <1>9, <4>2, Dropped
        <4> QED BY <4>1, <4>2
      <3>2. Arrived' = (IF pop /\ rx_fifo # <<>> THEN Tail(Arrived) ELSE Arrived)
        BY <1>1, <2>1, ReceiveSide
      <3>3. outstanding' = (LET left == IF pop /\ rx_fifo # <<>> THEN Tail(out) ELSE out
                            IN  IF tx_fifo_wr /\ ~tx_fifo_full THEN Append(left, Payload(tx_fifo_wdata)) ELSE left)
        BY <1>7, <2>1 DEF ClockEdge, Scored
      <3> HIDE DEF out
      <3>4. InPlace(cfg, out, Arrived, 0, 0, Count(tx_state = "START"), shift, tx_fifo)
        BY <1>8, <3>1
      <3> QED BY <1>1, <1>6, <1>7, <3>1, <3>2, <3>3, <3>4, TransmitSide
    <2>2. CASE ~rx_fifo_full
      <3> DEFINE arrived == Append(Arrived, Entry)
      <3>1. arrived \in Seq(Words) /\ arrived # <<>>
        BY <1>7
      <3>2. InPlace(cfg, outstanding, arrived, 0, 0, q, shift, tx_fifo)
        BY <1>6, <1>7, <1>9, HandedOver
      <3>3. Arrived' = (IF pop /\ rx_fifo # <<>> THEN Tail(arrived) ELSE arrived)
        BY <1>1, <2>2, ReceiveSide
      <3>4. outstanding' = (LET left == IF pop /\ rx_fifo # <<>> THEN Tail(outstanding) ELSE outstanding
                            IN  IF tx_fifo_wr /\ ~tx_fifo_full THEN Append(left, Payload(tx_fifo_wdata)) ELSE left)
        BY <2>2 DEF ClockEdge, Scored
      <3> HIDE DEF arrived
      <3>5. InPlace(cfg, outstanding, arrived, 0, 0, Count(tx_state = "START"), shift, tx_fifo)
        BY <1>8, <3>2
      <3> QED BY <1>1, <1>6, <1>7, <3>1, <3>3, <3>4, <3>5, TransmitSide
    <2> QED BY <2>1, <2>2
  <1>11. Count(Unread') = 0
    BY <1>6 DEF Count
  <1> QED BY <1>6, <1>10, <1>11 DEF Onward

LEMMA LinkEdge ==
  ASSUME Tolerance, LinkInv, NEW pop \in BOOLEAN, ClockEdge(pop)
  PROVE  LinkInv'
  <1>1. Owed /\ LinkTypes /\ Sending /\ Receiving /\ Board
    BY DEF LinkInv
  <1>2. PICK z : Onward(z)
    <2>1. CASE frame_done
      BY <2>1, WhenDone
    <2>2. CASE ~frame_done /\ Unread
      BY <2>2, WhileUnread
    <2>3. CASE ~Unread /\ At("START")
      BY <2>3, AtTheStartBit
    <2>4. CASE ~Unread /\ ~At("START")
      BY <2>4, WhileQuiet
    <2> QED BY <2>1, <2>2, <2>3, <2>4
  <1>3. LinkTypes'
    BY <1>1, <1>2, TypesEdge DEF Onward
  <1>4. Owed' /\ Sending' /\ cfg' = cfg
    BY <1>1, OwedEdge, SendingEdge DEF ClockEdge
  <1>5. Unread' => Sent' = z
    <2> SUFFICES ASSUME Unread' PROVE Sent' = z
      OBVIOUS
    <2>1. Count(Unread') = 1
      BY DEF Count
    <2>2. outstanding'[Len(Arrived') + 1] = z
      BY <1>2, <2>1 DEF Onward, InPlace
    <2> QED BY <2>2 DEF Sent
  <1>6. Board'
    <2>1. InPlace(cfg, outstanding', Arrived', Count(Unread'), Sent', Count(tx_state' = "START"), shift', tx_fifo')
      <3>1. CASE Unread'
        BY <1>2, <1>5, <3>1 DEF Onward
      <3>2. CASE ~Unread'
        <4>1. Count(Unread') = 0
          BY <3>2 DEF Count
        <4>2. InPlace(cfg, outstanding', Arrived', 0, z, Count(tx_state' = "START"), shift', tx_fifo')
          BY <1>2, <4>1 DEF Onward
        <4>3. InPlace(cfg, outstanding', Arrived', 0, Sent', Count(tx_state' = "START"), shift', tx_fifo')
          BY <4>2 DEF InPlace
        <4> QED BY <4>1, <4>3
      <3> QED BY <3>1, <3>2
    <2>2. /\ rx_fifo_wr' => rx_state' = "IDLE" /\ ~rx_fifo_full'
          /\ Len(tx_fifo') <= TX_FIFO_DEPTH /\ Len(rx_fifo') <= RX_FIFO_DEPTH
      BY <1>1, ReceiveSide
    <2> QED BY <1>4, <2>1, <2>2 DEF Board
  <1>7. Unread' => \A p \in Byte : p = Sent' => Carried(p)'
    <2> SUFFICES ASSUME Unread', NEW p \in Byte, p = Sent' PROVE Carried(p)'
      OBVIOUS
    <2>1. p = z
      BY <1>5
    <2> QED BY <1>2, <2>1 DEF Onward
  <1> QED BY <1>2, <1>3, <1>4, <1>6, <1>7 DEF Onward, LinkInv

\* The tolerance is met, whatever the frame formats, by any one divisor from 384 on
\* and by any one that is a whole number of samples.
LEMMA Tolerated ==
  ASSUME NEW d \in Nat, \A c \in Configs : c.div = d, d >= 384 \/ d % 16 = 15
  PROVE  Tolerance
  <1> SUFFICES ASSUME NEW a \in Configs, NEW c \in Configs
               PROVE  SampleDiv(a) + Drift(c, StopAt(c) + 1) + 5 <= Samples(c, 8)
    BY DEF Tolerance, InTime
  <1> DEFINE s == d \div 16
             l == 16 * (s + 1) - (d + 1)
  <1>1. /\ s \in Nat /\ l \in 0 .. 15
        /\ d % 16 = 15 => l = 0
        /\ d >= 384 => s >= 24
    OBVIOUS
  <1>2. SampleDiv(a) = s /\ SampleTime(c) = s + 1 /\ Late(c) = l
    BY DEF SampleDiv, SampleTime, Late, Clocks
  <1> HIDE DEF s, l
  <1>3. StopAt(c) + 1 \in Nat /\ StopAt(c) + 1 <= 11
    <2>1. StopAt(c) \in 2 .. 10
      BY Config
    <2> QED BY <2>1
  <1>4. Drift(c, StopAt(c) + 1) <= Drift(c, 11) /\ Drift(c, StopAt(c) + 1) \in Nat
    BY <1>3, Drifts
  <1>5. Drift(c, 11) = l * 11 /\ Samples(c, 8) = (s + 1) * 8
    BY <1>2 DEF Drift, Samples
  <1>6. s + l * 11 + 5 <= (s + 1) * 8
    BY <1>1
  <1> QED BY <1>1, <1>2, <1>4, <1>5, <1>6

\* Where nothing is on its way.
LEMMA Empty ==
  ASSUME NEW c, NEW y, NEW x
  PROVE  InPlace(c, <<>>, <<>>, 0, y, 0, x, <<>>)
  BY DEF InPlace

LEMMA LinkReset ==
  ASSUME Tolerance, LinkInv, Reset
  PROVE  LinkInv'
  <1>1. Owed /\ LinkTypes /\ Receiving
    BY DEF LinkInv
  <1>2. Owed'
    BY <1>1, OwedNext DEF Next
  <1>3. /\ tx_state' = "IDLE" /\ tx' = 1 /\ ~tx_fifo_rd' /\ ~fetch_pending' /\ tx_fifo_rd' = FALSE
        /\ fetch_pending' = FALSE /\ shift' = 255 /\ bit_cnt' = 0 /\ parity_acc' = 0
        /\ tx_fifo_wr' = FALSE /\ tx_fifo_wdata' = 0 /\ owed' = 0 /\ cfg' \in Configs
    BY DEF Reset, TxReset
  <1>4. /\ rx_state' = "IDLE" /\ phase' = 0 /\ rx_fifo_wr' = FALSE /\ os_cnt' = os_div
        /\ rx_s' = <<tx, rx_s[1], rx_s[2]>>
        /\ rx_shift' = rx_shift /\ rx_bit_cnt' = rx_bit_cnt /\ rx_parity_acc' = rx_parity_acc
        /\ vote_buf' = vote_buf /\ framing_err' = framing_err /\ parity_err' = parity_err
        /\ rx_fifo_data' = rx_fifo_data
    BY DEF Reset, RxReset, Synchronise, rxData
  <1>5. tx_fifo' = <<>> /\ rx_fifo' = <<>> /\ outstanding' = <<>>
    BY DEF Reset, TxFifo!Clear, RxFifo!Clear
  <1>6. os_div \in Nat /\ InTime(os_div)
    <2>1. cfg \in Configs
      BY <1>1 DEF Owed
    <2>2. os_div = SampleDiv(cfg) /\ SampleDiv(cfg) \in Nat
      BY <2>1, Config, Ports
    <2> QED BY <2>1, <2>2 DEF Tolerance
  <1>7. LinkTypes'
    <2>1. rx_s' \in Three
      <3>1. tx \in Bit /\ rx_s \in Three
        BY <1>1 DEF LinkTypes
      <3> QED BY <1>4, <3>1 DEF Three
    <2>2. 255 \in Byte /\ 0 \in Byte /\ 0 \in Bit /\ 1 \in Bit /\ 0 \in 0 .. 7 /\ 0 \in 0 .. 15 /\ "IDLE" \in RxStates
      BY DEF Byte, Bit, RxStates
    <2>3. /\ rx_shift \in Byte /\ rx_bit_cnt \in 0 .. 7 /\ rx_parity_acc \in Bit /\ vote_buf \in Three
          /\ framing_err = FALSE /\ parity_err = FALSE /\ rx_fifo_data \in Words
      BY <1>1 DEF LinkTypes
    <2>4. tx_fifo' \in Seq(Byte) /\ rx_fifo' \in Seq(Words) /\ outstanding' \in Seq(Byte)
      BY <1>5
    <2> QED BY <1>3, <1>4, <1>6, <2>1, <2>2, <2>3, <2>4 DEF LinkTypes
  <1>8. ~Unread' /\ rx_state' # "START"
    BY <1>3, <1>4 DEF Unread, InFrame
  <1>9. Sending'
    BY <1>3 DEF Sending
  <1>10. Line' /\ FalseStart' /\ Receiving'
    <2>1. ~Spurious' /\ ~Locked'
      BY <1>8 DEF Spurious, Locked
    <2> QED BY <1>3, <1>4, <1>5, <1>6, <1>8, <2>1 DEF Line, FalseStart, Receiving, InFrame
  <1>11. Board'
    <2>1. Arrived' = <<>> /\ Count(Unread') = 0 /\ Count(tx_state' = "START") = 0
      BY <1>3, <1>4, <1>5, <1>8 DEF Arrived, Count
    <2>2. Len(<<>>) = 0 /\ 0 <= TX_FIFO_DEPTH /\ 0 <= RX_FIFO_DEPTH
      BY LinkAssumption
    <2>3. InPlace(cfg', <<>>, <<>>, 0, Sent', 0, shift', <<>>)
      BY Empty
    <2> QED BY <1>4, <1>5, <2>1, <2>2, <2>3 DEF Board
  <1> QED BY <1>2, <1>7, <1>8, <1>9, <1>10, <1>11 DEF LinkInv

LEMMA LinkConfigure ==
  ASSUME Tolerance, LinkInv, Configure
  PROVE  LinkInv'
  <1>1. Owed /\ LinkTypes /\ Sending /\ Line /\ FalseStart /\ Receiving /\ Board
    BY DEF LinkInv
  <1>2. Owed'
    BY <1>1, OwedNext DEF Next
  <1>3. /\ tx_state = "IDLE" /\ rx_state = "IDLE" /\ owed = 0 /\ outstanding = <<>>
        /\ UNCHANGED <<tx_state, baud_cnt, shift, bit_cnt, parity_acc, frame, tx_fifo_rd, fetch_pending, tx>>
        /\ UNCHANGED <<rx_s, os_cnt, rx_state, phase, rx_shift, rx_bit_cnt, rx_parity_acc, rx_frame, vote_buf,
                       framing_err, parity_err, rx_fifo_wr, rx_fifo_data>>
        /\ UNCHANGED <<tx_fifo_wr, tx_fifo_wdata, tx_fifo, rx_fifo, outstanding, owed>>
    BY DEF Configure, txVars, rxVars, rxData, rxOut, history
  <1>4. LinkTypes'
    BY <1>1, <1>3 DEF LinkTypes
  <1>5. ~Unread' /\ rx_state' # "START" /\ ~Unread
    BY <1>3 DEF Unread, InFrame
  <1>6. Sending'
    BY <1>1, <1>3 DEF Sending
  <1>7. Line'
    BY <1>1, <1>3, <1>5 DEF Line
  <1>8. FalseStart' /\ Receiving'
    <2>1. ~Spurious' /\ ~Locked'
      BY <1>3, <1>5 DEF Spurious, Locked
    <2> QED BY <1>1, <1>3, <1>5, <2>1 DEF FalseStart, Receiving, InFrame
  <1>9. Board'
    <2>1. Arrived \in Seq(Words) /\ tx_fifo \in Seq(Byte) /\ Len(outstanding) = 0
      BY <1>1, <1>3 DEF Arrived, LinkTypes
    <2>2. Len(Arrived) = 0 /\ Len(tx_fifo) = 0
      <3>1. Len(outstanding) = Len(Arrived) + Count(Unread) + Count(tx_state = "START") + Len(tx_fifo)
        BY <1>1 DEF Board, InPlace
      <3>2. Count(Unread) = 0 /\ Count(tx_state = "START") = 0
        BY <1>3, <1>5 DEF Count
      <3>3. Len(Arrived) \in Nat /\ Len(tx_fifo) \in Nat
        BY <2>1
      <3> QED BY <2>1, <3>1, <3>2, <3>3
    <2>3. Arrived = <<>> /\ tx_fifo = <<>>
      BY <2>1, <2>2
    <2>4. /\ Arrived' = <<>> /\ tx_fifo' = <<>> /\ outstanding' = <<>>
          /\ Count(Unread') = 0 /\ Count(tx_state' = "START") = 0
      BY <1>3, <1>5, <2>3 DEF Arrived, Count
    <2>5. InPlace(cfg', <<>>, <<>>, 0, Sent', 0, shift', <<>>)
      BY Empty
    <2>6. /\ rx_fifo_wr' => rx_state' = "IDLE" /\ ~rx_fifo_full'
          /\ Len(tx_fifo') <= TX_FIFO_DEPTH /\ Len(rx_fifo') <= RX_FIFO_DEPTH
      BY <1>1, <1>3 DEF Board, rx_fifo_full
    <2> QED BY <2>4, <2>5, <2>6 DEF Board
  <1> QED BY <1>2, <1>4, <1>5, <1>6, <1>7, <1>8, <1>9 DEF LinkInv

LEMMA LinkStutter ==
  ASSUME LinkInv, UNCHANGED vars
  PROVE  LinkInv'
  <1>1. /\ UNCHANGED <<cfg, tx_state, baud_cnt, shift, bit_cnt, parity_acc, frame, tx_fifo_rd, fetch_pending, tx>>
        /\ UNCHANGED <<rx_s, os_cnt, rx_state, phase, rx_shift, rx_bit_cnt, rx_parity_acc, rx_frame, vote_buf,
                       framing_err, parity_err, rx_fifo_wr, rx_fifo_data>>
        /\ UNCHANGED <<tx_fifo_wr, tx_fifo_wdata, tx_fifo, rx_fifo, outstanding, owed>>
    BY DEF vars, txVars, rxVars, rxData, rxOut, history
  <1>2. /\ InFrame' = InFrame /\ LineBit' = LineBit /\ LastBit' = LastBit /\ Arrived' = Arrived
        /\ RxBit' = RxBit /\ RxPhase' = RxPhase /\ os_div' = os_div
        /\ rx_fifo_full' = rx_fifo_full /\ BitTime' = BitTime
    BY <1>1 DEF InFrame, LineBit, LastBit, Arrived, RxBit, RxPhase, os_div, rx_fifo_full, BitTime
  <1>3. Into' = Into /\ RxPos' = RxPos /\ Unread' = Unread /\ Sent' = Sent
    BY <1>1, <1>2 DEF Into, RxPos, Unread, Sent
  <1>4. Now' = Now
    BY <1>1, <1>2, <1>3 DEF Now
  <1>5. Lag' = Lag /\ Spurious' = Spurious
    BY <1>1, <1>3, <1>4 DEF Lag, Spurious
  <1>6. Locked' = Locked
    BY <1>1, <1>3, <1>5 DEF Locked
  <1>7. Owed' /\ LinkTypes' /\ Sending'
    BY <1>1, <1>2 DEF LinkInv, Owed, LinkTypes, Sending
  <1>8. Line' /\ FalseStart' /\ Receiving'
    BY <1>1, <1>2, <1>3, <1>4, <1>5, <1>6 DEF LinkInv, Line, FalseStart, Receiving
  <1>9. Board'
    BY <1>1, <1>2, <1>3 DEF LinkInv, Board
  <1>10. ASSUME NEW p \in Byte, Carried(p) PROVE Carried(p)'
    BY <1>1, <1>2, <1>3, <1>10 DEF Carried, ToSend, OnLine, Taken
  <1> QED BY <1>3, <1>7, <1>8, <1>9, <1>10 DEF LinkInv

LEMMA LinkInit ==
  ASSUME Tolerance, Init
  PROVE  LinkInv
  <1>1. /\ cfg \in Configs /\ tx_state = "IDLE" /\ baud_cnt = 0 /\ tx_fifo_rd = FALSE /\ fetch_pending = FALSE
        /\ tx = 1 /\ shift = 255 /\ bit_cnt = 0 /\ parity_acc = 0
        /\ tx_fifo_wr = FALSE /\ tx_fifo_wdata = 0 /\ tx_fifo = <<>> /\ rx_fifo = <<>>
        /\ outstanding = <<>> /\ owed = 0
    BY DEF Init, TxInit, TxFifo!Init, RxFifo!Init
  <1>2. /\ rx_s = <<1, 1, 1>> /\ os_cnt = os_div /\ rx_state = "IDLE" /\ phase = 0
        /\ rx_shift = 0 /\ rx_bit_cnt = 0 /\ rx_parity_acc = 0 /\ vote_buf = <<0, 0, 0>>
        /\ framing_err = FALSE /\ parity_err = FALSE /\ rx_fifo_wr = FALSE /\ rx_fifo_data = Entry
    BY DEF Init, RxInit
  <1>3. os_div \in Nat /\ InTime(os_div)
    <2>1. os_div = SampleDiv(cfg) /\ SampleDiv(cfg) \in Nat
      BY <1>1, Config, Ports
    <2> QED BY <1>1, <2>1 DEF Tolerance
  <1>4. Owed
    BY <1>1, LinkAssumption DEF Owed, TxStates
  <1>5. LinkTypes
    <2>1. <<1, 1, 1>> \in Three /\ <<0, 0, 0>> \in Three
      BY DEF Three, Bit
    <2>2. 255 \in Byte /\ 0 \in Byte /\ 0 \in Bit /\ 1 \in Bit /\ 0 \in 0 .. 7 /\ 0 \in 0 .. 15 /\ "IDLE" \in RxStates
      BY DEF Byte, Bit, RxStates
    <2>3. rx_fifo_data \in Words
      <3>1. rx_fifo_data = [parity_err |-> FALSE, framing_err |-> FALSE, data |-> 0]
        BY <1>2 DEF Entry
      <3>2. 0 \in 0 .. 255 /\ FALSE \in BOOLEAN
        OBVIOUS
      <3> QED BY <3>1, <3>2 DEF Words
    <2>4. tx_fifo \in Seq(Byte) /\ rx_fifo \in Seq(Words) /\ outstanding \in Seq(Byte)
      BY <1>1
    <2> QED BY <1>1, <1>2, <1>3, <2>1, <2>2, <2>3, <2>4 DEF LinkTypes
  <1>6. ~Unread /\ rx_state # "START" /\ ~Spurious /\ ~Locked
    BY <1>1, <1>2 DEF Unread, InFrame, Spurious, Locked
  <1>7. Sending
    BY <1>1 DEF Sending
  <1>8. Line /\ FalseStart /\ Receiving
    BY <1>1, <1>2, <1>3, <1>6 DEF Line, FalseStart, Receiving, InFrame
  <1>9. Board
    <2>1. Arrived = <<>> /\ Count(Unread) = 0 /\ Count(tx_state = "START") = 0
      BY <1>1, <1>2, <1>6 DEF Arrived, Count
    <2>2. Len(<<>>) = 0 /\ 0 <= TX_FIFO_DEPTH /\ 0 <= RX_FIFO_DEPTH
      BY LinkAssumption
    <2>3. InPlace(cfg, <<>>, <<>>, 0, Sent, 0, shift, <<>>)
      BY Empty
    <2> QED BY <1>1, <1>2, <2>1, <2>2, <2>3 DEF Board
  <1> QED BY <1>4, <1>5, <1>6, <1>7, <1>8, <1>9 DEF LinkInv

LEMMA LinkInvariant == Tolerance => (Spec => []LinkInv)
  <1> SUFFICES ASSUME Tolerance PROVE Spec => []LinkInv
    OBVIOUS
  <1>1. Init => LinkInv
    BY LinkInit
  <1>2. LinkInv /\ [Next]_vars => LinkInv'
    <2> SUFFICES ASSUME LinkInv, [Next]_vars PROVE LinkInv'
      OBVIOUS
    <2>1. CASE Running
      BY <2>1, LinkEdge DEF Running
    <2>2. CASE Reset
      BY <2>2, LinkReset
    <2>3. CASE Configure
      BY <2>3, LinkConfigure
    <2>4. CASE UNCHANGED vars
      BY <2>4, LinkStutter
    <2> QED BY <2>1, <2>2, <2>3, <2>4 DEF Next
  <1> QED BY <1>1, <1>2, PTL DEF Spec

LEMMA WhatArrived ==
  ASSUME LinkInv
  PROVE  /\ DOMAIN Arrived = 1 .. Len(Arrived) /\ Len(Arrived) <= Len(outstanding) /\ cfg \in Configs
         /\ \A i \in 1 .. Len(Arrived) : Good(cfg, Arrived[i], outstanding[i])
  <1>1. LinkTypes /\ cfg \in Configs
    BY DEF LinkInv, Owed
  <1>2. Arrived \in Seq(Words) /\ outstanding \in Seq(Byte) /\ tx_fifo \in Seq(Byte)
    BY <1>1 DEF Arrived, LinkTypes
  <1>3. InPlace(cfg, outstanding, Arrived, Count(Unread), Sent, Count(tx_state = "START"), shift, tx_fifo)
    BY DEF LinkInv, Board
  <1>4. Len(outstanding) = Len(Arrived) + Count(Unread) + Count(tx_state = "START") + Len(tx_fifo)
    BY <1>3 DEF InPlace
  <1>5. /\ Count(Unread) \in Nat /\ Count(tx_state = "START") \in Nat
        /\ Len(Arrived) \in Nat /\ Len(tx_fifo) \in Nat
    BY <1>2 DEF Count
  <1>6. \A i \in 1 .. Len(Arrived) : Good(cfg, Arrived[i], outstanding[i])
    BY <1>3 DEF InPlace
  <1>7. DOMAIN Arrived = 1 .. Len(Arrived)
    BY <1>2
  <1>8. Len(Arrived) <= Len(outstanding)
    BY <1>4, <1>5
  <1> QED BY <1>1, <1>6, <1>7, <1>8, Zenon

Units == {1, 2, 4, 8, 16, 32, 64, 128}

LEMMA WordUnit ==
  ASSUME cfg \in Configs
  PROVE  2 ^ (8 - Width(cfg)) \in Units
  <1>1. \A k \in 1 .. 8 : 2 ^ (8 - k) \in Units
    <2> SUFFICES ASSUME NEW k \in 1 .. 8 PROVE 2 ^ (8 - k) \in Units
      OBVIOUS
    <2>1. CASE k = 1 BY <2>1, Powers DEF Units
    <2>2. CASE k = 2 BY <2>2, Powers DEF Units
    <2>3. CASE k = 3 BY <2>3, Powers DEF Units
    <2>4. CASE k = 4 BY <2>4, Powers DEF Units
    <2>5. CASE k = 5 BY <2>5, Powers DEF Units
    <2>6. CASE k = 6 BY <2>6, Powers DEF Units
    <2>7. CASE k = 7 BY <2>7, Powers DEF Units
    <2>8. CASE k = 8 BY <2>8, Powers DEF Units
    <2> QED BY <2>1, <2>2, <2>3, <2>4, <2>5, <2>6, <2>7, <2>8
  <1> QED BY <1>1, Config

LEMMA ArrivedWords ==
  ASSUME LinkInv, NEW i \in 1 .. Len(Arrived)
  PROVE  Arrived[i] \in Words
  <1>1. LinkTypes
    BY DEF LinkInv
  <1>2. Arrived \in Seq(Words)
    BY <1>1 DEF Arrived, LinkTypes
  <1> QED BY <1>2

\* A word whose high bits are the byte, and what is below them.
LEMMA HighBits ==
  ASSUME NEW word \in Byte, NEW unit \in Units, NEW byte, word \div unit = byte
  PROVE  \E stale \in 0 .. unit - 1 : word = byte * unit + stale
  <1>1. CASE unit = 1   BY <1>1 DEF Byte
  <1>2. CASE unit = 2   BY <1>2 DEF Byte
  <1>3. CASE unit = 4   BY <1>3 DEF Byte
  <1>4. CASE unit = 8   BY <1>4 DEF Byte
  <1>5. CASE unit = 16  BY <1>5 DEF Byte
  <1>6. CASE unit = 32  BY <1>6 DEF Byte
  <1>7. CASE unit = 64  BY <1>7 DEF Byte
  <1>8. CASE unit = 128 BY <1>8 DEF Byte
  <1> QED BY <1>1, <1>2, <1>3, <1>4, <1>5, <1>6, <1>7, <1>8 DEF Units

LEMMA WholeByte ==
  ASSUME NEW word \in Byte, NEW unit, NEW byte, unit = 1, word \div unit = byte
  PROVE  word = byte
  BY DEF Byte

\* Whatever the divisors, frame formats, FIFO depths and bytes, as long as they are
\* within the sampling tolerance, a word is read for every byte written, in order,
\* but for an overrun, with the byte in its high bits, through resets and
\* reconfigurations (uart_tx.sv:82-121, uart_rx.sv:113-195).
THEOREM ReadBack == Tolerance => (Spec => []ArrivesInOrder)
  <1>1. ASSUME LinkInv PROVE ArrivesInOrder
    <2>1. /\ DOMAIN Arrived = 1 .. Len(Arrived) /\ Len(Arrived) <= Len(outstanding) /\ cfg \in Configs
          /\ \A i \in 1 .. Len(Arrived) : Good(cfg, Arrived[i], outstanding[i])
      BY <1>1, WhatArrived
    <2>2. Spare = 8 - Width(cfg) /\ 2 ^ Spare \in Units
      BY <2>1, Ports, WordUnit DEF Spare
    <2>3. ASSUME NEW i \in 1 .. Len(Arrived)
          PROVE  \E stale \in 0 .. 2 ^ Spare - 1 :
                   Arrived[i].data = outstanding[i] * 2 ^ Spare + stale
      <3>1. Arrived[i].data \div 2 ^ Spare = outstanding[i]
        BY <2>1, <2>2, <2>3 DEF Good
      <3>2. Arrived[i].data \in 0 .. 255
        BY <1>1, <2>3, ArrivedWords DEF Words
      <3>3. Arrived[i].data \in Byte
        BY <3>2 DEF Byte
      <3> DEFINE word == Arrived[i].data
                 unit == 2 ^ Spare
                 byte == outstanding[i]
      <3>4. word \in Byte /\ unit \in Units /\ word \div unit = byte
        BY <2>2, <3>1, <3>3
      <3>5. \E stale \in 0 .. unit - 1 : word = byte * unit + stale
        <4> HIDE DEF word, unit, byte
        <4> QED BY <3>4, HighBits
      <3> QED BY <3>5
    <2> QED BY <2>1, <2>3 DEF ArrivesInOrder
  <1> QED BY <1>1, LinkInvariant, PTL

\* With 8 data bits throughout, what is read is what was written: tb_uart.sv:162
\* compares the two, and its phase 1 has such frames at a divisor within the
\* tolerance (tb_uart.sv:217-221, uart_rx.sv:154).
THEOREM Unaltered ==
  Tolerance /\ (\A c \in Configs : c.data_bits = 0) =>
    (Spec => [](\A i \in DOMAIN Arrived : Arrived[i].data = outstanding[i]))
  <1> SUFFICES ASSUME Tolerance, \A c \in Configs : c.data_bits = 0
               PROVE  Spec => [](\A i \in DOMAIN Arrived : Arrived[i].data = outstanding[i])
    OBVIOUS
  <1>1. ASSUME LinkInv PROVE \A i \in DOMAIN Arrived : Arrived[i].data = outstanding[i]
    <2>1. /\ DOMAIN Arrived = 1 .. Len(Arrived) /\ cfg \in Configs
          /\ \A i \in 1 .. Len(Arrived) : Good(cfg, Arrived[i], outstanding[i])
      BY <1>1, WhatArrived
    <2>2. 2 ^ (8 - Width(cfg)) = 1
      <3>1. cfg.data_bits = 0
        BY <2>1
      <3>2. Width(cfg) = 8
        BY <3>1 DEF Width
      <3> QED BY <3>2, Powers
    <2>3. ASSUME NEW i \in 1 .. Len(Arrived) PROVE Arrived[i].data = outstanding[i]
      <3>3. Arrived[i].data \div (2 ^ (8 - Width(cfg))) = outstanding[i]
        BY <2>1, <2>3 DEF Good
      <3>1. Arrived[i].data \in 0 .. 255
        BY <1>1, <2>3, ArrivedWords DEF Words
      <3>2. Arrived[i].data \in Byte
        BY <3>1 DEF Byte
      <3> QED BY <2>2, <3>2, <3>3, WholeByte, Zenon
    <2> QED BY <2>1, <2>3
  <1> QED BY <1>1, LinkInvariant, PTL

\* Nor does a byte arrive with an error flag: no vote, parity check or stop bit is
\* ever taken outside its bit (uart_rx.sv:113-186, tb_uart.sv:171-174).
THEOREM CleanLine == Tolerance => (Spec => []NoFalseErrors)
  <1>1. LinkInv => NoFalseErrors
    BY WhatArrived DEF Good, NoFalseErrors
  <1> QED BY <1>1, LinkInvariant, PTL
=============================================================================
