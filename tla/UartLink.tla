------------------------------ MODULE UartLink ------------------------------
(***************************************************************************)
(* The UART looped back, as tb_uart connects it: transmit FIFO, transmit   *)
(* engine, line, receive engine, receive FIFO, in one clock domain.  The   *)
(* host's side is the FIFO ports uart_core's registers drive.              *)
(***************************************************************************)
EXTENDS UartTx, UartRx, Sequences

CONSTANTS
  TX_FIFO_DEPTH, RX_FIFO_DEPTH,
  Bytes,        \* the bytes the host sends
  Configs,      \* the configurations it sets
  ResetPoints   \* bound: where in the receiver's frame reset is explored

\* data_bits is the three bits of CTRL that hold 8 as 0.
ASSUME LinkAssumption ==
  /\ TX_FIFO_DEPTH \in Nat /\ RX_FIFO_DEPTH \in Nat /\ Bytes \subseteq 0 .. 255
  /\ \A c \in Configs : c.div \in Nat /\ c.data_bits \in 0 .. 7 /\ c.parity \in Parity
                        /\ c.stop2 \in BOOLEAN

VARIABLES
  tx_fifo_wr, tx_fifo_wdata,           \* uart_core's registered write
  tx_fifo, rx_fifo,                    \* the queues SyncFifo implements
  outstanding,   \* what was accepted and not yet read, oldest first
  owed           \* clocks of stop bit still to come on the line

Words == [parity_err : BOOLEAN, framing_err : BOOLEAN, data : 0 .. 255]

TxFifo == INSTANCE BoundedQueue WITH
  DEPTH <- TX_FIFO_DEPTH, Word <- 0 .. 255, queue <- tx_fifo
RxFifo == INSTANCE BoundedQueue WITH
  DEPTH <- RX_FIFO_DEPTH, Word <- Words, queue <- rx_fifo
Seqs == INSTANCE SequencesExt

history == <<outstanding, owed>>
vars    == <<cfg, txVars, rxVars, tx_fifo_wr, tx_fifo_wdata, tx_fifo, rx_fifo, history>>

tx_fifo_full  == Len(tx_fifo) = TX_FIFO_DEPTH
rx_fifo_full  == Len(rx_fifo) = RX_FIFO_DEPTH
tx_fifo_empty == tx_fifo = <<>>

\* The word at the read pointer; nothing looks at it in an empty FIFO.
tx_fifo_rdata == IF tx_fifo_empty THEN 0 ELSE Head(tx_fifo)

BitTime  == cfg.div + 1
DataBits == LastBit + 1
Payload(byte) == byte % (2 ^ DataBits)

\* A write is accepted with room in the FIFO; APB puts two clocks between writes.
HostWrite ==
  \/ /\ ~tx_fifo_full /\ ~tx_fifo_wr
     /\ tx_fifo_wr' = TRUE
     /\ tx_fifo_wdata' \in Bytes
  \/ tx_fifo_wr' = FALSE /\ tx_fifo_wdata' = 0

\* The scoreboard: what the edge accepts, hands over, or drops for want of room.
Scored(pop) ==
  LET kept == IF frame_done /\ rx_fifo_full
                THEN Seqs!RemoveAt(outstanding, Len(rx_fifo) + 1) ELSE outstanding
      left == IF pop /\ rx_fifo # <<>> THEN Tail(kept) ELSE kept
  IN  IF tx_fifo_wr /\ ~tx_fifo_full THEN Append(left, Payload(tx_fifo_wdata)) ELSE left

ClockEdge(pop) ==
  /\ TxEdge(tx_fifo_empty, tx_fifo_rdata)
  /\ RxEdge(tx, rx_fifo_full)
  /\ TxFifo!Edge(tx_fifo_wr, tx_fifo_wdata, tx_fifo_rd)
  /\ RxFifo!Edge(rx_fifo_wr, rx_fifo_data, pop)
  /\ HostWrite
  /\ outstanding' = Scored(pop)
  /\ owed' = IF At("STOP1") THEN (IF frame.stop2 THEN 2 ELSE 1) * BitTime - 1
             ELSE IF owed = 0 THEN 0 ELSE owed - 1
  /\ UNCHANGED cfg

Reset ==
  /\ <<rx_state, rx_bit_cnt, phase>> \in ResetPoints
  /\ TxReset
  /\ RxReset(tx)
  /\ TxFifo!Clear
  /\ RxFifo!Clear
  /\ tx_fifo_wr' = FALSE /\ tx_fifo_wdata' = 0
  /\ cfg' \in Configs
  /\ outstanding' = <<>> /\ owed' = 0

\* Software writes DIV and CTRL once the last burst has been read back.
Configure ==
  /\ outstanding = <<>> /\ ~tx_fifo_wr
  /\ tx_state = "IDLE" /\ rx_state = "IDLE" /\ owed = 0
  /\ cfg' \in Configs
  /\ UNCHANGED <<txVars, rxVars, tx_fifo_wr, tx_fifo_wdata, tx_fifo, rx_fifo, history>>

Init ==
  /\ cfg \in Configs
  /\ TxInit
  /\ RxInit
  /\ tx_fifo_wr = FALSE /\ tx_fifo_wdata = 0
  /\ TxFifo!Init /\ RxFifo!Init
  /\ outstanding = <<>> /\ owed = 0

Running == \E pop \in BOOLEAN : ClockEdge(pop)

Next == Running \/ Reset \/ Configure

\* The clock does not stop.
Spec == Init /\ [][Next]_vars /\ WF_vars(Running)

-----------------------------------------------------------------------------
(* Properties.                                                             *)

\* What the receive FIFO holds, with the word about to be pushed.
Arrived == IF rx_fifo_wr THEN Append(rx_fifo, rx_fifo_data) ELSE rx_fifo

\* The bits of a word that a short frame does not shift out of the receiver.
Spare == 8 - DataBits

\* Words arrive in the order their bytes were written, none invented or repeated
\* and none lost but for an overrun.  A frame of 8 data bits hands over the byte
\* sent.  A shorter one does not: its byte is in the high bits of the word, above
\* bits left by the frame before, so tb_uart.sv:162, which compares the word as it
\* is read, fails on it (uart_tx.sv:82-121, uart_rx.sv:154, 178-190).
ArrivesInOrder ==
  /\ Len(Arrived) <= Len(outstanding)
  /\ \A i \in DOMAIN Arrived :
       \E stale \in 0 .. 2 ^ Spare - 1 :
         Arrived[i].data = outstanding[i] * 2 ^ Spare + stale

\* On a clean line no byte arrives with an error flag (uart_rx.sv:166-186,
\* tb_uart.sv:171-174).
NoFalseErrors ==
  \A i \in DOMAIN Arrived : ~Arrived[i].parity_err /\ ~Arrived[i].framing_err

\* A start bit follows the whole of the previous frame's stop bits, though the
\* engine is idle again from their first clock on (uart_tx.sv:72-79, 142-150).
StopBitsWhole == At("START") => owed = 0

\* While an accepted byte has not arrived, the receiver keeps completing frames:
\* neither engine waits for ever on the other, the FIFO or its own counters
\* (uart_tx.sv:82-97, uart_rx.sv:113-195).
Waiting  == Len(outstanding) > Len(Arrived)
Delivers == Waiting ~> (frame_done \/ ~Waiting)
=============================================================================
