------------------------------- MODULE UartTx -------------------------------
(***************************************************************************)
(* modules/uart-spi: the transmit engine, one step per clock edge.  A byte *)
(* is the number in its eight bits.                                        *)
(***************************************************************************)
EXTENDS UartFrame

VARIABLES
  tx_state, baud_cnt,
  shift, bit_cnt, parity_acc,
  frame,          \* configuration latched for the frame: [m1, parity, stop2]
  tx_fifo_rd, fetch_pending,
  tx              \* the line

txVars == <<tx_state, baud_cnt, shift, bit_cnt, parity_acc, frame,
            tx_fifo_rd, fetch_pending, tx>>

baud_tick == baud_cnt = 0

\* Bug variants: reloaded on every clock; cleared, not reloaded, in idle.
BaudHeld    == baud_cnt' = cfg.div
BaudCleared == baud_cnt' = IF tx_state = "IDLE" THEN 0
                           ELSE IF baud_tick THEN cfg.div ELSE baud_cnt - 1

Baud == baud_cnt' = IF tx_state = "IDLE" \/ baud_tick THEN cfg.div ELSE baud_cnt - 1

\* One read of the FIFO for each frame.
Fetch(tx_fifo_empty) ==
  LET ask == tx_state = "IDLE" /\ ~tx_fifo_empty /\ ~fetch_pending
  IN  /\ tx_fifo_rd' = ask
      /\ fetch_pending' = (ask \/ (fetch_pending /\ tx_state = "IDLE"))

Idle ==
  /\ tx_state = "IDLE" /\ ~fetch_pending
  /\ tx' = 1
  /\ UNCHANGED <<tx_state, shift, bit_cnt, parity_acc, frame>>

Latch(tx_fifo_data) ==
  /\ tx_state = "IDLE" /\ fetch_pending
  /\ tx' = 1
  /\ shift' = tx_fifo_data
  /\ frame' = [m1 |-> LastBit, parity |-> cfg.parity, stop2 |-> cfg.stop2]
  /\ parity_acc' = 0
  /\ bit_cnt' = 0
  /\ tx_state' = "START"

BetweenTicks ==
  /\ tx_state # "IDLE" /\ ~baud_tick
  /\ UNCHANGED <<tx_state, shift, bit_cnt, parity_acc, frame, tx>>

At(s) == tx_state = s /\ baud_tick

StartBit ==
  /\ At("START")
  /\ tx' = 0
  /\ tx_state' = "DATA"
  /\ UNCHANGED <<shift, bit_cnt, parity_acc, frame>>

DataBit ==
  /\ At("DATA")
  /\ tx' = shift % 2
  /\ parity_acc' = (parity_acc + shift) % 2
  /\ shift' = 128 + shift \div 2
  /\ IF bit_cnt = frame.m1
       THEN /\ bit_cnt' = 0
            /\ tx_state' = IF frame.parity # "none" THEN "PARITY" ELSE "STOP1"
       ELSE bit_cnt' = bit_cnt + 1 /\ UNCHANGED tx_state
  /\ UNCHANGED frame

SendParity ==
  /\ At("PARITY")
  /\ tx' = ParityBit(frame.parity, parity_acc)
  /\ tx_state' = "STOP1"
  /\ UNCHANGED <<shift, bit_cnt, parity_acc, frame>>

StopBit ==
  /\ \/ At("STOP1") /\ tx_state' = IF frame.stop2 THEN "STOP2" ELSE "IDLE"
     \/ At("STOP2") /\ tx_state' = "IDLE"
  /\ tx' = 1
  /\ UNCHANGED <<shift, bit_cnt, parity_acc, frame>>

TxEdge(tx_fifo_empty, tx_fifo_data) ==
  /\ Baud
  /\ Fetch(tx_fifo_empty)
  /\ \/ Idle \/ Latch(tx_fifo_data) \/ BetweenTicks
     \/ StartBit \/ DataBit \/ SendParity \/ StopBit

TxReset ==
  /\ baud_cnt' = 0
  /\ tx_fifo_rd' = FALSE /\ fetch_pending' = FALSE
  /\ tx_state' = "IDLE"
  /\ tx' = 1
  /\ shift' = 255
  /\ bit_cnt' = 0
  /\ parity_acc' = 0
  /\ UNCHANGED frame

\* The state reset leaves; frame has no reset.
TxInit ==
  /\ baud_cnt = 0
  /\ tx_fifo_rd = FALSE /\ fetch_pending = FALSE
  /\ tx_state = "IDLE"
  /\ tx = 1
  /\ shift = 255
  /\ bit_cnt = 0
  /\ parity_acc = 0
  /\ frame = [m1 |-> 0, parity |-> "none", stop2 |-> FALSE]

=============================================================================
