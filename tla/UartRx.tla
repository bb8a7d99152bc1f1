------------------------------- MODULE UartRx -------------------------------
(***************************************************************************)
(* modules/uart-spi: the receive engine, one step per clock edge: the      *)
(* synchroniser, the sample tick and the frame machine.                    *)
(***************************************************************************)
EXTENDS UartFrame

VARIABLES
  rx_s,           \* the synchroniser: <<rx_s1, rx_s2, rx_s3>>
  os_cnt,
  rx_state, phase,
  rx_shift, rx_bit_cnt, rx_parity_acc,
  rx_frame,       \* configuration latched for the frame: [m1, parity]
  vote_buf, framing_err, parity_err,
  rx_fifo_wr, rx_fifo_data, rx_overrun

rxData == <<rx_shift, rx_bit_cnt, rx_parity_acc, rx_frame, vote_buf,
            framing_err, parity_err>>
rxOut  == <<rx_fifo_wr, rx_fifo_data, rx_overrun>>
rxVars == <<rx_s, os_cnt, rx_state, phase, rxData, rxOut>>

rx_sync == rx_s[3]

Synchronise(rx) == rx_s' = <<rx, rx_s[1], rx_s[2]>>

\* Bug variant: rounded up.
os_div_up == (cfg.div + 16) \div 16

\* The divisor of the oversampling clock drops the four low bits.
os_div == cfg.div \div 16

sample_tick == os_cnt = 0

Oversample == os_cnt' = IF sample_tick THEN os_div ELSE os_cnt - 1

\* Bug variant: the first sample alone.
FirstSample(v) == v[1]

Majority(v) == IF v[1] + v[2] + v[3] >= 2 THEN 1 ELSE 0

\* phase <= phase + 1, in four bits.
NextPhase == phase' = (phase + 1) % 16

NoPush == rx_fifo_wr' = FALSE /\ UNCHANGED <<rx_fifo_data, rx_overrun>>

BetweenSamples == ~sample_tick /\ UNCHANGED <<rx_state, phase, rxData>> /\ NoPush

In(s) == sample_tick /\ rx_state = s

\* A low line in idle starts a frame.
Listen ==
  /\ In("IDLE")
  /\ phase' = 0
  /\ rx_state' = IF rx_sync = 0 THEN "START" ELSE "IDLE"
  /\ UNCHANGED rxData
  /\ NoPush

\* Halfway through the start bit the line must still be low.
Start ==
  /\ In("START")
  /\ NoPush
  /\ \/ phase # 7 /\ NextPhase /\ UNCHANGED <<rx_state, rxData>>
     \/ /\ phase = 7 /\ rx_sync = 1
        /\ NextPhase
        /\ rx_state' = "IDLE"
        /\ UNCHANGED rxData
     \/ /\ phase = 7 /\ rx_sync = 0
        /\ phase' = 0
        /\ rx_state' = "DATA"
        /\ rx_bit_cnt' = 0
        /\ rx_frame' = [m1 |-> LastBit, parity |-> cfg.parity]
        /\ rx_parity_acc' = 0
        /\ UNCHANGED <<rx_shift, vote_buf, framing_err, parity_err>>

\* Three samples around the middle of the sixteen; the vote is taken at the end.
Sample ==
  /\ In("DATA") /\ phase # 15
  /\ NextPhase
  /\ vote_buf' = IF phase \in 6 .. 8 THEN [vote_buf EXCEPT ![phase - 5] = rx_sync]
                                     ELSE vote_buf
  /\ UNCHANGED <<rx_state, rx_shift, rx_bit_cnt, rx_parity_acc, rx_frame,
                 framing_err, parity_err>>
  /\ NoPush

Vote ==
  /\ In("DATA") /\ phase = 15
  /\ phase' = 0
  /\ rx_shift' = 128 * Majority(vote_buf) + rx_shift \div 2
  /\ rx_parity_acc' = (rx_parity_acc + Majority(vote_buf)) % 2
  /\ IF rx_bit_cnt = rx_frame.m1
       THEN /\ rx_bit_cnt' = 0
            /\ rx_state' = IF rx_frame.parity # "none" THEN "PARITY" ELSE "STOP"
       ELSE rx_bit_cnt' = rx_bit_cnt + 1 /\ UNCHANGED rx_state
  /\ UNCHANGED <<rx_frame, vote_buf, framing_err, parity_err>>
  /\ NoPush

CheckParity ==
  /\ In("PARITY")
  /\ NoPush
  /\ UNCHANGED <<rx_shift, rx_bit_cnt, rx_parity_acc, rx_frame, framing_err>>
  /\ \/ /\ phase # 15
        /\ NextPhase
        /\ vote_buf' = IF phase = 7 THEN [vote_buf EXCEPT ![2] = rx_sync] ELSE vote_buf
        /\ UNCHANGED <<rx_state, parity_err>>
     \/ /\ phase = 15
        /\ phase' = 0
        /\ rx_state' = "STOP"
        /\ parity_err' = (vote_buf[2] # ParityBit(rx_frame.parity, rx_parity_acc))
        /\ UNCHANGED vote_buf

\* The word pushed is {parity_err, framing_err, shift} as they stand before this
\* edge: the framing error is the previous frame's.
Entry == [parity_err |-> parity_err, framing_err |-> framing_err, data |-> rx_shift]

frame_done == In("STOP") /\ phase = 15

Stop(rx_fifo_full) ==
  /\ In("STOP")
  /\ UNCHANGED <<rx_shift, rx_bit_cnt, rx_parity_acc, rx_frame, vote_buf, parity_err>>
  /\ \/ phase # 15 /\ NextPhase /\ UNCHANGED <<rx_state, framing_err>> /\ NoPush
     \/ /\ phase = 15
        /\ phase' = 0
        /\ rx_state' = "IDLE"
        /\ framing_err' = (rx_sync = 0)
        /\ rx_overrun' = (rx_overrun \/ rx_fifo_full)
        /\ rx_fifo_wr' = ~rx_fifo_full
        /\ rx_fifo_data' = IF rx_fifo_full THEN rx_fifo_data ELSE Entry

RxEdge(rx, rx_fifo_full) ==
  /\ Synchronise(rx)
  /\ Oversample
  /\ \/ BetweenSamples \/ Listen \/ Start \/ Sample \/ Vote \/ CheckParity
     \/ Stop(rx_fifo_full)

\* Neither the synchroniser nor the data registers have a reset.
RxReset(rx) ==
  /\ Synchronise(rx)
  /\ os_cnt' = os_div
  /\ rx_state' = "IDLE"
  /\ phase' = 0
  /\ rx_fifo_wr' = FALSE
  /\ rx_overrun' = FALSE
  /\ UNCHANGED <<rxData, rx_fifo_data>>

RxInit ==
  /\ rx_s = <<1, 1, 1>>
  /\ os_cnt = os_div
  /\ rx_state = "IDLE"
  /\ phase = 0
  /\ rx_shift = 0 /\ rx_bit_cnt = 0 /\ rx_parity_acc = 0
  /\ rx_frame = [m1 |-> 0, parity |-> "none"]
  /\ vote_buf = <<0, 0, 0>>
  /\ framing_err = FALSE /\ parity_err = FALSE
  /\ rx_fifo_wr = FALSE
  /\ rx_fifo_data = Entry
  /\ rx_overrun = FALSE

=============================================================================
