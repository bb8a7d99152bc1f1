------------------------------- MODULE MCUart -------------------------------
(***************************************************************************)
(* Configurations for UartLink: the receiver's bit is 16 * (div \div 16 +  *)
(* 1) clocks against the transmitter's div + 1.                            *)
(***************************************************************************)
EXTENDS UartLink

\* 8N1, the receiver 3% slow as at 115200 baud from 50 MHz; 7O2, exact.
MCConfigs ==
  {[div |-> 30, data_bits |-> 0, parity |-> "none", stop2 |-> FALSE],
   [div |-> 15, data_bits |-> 7, parity |-> "odd", stop2 |-> TRUE]}

\* <<rx_state, rx_bit_cnt, phase>>: in a start bit and in a stop bit.
MCResetPoints == {<<"START", 0, 3>>, <<"STOP", 0, 10>>}
=============================================================================
