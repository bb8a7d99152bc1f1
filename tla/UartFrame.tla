----------------------------- MODULE UartFrame ------------------------------
(***************************************************************************)
(* modules/uart-spi: what the two UART engines read from the same          *)
(* configuration ports.                                                    *)
(***************************************************************************)
EXTENDS Naturals

VARIABLE cfg   \* [div, data_bits, parity, stop2]

Bit    == {0, 1}
Parity == {"none", "odd", "even"}

\* cfg_data_bits - 1 in three bits: 8 is written as 0.
LastBit == (cfg.data_bits + 7) % 8

\* The parity bit of data bits whose running exclusive-or is acc.
ParityBit(parity, acc) == IF parity = "odd" THEN 1 - acc ELSE acc
=============================================================================
