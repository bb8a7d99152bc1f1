------------------------------- MODULE SocBus -------------------------------
(***************************************************************************)
(* rtl/soc_top.sv: the address decode, the slaves' read ports and the read *)
(* mux, one step per clock edge, with any address on the bus: the core     *)
(* drives every ALU result there, so what follows a load in MEM need not   *)
(* be a memory access at all.  A peripheral's register is the word that    *)
(* names it; RAM really stores.                                            *)
(***************************************************************************)
EXTENDS Integers

CONSTANTS
  Offs,     \* words in one 4 kB page: 1024
  Pages,    \* pages of the RAM window: 16
  Values    \* values software stores in RAM

ASSUME SocBusAssumption ==
  Offs \in Nat \ {0} /\ Pages \in Nat \ {0} /\ Values \in Nat \ {0}

\* An address: the top nibble, the 4 kB page below it, the word in the page.
\* Nibble 1 is the UART's window and the SPI's, 3 the TRNG's, 4 the CLINT's.
Off     == 0 .. Offs - 1
Page    == 0 .. Pages - 1
Data    == {<<"data", n>> : n \in 0 .. Values - 1}
Address == [nibble : 0 .. 5, page : Page, off : Off]
Access  == [addr : Address, we : BOOLEAN, data : Data]

Zero == <<"data", 0>>
\* A read past the end of the memory array, X in simulation.
Lost == <<"lost", 0>>

VARIABLES
  ram,        \* page 0 of the window, all the array there is
  acc,        \* dmem_addr, dmem_we, dmem_wdata: what MEM drives
  sel_q,      \* the registered select
  ram_rdata, aes_rdata, clint_rdata,
  stored,     \* history: the RAM window as software has written it
  last        \* history: the access of the cycle before, and its word

vars == <<ram, acc, sel_q, ram_rdata, aes_rdata, clint_rdata, stored, last>>

\* sel_uart, sel_aes, sel_clint, sel_ram; sel_spi selects nothing.
Select(a) ==
  CASE a.nibble = 1 /\ a.page = 0 -> "uart"
    [] a.nibble = 2               -> "aes"
    [] a.nibble = 4               -> "clint"
    [] a.nibble = 0               -> "ram"
    [] OTHER                      -> "none"

\* The word a register holds.
Named(slave, a) == <<slave, a.off>>

\* dmem: the array is indexed by the whole address.
InArray(a) == a.nibble = 0 /\ a.page = 0
RamRead(a) == IF InArray(a) THEN ram[a.off] ELSE Lost
RamNext    == IF acc.we /\ Select(acc.addr) = "ram" /\ InArray(acc.addr)
                THEN [ram EXCEPT ![acc.addr.off] = acc.data] ELSE ram

\* uart_core's prdata is combinational: it follows the address of this cycle.
UartRdata == Named("uart", acc.addr)

\* Bug variant: the mux looks at the select of this cycle.
DmemRdataUnregistered ==
  CASE Select(acc.addr) = "uart"  -> UartRdata
    [] Select(acc.addr) = "aes"   -> aes_rdata
    [] Select(acc.addr) = "clint" -> clint_rdata
    [] Select(acc.addr) = "ram"   -> ram_rdata
    [] OTHER                      -> Zero

DmemRdata ==
  CASE sel_q = "uart"  -> UartRdata
    [] sel_q = "aes"   -> aes_rdata
    [] sel_q = "clint" -> clint_rdata
    [] sel_q = "ram"   -> ram_rdata
    [] OTHER           -> Zero

\* The word an address names, by the memory map.
Meant(a) ==
  CASE Select(a) = "ram"  -> stored[a.page][a.off]
    [] Select(a) = "none" -> Zero
    [] OTHER              -> Named(Select(a), a)

Bubble == [addr |-> [nibble |-> 0, page |-> 0, off |-> 0], we |-> FALSE,
           data |-> Zero]

Init ==
  /\ ram = [o \in Off |-> Zero]
  /\ acc = Bubble
  /\ sel_q = "ram"
  /\ ram_rdata = Zero
  /\ aes_rdata = Zero
  /\ clint_rdata = Zero
  /\ stored = [p \in Page |-> [o \in Off |-> Zero]]
  /\ last = [addr |-> Bubble.addr, word |-> Zero]

\* aes_regs and clint answer whatever address is presented, selected or not.
Edge ==
  /\ ram' = RamNext
  /\ ram_rdata' = RamRead(acc.addr)
  /\ aes_rdata' = Named("aes", acc.addr)
  /\ clint_rdata' = Named("clint", acc.addr)
  /\ sel_q' = Select(acc.addr)
  /\ stored' = IF acc.we /\ Select(acc.addr) = "ram"
                 THEN [stored EXCEPT ![acc.addr.page][acc.addr.off] = acc.data]
                 ELSE stored
  /\ last' = [addr |-> acc.addr, word |-> Meant(acc.addr)]
  /\ acc' \in Access

Next == Edge

Spec == Init /\ [][Next]_vars

-----------------------------------------------------------------------------
(* Properties.                                                             *)

\* What a load gets is the word its own address named, whatever MEM drives by
\* the time it is taken (soc_top.sv:168-192).
Answered == DmemRdata = last.word

\* It is so for the memory that exists and for the slaves whose reads are
\* registered: not past the 4 kB array behind RAM's window (soc_top.sv:95), nor
\* for the UART.
LoadsOwnWord == InArray(last.addr) \/ Select(last.addr) \in {"aes", "clint", "none"}
                  => Answered
=============================================================================
