-------------------------------- MODULE MemMap ------------------------------
(***************************************************************************)
(* socgen/memmap.py: the table the firmware, the SystemVerilog header and  *)
(* the C header are made from, and the address decode of rtl/soc_top.sv,   *)
(* which is built on that header.  No address reaches bit 31.              *)
(***************************************************************************)
EXTENDS Integers, Sequences, SequencesExt

KB == 1024

Region(name, base, size, registers) ==
  [name |-> name, base |-> base, size |-> size, registers |-> registers]

\* MAP; a register is its name and its offset.
MAP ==
  << Region("ram", \h00000000, 64 * KB, {}),
     Region("uart", \h10000000, 4 * KB,
       {<<"DATA", 0>>, <<"STAT", 4>>, <<"DIV", 8>>, <<"CTRL", 12>>, <<"IRQ_EN", 16>>,
        <<"IRQ_STAT", 20>>}),
     Region("spi", \h10001000, 4 * KB, {<<"DATA", 0>>, <<"STATUS", 4>>, <<"CONFIG", 8>>}),
     Region("aes", \h20000000, 4 * KB,
       {<<"KEY0", 0>>, <<"KEY1", 4>>, <<"KEY2", 8>>, <<"KEY3", 12>>,
        <<"DATA0", 16>>, <<"DATA1", 20>>, <<"DATA2", 24>>, <<"DATA3", 28>>,
        <<"CTRL", 32>>, <<"STATUS", 36>>,
        <<"OUT0", 48>>, <<"OUT1", 52>>, <<"OUT2", 56>>, <<"OUT3", 60>>}),
     Region("clint", \h40000000, 64 * KB,
       {<<"MSIP", 0>>, <<"MTIMECMP_LO", \h4000>>, <<"MTIMECMP_HI", \h4004>>,
        <<"MTIME_LO", \hBFF8>>, <<"MTIME_HI", \hBFFC>>}),
     Region("trng", \h30000000, 4 * KB, {<<"DATA", 0>>, <<"STATUS", 4>>}) >>

Limit(r) == r.base + r.size - 1
InRegion(r, address) == r.base <= address /\ address <= Limit(r)

region(name) == CHOOSE r \in ToSet(MAP) : r.name = name

\* The first region in the table's order, or none.
Decode(address) ==
  LET hits == {i \in DOMAIN MAP : InRegion(MAP[i], address)}
  IN IF hits = {} THEN "none" ELSE MAP[CHOOSE i \in hits : \A j \in hits : i <= j].name

Meet(r, s) == r.base <= Limit(s) /\ s.base <= Limit(r)
Overlaps == {pair \in ToSet(MAP) \X ToSet(MAP) : pair[1] # pair[2] /\ Meet(pair[1], pair[2])}

\* A header: what each of the names it defines stands for.
Header(withLimit) ==
  UNION {{<<r.name, "BASE", r.base>>, <<r.name, "SIZE", r.size>>}
           \cup (IF withLimit THEN {<<r.name, "LIMIT", Limit(r)>>} ELSE {})
           \cup {<<r.name, reg[1], r.base + reg[2]>> : reg \in r.registers} :
         r \in ToSet(MAP)}
ToSystemVerilog == Header(TRUE)
ToC == Header(FALSE)

Defined(header, r, name) == (CHOOSE d \in header : d[1] = r /\ d[2] = name)[3]

-----------------------------------------------------------------------------
(* soc_top.sv's selects.                                                   *)

Nibble(address) == address \div \h10000000
Page(address)   == (address \div 4096) % 16
Base(r) == Defined(ToSystemVerilog, r, "BASE")

\* Bug variant: the UART's select looks at the top nibble only.
SelectedByNibble(address) ==
  {r \in {"ram", "clint", "aes", "uart", "spi"} : Nibble(address) = Nibble(Base(r))} \ {"spi"}

\* sel_spi drives nothing.
Selected(address) ==
  {r \in {"ram", "clint", "aes"} : Nibble(address) = Nibble(Base(r))}
    \cup {r \in {"uart"} : /\ Nibble(address) = Nibble(Base(r))
                           /\ Page(address) = Page(Base(r))}

\* The register a slave takes an offset for: aes_regs looks at eight bits of
\* the address, the UART at five, the CLINT at sixteen.
AesReg == [KEY0 |-> 0, KEY1 |-> 4, KEY2 |-> 8, KEY3 |-> 12, DATA0 |-> 16, DATA1 |-> 20,
           DATA2 |-> 24, DATA3 |-> 28, CTRL |-> 32, STATUS |-> 36, OUT0 |-> 48,
           OUT1 |-> 52, OUT2 |-> 56, OUT3 |-> 60]
UartReg == [DATA |-> 0, STAT |-> 4, DIV |-> 8, CTRL |-> 12, IRQ_EN |-> 16, IRQ_STAT |-> 20]
ClintReg == [MSIP |-> 0, MTIMECMP_LO |-> \h4000, MTIMECMP_HI |-> \h4004,
             MTIME_LO |-> \hBFF8, MTIME_HI |-> \hBFFC]

Named(regs, off) ==
  IF \E n \in DOMAIN regs : regs[n] = off THEN CHOOSE n \in DOMAIN regs : regs[n] = off
  ELSE "unmapped"

\* Where an access of the core arrives.
Target(slave, address) ==
  CASE slave = "aes"   -> <<"aes", Named(AesReg, address % 256)>>
    [] slave = "uart"  -> <<"uart", Named(UartReg, address % 32)>>
    [] slave = "clint" -> <<"clint", Named(ClintReg, address % \h10000)>>
    [] slave = "ram"   -> <<"ram", address>>
Arrives(address) == {Target(s, address) : s \in Selected(address)}
=============================================================================
