----------------------------- MODULE SocPrograms ----------------------------
(***************************************************************************)
(* A program assembled from the memory map, running on the SoC: the core   *)
(* one instruction at a time (Core implements that), the bus down to which *)
(* register an access arrives at, the AES registers, the timer interrupt.  *)
(***************************************************************************)
EXTENDS Firmware

CONSTANTS
  Programs,     \* [name, calls, says]: what is run and what it is to store
  MAX_STORES,   \* bound: stores a behaviour makes
  MAX_IRQS,     \* bound: timer interrupts a behaviour takes
  Times         \* what a load of mtime may return

ASSUME ProgramsAssumption ==
  Times \subseteq Word /\ \A p \in Programs : p.calls \in Seq(Entry)

VARIABLES
  prog, imem, pc, x,
  ram,          \* what has been stored, by address
  aes,          \* key_q, data_q, the loaded key, the block, cipher_q, busy_q, done_q
  csr,
  irqs,         \* interrupts taken
  stores        \* history: every bus write that selects a slave

socVars == <<prog, imem, pc, x, ram, aes, csr, irqs, stores>>

-----------------------------------------------------------------------------
(* Decode: id_stage.sv's immediates and ex_stage.sv's adder.               *)

insn == imem[pc \div 4 + 1]
Signed(v, sign) == IF v >= sign THEN v - 2 * sign ELSE v
imm_i(i) == Signed(32 * i.f7 + i.rs2, 2048)
imm_s(i) == Signed(32 * i.f7 + i.rd, 2048)
imm_b(i) == Signed(4096 * (i.f7 \div 64) + 2048 * (i.rd % 2) + 32 * (i.f7 % 64)
                     + 2 * (i.rd \div 2), 4096)
imm_u(i) == W(8192 * i.f7 + 256 * i.rs2 + 8 * i.rs1 + i.f3, 0)
csr_addr == 32 * insn.f7 + insn.rs2

Plus(a, b) == W((a.hi + b.hi + (a.lo + b.lo) \div Lo12) % Hi20, (a.lo + b.lo) % Lo12)

\* Bit by bit: the halves of a width apart.
And1(m, n)  == IF m % 2 = 1 /\ n % 2 = 1 THEN 1 ELSE 0
And2(m, n)  == 2 * And1(m \div 2, n \div 2) + And1(m, n)
And4(m, n)  == 4 * And2(m \div 4, n \div 4) + And2(m, n)
And8(m, n)  == 16 * And4(m \div 16, n \div 16) + And4(m, n)
And12(m, n) == 16 * And8(m \div 16, n \div 16) + And4(m, n)
And20(m, n) == 4096 * And8(m \div 4096, n \div 4096) + And12(m, n)
BitsAnd(a, b) == W(And20(a.hi, b.hi), And12(a.lo, b.lo))
BitsNot(a)    == W(Hi20 - 1 - a.hi, Lo12 - 1 - a.lo)
BitsOr(a, b)  == BitsNot(BitsAnd(BitsNot(a), BitsNot(b)))

\* Nothing is mapped from \h50000000 up: one address stands for all of bit 31's.
AddressOf(w) == IF w.hi < Hi20 \div 2 THEN w.hi * Lo12 + w.lo ELSE \h7FFFFFFC
x1 == x[insn.rs1]
x2 == x[insn.rs2]
LoadAddress  == AddressOf(Plus(x1, Num(imm_i(insn))))
StoreAddress == AddressOf(Plus(x1, Num(imm_s(insn))))

SetReg(v) == x' = IF insn.rd = 0 THEN x ELSE [x EXCEPT ![insn.rd] = v]

-----------------------------------------------------------------------------
(* The slaves.                                                             *)

Stored(a) == IF a \in DOMAIN ram THEN ram[a] ELSE Num(0)

\* What a load may return; the registers no program loads are left out.
Answers(target) ==
  CASE target[1] = "ram" -> {Stored(target[2])}
    [] target = <<"aes", "STATUS">> -> {Num(aes.done)}
    [] target = <<"aes", "CTRL">>   -> {Num(aes.busy)}
    [] target = <<"clint", "MTIME_LO">> -> Times
    [] OTHER -> {Num(0)}

KeyWord  == [KEY0 |-> 4, KEY1 |-> 3, KEY2 |-> 2, KEY3 |-> 1]
DataWord == [DATA0 |-> 4, DATA1 |-> 3, DATA2 |-> 2, DATA3 |-> 1]

\* aes_regs.sv: every key word strobes load_key, a start takes the block and
\* clears done.  The edges each strobe takes to act are not told apart: no program
\* writes a word of the key or of the block right before or behind one.
AesWritten(reg, w) ==
  CASE reg \in DOMAIN KeyWord ->
         LET key == [aes.key EXCEPT ![KeyWord[reg]] = w]
         IN [aes EXCEPT !.key = key, !.loaded = key]
    [] reg \in DOMAIN DataWord -> [aes EXCEPT !.data[DataWord[reg]] = w]
    [] reg = "CTRL" /\ w.lo % 2 = 1 ->
         [aes EXCEPT !.busy = 1, !.done = 0, !.block = aes.data]
    [] OTHER -> aes

-----------------------------------------------------------------------------
(* Steps of the core.                                                      *)

Fetches(op) == pc \div 4 + 1 \in DOMAIN imem /\ insn.op = op /\ Len(stores) < MAX_STORES
Next4 == pc' = pc + 4
NoBus == UNCHANGED <<ram, aes, stores>>
Same  == UNCHANGED <<prog, imem, irqs>>

LoadUpper == Fetches(55) /\ SetReg(imm_u(insn)) /\ Next4 /\ NoBus /\ Same /\ UNCHANGED csr

Immediate ==
  /\ Fetches(19) /\ insn.f3 \in {0, 7}
  /\ SetReg(IF insn.f3 = 0 THEN Plus(x1, Num(imm_i(insn))) ELSE BitsAnd(x1, Num(imm_i(insn))))
  /\ Next4 /\ NoBus /\ Same /\ UNCHANGED csr

AddRegs == Fetches(51) /\ SetReg(Plus(x1, x2)) /\ Next4 /\ NoBus /\ Same /\ UNCHANGED csr

Load ==
  /\ Fetches(3)
  /\ IF Arrives(LoadAddress) = {} THEN SetReg(Num(0))
     ELSE \E t \in Arrives(LoadAddress) : \E w \in Answers(t) : SetReg(w)
  /\ Next4 /\ NoBus /\ Same /\ UNCHANGED csr

Store ==
  /\ Fetches(35)
  /\ LET targets == Arrives(StoreAddress)
     IN /\ ram' = IF Selected(StoreAddress) = {"ram"}
                    THEN [a \in DOMAIN ram \cup {StoreAddress} |->
                            IF a = StoreAddress THEN x2 ELSE ram[a]]
                    ELSE ram
        /\ aes' = IF "aes" \in Selected(StoreAddress)
                    THEN AesWritten((CHOOSE t \in targets : t[1] = "aes")[2], x2) ELSE aes
        /\ stores' = IF targets = {} THEN stores ELSE Append(stores, <<targets, x2>>)
  /\ Next4 /\ Same /\ UNCHANGED <<x, csr>>

BranchStep ==
  /\ Fetches(99)
  /\ pc' = IF (x1 = x2) = (insn.f3 = 0) THEN pc + imm_b(insn) ELSE pc + 4
  /\ NoBus /\ Same /\ UNCHANGED <<x, csr>>

\* csr_file.sv: the registers a program of this repository names.
Mstatus == W(1, 2048 + 8 * csr.MIE + 128 * csr.MPIE)
CsrRead ==
  CASE csr_addr = 768 -> Mstatus     [] csr_addr = 772 -> csr.mie
    [] csr_addr = 773 -> csr.mtvec   [] csr_addr = 832 -> csr.mscratch
    [] csr_addr = 833 -> csr.mepc    [] csr_addr = 834 -> csr.mcause
    [] OTHER -> Num(0)
Aligned(w) == W(w.hi, w.lo - (w.lo % 4))
CsrWritten(w) ==
  CASE csr_addr = 768 -> [csr EXCEPT !.MIE = (w.lo \div 8) % 2, !.MPIE = (w.lo \div 128) % 2]
    [] csr_addr = 772 -> [csr EXCEPT !.mie = w]
    [] csr_addr = 773 -> [csr EXCEPT !.mtvec = Aligned(w)]
    [] csr_addr = 832 -> [csr EXCEPT !.mscratch = w]
    [] csr_addr = 833 -> [csr EXCEPT !.mepc = Aligned(w)]
    [] csr_addr = 834 -> [csr EXCEPT !.mcause = w]
    [] OTHER -> csr

\* csrrs and csrrc with x0 or 0 do not write.
CsrStep ==
  /\ Fetches(115) /\ insn.f3 # 0
  /\ LET src == IF insn.f3 >= 4 THEN Num(insn.rs1) ELSE x1
         how == insn.f3 % 4
     IN csr' = CASE how = 1 -> CsrWritten(src)
                 [] how = 2 /\ insn.rs1 # 0 -> CsrWritten(BitsOr(CsrRead, src))
                 [] how = 3 /\ insn.rs1 # 0 -> CsrWritten(BitsAnd(CsrRead, BitsNot(src)))
                 [] OTHER -> csr
  /\ SetReg(CsrRead)
  /\ Next4 /\ NoBus /\ Same

MachineReturn ==
  /\ Fetches(115) /\ insn.f3 = 0 /\ csr_addr = 770
  /\ pc' = AddressOf(csr.mepc)
  /\ csr' = [csr EXCEPT !.MIE = csr.MPIE, !.MPIE = 1]
  /\ NoBus /\ Same /\ UNCHANGED x

\* The timer may have reached its deadline before any instruction (TimerDemo
\* has the deadline itself).
Interrupt ==
  /\ csr.MIE = 1 /\ (csr.mie.lo \div 128) % 2 = 1
  /\ irqs < MAX_IRQS
  /\ csr' = [csr EXCEPT !.mepc = Num(pc), !.mcause = W(524288, 7), !.MPIE = csr.MIE, !.MIE = 0]
  /\ pc' = AddressOf(csr.mtvec)
  /\ irqs' = irqs + 1
  /\ NoBus /\ UNCHANGED <<prog, imem, x>>

\* aes128_core raises valid_o some edges after a start.
AesFinishes ==
  /\ aes.busy = 1
  /\ aes' = [aes EXCEPT !.busy = 0, !.done = 1, !.cipher = <<aes.loaded, aes.block>>]
  /\ UNCHANGED <<prog, imem, pc, x, ram, csr, irqs, stores>>

\* Reset; the ROM holds what the assembler wrote for the program.
Init ==
  /\ prog \in Programs
  /\ \E image \in {assemble(Built(prog.calls))} : image.ok /\ imem = image.words
  /\ pc = 0 /\ x = [r \in 0 .. 31 |-> Num(0)]
  /\ ram = <<>>
  /\ LET zero == [i \in 1 .. 4 |-> Num(0)]
     IN aes = [key |-> zero, data |-> zero, loaded |-> zero, block |-> zero,
               cipher |-> <<zero, zero>>, busy |-> 0, done |-> 0]
  /\ csr = [mie |-> Num(0), mtvec |-> Num(0), mepc |-> Num(0), mcause |-> Num(0),
            mscratch |-> Num(0), MIE |-> 0, MPIE |-> 0]
  /\ irqs = 0 /\ stores = <<>>

Execute == \/ LoadUpper \/ Immediate \/ AddRegs \/ Load \/ Store
           \/ BranchStep \/ CsrStep \/ MachineReturn
Next == Execute \/ Interrupt \/ AesFinishes

\* The clock runs and the cipher takes a fixed number of edges.
Spec == Init /\ [][Next]_socVars /\ WF_socVars(Execute) /\ WF_socVars(AesFinishes)

-----------------------------------------------------------------------------
(* Properties                                                              *)

\* What build is to store: the key and the block, least significant word first,
\* the start, and the byte behind the poll (firmware.py:30-75).
To(slave, reg, w) == <<{<<slave, reg>>}, w>>
BuildStores ==
  [i \in 1 .. 4 |-> To("aes", <<"KEY0", "KEY1", "KEY2", "KEY3">>[i], KEY[5 - i])]
    \o [i \in 1 .. 4 |-> To("aes", <<"DATA0", "DATA1", "DATA2", "DATA3">>[i],
                            PLAINTEXT[5 - i])]
    \o <<To("aes", "CTRL", Num(1)), To("uart", "DATA", Num(65))>>

\* What a program has stored so far is the beginning of what it says it stores,
\* each word in the register meant: the constant, the offset and the branch the
\* assembler encodes, the address the map gives and the select the header
\* builds agree (firmware.py, registry.py, asm.py, memmap.py, soc_top.sv).
DoesWhatItSays == prog.says # <<>> => IsPrefix(stores, prog.says)

\* And in the end it has stored all of it: no poll, loop or branch keeps it from
\* getting there, for as long as the cipher takes (tb_soc.sv, tb_poll.sv,
\* tb_load.sv, tb_defects.sv wait for the same).
SaysItAll == prog.says # <<>> => <>[](stores = prog.says)

\* Whatever follows a start of the cipher follows its completion, on the whole
\* key and the whole block: the last key word's strobe is the one that counts
\* and done is clear from the start on (firmware.py:38-40, 56-68).
WaitsForCipher ==
  (\E i \in 1 .. Len(stores) - 1 :
     <<"aes", "CTRL">> \in stores[i][1] /\ stores[i][2].lo % 2 = 1)
    => /\ aes.done = 1
       /\ aes.cipher = <<aes.key, aes.data>>
       /\ prog.name = "soc" => aes.cipher = <<KEY, PLAINTEXT>>

\* An access is to a region of the map and arrives in the one memmap.decode
\* names, if soc_top attaches it, and in no other; a register the map names is
\* the register that answers (memmap.py:137-139, test_integration.py:57-72).
DecodesLikeTheMap ==
  [][LET a == IF insn.op = 35 THEN StoreAddress ELSE LoadAddress
         r == Decode(a)
     IN (Load \/ Store) =>
          /\ Overlaps = {} /\ r # "none"
          /\ Selected(a) = {r} \ {"spi", "trng"}
          /\ \A d \in ToC : d[3] = a /\ d[1] = r /\ r \in {"aes", "uart", "clint"}
               /\ d[2] \notin {"BASE", "SIZE"} => Arrives(a) = {<<r, d[2]>>}]_socVars

\* The interrupted loop and the handler each count on by one, whenever the
\* interrupts come, and the evidence names an instruction of the program behind
\* the enable (firmware.py:109-115, tb_traps.sv).
Slot(s)        == {<<"ram", 4 * s>>}
StoresTo(s, n) == Cardinality({i \in 1 .. n : stores[i][1] = Slot(s)})
TimerCounts ==
  prog.name = "timer" =>
    /\ \A i \in DOMAIN stores, s \in {0, 1} :
         stores[i][1] = Slot(s) => stores[i][2] = Num(StoresTo(s, i))
    /\ \A i \in DOMAIN stores :
         stores[i][1] = Slot(3) =>
           LET resume == AddressOf(stores[i][2]) \div 4
           IN /\ resume < Len(imem)
              /\ \E k \in 1 .. resume : imem[k] = csrrsi(0, 768, 8)[1]
    /\ StoresTo(1, Len(stores)) <= irqs
=============================================================================
