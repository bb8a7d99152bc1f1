# TLA+ models of the RISC-V SoC

Models of the SoC in this repository, the TLC runs that check them on small
instances and the theorems TLAPS proves about them for every instance.

    tlc -workers 2 -config MCCore.cfg MCCore.tla      # a run
    tlapm CoreProofs.tla                              # a proof

`PROJECT.json` lists the runs, the source lines each definition stands for, the
mutations that show each property can fail, the hazards and the findings.

## 1. The system

| Component | State | Operations | Speaks to |
|---|---|---|---|
| `modules/core` pipeline | PC, fetch/IF-ID/ID-EX/EX-MEM/MEM-WB registers, register file | one clock edge; reset | instruction memory; the data bus, from MEM |
| — predictor (`if_stage`) | 64 counters, targets, tags | predict at fetch, train at EX | PC mux, EX |
| — hazard unit | none (wires) | stall, forward selects | ID, EX, MEM, WB |
| — CSRs (`csr_file`) | mstatus.MIE/MPIE, mie, mtvec, mepc, mcause, ... | CSR access, trap, MRET | EX, PC mux, interrupt lines |
| — performance counters | five counters | count | redirect, stall, WB |
| `modules/clint` | mtime, mtimecmp, msip | store, read, tick | the bus; `mtip`, `msip` to the core |
| `rtl/soc_top.sv` | registered selects | decode, read mux | core, RAM, UART, AES, CLINT |
| `rtl/aes_regs.sv` | key, data, cipher, busy, done | store, start, complete | bus, AES pipeline |
| `modules/aes` | round keys, 11-stage pipeline; AXI handshakes | load key, start | `aes_regs` / AXI |
| `modules/uart-spi` UART | two FIFOs, TX and RX machines, control/IRQ registers | APB access, send, receive | bus, pins, `irq_ext` |
| `modules/uart-spi` SPI | two FIFOs, sequencer, shift engine | APB access, transfer | APB, pins (not instantiated in the SoC) |
| `modules/trng` | de-biaser, whitener, UART output | sample, whiten, send | pins |
| `modules/cpu8` core | PC, SP, flags, halt, register file, memories, power-on counter | one instruction an edge | its ROM and data memory |
| — assembler, simulator (`c8asm.py`, `sim.py`) | labels, words; the machine once more | two passes; one instruction a call | the ROM's hex file |
| `modules/synth` | MIDI parser, voices, envelopes | byte, note on/off, sample | MIDI pin, PWM |
| `modules/pong`, `modules/mandelbrot` | game state; pixel engine | frame tick; point, pixel | VGA |
| `socgen` memory map | one table | look up; print the SystemVerilog and C headers | `soc_top.sv`, firmware |
| — assembler, firmware, bench programs | words, labels, pending branches | one call per instruction; assemble | the core's ROM |
| — registry, toolchain, CLI | `program.hex`, the build directory, a command's failures | `sim`, `lint`, `gen`, a test's simulation | the tools, the file system |

What makes each one correct:

- core: it behaves as a machine that executes one instruction at a time, with
  precise traps; interrupts are taken; nothing stalls for ever; the counters
  count what happened.
- CLINT and its software: an interrupt exactly when the deadline has passed,
  also while the deadline is being moved in two halves.
- bus: a load gets the word its address named; a store reaches one slave, once.
- UART, SPI: FIFO order, no byte lost or duplicated while there is room, status
  and interrupt bits that tell the truth, frames as configured.
- AES: the ciphertext read after `done` is that of the block last started.
- cpu8: what a source line says is what the core executes, and what the
  simulator executes too.
- socgen: a store or load in a firmware source arrives at the register the map
  names, and the program stores what it was written to store; a simulation runs
  its own program, and the exit status says what went wrong.
- synth: a held note has a voice, a released one none. TRNG: no bit used twice,
  none lost in a hand-off. pong: ball in the court, one point a miss. mandelbrot:
  each pixel written once.

Where it is hard: five instructions are in flight and read each other's state
before it is written; a prediction is made from an address before the word
behind it is known; the memories answer an edge late and do not stall with the
pipeline; interrupts arrive on any edge; a 64-bit deadline moves over a 32-bit
bus; the bus mux is an edge behind the address. On the hardware side nothing is
persisted, so apart from `rst` there is no crash to recover from. On the tools'
side two things outlive a command, `modules/core/program.hex` and the
executables in the build directory, and a command may be killed while it writes
either.

## 2. Modules

| Module | Models | Notes |
|---|---|---|
| `Rv32` | decode, ALU selection, CSR access, trap entry/return | shared by the two machines |
| `Isa` | what the core promises: one instruction a step | abstract specification |
| `Core` | `modules/core`: one clock edge a step | variables are RTL registers under their RTL names, records for register groups; a wire is an operator, an `always_ff` block an operator giving next values |
| `MCCore` | small words, six directed programs, an alphabet for all short ones | instances |
| `Perf`, `MCPerf` | the counters, their instances | `Perf` extends `Core`: each counter edge is a core edge |
| `CoreProofs` | theorems on `Core` and `Perf` | |
| `Clint` | `clint.sv` under any accesses | |
| `ClintUpdate`, `ClintProofs` | the three-store deadline update, for any deadline; theorems | `Clint` + software |
| `TimerDemo` | `build_timer_demo` on the CLINT; theorems in `ClintProofs` | `Clint` + a core reduced to its timing |
| `SocBus`, `SocBusProofs` | decode, read ports and read mux of `soc_top.sv`; theorem | |
| `BoundedQueue` | what `sync_fifo` promises | abstract specification |
| `SyncFifo`, `SyncFifoProofs` | `sync_fifo.sv`, one clock edge a step; theorems | refines `BoundedQueue` |
| `UartFrame`, `UartTx`, `UartRx` | the two engines, one clock edge a step | `UartFrame` is the configuration they share |
| `UartLink`, `MCUart` | FIFO, engine, line, engine, FIFO, as `uart_core` and `tb_uart` connect them; instances | two `BoundedQueue`s for the FIFOs |
| `UartProofs` | theorems on `UartLink` | |
| `C8Word` | the C8 instruction word: fields, opcodes, bit operations | shared by core, simulator and assembler |
| `C8Sim` | `sim.py`: one instruction a step | abstract specification |
| `C8Cpu` | `cpu.v` with its ALU, register file and memories, `top.v`'s power-on reset | refines `C8Sim` |
| `C8Asm` | `c8asm.py`: both passes, every encoding, every refusal | an operator from source lines to an image |
| `C8Flow`, `MCC8` | source, image, ROM, execution; sources | `C8Asm` composed with `C8Cpu` |
| `C8Proofs` | theorems on `C8Cpu` and `C8Flow` | |
| `RvAsm` | `asm.py`: encoders, `li`, labels, branches, refusals | an operator from calls to words |
| `MemMap` | `memmap.py`'s table, lookups and headers; `soc_top.sv`'s decode built on them | |
| `Firmware` | `firmware.py`'s two programs and `registry.py`'s three, call by call | over `RvAsm`, `MemMap` |
| `SocPrograms`, `MCSoc` | an assembled program on core, bus, AES registers and timer; programs | over `Firmware` |
| `SocProofs` | theorems on `RvAsm`, `MemMap` and `SocPrograms` | |
| `Registry` | the testbenches: what the tool chain knows of each, and how each can end | |
| `SocSim`, `MCSocSim` | a sequence of `soc` commands and test simulations | over `Registry` |
| `SocSimProofs` | theorems on `SocSim` | |

**Core against the code.** A step is a rising edge. `ClockEdge` gives every
register its next value from the current ones, as non-blocking assignments do;
`Reset` is the same edge with `rst` high, on which the blocks without a reset
(memories, register file) still move. `Init` is the state after the first reset
edge. The record fields are the RTL's register names without their prefix:
`fetch.pc` is `pc_fetch`, `idex.pred` is `idex_predicted`. The decoded control
word is not stored beside the instruction: the decoded instruction itself
travels, and the control bits are operators on it (`RegWrite(op)`, `AluSrc(i)`).
The opcode `"unknown"` is every word decoded with `valid` 0, and `"nop"` is
`NOP_CTRL`, which no word decodes to.

What is abstracted: a word is the set of its 1 bits; the ALU, branch
comparison, sub-word merge and `load_extend` are constant operators of which
nothing but their ranges is assumed; a PC is a word address, so the byte-offset
bits that `jalr_target` clears only partly and the memories ignore are gone;
data memory has one port and any set of addresses, so peripherals with side
effects are outside `Core` and in `Clint` and `SocBus`. The `mcycle`/`minstret`
values readable by CSR instructions are left out of `Core` (a sequential
machine without time cannot predict them); `Perf` covers the counting.

**Perf** is followed for `CYCLES` edges after each reset; past them the core goes on
and the counters are given up (`GiveUp`), so that the same run can ask about what
happens in the long term. `seen` is history.

**Interrupt lines** change freely on every edge (`Lines`): the core may be shown
any level, which includes whatever CLINT and UART do.

**TimerDemo** reduces the core to what `Core` and `Perf` establish of it: one
instruction in EX an edge or a bubble, its bus access on the next edge, an
interrupt before an instruction in EX, three bubbles behind a redirect. Constants
loaded by `li` and register moves are left out: they lengthen the paths, and
`SLACK` lets any instruction be late.

**SocBus** lets any access follow any other, memory instruction or not, because
MEM drives every ALU result on `dmem_addr`. A peripheral's register is the word
that names it, so a wrong answer shows up as the wrong name. RAM really stores;
a read past its array is `Lost` (X in simulation).

**The UART** has every register of the FIFO and of both engines, under its RTL
name (the receiver's with `rx_` where the transmitter has the same). In
`UartLink` the two engines move on one edge, with the FIFOs as the queues that
`SyncFifo` is proved to implement, so their pointers do not multiply the states.
The host is the FIFO's ports: `tx_fifo_wr` and the byte as `uart_core` registers
them, with the idle clock that two APB accesses have between them, and a pop on
any edge. The APB strobes, STATUS and the interrupt registers are not modelled.
`outstanding` and `owed` are history: the bytes `tb_uart` has sent and the rest of
the stop bits. The receiver shifts in from the top and hands over all 8 bits of its
shifter, so the byte of a shorter frame is in the high bits of the word, above what
the frame before left (`Spare` of them). A data register without reset starts at 0,
as an FPGA build powers up.

**cpu8.** A step of `C8Cpu` is a clock edge. `PowerOn` is an edge with `rst_n`
low: the register file and the data memory have no reset and take what the
decode of address 0 asks for. `Execute` is every later edge until `HLT` has set
`halt`. `C8Sim` is written from
`sim.py` alone, with its own decode and its own ALU, so that the refinement
compares two readings of the instruction set. A source line of `C8Asm` is a
label, a mnemonic and argument tokens: splitting a line into tokens and printing
hex digits is layout, what is accepted, packed, refused and where it is placed is
not. The first pass is a recursive function of the line number, a blank line a line
that changes nothing. `C8Flow` puts the two together, and its properties read the
*source*: the address of a line as the last `.org` plus the words since, the word a
label stands before, the value an operand names.

**A program on the SoC.** `RvAsm` has the bit layout of every format as the six
fields an instruction is cut into; a 32-bit value is its upper 20 and lower 12
bits, the two halves `li` computes with, so no integer leaves TLC's range and
masks and wraps stay where the code has them. `SocPrograms` decodes the
words as `id_stage.sv` does, executes one a step (which `Core` is proved to
implement), and sends each access through `MemMap`'s selects to `<<slave,
register>>`. `AesFinishes` may happen after any number of polls, `Interrupt`
before any instruction, `mtime` reads as one of `Times`. The cipher takes the key as
loaded and the block as the registers have it when the start is stored; the edges
between the store and the core's strobes are not told apart. `stores` is history.
The model stops at the first store past `MAX_STORES`.

**Commands.** `SocSim` has the state that outlives a command (`installed`, `hex`,
`exe`) and that of the one running. One action per stretch between two effects:
`Start` up to `prepare`'s opening of the file, `Written`, `BuildSucceeds` or
`BuildFails`, `RunEnds` or `RunTimesOut`, `Report` for the loop's count, `Return`;
`Skip` for the missing tools, `WriteFails` for an exception out of `prepare`,
`Killed` at any point. A file opened for writing is `"torn"` from `open` to the
end of `write_text`; a build that fails or is killed leaves an executable, part of
one, or none. `exe` at `Start` is whatever an earlier command left. A build that
succeeds leaves a new executable, except that verilator's directory stays from one
command to the next and its `make` may keep what it finds there; a torn one that is
kept crashes, or does not start at all (`RunFailsToStart`, an exception that ends
the command). `Endings` is read off the testbenches: which of them have a verdict, a
watchdog, a stop time, and what each ending prints and exits with. The two in VHDL
are stopped before they come to a verdict. `wrong` is history: the kinds of what
happened in the command, where `"line"` is a bench that was not satisfied and declares
the line it prints when it is, `"no line"` one that was not and declares none. Commands
follow each other; two at once would share `program.hex` and the build directory
and are not claimed to work.

## 3. Runs

| Run | Question | Bounds | Size |
|---|---|---|---|
| `MCCore` | invariants, and `Spec => I!Spec`, under every interrupt pattern and reset | 3-bit words, registers 0,1,2,8, 8 instructions, 2 data words, 2 predictor entries; 6 directed programs, 256 generated ones | 282 k states |
| `MCPerf` | cycle accounting and retirement; interrupts are taken, execution goes on | the directed programs, two interrupt lines; counters followed for `CYCLES` = 20 edges after each reset, the core without bound | 44 k |
| `ClintUpdate` | the CLINT's registers and level; an update in three stores, any time between them; a deadline left alone is raised | `W` = 3: mtime wraps at 9, all pairs of deadlines | 17 k |
| `TimerDemo` | the firmware's ticks | `W` = 256, `PERIOD` = 40, `HORIZON` = 150 | 44 k |
| `SocBus` | loads answered with their own word | 2 pages, 2 offsets, 2 values | 43 k |
| `SyncFifo` | pointers against the queue | depth 4, 3 words | 3.2 k |
| `C8` | a C8 source line does what it says, on the core and on the simulator; labels, calls | `MAX_CYCLES` = 24; every operation on pairs of 0, 1, 127, 128, 255 with every condition; memory, calls, gaps, wraps, out-of-range operands | 55 k |
| `Soc` | programs store what they say, where the map says | `MAX_STORES` = 20, `MAX_IRQS` = 2; the five programs, a store to each register, 25 constants, branches at the ends of their range, every instruction | 32 k |
| `SocSim` | no leftover program is run, what the status tells, commands end | `MAX_COMMANDS` = 2, four tool sets, five `--only` | 333 k |
| `MCUart` | a word arrives for every byte written, in order and with no false error; stop bits are whole; frames complete | FIFOs of one word, bytes 53 and 202, 8N1 at `div` 30 and 7O2 at `div` 15, reset at two points of a frame | 790 k |

*Why the bounds are enough.* The pipeline holds five instructions and its
hazards relate neighbours at most three apart, so programs of eight instructions
with loops reach each; two predictor entries make different branches share one,
which 64 do not on short programs. The six programs of `MCCore` are a status
poll with a store behind it, a one-instruction loop whose handler rewrites
`mepc`, calls and traps, sub-word loads and stores feeding their neighbours,
CSR access behind a load with an unknown opcode, and an `ECALL` under pending
interrupts; the generated ones are all the repetitions of four instructions out
of add, load, backward branch and indirect jump, for what nobody thought of. In `MCPerf` a redirect is
complete in three edges and 20 hold several, with stalls. `TimerDemo` follows
three periods; `W` = 256 keeps mtime in its low half. `SyncFifo`'s pointers wrap several times. In `MCUart` `div` 30
makes the receiver 3% slow, which is what 115200 baud at 50 MHz gives (448 clocks
to 434), and `div` 15 is one clock a sample and the only way to see a bit exactly
at its rate; a FIFO of one word (16 in the RTL, where the power of two matters
only to the pointers, which `SyncFifo` has) is full, empty and overrun within
three frames; 53 and 202 are each other's complement, so that every bit of a
frame takes both values beside either neighbour; `ResetPoints` keeps reset to the
start bit, where it makes a false start, and to the stop bit, where the frame is
lost with its flags computed. In `C8`, the programs that halt do so within
24 instructions and a loop has gone round by then; the corners
are where carry, borrow, overflow and sign change. `Soc` makes each program
finish: the longest stores ten words, and the timer program's loop and handler
alternate within twenty; the constants have each of bit 11 and bit 31 on either
side of a carry, and the branches reach from 8 bytes to the last offset that fits
and the first that does not. `SocSim`'s two commands are the shortest history in
which one is killed and leaves something, in `program.hex` or the build directory, and
another meets it, each of them going through up to eleven benches; the theorems have
any number. The theorems take the bounds away for everything
but liveness and what the SoC's programs other than the timer demo do (`Soc`).

`CHECK_DEADLOCK FALSE` is set where the run stops at a bound (`HORIZON`,
`MAX_STORES`, `MAX_CYCLES`, `MAX_COMMANDS`) or the machine halts (`C8`).

**Fairness.** `WF_vars(ClockEdge)` and `WF_vars(Running)` only say that the clock
does not stop. `PerfRunSpec` adds that the reset is released for good some time,
for it could be held for ever; `ClintUpdate` keeps it, and `DeadlineRaised` is about
the deadlines that are not reset's own. `MCUart` has `WF_vars(Running)` and keeps reset and reconfiguration,
which may come at any time and empty what `Delivers` waits for; reading is never
assumed, an unread FIFO overruns. `Soc` has `WF(Execute)`, the clock, and `WF(AesFinishes)`, the cipher's fixed
latency; interrupts are never promised. `SocSim` has `WF(Step)`: every subprocess
is called with a timeout, so a command that is not killed goes on, and a killed
one has ended; nobody has to invoke anything. Nothing is assumed of the interrupt
lines, the program or the bus.
`InterruptTaken` is `[]<>(Enabled = {})`: it would fail on a line that stays
enabled and asserted and is never taken.

**Runs that find a violation.** `C8_Stores`: `sim.py:4` says the simulator has
the semantics of the RTL. It has not for `ST`. The assembler puts the register to
store in bits 11:9, where the simulator (`sim.py:199-202`) and `docs/cpu8.md:65`
read it; the core stores `rs2_val`, the register in bits 5:3, which for a store
are the upper half of the offset. With offset 0 every store writes R0, that is 0:
the shipped `blink.asm` and `fibonacci.asm` do nothing useful on the RTL. The
comment at `cpu.v:167` says "(rd = source reg)". `C8` runs the stores whose
offset names the register by chance, which is also the assumption `Alike` of the
refinement theorem.

`SocSim_PassLine`: `toolchain.py:176-177` says "the pass marker the testbench prints is
what decides", `ARCHITECTURE.md:62-64` and the repository's `README.md:118-120` that every
bench declares one. `uart`, `spi`, `synth`, `trng` and `mandelbrot` declare none
(`registry.py:117-202`), so that `ok` is the exit status alone; and a testbench in
Verilog that prints FAILED or runs into its watchdog ends in `$finish`, status 0, as do
the two in VHDL when `--stop-time` ends them before their verdict. The trace is one
command: such a bench is built, ends in its watchdog, and the command's status is 0.
`StatusIsTrue`, in `SocSim`, is what the status does tell: a failed tool, a crash, a
missing line of a bench that declares one.

Met while modelling, without a run of its own:

- `docs/core.md:59` gives a misprediction a 2-cycle penalty. Three slots are
  killed since the instruction memory became synchronous: the factor 3 in
  `CyclesAccounted`.
- `memmap.py:53` has 64 kB of RAM; behind the window `soc_top.sv:95` puts the
  default `dmem`, 4 kB. A load past it is `Lost` in `SocBus`.
- `uart_core.sv:69` calls the reset value of `reg_ctrl` "8N1 default". Its fields
  are 7 data bits, even parity, one stop bit.
- `uart_core.sv:133-134` declare `apb_wr` and `apb_rd` as variables with an
  initialiser, which is evaluated once, not as wires. As the code stands no
  register is written and no byte popped; `UartLink` starts behind them, at the
  FIFO ports.
- `uart_rx.sv:186` pushes the framing flag of the frame before, since the flag is
  assigned on the same edge; `docs/uart-spi.md` says the flags accompany every
  byte. Parity is the byte's own.
- A received word is the byte sent only at 8 data bits (`Unaltered`); with fewer it has
  the byte in its high bits (`uart_rx.sv:154` shifts in from the top, and
  `uart_core.sv:144` reads the word as it is). `tb_uart.sv:162` compares `rd[7:0]` for
  7 and 5 bits too, and those phases do not agree with what the receiver does.
  `ArrivesInOrder` says what is read at each width.
- `uart_tx.sv:35` says the configuration is sampled for each frame; the divisor
  is not.
- `rx_overrun` has no clear but reset.
- `docs/core.md:58` says a misprediction is `actual_taken ≠ bht[idx][1]`. The code
  compares with the prediction carried along, and has to: with the document's
  comparison (`MispredictedNow` in `Core`) the refinement fails, since the counter
  may have moved since the fetch.
- `csr_file.sv:86-87` says an interrupt pending with an `ECALL` is "taken again on
  the handler's first instruction". Trap entry clears MIE, so it waits until the
  handler sets MIE or returns.
- `docs/core.md:173` divides `perf_mispredicts` by `perf_branches`. Every redirect
  counts, jumps, traps and MRET included, as `CyclesAccounted` needs.
- `riscv_core.sv:445-447` says `perf_instret` no longer misses an `ECALL` or an
  `MRET`, and `docs/core.md:167` that it counts all retired instructions. Both become
  `NOP_CTRL` behind EX and never retire. For `ECALL`, which traps, that is what the
  counter is for; `MRET` completes, and `MissesOnlyReturns` says that it is the one
  instruction missed.
- `perf_stall_cycles` also counts a stall that a redirect overrides on the same
  edge: the term `overridden` in `CyclesAccounted`.
- `if_stage.sv:159` calls the bogus redirect "rare rather than impossible";
  `PredictionCorrect` shows that it is impossible while instruction memory is not
  written.
- `modules/core/README.md:75` still says `ECALL`/`EBREAK` are NOPs; `mie` stores
  all 32 bits where `docs/traps.md` lists three, the only three with an effect.
- `firmware.py:145` adds 400 to the low half of mtime and stores 0 to the high
  half: after 2^32 ticks each deadline is in the past and the interrupted loop
  stops. The run and the theorem `LoopRuns` are about the time before that wrap: with
  the bounds of `TimerDemo.cfg` and `W` = 128 both of its properties fail.
- `soc_top.sv:170-172` says every peripheral registers its read. The UART's is
  combinational (`uart_core.sv:139`) and answers the address that follows the
  load's; `LoadsOwnWord` leaves it out.
- `docs/uart-spi.md:64-66`: the majority vote filters glitches shorter than a
  sample. The three samples can lie across a bit boundary (`uart_rx.sv:143`), where
  one more wrong sample decides. And 921600 baud (`docs/uart-spi.md:59`,
  `tb_uart.sv:223-225`) is not read back: `uart_rx.sv:67` rounds the receiver's bit
  to 64 clocks against 54, and the last bit of a byte is sampled in the stop bit:
  with `div` 53 the model reads byte 53 back as 149, without a flag. It is outside
  the `Tolerance` of section 4.
- `tb_uart.sv:126` masks the bytes with `8'hFF >> (8 - data_bits)`, where 8 data bits
  are `3'd8`, that is 0: its 8-bit phases send nothing but zeros.
- `tb_uart.sv:194` waits two clocks for a new divisor; `os_cnt` counts the old one
  out first (`uart_rx.sv:70-77`), which after 9600 baud is 325 clocks.
- `tb_soc` checks the UART *store* on the bus; because of the initialisers above
  the byte never takes effect.
- `memmap.py:137-139` calls `decode` a software mirror of the hardware's. It is
  for the regions that are attached and the addresses inside them; `spi` and
  `trng` select nothing, and the hardware gives a whole top nibble to a slave.
- `firmware.py`'s docstring has `build` copy the result into RAM; it does not.
- `asm.py:238-241`: `assemble()` empties `_words` while it encodes a branch. If the
  offset is refused, the words are gone, and a second `assemble()` on the same
  object returns an empty program.
- `c8asm.py`: a label on a `.org` line gets the address before it; overlapping
  `.org` blocks silently lose words; a numeric branch operand is a target, though
  the error text says "label_or_offset"; `to_listing` strips again without the
  first pass, so every address it prints is 0; the shipped `sort.asm` is refused
  (`BR LE`, a condition that does not exist).
- `alu.v`'s header says LDI and LD set the flags; `cpu.v` does not let them. `SHF`
  with function 3, which the assembler does not produce, differs between `alu.v`
  and `sim.py`: the other half of `Alike`.
- `--only core` also selects the bench `core` of `aes`; with no tool installed
  everything is skipped and the status is 0; `lint` does not catch a timeout and an
  exception out of `prepare` ends the whole command; `soc gen` writes
  `sim/program.hex`, which no bench reads.

## 4. Proofs

Assumed: `ConstantsAssumption` (ranges of the constant operators, 0 is a
register), `DepthAssumption` (a FIFO holds at least one word), `CoreAssumption`
(programs are instruction words; the predictor has at least one entry; the lines
are the three of `mip`), `ClintAssumption` (the halves of the clock are at least
two values wide), `SocBusAssumption` (at least one page, offset and value),
`TimerAssumption` and `LinkAssumption` (ranges only: the period fits the low half,
depths and divisors are naturals, `data_bits` has three bits),
`ProgramsAssumption` (a program is a sequence of what a call on the assembler can
leave; mtime is read as a word), `SourcesAssumption` (a source is a sequence of lines
whose register, condition and shift tokens are in the tables of `c8asm.py`), and that the bounds `CYCLES`, `MAX_CYCLES` and
`MAX_COMMANDS` are naturals. Nothing is assumed of the sizes.

These theorems have a hypothesis of their own, each of them what the code needs and
does not enforce:

- `OnTime`: `HORIZON + PERIOD <= W`, time and deadline fit the low word of mtime;
  past it the property is false (section 3).
- `LoopRuns`: the same, so it says nothing of the wrap either, and `PERIOD > 6 + 7 * (SLACK + 1)`, a period longer than the
  tail of the handler and one turn of the loop; a shorter one starves the loop.
- `RefinesSim`, `LinesExecute`: `Alike(imem)`, the program has no store whose register
  the core reads from other bits than the assembler fills, and no shift of the fourth
  kind (section 3).
- `ReturnsHome`: no store hits a live stack cell, and no call is made with 256 open.
- `DecodesAsMapped`: `[][Mapped]_socVars`, no access outside the map. The decode
  compares a nibble (the UART's another one), so beside a region its slave still
  answers: `SelectedSlaves` has who answers where, and at `\h20000`, for which
  `memmap.decode` says none, the RAM does. That the repository's
  programs stay inside is a conjunct of `DecodesLikeTheMap`, checked by `Soc`.
- `BranchesLand`: the program builds, and the branch's label is in it.
- `TimerDemoCounts`: what runs under the name "timer" is `build_timer_demo`. Neither
  `MAX_IRQS` nor `MAX_STORES` bounds it, and a read of mtime returns anything.
- `BuildStoresInOrder`, `BuildWaitsForCipher`: what runs under the name "soc" is
  `build`, and what it is to store is `BuildStores`, the stores its calls are for.
- `ReadBack`, `Unaltered`, `CleanLine`: `Tolerance`, that for any two configurations `a` and `c`,
  `SampleDiv(a) + Late(c) * (StopAt(c) + 1) + 5 <= 8 * SampleTime(c)`: what a sample
  counter still loaded under `a` makes the receiver late at the start bit, plus what
  it loses on each bit (16 samples are `Late` clocks longer than a bit), is less than
  half a bit. Lemma `Tolerated`: any one divisor from 384 on meets it whatever the
  frame formats, and so does any with 16 | `div` + 1. So 115200 (433) and 9600 (5207)
  do; 921600 (53) does not, nor does going from 9600 to 460800 or 921600 at once.

| Theorem | Statement |
|---|---|
| `TypeCorrect` | `Spec => []TypeOK` |
| `PipelineCorrect` | `Spec => []PipelineInv` |
| `FetchPairingCorrect`, `PathCorrect`, `PredictionCorrect`, `OperandsCorrect` | the four safety properties |
| `Refinement` | `Spec => I!Spec`: the pipeline implements `Isa` |
| `CyclesCorrect`, `RetiredCorrect` | the counters: every cycle accounted for; every instruction that completes counted once, but for `MRET` |
| `FifoTypes`, `ImplementsQueue`, `StrobesAgree` | the FIFO: pointer types, `Spec => Queue!Spec`, the same operation under the same strobes |
| `UpdateCorrect`, `NoSpuriousCorrect`, `ArmedCorrect`, `UpdateImplements`, `ClintTypeCorrect`, `LevelCorrect` | the CLINT and the deadline update |
| `OwnWord` | `Spec => []LoadsOwnWord`: on the SoC's bus a load is answered with the word of its own address |
| `OnTime`, `LoopRuns` | no tick of the timer program is early; its loop runs between any two |
| `StopBits` | `Spec => []StopBitsWhole`: no frame cuts the stop bits of the one before, for every divisor |
| `ReadBack`, `CleanLine` | `Tolerance => (Spec => []ArrivesInOrder)`, `[]NoFalseErrors`: the UART looped back delivers a word for every byte, in order and unflagged, the byte in its high bits |
| `Unaltered` | with 8 data bits in every configuration, the words are the bytes |
| `C8Types` | the C8's registers keep their widths and register 0 its zero, through reset |
| `RefinesSim` | `Spec /\ Alike(imem) => ImplementsSim`: the RTL implements the simulator for every ROM in which no store and no shift is one of those they read differently |
| `LinesExecute` | `FlowSpec /\ Alike(imem) => ExecutesItsLine`: for every source the assembler takes, each word the core executes does what its line says |
| `LabelsReached` | `FlowSpec => ReachesLabels`: jumps, calls and taken branches arrive at the first word behind their label, in every source |
| `ReturnsHome` | `RET` goes behind the `CALL` it belongs to, for every program that leaves its stack alone |
| `ImmediatesReadBack`, `LoadsAnyConstant`, `BranchesLand` | the assembler, for every operand and every program |
| `MapDecides` | the address decode and the C header, for every address |
| `SocTypes`, `DecodesAsMapped` | `Spec => []SocTypeOK`; `Spec /\ [][Mapped]_socVars => DecodesLikeTheMap` |
| `TimerDemoCounts` | `Spec => []TimerCounts`: loop and handler of the timer demo each count on by one, wherever the interrupts fall |
| `BuildStoresInOrder`, `BuildWaitsForCipher` | `Spec => [](prog.name = "soc" => DoesWhatItSays)` and `WaitsForCipher` the same: the AES program stores what it is to, in order, and the byte only behind the cipher's completion |
| `SimTypes`, `StatusCorrect` | the tool chain's types; the invariant below |
| `RunsOwnProgram`, `StatusTold` | a bench runs its own program; `Spec => []StatusIsTrue`, the status tells of a failed tool, a crash and a missing declared line, and of nothing else |

**The inductive invariant of the pipeline**, `PipelineInv`, beside `TypeOK`. No
single property holds by itself:

- `FetchPairing` needs nothing but its own three parts, one per slot.
- `PathUnbroken` needs `PredictionSound`: the successor of a predicted slot is
  its branch's target only if the BTB entry was that branch's.
- `PredictionSound` needs `PredictorTrained` (an entry whose counter predicts
  taken was put there by the branch its tag names) and `PredictedBranches`. At
  reset no counter predicts taken, so the reset tag does not matter.
- `OperandsCurrent` needs `OperandsHeld` (the operands latched in ID are the
  register file's, because ID reads through write-back) and `LoadDelayed` (no
  load is in MEM ahead of an instruction in EX that reads it: the stall).
- `BubblesInert` says what a bubble is; the valid bit alone tells the injected
  `ADDI x0,x0,0` from a fetched one.

**The refinement** maps a pipeline state to the state the sequential machine is
in: the PC is that of the oldest instruction that has not executed (EX, else
IF/ID, else the fetch register, else `pc_reg`); the registers and the memory are
what MEM and WB leave when they drain; CSRs and lines are themselves. An
instruction executes on the edge it leaves EX. With a bubble there, the step maps
to `Idle`; otherwise to `Interrupt`, `Exception`, `Return` or `Execute`; a reset
to `Reset`. The lemmas that carry it: a step without a redirect moves the
abstract PC to the successor of the slot in EX, a redirect empties the slots
behind it so that the abstract PC is the target; an instruction entering MEM
changes the abstract registers and memory by what `Isa` says, since its operands
are the abstract ones; the drain does not change them.

**Counters.** `CyclesAccounted` is inductive with `TypeOK`, `PipelineInv` and the
typing of the counters: from `PathUnbroken` an empty slot behind a full one does not
exist, which makes `Refill` a distance. `MissesOnlyReturns` is about one edge, on which
what leaves EX enters MEM, what is in MEM enters WB and what is in WB is counted. Both
are about the edges on which the counters are followed, up to any `CYCLES`.

**Deadline update.** `UpdateInv` names the four places an update can stand and
the pair `mtimecmp` holds at each. The parked low half makes the two intermediate
pairs at least the larger of what their high halves allow, so `NoSpuriousTimer`
follows by arithmetic.

**FIFO.** `FifoTypeOK` is inductive. The refinement maps the pointers to
`Contents`, the words from `rd_ptr` on; the lemma `EdgeOnQueue` shows what an edge
does to it in three cases (write, read, both), where the only thing that could go
wrong is arithmetic: the slot written is none of the slots held, for which
`count < DEPTH` is needed, and the distance survives the wrap.

**cpu8.** The abstract state is the concrete one except for the register file and
the memory while no instruction has executed: the four edges of power-on may have
written both, which the simulator has never heard of. `PowerOnInv` is what they
can have written, namely what the first instruction writes (an `LDI`'s register,
or the return address of a `CALL`; everything else computes zero from zeros), so
the first step repeats it and nothing is left over. Then one lemma an idea: the
fields, the effective address, the branch condition, the sum, difference and
shift with their flags are the same number in both readings (`SameAddress`,
`SameTarget`, `SameBranch`, `SameSum`, `SameDifference`, `SameShift`), and
`StepMaps` takes the sixteen opcodes one by one. `Alike` is exactly what the code
leaves no way around: without it the theorem is false, as `C8_Stores` shows.

**cpu8's assembler.** `Stages` is an induction over the lines: behind line `i` the
pass has reached `Reached(i)`, and its table has every label so far at the address
the source gives it. Since the address is the last `.org` plus a count of words, a
line that holds a word adds one to the count and a `.org` empties it (`NextReached`).
`Fetched`: the image has at an address the word of the last line that claims it,
which is `Here`; `LineFields` has the fields of the word of every accepted line, and
`LineDoes` what the core does with them; `OrXor` is why the bitwise operations are
the sums `Results` names. A branch counts from its own address, so that offset and
address add up to the label modulo 256. A label followed by a `.org` has an address
and no word behind it there: `Value` covers it, `ReachesLabels` does not. Neither does
it cover a label at an address outside the ROM: the assembler takes a negative `.org`
and drops the words there.

**cpu8's stack.** `StackHolds`: the memory above `sp` is the list of open calls,
last first. A push writes a cell none of the list is in, which is where the 256
cells are needed, a pop moves `sp` over the first; both are arithmetic modulo 256
(`NewCell`, `AfterPush`, `AfterPop`).

**Bus.** `ReadInFlight`: one edge after an access its word is at the port of the slave
it selected, and the registered select is that slave.

**Timer program.** `TimerInv` follows the handler: in the three stores of the
deadline the pair in `mtimecmp` is the parked one or is on its way (`Deadline`,
`InMem`), and an interrupt is taken only in the loop (`Gate`), where the pair is the
deadline itself. `Soon` bounds what the tail of the handler has used of the period,
position by position, for the second theorem.

**UART.** The link has two clocks: the transmitter's bit of `div` + 1 and the
receiver's sample of `div \div 16` + 1, and sixteen of the latter are `Late` clocks
too long. The state is read as two positions in the frame, in clocks: `Now`, where the
line is, and `RxPos`, where the receiver's next sample belongs. From the start bit on
their difference `Lag` is constant while the line moves by one and `os_cnt` by
one (`NextPos`, `FollowsOn`), so it keeps what the first sample made it, which
`InTime` bounds. With that bound the samples that decide a vote lie inside the bit
they are meant for (`OnTheBit`): the first of the three may lie across the edge, the
other two never do (`TwoOfThree`). The data then follow: `ToSend`, `OnLine` and `Taken`
say of the byte under way what is left in the shifter, what is on the line and in the
synchroniser, and what the receiver has, as quotients and remainders of the byte
(`ShiftOut`, `ShiftIn`, `Whole`), with the parity so far (`Accumulated`).
`InPlace` is the scoreboard: of the bytes accepted, oldest first, those that
arrived, the one on the line, the one latched, those in the transmit FIFO, with
one dropped for want of room taken out of its place. Two things can go wrong around a
reset: the receiver may see a false start in what the reset left on the line
(`Line`, `FalseStart`: it is given up, half a bit later, before the next frame's
start bit can arrive) and `os_cnt` may be loaded under an older divisor
(`InTime(os_cnt)`). `StopBits` needs only `Owed`: what is owed of the stop bits never
outlasts what the engine has yet to count before the next start bit.

**Assembler.** Each encoder is compared with the immediate `id_stage.sv` takes out of
its word: splitting a two's-complement number over the fields and gluing it back is
the identity on the range `_check_imm` admits (`SplitTwelve`, `SplitThirteen`: a
branch loses bit 0). `li` adds one to the upper half when the lower is negative; the
two carries cancel modulo 2^20, also when the upper half wraps to zero and one
instruction is left. Labels: `Count(marks, i)` is the number of words after `i`
calls. That it grows by one at every call but a label, that every word therefore has
one call (`PlaceExists`) and that what follows a label is the word its address names
are inductions over the calls; the library's induction theorems take an operator,
so they go through `Induct`, the same principle for a set, from the well-founded
order of the naturals.

**Address map.** `Decoded` and `SelectedSlaves` turn the first hit in the table and the
nibbles compared into the same intervals; `Bases` and `Lines` are the two headers,
and `OneOffset` that no slave has two registers at an offset. `SocTypeOK` then bounds
the address of every access by 32 bits, one address standing for all with bit 31 (`AddressOf`).

**Timer demo, as words.** Three parts. *The image*: `TimerIs` puts the calls of
`build_timer_demo` end to end, `TimerMarks` counts its labels, `AddiReads` to
`SystemReads` say what each encoder's word decodes to, and `TimerImageIs` concludes that
the ROM holds the 36 words of `TimerImage`. *The step*: `TimerStep` says for every word
what it does to the registers, the CSRs and the bus that the program depends on
(`RegsMove`, `CsrsMove`, `StoresMove`); the two addresses at the CLINT and the four in
the RAM are worked out once (`ClintTargets`, `RamTarget`). *The invariant*, `TimerInv`:
`TimerCounts` speaks of stores alone, and what makes the next store right is in
registers. `TimerTallies` has how far they are ahead: `x21` is the interrupts taken
except in front of the handler's first word, `x1` the loop's stores, plus one between
the increment and the store, where "the loop" is where the handler goes back to
(`Resumes`) when it is running. That `mepc` is one of the four words 32 to 35
(`TimerCsrs`) holds because interrupts are on nowhere else, and `x27` still holds it when
it is stored because `mepc` changes only on the way in. An interrupt can come in front
of any of those four words; the handler writes none of `x1`, `x20`, `x24` and `x28`
(`TimerRegs`), so `Resumes` and the tallies are the same before and after
(`InterruptKeeps`).

**AES program, as words.** The image as before (`SocIs`, `SocMarks`, `SocImageIs`): each
of the eight words stored is an upper half, a lower half and a store (`SocStoreAt`),
whose sum is the word again (`HalvesAdd`). The invariant says, in front of word `k`,
that the first `Made(k)` stores of the list are made (`SocAt`); three things make it
inductive. `SocRegs`: where a half or a whole word is in `x2`, and the address in `x1`.
`SocAes`: after the `n`-th store the first `n` words are in the cipher's registers and
the schedule loaded is that of the key; until the start is stored nothing is in
flight, so `done` can only be the completion of this block. `SocPolled`: behind the
load of STATUS a value other than 0 in `x2` means `done`, which stays. The cipher may
finish in front of any word (`SocWaits`); interrupts are never on. That the byte is
behind the completion is then the shape of the list: only its ninth store is a start
(`BuildWaits`).

**Commands.** `StatusInv` ties the count of failures to what really went wrong
(`wrong`) in the middle of a command, where `StatusIsTrue` says nothing, and the
program to the phases between preparing and running. The lemma `Verdict` is the part
about testbenches: for each ending of each of them, `ok` fails exactly on a crash or a
missing declared line. An ending in which a bench without a line is not satisfied
passes `ok`; it is in `wrong` and outside `Telling`.

**Only model-checked:** liveness (`InterruptTaken`, `KeepsExecuting`,
`DeadlineRaised`, `Delivers`, `SaysItAll`, `Answers`), which is out of the prover's
reach; `DoesWhatItSays` and `WaitsForCipher` for the programs other than `build`,
each of which would need an invariant of its own.

## 5. Not modelled, and the plan

`PROJECT.json` lists every component with its status, and the hazards of the parts
that are modelled with the property about each; those with a note have none.

What is left, in the order of what the SoC's own programs depend on:

1. **UART registers** (`UartCore`): the APB strobes as `soc_top` drives them,
   STATUS, interrupt status and enable, overrun, over the queues and engines of
   `UartLink`. Known to be delicate there: an interrupt bit cleared on the edge its
   condition holds (`uart_core.sv:194`), a byte written the cycle after
   `tx_fifo_full` was read (`uart_core.sv:177`), overrun that only reset clears,
   and ALU results on the bus that read a register nobody loaded (`soc_top.sv:84`).
2. **AES** (`AesPipe`, `AesAxi`): the valid chain and key register as a pipeline of
   tagged blocks; `done` when a block is started over one in flight
   (`aes_regs.sv:83`).
3. **SPI** (`SpiMaster`, `Spi`): the four modes against a slave, chip select around
   each transfer, over `SyncFifo` itself.
4. **synth** (`MidiRx`, `VoiceAlloc`), **TRNG** (`VonNeumann`, `Whitener`),
   **pong**, **mandelbrot** engine: one module each.
5. Proofs for these.

Left out for good: AES rounds, filter and fixed-point arithmetic (pure data; the
core's ALU is a constant operator of `Core`, the C8's is modelled), ring
oscillators (analogue), VGA colours and wording, listings, traces and dumps,
`c8asm.py`'s and `sim.py`'s command lines, `nist_sts.py`, `collect.py` and
`aes_benchmark.py` (statistics and measurement over recorded data), and the tools
`iverilog`, `verilator` and `ghdl` themselves, of which `SocSim` knows how they
can end.
