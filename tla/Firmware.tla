------------------------------- MODULE Firmware -----------------------------
(***************************************************************************)
(* The programs the SoC's testbenches run, as the calls their builders     *)
(* make: socgen/firmware.py build and build_timer_demo, and the            *)
(* regression programs of socgen/registry.py.                              *)
(***************************************************************************)
EXTENDS RvAsm, MemMap

\* KEY and PLAINTEXT, most significant word first.
KEY == <<W(\h2B7E1, \h516), W(\h28AED, \h2A6), W(\hABF71, \h588), W(\h09CF4, \hF3C)>>
PLAINTEXT == <<W(\h3243F, \h6A8), W(\h885A3, \h08D), W(\h31319, \h8A2), W(\hE0370, \h734)>>

\* _words: least significant first.
Words(value) == Reverse(value)

base(name) == Num(region(name).base)

\* Store four words behind x1 from an offset on.
StoreWords(value, offset) ==
  LET stored(i) == li(2, Words(value)[i]) \o sw(2, 1, offset + 4 * (i - 1))
  IN stored(1) \o stored(2) \o stored(3) \o stored(4)

Spin(name) == label(name) \o beq(0, 0, name)
Poll == label("wait") \o lw(2, 1, 36) \o beq(2, 0, "wait")

\* Bug variant: the UART byte goes out without waiting for the cipher.
buildUnpolled ==
  li(1, base("aes")) \o StoreWords(KEY, 0) \o nop \o nop \o nop \o nop
    \o StoreWords(PLAINTEXT, 16) \o li(2, Num(1)) \o sw(2, 1, 32)
    \o li(6, base("uart")) \o li(7, Num(65)) \o sw(7, 6, 0) \o Spin("done")

build ==
  li(1, base("aes")) \o StoreWords(KEY, 0) \o nop \o nop \o nop \o nop
    \o StoreWords(PLAINTEXT, 16)
    \o li(2, Num(1)) \o sw(2, 1, 32)
    \o Poll
    \o li(6, base("uart")) \o li(7, Num(65)) \o sw(7, 6, 0)
    \o Spin("done")

\* Bug variant: the loop and the handler share a register.
TicksShared == 1
Ticks == 21

\* Park the deadline, read the time, set the deadline (the shared tail of the
\* handler and of the set-up).
Rearm ==
  li(25, Num(-1)) \o sw(25, 24, 0) \o sw(0, 28, 0) \o lw(23, 22, 0)
    \o addi(23, 23, 400) \o sw(23, 24, 0)

handler_pc == PcOf(Built(beq(0, 0, "start")))
build_timer_demo ==
  beq(0, 0, "start")
    \o label("handler")
    \o addi(Ticks, Ticks, 1) \o sw(Ticks, 20, 4)
    \o csrr(26, 834) \o sw(26, 20, 8)
    \o csrr(27, 833) \o sw(27, 20, 12)
    \o Rearm \o mret
    \o label("start")
    \o li(20, base("ram"))
    \o li(22, Num(region("clint").base + \hBFF8))
    \o li(24, Num(region("clint").base + \h4000))
    \o li(28, Num(region("clint").base + \h4004))
    \o li(Ticks, Num(0)) \o Rearm
    \o li(5, Num(handler_pc)) \o csrw(773, 5)
    \o li(6, Num(128)) \o csrw(772, 6)
    \o csrrsi(0, 768, 8)
    \o li(1, Num(0))
    \o label("loop") \o addi(1, 1, 1) \o sw(1, 20, 0) \o beq(0, 0, "loop")

write_defect_program ==
  li(1, Num(0)) \o li(2, Num(5)) \o li(3, base("ram"))
    \o label("loop") \o addi(1, 1, 1) \o bne(1, 2, "loop") \o sw(1, 3, 0)
    \o li(4, Num(region("aes").base + 36)) \o li(5, Num(\hDEAD)) \o lw(5, 4, 0)
    \o addi(5, 5, 7) \o sw(5, 3, 4)
    \o Spin("end")

write_load_program ==
  li(1, base("ram"))
    \o li(2, W(\hAAAA0, 0)) \o sw(2, 1, 0)
    \o li(3, W(\hBBBB0, 0)) \o sw(3, 1, 16) \o nop \o nop \o nop
    \o lw(4, 1, 16) \o nop \o nop \o nop
    \o lw(5, 1, 0) \o nop \o nop \o nop
    \o sw(5, 1, 32)
    \o Spin("end")

write_poll_program ==
  li(1, base("aes")) \o li(3, base("ram"))
    \o li(2, Num(1)) \o sw(2, 1, 32)
    \o Poll
    \o li(4, W(\hA5A50, 1)) \o sw(4, 3, 0)
    \o Spin("end")
=============================================================================
