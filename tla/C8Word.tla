------------------------------- MODULE C8Word -------------------------------
(***************************************************************************)
(* The 16-bit instruction word of the C8 and byte operations, shared by    *)
(* the simulator (sim.py), the RTL (cpu.v, alu.v) and the assembler.       *)
(***************************************************************************)
EXTENDS Integers

Byte == 0 .. 255
Insn == 0 .. 65535
Reg  == 0 .. 7

\* The fields every reader of the word cuts out of it.
Op(w)   == (w \div 4096) % 16
Rd(w)   == (w \div 512) % 8
Rs1(w)  == (w \div 64) % 8
Rs2(w)  == (w \div 8) % 8
Fn(w)   == w % 8
Imm9(w) == w % 512
Imm8(w) == w % 256
Imm6(w) == w % 64

\* The opcodes.
NOP  == 0
ADD  == 1
SUB  == 2
AND  == 3
OR   == 4
XOR  == 5
SHF  == 6
CMP  == 7
LDI  == 8
LD   == 9
ST   == 10
BR   == 11
JMP  == 12
CALL == 13
RET  == 14
HLT  == 15

\* The bit of weight w, and the byte with the bits f gives.
Bit(a, w) == (a \div w) % 2
FromBits(f(_)) ==
  f(1) + 2 * f(2) + 4 * f(4) + 8 * f(8) + 16 * f(16) + 32 * f(32) + 64 * f(64) + 128 * f(128)

BitAnd(a, b) == FromBits(LAMBDA w : Bit(a, w) * Bit(b, w))
BitOr(a, b)  == FromBits(LAMBDA w : Bit(a, w) + Bit(b, w) - Bit(a, w) * Bit(b, w))
BitXor(a, b) == FromBits(LAMBDA w : (Bit(a, w) + Bit(b, w)) % 2)

Sign(a) == Bit(a, 128)

Flags == [Z : 0 .. 1, N : 0 .. 1, C : 0 .. 1, V : 0 .. 1]
NoFlags == [Z |-> 0, N |-> 0, C |-> 0, V |-> 0]
IsZero(r) == IF r = 0 THEN 1 ELSE 0
=============================================================================
