-------------------------------- MODULE MCC8 --------------------------------
(***************************************************************************)
(* Sources for C8Flow.  Registers 1 and 2 take boundary values; what       *)
(* follows takes every operation, condition and offset of interest.        *)
(***************************************************************************)
EXTENDS C8Flow

At(x, ln)   == [ln EXCEPT !.label = NameT(x)]
I0(m)       == Line(None, m, <<>>)
I1(m, a)    == Line(None, m, <<a>>)
I2(m, a, b) == Line(None, m, <<a, b>>)
I3(m, a, b, c) == Line(None, m, <<a, b, c>>)
L(x)        == NameT(x)
Org(n)      == I1(".ORG", IntT(n))
Set(r, n)   == I2("LDI", RegT(r), IntT(n))

Corner == {0, 1, 127, 128, 255}

\* Every operation on every pair of corners, then every condition.
Ops == {I3(m, RegT(3), RegT(1), RegT(2)) : m \in {"ADD", "SUB", "AND", "OR", "XOR"}}
         \cup {I3("SHF", RegT(3), RegT(1), FnT(f)) : f \in 0 .. 2}
         \cup {I2("CMP", RegT(1), RegT(2))}
Arithmetic ==
  {<<Set(1, x), Set(2, y), op, I2("BR", CcT(c), L(1)), Set(4, 9), At(1, I0("HLT"))>> :
     x \in Corner, y \in Corner, op \in Ops, c \in 0 .. 7}

\* Stores whose offset's bits 5:3 name the register that is stored.
AlikeStores ==
  {I2("ST", MemT(1, 8), RegT(1)), I2("ST", MemT(2, -8), RegT(7)),
   I2("ST", MemT(0, 0), RegT(0)), I2("ST", MemT(1, 23), RegT(2)),
   I2("ST", MemT(2, -32), RegT(4))}
AnyStores == {I2("ST", MemT(1, 0), RegT(1)), I2("ST", MemT(0, 0), RegT(2))}
LoadsOf == {I2("LD", RegT(3), MemT(1, 8)), I2("LD", RegT(0), MemT(2, 31)),
            I2("LD", RegT(2), MemT(2, -8)), I2("LD", RegT(2), MemT(0, -1))}
Memory(stores) ==
  {<<first, Set(1, x), Set(2, y), Set(7, 77), s, l, t, I0("HLT")>> :
     first \in {Set(3, 5), I1("CALL", IntT(1)), I2("LD", RegT(1), MemT(0, 0)),
                I3("SUB", RegT(4), RegT(4), RegT(4))},
     x \in {0, 250}, y \in {1, 8, 255}, s \in stores, l \in LoadsOf, t \in stores}

\* Control flow: calls inside calls, loops, gaps, the end of the ROM.
Sub == <<At(2, I1("CALL", L(3))), I0("RET"), At(3, Set(5, 1)), I0("RET")>>
Gap(o) ==
  <<I1("JMP", L(1)), I1(".WORD", IntT(65535)), At(2, I0("HLT")), Org(o),
    Line(NameT(1), "", <<>>), I1("CALL", L(3)), I2("BR", CcT(6), L(2)),
    At(3, I2("LDI", RegT(6), L(2))), I0("RET")>>

\* From the last word of the ROM to the first.
Wrap(op) ==
  <<I2("BR", CcT(0), L(1)), I3("SUB", RegT(1), RegT(1), RegT(1)), I1("JMP", L(2)),
    At(1, I0("HLT")), Org(255), At(2, I0(op))>>

Loop ==
  <<Set(1, 1), Set(2, 3), At(1, I1("CALL", L(2))), I3("SUB", RegT(2), RegT(2), RegT(1)),
    I2("BR", CcT(1), L(1)), I0("HLT"), At(2, I3("ADD", RegT(3), RegT(3), RegT(2))),
    I0("RET")>>

\* The last two: a descent without end, and a return nobody called for.
Flow ==
  {<<I1("CALL", L(2)), I1("CALL", L(2)), I0("HLT")>> \o Sub, Loop,
   <<At(1, I1("CALL", L(1)))>>,
   <<I2("CMP", RegT(0), RegT(0)), I2("BR", CcT(1), L(1)), At(1, I0("RET"))>>}
  \cup {Gap(o) : o \in {3, 100, 250}} \cup {Wrap(op) : op \in {"NOP", "RET"}}

\* Operands at and past the end of their range; the assembler refuses the latter.
Edges ==
  {<<Set(r, n), I0("HLT")>> : r \in {0, 1}, n \in {-1, 0, 255, 256}}
  \cup {<<I2("LD", RegT(1), MemT(0, n)), I0("HLT")>> : n \in {-33, -32, 31, 32}}
  \cup {<<I1("JMP", IntT(n))>> : n \in {-1, 255, 256}}
  \cup {<<I2("BR", CcT(6), IntT(n))>> : n \in {-257, -256, 255, 256}}
  \cup {<<Org(n), I0("NOP")>> : n \in {255, 256}}
  \cup {<<At(1, I0("NOP")), At(1, I0("HLT"))>>, <<I1("JMP", L(9))>>,
        <<Org(0), At(1, Org(4)), I1("JMP", L(1))>>}

MCSources == Arithmetic \cup Memory(AlikeStores) \cup Flow \cup Edges
MCStores == Memory(AnyStores)
=============================================================================
