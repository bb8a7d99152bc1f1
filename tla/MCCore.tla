------------------------------- MODULE MCCore -------------------------------
(***************************************************************************)
(* Core on a small machine: words of the three bits the CSRs give meaning  *)
(* to, three registers, eight instructions, two data words and a two-entry *)
(* predictor, so that different branches share an entry.                   *)
(***************************************************************************)
EXTENDS Core, Sequences

MCBit == {3, 7, 11}

Num(w) == (IF 3 \in w THEN 1 ELSE 0) + (IF 7 \in w THEN 2 ELSE 0)
          + (IF 11 \in w THEN 4 ELSE 0)
Wd(n) == {b \in MCBit : \/ b = 3 /\ n % 2 = 1
                        \/ b = 7 /\ (n \div 2) % 2 = 1
                        \/ b = 11 /\ (n \div 4) % 2 = 1}

MCFunc == {"ADD", "SUB", "EQ", "NE", "W", "B", "RW", "RS", "RC"}

MCAlu(f, a, b) == IF f = "SUB" THEN Wd((Num(a) + 8 - Num(b)) % 8)
                               ELSE Wd((Num(a) + Num(b)) % 8)
MCTaken(f, a, b) == CASE f = "EQ" -> a = b [] f = "NE" -> a # b [] OTHER -> FALSE

\* The top bit selects the word; a byte is the low two bits of it.
MCAddrOf(a) == Num(a) \div 4
MCMerge(f, a, old, new) == IF f = "B" THEN (old \cap {11}) \cup (new \cap {3, 7})
                                      ELSE new
MCExtend(f, a, w) == IF f = "B" THEN w \cap {3, 7} ELSE w
MCPcOf(w) == Num(w)
MCWordOf(p) == Wd(p)
MCUimm(r) == IF r = 8 THEN {3} ELSE {}
MCCause(c) == CASE c = "ecall" -> {3} [] c = "ebreak" -> {7} [] c = "ext" -> {11}
                [] c = "soft" -> {3, 11} [] OTHER -> {7, 11}

Ins(op, f, rd, rs1, rs2, n, off, c) ==
  [op |-> op, f |-> f, rd |-> rd, rs1 |-> rs1, rs2 |-> rs2, imm |-> Wd(n),
   off |-> off, csr |-> c]
Addi(rd, r, n)  == Ins("opimm", "ADD", rd, r, 0, n, 0, "other")
Add(rd, r, s)   == Ins("op", "ADD", rd, r, s, 0, 0, "other")
Br(f, r, s, off) == Ins("branch", f, 0, r, s, 0, off % NPC, "other")
Ld(f, rd, r, n) == Ins("load", f, rd, r, 0, n, 0, "other")
St(f, r, s, n)  == Ins("store", f, 0, r, s, n, 0, "other")
Jal(rd, off)    == Ins("jal", "ADD", rd, 0, 0, 0, off % NPC, "other")
Jalr(rd, r, n)  == Ins("jalr", "ADD", rd, r, 0, n, 0, "other")
Csr(f, rd, c, r) == Ins("csr", f, rd, r, 0, 0, 0, c)
Csri(f, rd, c, u) == Ins("csri", f, rd, u, 0, 0, 0, c)
Sys(op)         == Ins(op, "ADD", 0, 0, 0, 0, 0, "other")
Upper(op, rd, n) == Ins(op, "ADD", rd, 0, 0, n, 0, "other")

Load(s) == [n \in 0 .. DEPTH - 1 |-> s[n + 1]]

\* A status poll with interrupts on: the load, the branch behind it and the
\* store after the loop are all interrupted at every point; handler at 7.
Poll == <<Addi(1, 0, 7), Csr("RW", 0, "mie", 1), Csr("RW", 0, "mtvec", 1),
          Csri("RS", 0, "mstatus", 8), Ld("W", 2, 0, 0), Br("EQ", 2, 0, -1),
          St("W", 0, 1, 0), Sys("mret")>>

\* One-instruction loop under interrupts; the handler rewrites mepc.
Spin == <<Csri("RW", 1, "mie", 8), Addi(1, 0, 5), Csr("RW", 0, "mtvec", 1),
          Csri("RS", 2, "mstatus", 8), Br("EQ", 0, 0, 0),
          Csr("RS", 2, "mepc", 0), Csr("RW", 8, "mepc", 1), Sys("mret")>>

Calls == <<Addi(1, 0, 5), Csr("RW", 0, "mtvec", 1), Sys("ecall"), Jal(2, 2),
           Sys("ebreak"), Csr("RS", 8, "mcause", 0), Csr("RC", 1, "mtvec", 8),
           Jalr(2, 2, 0)>>

\* Sub-word store and load, the loaded value used at once by a store and a
\* branch; a counted loop whose branches share a predictor entry.
Bytes == <<Addi(1, 1, 3), St("B", 0, 1, 4), Ld("B", 2, 0, 4), St("W", 1, 2, 0),
           Br("NE", 2, 1, -4), Ld("W", 1, 2, 0), Add(8, 1, 2), Br("NE", 8, 0, 1)>>

\* A csrw fed by a load, an unknown opcode under interrupts, mip read back.
Mixed == <<Ld("W", 1, 0, 0), Csr("RW", 2, "mscratch", 1), Upper("lui", 1, 7),
           Csr("RW", 0, "mie", 1), Csri("RS", 0, "mstatus", 8), Sys("unknown"),
           Csr("RS", 2, "mip", 0), Upper("auipc", 8, 3)>>

\* ECALL with interrupts enabled and pending; a load behind the handler.
Masked == <<Csri("RW", 0, "mie", 8), Csri("RS", 0, "mstatus", 8), Sys("ecall"),
            Ld("W", 1, 0, 0), Add(2, 1, 1), Sys("fence"), Jal(0, -3), Sys("mret")>>

MCDirected == {Load(Poll), Load(Spin), Load(Calls), Load(Bytes), Load(Mixed),
               Load(Masked)}

\* Every program of four instructions over this alphabet, repeated.
Alphabet == {Addi(1, 1, 1), Ld("W", 1, 2, 0), Br("NE", 1, 0, -1), Jalr(2, 1, 1)}
Every == {[n \in 0 .. DEPTH - 1 |-> p[n % 4]] : p \in [0 .. 3 -> Alphabet]}

MCPrograms == MCDirected \cup Every

MCPowerUp == {[r \in Reg \ {0} |-> {}]}
=============================================================================
