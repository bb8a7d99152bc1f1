-------------------------------- MODULE MCSoc -------------------------------
(***************************************************************************)
(* The repository's programs, a store to every register of the map, every  *)
(* kind of constant, and branches at the ends of their range.              *)
(***************************************************************************)
EXTENDS SocPrograms

Program(name, calls, says) == [name |-> name, calls |-> calls, says |-> says]

Soc == Program("soc", build, BuildStores)
Defects == Program("defects", write_defect_program,
                   <<To("ram", 0, Num(5)), To("ram", 4, Num(7))>>)
Loads == Program("load", write_load_program,
                 <<To("ram", 0, W(\hAAAA0, 0)), To("ram", 16, W(\hBBBB0, 0)),
                   To("ram", 32, W(\hAAAA0, 0))>>)
Polls == Program("poll", write_poll_program,
                 <<To("aes", "CTRL", Num(1)), To("ram", 0, W(\hA5A50, 1))>>)
Timer == Program("timer", build_timer_demo, <<>>)

\* A store to what the C header calls r_name, and a load back; the regions the
\* simulated SoC leaves out answer nothing.
Attached == {"aes", "uart", "clint"}
Pokes ==
  {Program("poke", li(1, Num(d[3])) \o li(2, Num(6)) \o sw(2, 1, 0) \o lw(3, 1, 0)
                     \o sw(2, 0, 64) \o Spin("end"),
           (IF d[1] \in Attached THEN <<To(d[1], d[2], Num(6))>> ELSE <<>>)
             \o <<To("ram", 64, Num(6))>>) :
     d \in {e \in ToC : e[2] \notin {"BASE", "SIZE"}}}

Constants ==
  {Program("li", li(1, W(hi, lo)) \o sw(1, 0, 2047 - 3) \o Spin("end"),
           <<To("ram", 2044, W(hi, lo))>>) :
     hi \in {0, 1, 524287, 524288, 1048575}, lo \in {0, 1, 2047, 2048, 4095}}

Nops(n) == [i \in 1 .. n |-> nop[1]]
\* Over n instructions forward, and back from behind them.
Far(n) ==
  Program("far", li(1, Num(1)) \o bne(1, 0, "there") \o label("back") \o sw(1, 0, 0)
                   \o Spin("end") \o Nops(n) \o label("there") \o beq(0, 0, "back"),
          <<To("ram", 0, Num(1))>>)
Back(n) ==
  Program("back", beq(0, 0, "go") \o label("land") \o li(1, Num(3)) \o sw(1, 0, 4) \o Spin("end")
                    \o Nops(n) \o label("go") \o bne(0, 0, "go") \o beq(0, 0, "land"),
          <<To("ram", 4, Num(3))>>)

\* The instructions the firmware does not use: their results are stored.
Others ==
  Program("others",
    li(1, W(\h12345, \h678)) \o li(4, Num(8)) \o andi(2, 1, -16) \o add(3, 1, 1)
      \o sw(2, 4, -4) \o sw(3, 4, -8)
      \o csrw(832, 1) \o csrrw(5, 832, 4) \o sw(5, 0, 0)
      \o csrs(832, 1) \o csrc(832, 4) \o csrr(6, 832) \o sw(6, 0, 0)
      \o csrrwi(7, 832, 31) \o csrrsi(8, 832, 0) \o csrrci(9, 832, 5) \o csrr(10, 832)
      \o sw(8, 0, 0) \o sw(10, 0, 0)
      \o csrrs(11, 768, 0) \o csrrc(12, 1, 0) \o sw(11, 0, 0)
      \o lw(13, 0, 0) \o sw(13, 0, 8) \o Spin("end"),
    <<To("ram", 4, W(\h12345, \h670)), To("ram", 0, W(\h2468A, \hCF0)),
      To("ram", 0, W(\h12345, \h678)), To("ram", 0, W(\h12345, \h670)),
      To("ram", 0, Num(31)), To("ram", 0, Num(26)), To("ram", 0, W(1, 2048)),
      To("ram", 8, W(1, 2048))>>)

\* What the assembler refuses never gets into a ROM.
Refused ==
  {Program("refused", c \o sw(0, 0, 0) \o Spin("end"), <<To("none", 0, Num(0))>>) :
     c \in {beq(0, 0, "nowhere"), label("end"), addi(1, 0, 2048), sw(1, 0, -2049),
            add(32, 0, 0), csrrwi(1, 832, 32), csrw(4096, 1), bne(32, 0, "end")}}

MCPrograms ==
  {Soc, Defects, Loads, Polls, Timer, Others}
    \cup Pokes \cup Constants \cup {Far(n) : n \in {0, 508, 1018, 1019, 1020, 1021}}
    \cup {Back(n) : n \in {0, 508, 1016, 1017, 1018, 1019}} \cup Refused

MCTimes == {Num(0), Num(3700)}
=============================================================================
