------------------------------- MODULE Registry -----------------------------
(***************************************************************************)
(* socgen/registry.py: the testbenches, as what socgen/toolchain.py needs  *)
(* to know of each, and what the testbenches themselves print and exit     *)
(* with.  Sources and include paths are left out; a program is named after *)
(* the function that writes it.                                            *)
(***************************************************************************)
EXTENDS Sequences, SequencesExt

Bench(module, name, language, expect, prepare, stop) ==
  [module |-> module, name |-> name, language |-> language, expect |-> expect,
   prepare |-> prepare, stop |-> stop]

\* A bench of a module, one that runs a program on the SoC, one that a time stops.
Plain(module, name, language, expect) == Bench(module, name, language, expect, "none", FALSE)
OnSoc(name, expect, program) ==
  Bench("core", name, "systemverilog", expect, program, FALSE)
Stopped(module, name) == Bench(module, name, "vhdl", "", "none", TRUE)

MANIFEST ==
  << Plain("core", "riscv", "systemverilog", "SIMULATION PASSED"),
     Plain("uart-spi", "uart", "systemverilog", ""),
     Plain("uart-spi", "spi", "systemverilog", ""),
     Plain("aes", "core", "verilog", "All 4 vectors PASSED"),
     Plain("clint", "clint", "systemverilog", "CLINT SIMULATION PASSED"),
     Stopped("trng", "trng"),
     Plain("pong", "ball", "verilog", "0 failed"),
     Stopped("mandelbrot", "mandelbrot"),
     Plain("synth", "synth", "verilog", "") >>

SOC_BENCH    == OnSoc("soc", "SOC SIMULATION PASSED", "firmware")
TRAPS_BENCH  == OnSoc("traps", "TRAPS SIMULATION PASSED", "timer_demo")
LOAD_BENCH   == OnSoc("load", "LOADS CORRECT", "load_program")
POLL_BENCH   == OnSoc("poll", "POLL FIXED", "poll_program")
DEFECT_BENCH == OnSoc("defects", "DEFECTS FIXED", "defect_program")

benches(include_soc) ==
  MANIFEST \o (IF include_soc THEN <<SOC_BENCH, TRAPS_BENCH>> ELSE <<>>)

\* The tests call simulate on any of these (test_integration.py).
AllBenches ==
  ToSet(MANIFEST) \cup {SOC_BENCH, TRAPS_BENCH, LOAD_BENCH, POLL_BENCH, DEFECT_BENCH}
Programs == {b.prepare : b \in AllBenches} \ {"none"}

-----------------------------------------------------------------------------
(* How a simulation can end, and what it prints and exits with then.  Every *)
(* testbench in Verilog ends in $finish, which exits 0, also from its       *)
(* watchdog.  Those in VHDL are stopped, with status 0, long before they    *)
(* come to a verdict: at 500 us of 180 ms, and at 2 ms of a 16.7 ms frame.  *)

Endings(bench) ==
  IF bench.stop THEN {"stopped", "crashed"}
  ELSE {"satisfied", "crashed"}
         \cup (IF bench.name = "synth" THEN {} ELSE {"unsatisfied"})
         \cup (IF bench.name \in {"ball", "soc", "load", "poll", "defects"} THEN {}
                                                            ELSE {"watchdog"})

\* synth checks nothing: its run to the end stands for satisfaction.
PassLine(bench) == IF bench.expect = "" THEN "PASSED" ELSE bench.expect
Prints(bench, ending) ==
  CASE ending = "satisfied" -> {PassLine(bench)}
    [] ending = "unsatisfied" -> {"FAILED"}
    [] ending = "watchdog" -> {"TIMEOUT"}
    [] ending = "crashed" -> {PassLine(bench), "Segmentation fault"}
    [] ending = "stopped" -> {"simulation stopped"}
ExitsWith(bench, ending) == IF ending = "crashed" THEN 1 ELSE 0
=============================================================================
