-------------------------------- MODULE SocSim ------------------------------
(***************************************************************************)
(* socgen/toolchain.py and the commands of socgen/cli.py that use it: one  *)
(* command at a time builds and runs testbenches from the modules'         *)
(* directories, where earlier commands, and ones that were killed, have    *)
(* left a program.hex and executables behind.                              *)
(***************************************************************************)
EXTENDS Registry, Integers, FiniteSets

CONSTANTS
  Toolsets,     \* sets of installed tools
  Onlys,        \* values of --only ({}: not given)
  MAX_COMMANDS  \* bound: commands a behaviour makes

ASSUME SimAssumption == MAX_COMMANDS \in Nat

VARIABLES
  installed,
  hex,        \* program.hex in modules/core, and in sim (which no bench reads)
  commands,   \* commands so far
  cmd,        \* the command running: "sim", "lint", "test"
  list, only, at, failures,  \* the benches a command goes through, --only, how far
  phase,      \* "idle" or where simulate or lint is with list[at]
  exe,        \* the bench's executable in the build directory: "none", "left" over
              \* from an earlier command, "torn" or "new"
  exit,       \* status of the last command: 0 .. 2, or -1: killed
  wrong       \* history: the kinds of what went wrong in this command

simVars == <<installed, hex, commands, cmd, list, only, at, failures, phase, exe, exit, wrong>>

TOOL_FOR == [verilog |-> "iverilog", systemverilog |-> "verilator", vhdl |-> "ghdl"]
have(tool) == tool \in installed
\* A tool failed; a simulation crashed; a bench that declares the line it prints
\* when satisfied was not; one that declares none was not.
Wrongs == {"tool", "crash", "line", "no line"}

missing_tools == {"iverilog", "vvp", "verilator", "ghdl"} \ installed

bench == list[at]

\* The first tool simulate would miss.
Skipped == \/ ~have(TOOL_FOR[bench.language])
           \/ bench.language = "verilog" /\ ~have("vvp")
LintSkipped == bench.language = "vhdl" \/ ~have("verilator")

\* Bug variant: the exit status alone decides.
okByStatus(b, text, code) == code = 0

ok(b, text, code) == code = 0 /\ (b.expect # "" => b.expect \in text)

-----------------------------------------------------------------------------
(* A command.                                                              *)

\* --only names modules or benches.
Named(b, names) == names = {} \/ b.module \in names \/ b.name \in names

\* Bug variant: the count of failures goes on from the last command.
BeginCounting(kind, benchlist, names) ==
  /\ phase = "idle" /\ commands < MAX_COMMANDS
  /\ commands' = commands + 1
  /\ cmd' = kind /\ list' = benchlist /\ only' = names /\ at' = 1 /\ wrong' = {}
  /\ UNCHANGED <<failures, installed, hex, exe>>

Begin(kind, benchlist, names) ==
  /\ phase = "idle" /\ commands < MAX_COMMANDS
  /\ commands' = commands + 1
  /\ cmd' = kind /\ list' = benchlist /\ only' = names
  /\ at' = 1 /\ failures' = 0 /\ wrong' = {}
  /\ UNCHANGED <<installed, hex, exe>>

\* _cmd_sim: nothing selected is status 2.
InvokeSim ==
  \E names \in Onlys, no_soc \in BOOLEAN :
    /\ Begin("sim", benches(~no_soc), names)
    /\ IF \E b \in ToSet(benches(~no_soc)) : Named(b, names)
         THEN phase' = "bench" /\ UNCHANGED exit ELSE phase' = "idle" /\ exit' = 2

InvokeLint ==
  /\ Begin("lint", benches(FALSE), {}) /\ phase' = "bench" /\ UNCHANGED exit

\* A test: simulate on one bench, with every tool there (pytest's status is 0
\* or 1).
InvokeTest ==
  /\ missing_tools = {}
  /\ \E b \in AllBenches : Begin("test", <<b>>, {})
  /\ phase' = "bench" /\ UNCHANGED exit

\* _cmd_gen: the firmware goes where no simulation looks.
Generate ==
  /\ phase = "idle" /\ commands < MAX_COMMANDS
  /\ commands' = commands + 1
  /\ hex' = [hex EXCEPT !["sim"] = "firmware"]
  /\ exit' = 0 /\ wrong' = {}
  /\ UNCHANGED <<installed, cmd, list, only, at, failures, phase, exe>>

-----------------------------------------------------------------------------
(* simulate, on list[at].                                                  *)

\* Bug variant: a bench that timed out is tried again.
ReportRetrying(fails, ending) ==
  /\ phase' = "bench"
  /\ IF ending = "timed out" THEN UNCHANGED <<failures, at>>
     ELSE failures' = (IF fails THEN failures + 1 ELSE failures) /\ at' = at + 1

\* The caller's loop: count and go on.
Report(fails, ending) ==
  /\ phase' = "bench"
  /\ failures' = IF fails THEN failures + 1 ELSE failures
  /\ at' = at + 1

Working == phase = "bench" /\ at <= Len(list) /\ Named(bench, only)
NoFile == UNCHANGED <<installed, hex, commands, cmd, list, only, exit>>

\* A bench that --only leaves out.
PassOver ==
  /\ phase = "bench" /\ at <= Len(list) /\ ~Named(bench, only)
  /\ at' = at + 1
  /\ NoFile /\ UNCHANGED <<failures, phase, exe, wrong>>

Skip ==
  /\ Working
  /\ IF cmd = "lint" THEN LintSkipped ELSE Skipped
  /\ Report(FALSE, "skipped")
  /\ NoFile /\ UNCHANGED <<exe, wrong>>

\* Bug variant: a program that is there is not written again.
StartUnlessThere ==
  /\ Working /\ cmd # "lint" /\ ~Skipped
  /\ exe' \in {"none", "left", "torn"}
  /\ IF bench.prepare = "none" \/ hex["core"] # "none"
       THEN phase' = "build" /\ UNCHANGED hex
       ELSE phase' = "writing" /\ hex' \in {hex, [hex EXCEPT ![bench.module] = "torn"]}
  /\ UNCHANGED <<installed, commands, cmd, list, only, at, failures, exit, wrong>>

\* Up to prepare, whose write_hex assembles, then opens and so empties the file.
Start ==
  /\ Working /\ cmd # "lint" /\ ~Skipped
  /\ exe' \in {"none", "left", "torn"}
  /\ IF bench.prepare = "none"
       THEN phase' = "build" /\ UNCHANGED hex
       ELSE phase' = "writing" /\ hex' \in {hex, [hex EXCEPT ![bench.module] = "torn"]}
  /\ UNCHANGED <<installed, commands, cmd, list, only, at, failures, exit, wrong>>

Written ==
  /\ phase = "writing"
  /\ hex' = [hex EXCEPT ![bench.module] = bench.prepare]
  /\ phase' = "build"
  /\ UNCHANGED <<installed, commands, cmd, list, only, at, failures, exe, exit, wrong>>

\* An exception out of prepare, which no one catches, ends the command.
WriteFails ==
  /\ phase = "writing"
  /\ phase' = "idle" /\ exit' = 1 /\ wrong' = wrong \cup {"tool"}
  /\ UNCHANGED <<installed, hex, commands, cmd, list, only, at, failures, exe>>

\* iverilog writes its output anew, and ghdl -a leaves none.  verilator builds in
\* a directory that stays: its make may find that what is there will do.
BuildSucceeds ==
  /\ phase = "build" /\ phase' = "run"
  /\ exe' \in IF bench.language = "systemverilog" /\ exe # "none" THEN {exe, "new"}
                                                                  ELSE {"new"}
  /\ NoFile /\ UNCHANGED <<at, failures, wrong>>

\* A status that is not 0, or a TimeoutExpired.
BuildFails ==
  /\ phase = "build"
  /\ exe' \in {exe, "torn"}
  /\ wrong' = wrong \cup {"tool"}
  /\ \E how \in {"failed", "timed out"} : Report(TRUE, how)
  /\ NoFile

\* What is wrong with a bench that ended so.
Wrong(b, ending) ==
  CASE ending = "satisfied" -> {}
    [] ending = "crashed" -> {"crash"}
    [] OTHER -> {IF b.expect = "" THEN "no line" ELSE "line"}

\* The simulation ended by itself; of a torn executable nothing else can come.
RunEnds ==
  /\ phase = "run"
  /\ \E ending \in Endings(bench) :
       /\ exe = "torn" => ending = "crashed"
       /\ Report(~ok(bench, Prints(bench, ending), ExitsWith(bench, ending)), ending)
       /\ wrong' = wrong \cup Wrong(bench, ending)
  /\ NoFile /\ UNCHANGED exe

RunTimesOut ==
  /\ phase = "run" /\ Report(TRUE, "timed out") /\ wrong' = wrong \cup {"tool"}
  /\ NoFile /\ UNCHANGED exe

\* The system refuses to start a torn executable: an OSError, which no one catches.
RunFailsToStart ==
  /\ phase = "run" /\ exe = "torn"
  /\ phase' = "idle" /\ exit' = 1 /\ wrong' = wrong \cup {"tool"}
  /\ UNCHANGED <<installed, hex, commands, cmd, list, only, at, failures, exe>>

\* lint runs one command; it does not catch TimeoutExpired.
Lint ==
  /\ Working /\ cmd = "lint" /\ ~LintSkipped
  /\ \/ Report(FALSE, "clean") /\ UNCHANGED <<exit, wrong>>
     \/ Report(TRUE, "issues") /\ wrong' = wrong \cup {"tool"} /\ UNCHANGED exit
     \/ /\ phase' = "idle" /\ exit' = 1 /\ wrong' = wrong \cup {"tool"}
        /\ UNCHANGED <<at, failures>>
  /\ UNCHANGED <<installed, hex, commands, cmd, list, only, exe>>

Return ==
  /\ phase = "bench" /\ at > Len(list)
  /\ phase' = "idle"
  /\ exit' = IF failures > 0 THEN 1 ELSE 0
  /\ UNCHANGED <<installed, hex, commands, cmd, list, only, at, failures, exe, wrong>>

\* Killed, at any point.
Killed ==
  /\ phase # "idle"
  /\ phase' = "idle" /\ exit' = -1
  /\ UNCHANGED <<installed, hex, commands, cmd, list, only, at, failures, exe, wrong>>

-----------------------------------------------------------------------------
\* No program.hex is committed.
Init ==
  /\ installed \in Toolsets
  /\ hex = [d \in {"core", "sim"} |-> "none"]
  /\ commands = 0 /\ cmd = "sim" /\ list = <<>> /\ only = {} /\ at = 1 /\ failures = 0
  /\ phase = "idle" /\ exe = "none" /\ exit = 0 /\ wrong = {}

Invoke == InvokeSim \/ InvokeLint \/ InvokeTest \/ Generate
Step == \/ PassOver \/ Skip \/ Start \/ Written \/ WriteFails \/ BuildSucceeds \/ BuildFails
        \/ RunEnds \/ RunTimesOut \/ RunFailsToStart \/ Lint \/ Return
Next == Invoke \/ Step \/ Killed

\* Every subprocess is called with a timeout, so a command that was not killed
\* keeps taking steps.
Spec == Init /\ [][Next]_simVars /\ WF_simVars(Step)

-----------------------------------------------------------------------------
(* Properties                                                              *)

\* A command counts no failure of another one, and none of a bench it has not
\* come to (cli.py:86-102).
SimTypeOK ==
  /\ installed \in Toolsets
  /\ hex \in [{"core", "sim"} -> Programs \cup {"none", "torn"}]
  /\ commands \in 0 .. MAX_COMMANDS
  /\ cmd \in {"sim", "lint", "test"}
  /\ list \in Seq(AllBenches) /\ only \in Onlys \cup {{}}
  /\ at \in 1 .. Len(list) + 1 /\ failures \in 0 .. at - 1
  /\ phase \in {"idle", "bench", "writing", "build", "run"}
  /\ phase # "idle" /\ at > Len(list) => phase = "bench"
  /\ exe \in {"none", "left", "torn", "new"}
  /\ exit \in -1 .. 2 /\ wrong \subseteq Wrongs

\* A bench that has a program runs its own and all of it, whatever an earlier
\* bench, an earlier command, or one that was killed while writing left in the
\* directory they share (registry.py:58-69, toolchain.py:116-117).
OwnProgram ==
  phase = "run" /\ bench.prepare # "none" => hex[bench.module] = bench.prepare

\* What a status tells: not that a bench which declares no pass line failed.
Telling(what) == what \ {"no line"} # {}

\* Status 1 says that a tool failed or timed out, a simulation crashed, or a bench
\* did not print the pass line it declares; status 0 that, in the whole command,
\* nothing of the kind happened (toolchain.py:128-180, cli.py:86-102).
StatusIsTrue == phase = "idle" /\ exit \in {0, 1} => (exit = 1 <=> Telling(wrong))

\* "The pass marker the testbench prints is what decides": after a success every
\* bench that was run had printed it (toolchain.py:176-177, ARCHITECTURE.md:62-64).
\* Five benches declare none, so a failed one is a success as well.
PassLineDecides == phase = "idle" /\ exit = 0 => wrong = {}

\* Every command ends: no bench that hangs, and no tool that does, keeps the
\* others from being run (toolchain.py:167-170).
Answers == phase # "idle" ~> phase = "idle"
=============================================================================
