---------------------------- MODULE SocSimProofs ----------------------------
(***************************************************************************)
(* What SocSim's runs check holds for any tools, any --only and any number *)
(* of commands.  StatusInv says what is true in the middle of a command:   *)
(* the count of failures and what really went wrong go together.           *)
(***************************************************************************)
EXTENDS SocSim, TLAPS

Lines == {"", "SIMULATION PASSED", "All 4 vectors PASSED", "CLINT SIMULATION PASSED",
          "0 failed", "SOC SIMULATION PASSED", "TRAPS SIMULATION PASSED",
          "LOADS CORRECT", "POLL FIXED", "DEFECTS FIXED"}

\* What the proofs use of the table.
WellFormed(b) ==
  /\ b.expect \in Lines
  /\ b.language \in {"verilog", "systemverilog", "vhdl"}
  /\ b.stop => b.language = "vhdl" /\ b.expect = ""
  /\ b.language = "vhdl" => b.stop
  /\ b.prepare # "none" => b.module = "core"
  /\ b.prepare \notin {"torn"}

LEMMA TableEntries ==
  ASSUME NEW i \in DOMAIN MANIFEST PROVE WellFormed(MANIFEST[i])
  <1>1. DOMAIN MANIFEST = 1 .. 9
    BY DEF MANIFEST
  <1>2. \A module, name, lang, line :
          lang \in {"verilog", "systemverilog"} /\ line \in Lines
            => WellFormed(Plain(module, name, lang, line))
    BY DEF Plain, Bench, WellFormed
  <1>3. \A module, name : WellFormed(Stopped(module, name))
    BY DEF Stopped, Bench, WellFormed, Lines
  <1>4. i \in {1, 2, 3, 4, 5, 6, 7, 8, 9}
    BY <1>1
  <1>6. CASE i = 1
    BY <1>2, <1>6 DEF MANIFEST, Lines
  <1>7. CASE i = 2
    BY <1>2, <1>7 DEF MANIFEST, Lines
  <1>8. CASE i = 3
    BY <1>2, <1>8 DEF MANIFEST, Lines
  <1>9. CASE i = 4
    BY <1>2, <1>9 DEF MANIFEST, Lines
  <1>10. CASE i = 5
    BY <1>2, <1>10 DEF MANIFEST, Lines
  <1>11. CASE i = 6
    BY <1>3, <1>11 DEF MANIFEST
  <1>14. CASE i = 8
    BY <1>3, <1>14 DEF MANIFEST
  <1>12. CASE i = 7
    BY <1>2, <1>12 DEF MANIFEST, Lines
  <1>13. CASE i = 9
    BY <1>2, <1>13 DEF MANIFEST, Lines
  <1> QED BY <1>4, <1>6, <1>7, <1>8, <1>9, <1>10, <1>11, <1>12, <1>13, <1>14

LEMMA Table == \A b \in AllBenches : WellFormed(b)
  <1> SUFFICES ASSUME NEW b \in AllBenches PROVE WellFormed(b)
    OBVIOUS
  <1>1. CASE b \in ToSet(MANIFEST)
    BY <1>1, TableEntries DEF ToSet
  <1>2. CASE b \in {SOC_BENCH, TRAPS_BENCH, LOAD_BENCH, POLL_BENCH, DEFECT_BENCH}
    <2>1. \A name, line, program :
            line \in Lines /\ program # "torn" => WellFormed(OnSoc(name, line, program))
      BY DEF OnSoc, Bench, WellFormed
    <2>2. WellFormed(SOC_BENCH) /\ WellFormed(TRAPS_BENCH)
      BY <2>1 DEF SOC_BENCH, TRAPS_BENCH, Lines
    <2>3. WellFormed(LOAD_BENCH) /\ WellFormed(POLL_BENCH) /\ WellFormed(DEFECT_BENCH)
      BY <2>1 DEF LOAD_BENCH, POLL_BENCH, DEFECT_BENCH, Lines
    <2> QED BY <1>2, <2>2, <2>3
  <1> QED BY <1>1, <1>2 DEF AllBenches

LEMMA Listed == \A soc \in BOOLEAN : benches(soc) \in Seq(AllBenches)
  <1>1. MANIFEST \in Seq(AllBenches)
    <2>1. \A i \in DOMAIN MANIFEST : MANIFEST[i] \in AllBenches
      BY DEF AllBenches, ToSet
    <2>2. Len(MANIFEST) = 9 /\ DOMAIN MANIFEST = 1 .. 9
      BY DEF MANIFEST
    <2>3. MANIFEST = [i \in 1 .. 9 |-> MANIFEST[i]]
      BY DEF MANIFEST
    <2> QED BY <2>1, <2>2, <2>3
  <1>2. <<>> \in Seq(AllBenches) /\ <<SOC_BENCH>> \in Seq(AllBenches)
          /\ <<SOC_BENCH, TRAPS_BENCH>> \in Seq(AllBenches)
    BY DEF AllBenches
  <1> QED BY <1>1, <1>2 DEF benches

\* ok fails a bench for the endings a status tells of, and for no other.
LEMMA Verdict ==
  ASSUME NEW b, WellFormed(b), NEW e \in Endings(b)
  PROVE  ~ok(b, Prints(b, e), ExitsWith(b, e)) <=> Telling(Wrong(b, e))
  <1>1. e \in {"satisfied", "crashed", "unsatisfied", "watchdog", "stopped"}
    BY DEF Endings
  <1>2. CASE e = "satisfied"
    BY <1>2 DEF ok, Prints, ExitsWith, Wrong, Telling, PassLine
  <1>3. CASE e = "crashed"
    <2>1. ~ok(b, Prints(b, e), ExitsWith(b, e))
      BY <1>3 DEF ok, ExitsWith
    <2>2. Telling(Wrong(b, e))
      <3>1. "crash" \in Wrong(b, e) \ {"no line"}
        BY <1>3 DEF Wrong
      <3> QED BY <3>1 DEF Telling
    <2> QED BY <2>1, <2>2
  <1>4. CASE e \in {"unsatisfied", "watchdog", "stopped"}
    <2>1. ExitsWith(b, e) = 0
      BY <1>4 DEF ExitsWith
    <2>2. Prints(b, e) \cap Lines = {}
      BY <1>4 DEF Prints, Lines
    <2>3. b.expect \in Lines
      BY DEF WellFormed
    <2>4. ok(b, Prints(b, e), ExitsWith(b, e)) <=> b.expect = ""
      BY <2>1, <2>2, <2>3, Zenon DEF ok
    <2>5. Telling(Wrong(b, e)) <=> b.expect # ""
      <3>1. Wrong(b, e) = {IF b.expect = "" THEN "no line" ELSE "line"}
        BY <1>4 DEF Wrong
      <3> QED BY <3>1 DEF Telling
    <2> QED BY <2>4, <2>5
  <1> QED BY <1>1, <1>2, <1>3, <1>4

LEMMA WrongKinds ==
  ASSUME NEW b, NEW e \in Endings(b)
  PROVE  Wrong(b, e) \subseteq Wrongs
  BY DEF Wrong, Wrongs

LEMMA ToolTells == \A w : Telling(w \cup {"tool"})
  <1> SUFFICES ASSUME NEW w PROVE Telling(w \cup {"tool"})
    OBVIOUS
  <1>1. "tool" \in (w \cup {"tool"}) \ {"no line"}
    OBVIOUS
  <1> QED BY <1>1 DEF Telling

-----------------------------------------------------------------------------
(* Types.                                                                  *)

LEMMA BenchKnown ==
  SimTypeOK /\ phase \in {"writing", "build", "run"} => bench \in AllBenches /\ at <= Len(list)
  BY DEF SimTypeOK, bench

LEMMA BeginTypes ==
  ASSUME SimTypeOK, NEW kind \in {"sim", "lint", "test"}, NEW l \in Seq(AllBenches),
         NEW names \in Onlys \cup {{}}, Begin(kind, l, names),
         phase' \in {"idle", "bench"}, exit' \in -1 .. 2
  PROVE  SimTypeOK'
  <1>1. wrong' \subseteq Wrongs
    BY DEF Begin
  <1> QED BY <1>1, SimAssumption DEF SimTypeOK, Begin

LEMMA ReportTypes ==
  ASSUME SimTypeOK, at <= Len(list), NEW fails, NEW how, Report(fails, how), NoFile,
         exe' \in {"none", "left", "torn", "new"}, wrong' \subseteq Wrongs
  PROVE  SimTypeOK'
  <1>1. failures + 1 \in 0 .. at /\ failures \in 0 .. at /\ at + 1 \in 1 .. Len(list) + 1
    BY DEF SimTypeOK
  <1> QED BY <1>1 DEF SimTypeOK, Report, NoFile

\* The type invariant holds for every set of tools and every --only.
THEOREM SimTypes == Spec => []SimTypeOK
  <1>1. Init => SimTypeOK
    <2>1. <<>> \in Seq(AllBenches)
      OBVIOUS
    <2> QED BY <2>1, SimAssumption DEF Init, SimTypeOK
  <1>2. SimTypeOK /\ [Next]_simVars => SimTypeOK'
    <2> SUFFICES ASSUME SimTypeOK, [Next]_simVars PROVE SimTypeOK'
      OBVIOUS
    <2>1. CASE InvokeSim
      <3> PICK names \in Onlys, no_soc \in BOOLEAN :
            /\ Begin("sim", benches(~no_soc), names)
            /\ IF \E b \in ToSet(benches(~no_soc)) : Named(b, names)
                 THEN phase' = "bench" /\ UNCHANGED exit ELSE phase' = "idle" /\ exit' = 2
        BY <2>1 DEF InvokeSim
      <3>1. benches(~no_soc) \in Seq(AllBenches)
        BY Listed
      <3>2. phase' \in {"idle", "bench"} /\ exit' \in -1 .. 2
        BY DEF SimTypeOK
      <3> QED BY <3>1, <3>2, BeginTypes
    <2>2. CASE InvokeLint
      <3>1. benches(FALSE) \in Seq(AllBenches)
        BY Listed
      <3>2. phase' \in {"idle", "bench"} /\ exit' \in -1 .. 2
        BY <2>2 DEF SimTypeOK, InvokeLint
      <3> QED BY <2>2, <3>1, <3>2, BeginTypes DEF InvokeLint
    <2>3. CASE InvokeTest
      <3> PICK b \in AllBenches : Begin("test", <<b>>, {}) /\ phase' = "bench" /\ UNCHANGED exit
        BY <2>3 DEF InvokeTest
      <3>1. <<b>> \in Seq(AllBenches)
        OBVIOUS
      <3>2. phase' \in {"idle", "bench"} /\ exit' \in -1 .. 2
        BY DEF SimTypeOK
      <3> QED BY <3>1, <3>2, BeginTypes
    <2>4. CASE Generate
      <3>1. SOC_BENCH \in AllBenches /\ SOC_BENCH.prepare = "firmware"
        BY DEF AllBenches, SOC_BENCH, OnSoc, Bench
      <3>2. "firmware" \in Programs
        BY <3>1 DEF Programs
      <3>3. wrong' \subseteq Wrongs
        BY <2>4 DEF Generate
      <3> QED BY <2>4, <3>2, <3>3, SimAssumption DEF Generate, SimTypeOK
    <2>5. CASE PassOver
      BY <2>5 DEF PassOver, NoFile, SimTypeOK
    <2>6. CASE Skip
      BY <2>6, ReportTypes DEF Skip, Working, SimTypeOK
    <2>7. CASE Start
      BY <2>7 DEF Start, Working, SimTypeOK
    <2>8. CASE Written
      <3>1. bench \in AllBenches
        BY <2>8, BenchKnown DEF Written
      <3>2. bench.prepare \in Programs \cup {"none"}
        BY <3>1 DEF Programs
      <3> QED BY <2>8, <3>2 DEF Written, SimTypeOK
    <2>9. CASE WriteFails
      <3>1. wrong' \subseteq Wrongs
        BY <2>9 DEF WriteFails, SimTypeOK, Wrongs
      <3> QED BY <2>9, <3>1 DEF WriteFails, SimTypeOK
    <2>10. CASE BuildSucceeds
      BY <2>10 DEF BuildSucceeds, NoFile, SimTypeOK
    <2>11. CASE BuildFails
      <3>1. at <= Len(list)
        BY <2>11, BenchKnown, Zenon DEF BuildFails
      <3>2. wrong' \subseteq Wrongs
        BY <2>11 DEF BuildFails, SimTypeOK, Wrongs
      <3> QED BY <2>11, <3>1, <3>2, ReportTypes DEF BuildFails, SimTypeOK
    <2>12. CASE RunEnds
      <3>1. at <= Len(list)
        BY <2>12 DEF RunEnds, SimTypeOK
      <3>2. wrong' \subseteq Wrongs
        BY <2>12, WrongKinds DEF RunEnds, SimTypeOK
      <3>3. exe' \in {"none", "left", "torn", "new"}
        BY <2>12 DEF RunEnds, SimTypeOK
      <3> QED BY <2>12, <3>1, <3>2, <3>3, ReportTypes DEF RunEnds
    <2>13. CASE RunTimesOut
      <3>1. at <= Len(list)
        BY <2>13, BenchKnown, Zenon DEF RunTimesOut
      <3>2. wrong' \subseteq Wrongs
        BY <2>13 DEF RunTimesOut, SimTypeOK, Wrongs
      <3> QED BY <2>13, <3>1, <3>2, ReportTypes DEF RunTimesOut, SimTypeOK
    <2>14. CASE Lint
      <3>1. failures + 1 \in 0 .. at /\ failures \in 0 .. at /\ at + 1 \in 1 .. Len(list) + 1
        BY <2>14 DEF Lint, Working, SimTypeOK
      <3>2. wrong' \subseteq Wrongs
        BY <2>14 DEF Lint, SimTypeOK, Wrongs
      <3> QED BY <2>14, <3>1, <3>2 DEF Lint, Working, Report, SimTypeOK
    <2>15. CASE Return
      BY <2>15 DEF Return, SimTypeOK
    <2>16. CASE Killed
      BY <2>16 DEF Killed, SimTypeOK
    <2>17. CASE UNCHANGED simVars
      BY <2>17 DEF simVars, SimTypeOK
    <2>18. CASE RunFailsToStart
      <3>1. wrong' \subseteq Wrongs
        BY <2>18 DEF RunFailsToStart, SimTypeOK, Wrongs
      <3> QED BY <2>18, <3>1 DEF RunFailsToStart, SimTypeOK
    <2> QED BY <2>1, <2>2, <2>3, <2>4, <2>5, <2>6, <2>7, <2>8, <2>9, <2>10, <2>11, <2>12, <2>13,
               <2>14, <2>15, <2>16, <2>17, <2>18 DEF Next, Invoke, Step
  <1> QED BY <1>1, <1>2, PTL DEF Spec

-----------------------------------------------------------------------------
(* The directory and the status.                                           *)

\* In the middle of a command the count and what a status tells of agree; a
\* bench past its preparation has its program.
StatusInv ==
  /\ phase # "idle" => (failures > 0 <=> Telling(wrong))
  /\ phase \in {"build", "run"} /\ bench.prepare # "none" => hex[bench.module] = bench.prepare
  /\ phase = "idle" /\ exit = 0 => ~Telling(wrong)
  /\ phase = "idle" /\ exit = 1 => Telling(wrong)

Counted == failures > 0 <=> Telling(wrong)

LEMMA NothingTold == ~Telling({})
  BY DEF Telling

LEMMA BeginStatus ==
  ASSUME NEW kind, NEW l, NEW names, Begin(kind, l, names),
         phase' = "bench" \/ (phase' = "idle" /\ exit' = 2)
  PROVE  StatusInv'
  <1>1. ~Telling(wrong') /\ ~(failures' > 0)
    BY NothingTold DEF Begin
  <1> QED BY <1>1 DEF StatusInv

LEMMA ReportStatus ==
  ASSUME SimTypeOK, NEW fails, NEW how, Report(fails, how), Counted,
         fails \in BOOLEAN, Telling(wrong') <=> (Telling(wrong) \/ fails)
  PROVE  StatusInv'
  <1>1. phase' = "bench"
    BY DEF Report
  <1>2. failures' > 0 <=> (failures > 0 \/ fails)
    <2>1. failures \in Nat
      BY DEF SimTypeOK
    <2>2. CASE fails
      BY <2>1, <2>2 DEF Report
    <2>3. CASE ~fails
      BY <2>3 DEF Report
    <2> QED BY <2>2, <2>3
  <1>3. failures' > 0 <=> Telling(wrong')
    BY <1>2, Zenon DEF Counted
  <1> QED BY <1>1, <1>3 DEF StatusInv

\* A command's status is what happened to its benches, as far as a status tells;
\* each ran its own program.
THEOREM StatusCorrect == Spec => []StatusInv
  <1>1. Init => StatusInv
    BY NothingTold DEF Init, StatusInv
  <1>2. SimTypeOK /\ StatusInv /\ [Next]_simVars => StatusInv'
    <2> SUFFICES ASSUME SimTypeOK, StatusInv, [Next]_simVars PROVE StatusInv'
      OBVIOUS
    <2>0. phase # "idle" => Counted
      BY Zenon DEF StatusInv, Counted
    <2>1. CASE InvokeSim
      <3> PICK names \in Onlys, no_soc \in BOOLEAN :
            /\ Begin("sim", benches(~no_soc), names)
            /\ IF \E b \in ToSet(benches(~no_soc)) : Named(b, names)
                 THEN phase' = "bench" /\ UNCHANGED exit ELSE phase' = "idle" /\ exit' = 2
        BY <2>1 DEF InvokeSim
      <3>1. phase' = "bench" \/ (phase' = "idle" /\ exit' = 2)
        BY Zenon
      <3> QED BY <3>1, BeginStatus, Zenon
    <2>2. CASE InvokeLint
      <3>1. Begin("lint", benches(FALSE), {}) /\ phase' = "bench"
        BY <2>2 DEF InvokeLint
      <3> QED BY <3>1, BeginStatus, Zenon
    <2>3. CASE InvokeTest
      <3> PICK b \in AllBenches : Begin("test", <<b>>, {}) /\ phase' = "bench"
        BY <2>3 DEF InvokeTest
      <3> QED BY BeginStatus, Zenon
    <2>4. CASE Generate
      BY <2>4, NothingTold DEF Generate, StatusInv
    <2>5. CASE PassOver
      BY <2>5 DEF PassOver, NoFile, StatusInv
    <2>6. CASE Skip
      <3>1. Counted /\ Report(FALSE, "skipped") /\ wrong' = wrong
        BY <2>0, <2>6, Zenon DEF Skip, Working
      <3>2. Telling(wrong') <=> (Telling(wrong) \/ FALSE)
        BY <3>1
      <3> QED BY <3>1, <3>2, ReportStatus
    <2>7. CASE Start
      <3>1. phase = "bench" /\ UNCHANGED <<failures, wrong>> /\ bench' = bench
        BY <2>7 DEF Start, Working, bench
      <3>2. (phase' = "build" /\ bench.prepare = "none") \/ phase' = "writing"
        BY <2>7 DEF Start
      <3> QED BY <3>1, <3>2 DEF StatusInv
    <2>8. CASE Written
      <3>1. bench \in AllBenches /\ bench' = bench
        BY <2>8, BenchKnown DEF Written, bench
      <3>2. bench.prepare # "none" => bench.module \in DOMAIN hex
        BY <3>1, Table DEF WellFormed, SimTypeOK
      <3>3. hex' = [hex EXCEPT ![bench.module] = bench.prepare]
        BY <2>8 DEF Written
      <3>4. bench'.prepare # "none" => hex'[bench'.module] = bench'.prepare
        BY <3>1, <3>2, <3>3
      <3>5. phase = "writing" /\ phase' = "build" /\ UNCHANGED <<failures, wrong>>
        BY <2>8 DEF Written
      <3> QED BY <3>4, <3>5 DEF StatusInv
    <2>9. CASE WriteFails
      BY <2>9, ToolTells DEF WriteFails, StatusInv
    <2>10. CASE BuildSucceeds
      <3>1. bench' = bench /\ hex' = hex /\ phase = "build" /\ phase' = "run"
              /\ UNCHANGED <<failures, wrong>>
        BY <2>10 DEF BuildSucceeds, NoFile, bench
      <3> QED BY <3>1 DEF StatusInv
    <2>11. CASE BuildFails
      <3>1. PICK how : Report(TRUE, how)
        BY <2>11 DEF BuildFails
      <3>2. Counted /\ wrong' = wrong \cup {"tool"}
        BY <2>0, <2>11, Zenon DEF BuildFails
      <3>3. Telling(wrong') <=> (Telling(wrong) \/ TRUE)
        BY <3>2, ToolTells
      <3> QED BY <3>1, <3>2, <3>3, ReportStatus
    <2>12. CASE RunEnds
      <3>1. PICK ending \in Endings(bench) :
              /\ Report(~ok(bench, Prints(bench, ending), ExitsWith(bench, ending)), ending)
              /\ wrong' = wrong \cup Wrong(bench, ending)
        BY <2>12 DEF RunEnds
      <3>2. WellFormed(bench) /\ phase = "run"
        BY <2>12, BenchKnown, Table DEF RunEnds
      <3> DEFINE fails == ~ok(bench, Prints(bench, ending), ExitsWith(bench, ending))
                 what  == Wrong(bench, ending)
      <3>3. (fails <=> Telling(what)) /\ fails \in BOOLEAN
        BY <3>2, Verdict, Zenon
      <3>4. Report(fails, ending) /\ wrong' = wrong \cup what
        BY <3>1
      <3>5. Counted
        BY <2>0, <3>2
      <3> HIDE DEF fails, what
      <3>6. Telling(wrong') <=> (Telling(wrong) \/ Telling(what))
        BY <3>4 DEF Telling
      <3>7. Telling(wrong') <=> (Telling(wrong) \/ fails)
        BY <3>3, <3>6
      <3> QED BY <3>3, <3>4, <3>5, <3>7, ReportStatus
    <2>13. CASE RunTimesOut
      <3>1. Counted /\ Report(TRUE, "timed out") /\ wrong' = wrong \cup {"tool"}
        BY <2>0, <2>13, Zenon DEF RunTimesOut
      <3>2. Telling(wrong') <=> (Telling(wrong) \/ TRUE)
        BY <3>1, ToolTells
      <3> QED BY <3>1, <3>2, ReportStatus
    <2>14. CASE Lint
      <3>1. Counted
        BY <2>0, <2>14, Zenon DEF Lint, Working
      <3>2. CASE Report(FALSE, "clean") /\ wrong' = wrong
        <4>1. Telling(wrong') <=> (Telling(wrong) \/ FALSE)
          BY <3>2
        <4> QED BY <3>1, <3>2, <4>1, ReportStatus
      <3>3. CASE Report(TRUE, "issues") /\ wrong' = wrong \cup {"tool"}
        <4>1. Telling(wrong') <=> (Telling(wrong) \/ TRUE)
          BY <3>3, ToolTells
        <4> QED BY <3>1, <3>3, <4>1, ReportStatus
      <3>4. CASE phase' = "idle" /\ exit' = 1 /\ wrong' = wrong \cup {"tool"}
        BY <3>4, ToolTells DEF StatusInv
      <3> QED BY <2>14, <3>2, <3>3, <3>4 DEF Lint
    <2>15. CASE Return
      BY <2>15 DEF Return, StatusInv
    <2>16. CASE Killed
      BY <2>16 DEF Killed, StatusInv
    <2>17. CASE UNCHANGED simVars
      BY <2>17 DEF simVars, StatusInv, bench
    <2>18. CASE RunFailsToStart
      BY <2>18, ToolTells DEF RunFailsToStart, StatusInv
    <2> QED BY <2>1, <2>2, <2>3, <2>4, <2>5, <2>6, <2>7, <2>8, <2>9, <2>10, <2>11, <2>12, <2>13,
               <2>14, <2>15, <2>16, <2>17, <2>18 DEF Next, Invoke, Step
  <1> QED BY <1>1, <1>2, SimTypes, PTL DEF Spec

\* A bench's simulation starts with its own program in the shared directory,
\* through any commands, killed ones too.
THEOREM RunsOwnProgram == Spec => []OwnProgram
  <1>1. StatusInv => OwnProgram
    BY DEF StatusInv, OwnProgram
  <1> QED BY <1>1, StatusCorrect, PTL

\* Whatever the benches, tools and kills, status 1 means that a tool failed, a
\* simulation crashed or a declared pass line was missing, and 0 that none did.
\* Of the five benches that declare no pass line it says no more than that they
\* did not crash (toolchain.py:176-180, registry.py:117-202).
THEOREM StatusTold == Spec => []StatusIsTrue
  <1>1. StatusInv => StatusIsTrue
    BY Zenon DEF StatusInv, StatusIsTrue
  <1> QED BY <1>1, StatusCorrect, PTL
=============================================================================
