------------------------------ MODULE MCSocSim ------------------------------
(* All tools, none of one kind, none; everything, or by module or bench.   *)
EXTENDS SocSim

MCToolsets ==
  {{"iverilog", "vvp", "verilator", "ghdl"}, {"iverilog", "verilator"}, {"ghdl"}, {}}
MCOnlys == {{}, {"core"}, {"soc"}, {"traps", "uart-spi"}, {"nope"}}
=============================================================================
