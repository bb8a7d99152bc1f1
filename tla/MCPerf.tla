------------------------------- MODULE MCPerf -------------------------------
(***************************************************************************)
(* Perf over MCCore's machine and programs.                                *)
(***************************************************************************)
EXTENDS MCCore, Perf
=============================================================================
