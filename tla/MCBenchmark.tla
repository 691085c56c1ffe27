----------------------------- MODULE MCBenchmark -----------------------------
(***************************************************************************)
(* Drivers on one testbed, with every combination of flags, for sweeps     *)
(* over loads that are too small for the committee of two to share, and    *)
(* that differ.                                                            *)
(***************************************************************************)
EXTENDS Benchmark

ShortSweeps == {<<1, 4>>, <<6>>}
AllFlags == Flags
=============================================================================
