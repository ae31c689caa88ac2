--------------------------- MODULE MCBenchmarkRun ---------------------------
(* Instances of BenchmarkRun for TLC; the workers are named by strings.    *)
EXTENDS BenchmarkRun
=============================================================================
