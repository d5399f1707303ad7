--------------------------- MODULE MCBenchmarkPool ---------------------------
(***************************************************************************)
(* Small instances of module BenchmarkPool for TLC.                        *)
(***************************************************************************)
EXTENDS BenchmarkPool

\* One goroutine for all tasks, fewer and then more goroutines than tasks.
OneThenMany == <<1, 3, 5>>

=============================================================================
