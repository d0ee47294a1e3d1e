-------------------------- MODULE MCMetricsService --------------------------
(***************************************************************************)
(* MetricsService for TLC: no poll is distinguished.                       *)
(***************************************************************************)
EXTENDS MetricsService, TLC

PollSymmetry == Permutations(Polls)
=============================================================================
