----------------------------- MODULE MCTtdStage -----------------------------
(***************************************************************************)
(* TtdStage for TLC: the faults of its runs, and limits on both sides of   *)
(* every guard: with two steps of two judges a trajectory books at most 8  *)
(* calls and needs a limit of 10.                                          *)
(***************************************************************************)
EXTENDS TtdStage

EveryFault == FaultKind
=============================================================================
