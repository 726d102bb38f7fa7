---------------------------- MODULE MCLitIntake ----------------------------
(***************************************************************************)
(* LitIntake for TLC.  Each invariant has its own hypotheses on what may   *)
(* go wrong; the run considers everything, everything but what one of the  *)
(* invariants excludes, and nothing.  Two workers suffice for every race   *)
(* of two tasks, two chunks for a failure after the abstract is gone.      *)
(***************************************************************************)
EXTENDS LitIntake, TLC

Everything == FaultKind
Unseen     == FaultKind \ {"norender", "status"}
Unmarked   == FaultKind \ {"norender", "probe"}
Orderly    == FaultKind \ {"overlap", "seed", "probe", "row", "norender"}
Recorded   == FaultKind \ {"status", "crash"}
Written    == FaultKind \ {"row", "embed", "content", "cancel", "crash"}

Environments == {Everything, Unseen, Unmarked, Orderly, Recorded, Written, {}}
=============================================================================
