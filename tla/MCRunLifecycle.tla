--------------------------- MODULE MCRunLifecycle ---------------------------
(***************************************************************************)
(* RunLifecycle for TLC: the sets of faults of its runs.  The interesting  *)
(* histories need a fresh invocation, a failed one and a resume (three     *)
(* invocations), and a second run sharing the output directory.            *)
(***************************************************************************)
EXTENDS RunLifecycle, TLC

NoLossOfCheckpoints == {"crash", "stage", "mark", "delete", "write"}
CrashAndLoss        == {"crash", "stage", "loss"}
Everything          == FaultKind

Symmetry == Permutations(Inv) \cup Permutations(Run)
=============================================================================
