--------------------------- MODULE MCJobLifecycle ---------------------------
(* The instance of JobLifecycle that TLC checks. *)
EXTENDS JobLifecycle, TLC

JobSymmetry == Permutations(Jobs)
=============================================================================
