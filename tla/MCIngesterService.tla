-------------------------- MODULE MCIngesterService -------------------------
(* The instances of IngesterService that TLC checks. *)
EXTENDS IngesterService, TLC

WorkerSymmetry == Permutations(Workers)
ServiceSymmetry == Permutations(Workers) \cup Permutations(Jobs)
=============================================================================
