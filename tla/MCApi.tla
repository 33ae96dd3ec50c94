------------------------------- MODULE MCApi -------------------------------
(* The instances of Api that TLC checks. *)
EXTENDS Api, TLC

ApiSymmetry ==
    Permutations(Clients) \cup Permutations(Ids)
=============================================================================
