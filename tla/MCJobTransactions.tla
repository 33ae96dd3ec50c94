-------------------------- MODULE MCJobTransactions -------------------------
(* The instance of JobTransactions that TLC checks. *)
EXTENDS JobTransactions, TLC
=============================================================================
