------------------------------- MODULE JobRows ------------------------------
(***************************************************************************)
(* The rows of ingestion_job and ingestion_step_run as the programs that   *)
(* share the database see them.  JobLifecycle says what every committed    *)
(* statement does to them; the modules that extend this one say who        *)
(* executes which statement when.                                          *)
(***************************************************************************)
EXTENDS Naturals, Sequences

CONSTANTS Jobs, MaxAttempts, AbortStatuses   \* as in JobLifecycle

ASSUME MaxAttemptsAssumption == MaxAttempts \in Nat \ {0}
ASSUME AbortStatusesAssumption == AbortStatuses \subseteq {"pending", "running"}

VARIABLES step, runs   \* as in JobLifecycle

\* The refinement mapping of every module that extends this one.
JL == INSTANCE JobLifecycle WITH step <- step, runs <- runs
=============================================================================
