--------------------------- MODULE JobTransactions --------------------------
(***************************************************************************)
(* The transactions of zyndeck-db/src/lib.rs statement by statement, as    *)
(* Postgres runs them at READ COMMITTED: each statement sees what was      *)
(* committed when it starts, a transaction's own writes stay invisible     *)
(* until it commits, SELECT ... FOR UPDATE locks the job row until then,   *)
(* and a connection that is lost rolls back.  Claiming, finishing and      *)
(* aborting a run are single statements that do not take the job's lock,   *)
(* so they interleave with a transaction in progress.                      *)
(*                                                                         *)
(* The rows of JobRows are the committed ones: the specification           *)
(* implements JobLifecycle, where each transaction is one step.            *)
(***************************************************************************)
EXTENDS JobRows

CONSTANTS
    Clients,   \* the connections calling zyndeck-db
    Nobody     \* the holder of a free row lock

ASSUME NobodyAssumption == Nobody \notin Clients

VARIABLES
    lock,   \* who holds the row lock of each ingestion_job row
    tx      \* each client's transaction in progress

vars == <<step, runs, lock, tx>>

Operations == {"validate", "restart", "continue"}

Idle == [op |-> "none"]

\* pc names the statement executed last; seen is the step read with the lock and
\* row the run inserted but not committed.
Transaction ==
    [op : Operations, job : Jobs, pc : {"begun", "locked", "checked", "updated", "inserted"},
     seen : JL!JobSteps \cup {"unknown"}, row : JL!Run \cup {Idle}]

TypeOK ==
    /\ JL!TypeOK
    /\ lock \in [Jobs -> Clients \cup {Nobody}]
    /\ tx \in [Clients -> Transaction \cup {Idle}]

Init ==
    /\ JL!Init
    /\ lock = [j \in Jobs |-> Nobody]
    /\ tx = [c \in Clients |-> Idle]

InTx(c, pc) == tx[c].op # "none" /\ tx[c].pc = pc

-----------------------------------------------------------------------------
(* Statements of a transaction. *)

Begin(c, op, j) ==
    /\ tx[c] = Idle
    /\ tx' = [tx EXCEPT ![c] = [op |-> op, job |-> j, pc |-> "begun",
                                seen |-> "unknown", row |-> Idle]]
    /\ UNCHANGED <<step, runs, lock>>

\* Variant: an early return leaves the transaction open on its connection.
RollbackLeaksLock(c) ==
    /\ tx[c] # Idle
    /\ tx' = [tx EXCEPT ![c] = Idle]
    /\ UNCHANGED <<step, runs, lock>>

\* An early return with an error, or a lost connection: the transaction is
\* rolled back and its lock is released.
Rollback(c) ==
    /\ tx[c] # Idle
    /\ tx' = [tx EXCEPT ![c] = Idle]
    /\ lock' = [j \in Jobs |-> IF lock[j] = c THEN Nobody ELSE lock[j]]
    /\ UNCHANGED <<step, runs>>

\* The steps from which each operation may go on.
Allowed(op) ==
    IF op = "continue" THEN {"chunk", "embed"} ELSE {"extract"}

\* Variant: the job is read without FOR UPDATE.
LockJobWithoutForUpdate(c) ==
    LET j == tx[c].job
    IN  /\ InTx(c, "begun")
        /\ IF step[j] \in Allowed(tx[c].op)
           THEN /\ tx' = [tx EXCEPT ![c].pc = "locked", ![c].seen = step[j]]
                /\ UNCHANGED <<step, runs, lock>>
           ELSE Rollback(c)

\* lock_job: waits for the row lock and reads the job's step.  A job that does
\* not exist or is on the wrong step ends the transaction.
LockJob(c) ==
    LET j == tx[c].job
    IN  /\ InTx(c, "begun")
        /\ lock[j] = Nobody
        /\ IF step[j] \in Allowed(tx[c].op)
           THEN /\ lock' = [lock EXCEPT ![j] = c]
                /\ tx' = [tx EXCEPT ![c].pc = "locked", ![c].seen = step[j]]
                /\ UNCHANGED <<step, runs>>
           ELSE Rollback(c)

\* latest_run, in validate_job and continue_job.
CheckLatestRun(c) ==
    /\ InTx(c, "locked")
    /\ tx[c].op # "restart"
    /\ IF JL!LatestSucceeded(runs[tx[c].job], tx[c].seen)
       THEN tx' = [tx EXCEPT ![c].pc = "checked"] /\ UNCHANGED <<step, runs, lock>>
       ELSE Rollback(c)

\* update_step.sql: locks the row it writes, which a transaction that holds
\* FOR UPDATE already does.
UpdateStep(c) ==
    LET j == tx[c].job
    IN  /\ InTx(c, "checked")
        /\ lock[j] \in {Nobody, c}
        /\ lock' = [lock EXCEPT ![j] = c]
        /\ tx' = [tx EXCEPT ![c].pc = "updated"]
        /\ UNCHANGED <<step, runs>>

Target(c) == IF tx[c].op = "restart" THEN "extract" ELSE JL!NextStep(tx[c].seen)

\* The entry another open transaction has put into one_active_run_per_job: an
\* insert waits for that transaction to end.
IndexEntryPending(c) ==
    \E d \in Clients \ {c} : InTx(d, "inserted") /\ tx[d].job = tx[c].job /\ tx[d].row # Idle

\* enqueue_run or begin_run; JobAlreadyRunning ends the transaction.  So does
\* the bound on attempts.
InsertRun(c) ==
    LET h == runs[tx[c].job]
    IN  /\ \/ InTx(c, "locked") /\ tx[c].op = "restart"
           \/ InTx(c, "updated") /\ Target(c) # "completed"
        /\ ~IndexEntryPending(c)
        /\ IF JL!HasActive(h) \/ (tx[c].op = "restart" /\ Len(h) >= MaxAttempts)
           THEN Rollback(c)
           ELSE /\ tx' = [tx EXCEPT ![c].pc = "inserted",
                                    ![c].row = IF tx[c].op = "continue"
                                               THEN JL!RunningRun(h, Target(c))
                                               ELSE JL!PendingRun(h, Target(c))]
                /\ UNCHANGED <<step, runs, lock>>

\* Variant: a run is begun for the completed step as well.
CommitRunForCompleted(c) ==
    LET j == tx[c].job
    IN  /\ \/ InTx(c, "inserted")
           \/ InTx(c, "updated") /\ Target(c) = "completed"
        /\ step' = [step EXCEPT ![j] = Target(c)]
        /\ runs' = [runs EXCEPT ![j] = Append(@,
               IF tx[c].row = Idle
               THEN [JL!RunningRun(@, "embed") EXCEPT !.step = "completed"] ELSE tx[c].row)]
        /\ tx' = [tx EXCEPT ![c] = Idle]
        /\ lock' = [k \in Jobs |-> IF lock[k] = c THEN Nobody ELSE lock[k]]

\* COMMIT makes the new step and the new run visible together.
Commit(c) ==
    LET j == tx[c].job
    IN  /\ \/ InTx(c, "inserted")
           \/ InTx(c, "updated") /\ Target(c) = "completed"
        /\ step' = [step EXCEPT ![j] = Target(c)]
        /\ runs' = IF tx[c].row = Idle THEN runs
                                       ELSE [runs EXCEPT ![j] = Append(@, tx[c].row)]
        /\ tx' = [tx EXCEPT ![c] = Idle]
        /\ lock' = [k \in Jobs |-> IF lock[k] = c THEN Nobody ELSE lock[k]]

Statement(c) ==
    LockJob(c) \/ CheckLatestRun(c) \/ UpdateStep(c) \/ InsertRun(c) \/ Commit(c)

-----------------------------------------------------------------------------
(* Statements outside these transactions, each committed by itself. *)

\* start_job writes rows nobody else can see before it commits.
Single(j) ==
    /\ \/ JL!StartJob(j)
       \/ JL!ClaimPendingRun(j)
       \/ \E i \in DOMAIN runs[j], outcome \in {"succeeded", "failed"} :
              JL!FinishRun(j, i, outcome)
       \/ JL!AbortRun(j)
    /\ UNCHANGED <<lock, tx>>

\* The cascade needs the job row, so it waits for its lock.
DeleteJob(j) ==
    /\ lock[j] = Nobody
    /\ JL!DeleteJob(j)
    /\ UNCHANGED <<lock, tx>>

Next ==
    \/ \E c \in Clients :
          \/ \E op \in Operations, j \in Jobs : Begin(c, op, j)
          \/ Statement(c)
          \/ Rollback(c)
    \/ \E j \in Jobs : Single(j) \/ DeleteJob(j)

\* A client in a transaction goes on with it, and Postgres grants a row lock in
\* the order it was asked for.
Fairness ==
    \A c \in Clients : WF_vars(Statement(c)) /\ SF_vars(LockJob(c))

Spec == Init /\ [][Next]_vars /\ Fairness

-----------------------------------------------------------------------------
(* Properties. *)

\* Interleaved at any statement, lost or refused at any point, the transactions
\* behave as the single steps JobLifecycle takes: what validate_job, restart_job
\* and continue_job read under the job's lock still holds when they commit.
ImplementsJobLifecycle == JL!Spec

\* What a transaction has read is still so when it writes: the step it saw under
\* the lock, the succeeded run it checked, and the attempt number it computed,
\* although runs are claimed, finished and aborted without the lock.
ReadsStayTrue ==
    \A c \in Clients : tx[c] # Idle /\ tx[c].pc # "begun" =>
        LET h == runs[tx[c].job]
        IN  /\ step[tx[c].job] = tx[c].seen
            /\ tx[c].pc # "locked" /\ tx[c].op # "restart" => JL!LatestSucceeded(h, tx[c].seen)
            /\ tx[c].pc = "inserted" =>
                   /\ ~JL!HasActive(h)
                   /\ tx[c].row.attempt = JL!NextAttempt(h, tx[c].row.step)

\* No transaction waits for ever: the job lock is only held by a transaction
\* that goes on, and nobody holds it while waiting for the index.
TransactionsEnd == \A c \in Clients : tx[c] # Idle ~> tx[c] = Idle
=============================================================================
