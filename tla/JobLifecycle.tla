---------------------------- MODULE JobLifecycle ----------------------------
(***************************************************************************)
(* The ingestion job and its run history, as zyndeck-db keeps them in      *)
(* Postgres.  Every action is one committed transaction of                 *)
(* zyndeck-db/src/lib.rs or one single-statement update of                 *)
(* zyndeck-db/src/ingestion_step_run.rs; a call that fails changes nothing *)
(* and is a stuttering step.  JobTransactions takes the transactions apart *)
(* and shows that this atomic reading of them is right.                    *)
(*                                                                         *)
(* A job's rows of ingestion_step_run are kept in the order they were      *)
(* inserted.  Of a run's timestamps only the NULL of started_at matters    *)
(* (started): a run starts after every earlier run of its job has ended,   *)
(* so runs that have started are ordered by started_at as by insertion.    *)
(* (begin.sql stamps the time its transaction began; its one caller begins *)
(* it after finishing the run before.)                                     *)
(***************************************************************************)
EXTENDS Naturals, Sequences, FiniteSetsExt

CONSTANTS
    Jobs,           \* the job ids ever used
    MaxAttempts,    \* bound: extract attempts of one job
    AbortStatuses   \* statuses in which a caller aborts a run: {} in the
                    \* shipped binaries, which never call abort; {"running"} in
                    \* the repository's tests; both by the contract of abort

ASSUME MaxAttemptsAssumption == MaxAttempts \in Nat \ {0}
ASSUME AbortStatusesAssumption == AbortStatuses \subseteq {"pending", "running"}

VARIABLES
    step,   \* ingestion_job.step, or "absent" before the row and "deleted" after
    runs    \* the rows of ingestion_step_run of each job

lifecycleVars == <<step, runs>>

-----------------------------------------------------------------------------
(* Steps and run statuses (zyndeck-core). *)

RunSteps == {"extract", "chunk", "embed"}
JobSteps == RunSteps \cup {"completed"}

NextStep(s) ==
    CASE s = "extract"   -> "chunk"
      [] s = "chunk"     -> "embed"
      [] s = "embed"     -> "completed"
      [] s = "completed" -> "completed"

Active == {"pending", "running"}
Terminal == {"succeeded", "failed", "aborted"}

Run == [step : RunSteps, attempt : Nat \ {0},
        status : Active \cup Terminal, started : BOOLEAN]

-----------------------------------------------------------------------------
(* The run history h of a job. *)

HasActive(h) == \E i \in 1..Len(h) : h[i].status \in Active

\* Variant: the attempts are numbered from 0.
NextAttemptFromZero(h, s) ==
    LET Attempts == {h[i].attempt : i \in {k \in 1..Len(h) : h[k].step = s}}
    IN  IF Attempts = {} THEN 0 ELSE Max(Attempts) + 1

\* coalesce(max(attempt), 0) + 1 over the runs of step s.
NextAttempt(h, s) ==
    LET Attempts == {h[i].attempt : i \in {k \in 1..Len(h) : h[k].step = s}}
    IN  Max(Attempts \cup {0}) + 1

PendingRun(h, s) == [step |-> s, attempt |-> NextAttempt(h, s),
                     status |-> "pending", started |-> FALSE]
RunningRun(h, s) == [step |-> s, attempt |-> NextAttempt(h, s),
                     status |-> "running", started |-> TRUE]

Unstarted(h) == {i \in 1..Len(h) : ~h[i].started}

\* Variant: ORDER BY started_at ASC.
LatestIndexOldest(h) ==
    IF Unstarted(h) = {}
    THEN 1
    ELSE CHOOSE i \in Unstarted(h) :
             \A k \in Unstarted(h) : h[k].attempt <= h[i].attempt

\* The row find_latest.sql returns: ORDER BY started_at DESC NULLS FIRST,
\* attempt DESC.  Any row with a NULL started_at comes before all others.
LatestIndex(h) ==
    IF Unstarted(h) = {}
    THEN Len(h)
    ELSE CHOOSE i \in Unstarted(h) :
             \A k \in Unstarted(h) : h[k].attempt <= h[i].attempt

Latest(h) == h[LatestIndex(h)]

\* status_from_columns rejects a row that lacks a column its status requires.
Readable(run) == run.status = "pending" \/ run.started

\* latest_run returns a run of step s that succeeded.
LatestSucceeded(h, s) ==
    /\ h # <<>>
    /\ Readable(Latest(h))
    /\ Latest(h).step = s
    /\ Latest(h).status = "succeeded"

Exists(j) == step[j] \in JobSteps

\* Inserting a run: the partial unique index one_active_run_per_job refuses it
\* while the job has an active run.
AddRun(j, run) ==
    /\ ~HasActive(runs[j])
    /\ runs' = [runs EXCEPT ![j] = Append(@, run)]

TypeOK ==
    /\ step \in [Jobs -> JobSteps \cup {"absent", "deleted"}]
    /\ runs \in [Jobs -> Seq(Run)]

Init ==
    /\ step = [j \in Jobs |-> "absent"]
    /\ runs = [j \in Jobs |-> <<>>]

-----------------------------------------------------------------------------
(* Transitions of a job: the transactions of zyndeck-db/src/lib.rs. *)

\* start_job: the job and its first run, in one transaction.
StartJob(j) ==
    /\ step[j] = "absent"
    /\ step' = [step EXCEPT ![j] = "extract"]
    /\ AddRun(j, PendingRun(runs[j], "extract"))

\* Variant: the gate opens on any extract run that is no longer active.
ValidateJobUnchecked(j) ==
    /\ step[j] = "extract"
    /\ step' = [step EXCEPT ![j] = NextStep("extract")]
    /\ AddRun(j, PendingRun(runs[j], NextStep("extract")))

\* validate_job opens the human gate between the two phases.
ValidateJob(j) ==
    /\ step[j] = "extract"
    /\ LatestSucceeded(runs[j], "extract")
    /\ step' = [step EXCEPT ![j] = NextStep("extract")]
    /\ AddRun(j, PendingRun(runs[j], NextStep("extract")))

\* Variant: restart forgets to check that the job is still on extract.
RestartJobAnyStep(j) ==
    /\ Exists(j)
    /\ Len(runs[j]) < MaxAttempts
    /\ AddRun(j, PendingRun(runs[j], "extract"))
    /\ UNCHANGED step

\* restart_job: a fresh attempt at the transcription, before validation only.
RestartJob(j) ==
    /\ step[j] = "extract"
    /\ Len(runs[j]) < MaxAttempts
    /\ AddRun(j, PendingRun(runs[j], "extract"))
    /\ UNCHANGED step

\* Variant: continue_job trusts the latest run without looking at its status.
ContinueJobUnchecked(j) ==
    /\ step[j] \in {"chunk", "embed"}
    /\ ~HasActive(runs[j])
    /\ step' = [step EXCEPT ![j] = NextStep(step[j])]
    /\ IF NextStep(step[j]) = "completed"
       THEN UNCHANGED runs
       ELSE AddRun(j, RunningRun(runs[j], NextStep(step[j])))

\* continue_job chains chunk to embed and embed to completed.
ContinueJob(j) ==
    /\ step[j] \in {"chunk", "embed"}
    /\ LatestSucceeded(runs[j], step[j])
    /\ step' = [step EXCEPT ![j] = NextStep(step[j])]
    /\ IF NextStep(step[j]) = "completed"
       THEN UNCHANGED runs
       ELSE AddRun(j, RunningRun(runs[j], NextStep(step[j])))

-----------------------------------------------------------------------------
(* Updates of a run: one statement each.  claim.sql and abort.sql select the *)
(* row by job and status; the index leaves at most one to select.            *)

\* Variant: claim.sql takes a run that is already running.
ClaimActiveRun(j) ==
    /\ \E i \in DOMAIN runs[j] :
          /\ runs[j][i].status \in Active
          /\ runs' = [runs EXCEPT ![j][i] = [@ EXCEPT !.status = "running", !.started = TRUE]]
    /\ UNCHANGED step

\* claim_pending_run
ClaimPendingRun(j) ==
    /\ \E i \in DOMAIN runs[j] :
          /\ runs[j][i].status = "pending"
          /\ runs' = [runs EXCEPT ![j][i] = [@ EXCEPT !.status = "running", !.started = TRUE]]
    /\ UNCHANGED step

\* Variant: finish.sql without its status = 'running' condition.
FinishRunAnyStatus(j, i, outcome) ==
    /\ i \in DOMAIN runs[j]
    /\ runs' = [runs EXCEPT ![j][i] = [@ EXCEPT !.status = outcome]]
    /\ UNCHANGED step

\* finish: only a run that is still running; otherwise it returns None.
FinishRun(j, i, outcome) ==
    /\ i \in DOMAIN runs[j]
    /\ runs[j][i].status = "running"
    /\ runs' = [runs EXCEPT ![j][i] = [@ EXCEPT !.status = outcome]]
    /\ UNCHANGED step

\* abort: completed_at is stamped, started_at is left as it is.
AbortRun(j) ==
    /\ \E i \in DOMAIN runs[j] :
          /\ runs[j][i].status \in AbortStatuses
          /\ runs' = [runs EXCEPT ![j][i] = [@ EXCEPT !.status = "aborted"]]
    /\ UNCHANGED step

\* The API deletes the job's game: the job and its runs go by ON DELETE CASCADE.
DeleteJob(j) ==
    /\ Exists(j)
    /\ step' = [step EXCEPT ![j] = "deleted"]
    /\ runs' = [runs EXCEPT ![j] = <<>>]

Next ==
    \E j \in Jobs :
        \/ StartJob(j)
        \/ ValidateJob(j)
        \/ RestartJob(j)
        \/ ContinueJob(j)
        \/ ClaimPendingRun(j)
        \/ \E i \in DOMAIN runs[j], outcome \in {"succeeded", "failed"} :
               FinishRun(j, i, outcome)
        \/ AbortRun(j)
        \/ DeleteJob(j)

Spec == Init /\ [][Next]_lifecycleVars

-----------------------------------------------------------------------------
(* Properties. *)

\* A run that is pending or running is the last one enqueued and is for the
\* job's current step: a job works on one step at a time, and that step is the
\* one the job row names.
ActiveRunIsCurrent ==
    \A j \in Jobs : \A i \in DOMAIN runs[j] :
        runs[j][i].status \in Active => i = Len(runs[j]) /\ runs[j][i].step = step[j]

\* The human gate: a job past extract got there from a succeeded transcription,
\* the last one attempted, and its transcription is never run again.
GateIsHeld ==
    \A j \in Jobs : step[j] \in {"chunk", "embed", "completed"} =>
        \E i \in DOMAIN runs[j] :
            /\ runs[j][i].step = "extract"
            /\ runs[j][i].status = "succeeded"
            /\ \A k \in DOMAIN runs[j] : runs[j][k].step = "extract" <=> k <= i

\* A completed job ran each phase-2 step once, in order, and each succeeded:
\* chunk and embed are the last two runs and nothing is in flight.
CompletedMeansProcessed ==
    \A j \in Jobs : step[j] = "completed" =>
        LET n == Len(runs[j])
        IN  /\ n >= 3
            /\ runs[j][n].step = "embed" /\ runs[j][n].status = "succeeded"
            /\ runs[j][n - 1].step = "chunk" /\ runs[j][n - 1].status = "succeeded"
            /\ runs[j][n - 2].step = "extract" /\ runs[j][n - 2].status = "succeeded"

\* A job on extract whose last run succeeded can be validated: latest_run finds
\* that run, whatever happened to the attempts before it.
SucceededCanBeValidated ==
    \A j \in Jobs :
        /\ step[j] = "extract"
        /\ runs[j][Len(runs[j])].status = "succeeded"
        => LatestSucceeded(runs[j], "extract")

\* The history is an audit trail: while a job exists its ended runs never change
\* and no run disappears, so a late finish cannot overwrite an abort.
EndedRunsAreFinal ==
    [][\A j \in Jobs : Exists(j)' =>
          \A i \in DOMAIN runs[j] :
              /\ i \in DOMAIN runs'[j]
              /\ runs[j][i].status \in Terminal => runs'[j][i] = runs[j][i]
      ]_lifecycleVars

\* A job moves forward one step at a time, and only after the last run, a run of
\* the step it leaves, succeeded.
StepAdvancesOnSuccess ==
    [][\A j \in Jobs : Exists(j) /\ Exists(j)' /\ step'[j] # step[j] =>
          /\ step'[j] = NextStep(step[j])
          /\ runs[j][Len(runs[j])].step = step[j]
          /\ runs[j][Len(runs[j])].status = "succeeded"
      ]_lifecycleVars

-----------------------------------------------------------------------------
(* The inductive invariant.  A job's history is a block of extract runs      *)
(* followed, past the gate, by one chunk and one embed run.                  *)

\* How many runs of the history are past the human gate.
PhaseTwoRuns(s) == CASE s = "chunk" -> 1 [] s \in {"embed", "completed"} -> 2 [] OTHER -> 0

Extracts(s, h) == Len(h) - PhaseTwoRuns(s)

\* A pending run has no started_at; one that ran, or is running, has.
WellFormed(run) ==
    /\ run.status = "pending" => ~run.started
    /\ run.status \in {"running", "succeeded", "failed"} => run.started

\* The steps of the runs, in order, and their attempt numbers.
Layout(s, h) ==
    /\ Extracts(s, h) >= 1
    /\ \A i \in 1..Len(h) :
          IF i <= Extracts(s, h)
          THEN h[i].step = "extract" /\ h[i].attempt = i
          ELSE h[i].step = (IF i = Extracts(s, h) + 1 THEN "chunk" ELSE "embed")
               /\ h[i].attempt = 1

\* What had to succeed for the job to be on step s.
SucceededBefore(s, h) ==
    LET e == Extracts(s, h)
    IN  /\ s # "extract" => /\ \A i \in 1..e : h[i].started
                            /\ h[e].status = "succeeded"
        /\ s \in {"embed", "completed"} => h[e + 1].status = "succeeded"
        /\ s = "completed" => h[e + 2].status = "succeeded"

History(s, h) ==
    /\ \A i \in 1..Len(h) : WellFormed(h[i])
    /\ \A i \in 1..Len(h) : i < Len(h) => h[i].status \in Terminal
    /\ IF s \in JobSteps THEN Layout(s, h) /\ SucceededBefore(s, h) ELSE h = <<>>

\* Whatever was aborted, restarted or deleted, the history explains the step:
\* every job's runs are in one of the shapes its transitions can build.
HistoryExplainsStep == \A j \in Jobs : History(step[j], runs[j])
=============================================================================
