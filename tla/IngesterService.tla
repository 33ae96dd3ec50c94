--------------------------- MODULE IngesterService --------------------------
(***************************************************************************)
(* Instances of the ingestion service (zyndeck-ingester/src/main.rs) at    *)
(* work on the jobs of JobLifecycle: each one subscribes to the job-ready  *)
(* notifications, sweeps the runs left pending, and then claims and drives *)
(* the job of every notification it receives.  The CLI creates, restarts   *)
(* and validates jobs meanwhile and the API deletes them.  Every database  *)
(* call is a step of its own.  What the step bodies compute is left to     *)
(* IngestionArtifacts; here a body just succeeds or fails.                 *)
(*                                                                         *)
(* Faults: the process dies (Crash), a database call fails or its answer   *)
(* is lost, the LISTEN connection drops and reconnects, and SIGTERM comes  *)
(* at any time.                                                            *)
(***************************************************************************)
EXTENDS JobRows, FiniteSets

CONSTANTS
    Workers,      \* instances of the service
    FaultKinds,   \* of "crash", "error", "drop", "signal"
    MaxFaults     \* bound: faults in a behaviour

ASSUME FaultsAssumption ==
    FaultKinds \subseteq {"crash", "error", "drop", "signal"} /\ MaxFaults \in Nat

VARIABLES
    pc,        \* what each worker does next
    cur,       \* the job and run it works on and the step of the job it loaded
    todo,      \* ids its startup sweep found and has not processed yet
    queue,     \* notifications delivered to its LISTEN connection, unread
    handler,   \* it has called shutdown_signal, so SIGTERM no longer kills it
    signal,    \* what became of a SIGTERM: "none", "seen" or "lost"
    faults     \* the faults so far, in order

workerVars == <<pc, cur, todo, queue, handler, signal>>
vars == <<step, runs, workerVars, faults>>

Phases == {"down", "up", "sweep", "select", "claim", "load", "run", "continue"}
NoWork == [job |-> "none", run |-> 0, step |-> "none"]
Work == [job : Jobs, run : Nat, step : JL!JobSteps \cup {"unknown"}] \cup {NoWork}

TypeOK ==
    /\ JL!TypeOK
    /\ pc \in [Workers -> Phases]
    /\ cur \in [Workers -> Work]
    /\ todo \in [Workers -> SUBSET Jobs]
    /\ queue \in [Workers -> Seq(Jobs)]
    /\ handler \in [Workers -> BOOLEAN]
    /\ signal \in [Workers -> {"none", "seen", "lost"}]
    /\ faults \in Seq(FaultKinds)

Init ==
    /\ JL!Init
    /\ pc = [w \in Workers |-> "down"]
    /\ cur = [w \in Workers |-> NoWork]
    /\ todo = [w \in Workers |-> {}]
    /\ queue = [w \in Workers |-> <<>>]
    /\ handler = [w \in Workers |-> FALSE]
    /\ signal = [w \in Workers |-> "none"]
    /\ faults = <<>>

Pending(j) == \E i \in DOMAIN runs[j] : runs[j][i].status = "pending"

-----------------------------------------------------------------------------
(* The other programs: CLI and API. *)

\* Variant: a worker subscribes only when it enters its loop, after the sweep.
NotifyLoopOnly(j) ==
    queue' = [w \in Workers |->
        IF pc[w] \in {"down", "up", "sweep"} THEN queue[w] ELSE Append(queue[w], j)]

\* NOTIFY reaches every connection that listens when the transaction commits.
Notify(j) ==
    queue' = [w \in Workers |-> IF pc[w] = "down" THEN queue[w] ELSE Append(queue[w], j)]

\* Variant: restarted and validated jobs are not announced.
EnqueueQuietly(j) ==
    /\ \/ JL!StartJob(j) /\ Notify(j)
       \/ (JL!ValidateJob(j) \/ JL!RestartJob(j)) /\ UNCHANGED queue
    /\ UNCHANGED <<pc, cur, todo, handler, signal, faults>>

\* The job-created trigger, and notify_ready in validate_job and restart_job.
Enqueue(j) ==
    /\ JL!StartJob(j) \/ JL!ValidateJob(j) \/ JL!RestartJob(j)
    /\ Notify(j)
    /\ UNCHANGED <<pc, cur, todo, handler, signal, faults>>

DeleteJob(j) == JL!DeleteJob(j) /\ UNCHANGED <<workerVars, faults>>

AbortRun(j) == JL!AbortRun(j) /\ UNCHANGED <<workerVars, faults>>

-----------------------------------------------------------------------------
(* Startup. *)

Goto(w, label) == pc' = [pc EXCEPT ![w] = label]

\* listen_ingestion_jobs: from now on notifications are queued.
Start(w) ==
    /\ pc[w] = "down"
    /\ Goto(w, "up")
    /\ UNCHANGED <<step, runs, cur, todo, queue, handler, signal, faults>>

\* Variant: the sweep only looks for new jobs, not for validated ones.
SweepNewJobs(w) ==
    /\ pc[w] = "up"
    /\ todo' = [todo EXCEPT ![w] = {j \in Jobs : Pending(j) /\ step[j] = "extract"}]
    /\ Goto(w, "sweep")
    /\ UNCHANGED <<step, runs, cur, queue, handler, signal, faults>>

\* pending_run_job_ids.
Sweep(w) ==
    /\ pc[w] = "up"
    /\ todo' = [todo EXCEPT ![w] = {j \in Jobs : Pending(j)}]
    /\ Goto(w, "sweep")
    /\ UNCHANGED <<step, runs, cur, queue, handler, signal, faults>>

SweepJob(w) ==
    /\ pc[w] = "sweep"
    /\ \E j \in todo[w] :
          /\ todo' = [todo EXCEPT ![w] = @ \ {j}]
          /\ cur' = [cur EXCEPT ![w] = [job |-> j, run |-> 0, step |-> "unknown"]]
    /\ Goto(w, "claim")
    /\ UNCHANGED <<step, runs, queue, handler, signal, faults>>

\* The loop is entered: its first select! installs the signal handlers.
SweepDone(w) ==
    /\ pc[w] = "sweep"
    /\ todo[w] = {}
    /\ handler' = [handler EXCEPT ![w] = TRUE]
    /\ Goto(w, "select")
    /\ UNCHANGED <<step, runs, cur, todo, queue, signal, faults>>

-----------------------------------------------------------------------------
(* The loop.  select! takes either branch that is ready and drops the other: *)
(* a signal that shutdown_signal had seen is then forgotten.                 *)

Forget(s) == IF s = "seen" THEN "lost" ELSE s

Receive(w) ==
    /\ pc[w] = "select"
    /\ queue[w] # <<>>
    /\ cur' = [cur EXCEPT ![w] = [job |-> Head(queue[w]), run |-> 0, step |-> "unknown"]]
    /\ queue' = [queue EXCEPT ![w] = Tail(@)]
    /\ signal' = [signal EXCEPT ![w] = Forget(@)]
    /\ Goto(w, "claim")
    /\ UNCHANGED <<step, runs, todo, handler, faults>>

\* The process is gone; its database sessions end with it.
Down(w) ==
    /\ Goto(w, "down")
    /\ cur' = [cur EXCEPT ![w] = NoWork]
    /\ todo' = [todo EXCEPT ![w] = {}]
    /\ queue' = [queue EXCEPT ![w] = <<>>]
    /\ handler' = [handler EXCEPT ![w] = FALSE]
    /\ signal' = [signal EXCEPT ![w] = "none"]
    /\ UNCHANGED <<step, runs>>

Exit(w) ==
    /\ pc[w] = "select"
    /\ signal[w] = "seen"
    /\ Down(w)
    /\ UNCHANGED faults

\* process returns, with or without an error, to the sweep or to the loop.
Return(w) ==
    /\ Goto(w, IF handler[w] THEN "select" ELSE "sweep")
    /\ cur' = [cur EXCEPT ![w] = NoWork]

\* Variant: the claim is not conditional on the run being pending.
ClaimAnyActive(w) ==
    LET j == cur[w].job
    IN  /\ pc[w] = "claim"
        /\ IF JL!HasActive(runs[j])
           THEN /\ runs' = [runs EXCEPT ![j][Len(runs[j])].status = "running",
                                        ![j][Len(runs[j])].started = TRUE]
                /\ cur' = [cur EXCEPT ![w].run = Len(runs[j])]
                /\ Goto(w, "load")
                /\ UNCHANGED step
           ELSE Return(w) /\ UNCHANGED <<step, runs>>
        /\ UNCHANGED <<todo, queue, handler, signal, faults>>

\* claim_pending_run; nothing to claim is not an error.
Claim(w) ==
    LET j == cur[w].job
    IN  /\ pc[w] = "claim"
        /\ IF Pending(j)
           THEN /\ JL!ClaimPendingRun(j)
                /\ cur' = [cur EXCEPT ![w].run = Len(runs[j])]
                /\ Goto(w, "load")
           ELSE Return(w) /\ UNCHANGED <<step, runs>>
        /\ UNCHANGED <<todo, queue, handler, signal, faults>>

\* load: the job may have been deleted since it was claimed or continued.
Load(w) ==
    LET j == cur[w].job
    IN  /\ pc[w] = "load"
        /\ IF JL!Exists(j)
           THEN cur' = [cur EXCEPT ![w].step = step[j]] /\ Goto(w, "run")
           ELSE Return(w)
        /\ UNCHANGED <<step, runs, todo, queue, handler, signal, faults>>

StillRunning(w) ==
    /\ cur[w].run \in DOMAIN runs[cur[w].job]
    /\ runs[cur[w].job][cur[w].run].status = "running"

\* Variant: a run that succeeded ends the drive, whatever its step.
RunAndFinishOnly(w) ==
    LET j == cur[w].job
        i == cur[w].run
    IN  /\ pc[w] = "run"
        /\ IF StillRunning(w)
           THEN \E outcome \in {"succeeded", "failed"} : JL!FinishRun(j, i, outcome)
           ELSE UNCHANGED <<step, runs>>
        /\ Return(w)
        /\ UNCHANGED <<todo, queue, handler, signal, faults>>

\* run_and_finish: the body of the loaded step runs, then finish records what
\* came of it.  A run ended by someone else, a failure and an extract run end
\* the drive; chunk and embed go on to continue_job.
RunAndFinish(w) ==
    LET j == cur[w].job
        i == cur[w].run
    IN  /\ pc[w] = "run"
        /\ IF StillRunning(w)
           THEN \E outcome \in {"succeeded", "failed"} :
                   /\ cur[w].step = "completed" => outcome = "failed"
                   /\ JL!FinishRun(j, i, outcome)
                   /\ IF outcome = "succeeded" /\ runs[j][i].step # "extract"
                      THEN Goto(w, "continue") /\ UNCHANGED cur
                      ELSE Return(w)
           ELSE Return(w) /\ UNCHANGED <<step, runs>>
        /\ UNCHANGED <<todo, queue, handler, signal, faults>>

CanContinue(j) == step[j] \in {"chunk", "embed"} /\ JL!LatestSucceeded(runs[j], step[j])

\* Variant: the drive goes on with the job it loaded for the previous run.
ContinueWithoutReload(w) ==
    LET j == cur[w].job
    IN  /\ pc[w] = "continue"
        /\ \/ /\ JL!ContinueJob(j)
              /\ IF runs' = runs
                 THEN Return(w)
                 ELSE cur' = [cur EXCEPT ![w].run = Len(runs'[j])] /\ Goto(w, "run")
           \/ ~CanContinue(j) /\ Return(w) /\ UNCHANGED <<step, runs>>
        /\ UNCHANGED <<todo, queue, handler, signal, faults>>

\* continue_job, and on to the run it began.
Continue(w) ==
    LET j == cur[w].job
    IN  /\ pc[w] = "continue"
        /\ \/ /\ JL!ContinueJob(j)
              /\ IF runs' = runs
                 THEN Return(w)
                 ELSE cur' = [cur EXCEPT ![w].run = Len(runs'[j])] /\ Goto(w, "load")
           \/ ~CanContinue(j) /\ Return(w) /\ UNCHANGED <<step, runs>>
        /\ UNCHANGED <<todo, queue, handler, signal, faults>>

Run(w) ==
    \/ Sweep(w) \/ SweepJob(w) \/ SweepDone(w)
    \/ Receive(w) \/ Exit(w)
    \/ Claim(w) \/ Load(w) \/ RunAndFinish(w) \/ Continue(w)

-----------------------------------------------------------------------------
(* Faults. *)

Fault(kind) ==
    /\ kind \in FaultKinds
    /\ Len(faults) < MaxFaults
    /\ faults' = Append(faults, kind)

Crash(w) ==
    /\ Fault("crash")
    /\ pc[w] # "down"
    /\ Down(w)

\* A database call of process or drive fails: the error is logged and the loop
\* goes on.  The statement may have been applied all the same.
DbError(w) ==
    LET j == cur[w].job
    IN  /\ Fault("error")
        /\ \/ pc[w] \in {"claim", "load", "run", "continue"} /\ UNCHANGED <<step, runs>>
           \/ pc[w] = "claim" /\ JL!ClaimPendingRun(j)
           \/ /\ pc[w] = "run"
              /\ \E outcome \in {"succeeded", "failed"} : JL!FinishRun(j, cur[w].run, outcome)
           \/ pc[w] = "continue" /\ JL!ContinueJob(j)
        /\ Return(w)
        /\ UNCHANGED <<todo, queue, handler, signal>>

\* PgListener reconnects by itself; what was announced meanwhile is lost.
Reconnect(w) ==
    /\ Fault("drop")
    /\ queue[w] # <<>>
    /\ queue' = [queue EXCEPT ![w] = <<>>]
    /\ UNCHANGED <<step, runs, pc, cur, todo, handler, signal>>

\* SIGTERM.  Before the loop no handler is installed and the process is killed.
\* In select! the handler's stream sees it.  While a job is processed no stream
\* exists: the installed handler swallows it, and the stream the next select!
\* creates only sees signals that come after it.
Terminate(w) ==
    /\ Fault("signal")
    /\ pc[w] # "down"
    /\ IF handler[w]
       THEN /\ signal' = [signal EXCEPT ![w] = IF pc[w] = "select" THEN "seen" ELSE "lost"]
            /\ UNCHANGED <<step, runs, pc, cur, todo, queue, handler>>
       ELSE Down(w)

Fail(w) == Crash(w) \/ DbError(w) \/ Reconnect(w) \/ Terminate(w)

Next ==
    \/ \E j \in Jobs : Enqueue(j) \/ DeleteJob(j) \/ AbortRun(j)
    \/ \E w \in Workers : Start(w) \/ Run(w) \/ Fail(w)

\* A worker that can go on does, and whoever operates the service starts it
\* again when it has stopped.  Nothing is assumed of the CLI and the API.
Fairness == \A w \in Workers : WF_vars(Run(w)) /\ WF_vars(Start(w))

Spec == Init /\ [][Next]_vars /\ Fairness

-----------------------------------------------------------------------------
(* Properties. *)

Drives(w, j, i) ==
    pc[w] \in {"load", "run", "continue"} /\ cur[w].job = j /\ cur[w].run = i

\* Two notifications for a job, or two instances of the service, never get the
\* same run executed twice, nor a job driven by two workers while its last run
\* is in flight.
NoRunExecutedTwice ==
    \A j \in Jobs, i \in 1..(MaxAttempts + 2) :
        \A v, w \in Workers : Drives(v, j, i) /\ Drives(w, j, i) => v = w

\* run_step picks the body by the step of the job it loaded, not by the run it
\* claimed.  While the run is its to finish the two agree.
BodyMatchesRun ==
    \A w \in Workers : pc[w] = "run" /\ StillRunning(w) =>
        cur[w].step = runs[cur[w].job][cur[w].run].step

\* No wake-up is lost: as long as the connections and the database hold, every
\* worker that is up still has in hand whatever will make it look at a pending
\* run: its sweep to come, the sweep's list, a notification or the claim itself.
WakeUpInHand ==
    (\A n \in DOMAIN faults : faults[n] \notin {"drop", "error"}) =>
        \A j \in Jobs, w \in Workers : Pending(j) /\ pc[w] # "down" =>
            \/ pc[w] = "up"
            \/ j \in todo[w]
            \/ \E n \in DOMAIN queue[w] : queue[w][n] = j
            \/ pc[w] = "claim" /\ cur[w].job = j

\* A job is stranded when its last run is marked running, or its phase 2 is
\* between steps, and nobody is driving it: no notification will come for it.
Stranded(j) ==
    LET n == Len(runs[j])
    IN  /\ n > 0
        /\ \/ runs[j][n].status = "running"
           \/ step[j] \in {"chunk", "embed"} /\ runs[j][n].status = "succeeded"
        /\ \A w \in Workers : ~Drives(w, j, n)

\* Only faults strand jobs, and each fault at most one, whatever the other
\* workers, the CLI and the API are doing.
OneFaultStrandsOneJob == Cardinality({j \in Jobs : Stranded(j)}) <= Len(faults)

\* A pending run is eventually claimed (or aborted, or gone with its job), unless
\* its notification or its claim was lost to a fault.
PendingIsClaimed ==
    \A j \in Jobs : Pending(j) ~> (~Pending(j) \/ \E n \in DOMAIN faults : faults[n] \in {"drop", "error"})

\* ... and even then the next instance to start up finds it in its sweep, if no
\* further fault befalls it.
RecoveredAtStartup ==
    \A j \in Jobs, w \in Workers :
        (Pending(j) /\ pc[w] = "up" /\ Len(faults) = MaxFaults) ~> ~Pending(j)

\* A validated job runs straight through phase 2: it completes, a step fails, or
\* it is deleted, unless a fault interferes.
ValidatedIsSettled ==
    \A j \in Jobs : step[j] = "chunk" ~>
        \/ step[j] \in {"completed", "deleted"}
        \/ runs[j] # <<>> /\ runs[j][Len(runs[j])].status \in {"failed", "aborted"}
        \/ faults # <<>>

\* A worker told to stop finishes the job in flight and stops.
StopsWhenAsked == \A w \in Workers : signal[w] # "none" ~> pc[w] = "down"
=============================================================================
