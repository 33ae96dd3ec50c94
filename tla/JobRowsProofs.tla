---------------------------- MODULE JobRowsProofs ---------------------------
(***************************************************************************)
(* What JobLifecycleProofs shows of the rows, for the proofs about the     *)
(* programs that share them.  P is JobLifecycleProofs over the same rows;  *)
(* its vocabulary is that of JL.  And what each statement does to the rows *)
(* of one job.                                                             *)
(***************************************************************************)
EXTENDS JobRows, SequenceTheorems, TLAPS

P == INSTANCE JobLifecycleProofs WITH step <- step, runs <- runs

-----------------------------------------------------------------------------
(* The facts of JobLifecycleProofs, in the words of JL. *)

LEMMA SameWords ==
    /\ JL!Run = P!Run /\ JL!RunSteps = P!RunSteps /\ JL!JobSteps = P!JobSteps
    /\ JL!Active = P!Active /\ JL!Terminal = P!Terminal
    /\ \A s : JL!NextStep(s) = P!NextStep(s)
    /\ \A h : JL!HasActive(h) = P!HasActive(h)
    /\ \A h, s : JL!LatestSucceeded(h, s) = P!LatestSucceeded(h, s)
    /\ \A h, s : JL!PendingRun(h, s) = P!PendingRun(h, s)
    /\ \A h, s : JL!RunningRun(h, s) = P!RunningRun(h, s)
    /\ \A s, h : JL!History(s, h) = P!History(s, h)
<1>1. /\ JL!Run = P!Run /\ JL!RunSteps = P!RunSteps /\ JL!JobSteps = P!JobSteps
      /\ JL!Active = P!Active /\ JL!Terminal = P!Terminal
  BY DEF JL!Run, P!Run, JL!RunSteps, P!RunSteps, JL!JobSteps, P!JobSteps,
         JL!Active, P!Active, JL!Terminal, P!Terminal
<1>2. \A s : JL!NextStep(s) = P!NextStep(s)
  BY Zenon DEF JL!NextStep, P!NextStep
<1>3. \A h : JL!HasActive(h) = P!HasActive(h)
  BY Zenon DEF JL!HasActive, P!HasActive, JL!Active, P!Active
<1>4. \A h, s : JL!LatestSucceeded(h, s) = P!LatestSucceeded(h, s)
  BY Zenon DEF JL!LatestSucceeded, P!LatestSucceeded, JL!Latest, P!Latest,
               JL!LatestIndex, P!LatestIndex, JL!Unstarted, P!Unstarted,
               JL!Readable, P!Readable
<1>5. /\ \A h, s : JL!PendingRun(h, s) = P!PendingRun(h, s)
      /\ \A h, s : JL!RunningRun(h, s) = P!RunningRun(h, s)
  BY Zenon DEF JL!PendingRun, P!PendingRun, JL!RunningRun, P!RunningRun,
               JL!NextAttempt, P!NextAttempt, JL!Max, P!Max
<1>6. \A s, h : JL!History(s, h) = P!History(s, h)
  BY Zenon DEF JL!History, P!History, JL!WellFormed, P!WellFormed, JL!Layout, P!Layout,
               JL!Extracts, P!Extracts, JL!PhaseTwoRuns, P!PhaseTwoRuns,
               JL!SucceededBefore, P!SucceededBefore, JL!JobSteps, P!JobSteps,
               JL!RunSteps, P!RunSteps, JL!Terminal, P!Terminal, JL!Active, P!Active
<1> QED BY <1>1, <1>2, <1>3, <1>4, <1>5, <1>6

LEMMA SameMachine ==
    /\ JL!Init = P!Init
    /\ JL!Next = P!Next
    /\ JL!lifecycleVars = P!lifecycleVars
    /\ (JL!TypeOK /\ JL!HistoryExplainsStep) = P!IInv
<1>1. JL!Init = P!Init /\ JL!lifecycleVars = P!lifecycleVars
  BY DEF JL!Init, P!Init, JL!lifecycleVars, P!lifecycleVars
<1>2. JL!Next = P!Next
  BY Zenon DEF JL!Next, P!Next, JL!StartJob, P!StartJob, JL!ValidateJob, P!ValidateJob,
       JL!RestartJob, P!RestartJob, JL!ContinueJob, P!ContinueJob,
       JL!ClaimPendingRun, P!ClaimPendingRun, JL!FinishRun, P!FinishRun,
       JL!AbortRun, P!AbortRun, JL!DeleteJob, P!DeleteJob, JL!AddRun, P!AddRun,
       JL!PendingRun, P!PendingRun, JL!RunningRun, P!RunningRun,
       JL!NextAttempt, P!NextAttempt, JL!Max, P!Max, JL!HasActive, P!HasActive,
       JL!Exists, P!Exists, JL!LatestSucceeded, P!LatestSucceeded,
       JL!Latest, P!Latest, JL!LatestIndex, P!LatestIndex, JL!Readable, P!Readable,
       JL!Unstarted, P!Unstarted, JL!NextStep, P!NextStep, JL!Active, P!Active,
       JL!JobSteps, P!JobSteps, JL!RunSteps, P!RunSteps
<1>3. (JL!TypeOK /\ JL!HistoryExplainsStep) = P!IInv
  BY Zenon, SameWords DEF P!IInv, JL!TypeOK, P!TypeOK, JL!HistoryExplainsStep, P!HistoryExplainsStep
<1> QED BY <1>1, <1>2, <1>3

\* A step of JobLifecycle keeps the history of every job well formed.
LEMMA LifecycleStep ==
    ASSUME JL!TypeOK, JL!HistoryExplainsStep, [JL!Next]_<<step, runs>>
    PROVE  JL!TypeOK' /\ JL!HistoryExplainsStep'
<1>1. P!IInv /\ [P!Next]_P!lifecycleVars
  BY SameMachine DEF P!lifecycleVars
<1>2. P!IInv'
  BY <1>1, MaxAttemptsAssumption, AbortStatusesAssumption, P!NextIInv
<1>3. (JL!TypeOK /\ JL!HistoryExplainsStep)' = P!IInv'
  BY Zenon, SameWords DEF P!IInv, JL!TypeOK, P!TypeOK, JL!HistoryExplainsStep, P!HistoryExplainsStep
<1> QED BY <1>2, <1>3

\* A job whose latest run succeeded has no active run.
LEMMA SucceededIsNotActive ==
    ASSUME NEW s \in JL!JobSteps, NEW h \in Seq(JL!Run), JL!History(s, h),
           NEW t, JL!LatestSucceeded(h, t)
    PROVE  ~JL!HasActive(h)
<1>1. Len(h) >= 1 /\ h[Len(h)].status = "succeeded"
  BY SameWords, MaxAttemptsAssumption, AbortStatusesAssumption, P!LatestIsLast
<1>2. \A i \in 1..Len(h) : i < Len(h) => h[i].status \in JL!Terminal
  BY DEF JL!History
<1> QED BY <1>1, <1>2 DEF JL!HasActive, JL!Active, JL!Terminal

-----------------------------------------------------------------------------
(* What the statements of JobLifecycle do to the rows of one job. *)

Rows == JL!TypeOK /\ JL!HistoryExplainsStep

\* Run i of job j, its last one, has now status s.
Updated(j, i, s) ==
    /\ step' = step
    /\ \A k \in Jobs \ {j} : runs'[k] = runs[k]
    /\ i = Len(runs[j]) /\ i >= 1
    /\ Len(runs'[j]) = Len(runs[j])
    /\ \A m \in 1..Len(runs[j]) :
          /\ runs'[j][m].step = runs[j][m].step
          /\ runs'[j][m].status = IF m = i THEN s ELSE runs[j][m].status

\* Job j has a new run, of its new step, with status s.
Extended(j, s) ==
    /\ \A k \in Jobs \ {j} : step'[k] = step[k] /\ runs'[k] = runs[k]
    /\ step[j] # "deleted" /\ step'[j] \in JL!RunSteps
    /\ Len(runs'[j]) = Len(runs[j]) + 1
    /\ \A m \in 1..Len(runs[j]) : runs'[j][m] = runs[j][m]
    /\ runs'[j][Len(runs[j]) + 1].step = step'[j]
    /\ runs'[j][Len(runs[j]) + 1].status = s

LEMMA JobRow ==
    ASSUME Rows, NEW j \in Jobs
    PROVE  /\ step[j] \in JL!JobSteps \cup {"absent", "deleted"}
           /\ runs[j] \in Seq(JL!Run) /\ Len(runs[j]) \in Nat
           /\ JL!History(step[j], runs[j])
           /\ \A i \in 1..Len(runs[j]) : runs[j][i] \in JL!Run
BY DEF Rows, JL!TypeOK, JL!HistoryExplainsStep

LEMMA GoneHasNoRuns ==
    ASSUME Rows, NEW j \in Jobs, ~JL!Exists(j)
    PROVE  runs[j] = <<>>
BY JobRow DEF JL!Exists, JL!History

\* An active run is the last of its job and for the job's step.
LEMMA ActiveIsLast ==
    ASSUME Rows, NEW j \in Jobs, NEW i \in 1..Len(runs[j]), runs[j][i].status \in JL!Active
    PROVE  i = Len(runs[j]) /\ step[j] \in JL!RunSteps /\ runs[j][i].step = step[j]
<1>1. i = Len(runs[j])
  BY JobRow DEF JL!History, JL!Active, JL!Terminal
<1>2. step[j] \in JL!JobSteps
  BY JobRow DEF JL!History
<1>3. JL!Layout(step[j], runs[j]) /\ JL!SucceededBefore(step[j], runs[j]) /\ Len(runs[j]) \in Nat
  BY <1>2, JobRow DEF JL!History
<1>4. step[j] # "completed"
  BY <1>1, <1>3 DEF JL!Layout, JL!SucceededBefore, JL!Extracts, JL!PhaseTwoRuns, JL!Active
<1>5. step[j] \in JL!RunSteps
  BY <1>2, <1>4 DEF JL!JobSteps
<1>6. runs[j][i].step = step[j]
  <2>1. CASE step[j] = "extract"
    BY <1>1, <1>3, <2>1 DEF JL!Layout, JL!Extracts, JL!PhaseTwoRuns
  <2>2. CASE step[j] = "chunk"
    BY <1>1, <1>3, <2>2 DEF JL!Layout, JL!Extracts, JL!PhaseTwoRuns
  <2>3. CASE step[j] = "embed"
    BY <1>1, <1>3, <2>3 DEF JL!Layout, JL!Extracts, JL!PhaseTwoRuns
  <2> QED BY <1>5, <2>1, <2>2, <2>3 DEF JL!RunSteps
<1> QED BY <1>1, <1>5, <1>6

LEMMA ClaimUpdates ==
    ASSUME Rows, NEW j \in Jobs, JL!ClaimPendingRun(j)
    PROVE  /\ Updated(j, Len(runs[j]), "running")
           /\ runs[j][Len(runs[j])].status = "pending"
<1>1. PICK i \in DOMAIN runs[j] :
        /\ runs[j][i].status = "pending"
        /\ runs' = [runs EXCEPT ![j][i] =
                      [runs[j][i] EXCEPT !.status = "running", !.started = TRUE]]
  BY DEF JL!ClaimPendingRun
<1>2. i \in 1..Len(runs[j]) /\ runs[j][i] \in JL!Run
  BY JobRow
<1>3. i = Len(runs[j])
  BY <1>1, <1>2, ActiveIsLast DEF JL!Active
<1>4. runs \in [Jobs -> Seq(JL!Run)] /\ step' = step
  BY DEF Rows, JL!TypeOK, JL!ClaimPendingRun
<1>5. \A m \in 1..Len(runs[j]) : runs[j][m] \in JL!Run
  BY JobRow
<1> QED BY <1>1, <1>2, <1>3, <1>4, <1>5 DEF Updated, JL!Run

LEMMA FinishUpdates ==
    ASSUME Rows, NEW j \in Jobs, NEW i, NEW outcome, JL!FinishRun(j, i, outcome)
    PROVE  Updated(j, i, outcome) /\ i \in 1..Len(runs[j]) /\ runs[j][i].status = "running"
<1>1. /\ i \in DOMAIN runs[j] /\ runs[j][i].status = "running"
      /\ runs' = [runs EXCEPT ![j][i] = [runs[j][i] EXCEPT !.status = outcome]]
      /\ step' = step
  BY DEF JL!FinishRun
<1>2. i \in 1..Len(runs[j]) /\ runs[j][i] \in JL!Run
  BY <1>1, JobRow
<1>3. i = Len(runs[j])
  BY <1>1, <1>2, ActiveIsLast DEF JL!Active
<1>4. runs \in [Jobs -> Seq(JL!Run)]
  BY DEF Rows, JL!TypeOK
<1>5. \A m \in 1..Len(runs[j]) : runs[j][m] \in JL!Run
  BY JobRow
<1> QED BY <1>1, <1>2, <1>3, <1>4, <1>5 DEF Updated, JL!Run

LEMMA AbortUpdates ==
    ASSUME Rows, NEW j \in Jobs, JL!AbortRun(j)
    PROVE  /\ Updated(j, Len(runs[j]), "aborted")
           /\ runs[j][Len(runs[j])].status \in JL!Active
<1>1. PICK i \in DOMAIN runs[j] :
        /\ runs[j][i].status \in AbortStatuses
        /\ runs' = [runs EXCEPT ![j][i] = [runs[j][i] EXCEPT !.status = "aborted"]]
  BY DEF JL!AbortRun
<1>2. i \in 1..Len(runs[j]) /\ runs[j][i] \in JL!Run
  BY JobRow
<1>3. runs[j][i].status \in JL!Active
  BY <1>1, AbortStatusesAssumption DEF JL!Active
<1>4. i = Len(runs[j])
  BY <1>2, <1>3, ActiveIsLast
<1>5. runs \in [Jobs -> Seq(JL!Run)] /\ step' = step
  BY DEF Rows, JL!TypeOK, JL!AbortRun
<1>6. \A m \in 1..Len(runs[j]) : runs[j][m] \in JL!Run
  BY JobRow
<1> QED BY <1>1, <1>2, <1>3, <1>4, <1>5, <1>6 DEF Updated, JL!Run

\* A new run is added after an inactive history.
LEMMA AddExtends ==
    ASSUME Rows, NEW j \in Jobs, NEW r, JL!AddRun(j, r), step[j] # "deleted",
           \A k \in Jobs \ {j} : step'[k] = step[k],
           step'[j] \in JL!RunSteps, r.step = step'[j]
    PROVE  Extended(j, r.status) /\ ~JL!HasActive(runs[j])
<1>1. ~JL!HasActive(runs[j]) /\ runs' = [runs EXCEPT ![j] = Append(runs[j], r)]
  BY DEF JL!AddRun
<1>2. runs \in [Jobs -> Seq(JL!Run)] /\ runs[j] \in Seq(JL!Run)
  BY DEF Rows, JL!TypeOK
<1>3. /\ Len(Append(runs[j], r)) = Len(runs[j]) + 1
      /\ Append(runs[j], r)[Len(runs[j]) + 1] = r
      /\ \A m \in 1..Len(runs[j]) : Append(runs[j], r)[m] = runs[j][m]
  BY <1>2
<1> QED BY <1>1, <1>2, <1>3 DEF Extended

LEMMA EnqueueExtends ==
    ASSUME Rows, NEW j \in Jobs, JL!StartJob(j) \/ JL!ValidateJob(j) \/ JL!RestartJob(j)
    PROVE  /\ Extended(j, "pending") /\ ~JL!HasActive(runs[j])
           /\ step[j] \in {"absent", "extract"}
<1>0. step \in [Jobs -> JL!JobSteps \cup {"absent", "deleted"}]
  BY DEF Rows, JL!TypeOK
<1>1. CASE JL!StartJob(j)
  BY <1>0, <1>1, AddExtends DEF JL!StartJob, JL!PendingRun, JL!RunSteps
<1>2. CASE JL!ValidateJob(j)
  BY <1>0, <1>2, AddExtends DEF JL!ValidateJob, JL!PendingRun, JL!RunSteps, JL!NextStep
<1>3. CASE JL!RestartJob(j)
  BY <1>0, <1>3, AddExtends DEF JL!RestartJob, JL!PendingRun, JL!RunSteps
<1> QED BY <1>1, <1>2, <1>3

LEMMA ContinueMoves ==
    ASSUME Rows, NEW j \in Jobs, JL!ContinueJob(j)
    PROVE  \/ step[j] = "chunk" /\ step'[j] = "embed" /\ Extended(j, "running")
           \/ step[j] = "embed" /\ runs' = runs /\ step' = [step EXCEPT ![j] = "completed"]
<1>0. step \in [Jobs -> JL!JobSteps \cup {"absent", "deleted"}]
  BY DEF Rows, JL!TypeOK
<1>1. CASE step[j] = "chunk"
  <2>1. JL!NextStep(step[j]) = "embed"
    BY <1>1 DEF JL!NextStep
  <2> QED BY <1>0, <1>1, <2>1, AddExtends DEF JL!ContinueJob, JL!RunningRun, JL!RunSteps
<1>2. CASE step[j] = "embed"
  <2>1. JL!NextStep(step[j]) = "completed"
    BY <1>2 DEF JL!NextStep
  <2> QED BY <1>0, <1>2, <2>1 DEF JL!ContinueJob
<1> QED BY <1>1, <1>2 DEF JL!ContinueJob
=============================================================================
