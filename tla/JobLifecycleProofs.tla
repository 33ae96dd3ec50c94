------------------------- MODULE JobLifecycleProofs -------------------------
(***************************************************************************)
(* Proofs about JobLifecycle, for any set of jobs, any number of attempts  *)
(* and any choice of the runs a caller may abort.  The inductive invariant *)
(* is TypeOK /\ HistoryExplainsStep; the lemmas say, for one job on step s *)
(* with history h, what the queries return and that each way of extending  *)
(* or updating h keeps it well formed.                                     *)
(***************************************************************************)
EXTENDS JobLifecycle, SequenceTheorems, WellFoundedInduction, TLAPS

-----------------------------------------------------------------------------
(* What the queries return. *)

\* A non-empty set of positions in a history has a last one.
LEMMA LastPosition ==
    ASSUME NEW n \in Nat, NEW S, S \subseteq 1..n, S # {}
    PROVE  \E m \in S : \A k \in S : k <= m
<1> DEFINE T == {n - i : i \in S}
<1>1. T \subseteq Nat /\ T # {}
  <2>1. \A i \in S : n - i \in Nat
    OBVIOUS
  <2> QED BY <2>1
<1>2. PICK x \in T : \A y \in T : ~(<<y, x>> \in OpToRel(<, Nat))
  <2> HIDE DEF T
  <2> QED BY <1>1, NatLessThanWellFounded, WFMin
<1>3. \A y \in T : y >= x
  <2> HIDE DEF T
  <2> SUFFICES ASSUME NEW y \in T, y < x PROVE FALSE
    BY <1>1
  <2>1. <<y, x>> \in OpToRel(<, Nat)
    BY <1>1 DEF OpToRel
  <2> QED BY <1>2, <2>1
<1>4. PICK m \in S : x = n - m
  OBVIOUS
<1>5. \A k \in S : n - k >= n - m
  BY <1>3, <1>4
<1> QED BY <1>5

\* If latest_run returns a succeeded run, every run has its started_at: a row
\* without one would have been returned instead.
LEMMA UnstartedIsEmpty ==
    ASSUME NEW s \in JobSteps, NEW h \in Seq(Run), History(s, h),
           NEW t, LatestSucceeded(h, t)
    PROVE  Unstarted(h) = {}
<1>1. SUFFICES ASSUME Unstarted(h) # {} PROVE FALSE
  OBVIOUS
<1>2. \E m \in Unstarted(h) : \A k \in Unstarted(h) : h[k].attempt <= h[m].attempt
  <2>1. CASE s = "extract"
    <3>1. Unstarted(h) \subseteq 1..Len(h) /\ Len(h) \in Nat
      BY DEF Unstarted
    <3>2. PICK m \in Unstarted(h) : \A k \in Unstarted(h) : k <= m
      BY <1>1, <3>1, LastPosition
    <3>3. \A k \in Unstarted(h) : h[k].attempt = k
      BY <2>1 DEF Unstarted, History, Layout, Extracts, PhaseTwoRuns
    <3> QED BY <3>2, <3>3
  <2>2. CASE s # "extract"
    <3>1. \A k \in Unstarted(h) : h[k].attempt = 1
      BY <2>2 DEF Unstarted, History, Layout, SucceededBefore, Extracts, PhaseTwoRuns, JobSteps, RunSteps
    <3> QED BY <1>1, <3>1
  <2> QED BY <2>1, <2>2
<1>3. LatestIndex(h) \in Unstarted(h)
  BY <1>1, <1>2 DEF LatestIndex
<1> QED BY <1>3 DEF LatestSucceeded, Latest, Unstarted, History, WellFormed

\* So the run latest_run returns is then the last one enqueued.
LEMMA LatestIsLast ==
    ASSUME NEW s \in JobSteps, NEW h \in Seq(Run), History(s, h),
           NEW t, LatestSucceeded(h, t)
    PROVE  /\ Len(h) >= 1
           /\ h[Len(h)].step = t
           /\ h[Len(h)].status = "succeeded"
<1>1. LatestIndex(h) = Len(h)
  BY UnstartedIsEmpty DEF LatestIndex
<1> QED BY <1>1 DEF LatestSucceeded, Latest, History

\* The next extract attempt of a job still on extract, or not yet created.
LEMMA NextExtractAttempt ==
    ASSUME NEW h \in Seq(Run),
           \A i \in 1..Len(h) : h[i].step = "extract" /\ h[i].attempt = i
    PROVE  NextAttempt(h, "extract") = Len(h) + 1
<1> DEFINE A == {h[i].attempt : i \in {k \in 1..Len(h) : h[k].step = "extract"}} \cup {0}
<1>1. \A x \in A : x \in 0..Len(h)
  OBVIOUS
<1>2. Len(h) \in A
  OBVIOUS
<1>3. Max(A) = Len(h)
  <2> HIDE DEF A
  <2> QED BY <1>1, <1>2 DEF Max
<1> QED BY <1>3 DEF NextAttempt

\* The first attempt at a step that has no run yet.
LEMMA FirstAttempt ==
    ASSUME NEW h \in Seq(Run), NEW t, \A i \in 1..Len(h) : h[i].step # t
    PROVE  NextAttempt(h, t) = 1
<1> DEFINE A == {h[i].attempt : i \in {k \in 1..Len(h) : h[k].step = t}} \cup {0}
<1>1. A = {0}
  OBVIOUS
<1>2. Max(A) = 0
  <2> HIDE DEF A
  <2> QED BY <1>1 DEF Max
<1> QED BY <1>2 DEF NextAttempt

-----------------------------------------------------------------------------
(* What each transition makes of one job's history. *)

\* A run that enqueue_run or begin_run inserts is a run.
LEMMA NewRunIsRun ==
    ASSUME NEW h \in Seq(Run), NEW s \in RunSteps, NextAttempt(h, s) \in Nat \ {0}
    PROVE  PendingRun(h, s) \in Run /\ RunningRun(h, s) \in Run
BY DEF PendingRun, RunningRun, Run, Active

\* A history with no active run is all ended runs.
LEMMA EndedHistory ==
    ASSUME NEW h \in Seq(Run), ~HasActive(h)
    PROVE  \A i \in 1..Len(h) : h[i].status \in Terminal
<1> SUFFICES ASSUME NEW i \in 1..Len(h) PROVE h[i].status \in Terminal
  OBVIOUS
<1>1. h[i] \in Run
  OBVIOUS
<1>2. h[i].status \in Active \cup Terminal
  BY <1>1 DEF Run
<1> QED BY <1>2 DEF HasActive

\* start_job and restart_job: another attempt at the transcription.
LEMMA ExtractEnqueued ==
    ASSUME NEW h \in Seq(Run), h = <<>> \/ History("extract", h), ~HasActive(h)
    PROVE  /\ PendingRun(h, "extract") \in Run
           /\ History("extract", Append(h, PendingRun(h, "extract")))
<1> DEFINE r == PendingRun(h, "extract")
           g == Append(h, r)
<1>1. \A i \in 1..Len(h) : h[i].step = "extract" /\ h[i].attempt = i
  BY DEF History, Layout, Extracts, PhaseTwoRuns, JobSteps, RunSteps
<1>2. NextAttempt(h, "extract") = Len(h) + 1
  BY <1>1, NextExtractAttempt
<1>3. r \in Run
  BY <1>2, NewRunIsRun DEF RunSteps
<1>4. r.step = "extract" /\ r.attempt = Len(h) + 1 /\ r.status = "pending" /\ ~r.started
  BY <1>2 DEF PendingRun
<1> HIDE DEF r
<1>5. /\ Len(g) = Len(h) + 1
      /\ g[Len(h) + 1] = r
      /\ \A i \in 1..Len(h) : g[i] = h[i]
  BY <1>3
<1>6. \A i \in 1..Len(h) : h[i].status \in Terminal /\ WellFormed(h[i])
  BY EndedHistory DEF History
<1> HIDE DEF g
<1>7. \A i \in 1..Len(g) : i = Len(h) + 1 \/ i \in 1..Len(h)
  BY <1>5
<1>8. Layout("extract", g)
  BY <1>1, <1>4, <1>5, <1>7 DEF Layout, Extracts, PhaseTwoRuns
<1>9. History("extract", g)
  BY <1>4, <1>5, <1>6, <1>7, <1>8
     DEF History, SucceededBefore, WellFormed, JobSteps, RunSteps
<1> QED BY <1>3, <1>9 DEF r, g

\* validate_job and continue_job: the run of the next step is added to a
\* history whose last run succeeded.
LEMMA NextStepAdded ==
    ASSUME NEW s \in {"extract", "chunk"}, NEW h \in Seq(Run), History(s, h),
           LatestSucceeded(h, s), ~HasActive(h),
           NEW r \in {PendingRun(h, NextStep(s)), RunningRun(h, NextStep(s))}
    PROVE  r \in Run /\ History(NextStep(s), Append(h, r))
<1> DEFINE g == Append(h, r)
           t == NextStep(s)
<1>0. t = (IF s = "extract" THEN "chunk" ELSE "embed") /\ s \in JobSteps
  BY DEF NextStep, JobSteps, RunSteps
<1>1. Len(h) >= 1 /\ h[Len(h)].step = s /\ h[Len(h)].status = "succeeded"
  BY <1>0, LatestIsLast
<1>2. \A i \in 1..Len(h) : h[i].step # t
  BY <1>0, <1>1 DEF History, Layout, Extracts, PhaseTwoRuns, JobSteps, RunSteps
<1>3. NextAttempt(h, t) = 1
  BY <1>2, FirstAttempt
<1>4. r \in Run
  BY <1>0, <1>3, NewRunIsRun DEF RunSteps
<1>5. /\ r.step = t /\ r.attempt = 1 /\ WellFormed(r)
  BY <1>3 DEF PendingRun, RunningRun, WellFormed
<1>6. /\ Len(g) = Len(h) + 1
      /\ g[Len(h) + 1] = r
      /\ \A i \in 1..Len(h) : g[i] = h[i]
  BY <1>4
<1>7. \A i \in 1..Len(h) : h[i].status \in Terminal /\ WellFormed(h[i])
  BY EndedHistory DEF History
<1> HIDE DEF g, t
<1>8. \A i \in 1..Len(g) : i = Len(h) + 1 \/ i \in 1..Len(h)
  BY <1>6
<1>9. Extracts(t, g) = Extracts(s, h)
  <2>1. CASE s = "extract"
    BY <2>1, <1>0, <1>6 DEF Extracts, PhaseTwoRuns
  <2>2. CASE s = "chunk"
    BY <2>2, <1>0, <1>6 DEF Extracts, PhaseTwoRuns
  <2> QED BY <2>1, <2>2
<1>10. Layout(t, g)
  BY <1>0, <1>5, <1>6, <1>8, <1>9 DEF Layout, Extracts, PhaseTwoRuns, History
<1>11. SucceededBefore(t, g)
  <2>1. CASE s = "extract"
    <3>1. \A i \in 1..Len(h) : h[i].started
      \* latest_run returned a started run, so no run lacks its started_at
      <4>1. Unstarted(h) = {}
        BY <2>1, UnstartedIsEmpty, <1>0
      <4> QED BY <4>1 DEF Unstarted
    <3> QED BY <2>1, <3>1, <1>0, <1>1, <1>6, <1>9 DEF SucceededBefore, Extracts, PhaseTwoRuns
  <2>2. CASE s = "chunk"
    BY <2>2, <1>0, <1>1, <1>6, <1>9 DEF SucceededBefore, Extracts, PhaseTwoRuns, History, Layout
  <2> QED BY <2>1, <2>2
<1>12. History(t, g)
  BY <1>0, <1>5, <1>6, <1>7, <1>8, <1>10, <1>11 DEF History, JobSteps, RunSteps
<1> QED BY <1>4, <1>12 DEF g, t

\* continue_job after embed: only the job's step moves.
LEMMA EmbedCompleted ==
    ASSUME NEW h \in Seq(Run), History("embed", h), LatestSucceeded(h, "embed")
    PROVE  History("completed", h)
<1>1. Len(h) >= 1 /\ h[Len(h)].status = "succeeded"
  BY LatestIsLast DEF JobSteps, RunSteps
<1> QED BY <1>1 DEF History, Layout, SucceededBefore, Extracts, PhaseTwoRuns, JobSteps, RunSteps

\* claim, finish and abort: the active run, which is the last, changes status.
LEMMA ActiveRunUpdated ==
    ASSUME NEW s, NEW h \in Seq(Run), History(s, h),
           NEW i \in 1..Len(h), h[i].status \in Active,
           NEW r \in Run, WellFormed(r), r.step = h[i].step, r.attempt = h[i].attempt
    PROVE  /\ [h EXCEPT ![i] = r] \in Seq(Run)
           /\ History(s, [h EXCEPT ![i] = r])
<1> DEFINE g == [h EXCEPT ![i] = r]
<1>1. /\ g \in Seq(Run) /\ Len(g) = Len(h)
      /\ \A k \in 1..Len(h) : g[k] = IF k = i THEN r ELSE h[k]
  BY ExceptSeq
<1>2. i = Len(h)
  BY DEF History, Active, Terminal
<1>3. s \in JobSteps
  BY DEF History
<1>4. s # "completed"
  BY <1>2, <1>3 DEF History, Layout, SucceededBefore, Extracts, PhaseTwoRuns, Active
<1> HIDE DEF g
<1>5. Extracts(s, g) = Extracts(s, h) /\ Len(h) \in Nat
  BY <1>1 DEF Extracts
<1>6. Layout(s, g)
  BY <1>1, <1>3, <1>5 DEF Layout, History
<1>7. SucceededBefore(s, g)
  BY <1>1, <1>2, <1>3, <1>4, <1>5 DEF SucceededBefore, History, Layout, Extracts, PhaseTwoRuns, JobSteps, RunSteps
<1>8. History(s, g)
  BY <1>1, <1>2, <1>3, <1>6, <1>7 DEF History
<1> QED BY <1>1, <1>8 DEF g

-----------------------------------------------------------------------------
(* The inductive invariant. *)

IInv == TypeOK /\ HistoryExplainsStep

\* A transition of one job leaves the other jobs alone.
LEMMA OneJobChanges ==
    ASSUME IInv, NEW j \in Jobs, NEW s \in JobSteps \cup {"absent", "deleted"},
           NEW h \in Seq(Run), History(s, h),
           step' = [step EXCEPT ![j] = s], runs' = [runs EXCEPT ![j] = h]
    PROVE  IInv'
<1>1. TypeOK'
  BY DEF IInv, TypeOK
<1>2. \A k \in Jobs : step'[k] = (IF k = j THEN s ELSE step[k])
                   /\ runs'[k] = (IF k = j THEN h ELSE runs[k])
  BY DEF IInv, TypeOK
<1>3. \A k \in Jobs : History(step'[k], runs'[k])
  BY <1>2 DEF IInv, HistoryExplainsStep
<1> QED BY <1>1, <1>3 DEF IInv, HistoryExplainsStep

LEMMA InitIInv == Init => IInv
<1> SUFFICES ASSUME Init PROVE IInv
  OBVIOUS
<1>1. TypeOK
  BY DEF Init, TypeOK
<1>2. \A j \in Jobs : History(step[j], runs[j])
  BY DEF Init, History, JobSteps, RunSteps
<1> QED BY <1>1, <1>2 DEF IInv, HistoryExplainsStep

LEMMA NextIInv == IInv /\ [Next]_lifecycleVars => IInv'
<1> SUFFICES ASSUME IInv, [Next]_lifecycleVars PROVE IInv'
  OBVIOUS
<1>0. \A j \in Jobs : /\ step[j] \in JobSteps \cup {"absent", "deleted"}
                      /\ runs[j] \in Seq(Run)
                      /\ History(step[j], runs[j])
  BY DEF IInv, TypeOK, HistoryExplainsStep
<1>1. ASSUME NEW j \in Jobs, StartJob(j) PROVE IInv'
  <2>1. runs[j] = <<>>
    BY <1>0, <1>1 DEF StartJob, History, JobSteps, RunSteps
  <2>2. /\ PendingRun(runs[j], "extract") \in Run
        /\ History("extract", Append(runs[j], PendingRun(runs[j], "extract")))
    BY <1>0, <1>1, <2>1, ExtractEnqueued DEF StartJob, AddRun
  <2>3. /\ step' = [step EXCEPT ![j] = "extract"]
        /\ runs' = [runs EXCEPT ![j] = Append(runs[j], PendingRun(runs[j], "extract"))]
    BY <1>1 DEF StartJob, AddRun
  <2>4. Append(runs[j], PendingRun(runs[j], "extract")) \in Seq(Run)
    BY <1>0, <2>2
  <2> QED BY <2>2, <2>3, <2>4, OneJobChanges DEF JobSteps, RunSteps
<1>2. ASSUME NEW j \in Jobs, RestartJob(j) PROVE IInv'
  <2>1. /\ PendingRun(runs[j], "extract") \in Run
        /\ History("extract", Append(runs[j], PendingRun(runs[j], "extract")))
    BY <1>0, <1>2, ExtractEnqueued DEF RestartJob, AddRun
  <2>2. /\ step' = [step EXCEPT ![j] = "extract"]
        /\ runs' = [runs EXCEPT ![j] = Append(runs[j], PendingRun(runs[j], "extract"))]
    BY <1>2 DEF RestartJob, AddRun, IInv, TypeOK
  <2>3. Append(runs[j], PendingRun(runs[j], "extract")) \in Seq(Run)
    BY <1>0, <2>1
  <2> QED BY <2>1, <2>2, <2>3, OneJobChanges DEF JobSteps, RunSteps
<1>3. ASSUME NEW j \in Jobs, ValidateJob(j) PROVE IInv'
  <2> DEFINE r == PendingRun(runs[j], NextStep("extract"))
  <2>1. r \in Run /\ History(NextStep("extract"), Append(runs[j], r))
    BY <1>0, <1>3, NextStepAdded DEF ValidateJob, AddRun
  <2>2. /\ step' = [step EXCEPT ![j] = NextStep("extract")]
        /\ runs' = [runs EXCEPT ![j] = Append(runs[j], r)]
    BY <1>3 DEF ValidateJob, AddRun
  <2>3. NextStep("extract") \in JobSteps /\ Append(runs[j], r) \in Seq(Run)
    BY <1>0, <2>1 DEF NextStep, JobSteps, RunSteps
  <2> HIDE DEF r
  <2> QED BY <2>1, <2>2, <2>3, OneJobChanges
<1>4. ASSUME NEW j \in Jobs, ContinueJob(j) PROVE IInv'
  <2>1. CASE step[j] = "chunk"
    <3> DEFINE r == RunningRun(runs[j], NextStep("chunk"))
    <3>1. NextStep("chunk") = "embed"
      BY DEF NextStep
    <3>2. /\ ~HasActive(runs[j]) /\ LatestSucceeded(runs[j], "chunk")
          /\ step' = [step EXCEPT ![j] = NextStep("chunk")]
          /\ runs' = [runs EXCEPT ![j] = Append(runs[j], r)]
      BY <1>4, <2>1, <3>1 DEF ContinueJob, AddRun
    <3>3. r \in Run /\ History(NextStep("chunk"), Append(runs[j], r))
      BY <1>0, <2>1, <3>2, NextStepAdded
    <3>4. NextStep("chunk") \in JobSteps /\ Append(runs[j], r) \in Seq(Run)
      BY <1>0, <3>1, <3>3 DEF JobSteps, RunSteps
    <3> HIDE DEF r
    <3> QED BY <3>2, <3>3, <3>4, OneJobChanges
  <2>2. CASE step[j] = "embed"
    <3>1. NextStep("embed") = "completed"
      BY DEF NextStep
    <3>2. /\ LatestSucceeded(runs[j], "embed")
          /\ step' = [step EXCEPT ![j] = "completed"]
          /\ runs' = [runs EXCEPT ![j] = runs[j]]
      BY <1>4, <2>2, <3>1 DEF ContinueJob, IInv, TypeOK
    <3>3. History("completed", runs[j])
      BY <1>0, <2>2, <3>2, EmbedCompleted
    <3> QED BY <1>0, <3>2, <3>3, OneJobChanges DEF JobSteps
  <2> QED BY <1>4, <2>1, <2>2 DEF ContinueJob
<1>5. ASSUME NEW j \in Jobs, NEW i \in 1..Len(runs[j]), NEW r,
             runs[j][i].status \in Active, r \in Run, WellFormed(r),
             r.step = runs[j][i].step, r.attempt = runs[j][i].attempt,
             runs' = [runs EXCEPT ![j][i] = r], UNCHANGED step
      PROVE  IInv'
  <2> DEFINE h == [runs[j] EXCEPT ![i] = r]
  <2>1. h \in Seq(Run) /\ History(step[j], h)
    BY <1>0, <1>5, ActiveRunUpdated
  <2>2. step' = [step EXCEPT ![j] = step[j]] /\ runs' = [runs EXCEPT ![j] = h]
    BY <1>5 DEF IInv, TypeOK
  <2> HIDE DEF h
  <2> QED BY <1>0, <2>1, <2>2, OneJobChanges
<1>6. ASSUME NEW j \in Jobs, ClaimPendingRun(j) PROVE IInv'
  <2>1. PICK i \in DOMAIN runs[j] :
          /\ runs[j][i].status = "pending"
          /\ runs' = [runs EXCEPT ![j][i] =
                        [runs[j][i] EXCEPT !.status = "running", !.started = TRUE]]
    BY <1>6 DEF ClaimPendingRun
  <2>0. i \in 1..Len(runs[j])
    BY <1>0
  <2> DEFINE r == [runs[j][i] EXCEPT !.status = "running", !.started = TRUE]
  <2>2. runs[j][i] \in Run
    BY <1>0, <2>0
  <2>3. /\ r \in Run /\ WellFormed(r)
        /\ r.step = runs[j][i].step /\ r.attempt = runs[j][i].attempt
    BY <2>2 DEF Run, WellFormed, Active
  <2>4. runs[j][i].status \in Active /\ UNCHANGED step
    BY <1>6, <2>1 DEF Active, ClaimPendingRun
  <2> QED BY <1>5, <2>0, <2>1, <2>3, <2>4
<1>7. ASSUME NEW j \in Jobs, NEW i \in DOMAIN runs[j],
             NEW outcome \in {"succeeded", "failed"}, FinishRun(j, i, outcome)
      PROVE  IInv'
  <2> DEFINE r == [runs[j][i] EXCEPT !.status = outcome]
  <2>1. i \in 1..Len(runs[j]) /\ runs[j][i] \in Run /\ WellFormed(runs[j][i])
    BY <1>0 DEF History
  <2>2. /\ r \in Run /\ WellFormed(r)
        /\ r.step = runs[j][i].step /\ r.attempt = runs[j][i].attempt
    BY <1>7, <2>1 DEF Run, WellFormed, Terminal, FinishRun
  <2>3. /\ runs[j][i].status \in Active /\ UNCHANGED step
        /\ runs' = [runs EXCEPT ![j][i] = r]
    BY <1>7 DEF FinishRun, Active
  <2> QED BY <1>5, <2>1, <2>2, <2>3
<1>8. ASSUME NEW j \in Jobs, AbortRun(j) PROVE IInv'
  <2>1. PICK i \in DOMAIN runs[j] :
          /\ runs[j][i].status \in AbortStatuses
          /\ runs' = [runs EXCEPT ![j][i] = [runs[j][i] EXCEPT !.status = "aborted"]]
    BY <1>8 DEF AbortRun
  <2>0. i \in 1..Len(runs[j])
    BY <1>0
  <2> DEFINE r == [runs[j][i] EXCEPT !.status = "aborted"]
  <2>2. runs[j][i] \in Run
    BY <1>0, <2>0
  <2>3. /\ r \in Run /\ WellFormed(r)
        /\ r.step = runs[j][i].step /\ r.attempt = runs[j][i].attempt
    BY <2>2 DEF Run, WellFormed, Terminal
  <2>4. runs[j][i].status \in Active /\ UNCHANGED step
    BY <1>8, <2>1, AbortStatusesAssumption DEF Active, AbortRun
  <2> QED BY <1>5, <2>0, <2>1, <2>3, <2>4
<1>9. ASSUME NEW j \in Jobs, DeleteJob(j) PROVE IInv'
  <2>1. History("deleted", <<>>)
    BY DEF History, JobSteps, RunSteps
  <2>2. <<>> \in Seq(Run)
    OBVIOUS
  <2> QED BY <1>9, <2>1, <2>2, OneJobChanges DEF DeleteJob
<1>10. CASE UNCHANGED lifecycleVars
  BY <1>10 DEF IInv, TypeOK, HistoryExplainsStep, lifecycleVars
<1> QED BY <1>1, <1>2, <1>3, <1>4, <1>6, <1>7, <1>8, <1>9, <1>10 DEF Next

LEMMA Invariance == Spec => []IInv
BY InitIInv, NextIInv, PTL DEF Spec

-----------------------------------------------------------------------------
(* The theorems. *)

\* Steps, statuses and attempt numbers stay in the sets the schema allows.
THEOREM TypeCorrect == Spec => []TypeOK
<1>1. IInv => TypeOK
  BY DEF IInv
<1> QED BY Invariance, <1>1, PTL

\* At any time the run history of a job accounts for the step its row names.
THEOREM HistoryCorrect == Spec => []HistoryExplainsStep
<1>1. IInv => HistoryExplainsStep
  BY DEF IInv
<1> QED BY Invariance, <1>1, PTL

\* A job works on one step at a time, the step its row names.
THEOREM OneStepAtATime == Spec => []ActiveRunIsCurrent
<1>1. IInv => ActiveRunIsCurrent
  <2> SUFFICES ASSUME IInv, NEW j \in Jobs, NEW i \in DOMAIN runs[j],
                      runs[j][i].status \in Active
               PROVE  i = Len(runs[j]) /\ runs[j][i].step = step[j]
    BY DEF ActiveRunIsCurrent
  <2>1. i \in 1..Len(runs[j]) /\ History(step[j], runs[j])
    BY DEF IInv, TypeOK, HistoryExplainsStep
  <2>2. i = Len(runs[j]) /\ step[j] \in JobSteps
    BY <2>1 DEF History, Active, Terminal
  <2>3. runs[j][i].step = step[j]
    <3>1. Layout(step[j], runs[j]) /\ SucceededBefore(step[j], runs[j])
      BY <2>1, <2>2 DEF History
    <3>2. step[j] # "completed"
      BY <2>2, <3>1 DEF SucceededBefore, Layout, Extracts, PhaseTwoRuns, Active
    <3>3. CASE step[j] = "extract"
      BY <2>1, <2>2, <3>1, <3>3 DEF Layout, Extracts, PhaseTwoRuns
    <3>4. CASE step[j] = "chunk"
      BY <2>1, <2>2, <3>1, <3>4 DEF Layout, Extracts, PhaseTwoRuns
    <3>5. CASE step[j] = "embed"
      BY <2>1, <2>2, <3>1, <3>5 DEF Layout, Extracts, PhaseTwoRuns
    <3> QED BY <2>2, <3>2, <3>3, <3>4, <3>5 DEF JobSteps, RunSteps
  <2> QED BY <2>2, <2>3
<1> QED BY Invariance, <1>1, PTL

\* Nothing past the human gate happens without a succeeded transcription, and
\* none is transcribed again behind it.
THEOREM GateHolds == Spec => []GateIsHeld
<1>1. IInv => GateIsHeld
  <2> SUFFICES ASSUME IInv, NEW j \in Jobs, step[j] \in {"chunk", "embed", "completed"}
               PROVE  \E i \in DOMAIN runs[j] :
                         /\ runs[j][i].step = "extract"
                         /\ runs[j][i].status = "succeeded"
                         /\ \A k \in DOMAIN runs[j] : runs[j][k].step = "extract" <=> k <= i
    BY DEF GateIsHeld
  <2> DEFINE h == runs[j]
             e == Extracts(step[j], h)
  <2>1. h \in Seq(Run) /\ History(step[j], h)
    BY DEF IInv, TypeOK, HistoryExplainsStep
  <2>2. Layout(step[j], h) /\ SucceededBefore(step[j], h)
    BY <2>1 DEF History, JobSteps, RunSteps
  <2>3. e \in 1..Len(h)
    <3>1. Len(h) \in Nat /\ PhaseTwoRuns(step[j]) \in {1, 2}
      BY <2>1 DEF PhaseTwoRuns
    <3> QED BY <2>2, <3>1 DEF Layout, Extracts
  <2>4. h[e].step = "extract" /\ h[e].status = "succeeded"
    BY <2>2, <2>3 DEF Layout, SucceededBefore
  <2>5. \A k \in 1..Len(h) : h[k].step = "extract" <=> k <= e
    BY <2>2, <2>3 DEF Layout
  <2>6. DOMAIN h = 1..Len(h)
    BY <2>1
  <2> QED BY <2>3, <2>4, <2>5, <2>6
<1> QED BY Invariance, <1>1, PTL

\* A completed job ran every step to success, and nothing is in flight.
THEOREM CompletedIsProcessed == Spec => []CompletedMeansProcessed
<1>1. IInv => CompletedMeansProcessed
  <2> SUFFICES ASSUME IInv, NEW j \in Jobs, step[j] = "completed"
               PROVE  LET n == Len(runs[j])
                      IN  /\ n >= 3
                          /\ runs[j][n].step = "embed" /\ runs[j][n].status = "succeeded"
                          /\ runs[j][n - 1].step = "chunk" /\ runs[j][n - 1].status = "succeeded"
                          /\ runs[j][n - 2].step = "extract" /\ runs[j][n - 2].status = "succeeded"
    BY DEF CompletedMeansProcessed
  <2>1. runs[j] \in Seq(Run) /\ Len(runs[j]) \in Nat /\ History("completed", runs[j])
    BY DEF IInv, TypeOK, HistoryExplainsStep
  <2>2. Extracts("completed", runs[j]) = Len(runs[j]) - 2 /\ Len(runs[j]) >= 3
    BY <2>1 DEF History, Layout, Extracts, PhaseTwoRuns, JobSteps
  <2> DEFINE h == runs[j]
             n == Len(h)
  <2>3. Layout("completed", h) /\ SucceededBefore("completed", h)
    BY <2>1 DEF History, JobSteps
  <2>4. h[n].step = "embed" /\ h[n - 1].step = "chunk" /\ h[n - 2].step = "extract"
    BY <2>1, <2>2, <2>3 DEF Layout
  <2>5. /\ h[n].status = "succeeded" /\ h[n - 1].status = "succeeded"
        /\ h[n - 2].status = "succeeded"
    BY <2>1, <2>2, <2>3 DEF SucceededBefore
  <2> QED BY <2>1, <2>2, <2>4, <2>5
<1> QED BY Invariance, <1>1, PTL

\* The audit trail: an ended run is never rewritten and no run is lost while
\* its job exists.
THEOREM AuditTrail == Spec => EndedRunsAreFinal
<1> DEFINE A == \A j \in Jobs : Exists(j)' =>
                  \A i \in DOMAIN runs[j] :
                      /\ i \in DOMAIN runs'[j]
                      /\ runs[j][i].status \in Terminal => runs'[j][i] = runs[j][i]
<1>1. ASSUME IInv, [Next]_lifecycleVars PROVE [A]_lifecycleVars
  <2> SUFFICES ASSUME NEW j \in Jobs, Next, Exists(j)', NEW i \in DOMAIN runs[j]
               PROVE  /\ i \in DOMAIN runs'[j]
                      /\ runs[j][i].status \in Terminal => runs'[j][i] = runs[j][i]
    BY <1>1
  <2>0. /\ step \in [Jobs -> JobSteps \cup {"absent", "deleted"}]
        /\ runs \in [Jobs -> Seq(Run)] /\ runs[j] \in Seq(Run)
        /\ i \in 1..Len(runs[j])
    BY <1>1 DEF IInv, TypeOK
  <2>1. ASSUME NEW r, runs' = [runs EXCEPT ![j] = Append(runs[j], r)]
        PROVE  i \in DOMAIN runs'[j] /\ runs'[j][i] = runs[j][i]
    <3>1. runs'[j] = Append(runs[j], r)
      BY <2>0, <2>1
    <3>2. /\ i \in DOMAIN Append(runs[j], r)
          /\ Append(runs[j], r)[i] = runs[j][i]
      BY <2>0
    <3> QED BY <3>1, <3>2
  <2>2. ASSUME NEW k \in DOMAIN runs[j], NEW r, runs[j][k].status \in Active,
               runs' = [runs EXCEPT ![j][k] = r]
        PROVE  /\ i \in DOMAIN runs'[j]
               /\ runs[j][i].status \in Terminal => runs'[j][i] = runs[j][i]
    BY <2>0, <2>2 DEF Active, Terminal
  <2>3. ASSUME NEW k \in Jobs, k # j, NEW h, runs' = [runs EXCEPT ![k] = h]
        PROVE  runs'[j] = runs[j]
    BY <2>0, <2>3
  <2>4. PICK k \in Jobs : \/ StartJob(k) \/ ValidateJob(k) \/ RestartJob(k)
                          \/ ContinueJob(k) \/ ClaimPendingRun(k)
                          \/ \E m \in DOMAIN runs[k], outcome \in {"succeeded", "failed"} :
                                FinishRun(k, m, outcome)
                          \/ AbortRun(k) \/ DeleteJob(k)
    BY DEF Next
  <2>5. CASE k # j
    <3>1. \/ UNCHANGED runs
          \/ \E h : runs' = [runs EXCEPT ![k] = h]
      BY <2>0, <2>4 DEF StartJob, ValidateJob, RestartJob, ContinueJob, ClaimPendingRun,
                        FinishRun, AbortRun, DeleteJob, AddRun
    <3> QED BY <2>3, <2>5, <3>1
  <2>6. CASE k = j
    <3>1. CASE StartJob(j) \/ ValidateJob(j) \/ RestartJob(j) \/ ContinueJob(j)
      <4>1. UNCHANGED runs \/ \E r : runs' = [runs EXCEPT ![j] = Append(runs[j], r)]
        BY <3>1 DEF StartJob, ValidateJob, RestartJob, ContinueJob, AddRun
      <4> QED BY <2>1, <4>1
    <3>2. CASE \/ ClaimPendingRun(j)
               \/ \E m \in DOMAIN runs[j], outcome \in {"succeeded", "failed"} :
                     FinishRun(j, m, outcome)
               \/ AbortRun(j)
      <4>1. \E m \in DOMAIN runs[j] : /\ runs[j][m].status \in Active
                                     /\ \E r : runs' = [runs EXCEPT ![j][m] = r]
        <5>1. CASE ClaimPendingRun(j)
          <6>1. PICK m \in DOMAIN runs[j] :
                   /\ runs[j][m].status = "pending"
                   /\ runs' = [runs EXCEPT ![j][m] =
                                  [runs[j][m] EXCEPT !.status = "running", !.started = TRUE]]
            BY <5>1 DEF ClaimPendingRun
          <6>2. runs[j][m].status \in Active
            BY <6>1 DEF Active
          <6> QED BY <6>1, <6>2, Zenon
        <5>2. CASE AbortRun(j)
          <6>1. PICK m \in DOMAIN runs[j] :
                   /\ runs[j][m].status \in AbortStatuses
                   /\ runs' = [runs EXCEPT ![j][m] = [runs[j][m] EXCEPT !.status = "aborted"]]
            BY <5>2 DEF AbortRun
          <6>2. runs[j][m].status \in Active
            BY <6>1, AbortStatusesAssumption DEF Active
          <6> QED BY <6>1, <6>2, Zenon
        <5>3. ASSUME NEW m \in DOMAIN runs[j], NEW outcome, FinishRun(j, m, outcome)
              PROVE  /\ runs[j][m].status \in Active
                     /\ \E r : runs' = [runs EXCEPT ![j][m] = r]
          BY <5>3 DEF FinishRun, Active
        <5> QED BY <3>2, <5>1, <5>2, <5>3
      <4> QED BY <2>2, <4>1
    <3>3. CASE DeleteJob(j)
      <4>1. step'[j] = "deleted"
        BY <2>0, <3>3 DEF DeleteJob
      <4> QED BY <4>1 DEF Exists, JobSteps, RunSteps
    <3> QED BY <2>4, <2>6, <3>1, <3>2, <3>3
  <2> QED BY <2>5, <2>6
<1> QED BY Invariance, <1>1, PTL DEF Spec, EndedRunsAreFinal

\* A job's step moves to the next one only, and only when its last run, a run of
\* the step it leaves, succeeded.
THEOREM AdvancesOnSuccess == Spec => StepAdvancesOnSuccess
<1> DEFINE A == \A j \in Jobs : Exists(j) /\ Exists(j)' /\ step'[j] # step[j] =>
                  /\ step'[j] = NextStep(step[j])
                  /\ runs[j][Len(runs[j])].step = step[j]
                  /\ runs[j][Len(runs[j])].status = "succeeded"
<1>1. ASSUME IInv, [Next]_lifecycleVars PROVE [A]_lifecycleVars
  <2> SUFFICES ASSUME NEW j \in Jobs, Next, Exists(j), Exists(j)', step'[j] # step[j]
               PROVE  /\ step'[j] = NextStep(step[j])
                      /\ runs[j][Len(runs[j])].step = step[j]
                      /\ runs[j][Len(runs[j])].status = "succeeded"
    BY <1>1
  <2>0. /\ step \in [Jobs -> JobSteps \cup {"absent", "deleted"}]
        /\ runs[j] \in Seq(Run) /\ History(step[j], runs[j]) /\ step[j] \in JobSteps
    BY <1>1 DEF IInv, TypeOK, HistoryExplainsStep, Exists
  <2>1. PICK k \in Jobs : \/ StartJob(k) \/ ValidateJob(k) \/ ContinueJob(k) \/ DeleteJob(k)
    BY DEF Next, RestartJob, ClaimPendingRun, FinishRun, AbortRun
  <2>2. k = j
    BY <2>0, <2>1 DEF StartJob, ValidateJob, ContinueJob, DeleteJob
  <2>3. ~StartJob(j) /\ ~DeleteJob(j)
    BY <2>0 DEF StartJob, DeleteJob, Exists, JobSteps, RunSteps
  <2>4. step'[j] = NextStep(step[j]) /\ LatestSucceeded(runs[j], step[j])
    BY <2>0, <2>1, <2>2, <2>3 DEF ValidateJob, ContinueJob
  <2> QED BY <2>0, <2>4, LatestIsLast
<1> QED BY Invariance, <1>1, PTL DEF Spec, StepAdvancesOnSuccess

\* If no run is ever aborted before it starts, latest_run always finds the last
\* run, so a job whose transcription succeeded can be validated.  MCAbortPending
\* shows that the assumption is needed.
THEOREM CanBeValidated ==
    ASSUME "pending" \notin AbortStatuses
    PROVE  Spec => []SucceededCanBeValidated
<1> DEFINE Started(h) == \A i \in 1..Len(h) : h[i].status = "pending" \/ h[i].started
           AllStarted == \A j \in Jobs : Started(runs[j])
<1>1. Init => AllStarted
  BY DEF Init
<1>2. IInv /\ AllStarted /\ [Next]_lifecycleVars => AllStarted'
  <2> SUFFICES ASSUME IInv, AllStarted, [Next]_lifecycleVars, NEW j \in Jobs
               PROVE  Started(runs'[j])
    OBVIOUS
  <2>0. /\ runs \in [Jobs -> Seq(Run)] /\ runs[j] \in Seq(Run)
        /\ DOMAIN runs[j] = 1..Len(runs[j]) /\ Started(runs[j])
    BY DEF IInv, TypeOK
  <2>1. ASSUME NEW r \in Run, r.status = "pending" \/ r.started,
               runs' = [runs EXCEPT ![j] = Append(runs[j], r)]
        PROVE  Started(runs'[j])
    <3> DEFINE g == Append(runs[j], r)
    <3>1. runs'[j] = g
      BY <2>0, <2>1
    <3>2. /\ Len(g) = Len(runs[j]) + 1 /\ g[Len(runs[j]) + 1] = r
          /\ \A i \in 1..Len(runs[j]) : g[i] = runs[j][i]
      BY <2>0
    <3> HIDE DEF g
    <3>3. \A i \in 1..Len(g) : i = Len(runs[j]) + 1 \/ i \in 1..Len(runs[j])
      BY <2>0, <3>2
    <3> QED BY <2>0, <2>1, <3>1, <3>2, <3>3
  <2>2. ASSUME NEW m \in DOMAIN runs[j], NEW r, r.started,
               runs' = [runs EXCEPT ![j][m] = r]
        PROVE  Started(runs'[j])
    <3>1. /\ runs'[j] = [runs[j] EXCEPT ![m] = r] /\ Len(runs'[j]) = Len(runs[j])
          /\ \A i \in 1..Len(runs[j]) : runs'[j][i] = IF i = m THEN r ELSE runs[j][i]
      BY <2>0, <2>2
    <3> QED BY <2>0, <2>2, <3>1
  <2>3. CASE UNCHANGED lifecycleVars
    BY <2>0, <2>3 DEF lifecycleVars
  <2>4. ASSUME NEW k \in Jobs, k # j, NEW h, runs' = [runs EXCEPT ![k] = h]
        PROVE  Started(runs'[j])
    BY <2>0, <2>4
  <2>5. ASSUME NEW k \in Jobs, NEW r, r \in {PendingRun(runs[k], "extract"),
                   PendingRun(runs[k], NextStep("extract")), RunningRun(runs[k], NextStep(step[k]))},
               runs' = [runs EXCEPT ![k] = Append(runs[k], r)]
        PROVE  Started(runs'[j])
    <3>1. r.status = "pending" \/ r.started
      BY <2>5 DEF PendingRun, RunningRun
    <3>2. CASE k = j
      <4>1. runs'[j] = Append(runs[j], r)
        BY <2>0, <2>5, <3>2
      <4>2. r \in Run
        <5>1. IInv'
          BY NextIInv
        <5>2. Append(runs[j], r) \in Seq(Run)
          BY <4>1, <5>1 DEF IInv, TypeOK
        <5>3. /\ Len(runs[j]) + 1 \in 1..Len(Append(runs[j], r))
              /\ Append(runs[j], r)[Len(runs[j]) + 1] = r
          BY <2>0
        <5> QED BY <5>2, <5>3
      <4> QED BY <2>1, <2>5, <3>1, <3>2, <4>2
    <3> QED BY <2>4, <2>5, <3>2
  <2>6. ASSUME NEW k \in Jobs, NEW m \in DOMAIN runs[k], NEW r, r.started,
               runs' = [runs EXCEPT ![k][m] = r]
        PROVE  Started(runs'[j])
    <3>1. CASE k = j
      BY <2>2, <2>6, <3>1
    <3>2. CASE k # j
      <4>1. runs'[j] = runs[j]
        BY <2>0, <2>6, <3>2
      <4> QED BY <2>0, <4>1
    <3> QED BY <3>1, <3>2
  <2>7. ASSUME NEW k \in Jobs, StartJob(k) PROVE Started(runs'[j])
    BY <2>5, <2>7 DEF StartJob, AddRun
  <2>8. ASSUME NEW k \in Jobs, ValidateJob(k) PROVE Started(runs'[j])
    BY <2>5, <2>8 DEF ValidateJob, AddRun
  <2>9. ASSUME NEW k \in Jobs, RestartJob(k) PROVE Started(runs'[j])
    BY <2>5, <2>9 DEF RestartJob, AddRun
  <2>10. ASSUME NEW k \in Jobs, ContinueJob(k) PROVE Started(runs'[j])
    BY <2>0, <2>5, <2>10 DEF ContinueJob, AddRun
  <2>11. ASSUME NEW k \in Jobs, ClaimPendingRun(k) PROVE Started(runs'[j])
    <3>1. PICK m \in DOMAIN runs[k] :
             runs' = [runs EXCEPT ![k][m] = [runs[k][m] EXCEPT !.status = "running", !.started = TRUE]]
      BY <2>11 DEF ClaimPendingRun
    <3>2. runs[k][m] \in Run
      BY <2>0
    <3> QED BY <2>6, <3>1, <3>2 DEF Run
  <2>12. ASSUME NEW k \in Jobs, NEW m \in DOMAIN runs[k], NEW outcome, runs[k][m].started,
                runs' = [runs EXCEPT ![k][m] = [runs[k][m] EXCEPT !.status = outcome]]
         PROVE  Started(runs'[j])
    <3>1. runs[k][m] \in Run
      BY <2>0
    <3> QED BY <2>6, <2>12, <3>1 DEF Run
  <2>13. ASSUME NEW k \in Jobs, NEW m \in DOMAIN runs[k], runs[k][m].status = "running"
         PROVE  runs[k][m].started
    BY <2>0, <2>13
  <2>14. ASSUME NEW k \in Jobs, NEW m \in DOMAIN runs[k], NEW outcome, FinishRun(k, m, outcome)
         PROVE  Started(runs'[j])
    BY <2>12, <2>13, <2>14 DEF FinishRun
  <2>15. ASSUME NEW k \in Jobs, AbortRun(k) PROVE Started(runs'[j])
    BY <2>12, <2>13, <2>15, AbortStatusesAssumption DEF AbortRun
  <2>16. ASSUME NEW k \in Jobs, DeleteJob(k) PROVE Started(runs'[j])
    <3>1. runs' = [runs EXCEPT ![k] = <<>>]
      BY <2>16 DEF DeleteJob
    <3> QED BY <2>0, <2>4, <3>1
  <2> QED BY <2>3, <2>7, <2>8, <2>9, <2>10, <2>11, <2>14, <2>15, <2>16 DEF Next
<1>3. IInv /\ AllStarted => SucceededCanBeValidated
  <2> SUFFICES ASSUME IInv, AllStarted, NEW j \in Jobs, step[j] = "extract",
                      runs[j][Len(runs[j])].status = "succeeded"
               PROVE  LatestSucceeded(runs[j], "extract")
    BY DEF SucceededCanBeValidated
  <2>1. runs[j] \in Seq(Run) /\ History("extract", runs[j])
    BY DEF IInv, TypeOK, HistoryExplainsStep
  <2>2. Len(runs[j]) >= 1 /\ runs[j][Len(runs[j])].step = "extract"
    BY <2>1 DEF History, Layout, Extracts, PhaseTwoRuns, JobSteps, RunSteps
  <2>3. Unstarted(runs[j]) = {}
    <3>1. \A i \in 1..Len(runs[j]) : runs[j][i].status # "pending"
      BY <2>1 DEF History, Terminal
    <3> QED BY <3>1 DEF Unstarted
  <2>4. Latest(runs[j]) = runs[j][Len(runs[j])]
    BY <2>3 DEF Latest, LatestIndex
  <2>5. runs[j][Len(runs[j])].started
    BY <2>1, <2>2 DEF History, WellFormed
  <2> QED BY <2>1, <2>2, <2>4, <2>5 DEF LatestSucceeded, Readable
<1> QED BY Invariance, <1>1, <1>2, <1>3, PTL DEF Spec
=============================================================================
