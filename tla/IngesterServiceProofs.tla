------------------------ MODULE IngesterServiceProofs ------------------------
(***************************************************************************)
(* Proofs about IngesterService, for any number of jobs, service instances *)
(* and faults of every kind.  The inductive invariant ties what a worker   *)
(* has in its hands to the rows: the run it drives, while the job exists,  *)
(* is one it alone may end.                                                *)
(***************************************************************************)
EXTENDS IngesterService, JobRowsProofs, FiniteSetTheorems

-----------------------------------------------------------------------------
(* The inductive invariant. *)

Busy(w) == pc[w] \in {"load", "run", "continue"}

\* How a worker stands to the run it drives, while the job exists.
Owns(w) ==
    LET j == cur[w].job
        i == cur[w].run
    IN  /\ i \in 1..Len(runs[j])
        /\ pc[w] \in {"load", "run"} => runs[j][i].status \in {"running", "aborted"}
        /\ pc[w] = "run" /\ runs[j][i].status = "running" => cur[w].step = runs[j][i].step
        /\ pc[w] = "continue" =>
              /\ i = Len(runs[j])
              /\ runs[j][i].status = "succeeded"
              /\ runs[j][i].step = step[j] /\ step[j] \in {"chunk", "embed"}

Engaged(w) ==
    /\ pc[w] = "claim" => cur[w].job \in Jobs /\ cur[w].step = "unknown"
    /\ Busy(w) => /\ cur[w].job \in Jobs /\ step[cur[w].job] # "absent"
                  /\ JL!Exists(cur[w].job) => Owns(w)

OneDriver ==
    \A v, w \in Workers :
        Busy(v) /\ Busy(w) /\ cur[v].job = cur[w].job /\ cur[v].run = cur[w].run => v = w

IInv == TypeOK /\ JL!HistoryExplainsStep /\ (\A w \in Workers : Engaged(w)) /\ OneDriver

LEMMA IInvRows == IInv => Rows
BY DEF IInv, TypeOK, Rows

\* A worker that does not move stays engaged: when no row of its job changes, ...
LEMMA KeepSame ==
    ASSUME IInv, NEW v \in Workers, pc'[v] = pc[v], cur'[v] = cur[v],
           Busy(v) => LET j == cur[v].job
                      IN  \/ step'[j] = step[j] /\ runs'[j] = runs[j]
                          \/ step'[j] = "deleted"
                          \/ step'[j] = "completed" /\ runs'[j] = runs[j] /\ pc[v] # "continue"
                             /\ step[j] = "embed"
    PROVE  Engaged(v)'
BY DEF IInv, Engaged, Busy, Owns, JL!Exists, JL!JobSteps, JL!RunSteps

\* ... when one run changes that is not the worker's, or is aborted, ...
LEMMA KeepUpdated ==
    ASSUME IInv, NEW v \in Workers, pc'[v] = pc[v], cur'[v] = cur[v],
           NEW j \in Jobs, NEW i, NEW s, Updated(j, i, s),
           Busy(v) /\ cur[v].job = j /\ cur[v].run = i =>
               s = "aborted" /\ runs[j][i].status \in JL!Active
    PROVE  Engaged(v)'
<1>1. CASE Busy(v) /\ cur[v].job = j /\ JL!Exists(j)
  <2>1. Owns(v) /\ Len(runs[j]) \in Nat
    BY <1>1, JobRow, IInvRows DEF IInv, Engaged
  <2>2. Owns(v)'
    BY <1>1, <2>1 DEF Updated, Owns, Busy, JL!Active
  <2> QED BY <1>1, <2>2 DEF Updated, Engaged, Busy, JL!Exists, IInv
<1>2. CASE Busy(v) /\ cur[v].job = j /\ ~JL!Exists(j)
  BY <1>2 DEF Updated, Engaged, Busy, JL!Exists, IInv
<1>3. CASE ~(Busy(v) /\ cur[v].job = j)
  <2>1. Busy(v) => step'[cur[v].job] = step[cur[v].job] /\ runs'[cur[v].job] = runs[cur[v].job]
    BY <1>3 DEF Updated, IInv, Engaged
  <2> QED BY <2>1, KeepSame
<1> QED BY <1>1, <1>2, <1>3

\* ... and when its job gets another run.
LEMMA KeepExtended ==
    ASSUME IInv, NEW v \in Workers, pc'[v] = pc[v], cur'[v] = cur[v],
           NEW j \in Jobs, NEW s, Extended(j, s),
           Busy(v) /\ cur[v].job = j => pc[v] # "continue"
    PROVE  Engaged(v)'
<1>1. CASE Busy(v) /\ cur[v].job = j
  <2>1. JL!Exists(j) /\ Owns(v) /\ Len(runs[j]) \in Nat
    BY <1>1, JobRow, IInvRows DEF IInv, Engaged, Extended, JL!Exists
  <2>2. Owns(v)'
    BY <1>1, <2>1 DEF Extended, Owns, Busy
  <2> QED BY <1>1, <2>2 DEF Extended, Engaged, Busy, JL!RunSteps
<1>2. CASE ~(Busy(v) /\ cur[v].job = j)
  <2>1. Busy(v) => step'[cur[v].job] = step[cur[v].job] /\ runs'[cur[v].job] = runs[cur[v].job]
    BY <1>2 DEF Extended, IInv, Engaged
  <2> QED BY <2>1, KeepSame
<1> QED BY <1>1, <1>2

\* A step of the rows keeps them sane.
LEMMA RowsKept ==
    ASSUME IInv, [JL!Next]_<<step, runs>>
    PROVE  Rows'
BY IInvRows, LifecycleStep DEF Rows

LEMMA Together ==
    ASSUME IInv, [JL!Next]_<<step, runs>>, TypeOK',
           NEW w \in Workers, Engaged(w)',
           \A v \in Workers \ {w} : Engaged(v)' /\ pc'[v] = pc[v] /\ cur'[v] = cur[v],
           Busy(w)' => \/ Busy(w) /\ cur'[w].job = cur[w].job /\ cur'[w].run = cur[w].run
                       \/ \A v \in Workers \ {w} : Busy(v) =>
                              cur[v].job # cur'[w].job \/ cur[v].run # cur'[w].run
    PROVE  IInv'
<1>1. JL!HistoryExplainsStep'
  BY RowsKept DEF Rows
<1>2. OneDriver'
  BY DEF IInv, OneDriver, Busy
<1> QED BY <1>1, <1>2 DEF IInv

\* What a worker that is not engaged any more leaves behind is in order.
LEMMA Disengaged ==
    ASSUME IInv, [JL!Next]_<<step, runs>>, TypeOK', NEW w \in Workers,
           pc'[w] \notin {"claim", "load", "run", "continue"},
           \A v \in Workers \ {w} : Engaged(v)' /\ pc'[v] = pc[v] /\ cur'[v] = cur[v]
    PROVE  IInv'
BY Together DEF Engaged, Busy

-----------------------------------------------------------------------------
(* The CLI and the API. *)

LEMMA EnqueueStep ==
    ASSUME IInv, NEW j \in Jobs, Enqueue(j)
    PROVE  IInv'
<1>1. /\ JL!Next /\ Notify(j)
      /\ UNCHANGED <<pc, cur, todo, handler, signal, faults>>
  BY DEF Enqueue, JL!Next
<1>2. Rows'
  BY <1>1, RowsKept
<1>3. TypeOK'
  BY <1>1, <1>2 DEF IInv, TypeOK, Rows, Notify
<1>4. Extended(j, "pending") /\ step[j] \in {"absent", "extract"}
  BY IInvRows, EnqueueExtends DEF Enqueue
<1>5. ASSUME NEW v \in Workers PROVE Engaged(v)'
  <2>1. Busy(v) /\ cur[v].job = j => pc[v] # "continue"
    BY <1>4 DEF IInv, Engaged, Owns, JL!Exists, JL!JobSteps, JL!RunSteps
  <2> QED BY <1>1, <1>4, <2>1, KeepExtended
<1> QED BY <1>1, <1>2, <1>3, <1>5 DEF IInv, Rows, OneDriver, Busy

LEMMA DeleteStep ==
    ASSUME IInv, NEW j \in Jobs, DeleteJob(j)
    PROVE  IInv'
<1>1. JL!Next /\ UNCHANGED <<workerVars, faults>>
  BY DEF DeleteJob, JL!Next
<1>2. Rows'
  BY <1>1, RowsKept
<1>3. TypeOK'
  BY <1>1, <1>2 DEF IInv, TypeOK, Rows, workerVars
<1>4. \A k \in Jobs : step'[k] = "deleted" \/ (step'[k] = step[k] /\ runs'[k] = runs[k])
  BY DEF DeleteJob, JL!DeleteJob, IInv, TypeOK, JL!TypeOK
<1>5. ASSUME NEW v \in Workers PROVE Engaged(v)'
  <2>1. Busy(v) => cur[v].job \in Jobs
    BY DEF IInv, Engaged
  <2> QED BY <1>1, <1>4, <2>1, KeepSame DEF workerVars
<1> QED BY <1>1, <1>2, <1>3, <1>5 DEF IInv, Rows, OneDriver, Busy, workerVars

LEMMA AbortStep ==
    ASSUME IInv, NEW j \in Jobs, AbortRun(j)
    PROVE  IInv'
<1>1. JL!Next /\ UNCHANGED <<workerVars, faults>>
  BY DEF AbortRun, JL!Next
<1>2. Rows'
  BY <1>1, RowsKept
<1>3. TypeOK'
  BY <1>1, <1>2 DEF IInv, TypeOK, Rows, workerVars
<1>4. Updated(j, Len(runs[j]), "aborted") /\ runs[j][Len(runs[j])].status \in JL!Active
  BY IInvRows, AbortUpdates DEF AbortRun
<1>5. ASSUME NEW v \in Workers PROVE Engaged(v)'
  BY <1>1, <1>4, KeepUpdated DEF workerVars
<1> QED BY <1>1, <1>2, <1>3, <1>5 DEF IInv, Rows, OneDriver, Busy, workerVars

-----------------------------------------------------------------------------
(* The steps of a worker that leave the rows alone. *)

\* Nobody else notices.
LEMMA OthersKept ==
    ASSUME IInv, NEW w \in Workers, UNCHANGED <<step, runs>>,
           \A v \in Workers \ {w} : pc'[v] = pc[v] /\ cur'[v] = cur[v]
    PROVE  \A v \in Workers \ {w} : Engaged(v)' /\ pc'[v] = pc[v] /\ cur'[v] = cur[v]
BY KeepSame

LEMMA StartStep ==
    ASSUME IInv, NEW w \in Workers, Start(w) \/ Sweep(w) \/ SweepDone(w)
    PROVE  IInv'
<1>1. UNCHANGED <<step, runs, cur>>
  BY DEF Start, Sweep, SweepDone
<1>2. TypeOK'
  <2>1. {j \in Jobs : Pending(j)} \in SUBSET Jobs
    OBVIOUS
  <2>2. CASE Start(w)
    BY <2>2 DEF IInv, TypeOK, JL!TypeOK, Start, Goto, Phases
  <2>3. CASE Sweep(w)
    BY <2>1, <2>3 DEF IInv, TypeOK, JL!TypeOK, Sweep, Goto, Phases
  <2>4. CASE SweepDone(w)
    BY <2>4 DEF IInv, TypeOK, JL!TypeOK, SweepDone, Goto, Phases
  <2> QED BY <2>2, <2>3, <2>4
<1>3. /\ pc'[w] \in {"up", "sweep", "select"}
      /\ \A v \in Workers \ {w} : pc'[v] = pc[v] /\ cur'[v] = cur[v]
  BY <1>1 DEF IInv, TypeOK, Start, Sweep, SweepDone, Goto
<1> QED BY <1>1, <1>2, <1>3, OthersKept, Disengaged

LEMMA SweepJobStep ==
    ASSUME IInv, NEW w \in Workers, SweepJob(w)
    PROVE  IInv'
<1>1. PICK j \in todo[w] :
        /\ todo' = [todo EXCEPT ![w] = @ \ {j}]
        /\ cur' = [cur EXCEPT ![w] = [job |-> j, run |-> 0, step |-> "unknown"]]
  BY DEF SweepJob
<1>2. /\ j \in Jobs /\ pc' = [pc EXCEPT ![w] = "claim"]
      /\ UNCHANGED <<step, runs, queue, handler, signal, faults>>
  BY DEF SweepJob, Goto, IInv, TypeOK
<1>3. TypeOK'
  <2>1. cur' \in [Workers -> Work]
    BY <1>1, <1>2 DEF IInv, TypeOK, Work
  <2> QED BY <1>1, <1>2, <2>1 DEF IInv, TypeOK, JL!TypeOK, Phases
<1>4. /\ pc'[w] = "claim" /\ cur'[w].job \in Jobs /\ cur'[w].step = "unknown"
      /\ \A v \in Workers \ {w} : pc'[v] = pc[v] /\ cur'[v] = cur[v]
  BY <1>1, <1>2 DEF IInv, TypeOK
<1>5. Engaged(w)' /\ ~Busy(w)'
  BY <1>4 DEF Engaged, Busy
<1> QED BY <1>2, <1>3, <1>4, <1>5, OthersKept, Together

LEMMA ReceiveStep ==
    ASSUME IInv, NEW w \in Workers, Receive(w)
    PROVE  IInv'
<1>1. /\ queue[w] # <<>> /\ pc' = [pc EXCEPT ![w] = "claim"]
      /\ cur' = [cur EXCEPT ![w] = [job |-> Head(queue[w]), run |-> 0, step |-> "unknown"]]
      /\ queue' = [queue EXCEPT ![w] = Tail(queue[w])]
      /\ signal' = [signal EXCEPT ![w] = Forget(signal[w])]
      /\ UNCHANGED <<step, runs, todo, handler, faults>>
  BY DEF Receive, Goto
<1>2. queue[w] \in Seq(Jobs) /\ Head(queue[w]) \in Jobs /\ Tail(queue[w]) \in Seq(Jobs)
  BY <1>1 DEF IInv, TypeOK
<1>3. TypeOK'
  <2>1. cur' \in [Workers -> Work]
    BY <1>1, <1>2 DEF IInv, TypeOK, Work
  <2>2. Forget(signal[w]) \in {"none", "seen", "lost"}
    BY DEF Forget, IInv, TypeOK
  <2> QED BY <1>1, <1>2, <2>1, <2>2 DEF IInv, TypeOK, JL!TypeOK, Phases
<1>4. /\ pc'[w] = "claim" /\ cur'[w].job \in Jobs /\ cur'[w].step = "unknown"
      /\ \A v \in Workers \ {w} : pc'[v] = pc[v] /\ cur'[v] = cur[v]
  BY <1>1, <1>2 DEF IInv, TypeOK
<1>5. Engaged(w)' /\ ~Busy(w)'
  BY <1>4 DEF Engaged, Busy
<1> QED BY <1>1, <1>3, <1>4, <1>5, OthersKept, Together

\* A process that ends: Exit, Crash and a signal before the loop.
LEMMA DownStep ==
    ASSUME IInv, NEW w \in Workers, Down(w), faults' \in Seq(FaultKinds)
    PROVE  IInv'
<1>1. TypeOK'
  BY DEF IInv, TypeOK, JL!TypeOK, Down, Goto, Phases, Work
<1>2. /\ pc'[w] = "down" /\ UNCHANGED <<step, runs>>
      /\ \A v \in Workers \ {w} : pc'[v] = pc[v] /\ cur'[v] = cur[v]
  BY DEF IInv, TypeOK, Down, Goto
<1> QED BY <1>1, <1>2, OthersKept, Disengaged

LEMMA FaultType ==
    ASSUME IInv, NEW kind, Fault(kind)
    PROVE  /\ faults' \in Seq(FaultKinds)
           /\ Len(faults) \in Nat /\ Len(faults') = Len(faults) + 1
           /\ \A n \in 1..Len(faults) : faults'[n] = faults[n]
           /\ faults'[Len(faults) + 1] = kind
BY DEF Fault, IInv, TypeOK

LEMMA QuietFaultStep ==
    ASSUME IInv, NEW w \in Workers, Reconnect(w) \/ (Terminate(w) /\ handler[w])
    PROVE  IInv'
<1>1. UNCHANGED <<step, runs, pc, cur, todo, handler>>
  BY DEF Reconnect, Terminate
<1>2. faults' \in Seq(FaultKinds)
  BY FaultType DEF Reconnect, Terminate
<1>3. TypeOK'
  <2>1. CASE Reconnect(w)
    BY <1>1, <1>2, <2>1 DEF IInv, TypeOK, JL!TypeOK, Reconnect
  <2>2. CASE Terminate(w) /\ handler[w]
    BY <1>1, <1>2, <2>2 DEF IInv, TypeOK, JL!TypeOK, Terminate
  <2> QED BY <2>1, <2>2
<1>4. \A v \in Workers : Engaged(v)'
  BY <1>1, KeepSame
<1> QED BY <1>1, <1>3, <1>4 DEF IInv, JL!HistoryExplainsStep, OneDriver, Busy

\* Return puts a worker back into its sweep or its loop.
LEMMA ReturnStep ==
    ASSUME IInv, NEW w \in Workers, Return(w), [JL!Next]_<<step, runs>>,
           UNCHANGED <<todo, queue, handler, signal>>, faults' \in Seq(FaultKinds),
           \A v \in Workers \ {w} : pc'[v] = pc[v] /\ cur'[v] = cur[v] => Engaged(v)'
    PROVE  IInv'
<1>1. Rows'
  BY RowsKept
<1>2. TypeOK'
  BY <1>1 DEF IInv, TypeOK, Rows, Return, Goto, Phases, Work
<1>3. /\ pc'[w] \in {"sweep", "select"}
      /\ \A v \in Workers \ {w} : pc'[v] = pc[v] /\ cur'[v] = cur[v]
  BY DEF IInv, TypeOK, Return, Goto
<1> QED BY <1>2, <1>3, Disengaged

LEMMA LoadStep ==
    ASSUME IInv, NEW w \in Workers, Load(w)
    PROVE  IInv'
<1> DEFINE j == cur[w].job
           i == cur[w].run
<1>0. /\ pc[w] = "load" /\ UNCHANGED <<step, runs, todo, queue, handler, signal, faults>>
      /\ Busy(w) /\ j \in Jobs
  BY DEF Load, Busy, IInv, Engaged
<1>1. CASE JL!Exists(j)
  <2>1. pc' = [pc EXCEPT ![w] = "run"] /\ cur' = [cur EXCEPT ![w].step = step[j]]
    BY <1>1 DEF Load, Goto
  <2>2. cur[w] \in [job : Jobs, run : Nat, step : JL!JobSteps \cup {"unknown"}]
    <3>1. cur[w] \in Work
      BY DEF IInv, TypeOK
    <3>2. CASE cur[w] = NoWork
      BY <1>0, <1>1, <3>2, JobRow, IInvRows DEF NoWork, IInv, Engaged, Owns
    <3> QED BY <3>1, <3>2 DEF Work
  <2>3. step[j] \in JL!JobSteps
    BY <1>1 DEF JL!Exists
  <2>4. TypeOK'
    <3>1. cur' \in [Workers -> Work]
      BY <2>1, <2>2, <2>3 DEF IInv, TypeOK, Work
    <3> QED BY <1>0, <2>1, <3>1 DEF IInv, TypeOK, JL!TypeOK, Phases
  <2>5. /\ pc'[w] = "run" /\ cur'[w].job = j /\ cur'[w].run = i /\ cur'[w].step = step[j]
        /\ \A v \in Workers \ {w} : pc'[v] = pc[v] /\ cur'[v] = cur[v]
    BY <2>1, <2>2 DEF IInv, TypeOK
  <2>6. Owns(w)
    BY <1>0, <1>1 DEF IInv, Engaged
  <2>7. runs[j][i].status = "running" => runs[j][i].step = step[j]
    BY <1>0, <2>6, ActiveIsLast, IInvRows DEF Owns, JL!Active
  <2>8. Owns(w)'
    BY <1>0, <2>5, <2>6, <2>7 DEF Owns
  <2>9. Engaged(w)'
    BY <1>0, <1>1, <2>5, <2>8 DEF Engaged, IInv
  <2> QED BY <1>0, <2>4, <2>5, <2>9, OthersKept, Together
<1>2. CASE ~JL!Exists(j)
  <2>1. Return(w) /\ faults' \in Seq(FaultKinds)
    BY <1>0, <1>2 DEF Load, IInv, TypeOK
  <2>2. ASSUME NEW v \in Workers \ {w}, pc'[v] = pc[v], cur'[v] = cur[v]
        PROVE  Engaged(v)'
    BY <1>0, <2>2, KeepSame
  <2> QED BY <1>0, <2>1, <2>2, ReturnStep
<1> QED BY <1>1, <1>2

-----------------------------------------------------------------------------
(* The statements a worker executes.  First what they mean to the others. *)

LEMMA ClaimSpares ==
    ASSUME IInv, NEW w \in Workers, NEW j \in Jobs, JL!ClaimPendingRun(j)
    PROVE  /\ JL!Next
           /\ step[j] \in JL!RunSteps
           /\ \A v \in Workers : Busy(v) => cur[v].job # j \/ cur[v].run # Len(runs[j])
           /\ \A v \in Workers : pc'[v] = pc[v] /\ cur'[v] = cur[v] => Engaged(v)'
<1>1. Updated(j, Len(runs[j]), "running") /\ runs[j][Len(runs[j])].status = "pending"
  BY IInvRows, ClaimUpdates
<1>2. step[j] \in JL!RunSteps
  BY <1>1, IInvRows, ActiveIsLast DEF Updated, JL!Active
<1>3. ASSUME NEW v \in Workers, Busy(v), cur[v].job = j PROVE cur[v].run # Len(runs[j])
  <2>1. Owns(v)
    BY <1>2, <1>3 DEF IInv, Engaged, JL!Exists, JL!JobSteps
  <2> QED BY <1>1, <1>3, <2>1 DEF Owns, Busy
<1>4. ASSUME NEW v \in Workers, pc'[v] = pc[v], cur'[v] = cur[v] PROVE Engaged(v)'
  BY <1>1, <1>3, <1>4, KeepUpdated
<1> QED BY <1>2, <1>3, <1>4 DEF JL!Next

LEMMA FinishSpares ==
    ASSUME IInv, NEW w \in Workers, pc[w] = "run", NEW outcome \in {"succeeded", "failed"},
           JL!FinishRun(cur[w].job, cur[w].run, outcome)
    PROVE  /\ JL!Next
           /\ \A v \in Workers \ {w} : pc'[v] = pc[v] /\ cur'[v] = cur[v] => Engaged(v)'
<1>1. cur[w].job \in Jobs /\ Busy(w)
  BY DEF IInv, Engaged, Busy
<1>2. Updated(cur[w].job, cur[w].run, outcome)
  BY <1>1, IInvRows, FinishUpdates
<1>3. ASSUME NEW v \in Workers \ {w}, pc'[v] = pc[v], cur'[v] = cur[v] PROVE Engaged(v)'
  <2>1. ~(Busy(v) /\ cur[v].job = cur[w].job /\ cur[v].run = cur[w].run)
    BY <1>1 DEF IInv, OneDriver
  <2> QED BY <1>1, <1>2, <1>3, <2>1, KeepUpdated
<1>4. JL!Next
  BY <1>1 DEF JL!Next, JL!FinishRun
<1> QED BY <1>3, <1>4

LEMMA ContinueSpares ==
    ASSUME IInv, NEW w \in Workers, pc[w] = "continue", JL!ContinueJob(cur[w].job)
    PROVE  /\ JL!Next /\ Owns(w)
           /\ \A v \in Workers \ {w} : pc'[v] = pc[v] /\ cur'[v] = cur[v] => Engaged(v)'
<1> DEFINE j == cur[w].job
<1>1. j \in Jobs /\ Busy(w)
  BY DEF IInv, Engaged, Busy
<1>2. step[j] \in {"chunk", "embed"}
  BY DEF JL!ContinueJob
<1>3. Owns(w)
  BY <1>1, <1>2 DEF IInv, Engaged, JL!Exists, JL!JobSteps, JL!RunSteps
<1>4. ASSUME NEW v \in Workers \ {w}, Busy(v), cur[v].job = j PROVE pc[v] # "continue"
  <2>1. Owns(v)
    BY <1>2, <1>4 DEF IInv, Engaged, JL!Exists, JL!JobSteps, JL!RunSteps
  <2>2. pc[v] = "continue" => cur[v].run = cur[w].run
    BY <1>3, <1>4, <2>1 DEF Owns
  <2> QED BY <1>1, <1>4, <2>2 DEF IInv, OneDriver
<1>5. ASSUME NEW v \in Workers \ {w}, pc'[v] = pc[v], cur'[v] = cur[v] PROVE Engaged(v)'
  <2>1. CASE Extended(j, "running")
    BY <1>1, <1>4, <1>5, <2>1, KeepExtended
  <2>2. CASE step[j] = "embed" /\ runs' = runs /\ step' = [step EXCEPT ![j] = "completed"]
    <3>1. Busy(v) /\ cur[v].job = j => step'[j] = "completed" /\ pc[v] # "continue"
      BY <1>1, <1>4, <2>2 DEF IInv, TypeOK, JL!TypeOK
    <3>2. Busy(v) /\ cur[v].job # j => step'[cur[v].job] = step[cur[v].job]
      BY <2>2 DEF IInv, TypeOK, JL!TypeOK, Engaged
    <3> QED BY <1>5, <2>2, <3>1, <3>2, KeepSame
  <2> QED BY <1>1, <2>1, <2>2, ContinueMoves, IInvRows
<1>6. JL!Next
  BY <1>1 DEF JL!Next
<1> QED BY <1>3, <1>5, <1>6

\* A worker with work in hand may take note of the run it drives.
LEMMA NotesRun ==
    ASSUME IInv, NEW w \in Workers, cur[w] # NoWork, NEW n \in Nat,
           cur' = [cur EXCEPT ![w].run = n]
    PROVE  /\ cur' \in [Workers -> Work]
           /\ cur'[w].job = cur[w].job /\ cur'[w].run = n
           /\ \A v \in Workers \ {w} : cur'[v] = cur[v]
<1>1. cur \in [Workers -> Work] /\ cur[w] \in [job : Jobs, run : Nat, step : JL!JobSteps \cup {"unknown"}]
  BY DEF IInv, TypeOK, Work
<1> QED BY <1>1 DEF Work

LEMMA ClaimStep ==
    ASSUME IInv, NEW w \in Workers, Claim(w)
    PROVE  IInv'
<1> DEFINE j == cur[w].job
<1>0. /\ pc[w] = "claim" /\ UNCHANGED <<todo, queue, handler, signal, faults>>
      /\ j \in Jobs /\ cur[w] # NoWork
  BY DEF Claim, IInv, Engaged, NoWork
<1>1. CASE Pending(j)
  <2>1. /\ JL!ClaimPendingRun(j)
        /\ cur' = [cur EXCEPT ![w].run = Len(runs[j])]
        /\ pc' = [pc EXCEPT ![w] = "load"]
    BY <1>1 DEF Claim, Goto
  <2>2. Updated(j, Len(runs[j]), "running") /\ Len(runs[j]) \in Nat
    BY <1>0, <2>1, IInvRows, ClaimUpdates, JobRow
  <2>3. /\ cur' \in [Workers -> Work]
        /\ cur'[w].job = j /\ cur'[w].run = Len(runs[j])
        /\ \A v \in Workers \ {w} : cur'[v] = cur[v]
    BY <1>0, <2>1, <2>2, NotesRun
  <2>4. pc'[w] = "load" /\ \A v \in Workers \ {w} : pc'[v] = pc[v]
    BY <2>1 DEF IInv, TypeOK
  <2>5. JL!Next /\ Rows'
    BY <1>0, <2>1, ClaimSpares, RowsKept
  <2>6. TypeOK'
    BY <1>0, <2>1, <2>3, <2>5 DEF IInv, TypeOK, Rows, Phases
  <2>7. Owns(w)' /\ step'[j] \in JL!RunSteps
    BY <1>0, <2>1, <2>2, <2>3, <2>4, ClaimSpares DEF Owns, Updated
  <2>8. Engaged(w)'
    BY <1>0, <2>3, <2>4, <2>7 DEF Engaged, JL!RunSteps
  <2>9. \A v \in Workers \ {w} : Engaged(v)' /\ pc'[v] = pc[v] /\ cur'[v] = cur[v]
    BY <1>0, <2>1, <2>3, <2>4, ClaimSpares
  <2>10. \A v \in Workers \ {w} : Busy(v) => cur[v].job # cur'[w].job \/ cur[v].run # cur'[w].run
    BY <1>0, <2>1, <2>3, ClaimSpares
  <2> QED BY <2>5, <2>6, <2>8, <2>9, <2>10, Together
<1>2. CASE ~Pending(j)
  <2>1. Return(w) /\ UNCHANGED <<step, runs>> /\ faults' \in Seq(FaultKinds)
    BY <1>0, <1>2 DEF Claim, IInv, TypeOK
  <2>2. ASSUME NEW v \in Workers \ {w}, pc'[v] = pc[v], cur'[v] = cur[v]
        PROVE  Engaged(v)'
    BY <2>1, <2>2, KeepSame
  <2> QED BY <1>0, <2>1, <2>2, ReturnStep
<1> QED BY <1>1, <1>2

LEMMA RunAndFinishStep ==
    ASSUME IInv, NEW w \in Workers, RunAndFinish(w)
    PROVE  IInv'
<1> DEFINE j == cur[w].job
           i == cur[w].run
<1>0. /\ pc[w] = "run" /\ UNCHANGED <<todo, queue, handler, signal, faults>>
      /\ j \in Jobs /\ Busy(w) /\ faults' \in Seq(FaultKinds)
  BY DEF RunAndFinish, IInv, TypeOK, Engaged, Busy
<1>1. CASE StillRunning(w)
  <2>1. PICK outcome \in {"succeeded", "failed"} :
          /\ JL!FinishRun(j, i, outcome)
          /\ IF outcome = "succeeded" /\ runs[j][i].step # "extract"
             THEN Goto(w, "continue") /\ UNCHANGED cur
             ELSE Return(w)
    BY <1>1 DEF RunAndFinish
  <2>2. /\ JL!Next
        /\ \A v \in Workers \ {w} : pc'[v] = pc[v] /\ cur'[v] = cur[v] => Engaged(v)'
    BY <1>0, <2>1, FinishSpares
  <2>3. CASE outcome = "succeeded" /\ runs[j][i].step # "extract"
    <3>1. pc' = [pc EXCEPT ![w] = "continue"] /\ cur' = cur
      BY <2>1, <2>3 DEF Goto
    <3>2. pc'[w] = "continue" /\ \A v \in Workers \ {w} : pc'[v] = pc[v]
      BY <3>1 DEF IInv, TypeOK
    <3>3. Rows'
      BY <2>2, RowsKept
    <3>4. TypeOK'
      BY <1>0, <3>1, <3>3 DEF IInv, TypeOK, Rows, Phases
    <3>5. /\ Updated(j, i, "succeeded") /\ i \in 1..Len(runs[j])
          /\ runs[j][i].status = "running"
      BY <1>0, <2>1, <2>3, IInvRows, FinishUpdates
    <3>6. runs[j][i].step = step[j] /\ step[j] \in {"chunk", "embed"}
      BY <1>0, <2>3, <3>5, IInvRows, ActiveIsLast DEF JL!Active, JL!RunSteps
    <3>7. Owns(w)'
      BY <1>0, <3>1, <3>2, <3>5, <3>6 DEF Owns, Updated
    <3>8. Engaged(w)'
      BY <1>0, <3>1, <3>2, <3>5, <3>6, <3>7 DEF Engaged, Updated
    <3> QED BY <1>0, <2>2, <3>1, <3>2, <3>4, <3>8, Together
  <2>4. CASE ~(outcome = "succeeded" /\ runs[j][i].step # "extract")
    <3>1. Return(w)
      BY <2>1, <2>4
    <3> QED BY <1>0, <2>2, <3>1, ReturnStep
  <2> QED BY <2>3, <2>4
<1>2. CASE ~StillRunning(w)
  <2>1. Return(w) /\ UNCHANGED <<step, runs>>
    BY <1>2 DEF RunAndFinish
  <2>2. ASSUME NEW v \in Workers \ {w}, pc'[v] = pc[v], cur'[v] = cur[v]
        PROVE  Engaged(v)'
    BY <2>1, <2>2, KeepSame
  <2> QED BY <1>0, <2>1, <2>2, ReturnStep
<1> QED BY <1>1, <1>2

LEMMA ContinueStep ==
    ASSUME IInv, NEW w \in Workers, Continue(w)
    PROVE  IInv'
<1> DEFINE j == cur[w].job
<1>0. /\ pc[w] = "continue" /\ UNCHANGED <<todo, queue, handler, signal, faults>>
      /\ j \in Jobs /\ Busy(w) /\ faults' \in Seq(FaultKinds)
  BY DEF Continue, IInv, TypeOK, Engaged, Busy
<1>1. CASE /\ JL!ContinueJob(j)
           /\ IF runs' = runs
              THEN Return(w)
              ELSE cur' = [cur EXCEPT ![w].run = Len(runs'[j])] /\ Goto(w, "load")
  <2>1. /\ JL!Next /\ Owns(w)
        /\ \A v \in Workers \ {w} : pc'[v] = pc[v] /\ cur'[v] = cur[v] => Engaged(v)'
    BY <1>0, <1>1, ContinueSpares
  <2>2. CASE runs' = runs
    <3>1. Return(w)
      BY <1>1, <2>2
    <3> QED BY <1>0, <2>1, <3>1, ReturnStep
  <2>3. CASE runs' # runs
    <3>1. Extended(j, "running") /\ Len(runs[j]) \in Nat
      BY <1>0, <1>1, <2>3, ContinueMoves, IInvRows, JobRow
    <3>2. /\ cur' = [cur EXCEPT ![w].run = Len(runs[j]) + 1]
          /\ pc' = [pc EXCEPT ![w] = "load"]
      BY <1>1, <2>3, <3>1 DEF Goto, Extended
    <3>3. cur[w] # NoWork
      BY <2>1, <3>1 DEF Owns, NoWork
    <3>4. /\ cur' \in [Workers -> Work]
          /\ cur'[w].job = j /\ cur'[w].run = Len(runs[j]) + 1
          /\ \A v \in Workers \ {w} : cur'[v] = cur[v]
      <4>1. Len(runs[j]) + 1 \in Nat
        BY <3>1
      <4> HIDE DEF j
      <4>2. /\ cur' \in [Workers -> Work]
            /\ cur'[w].job = cur[w].job /\ cur'[w].run = Len(runs[j]) + 1
            /\ \A v \in Workers \ {w} : cur'[v] = cur[v]
        BY <3>2, <3>3, <4>1, NotesRun
      <4> QED BY <4>2 DEF j
    <3>5. pc'[w] = "load" /\ \A v \in Workers \ {w} : pc'[v] = pc[v]
      BY <3>2 DEF IInv, TypeOK
    <3>6. Rows'
      BY <2>1, RowsKept
    <3>7. TypeOK'
      BY <1>0, <3>2, <3>4, <3>6 DEF IInv, TypeOK, Rows, Phases
    <3>8. Owns(w)' /\ step'[j] \in JL!RunSteps
      BY <3>1, <3>4, <3>5 DEF Owns, Extended
    <3>9. Engaged(w)'
      BY <1>0, <3>4, <3>5, <3>8 DEF Engaged, JL!RunSteps
    <3>10. ASSUME NEW v \in Workers \ {w}, Busy(v), cur[v].job = j
           PROVE  cur[v].run # Len(runs[j]) + 1
      <4>1. Owns(v)
        BY <3>1, <3>10, <1>1 DEF IInv, Engaged, JL!ContinueJob, JL!Exists, JL!JobSteps, JL!RunSteps
      <4> QED BY <3>1, <3>10, <4>1 DEF Owns
    <3> QED BY <2>1, <3>4, <3>5, <3>7, <3>9, <3>10, Together
  <2> QED BY <2>2, <2>3
<1>2. CASE Return(w) /\ UNCHANGED <<step, runs>>
  <2>1. ASSUME NEW v \in Workers \ {w}, pc'[v] = pc[v], cur'[v] = cur[v]
        PROVE  Engaged(v)'
    BY <1>2, <2>1, KeepSame
  <2> QED BY <1>0, <1>2, <2>1, ReturnStep
<1> QED BY <1>1, <1>2 DEF Continue

LEMMA DbErrorStep ==
    ASSUME IInv, NEW w \in Workers, DbError(w)
    PROVE  IInv'
<1>0. /\ Return(w) /\ UNCHANGED <<todo, queue, handler, signal>>
      /\ faults' \in Seq(FaultKinds)
  BY FaultType DEF DbError
<1>1. CASE UNCHANGED <<step, runs>>
  <2>1. ASSUME NEW v \in Workers \ {w}, pc'[v] = pc[v], cur'[v] = cur[v]
        PROVE  Engaged(v)'
    BY <1>1, <2>1, KeepSame
  <2> QED BY <1>0, <1>1, <2>1, ReturnStep
<1>2. CASE pc[w] = "claim" /\ JL!ClaimPendingRun(cur[w].job)
  <2>1. cur[w].job \in Jobs
    BY <1>2 DEF IInv, Engaged
  <2> QED BY <1>0, <1>2, <2>1, ClaimSpares, ReturnStep
<1>3. ASSUME pc[w] = "run", NEW outcome \in {"succeeded", "failed"},
             JL!FinishRun(cur[w].job, cur[w].run, outcome)
      PROVE  IInv'
  BY <1>0, <1>3, FinishSpares, ReturnStep
<1>4. CASE pc[w] = "continue" /\ JL!ContinueJob(cur[w].job)
  BY <1>0, <1>4, ContinueSpares, ReturnStep
<1> QED BY <1>1, <1>2, <1>3, <1>4 DEF DbError

LEMMA EndStep ==
    ASSUME IInv, NEW w \in Workers, Exit(w) \/ Crash(w) \/ (Terminate(w) /\ ~handler[w])
    PROVE  IInv'
BY FaultType, DownStep DEF Exit, Crash, Terminate, IInv, TypeOK

-----------------------------------------------------------------------------
(* The invariant holds throughout. *)

LEMMA InitIInv == Init => IInv
<1> SUFFICES ASSUME Init PROVE IInv
  OBVIOUS
<1>1. JL!TypeOK /\ JL!HistoryExplainsStep
  BY DEF Init, JL!Init, JL!TypeOK, JL!HistoryExplainsStep, JL!History, JL!JobSteps, JL!RunSteps
<1>2. TypeOK
  BY <1>1 DEF Init, TypeOK, Phases, Work
<1> QED BY <1>1, <1>2 DEF Init, IInv, Engaged, OneDriver, Busy

LEMMA NextIInv == IInv /\ [Next]_vars => IInv'
<1> SUFFICES ASSUME IInv, [Next]_vars PROVE IInv'
  OBVIOUS
<1>1. CASE UNCHANGED vars
  <2>1. UNCHANGED <<step, runs, pc, cur, todo, queue, handler, signal, faults>>
    BY <1>1 DEF vars, workerVars
  <2>2. TypeOK'
    BY <2>1 DEF IInv, TypeOK, JL!TypeOK
  <2>3. \A v \in Workers : Engaged(v)'
    BY <2>1, KeepSame
  <2> QED BY <2>1, <2>2, <2>3 DEF IInv, JL!HistoryExplainsStep, OneDriver, Busy
<1>2. CASE \E j \in Jobs : Enqueue(j) \/ DeleteJob(j) \/ AbortRun(j)
  BY <1>2, EnqueueStep, DeleteStep, AbortStep
<1>3. CASE \E w \in Workers : Start(w) \/ Run(w)
  BY <1>3, StartStep, SweepJobStep, ReceiveStep, EndStep, ClaimStep, LoadStep,
     RunAndFinishStep, ContinueStep DEF Run
<1>4. CASE \E w \in Workers : Fail(w)
  BY <1>4, EndStep, DbErrorStep, QuietFaultStep DEF Fail
<1> QED BY <1>1, <1>2, <1>3, <1>4 DEF Next

LEMMA Invariance == Spec => []IInv
BY InitIInv, NextIInv, PTL DEF Spec

\* Every variable of the service keeps its type, and the rows theirs.
THEOREM TypeCorrect == Spec => []TypeOK
<1>1. IInv => TypeOK
  BY DEF IInv
<1> QED BY <1>1, Invariance, PTL

\* However many instances, notifications, sweeps and faults there are, no run is
\* executed by two workers: process claims before it drives.
THEOREM OneWorkerPerRun == Spec => []NoRunExecutedTwice
<1>1. IInv => NoRunExecutedTwice
  BY DEF IInv, OneDriver, NoRunExecutedTwice, Drives, Busy
<1> QED BY <1>1, Invariance, PTL

\* run_step, which goes by the step of the job it loaded, executes the body of the
\* run it was given whenever that run is still its to finish.
THEOREM RightBody == Spec => []BodyMatchesRun
<1>1. ASSUME IInv PROVE BodyMatchesRun
  <2>1. SUFFICES ASSUME NEW w \in Workers, pc[w] = "run", StillRunning(w)
                 PROVE  cur[w].step = runs[cur[w].job][cur[w].run].step
    BY DEF BodyMatchesRun
  <2>2. cur[w].job \in Jobs /\ Busy(w)
    BY <1>1, <2>1 DEF IInv, Engaged, Busy
  <2>3. cur[w].run \in 1..Len(runs[cur[w].job])
    BY <1>1, <2>1, <2>2, JobRow, IInvRows DEF StillRunning
  <2>4. JL!Exists(cur[w].job)
    BY <1>1, <2>1, <2>2, <2>3, IInvRows, ActiveIsLast DEF StillRunning, JL!Active, JL!Exists, JL!JobSteps
  <2> QED BY <1>1, <2>1, <2>2, <2>4 DEF IInv, Engaged, Owns, StillRunning
<1> QED BY <1>1, Invariance, PTL

-----------------------------------------------------------------------------
(* No wake-up is lost. *)

Quiet == \A n \in DOMAIN faults : faults[n] \notin {"drop", "error"}

InHand(w, j) ==
    \/ pc[w] \in {"down", "up"}
    \/ j \in todo[w]
    \/ \E n \in DOMAIN queue[w] : queue[w][n] = j
    \/ pc[w] = "claim" /\ cur[w].job = j

AllInHand == Quiet => \A j \in Jobs, w \in Workers : Pending(j) => InHand(w, j)

LEMMA UpdatedPends ==
    ASSUME Rows, NEW j \in Jobs, NEW i, NEW s, Updated(j, i, s), s # "pending"
    PROVE  \A k \in Jobs : Pending(k)' => Pending(k) /\ k # j
<1>1. \A k \in Jobs \ {j} : Pending(k)' => Pending(k)
  BY DEF Updated, Pending
<1>2. ASSUME NEW m \in DOMAIN runs'[j], runs'[j][m].status = "pending" PROVE FALSE
  <2>1. m \in 1..Len(runs[j])
    BY <1>2, JobRow DEF Updated
  <2>2. m # i /\ runs[j][m].status = "pending"
    BY <1>2, <2>1 DEF Updated
  <2> QED BY <2>1, <2>2, ActiveIsLast DEF Updated, JL!Active
<1> QED BY <1>1, <1>2 DEF Pending

LEMMA ExtendedPends ==
    ASSUME Rows, NEW j \in Jobs, NEW s, Extended(j, s)
    PROVE  \A k \in Jobs : Pending(k)' => Pending(k) \/ (k = j /\ s = "pending")
<1>1. \A k \in Jobs \ {j} : Pending(k)' => Pending(k)
  BY DEF Extended, Pending
<1>2. ASSUME NEW m \in DOMAIN runs'[j], runs'[j][m].status = "pending", s # "pending"
      PROVE  Pending(j)
  <2>1. m \in 1..Len(runs[j]) + 1 /\ Len(runs[j]) \in Nat
    BY <1>2, JobRow DEF Extended
  <2>2. m \in 1..Len(runs[j])
    BY <1>2, <2>1 DEF Extended
  <2>3. runs[j][m].status = "pending"
    BY <1>2, <2>2 DEF Extended
  <2> QED BY <2>2, <2>3 DEF Pending
<1> QED BY <1>1, <1>2 DEF Pending

LEMMA AllKept ==
    ASSUME AllInHand, Quiet' => Quiet,
           \A j \in Jobs : Pending(j)' => Pending(j),
           \A j \in Jobs, w \in Workers : Pending(j)' /\ InHand(w, j) => InHand(w, j)'
    PROVE  AllInHand'
BY DEF AllInHand

LEMMA OneHand ==
    ASSUME IInv, AllInHand, Quiet' => Quiet, NEW w \in Workers,
           \A v \in Workers \ {w} : /\ pc'[v] = pc[v] /\ cur'[v] = cur[v]
                                   /\ todo'[v] = todo[v] /\ queue'[v] = queue[v],
           \A j \in Jobs : Pending(j)' => Pending(j),
           \A j \in Jobs : Pending(j)' /\ InHand(w, j) => InHand(w, j)'
    PROVE  AllInHand'
<1>1. ASSUME NEW j \in Jobs, NEW v \in Workers, Pending(j)', InHand(v, j)
      PROVE  InHand(v, j)'
  <2>1. CASE v = w
    BY <1>1, <2>1
  <2>2. CASE v # w
    <3>1. /\ pc'[v] = pc[v] /\ cur'[v] = cur[v]
          /\ todo'[v] = todo[v] /\ queue'[v] = queue[v]
      BY <2>2
    <3>2. InHand(v, j)
      BY <1>1
    <3> QED BY <3>1, <3>2 DEF InHand
  <2> QED BY <2>1, <2>2
<1> QED BY <1>1, AllKept

LEMMA EnqueueHand ==
    ASSUME IInv, AllInHand, NEW j \in Jobs, Enqueue(j)
    PROVE  AllInHand'
<1>1. UNCHANGED <<pc, cur, todo, faults>>
      /\ queue' = [w \in Workers |-> IF pc[w] = "down" THEN queue[w] ELSE Append(queue[w], j)]
  BY DEF Enqueue, Notify
<1>2. \A k \in Jobs : Pending(k)' => Pending(k) \/ k = j
  BY IInvRows, EnqueueExtends, ExtendedPends DEF Enqueue
<1>3. ASSUME NEW w \in Workers, NEW k \in Jobs, InHand(w, k) \/ k = j
      PROVE  InHand(w, k)'
  <2>1. CASE pc[w] = "down"
    BY <1>1, <2>1 DEF InHand
  <2>2. CASE pc[w] # "down"
    <3>1. queue'[w] = Append(queue[w], j) /\ queue[w] \in Seq(Jobs)
      BY <1>1, <2>2 DEF IInv, TypeOK
    <3>2. /\ DOMAIN queue[w] \subseteq DOMAIN queue'[w]
          /\ \A n \in DOMAIN queue[w] : queue'[w][n] = queue[w][n]
          /\ Len(queue[w]) + 1 \in DOMAIN queue'[w]
          /\ queue'[w][Len(queue[w]) + 1] = j
      BY <3>1
    <3> HIDE <3>1
    <3> QED BY <1>1, <1>3, <3>2 DEF InHand
  <2> QED BY <2>1, <2>2
<1> QED BY <1>1, <1>2, <1>3 DEF AllInHand, Quiet

LEMMA ReceiveHand ==
    ASSUME IInv, AllInHand, NEW w \in Workers, Receive(w)
    PROVE  AllInHand'
<1>1. /\ UNCHANGED <<step, runs, todo, faults>> /\ queue[w] # <<>> /\ pc[w] = "select"
      /\ pc'[w] = "claim" /\ cur'[w].job = Head(queue[w]) /\ queue'[w] = Tail(queue[w])
      /\ \A v \in Workers \ {w} : pc'[v] = pc[v] /\ cur'[v] = cur[v] /\ queue'[v] = queue[v]
  BY DEF Receive, Goto, IInv, TypeOK
<1>2. ASSUME NEW j \in Jobs, InHand(w, j) PROVE InHand(w, j)'
  <2>1. CASE j \in todo[w]
    BY <1>1, <2>1 DEF InHand
  <2>2. CASE \E n \in DOMAIN queue[w] : queue[w][n] = j
    <3>1. PICK n \in DOMAIN queue[w] : queue[w][n] = j
      BY <2>2
    <3>2. queue[w] \in Seq(Jobs)
      BY DEF IInv, TypeOK
    <3>3. CASE n = 1
      BY <1>1, <3>1, <3>2, <3>3 DEF InHand
    <3>4. CASE n # 1
      <4>1. n - 1 \in DOMAIN queue'[w] /\ queue'[w][n - 1] = j
        BY <1>1, <3>1, <3>2, <3>4
      <4> QED BY <4>1 DEF InHand
    <3> QED BY <3>3, <3>4
  <2> QED BY <1>1, <1>2, <2>1, <2>2 DEF InHand
<1>3. \A j \in Jobs : Pending(j)' = Pending(j)
  BY <1>1 DEF Pending
<1> QED BY <1>1, <1>2, <1>3, OneHand DEF Quiet

LEMMA StartHand ==
    ASSUME IInv, AllInHand, NEW w \in Workers,
           Start(w) \/ Sweep(w) \/ SweepDone(w) \/ SweepJob(w)
    PROVE  AllInHand'
<1>1. /\ UNCHANGED <<step, runs, queue, faults>>
      /\ \A v \in Workers \ {w} : pc'[v] = pc[v] /\ cur'[v] = cur[v] /\ todo'[v] = todo[v]
  BY DEF Start, Sweep, SweepDone, SweepJob, Goto, IInv, TypeOK
<1>2. \A j \in Jobs : Pending(j)' = Pending(j)
  BY <1>1 DEF Pending
<1>3. ASSUME NEW j \in Jobs, Pending(j), InHand(w, j) PROVE InHand(w, j)'
  <2>1. CASE Start(w)
    BY <2>1 DEF Start, Goto, InHand, IInv, TypeOK
  <2>2. CASE Sweep(w)
    BY <1>3, <2>2 DEF Sweep, InHand, IInv, TypeOK
  <2>3. CASE SweepDone(w)
    BY <1>3, <2>3 DEF SweepDone, InHand
  <2>4. CASE SweepJob(w)
    <3>1. PICK k \in todo[w] :
            /\ todo' = [todo EXCEPT ![w] = @ \ {k}]
            /\ cur' = [cur EXCEPT ![w] = [job |-> k, run |-> 0, step |-> "unknown"]]
      BY <2>4 DEF SweepJob
    <3>2. /\ todo'[w] = todo[w] \ {k} /\ cur'[w].job = k /\ pc[w] = "sweep"
          /\ pc'[w] = "claim" /\ queue' = queue
      BY <2>4, <3>1 DEF SweepJob, Goto, IInv, TypeOK
    <3> QED BY <1>3, <3>2 DEF InHand
  <2> QED BY <2>1, <2>2, <2>3, <2>4
<1> QED BY <1>1, <1>2, <1>3, OneHand DEF Quiet

LEMMA DriveHand ==
    ASSUME IInv, AllInHand, NEW w \in Workers,
           Claim(w) \/ Load(w) \/ RunAndFinish(w) \/ Continue(w)
    PROVE  AllInHand'
<1>1. /\ UNCHANGED <<todo, queue, faults>>
      /\ \A v \in Workers \ {w} : pc'[v] = pc[v] /\ cur'[v] = cur[v]
  BY DEF Claim, Load, RunAndFinish, Continue, Goto, Return, IInv, TypeOK
<1>2. /\ pc[w] \in {"claim", "load", "run", "continue"}
      /\ cur[w].job \in Jobs
  BY DEF Claim, Load, RunAndFinish, Continue, IInv, Engaged, Busy
<1>3. \A j \in Jobs : Pending(j)' => Pending(j) /\ (pc[w] = "claim" => j # cur[w].job)
  <2>1. CASE UNCHANGED runs /\ pc[w] # "claim"
    BY <2>1 DEF Pending
  <2>2. CASE Claim(w)
    <3>1. CASE Pending(cur[w].job)
      BY <1>2, <2>2, <3>1, IInvRows, ClaimUpdates, UpdatedPends DEF Claim
    <3>2. CASE ~Pending(cur[w].job)
      BY <2>2, <3>2 DEF Claim, Pending
    <3> QED BY <3>1, <3>2
  <2>3. CASE RunAndFinish(w)
    <3>1. CASE StillRunning(w)
      <4>1. PICK outcome \in {"succeeded", "failed"} :
              JL!FinishRun(cur[w].job, cur[w].run, outcome)
        BY <2>3, <3>1 DEF RunAndFinish
      <4>2. Updated(cur[w].job, cur[w].run, outcome)
        BY <1>2, <4>1, IInvRows, FinishUpdates
      <4> QED BY <1>2, <4>2, IInvRows, UpdatedPends, <2>3 DEF RunAndFinish
    <3>2. CASE ~StillRunning(w)
      BY <2>1, <2>3, <3>2 DEF RunAndFinish
    <3> QED BY <3>1, <3>2
  <2>4. CASE Continue(w)
    <3>1. CASE JL!ContinueJob(cur[w].job)
      <4>1. Extended(cur[w].job, "running") \/ runs' = runs
        BY <1>2, <3>1, ContinueMoves, IInvRows
      <4>2. pc[w] = "continue"
        BY <2>4 DEF Continue
      <4> QED BY <1>2, <2>1, <4>1, <4>2, ExtendedPends, IInvRows
    <3>2. CASE UNCHANGED runs
      BY <2>1, <2>4, <3>2 DEF Continue
    <3> QED BY <2>4, <3>1, <3>2 DEF Continue
  <2>5. CASE Load(w)
    <3>1. runs' = runs /\ pc[w] # "claim"
      BY <2>5 DEF Load
    <3> QED BY <2>1, <3>1
  <2> QED BY <2>2, <2>3, <2>4, <2>5
<1>4. ASSUME NEW j \in Jobs, Pending(j)', InHand(w, j) PROVE InHand(w, j)'
  <2>1. pc[w] = "claim" => cur[w].job # j
    BY <1>3, <1>4
  <2>2. todo'[w] = todo[w] /\ queue'[w] = queue[w]
    BY <1>1
  <2>3. InHand(w, j)
    BY <1>4
  <2> QED BY <1>2, <2>1, <2>2, <2>3 DEF InHand
<1>5. Quiet' => Quiet
  BY <1>1 DEF Quiet
<1> QED BY <1>1, <1>3, <1>4, <1>5, OneHand

\* A fault that is not a lost connection or call only ends processes.
LEMMA FailHand ==
    ASSUME IInv, AllInHand, NEW w \in Workers, Fail(w) \/ Exit(w)
    PROVE  AllInHand'
<1>1. Quiet' => Quiet /\ ~DbError(w) /\ ~Reconnect(w)
  <2>1. CASE Exit(w)
    BY <2>1 DEF Exit, Quiet, DbError, Reconnect, Fault, IInv, TypeOK
  <2>2. ASSUME NEW kind, Fault(kind)
        PROVE  Quiet' => Quiet /\ kind \notin {"drop", "error"}
    <3>1. /\ faults' \in Seq(FaultKinds) /\ Len(faults) \in Nat
          /\ Len(faults') = Len(faults) + 1
          /\ \A n \in 1..Len(faults) : faults'[n] = faults[n]
          /\ faults'[Len(faults) + 1] = kind
      BY <2>2, FaultType
    <3>2. faults \in Seq(FaultKinds)
      BY DEF IInv, TypeOK
    <3>3. DOMAIN faults = 1..Len(faults) /\ DOMAIN faults' = 1..Len(faults) + 1
      BY <3>1, <3>2
    <3> QED BY <3>1, <3>3 DEF Quiet
  <2>3. (DbError(w) => Fault("error")) /\ (Reconnect(w) => Fault("drop"))
    BY DEF DbError, Reconnect
  <2>4. Exit(w) \/ \E kind : Fault(kind)
    BY DEF Fail, Crash, DbError, Reconnect, Terminate
  <2>5. Quiet' => ~Fault("error") /\ ~Fault("drop")
    <3>1. Fault("error") => ~Quiet'
      BY <2>2
    <3>2. Fault("drop") => ~Quiet'
      BY <2>2
    <3> QED BY <3>1, <3>2
  <2>6. Quiet' => Quiet
    BY <2>1, <2>2, <2>4
  <2> QED BY <2>3, <2>5, <2>6
<1>2. CASE Down(w)
  <2>1. /\ pc'[w] = "down" /\ UNCHANGED runs
        /\ \A v \in Workers \ {w} : /\ pc'[v] = pc[v] /\ cur'[v] = cur[v]
                                    /\ todo'[v] = todo[v] /\ queue'[v] = queue[v]
    BY <1>2 DEF Down, Goto, IInv, TypeOK
  <2> QED BY <1>1, <2>1, OneHand DEF Pending, InHand
<1>3. CASE UNCHANGED <<runs, pc, cur, todo, queue>>
  BY <1>1, <1>3 DEF AllInHand, Pending, InHand
<1>4. CASE ~Quiet'
  BY <1>4 DEF AllInHand
<1> QED BY <1>1, <1>2, <1>3, <1>4 DEF Fail, Exit, Crash, Terminate

LEMMA NextInHand == IInv /\ AllInHand /\ [Next]_vars => AllInHand'
<1> SUFFICES ASSUME IInv, AllInHand, [Next]_vars PROVE AllInHand'
  OBVIOUS
<1>1. CASE UNCHANGED vars
  BY <1>1 DEF vars, workerVars, AllInHand, Quiet, Pending, InHand
<1>2. ASSUME NEW j \in Jobs, DeleteJob(j) \/ AbortRun(j) PROVE AllInHand'
  <2>1. UNCHANGED <<workerVars, faults>>
    BY <1>2 DEF DeleteJob, AbortRun
  <2>2. \A k \in Jobs : Pending(k)' => Pending(k)
    <3>1. CASE DeleteJob(j)
      BY <3>1 DEF DeleteJob, JL!DeleteJob, Pending, IInv, TypeOK, JL!TypeOK
    <3>2. CASE AbortRun(j)
      BY <3>2, AbortUpdates, UpdatedPends, IInvRows DEF AbortRun
    <3> QED BY <1>2, <3>1, <3>2
  <2> QED BY <2>1, <2>2 DEF AllInHand, Quiet, InHand, workerVars
<1>3. CASE \E w \in Workers : Start(w) \/ Run(w) \/ Fail(w)
  BY <1>3, StartHand, ReceiveHand, DriveHand, FailHand DEF Run
<1> QED BY <1>1, <1>2, <1>3, EnqueueHand DEF Next

\* As long as the connections and the database hold, every instance that is up has
\* in hand what will make it look at each pending run: listening starts before the
\* sweep reads, and the sweep and the loop drop nothing.
THEOREM NoWakeUpLost == Spec => []WakeUpInHand
<1>1. Init => AllInHand
  BY DEF Init, JL!Init, AllInHand, Pending
<1>2. IInv /\ AllInHand => WakeUpInHand
  BY DEF AllInHand, WakeUpInHand, Quiet, InHand, IInv, TypeOK
<1> QED BY <1>1, <1>2, InitIInv, NextIInv, NextInHand, PTL DEF Spec

-----------------------------------------------------------------------------
(* Only faults strand jobs. *)

AllStranded == {j \in Jobs : Stranded(j)}
FewStranded == IsFiniteSet(AllStranded) /\ Cardinality(AllStranded) <= Len(faults)

\* A job whose rows and drivers stay as they are is not stranded by the step.
LEMMA StrandedKept ==
    ASSUME NEW k \in Jobs, step'[k] = step[k], runs'[k] = runs[k],
           \A v \in Workers : Drives(v, k, Len(runs[k])) =>
               Busy(v)' /\ cur'[v].job = k /\ cur'[v].run = Len(runs[k])
    PROVE  Stranded(k)' => Stranded(k)
BY DEF Stranded, Drives, Busy

\* A job that is gone, or whose last run is pending or ended otherwise than by a
\* success in phase 2, is not stranded.
LEMMA NotStranded ==
    ASSUME NEW k \in Jobs,
           \/ runs'[k] = <<>>
           \/ /\ runs'[k][Len(runs'[k])].status # "running"
              /\ \/ runs'[k][Len(runs'[k])].status # "succeeded"
                 \/ step'[k] \notin {"chunk", "embed"}
           \/ \E v \in Workers : /\ Busy(v)' /\ cur'[v].job = k
                                 /\ cur'[v].run = Len(runs'[k])
    PROVE  ~Stranded(k)'
BY DEF Stranded, Drives, Busy

\* Between the steps of phase 2 continue_job finds the run that just succeeded.
LEMMA SucceededContinues ==
    ASSUME Rows, NEW j \in Jobs, step[j] \in {"chunk", "embed"},
           runs[j][Len(runs[j])].status = "succeeded"
    PROVE  CanContinue(j)
<1>1. /\ JL!Layout(step[j], runs[j]) /\ JL!SucceededBefore(step[j], runs[j])
      /\ Len(runs[j]) \in Nat /\ \A i \in 1..Len(runs[j]) : JL!WellFormed(runs[j][i])
      /\ runs[j] \in Seq(JL!Run)
  BY JobRow DEF JL!History, JL!JobSteps, JL!RunSteps
<1>2. Len(runs[j]) >= 1 /\ runs[j][Len(runs[j])].step = step[j]
  <2>1. CASE step[j] = "chunk"
    BY <1>1, <2>1 DEF JL!Layout, JL!Extracts, JL!PhaseTwoRuns
  <2>2. CASE step[j] = "embed"
    BY <1>1, <2>2 DEF JL!Layout, JL!Extracts, JL!PhaseTwoRuns
  <2> QED BY <2>1, <2>2
<1>3. ASSUME NEW i \in 1..Len(runs[j]) PROVE runs[j][i].started
  <2>1. runs[j][i].status = "succeeded" => runs[j][i].started
    BY <1>1 DEF JL!WellFormed
  <2>2. CASE step[j] = "chunk"
    BY <1>1, <1>2, <1>3, <2>1, <2>2 DEF JL!SucceededBefore, JL!Extracts, JL!PhaseTwoRuns
  <2>3. CASE step[j] = "embed"
    <3>1. /\ \A m \in 1..Len(runs[j]) - 2 : runs[j][m].started
          /\ runs[j][Len(runs[j]) - 2 + 1].status = "succeeded"
      BY <1>1, <2>3 DEF JL!SucceededBefore, JL!Extracts, JL!PhaseTwoRuns
    <3>2. i \in 1..Len(runs[j]) - 2 \/ i = Len(runs[j]) - 2 + 1 \/ i = Len(runs[j])
      BY <1>1, <1>3
    <3> QED BY <2>1, <3>1, <3>2
  <2> QED BY <2>2, <2>3
<1>4. JL!Latest(runs[j]) = runs[j][Len(runs[j])]
  BY <1>3 DEF JL!Latest, JL!LatestIndex, JL!Unstarted
<1> QED BY <1>1, <1>2, <1>3, <1>4 DEF CanContinue, JL!LatestSucceeded, JL!Readable

LEMMA OutsideStrands ==
    ASSUME IInv, NEW j \in Jobs, Enqueue(j) \/ DeleteJob(j) \/ AbortRun(j)
    PROVE  \A k \in Jobs : Stranded(k)' => Stranded(k)
<1>1. UNCHANGED <<pc, cur>>
  BY DEF Enqueue, DeleteJob, AbortRun, workerVars
<1>2. CASE Enqueue(j)
  <2>1. Extended(j, "pending") /\ Len(runs[j]) \in Nat
    BY <1>2, IInvRows, EnqueueExtends, JobRow DEF Enqueue
  <2>2. ~Stranded(j)'
    BY <2>1, NotStranded DEF Extended
  <2> QED BY <1>1, <2>1, <2>2, StrandedKept DEF Extended, Drives, Busy
<1>3. CASE DeleteJob(j)
  <2>1. /\ runs'[j] = <<>>
        /\ \A k \in Jobs \ {j} : step'[k] = step[k] /\ runs'[k] = runs[k]
    BY <1>3 DEF DeleteJob, JL!DeleteJob, IInv, TypeOK, JL!TypeOK
  <2> QED BY <1>1, <2>1, NotStranded, StrandedKept DEF Drives, Busy
<1>4. CASE AbortRun(j)
  <2>1. Updated(j, Len(runs[j]), "aborted")
    BY <1>4, IInvRows, AbortUpdates DEF AbortRun
  <2>2. ~Stranded(j)'
    BY <2>1, NotStranded DEF Updated
  <2> QED BY <1>1, <2>1, <2>2, StrandedKept DEF Updated, Drives, Busy
<1> QED BY <1>2, <1>3, <1>4

\* A worker that moves without a statement strands nothing if it drives nothing.
LEMMA IdleStrands ==
    ASSUME IInv, NEW w \in Workers, UNCHANGED <<step, runs>>,
           \A v \in Workers \ {w} : pc'[v] = pc[v] /\ cur'[v] = cur[v],
           NEW k \in Jobs, ~Drives(w, k, Len(runs[k]))
    PROVE  Stranded(k)' => Stranded(k)
BY StrandedKept DEF Drives, Busy

LEMMA ReadyStrands ==
    ASSUME IInv, NEW w \in Workers,
           Start(w) \/ Sweep(w) \/ SweepJob(w) \/ SweepDone(w) \/ Receive(w) \/ Exit(w)
    PROVE  \A k \in Jobs : Stranded(k)' => Stranded(k)
<1>1. /\ UNCHANGED <<step, runs>> /\ ~Busy(w)
      /\ \A v \in Workers \ {w} : pc'[v] = pc[v] /\ cur'[v] = cur[v]
  BY DEF Start, Sweep, SweepJob, SweepDone, Receive, Exit, Down, Goto, Busy, IInv, TypeOK
<1> QED BY <1>1, IdleStrands DEF Drives, Busy

LEMMA ClaimStrands ==
    ASSUME IInv, NEW w \in Workers, Claim(w),
           NEW j \in Jobs, cur[w].job = j
    PROVE  \A k \in Jobs : Stranded(k)' => Stranded(k)
<1>1. /\ ~Busy(w) /\ j \in Jobs /\ cur[w] # NoWork
      /\ \A v \in Workers \ {w} : pc'[v] = pc[v] /\ cur'[v] = cur[v]
  BY DEF Claim, Return, Goto, Busy, IInv, TypeOK, Engaged, NoWork
<1>2. CASE Pending(j)
  <2>1. Updated(j, Len(runs[j]), "running") /\ Len(runs[j]) \in Nat
    BY <1>1, <1>2, IInvRows, ClaimUpdates, JobRow DEF Claim
  <2>2. cur'[w].job = j /\ cur'[w].run = Len(runs[j]) /\ Busy(w)'
    BY <1>1, <1>2, <2>1, NotesRun DEF Claim, Goto, Busy, IInv, TypeOK
  <2>3. ~Stranded(j)'
    BY <1>1, <2>1, <2>2, NotStranded DEF Updated
  <2>4. ASSUME NEW k \in Jobs \ {j} PROVE Stranded(k)' => Stranded(k)
    BY <1>1, <2>1, <2>4, StrandedKept DEF Updated, Drives, Busy
  <2> QED BY <2>3, <2>4
<1>3. CASE ~Pending(j)
  <2>1. UNCHANGED <<step, runs>>
    BY <1>3 DEF Claim
  <2> QED BY <1>1, <2>1, IdleStrands DEF Drives, Busy
<1> QED BY <1>2, <1>3

LEMMA LoadStrands ==
    ASSUME IInv, NEW w \in Workers, Load(w)
    PROVE  \A k \in Jobs : Stranded(k)' => Stranded(k)
<1>1. /\ UNCHANGED <<step, runs>> /\ Busy(w) /\ cur[w].job \in Jobs
      /\ \A v \in Workers \ {w} : pc'[v] = pc[v] /\ cur'[v] = cur[v]
  BY DEF Load, Return, Goto, Busy, IInv, TypeOK, Engaged
<1>2. CASE JL!Exists(cur[w].job)
  <2>1. cur[w] # NoWork
    BY <1>1, <1>2, JobRow, IInvRows DEF NoWork, IInv, Engaged, Owns
  <2>2. cur[w] \in [job : Jobs, run : Nat, step : JL!JobSteps \cup {"unknown"}]
    BY <2>1 DEF IInv, TypeOK, Work
  <2>3. cur'[w].job = cur[w].job /\ cur'[w].run = cur[w].run /\ Busy(w)'
    BY <1>2, <2>2 DEF Load, Goto, Busy, IInv, TypeOK
  <2> QED BY <1>1, <2>3, StrandedKept DEF Drives, Busy
<1>3. CASE ~JL!Exists(cur[w].job)
  <2>1. runs'[cur[w].job] = <<>>
    BY <1>1, <1>3, IInvRows, GoneHasNoRuns
  <2> QED BY <1>1, <2>1, NotStranded, IdleStrands DEF Drives
<1> QED BY <1>2, <1>3

\* A worker that lets go of a job whose last run it does not drive, or which is not
\* between two steps, strands nothing.
LEMMA RunAndFinishStrands ==
    ASSUME IInv, NEW w \in Workers, RunAndFinish(w),
           NEW j \in Jobs, cur[w].job = j, NEW i, cur[w].run = i
    PROVE  \A k \in Jobs : Stranded(k)' => Stranded(k)
<1>1. /\ pc[w] = "run" /\ Busy(w) /\ j \in Jobs
      /\ \A v \in Workers \ {w} : pc'[v] = pc[v] /\ cur'[v] = cur[v]
  BY DEF RunAndFinish, Return, Goto, Busy, IInv, TypeOK, Engaged
<1>2. CASE StillRunning(w)
  <2>1. PICK outcome \in {"succeeded", "failed"} :
          /\ JL!FinishRun(j, i, outcome)
          /\ IF outcome = "succeeded" /\ runs[j][i].step # "extract"
             THEN Goto(w, "continue") /\ UNCHANGED cur
             ELSE Return(w)
    BY <1>2 DEF RunAndFinish
  <2>2. /\ Updated(j, i, outcome) /\ i \in 1..Len(runs[j])
        /\ runs[j][i].status = "running"
    BY <1>1, <2>1, IInvRows, FinishUpdates
  <2>3. ~Stranded(j)'
    <3>1. CASE outcome = "failed"
      BY <1>1, <2>2, <3>1, NotStranded DEF Updated
    <3>2. CASE outcome = "succeeded" /\ runs[j][i].step = "extract"
      <4>1. step[j] = "extract"
        BY <1>1, <2>2, <3>2, IInvRows, ActiveIsLast DEF JL!Active
      <4> QED BY <1>1, <2>2, <3>2, <4>1, NotStranded DEF Updated
    <3>3. CASE outcome = "succeeded" /\ runs[j][i].step # "extract"
      <4>1. cur' = cur /\ Busy(w)'
        BY <2>1, <3>3 DEF Goto, Busy, IInv, TypeOK
      <4> QED BY <1>1, <2>2, <4>1, NotStranded DEF Updated
    <3> QED BY <3>1, <3>2, <3>3
  <2>4. ASSUME NEW k \in Jobs \ {j} PROVE Stranded(k)' => Stranded(k)
    BY <1>1, <2>2, <2>4, StrandedKept DEF Updated, Drives, Busy
  <2> QED BY <2>3, <2>4
<1>3. CASE ~StillRunning(w)
  <2>1. UNCHANGED <<step, runs>>
    BY <1>3 DEF RunAndFinish
  <2>2. ASSUME NEW k \in Jobs, Drives(w, k, Len(runs[k])) PROVE ~Stranded(k)'
    <3>1. k = j /\ Len(runs[k]) = i
      BY <2>2 DEF Drives
    <3>2. CASE JL!Exists(j)
      <4>1. Owns(w)
        BY <1>1, <3>2 DEF IInv, Engaged
      <4>2. runs[j][i].status = "aborted"
        BY <1>1, <1>3, <4>1, JobRow, IInvRows DEF Owns, StillRunning
      <4> QED BY <1>1, <2>1, <3>1, <4>2, NotStranded
    <3>3. CASE ~JL!Exists(j)
      BY <1>1, <2>1, <3>1, <3>3, IInvRows, GoneHasNoRuns, NotStranded
    <3> QED BY <3>2, <3>3
  <2> QED BY <1>1, <2>1, <2>2, IdleStrands
<1> QED BY <1>2, <1>3

LEMMA ContinueStrands ==
    ASSUME IInv, NEW w \in Workers, Continue(w),
           NEW j \in Jobs, cur[w].job = j
    PROVE  \A k \in Jobs : Stranded(k)' => Stranded(k)
<1>1. /\ pc[w] = "continue" /\ Busy(w) /\ j \in Jobs
      /\ \A v \in Workers \ {w} : pc'[v] = pc[v] /\ cur'[v] = cur[v]
  BY DEF Continue, Return, Goto, Busy, IInv, TypeOK, Engaged
<1>2. CASE /\ JL!ContinueJob(j)
           /\ IF runs' = runs
              THEN Return(w)
              ELSE cur' = [cur EXCEPT ![w].run = Len(runs'[j])] /\ Goto(w, "load")
  <2>1. Owns(w)
    BY <1>1, <1>2, ContinueSpares
  <2>2. CASE Extended(j, "running")
    <3>1. runs' # runs /\ Len(runs[j]) \in Nat /\ Len(runs'[j]) = Len(runs[j]) + 1
      BY <1>1, <2>2, IInvRows, JobRow DEF Extended
    <3>2. cur[w] # NoWork
      BY <2>1, <3>1 DEF Owns, NoWork
    <3>3. Len(runs'[j]) \in Nat /\ cur' = [cur EXCEPT ![w].run = Len(runs'[j])]
      BY <1>2, <3>1
    <3>4. Busy(w)'
      BY <1>2, <3>1 DEF Goto, Busy, IInv, TypeOK
    <3>5. cur'[w].job = j /\ cur'[w].run = Len(runs'[j])
      BY <3>2, <3>3, NotesRun
    <3>6. ~Stranded(j)'
      BY <1>1, <3>4, <3>5, NotStranded
    <3>7. ASSUME NEW k \in Jobs \ {j} PROVE Stranded(k)' => Stranded(k)
      BY <1>1, <2>2, <3>7, StrandedKept DEF Extended, Drives, Busy
    <3> QED BY <3>6, <3>7
  <2>3. CASE step[j] = "embed" /\ runs' = runs /\ step' = [step EXCEPT ![j] = "completed"]
    <3>1. step'[j] = "completed" /\ \A k \in Jobs \ {j} : step'[k] = step[k]
      BY <1>1, <2>3 DEF IInv, TypeOK, JL!TypeOK
    <3>2. ~Stranded(j)'
      BY <1>1, <2>1, <2>3, <3>1, NotStranded DEF Owns
    <3>3. ASSUME NEW k \in Jobs \ {j} PROVE Stranded(k)' => Stranded(k)
      BY <1>1, <2>3, <3>1, <3>3, StrandedKept DEF Drives, Busy
    <3> QED BY <3>2, <3>3
  <2> QED BY <1>1, <1>2, <2>2, <2>3, IInvRows, ContinueMoves
<1>3. CASE ~CanContinue(j) /\ Return(w) /\ UNCHANGED <<step, runs>>
  <2>1. ~JL!Exists(j)
    <3>1. JL!Exists(j) => Owns(w)
      BY <1>1 DEF IInv, Engaged
    <3> QED BY <1>1, <1>3, <3>1, IInvRows, SucceededContinues DEF Owns
  <2>2. runs'[j] = <<>>
    BY <1>1, <1>3, <2>1, IInvRows, GoneHasNoRuns
  <2> QED BY <1>1, <1>3, <2>2, NotStranded, IdleStrands DEF Drives
<1> QED BY <1>2, <1>3 DEF Continue

\* A fault strands at most the job of the worker it befalls.
LEMMA FaultStrands ==
    ASSUME IInv, NEW w \in Workers, Fail(w)
    PROVE  /\ \A k \in Jobs \ {cur[w].job} : Stranded(k)' => Stranded(k)
           /\ Len(faults') = Len(faults) + 1
<1>1. Len(faults') = Len(faults) + 1
  <2>1. \E kind : Fault(kind)
    BY DEF Fail, Crash, DbError, Reconnect, Terminate
  <2> QED BY <2>1, FaultType
<1>2. \A v \in Workers \ {w} : pc'[v] = pc[v] /\ cur'[v] = cur[v]
  BY DEF Fail, Crash, DbError, Reconnect, Terminate, Down, Return, Goto, IInv, TypeOK
<1>3. \A k \in Jobs \ {cur[w].job} : step'[k] = step[k] /\ runs'[k] = runs[k]
  <2>1. CASE UNCHANGED <<step, runs>>
    BY <2>1
  <2>2. CASE DbError(w)
    BY <2>2 DEF DbError, JL!ClaimPendingRun, JL!FinishRun, JL!ContinueJob, JL!AddRun,
                IInv, TypeOK, JL!TypeOK
  <2> QED BY <2>1, <2>2 DEF Fail, Crash, Reconnect, Terminate, Down
<1> QED BY <1>1, <1>2, <1>3, StrandedKept DEF Drives, Busy

LEMMA NextFewStranded == IInv /\ FewStranded /\ [Next]_vars => FewStranded'
<1> SUFFICES ASSUME IInv, FewStranded, [Next]_vars PROVE FewStranded'
  OBVIOUS
<1>0. Len(faults) \in Nat
  BY DEF IInv, TypeOK
<1>1. ASSUME \A k \in Jobs : Stranded(k)' => Stranded(k), faults' = faults
      PROVE  FewStranded'
  <2>1. AllStranded' \subseteq AllStranded
    BY <1>1 DEF AllStranded
  <2>2. IsFiniteSet(AllStranded') /\ Cardinality(AllStranded') <= Cardinality(AllStranded)
    BY <2>1, FS_Subset DEF FewStranded
  <2>3. Cardinality(AllStranded) \in Nat /\ Cardinality(AllStranded') \in Nat
    BY <2>2, FS_CardinalityType DEF FewStranded
  <2> QED BY <1>0, <1>1, <2>2, <2>3 DEF FewStranded
<1>2. ASSUME NEW w \in Workers, Fail(w) PROVE FewStranded'
  <2>1. AllStranded' \subseteq AllStranded \cup {cur[w].job}
    BY <1>2, FaultStrands DEF AllStranded
  <2>2. /\ IsFiniteSet(AllStranded \cup {cur[w].job})
        /\ Cardinality(AllStranded \cup {cur[w].job}) <= Cardinality(AllStranded) + 1
    <3>1. IsFiniteSet(AllStranded) /\ Cardinality(AllStranded) \in Nat
      BY FS_CardinalityType DEF FewStranded
    <3> QED BY <3>1, FS_AddElement
  <2>3. /\ IsFiniteSet(AllStranded')
        /\ Cardinality(AllStranded') <= Cardinality(AllStranded \cup {cur[w].job})
    BY <2>1, <2>2, FS_Subset
  <2>4. /\ Cardinality(AllStranded) \in Nat /\ Cardinality(AllStranded') \in Nat
        /\ Cardinality(AllStranded \cup {cur[w].job}) \in Nat
    BY <2>2, <2>3, FS_CardinalityType DEF FewStranded
  <2>5. Len(faults') = Len(faults) + 1
    BY <1>2, FaultStrands
  <2> QED BY <1>0, <2>2, <2>3, <2>4, <2>5 DEF FewStranded
<1>3. CASE UNCHANGED vars
  BY <1>1, <1>3 DEF vars, workerVars, Stranded, Drives
<1>4. CASE \E j \in Jobs : Enqueue(j) \/ DeleteJob(j) \/ AbortRun(j)
  BY <1>1, <1>4, OutsideStrands DEF Enqueue, DeleteJob, AbortRun
<1>5. CASE \E w \in Workers : Start(w) \/ Run(w)
  <2>1. PICK w \in Workers : Start(w) \/ Run(w)
    BY <1>5
  <2>2. faults' = faults
    BY <2>1 DEF Start, Run, Sweep, SweepJob, SweepDone, Receive, Exit, Claim, Load,
                RunAndFinish, Continue
  <2>3. Claim(w) \/ RunAndFinish(w) \/ Continue(w) => cur[w].job \in Jobs
    BY DEF Claim, RunAndFinish, Continue, IInv, Engaged, Busy
  <2> QED BY <1>1, <2>1, <2>2, <2>3, ReadyStrands, ClaimStrands, LoadStrands,
             RunAndFinishStrands, ContinueStrands DEF Run
<1> QED BY <1>2, <1>3, <1>4, <1>5 DEF Next

\* However many jobs and instances there are, a job is stranded only by a fault that
\* befell the worker driving it: drive leaves no job behind on its own.
THEOREM FaultsStrandOneEach == Spec => []OneFaultStrandsOneJob
<1>1. Init => FewStranded
  <2> SUFFICES ASSUME Init PROVE FewStranded
    OBVIOUS
  <2>1. AllStranded = {} /\ Len(faults) = 0
    BY DEF Init, JL!Init, AllStranded, Stranded
  <2> QED BY <2>1, FS_EmptySet DEF FewStranded
<1>2. FewStranded => OneFaultStrandsOneJob
  BY DEF FewStranded, AllStranded, OneFaultStrandsOneJob
<1> QED BY <1>1, <1>2, InitIInv, NextIInv, NextFewStranded, PTL DEF Spec
-----------------------------------------------------------------------------
(* The service implements JobLifecycle. *)

LEMMA Simulation == IInv /\ [Next]_vars => [JL!Next]_(JL!lifecycleVars)
<1> SUFFICES ASSUME IInv, [Next]_vars, ~UNCHANGED <<step, runs>> PROVE JL!Next
  BY DEF JL!lifecycleVars
<1>1. ASSUME NEW j \in Jobs, Enqueue(j) \/ DeleteJob(j) \/ AbortRun(j) PROVE JL!Next
  BY <1>1 DEF Enqueue, DeleteJob, AbortRun, JL!Next
<1>2. ASSUME NEW w \in Workers, Claim(w) \/ DbError(w), pc[w] = "claim" PROVE JL!Next
  <2>1. cur[w].job \in Jobs
    BY <1>2 DEF IInv, Engaged
  <2>2. JL!ClaimPendingRun(cur[w].job)
    BY <1>2 DEF Claim, DbError
  <2> QED BY <2>1, <2>2, ClaimSpares
<1>3. ASSUME NEW w \in Workers, RunAndFinish(w) \/ DbError(w), pc[w] = "run" PROVE JL!Next
  <2>1. \E outcome \in {"succeeded", "failed"} : JL!FinishRun(cur[w].job, cur[w].run, outcome)
    BY <1>3 DEF RunAndFinish, DbError
  <2> QED BY <1>3, <2>1, FinishSpares
<1>4. ASSUME NEW w \in Workers, Continue(w) \/ DbError(w), pc[w] = "continue" PROVE JL!Next
  <2>1. JL!ContinueJob(cur[w].job)
    BY <1>4 DEF Continue, DbError
  <2> QED BY <1>4, <2>1, ContinueSpares
<1>5. ASSUME NEW w \in Workers, Claim(w) \/ RunAndFinish(w) \/ Continue(w) \/ DbError(w)
      PROVE  JL!Next
  <2>1. pc[w] \in {"claim", "run", "continue"}
    BY <1>5 DEF Claim, RunAndFinish, Continue, DbError
  <2>2. Claim(w) => pc[w] = "claim"
    BY DEF Claim
  <2>3. RunAndFinish(w) => pc[w] = "run"
    BY DEF RunAndFinish
  <2>4. Continue(w) => pc[w] = "continue"
    BY DEF Continue
  <2> QED BY <1>2, <1>3, <1>4, <1>5, <2>1, <2>2, <2>3, <2>4
<1>6. ASSUME NEW w \in Workers, Start(w) \/ Sweep(w) \/ SweepJob(w) \/ SweepDone(w)
                                 \/ Receive(w) \/ Load(w) \/ Reconnect(w)
      PROVE  FALSE
  BY <1>6 DEF Start, Sweep, SweepJob, SweepDone, Receive, Load, Reconnect
<1>7. ASSUME NEW w \in Workers, Exit(w) \/ Crash(w) \/ Terminate(w) PROVE FALSE
  BY <1>7 DEF Exit, Crash, Terminate, Down
<1>8. ~UNCHANGED vars
  BY DEF vars
<1> QED BY <1>1, <1>5, <1>6, <1>7, <1>8 DEF Next, Run, Fail

\* Whatever the service instances, the CLI, the API and the faults do, they move the
\* jobs as JobLifecycle says: its gate, its audit trail and its completed jobs are
\* those of the running system.
THEOREM ServiceImplements == Spec => JL!Spec
<1>1. Init => JL!Init
  BY DEF Init
<1> QED BY <1>1, Invariance, Simulation, PTL DEF Spec, JL!Spec
=============================================================================
