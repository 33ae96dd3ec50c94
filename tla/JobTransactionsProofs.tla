------------------------ MODULE JobTransactionsProofs ------------------------
(***************************************************************************)
(* Proofs about JobTransactions, for any number of connections, jobs and   *)
(* attempts: what a transaction read is still so when it writes, and so    *)
(* the interleaved statements implement JobLifecycle, whose run history    *)
(* they need and preserve.                                                 *)
(***************************************************************************)
EXTENDS JobTransactions, JobRowsProofs

-----------------------------------------------------------------------------
(* The inductive invariant.  View says of one transaction t, of connection   *)
(* c, how it stands to its job: the step s, the history h, the lock l.       *)

TargetOf(t) == IF t.op = "restart" THEN "extract" ELSE JL!NextStep(t.seen)

RowOf(t, h) ==
    IF t.op = "continue" THEN JL!RunningRun(h, TargetOf(t)) ELSE JL!PendingRun(h, TargetOf(t))

View(c, t, s, h, l) ==
    /\ t.pc # "inserted" => t.row = Idle
    /\ t.pc # "begun" => l = c /\ s = t.seen /\ t.seen \in Allowed(t.op)
    /\ t.pc \in {"checked", "updated"} => t.op # "restart"
    /\ t.pc \in {"checked", "updated", "inserted"} /\ t.op # "restart" =>
          JL!LatestSucceeded(h, t.seen)
    /\ t.pc = "inserted" =>
          /\ ~JL!HasActive(h)
          /\ TargetOf(t) # "completed"
          /\ t.op = "restart" => Len(h) < MaxAttempts
          /\ t.row = RowOf(t, h)

Sound(c) ==
    tx[c] # Idle => View(c, tx[c], step[tx[c].job], runs[tx[c].job], lock[tx[c].job])

IInv == TypeOK /\ JL!HistoryExplainsStep /\ \A c \in Clients : Sound(c)

\* What is known of a connection with a transaction.
LEMMA Open ==
    ASSUME IInv, NEW c \in Clients, tx[c] # Idle
    PROVE  /\ tx[c] \in Transaction
           /\ View(c, tx[c], step[tx[c].job], runs[tx[c].job], lock[tx[c].job])
BY DEF IInv, TypeOK, Sound

\* The run a transition inserts is a run.
LEMMA InsertedRowIsRun ==
    ASSUME NEW s, NEW h \in Seq(JL!Run), JL!History(s, h), ~JL!HasActive(h), NEW t,
           t.op \in Operations, t.seen \in Allowed(t.op), s = t.seen,
           TargetOf(t) # "completed", t.op # "restart" => JL!LatestSucceeded(h, t.seen)
    PROVE  RowOf(t, h) \in JL!Run
<1>1. CASE t.op = "restart"
  BY <1>1, SameWords, MaxAttemptsAssumption, AbortStatusesAssumption, P!ExtractEnqueued
     DEF RowOf, TargetOf, Allowed
<1>2. CASE t.op # "restart"
  <2>1. s \in {"extract", "chunk"}
    BY <1>2 DEF TargetOf, Allowed, Operations, JL!NextStep
  <2>2. RowOf(t, h) \in {P!PendingRun(h, P!NextStep(s)), P!RunningRun(h, P!NextStep(s))}
    BY <1>2, SameWords DEF RowOf, TargetOf
  <2>3. P!History(s, h) /\ P!LatestSucceeded(h, s) /\ ~P!HasActive(h) /\ h \in Seq(P!Run)
    BY <1>2, SameWords
  <2>4. RowOf(t, h) \in P!Run
    BY <2>1, <2>2, <2>3, MaxAttemptsAssumption, AbortStatusesAssumption, P!NextStepAdded
  <2> QED BY <2>4, SameWords
<1> QED BY <1>1, <1>2

\* A connection keeps its view when neither it nor its job changes.
LEMMA Unmoved ==
    ASSUME IInv, NEW c \in Clients, tx'[c] = tx[c],
           tx[c] # Idle => /\ step'[tx[c].job] = step[tx[c].job]
                           /\ runs'[tx[c].job] = runs[tx[c].job]
                           /\ tx[c].pc # "begun" => lock'[tx[c].job] = lock[tx[c].job]
    PROVE  Sound(c)'
<1> SUFFICES ASSUME tx[c] # Idle
             PROVE  View(c, tx[c], step[tx[c].job], runs[tx[c].job], lock'[tx[c].job])
  BY DEF Sound
<1>1. View(c, tx[c], step[tx[c].job], runs[tx[c].job], lock[tx[c].job])
  BY Open
<1> QED BY <1>1 DEF View

-----------------------------------------------------------------------------
(* The steps. *)

\* Ending a transaction without a commit.
LEMMA RollbackStep ==
    ASSUME IInv, NEW c \in Clients, Rollback(c)
    PROVE  IInv'
<1>1. TypeOK'
  BY DEF IInv, TypeOK, Rollback, JL!TypeOK
<1>2. JL!HistoryExplainsStep'
  BY DEF IInv, Rollback, JL!HistoryExplainsStep
<1>3. ASSUME NEW d \in Clients PROVE Sound(d)'
  <2>1. CASE d = c
    BY <2>1 DEF IInv, TypeOK, Rollback, Sound
  <2>2. CASE d # c
    <3>1. tx'[d] = tx[d]
      BY <2>2 DEF IInv, TypeOK, Rollback
    <3>2. ASSUME tx[d] # Idle, tx[d].pc # "begun"
          PROVE  lock'[tx[d].job] = lock[tx[d].job]
      <4>1. lock[tx[d].job] = d /\ tx[d].job \in Jobs
        BY <3>2, Open DEF View, Transaction
      <4> QED BY <2>2, <4>1 DEF Rollback
    <3> QED BY <3>1, <3>2, Unmoved DEF Rollback
  <2> QED BY <2>1, <2>2
<1> QED BY <1>1, <1>2, <1>3 DEF IInv

\* A statement of c that changes no row: the lock of c's job may pass to c.
LEMMA OwnStep ==
    ASSUME IInv, NEW c \in Clients, tx[c] # Idle, NEW t \in Transaction, t.job = tx[c].job,
           tx' = [tx EXCEPT ![c] = t], UNCHANGED <<step, runs>>,
           \/ UNCHANGED lock
           \/ lock[t.job] \in {Nobody, c} /\ lock' = [lock EXCEPT ![t.job] = c],
           View(c, t, step[t.job], runs[t.job], lock'[t.job])
    PROVE  IInv'
<1>1. TypeOK'
  BY DEF IInv, TypeOK, JL!TypeOK
<1>2. JL!HistoryExplainsStep'
  BY DEF IInv, JL!HistoryExplainsStep
<1>3. ASSUME NEW d \in Clients PROVE Sound(d)'
  <2>1. CASE d = c
    BY <2>1 DEF IInv, TypeOK, Sound
  <2>2. CASE d # c
    <3>1. tx'[d] = tx[d]
      BY <2>2 DEF IInv, TypeOK
    <3>2. ASSUME tx[d] # Idle, tx[d].pc # "begun"
          PROVE  lock'[tx[d].job] = lock[tx[d].job]
      <4>1. lock[tx[d].job] = d /\ tx[d].job \in Jobs
        BY <3>2, Open DEF View, Transaction
      <4> QED BY <2>2, <4>1, NobodyAssumption DEF IInv, TypeOK
    <3> QED BY <3>1, <3>2, Unmoved
  <2> QED BY <2>1, <2>2
<1> QED BY <1>1, <1>2, <1>3 DEF IInv

LEMMA BeginStep ==
    ASSUME IInv, NEW c \in Clients, NEW op \in Operations, NEW j \in Jobs, Begin(c, op, j)
    PROVE  IInv'
<1> DEFINE t == [op |-> op, job |-> j, pc |-> "begun", seen |-> "unknown", row |-> Idle]
<1>1. t \in Transaction
  BY DEF Transaction
<1>2. tx' = [tx EXCEPT ![c] = t] /\ UNCHANGED <<step, runs, lock>> /\ tx[c] = Idle
  BY DEF Begin
<1>3. TypeOK' /\ JL!HistoryExplainsStep'
  BY <1>1, <1>2 DEF IInv, TypeOK, JL!TypeOK, JL!HistoryExplainsStep
<1>4. ASSUME NEW d \in Clients PROVE Sound(d)'
  <2>1. CASE d = c
    BY <1>2, <2>1 DEF IInv, TypeOK, Sound, View
  <2>2. CASE d # c
    <3>1. tx'[d] = tx[d]
      BY <1>2, <2>2 DEF IInv, TypeOK
    <3> QED BY <1>2, <3>1, Unmoved
  <2> QED BY <2>1, <2>2
<1> QED BY <1>3, <1>4 DEF IInv

LEMMA LockJobStep ==
    ASSUME IInv, NEW c \in Clients, LockJob(c)
    PROVE  IInv'
<1>1. tx[c] # Idle /\ tx[c].pc = "begun"
  BY DEF LockJob, InTx, Idle
<1>2. tx[c] \in Transaction /\ View(c, tx[c], step[tx[c].job], runs[tx[c].job], lock[tx[c].job])
  BY <1>1, Open
<1>3. CASE step[tx[c].job] \in Allowed(tx[c].op)
  <2> DEFINE t == [tx[c] EXCEPT !.pc = "locked", !.seen = step[tx[c].job]]
  <2>1. /\ lock[t.job] = Nobody /\ lock' = [lock EXCEPT ![t.job] = c]
        /\ tx' = [tx EXCEPT ![c] = t] /\ UNCHANGED <<step, runs>> /\ t.job = tx[c].job
    BY <1>2, <1>3 DEF LockJob, Transaction
  <2>2. t \in Transaction
    BY <1>2, <1>3 DEF Transaction, Allowed, JL!JobSteps, JL!RunSteps
  <2>3. View(c, t, step[t.job], runs[t.job], lock'[t.job])
    BY <1>1, <1>2, <1>3, <2>1 DEF View, Transaction, IInv, TypeOK
  <2> HIDE DEF t
  <2> QED BY <1>1, <2>1, <2>2, <2>3, OwnStep
<1>4. CASE step[tx[c].job] \notin Allowed(tx[c].op)
  BY <1>4, RollbackStep DEF LockJob
<1> QED BY <1>3, <1>4

LEMMA CheckLatestRunStep ==
    ASSUME IInv, NEW c \in Clients, CheckLatestRun(c)
    PROVE  IInv'
<1>1. tx[c] # Idle /\ tx[c].pc = "locked" /\ tx[c].op # "restart"
  BY DEF CheckLatestRun, InTx, Idle
<1>2. tx[c] \in Transaction /\ View(c, tx[c], step[tx[c].job], runs[tx[c].job], lock[tx[c].job])
  BY <1>1, Open
<1>3. CASE JL!LatestSucceeded(runs[tx[c].job], tx[c].seen)
  <2> DEFINE t == [tx[c] EXCEPT !.pc = "checked"]
  <2>1. /\ t \in Transaction /\ t.job = tx[c].job
        /\ tx' = [tx EXCEPT ![c] = t] /\ UNCHANGED <<step, runs, lock>>
    BY <1>2, <1>3 DEF CheckLatestRun, Transaction
  <2>2. View(c, t, step[t.job], runs[t.job], lock'[t.job])
    BY <1>1, <1>2, <1>3, <2>1 DEF View, Transaction
  <2> HIDE DEF t
  <2> QED BY <1>1, <2>1, <2>2, OwnStep
<1>4. CASE ~JL!LatestSucceeded(runs[tx[c].job], tx[c].seen)
  BY <1>4, RollbackStep DEF CheckLatestRun
<1> QED BY <1>3, <1>4

LEMMA UpdateStepStep ==
    ASSUME IInv, NEW c \in Clients, UpdateStep(c)
    PROVE  IInv'
<1>1. tx[c] # Idle /\ tx[c].pc = "checked"
  BY DEF UpdateStep, InTx, Idle
<1>2. tx[c] \in Transaction /\ View(c, tx[c], step[tx[c].job], runs[tx[c].job], lock[tx[c].job])
  BY <1>1, Open
<1> DEFINE t == [tx[c] EXCEPT !.pc = "updated"]
<1>3. /\ t \in Transaction /\ t.job = tx[c].job
      /\ tx' = [tx EXCEPT ![c] = t] /\ UNCHANGED <<step, runs>>
      /\ lock[t.job] \in {Nobody, c} /\ lock' = [lock EXCEPT ![t.job] = c]
  BY <1>2 DEF UpdateStep, Transaction
<1>4. View(c, t, step[t.job], runs[t.job], lock'[t.job])
  BY <1>1, <1>2, <1>3 DEF View, Transaction, IInv, TypeOK
<1> HIDE DEF t
<1> QED BY <1>1, <1>3, <1>4, OwnStep

LEMMA InsertRunStep ==
    ASSUME IInv, NEW c \in Clients, InsertRun(c)
    PROVE  IInv'
<1> DEFINE j == tx[c].job
           h == runs[j]
           refused == JL!HasActive(h) \/ (tx[c].op = "restart" /\ Len(h) >= MaxAttempts)
<1>1. /\ tx[c] # Idle
      /\ \/ tx[c].pc = "locked" /\ tx[c].op = "restart"
         \/ tx[c].pc = "updated" /\ Target(c) # "completed"
  BY DEF InsertRun, InTx, Idle
<1>2. tx[c] \in Transaction /\ View(c, tx[c], step[j], h, lock[j])
  BY <1>1, Open
<1>3. CASE refused
  BY <1>3, RollbackStep DEF InsertRun
<1>4. CASE ~refused
  <2> DEFINE t == [tx[c] EXCEPT !.pc = "inserted", !.row = RowOf(tx[c], h)]
  <2>1. Target(c) = TargetOf(tx[c]) /\ TargetOf(tx[c]) # "completed"
    BY <1>1 DEF Target, TargetOf
  <2>2. tx' = [tx EXCEPT ![c] = t] /\ UNCHANGED <<step, runs, lock>>
    BY <1>4, <2>1 DEF InsertRun, RowOf
  <2>3. j \in Jobs /\ h \in Seq(JL!Run) /\ JL!History(step[j], h)
    BY <1>2 DEF Transaction, IInv, TypeOK, JL!TypeOK, JL!HistoryExplainsStep
  <2>4. /\ tx[c].op \in Operations /\ tx[c].seen \in Allowed(tx[c].op) /\ step[j] = tx[c].seen
        /\ tx[c].op # "restart" => JL!LatestSucceeded(h, tx[c].seen)
        /\ lock[j] = c
    BY <1>1, <1>2 DEF View, Transaction
  <2>5. RowOf(tx[c], h) \in JL!Run
    BY <1>4, <2>1, <2>3, <2>4, InsertedRowIsRun
  <2>6. t \in Transaction
    BY <1>2, <2>5 DEF Transaction
  <2>7. /\ t.job = j /\ t.op = tx[c].op /\ t.seen = tx[c].seen
        /\ t.pc = "inserted" /\ t.row = RowOf(tx[c], h)
    BY <1>2 DEF Transaction
  <2>8. RowOf(t, h) = RowOf(tx[c], h) /\ TargetOf(t) = TargetOf(tx[c])
    BY <2>7 DEF RowOf, TargetOf
  <2> HIDE DEF t
  <2>9. Len(h) \in Nat
    BY <2>3
  <2>10. View(c, t, step[t.job], runs[t.job], lock'[t.job])
    BY <1>4, <2>1, <2>2, <2>4, <2>7, <2>8, <2>9, MaxAttemptsAssumption DEF View
  <2> QED BY <1>1, <2>2, <2>6, <2>7, <2>10, OwnStep
<1> QED BY <1>3, <1>4

-----------------------------------------------------------------------------
(* What is committed. *)

\* COMMIT is one step of JobLifecycle: the transition the transaction set out
\* to make, decided on rows that are still as it read them.
LEMMA CommitIsTransition ==
    ASSUME IInv, NEW c \in Clients, Commit(c)
    PROVE  JL!Next
<1> DEFINE t == tx[c]
           j == t.job
           h == runs[j]
<1>1. /\ t # Idle
      /\ \/ t.pc = "inserted"
         \/ t.pc = "updated" /\ TargetOf(t) = "completed"
      /\ step' = [step EXCEPT ![j] = TargetOf(t)]
      /\ runs' = IF t.row = Idle THEN runs ELSE [runs EXCEPT ![j] = Append(@, t.row)]
  BY DEF Commit, InTx, Idle, Target, TargetOf
<1>2. t \in Transaction /\ View(c, t, step[j], h, lock[j])
  BY <1>1, Open
<1>3. /\ j \in Jobs /\ t.op \in Operations /\ step[j] = t.seen /\ t.seen \in Allowed(t.op)
      /\ h \in Seq(JL!Run) /\ JL!History(step[j], h)
      /\ step \in [Jobs -> JL!JobSteps \cup {"absent", "deleted"}]
  BY <1>1, <1>2 DEF View, Transaction, IInv, TypeOK, JL!TypeOK, JL!HistoryExplainsStep
<1>4. CASE t.pc = "inserted"
  <2>1. /\ ~JL!HasActive(h) /\ t.row = RowOf(t, h) /\ TargetOf(t) # "completed"
        /\ t.op = "restart" => Len(h) < MaxAttempts
        /\ t.op # "restart" => JL!LatestSucceeded(h, t.seen)
    BY <1>2, <1>4 DEF View
  <2>2. t.row # Idle
    <3>1. "status" \in DOMAIN RowOf(t, h)
      BY DEF RowOf, JL!RunningRun, JL!PendingRun
    <3>2. "status" \notin DOMAIN Idle
      BY DEF Idle
    <3> QED BY <2>1, <3>1, <3>2
  <2>3. runs' = [runs EXCEPT ![j] = Append(@, RowOf(t, h))]
    BY <1>1, <2>1, <2>2
  <2>4. CASE t.op = "validate"
    <3>1. JL!ValidateJob(j)
      BY <1>1, <1>3, <2>1, <2>3, <2>4 DEF JL!ValidateJob, JL!AddRun, RowOf, TargetOf, Allowed
    <3> QED BY <1>3, <3>1 DEF JL!Next
  <2>5. CASE t.op = "restart"
    <3>1. step' = step
      BY <1>1, <1>3, <2>5 DEF TargetOf, Allowed
    <3>2. JL!RestartJob(j)
      BY <1>3, <2>1, <2>3, <2>5, <3>1 DEF JL!RestartJob, JL!AddRun, RowOf, TargetOf, Allowed
    <3> QED BY <1>3, <3>2 DEF JL!Next
  <2>6. CASE t.op = "continue"
    <3>1. JL!ContinueJob(j)
      BY <1>1, <1>3, <2>1, <2>3, <2>6 DEF JL!ContinueJob, JL!AddRun, RowOf, TargetOf, Allowed
    <3> QED BY <1>3, <3>1 DEF JL!Next
  <2> QED BY <1>3, <2>4, <2>5, <2>6 DEF Operations
<1>5. CASE t.pc = "updated" /\ TargetOf(t) = "completed"
  <2>1. /\ t.row = Idle /\ t.op # "restart" /\ JL!LatestSucceeded(h, t.seen)
    BY <1>2, <1>5 DEF View
  <2>2. t.seen = "embed" /\ t.op = "continue" /\ JL!NextStep(t.seen) = "completed"
    BY <1>3, <1>5, <2>1 DEF TargetOf, Allowed, Operations, JL!NextStep
  <2>3. JL!ContinueJob(j)
    BY <1>1, <1>3, <2>1, <2>2 DEF JL!ContinueJob, TargetOf
  <2> QED BY <1>3, <2>3 DEF JL!Next
<1> QED BY <1>1, <1>4, <1>5

\* Ends of transactions and statements touch the rows of one job.
LEMMA OthersKept ==
    ASSUME IInv, NEW j \in Jobs,
           \A k \in Jobs \ {j} : step'[k] = step[k] /\ runs'[k] = runs[k],
           NEW c \in Clients, tx'[c] = tx[c],
           tx[c] # Idle /\ tx[c].pc # "begun" =>
               tx[c].job # j /\ lock'[tx[c].job] = lock[tx[c].job]
    PROVE  Sound(c)'
<1>1. CASE tx[c] = Idle
  BY <1>1 DEF Sound
<1>2. CASE tx[c] # Idle /\ tx[c].pc = "begun"
  <2>1. View(c, tx[c], step[tx[c].job], runs[tx[c].job], lock[tx[c].job])
    BY <1>2, Open
  <2> QED BY <1>2, <2>1 DEF Sound, View
<1>3. CASE tx[c] # Idle /\ tx[c].pc # "begun"
  <2>1. tx[c].job \in Jobs
    BY <1>3, Open DEF Transaction
  <2> QED BY <1>3, <2>1, Unmoved
<1> QED BY <1>1, <1>2, <1>3

LEMMA CommitStep ==
    ASSUME IInv, NEW c \in Clients, Commit(c)
    PROVE  IInv'
<1> DEFINE j == tx[c].job
<1>1. /\ tx[c] # Idle /\ tx[c].pc # "begun"
      /\ step' = [step EXCEPT ![j] = Target(c)]
      /\ runs' = IF tx[c].row = Idle THEN runs ELSE [runs EXCEPT ![j] = Append(@, tx[c].row)]
      /\ tx' = [tx EXCEPT ![c] = Idle]
      /\ lock' = [k \in Jobs |-> IF lock[k] = c THEN Nobody ELSE lock[k]]
  BY DEF Commit, InTx, Idle
<1>2. j \in Jobs /\ lock[j] = c
  BY <1>1, Open DEF Transaction, View
<1>3. JL!TypeOK' /\ JL!HistoryExplainsStep'
  BY CommitIsTransition, LifecycleStep DEF IInv, TypeOK
<1>4. TypeOK'
  BY <1>1, <1>3 DEF IInv, TypeOK
<1>5. \A k \in Jobs \ {j} : step'[k] = step[k] /\ runs'[k] = runs[k]
  BY <1>1 DEF IInv, TypeOK, JL!TypeOK
<1>6. ASSUME NEW d \in Clients PROVE Sound(d)'
  <2>1. CASE d = c
    BY <1>1, <2>1 DEF IInv, TypeOK, Sound
  <2>2. CASE d # c
    <3>1. tx'[d] = tx[d]
      BY <1>1, <2>2 DEF IInv, TypeOK
    <3>2. ASSUME tx[d] # Idle, tx[d].pc # "begun"
          PROVE  tx[d].job # j /\ lock'[tx[d].job] = lock[tx[d].job]
      <4>1. lock[tx[d].job] = d /\ tx[d].job \in Jobs
        BY <3>2, Open DEF View, Transaction
      <4> QED BY <1>1, <1>2, <2>2, <4>1
    <3> HIDE DEF j
    <3> QED BY <1>2, <1>5, <3>1, <3>2, OthersKept
  <2> QED BY <2>1, <2>2
<1> QED BY <1>3, <1>4, <1>6 DEF IInv

\* A statement outside the transactions is a step of JobLifecycle.  It begins a
\* job, or it changes the status of an active run.
LEMMA SingleEffect ==
    ASSUME IInv, NEW j \in Jobs, Single(j)
    PROVE  /\ JL!Next
           /\ \A k \in Jobs \ {j} : step'[k] = step[k] /\ runs'[k] = runs[k]
           /\ step[j] = "absent" \/ (step' = step /\ JL!HasActive(runs[j]))
<1>0. runs \in [Jobs -> Seq(JL!Run)] /\ step \in [Jobs -> JL!JobSteps \cup {"absent", "deleted"}]
  BY DEF IInv, TypeOK, JL!TypeOK
<1>1. CASE JL!StartJob(j)
  <2>1. JL!Next
    BY <1>1 DEF JL!Next
  <2> QED BY <1>0, <1>1, <2>1 DEF JL!StartJob, JL!AddRun
<1>2. CASE JL!ClaimPendingRun(j)
  <2>1. JL!Next
    BY <1>2 DEF JL!Next
  <2>2. PICK i \in DOMAIN runs[j] : /\ runs[j][i].status = "pending"
                                    /\ runs' = [runs EXCEPT ![j] = runs'[j]]
    BY <1>0, <1>2 DEF JL!ClaimPendingRun
  <2>3. JL!HasActive(runs[j])
    BY <1>0, <2>2 DEF JL!HasActive, JL!Active
  <2> QED BY <1>0, <1>2, <2>1, <2>2, <2>3 DEF JL!ClaimPendingRun
<1>3. ASSUME NEW i \in DOMAIN runs[j], NEW outcome \in {"succeeded", "failed"},
             JL!FinishRun(j, i, outcome)
      PROVE  /\ JL!Next
             /\ \A k \in Jobs \ {j} : step'[k] = step[k] /\ runs'[k] = runs[k]
             /\ step' = step /\ JL!HasActive(runs[j])
  <2>1. JL!Next
    BY <1>3 DEF JL!Next
  <2>2. JL!HasActive(runs[j])
    BY <1>0, <1>3 DEF JL!FinishRun, JL!HasActive, JL!Active
  <2> QED BY <1>0, <1>3, <2>1, <2>2 DEF JL!FinishRun
<1>4. CASE JL!AbortRun(j)
  <2>1. JL!Next
    BY <1>4 DEF JL!Next
  <2>2. PICK i \in DOMAIN runs[j] : /\ runs[j][i].status \in AbortStatuses
                                    /\ runs' = [runs EXCEPT ![j] = runs'[j]]
    BY <1>0, <1>4 DEF JL!AbortRun
  <2>3. JL!HasActive(runs[j])
    <3>1. runs[j][i].status \in JL!Active
      BY <2>2, AbortStatusesAssumption DEF JL!Active
    <3>2. i \in 1..Len(runs[j])
      BY <1>0
    <3> QED BY <3>1, <3>2 DEF JL!HasActive
  <2> QED BY <1>0, <1>4, <2>1, <2>2, <2>3 DEF JL!AbortRun
<1> QED BY <1>1, <1>2, <1>3, <1>4 DEF Single

LEMMA SingleStep ==
    ASSUME IInv, NEW j \in Jobs, Single(j)
    PROVE  IInv'
<1>1. JL!TypeOK' /\ JL!HistoryExplainsStep'
  BY SingleEffect, LifecycleStep DEF IInv, TypeOK
<1>2. UNCHANGED <<lock, tx>>
  BY DEF Single
<1>3. TypeOK'
  BY <1>1, <1>2 DEF IInv, TypeOK
<1>4. ASSUME NEW c \in Clients PROVE Sound(c)'
  <2>1. CASE tx[c] # Idle /\ tx[c].pc # "begun" /\ tx[c].job = j
    <3>1. View(c, tx[c], step[j], runs[j], lock[j]) /\ tx[c] \in Transaction
      BY <2>1, Open
    <3>2. step[j] \in JL!JobSteps /\ step[j] # "absent"
      BY <2>1, <3>1 DEF View, Allowed, JL!JobSteps, JL!RunSteps
    <3>3. step' = step /\ JL!HasActive(runs[j])
      BY <3>2, SingleEffect
    <3>4. runs[j] \in Seq(JL!Run) /\ JL!History(step[j], runs[j])
      BY DEF IInv, TypeOK, JL!TypeOK, JL!HistoryExplainsStep
    <3>5. ~JL!LatestSucceeded(runs[j], tx[c].seen)
      BY <3>2, <3>3, <3>4, SucceededIsNotActive
    <3>6. View(c, tx[c], step[j], runs'[j], lock[j])
      BY <3>1, <3>3, <3>5 DEF View
    <3> QED BY <1>2, <2>1, <3>3, <3>6 DEF Sound
  <2>2. CASE ~(tx[c] # Idle /\ tx[c].pc # "begun" /\ tx[c].job = j)
    BY <1>2, <2>2, SingleEffect, OthersKept
  <2> QED BY <2>1, <2>2
<1> QED BY <1>1, <1>3, <1>4 DEF IInv

LEMMA DeleteStep ==
    ASSUME IInv, NEW j \in Jobs, DeleteJob(j)
    PROVE  IInv'
<1>1. JL!Next
  BY DEF DeleteJob, JL!Next
<1>2. JL!TypeOK' /\ JL!HistoryExplainsStep'
  BY <1>1, LifecycleStep DEF IInv, TypeOK
<1>3. UNCHANGED <<lock, tx>> /\ lock[j] = Nobody
  BY DEF DeleteJob
<1>4. \A k \in Jobs \ {j} : step'[k] = step[k] /\ runs'[k] = runs[k]
  BY DEF DeleteJob, JL!DeleteJob, IInv, TypeOK, JL!TypeOK
<1>5. TypeOK'
  BY <1>2, <1>3 DEF IInv, TypeOK
<1>6. ASSUME NEW c \in Clients PROVE Sound(c)'
  <2>1. tx[c] # Idle /\ tx[c].pc # "begun" => lock[tx[c].job] = c
    BY Open DEF View
  <2> QED BY <1>3, <1>4, <2>1, NobodyAssumption, OthersKept
<1> QED BY <1>2, <1>5, <1>6 DEF IInv

-----------------------------------------------------------------------------
(* Invariance and refinement. *)

LEMMA InitIInv == Init => IInv
<1> SUFFICES ASSUME Init PROVE IInv
  OBVIOUS
<1>1. JL!Init
  BY DEF Init
<1>2. JL!TypeOK /\ JL!HistoryExplainsStep
  BY <1>1, SameMachine, MaxAttemptsAssumption, AbortStatusesAssumption, P!InitIInv
<1>3. TypeOK /\ \A c \in Clients : Sound(c)
  BY <1>2 DEF Init, TypeOK, Sound
<1> QED BY <1>2, <1>3 DEF IInv

LEMMA NextIInv == IInv /\ [Next]_vars => IInv'
<1> SUFFICES ASSUME IInv, [Next]_vars PROVE IInv'
  OBVIOUS
<1>1. CASE UNCHANGED vars
  BY <1>1 DEF vars, IInv, TypeOK, JL!TypeOK, JL!HistoryExplainsStep, Sound
<1>2. ASSUME NEW c \in Clients, Statement(c) PROVE IInv'
  BY <1>2, LockJobStep, CheckLatestRunStep, UpdateStepStep, InsertRunStep, CommitStep
     DEF Statement
<1> QED BY <1>1, <1>2, BeginStep, RollbackStep, SingleStep, DeleteStep DEF Next

\* Every step is a step of JobLifecycle or changes no row.
LEMMA Simulation == IInv /\ [Next]_vars => [JL!Next]_(JL!lifecycleVars)
<1> SUFFICES ASSUME IInv, [Next]_vars PROVE JL!Next \/ UNCHANGED <<step, runs>>
  BY DEF JL!lifecycleVars
<1>1. ASSUME NEW c \in Clients, Statement(c) PROVE JL!Next \/ UNCHANGED <<step, runs>>
  <2>1. CASE Commit(c)
    BY <2>1, CommitIsTransition
  <2>2. CASE LockJob(c) \/ CheckLatestRun(c) \/ UpdateStep(c) \/ InsertRun(c)
    BY <2>2 DEF LockJob, CheckLatestRun, UpdateStep, InsertRun, Rollback
  <2> QED BY <1>1, <2>1, <2>2 DEF Statement
<1>2. ASSUME NEW j \in Jobs, Single(j) \/ DeleteJob(j) PROVE JL!Next
  BY <1>2, SingleEffect DEF DeleteJob, JL!Next
<1> QED BY <1>1, <1>2 DEF Next, Begin, Rollback, vars

LEMMA Invariance == Spec => []IInv
BY InitIInv, NextIInv, PTL DEF Spec

\* Rows, locks and transactions stay in their sets: a connection only ever
\* inserts rows the schema allows.
THEOREM TypeCorrect == Spec => []TypeOK
<1>1. IInv => TypeOK
  BY DEF IInv
<1> QED BY Invariance, <1>1, PTL

\* However many connections interleave their statements with claims, finishes,
\* aborts and deletions, what a transition read under the job's lock still holds
\* when it inserts its run.
THEOREM ReadsHold == Spec => []ReadsStayTrue
<1>1. IInv => ReadsStayTrue
  <2> SUFFICES ASSUME IInv, NEW c \in Clients, tx[c] # Idle, tx[c].pc # "begun"
               PROVE  LET h == runs[tx[c].job]
                      IN  /\ step[tx[c].job] = tx[c].seen
                          /\ tx[c].pc # "locked" /\ tx[c].op # "restart" =>
                                JL!LatestSucceeded(h, tx[c].seen)
                          /\ tx[c].pc = "inserted" =>
                                /\ ~JL!HasActive(h)
                                /\ tx[c].row.attempt = JL!NextAttempt(h, tx[c].row.step)
    BY DEF ReadsStayTrue
  <2>1. tx[c] \in Transaction
        /\ View(c, tx[c], step[tx[c].job], runs[tx[c].job], lock[tx[c].job])
    BY Open
  <2>2. tx[c].pc \in {"locked", "checked", "updated", "inserted"}
    BY <2>1 DEF Transaction
  <2> QED BY <2>1, <2>2 DEF View, RowOf, JL!RunningRun, JL!PendingRun
<1> QED BY Invariance, <1>1, PTL

\* validate_job, restart_job and continue_job, taken apart into their statements,
\* behave as the single steps of JobLifecycle.
THEOREM Implements == Spec => ImplementsJobLifecycle
<1>1. Init => JL!Init
  BY DEF Init
<1> QED BY <1>1, Invariance, Simulation, PTL DEF Spec, ImplementsJobLifecycle, JL!Spec
=============================================================================
