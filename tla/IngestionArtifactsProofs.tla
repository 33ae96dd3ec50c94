----------------------- MODULE IngestionArtifactsProofs -----------------------
(***************************************************************************)
(* Proofs about IngestionArtifacts, for any number of jobs, workers,       *)
(* editing sessions and texts.  The inductive invariant has four layers:   *)
(* which run a worker executes, how the sessions share their files, what a *)
(* worker in the middle of a body knows, and what is in the tables of a    *)
(* job none of whose runs was aborted, which has one worker at most.       *)
(***************************************************************************)
EXTENDS IngestionArtifacts, JobRowsProofs

-----------------------------------------------------------------------------
(* Layer 1: the worker and the run it executes. *)

Held == WorkerState \ {Free}

\* How a worker stands to its run, while the job exists.
Owns(w) ==
    LET j == Job(w)
        i == worker[w].run
    IN  /\ i \in 1..Len(runs[j])
        /\ ~At(w, "continue") => runs[j][i].status \in {"running", "aborted"}
        /\ ~At(w, "continue") /\ ~At(w, "load") /\ runs[j][i].status = "running" =>
              worker[w].step = runs[j][i].step
        /\ At(w, "continue") =>
              /\ i = Len(runs[j])
              /\ runs[j][i].status = "succeeded"
              /\ runs[j][i].step = step[j] /\ step[j] \in {"chunk", "embed"}

Engaged(w) ==
    worker[w] # Free =>
        /\ step[Job(w)] # "absent"
        /\ JL!Exists(Job(w)) => Owns(w)

OneDriver ==
    \A v, w \in Workers :
        /\ worker[v] # Free /\ worker[w] # Free
        /\ Job(v) = Job(w) /\ worker[v].run = worker[w].run
        => v = w

Control ==
    /\ Rows
    /\ worker \in [Workers -> WorkerState]
    /\ \A w \in Workers : Engaged(w)
    /\ OneDriver

Others(w) == \A v \in Workers \ {w} : worker'[v] = worker[v]

LEMMA HeldFields ==
    ASSUME Control, NEW w \in Workers, worker[w] # Free
    PROVE  worker[w] \in Held /\ Job(w) \in Jobs /\ worker[w].run \in Nat
           /\ Engaged(w)
BY DEF Control, Held, WorkerState, Job

\* A worker is either free or at one of the places of a held one.
LEMMA AtHeld ==
    ASSUME NEW w \in Workers, NEW p, At(w, p), p # "idle"
    PROVE  worker[w] # Free
BY DEF At, Free

\* A worker that does not move stays engaged: when no row of its job changes, ...
LEMMA KeepSame ==
    ASSUME Control, NEW v \in Workers, worker'[v] = worker[v],
           worker[v] # Free =>
               LET j == Job(v)
               IN  \/ step'[j] = step[j] /\ runs'[j] = runs[j]
                   \/ step'[j] = "deleted"
                   \/ step'[j] = "completed" /\ runs'[j] = runs[j] /\ ~At(v, "continue")
                      /\ step[j] = "embed"
    PROVE  Engaged(v)'
BY DEF Control, Engaged, Owns, Job, At, JL!Exists, JL!JobSteps, JL!RunSteps

\* ... when one run changes that is not the worker's, or is aborted, ...
LEMMA KeepUpdated ==
    ASSUME Control, NEW v \in Workers, worker'[v] = worker[v],
           NEW j \in Jobs, NEW i, NEW s, Updated(j, i, s),
           worker[v] # Free /\ Job(v) = j /\ worker[v].run = i =>
               s = "aborted" /\ runs[j][i].status \in JL!Active
    PROVE  Engaged(v)'
<1>1. CASE worker[v] # Free /\ Job(v) = j
  <2>1. CASE JL!Exists(j)
    <3>1. Owns(v) /\ Len(runs[j]) \in Nat
      BY <1>1, <2>1, JobRow DEF Control, Engaged
    <3>2. Owns(v)'
      BY <1>1, <3>1 DEF Updated, Owns, Job, At, JL!Active
    <3> QED BY <1>1, <3>2 DEF Updated, Engaged, Job, Control
  <2>2. CASE ~JL!Exists(j)
    BY <1>1, <2>2 DEF Updated, Engaged, Job, JL!Exists, Control
  <2> QED BY <2>1, <2>2
<1>2. CASE ~(worker[v] # Free /\ Job(v) = j)
  <2>1. worker[v] # Free => step'[Job(v)] = step[Job(v)] /\ runs'[Job(v)] = runs[Job(v)]
    BY <1>2, HeldFields DEF Updated
  <2> QED BY <2>1, KeepSame
<1> QED BY <1>1, <1>2

\* ... and when its job gets another run.
LEMMA KeepExtended ==
    ASSUME Control, NEW v \in Workers, worker'[v] = worker[v],
           NEW j \in Jobs, NEW s, Extended(j, s),
           worker[v] # Free /\ Job(v) = j => ~At(v, "continue")
    PROVE  Engaged(v)'
<1>1. CASE worker[v] # Free /\ Job(v) = j
  <2>1. JL!Exists(j)
    BY <1>1, JobRow, HeldFields DEF Control, Engaged, Extended, JL!Exists
  <2>2. Owns(v) /\ Len(runs[j]) \in Nat
    BY <1>1, <2>1, JobRow DEF Control, Engaged
  <2>3. Owns(v)'
    BY <1>1, <2>2 DEF Extended, Owns, Job, At
  <2> QED BY <1>1, <2>3 DEF Extended, Engaged, Job, JL!RunSteps
<1>2. CASE ~(worker[v] # Free /\ Job(v) = j)
  <2>1. worker[v] # Free => step'[Job(v)] = step[Job(v)] /\ runs'[Job(v)] = runs[Job(v)]
    BY <1>2, HeldFields DEF Extended
  <2> QED BY <2>1, KeepSame
<1> QED BY <1>1, <1>2

LEMMA RowsKept ==
    ASSUME Control, [JL!Next]_<<step, runs>>
    PROVE  Rows'
BY LifecycleStep DEF Control, Rows

\* One worker moves; the others stay engaged.
LEMMA Together ==
    ASSUME Control, [JL!Next]_<<step, runs>>, worker' \in [Workers -> WorkerState],
           NEW w \in Workers, Others(w), Engaged(w)',
           \A v \in Workers \ {w} : Engaged(v)',
           worker'[w] # Free =>
               \/ /\ worker[w] # Free
                  /\ worker'[w].job = worker[w].job /\ worker'[w].run = worker[w].run
               \/ \A v \in Workers \ {w} : worker[v] # Free =>
                      worker[v].job # worker'[w].job \/ worker[v].run # worker'[w].run
    PROVE  Control'
<1>1. Rows'
  BY RowsKept
<1>2. OneDriver'
  BY DEF Control, OneDriver, Others, Job
<1> QED BY <1>1, <1>2 DEF Control

\* A worker that lets go.
LEMMA ReleaseStep ==
    ASSUME Control, [JL!Next]_<<step, runs>>, NEW w \in Workers, Release(w),
           \A v \in Workers \ {w} : worker'[v] = worker[v] => Engaged(v)'
    PROVE  Control' /\ Others(w) /\ worker'[w] = Free
<1>1. Others(w) /\ worker'[w] = Free /\ worker' \in [Workers -> WorkerState]
  BY DEF Release, Control, Others, WorkerState
<1>2. Engaged(w)'
  BY <1>1 DEF Engaged
<1> QED BY <1>1, <1>2, Together DEF Others

\* A worker that goes on with its run, without a statement on the rows.
LEMMA MoveStep ==
    ASSUME Control, UNCHANGED <<step, runs>>, NEW w \in Workers, worker[w] # Free,
           NEW r \in Held, worker' = [worker EXCEPT ![w] = r],
           r.job = worker[w].job, r.run = worker[w].run,
           ~At(w, "continue"), r.pc \notin {"continue", "load"},
           \/ r.step = worker[w].step /\ ~At(w, "load")
           \/ r.step = step[Job(w)]
    PROVE  Control' /\ Others(w) /\ worker'[w] = r
<1>1. /\ Others(w) /\ worker'[w] = r /\ worker' \in [Workers -> WorkerState]
      /\ r # Free
  BY DEF Control, Others, Held
<1>2. \A v \in Workers \ {w} : Engaged(v)'
  BY <1>1, KeepSame DEF Others
<1>3. Engaged(w)'
  <2>1. CASE JL!Exists(Job(w))
    <3>1. Owns(w) /\ Job(w) \in Jobs
      BY <2>1, HeldFields DEF Engaged
    <3>2. runs[Job(w)][worker[w].run].status = "running" =>
             runs[Job(w)][worker[w].run].step = step[Job(w)]
      BY <3>1, ActiveIsLast DEF Owns, JL!Active, Control
    <3>3. Owns(w)'
      BY <1>1, <3>1, <3>2 DEF Owns, Job, At
    <3> QED BY <1>1, <3>3, HeldFields DEF Engaged, Job
  <2>2. CASE ~JL!Exists(Job(w))
    BY <1>1, <2>2, HeldFields DEF Engaged, Job, JL!Exists
  <2> QED BY <2>1, <2>2
<1> QED BY <1>1, <1>2, <1>3, Together

\* Only the rows move.
LEMMA RowsStep ==
    ASSUME Control, [JL!Next]_<<step, runs>>, worker' = worker,
           \A v \in Workers : worker'[v] = worker[v] => Engaged(v)'
    PROVE  Control'
<1>1. Rows'
  BY RowsKept
<1> QED BY <1>1 DEF Control, OneDriver, Job

-----------------------------------------------------------------------------
(* The tables, and the steps of a worker in layer 1. *)

Tables ==
    /\ transcript \in [Jobs -> Texts \cup {None}]
    /\ chunks \in [Jobs -> [id : Nat \ {0}, text : Texts] \cup {NoChunks}]
    /\ embedded \in [Jobs -> SUBSET Nat]
    /\ lastId \in Nat
    /\ \A j \in Jobs : embedded[j] \subseteq 1..Size(chunks[j]) /\ chunks[j].id <= lastId

LEMMA SizeType ==
    ASSUME Tables, NEW j \in Jobs
    PROVE  Size(chunks[j]) \in Nat /\ chunks[j].id \in Nat
BY ChunkCountAssumption DEF Tables, Size, NoChunks

BodyPlaces == {"body", "extracted", "split", "embed", "store", "succeed", "fail"}

LEMMA GotoMoves ==
    ASSUME Control, NEW w \in Workers, worker[w] # Free, NEW p \in BodyPlaces, Goto(w, p)
    PROVE  /\ [worker[w] EXCEPT !.pc = p] \in Held
           /\ worker' = [worker EXCEPT ![w] = [worker[w] EXCEPT !.pc = p]]
BY HeldFields DEF Control, Held, WorkerState, Goto, BodyPlaces, Free

\* What a step of a body leaves as it is.
Moved(w) ==
    /\ Others(w)
    /\ worker'[w] \in Held
    /\ worker'[w].job = worker[w].job /\ worker'[w].run = worker[w].run
    /\ worker'[w].step = worker[w].step

LEMMA GotoStep ==
    ASSUME Control, UNCHANGED <<step, runs>>, NEW w \in Workers, worker[w] # Free,
           ~At(w, "continue"), ~At(w, "load"), NEW p \in BodyPlaces, Goto(w, p)
    PROVE  Control' /\ Moved(w) /\ worker'[w] = [worker[w] EXCEPT !.pc = p]
<1> DEFINE r == [worker[w] EXCEPT !.pc = p]
<1>1. r \in Held /\ worker' = [worker EXCEPT ![w] = r]
  BY GotoMoves
<1>2. /\ r.job = worker[w].job /\ r.run = worker[w].run /\ r.step = worker[w].step
      /\ r.pc = p
  BY HeldFields DEF Held, WorkerState
<1> HIDE DEF r
<1>3. r.pc \notin {"continue", "load"}
  BY <1>2 DEF BodyPlaces
<1>4. Control' /\ Others(w) /\ worker'[w] = r
  BY <1>1, <1>2, <1>3, MoveStep
<1> QED BY <1>1, <1>2, <1>4 DEF Moved, r

LEMMA BodyFailsStep ==
    ASSUME Control, NEW w \in Workers, BodyFails(w)
    PROVE  Control' /\ Moved(w) /\ worker'[w] = [worker[w] EXCEPT !.pc = "fail"]
BY GotoStep, AtHeld DEF BodyFails, At, BodyPlaces

LEMMA ReadSourceStep ==
    ASSUME Control, NEW w \in Workers, ReadSource(w)
    PROVE  /\ Control' /\ Moved(w)
           /\ \E t \in Texts : worker'[w] = [worker[w] EXCEPT !.pc = "extracted", !.text = t]
<1>1. PICK t \in Texts : worker' = [worker EXCEPT ![w].pc = "extracted", ![w].text = t]
  BY DEF ReadSource
<1>2. worker[w] \in Held /\ ~At(w, "continue") /\ ~At(w, "load") /\ worker[w] # Free
  BY HeldFields, AtHeld DEF ReadSource, At
<1> DEFINE r == [worker[w] EXCEPT !.pc = "extracted", !.text = t]
<1>3. /\ r \in Held /\ worker' = [worker EXCEPT ![w] = r]
      /\ r.job = worker[w].job /\ r.run = worker[w].run /\ r.step = worker[w].step
      /\ r.pc = "extracted"
  BY <1>1, <1>2 DEF Held, WorkerState, Free, Control
<1> HIDE DEF r
<1>4. Control' /\ Others(w) /\ worker'[w] = r
  BY <1>2, <1>3, MoveStep DEF ReadSource
<1> QED BY <1>3, <1>4 DEF Moved, r

LEMMA ReadTranscriptStep ==
    ASSUME Control, Tables, NEW w \in Workers, ReadTranscript(w)
    PROVE  /\ Control' /\ Moved(w)
           /\ \/ worker'[w] = [worker[w] EXCEPT !.pc = "fail"]
              \/ /\ worker'[w] = [worker[w] EXCEPT !.pc = "split", !.text = transcript[Job(w)]]
                 /\ transcript[Job(w)] \in Texts /\ ChunkCount[transcript[Job(w)]] > 0
<1>1. worker[w] \in Held /\ ~At(w, "continue") /\ ~At(w, "load") /\ worker[w] # Free
  BY HeldFields, AtHeld DEF ReadTranscript, At
<1>2. UNCHANGED <<step, runs>>
  BY DEF ReadTranscript
<1>3. CASE Goto(w, "fail")
  BY <1>1, <1>2, <1>3, GotoStep DEF BodyPlaces
<1>4. CASE ~Goto(w, "fail")
  <2> DEFINE t == transcript[Job(w)]
             r == [worker[w] EXCEPT !.pc = "split", !.text = t]
  <2>1. /\ t # None /\ ChunkCount[t] > 0
        /\ worker' = [worker EXCEPT ![w].pc = "split", ![w].text = t]
    BY <1>4 DEF ReadTranscript
  <2>2. t \in Texts
    BY <1>1, <2>1, HeldFields DEF Tables
  <2> HIDE DEF t
  <2>3. /\ r \in Held /\ worker' = [worker EXCEPT ![w] = r]
        /\ r.job = worker[w].job /\ r.run = worker[w].run /\ r.step = worker[w].step
        /\ r.pc = "split"
    BY <1>1, <2>1, <2>2 DEF Held, WorkerState, Free, Control
  <2> HIDE DEF r
  <2>4. Control' /\ Others(w) /\ worker'[w] = r
    BY <1>1, <1>2, <2>3, MoveStep
  <2> QED BY <2>1, <2>2, <2>3, <2>4 DEF Moved, r, t
<1> QED BY <1>3, <1>4

LEMMA ReadChunksStep ==
    ASSUME Control, Tables, NEW w \in Workers, ReadChunks(w)
    PROVE  /\ Control' /\ Moved(w)
           /\ \/ worker'[w] = [worker[w] EXCEPT !.pc = "fail"]
              \/ LET c == chunks[Job(w)]
                 IN  /\ worker'[w] = [worker[w] EXCEPT !.pc = "embed", !.id = c.id,
                                                       !.total = Size(c), !.done = 0]
                     /\ Size(c) > 0
<1>1. worker[w] \in Held /\ ~At(w, "continue") /\ ~At(w, "load") /\ worker[w] # Free
  BY HeldFields, AtHeld DEF ReadChunks, At
<1>2. UNCHANGED <<step, runs>>
  BY DEF ReadChunks
<1>3. CASE Goto(w, "fail")
  BY <1>1, <1>2, <1>3, GotoStep DEF BodyPlaces
<1>4. CASE ~Goto(w, "fail")
  <2> DEFINE c == chunks[Job(w)]
             r == [worker[w] EXCEPT !.pc = "embed", !.id = c.id, !.total = Size(c), !.done = 0]
  <2>1. /\ Size(c) > 0
        /\ worker' = [worker EXCEPT ![w].pc = "embed", ![w].id = c.id,
                                    ![w].total = Size(c), ![w].done = 0]
    BY <1>4 DEF ReadChunks
  <2>2. c.id \in Nat /\ Size(c) \in Nat
    BY <1>1, HeldFields, SizeType
  <2> HIDE DEF c
  <2>3. /\ r \in Held /\ worker' = [worker EXCEPT ![w] = r]
        /\ r.job = worker[w].job /\ r.run = worker[w].run /\ r.step = worker[w].step
        /\ r.pc = "embed"
    BY <1>1, <2>1, <2>2 DEF Held, WorkerState, Free, Control
  <2> HIDE DEF r
  <2>4. Control' /\ Others(w) /\ worker'[w] = r
    BY <1>1, <1>2, <2>3, MoveStep
  <2> QED BY <2>1, <2>3, <2>4 DEF Moved, r, c
<1> QED BY <1>3, <1>4

LEMMA StoreEmbeddingStep ==
    ASSUME Control, NEW w \in Workers, StoreEmbedding(w)
    PROVE  /\ Control' /\ Moved(w)
           /\ \/ worker'[w] = [worker[w] EXCEPT !.pc = "fail"] /\ embedded' = embedded
              \/ \E p \in {"embed", "store", "succeed"} :
                    /\ worker'[w] = [worker[w] EXCEPT !.done = worker[w].done + 1, !.pc = p]
                    /\ p = "succeed" <=> worker[w].done + 1 = worker[w].total
                    /\ chunks[Job(w)].id = worker[w].id
                    /\ embedded' = [embedded EXCEPT ![Job(w)] = @ \cup {worker[w].done + 1}]
<1>1. worker[w] \in Held /\ ~At(w, "continue") /\ ~At(w, "load") /\ worker[w] # Free
  BY HeldFields, AtHeld DEF StoreEmbedding, At
<1>2. UNCHANGED <<step, runs>>
  BY DEF StoreEmbedding
<1>3. CASE chunks[Job(w)].id # worker[w].id
  BY <1>1, <1>2, <1>3, GotoStep DEF BodyPlaces, StoreEmbedding
<1>4. CASE chunks[Job(w)].id = worker[w].id
  <2> DEFINE n == worker[w].done + 1
  <2>1. PICK p \in {"embed", "store", "succeed"} :
          /\ worker' = [worker EXCEPT ![w].done = n, ![w].pc = p]
          /\ p = "succeed" <=> n = worker[w].total
          /\ embedded' = [embedded EXCEPT ![Job(w)] = @ \cup {n}]
    <3> DEFINE q == IF n = worker[w].total THEN "succeed"
                   ELSE IF n % EmbedBatch = 0 THEN "embed" ELSE "store"
    <3>1. q \in {"embed", "store", "succeed"} /\ (q = "succeed" <=> n = worker[w].total)
      OBVIOUS
    <3>2. /\ worker' = [worker EXCEPT ![w].done = n, ![w].pc = q]
          /\ embedded' = [embedded EXCEPT ![Job(w)] = @ \cup {n}]
      BY <1>4 DEF StoreEmbedding
    <3> HIDE DEF q
    <3> QED BY <3>1, <3>2
  <2>2. n \in Nat
    BY <1>1 DEF Held, WorkerState
  <2> HIDE DEF n
  <2> DEFINE r == [worker[w] EXCEPT !.done = n, !.pc = p]
  <2>3. /\ r \in Held /\ worker' = [worker EXCEPT ![w] = r]
        /\ r.job = worker[w].job /\ r.run = worker[w].run /\ r.step = worker[w].step
        /\ r.pc = p
    BY <1>1, <2>1, <2>2 DEF Held, WorkerState, Free, Control
  <2> HIDE DEF r
  <2>4. Control' /\ Others(w) /\ worker'[w] = r
    BY <1>1, <1>2, <2>3, MoveStep
  <2> QED BY <1>4, <2>1, <2>3, <2>4 DEF Moved, r, n
<1> QED BY <1>3, <1>4

LEMMA OtherBodyStep ==
    ASSUME Control, NEW w \in Workers,
           StoreTranscript(w) \/ ReplaceChunks(w) \/ EmbedNextBatch(w)
    PROVE  /\ Control' /\ Moved(w)
           /\ \E p \in {"succeed", "fail", "store"} :
                 Goto(w, p) /\ worker'[w] = [worker[w] EXCEPT !.pc = p]
<1>1. /\ ~At(w, "continue") /\ ~At(w, "load") /\ worker[w] # Free
      /\ UNCHANGED <<step, runs>>
  BY AtHeld DEF StoreTranscript, ReplaceChunks, EmbedNextBatch, At
<1>2. PICK p \in {"succeed", "fail", "store"} : Goto(w, p)
  BY DEF StoreTranscript, ReplaceChunks, EmbedNextBatch
<1> QED BY <1>1, <1>2, GotoStep DEF BodyPlaces

LEMMA BodyStep ==
    ASSUME Control, Tables, NEW w \in Workers, Body(w) \/ BodyFails(w)
    PROVE  Control' /\ Moved(w)
BY BodyFailsStep, ReadSourceStep, ReadTranscriptStep, ReadChunksStep, StoreEmbeddingStep,
   OtherBodyStep DEF Body

-----------------------------------------------------------------------------
(* Layer 1: the other steps. *)

LEMMA LoadStep ==
    ASSUME Control, NEW w \in Workers, Load(w)
    PROVE  /\ Control' /\ Others(w)
           /\ \/ worker'[w] = Free
              \/ /\ worker'[w] = [worker[w] EXCEPT !.pc = "body", !.step = step[Job(w)]]
                 /\ worker'[w] \in Held
<1>1. /\ worker[w] \in Held /\ ~At(w, "continue") /\ worker[w] # Free
      /\ UNCHANGED <<step, runs>>
  BY HeldFields, AtHeld DEF Load, At
<1>2. CASE JL!Exists(Job(w))
  <2> DEFINE s == step[Job(w)]
             r == [worker[w] EXCEPT !.pc = "body", !.step = s]
  <2>1. worker' = [worker EXCEPT ![w].pc = "body", ![w].step = s] /\ s \in JL!JobSteps
    BY <1>2 DEF Load, JL!Exists
  <2> HIDE DEF s
  <2>2. /\ r \in Held /\ worker' = [worker EXCEPT ![w] = r]
        /\ r.job = worker[w].job /\ r.run = worker[w].run /\ r.step = s
        /\ r.pc = "body"
    BY <1>1, <2>1 DEF Held, WorkerState, Free, Control
  <2> HIDE DEF r
  <2>3. Control' /\ Others(w) /\ worker'[w] = r
    BY <1>1, <2>2, MoveStep DEF s
  <2> QED BY <2>2, <2>3 DEF r, s
<1>3. CASE ~JL!Exists(Job(w))
  <2>1. Release(w)
    BY <1>3 DEF Load
  <2>2. ASSUME NEW v \in Workers \ {w}, worker'[v] = worker[v] PROVE Engaged(v)'
    BY <1>1, <2>2, KeepSame
  <2> QED BY <1>1, <2>1, <2>2, ReleaseStep
<1> QED BY <1>2, <1>3

LEMMA CrashStep ==
    ASSUME Control, NEW w \in Workers, Crash(w)
    PROVE  Control' /\ Others(w) /\ worker'[w] = Free
<1>1. UNCHANGED <<step, runs>> /\ Release(w)
  BY DEF Crash
<1>2. ASSUME NEW v \in Workers \ {w}, worker'[v] = worker[v] PROVE Engaged(v)'
  BY <1>1, <1>2, KeepSame
<1> QED BY <1>1, <1>2, ReleaseStep

LEMMA ClaimStep ==
    ASSUME Control, NEW w \in Workers, NEW j \in Jobs, Claim(w, j)
    PROVE  /\ Control' /\ Others(w)
           /\ Updated(j, Len(runs[j]), "running")
           /\ runs[j][Len(runs[j])].status = "pending"
           /\ worker'[w] \in Held /\ worker'[w].pc = "load" /\ worker'[w].job = j
<1> DEFINE r == [pc |-> "load", job |-> j, run |-> Len(runs[j]), step |-> None,
                 text |-> None, id |-> 0, total |-> 0, done |-> 0]
<1>1. Rows /\ JL!ClaimPendingRun(j) /\ worker' = [worker EXCEPT ![w] = r] /\ JL!Next
  BY DEF Control, Claim, JL!Next
<1>2. /\ Updated(j, Len(runs[j]), "running") /\ Len(runs[j]) \in Nat
      /\ runs[j][Len(runs[j])].status = "pending"
  BY <1>1, ClaimUpdates, JobRow
<1>3. step[j] \in JL!RunSteps
  BY <1>1, <1>2, ActiveIsLast DEF Updated, JL!Active
<1>4. /\ r \in Held /\ r.pc = "load" /\ r.job = j /\ r.run = Len(runs[j])
  BY <1>2 DEF Held, WorkerState, Free
<1> HIDE DEF r
<1>5. /\ Others(w) /\ worker'[w] = r /\ worker' \in [Workers -> WorkerState]
  BY <1>1, <1>4 DEF Others, Control, Held
<1>6. ASSUME NEW v \in Workers, worker[v] # Free, Job(v) = j PROVE worker[v].run # Len(runs[j])
  <2>1. Owns(v)
    BY <1>3, <1>6 DEF Control, Engaged, JL!Exists, JL!JobSteps
  <2> QED BY <1>2, <1>6, <2>1 DEF Owns
<1>7. ASSUME NEW v \in Workers \ {w} PROVE Engaged(v)'
  BY <1>2, <1>5, <1>6, KeepUpdated DEF Others
<1>8. Engaged(w)'
  <2>1. Owns(w)'
    BY <1>2, <1>4, <1>5 DEF Updated, Owns, Job, At
  <2> QED BY <1>2, <1>3, <1>4, <1>5, <2>1 DEF Updated, Engaged, Job, JL!RunSteps
<1>9. Control'
  BY <1>1, <1>4, <1>5, <1>6, <1>7, <1>8, Together DEF Job
<1> QED BY <1>2, <1>4, <1>5, <1>9

\* finish records the outcome, or finds the run ended by someone else.
LEMMA FinishStep ==
    ASSUME Control, NEW w \in Workers, Finish(w)
    PROVE  /\ Control' /\ Others(w)
           /\ worker'[w] = Free \/ (worker'[w] = [worker[w] EXCEPT !.pc = "continue"]
                                     /\ worker'[w] \in Held)
           /\ \/ UNCHANGED <<step, runs>>
              \/ /\ runs[Job(w)][worker[w].run].status = "running"
                 /\ worker[w].run \in 1..Len(runs[Job(w)])
                 /\ \/ At(w, "succeed") /\ Updated(Job(w), worker[w].run, "succeeded")
                    \/ Updated(Job(w), worker[w].run, "failed")
<1>1. /\ worker[w] # Free /\ worker[w] \in Held /\ ~At(w, "continue") /\ ~At(w, "load")
      /\ Rows /\ Job(w) \in Jobs
  BY HeldFields, AtHeld DEF Finish, At, Control
<1>2. PICK j \in Jobs : j = Job(w)
  BY <1>1
<1>3. PICK i : i = worker[w].run
  OBVIOUS
<1>4. CASE UNCHANGED <<step, runs>>
  <2>1. CASE Release(w)
    <3>1. ASSUME NEW v \in Workers \ {w}, worker'[v] = worker[v] PROVE Engaged(v)'
      BY <1>4, <3>1, KeepSame
    <3> QED BY <1>4, <2>1, <3>1, ReleaseStep
  <2>2. CASE ~Release(w)
    <3>1. \E outcome \in {"succeeded", "failed"} : JL!FinishRun(j, i, outcome)
      BY <1>2, <1>3, <2>2 DEF Finish
    <3>2. FALSE
      BY <1>1, <1>2, <1>4, <3>1, FinishUpdates DEF Updated
    <3> QED BY <3>2
  <2> QED BY <2>1, <2>2
<1>5. CASE ~UNCHANGED <<step, runs>>
  <2> DEFINE outcome == IF At(w, "succeed") THEN "succeeded" ELSE "failed"
  <2>1. /\ JL!FinishRun(j, i, outcome)
        /\ IF At(w, "succeed") /\ runs[j][i].step # "extract"
           THEN Goto(w, "continue") ELSE Release(w)
    BY <1>2, <1>3, <1>5 DEF Finish
  <2>2. outcome \in {"succeeded", "failed"}
    OBVIOUS
  <2>3. /\ Updated(j, i, outcome) /\ i \in 1..Len(runs[j])
        /\ runs[j][i].status = "running"
    BY <1>1, <2>1, FinishUpdates
  <2>4. JL!Next
    BY <2>1, <2>2 DEF JL!Next, JL!FinishRun
  <2>5. ASSUME NEW v \in Workers \ {w}, worker'[v] = worker[v] PROVE Engaged(v)'
    <3>1. ~(worker[v] # Free /\ Job(v) = j /\ worker[v].run = i)
      BY <1>1, <1>2, <1>3 DEF Control, OneDriver
    <3> QED BY <2>3, <2>5, <3>1, KeepUpdated
  <2>6. CASE Release(w)
    <3>1. Control' /\ Others(w) /\ worker'[w] = Free
      BY <2>4, <2>5, <2>6, ReleaseStep
    <3> QED BY <1>2, <1>3, <2>3, <3>1
  <2>7. CASE ~Release(w)
    <3>1. /\ At(w, "succeed") /\ runs[j][i].step # "extract"
          /\ worker' = [worker EXCEPT ![w].pc = "continue"]
      BY <2>1, <2>7 DEF Goto
    <3>2. /\ worker' \in [Workers -> WorkerState] /\ Others(w)
          /\ worker'[w] = [worker[w] EXCEPT !.pc = "continue"]
          /\ worker'[w] \in Held
          /\ worker'[w].pc = "continue" /\ worker'[w].job = j /\ worker'[w].run = i
      BY <1>1, <1>2, <1>3, <3>1 DEF Control, Held, WorkerState, Free, Others, Job
    <3>3. step[j] \in {"chunk", "embed"} /\ runs[j][i].step = step[j]
      BY <1>1, <2>3, <3>1, ActiveIsLast DEF JL!Active, JL!RunSteps
    <3>4. Owns(w)'
      BY <2>3, <3>1, <3>2, <3>3 DEF Owns, Updated, Job, At
    <3>5. Engaged(w)'
      BY <2>3, <3>2, <3>3, <3>4 DEF Engaged, Updated, Job
    <3>6. Control'
      BY <1>1, <1>2, <1>3, <2>4, <2>5, <3>2, <3>5, Together DEF Others, Job
    <3> QED BY <1>2, <1>3, <2>3, <3>1, <3>2, <3>6
  <2> QED BY <2>6, <2>7
<1> QED BY <1>4, <1>5

LEMMA ContinueStep ==
    ASSUME Control, NEW w \in Workers, Continue(w)
    PROVE  /\ Control' /\ Others(w)
           /\ \/ worker'[w] = Free /\ UNCHANGED <<step, runs>>
              \/ /\ worker'[w] = Free /\ runs' = runs
                 /\ step' = [step EXCEPT ![Job(w)] = "completed"]
                 /\ step[Job(w)] = "embed"
              \/ /\ worker'[w] \in Held /\ worker'[w].pc = "load"
                 /\ worker'[w].job = worker[w].job
                 /\ Extended(Job(w), "running")
                 /\ step[Job(w)] = "chunk" /\ step'[Job(w)] = "embed"
<1>1. /\ worker[w] # Free /\ worker[w] \in Held /\ Rows /\ Job(w) \in Jobs
      /\ At(w, "continue") /\ Engaged(w)
  BY HeldFields, AtHeld DEF Continue, Control
<1>2. PICK j \in Jobs : j = Job(w)
  BY <1>1
<1>3. CASE Release(w) /\ UNCHANGED <<step, runs>>
  <2>1. ASSUME NEW v \in Workers \ {w}, worker'[v] = worker[v] PROVE Engaged(v)'
    BY <1>3, <2>1, KeepSame
  <2> QED BY <1>3, <2>1, ReleaseStep
<1>4. CASE /\ JL!ContinueJob(j)
           /\ IF step'[j] = "completed"
              THEN Release(w)
              ELSE worker' = [worker EXCEPT ![w].pc = "load", ![w].run = Len(runs'[j])]
  <2>1. JL!Next /\ step[j] \in {"chunk", "embed"}
    BY <1>4 DEF JL!Next, JL!ContinueJob
  <2>2. Owns(w)
    BY <1>1, <1>2, <2>1 DEF Engaged, JL!Exists, JL!JobSteps, JL!RunSteps
  <2>3. ASSUME NEW v \in Workers \ {w}, worker[v] # Free, Job(v) = j
        PROVE  Owns(v) /\ ~At(v, "continue")
    <3>1. Owns(v)
      BY <2>1, <2>3 DEF Control, Engaged, JL!Exists, JL!JobSteps, JL!RunSteps
    <3>2. At(v, "continue") => worker[v].run = worker[w].run
      BY <1>1, <1>2, <2>2, <2>3, <3>1 DEF Owns
    <3> QED BY <1>1, <1>2, <2>3, <3>1, <3>2 DEF Control, OneDriver
  <2>4. CASE step[j] = "embed" /\ runs' = runs /\ step' = [step EXCEPT ![j] = "completed"]
    <3>1. step'[j] = "completed" /\ \A k \in Jobs \ {j} : step'[k] = step[k]
      BY <1>1, <2>4 DEF Rows, JL!TypeOK
    <3>2. ASSUME NEW v \in Workers \ {w}, worker'[v] = worker[v] PROVE Engaged(v)'
      BY <2>3, <2>4, <3>1, <3>2, KeepSame, HeldFields
    <3>3. Control' /\ Others(w) /\ worker'[w] = Free
      BY <1>4, <2>1, <3>1, <3>2, ReleaseStep
    <3> QED BY <1>2, <2>4, <3>3
  <2>5. CASE step[j] = "chunk" /\ step'[j] = "embed" /\ Extended(j, "running")
    <3>1. Len(runs[j]) \in Nat /\ Len(runs'[j]) = Len(runs[j]) + 1
      BY <1>1, <2>5, JobRow DEF Extended
    <3>2. worker' = [worker EXCEPT ![w].pc = "load", ![w].run = Len(runs[j]) + 1]
      BY <1>4, <2>5, <3>1
    <3>3. /\ worker' \in [Workers -> WorkerState] /\ Others(w)
          /\ worker'[w] \in Held /\ worker'[w].pc = "load"
          /\ worker'[w].job = j /\ worker'[w].run = Len(runs[j]) + 1
      <4> DEFINE n == Len(runs[j]) + 1
                 r == [worker[w] EXCEPT !.pc = "load", !.run = n]
      <4>1. n \in Nat
        BY <3>1
      <4> HIDE DEF n
      <4>2. /\ r \in Held /\ r.pc = "load" /\ r.job = j /\ r.run = n
            /\ worker' = [worker EXCEPT ![w] = r]
        BY <1>1, <1>2, <3>2, <4>1 DEF Held, WorkerState, Free, Control, Job, n
      <4> HIDE DEF r
      <4> QED BY <4>2 DEF Control, Held, Others, n
    <3>4. Owns(w)'
      BY <2>5, <3>1, <3>3 DEF Owns, Extended, Job, At
    <3>5. Engaged(w)'
      BY <2>5, <3>3, <3>4 DEF Engaged, Job
    <3>6. ASSUME NEW v \in Workers \ {w} PROVE Engaged(v)'
      BY <2>3, <2>5, <3>3, KeepExtended DEF Others
    <3>7. ASSUME NEW v \in Workers \ {w}, worker[v] # Free, worker[v].job = j
          PROVE  worker[v].run # Len(runs[j]) + 1
      BY <2>3, <3>1, <3>7 DEF Owns, Job
    <3>8. Control'
      BY <2>1, <3>3, <3>5, <3>6, <3>7, Together
    <3> QED BY <1>2, <2>5, <3>3, <3>8 DEF Job
  <2> QED BY <1>1, <1>4, <2>4, <2>5, ContinueMoves
<1> QED BY <1>2, <1>3, <1>4 DEF Continue

LEMMA CommandStep ==
    ASSUME Control, NEW j \in Jobs, Command(j)
    PROVE  /\ Control' /\ worker' = worker
           /\ \/ Extended(j, "pending") /\ step[j] \in {"absent", "extract"}
              \/ /\ Updated(j, Len(runs[j]), "aborted")
                 /\ runs[j][Len(runs[j])].status \in JL!Active
<1>1. Rows /\ JL!Next /\ worker' = worker
  BY DEF Control, Command, JL!Next
<1>2. CASE JL!AbortRun(j)
  <2>1. Updated(j, Len(runs[j]), "aborted") /\ runs[j][Len(runs[j])].status \in JL!Active
    BY <1>1, <1>2, AbortUpdates
  <2>2. ASSUME NEW v \in Workers PROVE Engaged(v)'
    BY <1>1, <2>1, KeepUpdated
  <2> QED BY <1>1, <2>1, <2>2, RowsStep
<1>3. CASE JL!StartJob(j) \/ JL!ValidateJob(j) \/ JL!RestartJob(j)
  <2>1. Extended(j, "pending") /\ step[j] \in {"absent", "extract"}
    BY <1>1, <1>3, EnqueueExtends
  <2>2. ASSUME NEW v \in Workers PROVE Engaged(v)'
    <3>1. worker[v] # Free /\ Job(v) = j => ~At(v, "continue")
      BY <2>1 DEF Control, Engaged, Owns, JL!Exists, JL!JobSteps, JL!RunSteps
    <3> QED BY <1>1, <2>1, <3>1, KeepExtended
  <2> QED BY <1>1, <2>1, <2>2, RowsStep
<1> QED BY <1>2, <1>3 DEF Command

LEMMA DeleteStep ==
    ASSUME Control, NEW j \in Jobs, DeleteJob(j)
    PROVE  /\ Control' /\ worker' = worker
           /\ step'[j] = "deleted" /\ runs'[j] = <<>>
           /\ \A k \in Jobs \ {j} : step'[k] = step[k] /\ runs'[k] = runs[k]
<1>1. Rows /\ JL!Next /\ worker' = worker
  BY DEF Control, DeleteJob, JL!Next
<1>2. /\ step'[j] = "deleted" /\ runs'[j] = <<>>
      /\ \A k \in Jobs \ {j} : step'[k] = step[k] /\ runs'[k] = runs[k]
  BY <1>1 DEF DeleteJob, JL!DeleteJob, Rows, JL!TypeOK
<1>3. ASSUME NEW v \in Workers PROVE Engaged(v)'
  BY <1>1, <1>2, KeepSame, HeldFields
<1> QED BY <1>1, <1>2, <1>3, RowsStep

-----------------------------------------------------------------------------
(* Layer 2: the editing sessions. *)

Sessions ==
    /\ editor \in [Editors -> [job : Jobs, read : Texts, saved : Texts, alone : BOOLEAN]
                                  \cup {Closed}]
    /\ file \in [Jobs -> Texts \cup {None}]
    /\ edits \in 0..MaxEdits
    /\ \A e \in Editors : editor[e] # Closed /\ editor[e].alone =>
          /\ file[editor[e].job] = editor[e].saved
          /\ \A d \in Editors \ {e} : editor[d] # Closed => editor[d].job # editor[e].job

LEMMA OpenEditorStep ==
    ASSUME Tables, Sessions, NEW e \in Editors, NEW j \in Jobs, OpenEditor(e, j)
    PROVE  Sessions' /\ \A d \in Editors : editor[d] # Closed => editor'[d] # Closed
<1> DEFINE others == {d \in Editors : editor[d] # Closed /\ editor[d].job = j}
           new == [job |-> j, read |-> transcript[j], saved |-> transcript[j],
                   alone |-> others = {}]
<1>1. /\ editor[e] = Closed /\ transcript[j] \in Texts
      /\ file' = [file EXCEPT ![j] = transcript[j]] /\ edits' = edits
      /\ editor' = [d \in Editors |->
            IF d = e THEN new
            ELSE IF d \in others THEN [editor[d] EXCEPT !.alone = FALSE] ELSE editor[d]]
  BY DEF OpenEditor, Tables
<1>2. /\ new \in [job : Jobs, read : Texts, saved : Texts, alone : BOOLEAN]
      /\ new.job = j /\ new.saved = transcript[j] /\ (new.alone <=> others = {})
      /\ new # Closed
  BY <1>1, TextsAssumption DEF Closed
<1>3. ASSUME NEW d \in Editors \ {e}
      PROVE  /\ editor'[d] \in [job : Jobs, read : Texts, saved : Texts, alone : BOOLEAN]
                               \cup {Closed}
             /\ editor[d] = Closed <=> editor'[d] = Closed
             /\ editor'[d].job = editor[d].job /\ editor'[d].saved = editor[d].saved
             /\ editor'[d] # Closed /\ editor'[d].alone => editor[d].alone /\ editor[d].job # j
  <2>1. CASE d \in others
    <3>1. editor'[d] = [editor[d] EXCEPT !.alone = FALSE]
      BY <1>1, <2>1
    <3>2. editor[d] # Closed /\ editor[d].job = j
          /\ editor[d] \in [job : Jobs, read : Texts, saved : Texts, alone : BOOLEAN]
      BY <2>1 DEF Sessions
    <3>3. /\ editor'[d] \in [job : Jobs, read : Texts, saved : Texts, alone : BOOLEAN]
          /\ editor'[d].job = editor[d].job /\ editor'[d].saved = editor[d].saved
          /\ ~editor'[d].alone
      BY <3>1, <3>2
    <3>4. editor'[d] # Closed
      BY <3>3, TextsAssumption DEF Closed
    <3> QED BY <3>2, <3>3, <3>4
  <2>2. CASE d \notin others
    <3>1. editor'[d] = editor[d] /\ (editor[d] # Closed => editor[d].job # j)
      BY <1>1, <2>2
    <3> QED BY <3>1 DEF Sessions
  <2> QED BY <2>1, <2>2
<1> HIDE DEF new
<1>4. editor'[e] = new
  BY <1>1
<1>5. editor' \in [Editors -> [job : Jobs, read : Texts, saved : Texts, alone : BOOLEAN]
                                \cup {Closed}]
  BY <1>1, <1>2, <1>3, <1>4
<1>6. file' \in [Jobs -> Texts \cup {None}] /\ edits' \in 0..MaxEdits
  BY <1>1 DEF Sessions
<1>7. ASSUME NEW d \in Editors, editor'[d] # Closed, editor'[d].alone
      PROVE  /\ file'[editor'[d].job] = editor'[d].saved
             /\ \A c \in Editors \ {d} : editor'[c] # Closed => editor'[c].job # editor'[d].job
  <2>1. CASE d = e
    <3>1. others = {}
      BY <1>2, <1>4, <1>7, <2>1
    <3>2. file'[j] = transcript[j]
      BY <1>1 DEF Sessions
    <3> QED BY <1>2, <1>3, <1>4, <2>1, <3>1, <3>2
  <2>2. CASE d # e
    <3>1. /\ editor[d] # Closed /\ editor[d].alone /\ editor[d].job # j
          /\ editor'[d].job = editor[d].job /\ editor'[d].saved = editor[d].saved
      BY <1>3, <1>7, <2>2
    <3>2. file'[editor[d].job] = file[editor[d].job]
      BY <1>1, <3>1 DEF Sessions
    <3> QED BY <1>2, <1>3, <1>4, <3>1, <3>2 DEF Sessions
  <2> QED BY <2>1, <2>2
<1> QED BY <1>2, <1>3, <1>4, <1>5, <1>6, <1>7 DEF Sessions

LEMMA SaveInEditorStep ==
    ASSUME Sessions, NEW e \in Editors, SaveInEditor(e)
    PROVE  Sessions' /\ \A d \in Editors : editor[d] # Closed => editor'[d] # Closed
<1>1. PICK t \in Texts :
        /\ file' = [file EXCEPT ![editor[e].job] = t]
        /\ editor' = [editor EXCEPT ![e].saved = t]
  BY DEF SaveInEditor
<1>2. /\ editor[e] # Closed /\ edits' = edits
      /\ editor[e] \in [job : Jobs, read : Texts, saved : Texts, alone : BOOLEAN]
  BY DEF SaveInEditor, Sessions
<1>3. /\ editor'[e] \in [job : Jobs, read : Texts, saved : Texts, alone : BOOLEAN]
      /\ editor'[e].job = editor[e].job /\ editor'[e].saved = t
      /\ editor'[e].alone = editor[e].alone
      /\ \A d \in Editors \ {e} : editor'[d] = editor[d]
  BY <1>1, <1>2 DEF Sessions
<1>4. editor' \in [Editors -> [job : Jobs, read : Texts, saved : Texts, alone : BOOLEAN]
                                \cup {Closed}]
  BY <1>1, <1>3 DEF Sessions
<1>5. file' \in [Jobs -> Texts \cup {None}] /\ edits' \in 0..MaxEdits
  BY <1>1, <1>2 DEF Sessions
<1>6. editor'[e] # Closed
  BY <1>3, TextsAssumption DEF Closed
<1>7. ASSUME NEW d \in Editors, editor'[d] # Closed, editor'[d].alone
      PROVE  /\ file'[editor'[d].job] = editor'[d].saved
             /\ \A c \in Editors \ {d} : editor'[c] # Closed => editor'[c].job # editor'[d].job
  <2>1. CASE d = e
    BY <1>1, <1>2, <1>3, <1>7, <2>1 DEF Sessions
  <2>2. CASE d # e
    BY <1>1, <1>2, <1>3, <1>7, <2>2 DEF Sessions
  <2> QED BY <2>1, <2>2
<1> QED BY <1>3, <1>4, <1>5, <1>6, <1>7 DEF Sessions

LEMMA CloseEditorStep ==
    ASSUME Sessions, Tables, NEW e \in Editors, CloseEditor(e)
    PROVE  /\ Sessions'
           /\ \A d \in Editors \ {e} : editor'[d] = editor[d]
           /\ \/ UNCHANGED <<transcript, edits>>
              \/ /\ file[editor[e].job] \in Texts \ {editor[e].read}
                 /\ editor[e].job \in Jobs
                 /\ transcript' = [transcript EXCEPT ![editor[e].job] = file[editor[e].job]]
                 /\ edits' = edits + 1 /\ edits' # 0
<1>1. /\ editor[e] # Closed /\ editor' = [editor EXCEPT ![e] = Closed]
      /\ file' = [file EXCEPT ![editor[e].job] = None]
      /\ edits \in 0..MaxEdits
  BY DEF CloseEditor, Sessions
<1>2. edits' \in 0..MaxEdits
  BY <1>1, MaxEditsAssumption DEF CloseEditor
<1>3. /\ editor' \in [Editors -> [job : Jobs, read : Texts, saved : Texts, alone : BOOLEAN]
                                    \cup {Closed}]
      /\ file' \in [Jobs -> Texts \cup {None}]
      /\ \A d \in Editors \ {e} : editor'[d] = editor[d]
      /\ editor'[e] = Closed
  BY <1>1 DEF Sessions
<1>4. ASSUME NEW d \in Editors, editor'[d] # Closed, editor'[d].alone
      PROVE  /\ file'[editor'[d].job] = editor'[d].saved
             /\ \A c \in Editors \ {d} : editor'[c] # Closed => editor'[c].job # editor'[d].job
  <2>1. d # e /\ editor'[d] = editor[d] /\ editor[d].job # editor[e].job
    BY <1>1, <1>3, <1>4 DEF Sessions
  <2>2. file'[editor[d].job] = file[editor[d].job]
    BY <1>1, <1>3, <1>4, <2>1 DEF Sessions
  <2> QED BY <1>3, <1>4, <2>1, <2>2 DEF Sessions
<1>5. \/ UNCHANGED <<transcript, edits>>
      \/ /\ file[editor[e].job] \in Texts \ {editor[e].read}
         /\ editor[e].job \in Jobs
         /\ transcript' = [transcript EXCEPT ![editor[e].job] = file[editor[e].job]]
         /\ edits' = edits + 1 /\ edits' # 0
  BY <1>1, MaxEditsAssumption DEF CloseEditor, Sessions
<1> QED BY <1>2, <1>3, <1>4, <1>5 DEF Sessions

-----------------------------------------------------------------------------
(* Layer 3: what a worker knows in the middle of a body, and what the rows   *)
(* that succeeded left in the tables.                                        *)

Working(w) ==
    worker[w] # Free =>
        LET j == Job(w)
            r == worker[w]
        IN  /\ r.done <= r.total
            /\ At(w, "extracted") => r.text \in Texts /\ r.step = "extract"
            /\ At(w, "split") => r.text \in Texts /\ ChunkCount[r.text] > 0 /\ r.step = "chunk"
            /\ r.pc \in {"embed", "store"} =>
                  /\ r.step = "embed" /\ r.done < r.total /\ r.id \in 1..lastId
                  /\ chunks[j].id = r.id => Size(chunks[j]) = r.total
            /\ At(w, "succeed") /\ JL!Exists(j) =>
                  /\ r.step = "extract" => transcript[j] # None
                  /\ r.step = "chunk" => Size(chunks[j]) > 0

Outputs(j) ==
    /\ HasSucceeded(j, "extract") => transcript[j] # None
    /\ HasSucceeded(j, "chunk") => Size(chunks[j]) > 0

Data == Tables /\ (\A w \in Workers : Working(w)) /\ (\A j \in Jobs : Outputs(j))

\* Which runs of a job are succeeded after a statement on its rows.
LEMMA UpdatedSucceeds ==
    ASSUME Rows, Rows', NEW j \in Jobs, NEW i, NEW s, Updated(j, i, s)
    PROVE  \A k \in Jobs : \A t : HasSucceeded(k, t)' =>
               HasSucceeded(k, t) \/ (k = j /\ s = "succeeded" /\ t = runs[j][i].step)
<1>1. ASSUME NEW k \in Jobs, NEW t, HasSucceeded(k, t)'
      PROVE  HasSucceeded(k, t) \/ (k = j /\ s = "succeeded" /\ t = runs[j][i].step)
  <2>1. PICK m \in DOMAIN runs'[k] : runs'[k][m].step = t /\ runs'[k][m].status = "succeeded"
    BY <1>1 DEF HasSucceeded
  <2>2. CASE k # j
    <3>1. runs'[k] = runs[k]
      BY <2>2 DEF Updated
    <3> QED BY <2>1, <3>1 DEF HasSucceeded
  <2>3. CASE k = j
    <3>1. DOMAIN runs[j] = 1..Len(runs[j]) /\ DOMAIN runs'[j] = 1..Len(runs'[j])
      BY DEF Rows, JL!TypeOK
    <3> QED BY <2>1, <2>3, <3>1 DEF HasSucceeded, Updated
  <2> QED BY <2>2, <2>3
<1> QED BY <1>1

LEMMA ExtendedSucceeds ==
    ASSUME Rows, Rows', NEW j \in Jobs, NEW s, Extended(j, s), s # "succeeded"
    PROVE  \A k \in Jobs : \A t : HasSucceeded(k, t)' => HasSucceeded(k, t)
<1>1. ASSUME NEW k \in Jobs, NEW t, HasSucceeded(k, t)'
      PROVE  HasSucceeded(k, t)
  <2>1. PICK m \in DOMAIN runs'[k] : runs'[k][m].step = t /\ runs'[k][m].status = "succeeded"
    BY <1>1 DEF HasSucceeded
  <2>2. CASE k # j
    <3>1. runs'[k] = runs[k]
      BY <2>2 DEF Extended
    <3> QED BY <2>1, <3>1 DEF HasSucceeded
  <2>3. CASE k = j
    <3>1. /\ DOMAIN runs[j] = 1..Len(runs[j]) /\ DOMAIN runs'[j] = 1..Len(runs'[j])
          /\ Len(runs[j]) \in Nat
      BY DEF Rows, JL!TypeOK
    <3>2. m \in 1..Len(runs[j])
      BY <2>1, <2>3, <3>1 DEF Extended
    <3> QED BY <2>1, <2>3, <3>1, <3>2 DEF HasSucceeded, Extended
  <2> QED BY <2>2, <2>3
<1> QED BY <1>1

LEMMA GoneSucceeded ==
    ASSUME Rows, NEW j \in Jobs, ~JL!Exists(j)
    PROVE  \A t : ~HasSucceeded(j, t)
BY GoneHasNoRuns DEF HasSucceeded

\* A worker that does not move knows what it knew, if the tables of its job are not
\* emptied under it and a new set of chunks has an id it has not seen.
LEMMA WorkingKept ==
    ASSUME Control, Data, NEW v \in Workers, worker'[v] = worker[v],
           lastId' \in Nat, lastId <= lastId',
           worker[v] # Free =>
               LET k == Job(v)
               IN  /\ step'[k] \in JL!JobSteps => JL!Exists(k)
                   /\ \/ chunks'[k] = chunks[k]
                      \/ /\ chunks'[k].id \notin 1..lastId
                         /\ step'[k] \in JL!JobSteps => Size(chunks'[k]) > 0
                   /\ \/ transcript'[k] = transcript[k]
                      \/ step'[k] \in JL!JobSteps => transcript'[k] # None
    PROVE  Working(v)'
<1> SUFFICES ASSUME worker[v] # Free PROVE Working(v)'
  BY DEF Working
<1>1. Working(v) /\ lastId \in Nat /\ Job(v) \in Jobs
  BY HeldFields DEF Data, Tables
<1> QED BY <1>1 DEF Working, Job, At, JL!Exists

\* Only the worker moves.
LEMMA QuietData ==
    ASSUME Control, Data, NEW w \in Workers, Others(w), Working(w)',
           UNCHANGED <<step, runs, transcript, chunks, embedded, lastId>>
    PROVE  Data'
<1>1. Tables'
  BY DEF Data, Tables
<1>2. ASSUME NEW v \in Workers \ {w} PROVE Working(v)'
  <2>1. worker'[v] = worker[v] /\ lastId' = lastId /\ lastId \in Nat /\ lastId <= lastId'
    BY <1>1 DEF Others, Data, Tables
  <2> QED BY <2>1, WorkingKept DEF JL!Exists
<1>3. ASSUME NEW j \in Jobs PROVE Outputs(j)'
  BY DEF Data, Outputs, HasSucceeded
<1> QED BY <1>1, <1>2, <1>3 DEF Data

\* Only the rows move, and the workers for which they do.
LEMMA RowsData ==
    ASSUME Control, Data, UNCHANGED <<transcript, chunks, embedded, lastId>>,
           \A v \in Workers :
               \/ Working(v)'
               \/ worker'[v] = worker[v] /\ (worker[v] # Free =>
                     (step'[Job(v)] \in JL!JobSteps => JL!Exists(Job(v)))),
           \A k \in Jobs, t \in {"extract", "chunk"} : HasSucceeded(k, t)' =>
               \/ HasSucceeded(k, t)
               \/ t = "extract" /\ transcript[k] # None
               \/ t = "chunk" /\ Size(chunks[k]) > 0
    PROVE  Data'
<1>1. Tables'
  BY DEF Data, Tables
<1>2. ASSUME NEW v \in Workers PROVE Working(v)'
  BY <1>1, WorkingKept DEF Tables, Data
<1>3. ASSUME NEW j \in Jobs PROVE Outputs(j)'
  BY DEF Data, Outputs
<1> QED BY <1>1, <1>2, <1>3 DEF Data

LEMMA FreeWorks ==
    ASSUME NEW w \in Workers, worker'[w] = Free
    PROVE  Working(w)'
BY DEF Working

\* The steps that write neither rows nor tables.
LEMMA QuietDataStep ==
    ASSUME Control, Data, NEW w \in Workers,
           \/ Load(w) \/ Crash(w) \/ BodyFails(w) \/ ReadSource(w) \/ ReadTranscript(w)
           \/ ReadChunks(w) \/ EmbedNextBatch(w)
    PROVE  Data'
<1>1. UNCHANGED <<step, runs, transcript, chunks, embedded, lastId>>
  BY DEF Load, Crash, BodyFails, ReadSource, ReadTranscript, ReadChunks, EmbedNextBatch,
         artifactVars
<1>2. Working(w) /\ Tables /\ lastId \in Nat
  BY DEF Data, Tables
<1>3. worker[w] # Free => worker[w] \in Held /\ Job(w) \in Jobs
  BY HeldFields
<1>4. CASE Load(w)
  <2>1. Others(w) /\ worker[w] # Free
    BY <1>4, LoadStep, AtHeld DEF Load
  <2>2. Working(w)'
    <3>1. CASE worker'[w] = [worker[w] EXCEPT !.pc = "body", !.step = step[Job(w)]]
      BY <1>2, <1>3, <2>1, <3>1 DEF Working, At, Held, WorkerState
    <3> QED BY <1>4, <3>1, LoadStep, FreeWorks
  <2> QED BY <1>1, <2>1, <2>2, QuietData
<1>5. CASE Crash(w)
  BY <1>1, <1>5, CrashStep, FreeWorks, QuietData
<1>6. CASE BodyFails(w)
  <2>1. Others(w) /\ worker[w] # Free /\ worker'[w] = [worker[w] EXCEPT !.pc = "fail"]
    BY <1>6, BodyFailsStep, AtHeld DEF BodyFails, Moved, Free
  <2>2. Working(w)'
    BY <1>2, <1>3, <2>1 DEF Working, At, Held, WorkerState
  <2> QED BY <1>1, <2>1, <2>2, QuietData
<1>7. CASE ReadSource(w)
  <2>1. /\ Others(w) /\ worker[w] # Free /\ worker[w].step = "extract"
        /\ \E t \in Texts : worker'[w] = [worker[w] EXCEPT !.pc = "extracted", !.text = t]
    BY <1>7, ReadSourceStep, AtHeld DEF ReadSource, Moved
  <2>2. Working(w)'
    BY <1>2, <1>3, <2>1 DEF Working, At, Held, WorkerState
  <2> QED BY <1>1, <2>1, <2>2, QuietData
<1>8. CASE ReadTranscript(w)
  <2>1. /\ Others(w) /\ worker[w] # Free /\ worker[w].step = "chunk"
        /\ \/ worker'[w] = [worker[w] EXCEPT !.pc = "fail"]
           \/ /\ worker'[w] = [worker[w] EXCEPT !.pc = "split", !.text = transcript[Job(w)]]
              /\ transcript[Job(w)] \in Texts /\ ChunkCount[transcript[Job(w)]] > 0
    BY <1>2, <1>8, ReadTranscriptStep, AtHeld DEF ReadTranscript, Moved
  <2>2. Working(w)'
    BY <1>2, <1>3, <2>1 DEF Working, At, Held, WorkerState
  <2> QED BY <1>1, <2>1, <2>2, QuietData
<1>9. CASE ReadChunks(w)
  <2>1. /\ Others(w) /\ worker[w] # Free /\ worker[w].step = "embed"
        /\ Moved(w)
        /\ \/ worker'[w] = [worker[w] EXCEPT !.pc = "fail"]
           \/ LET c == chunks[Job(w)]
              IN  /\ worker'[w] = [worker[w] EXCEPT !.pc = "embed", !.id = c.id,
                                                    !.total = Size(c), !.done = 0]
                  /\ Size(c) > 0
    BY <1>2, <1>9, ReadChunksStep, AtHeld DEF ReadChunks, Moved
  <2>2. Working(w)'
    <3>1. CASE worker'[w] = [worker[w] EXCEPT !.pc = "fail"]
      BY <1>2, <1>3, <2>1, <3>1 DEF Working, At, Held, WorkerState
    <3>2. CASE worker'[w] # [worker[w] EXCEPT !.pc = "fail"]
      <4>1. PICK n \in Nat : n = Size(chunks[Job(w)])
        BY <1>2, <1>3, <2>1, SizeType
      <4>2. PICK d \in 1..lastId : d = chunks[Job(w)].id
        <5>1. chunks[Job(w)] # NoChunks
          BY <2>1, <3>2 DEF Size
        <5> QED BY <1>2, <1>3, <2>1, <5>1 DEF Tables
      <4>3. worker'[w] = [worker[w] EXCEPT !.pc = "embed", !.id = d, !.total = n, !.done = 0]
            /\ n > 0
        BY <2>1, <3>2, <4>1, <4>2
      <4>4. /\ worker'[w].pc = "embed" /\ worker'[w].id = d /\ worker'[w].total = n
            /\ worker'[w].done = 0 /\ worker'[w].step = "embed"
            /\ worker'[w].job = Job(w)
        BY <1>3, <2>1, <4>3 DEF Held, WorkerState, Job
      <4> QED BY <1>1, <4>1, <4>2, <4>3, <4>4 DEF Working, At, Job
    <3> QED BY <3>1, <3>2
  <2> QED BY <1>1, <2>1, <2>2, QuietData
<1>10. CASE EmbedNextBatch(w)
  <2>1. Others(w) /\ worker[w] # Free /\ worker'[w] = [worker[w] EXCEPT !.pc = "store"]
        /\ At(w, "embed")
    <3>1. Goto(w, "store") /\ At(w, "embed") /\ worker[w] # Free
      BY <1>10, AtHeld DEF EmbedNextBatch
    <3> QED BY <1>1, <3>1, GotoStep DEF BodyPlaces, At, Moved
  <2>2. Working(w)'
    BY <1>1, <1>2, <1>3, <2>1 DEF Working, At, Held, WorkerState, Job
  <2> QED BY <1>1, <2>1, <2>2, QuietData
<1> QED BY <1>4, <1>5, <1>6, <1>7, <1>8, <1>9, <1>10

LEMMA StoreTranscriptData ==
    ASSUME Control, Data, NEW w \in Workers, StoreTranscript(w)
    PROVE  Data'
<1>1. /\ UNCHANGED <<step, runs, chunks, embedded, lastId>> /\ worker[w] # Free
      /\ worker[w] \in Held /\ Job(w) \in Jobs /\ Others(w)
      /\ Working(w) /\ At(w, "extracted") /\ worker[w].text \in Texts
      /\ worker[w].step = "extract" /\ Tables
  BY AtHeld, HeldFields, OtherBodyStep DEF StoreTranscript, Data, Working, Moved
<1>2. CASE ~JL!Exists(Job(w))
  <2>1. Goto(w, "fail") /\ transcript' = transcript
    BY <1>2 DEF StoreTranscript
  <2>2. worker'[w] = [worker[w] EXCEPT !.pc = "fail"]
    BY <1>1, <2>1, GotoStep DEF At, BodyPlaces
  <2>3. Working(w)'
    BY <1>1, <2>2 DEF Working, At, Held, WorkerState
  <2> QED BY <1>1, <2>1, <2>3, QuietData
<1>3. CASE JL!Exists(Job(w))
  <2>1. Goto(w, "succeed") /\ transcript' = [transcript EXCEPT ![Job(w)] = worker[w].text]
    BY <1>3 DEF StoreTranscript
  <2>2. worker'[w] = [worker[w] EXCEPT !.pc = "succeed"]
    BY <1>1, <2>1, GotoStep DEF At, BodyPlaces
  <2>3. /\ transcript' \in [Jobs -> Texts \cup {None}]
        /\ \A k \in Jobs : transcript'[k] = transcript[k] \/ transcript'[k] \in Texts
        /\ transcript'[Job(w)] \in Texts
    BY <1>1, <2>1 DEF Tables
  <2>4. Tables'
    BY <1>1, <2>3 DEF Tables
  <2>5. Working(w)'
    <3>1. /\ worker'[w].pc = "succeed" /\ worker'[w].step = "extract" /\ worker'[w].job = Job(w)
          /\ worker'[w].done = worker[w].done /\ worker'[w].total = worker[w].total
      BY <1>1, <2>2 DEF Held, WorkerState, Job
    <3> QED BY <1>1, <2>3, <3>1, TextsAssumption DEF Working, At, Job
  <2>6. ASSUME NEW v \in Workers \ {w} PROVE Working(v)'
    <3>1. worker'[v] = worker[v] /\ lastId \in Nat /\ lastId <= lastId'
      BY <1>1 DEF Others, Tables
    <3> QED BY <1>1, <2>3, <3>1, WorkingKept, TextsAssumption, HeldFields DEF JL!Exists
  <2>7. ASSUME NEW j \in Jobs PROVE Outputs(j)'
    BY <1>1, <2>3, TextsAssumption DEF Data, Outputs, HasSucceeded
  <2> QED BY <2>4, <2>5, <2>6, <2>7 DEF Data
<1> QED BY <1>2, <1>3

LEMMA ReplaceChunksData ==
    ASSUME Control, Data, NEW w \in Workers, ReplaceChunks(w)
    PROVE  Data'
<1>1. /\ UNCHANGED <<step, runs, transcript>> /\ worker[w] # Free
      /\ worker[w] \in Held /\ Job(w) \in Jobs /\ Others(w)
      /\ Working(w) /\ At(w, "split") /\ worker[w].text \in Texts
      /\ ChunkCount[worker[w].text] > 0
      /\ worker[w].step = "chunk" /\ Tables
  BY AtHeld, HeldFields, OtherBodyStep DEF ReplaceChunks, Data, Working, Moved
<1>2. CASE ~JL!Exists(Job(w))
  <2>1. Goto(w, "fail") /\ UNCHANGED <<chunks, embedded, lastId>>
    BY <1>2 DEF ReplaceChunks
  <2>2. worker'[w] = [worker[w] EXCEPT !.pc = "fail"]
    BY <1>1, <2>1, GotoStep DEF At, BodyPlaces
  <2>3. Working(w)'
    BY <1>1, <2>2 DEF Working, At, Held, WorkerState
  <2> QED BY <1>1, <2>1, <2>3, QuietData
<1>3. CASE JL!Exists(Job(w))
  <2>1. /\ Goto(w, "succeed") /\ lastId' = lastId + 1
        /\ chunks' = [chunks EXCEPT ![Job(w)] = [id |-> lastId + 1, text |-> worker[w].text]]
        /\ embedded' = [embedded EXCEPT ![Job(w)] = {}]
    BY <1>3 DEF ReplaceChunks
  <2>2. worker'[w] = [worker[w] EXCEPT !.pc = "succeed"]
    BY <1>1, <2>1, GotoStep DEF At, BodyPlaces
  <2>3. lastId \in Nat /\ lastId' \in Nat /\ lastId <= lastId' /\ lastId + 1 \in Nat \ {0}
    BY <1>1, <2>1 DEF Tables
  <2>4. /\ \A k \in Jobs \ {Job(w)} : chunks'[k] = chunks[k] /\ embedded'[k] = embedded[k]
        /\ chunks'[Job(w)] = [id |-> lastId + 1, text |-> worker[w].text]
        /\ embedded'[Job(w)] = {}
        /\ chunks' \in [Jobs -> [id : Nat \ {0}, text : Texts] \cup {NoChunks}]
        /\ embedded' \in [Jobs -> SUBSET Nat]
    BY <1>1, <2>1, <2>3 DEF Tables
  <2>5. chunks'[Job(w)].id = lastId + 1 /\ Size(chunks'[Job(w)]) > 0
    BY <1>1, <2>3, <2>4 DEF Size, NoChunks
  <2>6. Tables'
    <3>1. ASSUME NEW k \in Jobs
          PROVE  embedded'[k] \subseteq 1..Size(chunks'[k]) /\ chunks'[k].id <= lastId'
      <4>1. CASE k = Job(w)
        BY <2>1, <2>3, <2>4, <2>5, <4>1
      <4>2. CASE k # Job(w)
        BY <1>1, <2>1, <2>3, <2>4, <4>2, SizeType DEF Tables
      <4> QED BY <4>1, <4>2
    <3> QED BY <1>1, <2>3, <2>4, <3>1 DEF Tables, Size
  <2>7. Working(w)'
    <3>1. /\ worker'[w].pc = "succeed" /\ worker'[w].step = "chunk" /\ worker'[w].job = Job(w)
          /\ worker'[w].done = worker[w].done /\ worker'[w].total = worker[w].total
      BY <1>1, <2>2 DEF Held, WorkerState, Job
    <3> QED BY <1>1, <2>5, <3>1 DEF Working, At, Job, Size
  <2>8. ASSUME NEW v \in Workers \ {w} PROVE Working(v)'
    <3>1. worker'[v] = worker[v]
      BY <1>1 DEF Others
    <3>2. ASSUME worker[v] # Free
          PROVE  \/ chunks'[Job(v)] = chunks[Job(v)]
                 \/ chunks'[Job(v)].id \notin 1..lastId /\ Size(chunks'[Job(v)]) > 0
      <4>1. CASE Job(v) = Job(w)
        BY <2>3, <2>5, <4>1
      <4>2. CASE Job(v) # Job(w)
        BY <2>4, <3>2, <4>2, HeldFields
      <4> QED BY <4>1, <4>2
    <3> QED BY <1>1, <2>3, <3>1, <3>2, WorkingKept DEF JL!Exists
  <2>9. ASSUME NEW j \in Jobs PROVE Outputs(j)'
    <3>1. Size(chunks'[j]) > 0 \/ chunks'[j] = chunks[j]
      BY <2>4, <2>5
    <3> QED BY <1>1, <3>1 DEF Data, Outputs, HasSucceeded, Size
  <2> QED BY <2>6, <2>7, <2>8, <2>9 DEF Data
<1> QED BY <1>2, <1>3

LEMMA StoreEmbeddingData ==
    ASSUME Control, Data, NEW w \in Workers, StoreEmbedding(w)
    PROVE  Data'
<1>1. /\ UNCHANGED <<step, runs, transcript, chunks, lastId>> /\ worker[w] # Free
      /\ worker[w] \in Held /\ Job(w) \in Jobs /\ Others(w)
      /\ Working(w) /\ At(w, "store")
      /\ worker[w].step = "embed" /\ Tables /\ lastId \in Nat
      /\ worker[w].done < worker[w].total
  BY AtHeld, HeldFields, StoreEmbeddingStep DEF StoreEmbedding, Data, Working, Moved, At, Tables
<1>2. CASE worker'[w] = [worker[w] EXCEPT !.pc = "fail"] /\ embedded' = embedded
  <2>1. Working(w)'
    BY <1>1, <1>2 DEF Working, At, Held, WorkerState
  <2> QED BY <1>1, <1>2, <2>1, QuietData
<1>3. ASSUME NEW p \in {"embed", "store", "succeed"},
             worker'[w] = [worker[w] EXCEPT !.done = worker[w].done + 1, !.pc = p],
             p = "succeed" <=> worker[w].done + 1 = worker[w].total,
             chunks[Job(w)].id = worker[w].id,
             embedded' = [embedded EXCEPT ![Job(w)] = @ \cup {worker[w].done + 1}]
      PROVE  Data'
  <2>1. /\ worker'[w].pc = p /\ worker'[w].step = "embed" /\ worker'[w].job = Job(w)
        /\ worker'[w].done = worker[w].done + 1 /\ worker'[w].total = worker[w].total
        /\ worker'[w].id = worker[w].id
        /\ worker[w].done \in Nat /\ worker[w].total \in Nat
    BY <1>1, <1>3 DEF Held, WorkerState, Job
  <2>2. Size(chunks[Job(w)]) = worker[w].total /\ worker[w].id \in 1..lastId
    BY <1>1, <1>3 DEF Working, At
  <2>3. Tables'
    <3>1. /\ embedded' \in [Jobs -> SUBSET Nat]
          /\ \A k \in Jobs \ {Job(w)} : embedded'[k] = embedded[k]
          /\ embedded'[Job(w)] = embedded[Job(w)] \cup {worker[w].done + 1}
      BY <1>1, <1>3, <2>1 DEF Tables
    <3>2. worker[w].done + 1 \in 1..Size(chunks[Job(w)])
      BY <1>1, <2>1, <2>2
    <3> QED BY <1>1, <3>1, <3>2 DEF Tables
  <2>4. Working(w)'
    BY <1>1, <1>3, <2>1, <2>2 DEF Working, At, Job
  <2>5. ASSUME NEW v \in Workers \ {w} PROVE Working(v)'
    <3>1. worker'[v] = worker[v] /\ lastId <= lastId'
      BY <1>1 DEF Others
    <3> QED BY <1>1, <3>1, WorkingKept DEF JL!Exists
  <2>6. ASSUME NEW j \in Jobs PROVE Outputs(j)'
    BY <1>1 DEF Data, Outputs, HasSucceeded
  <2> QED BY <2>3, <2>4, <2>5, <2>6 DEF Data
<1> QED BY <1>2, <1>3, StoreEmbeddingStep

LEMMA ClaimData ==
    ASSUME Control, Data, NEW w \in Workers, NEW j \in Jobs, Claim(w, j)
    PROVE  Data'
<1>1. /\ UNCHANGED <<transcript, chunks, embedded, lastId>> /\ Control' /\ Others(w)
      /\ Updated(j, Len(runs[j]), "running") /\ Rows /\ Rows'
  BY ClaimStep DEF Claim, artifactVars, Control
<1>2. Working(w)'
  <2>1. worker'[w] = [pc |-> "load", job |-> j, run |-> Len(runs[j]), step |-> None,
                      text |-> None, id |-> 0, total |-> 0, done |-> 0]
    BY DEF Claim, Control
  <2> QED BY <2>1 DEF Working, At
<1>3. \A v \in Workers : worker[v] # Free =>
         (step'[Job(v)] \in JL!JobSteps => JL!Exists(Job(v)))
  BY <1>1 DEF Updated, JL!Exists
<1>4. \A k \in Jobs : \A t : HasSucceeded(k, t)' => HasSucceeded(k, t)
  BY <1>1, UpdatedSucceeds
<1> QED BY <1>1, <1>2, <1>3, <1>4, RowsData DEF Others

LEMMA FinishData ==
    ASSUME Control, Data, NEW w \in Workers, Finish(w)
    PROVE  Data'
<1>1. /\ UNCHANGED <<transcript, chunks, embedded, lastId>> /\ Control' /\ Others(w)
      /\ worker[w] # Free /\ worker[w] \in Held /\ Job(w) \in Jobs /\ Engaged(w)
      /\ Rows /\ Rows' /\ Working(w)
  BY FinishStep, HeldFields, AtHeld DEF Finish, artifactVars, Control, Data
<1>2. Working(w)'
  <2>1. CASE worker'[w] = [worker[w] EXCEPT !.pc = "continue"]
    BY <1>1, <2>1 DEF Working, At, Held, WorkerState
  <2> QED BY <2>1, FinishStep, FreeWorks
<1>3. step' = step
  BY FinishStep DEF Updated
<1>4. CASE UNCHANGED <<step, runs>>
  BY <1>1, <1>2, <1>4, RowsData DEF Others, HasSucceeded, JL!Exists
<1>5. CASE /\ runs[Job(w)][worker[w].run].status = "running"
           /\ worker[w].run \in 1..Len(runs[Job(w)])
           /\ \/ At(w, "succeed") /\ Updated(Job(w), worker[w].run, "succeeded")
              \/ Updated(Job(w), worker[w].run, "failed")
  <2>1. JL!Exists(Job(w)) /\ Owns(w)
    BY <1>1, <1>5, ActiveIsLast DEF JL!Active, JL!Exists, JL!JobSteps, Engaged
  <2>2. At(w, "succeed") => worker[w].step = runs[Job(w)][worker[w].run].step
    BY <1>5, <2>1 DEF Owns, At
  <2>3. \A k \in Jobs, t \in {"extract", "chunk"} : HasSucceeded(k, t)' =>
               \/ HasSucceeded(k, t)
               \/ t = "extract" /\ transcript[k] # None
               \/ t = "chunk" /\ Size(chunks[k]) > 0
    <3>1. CASE Updated(Job(w), worker[w].run, "failed")
      BY <1>1, <3>1, UpdatedSucceeds
    <3>2. CASE At(w, "succeed") /\ Updated(Job(w), worker[w].run, "succeeded")
      <4>1. ASSUME NEW k \in Jobs, NEW t \in {"extract", "chunk"}, HasSucceeded(k, t)',
                   ~HasSucceeded(k, t)
            PROVE  k = Job(w) /\ t = worker[w].step
        BY <1>1, <2>2, <3>2, <4>1, UpdatedSucceeds
      <4> QED BY <1>1, <2>1, <3>2, <4>1 DEF Working
    <3> QED BY <1>5, <3>1, <3>2
  <2> QED BY <1>1, <1>2, <1>3, <2>3, RowsData DEF Others, JL!Exists
<1> QED BY <1>4, <1>5, FinishStep

LEMMA ContinueData ==
    ASSUME Control, Data, NEW w \in Workers, Continue(w)
    PROVE  Data'
<1>1. /\ UNCHANGED <<transcript, chunks, embedded, lastId>> /\ Control' /\ Others(w)
      /\ worker[w] # Free /\ worker[w] \in Held /\ Job(w) \in Jobs
      /\ Rows /\ Rows' /\ Working(w)
  BY ContinueStep, HeldFields, AtHeld DEF Continue, artifactVars, Control, Data
<1>2. CASE worker'[w] = Free /\ UNCHANGED <<step, runs>>
  BY <1>1, <1>2, FreeWorks, RowsData DEF Others, HasSucceeded, JL!Exists
<1>3. CASE /\ worker'[w] = Free /\ runs' = runs
           /\ step' = [step EXCEPT ![Job(w)] = "completed"]
           /\ step[Job(w)] = "embed"
  <2>1. \A k \in Jobs : step'[k] \in JL!JobSteps => JL!Exists(k)
    BY <1>1, <1>3 DEF JL!Exists, JL!JobSteps, JL!RunSteps, Rows, JL!TypeOK
  <2> QED BY <1>1, <1>3, <2>1, FreeWorks, RowsData, HeldFields DEF Others, HasSucceeded
<1>4. CASE /\ worker'[w] \in Held /\ worker'[w].pc = "load"
           /\ worker'[w].job = worker[w].job
           /\ Extended(Job(w), "running")
           /\ step[Job(w)] = "chunk" /\ step'[Job(w)] = "embed"
  <2>1. \A k \in Jobs : step'[k] \in JL!JobSteps => JL!Exists(k)
    BY <1>1, <1>4 DEF JL!Exists, JL!JobSteps, JL!RunSteps, Extended
  <2>2. Working(w)'
    <3>1. worker'[w].done <= worker'[w].total
      <4>1. worker'[w].done = worker[w].done /\ worker'[w].total = worker[w].total
        BY <1>1, <1>4 DEF Continue, Release, Control, WorkerState, Held, Free
      <4> QED BY <1>1, <4>1 DEF Working
    <3> QED BY <1>4, <3>1 DEF Working, At
  <2>3. \A k \in Jobs : \A t : HasSucceeded(k, t)' => HasSucceeded(k, t)
    <3>1. PICK j \in Jobs : j = Job(w)
      BY <1>1
    <3> QED BY <1>1, <1>4, <3>1, ExtendedSucceeds
  <2> QED BY <1>1, <2>1, <2>2, <2>3, RowsData, HeldFields DEF Others
<1> QED BY <1>2, <1>3, <1>4, ContinueStep

LEMMA CommandData ==
    ASSUME Control, Data, NEW j \in Jobs, Command(j)
    PROVE  Data'
<1>1. /\ UNCHANGED <<transcript, chunks, embedded, lastId>> /\ Control' /\ worker' = worker
      /\ Rows /\ Rows'
  BY CommandStep DEF Command, artifactVars, Control
<1>2. \A v \in Workers : worker[v] # Free =>
         (step'[Job(v)] \in JL!JobSteps => JL!Exists(Job(v)))
  <2>1. CASE Extended(j, "pending") /\ step[j] \in {"absent", "extract"}
    <3>1. \A k \in Jobs : step'[k] \in JL!JobSteps => JL!Exists(k) \/ step[k] = "absent"
      BY <2>1 DEF Extended, JL!Exists, JL!JobSteps, JL!RunSteps
    <3> QED BY <3>1, HeldFields DEF Engaged
  <2>2. CASE Updated(j, Len(runs[j]), "aborted")
    BY <2>2 DEF Updated, JL!Exists
  <2> QED BY <2>1, <2>2, CommandStep
<1>3. \A k \in Jobs : \A t : HasSucceeded(k, t)' => HasSucceeded(k, t)
  BY <1>1, CommandStep, UpdatedSucceeds, ExtendedSucceeds
<1> QED BY <1>1, <1>2, <1>3, RowsData

LEMMA DeleteData ==
    ASSUME Control, Data, NEW j \in Jobs, DeleteJob(j)
    PROVE  Data'
<1>1. /\ lastId' = lastId /\ Control' /\ worker' = worker /\ Rows /\ Rows' /\ Tables
      /\ transcript' = [transcript EXCEPT ![j] = None]
      /\ chunks' = [chunks EXCEPT ![j] = NoChunks]
      /\ embedded' = [embedded EXCEPT ![j] = {}]
      /\ step'[j] = "deleted" /\ runs'[j] = <<>>
      /\ \A k \in Jobs \ {j} : step'[k] = step[k] /\ runs'[k] = runs[k]
  BY DeleteStep DEF DeleteJob, Control, Data
<1>2. /\ chunks'[j] = NoChunks /\ transcript'[j] = None /\ embedded'[j] = {}
      /\ \A k \in Jobs \ {j} : /\ chunks'[k] = chunks[k] /\ transcript'[k] = transcript[k]
                              /\ embedded'[k] = embedded[k]
  BY <1>1 DEF Tables
<1>3. Tables'
  <2>1. /\ transcript' \in [Jobs -> Texts \cup {None}]
        /\ chunks' \in [Jobs -> [id : Nat \ {0}, text : Texts] \cup {NoChunks}]
        /\ embedded' \in [Jobs -> SUBSET Nat]
    BY <1>1 DEF Tables
  <2>2. ASSUME NEW k \in Jobs
        PROVE  embedded'[k] \subseteq 1..Size(chunks'[k]) /\ chunks'[k].id <= lastId'
    <3>1. CASE k = j
      BY <1>1, <1>2, <3>1 DEF Tables, NoChunks
    <3>2. CASE k # j
      BY <1>1, <1>2, <3>2 DEF Tables
    <3> QED BY <3>1, <3>2
  <2> QED BY <1>1, <2>1, <2>2 DEF Tables, Size
<1>4. ASSUME NEW v \in Workers PROVE Working(v)'
  <2>1. ASSUME worker[v] # Free
        PROVE  LET k == Job(v)
               IN  /\ step'[k] \in JL!JobSteps => JL!Exists(k)
                   /\ \/ chunks'[k] = chunks[k]
                      \/ /\ chunks'[k].id \notin 1..lastId
                         /\ step'[k] \in JL!JobSteps => Size(chunks'[k]) > 0
                   /\ transcript'[k] = transcript[k]
                      \/ (step'[k] \in JL!JobSteps => transcript'[k] # None)
    <3>1. CASE Job(v) = j
      BY <1>1, <1>2, <3>1 DEF JL!JobSteps, JL!RunSteps, NoChunks, Tables
    <3>2. CASE Job(v) # j
      BY <1>1, <1>2, <2>1, <3>2, HeldFields DEF JL!Exists
    <3> QED BY <3>1, <3>2
  <2>2. worker'[v] = worker[v] /\ lastId' \in Nat /\ lastId <= lastId'
    BY <1>1 DEF Tables
  <2> QED BY <2>1, <2>2, WorkingKept
<1>5. ASSUME NEW k \in Jobs PROVE Outputs(k)'
  <2>1. CASE k = j
    BY <1>1, <2>1 DEF Outputs, HasSucceeded
  <2>2. CASE k # j
    BY <1>1, <1>2, <2>2 DEF Data, Outputs, HasSucceeded, Size
  <2> QED BY <2>1, <2>2
<1> QED BY <1>3, <1>4, <1>5 DEF Data

LEMMA SessionData ==
    ASSUME Control, Data, Sessions, NEW e \in Editors,
           (\E j \in Jobs : OpenEditor(e, j)) \/ SaveInEditor(e) \/ CloseEditor(e)
    PROVE  Control' /\ Data' /\ Sessions'
<1>1. /\ UNCHANGED <<step, runs, chunks, embedded, worker, lastId>> /\ Tables
  BY DEF OpenEditor, SaveInEditor, CloseEditor, artifactVars, Data
<1>2. Sessions'
  BY <1>1, OpenEditorStep, SaveInEditorStep, CloseEditorStep
<1>3. Control'
  <2>1. ASSUME NEW v \in Workers PROVE Engaged(v)'
    BY <1>1, KeepSame
  <2> QED BY <1>1, <2>1, RowsStep
<1>4. /\ \A k \in Jobs : transcript'[k] = transcript[k] \/ transcript'[k] \in Texts
      /\ transcript' \in [Jobs -> Texts \cup {None}]
  <2>1. CASE CloseEditor(e)
    BY <1>1, <2>1, CloseEditorStep DEF Tables
  <2>2. CASE ~CloseEditor(e)
    BY <1>1, <2>2 DEF OpenEditor, SaveInEditor, artifactVars, Tables
  <2> QED BY <2>1, <2>2
<1>5. Tables'
  BY <1>1, <1>4 DEF Tables, Size
<1>6. ASSUME NEW v \in Workers PROVE Working(v)'
  <2>1. worker'[v] = worker[v] /\ lastId' \in Nat /\ lastId <= lastId'
    BY <1>1 DEF Tables
  <2> QED BY <1>1, <1>4, <2>1, WorkingKept, HeldFields, TextsAssumption DEF JL!Exists
<1>7. ASSUME NEW j \in Jobs PROVE Outputs(j)'
  BY <1>1, <1>4, TextsAssumption DEF Data, Outputs, HasSucceeded, Size
<1> QED BY <1>2, <1>3, <1>5, <1>6, <1>7 DEF Data

-----------------------------------------------------------------------------
(* Layer 4: a job none of whose runs was aborted has one worker at most, so  *)
(* its tables hold what that worker wrote.                                   *)

Sole(j) == step[j] # "deleted" /\ NoRunAborted(j)

\* No embed run of the job has been started yet.
Fresh(j) ==
    \/ step[j] \in {"absent", "extract", "chunk"}
    \/ runs[j] # <<>> /\ runs[j][Len(runs[j])].status = "pending"

Contents(j) ==
    Sole(j) =>
        /\ Fresh(j) => embedded[j] = {}
        /\ HasSucceeded(j, "embed") => embedded[j] = 1..Size(chunks[j])
        /\ edits = 0 /\ HasSucceeded(j, "chunk") => chunks[j].text = transcript[j]

Knows(w) ==
    worker[w] # Free /\ Sole(Job(w)) =>
        LET j == Job(w)
            r == worker[w]
        IN  /\ r.pc \in {"load", "body"} => embedded[j] = {}
            /\ r.pc \in {"embed", "store"} =>
                  /\ chunks[j].id = r.id /\ Size(chunks[j]) = r.total
                  /\ embedded[j] = 1..r.done
            /\ r.pc = "succeed" /\ r.step = "embed" => embedded[j] = 1..Size(chunks[j])
            /\ edits = 0 /\ r.pc = "split" => r.text = transcript[j]
            /\ edits = 0 /\ r.pc = "succeed" /\ r.step = "chunk" =>
                  chunks[j].text = transcript[j]

Soles == (\A j \in Jobs : Contents(j)) /\ (\A w \in Workers : Knows(w))

\* The worker of such a job executes its last run, and no other one is on it.
LEMMA SoleDriver ==
    ASSUME Control, NEW w \in Workers, worker[w] # Free, NEW j \in Jobs, Job(w) = j, Sole(j)
    PROVE  /\ \A v \in Workers \ {w} : worker[v] # Free => Job(v) # j
           /\ runs[j] # <<>> /\ Len(runs[j]) \in Nat \ {0}
           /\ ~At(w, "continue") =>
                 /\ runs[j][Len(runs[j])].status = "running"
                 /\ step[j] \in JL!RunSteps
                 /\ ~At(w, "load") => worker[w].step = step[j]
<1>1. Rows /\ JL!Exists(j) /\ Len(runs[j]) \in Nat
  BY JobRow DEF Control, Engaged, Sole, JL!Exists
<1>2. ASSUME NEW v \in Workers, worker[v] # Free, Job(v) = j
      PROVE  /\ worker[v].run = Len(runs[j]) /\ Owns(v) /\ Len(runs[j]) >= 1
             /\ ~At(v, "continue") => runs[j][Len(runs[j])].status = "running"
  <2>1. Owns(v)
    BY <1>1, <1>2 DEF Control, Engaged
  <2>2. worker[v].run \in 1..Len(runs[j]) /\ Len(runs[j]) >= 1
    BY <1>1, <1>2, <2>1 DEF Owns
  <2>3. runs[j][worker[v].run].status # "aborted"
    BY <1>1, <2>2 DEF Sole, NoRunAborted, Rows, JL!TypeOK
  <2> QED BY <1>1, <1>2, <2>1, <2>2, <2>3, ActiveIsLast DEF Owns, JL!Active
<1>3. ASSUME NEW v \in Workers \ {w}, worker[v] # Free PROVE Job(v) # j
  BY <1>2, <1>3 DEF Control, OneDriver
<1>4. runs[j] # <<>>
  BY <1>1, <1>2
<1>5. ASSUME ~At(w, "continue")
      PROVE  /\ runs[j][Len(runs[j])].status = "running"
             /\ step[j] \in JL!RunSteps /\ (~At(w, "load") => worker[w].step = step[j])
  <2>1. /\ Len(runs[j]) \in 1..Len(runs[j]) /\ runs[j][Len(runs[j])].status = "running"
        /\ Owns(w) /\ worker[w].run = Len(runs[j])
    BY <1>1, <1>2, <1>5
  <2>2. step[j] \in JL!RunSteps /\ runs[j][Len(runs[j])].step = step[j]
    BY <1>1, <2>1, ActiveIsLast DEF JL!Active
  <2> QED BY <1>5, <2>1, <2>2 DEF Owns
<1> QED BY <1>1, <1>2, <1>3, <1>4, <1>5

\* While a run is running neither its step nor a later one has succeeded.
LEMMA NotYetSucceeded ==
    ASSUME Rows, NEW j \in Jobs, Len(runs[j]) >= 1, runs[j][Len(runs[j])].status = "running"
    PROVE  ~HasSucceeded(j, "embed") /\ (HasSucceeded(j, "chunk") => step[j] = "embed")
<1>1. /\ Len(runs[j]) \in 1..Len(runs[j]) /\ DOMAIN runs[j] = 1..Len(runs[j])
      /\ step[j] \in JL!RunSteps /\ Len(runs[j]) \in Nat
      /\ JL!History(step[j], runs[j])
  BY JobRow, ActiveIsLast DEF JL!Active, Rows, JL!TypeOK
<1>2. JL!Layout(step[j], runs[j])
  BY <1>1 DEF JL!History, JL!JobSteps
<1>3. CASE step[j] = "extract"
  BY <1>1, <1>2, <1>3 DEF HasSucceeded, JL!Layout, JL!Extracts, JL!PhaseTwoRuns
<1>4. CASE step[j] = "chunk"
  BY <1>1, <1>2, <1>4 DEF HasSucceeded, JL!Layout, JL!Extracts, JL!PhaseTwoRuns
<1>5. CASE step[j] = "embed"
  BY <1>1, <1>2, <1>5 DEF HasSucceeded, JL!Layout, JL!Extracts, JL!PhaseTwoRuns
<1> QED BY <1>1, <1>3, <1>4, <1>5 DEF JL!RunSteps

\* No statement makes a job sole again.
LEMMA UpdatedSole ==
    ASSUME Rows, Rows', NEW j \in Jobs, NEW i, NEW s, Updated(j, i, s),
           runs[j][i].status \in JL!Active
    PROVE  /\ \A k \in Jobs : Sole(k)' => Sole(k)
           /\ s = "aborted" => ~Sole(j)'
<1>1. \A k \in Jobs \ {j} : Sole(k)' => Sole(k)
  BY DEF Updated, Sole, NoRunAborted
<1>2. DOMAIN runs[j] = 1..Len(runs[j]) /\ DOMAIN runs'[j] = 1..Len(runs'[j])
      /\ Len(runs[j]) \in Nat
  BY DEF Rows, JL!TypeOK
<1>3. Sole(j)' => Sole(j)
  BY <1>2 DEF Updated, Sole, NoRunAborted, JL!Active
<1>4. s = "aborted" => ~Sole(j)'
  BY <1>2 DEF Updated, Sole, NoRunAborted
<1> QED BY <1>1, <1>3, <1>4

LEMMA ExtendedSole ==
    ASSUME Rows, Rows', NEW j \in Jobs, NEW s, Extended(j, s)
    PROVE  \A k \in Jobs : Sole(k)' => Sole(k)
<1>1. \A k \in Jobs \ {j} : Sole(k)' => Sole(k)
  BY DEF Extended, Sole, NoRunAborted
<1>2. DOMAIN runs[j] = 1..Len(runs[j]) /\ DOMAIN runs'[j] = 1..Len(runs'[j])
      /\ Len(runs[j]) \in Nat
  BY DEF Rows, JL!TypeOK
<1>3. Sole(j)' => Sole(j)
  BY <1>2 DEF Extended, Sole, NoRunAborted
<1> QED BY <1>1, <1>3

\* What does not move stays known, ...
LEMMA KnowsKept ==
    ASSUME Soles, NEW v \in Workers, worker'[v] = worker[v],
           worker[v] # Free /\ Sole(Job(v))' =>
               LET k == Job(v)
               IN  /\ Sole(k)
                   /\ chunks'[k] = chunks[k] /\ embedded'[k] = embedded[k]
                   /\ edits' # 0 \/ (edits = 0 /\ transcript'[k] = transcript[k])
    PROVE  Knows(v)'
BY DEF Soles, Knows, Job, Size

\* ... and the tables of a job stay what they are, as long as no new run succeeds.
LEMMA ContentsKept ==
    ASSUME Soles, NEW k \in Jobs, chunks'[k] = chunks[k], embedded'[k] = embedded[k],
           edits' # 0 \/ (edits = 0 /\ transcript'[k] = transcript[k]),
           Sole(k)' => Sole(k), Fresh(k)' => Fresh(k),
           \A t \in {"chunk", "embed"} : HasSucceeded(k, t)' => HasSucceeded(k, t)
    PROVE  Contents(k)'
BY DEF Soles, Contents, Size

\* One worker moves and may write to the tables of its job.
LEMMA WorkerSoles ==
    ASSUME Control, Soles, UNCHANGED <<step, runs, edits>>,
           NEW w \in Workers, worker[w] # Free, NEW j \in Jobs, Job(w) = j, Others(w),
           \A k \in Jobs \ {j} : /\ transcript'[k] = transcript[k] /\ chunks'[k] = chunks[k]
                                 /\ embedded'[k] = embedded[k],
           Sole(j) => Knows(w)' /\ Contents(j)',
           worker'[w] # Free => worker'[w].job = j
    PROVE  Soles'
<1>1. \A k \in Jobs : /\ Sole(k)' <=> Sole(k)
                      /\ Fresh(k)' <=> Fresh(k)
                      /\ \A t : HasSucceeded(k, t)' <=> HasSucceeded(k, t)
  BY DEF Sole, NoRunAborted, Fresh, HasSucceeded
<1>2. Knows(w)' /\ Contents(j)'
  <2>1. CASE ~Sole(j)
    BY <1>1, <2>1 DEF Knows, Contents, Job
  <2> QED BY <2>1
<1>3. ASSUME NEW k \in Jobs \ {j} PROVE Contents(k)'
  BY <1>1, <1>3, ContentsKept
<1>4. ASSUME NEW v \in Workers \ {w} PROVE Knows(v)'
  <2>1. worker'[v] = worker[v]
    BY <1>4 DEF Others
  <2>2. CASE worker[v] = Free
    BY <2>1, <2>2 DEF Knows
  <2>3. CASE worker[v] # Free /\ Job(v) = j
    <3>1. ~Sole(j)
      BY <2>3, <1>4, SoleDriver
    <3> QED BY <1>1, <2>1, <2>3, <3>1 DEF Knows, Job
  <2>4. CASE worker[v] # Free /\ Job(v) # j
    <3>1. Job(v) \in Jobs \ {j}
      BY <2>4, HeldFields
    <3>2. PICK k \in Jobs \ {j} : k = Job(v)
      BY <3>1
    <3> QED BY <1>1, <2>1, <2>4, <3>1, KnowsKept DEF Job
  <2> QED BY <2>2, <2>3, <2>4
<1> QED BY <1>2, <1>3, <1>4 DEF Soles

\* The steps of layer 4 that write to no table, ...
LEMMA QuietSoles ==
    ASSUME Control, Data, Soles, NEW w \in Workers,
           \/ Load(w) \/ Crash(w) \/ BodyFails(w) \/ ReadSource(w) \/ ReadTranscript(w)
           \/ ReadChunks(w) \/ EmbedNextBatch(w)
    PROVE  Soles'
<1>1. UNCHANGED <<step, runs, transcript, chunks, embedded, edits>> /\ worker[w] # Free
  BY AtHeld DEF Load, Crash, BodyFails, ReadSource, ReadTranscript, ReadChunks, EmbedNextBatch,
                artifactVars, sessions, At, Free
<1>2. PICK j \in Jobs : j = Job(w)
  BY <1>1, HeldFields
<1>3. worker[w] \in Held /\ Knows(w) /\ Tables
  BY <1>1, HeldFields DEF Soles, Data
<1>4. Contents(j)'
  BY <1>1, ContentsKept DEF Sole, NoRunAborted, Fresh, HasSucceeded
<1>5. Others(w) /\ (worker'[w] # Free => worker'[w].job = j)
      /\ (Sole(j) => Knows(w)')
  <2>1. CASE Load(w)
    <3>1. CASE worker'[w] = [worker[w] EXCEPT !.pc = "body", !.step = step[Job(w)]]
      BY <1>1, <1>2, <1>3, <2>1, <3>1, LoadStep DEF Knows, Job, Held, WorkerState, Load, At
    <3>2. CASE worker'[w] = Free
      BY <2>1, <3>2, LoadStep DEF Knows
    <3> QED BY <2>1, <3>1, <3>2, LoadStep
  <2>2. CASE Crash(w)
    BY <2>2, CrashStep DEF Knows
  <2>3. CASE BodyFails(w)
    BY <1>2, <1>3, <2>3, BodyFailsStep DEF Moved, Knows, Job, Held, WorkerState
  <2>4. CASE ReadSource(w)
    <3>1. PICK t \in Texts : worker'[w] = [worker[w] EXCEPT !.pc = "extracted", !.text = t]
      BY <2>4, ReadSourceStep
    <3> QED BY <1>2, <1>3, <2>4, <3>1, ReadSourceStep DEF Moved, Knows, Job, Held, WorkerState
  <2>5. CASE ReadTranscript(w)
    <3>1. /\ Moved(w)
          /\ \/ worker'[w] = [worker[w] EXCEPT !.pc = "fail"]
             \/ worker'[w] = [worker[w] EXCEPT !.pc = "split", !.text = transcript[j]]
      BY <1>2, <1>3, <2>5, ReadTranscriptStep
    <3>2. /\ worker'[w].job = j /\ worker'[w].pc \in {"fail", "split"}
          /\ worker'[w].pc = "split" => worker'[w].text = transcript[j]
      BY <1>2, <1>3, <3>1 DEF Job, Held, WorkerState
    <3>3. Knows(w)'
      BY <1>1, <3>2 DEF Knows, Job
    <3> QED BY <3>1, <3>2, <3>3 DEF Moved
  <2>6. CASE ReadChunks(w)
    <3>1. /\ Moved(w)
          /\ \/ worker'[w] = [worker[w] EXCEPT !.pc = "fail"]
             \/ worker'[w] = [worker[w] EXCEPT !.pc = "embed", !.id = chunks[j].id,
                                               !.total = Size(chunks[j]), !.done = 0]
      BY <1>2, <1>3, <2>6, ReadChunksStep
    <3>2. CASE worker'[w] = [worker[w] EXCEPT !.pc = "fail"]
      BY <1>2, <1>3, <3>1, <3>2 DEF Moved, Knows, Job, Held, WorkerState
    <3>3. CASE worker'[w] = [worker[w] EXCEPT !.pc = "embed", !.id = chunks[j].id,
                                               !.total = Size(chunks[j]), !.done = 0]
      <4>1. Sole(j) => embedded[j] = {}
        BY <1>1, <1>2, <1>3, <2>6 DEF Knows, ReadChunks, At
      <4>2. PICK n \in Nat, d \in Nat : n = Size(chunks[j]) /\ d = chunks[j].id
        BY <1>3, SizeType
      <4>3. worker'[w] = [worker[w] EXCEPT !.pc = "embed", !.id = d, !.total = n, !.done = 0]
        BY <3>3, <4>2
      <4>4. /\ worker'[w].pc = "embed" /\ worker'[w].id = d /\ worker'[w].total = n
            /\ worker'[w].done = 0 /\ worker'[w].job = j
        BY <1>2, <1>3, <4>3 DEF Held, WorkerState, Job
      <4>5. chunks'[j] = chunks[j] /\ embedded'[j] = embedded[j] /\ Size(chunks'[j]) = n
        BY <1>1, <4>2
      <4>6. 1..0 = {}
        OBVIOUS
      <4> QED BY <3>1, <4>1, <4>2, <4>4, <4>5, <4>6 DEF Moved, Knows, Job, Size
    <3> QED BY <3>1, <3>2, <3>3
  <2>7. CASE EmbedNextBatch(w)
    <3>1. Moved(w) /\ worker'[w] = [worker[w] EXCEPT !.pc = "store"] /\ At(w, "embed")
      <4>1. Goto(w, "store") /\ At(w, "embed")
        BY <2>7 DEF EmbedNextBatch
      <4> QED BY <1>1, <4>1, GotoStep DEF BodyPlaces, At
    <3>2. /\ worker'[w].pc = "store" /\ worker'[w].job = j /\ worker[w].pc = "embed"
          /\ worker'[w].id = worker[w].id /\ worker'[w].total = worker[w].total
          /\ worker'[w].done = worker[w].done
      BY <1>2, <1>3, <3>1 DEF Held, WorkerState, Job, At
    <3>3. chunks'[j] = chunks[j] /\ embedded'[j] = embedded[j]
      BY <1>1
    <3>4. worker'[w] # Free /\ Others(w)
      BY <3>1 DEF Moved, Held
    <3>5. Sole(j) => Knows(w)'
      BY <1>1, <1>2, <1>3, <3>2, <3>3 DEF Knows, Job, Size
    <3> QED BY <3>2, <3>4, <3>5
  <2> QED BY <2>1, <2>2, <2>3, <2>4, <2>5, <2>6, <2>7
<1> QED BY <1>1, <1>2, <1>4, <1>5, WorkerSoles

\* ... and those that do.
LEMMA StoreTranscriptSoles ==
    ASSUME Control, Data, Soles, NEW w \in Workers, StoreTranscript(w)
    PROVE  Soles'
<1>1. /\ UNCHANGED <<step, runs, chunks, embedded, edits>> /\ worker[w] # Free
      /\ At(w, "extracted") /\ ~At(w, "load") /\ ~At(w, "continue")
  BY AtHeld DEF StoreTranscript, sessions, At
<1>2. PICK j \in Jobs : j = Job(w)
  BY <1>1, HeldFields
<1>3. /\ worker[w] \in Held /\ worker[w].step = "extract" /\ Tables /\ Rows
      /\ Moved(w)
  BY <1>1, HeldFields, OtherBodyStep DEF Data, Working, Control
<1>4. \/ Goto(w, "fail") /\ transcript' = transcript
      \/ Goto(w, "succeed") /\ transcript' = [transcript EXCEPT ![j] = worker[w].text]
  BY <1>2 DEF StoreTranscript
<1>5. worker'[w].pc \in {"fail", "succeed"} /\ worker'[w].step = "extract"
      /\ worker'[w].job = j
  <2>1. PICK p \in {"fail", "succeed"} : Goto(w, p)
    BY <1>4
  <2>2. worker'[w] = [worker[w] EXCEPT !.pc = p]
    BY <1>1, <2>1, GotoStep DEF BodyPlaces
  <2> QED BY <1>2, <1>3, <2>1, <2>2 DEF Moved, Held, WorkerState, Job
<1>6. Knows(w)'
  BY <1>5 DEF Knows, At, Job
<1>7. \A k \in Jobs \ {j} : transcript'[k] = transcript[k]
  BY <1>3, <1>4 DEF Tables
<1>8. Sole(j) => Contents(j)'
  <2>1. ASSUME Sole(j) PROVE ~HasSucceeded(j, "chunk")
    <3>1. step[j] = "extract" /\ runs[j][Len(runs[j])].status = "running" /\ Len(runs[j]) >= 1
      BY <1>1, <1>2, <1>3, <2>1, SoleDriver
    <3> QED BY <1>3, <3>1, NotYetSucceeded
  <2> QED BY <1>1, <2>1 DEF Soles, Contents, Sole, NoRunAborted, Fresh, HasSucceeded, Size
<1> QED BY <1>1, <1>2, <1>3, <1>5, <1>6, <1>7, <1>8, WorkerSoles DEF Moved

LEMMA ReplaceChunksSoles ==
    ASSUME Control, Data, Soles, NEW w \in Workers, ReplaceChunks(w)
    PROVE  Soles'
<1>1. /\ UNCHANGED <<step, runs, transcript, edits>> /\ worker[w] # Free
      /\ At(w, "split") /\ ~At(w, "load") /\ ~At(w, "continue")
  BY AtHeld DEF ReplaceChunks, sessions, At
<1>2. PICK j \in Jobs : j = Job(w)
  BY <1>1, HeldFields
<1>3. /\ worker[w] \in Held /\ worker[w].step = "chunk" /\ Tables /\ Rows
      /\ Moved(w) /\ Knows(w)
  BY <1>1, HeldFields, OtherBodyStep DEF Data, Working, Control, Soles
<1>4. CASE Goto(w, "fail") /\ UNCHANGED <<chunks, embedded>>
  <2>1. worker'[w] = [worker[w] EXCEPT !.pc = "fail"]
    BY <1>1, <1>4, GotoStep DEF BodyPlaces
  <2>2. worker'[w].pc = "fail" /\ worker'[w].job = j
    BY <1>2, <1>3, <2>1 DEF Held, WorkerState, Job
  <2>3. Knows(w)'
    BY <2>2 DEF Knows, At
  <2>4. Contents(j)'
    BY <1>1, <1>4, ContentsKept DEF Sole, NoRunAborted, Fresh, HasSucceeded
  <2> QED BY <1>1, <1>2, <1>3, <1>4, <2>2, <2>3, <2>4, WorkerSoles DEF Moved
<1>5. CASE /\ Goto(w, "succeed")
           /\ chunks' = [chunks EXCEPT ![j] = [id |-> lastId + 1, text |-> worker[w].text]]
           /\ embedded' = [embedded EXCEPT ![j] = {}]
  <2>1. worker'[w] = [worker[w] EXCEPT !.pc = "succeed"]
    BY <1>1, <1>5, GotoStep DEF BodyPlaces
  <2>2. worker'[w].pc = "succeed" /\ worker'[w].job = j /\ worker'[w].step = "chunk"
    BY <1>2, <1>3, <2>1 DEF Held, WorkerState, Job
  <2>3. /\ chunks'[j].text = worker[w].text /\ embedded'[j] = {}
        /\ \A k \in Jobs \ {j} : chunks'[k] = chunks[k] /\ embedded'[k] = embedded[k]
    BY <1>3, <1>5 DEF Tables
  <2>4. Sole(j) /\ edits = 0 => chunks'[j].text = transcript[j]
    BY <1>1, <1>2, <1>3, <2>3 DEF Knows, At
  <2>5. Sole(j) => Knows(w)'
    BY <1>1, <2>2, <2>4 DEF Knows, At, Job
  <2>6. Sole(j) => Contents(j)'
    <3>1. ASSUME Sole(j) PROVE ~HasSucceeded(j, "embed") /\ ~HasSucceeded(j, "chunk")
      <4>1. step[j] = "chunk" /\ runs[j][Len(runs[j])].status = "running" /\ Len(runs[j]) >= 1
        BY <1>1, <1>2, <1>3, <3>1, SoleDriver
      <4> QED BY <1>3, <4>1, NotYetSucceeded
    <3> QED BY <1>1, <2>3, <3>1 DEF Contents, HasSucceeded
  <2> QED BY <1>1, <1>2, <1>3, <2>2, <2>3, <2>5, <2>6, WorkerSoles DEF Moved
<1> QED BY <1>2, <1>4, <1>5 DEF ReplaceChunks

LEMMA StoreEmbeddingSoles ==
    ASSUME Control, Data, Soles, NEW w \in Workers, StoreEmbedding(w)
    PROVE  Soles'
<1>1. /\ UNCHANGED <<step, runs, transcript, chunks, edits>> /\ worker[w] # Free
      /\ At(w, "store") /\ ~At(w, "load") /\ ~At(w, "continue")
  BY AtHeld DEF StoreEmbedding, sessions, At
<1>2. PICK j \in Jobs : j = Job(w)
  BY <1>1, HeldFields
<1>3. /\ worker[w] \in Held /\ worker[w].step = "embed" /\ Tables /\ Rows
      /\ Moved(w) /\ Knows(w)
  BY <1>1, HeldFields, StoreEmbeddingStep DEF Data, Working, Control, Soles, At
<1>4. CASE worker'[w] = [worker[w] EXCEPT !.pc = "fail"] /\ embedded' = embedded
  <2>1. worker'[w].pc = "fail" /\ worker'[w].job = j
    BY <1>2, <1>3, <1>4 DEF Held, WorkerState, Job
  <2>2. Knows(w)'
    BY <2>1 DEF Knows, At
  <2>3. Contents(j)'
    BY <1>1, <1>4, ContentsKept DEF Sole, NoRunAborted, Fresh, HasSucceeded
  <2> QED BY <1>1, <1>2, <1>3, <1>4, <2>1, <2>2, <2>3, WorkerSoles DEF Moved
<1>5. ASSUME NEW p \in {"embed", "store", "succeed"},
             worker'[w] = [worker[w] EXCEPT !.done = worker[w].done + 1, !.pc = p],
             p = "succeed" <=> worker[w].done + 1 = worker[w].total,
             embedded' = [embedded EXCEPT ![j] = @ \cup {worker[w].done + 1}]
      PROVE  Soles'
  <2>1. /\ worker'[w].pc = p /\ worker'[w].step = "embed" /\ worker'[w].job = j
        /\ worker'[w].done = worker[w].done + 1 /\ worker'[w].total = worker[w].total
        /\ worker'[w].id = worker[w].id /\ worker[w].done \in Nat
    BY <1>2, <1>3, <1>5 DEF Held, WorkerState, Job
  <2>2. /\ embedded'[j] = embedded[j] \cup {worker[w].done + 1}
        /\ \A k \in Jobs \ {j} : embedded'[k] = embedded[k]
    BY <1>3, <1>5 DEF Tables
  <2>3. ASSUME Sole(j)
        PROVE  /\ chunks[j].id = worker[w].id /\ Size(chunks[j]) = worker[w].total
               /\ embedded'[j] = 1..(worker[w].done + 1)
               /\ ~HasSucceeded(j, "embed") /\ ~Fresh(j)
    <3>1. /\ chunks[j].id = worker[w].id /\ Size(chunks[j]) = worker[w].total
          /\ embedded[j] = 1..worker[w].done
      BY <1>1, <1>2, <1>3, <2>3 DEF Knows, At
    <3>2. step[j] = "embed" /\ runs[j][Len(runs[j])].status = "running" /\ Len(runs[j]) >= 1
      BY <1>1, <1>2, <1>3, <2>3, SoleDriver
    <3> QED BY <1>3, <2>1, <2>2, <3>1, <3>2, NotYetSucceeded DEF Fresh
  <2>4. Sole(j) => Knows(w)'
    BY <1>1, <1>5, <2>1, <2>3 DEF Knows, At, Job, Size
  <2>5. Sole(j) => Contents(j)'
    BY <1>1, <2>3 DEF Soles, Contents, Sole, NoRunAborted, Fresh, HasSucceeded, Size
  <2> QED BY <1>1, <1>2, <1>3, <2>1, <2>2, <2>4, <2>5, WorkerSoles DEF Moved
<1> QED BY <1>2, <1>4, <1>5, StoreEmbeddingStep

\* The steps of layer 4 that write to the rows only.
LEMMA RowsSoles ==
    ASSUME Control, Soles, UNCHANGED <<transcript, chunks, embedded, edits>>,
           \A k \in Jobs : Sole(k)' => Sole(k),
           \A k \in Jobs : \/ Contents(k)'
                           \/ /\ Fresh(k)' => Fresh(k)
                              /\ \A t \in {"chunk", "embed"} :
                                    HasSucceeded(k, t)' => HasSucceeded(k, t),
           \A v \in Workers : Knows(v)' \/ worker'[v] = worker[v]
    PROVE  Soles'
<1>1. ASSUME NEW k \in Jobs PROVE Contents(k)'
  BY <1>1, ContentsKept
<1>2. ASSUME NEW v \in Workers PROVE Knows(v)'
  <2>1. CASE worker'[v] = worker[v] /\ worker[v] # Free
    <3>1. PICK k \in Jobs : k = Job(v)
      BY <2>1, HeldFields
    <3>2. Sole(Job(v))' => Sole(k)'
      BY <2>1, <3>1 DEF Job, Sole, NoRunAborted
    <3> QED BY <2>1, <3>1, <3>2, KnowsKept DEF Job
  <2>2. CASE worker'[v] = worker[v] /\ worker[v] = Free
    BY <2>2 DEF Knows
  <2> QED BY <2>1, <2>2
<1> QED BY <1>1, <1>2 DEF Soles

LEMMA ClaimSoles ==
    ASSUME Control, Soles, NEW w \in Workers, NEW j \in Jobs, Claim(w, j)
    PROVE  Soles'
<1>1. /\ UNCHANGED <<transcript, chunks, embedded, edits>> /\ Control' /\ Others(w)
      /\ Updated(j, Len(runs[j]), "running") /\ Rows /\ Rows'
      /\ runs[j][Len(runs[j])].status = "pending"
      /\ worker'[w].pc = "load" /\ worker'[w].job = j
  BY ClaimStep DEF Claim, artifactVars, sessions, Control
<1>2. \A k \in Jobs : Sole(k)' => Sole(k)
  BY <1>1, UpdatedSole DEF JL!Active
<1>3. Fresh(j)
  BY <1>1, JobRow DEF Fresh, Updated
<1>4. \A k \in Jobs : Fresh(k)' => Fresh(k)
  BY <1>1, <1>3 DEF Fresh, Updated
<1>5. \A k \in Jobs : \A t : HasSucceeded(k, t)' => HasSucceeded(k, t)
  BY <1>1, UpdatedSucceeds
<1>6. Knows(w)'
  <2>1. Sole(Job(w))' => Sole(j)
    BY <1>1, <1>2 DEF Job, Sole, NoRunAborted
  <2>2. Sole(j) => embedded[j] = {}
    BY <1>3 DEF Soles, Contents
  <2> QED BY <1>1, <2>1, <2>2 DEF Knows, Job
<1> QED BY <1>1, <1>2, <1>4, <1>5, <1>6, RowsSoles DEF Others

LEMMA FinishSoles ==
    ASSUME Control, Soles, NEW w \in Workers, Finish(w)
    PROVE  Soles'
<1>1. /\ UNCHANGED <<transcript, chunks, embedded, edits>> /\ Control' /\ Others(w)
      /\ worker[w] # Free /\ worker[w] \in Held /\ Engaged(w)
      /\ Rows /\ Rows' /\ Knows(w)
  BY FinishStep, HeldFields, AtHeld DEF Finish, artifactVars, sessions, Control, Soles
<1>2. PICK j \in Jobs : j = Job(w)
  BY <1>1, HeldFields
<1>3. Knows(w)'
  <2>1. worker'[w] = Free \/ worker'[w].pc = "continue"
    BY <1>1, FinishStep DEF Held, WorkerState
  <2> QED BY <2>1 DEF Knows, At
<1>4. CASE UNCHANGED <<step, runs>>
  BY <1>1, <1>3, <1>4, RowsSoles DEF Others, Sole, NoRunAborted, Fresh, HasSucceeded
<1>5. ASSUME NEW i \in 1..Len(runs[j]), i = worker[w].run, NEW s \in {"succeeded", "failed"},
             runs[j][i].status = "running", Updated(j, i, s), s = "succeeded" => At(w, "succeed")
      PROVE  Soles'
  <2>1. \A k \in Jobs : Sole(k)' => Sole(k)
    BY <1>1, <1>5, UpdatedSole DEF JL!Active
  <2>2. \A k \in Jobs : Fresh(k)' => Fresh(k)
    BY <1>1, <1>5 DEF Fresh, Updated
  <2>3. \A k \in Jobs : \A t : HasSucceeded(k, t)' =>
           HasSucceeded(k, t) \/ (k = j /\ s = "succeeded" /\ t = runs[j][i].step)
    BY <1>1, <1>5, UpdatedSucceeds
  <2>4. s = "succeeded" => worker[w].step = runs[j][i].step
    <3>1. JL!Exists(j)
      BY <1>1, <1>5, ActiveIsLast DEF JL!Active, JL!Exists, JL!JobSteps
    <3> QED BY <1>1, <1>2, <1>5, <3>1 DEF Engaged, Owns, At
  <2>5. Contents(j)'
    <3>1. SUFFICES ASSUME Sole(j)' PROVE Contents(j)'
      BY DEF Contents
    <3>2. Sole(j) /\ Contents(j)
      BY <2>1, <3>1 DEF Soles
    <3>3. Fresh(j)' => embedded'[j] = {}
      BY <1>1, <2>2, <3>2 DEF Contents
    <3>4. HasSucceeded(j, "embed")' => embedded'[j] = 1..Size(chunks'[j])
      BY <1>1, <1>2, <1>5, <2>3, <2>4, <3>2 DEF Contents, Knows, At, Size
    <3>5. edits' = 0 /\ HasSucceeded(j, "chunk")' => chunks'[j].text = transcript'[j]
      BY <1>1, <1>2, <1>5, <2>3, <2>4, <3>2 DEF Contents, Knows, At
    <3> QED BY <3>3, <3>4, <3>5 DEF Contents, Size
  <2> QED BY <1>1, <1>3, <2>1, <2>2, <2>3, <2>5, RowsSoles DEF Others
<1>6. PICK i : i = worker[w].run
  OBVIOUS
<1> QED BY <1>2, <1>4, <1>5, <1>6, FinishStep

LEMMA ContinueSoles ==
    ASSUME Control, Soles, NEW w \in Workers, Continue(w)
    PROVE  Soles'
<1>1. /\ UNCHANGED <<transcript, chunks, embedded, edits>> /\ Control' /\ Others(w)
      /\ worker[w] # Free /\ Rows /\ Rows'
  BY ContinueStep, AtHeld DEF Continue, artifactVars, sessions, Control
<1>2. PICK j \in Jobs : j = Job(w)
  BY <1>1, HeldFields
<1>3. worker'[w] = Free => Knows(w)'
  BY DEF Knows
<1>4. CASE worker'[w] = Free /\ UNCHANGED <<step, runs>>
  BY <1>1, <1>3, <1>4, RowsSoles DEF Others, Sole, NoRunAborted, Fresh, HasSucceeded
<1>5. CASE /\ worker'[w] = Free /\ runs' = runs
           /\ step' = [step EXCEPT ![j] = "completed"] /\ step[j] = "embed"
  <2>1. step'[j] = "completed" /\ \A k \in Jobs \ {j} : step'[k] = step[k]
    BY <1>1, <1>5 DEF Rows, JL!TypeOK
  <2> QED BY <1>1, <1>3, <1>5, <2>1, RowsSoles
          DEF Others, Sole, NoRunAborted, Fresh, HasSucceeded
<1>6. CASE /\ worker'[w].pc = "load" /\ worker'[w].job = j
           /\ Extended(j, "running") /\ step[j] = "chunk" /\ step'[j] = "embed"
  <2>1. /\ \A k \in Jobs : Sole(k)' => Sole(k)
        /\ \A k \in Jobs : \A t : HasSucceeded(k, t)' => HasSucceeded(k, t)
    BY <1>1, <1>6, ExtendedSole, ExtendedSucceeds
  <2>2. ~Fresh(j)'
    <3>1. runs'[j][Len(runs'[j])].status = "running"
      BY <1>6 DEF Extended
    <3> QED BY <1>6, <3>1 DEF Fresh
  <2>3. \A k \in Jobs : Fresh(k)' => Fresh(k)
    BY <1>6, <2>2 DEF Fresh, Extended
  <2>4. Knows(w)'
    <3>1. Sole(Job(w))' => Sole(j)
      BY <1>6, <2>1 DEF Job, Sole, NoRunAborted
    <3>2. Sole(j) => embedded[j] = {}
      BY <1>6 DEF Soles, Contents, Fresh
    <3> QED BY <1>1, <1>6, <3>1, <3>2 DEF Knows, Job
  <2> QED BY <1>1, <2>1, <2>3, <2>4, RowsSoles DEF Others
<1> QED BY <1>2, <1>4, <1>5, <1>6, ContinueStep DEF Job

LEMMA CommandSoles ==
    ASSUME Control, Soles, NEW j \in Jobs, Command(j)
    PROVE  Soles'
<1>1. /\ UNCHANGED <<transcript, chunks, embedded, edits, worker>> /\ Control'
      /\ Rows /\ Rows'
  BY CommandStep DEF Command, artifactVars, sessions, Control
<1>2. CASE Extended(j, "pending") /\ step[j] \in {"absent", "extract"}
  <2>1. /\ \A k \in Jobs : Sole(k)' => Sole(k)
        /\ \A k \in Jobs : \A t : HasSucceeded(k, t)' => HasSucceeded(k, t)
    BY <1>1, <1>2, ExtendedSole, ExtendedSucceeds
  <2>2. \A k \in Jobs : Fresh(k)' => Fresh(k)
    BY <1>2 DEF Fresh, Extended
  <2> QED BY <1>1, <2>1, <2>2, RowsSoles
<1>3. CASE Updated(j, Len(runs[j]), "aborted") /\ runs[j][Len(runs[j])].status \in JL!Active
  <2>1. (\A k \in Jobs : Sole(k)' => Sole(k)) /\ ~Sole(j)'
    BY <1>1, <1>3, UpdatedSole
  <2>2. Contents(j)'
    BY <2>1 DEF Contents
  <2>3. \A k \in Jobs \ {j} : Fresh(k)' => Fresh(k)
    BY <1>3 DEF Fresh, Updated
  <2>4. \A k \in Jobs : \A t : HasSucceeded(k, t)' => HasSucceeded(k, t)
    BY <1>1, <1>3, UpdatedSucceeds
  <2> QED BY <1>1, <2>1, <2>2, <2>3, <2>4, RowsSoles
<1> QED BY <1>2, <1>3, CommandStep

LEMMA DeleteSoles ==
    ASSUME Control, Data, Soles, NEW j \in Jobs, DeleteJob(j)
    PROVE  Soles'
<1>1. /\ UNCHANGED <<worker, edits>> /\ step'[j] = "deleted" /\ Tables
      /\ \A k \in Jobs \ {j} : step'[k] = step[k] /\ runs'[k] = runs[k]
      /\ transcript' = [transcript EXCEPT ![j] = None]
      /\ chunks' = [chunks EXCEPT ![j] = NoChunks]
      /\ embedded' = [embedded EXCEPT ![j] = {}]
  BY DeleteStep DEF DeleteJob, sessions, Data
<1>2. \A k \in Jobs \ {j} : /\ transcript'[k] = transcript[k] /\ chunks'[k] = chunks[k]
                            /\ embedded'[k] = embedded[k]
                            /\ Sole(k)' <=> Sole(k)
                            /\ Fresh(k)' <=> Fresh(k)
                            /\ \A t : HasSucceeded(k, t)' <=> HasSucceeded(k, t)
  BY <1>1 DEF Tables, Sole, NoRunAborted, Fresh, HasSucceeded
<1>3. ASSUME NEW k \in Jobs PROVE Contents(k)'
  <2>1. CASE k = j
    BY <1>1, <2>1 DEF Contents, Sole
  <2>2. CASE k # j
    BY <1>1, <1>2, <2>2, ContentsKept
  <2> QED BY <2>1, <2>2
<1>4. ASSUME NEW v \in Workers PROVE Knows(v)'
  <2>1. CASE worker[v] = Free
    BY <1>1, <2>1 DEF Knows
  <2>2. CASE worker[v] # Free
    <3>1. PICK k \in Jobs : k = Job(v)
      BY <2>2, HeldFields
    <3>2. CASE k = j
      BY <1>1, <3>1, <3>2 DEF Knows, Sole, Job
    <3>3. CASE k # j
      <4>1. Sole(Job(v))' => Sole(k)
        BY <1>1, <1>2, <3>1, <3>3 DEF Job, Sole, NoRunAborted
      <4> QED BY <1>1, <1>2, <3>1, <3>3, <4>1, KnowsKept DEF Job
    <3> QED BY <3>2, <3>3
  <2> QED BY <2>1, <2>2
<1> QED BY <1>3, <1>4 DEF Soles

LEMMA SessionSoles ==
    ASSUME Control, Data, Sessions, Soles, NEW e \in Editors,
           (\E j \in Jobs : OpenEditor(e, j)) \/ SaveInEditor(e) \/ CloseEditor(e)
    PROVE  Soles'
<1>1. UNCHANGED <<step, runs, chunks, embedded, worker>>
  BY DEF OpenEditor, SaveInEditor, CloseEditor, artifactVars
<1>2. edits' # 0 \/ (edits = 0 /\ transcript' = transcript)
  <2>1. CASE CloseEditor(e)
    BY <2>1, CloseEditorStep DEF Data
  <2>2. CASE ~CloseEditor(e)
    BY <2>2 DEF OpenEditor, SaveInEditor, artifactVars
  <2> QED BY <2>1, <2>2
<1>3. ASSUME NEW k \in Jobs PROVE Contents(k)'
  BY <1>1, <1>2, ContentsKept DEF Sole, NoRunAborted, Fresh, HasSucceeded
<1>4. ASSUME NEW v \in Workers PROVE Knows(v)'
  BY <1>1, <1>2, KnowsKept DEF Sole, NoRunAborted, Job
<1> QED BY <1>3, <1>4 DEF Soles

-----------------------------------------------------------------------------
(* The four layers together. *)

IInv == Control /\ Sessions /\ Data /\ Soles

LEMMA Beginning ==
    ASSUME Init
    PROVE  IInv
<1>1. Rows
  BY SameMachine, P!InitIInv, MaxAttemptsAssumption, AbortStatusesAssumption DEF Init, Rows
<1>2. /\ \A j \in Jobs : step[j] = "absent" /\ runs[j] = <<>>
      /\ \A j \in Jobs : transcript[j] = None /\ chunks[j] = NoChunks /\ embedded[j] = {}
      /\ \A w \in Workers : worker[w] = Free
      /\ \A e \in Editors : editor[e] = Closed
  BY DEF Init, JL!Init
<1>3. Control
  BY <1>1, <1>2 DEF Control, Init, Engaged, OneDriver, WorkerState
<1>4. Sessions
  BY <1>2, MaxEditsAssumption DEF Sessions, Init
<1>5. Data
  <2>1. Tables
    BY <1>2 DEF Tables, Init, NoChunks
  <2>2. \A w \in Workers : Working(w)
    BY <1>2 DEF Working
  <2>3. \A j \in Jobs : Outputs(j)
    BY <1>1, <1>2, GoneSucceeded DEF Outputs, JL!Exists, JL!JobSteps, JL!RunSteps
  <2> QED BY <2>1, <2>2, <2>3 DEF Data
<1>6. Soles
  BY <1>1, <1>2, GoneSucceeded DEF Soles, Knows, Contents, JL!Exists, JL!JobSteps, JL!RunSteps
<1> QED BY <1>3, <1>4, <1>5, <1>6 DEF IInv

LEMMA SessionsElsewhere ==
    ASSUME Sessions, UNCHANGED sessions
    PROVE  Sessions'
BY DEF Sessions, sessions

LEMMA Step ==
    ASSUME IInv, [Next]_vars
    PROVE  IInv'
<1>1. Control /\ Sessions /\ Data /\ Soles /\ Tables
  BY DEF IInv, Data
<1>2. CASE \E w \in Workers, j \in Jobs : Claim(w, j)
  BY <1>1, <1>2, ClaimStep, ClaimData, ClaimSoles, SessionsElsewhere DEF IInv, Claim
<1>3. CASE \E w \in Workers : Load(w)
  BY <1>1, <1>3, LoadStep, QuietDataStep, QuietSoles, SessionsElsewhere DEF IInv, Load
<1>4. CASE \E w \in Workers : Body(w) \/ BodyFails(w)
  <2>1. PICK w \in Workers : Body(w) \/ BodyFails(w)
    BY <1>4
  <2>2. Control'
    BY <1>1, <2>1, BodyStep
  <2>3. Sessions'
    BY <1>1, <2>1, SessionsElsewhere DEF Body, BodyFails, ReadSource, StoreTranscript,
       ReadTranscript, ReplaceChunks, ReadChunks, EmbedNextBatch, StoreEmbedding
  <2>4. Data'
    BY <1>1, <2>1, QuietDataStep, StoreTranscriptData, ReplaceChunksData, StoreEmbeddingData
       DEF Body
  <2>5. Soles'
    BY <1>1, <2>1, QuietSoles, StoreTranscriptSoles, ReplaceChunksSoles, StoreEmbeddingSoles
       DEF Body
  <2> QED BY <2>2, <2>3, <2>4, <2>5 DEF IInv
<1>5. CASE \E w \in Workers : Finish(w)
  BY <1>1, <1>5, FinishStep, FinishData, FinishSoles, SessionsElsewhere DEF IInv, Finish
<1>6. CASE \E w \in Workers : Continue(w)
  BY <1>1, <1>6, ContinueStep, ContinueData, ContinueSoles, SessionsElsewhere DEF IInv, Continue
<1>7. CASE \E w \in Workers : Crash(w)
  BY <1>1, <1>7, CrashStep, QuietDataStep, QuietSoles, SessionsElsewhere DEF IInv, Crash
<1>8. CASE \E j \in Jobs : Command(j)
  BY <1>1, <1>8, CommandStep, CommandData, CommandSoles, SessionsElsewhere DEF IInv, Command
<1>9. CASE \E j \in Jobs : DeleteJob(j)
  BY <1>1, <1>9, DeleteStep, DeleteData, DeleteSoles, SessionsElsewhere DEF IInv, DeleteJob
<1>10. CASE \E e \in Editors :
               (\E j \in Jobs : OpenEditor(e, j)) \/ SaveInEditor(e) \/ CloseEditor(e)
  BY <1>1, <1>10, SessionData, SessionSoles DEF IInv
<1>11. CASE UNCHANGED vars
  <2>1. UNCHANGED <<step, runs, transcript, chunks, embedded, worker, lastId, edits>>
        /\ UNCHANGED sessions
    BY <1>11 DEF vars, artifactVars, sessions
  <2>2. Control'
    BY <1>1, <2>1, KeepSame, RowsStep
  <2>3. Data'
    <3>1. Tables'
      BY <1>1, <2>1 DEF Tables
    <3>2. ASSUME NEW v \in Workers PROVE Working(v)'
      <4>1. lastId' \in Nat /\ lastId <= lastId'
        BY <1>1, <2>1 DEF Tables
      <4> QED BY <1>1, <2>1, <4>1, WorkingKept DEF JL!Exists
    <3>3. ASSUME NEW j \in Jobs PROVE Outputs(j)'
      BY <1>1, <2>1 DEF Data, Outputs, HasSucceeded
    <3> QED BY <3>1, <3>2, <3>3 DEF Data
  <2>4. Soles'
    BY <1>1, <2>1, RowsSoles DEF Sole, NoRunAborted, Fresh, HasSucceeded
  <2> QED BY <1>1, <2>1, <2>2, <2>3, <2>4, SessionsElsewhere DEF IInv
<1> QED BY <1>2, <1>3, <1>4, <1>5, <1>6, <1>7, <1>8, <1>9, <1>10, <1>11 DEF Next

THEOREM Invariance == Spec => []IInv
BY Beginning, Step, PTL DEF Spec

-----------------------------------------------------------------------------
(* What the invariant says. *)

\* The tables, the workers and the sessions are what TypeOK says: embeddings are of
\* chunks there are, and the file of a session that no other one overlapped holds
\* what its user last saved.
THEOREM TypeCorrect == Spec => []TypeOK
<1>1. IInv => TypeOK
  BY DEF IInv, Control, Sessions, Data, Tables, Working, Rows, TypeOK
<1> QED BY <1>1, Invariance, PTL

\* A succeeded run left its output, whoever crashed, failed or deleted meanwhile.
THEOREM OutputOfSuccess == Spec => []SucceededStepHasOutput
<1>1. IInv => SucceededStepHasOutput
  <2> SUFFICES ASSUME IInv, NEW j \in Jobs
               PROVE  /\ HasSucceeded(j, "extract") => transcript[j] # None
                      /\ HasSucceeded(j, "chunk") => Size(chunks[j]) > 0
                      /\ HasSucceeded(j, "embed") /\ NoRunAborted(j) =>
                            embedded[j] = 1..Size(chunks[j])
    BY DEF SucceededStepHasOutput
  <2>1. Outputs(j) /\ Contents(j) /\ Rows
    BY DEF IInv, Data, Soles, Control
  <2>2. HasSucceeded(j, "embed") => step[j] # "deleted"
    BY <2>1, GoneSucceeded DEF JL!Exists, JL!JobSteps, JL!RunSteps
  <2> QED BY <2>1, <2>2 DEF Outputs, Contents, Sole
<1> QED BY <1>1, Invariance, PTL

\* The chunks an embed step read stay the job's chunks until it has stored its last
\* vector, and the vectors it stored are all there are.
THEOREM ReadStaysCurrent == Spec => []EmbedsWhatIsStored
<1>1. IInv => EmbedsWhatIsStored
  <2> SUFFICES ASSUME IInv, NEW w \in Workers, worker[w].pc \in {"embed", "store"},
                      JL!Exists(Job(w)), NoRunAborted(Job(w))
               PROVE  /\ chunks[Job(w)].id = worker[w].id
                      /\ Size(chunks[Job(w)]) = worker[w].total
                      /\ embedded[Job(w)] = 1..worker[w].done
    BY DEF EmbedsWhatIsStored
  <2>1. Knows(w) /\ worker[w] # Free
    BY DEF IInv, Soles, Free
  <2>2. Sole(Job(w))
    BY DEF Sole, JL!Exists, JL!JobSteps, JL!RunSteps
  <2> QED BY <2>1, <2>2 DEF Knows
<1> QED BY <1>1, Invariance, PTL

\* Without edits and aborts the chunks of a job are those of its transcript.
THEOREM ChunksOfTheTranscript == Spec => []ChunksMatchTranscript
<1>1. IInv => ChunksMatchTranscript
  <2> SUFFICES ASSUME IInv, edits = 0, NEW j \in Jobs, step[j] \in {"embed", "completed"},
                      NoRunAborted(j)
               PROVE  chunks[j].text = transcript[j]
    BY DEF ChunksMatchTranscript
  <2>1. Contents(j) /\ Rows
    BY DEF IInv, Soles, Control
  <2>2. /\ JL!Layout(step[j], runs[j]) /\ JL!SucceededBefore(step[j], runs[j])
        /\ Len(runs[j]) \in Nat /\ DOMAIN runs[j] = 1..Len(runs[j])
    BY <2>1, JobRow DEF JL!History, JL!JobSteps, JL!RunSteps
  <2>3. HasSucceeded(j, "chunk")
    <3>1. Len(runs[j]) - 1 \in 1..Len(runs[j]) /\ Len(runs[j]) >= 3
      BY <2>2 DEF JL!Layout, JL!Extracts, JL!PhaseTwoRuns
    <3>2. /\ runs[j][Len(runs[j]) - 1].step = "chunk"
          /\ runs[j][Len(runs[j]) - 1].status = "succeeded"
      BY <2>2, <3>1 DEF JL!Layout, JL!Extracts, JL!PhaseTwoRuns, JL!SucceededBefore
    <3> QED BY <2>2, <3>1, <3>2 DEF HasSucceeded
  <2> QED BY <2>1, <2>3 DEF Contents, Sole
<1> QED BY <1>1, Invariance, PTL

\* A session that no other one overlapped saves the text of its own user.
THEOREM SessionSavesItsText == Spec => SoleSessionSavesItsText
<1> DEFINE A == \A e \in Editors :
                   /\ editor[e] # Closed /\ editor'[e] = Closed
                   /\ editor[e].alone
                   => LET j == editor[e].job
                      IN  transcript'[j] # transcript[j] =>
                             /\ transcript'[j] = editor[e].saved
                             /\ editor[e].saved # editor[e].read
<1>1. ASSUME IInv, [Next]_vars, NEW e \in Editors,
             editor[e] # Closed, editor'[e] = Closed, editor[e].alone,
             transcript'[editor[e].job] # transcript[editor[e].job]
      PROVE  transcript'[editor[e].job] = editor[e].saved /\ editor[e].saved # editor[e].read
  <2>1. Sessions /\ Tables
    BY <1>1 DEF IInv, Data
  <2>2. CASE CloseEditor(e)
    BY <1>1, <2>1, <2>2, CloseEditorStep DEF Sessions, Tables, CloseEditor
  <2>3. CASE \E d \in Editors \ {e} : CloseEditor(d)
    BY <1>1, <2>1, <2>3, CloseEditorStep
  <2>4. CASE \E d \in Editors : (\E j \in Jobs : OpenEditor(d, j)) \/ SaveInEditor(d)
    BY <1>1, <2>1, <2>4, OpenEditorStep, SaveInEditorStep
  <2>5. CASE UNCHANGED editor
    BY <1>1, <2>5
  <2>6. CASE UNCHANGED sessions
    BY <2>5, <2>6 DEF sessions
  <2> QED BY <1>1, <2>2, <2>3, <2>4, <2>6 DEF Next, vars, Claim, Load, Body, BodyFails, Finish,
       Continue, Crash, Command, DeleteJob, ReadSource, StoreTranscript, ReadTranscript,
       ReplaceChunks, ReadChunks, EmbedNextBatch, StoreEmbedding
<1>2. ASSUME IInv, [Next]_vars PROVE [A]_vars
  BY <1>1, <1>2
<1> QED BY <1>2, Invariance, PTL DEF Spec, SoleSessionSavesItsText
-----------------------------------------------------------------------------
(* The workers and their step bodies implement JobLifecycle. *)

LEMMA Simulation == IInv /\ [Next]_vars => [JL!Next]_(JL!lifecycleVars)
<1> SUFFICES ASSUME Control, [Next]_vars, ~UNCHANGED <<step, runs>> PROVE JL!Next
  BY DEF IInv, JL!lifecycleVars
<1>1. ASSUME NEW j \in Jobs,
             Command(j) \/ DeleteJob(j) \/ \E w \in Workers : Claim(w, j)
      PROVE  JL!Next
  BY <1>1 DEF Command, DeleteJob, Claim, JL!Next
<1>2. ASSUME NEW w \in Workers, Finish(w) PROVE JL!Next
  <2>1. worker[w] # Free
    BY <1>2, AtHeld DEF Finish
  <2>2. Job(w) \in Jobs
    BY <2>1, HeldFields
  <2>3. \E outcome \in {"succeeded", "failed"} : JL!FinishRun(Job(w), worker[w].run, outcome)
    BY <1>2 DEF Finish
  <2> QED BY <2>2, <2>3 DEF JL!Next, JL!FinishRun
<1>3. ASSUME NEW w \in Workers, Continue(w) PROVE JL!Next
  <2>1. worker[w] # Free
    BY <1>3, AtHeld DEF Continue
  <2>2. Job(w) \in Jobs
    BY <2>1, HeldFields
  <2>3. JL!ContinueJob(Job(w))
    BY <1>3 DEF Continue
  <2> QED BY <2>2, <2>3 DEF JL!Next
<1>4. ASSUME NEW w \in Workers, Load(w) \/ BodyFails(w) \/ Crash(w) PROVE FALSE
  BY <1>4 DEF Load, BodyFails, Crash
<1>5. ASSUME NEW w \in Workers, Body(w) PROVE FALSE
  BY <1>5 DEF Body, ReadSource, StoreTranscript, ReadTranscript, ReplaceChunks, ReadChunks,
     EmbedNextBatch, StoreEmbedding
<1>6. ASSUME NEW e \in Editors,
             SaveInEditor(e) \/ CloseEditor(e) \/ \E j \in Jobs : OpenEditor(e, j)
      PROVE  FALSE
  BY <1>6 DEF SaveInEditor, CloseEditor, OpenEditor
<1>7. ~UNCHANGED vars
  BY DEF vars
<1> QED BY <1>1, <1>2, <1>3, <1>4, <1>5, <1>6, <1>7 DEF Next

\* Step bodies, crashes and editing sessions move no job other than as JobLifecycle
\* says: what is proved of its gate and its history holds while they run.
THEOREM BodiesImplement == Spec => JL!Spec
<1>1. Init => JL!Init
  BY DEF Init
<1> QED BY <1>1, Invariance, Simulation, PTL DEF Spec, JL!Spec
=============================================================================
