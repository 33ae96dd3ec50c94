-------------------------- MODULE IngestionArtifacts ------------------------
(***************************************************************************)
(* What the ingestion steps read and write: the transcript of a job, the   *)
(* chunks split from it and the embedding of each chunk, one database call *)
(* per step of the model.  Workers run the step bodies of                  *)
(* zyndeck-ingester/src/main.rs on the jobs of JobLifecycle while editing  *)
(* sessions of the CLI (zyndeck-cli/src/main.rs) change the transcript.    *)
(*                                                                         *)
(* A transcript is one of a few Texts, of which only the number of chunks  *)
(* it splits into matters; a chunk is a position of the set of chunks that *)
(* one chunk step inserted, whose ids are new.  How a worker learns of a   *)
(* pending run is the business of IngesterService.                         *)
(***************************************************************************)
EXTENDS JobRows

CONSTANTS
    Workers,      \* instances of the ingestion service
    Editors,      \* runs of "zyndeck ingestion edit"
    Texts,        \* the contents a transcript may have
    ChunkCount,   \* how many chunks each text splits into
    EmbedBatch,   \* EMBED_BATCH: chunks per embedding request
    MaxEdits      \* bound: edits saved

ASSUME ChunkCountAssumption == ChunkCount \in [Texts -> Nat]
ASSUME EmbedBatchAssumption == EmbedBatch \in Nat \ {0}
ASSUME MaxEditsAssumption == MaxEdits \in Nat

VARIABLES
    transcript,    \* ingestion_transcript.content of each job, or None
    chunks,        \* the job's chunk rows: the text split and the set of ids
    embedded,      \* positions of the job's current chunks that have an embedding
    worker,        \* what each worker does next, on what, with what it has read
    editor,        \* the job each editing session has open, what it read, what its
                   \* user last saved and whether no other session overlapped it
    file,          \* the temp file zyndeck-transcript-<job id>.md, or None
    edits,         \* how many edits were saved
    lastId         \* the ids of the last chunk rows inserted

artifactVars == <<transcript, chunks, embedded>>
sessions == <<editor, file, edits>>
vars == <<step, runs, artifactVars, worker, sessions, lastId>>

None == "none"
ASSUME TextsAssumption == None \notin Texts

NoChunks == [id |-> 0, text |-> None]
Free == [pc |-> "idle"]
Closed == [job |-> None, read |-> None, saved |-> None, alone |-> TRUE]

Size(c) == IF c = NoChunks THEN 0 ELSE ChunkCount[c.text]

WorkerState ==
    [pc : {"load", "body", "extracted", "split", "embed", "store", "succeed", "fail", "continue"},
     job : Jobs, run : Nat, step : JL!JobSteps \cup {None},
     text : Texts \cup {None}, id : Nat, total : Nat, done : Nat] \cup {Free}

TypeOK ==
    /\ JL!TypeOK
    /\ transcript \in [Jobs -> Texts \cup {None}]
    /\ chunks \in [Jobs -> [id : Nat \ {0}, text : Texts] \cup {NoChunks}]
    /\ \A j \in Jobs : embedded[j] \subseteq 1..Size(chunks[j])
    /\ worker \in [Workers -> WorkerState]
    /\ \A w \in Workers : worker[w] # Free => worker[w].done <= worker[w].total
    /\ editor \in [Editors -> [job : Jobs, read : Texts, saved : Texts, alone : BOOLEAN]
                                \cup {Closed}]
    /\ file \in [Jobs -> Texts \cup {None}]
    /\ \A e \in Editors : editor[e] # Closed /\ editor[e].alone =>
          file[editor[e].job] = editor[e].saved
    /\ edits \in 0..MaxEdits /\ lastId \in Nat

Init ==
    /\ JL!Init
    /\ transcript = [j \in Jobs |-> None]
    /\ chunks = [j \in Jobs |-> NoChunks]
    /\ embedded = [j \in Jobs |-> {}]
    /\ worker = [w \in Workers |-> Free]
    /\ editor = [e \in Editors |-> Closed]
    /\ file = [j \in Jobs |-> None]
    /\ edits = 0 /\ lastId = 0

-----------------------------------------------------------------------------
(* The worker: process, drive and run_and_finish. *)

Claim(w, j) ==
    /\ worker[w] = Free
    /\ JL!ClaimPendingRun(j)
    /\ worker' = [worker EXCEPT ![w] =
          [pc |-> "load", job |-> j, run |-> Len(runs[j]), step |-> None,
           text |-> None, id |-> 0, total |-> 0, done |-> 0]]
    /\ UNCHANGED <<artifactVars, sessions, lastId>>

At(w, pc) == worker[w].pc = pc
Job(w) == worker[w].job
Goto(w, pc) == worker' = [worker EXCEPT ![w].pc = pc]
Release(w) == worker' = [worker EXCEPT ![w] = Free]

\* load: the step whose body will run is the one the job is on now.
Load(w) ==
    /\ At(w, "load")
    /\ IF JL!Exists(Job(w))
       THEN worker' = [worker EXCEPT ![w].pc = "body", ![w].step = step[Job(w)]]
       ELSE Release(w)
    /\ UNCHANGED <<step, runs, artifactVars, sessions, lastId>>

\* Variant: a step body that failed is recorded like one that succeeded.
FinishIgnoringError(w) ==
    LET j == Job(w)
        i == worker[w].run
    IN  /\ At(w, "succeed") \/ At(w, "fail")
        /\ \/ /\ JL!FinishRun(j, i, "succeeded")
              /\ IF runs[j][i].step # "extract" THEN Goto(w, "continue") ELSE Release(w)
           \/ /\ ~(i \in DOMAIN runs[j] /\ runs[j][i].status = "running")
              /\ Release(w)
              /\ UNCHANGED <<step, runs>>
        /\ UNCHANGED <<artifactVars, sessions, lastId>>

\* finish: None if the run is no longer running, and the drive ends with it.
Finish(w) ==
    LET j == Job(w)
        i == worker[w].run
        outcome == IF At(w, "succeed") THEN "succeeded" ELSE "failed"
    IN  /\ At(w, "succeed") \/ At(w, "fail")
        /\ \/ /\ JL!FinishRun(j, i, outcome)
              /\ IF At(w, "succeed") /\ runs[j][i].step # "extract"
                 THEN Goto(w, "continue")
                 ELSE Release(w)
           \/ /\ ~(i \in DOMAIN runs[j] /\ runs[j][i].status = "running")
              /\ Release(w)
              /\ UNCHANGED <<step, runs>>
        /\ UNCHANGED <<artifactVars, sessions, lastId>>

\* continue_job; on to the run it began, with the job reloaded.
Continue(w) ==
    LET j == Job(w)
    IN  /\ At(w, "continue")
        /\ \/ /\ JL!ContinueJob(j)
              /\ IF step'[j] = "completed"
                 THEN Release(w)
                 ELSE worker' = [worker EXCEPT ![w].pc = "load", ![w].run = Len(runs'[j])]
           \/ /\ ~(step[j] \in {"chunk", "embed"} /\ JL!LatestSucceeded(runs[j], step[j]))
              /\ Release(w)
              /\ UNCHANGED <<step, runs>>
        /\ UNCHANGED <<artifactVars, sessions, lastId>>

\* The process dies between two database calls; its run stays running.
Crash(w) ==
    /\ worker[w] # Free
    /\ Release(w)
    /\ UNCHANGED <<step, runs, artifactVars, sessions, lastId>>

-----------------------------------------------------------------------------
(* The bodies, by the step of the loaded job.  Any call may fail, which      *)
(* fails the run and keeps what was already written.                         *)

BodyFails(w) ==
    /\ worker[w].pc \in {"body", "extracted", "split", "embed", "store"}
    /\ Goto(w, "fail")
    /\ UNCHANGED <<step, runs, artifactVars, sessions, lastId>>

\* extract: the PDF is read and structured ...
ReadSource(w) ==
    /\ At(w, "body") /\ worker[w].step = "extract"
    /\ \E t \in Texts : worker' = [worker EXCEPT ![w].pc = "extracted", ![w].text = t]
    /\ UNCHANGED <<step, runs, artifactVars, sessions, lastId>>

\* ... and the transcript stored, replacing any other.  The foreign key refuses
\* it when the job is gone.
StoreTranscript(w) ==
    /\ At(w, "extracted")
    /\ IF JL!Exists(Job(w))
       THEN transcript' = [transcript EXCEPT ![Job(w)] = worker[w].text] /\ Goto(w, "succeed")
       ELSE Goto(w, "fail") /\ UNCHANGED transcript
    /\ UNCHANGED <<step, runs, chunks, embedded, sessions, lastId>>

\* chunk_step: no transcript, or one that splits into nothing, is an error.
ReadTranscript(w) ==
    LET t == transcript[Job(w)]
    IN  /\ At(w, "body") /\ worker[w].step = "chunk"
        /\ IF t # None /\ ChunkCount[t] > 0
           THEN worker' = [worker EXCEPT ![w].pc = "split", ![w].text = t]
           ELSE Goto(w, "fail")
        /\ UNCHANGED <<step, runs, artifactVars, sessions, lastId>>

\* replace: old chunks out, new ones in, in one transaction; the embeddings of
\* the old ones go by ON DELETE CASCADE.
ReplaceChunks(w) ==
    LET j == Job(w)
    IN  /\ At(w, "split")
        /\ IF JL!Exists(j)
           THEN /\ lastId' = lastId + 1
                /\ chunks' = [chunks EXCEPT ![j] = [id |-> lastId + 1, text |-> worker[w].text]]
                /\ embedded' = [embedded EXCEPT ![j] = {}]
                /\ Goto(w, "succeed")
           ELSE Goto(w, "fail") /\ UNCHANGED <<chunks, embedded, lastId>>
        /\ UNCHANGED <<step, runs, transcript, sessions>>

\* embed_step: the chunks are read once, and embedded batch by batch.
ReadChunks(w) ==
    LET c == chunks[Job(w)]
    IN  /\ At(w, "body") /\ worker[w].step = "embed"
        /\ IF Size(c) > 0
           THEN worker' = [worker EXCEPT ![w].pc = "embed", ![w].id = c.id,
                                         ![w].total = Size(c), ![w].done = 0]
           ELSE Goto(w, "fail")
        /\ UNCHANGED <<step, runs, artifactVars, sessions, lastId>>

\* Variant: the chunks after the last full batch are left out.
EmbedFullBatches(w) ==
    /\ At(w, "embed")
    /\ Goto(w, IF worker[w].done + EmbedBatch > worker[w].total THEN "succeed" ELSE "store")
    /\ UNCHANGED <<step, runs, artifactVars, sessions, lastId>>

\* One request to the embedding model; check_embeddings makes sure that it
\* returned a vector for every chunk of the batch.
EmbedNextBatch(w) ==
    /\ At(w, "embed")
    /\ Goto(w, "store")
    /\ UNCHANGED <<step, runs, artifactVars, sessions, lastId>>

\* Variant: the batch is not cut short at the last chunk.
StoreWholeBatch(w) ==
    LET j == Job(w)
        n == worker[w].done + 1
    IN  /\ At(w, "store")
        /\ IF chunks[j].id = worker[w].id
           THEN /\ embedded' = [embedded EXCEPT ![j] = @ \cup {n}]
                /\ worker' = [worker EXCEPT ![w].done = n,
                       ![w].pc = IF n % EmbedBatch # 0 THEN "store"
                                 ELSE IF n >= worker[w].total THEN "succeed" ELSE "embed"]
           ELSE Goto(w, "fail") /\ UNCHANGED embedded
        /\ UNCHANGED <<step, runs, transcript, chunks, sessions, lastId>>

\* store_embedding, chunk by chunk to the end of the batch.  The foreign key
\* refuses the embedding of a chunk that was replaced.
StoreEmbedding(w) ==
    LET j == Job(w)
        n == worker[w].done + 1
    IN  /\ At(w, "store")
        /\ IF chunks[j].id = worker[w].id
           THEN /\ embedded' = [embedded EXCEPT ![j] = @ \cup {n}]
                /\ worker' = [worker EXCEPT ![w].done = n,
                       ![w].pc = IF n = worker[w].total THEN "succeed"
                                 ELSE IF n % EmbedBatch = 0 THEN "embed" ELSE "store"]
           ELSE Goto(w, "fail") /\ UNCHANGED embedded
        /\ UNCHANGED <<step, runs, transcript, chunks, sessions, lastId>>

Body(w) ==
    \/ ReadSource(w) \/ StoreTranscript(w)
    \/ ReadTranscript(w) \/ ReplaceChunks(w)
    \/ ReadChunks(w) \/ EmbedNextBatch(w) \/ StoreEmbedding(w)

-----------------------------------------------------------------------------
(* The CLI and the API. *)

Command(j) ==
    /\ JL!StartJob(j) \/ JL!ValidateJob(j) \/ JL!RestartJob(j) \/ JL!AbortRun(j)
    /\ UNCHANGED <<artifactVars, worker, sessions, lastId>>

\* The cascade takes the artifacts along.
DeleteJob(j) ==
    /\ JL!DeleteJob(j)
    /\ transcript' = [transcript EXCEPT ![j] = None]
    /\ chunks' = [chunks EXCEPT ![j] = NoChunks]
    /\ embedded' = [embedded EXCEPT ![j] = {}]
    /\ UNCHANGED <<worker, sessions, lastId>>

\* ingestion_edit, up to the editor: the job must be on extract and have a
\* transcript, which may be that of an attempt before the one now running.  It is
\* written to a temp file named after the job, which every session of it shares.
OpenEditor(e, j) ==
    /\ editor[e] = Closed
    /\ edits < MaxEdits
    /\ step[j] = "extract"
    /\ transcript[j] # None
    /\ file' = [file EXCEPT ![j] = transcript[j]]
    /\ LET others == {d \in Editors : editor[d] # Closed /\ editor[d].job = j}
       IN  editor' = [d \in Editors |->
              IF d = e
              THEN [job |-> j, read |-> transcript[j], saved |-> transcript[j],
                    alone |-> others = {}]
              ELSE IF d \in others THEN [editor[d] EXCEPT !.alone = FALSE] ELSE editor[d]]
    /\ UNCHANGED <<step, runs, artifactVars, worker, edits, lastId>>

\* The user saves a text, whatever the file holds by then.
SaveInEditor(e) ==
    /\ editor[e] # Closed
    /\ edits < MaxEdits
    /\ \E t \in Texts \ {editor[e].saved} :
          /\ file' = [file EXCEPT ![editor[e].job] = t]
          /\ editor' = [editor EXCEPT ![e].saved = t]
    /\ UNCHANGED <<step, runs, artifactVars, worker, edits, lastId>>

\* Variant: the text is compared with the transcript as it is now.
CloseEditorComparingLate(e) ==
    LET j == editor[e].job
    IN  /\ editor[e] # Closed
        /\ editor' = [editor EXCEPT ![e] = Closed]
        /\ file' = [file EXCEPT ![j] = None]
        /\ \/ UNCHANGED <<transcript, edits>>
           \/ /\ JL!Exists(j) /\ edits < MaxEdits
              /\ file[j] \notin {None, transcript[j]}
              /\ transcript' = [transcript EXCEPT ![j] = file[j]]
              /\ edits' = edits + 1
        /\ UNCHANGED <<step, runs, chunks, embedded, worker, lastId>>

\* The editor exits, however much later: the file is read and removed, and a text
\* other than the one read replaces the transcript; nothing is checked again.
\* Nothing is saved if the editor failed, the file is gone or the job deleted.
CloseEditor(e) ==
    LET j == editor[e].job
    IN  /\ editor[e] # Closed
        /\ editor' = [editor EXCEPT ![e] = Closed]
        /\ file' = [file EXCEPT ![j] = None]
        /\ \/ UNCHANGED <<transcript, edits>>
           \/ /\ JL!Exists(j) /\ edits < MaxEdits
              /\ file[j] \notin {None, editor[e].read}
              /\ transcript' = [transcript EXCEPT ![j] = file[j]]
              /\ edits' = edits + 1
        /\ UNCHANGED <<step, runs, chunks, embedded, worker, lastId>>

Next ==
    \/ \E w \in Workers :
          \/ \E j \in Jobs : Claim(w, j)
          \/ Load(w) \/ Body(w) \/ BodyFails(w) \/ Finish(w) \/ Continue(w) \/ Crash(w)
    \/ \E j \in Jobs : Command(j) \/ DeleteJob(j) \/ \E e \in Editors : OpenEditor(e, j)
    \/ \E e \in Editors : SaveInEditor(e) \/ CloseEditor(e)

Spec == Init /\ [][Next]_vars
-----------------------------------------------------------------------------
(* Properties. *)

HasSucceeded(j, s) ==
    \E i \in DOMAIN runs[j] : runs[j][i].step = s /\ runs[j][i].status = "succeeded"

\* Aborting a run does not stop the process that executes it, which may go on to
\* run the body of a later step beside that step's own worker.
NoRunAborted(j) == \A i \in DOMAIN runs[j] : runs[j][i].status # "aborted"

\* "Succeeded" is never said of a step whose output is missing or partial,
\* wherever a body failed or a process died: an extract run leaves a transcript
\* to review, a chunk run leaves chunks, and an embed run leaves every one of the
\* job's chunks with its embedding, so a completed job can be searched whole,
\* if no run of the job was aborted.
SucceededStepHasOutput ==
    \A j \in Jobs :
        /\ HasSucceeded(j, "extract") => transcript[j] # None
        /\ HasSucceeded(j, "chunk") => Size(chunks[j]) > 0
        /\ HasSucceeded(j, "embed") /\ NoRunAborted(j) => embedded[j] = 1..Size(chunks[j])

\* The embed step reads the chunks once and stores vectors by chunk id for as
\* long as the requests take.  What it read stays current, and the vectors
\* stored are those it stored itself, until the job is deleted or a run aborted.
EmbedsWhatIsStored ==
    \A w \in Workers : worker[w].pc \in {"embed", "store"}
                      /\ JL!Exists(Job(w)) /\ NoRunAborted(Job(w)) =>
        /\ chunks[Job(w)].id = worker[w].id
        /\ Size(chunks[Job(w)]) = worker[w].total
        /\ embedded[Job(w)] = 1..worker[w].done

\* Unless somebody saves an edit or aborts a run of the job, what is searched is
\* the transcript that was validated: the chunks of a job past the chunk step are
\* those of its transcript.
ChunksMatchTranscript ==
    edits = 0 => \A j \in Jobs :
        /\ step[j] \in {"embed", "completed"}
        /\ NoRunAborted(j)
        => chunks[j].text = transcript[j]

\* Two sessions of one job share a file, so one may save the other's text or lose
\* its own.  A session that no other one overlapped saves what its user last saved
\* and nothing else: while it was open the job may have been transcribed anew or
\* deleted, and a session whose user changed nothing leaves what it finds.
SoleSessionSavesItsText ==
    [][\A e \in Editors :
           /\ editor[e] # Closed /\ editor'[e] = Closed
           /\ editor[e].alone
           => LET j == editor[e].job
              IN  transcript'[j] # transcript[j] =>
                     /\ transcript'[j] = editor[e].saved
                     /\ editor[e].saved # editor[e].read]_vars

\* Once validated the job is locked into phase 2 and its transcript is final,
\* says the CLI: no step changes it any more.
TranscriptFinalAfterValidation ==
    [][\A j \in Jobs : step[j] \in {"chunk", "embed", "completed"} /\ JL!Exists(j)' =>
           transcript'[j] = transcript[j]]_vars

\* The process executing an aborted run observes the change and stops, says the
\* contract of abort: while a job's last run is aborted and nobody saves an edit,
\* nothing is written to its artifacts.
AbortedRunWritesNothing ==
    [][\A j \in Jobs :
           /\ runs[j] # <<>> /\ runs[j][Len(runs[j])].status = "aborted"
           /\ JL!Exists(j)' /\ edits' = edits
           => /\ transcript'[j] = transcript[j]
              /\ chunks'[j] = chunks[j]
              /\ embedded'[j] = embedded[j]]_vars
=============================================================================
