# Verification of zyndeck

TLA+ models of zyndeck's rule-ingestion pipeline, the TLC runs that check them
and the theorems TLAPS proves about them. `PROJECT.json` lists the components,
runs, hazards, findings and theorems, and maps each definition that models code
to the lines it stands for.

## 1. The system

| Part | State it keeps | Operations | Where |
|---|---|---|---|
| Core types | - | `IngestionStep::next`, `StepRunStatus` | `zyndeck-core/src/ingestion_job.rs` |
| Job state machine | `ingestion_job.step`, the rows of `ingestion_step_run` | `start_job`, `validate_job`, `restart_job`, `continue_job`, `claim_pending_run`, `finish`, `abort` | `zyndeck-db/src/lib.rs`, `ingestion_step_run.rs`, `queries/` |
| Notifications | one Postgres LISTEN queue per service | trigger on job creation, `notify_ready`, `recv` | `zyndeck-db/src/lib.rs`, `migrations/0001` |
| Ingestion service | where its loop is, the job in flight, shutdown | `run`, `sweep`, `process`, `drive`, `run_and_finish` | `zyndeck-ingester/src/main.rs` |
| Step bodies | transcript, chunk and embedding rows | `extract`, `chunk_step`, `embed_step` | `zyndeck-ingester/src/main.rs`, `ingestion_chunk.rs`, `ingestion_transcript.rs`, `embed.rs` |
| Document structuring, chunking | pure | `structure`, `to_markdown`, `split` | `zyndeck-ingester/src/document.rs`, `chunk.rs` |
| CLI | editing sessions and the temp file they share | `start`, `edit`, `validate`, `restart` | `zyndeck-cli/src/main.rs` |
| API | users and games | login, CRUD handlers, roles, pagination | `zyndeck-api/src`, `zyndeck-db/src/user.rs`, `game.rs` |
| Database tool, schema | constraints, cascades, trigger | migrate, recreate | `zyndeck-db/migrations`, `zyndeck-db-tool.rs` |

All coordination goes through Postgres. The CLI writes a job with a pending
run; commit delivers a NOTIFY; an instance of the service claims the run,
executes the step body, finishes the run and, for the two steps of phase 2,
calls `continue_job` and goes on. Between `extract` and `chunk` stands the human
gate: somebody reviews, maybe edits, and validates the transcript. The API can
delete a job's game, and with it the job, at any moment.

What is hard: transitions of one job from several programs at once, with claims
and finishes that do not take the job's lock; notifications that are doubled or
lost; a service that dies between two database calls; data read before a long
wait (an editor, a series of HTTP requests) and used after it; a signal during
the work. What makes each part correct:

- *job*: the step and the run history tell one story, the gate opens only on a
  succeeded transcription, ended runs are final;
- *transactions*: what a transition reads stays true until it commits;
- *service*: no run is executed twice, no wake-up is lost, a fault strands at
  most one job, a validated job gets through;
- *artifacts*: a step reported as succeeded has its whole output, and what is
  searched is what was validated;
- *editing*: a session that no other one overlapped saves what its user saved;
- *API*: an effect is decided on roles held during its request, every game has its
  creator, a row is deleted once, and the pages of a list show every row that stays
  where it is;
- *structuring*: every line with text is kept or counted as garbled, and the random
  order of a HashMap decides nothing but which lines are headings;
- *chunking*: nothing of the transcript is lost or reordered, budgets hold.

## 2. The modules

```
JobLifecycle               atomic transitions of a job and its runs
  JobLifecycleProofs       its theorems
JobRows                    the two tables, shared by the programs below
  JobRowsProofs            what each statement does to the rows of one job
  JobTransactions          the transitions statement by statement
    JobTransactionsProofs  its theorems: it implements JobLifecycle
  IngesterService          service instances, notifications and faults
    IngesterServiceProofs  its theorems
  IngestionArtifacts       step bodies, their tables and editing sessions
    IngestionArtifactsProofs  its theorems
DocumentStructure          structure: from the segments of a PDF to lines
Chunking                   to_markdown, the review and split, line by line
  ChunkingProofs           its theorems
Extraction                 DocumentStructure and Chunking, end to end
  ExtractionProofs         its theorems, over those of ChunkingProofs
Pagination                 the arithmetic of a page request
Api                        the handlers that write users and games
  ApiProofs                its theorems
UserListing                a reader of the user list beside Api, over Pagination
MC*                        the instances TLC checks
```

**JobLifecycle.** `step` and `runs` are the two tables; a job's runs are a
sequence in insertion order. There is one action per transaction of `Db` and per
single-statement update. A call that fails changes nothing and is no action.
Timestamps are reduced to whether `started_at` is NULL, which is all that
`find_latest.sql` (NULLS FIRST) and `status_from_columns` depend on: a run starts
after every earlier run of its job has ended, so started runs sort by
`started_at` as by insertion. `begin.sql` stamps the time its transaction began,
not the time of the insert; the order still holds because `continue_job` is only
called by the worker that has just finished the run before.
`MaxAttempts` bounds restarts. `AbortStatuses` says when `abort` is called: never
in the shipped programs, on running runs in the repository's tests, on pending
ones too by its documented contract.

**JobRows** declares the tables for the modules that put programs around them, and
`JL`, the instance of `JobLifecycle` over them. Every statement those modules
execute on a job or a run is an action of `JL`, and each module is proved to implement
`JL!Spec`, so what is proved of `JobLifecycle` holds in all of them.

**JobTransactions.** Each client's transaction is a record with the statement
executed last, the step it read under the lock and the row it inserted. Its
writes are applied at commit (READ COMMITTED: they are invisible before). The row
lock, the wait on an uncommitted entry of `one_active_run_per_job`, early returns
and lost connections are modelled; claims, finishes, aborts and deletions commit
in between. `ImplementsJobLifecycle` is refinement: the abstract `step` and `runs`
are the committed ones, and every step of a transaction maps to a step of
`JobLifecycle` or to a stutter.

**IngesterService.** A worker is a program counter over the calls of `run`,
`sweep`, `process` and `drive`, with the job and run it has in hand and the step
it loaded. `Enqueue` is a CLI transition with its NOTIFY, delivered to every
connection that listens. Faults are named and counted (`FaultKinds`, `MaxFaults`):
the process dies, a database call fails before or after it was applied, the
LISTEN connection drops, SIGTERM. The signal handling follows tokio: the first
`shutdown_signal` installs a process-wide handler that stays; only streams that
exist see a signal; `select!` drops the branch that loses.

**IngestionArtifacts.** The step bodies call by call: a body can fail at any
call, and the process can die between any two. A transcript is one of a few texts,
told apart by the number of chunks they split into; the chunk rows are the text split
and the id of the insertion, so that stale ids are told apart; `embedded` holds
the positions that have a vector. An editing session (`OpenEditor`, `SaveInEditor`,
`CloseEditor`) writes the transcript it read to a file named after the job, stays
open for as long as it likes while its user saves texts, and, when the editor exits,
reads and removes the file and upserts what it found, unconditionally. Sessions of
one job share the `file`; `alone` is history: whether no other session overlapped
this one. The three calls with which a session ends (read, remove, upsert) are one
step.

**DocumentStructure** has no variables: `structure` is a pure function, but for the
two places where it takes the maximum of a HashMap. `Structure` therefore returns the
set of documents it may return. A character is the class that `is_icon_glyph`,
`is_plausible_text_char` and the `char` methods see in it; the ratios are the code's.
Lines that are dropped because all their text follows a line break are in no count
of the report, as in the code. Two details the model keeps, because they surprise: a
line is classified by all the text of its segments, even what `clean_segment_text`
drops; and a line of 30 to 60 % icon glyphs is no icon line but a garbled one.
Filters and the stable sort of a line's segments are given by ranks: `InOrder` lists
a finite set of positions in a linear order, and `Selection` keeps what stands at
such positions. `LineScan` is the loop of `group_into_lines`, turn by turn.

**Chunking.** One action per turn of the loops of `to_markdown` and `split`, and
between them the edits of a reviewer, who may insert, replace or remove any line.
`Flush`, `StartSection` and `PushLine` are the methods of `Builder`. A line is its
use (blank, page marker, heading, body) and a number; a chunk's content is the
positions of its lines and its length. Pages, titles and lengths are any naturals;
what the reviewer may type is the constant `TypedLines`. Text of a PDF that itself looks like a
marker or a heading is not distinguished from one that the reviewer typed, so a line
of a PDF that begins with `## ` is outside the model.

**Extraction** starts `Chunking` on what `DocumentStructure` makes of a PDF:
`ImplementsChunking` is the refinement that says these documents are among those
`Chunking`, and its theorems, start from. `PdfAccountedFor` spans the whole way from
pdfium's segments to the chunks.

**Api.** One action per database call of the handlers that write, so that other
requests come between the caller's role being read (`Authenticate`), the target's
(`LookUp`) and the write. All handlers start with the same two checks, so what a
request wants shows in its next statement. `users` and `games` are the tables with
their unique and foreign keys; `born` are the ids given out, which also says who
may hold a token: a token names an id and outlives the account. `Bootstrap` is the
upsert of a starting server, at any time, beside the others. `removed` and
`witness` are history: how often a deletion was confirmed, and which roles the
caller and the target of a request in flight have had. Games and jobs meet in
`DeleteGame`, which is `DeleteJob` of `JobLifecycle` for each of the game's jobs.

**Pagination and UserListing.** `Pagination` is the clamping and the offset at the
width of the integers (`IntSize`). `UserListing` puts a reader beside the requests
of `Api`: an admin who asks for page after page, each a request that counts in one
statement and lists in another, repeats a page whose answer is lost and stops when
the pages read cover the last total. `walk.owed` are the accounts that were there
under their names all along and that no removal before them has moved up a page;
`walk.pushed` those that an insertion moved back after the last count. In builds
without overflow checks a page number near 2^63 wraps and shows a page it should not;
in others the request panics. The reader never asks for such a page.

Definitions commented as a "Variant" are plausible bugs (a dropped WHERE condition, a
missing FOR UPDATE, a reload left out). No action uses them. Each property is
shown to notice one of them, put in the place of the definition it varies.

## 3. The runs

| Run | Bounds | Result |
|---|---|---|
| `lifecycle` | 2 jobs, 3 transcriptions each, runs aborted while running | holds, 19,503 states |
| `abort_pending` | 1 job, abort also on pending runs | `SucceededCanBeValidated` violated |
| `transactions` | 1 job, 3 connections, 3 transcriptions | holds, 30,032 states |
| `service_safety` | 2 jobs, 2 workers, 1 fault of any kind | holds, 1.35 million states |
| `service_liveness` | 1 job, 2 workers, 2 transcriptions, aborts, 1 fault | holds, 157,074 states |
| `service_stop` | 1 worker, a signal | `StopsWhenAsked` violated |
| `artifacts` | 1 job, 2 workers, 2 editing sessions, 2 edits, 3 transcriptions, aborts, crashes | holds, 893,151 states |
| `chunking` | PDFs of up to 3 segments on 2 pages, 1 edit, budget 5 | holds, 1.00 million states |
| `api` | 2 connections, 2 account ids, 2 names, 1 game, a reader with pages of one row | holds, 473,896 states |
| `api_delete` | 2 connections, 2 account ids, 1 game | `SuperAdminDeletesAnyone` violated |
| `edit_after_validation` | 1 worker, 1 editor | `TranscriptFinalAfterValidation` violated |
| `abort_ignored` | 1 worker, running runs aborted | `AbortedRunWritesNothing` violated |

*Why the bounds are enough.* Jobs share no row: one job is enough where only the
interleavings on a job matter, two where workers could mix jobs up. Three
attempts give a first, a middle and a last one. Three connections give two that
compete and a third that waits. Two workers give every race for a run. One fault
per behaviour is what the properties speak of: each says what a single fault may
cost, and `OneFaultStrandsOneJob` counts. With a batch of two, texts of zero and three
chunks have no batch, and a full one followed by a short one. Two sessions can
overlap, follow each other, or stand before and after a new transcription; two edits
let both save. The seven segments of `MCExtraction` have every case of the
heuristics among them: two on one baseline that sort against the reading order,
caption bleed, a title, a title made garbled by icons beside it, icons alone, a
blank run, and families that tie; the budget of 5 is met exactly, missed by a
newline, and exceeded by a single line. With pages of one row, every change of the
list moves a page boundary.

*What each passing run shows.* `lifecycle`: the history invariant and its
consequences, over every order of calls. `transactions`: the locks and rereads of
the three transitions suffice for atomicity, and no client waits for ever.
`service_safety`: what one crash, failed call, lost connection or signal may cost.
`service_liveness`: what is eventually done about it. `artifacts`: what the tables
hold after failures at any call and beside editing sessions. `chunking`: nothing of
a PDF is lost, reordered or cited wrongly on its way to the chunks. `api`: the
tables, the authorisation and the pages under requests that interleave statement by
statement.

*Deadlock* is not an error in any run: when every job is completed or deleted,
or waits for a human, or the transcript has been split, nothing is left to do.

*Fairness.* `JobTransactions`: a client in a transaction executes its next
statement (weak), and gets a row lock it keeps asking for (strong: Postgres
queues waiters). `IngesterService`: a worker that can take a step does, and a
stopped instance is started again (weak, per worker). Nothing is assumed of
users, the CLI, the API or faults, so a job may wait at the gate for ever.

### What the violations show

- **`api_delete`.** The documentation lets a super admin delete anyone. The foreign
  key of `game.created_by` has no ON DELETE, so nobody who created a game can be
  deleted: the answer is an internal error. The shortest trace is a super admin who
  adds a game and deletes the account. The API's tests mock the repositories.
- **`abort_pending`.** `abort.sql` leaves `started_at` NULL on a run that had not
  started. `find_latest.sql` sorts NULLs first, so this row hides every later
  attempt, and its conversion fails. The job can be restarted and its
  transcription succeeds, but it can never be validated. Nothing shipped calls
  `abort` yet.
- **`service_stop`.** A SIGTERM during `process` is lost, against the READMEs'
  graceful shutdown: the handler is installed, but no stream exists to see it.
- **`edit_after_validation`.** `edit` checks the step before the editor opens and
  not when it saves, so a "final" transcript changes after validation.
- **`abort_ignored`.** A worker notices an abort only in `finish`, after its body
  has written what it writes. If it had not loaded the job yet when its run was
  aborted, it may even execute the body of a later step, because `run_step` goes
  by the job's step. For this reason `SucceededStepHasOutput` (its third part),
  `EmbedsWhatIsStored` and `ChunksMatchTranscript` speak of jobs none of whose
  runs was aborted, which is every job of the shipped programs.

## 4. The proofs

TLAPS proves the theorems listed in `PROJECT.json` for every value of the constants.
All assumptions are named in the module that declares the constant:

| Assumption | Modules |
|---|---|
| `MaxAttempts` is a positive natural, `AbortStatuses` a set of active statuses | all of the pipeline |
| every text splits into a natural number of chunks, `EmbedBatch` is positive, `None` is no text, `MaxEdits` is a natural | `IngestionArtifacts` |
| `MaxChunkChars` is a natural, what the reviewer types are lines | `Chunking` |
| `MaxHeadingChars` is a natural, no subset tag is empty | `DocumentStructure` |
| segments are raw segments, the bounds are naturals | `Extraction` |
| the configured name is a name, ids of users and games differ | `Api` |
| names are naturals (they have an order), the page size asked for is an integer | `UserListing` |
| `IntSize` is a positive natural | `Pagination` |

`JobLifecycleProofs` proves, for every set of jobs and every bound, what the run
`lifecycle` checks on two jobs.

None of the safety properties is inductive. That `continue_job` may only follow a
succeeded run says nothing unless `latest_run` is known to return the last run,
which depends on which runs have started and on how attempts are numbered. The
inductive invariant `IInv` is `TypeOK /\ HistoryExplainsStep`. The second
describes the shape of a history: a block of extract runs numbered from 1, then,
past the gate, one chunk and one embed run; every run but the last has ended;
everything before the current step succeeded; a pending run has no `started_at`
and one that ran has.

The central lemma is `LatestIsLast` (with `UnstartedIsEmpty`): in such a history,
if `latest_run` returns a succeeded run then it is the last run. Then
`ExtractEnqueued`, `NextStepAdded`, `EmbedCompleted` and `ActiveRunUpdated` show
that what each kind of transition does to one history keeps its shape,
`OneJobChanges` lifts that to all jobs, and `NextIInv` goes through the actions.
The theorems follow from `Invariance`: `TypeCorrect`, `HistoryCorrect`,
`OneStepAtATime`, `GateHolds`, `CompletedIsProcessed`, and for the action
properties `AuditTrail` and `AdvancesOnSuccess`.

`CanBeValidated` needs one assumption more, that pending runs are never aborted,
and a second invariant, that every run not pending has started. `abort_pending`
shows that the assumption is necessary.

`JobRowsProofs` carries this over to the modules that share the rows. `LifecycleStep`
says that a step of `JL` keeps the history invariant; the other lemmas reduce each
statement to one of two effects on the history of one job, `Updated` (the status of
one run changes) and `Extended` (a run is appended), and say what survives them.

`JobTransactionsProofs` proves `ReadsStayTrue` and the refinement. The invariant
(`View`) states for each open transaction what it may rely on: from the moment it
has read the job it holds the lock, the step it saw is still the job's, the run it
judged is still the latest and succeeded, and the row it inserted is the one
`JobLifecycle` would add to the history as it is now. It needs the history
invariant: that no claim, finish or abort can touch a run the transaction relies on
follows from its having ended. `CommitIsTransition` then shows that a commit is the
atomic transition, `SingleEffect` does so for the statements outside transactions,
and `Simulation` says every step is a step of `JobLifecycle` or changes no row.

`IngesterServiceProofs` proves the run `service_safety` for any number of jobs,
instances and faults. Its invariant has three layers. `Engaged` and `OneDriver`: a
worker that drives a run owns it, the body it loaded is that of the run while the
run is running, and no two drive the same one. This gives `NoRunExecutedTwice` and
`BodyMatchesRun`. `AllInHand`: as long as no connection dropped and no call failed,
each instance that is up has every pending run in its queue, in its sweep or in
hand; the hard case is the order listen-before-sweep at startup. `FewStranded`: the
stranded jobs are at most as many as the faults that struck, since no other step
strands a job and a fault strands at most the one that its worker has in hand.

`IngestionArtifactsProofs` proves everything the run `artifacts` checks, in four
layers, each using those before it. `Control`: a worker and its run, as above.
`Sessions`: the file of a session that is alone holds what its user saved last, and
no other session of the job is open. `Data`: what a worker in the middle of a body
has read and where it is, and that a succeeded extract or chunk run has left its
rows (`Outputs`). `Soles`: while none of a job's runs was aborted, one worker at
most has the job in hand (`SoleDriver`), so the tables hold what that worker wrote:
the chunks are those it read, the vectors are those up to its position, and, if
nobody edited, the chunks are those of the transcript. The condition on aborted runs
is necessary, as the run `abort_ignored` shows.

Both modules end with a refinement: `ServiceImplements` and `BodiesImplement` say that
service instances with their faults, and step bodies with their crashes and editing
sessions, move jobs only by steps of `JobLifecycle`. It is the invariant that makes
it so: a worker that finishes or continues a run holds a job that exists or once did.

`ChunkingProofs` proves, for every budget, document and sequence of edits, what the
run `chunking` checks of `Chunking`. The properties speak of `Chunks`, the closed
chunks followed by the open one. The inductive invariant adds what `split`
remembers of the lines it has read: the page and the heading in force, that no
heading lies between the first line of the open chunk and the last line read, and
that, when no chunk is open, a heading has closed the last one. Lemmas about the
methods of `Builder` (`FlushType`, `SectionKeepsChunks`, `LinePushed`) reduce each
kind of line to one of three cases: `Chunks` is unchanged, gets a new last
element, or has its last element extended. `NothingLost` is kept by each of the
three (`ScanLineKeepsLines`); what it says of sizes is a sum over a chunk's lines, a
recursive function. That its equations have a solution (`Recursion`, `SumDef`) is
proved by induction over sets of positions (`PositionInduction`: the library's
well-foundedness of `<`, which takes no operator parameter).
`CitesTheDocument` needs to know where each line of the document went: `Located`
gives its place in the transcript, in order and with its page in force, and
`RenderLineFaithful` keeps it while `to_markdown` appends. Two lookups of what is
in force, one in the transcript and one in the document, then agree (`DocumentCited`).

`ExtractionProofs` proves the rest of that run, for any segments, pages and
thresholds. Its lemmas say what the operators of `DocumentStructure` do: `InOrderLists`
that ranks enumerate a set in order, `Selected` what a filter keeps, `Flattened` where
each element of a concatenation comes from, `LinesCut` that the runs of
`group_into_lines` begin where the baseline leaves the one before and cover the page,
`LineText` that a line has text exactly if one of its segments has some before a line
break. `VisualLinesFlat`, `FoundIs` and `OutcomeIs` carry this to what `structure`
returns. `TiesAreHarmless`: whether a line is one of icons does not depend on the
body's family (`IconsDecided`), and nothing else decides what is kept.
`ExtractionImplementsChunking`: the lines come in the order of the pages and none is
empty, so the theorems of `Chunking` hold of every PDF.
`EveryLineIsAccountedFor` counts: readable lines of the PDF, lines found
(`TextsFound`), lines kept or garbled (`TextsKept`), lines of the transcript of either
kind (`KindRendered`) and places in chunks (`BodyChunked`) are matched one to one. Its
invariant is that of `Chunking` with `NothingLost`, `Located` and `Extracted`, which
says that the document is still one that `structure` made of the PDF.

`ApiProofs` proves what the run `api` checks of `Api` for any number of connections,
accounts and games. `DeletedOnce` is not inductive: a row could come back
if its id were not known to have been given out (`RowsAreBorn`). For
`EffectsWereAuthorised` the invariant `DecisionsAreRecorded` says that the role a
handler carries, and the target's role if it was decisive, are in the history of
the request; `HistoryGrows` keeps it for the requests that do not move.
`PagesReachEveryone` is about the reader of the list. Its invariant `Walk` says that
an account still owed sorts at or after the first position of the page to come, and
before the last count unless something was put in before it since. It assumes
`AccountsFit`, that the accounts can be counted in an integer of the build: then no
page the reader asks for wraps, which `Pagination` otherwise allows.

Only model-checked: the liveness properties (`TransactionsEnd`, `PendingIsClaimed`,
`RecoveredAtStartup`, `ValidatedIsSettled`), which are out of the prover's reach.
What a recursive definition computes is proved where an induction over positions is
enough; the counts of characters by which lines are classified are not taken apart,
since no property depends on more than what they decide.

## 5. Not modelled, and the plan

Left out for good: the binding to pdfium, the HTTP exchange with the embedding
model, argument parsing and configuration, logging, the OpenAPI pages, reads of the
API other than the user list (single rows, and the list of games, which goes through
the same pagination), password hashing, the interactive recreation of a database,
and names, localized strings and language codes, which are validated value types
without behaviour over time. A deletion of a game takes its jobs one at a time in
the models; jobs of one game have nothing else in common.

Two hazards have no property. `begin.sql` stamps the time at which its transaction
began, which only orders the runs because of who calls it (section 2). And a
transcript that splits into nothing fails its chunk step, past the gate, where a job
cannot be restarted: the ingester's README says that a failed run of phase 2 has no
retry path, so there is no promise to hold it to; `IngestionArtifacts` reaches it with the empty text.

What could follow: the file, read and upsert at the end of an editing session as three
steps; and, if a second caller of `continue_job` appears, `started_at` as a clock.
