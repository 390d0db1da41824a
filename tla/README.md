# TLA+ verification of the GraphRAG service

The service takes PDF and image files from its tenants, extracts their text with
an OCR model, indexes the chunks in Qdrant (dense and sparse vectors) and Neo4j
(documents, chunks, entities, relations), and answers questions over both
indexes with an LLM, keeping the conversation in Redis. This directory holds
TLA+ models of the parts of it in which several processes, stores or failures
meet, TLC configurations that check them on small instances, and TLAPS proofs.

Run from this directory:

    tlc -workers 2 -config uploads.cfg MCLifecycle     # one line of the run table
    tlapm GraphProofs.tla                              # every proof of that module

## 1. Inventory of the system

| Component (source) | State it keeps | Operations | What is hard about it |
|---|---|---|---|
| Upload API (`app/api/upload.py`) | `documents` and `jobs` rows, `/data/uploads` | `POST /v1/upload` | check-then-insert across requests, one transaction per request, files written before and messages sent after the commit |
| Ingest worker (`app/workers/tasks.py`, `celery_app.py`) | document and job status | the task `ingest.document` | three stores written in turn, early acknowledgement, kill at the hard limit, redelivery |
| Pipeline, vector and graph indexers (`app/ingest/*`) | Qdrant points; Neo4j nodes and edges | upsert, delete | no transaction across statements, `MATCH` that silently finds nothing, `MERGE` without a constraint |
| Document API (`app/api/documents.py`) | all of the above | list, `DELETE` | a cascade over four stores whose failures are ignored, racing uploads and workers |
| Orphan cleanup (`app/workers/cleanup.py`) | none of its own | the task `cleanup.orphan_entities` | scan and deletion are separate queries on a graph in motion, and the deletion reads before it locks; retries |
| Session memory and query API (`app/generate/session.py`, `app/api/query.py`) | Redis list and string per session | load, append, `POST /v1/query` | read-modify-write over five Redis commands and an LLM call, no lock; answers reach the client before the append |
| Job API (`app/api/jobs.py`) | none | poll, SSE stream | polls a row that several tasks write |
| Retrieval (`app/retrieve/*`) | none | route, search, merge, rerank | merge and dedup keys, fallbacks |
| Chunker and OCR loop (`app/ingest/chunker.py`, `ocr.py`) | none | pages to chunks | recursion with overlap, white space at the edges, a page that cannot be read |
| Entity extraction (`app/ingest/graph_extract.py`) | none | reply to entities and relations, to rows | whatever an LLM may reply, chunks that disagree |
| API keys (`app/core/auth.py`, `scripts/create_api_key.py`, `scripts/init_db.py`) | `tenants`, `api_keys`, `.env` | seed, issue, revoke, authenticate | check-then-act between administrators, a key that is shown once and after the commit |
| Evaluation (`app/evaluate/metrics.py`, `app/api/evaluate.py`, `eval/run_eval.py`) | none | score a question, run the experiment | undefined scores, calls that raise, means over what is left |

The rest (LLM and embedding clients, prompt text, settings, logging, health,
schemas, rate limits, set-up scripts, fixture builders) is I/O, text or
configuration; `PROJECT.json` lists each with the reason it has no model.

How they interact. An upload request writes rows and files and, after its
commit, puts one Celery message per document on a Redis queue. A worker takes a
message, marks the document and its job `running`, reads the file, writes points
and graph nodes, and marks both rows `completed` or `failed`. A delete request
walks over the same four stores in the order Qdrant, Neo4j, disk, Postgres.
Nothing but the unique constraint on `documents (tenant_id, file_hash)` and the
row-level atomicity of each store coordinates them. Cleanup sweeps the graph
while workers write it. Every request presents a key, which is looked up in
the table that the scripts of an administrator write. Questions read both indexes and, for a session, read and
write two Redis keys. Each Celery task runs an event loop of its own, so a
client cached by one task is bound to a loop that is gone in the next.

What makes each part correct:

- uploads: at most one row per content; nothing is queued for a row that is not
  committed; an answered upload has all its messages sent; a file is refused as a
  duplicate only of a row that is there, and stays without a row only if its
  request failed; no request hangs;
- ingest: `completed` means indexed, in both indexes, by one execution; every
  message leads to a settled status; the file is there when OCR wants it;
- delete: what a clean delete of a settled document leaves behind is nothing;
- together: what clients see is one entry per content that moves along the
  promised statuses (`Catalog`);
- graph: an execution that ends well has written everything and keeps it, whatever
  else is deleted or swept; tenants stay apart; a sweep ends;
- job: its one row tells of every document that failed, and says what one of them
  says;
- job stream: it tells statuses in order, tells `completed` only of what can be
  queried, tells of a settled job, and ends;
- questions: a context has the tenant's own passages only, the best of those
  that were found; a failing graph search or reranker costs nothing; what is
  saved was answered in full;
- conversation: the window is the latest whole exchanges, within its budget;
  until appends overlap nothing is forgotten and a context is complete;
- keys: a key that somebody was shown opens its tenant until it is revoked, and
  not after; seeding again issues nothing; names are unique among commands that
  did not overlap;
- chunker and extraction: no text is lost or moved, chunks stay within a bound;
  every row that is sent refers to rows that are sent, and a document sends
  all its rows or, when a reply makes the parser raise, none;
- evaluation: the rank metric is the average it is named for, and a question
  that failed moves no mean of the scores.

## 2. Modules

| Module | Models | Notes |
|---|---|---|
| `Stores` | Postgres rows, upload directory, queue, Qdrant, document part of Neo4j | the variables the next three modules share |
| `Upload` | `POST /v1/upload` | one action per statement others can observe |
| `IngestWorker` | the ingest task and its pipeline | one action per store access, with a failing twin |
| `DeleteDocument` | `DELETE /v1/documents/{id}` | same |
| `Lifecycle` | their composition | properties, fairness, refinement of `Catalog` |
| `Catalog` | what the API promises of a content | abstract specification, a handful of lines |
| `LifecycleProofs`, `DocumentProofs`, `StreamProofs` | - | proofs about `Lifecycle`, its refinement of `Catalog`, and `JobStream`, each on top of the ones before |
| `GraphProofs`, `ApiKeysProofs`, `ConversationProofs`, `QueryProofs`, `AlgorithmsProofs` | - | proofs about the component each is named for |
| `GraphIndex` | `graph_indexer.py`, statement by statement | entities, mentions, relations |
| `JobStream` | the SSE stream of a job over `Lifecycle` | `ServiceSpec` extends `Lifecycle` by streams |
| `OrphanCleanup` | the cleanup task, or `scripts/cleanup_orphans.py`, over `GraphIndex` | composition of the two |
| `Conversation` | session memory and the query requests of one session | |
| `Retrieval` | `app/retrieve`: both searches, rerank, merge | operators over hits, and stores that documents enter and leave |
| `Query` | one `POST /v1/query`, streamed or JSON, over `Retrieval` | its interplay with the session is in `Conversation` |
| `ApiKeys` | `init_db.py`, `create_api_key.py` and authentication | commands overlap, fail and are killed |
| `Chunker` | `chunker.py` and the page loop of `ocr.py` | operators; the recursion over the separators and the loops are folds |
| `Extraction` | `graph_extract.py`, `_extract_all`, the rows of `graph_indexer.py` | operators |
| `Metrics`, `Evaluation` | the four metrics; the endpoint and the experiment | operators |
| `Algorithms` | one run of any of the last four | one step from an input to its result |
| `MCLifecycle`, `MCStream`, `MCGraph`, `MCConversation`, `MCQuery`, `MCApiKeys`, `MCAlgorithms` | - | values of the constants for TLC |

**State and code.** A handler or task is a program counter per request, worker
or execution (`up`, `slot`, `del`, `exec`, `sweep`, `req`), and one action
stands for the code from one access to a shared store to the next; an action
named `...Fails` is the same access raising, and it may raise before or after
its effect (a lost answer). `UploadCrash`, `WorkerCrash` and `DeletionCrash`
kill one handler where it stands; an API process that dies kills all of its
handlers at once, which is one such step for each. `Rest` is the idle step of a
system with nothing left to do, so that TLC's deadlock check stays on
everywhere: a state in which nothing but work is missing is not a deadlock.

**Definitions named `Mutant...`** are no part of a model. Each is a wrong version
of the definition below it, of the kind an edit of the code could bring about;
substituted for it, the model violates the property that `PROJECT.json` pairs
with it.

**Abstractions.** A `Key` is a pair of tenant and SHA-256, so different tenants
are different keys. The chunks of one execution are written and deleted as one
(one Qdrant call, one `UNWIND`), so `<<document, execution>>` stands for them; the
fresh `uuid4` ids make those of two executions different. In `Lifecycle` the file of
a document stays one item whatever its extension. `IngestWorker` writes the
document part of the graph; that the entity statements follow it in the same
execution is the business of `GraphIndex`, where a name stands for a pair
(name, type). A `MERGE` of an entity is two steps, look and create, because no
constraint covers its key. The deleting query of a sweep is two steps as well, match and
detach: Neo4j reads committed data and locks a node when it deletes it, so what others
commit in between is not seen by the match and taken along by `DETACH`. The other statements
are atomic: they write what they look for, or look for nodes that only a deletion takes away.
A summary is the set of messages folded into it: what the LLM makes of them is its affair.
In `Retrieval` a document enters or leaves a store in one step, since the finer
steps are those of `GraphIndex` and `Lifecycle`; how near a point is to a question
is left open, so the vector search returns any ranking of the points that pass its
filter; the graph search is the Cypher query as it stands; the entity names a question
matches, as a substring or by tokens, are an input; the cross-encoder is a fixed score per
text, and the text of a graph hit, cut at 500 characters, may score less than the chunk.

In `ApiKeys` a command is also the identity of the tenant and the key it creates (it
creates at most one of each), and two keys never hash alike. `before[c]` remembers which
commands were over when `c` began: "overlapped" is defined by it. The one transaction of
a command is atomic and its isolation is read committed, so what its first SELECT saw
may be stale at its INSERT. A killed `init_db.py` may leave `.env` as it was, without the
key, or with it. Revocation is an `UPDATE` and is atomic.

In `Chunker` a character is a number, positive unless it is white space (for TLC: 0 for a space,
-1 for a newline, 1 for the full stop of the separator `". "`); lengths count
characters as `len` does. The recursion of `_recursive_split` descends the list of separators,
one separator a level, so it is a fold over that list: each level is a function from a text to its
pieces and is given the function of the level below (`SplitBy`). What `NothingLost` says of a
letter it says of the places `Solid` of a text: no white space and no character of a separator,
because those are what splitting and stripping may take; that the order is kept can be
seen when the letters of a page differ (`Distinct`), as they do in the texts TLC enumerates. In `Extraction` the JSON of a reply is what the parser can tell
apart: an item that is no object, a name that is blank, repeated or of an unknown type, a
relation with an end nobody named, a value over which Python cannot loop, no content at all. In `Metrics` a
score is a fraction, never rounded; similarities are an input, in hundredths.

## 3. Runs

| Run | Instance | What it shows |
|---|---|---|
| `uploads` | 2 requests, 2 contents in opposite orders, a bad file, a repeated file; 1 worker; disk, broker, OCR, crash | `UniqueContent`, `NoWorkBeforeCommit`, `AnsweredMeansSent`, `DuplicateHasCounterpart`, `FilesAreAccountedFor`, `JobTellsAll`; the refinement `ImplementsCatalog`; liveness `UploadsEnd`, deadlock of two transactions included |
| `ingest` | 1 document, a request with too many files, 2 workers, 1 redelivery, 1 delete, all faults | `FileReady`, `CompletedIsIndexed`, `LooseOnlyAfterDelete`, `SettledDeleteIsClean`, types; the refinement `ImplementsCatalog`, with statuses that start over |
| `stream` | 1 document, 1 worker, 1 delete, 1 stream of at most 2 polls; OCR, broker, Neo4j | `ToldForward`, `ToldIsTrue`; liveness `StreamsEnd`, `SettledIsTold`, `SentSettles` |
| `graph` | 2 executions, of one tenant or of two, 2 names, 2 deletes, faults, a sweep, dry or real, and 1 retry | `DoneIsComplete`, `TenantsApart`; liveness `SweepEnds` |
| `conversation` | 3 questions that overlap at will, window of 1 exchange, faults, expiry | `WindowIsSuffix`, `WindowBounded`, `ForgetsOnlyInOverlap`, `ContextComplete` |
| `query` | 1 question of 25 kinds (every mode, 2 tenants, filter, blank, top_k 1 and 2), every setting of reranker, fusion and graph, 3 documents, one arriving and one leaving, faults, disconnection | `ContextIsOwn`, `FusedIsBest`, `FailureCostsNothing`, `SavedIsWhole` |
| `keys` | 3 commands of any kind with any arguments, 2 names, failures and kills, 1 request | `SameNameOverlapped`, `SeedsOnce`, `ShownOpens`, `RevokedIsOut` |
| `algorithms` | every text of up to 7 characters under 6 settings and the five separators of the code, documents of 2 pages with failing OCR; every reply of up to 2 entities and 1 relation, documents of 2 chunks; up to 4 verdicts, every set of metrics, replies without content; 2 questions, every pair of outcomes in both modes | `NothingLost`, `ChunkBounded`, `RowsResolve`, `PrecisionIsAverage`, `FailuresMoveNoMean` |

Four more runs find a statement of the documentation violated (section 6).

**Bounds.** Two requests are needed for a race over one content; two contents for the
deadlock, and for a job of two documents. Two workers and one redelivery give two executions of one document at
once. `MaxRedelivery` is the only bound on a counter of the lifecycle: a message may
come back at most that often. The set `Doc` is the pool of ids, as large as the
number of inserts an instance can make. For the graph, two executions give every
race between a writer and a writer, a sweep or a delete; two names give a
relation and a key that both executions share; `Limit` 2 is reached and not
reached, and a duplicate node makes three candidates. No run uploads a content again after
its document was deleted; the proofs have that case. The sweep is given one tenant, so
that the entities of the other are there to be spared. Three commands are two that
overlap and one that began after them, or a seed, a key and its revocation; a fourth
would only repeat them, and the proofs have any number. Seven characters under a chunk
size of 2 or 3 reach every separator, the recursion below each, and slices; overlaps go
from none to more than the size. Three questions are the fewest
with a fold that starts from an earlier summary, and with a load during a fold.
For a question, three chunks of the tenant are fewer than effective_k times the
oversampling in some instances and more in others, two of them share a document so that
keys collide, one is found by the relation of another document, and the chunk of the
other tenant mentions an entity of the same name and is the most relevant of all.
Requests with the same files, documents, workers, deletions and commands are interchangeable;
`ingest`, `keys` and `conversation`, which check safety only, use that symmetry.

**Fairness.** `Lifecycle!FairSpec` gives weak fairness to the steps of a request
that has arrived, of a worker and of a delete request: handlers are coroutines
of a running event loop and workers are processes in a loop. Nothing forces a
request to arrive, a redelivery or a crash. `SentSettles` is checked without
crashes and Postgres failures, because with them it is false: a killed worker
leaves its document `running` for good, and a failing write of `failed` leaves
whatever was there. `UploadsEnd` needs that Postgres detects deadlocks and that a
process that dies has its transaction rolled back. `OrphanCleanup!FairSpec` lets a sweep
that has started, or that Celery holds for a retry, go on.
`JobStream!FairServiceSpec` adds that a stream nobody broke keeps polling; `SettledIsTold`
needs no more than that, `StreamsEnd` holds though a lost message or a killed
worker leaves the job unsettled, because of the cap on polls.

## 4. Proofs

Each theorem is about every value of the constants: any sets of requests, files,
documents, keys, workers, executions, names, tenants and commands, any faults,
any number of redeliveries and retries, under the assumptions the modules name. Of the 38
different properties the passing runs check, 33 are theorems; the other five are liveness.

**Lifecycle** (`LifecycleProofs`)

- `TypeCorrect`: `Spec => []TypeOK`;
- `UniqueContentHolds`: `Spec => []UniqueContent`;
- `NoWorkBeforeCommitHolds`: `Spec => []NoWorkBeforeCommit`.

All three follow from `Invariance`, `Spec => []IInv`. None of them is inductive alone:

- two uncommitted rows with one key would satisfy `UniqueContent` and break it at
  their commits, so `UniqueHolder` speaks of uncommitted rows too. An insert
  keeps it because the unique index lets it through only when no row of the key
  is held (`~AnyBlocks` and `~Taken`), for which `StagedOwned` is needed: every
  uncommitted row has a transaction to wait for;
- a message is sent for `accepted[r]`, so `UploadInv` says that those documents
  are the request's own uncommitted rows before the commit, and committed when
  it sends; that they stay so needs that one request never touches another's;
- points and nodes are written by a worker for its task, so `SlotInv` says that
  a busy worker has a document that was once taken from the queue, whose row,
  by `NoWorkBeforeCommit` itself, was committed;
- a delete request marks its target's row deleted, so `DeletionInv` says that
  the target was committed: an uncommitted row must not become a deleted one.

The proof follows the three kinds of step: for each of uploads, workers and deletions
there are lemmas for types, for rows and uniqueness, for work before commit, and
a frame lemma for what the step leaves alone. The assumptions are those the
modules name: `FaultsAssumption`, `NoneAssumption` (the markers for "none" are
none of the values), `FilesAssumption`, `WorkerAssumption`.

**Documents** (`DocumentProofs`), all from `DocInvariance`, `Spec => []DocInv`: the properties
`AnsweredMeansSent`, `DuplicateHasCounterpart`, `FilesAreAccountedFor`, `FileReady`,
`CompletedIsIndexed`, `LooseOnlyAfterDelete` and `SettledDeleteIsClean`, each
as a theorem `...Holds`. `DocInv` adds four parts to `IInv`:

- `UploadSide`: what a request has done by the time it is at a statement. Its rows are its own
  and each accepted once (`RequestRows`), their bytes are on disk but for the one it is about
  to write (`RequestFiles`), messages are sent in order, so those before `next` are sent and
  those after are not (`RequestSent`). A duplicate has a counterpart that is committed *or the
  request's own* (`RequestDups`): the scan sees rows of its own transaction, so the promise holds
  only from the commit on, and the invariant must say why it holds then;
- `WorkSide`: two executions of one document have different numbers (`RunsNumbered`), so that
  what one deletes or rewrites is not the other's; and the writes an execution has behind it are
  in the stores unless a delete request has been at the document (`WorkWrites`);
- `OnceOnly`, about a document that was delivered once (`DeliveredOnce`): none is at work on it
  once it is settled, but for the handler of a failure: when the answer to
  the commit of `completed` or `failed` was lost, it writes `failed` over it;
- `DeletesSettled`, for the same: what a delete request that found its document settled has
  taken away, store by store, stays away. It rests on `OnceOnly`, since only an execution could put it back.

**Refinement** (`DocumentProofs`, last part): `ImplementsCatalogHolds` proves that
`Lifecycle` under `Entry` and `Repeated` implements `Catalog`: the initial states map to its initial state
and every step to one of its steps or a stutter, one lemma for each kind of step (`UploadAdmits`,
`WorkerMoves`, `DeletionRemovesEntry`). `UniqueHolder` makes `Entry` a function of the rows that are
in view; a step of a worker needs `StatusAtStage`, the status that a document delivered once has while
its execution is at a statement, besides `DocInv`. A redelivery puts the content into `again`, and from then
on, until it is removed, any move of it is allowed.

**Stream** (`StreamProofs`), from `StreamInvariance`, `ServiceSpec => []SInv`

- `ToldForwardHolds`: what has been told is in order because it was read in order and the row
  itself moves forward (`StreamOrder`); the row of a job with one document, delivered once, moves
  forward because it mirrors the only execution there is (`JobMirrors`);
- `ToldIsTrueHolds`: a row at 100% is `completed` and its document is (`JobMirrors`, with Postgres
  answering), and then `CompletedHolds` of `DocInv` says what is in the stores;
- `JobTellsAllHolds`: a task sets the status of its document and of the job in one transaction, and
  every new document is pending in a pending job, so the job has the status of the document that was
  set last, unless that one is deleted; an error is never cleared. The invariant says this of the rows of
  uncommitted requests as well;
- `StreamsOnlyRead`: `ServiceSpec => Spec`, so every theorem on `Lifecycle` holds with streams.

**Graph** (`GraphProofs`)

- `TenantsApartHolds`: `Spec => []TenantsApart`. It is inductive as it stands: `EdgesMove` says
  that edges only come from the two `MERGE`s, whose rows carry one tenant
  (`MentionsCarryTenant`, `RelationsCarryTenant`); that chunk ids are fresh is what makes the
  tenant of a chunk's execution that of its document;
- `DoneIsCompleteHolds`: `Spec => []DoneIsComplete`. Only the last statements are in the
  property; `GraphInv` says for each statement what has been written by the time an
  execution is there. After the look-up every key is missing or has a node (`Found`);
  after the creation every key has one (`Created`), which is what the two later
  `MATCH`es need; then every mention of a surviving chunk is there (`AllMentioned`), then
  every relation (`AllRelated`). `StatementWrites` proves it for the execution that moves,
  `OthersStay` for the others: their chunks are their own, a mention goes with its chunk, and an
  entity only with a sweep that has matched it. That a sweep does not match, or no longer holds, an
  entity of an execution it has not crossed is the part of the invariant about `doomed`.
  `RowsAgree`, from `ExtractionAssumption`, ties mention and relation rows to entity rows.

**Keys** (`ApiKeysProofs`), all four from `KeyInvariance`

- `SameNameOverlappedHolds`: a command that is about to commit a new name saw no tenant
  of that name among those that were over when it began, and no tenant that is created
  later is among them;
- `SeedsOnceHolds`: the same for a seed, which moreover issues no key to a tenant that it
  found with one; a tenant comes with its key, in one transaction;
- `ShownOpensHolds`: only a command whose COMMIT was answered prints or writes its key, keys
  are never deleted, and only a revocation of that key deactivates it;
- `RevokedIsOutHolds`: a key is never activated again.

**Conversation** (`ConversationProofs`), from `ConvInvariance`

- `WindowIsSuffixHolds`: `Spec => []WindowIsSuffix`. `Window` says message by message that the
  turns are the last `n` exchanges of the history. It is preserved by an append because
  `RPUSH` adds a pair at once, and by a trim because what was counted is even
  (`FoldsPairs`: `LLEN` of whole exchanges less twice `MaxTurns`) and, when it comes to a
  trim, positive, whatever was appended and trimmed since the count (`TailOf`);
- `WindowBoundedHolds`: `Spec => []WindowBounded`. `Budget` strengthens it to the time between
  the count and the trim of the request that appended last: the window exceeds its budget by
  no more than that request counted, since nobody appends after it and trims only shorten;
- `ForgetsOnlyInOverlapHolds` and `ContextCompleteHolds`, from `OrderedInvariance`: until two appends
  have overlapped at most one request appends (`Alone`), so what an append read of the window and
  the summary is still there when it trims and writes (`FoldsWell`), and an exchange that a load
  missed in the turns it read first is in the summary it reads second (`ContextWell`), or has expired.

The thirteen actions that touch neither are dealt with together (`QuietSteps`, `QuietKeeps`);
`ConversationAssumption` is the only assumption.

**Questions** (`QueryProofs`), from `QueryInvariance`, `Spec => []QueryInv`

- `ContextIsOwnHolds`: what a search returned is the asker's at the moment it is returned
  (`VectorFindsOwn`, `GraphFindsOwn`) and nothing is cited that was not returned (`FinalizeIs`);
- `FailureCostsNothingHolds`: hits of the vector search have different keys, so the merge keeps as
  many as there are (`PoolIsLong`: they inject into the pool), and the limit is taken of no fewer;
- `FusedIsBestHolds`: the sort is a rearrangement in order of relevance (`SortIs`), so what the limit
  leaves out of the pool comes later than what it keeps (`BestAreKept`), and what the pool
  left out has its key in it (`PoolIs`); the reranked pool is no longer than the limit (`RerankIs`);
- `SavedIsWholeHolds`: the events of a stream count its deltas and an error is its last step
  (`EventsCount`).

What the merge and the sort compute is an induction over the hits. The library's induction
theorems cannot be used here, but its least-element theorem can, with a set in the place of a
predicate (`LeastNat`, `AllNat` of `QueryProofs`); `PoolSteps` unfolds the fold hit by hit, and `SortExists` shows that
the order `ByRelevance` chooses is there to be chosen: the place of a hit is the number of hits
that come before it. For that reason `ByRelevance` states the order itself and does not take the
library's sort, which the prover cannot look into.

**Algorithms** (`AlgorithmsProofs`), all five from `ComputedHolds`, `Spec => []Computed`: the input is
one of those the constants allow and, once the run has ended, the output is what the operators
make of it. The rest is about the operators, for inputs of any size. Each of their loops is a
fold of the community modules, and a fold is a function chosen by a recursive equation; that one
exists is proved once for each kind of fold (`FoldLeftExists`, `FoldRightExists`, `FoldExists`), and a
lemma `...Steps` for each loop says what it has computed after every round. The folds hold their
operators as parameters, so those lemmas unfold them where they are used.

- `RowsResolveHolds`: the first loop of `_parse` keeps entities it was given
  (`KeptAreList`), the second keeps pairs of kept names (`LinksAre`), so the last entity of a
  name, whose type a relation takes, is an entity of its chunk and among the rows (`EndsAreRows`);
  the rows of a document are the union of those of each chunk alone, or none (`DocumentRows`,
  `RowsAlone`), and a reply the extractor absorbs has those of an empty object (`FlakyRows`, `EmptyRows`);
- `FailuresMoveNoMeanHolds`: a record of a question that raised has no score (`RecordIs`), and the
  mean of a metric depends on the defined scores alone (`MeansOf`), overall and in a category;
- `PrecisionIsAverageHolds`: the code adds up precisions in the order of the ranks, the definition
  over the set of relevant ranks, in whatever order `FoldSet` takes them. Adding fractions
  commutes (`PlusIs`), so any element of the set may be the last one (`FoldAny`), the greatest rank too
  (`SharesSum`), and both sums grow by the same share from rank to rank (`JudgedAre`);
- `ChunkBoundedHolds`: `Level(f, b)` says of the function of one level of separators that its
  pieces are no longer than `b`. A level gathers parts that fit in `chunk_size` or takes pieces
  of the level below as they are (`GatheredAre`), then stitching adds an overlap and the separator once
  (`StitchIs`): `SplitByIs` gives `Level` with `b` plus `AddedBy`, and `SplitTexts` adds the levels up;
- `NothingLostHolds`: `Tells(text, pieces)` says that every letter of the text is in some piece and, if no
  letter comes twice, that of two letters the first piece with the earlier one is not
  after one with the later (`Ordered`). Splitting at a separator and joining gives the text again (`Joins`,
  `SplitIs`), and every step keeps `Tells`: gathering parts (`GatherIs`), replacing a part by
  pieces that tell it (`Compose`, `Extend`), putting the end of a piece in front of the next
  (`StitchIs`: letters are only added to a piece that comes after one that has them), slices that overlap
  or leave no gap (`WindowsAre`, because the step is at most `chunk_size`), `strip` (`StripIs`). The pages
  of a document are told one after the other and their chunks keep them apart
  (`PageTells`, `ChunkPagesAre`).

Their assumptions are on the data: separators are sequences of characters, the last one and
no other empty, `chunk_size` is positive, `overlap` is not negative, and what the LLM returned as
a list is one.

**Assumptions on the constants** are the modules': `Doc` of `Retrieval` and `Name` of `GraphIndex` are
assumed finite, since stores and extractions are. `ToldForward` and `ToldIsTrue` are for
`MaxRedelivery = 0` and say so; the bounds of the `.cfg` files are assumed by no theorem.

**Only model-checked.** Liveness (`UploadsEnd`, `SentSettles`, `SweepEnds`, `StreamsEnd`,
`SettledIsTold`): the prover has no fairness rules. The four statements the runs of section 6 check are false, and
stay with TLC.

## 5. Conditional properties

Some properties say under what condition they hold, and the condition is the
point:

- `CompletedIsIndexed`, `FileReady` and `LooseOnlyAfterDelete` exempt documents
  that a delete request has looked up. A delete between two writes of an ingest
  leaves the later writes behind: points and graph nodes of a document whose
  row is gone. No code undoes this;
- `SettledDeleteIsClean` asks for a document that was completed or failed when
  the delete found it, and for a message that was delivered once. Where the deletion from a
  store raised it says nothing of that store: the row is gone all the same, and what is left
  there is out of the API's reach;
- `ImplementsCatalog` is safety: a document whose worker was killed may stay `running`, and one
  whose message was delivered again may go back to it;
- `JobTellsAll` lets the job follow any of its documents, one after the other, so it may be
  `completed` while another document is not yet; a delete may take away the document it followed;
- `ToldForward`, `ToldIsTrue` and `SettledIsTold` are about a job with one document,
  delivered once: the job row of several documents is overwritten by each task in turn.
  `ToldIsTrue` also needs Postgres to answer: when the answer to
  the commit of `completed` is lost the worker overwrites it with `failed`, and a
  stream may have told the first;
- `AnsweredMeansSent` is about requests that were answered. One that dies between
  the commit and its last message leaves pending documents no worker knows of;
- `FilesAreAccountedFor` names the only files without a row: those of a request whose
  client got an error, or that died, after the bytes were written, and those of a delete
  that could not unlink;
- `DoneIsComplete` exempts the executions that ran while the deleting query of a real sweep was
  at work (`crossed`). Such a query can take an entity between its creation and its first
  mention, and the mention is then skipped without an error; or one that is mentioned between
  its match and its deletion. A dry run, the only mode the scheduler uses, takes nothing. An
  entity that becomes an orphan after the match stays until the next sweep;
- `SameNameOverlapped` is as much as look-before-insert gives without a constraint: two
  commands that overlap do create one name twice, and from then on `--tenant` and
  `--new-tenant` with that name raise;
- `ShownOpens` is about keys somebody was shown. A command that dies between its commit and
  its output leaves a key nobody knows; with `init_db.py` a second run does not replace
  it (`SeedsOnce`), and `create_api_key.py issue` is the way out;
- `RowsResolve` says that a document sends the rows of all its replies or none. It sends none when
  a reply makes the parser raise (`Raises`), which `extraction_claim` is about;
- `ContextIsOwn` allows graph hits from outside the client's filter, and only those;
- `FusedIsBest` bounds the context where fusion is on: without it graph hits come on top of the
  limit. It exempts a hit whose key another hit has: with the graph's keys
  as they are, such a hit is lost however relevant it is (`dedup_hits_claim`);
- `ForgetsOnlyInOverlap` and `ContextComplete` hold until an append begins while another one is
  under way. Nothing in the code keeps appends apart: a client that asks again at the last token, as
  in `forget_claim` (`Waits`), can overtake the append of the answer it has just read. They are
  about exchanges that were appended: one whose append failed is in the log only, and the
  client was told `done`. `WindowIsSuffix` and `WindowBounded` hold whatever overlaps.

What the code does and no property excludes: a pending document whose request died before its
message (`upload.py:104`), a document that stays `running` (`celery_app.py:33`), the duplicate
chunks of a second execution, the index entries that an ingest writes after the delete, a key that
nobody was shown. A property that excluded one of them would be false, and, where the
documentation says otherwise, section 6 has it.

## 6. Where the code and its documentation disagree

| Run | Statement | What happens |
|---|---|---|
| `dedup_claim` | `graph_indexer.py:87`, `README.md:147` entities are unique per (tenant, name, type) | two concurrent `MERGE`s create two nodes |
| `forget_claim` | `session.py:13-16` what leaves the window is folded into the summary | overlapping appends trim exchanges that none of them folded, also of a client that reads each answer to its last token |
| `dedup_hits_claim` | `orchestrator.py:5-6`, `README.md:169` hits are deduplicated by (document_id, chunk_index) | a `:Chunk` node has no chunk_index, every graph hit carries 0: a graph hit takes the place of another chunk of its document, and a passage found twice is kept twice |
| `extraction_claim` | `graph_extract.py:7-8`, `pipeline.py:42-44` a flaky reply costs its chunk, extraction never raises on one | a reply without content (`llm.py:82`, `graph_extract.py:74`), or with a number or `true` for a list, raises outside the `try` around the call, and `gather` takes every chunk's entities with it |

Met while reading, without a run: `upload.py:75` answers "same content already
indexed" for a document that is still pending, and for ever for one that failed
or was never queued; `ARCHITECTURE.md:344` puts all `MERGE`s of a
document in one transaction, the code gives each its own; `ARCHITECTURE.md:345`
says that executing a job again does not inflate the graph, but chunk ids are
fresh in every execution (`pipeline.py:76`); `OPERATIONS.md:254` has the delete
start with Postgres and take the jobs along, the code ends with Postgres and
keeps them; `documents.py:87` says the row is kept "if upstream cascades fail
catastrophically", but every failure of them is caught and the row deleted;
`ARCHITECTURE.md:349` has a job go pending, running, then completed or failed,
but the tasks of a request with two files share its row, which can go from
completed back to running; `orchestrator.py:14` has reranker failures fall back
to vector ordering, but with fusion the order is graph hits first; request
filters (`schemas.py:53`) restrict the vector search only; the modes `vector` and
`graph` are taken and treated as `fact`; `ARCHITECTURE.md:517` describes `LPUSH` and a limit in turns, the
code appends at the tail and counts two messages a turn.

In the parts modelled since: `router.py:10` falls back to `fact` "on any parse / network
failure", but a reply without content raises in `raw.strip()` (line 50) and ends the request
(`ClassifyFails`); `session.py:9-11` has both keys share one TTL that every write renews, but
a trim without a new summary renews that of the turns only (`ExpireSummary`); `cleanup.py:3-9` speaks of
entities without mentions, but the query that deletes them can take one that was mentioned
since it matched it; a chunk may be
longer than `chunk_size` by an overlap and a separator for each level of the split, and a
chunk may be blank after `strip`; `metrics.py:11` promises floats in [0, 1], but
`answer_relevancy` is a mean of cosines and can be negative; `context_precision` counts a
judge that raised as "not relevant"; `evaluate.py:58` adds `context_recall` "if
expected_answer is supplied", but not to a list of metrics the client gave, and an
embedder that raises, or a reply without content (`metrics.py:76`, `147`), costs all scores of the request; `run_eval.py:234` records a latency
of 0.0 for a question that failed and averages it, while its report calls latency the
time "from request to answer"; `limiter.py:1` and `README.md` speak of limits per tenant, the
code counts per key; `ARCHITECTURE.md:533` describes a `revoked_at` column, the code has
`is_active`; `init_db.py` between its commit and `.env`, and duplicate tenant names, are in
section 5.

## 7. Order of the work

The core of the system came first: `Stores`, `Upload`, `IngestWorker`, `DeleteDocument`, `Lifecycle`
with `Catalog`, `LifecycleProofs`, `GraphIndex`, `OrphanCleanup`, `Conversation`, `JobStream`, `Retrieval` and
`Query`; then `ApiKeys` with its proofs, `Chunker`, `Extraction`, `Metrics`, `Evaluation` and
`Algorithms`, `GraphProofs` and `ConversationProofs`; then `DocumentProofs` with the refinement,
`StreamProofs`, the appends in order of `ConversationProofs`, and `QueryProofs`; last
`AlgorithmsProofs`, the two halves of a sweep's query, and jobs of several documents. What could come next is a
model of the session's `reset` and of limits per key, should the service come to rely on them.

## 8. Not modelled

- Rate limiting: slowapi counts; the source picks a key and a limit.
- LLM, embedding and database clients: their calls answer or raise in the models above;
  what is left is payloads, pooling and a lazily created singleton. The one hazard of
  those singletons, a driver bound to an earlier event loop, is in `OrphanCleanup`.
- Prompt text, settings, logging, request schemas, health checks, CORS: text,
  configuration and reads without a promise that takes several steps to break.
- `session.reset` (only a test calls it), the listing of documents, of tenants and of keys
  (reads), `init_qdrant.py` and the migrations' environment (one-shot set-up), and the
  builders of test documents.
