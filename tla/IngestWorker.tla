---------------------------- MODULE IngestWorker ----------------------------
(***************************************************************************)
(* The Celery task ingest.document (app/workers/tasks.py) and the pipeline *)
(* it runs (app/ingest/pipeline.py).  A worker process acknowledges a      *)
(* message when it starts it (no acks_late), never retries (max_retries=0) *)
(* and writes to three stores one after another:                           *)
(*   Postgres `running`, OCR of the file, Qdrant points, the :Document     *)
(*   node, the :Chunk nodes, Postgres `completed` - or `failed`.           *)
(* The entities and relations of the graph are the subject of GraphIndex.  *)
(***************************************************************************)
EXTENDS Stores

CONSTANTS
    Worker,         \* Celery worker processes
    Blank,          \* the keys whose content yields no chunk
    MaxRedelivery   \* bound: times the broker delivers a message again

ASSUME WorkerAssumption == Blank \subseteq Key /\ MaxRedelivery \in Nat

VARIABLES slot      \* what each worker process executes

WorkerPC == {"idle", "begin", "ocr", "points", "document", "chunks",
             "complete", "fail"}

Slot == [pc : WorkerPC, doc : Doc \union {NoDoc}, run : Nat]
IdleSlot == [pc |-> "idle", doc |-> NoDoc, run |-> 0]

WorkerTypeOK == slot \in [Worker -> Slot]
WorkerInit == slot = [w \in Worker |-> IdleSlot]

At(w, pc) == slot[w].pc = pc
Goto(w, pc) == slot' = [slot EXCEPT ![w].pc = pc]
Release(w) == slot' = [slot EXCEPT ![w] = IdleSlot]
Task(w) == slot[w].doc
Chunk(w) == <<slot[w].doc, slot[w].run>>

(***************************************************************************)
(* _set_status: one transaction on the job row and on the document row.    *)
(* An UPDATE of a row that is gone changes nothing and raises nothing, and *)
(* `error` is only ever written, never cleared.                            *)
(***************************************************************************)
MutantDocumentUpdate(d, s) == status' = status
DocumentUpdate(d, s) ==
    status' = IF Live(d) THEN [status EXCEPT ![d] = s] ELSE status

MutantProgress(s, old) == IF s = "running" THEN 1 ELSE 0
Progress(s, old) == CASE s = "running" -> 0
                      [] s = "completed" -> 1
                      [] OTHER -> old

MutantBlame(s, old) == s = "failed"
Blame(s, old) == old \/ s = "failed"

SetStatus(d, s) ==
    /\ DocumentUpdate(d, s)
    /\ jobs' = [jobs EXCEPT ![jobOf[d]] =
                   [status |-> s, progress |-> Progress(s, @.progress),
                    error |-> Blame(s, @.error)]]

NothingSet == UNCHANGED <<status, jobs>>

MutantFailureStatus == "error"
MutantRequeued == "pending"
FailureStatus == "failed"

(* What the exception handler of _run records. *)
MutantRecordFailure(d) == NothingSet
RecordFailure(d) == SetStatus(d, FailureStatus)

(* An exception of a store leaves the pipeline for the exception handler. *)
MutantOnStoreError == "complete"
OnStoreError == "fail"

-----------------------------------------------------------------------------
(***************************************************************************)
(* The broker.  A message is taken and acknowledged in one step.  One that *)
(* a worker process holds reserved without having acknowledged it is put   *)
(* back after the visibility timeout, and then exists twice.               *)
(***************************************************************************)
Acknowledged(d) == queue[d] - 1

Take(w, d) ==
    /\ At(w, "idle")
    /\ queue[d] > 0
    /\ queue' = [queue EXCEPT ![d] = Acknowledged(d)]
    /\ runs' = [runs EXCEPT ![d] = @ + 1]
    /\ slot' = [slot EXCEPT ![w] = [pc |-> "begin", doc |-> d, run |-> runs[d] + 1]]
    /\ UNCHANGED <<pgVars, files, indexVars>>

Redeliver(d) ==
    /\ queue[d] > 0
    /\ queue[d] + runs[d] <= MaxRedelivery
    /\ queue' = [queue EXCEPT ![d] = @ + 1]
    /\ UNCHANGED <<pgVars, files, runs, indexVars, slot>>

-----------------------------------------------------------------------------
SetRunning(w) ==
    /\ At(w, "begin")
    /\ SetStatus(Task(w), "running")
    /\ Goto(w, "ocr")
    /\ UNCHANGED <<row, keyOf, jobOf, files, queue, runs, indexVars>>

(* The exception of a status update that may or may not have been committed. *)
SetRunningFails(w) ==
    /\ At(w, "begin")
    /\ May("pg")
    /\ SetStatus(Task(w), "running") \/ NothingSet
    /\ Goto(w, "fail")
    /\ UNCHANGED <<row, keyOf, jobOf, files, queue, runs, indexVars>>

(* Reading the file, OCR, chunking, embedding and entity extraction. *)
AfterOcr(d) ==
    CASE d \notin files -> {"fail"}
      [] d \in files /\ keyOf[d] \in Blank -> {"complete"}
      [] OTHER -> {"points"}

Extract(w) ==
    /\ At(w, "ocr")
    /\ \E pc \in AfterOcr(Task(w)) \union (IF May("ocr") THEN {"fail"} ELSE {}) :
          Goto(w, pc)
    /\ UNCHANGED storeVars

UpsertPoints(w) ==
    /\ At(w, "points")
    /\ points' = points \union {Chunk(w)}
    /\ Goto(w, "document")
    /\ UNCHANGED <<pgVars, files, queue, runs, graphDocs, linked, loose>>

UpsertPointsFails(w) ==
    /\ At(w, "points")
    /\ May("qdrant")
    /\ points' \in {points, points \union {Chunk(w)}}
    /\ Goto(w, OnStoreError)
    /\ UNCHANGED <<pgVars, files, queue, runs, graphDocs, linked, loose>>

MergeDocument(w) ==
    /\ At(w, "document")
    /\ graphDocs' = graphDocs \union {Task(w)}
    /\ Goto(w, "chunks")
    /\ UNCHANGED <<pgVars, files, queue, runs, points, linked, loose>>

MergeDocumentFails(w) ==
    /\ At(w, "document")
    /\ May("neo4j")
    /\ graphDocs' \in {graphDocs, graphDocs \union {Task(w)}}
    /\ Goto(w, OnStoreError)
    /\ UNCHANGED <<pgVars, files, queue, runs, points, linked, loose>>

(* MERGE of the chunk never fails to match; MATCH of its document may. *)
MutantChunkWrites(w) == loose' = loose \union {Chunk(w)} /\ linked' = linked
ChunkWrites(w) ==
    IF Task(w) \in graphDocs
    THEN linked' = linked \union {Chunk(w)} /\ loose' = loose
    ELSE loose' = loose \union {Chunk(w)} /\ linked' = linked

MergeChunks(w) ==
    /\ At(w, "chunks")
    /\ ChunkWrites(w)
    /\ Goto(w, "complete")
    /\ UNCHANGED <<pgVars, files, queue, runs, points, graphDocs>>

MergeChunksFails(w) ==
    /\ At(w, "chunks")
    /\ May("neo4j")
    /\ ChunkWrites(w) \/ UNCHANGED <<linked, loose>>
    /\ Goto(w, OnStoreError)
    /\ UNCHANGED <<pgVars, files, queue, runs, points, graphDocs>>

SetCompleted(w) ==
    /\ At(w, "complete")
    /\ SetStatus(Task(w), "completed")
    /\ Release(w)
    /\ UNCHANGED <<row, keyOf, jobOf, files, queue, runs, indexVars>>

SetCompletedFails(w) ==
    /\ At(w, "complete")
    /\ May("pg")
    /\ SetStatus(Task(w), "completed") \/ NothingSet
    /\ Goto(w, "fail")
    /\ UNCHANGED <<row, keyOf, jobOf, files, queue, runs, indexVars>>

SetFailed(w) ==
    /\ At(w, "fail")
    /\ RecordFailure(Task(w))
    /\ Release(w)
    /\ UNCHANGED <<row, keyOf, jobOf, files, queue, runs, indexVars>>

(* The exception handler's own update raises: the task ends, no status is set. *)
SetFailedFails(w) ==
    /\ At(w, "fail")
    /\ May("pg")
    /\ Release(w)
    /\ UNCHANGED storeVars

(* The process is killed (hard time limit, OOM, deploy); the message is gone. *)
WorkerCrash(w) ==
    /\ May("crash")
    /\ ~At(w, "idle")
    /\ Release(w)
    /\ UNCHANGED storeVars

WorkerStep(w) ==
    \/ \E d \in Doc : Take(w, d)
    \/ SetRunning(w) \/ SetRunningFails(w)
    \/ Extract(w)
    \/ UpsertPoints(w) \/ UpsertPointsFails(w)
    \/ MergeDocument(w) \/ MergeDocumentFails(w)
    \/ MergeChunks(w) \/ MergeChunksFails(w)
    \/ SetCompleted(w) \/ SetCompletedFails(w)
    \/ SetFailed(w) \/ SetFailedFails(w)

WorkerNext == \/ \E w \in Worker : WorkerStep(w) \/ WorkerCrash(w)
              \/ \E d \in Doc : Redeliver(d)
=============================================================================
