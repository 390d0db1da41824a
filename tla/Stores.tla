------------------------------- MODULE Stores -------------------------------
(***************************************************************************)
(* The state the API processes and the Celery workers share: the Postgres  *)
(* tables `documents` and `jobs`, the upload directory, the Celery queue,  *)
(* the Qdrant collection and the document part of the Neo4j graph.         *)
(*                                                                         *)
(* A request of POST /v1/upload creates exactly one job, so the request is *)
(* also the identity of its job.  A Key is a (tenant_id, file_hash) pair.  *)
(* The chunks one execution of the ingest task writes carry fresh uuid4    *)
(* ids; they are written and deleted together and are represented by       *)
(* <<document, execution number>>.                                         *)
(***************************************************************************)
EXTENDS Integers, Sequences, FiniteSets

CONSTANTS
    Request,    \* upload requests, hence also jobs
    Doc,        \* the document ids uuid4 can return
    Key,        \* (tenant_id, file_hash) pairs
    Faults      \* which of the faults named in FaultKind may happen

FaultKind == {"pg", "fs", "broker", "ocr", "qdrant", "neo4j", "crash"}

ASSUME FaultsAssumption == Faults \subseteq FaultKind

NoKey == "no key"
NoRequest == "no request"
NoDoc == "no document"

ASSUME NoneAssumption ==
    NoKey \notin Key /\ NoRequest \notin Request /\ NoDoc \notin Doc

VARIABLES
    row,        \* where each document row is in its life
    keyOf,      \* documents.(tenant_id, file_hash)
    jobOf,      \* the request, hence the job, that created the row
    status,     \* documents.status
    jobs,       \* jobs.(status, progress, error)
    files,      \* documents whose /data/uploads/<id><ext> exists
    queue,      \* undelivered copies of a document's ingest message
    runs,       \* executions of the ingest task begun so far, per document
    points,     \* Qdrant points
    graphDocs,  \* Neo4j :Document nodes
    linked,     \* Neo4j :Chunk nodes with a PART_OF edge
    loose       \* Neo4j :Chunk nodes without one

pgVars == <<row, keyOf, jobOf, status, jobs>>
indexVars == <<points, graphDocs, linked, loose>>
storeVars == <<pgVars, files, queue, runs, indexVars>>

RowState == {"fresh", "staged", "committed", "rolledback", "deleted"}
DocStatus == {"pending", "running", "completed", "failed"}
Terminal == {"completed", "failed"}

JobRow == [status : DocStatus \union {"none"}, progress : {0, 1}, error : BOOLEAN]
NoJobRow == [status |-> "none", progress |-> 0, error |-> FALSE]
NewJobRow == [status |-> "pending", progress |-> 0, error |-> FALSE]

Chunks == Doc \X (Nat \ {0})

StoresTypeOK ==
    /\ row \in [Doc -> RowState]
    /\ keyOf \in [Doc -> Key \union {NoKey}]
    /\ jobOf \in [Doc -> Request \union {NoRequest}]
    /\ status \in [Doc -> DocStatus]
    /\ jobs \in [Request -> JobRow]
    /\ files \subseteq Doc
    /\ queue \in [Doc -> Nat]
    /\ runs \in [Doc -> Nat]
    /\ points \subseteq Chunks
    /\ graphDocs \subseteq Doc
    /\ linked \subseteq Chunks
    /\ loose \subseteq Chunks

StoresInit ==
    /\ row = [d \in Doc |-> "fresh"]
    /\ keyOf = [d \in Doc |-> NoKey]
    /\ jobOf = [d \in Doc |-> NoRequest]
    /\ status = [d \in Doc |-> "pending"]
    /\ jobs = [r \in Request |-> NoJobRow]
    /\ files = {}
    /\ queue = [d \in Doc |-> 0]
    /\ runs = [d \in Doc |-> 0]
    /\ points = {}
    /\ graphDocs = {}
    /\ linked = {}
    /\ loose = {}

(* A fault is a choice the environment has only when the instance allows it. *)
May(fault) == fault \in Faults

(* The row is visible to every transaction (READ COMMITTED). *)
Live(d) == row[d] = "committed"

(* The rows some transaction holds in the unique index on (tenant_id, file_hash). *)
Holders(k) == {d \in Doc : keyOf[d] = k /\ row[d] \in {"staged", "committed"}}

(* The chunks of document d among those of a store. *)
Of(store, d) == {c \in store : c[1] = d}

=============================================================================
