----------------------------- MODULE Lifecycle ------------------------------
(***************************************************************************)
(* The life of a document: upload requests, Celery workers and delete      *)
(* requests interleaved step by step over the shared stores.               *)
(***************************************************************************)
EXTENDS Upload, IngestWorker, DeleteDocument

vars == <<storeVars, upVars, slot, del>>

TypeOK ==
    /\ StoresTypeOK
    /\ UploadTypeOK
    /\ WorkerTypeOK
    /\ DeletionTypeOK

Init == StoresInit /\ UploadInit /\ WorkerInit /\ DeletionInit

(* Nothing is left to do; the processes wait for requests. *)
Rest ==
    /\ \A r \in Request : up[r] \in UploadOver
    /\ \A w \in Worker : At(w, "idle")
    /\ \A h \in Deletion : del[h].pc \in DeletionOver \union {"idle"}
    /\ Worker # {} => \A d \in Doc : queue[d] = 0
    /\ UNCHANGED vars

Next ==
    \/ UploadNext /\ UNCHANGED <<slot, del>>
    \/ WorkerNext /\ UNCHANGED <<upVars, del>>
    \/ DeletionNext /\ UNCHANGED <<upVars, slot>>
    \/ Rest

Spec == Init /\ [][Next]_vars

(***************************************************************************)
(* An API process runs its handlers to the end and a worker process keeps  *)
(* taking and executing messages.  Requests need never arrive, and nothing *)
(* forces the broker to deliver again.                                     *)
(***************************************************************************)
Fairness ==
    /\ \A r \in Request : WF_vars(UploadStep(r) /\ UNCHANGED <<slot, del>>)
    /\ \A w \in Worker : WF_vars(WorkerStep(w) /\ UNCHANGED <<upVars, del>>)
    /\ \A h \in Deletion : WF_vars(DeletionStep(h) /\ UNCHANGED <<upVars, slot>>)

FairSpec == Spec /\ Fairness

-----------------------------------------------------------------------------
(***************************************************************************)
(* Safety.                                                                 *)
(***************************************************************************)

(* Concurrent uploads of one content never leave two rows for it: the SELECT
   of upload.py can be stale by the time of the INSERT, and only the unique
   constraint stands between two requests that both found nothing. *)
UniqueContent ==
    \A d, e \in Doc : Live(d) /\ Live(e) /\ keyOf[d] = keyOf[e] => d = e

(* No message, execution, point or graph node exists for a row that was not
   committed: messages are sent after the commit, so that a rolled back
   request leaves nothing behind that a worker would index. *)
NoWorkBeforeCommit ==
    \A d \in Doc :
        \/ queue[d] > 0
        \/ runs[d] > 0
        \/ Of(points \union linked \union loose, d) # {}
        \/ d \in graphDocs
        => row[d] \in {"committed", "deleted"}

(* The file of a message a worker may take is on disk, unless a delete
   request has been at the document: the bytes are written before the commit
   and the message, so that OCR never runs ahead of them. *)
FileReady ==
    \A d \in Doc : queue[d] > 0 /\ ~Touched(d) => d \in files

(* A document whose status is `completed` and which no delete request touched
   is in both indexes, under the ids of one execution, or has no text. *)
CompletedIsIndexed ==
    \A d \in Doc :
        Live(d) /\ status[d] = "completed" /\ ~Touched(d) =>
            \/ keyOf[d] \in Blank
            \/ Of(points, d) \cap linked # {}

(* A chunk node is without a PART_OF edge, hence out of reach of any later
   delete, only when a delete request has been at its document. *)
LooseOnlyAfterDelete ==
    \A d \in Doc : Of(loose, d) # {} => Touched(d)

(* 202 means that every accepted document has a message or an execution. *)
AnsweredMeansSent ==
    \A r \in Request : up[r] = "done" =>
        \A i \in 1..Len(accepted[r]) :
            queue[accepted[r][i]] + runs[accepted[r][i]] > 0

(* A file is rejected as a duplicate only of a row that is there for good,
   until a delete request takes it away: never of one that another request
   holds uncommitted and may still lose. *)
DuplicateHasCounterpart ==
    \A r \in Request : up[r] = "done" =>
        \A i \in dups[r] : \E d \in Doc :
            keyOf[d] = FilesOf[r][i] /\ row[d] \in {"committed", "deleted"}

(* The bytes are written before the commit, so a rollback leaves files that no
   row names; but only a request whose client was told so, or whose process
   died, leaves any. *)
FilesAreAccountedFor ==
    \A d \in files :
        \/ row[d] \in {"staged", "committed"}
        \/ up[jobOf[d]] \in {"error", "crashed"}
        \/ Touched(d)

(* The broker has not put the message of d back. *)
DeliveredOnce(d) == queue[d] + runs[d] <= 1

(* A delete request that found the document completed or failed and was the
   only one leaves of it at most what a store refused to give up: its row is
   gone, and so is all it had in every store whose deletion did not raise.
   Not so for a message that was delivered again. *)
SettledDeleteIsClean ==
    \A h \in Deletion :
        /\ Stage(h, "done")
        /\ del[h].seen \in Terminal
        /\ DeliveredOnce(Target(h))
        /\ \A g \in Deletion : Target(g) = Target(h) => g = h
        => LET d == Target(h)
           IN  /\ ~Live(d)
               /\ "vector" \in del[h].ok => Of(points, d) = {}
               /\ "graph" \in del[h].ok => d \notin graphDocs /\ Of(linked \union loose, d) = {}
               /\ "file" \in del[h].ok => d \notin files

(* A job has one row for all its documents, which every task overwrites.  As
   long as no delete request is at them its status is that of one of them, so
   it is over when they all are; and whatever the others write after it, a
   document that failed has left its error there. *)
JobTellsAll ==
    \A d \in Doc : Live(d) =>
        LET job == jobs[jobOf[d]]
        IN  /\ status[d] = "failed" => job.error
            /\ (\A e \in Doc : jobOf[e] = jobOf[d] => ~Touched(e)) =>
                  \E e \in Doc : jobOf[e] = jobOf[d] /\ status[e] = job.status

-----------------------------------------------------------------------------
(***************************************************************************)
(* Liveness, under FairSpec.                                               *)
(***************************************************************************)

(* No upload request waits for ever for another one's key. *)
UploadsEnd ==
    \A r \in Request : up[r] # "idle" ~> up[r] \in UploadOver

(* Without crashes and Postgres faults, whatever OCR, Qdrant and Neo4j do,
   every message leads to a settled document. *)
SentSettles ==
    \A d \in Doc :
        queue[d] > 0 ~> (Live(d) => queue[d] = 0 /\ status[d] \in Terminal)

-----------------------------------------------------------------------------
(***************************************************************************)
(* The lifecycle of the documents implements the catalogue.                *)
(***************************************************************************)
Entry ==
    [k \in Key |->
        IF \E d \in Doc : Live(d) /\ keyOf[d] = k
        THEN status[CHOOSE d \in Doc : Live(d) /\ keyOf[d] = k]
        ELSE "absent"]

(* failed after completed: the answer to the commit of `completed` was lost. *)
MovesOnce == {<<"pending", "running">>, <<"pending", "failed">>,
              <<"running", "completed">>, <<"running", "failed">>,
              <<"completed", "failed">>}

Repeated ==
    {k \in Key : \E d \in Doc : Live(d) /\ keyOf[d] = k /\ ~DeliveredOnce(d)}

Abstract == INSTANCE Catalog
                WITH entry <- Entry, again <- Repeated, Moves <- MovesOnce

(* What clients see of a content is a behaviour of the catalogue. *)
ImplementsCatalog == Abstract!Spec

=============================================================================
