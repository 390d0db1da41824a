--------------------------- MODULE DeleteDocument ---------------------------
(***************************************************************************)
(* DELETE /v1/documents/{id} (app/api/documents.py): the row is looked up, *)
(* then Qdrant, Neo4j and the upload directory are cleaned one after the   *)
(* other, each failure being logged and ignored, and the Postgres row is   *)
(* deleted last.                                                           *)
(***************************************************************************)
EXTENDS Stores

CONSTANTS Deletion      \* delete requests

VARIABLES del           \* state of each delete request

DeletionPC == {"idle", "vector", "graph", "file", "row",
               "notfound", "done", "error", "crashed"}
DeletionOver == {"notfound", "done", "error", "crashed"}

(* `seen` is the status of the row the handler loaded, `ok` the stores whose
   deletion did not raise. *)
DeletionState == [pc : DeletionPC, doc : Doc \union {NoDoc},
                  seen : DocStatus, ok : SUBSET {"vector", "graph", "file"}]

DeletionTypeOK == del \in [Deletion -> DeletionState]
DeletionInit ==
    del = [h \in Deletion |->
              [pc |-> "idle", doc |-> NoDoc, seen |-> "pending", ok |-> {}]]

Stage(h, pc) == del[h].pc = pc
Target(h) == del[h].doc
Advance(h, pc, done) ==
    del' = [del EXCEPT ![h] = [pc |-> pc, doc |-> @.doc, seen |-> @.seen,
                               ok |-> @.ok \union done]]

(* A delete request has got past the lookup of d. *)
Touched(d) == \E h \in Deletion : Target(h) = d

-----------------------------------------------------------------------------
(* The lookup; 404 unless the row is committed. *)
Lookup(h, d) ==
    /\ Stage(h, "idle")
    /\ row[d] \in {"committed", "deleted"}
    /\ IF Live(d)
       THEN del' = [del EXCEPT ![h] = [pc |-> "vector", doc |-> d,
                                       seen |-> status[d], ok |-> {}]]
       ELSE del' = [del EXCEPT ![h].pc = "notfound"]
    /\ UNCHANGED storeVars

DeletePoints(h) ==
    /\ Stage(h, "vector")
    /\ points' = points \ Of(points, Target(h))
    /\ Advance(h, "graph", {"vector"})
    /\ UNCHANGED <<pgVars, files, queue, runs, graphDocs, linked, loose>>

DeletePointsFails(h) ==
    /\ Stage(h, "vector")
    /\ May("qdrant")
    /\ points' \in {points, points \ Of(points, Target(h))}
    /\ Advance(h, "graph", {})
    /\ UNCHANGED <<pgVars, files, queue, runs, graphDocs, linked, loose>>

(* Only chunks with a PART_OF edge to the node are found; without the node
   the query matches nothing. *)
MutantDetachedChunks(d) == {}
DetachedChunks(d) == Of(linked, d)

GraphDeleted(d) ==
    /\ graphDocs' = graphDocs \ {d}
    /\ linked' = linked \ DetachedChunks(d)

DeleteGraph(h) ==
    /\ Stage(h, "graph")
    /\ GraphDeleted(Target(h))
    /\ Advance(h, "file", {"graph"})
    /\ UNCHANGED <<pgVars, files, queue, runs, points, loose>>

DeleteGraphFails(h) ==
    /\ Stage(h, "graph")
    /\ May("neo4j")
    /\ GraphDeleted(Target(h)) \/ UNCHANGED <<graphDocs, linked>>
    /\ Advance(h, "file", {})
    /\ UNCHANGED <<pgVars, files, queue, runs, points, loose>>

UnlinkFile(h) ==
    /\ Stage(h, "file")
    /\ files' = files \ {Target(h)}
    /\ Advance(h, "row", {"file"})
    /\ UNCHANGED <<pgVars, queue, runs, indexVars>>

UnlinkFileFails(h) ==
    /\ Stage(h, "file")
    /\ May("fs")
    /\ Target(h) \in files
    /\ Advance(h, "row", {})
    /\ UNCHANGED storeVars

DeleteRow(h) ==
    /\ Stage(h, "row")
    /\ row' = [row EXCEPT ![Target(h)] = "deleted"]
    /\ Advance(h, "done", {})
    /\ UNCHANGED <<keyOf, jobOf, status, jobs, files, queue, runs, indexVars>>

DeleteRowFails(h) ==
    /\ Stage(h, "row")
    /\ May("pg")
    /\ row' \in {row, [row EXCEPT ![Target(h)] = "deleted"]}
    /\ Advance(h, "error", {})
    /\ UNCHANGED <<keyOf, jobOf, status, jobs, files, queue, runs, indexVars>>

DeletionCrash(h) ==
    /\ May("crash")
    /\ del[h].pc \notin DeletionOver \union {"idle"}
    /\ Advance(h, "crashed", {})
    /\ UNCHANGED storeVars

DeletionStep(h) ==
    \/ DeletePoints(h) \/ DeletePointsFails(h)
    \/ DeleteGraph(h) \/ DeleteGraphFails(h)
    \/ UnlinkFile(h) \/ UnlinkFileFails(h)
    \/ DeleteRow(h) \/ DeleteRowFails(h)

DeletionNext ==
    \E h \in Deletion :
       (\E d \in Doc : Lookup(h, d)) \/ DeletionStep(h) \/ DeletionCrash(h)
=============================================================================
