---------------------------- MODULE OrphanCleanup ---------------------------
(***************************************************************************)
(* The Celery task cleanup.orphan_entities (app/workers/cleanup.py) at     *)
(* work on a graph that is being written to.  One execution of _run scans, *)
(* and unless dry_run is set deletes with a query of its own; a transient  *)
(* Neo4j error has Celery execute it again, at most max_retries times.     *)
(*                                                                         *)
(* The deleting query, MATCH .. WHERE NOT .. WITH e LIMIT .. DETACH DELETE *)
(* e, is one transaction but not one step: it reads committed data without *)
(* locking it, and what others commit before it deletes is deleted along.  *)
(***************************************************************************)
EXTENDS GraphIndex

CONSTANTS
    Scope,          \* the tenants of its tenant_id argument
    Limit,          \* its limit argument
    MaxRetries      \* max_retries of the task

ASSUME CleanupAssumption ==
    /\ Scope \subseteq Tenant
    /\ Limit \in Nat \ {0} /\ MaxRetries \in Nat

VARIABLES
    sweep,      \* where the task is
    dryRun,     \* its dry_run argument
    scanned,    \* the rows _scan_orphans returned
    doomed,     \* the rows the deleting query has matched
    retries,    \* self.request.retries
    loopUsed,   \* the cached driver has served an earlier event loop
    crossed     \* history: executions that ran while the query was at work

sweepVars == <<sweep, dryRun, scanned, doomed, retries, loopUsed, crossed>>
vars == <<graphVars, sweepVars>>

SweepOver == {"done", "failed"}

Init ==
    /\ GraphInit
    /\ sweep = "idle" /\ dryRun = TRUE
    /\ scanned = {} /\ doomed = {}
    /\ retries = 0
    /\ loopUsed = FALSE
    /\ crossed = {}

(* No :Chunk mentions the entity. *)
IsOrphan(e) == \A m \in mentions : m[2] # e
Orphans == {e \in entities : e[1][1] \in Scope /\ IsOrphan(e)}

(* WITH e LIMIT $limit: any Limit of them, or all when there are fewer. *)
Batches ==
    {B \in SUBSET Orphans :
        \/ Cardinality(B) = Limit
        \/ Cardinality(B) < Limit /\ B = Orphans}

-----------------------------------------------------------------------------
Sweep ==
    /\ sweep = "idle"
    /\ sweep' = "scan"
    /\ dryRun' \in BOOLEAN
    /\ UNCHANGED <<graphVars, scanned, doomed, retries, loopUsed, crossed>>

AfterScan == IF dryRun THEN "done" ELSE "match"

Scan ==
    /\ sweep = "scan"
    /\ scanned' \in Batches
    /\ sweep' = AfterScan
    /\ loopUsed' = TRUE
    /\ UNCHANGED <<graphVars, dryRun, doomed, retries, crossed>>

(* The query looks for orphans again; what the scan returned is not used. *)
MutantMatched == {scanned}
Matched == Batches

MatchOrphans ==
    /\ sweep = "match"
    /\ doomed' \in Matched
    /\ sweep' = "detach"
    /\ crossed' = crossed \union {x \in Execution : ~Ended(x)}
    /\ UNCHANGED <<graphVars, dryRun, scanned, retries, loopUsed>>

(* DETACH takes every edge of the nodes, whenever it was written. *)
DetachDelete ==
    /\ entities' = entities \ doomed
    /\ mentions' = {m \in mentions : m[2] \notin doomed}
    /\ relates' = {p \in relates : p[1] \notin doomed /\ p[2] \notin doomed}

(* The query is over, committed or not; who has not begun did not meet it. *)
QueryOver ==
    /\ doomed' = {}
    /\ crossed' = {x \in crossed : ~OnStatement(x, "idle")}

DeleteOrphans ==
    /\ sweep = "detach"
    /\ DetachDelete
    /\ QueryOver
    /\ sweep' = "done"
    /\ UNCHANGED <<nodeVars, exec, missing, dryRun, scanned, retries, loopUsed>>

(* A transient error of either query, before or after it was committed. *)
TransientError ==
    /\ Faulty
    /\ \/ sweep \in {"scan", "match"} /\ UNCHANGED <<entityVars, doomed, crossed>>
       \/ sweep = "detach" /\ QueryOver /\ (DetachDelete \/ UNCHANGED entityVars)
    /\ sweep' = "retry"
    /\ loopUsed' = TRUE
    /\ UNCHANGED <<nodeVars, exec, missing, dryRun, scanned, retries>>

(* Any other error ends the task: a Neo4j error that is not transient, or the
   RuntimeError of a cached driver bound to the loop of an earlier asyncio.run. *)
OtherError ==
    /\ Faulty \/ (sweep = "scan" /\ loopUsed)
    /\ \/ sweep \in {"scan", "match"} /\ UNCHANGED <<entityVars, doomed, crossed>>
       \/ sweep = "detach" /\ QueryOver /\ (DetachDelete \/ UNCHANGED entityVars)
    /\ sweep' = "failed"
    /\ UNCHANGED <<nodeVars, exec, missing, dryRun, scanned, retries, loopUsed>>

MayRetry == retries < MaxRetries

(* self.retry after 30 * 2^retries seconds. *)
MutantRetry ==
    /\ sweep = "retry"
    /\ sweep' = "scan"
    /\ UNCHANGED <<graphVars, dryRun, scanned, doomed, retries, loopUsed, crossed>>

Retry ==
    /\ sweep = "retry"
    /\ MayRetry
    /\ retries' = retries + 1
    /\ sweep' = "scan"
    /\ UNCHANGED <<graphVars, dryRun, scanned, doomed, loopUsed, crossed>>

GiveUp ==
    /\ sweep = "retry"
    /\ ~MayRetry
    /\ sweep' = "failed"
    /\ UNCHANGED <<graphVars, dryRun, scanned, doomed, retries, loopUsed, crossed>>

SweepStep ==
    \/ Scan \/ MatchOrphans \/ DeleteOrphans
    \/ TransientError \/ OtherError \/ Retry \/ GiveUp

(* Nothing more will happen. *)
Rest ==
    /\ ExecutionsOver
    /\ sweep \in SweepOver
    /\ Deletable \cap docNodes = {}
    /\ UNCHANGED vars

Next ==
    \/ GraphNext /\ UNCHANGED sweepVars
    \/ Sweep \/ SweepStep
    \/ Rest

Spec == Init /\ [][Next]_vars

(* A worker that started the task, or holds its retry, carries on with it. *)
FairSpec == Spec /\ WF_vars(SweepStep)

-----------------------------------------------------------------------------
(* An execution that ended without an error has left every mention and every
   relation extracted from its surviving chunks in the graph: the later
   statements MATCH what the earlier ones wrote and quietly skip what they do
   not find.  It keeps them whatever is ingested, deleted or swept afterwards;
   only one that ran while a sweep's query was at work may lose some, and a dry
   run takes nothing from anybody. *)
DoneIsComplete ==
    \A x \in Execution : exec[x] = "done" /\ (dryRun \/ x \notin crossed) =>
        \A c \in Present(x) :
            /\ \A n \in NamesIn[c] : Mentioned(c, KeyOf(x, n))
            /\ \A r \in PairsIn[c] : Related(KeyOf(x, r[1]), KeyOf(x, r[2]))

(* However often Neo4j is unavailable, a task that started comes to an end. *)
SweepEnds == sweep # "idle" ~> sweep \in SweepOver
=============================================================================
