------------------------------- MODULE Upload -------------------------------
(***************************************************************************)
(* POST /v1/upload (app/api/upload.py).  The whole request is one Postgres *)
(* transaction: the job and every accepted document are flushed inside it  *)
(* and committed together, the uploaded bytes are written to disk before   *)
(* the commit and the ingest messages are sent after it.                   *)
(***************************************************************************)
EXTENDS Stores

CONSTANTS
    FilesOf,    \* the files of each request, in order
    MaxFiles    \* settings.upload_max_files_per_request

(* A file whose extension, emptiness or size makes the handler reject it. *)
BadFile == "bad file"

ASSUME FilesAssumption ==
    /\ BadFile \notin Key
    /\ FilesOf \in [Request -> Seq(Key \union {BadFile})]
    /\ MaxFiles \in Nat

VARIABLES
    up,         \* program counter of each upload request
    next,       \* the file, then the message, the handler is at
    accepted,   \* documents of `accepted_files`, in order
    dups        \* positions rejected as duplicates

upVars == <<up, next, accepted, dups>>

UploadPC == {"idle", "scan", "insert", "write", "send",
             "refused", "error", "crashed", "done"}
UploadOver == {"refused", "error", "crashed", "done"}

UploadTypeOK ==
    /\ up \in [Request -> UploadPC]
    /\ next \in [Request -> Nat \ {0}]
    /\ accepted \in [Request -> Seq(Doc)]
    /\ dups \in [Request -> SUBSET Nat]

UploadInit ==
    /\ up = [r \in Request |-> "idle"]
    /\ next = [r \in Request |-> 1]
    /\ accepted = [r \in Request |-> << >>]
    /\ dups = [r \in Request |-> {}]

File(r) == FilesOf[r][next[r]]
Staged(r) == {d \in Doc : jobOf[d] = r /\ row[d] = "staged"}
Last(r) == accepted[r][Len(accepted[r])]

(* Definitions named `Mutant...` are not part of the model: each is a wrong
   version of the definition that follows it, and shows that a property would
   notice the mistake. *)

(* What the SELECT of the handler finds: committed rows and its own inserts. *)
MutantExisting(r, k) == Holders(k)
Existing(r, k) == {d \in Holders(k) : Live(d) \/ jobOf[d] = r}

(***************************************************************************)
(* The unique constraint.  An INSERT waits while another transaction holds *)
(* the key uncommitted and raises IntegrityError when the key is taken.    *)
(***************************************************************************)
MutantTaken(r, k) == FALSE
Taken(r, k) == \E d \in Holders(k) : Live(d) \/ jobOf[d] = r

Blocked(r, s) ==
    /\ up[r] = "insert"
    /\ s # r
    /\ \E d \in Holders(File(r)) : row[d] = "staged" /\ jobOf[d] = s

AnyBlocks(r) == \E s \in Request : Blocked(r, s)

(* r is on a cycle of transactions that wait for one another. *)
Deadlocked(r) ==
    \E S \in SUBSET Request :
        /\ r \in S
        /\ \A s \in S : /\ \E t \in S : Blocked(s, t)
                        /\ \E t \in S : Blocked(t, s)

(* The session is closed without a commit; files already written stay. *)
MutantRollback(r) == row' = row
Rollback(r) ==
    row' = [d \in Doc |-> IF d \in Staged(r) THEN "rolledback" ELSE row[d]]

MutantRowsVisible(r) == row' = row
RowsVisible(r) ==
    row' = [d \in Doc |-> IF d \in Staged(r) THEN "committed" ELSE row[d]]

MutantAbort(r) ==
    /\ Rollback(r)
    /\ up' = [up EXCEPT ![r] = "scan"]
    /\ next' = [next EXCEPT ![r] = @ + 1]
    /\ UNCHANGED <<keyOf, jobOf, status, jobs, queue, runs, indexVars,
                   accepted, dups>>
Abort(r) ==
    /\ Rollback(r)
    /\ up' = [up EXCEPT ![r] = "error"]
    /\ UNCHANGED <<keyOf, jobOf, status, jobs, queue, runs, indexVars,
                   next, accepted, dups>>

-----------------------------------------------------------------------------
(* The request arrives: 413, or a job is flushed and the loop begins. *)
Begin(r) ==
    /\ up[r] = "idle"
    /\ up' = [up EXCEPT ![r] = IF Len(FilesOf[r]) > MaxFiles THEN "refused"
                               ELSE "scan"]
    /\ UNCHANGED <<storeVars, next, accepted, dups>>

Scanning(r) == up[r] = "scan" /\ next[r] <= Len(FilesOf[r])

RejectFile(r) ==
    /\ Scanning(r)
    /\ File(r) = BadFile
    /\ next' = [next EXCEPT ![r] = @ + 1]
    /\ UNCHANGED <<storeVars, up, accepted, dups>>

RejectDuplicate(r) ==
    /\ Scanning(r)
    /\ File(r) \in Key
    /\ Existing(r, File(r)) # {}
    /\ next' = [next EXCEPT ![r] = @ + 1]
    /\ dups' = [dups EXCEPT ![r] = @ \union {next[r]}]
    /\ UNCHANGED <<storeVars, up, accepted>>

SelectNone(r) ==
    /\ Scanning(r)
    /\ File(r) \in Key
    /\ Existing(r, File(r)) = {}
    /\ up' = [up EXCEPT ![r] = "insert"]
    /\ UNCHANGED <<storeVars, next, accepted, dups>>

InsertDocument(r) ==
    /\ up[r] = "insert"
    /\ ~AnyBlocks(r)
    /\ ~Taken(r, File(r))
    /\ \E d \in Doc :
          /\ row[d] = "fresh"
          /\ row' = [row EXCEPT ![d] = "staged"]
          /\ keyOf' = [keyOf EXCEPT ![d] = File(r)]
          /\ jobOf' = [jobOf EXCEPT ![d] = r]
          /\ accepted' = [accepted EXCEPT ![r] = Append(@, d)]
    /\ up' = [up EXCEPT ![r] = "write"]
    /\ UNCHANGED <<status, jobs, files, queue, runs, indexVars, next, dups>>

(* The unhandled IntegrityError answers 500 and loses the whole request. *)
InsertConflict(r) ==
    /\ up[r] = "insert"
    /\ ~AnyBlocks(r)
    /\ Taken(r, File(r))
    /\ Abort(r)
    /\ UNCHANGED files

(* Postgres' deadlock detector cancels one transaction of the cycle. *)
InsertDeadlock(r) ==
    /\ Deadlocked(r)
    /\ Abort(r)
    /\ UNCHANGED files

MutantWritten(r) == files
Written(r) == files \union {Last(r)}

WriteFile(r) ==
    /\ up[r] = "write"
    /\ files' = Written(r)
    /\ up' = [up EXCEPT ![r] = "scan"]
    /\ next' = [next EXCEPT ![r] = @ + 1]
    /\ UNCHANGED <<pgVars, queue, runs, indexVars, accepted, dups>>

WriteFileFails(r) ==
    /\ up[r] = "write"
    /\ May("fs")
    /\ files' \in {files, Written(r)}
    /\ Abort(r)

AllScanned(r) == up[r] = "scan" /\ next[r] > Len(FilesOf[r])

CommitWrites(r) ==
    /\ RowsVisible(r)
    /\ jobs' = [jobs EXCEPT ![r] = NewJobRow]

Commit(r) ==
    /\ AllScanned(r)
    /\ CommitWrites(r)
    /\ up' = [up EXCEPT ![r] = "send"]
    /\ next' = [next EXCEPT ![r] = 1]
    /\ UNCHANGED <<keyOf, jobOf, status, files, queue, runs, indexVars,
                   accepted, dups>>

(* COMMIT raises: nothing was committed, or only the answer was lost. *)
CommitFails(r) ==
    /\ AllScanned(r)
    /\ May("pg")
    /\ \/ Abort(r)
       \/ /\ CommitWrites(r)
          /\ up' = [up EXCEPT ![r] = "error"]
          /\ UNCHANGED <<keyOf, jobOf, status, queue, runs, indexVars,
                         next, accepted, dups>>
    /\ UNCHANGED files

(* Any other statement of the open transaction raises. *)
StatementFails(r) ==
    /\ May("pg")
    /\ Scanning(r) \/ (up[r] = "insert" /\ ~AnyBlocks(r))
    /\ Abort(r)
    /\ UNCHANGED files

Sending(r) == up[r] = "send" /\ next[r] <= Len(accepted[r])
Publish(d) == queue' = [queue EXCEPT ![d] = @ + 1]

SendTask(r) ==
    /\ Sending(r)
    /\ Publish(accepted[r][next[r]])
    /\ next' = [next EXCEPT ![r] = @ + 1]
    /\ UNCHANGED <<pgVars, files, runs, indexVars, up, accepted, dups>>

(* send_task raises: 500, and no later message of the request is sent. *)
SendTaskFails(r) ==
    /\ Sending(r)
    /\ May("broker")
    /\ Publish(accepted[r][next[r]]) \/ queue' = queue
    /\ up' = [up EXCEPT ![r] = "error"]
    /\ UNCHANGED <<pgVars, files, runs, indexVars, next, accepted, dups>>

MutantAllSent(r) == next[r] >= Len(accepted[r])
AllSent(r) == next[r] > Len(accepted[r])

Respond(r) ==
    /\ up[r] = "send"
    /\ AllSent(r)
    /\ up' = [up EXCEPT ![r] = "done"]
    /\ UNCHANGED <<storeVars, next, accepted, dups>>

(* The API process dies; Postgres rolls the open transaction back. *)
UploadCrash(r) ==
    /\ May("crash")
    /\ up[r] \notin UploadOver \union {"idle"}
    /\ Rollback(r)
    /\ up' = [up EXCEPT ![r] = "crashed"]
    /\ UNCHANGED <<keyOf, jobOf, status, jobs, files, queue, runs, indexVars,
                   next, accepted, dups>>

UploadStep(r) ==
    \/ RejectFile(r) \/ RejectDuplicate(r) \/ SelectNone(r)
    \/ InsertDocument(r) \/ InsertConflict(r) \/ InsertDeadlock(r)
    \/ WriteFile(r) \/ WriteFileFails(r)
    \/ Commit(r) \/ CommitFails(r) \/ StatementFails(r)
    \/ SendTask(r) \/ SendTaskFails(r) \/ Respond(r)

UploadNext == \E r \in Request : Begin(r) \/ UploadStep(r) \/ UploadCrash(r)
=============================================================================
