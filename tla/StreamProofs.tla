----------------------------- MODULE StreamProofs -----------------------------
(***************************************************************************)
(* What a stream tells about the job of a single document is in order and  *)
(* true, for any number of streams, workers, uploads and delete requests.  *)
(***************************************************************************)
EXTENDS JobStream, DocumentProofs

(***************************************************************************)
(* The inductive invariant, on top of DocInv.                              *)
(***************************************************************************)

(* A job row is there from the commit on, after which its request inserts no
   document any more. *)
JobsCommitted ==
    /\ \A r \in Request : jobs[r].status # "none" =>
          up[r] \in {"send", "done", "error", "crashed"}
    /\ \A d \in Doc : Committed(d) =>
          jobOf[d] \in Request /\ jobs[jobOf[d]].status # "none"

FreshUnowned == \A d \in Doc : row[d] = "fresh" => jobOf[d] = NoRequest
DeletedTouched == \A d \in Doc : row[d] = "deleted" => Touched(d)

(* The job of a single document says where its only execution is. *)
Job(d) == jobs[jobOf[d]]
Unstarted(p) == p.status = "pending" /\ p.progress = 0
JobMirrors(d) ==
    /\ runs[d] = 0 => Unstarted(Job(d))
    /\ \A w \in Worker : Task(w) = d =>
          /\ At(w, "begin") => Unstarted(Job(d))
          /\ slot[w].pc \in {"ocr", "points", "document", "chunks", "complete"} =>
                Job(d).status = "running" /\ Job(d).progress = 0
    /\ ~May("pg") /\ Job(d).progress = 1 =>
          /\ Job(d).status = "completed"
          /\ \A w \in Worker : Task(w) # d
          /\ Live(d) => status[d] = "completed"
SoleJobs ==
    MaxRedelivery = 0 => \A d \in Doc : Committed(d) /\ Sole(d) => JobMirrors(d)

(* A request that lost its rows never gets a job, and a completed job is at 100%. *)
RolledBack ==
    \A d \in Doc : row[d] = "rolledback" =>
        up[jobOf[d]] \in {"error", "crashed"} /\ jobs[jobOf[d]].status = "none"
Finished(p) == p.status = "completed" => p.progress = 1
JobsFinish == \A r \in Request : Finished(jobs[r])

JobInv == /\ JobsCommitted /\ FreshUnowned /\ DeletedTouched /\ SoleJobs
          /\ RolledBack /\ JobsFinish

(* Rows are read in order, and each event carries a row that was read. *)
Readable(p) == p.status # "none" /\ Finished(p)
AtMost(p, q) == Rank[p.status] <= Rank[q.status] /\ p.progress <= q.progress
Event == {"progress", "done"} \X JobRow
StreamState ==
    [pc : {"idle", "emit", "sleep", "closed", "broken"}, job : Request \union {NoRequest},
     current : JobRow, last : JobRow, elapsed : Nat, events : Seq(Event)]
StreamRows(s) ==
    IF In(s, "idle")
    THEN stream[s].job = NoRequest /\ stream[s].events = << >>
    ELSE /\ stream[s].job \in Request
         /\ jobs[stream[s].job].status # "none"
         /\ Readable(stream[s].current)
         /\ \A i \in 1..Len(stream[s].events) : Readable(stream[s].events[i][2])
StreamOrder(s) ==
    LET ev == stream[s].events
    IN  /\ \A i, j \in 1..Len(ev) : i < j => AtMost(ev[i][2], ev[j][2])
        /\ \A i \in 1..Len(ev) : AtMost(ev[i][2], stream[s].current)
        /\ AtMost(stream[s].current, jobs[stream[s].job])
StreamInv ==
    /\ stream \in [Stream -> StreamState]
    /\ \A s \in Stream : StreamRows(s)
    /\ MaxRedelivery = 0 =>
          \A s \in Stream, d \in Doc :
              ~In(s, "idle") /\ jobOf[d] = stream[s].job /\ Sole(d) => StreamOrder(s)

SInv == DocInv /\ JobInv /\ StreamInv

-----------------------------------------------------------------------------
(* The order of the statuses. *)
LEMMA RankIs ==
    /\ Rank["pending"] = 0 /\ Rank["running"] = 1
    /\ Rank["completed"] = 2 /\ Rank["failed"] = 2
BY DEF Rank

-----------------------------------------------------------------------------
(***************************************************************************)
(* Jobs.                                                                   *)
(***************************************************************************)

(* Initially there is no job. *)
LEMMA InitJobInv == Init => JobInv
BY DEF Init, StoresInit, NoJobRow, JobInv, JobsCommitted, FreshUnowned, DeletedTouched,
       SoleJobs, Committed, RolledBack, JobsFinish, Finished

(* The only job of a document that a request shares with no other row was
   always its own. *)
LEMMA SoleBefore ==
    ASSUME IInv, RowsOwned, FreshUnowned, NEW r \in Request, Handles(r),
           NEW d \in Doc, row[d] # "fresh", Sole(d)'
    PROVE  Sole(d)
<1> SUFFICES ASSUME NEW e \in Doc, jobOf[e] = jobOf[d] PROVE e = d
  BY DEF Sole
<1>1. jobOf[d] \in Request /\ jobOf'[d] = jobOf[d]
  BY UploadStepRows DEF Handles, RowsOwned
<1>2. jobOf'[e] = jobOf[e]
  <2>1. row[e] # "fresh"
    BY <1>1, NoneAssumption DEF FreshUnowned
  <2> QED BY <2>1, UploadStepRows DEF Handles
<1> QED BY <1>1, <1>2 DEF Sole

(* The job row comes into view with the documents, and no other upload step
   writes one. *)
LEMMA UploadJobs ==
    ASSUME IInv, NEW r \in Request, Handles(r)
    PROVE  \/ jobs' = jobs /\ \A d \in Doc : Committed(d)' => Committed(d)
           \/ /\ AllScanned(r) /\ up'[r] \in {"send", "error"}
              /\ jobs' = [jobs EXCEPT ![r] = NewJobRow]
              /\ \A d \in Doc : Committed(d)' => Committed(d) \/ jobOf[d] = r
<1> USE DEF storeVars, pgVars, Committed, Staged
<1>1. CASE Commit(r) \/ (CommitFails(r) /\ CommitWrites(r))
  BY <1>1 DEF Commit, CommitFails, CommitWrites, RowsVisible, Abort, IInv, TypeOK, UploadTypeOK
<1>2. CASE InsertDocument(r)
  BY <1>2 DEF InsertDocument, IInv, TypeOK, StoresTypeOK
<1>3. CASE ~Commit(r) /\ ~(CommitFails(r) /\ CommitWrites(r)) /\ ~InsertDocument(r)
  <2>1. jobs' = jobs /\ (row' = row \/ Rollback(r))
    BY <1>3 DEF Handles, Begin, UploadStep, RejectFile, RejectDuplicate, SelectNone,
         InsertConflict, InsertDeadlock, WriteFile, WriteFileFails, CommitFails,
         StatementFails, SendTask, SendTaskFails, Respond, UploadCrash, Abort
  <2> QED BY <2>1 DEF Rollback
<1> QED BY <1>1, <1>2, <1>3

(* Uploads keep what is known of jobs. *)
LEMMA UploadKeepsJobs ==
    ASSUME DocInv, JobInv, NEW r \in Request, Handles(r), UNCHANGED <<slot, del>>
    PROVE  JobInv'
<1> USE DEF DocInv, UploadSide, JobInv
<1>1. ASSUME NEW d \in Doc
      PROVE  /\ row[d] # "fresh" => row'[d] # "fresh" /\ jobOf'[d] = jobOf[d]
             /\ row'[d] = "fresh" => jobOf'[d] = jobOf[d] /\ row[d] = "fresh"
             /\ row'[d] = "deleted" => row[d] = "deleted"
             /\ Committed(d) => row'[d] = row[d]
  BY UploadStepRows DEF Handles, Committed
<1>2. FreshUnowned'
  BY <1>1 DEF FreshUnowned
<1>3. DeletedTouched'
  BY <1>1 DEF DeletedTouched, Touched, Target
<1>4. JobsCommitted'
  <2>1. ASSUME NEW q \in Request, jobs'[q].status # "none"
        PROVE  up'[q] \in {"send", "done", "error", "crashed"}
    <3>1. CASE q # r
      <4>1. jobs'[q] = jobs[q]
        BY <3>1, UploadJobs DEF IInv, TypeOK, StoresTypeOK
      <4> QED BY <2>1, <3>1, <4>1, UploadOthers DEF JobsCommitted
    <3>2. CASE q = r
      <4>1. CASE jobs' = jobs
        <5>1. up[r] = "send"
          BY <2>1, <3>2, <4>1, UploadCourse DEF JobsCommitted, Handles, UploadStep,
             Begin, RejectFile, RejectDuplicate, SelectNone, InsertDocument,
             InsertConflict, InsertDeadlock, WriteFile, WriteFileFails, Commit,
             CommitFails, StatementFails, SendTask, SendTaskFails, Respond,
             UploadCrash, Scanning, AllScanned, Deadlocked, Blocked, UploadOver, Sending
        <5> QED BY <3>2, <5>1 DEF Handles, UploadStep, Begin, RejectFile, RejectDuplicate,
             SelectNone, InsertDocument, InsertConflict, InsertDeadlock, WriteFile,
             WriteFileFails, Commit, CommitFails, StatementFails, SendTask,
             SendTaskFails, Respond, UploadCrash, Scanning, AllScanned, Abort,
             IInv, TypeOK, UploadTypeOK
      <4>2. CASE jobs' # jobs
        BY <3>2, <4>2, UploadJobs
      <4> QED BY <4>1, <4>2
    <3> QED BY <3>1, <3>2
  <2>2. ASSUME NEW d \in Doc, Committed(d)'
        PROVE  jobOf'[d] \in Request /\ jobs'[jobOf'[d]].status # "none"
    <3>1. row[d] # "fresh" /\ jobOf[d] \in Request /\ jobOf'[d] = jobOf[d]
      <4>1. row[d] # "fresh"
        BY <2>2, UploadStepRows DEF Handles, Committed
      <4> QED BY <1>1, <4>1 DEF RowsOwned
    <3>2. NewJobRow.status # "none"
      BY DEF NewJobRow
    <3> QED BY <2>2, <3>1, <3>2, UploadJobs DEF JobsCommitted, IInv, TypeOK, StoresTypeOK
  <2> QED BY <2>1, <2>2 DEF JobsCommitted
<1>5. SoleJobs'
  <2> SUFFICES ASSUME MaxRedelivery = 0, NEW d \in Doc, Committed(d)', Sole(d)'
               PROVE  JobMirrors(d)'
    BY DEF SoleJobs
  <2>1. UNCHANGED <<runs, status>>
    BY UploadEffects
  <2>2. row[d] # "fresh" /\ jobOf'[d] = jobOf[d] /\ jobOf[d] \in Request
    <3>1. row[d] # "fresh"
      BY UploadStepRows DEF Handles, Committed
    <3> QED BY <1>1, <3>1 DEF RowsOwned
  <2>3. CASE Committed(d)
    <3>1. Sole(d)
      BY <2>2, SoleBefore
    <3>2. JobMirrors(d)
      BY <2>3, <3>1 DEF SoleJobs
    <3>3. ~AllScanned(r) \/ jobOf[d] # r
      <4>1. up[jobOf[d]] \in {"send", "done", "error", "crashed"}
        BY <2>3 DEF JobsCommitted
      <4> QED BY <4>1 DEF AllScanned
    <3>4. jobs'[jobOf[d]] = jobs[jobOf[d]]
      BY <2>2, <3>3, UploadJobs DEF IInv, TypeOK, StoresTypeOK
    <3>5. row'[d] = row[d]
      BY <1>1, <2>3
    <3> QED BY <2>1, <2>2, <3>2, <3>4, <3>5 DEF JobMirrors, Job, At, Task, Live
  <2>4. CASE ~Committed(d)
    <3>1. jobs'[jobOf[d]] = NewJobRow
      BY <2>2, <2>4, UploadJobs DEF IInv, TypeOK, StoresTypeOK
    <3>2. runs[d] = 0 /\ \A w \in Worker : ~At(w, "idle") => Task(w) # d
      BY <2>4 DEF IInv, NoWorkBeforeCommit, SlotInv, Committed, TypeOK, StoresTypeOK
    <3> QED BY <2>1, <2>2, <3>1, <3>2 DEF JobMirrors, Job, Unstarted, NewJobRow, At, Task
  <2> QED BY <2>3, <2>4
<1>6. RolledBack'
  <2> SUFFICES ASSUME NEW d \in Doc, row'[d] = "rolledback"
               PROVE  /\ up'[jobOf'[d]] \in {"error", "crashed"}
                      /\ jobs'[jobOf'[d]].status = "none"
    BY DEF RolledBack
  <2>1. CASE row[d] = "rolledback"
    <3>1. jobOf[d] \in Request /\ jobOf'[d] = jobOf[d] /\ jobOf[d] # r
      BY <1>1, <2>1, UploadCourse DEF RowsOwned, RolledBack
    <3>2. up'[jobOf[d]] = up[jobOf[d]] /\ jobs'[jobOf[d]] = jobs[jobOf[d]]
      BY <3>1, UploadOthers, UploadJobs DEF IInv, TypeOK, StoresTypeOK
    <3> QED BY <2>1, <3>1, <3>2 DEF RolledBack
  <2>2. CASE row[d] # "rolledback"
    <3>1. row[d] = "staged" /\ jobOf[d] = r /\ jobOf'[d] = r
      BY <2>2, UploadStepRows DEF Handles
    <3>2. InTransaction(r)
      BY <3>1 DEF RowsOwned
    <3>3. Rollback(r) /\ up'[r] \in {"error", "crashed"} /\ jobs' = jobs
      BY <2>2, <3>1 DEF Handles, Begin, UploadStep, RejectFile, RejectDuplicate, SelectNone,
         InsertDocument, InsertConflict, InsertDeadlock, WriteFile, WriteFileFails, Commit,
         CommitFails, CommitWrites, RowsVisible, Staged, StatementFails, SendTask,
         SendTaskFails, Respond, UploadCrash, Abort, storeVars, pgVars,
         IInv, TypeOK, StoresTypeOK, UploadTypeOK
    <3>4. jobs[r].status = "none"
      BY <3>2 DEF InTransaction, JobsCommitted
    <3> QED BY <3>1, <3>3, <3>4
  <2> QED BY <2>1, <2>2
<1>7. JobsFinish'
  BY UploadJobs DEF JobsFinish, Finished, NewJobRow, IInv, TypeOK, StoresTypeOK
<1> QED BY <1>2, <1>3, <1>4, <1>5, <1>6, <1>7

(* Deletions leave jobs alone. *)
LEMMA DeletionKeepsJobs ==
    ASSUME DocInv, JobInv, DeletionNext, UNCHANGED <<upVars, slot>>
    PROVE  JobInv'
<1> USE DEF DocInv, UploadSide, JobInv
<1>1. UNCHANGED <<up, jobOf, jobs, status, runs, slot>>
  BY DeletionStepFrame DEF upVars
<1>2. Calm
  BY DeletionIsCalm
<1>3. \A d \in Doc : /\ row'[d] = row[d] \/ (row'[d] = "deleted" /\ Touched(d)' /\ Committed(d))
                     /\ Touched(d) => Touched(d)'
  BY <1>2 DEF Calm
<1>4. JobsCommitted' /\ FreshUnowned' /\ DeletedTouched'
  BY <1>1, <1>3 DEF JobsCommitted, FreshUnowned, DeletedTouched, Committed
<1>5. SoleJobs'
  BY <1>1, <1>3 DEF SoleJobs, JobMirrors, Job, Sole, At, Task, Live, Committed
<1>6. RolledBack' /\ JobsFinish'
  BY <1>1, <1>3 DEF RolledBack, JobsFinish
<1> QED BY <1>4, <1>5, <1>6

Middle == {"ocr", "points", "document", "chunks", "complete"}

(* What one status update writes. *)
LEMMA SetStatusEffect ==
    ASSUME IInv, NEW t \in Doc, jobOf[t] \in Request, NEW s, SetStatus(t, s)
    PROVE  /\ Job(t).progress \in {0, 1}
           /\ jobs'[jobOf[t]].status = s
           /\ jobs'[jobOf[t]].progress = Progress(s, Job(t).progress)
           /\ jobs'[jobOf[t]].error = Blame(s, Job(t).error)
           /\ \A q \in Request : q # jobOf[t] => jobs'[q] = jobs[q]
           /\ Live(t) => status'[t] = s
           /\ \A e \in Doc : e # t => status'[e] = status[e]
<1> DEFINE new == [status |-> s, progress |-> Progress(s, jobs[jobOf[t]].progress),
                   error |-> Blame(s, jobs[jobOf[t]].error)]
<1>1. jobs \in [Request -> JobRow] /\ status \in [Doc -> DocStatus]
  BY DEF IInv, TypeOK, StoresTypeOK
<1>2. jobs' = [jobs EXCEPT ![jobOf[t]] = new]
  BY DEF SetStatus
<1>3. /\ new.status = s /\ new.progress = Progress(s, Job(t).progress)
      /\ new.error = Blame(s, Job(t).error)
  BY DEF Job
<1> HIDE DEF new
<1>4. /\ jobs'[jobOf[t]] = new
      /\ \A q \in Request : q # jobOf[t] => jobs'[q] = jobs[q]
  BY <1>1, <1>2
<1>5. Job(t).progress \in {0, 1}
  BY <1>1 DEF Job, JobRow
<1>6. /\ Live(t) => status'[t] = s
      /\ \A e \in Doc : e # t => status'[e] = status[e]
  BY <1>1 DEF SetStatus, DocumentUpdate
<1> QED BY <1>3, <1>4, <1>5, <1>6

(* A worker writes a job where it begins, ends or fails, and then moves; and
   it gets to work only through the first of these. *)
LEMMA WorkerWrites ==
    ASSUME IInv, WorkerNext
    PROVE  \/ /\ UNCHANGED <<status, jobs>>
              /\ \A v \in Worker :
                    \/ slot'[v] = slot[v]
                    \/ \E d \in Doc : Take(v, d)
                    \/ slot'[v] = IdleSlot
                    \/ slot'[v].pc = "fail" /\ ~At(v, "idle") /\ slot'[v].doc = slot[v].doc
                    \/ /\ slot[v].pc \in Middle /\ slot'[v].pc \in Middle
                       /\ slot'[v].doc = slot[v].doc
           \/ \E w \in Worker, s \in DocStatus :
              /\ SetStatus(Task(w), s) /\ ~At(w, "idle") /\ UNCHANGED <<queue, runs>>
              /\ \A v \in Worker : v # w => slot'[v] = slot[v]
              /\ \/ /\ At(w, "begin") /\ s = "running"
                    /\ slot'[w].pc \in {"ocr", "fail"} /\ slot'[w].doc = slot[w].doc
                 \/ /\ At(w, "complete") /\ s = "completed"
                    /\ \/ slot'[w] = IdleSlot
                       \/ May("pg") /\ slot'[w].pc = "fail" /\ slot'[w].doc = slot[w].doc
                 \/ At(w, "fail") /\ s = "failed" /\ slot'[w] = IdleSlot
<1>0. \A w \in Worker : /\ \A pc : Goto(w, pc) => slot'[w].pc = pc /\ slot'[w].doc = slot[w].doc
                        /\ Release(w) => slot'[w] = IdleSlot
  BY DEF Goto, Release, IInv, TypeOK, WorkerTypeOK, Slot
<1>1. ASSUME NEW w \in Worker, NEW d \in Doc, Take(w, d)
      PROVE  /\ UNCHANGED <<status, jobs>>
             /\ \A v \in Worker : v = w \/ slot'[v] = slot[v]
  BY <1>1, TakeEffect DEF pgVars
<1>2. ASSUME NEW d \in Doc, Redeliver(d)
      PROVE  UNCHANGED <<status, jobs, slot>>
  BY <1>2 DEF Redeliver, pgVars
<1>3. ASSUME NEW w \in Worker, WorkerStep(w) \/ WorkerCrash(w), \A d \in Doc : ~Take(w, d)
      PROVE  /\ \A v \in Worker : v # w => slot'[v] = slot[v]
             /\ ~At(w, "idle") /\ UNCHANGED <<queue, runs>>
             /\ \/ /\ UNCHANGED <<status, jobs>>
                   /\ \/ slot'[w] = IdleSlot
                      \/ slot'[w].pc = "fail" /\ slot'[w].doc = slot[w].doc
                      \/ /\ slot[w].pc \in Middle /\ slot'[w].pc \in Middle
                         /\ slot'[w].doc = slot[w].doc
                \/ \E s \in DocStatus :
                    /\ SetStatus(Task(w), s)
                    /\ \/ /\ At(w, "begin") /\ s = "running"
                          /\ slot'[w].pc \in {"ocr", "fail"} /\ slot'[w].doc = slot[w].doc
                       \/ /\ At(w, "complete") /\ s = "completed"
                          /\ \/ slot'[w] = IdleSlot
                             \/ May("pg") /\ slot'[w].pc = "fail" /\ slot'[w].doc = slot[w].doc
                       \/ At(w, "fail") /\ s = "failed" /\ slot'[w] = IdleSlot
  <2>1. /\ \A v \in Worker : v # w => slot'[v] = slot[v]
        /\ ~At(w, "idle") /\ UNCHANGED <<queue, runs>>
    BY <1>3, WorkerCourse
  <2>2. CASE SetRunning(w) \/ SetRunningFails(w)
    BY <1>0, <2>1, <2>2 DEF SetRunning, SetRunningFails, NothingSet, DocStatus
  <2>3. CASE SetCompleted(w) \/ SetCompletedFails(w)
    BY <1>0, <2>1, <2>3 DEF SetCompleted, SetCompletedFails, NothingSet, DocStatus
  <2>4. CASE SetFailed(w) \/ SetFailedFails(w)
    BY <1>0, <2>1, <2>4 DEF SetFailed, SetFailedFails, RecordFailure, FailureStatus, DocStatus,
                  storeVars, pgVars
  <2>5. CASE ~(\/ SetRunning(w) \/ SetRunningFails(w) \/ SetCompleted(w)
               \/ SetCompletedFails(w) \/ SetFailed(w) \/ SetFailedFails(w))
    <3>1. /\ UNCHANGED <<status, jobs>>
          /\ \/ Release(w) \/ Goto(w, "fail")
             \/ slot[w].pc \in Middle /\ \E pc \in Middle : Goto(w, pc)
      BY <1>3, <2>5 DEF WorkerStep, Extract, AfterOcr, UpsertPoints, UpsertPointsFails,
         MergeDocument, MergeDocumentFails, MergeChunks, MergeChunksFails, WorkerCrash,
         OnStoreError, At, Middle, storeVars, pgVars
    <3> QED BY <1>0, <2>1, <3>1
  <2> QED BY <2>1, <2>2, <2>3, <2>4, <2>5
<1>4. CASE \E w \in Worker, d \in Doc : Take(w, d)
  BY <1>1, <1>4
<1>5. CASE \E d \in Doc : Redeliver(d)
  BY <1>2, <1>5
<1>6. ASSUME NEW w \in Worker, WorkerStep(w) \/ WorkerCrash(w), \A d \in Doc : ~Take(w, d)
      PROVE  \/ /\ UNCHANGED <<status, jobs>>
                /\ \A v \in Worker :
                      \/ slot'[v] = slot[v]
                      \/ slot'[v] = IdleSlot
                      \/ slot'[v].pc = "fail" /\ ~At(v, "idle") /\ slot'[v].doc = slot[v].doc
                      \/ /\ slot[v].pc \in Middle /\ slot'[v].pc \in Middle
                         /\ slot'[v].doc = slot[v].doc
             \/ \E s \in DocStatus :
                /\ SetStatus(Task(w), s) /\ ~At(w, "idle") /\ UNCHANGED <<queue, runs>>
                /\ \A v \in Worker : v # w => slot'[v] = slot[v]
                /\ \/ /\ At(w, "begin") /\ s = "running"
                      /\ slot'[w].pc \in {"ocr", "fail"} /\ slot'[w].doc = slot[w].doc
                   \/ /\ At(w, "complete") /\ s = "completed"
                      /\ \/ slot'[w] = IdleSlot
                         \/ May("pg") /\ slot'[w].pc = "fail" /\ slot'[w].doc = slot[w].doc
                   \/ At(w, "fail") /\ s = "failed" /\ slot'[w] = IdleSlot
  BY <1>3, <1>6
<1> QED BY <1>4, <1>5, <1>6 DEF WorkerNext, WorkerStep

(* A worker keeps the job of a single document in step with its execution and
   moves it forward only. *)
LEMMA WorkerKeepsMirror ==
    ASSUME DocInv, JobInv, WorkerNext, MaxRedelivery = 0,
           NEW d \in Doc, Committed(d), Sole(d)
    PROVE  JobMirrors(d)' /\ AtMost(Job(d), jobs'[jobOf[d]])
<1> USE DEF DocInv, WorkSide, JobInv
<1>1. /\ JobMirrors(d) /\ jobOf[d] \in Request
      /\ Job(d).status \in DocStatus /\ Job(d).progress \in {0, 1}
  BY DEF SoleJobs, JobsCommitted, Job, IInv, TypeOK, StoresTypeOK, JobRow
<1>2. UNCHANGED <<row, jobOf>>
  BY WorkerStepFrame
<1>3. runs'[d] = 0 => runs[d] = 0
  <2>1. runs[d] \in Nat /\ queue[d] \in Nat /\ runs \in [Doc -> Nat]
    BY DEF IInv, TypeOK, StoresTypeOK
  <2>2. ASSUME NEW w \in Worker, NEW e \in Doc, Take(w, e) PROVE runs'[d] = 0 => runs[d] = 0
    <3>1. runs' = [runs EXCEPT ![e] = runs[e] + 1]
      BY <2>2, TakeEffect
    <3> QED BY <2>1, <3>1
  <2>3. ASSUME NEW e \in Doc, Redeliver(e) PROVE runs' = runs
    BY <2>3 DEF Redeliver
  <2>4. ASSUME NEW w \in Worker, WorkerStep(w) \/ WorkerCrash(w), \A e \in Doc : ~Take(w, e)
        PROVE  runs' = runs
    BY <2>4, WorkerCourse
  <2> QED BY <2>2, <2>3, <2>4 DEF WorkerNext, WorkerStep
<1>4. AtMost(Job(d), Job(d))
  BY <1>1, RankIs DEF AtMost, DocStatus
<1>5. ASSUME NEW v \in Worker, Take(v, d)
      PROVE  runs[d] = 0 /\ Unstarted(Job(d)) /\ UNCHANGED jobs
  <2>1. queue[d] > 0 /\ UNCHANGED jobs
    BY <1>5, TakeEffect DEF pgVars
  <2>2. queue[d] + runs[d] <= 1 /\ queue[d] \in Nat /\ runs[d] \in Nat
    BY DEF OnceOnly, DeliveredOnce, IInv, TypeOK, StoresTypeOK
  <2> QED BY <1>1, <2>1, <2>2 DEF JobMirrors
<1>6. CASE /\ UNCHANGED <<status, jobs>>
           /\ \A v \in Worker :
                \/ slot'[v] = slot[v]
                \/ \E e \in Doc : Take(v, e)
                \/ slot'[v] = IdleSlot
                \/ slot'[v].pc = "fail" /\ ~At(v, "idle") /\ slot'[v].doc = slot[v].doc
                \/ /\ slot[v].pc \in Middle /\ slot'[v].pc \in Middle
                   /\ slot'[v].doc = slot[v].doc
  <2>1. Job(d)' = Job(d)
    BY <1>2, <1>6 DEF Job
  <2>2. ASSUME NEW v \in Worker, slot'[v].doc = d
        PROVE  \/ slot'[v] = slot[v]
               \/ Take(v, d) /\ slot'[v].pc = "begin"
               \/ slot[v].doc = d /\ slot'[v].pc = "fail"
               \/ slot[v].doc = d /\ slot[v].pc \in Middle /\ slot'[v].pc \in Middle
    <3>1. ASSUME NEW e \in Doc, Take(v, e) PROVE Take(v, d) /\ slot'[v].pc = "begin"
      BY <2>2, <3>1, TakeEffect
    <3>2. slot'[v] # IdleSlot
      BY <2>2, NoneAssumption DEF IdleSlot
    <3> QED BY <1>6, <2>2, <3>1, <3>2
  <2>3. ASSUME NEW v \in Worker, slot'[v].doc = d
        PROVE  /\ slot'[v].pc = "begin" => Unstarted(Job(d))
               /\ slot'[v].pc \in Middle => Job(d).status = "running" /\ Job(d).progress = 0
    BY <1>1, <1>5, <2>2, <2>3 DEF JobMirrors, At, Task, Middle
  <2>4. ASSUME ~May("pg"), Job(d).progress = 1, NEW v \in Worker PROVE slot'[v].doc # d
    BY <1>1, <1>5, <2>2, <2>4 DEF JobMirrors, Unstarted, Task
  <2>5. JobMirrors(d)'
    BY <1>1, <1>2, <1>3, <1>6, <2>1, <2>3, <2>4
       DEF JobMirrors, Unstarted, At, Task, Middle, Live
  <2> QED BY <1>4, <1>6, <2>5 DEF Job
<1>7. ASSUME NEW w \in Worker, NEW s \in DocStatus,
             SetStatus(Task(w), s), ~At(w, "idle"), UNCHANGED <<queue, runs>>,
             \A v \in Worker : v # w => slot'[v] = slot[v],
             \/ /\ At(w, "begin") /\ s = "running"
                /\ slot'[w].pc \in {"ocr", "fail"} /\ slot'[w].doc = slot[w].doc
             \/ /\ At(w, "complete") /\ s = "completed"
                /\ \/ slot'[w] = IdleSlot
                   \/ May("pg") /\ slot'[w].pc = "fail" /\ slot'[w].doc = slot[w].doc
             \/ At(w, "fail") /\ s = "failed" /\ slot'[w] = IdleSlot
      PROVE  JobMirrors(d)' /\ AtMost(Job(d), jobs'[jobOf[d]])
  <2> Task(w) \in Doc
    BY <1>7 DEF IInv, SlotInv
  <2> DeliveredOnce(Task(w))
    BY DEF OnceOnly
  <2>1. /\ Task(w) \in Doc /\ runs[Task(w)] = 1
        /\ \A v \in Worker : ~At(v, "idle") /\ Task(v) = Task(w) => v = w
    BY <1>7, OneExecution
  <2>2. jobOf[Task(w)] \in Request
    BY <2>1 DEF JobsCommitted, IInv, NoWorkBeforeCommit, Committed
  <2>3. /\ Job(Task(w)).progress \in {0, 1}
        /\ jobs'[jobOf[Task(w)]].status = s
        /\ jobs'[jobOf[Task(w)]].progress = Progress(s, Job(Task(w)).progress)
        /\ \A q \in Request : q # jobOf[Task(w)] => jobs'[q] = jobs[q]
        /\ Live(Task(w)) => status'[Task(w)] = s
        /\ \A e \in Doc : e # Task(w) => status'[e] = status[e]
    BY <1>7, <2>1, <2>2, SetStatusEffect
  <2>4. CASE Task(w) # d
    <3>1. jobOf[Task(w)] # jobOf[d]
      BY <2>1, <2>4 DEF Sole
    <3>2. jobs'[jobOf[d]] = jobs[jobOf[d]] /\ status'[d] = status[d]
      BY <1>1, <2>3, <2>4, <3>1
    <3>3. \A v \in Worker : slot'[v].doc = d => slot'[v] = slot[v]
      BY <1>7, <2>4, NoneAssumption DEF Task, IdleSlot
    <3>4. JobMirrors(d)'
      BY <1>1, <1>2, <1>7, <3>2, <3>3 DEF JobMirrors, Job, At, Task, Live
    <3> QED BY <1>4, <3>2, <3>4 DEF Job
  <2>5. CASE Task(w) = d
    <3>1. ASSUME NEW v \in Worker, slot'[v].doc = d PROVE v = w /\ slot'[w] # IdleSlot
      <4>1. v # w => slot[v].doc = d /\ slot[v].pc # "idle"
        BY <1>7, <3>1, NoneAssumption DEF IdleHasNone, At, Task
      <4>2. v = w
        BY <2>1, <2>5, <4>1 DEF At, Task
      <4> QED BY <3>1, <4>2, NoneAssumption DEF IdleSlot
    <3>2. CASE At(w, "begin")
      <4>1. s = "running" /\ slot'[w].pc \in {"ocr", "fail"} /\ Unstarted(Job(d))
        BY <1>1, <1>7, <2>5, <3>2 DEF At, JobMirrors
      <4>2. jobs'[jobOf[d]].status = "running" /\ jobs'[jobOf[d]].progress = 0
        BY <2>3, <2>5, <4>1 DEF Progress
      <4>3. JobMirrors(d)'
        BY <1>2, <1>7, <2>1, <2>5, <3>1, <4>1, <4>2 DEF JobMirrors, Job, At, Task
      <4> QED BY <4>1, <4>2, <4>3, RankIs DEF AtMost, Unstarted
    <3>3. CASE At(w, "complete")
      <4>1. /\ s = "completed"
            /\ slot'[w] = IdleSlot \/ (May("pg") /\ slot'[w].pc = "fail")
            /\ Job(d).status = "running" /\ Job(d).progress = 0
        BY <1>1, <1>7, <2>5, <3>3 DEF At, JobMirrors
      <4>2. jobs'[jobOf[d]].status = "completed" /\ jobs'[jobOf[d]].progress = 1
        BY <2>3, <2>5, <4>1 DEF Progress
      <4>3. Live(d) => status'[d] = "completed"
        BY <2>3, <2>5, <4>1
      <4>4. ASSUME NEW v \in Worker, slot'[v].doc = d
            PROVE  May("pg") /\ slot'[v].pc = "fail"
        BY <3>1, <4>1, <4>4
      <4>5. JobMirrors(d)'
        BY <1>2, <1>7, <2>1, <2>5, <4>2, <4>3, <4>4 DEF JobMirrors, Job, At, Task, Live
      <4> QED BY <4>1, <4>2, <4>5, RankIs DEF AtMost
    <3>4. CASE At(w, "fail")
      <4>1. s = "failed" /\ slot'[w] = IdleSlot
        BY <1>7, <3>4 DEF At
      <4>2. jobs'[jobOf[d]].status = "failed" /\ jobs'[jobOf[d]].progress = Job(d).progress
        BY <2>3, <2>5, <4>1 DEF Progress
      <4>3. \A v \in Worker : slot'[v].doc # d
        BY <3>1, <4>1
      <4>4. ~May("pg") => Job(d).progress # 1
        BY <1>1, <2>5 DEF JobMirrors
      <4>5. JobMirrors(d)'
        BY <1>2, <1>7, <2>1, <2>5, <4>2, <4>3, <4>4 DEF JobMirrors, Job, At, Task
      <4> QED BY <1>1, <4>2, <4>5, RankIs DEF AtMost, DocStatus
    <3> QED BY <1>7, <3>2, <3>3, <3>4
  <2> QED BY <2>4, <2>5
<1> QED BY <1>6, <1>7, WorkerWrites

(* Workers keep what is known of jobs. *)
LEMMA WorkerKeepsJobs ==
    ASSUME DocInv, JobInv, WorkerNext, UNCHANGED <<upVars, del>>
    PROVE  JobInv'
<1> USE DEF DocInv, JobInv
<1>1. UNCHANGED <<row, jobOf, up>>
  BY WorkerStepFrame DEF upVars
<1>2. FreshUnowned' /\ DeletedTouched'
  BY <1>1 DEF FreshUnowned, DeletedTouched, Touched, Target
<1>3. \A q \in Request : (jobs'[q].status = "none") <=> (jobs[q].status = "none")
  <2>1. CASE jobs' = jobs
    BY <2>1
  <2>2. CASE jobs' # jobs
    <3>1. PICK w \in Worker, s \in DocStatus : SetStatus(Task(w), s) /\ ~At(w, "idle")
      BY <2>2, WorkerWrites
    <3>2. Task(w) \in Doc /\ Committed(Task(w))
      BY <3>1 DEF IInv, SlotInv, NoWorkBeforeCommit, Committed
    <3>3. jobOf[Task(w)] \in Request /\ jobs[jobOf[Task(w)]].status # "none"
      BY <3>2 DEF JobsCommitted
    <3>4. /\ jobs'[jobOf[Task(w)]].status = s
          /\ \A q \in Request : q # jobOf[Task(w)] => jobs'[q] = jobs[q]
      BY <3>1, <3>2, <3>3, SetStatusEffect
    <3> QED BY <3>3, <3>4 DEF DocStatus
  <2> QED BY <2>1, <2>2
<1>4. JobsCommitted'
  BY <1>1, <1>3 DEF JobsCommitted, Committed
<1>5. SoleJobs'
  BY <1>1, WorkerKeepsMirror DEF SoleJobs, Sole, Committed
<1>6. RolledBack'
  <2>1. \A d \in Doc : row[d] = "rolledback" => jobOf[d] \in Request
    BY DEF UploadSide, RowsOwned
  <2> QED BY <1>1, <1>3, <2>1 DEF RolledBack
<1>7. JobsFinish'
  <2>1. CASE jobs' = jobs
    BY <2>1 DEF JobsFinish
  <2>2. CASE jobs' # jobs
    <3>1. PICK w \in Worker, s \in DocStatus : SetStatus(Task(w), s) /\ ~At(w, "idle")
      BY <2>2, WorkerWrites
    <3>2. Task(w) \in Doc /\ Committed(Task(w))
      BY <3>1 DEF IInv, SlotInv, NoWorkBeforeCommit, Committed
    <3>3. jobOf[Task(w)] \in Request
      BY <3>2 DEF JobsCommitted
    <3>4. /\ jobs'[jobOf[Task(w)]].status = s
          /\ jobs'[jobOf[Task(w)]].progress = Progress(s, Job(Task(w)).progress)
          /\ \A q \in Request : q # jobOf[Task(w)] => jobs'[q] = jobs[q]
      BY <3>1, <3>2, <3>3, SetStatusEffect
    <3>5. s = "completed" => Progress(s, Job(Task(w)).progress) = 1
      BY DEF Progress
    <3> QED BY <3>3, <3>4, <3>5 DEF JobsFinish, Finished
  <2> QED BY <2>1, <2>2
<1> QED BY <1>2, <1>4, <1>5, <1>6, <1>7

(* Every step of the system keeps what is known of jobs. *)
LEMMA NextJobInv == ASSUME DocInv, JobInv, [Next]_vars PROVE JobInv'
<1>1. CASE UploadNext /\ UNCHANGED <<slot, del>>
  <2>1. PICK r \in Request : Handles(r)
    BY <1>1 DEF UploadNext, Handles
  <2> QED BY <1>1, <2>1, UploadKeepsJobs
<1>2. CASE WorkerNext /\ UNCHANGED <<upVars, del>>
  BY <1>2, WorkerKeepsJobs
<1>3. CASE DeletionNext /\ UNCHANGED <<upVars, slot>>
  BY <1>3, DeletionKeepsJobs
<1>4. CASE UNCHANGED vars
  BY <1>4 DEF vars, storeVars, pgVars, upVars, JobInv, JobsCommitted, FreshUnowned,
     DeletedTouched, SoleJobs, RolledBack, JobsFinish, Finished, JobMirrors, Job, Sole, At, Task, Live, Committed, Touched, Target
<1> QED BY <1>1, <1>2, <1>3, <1>4 DEF Next, Rest

-----------------------------------------------------------------------------
(***************************************************************************)
(* Jobs of many documents.                                                 *)
(***************************************************************************)
Untouched(r) == \A e \in Doc : jobOf[e] = r => ~Touched(e)
Tells(d) ==
    /\ status[d] = "failed" => Job(d).error
    /\ Untouched(jobOf[d]) =>
          \E e \in Doc : jobOf[e] = jobOf[d] /\ status[e] = Job(d).status

LEMMA JobTellsAllIs == JobTellsAll <=> \A d \in Doc : Live(d) => Tells(d)
BY DEF JobTellsAll, Tells, Untouched, Job

(* A job starts as its documents do: pending. *)
LEMMA UploadKeepsTelling ==
    ASSUME DocInv, JobInv, JobTellsAll, NEW r \in Request, Handles(r), UNCHANGED <<slot, del>>
    PROVE  JobTellsAll'
<1> USE DEF DocInv, JobInv
<1> SUFFICES ASSUME NEW d \in Doc, Live(d)' PROVE Tells(d)'
  BY JobTellsAllIs DEF JobTellsAll, Tells, Untouched, Job
<1>1. UNCHANGED <<status, runs>>
  BY UploadEffects
<1>2. /\ row[d] # "fresh" /\ jobOf'[d] = jobOf[d] /\ jobOf[d] \in Request
      /\ Live(d) \/ row[d] = "staged"
  <2>1. row[d] # "fresh"
    BY UploadStepRows DEF Handles, Live
  <2> QED BY <2>1, UploadStepRows DEF Handles, Live, UploadSide, RowsOwned
<1>3. \A e \in Doc : jobOf[e] = jobOf[d] => jobOf'[e] = jobOf[e]
  <2> SUFFICES ASSUME NEW e \in Doc, jobOf[e] = jobOf[d] PROVE jobOf'[e] = jobOf[e]
    OBVIOUS
  <2>1. row[e] # "fresh"
    BY <1>2, NoneAssumption DEF FreshUnowned
  <2> QED BY <2>1, UploadStepRows DEF Handles
<1>4. CASE Live(d)
  <2>1. Tells(d)
    BY <1>4, JobTellsAllIs
  <2>2. up[jobOf[d]] \in {"send", "done", "error", "crashed"}
    BY <1>4 DEF JobsCommitted, Live, Committed
  <2>3. jobs'[jobOf[d]] = jobs[jobOf[d]]
    <3>1. ~(AllScanned(r) /\ jobOf[d] = r)
      BY <2>2 DEF AllScanned
    <3> QED BY <1>2, <3>1, UploadJobs DEF IInv, TypeOK, StoresTypeOK
  <2>4. Untouched(jobOf[d])' => Untouched(jobOf[d])
    BY <1>2, <1>3 DEF Untouched, Touched, Target
  <2> QED BY <1>1, <1>2, <1>3, <2>1, <2>3, <2>4 DEF Tells, Job
<1>5. CASE row[d] = "staged"
  <2>1. runs[d] = 0
    BY <1>5 DEF IInv, NoWorkBeforeCommit, TypeOK, StoresTypeOK
  <2>2. status[d] = "pending"
    BY <2>1 DEF WorkSide, StatusByRun
  <2>3. Committed(d)' /\ ~Committed(d)
    BY <1>5 DEF Live, Committed
  <2>4. jobs'[jobOf[d]] = NewJobRow
    BY <1>2, <2>3, UploadJobs DEF IInv, TypeOK, StoresTypeOK
  <2> QED BY <1>1, <1>2, <2>2, <2>4 DEF Tells, Job, NewJobRow
<1> QED BY <1>2, <1>4, <1>5

(* Of a job that many tasks write, the last one to write is one of its own. *)
LEMMA WorkerKeepsTelling ==
    ASSUME DocInv, JobInv, JobTellsAll, WorkerNext, UNCHANGED <<upVars, del>>
    PROVE  JobTellsAll'
<1> USE DEF DocInv, JobInv
<1> SUFFICES ASSUME NEW d \in Doc, Live(d)' PROVE Tells(d)'
  BY JobTellsAllIs DEF JobTellsAll, Tells, Untouched, Job
<1>1. UNCHANGED <<row, jobOf, del>>
  BY WorkerStepFrame
<1>2. Live(d) /\ Tells(d)
  BY <1>1, JobTellsAllIs DEF Live
<1>3. \A e \in Doc : Touched(e)' <=> Touched(e)
  BY <1>1 DEF Touched, Target
<1>4. CASE UNCHANGED <<status, jobs>>
  BY <1>1, <1>2, <1>3, <1>4 DEF Tells, Untouched, Job
<1>5. ASSUME NEW w \in Worker, NEW s \in DocStatus, SetStatus(Task(w), s), ~At(w, "idle")
      PROVE  Tells(d)'
  <2>1. Task(w) \in Doc /\ Committed(Task(w))
    BY <1>5 DEF IInv, SlotInv, NoWorkBeforeCommit, Committed
  <2>2. jobOf[Task(w)] \in Request
    BY <2>1 DEF JobsCommitted
  <2>3. /\ jobs'[jobOf[Task(w)]].status = s
        /\ jobs'[jobOf[Task(w)]].error = Blame(s, Job(Task(w)).error)
        /\ \A q \in Request : q # jobOf[Task(w)] => jobs'[q] = jobs[q]
        /\ Live(Task(w)) => status'[Task(w)] = s
        /\ \A e \in Doc : e # Task(w) => status'[e] = status[e]
    BY <1>5, <2>1, <2>2, SetStatusEffect
  <2>4. jobOf[d] \in Request
    BY <1>2 DEF JobsCommitted, Live, Committed
  <2>5. CASE jobOf[Task(w)] # jobOf[d]
    <3>1. jobs'[jobOf[d]] = jobs[jobOf[d]]
      BY <2>3, <2>4, <2>5
    <3>2. \A e \in Doc : jobOf[e] = jobOf[d] => status'[e] = status[e]
      BY <2>3, <2>5
    <3> QED BY <1>1, <1>2, <1>3, <3>1, <3>2 DEF Tells, Untouched, Job
  <2>6. CASE jobOf[Task(w)] = jobOf[d]
    <3>1. status'[d] = "failed" => jobs'[jobOf[d]].error
      BY <1>2, <2>3, <2>6 DEF Tells, Job, Blame
    <3>2. Untouched(jobOf[d]) => status'[Task(w)] = s
      BY <2>1, <2>3, <2>6 DEF Untouched, DeletedTouched, Live, Committed
    <3> QED BY <1>1, <1>3, <2>1, <2>3, <2>6, <3>1, <3>2 DEF Tells, Untouched, Job
  <2> QED BY <2>5, <2>6
<1> QED BY <1>4, <1>5, WorkerWrites

(* Every step keeps jobs truthful. *)
LEMMA NextTelling ==
    ASSUME DocInv, JobInv, JobTellsAll, [Next]_vars PROVE JobTellsAll'
<1>1. CASE UploadNext /\ UNCHANGED <<slot, del>>
  <2>1. PICK r \in Request : Handles(r)
    BY <1>1 DEF UploadNext, Handles
  <2> QED BY <1>1, <2>1, UploadKeepsTelling
<1>2. CASE WorkerNext /\ UNCHANGED <<upVars, del>>
  BY <1>2, WorkerKeepsTelling
<1>3. CASE DeletionNext /\ UNCHANGED <<upVars, slot>>
  <2> USE DEF DocInv, JobInv
  <2> SUFFICES ASSUME NEW d \in Doc, Live(d)' PROVE Tells(d)'
    BY JobTellsAllIs DEF JobTellsAll, Tells, Untouched, Job
  <2>1. UNCHANGED <<jobOf, jobs, status>>
    BY <1>3, DeletionStepFrame DEF upVars
  <2>2. Calm
    BY <1>3, DeletionIsCalm DEF UploadSide
  <2>3. \A e \in Doc : Touched(e) => Touched(e)'
    BY <2>2 DEF Calm
  <2>4. Live(d) /\ Tells(d)
    BY <2>2, JobTellsAllIs DEF Calm, Live
  <2> QED BY <2>1, <2>3, <2>4 DEF Tells, Untouched, Job
<1>4. CASE UNCHANGED vars
  BY <1>4 DEF vars, storeVars, pgVars, upVars, JobTellsAll, Live, Touched, Target
<1> QED BY <1>1, <1>2, <1>3, <1>4 DEF Next, Rest

(* However many tasks overwrite the one job row of an upload, the row never
   says a status none of its documents has, and never loses the error of one
   that failed: _set_status writes both rows in one transaction and clears no
   error. *)
THEOREM JobTellsAllHolds == Spec => []JobTellsAll
<1>1. Init => DocInv /\ JobInv /\ JobTellsAll
  BY InitDocInv, InitJobInv DEF Init, StoresInit, JobTellsAll, Live
<1>2. DocInv /\ JobInv /\ JobTellsAll /\ [Next]_vars => (DocInv /\ JobInv /\ JobTellsAll)'
  BY NextDocInv, NextJobInv, NextTelling
<1> QED BY <1>1, <1>2, PTL DEF Spec

-----------------------------------------------------------------------------
(***************************************************************************)
(* Streams.                                                                *)
(***************************************************************************)

(* Initially nobody listens. *)
LEMMA InitStreamInv == StreamInit => StreamInv
<1> SUFFICES ASSUME StreamInit PROVE StreamInv
  OBVIOUS
<1> DEFINE idle == [pc |-> "idle", job |-> NoRequest, current |-> NoJobRow,
                    last |-> NoJobRow, elapsed |-> 0, events |-> << >>]
<1>1. NoJobRow \in JobRow /\ << >> \in Seq(Event)
  BY DEF NoJobRow, JobRow, DocStatus
<1>2. idle \in StreamState
  BY <1>1 DEF StreamState
<1>3. stream = [s \in Stream |-> idle]
  BY DEF StreamInit
<1>4. idle.pc = "idle" /\ idle.job = NoRequest /\ idle.events = << >>
  OBVIOUS
<1> HIDE DEF idle
<1>5. stream \in [Stream -> StreamState]
  BY <1>2, <1>3
<1> QED BY <1>3, <1>4, <1>5 DEF StreamInv, StreamRows, In

(* The order of rows is transitive. *)
LEMMA AtMostTransitive ==
    ASSUME NEW p \in JobRow, NEW q \in JobRow, NEW r \in JobRow,
           p.status # "none", q.status # "none", r.status # "none",
           AtMost(p, q), AtMost(q, r)
    PROVE  AtMost(p, r) /\ AtMost(p, p)
<1>1. /\ Rank[p.status] \in 0..2 /\ Rank[q.status] \in 0..2 /\ Rank[r.status] \in 0..2
      /\ p.progress \in {0, 1} /\ q.progress \in {0, 1} /\ r.progress \in {0, 1}
  BY RankIs DEF JobRow, DocStatus
<1> QED BY <1>1 DEF AtMost

(* A document keeps its job, and a job in view gets no document any more. *)
LEMMA JobsAreClosed ==
    ASSUME DocInv, JobInv, [Next]_vars
    PROVE  /\ \A d \in Doc : row[d] # "fresh" => jobOf'[d] = jobOf[d]
           /\ \A d \in Doc : LET r == jobOf'[d]
                             IN  r \in Request /\ jobs[r].status # "none" =>
                                    jobOf[d] = r /\ row[d] # "fresh"
<1> USE DEF DocInv, JobInv
<1>1. CASE UploadNext /\ UNCHANGED <<slot, del>>
  <2>1. PICK r \in Request : Handles(r)
    BY <1>1 DEF UploadNext, Handles
  <2>2. \A d \in Doc : row[d] # "fresh" => jobOf'[d] = jobOf[d]
    BY <2>1, UploadStepRows DEF Handles
  <2>3. ASSUME NEW d \in Doc, jobOf'[d] \in Request, jobs[jobOf'[d]].status # "none"
        PROVE  jobOf[d] = jobOf'[d]
    <3>1. CASE InsertDocument(r)
      <4>1. PICK e \in Doc : jobOf' = [jobOf EXCEPT ![e] = r] /\ up[r] = "insert"
        BY <2>1, <3>1, InsertEffect
      <4>2. jobOf'[d] # r
        BY <2>3, <4>1 DEF JobsCommitted
      <4> QED BY <4>1, <4>2 DEF IInv, TypeOK, StoresTypeOK
    <3>2. CASE ~InsertDocument(r)
      BY <2>1, <3>2, UploadCourse
    <3> QED BY <3>1, <3>2
  <2>4. \A d \in Doc : jobOf[d] \in Request => row[d] # "fresh"
    BY NoneAssumption DEF FreshUnowned
  <2> QED BY <2>2, <2>3, <2>4
<1>2. CASE jobOf' = jobOf
  BY <1>2, NoneAssumption DEF FreshUnowned
<1>3. WorkerNext \/ DeletionNext \/ UNCHANGED vars => jobOf' = jobOf
  BY WorkerStepFrame, DeletionStepFrame DEF vars, storeVars, pgVars
<1> QED BY <1>1, <1>2, <1>3 DEF Next, Rest

(* A job row in view stays, and that of a single document moves forward. *)
LEMMA JobForward ==
    ASSUME DocInv, JobInv, [Next]_vars, NEW q \in Request, jobs[q].status # "none"
    PROVE  /\ jobs'[q].status # "none"
           /\ MaxRedelivery = 0 =>
                \A d \in Doc : jobOf[d] = q /\ Sole(d) => AtMost(jobs[q], jobs'[q])
<1> USE DEF DocInv, JobInv
<1>0. jobs[q] \in JobRow /\ jobs' \in [Request -> JobRow]
  <2>1. IInv'
    BY NextIInv
  <2> QED BY <2>1 DEF IInv, TypeOK, StoresTypeOK
<1>1. CASE jobs'[q] = jobs[q]
  <2>1. AtMost(jobs[q], jobs[q])
    BY <1>0, RankIs DEF AtMost, JobRow, DocStatus
  <2> QED BY <1>1, <2>1
<1>2. CASE WorkerNext /\ jobs'[q] # jobs[q]
  <2>1. PICK w \in Worker, s \in DocStatus : SetStatus(Task(w), s) /\ ~At(w, "idle")
    BY <1>2, WorkerWrites
  <2>2. Task(w) \in Doc /\ Committed(Task(w))
    BY <2>1 DEF IInv, SlotInv, NoWorkBeforeCommit, Committed
  <2>3. jobOf[Task(w)] \in Request
    BY <2>2 DEF JobsCommitted
  <2>4. jobOf[Task(w)] = q /\ jobs'[q].status = s
    BY <1>2, <2>1, <2>2, <2>3, SetStatusEffect
  <2>5. ASSUME MaxRedelivery = 0, NEW d \in Doc, jobOf[d] = q, Sole(d)
        PROVE  AtMost(jobs[q], jobs'[q])
    <3>1. Task(w) = d
      BY <2>2, <2>4, <2>5 DEF Sole
    <3> QED BY <1>2, <2>2, <2>5, <3>1, WorkerKeepsMirror DEF Job
  <2> QED BY <2>4, <2>5 DEF DocStatus
<1>3. CASE UploadNext /\ UNCHANGED <<slot, del>>
  <2>1. PICK r \in Request : Handles(r)
    BY <1>3 DEF UploadNext, Handles
  <2>2. up[q] # "scan"
    BY DEF JobsCommitted
  <2>3. jobs'[q] = jobs[q]
    BY <2>1, <2>2, UploadJobs DEF AllScanned, IInv, TypeOK, StoresTypeOK
  <2> QED BY <1>1, <2>3
<1>4. DeletionNext \/ UNCHANGED vars => jobs' = jobs
  BY DeletionStepFrame DEF vars, storeVars, pgVars
<1> QED BY <1>1, <1>2, <1>3, <1>4 DEF Next, Rest

(* Streams keep their invariant while uploads, workers and deletions move. *)
LEMMA SystemKeepsStreams ==
    ASSUME DocInv, JobInv, StreamInv, [Next]_vars, UNCHANGED stream
    PROVE  StreamInv'
<1>1. ASSUME NEW s \in Stream PROVE StreamRows(s)'
  <2>1. StreamRows(s)
    BY DEF StreamInv
  <2>2. CASE In(s, "idle")
    BY <2>1, <2>2 DEF StreamRows, In
  <2>3. CASE ~In(s, "idle")
    <3>1. jobs'[stream[s].job].status # "none"
      BY <2>1, <2>3, JobForward DEF StreamRows
    <3> QED BY <2>1, <2>3, <3>1 DEF StreamRows, In
  <2> QED BY <2>2, <2>3
<1>2. ASSUME MaxRedelivery = 0, NEW s \in Stream, NEW d \in Doc,
             ~In(s, "idle"), jobOf'[d] = stream[s].job, Sole(d)'
      PROVE  StreamOrder(s)'
  <2>1. stream[s].job \in Request /\ jobs[stream[s].job].status # "none"
    BY <1>2 DEF StreamInv, StreamRows, Readable
  <2>2. jobOf[d] = stream[s].job /\ row[d] # "fresh"
    BY <1>2, <2>1, JobsAreClosed
  <2>3. Sole(d)
    <3> SUFFICES ASSUME NEW e \in Doc, jobOf[e] = jobOf[d] PROVE e = d
      BY DEF Sole
    <3>1. row[e] # "fresh"
      BY <2>1, <2>2, NoneAssumption DEF JobInv, FreshUnowned
    <3>2. jobOf'[e] = jobOf'[d]
      BY <1>2, <2>2, <3>1, JobsAreClosed
    <3> QED BY <1>2, <3>2 DEF Sole
  <2>4. StreamOrder(s)
    BY <1>2, <2>2, <2>3 DEF StreamInv
  <2>5. AtMost(jobs[stream[s].job], jobs'[stream[s].job]) /\ jobs'[stream[s].job].status # "none"
    BY <1>2, <2>1, <2>2, <2>3, JobForward
  <2>6. /\ stream[s].current \in JobRow /\ stream[s].current.status # "none"
        /\ jobs[stream[s].job] \in JobRow /\ jobs'[stream[s].job] \in JobRow
    <3>1. IInv'
      BY NextIInv DEF DocInv
    <3>2. stream[s] \in StreamState /\ stream[s].current.status # "none"
      BY <1>2 DEF StreamInv, StreamRows, Readable
    <3> QED BY <2>1, <3>1, <3>2 DEF StreamState, DocInv, IInv, TypeOK, StoresTypeOK
  <2>7. AtMost(stream[s].current, jobs'[stream[s].job])
    <3>1. AtMost(stream[s].current, jobs[stream[s].job])
      BY <2>4 DEF StreamOrder
    <3> QED BY <2>1, <2>5, <2>6, <3>1, AtMostTransitive
  <2> QED BY <2>4, <2>7 DEF StreamOrder
<1>3. stream' \in [Stream -> StreamState]
  BY DEF StreamInv
<1> QED BY <1>1, <1>2, <1>3 DEF StreamInv, In

(* What a stream does to the others, and to its own record. *)
LEMMA StreamOthers ==
    ASSUME StreamInv, NEW s \in Stream,
           (\E r \in Request : Open(s, r)) \/ StreamStep(s) \/ Break(s)
    PROVE  \A t \in Stream : t # s => stream'[t] = stream[t]
BY DEF StreamInv, StreamStep, Open, Emit, Poll, Break

(* At most one event is appended at a time. *)
LEMMA Appended ==
    ASSUME NEW es \in Seq(Event), NEW a \in Event, NEW new \in {<< >>, <<a>>}
    PROVE  /\ es \o new \in Seq(Event)
           /\ Len(es \o new) \in Nat /\ Len(es) <= Len(es \o new)
           /\ \A i \in 1..Len(es \o new) :
                 \/ i \in 1..Len(es) /\ (es \o new)[i] = es[i]
                 \/ i > Len(es) /\ (es \o new)[i] = a
<1>1. CASE new = << >>
  BY <1>1
<1>2. CASE new = <<a>>
  BY <1>2
<1> QED BY <1>1, <1>2

(* What a stream does to its own record. *)
LEMMA StreamMoves ==
    ASSUME DocInv, StreamInv, NEW s \in Stream
    PROVE  /\ \A r \in Request : Open(s, r) =>
                 /\ stream'[s] \in StreamState /\ stream'[s].pc = "emit"
                 /\ stream'[s].job = r /\ stream'[s].current = jobs[r]
                 /\ stream'[s].events = << >>
           /\ Emit(s) =>
                 /\ stream'[s] \in StreamState /\ stream'[s].pc \in {"sleep", "closed"}
                 /\ stream'[s].job = stream[s].job /\ stream'[s].current = stream[s].current
                 /\ \A i \in 1..Len(stream'[s].events) :
                      \/ /\ i \in 1..Len(stream[s].events)
                         /\ stream'[s].events[i] = stream[s].events[i]
                      \/ /\ i > Len(stream[s].events)
                         /\ stream'[s].events[i][2] = stream[s].current
           /\ Poll(s) =>
                 /\ stream'[s] \in StreamState /\ stream'[s].pc = "emit"
                 /\ stream'[s].job = stream[s].job /\ stream'[s].events = stream[s].events
                 /\ stream'[s].current = jobs[stream[s].job]
           /\ Break(s) =>
                 /\ stream'[s] \in StreamState /\ stream'[s].pc = "broken"
                 /\ stream'[s].job = stream[s].job /\ stream'[s].events = stream[s].events
                 /\ stream'[s].current = stream[s].current
<1> DEFINE old == stream[s]
<1>1. /\ stream \in [Stream -> StreamState]
      /\ old \in StreamState
      /\ jobs \in [Request -> JobRow]
      /\ In(s, "idle") => old.events = << >>
      /\ ~In(s, "idle") => old.job \in Request
  BY DEF StreamInv, StreamRows, DocInv, IInv, TypeOK, StoresTypeOK
<1>2. ASSUME NEW r \in Request, Open(s, r)
      PROVE  /\ stream'[s] \in StreamState /\ stream'[s].pc = "emit"
             /\ stream'[s].job = r /\ stream'[s].current = jobs[r]
             /\ stream'[s].events = << >>
  <2> DEFINE new == [[[old EXCEPT !.pc = "emit"] EXCEPT !.job = r] EXCEPT !.current = jobs[r]]
  <2>1. stream' = [stream EXCEPT ![s] = new]
    BY <1>2 DEF Open
  <2>2. /\ new \in StreamState /\ new.pc = "emit" /\ new.job = r /\ new.current = jobs[r]
        /\ new.events = old.events
    BY <1>1 DEF StreamState
  <2> HIDE DEF new
  <2>3. stream'[s] = new
    BY <1>1, <2>1
  <2> QED BY <1>1, <1>2, <2>2, <2>3 DEF Open
<1>3. ASSUME Emit(s)
      PROVE  /\ stream'[s] \in StreamState /\ stream'[s].pc \in {"sleep", "closed"}
             /\ stream'[s].job = stream[s].job /\ stream'[s].current = stream[s].current
             /\ \A i \in 1..Len(stream'[s].events) :
                  \/ /\ i \in 1..Len(stream[s].events)
                     /\ stream'[s].events[i] = stream[s].events[i]
                  \/ /\ i > Len(stream[s].events)
                     /\ stream'[s].events[i][2] = stream[s].current
  <2> DEFINE a == <<"progress", old.current>>
             b == <<"done", old.current>>
             pc == IF Farewell(s) = << >> THEN "sleep" ELSE "closed"
             told == old.events \o News(s)
             ev == told \o Farewell(s)
             new == [[[old EXCEPT !.events = ev] EXCEPT !.last = old.current] EXCEPT !.pc = pc]
  <2>1. stream' = [stream EXCEPT ![s] = new]
    BY <1>3 DEF Emit
  <2>2. old.events \in Seq(Event) /\ old.current \in JobRow
    BY <1>1 DEF StreamState
  <2>3. a \in Event /\ b \in Event
    BY <2>2 DEF Event
  <2>4. News(s) \in {<< >>, <<a>>} /\ Farewell(s) \in {<< >>, <<b>>}
    BY DEF News, Farewell
  <2>5. a[2] = old.current /\ b[2] = old.current
    OBVIOUS
  <2> HIDE DEF a, b
  <2>6. /\ told \in Seq(Event) /\ Len(told) \in Nat /\ Len(old.events) <= Len(told)
        /\ \A i \in 1..Len(told) :
              \/ i \in 1..Len(old.events) /\ told[i] = old.events[i]
              \/ i > Len(old.events) /\ told[i] = a
    BY <2>2, <2>3, <2>4, Appended
  <2> HIDE DEF told
  <2>7. /\ ev \in Seq(Event)
        /\ \A i \in 1..Len(ev) :
              \/ i \in 1..Len(told) /\ ev[i] = told[i]
              \/ i > Len(told) /\ ev[i] = b
    <3>1. told \in Seq(Event)
      BY <2>6
    <3> QED BY <2>3, <2>4, <3>1, Appended
  <2> HIDE DEF ev
  <2>8. \A i \in 1..Len(ev) :
           \/ i \in 1..Len(old.events) /\ ev[i] = old.events[i]
           \/ i > Len(old.events) /\ ev[i] \in {a, b}
    <3>1. Len(old.events) \in Nat /\ Len(ev) \in Nat
      BY <2>2, <2>7
    <3> QED BY <2>6, <2>7, <3>1
  <2>9. pc \in {"sleep", "closed"}
    OBVIOUS
  <2> HIDE DEF pc
  <2>10. /\ new \in StreamState /\ new.pc = pc /\ new.job = old.job
         /\ new.current = old.current /\ new.events = ev
    BY <1>1, <2>2, <2>7, <2>9 DEF StreamState
  <2> HIDE DEF new
  <2>11. stream'[s] = new
    BY <1>1, <2>1
  <2> QED BY <2>5, <2>8, <2>9, <2>10, <2>11
<1>4. ASSUME Poll(s)
      PROVE  /\ stream'[s] \in StreamState /\ stream'[s].pc = "emit"
             /\ stream'[s].job = stream[s].job /\ stream'[s].events = stream[s].events
             /\ stream'[s].current = jobs[stream[s].job]
  <2> DEFINE new == [[[old EXCEPT !.pc = "emit"] EXCEPT !.elapsed = Tick(s)]
                         EXCEPT !.current = Reread(s)]
  <2>1. stream' = [stream EXCEPT ![s] = new]
    BY <1>4 DEF Poll
  <2>2. Tick(s) \in Nat /\ Reread(s) \in JobRow /\ Reread(s) = jobs[old.job]
    BY <1>1, <1>4 DEF Tick, Reread, StreamState, Poll, In
  <2>3. /\ new \in StreamState /\ new.pc = "emit" /\ new.job = old.job
        /\ new.current = Reread(s) /\ new.events = old.events
    BY <1>1, <2>2 DEF StreamState
  <2> HIDE DEF new
  <2>4. stream'[s] = new
    BY <1>1, <2>1
  <2> QED BY <2>2, <2>3, <2>4
<1>5. ASSUME Break(s)
      PROVE  /\ stream'[s] \in StreamState /\ stream'[s].pc = "broken"
             /\ stream'[s].job = stream[s].job /\ stream'[s].events = stream[s].events
             /\ stream'[s].current = stream[s].current
  <2> DEFINE new == [old EXCEPT !.pc = "broken"]
  <2>1. stream' = [stream EXCEPT ![s] = new]
    BY <1>5 DEF Break
  <2>2. /\ new \in StreamState /\ new.pc = "broken" /\ new.job = old.job
        /\ new.current = old.current /\ new.events = old.events
    BY <1>1 DEF StreamState
  <2> HIDE DEF new
  <2>3. stream'[s] = new
    BY <1>1, <2>1
  <2> QED BY <2>2, <2>3
<1> QED BY <1>2, <1>3, <1>4, <1>5

(* Streams keep their invariant by their own steps. *)
LEMMA StreamsKeepStreams ==
    ASSUME DocInv, JobInv, StreamInv, StreamNext, UNCHANGED vars
    PROVE  StreamInv'
<1>0. UNCHANGED <<jobs, jobOf>>
  BY DEF vars, storeVars, pgVars
<1>1. PICK s \in Stream : (\E r \in Request : Open(s, r)) \/ StreamStep(s) \/ Break(s)
  BY DEF StreamNext
<1>2. \A t \in Stream : t # s => stream'[t] = stream[t]
  BY <1>1, StreamOthers
<1>3. stream'[s] \in StreamState /\ StreamRows(s)' /\ ~In(s, "idle")'
      /\ (In(s, "idle") \/ stream'[s].job = stream[s].job)
      /\ (StreamOrder(s) \/ In(s, "idle") => StreamOrder(s)')
  <2>0. /\ stream[s] \in StreamState /\ StreamRows(s)
        /\ jobs \in [Request -> JobRow]
        /\ \A r \in Request : Finished(jobs[r])
    BY DEF StreamInv, DocInv, IInv, TypeOK, StoresTypeOK, JobInv, JobsFinish
  <2>1. ASSUME NEW r \in Request, Open(s, r)
        PROVE  /\ StreamRows(s)' /\ ~In(s, "idle")' /\ In(s, "idle")
               /\ StreamOrder(s)' /\ stream'[s] \in StreamState
    <3>1. /\ stream'[s] \in StreamState /\ stream'[s].pc = "emit"
          /\ stream'[s].job = r /\ stream'[s].current = jobs[r]
          /\ stream'[s].events = << >>
      BY <2>1, StreamMoves
    <3>2. jobs[r] \in JobRow /\ jobs[r].status # "none" /\ In(s, "idle")
      BY <2>0, <2>1 DEF Open
    <3>3. AtMost(jobs[r], jobs[r])
      BY <3>2, RankIs DEF AtMost, JobRow, DocStatus
    <3> QED BY <1>0, <2>0, <3>1, <3>2, <3>3 DEF StreamRows, StreamOrder, In, Readable
  <2>2. ASSUME Emit(s) \/ Poll(s) \/ Break(s)
        PROVE  /\ ~In(s, "idle") /\ stream[s].job \in Request
               /\ jobs[stream[s].job] \in JobRow
               /\ Readable(jobs[stream[s].job])
               /\ Readable(stream[s].current)
               /\ stream[s].current \in JobRow
               /\ \A i \in 1..Len(stream[s].events) :
                    /\ Readable(stream[s].events[i][2])
                    /\ stream[s].events[i][2] \in JobRow
    <3>1. ~In(s, "idle")
      BY <2>2 DEF Emit, Poll, Break, In
    <3>2. stream[s].current \in JobRow /\ stream[s].events \in Seq(Event)
      BY <2>0 DEF StreamState
    <3>3. \A i \in 1..Len(stream[s].events) : stream[s].events[i][2] \in JobRow
      BY <3>2 DEF Event
    <3> QED BY <2>0, <3>1, <3>2, <3>3 DEF StreamRows, Readable
  <2>3. ASSUME Emit(s)
        PROVE  /\ StreamRows(s)' /\ ~In(s, "idle")' /\ stream'[s].job = stream[s].job
               /\ StreamOrder(s) => StreamOrder(s)'
               /\ stream'[s] \in StreamState
    <3>1. /\ stream'[s] \in StreamState /\ stream'[s].pc \in {"sleep", "closed"}
          /\ stream'[s].job = stream[s].job /\ stream'[s].current = stream[s].current
          /\ \A i \in 1..Len(stream'[s].events) :
               \/ /\ i \in 1..Len(stream[s].events)
                  /\ stream'[s].events[i] = stream[s].events[i]
               \/ /\ i > Len(stream[s].events)
                  /\ stream'[s].events[i][2] = stream[s].current
      BY <2>3, StreamMoves
    <3>2. StreamRows(s)' /\ ~In(s, "idle")'
      BY <1>0, <2>2, <2>3, <3>1 DEF StreamRows, In, Readable
    <3>3. AtMost(stream[s].current, stream[s].current)
      BY <2>2, <2>3, RankIs DEF AtMost, JobRow, DocStatus, Readable
    <3>4. Len(stream[s].events) \in Nat /\ Len(stream'[s].events) \in Nat
      BY <2>0, <3>1 DEF StreamState
    <3>5. ASSUME StreamOrder(s) PROVE StreamOrder(s)'
      <4>1. ASSUME NEW i \in 1..Len(stream'[s].events), NEW j \in 1..Len(stream'[s].events), i < j
            PROVE  AtMost(stream'[s].events[i][2], stream'[s].events[j][2])
        <5>1. CASE j \in 1..Len(stream[s].events) /\ stream'[s].events[j] = stream[s].events[j]
          <6>1. i \in 1..Len(stream[s].events) /\ stream'[s].events[i] = stream[s].events[i]
            BY <3>1, <3>4, <4>1, <5>1
          <6> QED BY <3>5, <4>1, <5>1, <6>1 DEF StreamOrder
        <5>2. CASE stream'[s].events[j][2] = stream[s].current
          BY <3>1, <3>3, <3>5, <5>2 DEF StreamOrder
        <5> QED BY <3>1, <5>1, <5>2
      <4>2. \A i \in 1..Len(stream'[s].events) :
               AtMost(stream'[s].events[i][2], stream'[s].current)
        BY <3>1, <3>3, <3>5 DEF StreamOrder
      <4>3. AtMost(stream'[s].current, jobs'[stream'[s].job])
        BY <1>0, <3>1, <3>5 DEF StreamOrder
      <4> QED BY <4>1, <4>2, <4>3 DEF StreamOrder
    <3> QED BY <3>1, <3>2, <3>5
  <2>4. ASSUME Poll(s)
        PROVE  /\ StreamRows(s)' /\ ~In(s, "idle")' /\ stream'[s].job = stream[s].job
               /\ StreamOrder(s) => StreamOrder(s)'
               /\ stream'[s] \in StreamState
    <3>1. /\ stream'[s] \in StreamState /\ stream'[s].pc = "emit"
          /\ stream'[s].job = stream[s].job /\ stream'[s].events = stream[s].events
          /\ stream'[s].current = jobs[stream[s].job]
      BY <2>4, StreamMoves
    <3>2. AtMost(jobs[stream[s].job], jobs[stream[s].job])
      BY <2>2, <2>4, RankIs DEF AtMost, JobRow, DocStatus, Readable
    <3>3. ASSUME StreamOrder(s), NEW i \in 1..Len(stream[s].events)
          PROVE  AtMost(stream[s].events[i][2], jobs[stream[s].job])
      <4>1. /\ AtMost(stream[s].events[i][2], stream[s].current)
            /\ AtMost(stream[s].current, jobs[stream[s].job])
        BY <3>3 DEF StreamOrder
      <4> QED BY <2>2, <2>4, <4>1, AtMostTransitive DEF Readable
    <3>4. StreamOrder(s) => StreamOrder(s)'
      BY <1>0, <3>1, <3>2, <3>3 DEF StreamOrder
    <3> QED BY <1>0, <2>2, <2>4, <3>1, <3>4 DEF StreamRows, In, Readable
  <2>5. ASSUME Break(s)
        PROVE  /\ StreamRows(s)' /\ ~In(s, "idle")' /\ stream'[s].job = stream[s].job
               /\ StreamOrder(s) => StreamOrder(s)'
               /\ stream'[s] \in StreamState
    <3>1. /\ stream'[s] \in StreamState /\ stream'[s].pc = "broken"
          /\ stream'[s].job = stream[s].job /\ stream'[s].events = stream[s].events
          /\ stream'[s].current = stream[s].current
      BY <2>5, StreamMoves
    <3> QED BY <1>0, <2>2, <2>5, <3>1 DEF StreamRows, StreamOrder, In, Readable
  <2>6. Emit(s) => ~In(s, "idle")
    BY <2>2
  <2> QED BY <1>1, <2>1, <2>2, <2>3, <2>4, <2>5 DEF StreamStep
<1>4. stream' \in [Stream -> StreamState]
  <2>1. stream' = [t \in Stream |-> stream'[t]]
    BY <1>1 DEF StreamStep, Open, Emit, Poll, Break, StreamInv
  <2>2. \A t \in Stream : stream'[t] \in StreamState
    BY <1>2, <1>3 DEF StreamInv
  <2> QED BY <2>1, <2>2
<1>5. \A t \in Stream : StreamRows(t)'
  <2>1. ASSUME NEW t \in Stream, t # s PROVE StreamRows(t)'
    BY <1>0, <1>2, <2>1 DEF StreamInv, StreamRows, In
  <2> QED BY <1>3, <2>1
<1>6. ASSUME MaxRedelivery = 0, NEW t \in Stream, NEW d \in Doc,
             ~In(t, "idle")', jobOf'[d] = stream'[t].job, Sole(d)'
      PROVE  StreamOrder(t)'
  <2>1. Sole(d)
    BY <1>0, <1>6 DEF Sole
  <2>2. CASE t = s
    <3>1. ~In(s, "idle") => StreamOrder(s)
      BY <1>0, <1>3, <1>6, <2>1, <2>2 DEF StreamInv
    <3> QED BY <1>3, <2>2, <3>1
  <2>3. CASE t # s
    <3>1. StreamOrder(t)
      BY <1>0, <1>2, <1>6, <2>1, <2>3 DEF StreamInv, In
    <3> QED BY <1>0, <1>2, <2>3, <3>1 DEF StreamOrder
  <2> QED BY <2>2, <2>3
<1> QED BY <1>4, <1>5, <1>6 DEF StreamInv

-----------------------------------------------------------------------------
(***************************************************************************)
(* The theorems.                                                           *)
(***************************************************************************)

(* SInv is inductive. *)
LEMMA NextSInv == ASSUME SInv, [ServiceNext]_allVars PROVE SInv'
<1> USE DEF SInv
<1>1. [Next]_vars
  BY DEF ServiceNext, allVars
<1>2. DocInv' /\ JobInv'
  BY <1>1, NextDocInv, NextJobInv
<1>3. CASE UNCHANGED stream
  BY <1>1, <1>2, <1>3, SystemKeepsStreams
<1>4. CASE StreamNext /\ UNCHANGED vars
  BY <1>2, <1>4, StreamsKeepStreams
<1> QED BY <1>2, <1>3, <1>4 DEF ServiceNext, allVars

(* The jobs and the streams of every reachable state satisfy the inductive
   invariant. *)
THEOREM StreamInvariance == ServiceSpec => []SInv
<1>1. Init /\ StreamInit => SInv
  BY InitDocInv, InitJobInv, InitStreamInv DEF SInv
<1>2. SInv /\ [ServiceNext]_allVars => SInv'
  BY NextSInv
<1> QED BY <1>1, <1>2, PTL DEF ServiceSpec

(* Whoever follows the job of a single document never reads it going back: the
   rows that the stream of jobs.py sends are in the order in which the worker
   wrote them. *)
THEOREM ToldForwardHolds == ServiceSpec => []ToldForward
<1>1. ASSUME SInv PROVE ToldForward
  <2> SUFFICES ASSUME MaxRedelivery = 0, NEW s \in Stream, NEW d \in Doc,
                      jobOf[d] = stream[s].job, Sole(d),
                      NEW i \in 1..Len(stream[s].events),
                      NEW j \in 1..Len(stream[s].events), i < j
               PROVE  AtMost(stream[s].events[i][2], stream[s].events[j][2])
    BY DEF ToldForward, AtMost
  <2>1. ~In(s, "idle")
    <3>1. In(s, "idle") => stream[s].events = << >>
      BY <1>1 DEF SInv, StreamInv, StreamRows
    <3> QED BY <3>1
  <2>2. StreamOrder(s)
    BY <1>1, <2>1 DEF SInv, StreamInv
  <2> QED BY <2>2 DEF StreamOrder
<1> QED BY <1>1, StreamInvariance, PTL

(* Whoever was told `completed` finds the document indexed until somebody asks
   to delete it, as long as Postgres answers: the worker sets the status after
   the writes to both indexes, and nothing sets it back. *)
THEOREM ToldIsTrueHolds == ServiceSpec => []ToldIsTrue
<1>1. ASSUME SInv PROVE ToldIsTrue
  <2> SUFFICES ASSUME MaxRedelivery = 0, ~May("pg"), NEW s \in Stream, NEW d \in Doc,
                      jobOf[d] = stream[s].job, Sole(d), ~Touched(d),
                      NEW i \in 1..Len(stream[s].events),
                      stream[s].events[i][2].status = "completed"
               PROVE  /\ status[d] = "completed"
                      /\ keyOf[d] \in Blank \/ Of(points, d) \cap linked # {}
    BY DEF ToldIsTrue, Told
  <2>1. ~In(s, "idle")
    <3>1. In(s, "idle") => stream[s].events = << >>
      BY <1>1 DEF SInv, StreamInv, StreamRows
    <3> QED BY <3>1
  <2>2. /\ StreamOrder(s) /\ stream[s] \in StreamState
        /\ jobOf[d] \in Request /\ Job(d).status # "none"
        /\ stream[s].events[i][2].progress = 1
        /\ Readable(stream[s].current)
    BY <1>1, <2>1 DEF SInv, StreamInv, StreamRows, Readable, Finished, Job
  <2>3. stream[s].current \in JobRow /\ Job(d) \in JobRow
    BY <1>1, <2>2 DEF StreamState, SInv, DocInv, IInv, TypeOK, StoresTypeOK, Job
  <2>4. Job(d).progress = 1
    <3>1. stream[s].events[i][2].progress <= stream[s].current.progress
      BY <2>2 DEF StreamOrder, AtMost
    <3>2. stream[s].current.progress <= Job(d).progress
      BY <2>2 DEF StreamOrder, AtMost, Job
    <3>3. Job(d).progress \in {0, 1}
      BY <2>3 DEF JobRow
    <3> QED BY <2>2, <2>3, <3>1, <3>2, <3>3 DEF JobRow
  <2>5. Committed(d)
    <3>1. row[d] # "fresh"
      BY <1>1, <2>2, NoneAssumption DEF SInv, JobInv, FreshUnowned
    <3>2. row[d] # "rolledback"
      BY <1>1, <2>2 DEF SInv, JobInv, RolledBack, Job
    <3>3. row[d] # "staged"
      BY <1>1, <2>2 DEF SInv, DocInv, UploadSide, RowsOwned, InTransaction, JobInv,
         JobsCommitted, Job
    <3> QED BY <1>1, <3>1, <3>2, <3>3 DEF SInv, DocInv, IInv, TypeOK, StoresTypeOK,
         RowState, Committed
  <2>6. Live(d)
    BY <1>1, <2>5 DEF SInv, JobInv, DeletedTouched, Committed, Live
  <2>7. status[d] = "completed"
    BY <1>1, <2>4, <2>5, <2>6 DEF SInv, JobInv, SoleJobs, JobMirrors
  <2> QED BY <1>1, <2>7 DEF SInv, DocInv, WorkSide, CompletedHolds
<1> QED BY <1>1, StreamInvariance, PTL

(* The streams only read: with them, uploads, workers and deletions do what
   they do without them, so every theorem about Spec holds here as well. *)
THEOREM StreamsOnlyRead == ServiceSpec => Spec
<1>1. Init /\ StreamInit => Init
  OBVIOUS
<1>2. [ServiceNext]_allVars => [Next]_vars
  BY DEF ServiceNext, allVars
<1> QED BY <1>1, <1>2, PTL DEF ServiceSpec, Spec

=============================================================================
