--------------------------- MODULE LifecycleProofs --------------------------
(***************************************************************************)
(* Proofs about Lifecycle for every set of requests, documents, workers    *)
(* and delete requests, and for every set of faults.                       *)
(***************************************************************************)
EXTENDS Lifecycle, TLAPS

(***************************************************************************)
(* The inductive invariant.                                                *)
(***************************************************************************)

Committed(d) == row[d] \in {"committed", "deleted"}

(* Stronger than UniqueContent: rows still uncommitted count too, which is
   why no commit can bring a second row of a content into view. *)
UniqueHolder ==
    \A d, e \in Doc :
        /\ row[d] \in {"staged", "committed"}
        /\ row[e] \in {"staged", "committed"}
        /\ keyOf[d] = keyOf[e]
        => d = e

(* An uncommitted row belongs to a request, whose transaction holds its key. *)
StagedOwned == \A d \in Doc : row[d] = "staged" => jobOf[d] \in Request

(* The documents an open request accepted are its own uncommitted rows, those
   of a request that is sending messages have been committed. *)
RequestInv(r) ==
    /\ up[r] = "idle" => accepted[r] = << >>
    /\ up[r] = "insert" => next[r] <= Len(FilesOf[r]) /\ File(r) \in Key
    /\ up[r] = "write" => accepted[r] # << >>
    /\ up[r] \in {"scan", "insert", "write"} =>
          \A i \in 1..Len(accepted[r]) :
              row[accepted[r][i]] = "staged" /\ jobOf[accepted[r][i]] = r
    /\ up[r] = "send" =>
          \A i \in 1..Len(accepted[r]) : Committed(accepted[r][i])

UploadInv == \A r \in Request : RequestInv(r)

(* A busy worker executes a numbered run of a document. *)
SlotInv ==
    \A w \in Worker :
        ~At(w, "idle") => /\ Task(w) \in Doc
                          /\ slot[w].run # 0
                          /\ runs[Task(w)] > 0

(* A delete request past its lookup is at a document that was committed. *)
DeletionInv ==
    \A h \in Deletion :
        /\ del[h].pc \in {"vector", "graph", "file", "row"} => Target(h) \in Doc
        /\ Target(h) \in Doc => Committed(Target(h))

IInv ==
    /\ TypeOK
    /\ UniqueHolder
    /\ StagedOwned
    /\ NoWorkBeforeCommit
    /\ UploadInv
    /\ SlotInv
    /\ DeletionInv

USE NoneAssumption, FilesAssumption, FaultsAssumption, WorkerAssumption

-----------------------------------------------------------------------------
(* The initial state satisfies the invariant. *)
LEMMA InitIInv == Init => IInv
<1> SUFFICES ASSUME Init PROVE IInv
  OBVIOUS
<1> USE DEF Init, StoresInit, UploadInit, WorkerInit, DeletionInit
<1>1. TypeOK
  <2>1. StoresTypeOK
    BY DEF StoresTypeOK, RowState, DocStatus, JobRow, NoJobRow
  <2>2. UploadTypeOK
    BY DEF UploadTypeOK, UploadPC
  <2>3. WorkerTypeOK
    BY DEF WorkerTypeOK, Slot, WorkerPC, IdleSlot
  <2>4. DeletionTypeOK
    BY DEF DeletionTypeOK, DeletionState, DeletionPC, DocStatus
  <2> QED BY <2>1, <2>2, <2>3, <2>4 DEF TypeOK
<1>2. UniqueHolder
  BY DEF UniqueHolder
<1>3. NoWorkBeforeCommit
  BY DEF NoWorkBeforeCommit, Of
<1>4. UploadInv
  BY DEF UploadInv, RequestInv
<1>5. SlotInv
  BY DEF SlotInv, At, IdleSlot
<1>6. DeletionInv
  BY DEF DeletionInv, Target
<1>7. StagedOwned
  BY DEF StagedOwned
<1> QED BY <1>1, <1>2, <1>3, <1>4, <1>5, <1>6, <1>7 DEF IInv

LEMMA SetStatusType ==
    ASSUME TypeOK, NEW d, NEW s \in DocStatus, SetStatus(d, s)
    PROVE  status' \in [Doc -> DocStatus] /\ jobs' \in [Request -> JobRow]
<1>1. status' \in [Doc -> DocStatus]
  BY DEF TypeOK, StoresTypeOK, SetStatus, DocumentUpdate
<1>2. jobs' \in [Request -> JobRow]
  BY DEF TypeOK, StoresTypeOK, SetStatus, Progress, Blame, JobRow, DocStatus
<1> QED BY <1>1, <1>2

(* Every step of an upload request keeps the types. *)
LEMMA UploadStepType ==
    ASSUME IInv, NEW r \in Request,
           Begin(r) \/ UploadStep(r) \/ UploadCrash(r), UNCHANGED <<slot, del>>
    PROVE  TypeOK'
<1> USE DEF IInv, TypeOK
<1>1. StoresTypeOK'
  <2> USE DEF StoresTypeOK, storeVars, pgVars, indexVars, RowState
  <2>1. CASE Begin(r) BY <2>1 DEF Begin
  <2>2. CASE RejectFile(r) BY <2>2 DEF RejectFile
  <2>3. CASE RejectDuplicate(r) BY <2>3 DEF RejectDuplicate
  <2>4. CASE SelectNone(r) BY <2>4 DEF SelectNone
  <2>5. CASE InsertDocument(r) BY <2>5 DEF InsertDocument, UploadInv, RequestInv
  <2>6. CASE InsertConflict(r) BY <2>6 DEF InsertConflict, Abort, Rollback
  <2>7. CASE InsertDeadlock(r) BY <2>7 DEF InsertDeadlock, Abort, Rollback
  <2>8. CASE WriteFile(r) BY <2>8 DEF WriteFile, Written, UploadInv, RequestInv, Last, UploadTypeOK
  <2>9. CASE WriteFileFails(r)
    <3>1. Last(r) \in Doc
      BY <2>9 DEF WriteFileFails, UploadInv, RequestInv, Last, UploadTypeOK
    <3>2. files' \subseteq Doc
      BY <2>9, <3>1 DEF WriteFileFails, Written
    <3> QED BY <2>9, <3>2 DEF WriteFileFails, Abort, Rollback
  <2>10. CASE Commit(r) BY <2>10 DEF Commit, CommitWrites, RowsVisible, NewJobRow, JobRow, DocStatus
  <2>11. CASE CommitFails(r)
    <3>1. row' \in [Doc -> RowState]
      BY <2>11 DEF CommitFails, CommitWrites, RowsVisible, Abort, Rollback
    <3>2. NewJobRow \in JobRow
      BY DEF NewJobRow, JobRow, DocStatus
    <3>3. jobs' = jobs \/ jobs' = [jobs EXCEPT ![r] = NewJobRow]
      BY <2>11 DEF CommitFails, CommitWrites, Abort
    <3>4. jobs' \in [Request -> JobRow]
      BY <3>2, <3>3
    <3> QED BY <2>11, <3>1, <3>4 DEF CommitFails, Abort
  <2>12. CASE StatementFails(r) BY <2>12 DEF StatementFails, Abort, Rollback
  <2>13. CASE SendTask(r)
    <3> DEFINE d == accepted[r][next[r]]
    <3>1. d \in Doc
      BY <2>13 DEF SendTask, Sending, UploadTypeOK
    <3>2. queue' = [queue EXCEPT ![d] = @ + 1]
      BY <2>13 DEF SendTask, Publish
    <3> HIDE DEF d
    <3>3. queue' \in [Doc -> Nat]
      BY <3>1, <3>2
    <3> QED BY <2>13, <3>3 DEF SendTask
  <2>14. CASE SendTaskFails(r) BY <2>14 DEF SendTaskFails, Publish
  <2>15. CASE Respond(r) BY <2>15 DEF Respond
  <2>16. CASE UploadCrash(r) BY <2>16 DEF UploadCrash, Rollback
  <2> QED BY <2>1, <2>2, <2>3, <2>4, <2>5, <2>6, <2>7, <2>8, <2>9, <2>10,
             <2>11, <2>12, <2>13, <2>14, <2>15, <2>16 DEF UploadStep
<1>2. UploadTypeOK'
  <2> USE DEF UploadTypeOK, UploadPC
  <2>1. CASE Begin(r) BY <2>1 DEF Begin
  <2>2. CASE RejectFile(r) BY <2>2 DEF RejectFile
  <2>3. CASE RejectDuplicate(r) BY <2>3 DEF RejectDuplicate
  <2>4. CASE SelectNone(r) BY <2>4 DEF SelectNone
  <2>5. CASE InsertDocument(r) BY <2>5 DEF InsertDocument
  <2>6. CASE InsertConflict(r) BY <2>6 DEF InsertConflict, Abort
  <2>7. CASE InsertDeadlock(r) BY <2>7 DEF InsertDeadlock, Abort
  <2>8. CASE WriteFile(r) BY <2>8 DEF WriteFile
  <2>9. CASE WriteFileFails(r) BY <2>9 DEF WriteFileFails, Abort
  <2>10. CASE Commit(r) BY <2>10 DEF Commit
  <2>11. CASE CommitFails(r) BY <2>11 DEF CommitFails, Abort
  <2>12. CASE StatementFails(r) BY <2>12 DEF StatementFails, Abort
  <2>13. CASE SendTask(r) BY <2>13 DEF SendTask
  <2>14. CASE SendTaskFails(r) BY <2>14 DEF SendTaskFails
  <2>15. CASE Respond(r) BY <2>15 DEF Respond
  <2>16. CASE UploadCrash(r) BY <2>16 DEF UploadCrash
  <2> QED BY <2>1, <2>2, <2>3, <2>4, <2>5, <2>6, <2>7, <2>8, <2>9, <2>10,
             <2>11, <2>12, <2>13, <2>14, <2>15, <2>16 DEF UploadStep
<1>3. WorkerTypeOK' /\ DeletionTypeOK'
  BY DEF WorkerTypeOK, DeletionTypeOK
<1> QED BY <1>1, <1>2, <1>3

(* An upload request changes rows in two ways only: a fresh id becomes a row
   of its own, and its own uncommitted rows are committed or rolled back. *)
LEMMA UploadStepRows ==
    ASSUME IInv, NEW r \in Request,
           Begin(r) \/ UploadStep(r) \/ UploadCrash(r), NEW d \in Doc
    PROVE  /\ \/ row'[d] = row[d] /\ keyOf'[d] = keyOf[d] /\ jobOf'[d] = jobOf[d]
              \/ row[d] = "fresh" /\ row'[d] = "staged"
              \/ /\ row[d] = "staged" /\ jobOf[d] = r
                 /\ row'[d] \in {"committed", "rolledback"}
                 /\ keyOf'[d] = keyOf[d] /\ jobOf'[d] = jobOf[d]
           /\ Committed(d) => Committed(d)'
<1> USE DEF IInv, TypeOK, StoresTypeOK, storeVars, pgVars, Committed
<1>1. CASE Begin(r) BY <1>1 DEF Begin
<1>2. CASE RejectFile(r) BY <1>2 DEF RejectFile
<1>3. CASE RejectDuplicate(r) BY <1>3 DEF RejectDuplicate
<1>4. CASE SelectNone(r) BY <1>4 DEF SelectNone
<1>5. CASE InsertDocument(r) BY <1>5 DEF InsertDocument
<1>6. CASE InsertConflict(r) BY <1>6 DEF InsertConflict, Abort, Rollback, Staged
<1>7. CASE InsertDeadlock(r) BY <1>7 DEF InsertDeadlock, Abort, Rollback, Staged
<1>8. CASE WriteFile(r) BY <1>8 DEF WriteFile
<1>9. CASE WriteFileFails(r) BY <1>9 DEF WriteFileFails, Abort, Rollback, Staged
<1>10. CASE Commit(r) BY <1>10 DEF Commit, CommitWrites, RowsVisible, Staged
<1>11. CASE CommitFails(r) BY <1>11 DEF CommitFails, CommitWrites, RowsVisible, Abort, Rollback, Staged
<1>12. CASE StatementFails(r) BY <1>12 DEF StatementFails, Abort, Rollback, Staged
<1>13. CASE SendTask(r) BY <1>13 DEF SendTask
<1>14. CASE SendTaskFails(r) BY <1>14 DEF SendTaskFails
<1>15. CASE Respond(r) BY <1>15 DEF Respond
<1>16. CASE UploadCrash(r) BY <1>16 DEF UploadCrash, Rollback, Staged
<1> QED BY <1>1, <1>2, <1>3, <1>4, <1>5, <1>6, <1>7, <1>8, <1>9, <1>10, <1>11, <1>12, <1>13, <1>14, <1>15, <1>16 DEF UploadStep

(* No upload step gives work to a document that was not committed. *)
LEMMA UploadStepNoWork ==
    ASSUME IInv, NEW r \in Request,
           Begin(r) \/ UploadStep(r) \/ UploadCrash(r)
    PROVE  NoWorkBeforeCommit'
<1> USE DEF IInv, TypeOK, UploadTypeOK
<1>1. UNCHANGED runs /\ UNCHANGED indexVars
  BY DEF Begin, UploadStep, RejectFile, RejectDuplicate, SelectNone,
         InsertDocument, InsertConflict, InsertDeadlock, WriteFile,
         WriteFileFails, Commit, CommitFails, StatementFails, SendTask,
         SendTaskFails, Respond, UploadCrash, Abort, storeVars
<1>2. ASSUME NEW d \in Doc, queue'[d] > 0
      PROVE  queue[d] > 0 \/ Committed(d)
  <2>1. CASE SendTask(r) \/ SendTaskFails(r)
    <3> DEFINE e == accepted[r][next[r]]
    <3>1. e \in Doc /\ Committed(e)
      BY <2>1 DEF SendTask, SendTaskFails, Sending, UploadInv, RequestInv
    <3>2. queue' = queue \/ queue' = [queue EXCEPT ![e] = @ + 1]
      BY <2>1 DEF SendTask, SendTaskFails, Publish
    <3> HIDE DEF e
    <3> QED BY <1>2, <3>1, <3>2 DEF StoresTypeOK
  <2>2. CASE ~(SendTask(r) \/ SendTaskFails(r))
    <3>1. queue' = queue
      BY <2>2 DEF Begin, UploadStep, RejectFile, RejectDuplicate, SelectNone,
                  InsertDocument, InsertConflict, InsertDeadlock, WriteFile,
                  WriteFileFails, Commit, CommitFails, StatementFails,
                  Respond, UploadCrash, Abort, storeVars
    <3> QED BY <1>2, <3>1
  <2> QED BY <2>1, <2>2
<1>3. \A d \in Doc : Committed(d) => Committed(d)'
  BY UploadStepRows
<1>4. SUFFICES ASSUME NEW d \in Doc,
                      \/ queue'[d] > 0
                      \/ runs'[d] > 0
                      \/ Of(points \union linked \union loose, d)' # {}
                      \/ d \in graphDocs'
               PROVE  Committed(d)'
  BY DEF NoWorkBeforeCommit, Committed
<1>5. \/ queue'[d] > 0
      \/ runs[d] > 0
      \/ Of(points \union linked \union loose, d) # {}
      \/ d \in graphDocs
  BY <1>1, <1>4 DEF indexVars, Of
<1>6. Committed(d)
  BY <1>2, <1>5 DEF NoWorkBeforeCommit, Committed
<1> QED BY <1>3, <1>6

(* No upload step makes two uncommitted or committed rows of one content. *)
LEMMA UploadStepUnique ==
    ASSUME IInv, NEW r \in Request,
           Begin(r) \/ UploadStep(r) \/ UploadCrash(r)
    PROVE  UniqueHolder'
<1> USE DEF IInv
<1>1. CASE InsertDocument(r)
  <2>1. PICK d \in Doc : /\ row[d] = "fresh"
                         /\ row' = [row EXCEPT ![d] = "staged"]
                         /\ keyOf' = [keyOf EXCEPT ![d] = File(r)]
    BY <1>1 DEF InsertDocument
  <2>2. \A e \in Doc : row[e] \in {"staged", "committed"} => keyOf[e] # File(r)
    <3> SUFFICES ASSUME NEW e \in Doc, row[e] \in {"staged", "committed"},
                        keyOf[e] = File(r)
                 PROVE  FALSE
      OBVIOUS
    <3>1. e \in Holders(File(r))
      BY DEF Holders
    <3>2. row[e] = "staged" /\ jobOf[e] # r
      BY <1>1, <3>1 DEF InsertDocument, Taken, Live
    <3>3. jobOf[e] \in Request
      BY <3>2 DEF StagedOwned
    <3>4. Blocked(r, jobOf[e])
      BY <1>1, <3>1, <3>2, <3>3 DEF Blocked, InsertDocument
    <3> QED BY <1>1, <3>3, <3>4 DEF InsertDocument, AnyBlocks
  <2> QED BY <2>1, <2>2 DEF UniqueHolder, TypeOK, StoresTypeOK
<1>2. CASE ~InsertDocument(r)
  <2>1. \A d \in Doc : keyOf'[d] = keyOf[d]
    BY <1>2 DEF Begin, UploadStep, RejectFile, RejectDuplicate, SelectNone,
         InsertConflict, InsertDeadlock, WriteFile,
         WriteFileFails, Commit, CommitFails, StatementFails, SendTask,
         SendTaskFails, Respond, UploadCrash, Abort, storeVars, pgVars
  <2>2. \A d \in Doc : row'[d] \in {"staged", "committed"}
                          => row[d] \in {"staged", "committed"}
    BY <1>2 DEF Begin, UploadStep, RejectFile, RejectDuplicate, SelectNone,
         InsertConflict, InsertDeadlock, WriteFile, WriteFileFails, Commit,
         CommitFails, CommitWrites, RowsVisible, StatementFails, SendTask,
         SendTaskFails, Respond, UploadCrash, Abort, Rollback, Staged,
         storeVars, pgVars
  <2> QED BY <2>1, <2>2 DEF UniqueHolder
<1> QED BY <1>1, <1>2

LEMMA AppendFacts ==
    ASSUME NEW S, NEW s \in Seq(S), NEW e \in S
    PROVE  /\ Append(s, e) # << >>
           /\ Len(Append(s, e)) = Len(s) + 1
           /\ Append(s, e)[Len(s) + 1] = e
           /\ \A i \in 1..Len(s) : Append(s, e)[i] = s[i]
OBVIOUS

(* What an upload step leaves of the other requests' invariant. *)
LEMMA UploadStepOthers ==
    ASSUME IInv, NEW r \in Request, NEW q \in Request, q # r,
           Begin(r) \/ UploadStep(r) \/ UploadCrash(r)
    PROVE  up'[q] = up[q] /\ next'[q] = next[q] /\ accepted'[q] = accepted[q]
<1> USE DEF IInv, TypeOK, UploadTypeOK
<1> QED
  BY DEF Begin, UploadStep, RejectFile, RejectDuplicate, SelectNone,
         InsertDocument, InsertConflict, InsertDeadlock, WriteFile,
         WriteFileFails, Commit, CommitFails, StatementFails, SendTask,
         SendTaskFails, Respond, UploadCrash, Abort

(* The invariant of the request that takes the step. *)
LEMMA UploadStepSelf ==
    ASSUME IInv, TypeOK', NEW r \in Request,
           Begin(r) \/ UploadStep(r) \/ UploadCrash(r)
    PROVE  RequestInv(r)'
<1> USE DEF IInv, TypeOK, UploadTypeOK, StoresTypeOK, storeVars, pgVars, RequestInv
<1>0. accepted[r] \in Seq(Doc) /\ up[r] \in UploadPC
  OBVIOUS
<1>1. CASE Begin(r)
  BY <1>0, <1>1 DEF Begin, UploadInv
<1>2. CASE RejectFile(r) \/ RejectDuplicate(r)
  BY <1>0, <1>2 DEF RejectFile, RejectDuplicate, Scanning, UploadInv
<1>3. CASE SelectNone(r)
  BY <1>0, <1>3 DEF SelectNone, Scanning, File, UploadInv
<1>4. CASE InsertDocument(r)
  <2>1. PICK d \in Doc : /\ row[d] = "fresh"
                         /\ row' = [row EXCEPT ![d] = "staged"]
                         /\ jobOf' = [jobOf EXCEPT ![d] = r]
                         /\ accepted' = [accepted EXCEPT ![r] = Append(@, d)]
    BY <1>4 DEF InsertDocument
  <2>2. accepted'[r] = Append(accepted[r], d) /\ up'[r] = "write"
    BY <1>4, <2>1 DEF InsertDocument
  <2>3. accepted'[r] # << >> /\ Len(accepted'[r]) = Len(accepted[r]) + 1
    <3> HIDE DEF IInv, TypeOK, UploadTypeOK, StoresTypeOK
    <3> QED BY <1>0, <2>2, AppendFacts
  <2>4. ASSUME NEW i \in 1..Len(accepted'[r])
        PROVE  row'[accepted'[r][i]] = "staged" /\ jobOf'[accepted'[r][i]] = r
    <3>1. CASE i = Len(accepted[r]) + 1
      <4>1. accepted'[r][i] = d
        BY <1>0, <2>2, <3>1, AppendFacts
      <4>2. row'[d] = "staged" /\ jobOf'[d] = r
        BY <2>1
      <4> QED BY <4>1, <4>2
    <3>2. CASE i \in 1..Len(accepted[r])
      <4>1. accepted'[r][i] = accepted[r][i] /\ accepted[r][i] \in Doc
        BY <1>0, <2>2, <3>2, AppendFacts
      <4>2. row[accepted[r][i]] = "staged" /\ jobOf[accepted[r][i]] = r
        BY <1>4, <3>2 DEF InsertDocument, UploadInv
      <4> QED BY <2>1, <4>1, <4>2
    <3> QED BY <1>0, <2>3, <3>1, <3>2
  <2> QED BY <2>2, <2>3, <2>4
<1>5. CASE InsertConflict(r) \/ InsertDeadlock(r) \/ WriteFileFails(r)
           \/ StatementFails(r) \/ UploadCrash(r)
  <2>1. up'[r] \in {"error", "crashed"}
    BY <1>5 DEF InsertConflict, InsertDeadlock, WriteFileFails, StatementFails,
                UploadCrash, Abort
  <2> QED BY <2>1
<1>6. CASE WriteFile(r)
  <2>1. /\ up[r] = "write" /\ up'[r] = "scan"
        /\ accepted' = accepted /\ row' = row /\ jobOf' = jobOf
    BY <1>0, <1>6 DEF WriteFile
  <2>2. \A i \in 1..Len(accepted[r]) :
            row[accepted[r][i]] = "staged" /\ jobOf[accepted[r][i]] = r
    BY <2>1 DEF UploadInv
  <2> QED BY <2>1, <2>2
<1>7. CASE Commit(r)
  <2>1. up'[r] = "send" /\ accepted'[r] = accepted[r]
    BY <1>7 DEF Commit
  <2>2. ASSUME NEW i \in 1..Len(accepted[r])
        PROVE  row'[accepted[r][i]] = "committed"
    <3>1. accepted[r][i] \in Staged(r)
      BY <1>0, <1>7 DEF Commit, AllScanned, Staged, UploadInv
    <3> QED BY <1>7, <3>1 DEF Commit, CommitWrites, RowsVisible, Staged
  <2> QED BY <2>1, <2>2 DEF Committed
<1>8. CASE CommitFails(r) \/ SendTaskFails(r) \/ Respond(r)
  <2>1. up'[r] \in {"error", "done"}
    BY <1>8 DEF CommitFails, SendTaskFails, Respond, Abort
  <2> QED BY <2>1
<1>9. CASE SendTask(r)
  BY <1>0, <1>9 DEF SendTask, Sending, UploadInv, Committed
<1> QED BY <1>1, <1>2, <1>3, <1>4, <1>5, <1>6, <1>7, <1>8, <1>9 DEF UploadStep

(* Every step of an upload request keeps the inductive invariant. *)
LEMMA UploadStepIInv ==
    ASSUME IInv, NEW r \in Request,
           Begin(r) \/ UploadStep(r) \/ UploadCrash(r), UNCHANGED <<slot, del>>
    PROVE  IInv'
<1>1. TypeOK'
  BY UploadStepType
<1>2. UniqueHolder'
  BY UploadStepUnique
<1>3. NoWorkBeforeCommit'
  BY UploadStepNoWork
<1>4. \A d \in Doc : Committed(d) => Committed(d)'
  BY UploadStepRows
<1>5. StagedOwned'
  <2> SUFFICES ASSUME NEW d \in Doc, row'[d] = "staged"
               PROVE  jobOf'[d] \in Request
    BY DEF StagedOwned
  <2>1. CASE row[d] = "staged"
    BY <2>1, UploadStepRows DEF IInv, StagedOwned
  <2>2. CASE row[d] # "staged"
    <3>1. InsertDocument(r)
      BY <2>2 DEF Begin, UploadStep, RejectFile, RejectDuplicate, SelectNone,
         InsertConflict, InsertDeadlock, WriteFile, WriteFileFails, Commit,
         CommitFails, CommitWrites, RowsVisible, StatementFails, SendTask,
         SendTaskFails, Respond, UploadCrash, Abort, Rollback, storeVars, pgVars
    <3> QED BY <2>2, <3>1 DEF InsertDocument, IInv, TypeOK, StoresTypeOK
  <2> QED BY <2>1, <2>2
<1>6. UploadInv'
  <2>1. ASSUME NEW q \in Request, q # r
        PROVE  RequestInv(q)'
    <3>1. up'[q] = up[q] /\ next'[q] = next[q] /\ accepted'[q] = accepted[q]
      BY <2>1, UploadStepOthers
    <3>2. \A i \in 1..Len(accepted[q]) : accepted[q][i] \in Doc
      BY DEF IInv, TypeOK, UploadTypeOK
    <3>3. \A d \in Doc : row[d] = "staged" /\ jobOf[d] = q
                           => row'[d] = "staged" /\ jobOf'[d] = q
      BY <2>1, UploadStepRows
    <3>4. RequestInv(q)
      BY DEF IInv, UploadInv
    <3> QED BY <1>4, <3>1, <3>2, <3>3, <3>4 DEF RequestInv, File
  <2> QED BY <1>1, <2>1, UploadStepSelf DEF UploadInv, IInv
<1>7. SlotInv'
  <2>1. UNCHANGED runs
    BY DEF Begin, UploadStep, RejectFile, RejectDuplicate, SelectNone,
           InsertDocument, InsertConflict, InsertDeadlock, WriteFile,
           WriteFileFails, Commit, CommitFails, StatementFails, SendTask,
           SendTaskFails, Respond, UploadCrash, Abort, storeVars
  <2> QED BY <2>1 DEF IInv, SlotInv, At, Task
<1>8. DeletionInv'
  BY <1>4 DEF IInv, DeletionInv, Target
<1> QED BY <1>1, <1>2, <1>3, <1>5, <1>6, <1>7, <1>8 DEF IInv

(* What every step of a worker or of the broker leaves alone. *)
LEMMA WorkerStepFrame ==
    ASSUME WorkerNext
    PROVE  UNCHANGED <<row, keyOf, jobOf, files>>
BY DEF WorkerNext, WorkerStep, Take, Redeliver, SetRunning, SetRunningFails,
       Extract, UpsertPoints, UpsertPointsFails, MergeDocument,
       MergeDocumentFails, MergeChunks, MergeChunksFails, SetCompleted,
       SetCompletedFails, SetFailed, SetFailedFails, WorkerCrash,
       storeVars, pgVars

(* A busy worker's chunk is a chunk. *)
LEMMA ChunkType ==
    ASSUME IInv, NEW w \in Worker, ~At(w, "idle")
    PROVE  Chunk(w) \in Chunks /\ Task(w) \in Doc
BY DEF IInv, TypeOK, WorkerTypeOK, Slot, SlotInv, Chunk, Chunks, Task, At

(* Every step of a worker or of the broker keeps the types. *)
LEMMA WorkerStepType ==
    ASSUME IInv, WorkerNext, UNCHANGED <<upVars, del>>
    PROVE  TypeOK'
<1> USE DEF IInv, TypeOK
<1>1. UploadTypeOK' /\ DeletionTypeOK'
  BY DEF UploadTypeOK, DeletionTypeOK, upVars
<1>2. ASSUME NEW w \in Worker, NEW d \in Doc, Take(w, d)
      PROVE  StoresTypeOK' /\ WorkerTypeOK'
  <2>1. queue' \in [Doc -> Nat] /\ runs' \in [Doc -> Nat]
    BY <1>2 DEF Take, Acknowledged, StoresTypeOK
  <2>2. slot' \in [Worker -> Slot]
    BY <1>2 DEF Take, WorkerTypeOK, Slot, WorkerPC, StoresTypeOK
  <2> QED BY <1>2, <2>1, <2>2 DEF Take, StoresTypeOK, WorkerTypeOK, pgVars, indexVars
<1>3. ASSUME NEW d \in Doc, Redeliver(d)
      PROVE  StoresTypeOK' /\ WorkerTypeOK'
  BY <1>3 DEF Redeliver, StoresTypeOK, WorkerTypeOK, pgVars, indexVars
<1>4. ASSUME NEW w \in Worker, WorkerStep(w) \/ WorkerCrash(w),
             \A d \in Doc : ~Take(w, d)
      PROVE  WorkerTypeOK'
  <2>1. \/ slot' = [slot EXCEPT ![w] = IdleSlot]
        \/ \E pc \in WorkerPC : slot' = [slot EXCEPT ![w].pc = pc]
    BY <1>4 DEF WorkerStep, SetRunning, SetRunningFails, Extract, AfterOcr,
         UpsertPoints, UpsertPointsFails, MergeDocument, MergeDocumentFails,
         MergeChunks, MergeChunksFails, SetCompleted, SetCompletedFails,
         SetFailed, SetFailedFails, WorkerCrash, Goto, Release, OnStoreError,
         WorkerPC
  <2>2. IdleSlot \in Slot
    BY DEF IdleSlot, Slot, WorkerPC
  <2>3. ASSUME NEW pc \in WorkerPC
        PROVE  [slot[w] EXCEPT !.pc = pc] \in Slot
    BY DEF WorkerTypeOK, Slot
  <2> QED BY <2>1, <2>2, <2>3 DEF WorkerTypeOK
<1>5. ASSUME NEW w \in Worker, WorkerStep(w) \/ WorkerCrash(w),
             \A d \in Doc : ~Take(w, d)
      PROVE  StoresTypeOK'
  <2> USE DEF StoresTypeOK, storeVars, pgVars, indexVars
  <2>1. CASE \/ SetRunning(w) \/ SetRunningFails(w)
             \/ SetCompleted(w) \/ SetCompletedFails(w)
             \/ SetFailed(w)
    <3>1. \/ UNCHANGED <<status, jobs>>
          \/ \E s \in DocStatus : SetStatus(Task(w), s)
      BY <2>1 DEF SetRunning, SetRunningFails, SetCompleted, SetCompletedFails,
                  SetFailed, RecordFailure, FailureStatus, NothingSet, DocStatus
    <3>2. status' \in [Doc -> DocStatus] /\ jobs' \in [Request -> JobRow]
      BY <3>1, SetStatusType
    <3> QED BY <2>1, <3>2 DEF SetRunning, SetRunningFails, SetCompleted,
                              SetCompletedFails, SetFailed
  <2>2. CASE Extract(w) \/ SetFailedFails(w) \/ WorkerCrash(w)
    BY <2>2 DEF Extract, SetFailedFails, WorkerCrash
  <2>3. CASE UpsertPoints(w) \/ UpsertPointsFails(w)
    <3>1. Chunk(w) \in Chunks
      BY <2>3, ChunkType DEF UpsertPoints, UpsertPointsFails, At
    <3> QED BY <2>3, <3>1 DEF UpsertPoints, UpsertPointsFails
  <2>4. CASE MergeDocument(w) \/ MergeDocumentFails(w)
    <3>1. Task(w) \in Doc
      BY <2>4, ChunkType DEF MergeDocument, MergeDocumentFails, At
    <3> QED BY <2>4, <3>1 DEF MergeDocument, MergeDocumentFails
  <2>5. CASE MergeChunks(w) \/ MergeChunksFails(w)
    <3>1. Chunk(w) \in Chunks
      BY <2>5, ChunkType DEF MergeChunks, MergeChunksFails, At
    <3> QED BY <2>5, <3>1 DEF MergeChunks, MergeChunksFails, ChunkWrites
  <2> QED BY <1>5, <2>1, <2>2, <2>3, <2>4, <2>5 DEF WorkerStep
<1> QED BY <1>1, <1>2, <1>3, <1>4, <1>5 DEF WorkerNext, WorkerStep

(* A worker writes about a document it has a message for. *)
LEMMA WorkerStepNoWork ==
    ASSUME IInv, WorkerNext
    PROVE  NoWorkBeforeCommit'
<1> USE DEF IInv
<1>1. UNCHANGED row
  BY WorkerStepFrame
<1>2. SUFFICES ASSUME NEW d \in Doc, row[d] \notin {"committed", "deleted"}
               PROVE  /\ ~(queue'[d] > 0)
                      /\ ~(runs'[d] > 0)
                      /\ Of(points \union linked \union loose, d)' = {}
                      /\ d \notin graphDocs'
  BY <1>1 DEF NoWorkBeforeCommit
<1>3. /\ ~(queue[d] > 0)
      /\ ~(runs[d] > 0)
      /\ \A c \in points \union linked \union loose : c[1] # d
      /\ d \notin graphDocs
  BY <1>2 DEF NoWorkBeforeCommit, Of
<1>4. ASSUME NEW w \in Worker, ~At(w, "idle")
      PROVE  Task(w) # d /\ Chunk(w)[1] # d
  BY <1>3, <1>4 DEF SlotInv, Chunk, Task
<1>5. ~(queue'[d] > 0) /\ ~(runs'[d] > 0)
  <2>1. ASSUME NEW w \in Worker, NEW e \in Doc, Take(w, e)
        PROVE  ~(queue'[d] > 0) /\ ~(runs'[d] > 0)
    BY <1>3, <2>1 DEF Take, TypeOK, StoresTypeOK
  <2>2. ASSUME NEW e \in Doc, Redeliver(e)
        PROVE  ~(queue'[d] > 0) /\ ~(runs'[d] > 0)
    BY <1>3, <2>2 DEF Redeliver, TypeOK, StoresTypeOK
  <2>3. ASSUME NEW w \in Worker, WorkerStep(w) \/ WorkerCrash(w),
               \A e \in Doc : ~Take(w, e)
        PROVE  UNCHANGED <<queue, runs>>
    BY <2>3 DEF WorkerStep, SetRunning, SetRunningFails, Extract,
         UpsertPoints, UpsertPointsFails, MergeDocument, MergeDocumentFails,
         MergeChunks, MergeChunksFails, SetCompleted, SetCompletedFails,
         SetFailed, SetFailedFails, WorkerCrash, storeVars
  <2> QED BY <1>3, <2>1, <2>2, <2>3 DEF WorkerNext, WorkerStep
<1>6. /\ \A c \in points' \union linked' \union loose' : c[1] # d
      /\ d \notin graphDocs'
  <2>1. CASE UNCHANGED indexVars
    BY <1>3, <2>1 DEF indexVars
  <2>2. ASSUME NEW w \in Worker, UpsertPoints(w) \/ UpsertPointsFails(w)
        PROVE  /\ \A c \in points' \union linked' \union loose' : c[1] # d
               /\ d \notin graphDocs'
    <3>1. Chunk(w)[1] # d
      BY <1>4, <2>2 DEF UpsertPoints, UpsertPointsFails, At
    <3> QED BY <1>3, <2>2, <3>1 DEF UpsertPoints, UpsertPointsFails
  <2>3. ASSUME NEW w \in Worker, MergeDocument(w) \/ MergeDocumentFails(w)
        PROVE  /\ \A c \in points' \union linked' \union loose' : c[1] # d
               /\ d \notin graphDocs'
    <3>1. Task(w) # d
      BY <1>4, <2>3 DEF MergeDocument, MergeDocumentFails, At
    <3> QED BY <1>3, <2>3, <3>1 DEF MergeDocument, MergeDocumentFails
  <2>4. ASSUME NEW w \in Worker, MergeChunks(w) \/ MergeChunksFails(w)
        PROVE  /\ \A c \in points' \union linked' \union loose' : c[1] # d
               /\ d \notin graphDocs'
    <3>1. Chunk(w)[1] # d
      BY <1>4, <2>4 DEF MergeChunks, MergeChunksFails, At
    <3> QED BY <1>3, <2>4, <3>1 DEF MergeChunks, MergeChunksFails, ChunkWrites
  <2> QED BY <2>1, <2>2, <2>3, <2>4
          DEF WorkerNext, WorkerStep, Take, Redeliver, SetRunning,
              SetRunningFails, Extract, SetCompleted, SetCompletedFails,
              SetFailed, SetFailedFails, WorkerCrash, storeVars
<1> QED BY <1>5, <1>6 DEF Of

(* Every step of a worker or of the broker keeps the inductive invariant. *)
LEMMA WorkerStepIInv ==
    ASSUME IInv, WorkerNext, UNCHANGED <<upVars, del>>
    PROVE  IInv'
<1>1. TypeOK'
  BY WorkerStepType
<1>2. NoWorkBeforeCommit'
  BY WorkerStepNoWork
<1>3. UNCHANGED <<row, keyOf, jobOf>>
  BY WorkerStepFrame
<1>4. UniqueHolder' /\ StagedOwned' /\ DeletionInv'
  BY <1>3 DEF IInv, UniqueHolder, StagedOwned, DeletionInv, Committed, Target
<1>5. UploadInv'
  BY <1>3 DEF IInv, UploadInv, RequestInv, Committed, File, upVars
<1>6. SlotInv'
  <2> USE DEF IInv, SlotInv, At, Task
  <2>1. ASSUME NEW w \in Worker, NEW d \in Doc, Take(w, d)
        PROVE  SlotInv'
    <3>1. /\ slot' = [slot EXCEPT ![w] = [pc |-> "begin", doc |-> d, run |-> runs[d] + 1]]
          /\ runs' = [runs EXCEPT ![d] = @ + 1]
      BY <2>1 DEF Take
    <3>2. \A e \in Doc : runs[e] \in Nat
      BY DEF TypeOK, StoresTypeOK
    <3>3. \A v \in Worker : v # w => slot'[v] = slot[v]
      BY <3>1 DEF TypeOK, WorkerTypeOK
    <3>4. slot'[w] = [pc |-> "begin", doc |-> d, run |-> runs[d] + 1]
      BY <3>1 DEF TypeOK, WorkerTypeOK
    <3>5. \A e \in Doc : runs[e] > 0 => runs'[e] > 0
      BY <3>1, <3>2 DEF TypeOK, StoresTypeOK
    <3>6. runs'[d] > 0 /\ runs[d] + 1 # 0
      BY <3>1, <3>2 DEF TypeOK, StoresTypeOK
    <3> QED BY <3>3, <3>4, <3>5, <3>6
  <2>2. ASSUME NEW d \in Doc, Redeliver(d)
        PROVE  SlotInv'
    BY <2>2 DEF Redeliver
  <2>3. ASSUME NEW w \in Worker, WorkerStep(w) \/ WorkerCrash(w),
               \A d \in Doc : ~Take(w, d)
        PROVE  SlotInv'
    <3>1. /\ ~At(w, "idle")
          /\ UNCHANGED runs
          /\ \/ slot' = [slot EXCEPT ![w] = IdleSlot]
             \/ \E pc \in WorkerPC : slot' = [slot EXCEPT ![w].pc = pc]
      BY <2>3 DEF WorkerStep, SetRunning, SetRunningFails, Extract, AfterOcr,
           UpsertPoints, UpsertPointsFails, MergeDocument, MergeDocumentFails,
           MergeChunks, MergeChunksFails, SetCompleted, SetCompletedFails,
           SetFailed, SetFailedFails, WorkerCrash, Goto, Release, OnStoreError,
           WorkerPC, storeVars
    <3>2. \A v \in Worker : v # w => slot'[v] = slot[v]
      BY <3>1 DEF TypeOK, WorkerTypeOK
    <3>3. \/ slot'[w].pc = "idle"
          \/ slot'[w].doc = slot[w].doc /\ slot'[w].run = slot[w].run
      BY <3>1 DEF TypeOK, WorkerTypeOK, Slot, IdleSlot
    <3> QED BY <3>1, <3>2, <3>3
  <2> QED BY <2>1, <2>2, <2>3 DEF WorkerNext, WorkerStep
<1> QED BY <1>1, <1>2, <1>3, <1>4, <1>5, <1>6 DEF IInv

(* What every step of a delete request does to the shared stores. *)
LEMMA DeletionStepFrame ==
    ASSUME IInv, DeletionNext
    PROVE  /\ UNCHANGED <<keyOf, jobOf, status, jobs, queue, runs, loose>>
           /\ files' \subseteq files
           /\ points' \subseteq points
           /\ linked' \subseteq linked
           /\ graphDocs' \subseteq graphDocs
           /\ \/ row' = row
              \/ \E h \in Deletion : /\ Committed(Target(h)) /\ Target(h) \in Doc
                                     /\ row' = [row EXCEPT ![Target(h)] = "deleted"]
<1> USE DEF storeVars, pgVars, indexVars
<1>1. ASSUME NEW h \in Deletion, NEW d \in Doc, Lookup(h, d)
      PROVE  UNCHANGED storeVars
  BY <1>1 DEF Lookup
<1>2. ASSUME NEW h \in Deletion, DeletePoints(h) \/ DeletePointsFails(h)
      PROVE  /\ UNCHANGED <<pgVars, files, queue, runs, graphDocs, linked, loose>>
             /\ points' \subseteq points
  BY <1>2 DEF DeletePoints, DeletePointsFails
<1>3. ASSUME NEW h \in Deletion, DeleteGraph(h) \/ DeleteGraphFails(h)
      PROVE  /\ UNCHANGED <<pgVars, files, queue, runs, points, loose>>
             /\ linked' \subseteq linked /\ graphDocs' \subseteq graphDocs
  BY <1>3 DEF DeleteGraph, DeleteGraphFails, GraphDeleted
<1>4. ASSUME NEW h \in Deletion,
             UnlinkFile(h) \/ UnlinkFileFails(h) \/ DeletionCrash(h)
      PROVE  /\ UNCHANGED <<pgVars, queue, runs, indexVars>>
             /\ files' \subseteq files
  BY <1>4 DEF UnlinkFile, UnlinkFileFails, DeletionCrash
<1>5. ASSUME NEW h \in Deletion, DeleteRow(h) \/ DeleteRowFails(h)
      PROVE  /\ UNCHANGED <<keyOf, jobOf, status, jobs, files, queue, runs, indexVars>>
             /\ Committed(Target(h)) /\ Target(h) \in Doc
             /\ row' = row \/ row' = [row EXCEPT ![Target(h)] = "deleted"]
  BY <1>5 DEF DeleteRow, DeleteRowFails, Stage, IInv, DeletionInv
<1> QED BY <1>1, <1>2, <1>3, <1>4, <1>5 DEF DeletionNext, DeletionStep

(* Advance changes the stage and the record of one request only. *)
LEMMA AdvanceEffect ==
    ASSUME TypeOK, NEW h \in Deletion, NEW pc \in DeletionPC,
           NEW ok \in SUBSET {"vector", "graph", "file"}, Advance(h, pc, ok)
    PROVE  /\ del' \in [Deletion -> DeletionState]
           /\ \A g \in Deletion : g # h => del'[g] = del[g]
           /\ del'[h].doc = del[h].doc
<1> DEFINE new == [pc |-> pc, doc |-> del[h].doc, seen |-> del[h].seen,
                   ok |-> del[h].ok \union ok]
<1>1. del[h] \in DeletionState
  BY DEF TypeOK, DeletionTypeOK
<1>2. new \in DeletionState
  BY <1>1 DEF DeletionState
<1>3. del' = [del EXCEPT ![h] = new]
  BY DEF Advance
<1>4. new.doc = del[h].doc
  OBVIOUS
<1> HIDE DEF new
<1> QED BY <1>2, <1>3, <1>4 DEF TypeOK, DeletionTypeOK

(* Every step of a delete request past its lookup advances it. *)
LEMMA DeletionStepAdvances ==
    ASSUME NEW h \in Deletion, DeletionStep(h) \/ DeletionCrash(h)
    PROVE  \E pc \in DeletionPC, ok \in SUBSET {"vector", "graph", "file"} :
              Advance(h, pc, ok)
<1>1. CASE DeletionCrash(h)
  <2>1. Advance(h, "crashed", {}) BY <1>1 DEF DeletionCrash
  <2> QED BY <2>1 DEF DeletionPC
<1>2. CASE DeletePoints(h)
  <2>1. Advance(h, "graph", {"vector"}) BY <1>2 DEF DeletePoints
  <2> QED BY <2>1 DEF DeletionPC
<1>3. CASE DeletePointsFails(h)
  <2>1. Advance(h, "graph", {}) BY <1>3 DEF DeletePointsFails
  <2> QED BY <2>1 DEF DeletionPC
<1>4. CASE DeleteGraph(h)
  <2>1. Advance(h, "file", {"graph"}) BY <1>4 DEF DeleteGraph
  <2> QED BY <2>1 DEF DeletionPC
<1>5. CASE DeleteGraphFails(h)
  <2>1. Advance(h, "file", {}) BY <1>5 DEF DeleteGraphFails
  <2> QED BY <2>1 DEF DeletionPC
<1>6. CASE UnlinkFile(h)
  <2>1. Advance(h, "row", {"file"}) BY <1>6 DEF UnlinkFile
  <2> QED BY <2>1 DEF DeletionPC
<1>7. CASE UnlinkFileFails(h)
  <2>1. Advance(h, "row", {}) BY <1>7 DEF UnlinkFileFails
  <2> QED BY <2>1 DEF DeletionPC
<1>8. CASE DeleteRow(h)
  <2>1. Advance(h, "done", {}) BY <1>8 DEF DeleteRow
  <2> QED BY <2>1 DEF DeletionPC
<1>9. CASE DeleteRowFails(h)
  <2>1. Advance(h, "error", {}) BY <1>9 DEF DeleteRowFails
  <2> QED BY <2>1 DEF DeletionPC
<1> QED BY <1>1, <1>2, <1>3, <1>4, <1>5, <1>6, <1>7, <1>8, <1>9 DEF DeletionStep

(* Every step of a delete request keeps the inductive invariant. *)
LEMMA DeletionStepIInv ==
    ASSUME IInv, DeletionNext, UNCHANGED <<upVars, slot>>
    PROVE  IInv'
<1>1. /\ row' \in [Doc -> RowState]
      /\ \A d \in Doc : row'[d] = row[d] \/ (Committed(d) /\ row'[d] = "deleted")
  BY DeletionStepFrame DEF IInv, TypeOK, StoresTypeOK, RowState
<1>2. del' \in [Deletion -> DeletionState]
  <2> USE DEF IInv, TypeOK, DeletionTypeOK
  <2>1. ASSUME NEW h \in Deletion, NEW d \in Doc, Lookup(h, d)
        PROVE  del' \in [Deletion -> DeletionState]
    <3>1. status[d] \in DocStatus
      BY DEF StoresTypeOK
    <3>2. [pc |-> "vector", doc |-> d, seen |-> status[d], ok |-> {}] \in DeletionState
      BY <3>1 DEF DeletionState, DeletionPC
    <3>3. [del[h] EXCEPT !.pc = "notfound"] \in DeletionState
      BY DEF DeletionState, DeletionPC
    <3> QED BY <2>1, <3>2, <3>3 DEF Lookup
  <2>2. ASSUME NEW h \in Deletion, DeletionStep(h) \/ DeletionCrash(h)
        PROVE  del' \in [Deletion -> DeletionState]
    <3> QED BY <2>2, DeletionStepAdvances, AdvanceEffect
  <2> QED BY <2>1, <2>2 DEF DeletionNext
<1>3. TypeOK'
  BY <1>1, <1>2, DeletionStepFrame
     DEF IInv, TypeOK, StoresTypeOK, UploadTypeOK, WorkerTypeOK, DeletionTypeOK, upVars
<1>4. UniqueHolder' /\ StagedOwned'
  BY <1>1, DeletionStepFrame DEF IInv, UniqueHolder, StagedOwned
<1>5. NoWorkBeforeCommit'
  BY <1>1, DeletionStepFrame DEF IInv, NoWorkBeforeCommit, Of, Committed
<1>6. UploadInv'
  <2> SUFFICES ASSUME NEW r \in Request PROVE RequestInv(r)'
    BY DEF UploadInv
  <2>1. RequestInv(r)
    BY DEF IInv, UploadInv
  <2>2. \A i \in 1..Len(accepted[r]) : accepted[r][i] \in Doc
    BY DEF IInv, TypeOK, UploadTypeOK
  <2>3. UNCHANGED jobOf
    BY DeletionStepFrame
  <2> QED BY <1>1, <2>1, <2>2, <2>3 DEF RequestInv, Committed, File, upVars
<1>7. SlotInv'
  BY DeletionStepFrame DEF IInv, SlotInv, At, Task
<1>8. DeletionInv'
  <2>1. \A d \in Doc : Committed(d) => Committed(d)'
    BY <1>1 DEF Committed
  <2>2. ASSUME NEW h \in Deletion, NEW d \in Doc, Lookup(h, d)
        PROVE  DeletionInv'
    <3>1. /\ \A g \in Deletion : g # h => del'[g] = del[g]
          /\ \/ Live(d) /\ del'[h].doc = d
             \/ del'[h].pc = "notfound" /\ del'[h].doc = del[h].doc
      <4>1. del \in [Deletion -> DeletionState] /\ del[h] \in DeletionState
        BY DEF IInv, TypeOK, DeletionTypeOK
      <4>2. CASE Live(d)
        BY <2>2, <4>1, <4>2 DEF Lookup
      <4>3. CASE ~Live(d)
        <5>1. del' = [del EXCEPT ![h].pc = "notfound"]
          BY <2>2, <4>3 DEF Lookup
        <5> QED BY <4>1, <5>1 DEF DeletionState
      <4> QED BY <4>2, <4>3
    <3> QED BY <2>1, <3>1 DEF IInv, DeletionInv, Target, Committed, Live
  <2>3. ASSUME NEW h \in Deletion, DeletionStep(h) \/ DeletionCrash(h)
        PROVE  DeletionInv'
    <3>1. del[h].pc \in {"vector", "graph", "file", "row"}
      BY <2>3 DEF DeletionStep, DeletePoints, DeletePointsFails, DeleteGraph,
           DeleteGraphFails, UnlinkFile, UnlinkFileFails, DeleteRow,
           DeleteRowFails, DeletionCrash, Stage, DeletionOver,
           IInv, TypeOK, DeletionTypeOK, DeletionState, DeletionPC
    <3>2. /\ \A g \in Deletion : g # h => del'[g] = del[g]
          /\ del'[h].doc = del[h].doc
      BY <2>3, DeletionStepAdvances, AdvanceEffect DEF IInv
    <3> QED BY <2>1, <3>1, <3>2 DEF IInv, DeletionInv, Target
  <2> QED BY <2>2, <2>3 DEF DeletionNext
<1> QED BY <1>3, <1>4, <1>5, <1>6, <1>7, <1>8 DEF IInv

-----------------------------------------------------------------------------
(* Every step of the system keeps the invariant ... *)
LEMMA NextIInv == ASSUME IInv, [Next]_vars PROVE IInv'
<1>1. CASE UploadNext /\ UNCHANGED <<slot, del>>
  BY <1>1, UploadStepIInv DEF UploadNext
<1>2. CASE WorkerNext /\ UNCHANGED <<upVars, del>>
  BY <1>2, WorkerStepIInv
<1>3. CASE DeletionNext /\ UNCHANGED <<upVars, slot>>
  BY <1>3, DeletionStepIInv
<1>4. CASE UNCHANGED vars
  <2> USE <1>4 DEF vars, storeVars, pgVars, indexVars, upVars
  <2>1. TypeOK'
    BY DEF IInv, TypeOK, StoresTypeOK, UploadTypeOK, WorkerTypeOK, DeletionTypeOK
  <2>2. UniqueHolder' /\ StagedOwned' /\ NoWorkBeforeCommit'
    BY DEF IInv, UniqueHolder, StagedOwned, NoWorkBeforeCommit, Of
  <2>3. UploadInv'
    BY DEF IInv, UploadInv, RequestInv, Committed, File
  <2>4. SlotInv' /\ DeletionInv'
    BY DEF IInv, SlotInv, DeletionInv, At, Task, Target, Committed
  <2> QED BY <2>1, <2>2, <2>3, <2>4 DEF IInv
<1> QED BY <1>1, <1>2, <1>3, <1>4 DEF Next, Rest

(* ... which is therefore inductive. *)
THEOREM Invariance == Spec => []IInv
<1>1. Init => IInv
  BY InitIInv
<1>2. IInv /\ [Next]_vars => IInv'
  BY NextIInv
<1> QED BY <1>1, <1>2, PTL DEF Spec

(* Every variable keeps its type, whatever the requests, workers and faults. *)
THEOREM TypeCorrect == Spec => []TypeOK
<1>1. IInv => TypeOK
  BY DEF IInv
<1> QED BY <1>1, Invariance, PTL

(* Two committed rows never hold the same content of the same tenant, however
   many uploads race each other and whichever of them fail or crash. *)
THEOREM UniqueContentHolds == Spec => []UniqueContent
<1>1. IInv => UniqueContent
  BY DEF IInv, UniqueHolder, UniqueContent, Live
<1> QED BY <1>1, Invariance, PTL

(* No ingest message is sent, executed or leaves a trace in an index for a row
   whose upload transaction was not committed. *)
THEOREM NoWorkBeforeCommitHolds == Spec => []NoWorkBeforeCommit
<1>1. IInv => NoWorkBeforeCommit
  BY DEF IInv
<1> QED BY <1>1, Invariance, PTL
=============================================================================
