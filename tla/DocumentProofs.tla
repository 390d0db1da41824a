---------------------------- MODULE DocumentProofs ----------------------------
(***************************************************************************)
(* What is promised about one document, from the request that uploads it   *)
(* to the request that deletes it, for every set of requests, workers and  *)
(* faults: its file, its index entries, its messages and its status.       *)
(***************************************************************************)
EXTENDS LifecycleProofs

(***************************************************************************)
(* The inductive invariant, in four parts on top of IInv.                  *)
(***************************************************************************)

InTransaction(r) == up[r] \in {"scan", "insert", "write"}
Messages(d) == queue[d] + runs[d]

(* The rows of a request are the ones it accepted, each of them once, and an
   uncommitted row is one of an open request. *)
RequestRows(r) ==
    InTransaction(r) \/ up[r] = "send" =>
        \A i, j \in 1..Len(accepted[r]) :
            /\ jobOf[accepted[r][i]] = r
            /\ accepted[r][i] = accepted[r][j] => i = j

RowsOwned ==
    \A d \in Doc :
        /\ row[d] # "fresh" => jobOf[d] \in Request
        /\ row[d] = "staged" => /\ InTransaction(jobOf[d])
                                /\ \E i \in 1..Len(accepted[jobOf[d]]) : accepted[jobOf[d]][i] = d

(* The bytes of an accepted file are on disk, except for the one that is about
   to be written. *)
RequestFiles(r) ==
    InTransaction(r) => \A i \in 1..Len(accepted[r]) :
        accepted[r][i] \in files \/ (up[r] = "write" /\ i = Len(accepted[r]))

(* A duplicate has a counterpart, which the request itself may still lose. *)
RequestDups(r) ==
    /\ up[r] = "idle" => dups[r] = {}
    /\ InTransaction(r) \/ up[r] \in {"send", "done"} =>
          \A i \in dups[r] : \E d \in Doc :
              /\ keyOf[d] = FilesOf[r][i]
              /\ Committed(d) \/ (InTransaction(r) /\ row[d] = "staged" /\ jobOf[d] = r)

(* Messages are sent in order, one for each accepted document. *)
RequestSent(r) ==
    /\ up[r] = "send" => \A i \in 1..Len(accepted[r]) :
          IF i < next[r] THEN Messages(accepted[r][i]) > 0
                         ELSE queue[accepted[r][i]] = 0 /\ runs[accepted[r][i]] = 0
    /\ up[r] = "done" => \A i \in 1..Len(accepted[r]) : Messages(accepted[r][i]) > 0

RequestsInv ==
    \A r \in Request : RequestRows(r) /\ RequestFiles(r) /\ RequestDups(r) /\ RequestSent(r)

(* Only a deletion takes a file of a committed row away; a file never precedes
   its row. *)
FilesThere == \A d \in Doc : Committed(d) /\ ~Touched(d) => d \in files
FilesNamed == \A d \in files : row[d] # "fresh"

(* A delete request has a document from its lookup on. *)
Targets ==
    \A h \in Deletion :
        /\ del[h].pc \in {"idle", "notfound"} => Target(h) = NoDoc /\ del[h].seen = "pending"
        /\ del[h].pc \notin {"idle", "notfound"} => Target(h) \in Doc

UploadSide == RequestsInv /\ RowsOwned /\ FilesThere /\ FilesNamed /\ FilesAreAccountedFor /\ Targets

(* The executions of one document have different numbers. *)
RunsNumbered ==
    \A v, w \in Worker :
        ~At(v, "idle") /\ ~At(w, "idle") /\ Task(v) = Task(w) =>
            /\ slot[w].run \in 1..runs[Task(w)]
            /\ slot[v].run = slot[w].run => v = w

IdleHasNone == \A w \in Worker : At(w, "idle") => Task(w) = NoDoc

(* What an execution has written by the time it is at a statement, unless a
   delete request has been at the document. *)
SlotWrites(w) ==
    /\ At(w, "document") \/ At(w, "chunks") => Chunk(w) \in points
    /\ At(w, "chunks") => Task(w) \in graphDocs
    /\ At(w, "complete") => keyOf[Task(w)] \in Blank \/ Chunk(w) \in points \cap linked
WorkWrites == \A w \in Worker : ~Touched(Task(w)) => SlotWrites(w)

(* The status says what an execution did, and nothing before there was one. *)
CompletedHolds ==
    \A d \in Doc : status[d] = "completed" /\ ~Touched(d) =>
        keyOf[d] \in Blank \/ Of(points, d) \cap linked # {}
StatusByRun == \A d \in Doc : status[d] # "pending" => runs[d] > 0

WorkSide ==
    RunsNumbered /\ IdleHasNone /\ WorkWrites /\ CompletedHolds /\ StatusByRun /\ LooseOnlyAfterDelete

(* Delivered once, a message is executed once, and a document that is completed
   or failed is written to by nobody any more. *)
SettledAlone(d) ==
    status[d] \in Terminal =>
        queue[d] = 0 /\ \A w \in Worker : Task(w) = d => At(w, "fail")
OnceOnly ==
    \A d \in Doc : /\ MaxRedelivery = 0 => DeliveredOnce(d)
                   /\ DeliveredOnce(d) => SettledAlone(d)

(* What a delete request that found it so has deleted stays deleted. *)
OnlyDelete(h) == \A g \in Deletion : Target(g) = Target(h) => g = h
DeletedFor(h) ==
    LET d == Target(h)
    IN  /\ status[d] \in Terminal
        /\ "vector" \in del[h].ok => Of(points, d) = {}
        /\ "graph" \in del[h].ok => d \notin graphDocs /\ Of(linked, d) = {}
        /\ "file" \in del[h].ok => d \notin files
        /\ Stage(h, "done") => row[d] = "deleted"
        /\ OnlyDelete(h) => Of(loose, d) = {}
DeletesSettled ==
    \A h \in Deletion :
        del[h].seen \in Terminal /\ DeliveredOnce(Target(h)) => DeletedFor(h)

DocInv == IInv /\ UploadSide /\ WorkSide /\ OnceOnly /\ DeletesSettled

Handles(r) == Begin(r) \/ UploadStep(r) \/ UploadCrash(r)

-----------------------------------------------------------------------------
(* Initially nothing has been uploaded, executed or deleted. *)
LEMMA InitDocInv == Init => DocInv
<1> SUFFICES ASSUME Init PROVE DocInv
  OBVIOUS
<1>1. IInv
  BY InitIInv
<1> USE DEF Init, StoresInit, UploadInit, WorkerInit, DeletionInit
<1>2. RequestsInv
  BY DEF RequestsInv, RequestRows, RequestFiles, RequestDups, RequestSent, InTransaction
<1>3. RowsOwned /\ FilesThere /\ FilesNamed /\ FilesAreAccountedFor /\ Targets
  BY DEF RowsOwned, FilesThere, FilesNamed, FilesAreAccountedFor, Targets, Committed, Target
<1>4. WorkSide
  BY DEF WorkSide, RunsNumbered, IdleHasNone, WorkWrites, SlotWrites, CompletedHolds,
         StatusByRun, LooseOnlyAfterDelete, At, Task, IdleSlot, Of
<1>5. OnceOnly /\ DeletesSettled
  BY DEF OnceOnly, SettledAlone, DeliveredOnce, DeletesSettled, Terminal
<1> QED BY <1>1, <1>2, <1>3, <1>4, <1>5 DEF DocInv, UploadSide

-----------------------------------------------------------------------------
(***************************************************************************)
(* Steps of an upload request.                                             *)
(***************************************************************************)

(* Only a commit brings rows into view, when every file has been read. *)
LEMMA CommitOnlyScanned ==
    ASSUME IInv, NEW r \in Request, Handles(r), NEW d \in Doc,
           ~Committed(d), Committed(d)'
    PROVE  AllScanned(r) /\ row[d] = "staged" /\ jobOf[d] = r
<1> USE DEF Handles, IInv, TypeOK, StoresTypeOK, storeVars, pgVars, Committed, Staged
<1>1. AllScanned(r)
  BY DEF Begin, UploadStep, RejectFile, RejectDuplicate, SelectNone,
         InsertDocument, InsertConflict, InsertDeadlock, WriteFile,
         WriteFileFails, Commit, CommitFails, StatementFails, SendTask,
         SendTaskFails, Respond, UploadCrash, Abort, Rollback
<1> QED BY <1>1, UploadStepRows

(* What the handler leaves of the other stores: a file or a message of its own
   is all that it adds. *)
LEMMA UploadEffects ==
    ASSUME IInv, NEW r \in Request, Handles(r)
    PROVE  /\ UNCHANGED <<status, runs, indexVars>>
           /\ \/ files' = files
              \/ up[r] = "write" /\ files' = files \union {Last(r)}
           /\ \/ queue' = queue
              \/ /\ Sending(r)
                 /\ queue' = [queue EXCEPT ![accepted[r][next[r]]] = @ + 1]
<1> USE DEF Handles, storeVars, pgVars, indexVars
<1>1. UNCHANGED <<status, runs, indexVars>>
  BY DEF Begin, UploadStep, RejectFile, RejectDuplicate, SelectNone,
         InsertDocument, InsertConflict, InsertDeadlock, WriteFile,
         WriteFileFails, Commit, CommitFails, StatementFails, SendTask,
         SendTaskFails, Respond, UploadCrash, Abort
<1>2. files' = files \/ (up[r] = "write" /\ files' = files \union {Last(r)})
  BY DEF Begin, UploadStep, RejectFile, RejectDuplicate, SelectNone,
         InsertDocument, InsertConflict, InsertDeadlock, WriteFile,
         WriteFileFails, Commit, CommitFails, StatementFails, SendTask,
         SendTaskFails, Respond, UploadCrash, Written
<1>3. \/ queue' = queue
      \/ Sending(r) /\ queue' = [queue EXCEPT ![accepted[r][next[r]]] = @ + 1]
  BY DEF Begin, UploadStep, RejectFile, RejectDuplicate, SelectNone,
         InsertDocument, InsertConflict, InsertDeadlock, WriteFile,
         WriteFileFails, Commit, CommitFails, StatementFails, SendTask,
         SendTaskFails, Respond, UploadCrash, Abort, Publish
<1> QED BY <1>1, <1>2, <1>3

(* The handler of one request leaves the position of the others alone. *)
LEMMA UploadOthers ==
    ASSUME IInv, NEW r \in Request, Handles(r), NEW q \in Request, q # r
    PROVE  /\ up'[q] = up[q] /\ next'[q] = next[q]
           /\ accepted'[q] = accepted[q] /\ dups'[q] = dups[q]
<1>1. up'[q] = up[q] /\ next'[q] = next[q] /\ accepted'[q] = accepted[q]
  BY UploadStepOthers DEF Handles
<1>2. dups'[q] = dups[q]
  BY DEF Handles, Begin, UploadStep, RejectFile, RejectDuplicate, SelectNone,
         InsertDocument, InsertConflict, InsertDeadlock, WriteFile,
         WriteFileFails, Commit, CommitFails, StatementFails, SendTask,
         SendTaskFails, Respond, UploadCrash, Abort, IInv, TypeOK, UploadTypeOK
<1> QED BY <1>1, <1>2

(* A request leaves its transaction only to send or to end, and accepts a
   document only by its INSERT. *)
LEMMA UploadCourse ==
    ASSUME IInv, NEW r \in Request, Handles(r)
    PROVE  /\ InTransaction(r)' => up[r] = "idle" \/ InTransaction(r)
           /\ up'[r] = "send" => InTransaction(r) \/ up[r] = "send"
           /\ up'[r] = "done" => up[r] = "send"
           /\ up[r] \notin {"error", "crashed"}
           /\ ~InsertDocument(r) => accepted' = accepted /\ jobOf' = jobOf /\ keyOf' = keyOf
<1> USE DEF Handles, InTransaction, IInv, TypeOK, UploadTypeOK, storeVars, pgVars
<1>1. CASE Begin(r)
  BY <1>1 DEF Begin
<1>2. CASE RejectFile(r) \/ RejectDuplicate(r) \/ SelectNone(r)
  BY <1>2 DEF RejectFile, RejectDuplicate, SelectNone, Scanning
<1>3. CASE InsertDocument(r)
  BY <1>3 DEF InsertDocument
<1>4. CASE InsertConflict(r) \/ InsertDeadlock(r) \/ WriteFileFails(r)
           \/ StatementFails(r) \/ UploadCrash(r)
  <2>1. up'[r] \in {"error", "crashed"} /\ UNCHANGED <<accepted, jobOf, keyOf>>
    BY <1>4 DEF InsertConflict, InsertDeadlock, WriteFileFails, StatementFails,
                UploadCrash, Abort
  <2>2. up[r] \notin {"error", "crashed"}
    BY <1>4 DEF InsertConflict, InsertDeadlock, WriteFileFails, StatementFails,
                UploadCrash, UploadOver, Deadlocked, Blocked, Scanning
  <2> QED BY <2>1, <2>2
<1>5. CASE WriteFile(r)
  BY <1>5 DEF WriteFile
<1>6. CASE Commit(r)
  BY <1>6 DEF Commit, AllScanned
<1>7. CASE CommitFails(r)
  <2>1. up'[r] = "error" /\ UNCHANGED <<accepted, jobOf, keyOf>> /\ up[r] = "scan"
    BY <1>7 DEF CommitFails, Abort, AllScanned
  <2> QED BY <2>1
<1>8. CASE SendTask(r) \/ SendTaskFails(r) \/ Respond(r)
  BY <1>8 DEF SendTask, SendTaskFails, Respond, Sending
<1> QED BY <1>1, <1>2, <1>3, <1>4, <1>5, <1>6, <1>7, <1>8 DEF UploadStep

(* The documents of a request that is inserting or sending have a row. *)
LEMMA AcceptedHasRow ==
    ASSUME IInv, NEW r \in Request, InTransaction(r) \/ up[r] = "send",
           NEW i \in 1..Len(accepted[r])
    PROVE  /\ accepted[r][i] \in Doc
           /\ row[accepted[r][i]] # "fresh"
           /\ InTransaction(r) => row[accepted[r][i]] = "staged" /\ jobOf[accepted[r][i]] = r
<1>1. accepted[r] \in Seq(Doc)
  BY DEF IInv, TypeOK, UploadTypeOK
<1>2. accepted[r][i] \in Doc
  BY <1>1
<1>3. RequestInv(r)
  BY DEF IInv, UploadInv
<1> QED BY <1>2, <1>3 DEF InTransaction, RequestInv, Committed

(* What the INSERT of a request does. *)
LEMMA InsertEffect ==
    ASSUME IInv, NEW r \in Request, InsertDocument(r)
    PROVE  \E d \in Doc :
             /\ row[d] = "fresh"
             /\ row' = [row EXCEPT ![d] = "staged"]
             /\ keyOf' = [keyOf EXCEPT ![d] = File(r)]
             /\ jobOf' = [jobOf EXCEPT ![d] = r]
             /\ up[r] = "insert" /\ up'[r] = "write"
             /\ dups' = dups /\ next' = next /\ files' = files
             /\ Len(accepted'[r]) = Len(accepted[r]) + 1
             /\ accepted'[r][Len(accepted[r]) + 1] = d
             /\ \A i \in 1..Len(accepted[r]) : accepted'[r][i] = accepted[r][i]
<1> USE DEF IInv, TypeOK, UploadTypeOK
<1>1. PICK d \in Doc :
             /\ row[d] = "fresh"
             /\ row' = [row EXCEPT ![d] = "staged"]
             /\ keyOf' = [keyOf EXCEPT ![d] = File(r)]
             /\ jobOf' = [jobOf EXCEPT ![d] = r]
             /\ accepted' = [accepted EXCEPT ![r] = Append(@, d)]
  BY DEF InsertDocument
<1>2. /\ up[r] = "insert" /\ up'[r] = "write"
      /\ dups' = dups /\ next' = next /\ files' = files
  BY DEF InsertDocument
<1>3. accepted[r] \in Seq(Doc) /\ accepted'[r] = Append(accepted[r], d)
  BY <1>1
<1> HIDE DEF IInv, TypeOK, UploadTypeOK
<1>4. /\ Len(accepted'[r]) = Len(accepted[r]) + 1
      /\ accepted'[r][Len(accepted[r]) + 1] = d
      /\ \A i \in 1..Len(accepted[r]) : accepted'[r][i] = accepted[r][i]
  BY <1>3, AppendFacts
<1> QED BY <1>1, <1>2, <1>4

(* The rows of a request stay its own, whichever request moves. *)
LEMMA UploadKeepsRows ==
    ASSUME IInv, RequestsInv, NEW r \in Request, Handles(r), NEW q \in Request
    PROVE  RequestRows(q)'
<1>1. RequestRows(q)
  BY DEF RequestsInv
<1>2. CASE q = r /\ InsertDocument(r)
  <2>1. PICK d \in Doc :
             /\ row[d] = "fresh"
             /\ jobOf' = [jobOf EXCEPT ![d] = r]
             /\ up[r] = "insert"
             /\ Len(accepted'[r]) = Len(accepted[r]) + 1
             /\ accepted'[r][Len(accepted[r]) + 1] = d
             /\ \A i \in 1..Len(accepted[r]) : accepted'[r][i] = accepted[r][i]
    BY <1>2, InsertEffect
  <2>2. \A i \in 1..Len(accepted[r]) : accepted[r][i] \in Doc /\ accepted[r][i] # d
    BY <2>1, AcceptedHasRow DEF InTransaction
  <2>3. Len(accepted[r]) \in Nat
    BY DEF IInv, TypeOK, UploadTypeOK
  <2>4. \A i \in 1..Len(accepted'[r]) :
            i \in 1..Len(accepted[r]) \/ i = Len(accepted[r]) + 1
    BY <2>1, <2>3
  <2>5. jobOf \in [Doc -> Request \union {NoRequest}]
    BY DEF IInv, TypeOK, StoresTypeOK
  <2>6. \A i \in 1..Len(accepted[r]) : jobOf[accepted[r][i]] = r
    BY <1>1, <1>2, <2>1 DEF RequestRows, InTransaction
  <2>7. \A i, j \in 1..Len(accepted[r]) : accepted[r][i] = accepted[r][j] => i = j
    BY <1>1, <1>2, <2>1 DEF RequestRows, InTransaction
  <2>8. \A i \in 1..Len(accepted'[r]) : jobOf'[accepted'[r][i]] = r
    BY <2>1, <2>2, <2>4, <2>5, <2>6
  <2>9. \A i, j \in 1..Len(accepted'[r]) : accepted'[r][i] = accepted'[r][j] => i = j
    BY <2>1, <2>2, <2>4, <2>7
  <2> QED BY <1>2, <2>8, <2>9 DEF RequestRows
<1>3. CASE ~(q = r /\ InsertDocument(r))
  <2>1. accepted'[q] = accepted[q]
    BY <1>3, UploadCourse, UploadOthers
  <2>2. SUFFICES ASSUME InTransaction(q)' \/ up'[q] = "send"
                 PROVE  \A i, j \in 1..Len(accepted[q]) :
                           /\ jobOf'[accepted[q][i]] = q
                           /\ accepted[q][i] = accepted[q][j] => i = j
    BY <2>1 DEF RequestRows
  <2>3. CASE up[q] = "idle"
    BY <2>3 DEF IInv, UploadInv, RequestInv
  <2>4. CASE InTransaction(q) \/ up[q] = "send"
    <3>1. \A i, j \in 1..Len(accepted[q]) :
             /\ jobOf[accepted[q][i]] = q
             /\ accepted[q][i] = accepted[q][j] => i = j
      BY <1>1, <2>4 DEF RequestRows
    <3>2. \A i \in 1..Len(accepted[q]) : jobOf'[accepted[q][i]] = jobOf[accepted[q][i]]
      BY <2>4, AcceptedHasRow, UploadStepRows DEF Handles
    <3> QED BY <3>1, <3>2
  <2>5. up[q] = "idle" \/ InTransaction(q) \/ up[q] = "send"
    BY <2>2, UploadCourse, UploadOthers DEF InTransaction
  <2> QED BY <2>3, <2>4, <2>5
<1> QED BY <1>2, <1>3

(* Every uncommitted row is one that an open request has accepted. *)
LEMMA UploadKeepsOwned ==
    ASSUME IInv, RowsOwned, NEW r \in Request, Handles(r)
    PROVE  RowsOwned'
<1>1. SUFFICES ASSUME NEW d \in Doc
               PROVE  /\ row'[d] # "fresh" => jobOf'[d] \in Request
                      /\ row'[d] = "staged" =>
                            /\ up'[jobOf'[d]] \in {"scan", "insert", "write"}
                            /\ \E i \in 1..Len(accepted'[jobOf'[d]]) :
                                  accepted'[jobOf'[d]][i] = d
  BY DEF RowsOwned, InTransaction
<1>2. Len(accepted[r]) \in Nat
  BY DEF IInv, TypeOK, UploadTypeOK
<1>3. CASE InsertDocument(r)
  <2>1. PICK e \in Doc :
             /\ row[e] = "fresh"
             /\ row' = [row EXCEPT ![e] = "staged"]
             /\ jobOf' = [jobOf EXCEPT ![e] = r]
             /\ up[r] = "insert" /\ up'[r] = "write"
             /\ Len(accepted'[r]) = Len(accepted[r]) + 1
             /\ accepted'[r][Len(accepted[r]) + 1] = e
             /\ \A i \in 1..Len(accepted[r]) : accepted'[r][i] = accepted[r][i]
    BY <1>3, InsertEffect
  <2>2. CASE d = e
    <3>1. jobOf'[d] = r /\ row'[d] = "staged"
      BY <2>1, <2>2 DEF IInv, TypeOK, StoresTypeOK
    <3>2. Len(accepted[r]) + 1 \in 1..Len(accepted'[r])
      BY <1>2, <2>1
    <3> QED BY <2>1, <2>2, <3>1, <3>2 DEF InTransaction
  <2>3. CASE d # e
    <3>1. jobOf'[d] = jobOf[d] /\ row'[d] = row[d]
      BY <2>1, <2>3 DEF IInv, TypeOK, StoresTypeOK
    <3>2. CASE jobOf[d] = r
      BY <1>2, <2>1, <3>1, <3>2 DEF RowsOwned, InTransaction
    <3>3. CASE jobOf[d] # r
      BY <3>1, <3>3, UploadOthers DEF RowsOwned, InTransaction
    <3> QED BY <3>2, <3>3
  <2> QED BY <2>2, <2>3
<1>4. CASE ~InsertDocument(r)
  <2>1. jobOf' = jobOf /\ accepted' = accepted
    BY <1>4, UploadCourse
  <2>2. row'[d] = "staged" => row[d] = "staged"
    BY <1>4 DEF Handles, Begin, UploadStep, RejectFile, RejectDuplicate, SelectNone,
         InsertConflict, InsertDeadlock, WriteFile, WriteFileFails, Commit,
         CommitFails, CommitWrites, RowsVisible, StatementFails, SendTask,
         SendTaskFails, Respond, UploadCrash, Abort, Rollback, Staged, storeVars, pgVars
  <2>3. row'[d] # "fresh" => row[d] # "fresh"
    BY <2>2, UploadStepRows DEF Handles
  <2>4. row'[d] = "staged" /\ jobOf[d] = r => InTransaction(r)'
    <3>1. SUFFICES ASSUME row'[d] = "staged", jobOf[d] = r PROVE InTransaction(r)'
      OBVIOUS
    <3>2. row[d] = "staged" /\ InTransaction(r)
      BY <2>2, <3>1 DEF RowsOwned
    <3> QED BY <1>4, <3>1, <3>2 DEF Handles, Begin, UploadStep, RejectFile, RejectDuplicate, SelectNone,
         InsertConflict, InsertDeadlock, WriteFile, WriteFileFails, Commit,
         CommitFails, CommitWrites, RowsVisible, StatementFails, SendTask,
         SendTaskFails, Respond, UploadCrash, Abort, Rollback, Staged, storeVars, pgVars,
         InTransaction, Sending, Scanning, IInv, TypeOK, UploadTypeOK, StoresTypeOK
  <2>5. row'[d] = "staged" /\ jobOf[d] # r => InTransaction(jobOf[d])'
    BY <2>1, <2>2, UploadOthers DEF RowsOwned, InTransaction
  <2> QED BY <2>1, <2>2, <2>3, <2>4, <2>5 DEF RowsOwned, InTransaction
<1> QED BY <1>3, <1>4

(* The bytes of what a request has accepted stay on disk while it is open. *)
LEMMA UploadKeepsFiles ==
    ASSUME IInv, RequestsInv, NEW r \in Request, Handles(r), NEW q \in Request
    PROVE  RequestFiles(q)'
<1>1. RequestFiles(q) /\ Len(accepted[q]) \in Nat
  BY DEF RequestsInv, IInv, TypeOK, UploadTypeOK
<1>2. files \subseteq files'
  BY UploadEffects
<1>3. CASE q # r
  BY <1>1, <1>2, <1>3, UploadOthers DEF RequestFiles, InTransaction
<1>4. CASE q = r /\ InsertDocument(r)
  <2>1. /\ up[r] = "insert" /\ up'[r] = "write"
        /\ Len(accepted'[r]) = Len(accepted[r]) + 1
        /\ \A i \in 1..Len(accepted[r]) : accepted'[r][i] = accepted[r][i]
    BY <1>4, InsertEffect
  <2>2. \A i \in 1..Len(accepted[r]) : accepted[r][i] \in files
    BY <1>1, <1>4, <2>1 DEF RequestFiles, InTransaction
  <2> QED BY <1>1, <1>2, <1>4, <2>1, <2>2 DEF RequestFiles
<1>5. CASE q = r /\ WriteFile(r)
  <2>1. /\ up[r] = "write" /\ up'[r] = "scan" /\ accepted' = accepted
        /\ files' = files \union {Last(r)}
    BY <1>5 DEF WriteFile, Written, IInv, TypeOK, UploadTypeOK
  <2>2. \A i \in 1..Len(accepted[r]) : accepted[r][i] \in files \/ i = Len(accepted[r])
    BY <1>1, <1>5, <2>1 DEF RequestFiles, InTransaction
  <2> QED BY <1>5, <2>1, <2>2 DEF RequestFiles, Last
<1>6. CASE q = r /\ ~InsertDocument(r) /\ ~WriteFile(r)
  <2>1. accepted'[r] = accepted[r]
    BY <1>6, UploadCourse
  <2>2. SUFFICES ASSUME InTransaction(r)'
                 PROVE  \A i \in 1..Len(accepted[r]) : accepted[r][i] \in files
    BY <1>2, <1>6, <2>1 DEF RequestFiles
  <2>3. up[r] # "write"
    BY <1>6, <2>2 DEF Handles, InTransaction, Begin, UploadStep, RejectFile,
         RejectDuplicate, SelectNone, InsertConflict, InsertDeadlock, WriteFileFails,
         Commit, CommitFails, StatementFails, SendTask, SendTaskFails, Respond,
         UploadCrash, Abort, Scanning, AllScanned, Sending, Deadlocked, Blocked,
         IInv, TypeOK, UploadTypeOK
  <2>4. CASE up[r] = "idle"
    BY <2>4 DEF IInv, UploadInv, RequestInv
  <2>5. CASE InTransaction(r)
    BY <1>1, <1>6, <2>3, <2>5 DEF RequestFiles
  <2> QED BY <2>2, <2>4, <2>5, UploadCourse
<1> QED BY <1>3, <1>4, <1>5, <1>6

(* A duplicate keeps a counterpart while its request is open, and has one that
   is there for good when the request is over. *)
LEMMA UploadKeepsDups ==
    ASSUME IInv, RequestsInv, NEW r \in Request, Handles(r), NEW q \in Request
    PROVE  RequestDups(q)'
<1> DEFINE Counterpart(i) ==
        \E d \in Doc : /\ keyOf[d] = FilesOf[q][i]
                       /\ Committed(d) \/ (InTransaction(q) /\ row[d] = "staged" /\ jobOf[d] = q)
<1>1. RequestDups(q)
  BY DEF RequestsInv
<1>2. ASSUME NEW d \in Doc, row[d] # "fresh"
      PROVE  keyOf'[d] = keyOf[d] /\ jobOf'[d] = jobOf[d]
  BY <1>2, UploadStepRows DEF Handles
<1>3. ASSUME NEW d \in Doc, Committed(d)
      PROVE  Committed(d)' /\ row[d] # "fresh"
  BY <1>3, UploadStepRows DEF Handles, Committed
<1>4. ASSUME NEW d \in Doc, row[d] = "staged", jobOf[d] = q, InTransaction(q),
             InTransaction(q)' \/ up'[q] \in {"send", "done"}
      PROVE  Committed(d)' \/ (InTransaction(q)' /\ row'[d] = "staged" /\ jobOf'[d] = q)
  <2>1. CASE q # r
    BY <1>4, <2>1, UploadStepRows, UploadOthers DEF Handles, InTransaction
  <2>2. CASE q = r
    <3>1. CASE Commit(r)
      BY <1>4, <2>2, <3>1 DEF Commit, CommitWrites, RowsVisible, Staged, Committed
    <3>2. CASE InsertDocument(r)
      <4>1. PICK e \in Doc : /\ row[e] = "fresh"
                             /\ row' = [row EXCEPT ![e] = "staged"]
                             /\ jobOf' = [jobOf EXCEPT ![e] = r]
                             /\ up'[r] = "write"
        BY <3>2, InsertEffect
      <4> QED BY <1>4, <2>2, <4>1 DEF IInv, TypeOK, StoresTypeOK, InTransaction
    <3>3. CASE ~Commit(r) /\ ~InsertDocument(r)
      <4>1. row' = row /\ InTransaction(q)'
        BY <1>4, <2>2, <3>3 DEF Handles, InTransaction, Begin, UploadStep, RejectFile,
             RejectDuplicate, SelectNone, InsertConflict, InsertDeadlock, WriteFile,
             WriteFileFails, CommitFails, StatementFails, SendTask, SendTaskFails,
             Respond, UploadCrash, Abort, Sending, IInv, TypeOK, UploadTypeOK,
             storeVars, pgVars
      <4> QED BY <1>2, <1>4, <4>1
    <3> QED BY <3>1, <3>2, <3>3
  <2> QED BY <2>1, <2>2
<1>5. /\ up'[q] # "idle" \/ (up[q] = "idle" /\ dups'[q] = dups[q])
      /\ dups'[q] = dups[q] \/ (q = r /\ RejectDuplicate(r))
      /\ InTransaction(q)' \/ up'[q] \in {"send", "done"} =>
            up[q] = "idle" \/ InTransaction(q) \/ up[q] \in {"send", "done"}
  <2>1. CASE q # r
    BY <2>1, UploadOthers DEF InTransaction
  <2>2. CASE q = r
    <3>1. up'[r] # "idle"
      BY DEF Handles, Begin, UploadStep, RejectFile, RejectDuplicate, SelectNone,
         InsertDocument, InsertConflict, InsertDeadlock, WriteFile,
         WriteFileFails, Commit, CommitFails, StatementFails, SendTask,
         SendTaskFails, Respond, UploadCrash, Abort, Scanning, Sending,
         IInv, TypeOK, UploadTypeOK
    <3>2. dups'[r] = dups[r] \/ RejectDuplicate(r)
      BY DEF Handles, Begin, UploadStep, RejectFile, SelectNone,
         InsertDocument, InsertConflict, InsertDeadlock, WriteFile,
         WriteFileFails, Commit, CommitFails, StatementFails, SendTask,
         SendTaskFails, Respond, UploadCrash, Abort
    <3> QED BY <2>2, <3>1, <3>2, UploadCourse
  <2> QED BY <2>1, <2>2
<1>6. ASSUME NEW i \in dups'[q], i \notin dups[q]
      PROVE  \E d \in Doc :
                /\ keyOf'[d] = FilesOf[q][i]
                /\ Committed(d)' \/ (InTransaction(q)' /\ row'[d] = "staged" /\ jobOf'[d] = q)
  <2>1. q = r /\ RejectDuplicate(r)
    BY <1>5, <1>6
  <2>2. i = next[r] /\ UNCHANGED <<row, keyOf, jobOf, up>> /\ up[r] = "scan"
    BY <1>6, <2>1 DEF RejectDuplicate, Scanning, storeVars, pgVars, IInv, TypeOK, UploadTypeOK
  <2>3. PICK d \in Doc : /\ keyOf[d] = File(r) /\ row[d] \in {"staged", "committed"}
                         /\ Live(d) \/ jobOf[d] = r
    BY <2>1 DEF RejectDuplicate, Existing, Holders
  <2> QED BY <2>1, <2>2, <2>3 DEF File, Live, Committed, InTransaction
<1>7. ASSUME InTransaction(q)' \/ up'[q] \in {"send", "done"}, NEW i \in dups[q]
      PROVE  \E d \in Doc :
                /\ keyOf'[d] = FilesOf[q][i]
                /\ Committed(d)' \/ (InTransaction(q)' /\ row'[d] = "staged" /\ jobOf'[d] = q)
  <2>1. PICK d \in Doc :
             /\ keyOf[d] = FilesOf[q][i]
             /\ Committed(d) \/ (InTransaction(q) /\ row[d] = "staged" /\ jobOf[d] = q)
    BY <1>1, <1>5, <1>7 DEF RequestDups
  <2>2. row[d] # "fresh"
    BY <2>1 DEF Committed
  <2>3. keyOf'[d] = FilesOf[q][i]
    BY <1>2, <2>1, <2>2
  <2> QED BY <1>3, <1>4, <1>7, <2>1, <2>3
<1>8. up'[q] = "idle" => dups'[q] = {}
  BY <1>1, <1>5 DEF RequestDups
<1> QED BY <1>6, <1>7, <1>8 DEF RequestDups

(* Each accepted document is sent exactly one message, in turn. *)
LEMMA UploadKeepsSent ==
    ASSUME IInv, RequestsInv, NEW r \in Request, Handles(r), NEW q \in Request
    PROVE  RequestSent(q)'
<1>1. RequestSent(q) /\ RequestRows(q) /\ RequestRows(r)
  BY DEF RequestsInv
<1>2. UNCHANGED runs /\ queue \in [Doc -> Nat] /\ runs \in [Doc -> Nat]
  BY UploadEffects DEF IInv, TypeOK, StoresTypeOK
<1>3. \A d \in Doc : Messages(d) > 0 => Messages(d)' > 0
  <2> SUFFICES ASSUME NEW d \in Doc, Messages(d) > 0 PROVE Messages(d)' > 0
    OBVIOUS
  <2>1. CASE queue' = queue
    BY <1>2, <2>1 DEF Messages
  <2>2. CASE Sending(r) /\ queue' = [queue EXCEPT ![accepted[r][next[r]]] = @ + 1]
    <3> DEFINE e == accepted[r][next[r]]
    <3>1. queue' = [queue EXCEPT ![e] = @ + 1]
      BY <2>2
    <3> HIDE DEF e
    <3>2. queue'[d] >= queue[d] /\ queue'[d] \in Nat
      BY <1>2, <3>1
    <3>3. queue[d] \in Nat /\ runs[d] \in Nat
      BY <1>2
    <3> QED BY <1>2, <3>2, <3>3 DEF Messages
  <2> QED BY <2>1, <2>2, UploadEffects
<1>4. /\ accepted[q] \in Seq(Doc) /\ next[q] \in Nat \ {0} /\ Len(accepted[q]) \in Nat
      /\ accepted[r] \in Seq(Doc) /\ next[r] \in Nat \ {0} /\ Len(accepted[r]) \in Nat
  BY DEF IInv, TypeOK, UploadTypeOK
<1>5. CASE q # r
  <2>1. up'[q] = up[q] /\ next'[q] = next[q] /\ accepted'[q] = accepted[q]
    BY <1>5, UploadOthers
  <2>2. ASSUME up[q] = "send", NEW i \in 1..Len(accepted[q]), ~(i < next[q])
        PROVE  queue'[accepted[q][i]] = 0 /\ runs'[accepted[q][i]] = 0
    <3>1. queue[accepted[q][i]] = 0 /\ runs[accepted[q][i]] = 0
      BY <1>1, <2>2 DEF RequestSent
    <3>2. jobOf[accepted[q][i]] = q /\ accepted[q][i] \in Doc
      BY <1>1, <1>4, <2>2 DEF RequestRows
    <3>3. CASE queue' = queue
      BY <1>2, <3>1, <3>3
    <3>4. CASE Sending(r) /\ queue' = [queue EXCEPT ![accepted[r][next[r]]] = @ + 1]
      <4>1. jobOf[accepted[r][next[r]]] = r
        BY <1>1, <1>4, <3>4 DEF RequestRows, Sending
      <4> QED BY <1>2, <1>5, <3>1, <3>2, <3>4, <4>1
    <3> QED BY <3>3, <3>4, UploadEffects
  <2>3. ASSUME NEW i \in 1..Len(accepted[q]), Messages(accepted[q][i]) > 0
        PROVE  Messages(accepted[q][i])' > 0
    <3>1. accepted[q][i] \in Doc
      BY <1>4
    <3>2. Messages(accepted[q][i])' = queue'[accepted[q][i]] + runs'[accepted[q][i]]
      BY <2>1 DEF Messages
    <3> QED BY <1>3, <2>3, <3>1, <3>2 DEF Messages
  <2> QED BY <1>1, <2>1, <2>2, <2>3 DEF RequestSent
<1>6. CASE q = r /\ Commit(r)
  <2>1. /\ up'[r] = "send" /\ next'[r] = 1 /\ accepted' = accepted
        /\ queue' = queue /\ up[r] = "scan"
    BY <1>6 DEF Commit, AllScanned, IInv, TypeOK, UploadTypeOK
  <2>2. ASSUME NEW i \in 1..Len(accepted[r])
        PROVE  queue[accepted[r][i]] = 0 /\ runs[accepted[r][i]] = 0
    <3>1. accepted[r][i] \in Doc /\ row[accepted[r][i]] = "staged"
      BY <2>1, AcceptedHasRow DEF InTransaction
    <3> QED BY <1>2, <3>1 DEF IInv, NoWorkBeforeCommit
  <2> QED BY <1>2, <1>4, <1>6, <2>1, <2>2 DEF RequestSent
<1>7. CASE q = r /\ SendTask(r)
  <2> DEFINE e == accepted[r][next[r]]
  <2>1. /\ up[r] = "send" /\ up' = up /\ accepted' = accepted
        /\ next'[r] = next[r] + 1 /\ next[r] \in 1..Len(accepted[r])
        /\ queue' = [queue EXCEPT ![e] = @ + 1]
    BY <1>4, <1>7 DEF SendTask, Sending, Publish, IInv, TypeOK, UploadTypeOK
  <2>2. \A i, j \in 1..Len(accepted[r]) : accepted[r][i] = accepted[r][j] => i = j
    BY <1>1, <2>1 DEF RequestRows
  <2>3. e \in Doc /\ queue'[e] > 0
    <3>1. e \in Doc
      BY <1>4, <2>1
    <3> HIDE DEF e
    <3> QED BY <1>2, <2>1, <3>1
  <2>4. ASSUME NEW i \in 1..Len(accepted[r]), i < next'[r]
        PROVE  queue'[accepted[r][i]] + runs'[accepted[r][i]] > 0
    <3>1. CASE i = next[r]
      <4>1. accepted[r][i] = e
        BY <3>1
      <4> HIDE DEF e
      <4>2. queue'[e] \in Nat /\ runs'[e] \in Nat
        BY <1>2, <2>1, <2>3
      <4> QED BY <2>3, <4>1, <4>2
    <3>2. CASE i < next[r]
      <4>1. Messages(accepted[r][i]) > 0 /\ accepted[r][i] \in Doc
        BY <1>1, <1>4, <1>7, <2>1, <3>2 DEF RequestSent
      <4> QED BY <1>3, <2>1, <4>1 DEF Messages
    <3> QED BY <1>4, <2>1, <2>4, <3>1, <3>2
  <2>5. ASSUME NEW i \in 1..Len(accepted[r]), ~(i < next'[r])
        PROVE  queue'[accepted[r][i]] = 0 /\ runs'[accepted[r][i]] = 0
    <3>1. i # next[r] /\ ~(i < next[r])
      BY <1>4, <2>1, <2>5
    <3>2. accepted[r][i] # e /\ accepted[r][i] \in Doc
      BY <1>4, <2>1, <2>2, <3>1
    <3>3. queue[accepted[r][i]] = 0 /\ runs[accepted[r][i]] = 0
      BY <1>1, <1>7, <2>1, <3>1 DEF RequestSent
    <3> HIDE DEF e
    <3> QED BY <1>2, <2>1, <3>2, <3>3
  <2>6. up'[r] = "send"
    BY <2>1
  <2> HIDE DEF e
  <2> QED BY <1>7, <2>1, <2>4, <2>5, <2>6 DEF RequestSent, Messages
<1>8. CASE q = r /\ Respond(r)
  <2>1. /\ up[r] = "send" /\ up'[r] = "done" /\ accepted' = accepted
        /\ queue' = queue /\ next[r] > Len(accepted[r])
    BY <1>8 DEF Respond, AllSent, IInv, TypeOK, UploadTypeOK, storeVars
  <2>2. \A i \in 1..Len(accepted[r]) : Messages(accepted[r][i]) > 0
    BY <1>1, <1>4, <1>8, <2>1 DEF RequestSent
  <2> QED BY <1>2, <1>8, <2>1, <2>2 DEF RequestSent, Messages
<1>9. CASE q = r /\ ~Commit(r) /\ ~SendTask(r) /\ ~Respond(r)
  <2>1. up'[r] \notin {"send", "done"}
    BY <1>9 DEF Handles, Begin, UploadStep, RejectFile, RejectDuplicate, SelectNone,
         InsertDocument, InsertConflict, InsertDeadlock, WriteFile,
         WriteFileFails, CommitFails, StatementFails,
         SendTaskFails, UploadCrash, Abort, Scanning, IInv, TypeOK, UploadTypeOK
  <2> QED BY <1>9, <2>1 DEF RequestSent
<1> QED BY <1>5, <1>6, <1>7, <1>8, <1>9

(* Files: a committed row has one, a file has a row, and who left it is known. *)
LEMMA UploadKeepsStored ==
    ASSUME IInv, UploadSide, NEW r \in Request, Handles(r), UNCHANGED del
    PROVE  FilesThere' /\ FilesNamed' /\ FilesAreAccountedFor'
<1> USE DEF UploadSide
<1>1. files' = files \/ (up[r] = "write" /\ files' = files \union {Last(r)})
  BY UploadEffects
<1>2. \A d \in Doc : Touched(d)' <=> Touched(d)
  BY DEF Touched, Target
<1>3. FilesThere'
  <2> SUFFICES ASSUME NEW d \in Doc, Committed(d)', ~Touched(d) PROVE d \in files'
    BY <1>2 DEF FilesThere
  <2>1. CASE Committed(d)
    BY <1>1, <2>1 DEF FilesThere
  <2>2. CASE ~Committed(d)
    <3>1. AllScanned(r) /\ row[d] = "staged" /\ jobOf[d] = r
      BY <2>2, CommitOnlyScanned
    <3>2. \E i \in 1..Len(accepted[r]) : accepted[r][i] = d
      BY <3>1 DEF RowsOwned
    <3>3. RequestFiles(r)
      BY DEF RequestsInv
    <3> QED BY <1>1, <3>1, <3>2, <3>3 DEF RequestFiles, InTransaction, AllScanned
  <2> QED BY <2>1, <2>2
<1>4. up[r] = "write" => /\ Last(r) \in Doc /\ row[Last(r)] = "staged"
                         /\ jobOf[Last(r)] = r
  <2> SUFFICES ASSUME up[r] = "write"
               PROVE  Last(r) \in Doc /\ row[Last(r)] = "staged" /\ jobOf[Last(r)] = r
    OBVIOUS
  <2>1. accepted[r] \in Seq(Doc) /\ accepted[r] # << >>
    BY DEF IInv, TypeOK, UploadTypeOK, UploadInv, RequestInv
  <2>2. Len(accepted[r]) \in 1..Len(accepted[r])
    BY <2>1
  <2> QED BY <2>2, AcceptedHasRow DEF Last, InTransaction
<1>5. FilesNamed'
  <2>1. \A d \in Doc : row[d] # "fresh" => row'[d] # "fresh"
    BY UploadStepRows DEF Handles
  <2> QED BY <1>1, <1>4, <2>1 DEF FilesNamed, IInv, TypeOK, StoresTypeOK
<1>6. ASSUME NEW d \in files'
      PROVE  \/ row'[d] \in {"staged", "committed"}
             \/ up'[jobOf'[d]] \in {"error", "crashed"}
             \/ Touched(d)
  <2>1. /\ d \in Doc /\ row[d] # "fresh"
        /\ d \in files \/ (row[d] = "staged" /\ jobOf[d] = r)
    BY <1>1, <1>4, <1>6 DEF FilesNamed, IInv, TypeOK, StoresTypeOK
  <2>2. jobOf'[d] = jobOf[d] /\ jobOf[d] \in Request
    BY <2>1, UploadStepRows DEF Handles, RowsOwned
  <2>3. CASE row'[d] # row[d]
    <3>1. row[d] = "staged" /\ jobOf[d] = r /\ row'[d] \in {"committed", "rolledback"}
      BY <2>1, <2>3, UploadStepRows DEF Handles
    <3>2. row'[d] = "rolledback" => up'[r] \in {"error", "crashed"}
      BY <2>3, <3>1 DEF Handles, Begin, UploadStep, RejectFile, RejectDuplicate,
         SelectNone, InsertDocument, InsertConflict, InsertDeadlock, WriteFile,
         WriteFileFails, Commit, CommitFails, CommitWrites, RowsVisible,
         StatementFails, SendTask, SendTaskFails, Respond, UploadCrash, Abort,
         storeVars, pgVars, IInv, TypeOK, UploadTypeOK, StoresTypeOK
    <3> QED BY <2>2, <3>1, <3>2
  <2>4. CASE row'[d] = row[d]
    <3>1. row[d] \in {"staged", "committed"} \/ up[jobOf[d]] \in {"error", "crashed"}
             \/ Touched(d)
      BY <2>1 DEF FilesAreAccountedFor
    <3>2. up[jobOf[d]] \in {"error", "crashed"} => up'[jobOf[d]] \in {"error", "crashed"}
      BY <2>2, UploadCourse, UploadOthers
    <3> QED BY <2>2, <2>4, <3>1, <3>2
  <2> QED BY <2>3, <2>4
<1>7. FilesAreAccountedFor'
  BY <1>2, <1>6, UploadStepRows DEF FilesAreAccountedFor, Touched, Target
<1> QED BY <1>3, <1>5, <1>7

(* The handler of an upload keeps its side of the invariant. *)
LEMMA UploadKeepsUploadSide ==
    ASSUME IInv, UploadSide, NEW r \in Request, Handles(r), UNCHANGED del
    PROVE  UploadSide'
<1>1. RequestsInv /\ RowsOwned /\ Targets
  BY DEF UploadSide
<1>2. RequestsInv'
  BY <1>1, UploadKeepsRows, UploadKeepsFiles, UploadKeepsDups, UploadKeepsSent
     DEF RequestsInv
<1>3. RowsOwned'
  BY <1>1, UploadKeepsOwned
<1>4. FilesThere' /\ FilesNamed' /\ FilesAreAccountedFor'
  BY UploadKeepsStored
<1>5. Targets'
  BY <1>1 DEF Targets, Target
<1> QED BY <1>2, <1>3, <1>4, <1>5 DEF UploadSide

(* The handler of an upload writes to no document that has been executed. *)
LEMMA UploadKeepsWorkSide ==
    ASSUME IInv, WorkSide, NEW r \in Request, Handles(r), UNCHANGED <<slot, del>>
    PROVE  WorkSide'
<1> USE DEF WorkSide
<1>1. UNCHANGED <<status, runs, points, graphDocs, linked, loose>>
  BY UploadEffects DEF indexVars
<1>2. \A d \in Doc : Touched(d)' <=> Touched(d)
  BY DEF Touched, Target
<1>3. ASSUME NEW d \in Doc, runs[d] > 0 PROVE keyOf'[d] = keyOf[d]
  <2>1. Committed(d)
    BY <1>3 DEF IInv, NoWorkBeforeCommit, Committed
  <2> QED BY <2>1, UploadStepRows DEF Handles, Committed
<1>4. RunsNumbered' /\ IdleHasNone' /\ StatusByRun' /\ LooseOnlyAfterDelete'
  BY <1>1, <1>2 DEF RunsNumbered, IdleHasNone, StatusByRun, LooseOnlyAfterDelete,
                    At, Task, Of, Touched, Target
<1>5. CompletedHolds'
  BY <1>1, <1>2, <1>3 DEF CompletedHolds, StatusByRun, Of
<1>6. WorkWrites'
  <2> SUFFICES ASSUME NEW w \in Worker, ~Touched(Task(w)) PROVE SlotWrites(w)'
    BY DEF WorkWrites, Touched, Target, Task
  <2>1. SlotWrites(w)
    BY DEF WorkWrites
  <2>2. At(w, "complete") => keyOf'[Task(w)] = keyOf[Task(w)]
    BY <1>3 DEF IInv, SlotInv, At
  <2> QED BY <1>1, <2>1, <2>2 DEF SlotWrites, At, Task, Chunk
<1> QED BY <1>4, <1>5, <1>6

(* The only message of a document is sent before its status says anything. *)
LEMMA UploadKeepsDelivery ==
    ASSUME IInv, UploadSide, WorkSide, OnceOnly,
           NEW r \in Request, Handles(r), UNCHANGED <<slot, del>>
    PROVE  OnceOnly'
<1> SUFFICES ASSUME NEW d \in Doc
             PROVE  /\ MaxRedelivery = 0 => DeliveredOnce(d)'
                    /\ DeliveredOnce(d)' => SettledAlone(d)'
  BY DEF OnceOnly
<1>1. /\ MaxRedelivery = 0 => DeliveredOnce(d)
      /\ DeliveredOnce(d) => SettledAlone(d)
  BY DEF OnceOnly
<1>2. UNCHANGED <<status, runs>> /\ queue \in [Doc -> Nat] /\ runs \in [Doc -> Nat]
  BY UploadEffects DEF IInv, TypeOK, StoresTypeOK
<1>3. CASE queue' = queue
  BY <1>1, <1>2, <1>3 DEF DeliveredOnce, SettledAlone, Task, At
<1>4. CASE Sending(r) /\ queue' = [queue EXCEPT ![accepted[r][next[r]]] = @ + 1]
  <2> DEFINE e == accepted[r][next[r]]
  <2>1. next[r] \in 1..Len(accepted[r]) /\ ~(next[r] < next[r]) /\ up[r] = "send"
    BY <1>4 DEF Sending, IInv, TypeOK, UploadTypeOK
  <2>2. queue[e] = 0 /\ runs[e] = 0
    BY <2>1 DEF UploadSide, RequestsInv, RequestSent
  <2>3. queue' = [queue EXCEPT ![e] = @ + 1]
    BY <1>4
  <2> HIDE DEF e
  <2>4. CASE d = e
    <3>1. status[d] = "pending"
      BY <2>2, <2>4 DEF WorkSide, StatusByRun
    <3> QED BY <1>2, <2>2, <2>3, <2>4, <3>1 DEF DeliveredOnce, SettledAlone, Terminal
  <2>5. CASE d # e
    BY <1>1, <1>2, <2>3, <2>5 DEF DeliveredOnce, SettledAlone, Task, At
  <2> QED BY <2>4, <2>5
<1> QED BY <1>3, <1>4, UploadEffects

(* Messages that were sent are never unsent. *)
LEMMA UploadCounts ==
    ASSUME IInv, NEW r \in Request, Handles(r), NEW d \in Doc, DeliveredOnce(d)'
    PROVE  DeliveredOnce(d)
<1>1. queue \in [Doc -> Nat] /\ runs \in [Doc -> Nat] /\ runs' = runs
  BY UploadEffects DEF IInv, TypeOK, StoresTypeOK
<1>2. CASE queue' = queue
  BY <1>1, <1>2 DEF DeliveredOnce
<1>3. CASE queue' = [queue EXCEPT ![accepted[r][next[r]]] = @ + 1]
  BY <1>1, <1>3 DEF DeliveredOnce
<1> QED BY <1>2, <1>3, UploadEffects

(* No upload writes to a document that a delete request is at. *)
LEMMA UploadKeepsDeletes ==
    ASSUME IInv, Targets, DeletesSettled, NEW r \in Request, Handles(r), UNCHANGED del
    PROVE  DeletesSettled'
<1> SUFFICES ASSUME NEW h \in Deletion, del[h].seen \in Terminal, DeliveredOnce(Target(h))'
             PROVE  DeletedFor(h)'
  BY DEF DeletesSettled
<1>1. DeletedFor(h)
  <2>1. Target(h) \in Doc /\ Target(h)' = Target(h)
    BY DEF Targets, Terminal, Target
  <2>2. DeliveredOnce(Target(h))
    BY <2>1, UploadCounts
  <2> QED BY <2>2 DEF DeletesSettled
<1>2. UNCHANGED <<status, points, graphDocs, linked, loose>>
  BY UploadEffects DEF indexVars
<1>3. Target(h) \in files' => Target(h) \in files
  <2> SUFFICES ASSUME up[r] = "write" PROVE Target(h) # Last(r)
    BY UploadEffects
  <2>1. accepted[r] \in Seq(Doc) /\ accepted[r] # << >>
    BY DEF IInv, TypeOK, UploadTypeOK, UploadInv, RequestInv
  <2>2. Len(accepted[r]) \in 1..Len(accepted[r])
    BY <2>1
  <2>3. Last(r) \in Doc /\ row[Last(r)] = "staged"
    BY <2>2, AcceptedHasRow DEF Last, InTransaction
  <2> QED BY <2>3 DEF IInv, DeletionInv, Committed
<1>4. row[Target(h)] = "deleted" /\ Target(h) \in Doc => row'[Target(h)] = "deleted"
  BY UploadStepRows DEF Handles
<1>5. Stage(h, "done") => Target(h) \in Doc
  BY DEF Targets, Stage
<1> QED BY <1>1, <1>2, <1>3, <1>4, <1>5 DEF DeletedFor, OnlyDelete, Of, Stage, Target

-----------------------------------------------------------------------------
(***************************************************************************)
(* Steps of the workers, of the broker and of delete requests, as uploads  *)
(* see them.                                                               *)
(***************************************************************************)

(* Rows are only deleted and files only removed at a delete request's
   document; messages are taken or delivered again, never made up. *)
Calm ==
    /\ UNCHANGED <<upVars, keyOf, jobOf>>
    /\ \A d \in Doc : \/ row'[d] = row[d]
                      \/ Committed(d) /\ row'[d] = "deleted" /\ Touched(d)'
    /\ files' \subseteq files
    /\ \A d \in files \ files' : Committed(d) /\ Touched(d)'
    /\ \A d \in Doc : Touched(d) => Touched(d)'
    /\ \A d \in Doc : /\ Messages(d) > 0 => Messages(d)' > 0
                      /\ queue[d] = 0 /\ runs[d] = 0 => queue'[d] = 0 /\ runs'[d] = 0

(* Calm steps keep the uploads' side of the invariant. *)
LEMMA CalmKeepsUploadSide ==
    ASSUME IInv, UploadSide, Calm, Targets'
    PROVE  UploadSide'
<1> USE DEF UploadSide
<1>1. UNCHANGED <<up, next, accepted, dups, keyOf, jobOf>> /\ files' \subseteq files
  BY DEF Calm, upVars
<1>2. \A d \in Doc : /\ Committed(d) => Committed(d)'
                     /\ row[d] = "fresh" <=> row'[d] = "fresh"
                     /\ row[d] = "staged" <=> row'[d] = "staged"
                     /\ Committed(d)' => Committed(d)
  BY DEF Calm, Committed
<1>3. ASSUME NEW q \in Request
      PROVE  RequestRows(q)' /\ RequestFiles(q)' /\ RequestDups(q)' /\ RequestSent(q)'
  <2>1. RequestRows(q) /\ RequestFiles(q) /\ RequestDups(q) /\ RequestSent(q)
    BY DEF RequestsInv
  <2>2. accepted[q] \in Seq(Doc)
    BY DEF IInv, TypeOK, UploadTypeOK
  <2>3. RequestRows(q)'
    BY <1>1, <2>1 DEF RequestRows, InTransaction
  <2>4. RequestFiles(q)'
    <3>1. ASSUME InTransaction(q), NEW i \in 1..Len(accepted[q]), accepted[q][i] \in files
          PROVE  accepted[q][i] \in files'
      <4>1. row[accepted[q][i]] = "staged"
        BY <3>1, AcceptedHasRow
      <4> QED BY <3>1, <4>1 DEF Calm, Committed
    <3> QED BY <1>1, <2>1, <3>1 DEF RequestFiles, InTransaction
  <2>5. RequestDups(q)'
    <3>1. up'[q] = "idle" => dups'[q] = {}
      BY <1>1, <2>1 DEF RequestDups
    <3>2. ASSUME InTransaction(q) \/ up[q] \in {"send", "done"}, NEW i \in dups[q]
          PROVE  \E d \in Doc :
                    /\ keyOf[d] = FilesOf[q][i]
                    /\ Committed(d)' \/ (InTransaction(q) /\ row'[d] = "staged" /\ jobOf[d] = q)
      <4>1. PICK d \in Doc :
               /\ keyOf[d] = FilesOf[q][i]
               /\ Committed(d) \/ (InTransaction(q) /\ row[d] = "staged" /\ jobOf[d] = q)
        BY <2>1, <3>2 DEF RequestDups
      <4> QED BY <1>2, <4>1
    <3> QED BY <1>1, <3>1, <3>2 DEF RequestDups, InTransaction
  <2>6. RequestSent(q)'
    <3>1. \A i \in 1..Len(accepted[q]) :
             /\ Messages(accepted[q][i]) > 0 =>
                   queue'[accepted[q][i]] + runs'[accepted[q][i]] > 0
             /\ queue[accepted[q][i]] = 0 /\ runs[accepted[q][i]] = 0 =>
                   queue'[accepted[q][i]] = 0 /\ runs'[accepted[q][i]] = 0
      BY <2>2 DEF Calm, Messages
    <3> QED BY <1>1, <2>1, <3>1 DEF RequestSent, Messages
  <2> QED BY <2>3, <2>4, <2>5, <2>6
<1>4. RequestsInv'
  BY <1>3 DEF RequestsInv
<1>5. RowsOwned'
  BY <1>1, <1>2 DEF RowsOwned, InTransaction
<1>6. FilesThere'
  BY <1>2 DEF FilesThere, Calm
<1>7. FilesNamed'
  BY <1>1, <1>2 DEF FilesNamed, IInv, TypeOK, StoresTypeOK
<1>8. FilesAreAccountedFor'
  <2> SUFFICES ASSUME NEW d \in files'
               PROVE  \/ row'[d] \in {"staged", "committed"}
                      \/ up[jobOf[d]] \in {"error", "crashed"}
                      \/ Touched(d)'
    BY <1>1 DEF FilesAreAccountedFor
  <2>1. d \in files /\ d \in Doc
    BY <1>1 DEF IInv, TypeOK, StoresTypeOK
  <2> QED BY <2>1 DEF FilesAreAccountedFor, Calm
<1> QED BY <1>4, <1>5, <1>6, <1>7, <1>8

(* Workers and the broker are calm: they take messages off the queue only to
   execute them, and put back only what is there. *)
LEMMA WorkerIsCalm ==
    ASSUME IInv, WorkerNext, UNCHANGED <<upVars, del>>
    PROVE  Calm /\ files' = files
<1>1. UNCHANGED <<row, keyOf, jobOf>>
  BY WorkerStepFrame
<1>2. \A d \in Doc : Touched(d)' <=> Touched(d)
  BY DEF Touched, Target
<1>3. queue \in [Doc -> Nat] /\ runs \in [Doc -> Nat]
  BY DEF IInv, TypeOK, StoresTypeOK
<1>4. files' = files
  BY DEF WorkerNext, WorkerStep, Take, Redeliver, SetRunning, SetRunningFails, Extract,
         UpsertPoints, UpsertPointsFails, MergeDocument, MergeDocumentFails,
         MergeChunks, MergeChunksFails, SetCompleted, SetCompletedFails,
         SetFailed, SetFailedFails, WorkerCrash, storeVars
<1>5. ASSUME NEW d \in Doc
      PROVE  /\ Messages(d) > 0 => Messages(d)' > 0
             /\ queue[d] = 0 /\ runs[d] = 0 => queue'[d] = 0 /\ runs'[d] = 0
  <2>1. ASSUME NEW w \in Worker, NEW e \in Doc, Take(w, e)
        PROVE  /\ Messages(d) > 0 => Messages(d)' > 0
               /\ queue[d] = 0 /\ runs[d] = 0 => queue'[d] = 0 /\ runs'[d] = 0
    <3>1. /\ queue[e] > 0 /\ queue' = [queue EXCEPT ![e] = queue[e] - 1]
          /\ runs' = [runs EXCEPT ![e] = @ + 1]
      BY <2>1 DEF Take, Acknowledged
    <3> QED BY <1>3, <3>1 DEF Messages
  <2>2. ASSUME NEW e \in Doc, Redeliver(e)
        PROVE  /\ Messages(d) > 0 => Messages(d)' > 0
               /\ queue[d] = 0 /\ runs[d] = 0 => queue'[d] = 0 /\ runs'[d] = 0
    BY <1>3, <2>2 DEF Redeliver, Messages
  <2>3. CASE UNCHANGED <<queue, runs>>
    BY <2>3 DEF Messages
  <2> QED BY <2>1, <2>2, <2>3
          DEF WorkerNext, WorkerStep, SetRunning, SetRunningFails, Extract,
              UpsertPoints, UpsertPointsFails, MergeDocument, MergeDocumentFails,
              MergeChunks, MergeChunksFails, SetCompleted, SetCompletedFails,
              SetFailed, SetFailedFails, WorkerCrash, storeVars
<1> QED BY <1>1, <1>2, <1>4, <1>5 DEF Calm

(* Where a delete request goes from a step: it keeps its document and what it
   saw, and its record of what it deleted only grows. *)
LEMMA DeletionCourse ==
    ASSUME IInv, NEW h \in Deletion, DeletionStep(h) \/ DeletionCrash(h)
    PROVE  /\ \A g \in Deletion : g # h => del'[g] = del[g]
           /\ Target(h)' = Target(h) /\ del'[h].seen = del[h].seen
           /\ del[h].pc \notin {"idle", "notfound"} /\ del'[h].pc \notin {"idle", "notfound"}
<1>1. /\ \A g \in Deletion : g # h => del'[g] = del[g]
      /\ del'[h].doc = del[h].doc
  BY DeletionStepAdvances, AdvanceEffect DEF IInv
<1>2. PICK pc \in DeletionPC, ok \in SUBSET {"vector", "graph", "file"} :
         /\ Advance(h, pc, ok) /\ pc \notin {"idle", "notfound"}
  BY DEF DeletionStep, DeletePoints, DeletePointsFails, DeleteGraph, DeleteGraphFails,
         UnlinkFile, UnlinkFileFails, DeleteRow, DeleteRowFails, DeletionCrash, DeletionPC
<1>3. del'[h] = [pc |-> pc, doc |-> del[h].doc, seen |-> del[h].seen,
                 ok |-> del[h].ok \union ok]
  BY <1>2 DEF Advance, IInv, TypeOK, DeletionTypeOK
<1>4. del[h].pc \notin {"idle", "notfound"}
  BY DEF DeletionStep, DeletePoints, DeletePointsFails, DeleteGraph, DeleteGraphFails,
         UnlinkFile, UnlinkFileFails, DeleteRow, DeleteRowFails, DeletionCrash,
         DeletionOver, Stage
<1> QED BY <1>1, <1>2, <1>3, <1>4 DEF Target

(* What the lookup of a delete request does. *)
LEMMA LookupEffect ==
    ASSUME IInv, NEW h \in Deletion, NEW d \in Doc, Lookup(h, d)
    PROVE  /\ \A g \in Deletion : g # h => del'[g] = del[g]
           /\ del[h].pc = "idle"
           /\ \/ /\ Live(d)
                 /\ del'[h].pc = "vector" /\ del'[h].doc = d
                 /\ del'[h].seen = status[d] /\ del'[h].ok = {}
              \/ /\ del'[h].pc = "notfound" /\ del'[h].doc = del[h].doc
                 /\ del'[h].seen = del[h].seen /\ del'[h].ok = del[h].ok
<1>1. del \in [Deletion -> DeletionState] /\ del[h] \in DeletionState
  BY DEF IInv, TypeOK, DeletionTypeOK
<1>2. CASE Live(d)
  BY <1>1, <1>2 DEF Lookup, Stage
<1>3. CASE ~Live(d)
  <2>1. del' = [del EXCEPT ![h].pc = "notfound"] /\ del[h].pc = "idle"
    BY <1>3 DEF Lookup, Stage
  <2> QED BY <1>1, <2>1 DEF DeletionState
<1> QED BY <1>2, <1>3

(* A delete request keeps its document for good. *)
LEMMA DeletionKeepsTargets ==
    ASSUME IInv, Targets, DeletionNext
    PROVE  /\ Targets'
           /\ \A d \in Doc : Touched(d) => Touched(d)'
<1>1. ASSUME NEW h \in Deletion, NEW d \in Doc, Lookup(h, d)
      PROVE  /\ Targets'
             /\ \A e \in Doc : Touched(e) => Touched(e)'
  <2>1. Target(h) = NoDoc /\ del[h].seen = "pending"
    BY <1>1, LookupEffect DEF Targets
  <2>2. Targets'
    <3>1. \/ del'[h].pc = "vector" /\ del'[h].doc = d
          \/ del'[h].pc = "notfound" /\ del'[h].doc = NoDoc /\ del'[h].seen = "pending"
      BY <1>1, <2>1, LookupEffect DEF Target
    <3> QED BY <1>1, <3>1, LookupEffect DEF Targets, Target
  <2>3. ASSUME NEW e \in Doc, Touched(e) PROVE Touched(e)'
    <3>1. PICK g \in Deletion : Target(g) = e
      BY <2>3 DEF Touched
    <3>2. g # h
      BY <2>1, <3>1, NoneAssumption
    <3> QED BY <1>1, <3>1, <3>2, LookupEffect DEF Touched, Target
  <2> QED BY <2>2, <2>3
<1>2. ASSUME NEW h \in Deletion, DeletionStep(h) \/ DeletionCrash(h)
      PROVE  /\ Targets'
             /\ \A e \in Doc : Touched(e) => Touched(e)'
  <2>1. Targets'
    BY <1>2, DeletionCourse DEF Targets, Target
  <2>2. \A g \in Deletion : Target(g)' = Target(g)
    BY <1>2, DeletionCourse DEF Target
  <2> QED BY <2>1, <2>2 DEF Touched
<1> QED BY <1>1, <1>2 DEF DeletionNext

(* Delete requests are calm: they take away a row or a file of their own
   document only. *)
LEMMA DeletionIsCalm ==
    ASSUME IInv, Targets, DeletionNext, UNCHANGED <<upVars, slot>>
    PROVE  Calm
<1>1. UNCHANGED <<keyOf, jobOf, queue, runs>>
  BY DeletionStepFrame
<1>2. \A d \in Doc : Touched(d) => Touched(d)'
  BY DeletionKeepsTargets
<1>3. row' = row \/ \E h \in Deletion : /\ Committed(Target(h)) /\ Target(h) \in Doc
                                        /\ row' = [row EXCEPT ![Target(h)] = "deleted"]
  BY DeletionStepFrame
<1>4. \A d \in Doc : row'[d] = row[d] \/ (Committed(d) /\ row'[d] = "deleted" /\ Touched(d))
  BY <1>3 DEF Touched, IInv, TypeOK, StoresTypeOK
<1>5. files' = files \/ \E h \in Deletion : Target(h) \in Doc /\ files' = files \ {Target(h)}
  BY DEF DeletionNext, DeletionStep, Lookup, DeletePoints, DeletePointsFails, DeleteGraph,
         DeleteGraphFails, UnlinkFile, UnlinkFileFails, DeleteRow, DeleteRowFails,
         DeletionCrash, storeVars, Stage, IInv, DeletionInv
<1>6. \A d \in files \ files' : Committed(d) /\ Touched(d) /\ d \in Doc
  BY <1>5 DEF Touched, IInv, DeletionInv
<1> QED BY <1>1, <1>2, <1>4, <1>5, <1>6 DEF Calm, Messages

-----------------------------------------------------------------------------
(***************************************************************************)
(* Steps of the workers and of the broker.                                 *)
(***************************************************************************)

(* A step of a worker that takes no message is one of the process it executes,
   which it goes on with or leaves. *)
LEMMA WorkerCourse ==
    ASSUME IInv, NEW w \in Worker, WorkerStep(w) \/ WorkerCrash(w),
           \A d \in Doc : ~Take(w, d)
    PROVE  /\ ~At(w, "idle") /\ UNCHANGED <<queue, runs>>
           /\ \A v \in Worker : v # w => slot'[v] = slot[v]
           /\ \/ slot'[w] = IdleSlot
              \/ /\ slot'[w].doc = slot[w].doc /\ slot'[w].run = slot[w].run
                 /\ slot'[w].pc # "idle"
<1>1. /\ ~At(w, "idle")
      /\ UNCHANGED <<queue, runs>>
      /\ \/ slot' = [slot EXCEPT ![w] = IdleSlot]
         \/ \E pc \in WorkerPC \ {"idle"} : slot' = [slot EXCEPT ![w].pc = pc]
  BY DEF WorkerStep, SetRunning, SetRunningFails, Extract, AfterOcr,
       UpsertPoints, UpsertPointsFails, MergeDocument, MergeDocumentFails,
       MergeChunks, MergeChunksFails, SetCompleted, SetCompletedFails,
       SetFailed, SetFailedFails, WorkerCrash, Goto, Release, OnStoreError,
       WorkerPC, At, storeVars
<1> QED BY <1>1 DEF IInv, TypeOK, WorkerTypeOK, Slot

(* A message is executed under a number of its own. *)
LEMMA TakeEffect ==
    ASSUME IInv, NEW w \in Worker, NEW d \in Doc, Take(w, d)
    PROVE  /\ slot[w].pc = "idle" /\ queue[d] > 0
           /\ \A v \in Worker : v # w => slot'[v] = slot[v]
           /\ slot'[w].pc = "begin" /\ slot'[w].doc = d /\ slot'[w].run = runs[d] + 1
           /\ queue' = [queue EXCEPT ![d] = queue[d] - 1]
           /\ runs' = [runs EXCEPT ![d] = runs[d] + 1]
           /\ UNCHANGED <<pgVars, files, indexVars>>
BY DEF Take, At, Acknowledged, IInv, TypeOK, WorkerTypeOK

(* Executions of one document keep different numbers. *)
LEMMA WorkerKeepsRuns ==
    ASSUME IInv, RunsNumbered, IdleHasNone, WorkerNext
    PROVE  RunsNumbered' /\ IdleHasNone'
<1>1. runs \in [Doc -> Nat] /\ slot \in [Worker -> Slot]
  BY DEF IInv, TypeOK, StoresTypeOK, WorkerTypeOK
<1>2. ASSUME NEW w \in Worker, NEW d \in Doc, Take(w, d)
      PROVE  RunsNumbered' /\ IdleHasNone'
  <2>1. /\ \A v \in Worker : v # w => slot'[v] = slot[v]
        /\ slot'[w].pc = "begin" /\ slot'[w].doc = d /\ slot'[w].run = runs[d] + 1
        /\ runs' = [runs EXCEPT ![d] = runs[d] + 1]
    BY <1>2, TakeEffect
  <2>2. /\ runs'[d] = runs[d] + 1 /\ runs[d] \in Nat
        /\ \A e \in Doc : e # d => runs'[e] = runs[e]
    BY <1>1, <2>1
  <2>3. \A v \in Worker : v # w /\ slot[v].pc # "idle" =>
            slot[v].doc \in Doc /\ slot[v].run \in 1..runs[slot[v].doc]
    BY DEF IInv, SlotInv, RunsNumbered, At, Task
  <2>4. ASSUME NEW v \in Worker, NEW u \in Worker, slot'[v].pc # "idle",
               slot'[u].pc # "idle", slot'[v].doc = slot'[u].doc
        PROVE  /\ slot'[u].run \in 1..runs'[slot'[u].doc]
               /\ slot'[v].run = slot'[u].run => v = u
    <3>1. CASE u = w /\ v = w
      BY <2>1, <2>2, <3>1
    <3>2. CASE u = w /\ v # w
      BY <2>1, <2>2, <2>3, <2>4, <3>2
    <3>3. CASE u # w /\ v = w
      BY <2>1, <2>2, <2>3, <2>4, <3>3
    <3>4. CASE u # w /\ v # w
      <4>1. /\ slot[u].run \in 1..runs[slot[u].doc]
            /\ slot[v].run = slot[u].run => v = u
        BY <2>1, <2>4, <3>4 DEF RunsNumbered, At, Task
      <4>2. runs'[slot[u].doc] >= runs[slot[u].doc] /\ runs'[slot[u].doc] \in Nat
        BY <1>1, <2>1, <2>2, <2>3, <2>4, <3>4
      <4> QED BY <1>1, <2>1, <2>3, <2>4, <3>4, <4>1, <4>2
    <3> QED BY <3>1, <3>2, <3>3, <3>4
  <2> QED BY <2>1, <2>4 DEF RunsNumbered, IdleHasNone, At, Task
<1>3. ASSUME NEW w \in Worker, WorkerStep(w) \/ WorkerCrash(w),
             \A d \in Doc : ~Take(w, d)
      PROVE  RunsNumbered' /\ IdleHasNone'
  <2>1. /\ ~At(w, "idle") /\ runs' = runs
        /\ \A v \in Worker : v # w => slot'[v] = slot[v]
        /\ \/ slot'[w].pc = "idle" /\ slot'[w].doc = NoDoc
           \/ /\ slot'[w].doc = slot[w].doc /\ slot'[w].run = slot[w].run
              /\ slot'[w].pc # "idle"
    BY <1>3, WorkerCourse DEF IdleSlot
  <2> QED BY <2>1 DEF RunsNumbered, IdleHasNone, At, Task
<1>4. ASSUME NEW d \in Doc, Redeliver(d)
      PROVE  RunsNumbered' /\ IdleHasNone'
  BY <1>4 DEF Redeliver, RunsNumbered, IdleHasNone, At, Task
<1> QED BY <1>2, <1>3, <1>4 DEF WorkerNext, WorkerStep

(* Who writes a status, and what: the execution at the last statement, at the
   first one, or in the exception handler. *)
LEMMA StatusWritten ==
    ASSUME IInv, WorkerNext, NEW d \in Doc, status'[d] # status[d]
    PROVE  \E w \in Worker :
              /\ Task(w) = d /\ ~At(w, "idle")
              /\ \/ /\ At(w, "begin") /\ status'[d] = "running"
                    /\ slot'[w].pc \in {"ocr", "fail"}
                 \/ /\ At(w, "complete") /\ status'[d] = "completed"
                    /\ slot'[w] = IdleSlot \/ slot'[w].pc = "fail"
                 \/ At(w, "fail") /\ status'[d] = "failed" /\ slot'[w] = IdleSlot
              /\ Live(d) /\ status' = [status EXCEPT ![d] = status'[d]]
              /\ UNCHANGED <<queue, runs, points, graphDocs, linked, loose>>
<1>1. PICK w \in Worker, s \in DocStatus :
         /\ \/ /\ At(w, "begin") /\ s = "running"
               /\ Goto(w, "ocr") \/ Goto(w, "fail")
            \/ /\ At(w, "complete") /\ s = "completed"
               /\ Release(w) \/ Goto(w, "fail")
            \/ At(w, "fail") /\ s = "failed" /\ Release(w)
         /\ SetStatus(Task(w), s)
         /\ UNCHANGED <<queue, runs, indexVars>>
  BY DEF WorkerNext, WorkerStep, Take, Redeliver, SetRunning, SetRunningFails, Extract,
         UpsertPoints, UpsertPointsFails, MergeDocument, MergeDocumentFails,
         MergeChunks, MergeChunksFails, SetCompleted, SetCompletedFails,
         SetFailed, SetFailedFails, WorkerCrash, RecordFailure, FailureStatus,
         NothingSet, DocStatus, storeVars, pgVars
<1>2. \/ status' = [status EXCEPT ![Task(w)] = s] /\ Live(Task(w))
      \/ status' = status
  BY <1>1 DEF SetStatus, DocumentUpdate
<1>3. Task(w) = d /\ status'[d] = s /\ Live(d) /\ status' = [status EXCEPT ![d] = s]
  BY <1>2 DEF IInv, TypeOK, StoresTypeOK
<1>4. Release(w) => slot'[w] = IdleSlot
  BY DEF Release, IInv, TypeOK, WorkerTypeOK
<1>5. \A pc : Goto(w, pc) => slot'[w].pc = pc
  BY DEF Goto, IInv, TypeOK, WorkerTypeOK, Slot
<1> QED BY <1>1, <1>3, <1>4, <1>5 DEF At, indexVars

(* What workers write to the indexes, each at its own statement: the stores
   only grow, by a chunk or node of the document being executed. *)
LEMMA IndexWritten ==
    ASSUME IInv, WorkerNext
    PROVE  /\ points \subseteq points' /\ graphDocs \subseteq graphDocs'
           /\ linked \subseteq linked' /\ loose \subseteq loose'
           /\ \A c \in points' \ points : \E w \in Worker : At(w, "points") /\ c = Chunk(w)
           /\ \A d \in graphDocs' \ graphDocs :
                 \E w \in Worker : At(w, "document") /\ d = Task(w)
           /\ \A c \in (linked' \ linked) \union (loose' \ loose) :
                 \E w \in Worker : At(w, "chunks") /\ c = Chunk(w)
           /\ \A c \in loose' \ loose :
                 \E w \in Worker : At(w, "chunks") /\ c = Chunk(w) /\ Task(w) \notin graphDocs
<1> USE DEF storeVars, indexVars
<1>1. ASSUME NEW w \in Worker, UpsertPoints(w) \/ UpsertPointsFails(w)
      PROVE  /\ At(w, "points") /\ points' \in {points, points \union {Chunk(w)}}
             /\ UNCHANGED <<graphDocs, linked, loose>>
  BY <1>1 DEF UpsertPoints, UpsertPointsFails
<1>2. ASSUME NEW w \in Worker, MergeDocument(w) \/ MergeDocumentFails(w)
      PROVE  /\ At(w, "document") /\ graphDocs' \in {graphDocs, graphDocs \union {Task(w)}}
             /\ UNCHANGED <<points, linked, loose>>
  BY <1>2 DEF MergeDocument, MergeDocumentFails
<1>3. ASSUME NEW w \in Worker, MergeChunks(w) \/ MergeChunksFails(w)
      PROVE  /\ At(w, "chunks") /\ UNCHANGED <<points, graphDocs>>
             /\ \/ UNCHANGED <<linked, loose>>
                \/ linked' = linked \union {Chunk(w)} /\ loose' = loose
                \/ /\ Task(w) \notin graphDocs
                   /\ loose' = loose \union {Chunk(w)} /\ linked' = linked
  BY <1>3 DEF MergeChunks, MergeChunksFails, ChunkWrites
<1>4. \/ UNCHANGED indexVars
      \/ \E w \in Worker : \/ UpsertPoints(w) \/ UpsertPointsFails(w)
                           \/ MergeDocument(w) \/ MergeDocumentFails(w)
                           \/ MergeChunks(w) \/ MergeChunksFails(w)
  BY DEF WorkerNext, WorkerStep, Take, Redeliver, SetRunning, SetRunningFails, Extract,
         SetCompleted, SetCompletedFails, SetFailed, SetFailedFails, WorkerCrash
<1>5. CASE UNCHANGED indexVars
  BY <1>5
<1>6. CASE \E w \in Worker : UpsertPoints(w) \/ UpsertPointsFails(w)
  BY <1>1, <1>6
<1>7. CASE \E w \in Worker : MergeDocument(w) \/ MergeDocumentFails(w)
  BY <1>2, <1>7
<1>8. CASE \E w \in Worker : MergeChunks(w) \/ MergeChunksFails(w)
  BY <1>3, <1>8
<1> QED BY <1>4, <1>5, <1>6, <1>7, <1>8

(* An execution reaches a statement only through those before it. *)
LEMMA WorkerKeepsWrites ==
    ASSUME IInv, WorkWrites, IdleHasNone, WorkerNext, UNCHANGED <<upVars, del>>
    PROVE  WorkWrites'
<1>1. /\ points \subseteq points' /\ graphDocs \subseteq graphDocs' /\ linked \subseteq linked'
      /\ UNCHANGED keyOf
  BY IndexWritten, WorkerStepFrame
<1>2. SUFFICES ASSUME NEW v \in Worker, ~Touched(Task(v)') PROVE SlotWrites(v)'
  BY DEF WorkWrites, Touched, Target
<1>3. CASE slot'[v] = slot[v]
  <2>1. SlotWrites(v)
    BY <1>2, <1>3 DEF WorkWrites, Task
  <2> QED BY <1>1, <1>3, <2>1 DEF SlotWrites, At, Task, Chunk
<1>4. CASE slot'[v] # slot[v]
  <2>1. CASE \E d \in Doc : Take(v, d)
    BY <2>1, TakeEffect DEF SlotWrites, At
  <2>2. CASE ~\E d \in Doc : Take(v, d)
    <3>1. WorkerStep(v) \/ WorkerCrash(v)
      <4>1. \A d \in Doc : ~Redeliver(d)
        BY <1>4 DEF Redeliver
      <4>2. \A w \in Worker : w # v => ~WorkerStep(w) /\ ~WorkerCrash(w)
        BY <1>4, WorkerCourse, TakeEffect
      <4> QED BY <4>1, <4>2 DEF WorkerNext
    <3>2. CASE slot'[v] = IdleSlot
      BY <3>2 DEF SlotWrites, At, IdleSlot
    <3>3. CASE slot'[v].doc = slot[v].doc /\ slot'[v].run = slot[v].run
      <4>1. SlotWrites(v)
        BY <1>2, <3>3 DEF WorkWrites, Task
      <4>2. slot'[v] = slot[v] \/ slot'[v].pc \notin {"document", "chunks", "complete"}
            \/ UpsertPoints(v) \/ MergeDocument(v) \/ MergeChunks(v)
            \/ (slot'[v].pc = "complete" /\ keyOf[Task(v)] \in Blank)
        <5>1. \/ UpsertPoints(v) \/ MergeDocument(v) \/ MergeChunks(v)
              \/ Release(v)
              \/ \E pc \in {"ocr", "points", "fail"} : Goto(v, pc)
              \/ keyOf[Task(v)] \in Blank /\ Goto(v, "complete")
          BY <2>2, <3>1 DEF WorkerStep, SetRunning, SetRunningFails, Extract, AfterOcr,
             UpsertPointsFails, MergeDocumentFails, MergeChunksFails, SetCompleted,
             SetCompletedFails, SetFailed, SetFailedFails, WorkerCrash, OnStoreError
        <5>2. Release(v) => slot'[v].pc = "idle"
          BY DEF Release, IdleSlot, IInv, TypeOK, WorkerTypeOK
        <5>3. \A pc : Goto(v, pc) => slot'[v].pc = pc
          BY DEF Goto, IInv, TypeOK, WorkerTypeOK, Slot
        <5> QED BY <5>1, <5>2, <5>3
      <4>3. CASE UpsertPoints(v)
        <5>1. slot'[v].pc = "document" /\ Chunk(v) \in points'
          BY <4>3 DEF UpsertPoints, Goto, IInv, TypeOK, WorkerTypeOK, Slot
        <5> QED BY <3>3, <5>1 DEF SlotWrites, At, Task, Chunk
      <4>4. CASE MergeDocument(v)
        <5>1. /\ slot'[v].pc = "chunks" /\ Task(v) \in graphDocs' /\ slot[v].pc = "document"
          BY <4>4 DEF MergeDocument, Goto, At, IInv, TypeOK, WorkerTypeOK, Slot
        <5>2. Chunk(v) \in points'
          BY <1>1, <4>1, <5>1 DEF SlotWrites, At
        <5> QED BY <3>3, <5>1, <5>2 DEF SlotWrites, At, Task, Chunk
      <4>5. CASE MergeChunks(v)
        <5>1. slot'[v].pc = "complete" /\ slot[v].pc = "chunks"
          BY <4>5 DEF MergeChunks, Goto, At, IInv, TypeOK, WorkerTypeOK, Slot
        <5>2. Chunk(v) \in points' /\ Task(v) \in graphDocs
          BY <1>1, <4>1, <5>1 DEF SlotWrites, At
        <5>3. Chunk(v) \in linked'
          BY <4>5, <5>2 DEF MergeChunks, ChunkWrites
        <5> QED BY <3>3, <5>1, <5>2, <5>3 DEF SlotWrites, At, Task, Chunk
      <4>6. CASE slot'[v].pc \notin {"document", "chunks", "complete"}
        BY <4>6 DEF SlotWrites, At
      <4>7. CASE slot'[v].pc = "complete" /\ keyOf[Task(v)] \in Blank
        BY <1>1, <3>3, <4>7 DEF SlotWrites, At, Task
      <4> QED BY <1>4, <4>2, <4>3, <4>4, <4>5, <4>6, <4>7
    <3> QED BY <2>2, <3>1, <3>2, <3>3, WorkerCourse
  <2> QED BY <2>1, <2>2
<1> QED BY <1>3, <1>4

(* A document is set to `completed` only with its chunks in both indexes, and a
   chunk node is written without its edge only after a deletion. *)
LEMMA WorkerKeepsWorkSide ==
    ASSUME IInv, WorkSide, WorkerNext, UNCHANGED <<upVars, del>>
    PROVE  WorkSide'
<1> USE DEF WorkSide
<1>1. RunsNumbered' /\ IdleHasNone'
  BY WorkerKeepsRuns
<1>2. WorkWrites'
  BY WorkerKeepsWrites
<1>3. UNCHANGED keyOf /\ points \subseteq points' /\ linked \subseteq linked'
  BY IndexWritten, WorkerStepFrame
<1>4. \A d : Touched(d)' <=> Touched(d)
  BY DEF Touched, Target
<1>5. CompletedHolds'
  <2> SUFFICES ASSUME NEW d \in Doc, status'[d] = "completed", ~Touched(d),
                      keyOf[d] \notin Blank
               PROVE  \E c \in points \cap linked : c[1] = d
    BY <1>3, <1>4 DEF CompletedHolds, Of
  <2>1. CASE status[d] = "completed"
    BY <2>1 DEF CompletedHolds, Of
  <2>2. CASE status[d] # "completed"
    <3>1. PICK w \in Worker : Task(w) = d /\ At(w, "complete")
      BY <2>2, StatusWritten
    <3>2. Chunk(w) \in points \cap linked /\ Chunk(w)[1] = d
      BY <3>1 DEF WorkWrites, SlotWrites, Chunk, Task
    <3> QED BY <3>2
  <2> QED BY <2>1, <2>2
<1>6. ASSUME NEW d \in Doc, runs[d] > 0 PROVE runs'[d] > 0
  <2>1. runs \in [Doc -> Nat]
    BY DEF IInv, TypeOK, StoresTypeOK
  <2>2. ASSUME NEW w \in Worker, NEW e \in Doc, Take(w, e)
        PROVE  runs'[d] > 0
    <3>1. runs' = [runs EXCEPT ![e] = runs[e] + 1]
      BY <2>2, TakeEffect
    <3> QED BY <1>6, <2>1, <3>1
  <2>3. ASSUME NEW w \in Worker, WorkerStep(w) \/ WorkerCrash(w), \A e \in Doc : ~Take(w, e)
        PROVE  runs'[d] > 0
    BY <1>6, <2>3, WorkerCourse
  <2>4. ASSUME NEW e \in Doc, Redeliver(e) PROVE runs'[d] > 0
    BY <1>6, <2>4 DEF Redeliver
  <2> QED BY <2>2, <2>3, <2>4 DEF WorkerNext, WorkerStep
<1>7. StatusByRun'
  <2> SUFFICES ASSUME NEW d \in Doc, status'[d] # "pending" PROVE runs[d] > 0
    BY <1>6 DEF StatusByRun
  <2>1. CASE status'[d] = status[d]
    BY <2>1 DEF StatusByRun
  <2>2. CASE status'[d] # status[d]
    BY <2>2, StatusWritten DEF IInv, SlotInv
  <2> QED BY <2>1, <2>2
<1>8. LooseOnlyAfterDelete'
  <2> SUFFICES ASSUME NEW d \in Doc, NEW c \in loose', c[1] = d PROVE Touched(d)
    BY <1>4 DEF LooseOnlyAfterDelete, Of
  <2>1. CASE c \in loose
    BY <2>1 DEF LooseOnlyAfterDelete, Of
  <2>2. CASE c \notin loose
    <3>1. PICK w \in Worker : At(w, "chunks") /\ c = Chunk(w) /\ Task(w) \notin graphDocs
      BY <2>2, IndexWritten
    <3>2. Task(w) = d
      BY <3>1 DEF Chunk, Task
    <3> QED BY <3>1, <3>2 DEF WorkWrites, SlotWrites
  <2> QED BY <2>1, <2>2
<1> QED BY <1>1, <1>2, <1>5, <1>7, <1>8

(* Delivered once, a document is executed by one worker at most, and no longer
   when its status is final, but for an exception handler. *)
LEMMA OneExecution ==
    ASSUME IInv, RunsNumbered, OnceOnly,
           NEW w \in Worker, ~At(w, "idle"), DeliveredOnce(Task(w))
    PROVE  /\ Task(w) \in Doc /\ queue[Task(w)] = 0 /\ runs[Task(w)] = 1
           /\ \A v \in Worker : ~At(v, "idle") /\ Task(v) = Task(w) => v = w
           /\ status[Task(w)] \in Terminal => At(w, "fail")
<1>1. Task(w) \in Doc /\ runs[Task(w)] > 0
  BY DEF IInv, SlotInv
<1>2. runs[Task(w)] \in Nat /\ queue[Task(w)] \in Nat
  BY <1>1 DEF IInv, TypeOK, StoresTypeOK
<1>3. queue[Task(w)] + runs[Task(w)] <= 1
  BY DEF DeliveredOnce
<1>4. queue[Task(w)] = 0 /\ runs[Task(w)] = 1
  BY <1>1, <1>2, <1>3
<1>5. ASSUME NEW v \in Worker, ~At(v, "idle"), Task(v) = Task(w) PROVE v = w
  <2>1. slot[v].run \in 1..1 /\ slot[w].run \in 1..1
    BY <1>4, <1>5 DEF RunsNumbered
  <2>2. slot[v].run = slot[w].run
    BY <2>1
  <2> QED BY <1>5, <2>2 DEF RunsNumbered
<1>6. status[Task(w)] \in Terminal => At(w, "fail")
  BY <1>1 DEF OnceOnly, SettledAlone
<1> QED BY <1>1, <1>4, <1>5, <1>6

(* Delivered once, `completed` and `failed` are followed by `failed` at most. *)
LEMMA WorkerKeepsSettled ==
    ASSUME IInv, RunsNumbered, OnceOnly, WorkerNext,
           NEW d \in Doc, DeliveredOnce(d), status[d] \in Terminal
    PROVE  status'[d] \in Terminal
<1>1. CASE status'[d] = status[d]
  BY <1>1
<1>2. CASE status'[d] # status[d]
  <2>1. PICK w \in Worker :
           /\ Task(w) = d /\ ~At(w, "idle")
           /\ status'[d] \in {"completed", "failed"} \/ At(w, "begin")
    BY <1>2, StatusWritten
  <2>2. At(w, "fail")
    BY <2>1, OneExecution
  <2> QED BY <2>1, <2>2 DEF At, Terminal
<1> QED BY <1>1, <1>2

(* Messages and executions are never forgotten: a message that is taken is an
   execution. *)
LEMMA WorkerCounts ==
    ASSUME IInv, WorkerNext, NEW d \in Doc, DeliveredOnce(d)'
    PROVE  DeliveredOnce(d)
<1>1. queue \in [Doc -> Nat] /\ runs \in [Doc -> Nat]
  BY DEF IInv, TypeOK, StoresTypeOK
<1>2. ASSUME NEW w \in Worker, NEW e \in Doc, Take(w, e) PROVE DeliveredOnce(d)
  <2>1. /\ queue' = [queue EXCEPT ![e] = queue[e] - 1]
        /\ runs' = [runs EXCEPT ![e] = runs[e] + 1]
    BY <1>2, TakeEffect
  <2> QED BY <1>1, <2>1 DEF DeliveredOnce
<1>3. ASSUME NEW e \in Doc, Redeliver(e) PROVE DeliveredOnce(d)
  BY <1>1, <1>3 DEF Redeliver, DeliveredOnce
<1>4. ASSUME NEW w \in Worker, WorkerStep(w) \/ WorkerCrash(w), \A e \in Doc : ~Take(w, e)
      PROVE  DeliveredOnce(d)
  BY <1>4, WorkerCourse DEF DeliveredOnce
<1> QED BY <1>2, <1>3, <1>4 DEF WorkerNext, WorkerStep

(* A message is delivered once only if the broker never puts it back. *)
LEMMA WorkerKeepsDelivery ==
    ASSUME IInv, RunsNumbered, IdleHasNone, StatusByRun, OnceOnly, WorkerNext
    PROVE  OnceOnly'
<1> SUFFICES ASSUME NEW d \in Doc
             PROVE  /\ MaxRedelivery = 0 => DeliveredOnce(d)'
                    /\ DeliveredOnce(d)' => SettledAlone(d)'
  BY DEF OnceOnly
<1>1. queue \in [Doc -> Nat] /\ runs \in [Doc -> Nat]
  BY DEF IInv, TypeOK, StoresTypeOK
<1>2. /\ MaxRedelivery = 0 => DeliveredOnce(d)
      /\ DeliveredOnce(d) => SettledAlone(d)
  BY DEF OnceOnly
<1>6. DeliveredOnce(d)' => DeliveredOnce(d)
  BY WorkerCounts
<1>3. ASSUME NEW w \in Worker, NEW e \in Doc, Take(w, e)
      PROVE  /\ DeliveredOnce(d) => DeliveredOnce(d)' /\ SettledAlone(d)'
  <2>1. /\ queue[e] > 0 /\ UNCHANGED status
        /\ queue' = [queue EXCEPT ![e] = queue[e] - 1]
        /\ runs' = [runs EXCEPT ![e] = runs[e] + 1]
        /\ \A v \in Worker : v # w => slot'[v] = slot[v]
        /\ slot'[w].doc = e
    BY <1>3, TakeEffect DEF pgVars
  <2>2. SUFFICES ASSUME DeliveredOnce(d), SettledAlone(d)
                 PROVE  DeliveredOnce(d)' /\ SettledAlone(d)'
    BY <1>2
  <2>5. DeliveredOnce(d)'
    BY <1>1, <2>1, <2>2 DEF DeliveredOnce
  <2>3. CASE d = e
    <3>1. runs[d] = 0
      BY <1>1, <2>1, <2>2, <2>3 DEF DeliveredOnce
    <3>2. status[d] \notin Terminal
      BY <3>1 DEF StatusByRun, Terminal
    <3> QED BY <2>1, <2>5, <3>2 DEF SettledAlone
  <2>4. CASE d # e
    <3>1. queue'[d] = queue[d]
      BY <1>1, <2>1, <2>4
    <3>2. \A v \in Worker : Task(v)' = d => slot'[v] = slot[v]
      BY <2>1, <2>4 DEF Task
    <3> QED BY <2>1, <2>2, <2>5, <3>1, <3>2 DEF SettledAlone, At, Task
  <2> QED BY <2>3, <2>4
<1>4. ASSUME NEW e \in Doc, Redeliver(e)
      PROVE  /\ MaxRedelivery = 0 => FALSE
             /\ DeliveredOnce(d)' => SettledAlone(d)'
  <2>1. /\ UNCHANGED <<status, runs, slot>> /\ queue[e] > 0
        /\ queue[e] + runs[e] <= MaxRedelivery
        /\ queue' = [queue EXCEPT ![e] = queue[e] + 1]
    BY <1>4 DEF Redeliver, pgVars
  <2>2. CASE d = e
    BY <1>1, <2>1, <2>2 DEF DeliveredOnce
  <2>3. CASE d # e
    BY <1>1, <1>2, <1>6, <2>1, <2>3 DEF SettledAlone, At, Task
  <2> QED BY <1>1, <2>1, <2>2, <2>3
<1>5. ASSUME NEW w \in Worker, WorkerStep(w) \/ WorkerCrash(w), \A e \in Doc : ~Take(w, e)
      PROVE  /\ DeliveredOnce(d) => DeliveredOnce(d)' /\ SettledAlone(d)'
  <2>1. /\ ~At(w, "idle") /\ UNCHANGED <<queue, runs>>
        /\ \A v \in Worker : v # w => slot'[v] = slot[v]
        /\ slot'[w] = IdleSlot \/ slot'[w].doc = slot[w].doc
    BY <1>5, WorkerCourse
  <2> SUFFICES ASSUME DeliveredOnce(d) PROVE DeliveredOnce(d)' /\ SettledAlone(d)'
    OBVIOUS
  <2>0. SettledAlone(d)
    BY <1>2
  <2>2. SUFFICES ASSUME status'[d] \in Terminal, NEW v \in Worker, Task(v)' = d
                 PROVE  queue[d] = 0 /\ At(v, "fail")'
    <3>1. status'[d] \in Terminal => queue[d] = 0
      <4>1. CASE status'[d] = status[d]
        BY <2>0, <4>1 DEF SettledAlone
      <4>2. CASE status'[d] # status[d]
        BY <4>2, StatusWritten, OneExecution
      <4> QED BY <4>1, <4>2
    <3> QED BY <2>1, <3>1 DEF DeliveredOnce, SettledAlone
  <2>3. Task(v) = d /\ slot'[v] # IdleSlot
    <3>1. slot'[v] # IdleSlot
      BY <2>2, NoneAssumption DEF IdleSlot, Task
    <3> QED BY <2>1, <2>2, <3>1 DEF Task
  <2>4. CASE status'[d] # status[d]
    <3>1. PICK u \in Worker :
             /\ Task(u) = d /\ ~At(u, "idle")
             /\ \/ status'[d] = "running"
                \/ slot'[u] = IdleSlot \/ slot'[u].pc = "fail"
      BY <2>4, StatusWritten
    <3>2. ~At(v, "idle")
      BY <2>3, NoneAssumption DEF IdleHasNone
    <3>3. u = v /\ queue[d] = 0
      BY <2>3, <3>1, <3>2, OneExecution
    <3> QED BY <2>2, <2>3, <3>1, <3>3 DEF At, Terminal
  <2>5. CASE status'[d] = status[d]
    <3>1. At(v, "fail") /\ queue[d] = 0
      BY <2>0, <2>2, <2>3, <2>5 DEF SettledAlone
    <3>2. v = w => slot'[v] = IdleSlot
      BY <1>5, <3>1 DEF At, WorkerStep, SetRunning, SetRunningFails, Extract, UpsertPoints,
         UpsertPointsFails, MergeDocument, MergeDocumentFails, MergeChunks,
         MergeChunksFails, SetCompleted, SetCompletedFails, SetFailed, SetFailedFails,
         WorkerCrash, Release, IInv, TypeOK, WorkerTypeOK
    <3> QED BY <2>1, <2>3, <3>1, <3>2 DEF At
  <2> QED BY <2>4, <2>5
<1> QED BY <1>2, <1>3, <1>4, <1>5, <1>6 DEF WorkerNext, WorkerStep

(* Nobody writes to a document that a delete request found settled. *)
LEMMA WorkerKeepsDeletes ==
    ASSUME IInv, Targets, WorkSide, OnceOnly, DeletesSettled,
           WorkerNext, UNCHANGED <<upVars, del>>
    PROVE  DeletesSettled'
<1> SUFFICES ASSUME NEW h \in Deletion, del[h].seen \in Terminal, DeliveredOnce(Target(h))'
             PROVE  DeletedFor(h)'
  BY DEF DeletesSettled
<1> DEFINE d == Target(h)
<1>0. DeliveredOnce(d)
  <2>1. Target(h) \in Doc /\ Target(h)' = Target(h)
    BY DEF Targets, Terminal, Target
  <2> QED BY <2>1, WorkerCounts
<1>1. DeletedFor(h) /\ RunsNumbered
  BY <1>0 DEF DeletesSettled, WorkSide
<1>2. d \in Doc /\ status[d] \in Terminal
  BY <1>1 DEF DeletedFor, Targets, Terminal
<1>3. status'[d] \in Terminal
  BY <1>0, <1>1, <1>2, WorkerKeepsSettled
<1>4. UNCHANGED row /\ files' = files
  BY WorkerStepFrame, WorkerIsCalm
<1>5. ASSUME NEW w \in Worker, At(w, "points") \/ At(w, "document") \/ At(w, "chunks")
      PROVE  Task(w) # d /\ Chunk(w)[1] # d
  <2>1. ~At(w, "idle") /\ ~At(w, "fail")
    BY <1>5 DEF At
  <2>2. Task(w) # d
    BY <1>0, <1>1, <1>2, <2>1, OneExecution
  <2> QED BY <2>2 DEF Chunk, Task
<1>6. /\ \A c \in points' \ points : c[1] # d
      /\ d \notin graphDocs' \ graphDocs
      /\ \A c \in linked' \ linked : c[1] # d
      /\ \A c \in loose' \ loose : c[1] # d
  <2> HIDE DEF d
  <2> QED BY <1>5, IndexWritten
<1>7. d' = d
  BY DEF Target
<1> QED BY <1>1, <1>3, <1>4, <1>6, <1>7 DEF DeletedFor, OnlyDelete, Of, Stage, Target

-----------------------------------------------------------------------------
(***************************************************************************)
(* Steps of a delete request.                                              *)
(***************************************************************************)

(* A deletion takes only its own document's entries out of the indexes. *)
LEMMA DeletionRemoves ==
    ASSUME IInv, DeletionNext
    PROVE  /\ \A c \in points \ points' : Touched(c[1])
           /\ \A d \in graphDocs \ graphDocs' : Touched(d)
           /\ \A c \in linked \ linked' : Touched(c[1])
<1> USE DEF storeVars, indexVars, Touched, Of
<1>1. ASSUME NEW h \in Deletion, NEW d \in Doc, Lookup(h, d)
      PROVE  UNCHANGED <<points, graphDocs, linked>>
  BY <1>1 DEF Lookup
<1>2. ASSUME NEW h \in Deletion, DeletePoints(h) \/ DeletePointsFails(h)
      PROVE  /\ UNCHANGED <<graphDocs, linked>>
             /\ \A c \in points \ points' : c[1] = Target(h)
  BY <1>2 DEF DeletePoints, DeletePointsFails
<1>3. ASSUME NEW h \in Deletion, DeleteGraph(h) \/ DeleteGraphFails(h)
      PROVE  /\ UNCHANGED points
             /\ \A d \in graphDocs \ graphDocs' : d = Target(h)
             /\ \A c \in linked \ linked' : c[1] = Target(h)
  BY <1>3 DEF DeleteGraph, DeleteGraphFails, GraphDeleted, DetachedChunks
<1>4. ASSUME NEW h \in Deletion, UnlinkFile(h) \/ UnlinkFileFails(h) \/ DeleteRow(h)
                                 \/ DeleteRowFails(h) \/ DeletionCrash(h)
      PROVE  UNCHANGED <<points, graphDocs, linked>>
  BY <1>4 DEF UnlinkFile, UnlinkFileFails, DeleteRow, DeleteRowFails, DeletionCrash
<1> QED BY <1>1, <1>2, <1>3, <1>4 DEF DeletionNext, DeletionStep

(* What an execution wrote stays, unless a delete request is at its document. *)
LEMMA DeletionKeepsWorkSide ==
    ASSUME IInv, Targets, WorkSide, DeletionNext, UNCHANGED <<upVars, slot>>
    PROVE  WorkSide'
<1> USE DEF WorkSide
<1>1. UNCHANGED <<keyOf, status, runs, loose, slot>>
  BY DeletionStepFrame
<1>2. \A d \in Doc : Touched(d) => Touched(d)'
  BY DeletionKeepsTargets
<1>3. RunsNumbered' /\ IdleHasNone' /\ StatusByRun' /\ LooseOnlyAfterDelete'
  BY <1>1, <1>2 DEF RunsNumbered, IdleHasNone, StatusByRun, LooseOnlyAfterDelete,
                    At, Task, Of
<1>4. CompletedHolds'
  <2> SUFFICES ASSUME NEW d \in Doc, status[d] = "completed", ~Touched(d)',
                      keyOf[d] \notin Blank
               PROVE  \E c \in points' \cap linked' : c[1] = d
    BY <1>1 DEF CompletedHolds, Of
  <2>1. ~Touched(d)
    BY <1>2
  <2>2. PICK c \in points \cap linked : c[1] = d
    BY <2>1 DEF CompletedHolds, Of
  <2> QED BY <2>1, <2>2, DeletionRemoves
<1>5. WorkWrites'
  <2> SUFFICES ASSUME NEW w \in Worker, ~Touched(Task(w))', ~At(w, "idle")
               PROVE  SlotWrites(w)'
    BY <1>1 DEF WorkWrites, SlotWrites, At
  <2>1. ~Touched(Task(w))
    <3>1. Task(w)' = Task(w) /\ Task(w) \in Doc
      BY <1>1 DEF Task, IInv, SlotInv
    <3> QED BY <1>1, <1>2, <3>1 DEF Touched, Task
  <2>2. SlotWrites(w) /\ Chunk(w)[1] = Task(w)
    BY <2>1 DEF WorkWrites, Chunk, Task
  <2>3. /\ Chunk(w) \in points => Chunk(w) \in points'
        /\ Chunk(w) \in linked => Chunk(w) \in linked'
        /\ Task(w) \in graphDocs => Task(w) \in graphDocs'
    BY <2>1, <2>2, DeletionRemoves
  <2> QED BY <1>1, <2>2, <2>3 DEF SlotWrites, At, Task, Chunk
<1> QED BY <1>3, <1>4, <1>5

(* A delete request sends nothing and settles nothing. *)
LEMMA DeletionKeepsDelivery ==
    ASSUME IInv, OnceOnly, DeletionNext, UNCHANGED slot
    PROVE  OnceOnly'
BY DeletionStepFrame DEF OnceOnly, SettledAlone, DeliveredOnce, Task, At

(* A stage of the deletion that records a success did what it records. *)
LEMMA DeletionDid ==
    ASSUME IInv, NEW h \in Deletion, DeletionStep(h) \/ DeletionCrash(h)
    PROVE  /\ "vector" \in del'[h].ok =>
                 "vector" \in del[h].ok \/ points' = points \ Of(points, Target(h))
           /\ "graph" \in del'[h].ok =>
                 \/ "graph" \in del[h].ok
                 \/ graphDocs' = graphDocs \ {Target(h)} /\ linked' = linked \ Of(linked, Target(h))
           /\ "file" \in del'[h].ok =>
                 "file" \in del[h].ok \/ files' = files \ {Target(h)}
           /\ del'[h].pc = "done" =>
                 del[h].pc = "row" /\ row' = [row EXCEPT ![Target(h)] = "deleted"]
<1>1. \A pc, ok : Advance(h, pc, ok) => del'[h].pc = pc /\ del'[h].ok = del[h].ok \union ok
  BY DEF Advance, IInv, TypeOK, DeletionTypeOK
<1>2. CASE DeletePoints(h)
  <2>1. del'[h].pc = "graph" /\ del'[h].ok = del[h].ok \union {"vector"}
    BY <1>1, <1>2 DEF DeletePoints
  <2> QED BY <1>2, <2>1 DEF DeletePoints
<1>3. CASE DeleteGraph(h)
  <2>1. del'[h].pc = "file" /\ del'[h].ok = del[h].ok \union {"graph"}
    BY <1>1, <1>3 DEF DeleteGraph
  <2> QED BY <1>3, <2>1 DEF DeleteGraph, GraphDeleted, DetachedChunks
<1>4. CASE UnlinkFile(h)
  <2>1. del'[h].pc = "row" /\ del'[h].ok = del[h].ok \union {"file"}
    BY <1>1, <1>4 DEF UnlinkFile
  <2> QED BY <1>4, <2>1 DEF UnlinkFile
<1>5. CASE DeleteRow(h)
  <2>1. del'[h].pc = "done" /\ del'[h].ok = del[h].ok \union {}
    BY <1>1, <1>5 DEF DeleteRow
  <2> QED BY <1>5, <2>1 DEF DeleteRow, Stage
<1>6. CASE DeletePointsFails(h) \/ DeleteGraphFails(h) \/ UnlinkFileFails(h)
           \/ DeleteRowFails(h) \/ DeletionCrash(h)
  <2>1. del'[h].pc # "done" /\ del'[h].ok = del[h].ok
    <3>0. \A pc : Advance(h, pc, {}) => del'[h].pc = pc /\ del'[h].ok = del[h].ok
      <4>1. \A S : S \union {} = S
        OBVIOUS
      <4> QED BY <1>1, <4>1
    <3>1. CASE DeletePointsFails(h)
      BY <3>0, <3>1 DEF DeletePointsFails
    <3>2. CASE DeleteGraphFails(h)
      BY <3>0, <3>2 DEF DeleteGraphFails
    <3>3. CASE UnlinkFileFails(h)
      BY <3>0, <3>3 DEF UnlinkFileFails
    <3>4. CASE DeleteRowFails(h)
      BY <3>0, <3>4 DEF DeleteRowFails
    <3>5. CASE DeletionCrash(h)
      BY <3>0, <3>5 DEF DeletionCrash
    <3> QED BY <1>6, <3>1, <3>2, <3>3, <3>4, <3>5
  <2> QED BY <2>1
<1> QED BY <1>2, <1>3, <1>4, <1>5, <1>6 DEF DeletionStep

(* What one delete request deleted, no delete request brings back. *)
LEMMA DeletionKeepsDeletes ==
    ASSUME IInv, Targets, LooseOnlyAfterDelete, DeletesSettled, DeletionNext
    PROVE  DeletesSettled'
<1> SUFFICES ASSUME NEW g \in Deletion, del'[g].seen \in Terminal, DeliveredOnce(Target(g))'
             PROVE  DeletedFor(g)'
  BY DEF DeletesSettled
<1>0. \A e : DeliveredOnce(e)' => DeliveredOnce(e)
  BY DeletionStepFrame DEF DeliveredOnce
<1>1. /\ UNCHANGED <<status, loose>> /\ files' \subseteq files /\ points' \subseteq points
      /\ linked' \subseteq linked /\ graphDocs' \subseteq graphDocs
      /\ \A d \in Doc : row[d] = "deleted" => row'[d] = "deleted"
  BY DeletionStepFrame DEF IInv, TypeOK, StoresTypeOK
<1>2. ASSUME NEW h \in Deletion, NEW d \in Doc, Lookup(h, d)
      PROVE  DeletedFor(g)'
  <2>1. Target(h) = NoDoc /\ del[h].seen = "pending"
    BY <1>2, LookupEffect DEF Targets
  <2>2. CASE g # h
    <3>0. del'[g] = del[g]
      BY <1>2, <2>2, LookupEffect
    <3>1. del'[g] = del[g] /\ DeletedFor(g) /\ Target(g) \in Doc
      BY <1>0, <3>0 DEF DeletesSettled, Targets, Terminal, Target, DeliveredOnce
    <3>2. OnlyDelete(g)' => OnlyDelete(g)
      BY <1>2, <2>1, <3>1, LookupEffect, NoneAssumption DEF OnlyDelete, Target
    <3> QED BY <1>1, <3>1, <3>2 DEF DeletedFor, Of, Stage, Target
  <2>3. CASE g = h
    <3>1. /\ Target(g)' = d /\ del'[g].seen = status[d] /\ del'[g].ok = {}
          /\ del'[g].pc = "vector"
      BY <1>2, <2>1, <2>3, LookupEffect DEF Target, Terminal
    <3>2. ASSUME OnlyDelete(g)' PROVE Of(loose, d) = {}
      <4>1. SUFFICES ASSUME Touched(d) PROVE FALSE
        BY DEF LooseOnlyAfterDelete
      <4>2. PICK k \in Deletion : Target(k) = d
        BY <4>1 DEF Touched
      <4>3. k # g
        BY <2>1, <2>3, <4>2, NoneAssumption
      <4>4. Target(k)' = Target(g)'
        BY <1>2, <2>3, <3>1, <4>2, <4>3, LookupEffect DEF Target
      <4> QED BY <3>2, <4>3, <4>4 DEF OnlyDelete
    <3> QED BY <1>1, <3>1, <3>2 DEF DeletedFor, Stage, Of
  <2> QED BY <2>2, <2>3
<1>3. ASSUME NEW h \in Deletion, DeletionStep(h) \/ DeletionCrash(h)
      PROVE  DeletedFor(g)'
  <2>1. /\ \A k \in Deletion : k # h => del'[k] = del[k]
        /\ \A k \in Deletion : Target(k)' = Target(k)
        /\ del'[g].seen = del[g].seen
    BY <1>3, DeletionCourse DEF Target
  <2>2. DeletedFor(g) /\ Target(g) \in Doc
    BY <1>0, <2>1 DEF DeletesSettled, Targets, Terminal, DeliveredOnce
  <2>3. OnlyDelete(g)' => OnlyDelete(g)
    BY <2>1 DEF OnlyDelete
  <2>4. CASE g # h
    <3>1. del'[g] = del[g]
      BY <2>1, <2>4
    <3> QED BY <1>1, <2>2, <2>3, <3>1 DEF DeletedFor, Of, Stage, Target
  <2>5. CASE g = h
    <3>1. "vector" \in del'[g].ok => Of(points', Target(g)) = {}
      BY <1>1, <1>3, <2>2, <2>5, DeletionDid DEF DeletedFor, Of
    <3>2. "graph" \in del'[g].ok => Target(g) \notin graphDocs' /\ Of(linked', Target(g)) = {}
      BY <1>1, <1>3, <2>2, <2>5, DeletionDid DEF DeletedFor, Of
    <3>3. "file" \in del'[g].ok => Target(g) \notin files'
      BY <1>1, <1>3, <2>2, <2>5, DeletionDid DEF DeletedFor
    <3>4. del'[g].pc = "done" => row'[Target(g)] = "deleted"
      BY <1>3, <2>2, <2>5, DeletionDid DEF IInv, TypeOK, StoresTypeOK
    <3> QED BY <1>1, <2>1, <2>2, <2>3, <3>1, <3>2, <3>3, <3>4 DEF DeletedFor, Of, Stage
  <2> QED BY <2>4, <2>5
<1> QED BY <1>2, <1>3 DEF DeletionNext

-----------------------------------------------------------------------------
(* Every step of the system keeps the whole invariant ... *)
LEMMA NextDocInv == ASSUME DocInv, [Next]_vars PROVE DocInv'
<1> USE DEF DocInv
<1>0. IInv' /\ Targets /\ RunsNumbered /\ IdleHasNone /\ StatusByRun /\ LooseOnlyAfterDelete
  BY NextIInv DEF UploadSide, WorkSide
<1>1. CASE UploadNext /\ UNCHANGED <<slot, del>>
  <2>1. PICK r \in Request : Handles(r)
    BY <1>1 DEF UploadNext, Handles
  <2> QED BY <1>0, <1>1, <2>1, UploadKeepsUploadSide, UploadKeepsWorkSide,
             UploadKeepsDelivery, UploadKeepsDeletes
<1>2. CASE WorkerNext /\ UNCHANGED <<upVars, del>>
  <2>1. Targets'
    BY <1>0, <1>2 DEF Targets, Target
  <2>2. UploadSide'
    BY <1>2, <2>1, WorkerIsCalm, CalmKeepsUploadSide
  <2> QED BY <1>0, <1>2, <2>2, WorkerKeepsWorkSide, WorkerKeepsDelivery, WorkerKeepsDeletes
<1>3. CASE DeletionNext /\ UNCHANGED <<upVars, slot>>
  <2>1. UploadSide'
    BY <1>0, <1>3, DeletionIsCalm, DeletionKeepsTargets, CalmKeepsUploadSide
  <2> QED BY <1>0, <1>3, <2>1, DeletionKeepsWorkSide, DeletionKeepsDelivery,
             DeletionKeepsDeletes
<1>4. CASE UNCHANGED vars
  <2> USE <1>4 DEF vars, storeVars, pgVars, indexVars, upVars
  <2>1. Targets'
    BY <1>0 DEF Targets, Target
  <2>2. Calm
    BY DEF Calm, Touched, Target, Messages
  <2>3. UploadSide'
    BY <2>1, <2>2, CalmKeepsUploadSide
  <2>4. WorkSide'
    BY DEF WorkSide, RunsNumbered, IdleHasNone, WorkWrites, SlotWrites, CompletedHolds,
           StatusByRun, LooseOnlyAfterDelete, At, Task, Chunk, Of, Touched, Target
  <2>5. OnceOnly' /\ DeletesSettled'
    BY DEF OnceOnly, SettledAlone, DeliveredOnce, DeletesSettled, DeletedFor, OnlyDelete,
           Task, At, Target, Stage, Of
  <2> QED BY <1>0, <2>3, <2>4, <2>5
<1> QED BY <1>1, <1>2, <1>3, <1>4 DEF Next, Rest

(* ... which is therefore inductive. *)
THEOREM DocInvariance == Spec => []DocInv
<1>1. Init => DocInv
  BY InitDocInv
<1>2. DocInv /\ [Next]_vars => DocInv'
  BY NextDocInv
<1> QED BY <1>1, <1>2, PTL DEF Spec

(* A request that was answered 202 has sent a message for every document it
   accepted, however its steps interleave with those of other requests and of
   workers that already execute its first messages. *)
THEOREM AnsweredMeansSentHolds == Spec => []AnsweredMeansSent
<1>1. DocInv => AnsweredMeansSent
  BY DEF DocInv, UploadSide, RequestsInv, RequestSent, AnsweredMeansSent, Messages
<1> QED BY <1>1, DocInvariance, PTL

(* A request that was answered rejected no file as a duplicate of a row that
   was lost with another request's transaction. *)
THEOREM DuplicateHasCounterpartHolds == Spec => []DuplicateHasCounterpart
<1>1. DocInv => DuplicateHasCounterpart
  BY DEF DocInv, UploadSide, RequestsInv, RequestDups, InTransaction, Committed,
         DuplicateHasCounterpart
<1> QED BY <1>1, DocInvariance, PTL

(* Every file on disk has a row, is the remainder of a request that failed or
   crashed, or of one that a delete request is at. *)
THEOREM FilesAreAccountedForHolds == Spec => []FilesAreAccountedFor
<1>1. DocInv => FilesAreAccountedFor
  BY DEF DocInv, UploadSide
<1> QED BY <1>1, DocInvariance, PTL

(* The file of a message in the queue is on disk before any worker can take
   the message, unless a delete request is at the document. *)
THEOREM FileReadyHolds == Spec => []FileReady
<1>1. DocInv => FileReady
  BY DEF DocInv, UploadSide, FilesThere, IInv, NoWorkBeforeCommit, Committed, FileReady
<1> QED BY <1>1, DocInvariance, PTL

(* A completed document that no delete request is at has the chunks of one
   execution in Qdrant and, with their edge, in Neo4j, also when the message
   was delivered again and its executions overlap. *)
THEOREM CompletedIsIndexedHolds == Spec => []CompletedIsIndexed
<1>1. DocInv => CompletedIsIndexed
  BY DEF DocInv, WorkSide, CompletedHolds, CompletedIsIndexed
<1> QED BY <1>1, DocInvariance, PTL

(* Only the race with a delete request leaves chunk nodes out of reach. *)
THEOREM LooseOnlyAfterDeleteHolds == Spec => []LooseOnlyAfterDelete
<1>1. DocInv => LooseOnlyAfterDelete
  BY DEF DocInv, WorkSide
<1> QED BY <1>1, DocInvariance, PTL

(* A deletion of a settled document leaves nothing of it but what a store
   refused to give up. *)
THEOREM SettledDeleteIsCleanHolds == Spec => []SettledDeleteIsClean
<1>1. ASSUME DocInv PROVE SettledDeleteIsClean
  <2> SUFFICES ASSUME NEW h \in Deletion,
                      Stage(h, "done"), del[h].seen \in Terminal,
                      DeliveredOnce(Target(h)), OnlyDelete(h)
               PROVE  LET d == Target(h)
                      IN  /\ ~Live(d)
                          /\ "vector" \in del[h].ok => Of(points, d) = {}
                          /\ "graph" \in del[h].ok =>
                                d \notin graphDocs /\ Of(linked \union loose, d) = {}
                          /\ "file" \in del[h].ok => d \notin files
    BY DEF SettledDeleteIsClean, OnlyDelete
  <2>1. DeletedFor(h)
    BY <1>1 DEF DocInv, DeletesSettled
  <2> QED BY <2>1 DEF DeletedFor, Live, Of
<1> QED BY <1>1, DocInvariance, PTL

(***************************************************************************)
(* Lifecycle implements Catalog: whatever the uploads, workers and delete  *)
(* requests do to the stores, each content enters, moves and leaves as the *)
(* catalogue says.                                                         *)
(***************************************************************************)

(* The status agrees with the statement the only execution is at. *)
StatusAtStage ==
    \A w \in Worker : DeliveredOnce(Task(w)) =>
        /\ At(w, "begin") => status[Task(w)] = "pending"
        /\ /\ slot[w].pc \in {"ocr", "points", "document", "chunks", "complete"}
           /\ Live(Task(w))
           => status[Task(w)] = "running"

(* Initially no worker is busy. *)
LEMMA InitStatusAtStage == Init => StatusAtStage
BY DEF Init, WorkerInit, IdleSlot, StatusAtStage, At

(* Uploads neither write a status nor bring a row into view that is executed. *)
LEMMA UploadKeepsStage ==
    ASSUME DocInv, StatusAtStage, NEW r \in Request, Handles(r), UNCHANGED slot
    PROVE  StatusAtStage'
<1>1. UNCHANGED status
  BY UploadEffects DEF DocInv
<1>2. \A w \in Worker : ~At(w, "idle") => Committed(Task(w)) /\ Task(w) \in Doc
  BY DEF DocInv, IInv, SlotInv, NoWorkBeforeCommit, Committed
<1>3. \A w \in Worker : ~At(w, "idle") => row'[Task(w)] = row[Task(w)]
  BY <1>2, UploadStepRows DEF DocInv, Handles, Committed
<1>4. \A w \in Worker : ~At(w, "idle") /\ DeliveredOnce(Task(w))' => DeliveredOnce(Task(w))
  <2>1. \A d \in Doc : DeliveredOnce(d)' => DeliveredOnce(d)
    BY UploadCounts DEF DocInv
  <2>2. \A w \in Worker : Task(w)' = Task(w)
    BY DEF Task
  <2> QED BY <1>2, <2>1, <2>2 DEF DeliveredOnce
<1> QED BY <1>1, <1>3, <1>4 DEF StatusAtStage, At, Task, Live

(* Deletions take rows out of view and write no status. *)
LEMMA DeletionKeepsStage ==
    ASSUME DocInv, StatusAtStage, DeletionNext, UNCHANGED slot
    PROVE  StatusAtStage'
<1>1. UNCHANGED status
  BY DeletionStepFrame DEF DocInv
<1>2. \A d \in Doc : Live(d)' => Live(d)
  BY DeletionStepFrame DEF DocInv, IInv, TypeOK, StoresTypeOK, Live
<1>3. \A w \in Worker : ~At(w, "idle") => Task(w) \in Doc
  BY DEF DocInv, IInv, SlotInv
<1>4. \A w \in Worker : DeliveredOnce(Task(w))' => DeliveredOnce(Task(w))
  BY DeletionStepFrame DEF DocInv, DeliveredOnce, Task
<1> QED BY <1>1, <1>2, <1>3, <1>4 DEF StatusAtStage, At, Task, Live

(* A worker writes `running` first and goes on only when that was committed. *)
LEMMA WorkerKeepsStage ==
    ASSUME DocInv, StatusAtStage, WorkerNext
    PROVE  StatusAtStage'
<1> USE DEF DocInv, WorkSide
<1> SUFFICES ASSUME NEW v \in Worker, DeliveredOnce(Task(v))'
             PROVE  /\ At(v, "begin")' => status'[Task(v)'] = "pending"
                    /\ /\ slot'[v].pc \in {"ocr", "points", "document", "chunks", "complete"}
                       /\ Live(Task(v))'
                       => status'[Task(v)'] = "running"
  BY DEF StatusAtStage
<1>0. /\ \A d \in Doc : DeliveredOnce(d)' => DeliveredOnce(d)
      /\ ~At(v, "idle") => Task(v) \in Doc
  BY WorkerCounts DEF IInv, SlotInv
<1>1. DeliveredOnce(Task(v)) =>
      /\ At(v, "begin") => status[Task(v)] = "pending"
      /\ /\ slot[v].pc \in {"ocr", "points", "document", "chunks", "complete"}
         /\ Live(Task(v))
         => status[Task(v)] = "running"
  BY DEF StatusAtStage
<1>2. UNCHANGED row
  BY WorkerStepFrame
<1>3. CASE \E d \in Doc : Take(v, d)
  <2>1. PICK d \in Doc : Take(v, d)
    BY <1>3
  <2>2. /\ queue[d] > 0 /\ slot'[v].pc = "begin" /\ slot'[v].doc = d /\ UNCHANGED status
    BY <2>1, TakeEffect DEF pgVars
  <2>6. DeliveredOnce(d)
    <3>1. DeliveredOnce(d)'
      BY <2>2 DEF Task, DeliveredOnce
    <3> QED BY <1>0, <3>1
  <2>3. queue[d] + runs[d] <= 1 /\ queue[d] \in Nat /\ runs[d] \in Nat
    BY <2>6 DEF DeliveredOnce, IInv, TypeOK, StoresTypeOK
  <2>4. runs[d] = 0
    BY <2>2, <2>3
  <2>5. status[d] = "pending"
    BY <2>4 DEF StatusByRun
  <2> QED BY <2>2, <2>5 DEF At, Task
<1>4. CASE slot'[v] = slot[v]
  <2>1. SUFFICES ASSUME ~At(v, "idle"), DeliveredOnce(Task(v))
                 PROVE  status'[Task(v)] = status[Task(v)]
    <3>1. ~At(v, "idle") => DeliveredOnce(Task(v))
      BY <1>0, <1>4 DEF Task, DeliveredOnce
    <3> QED BY <1>1, <1>2, <1>4, <3>1 DEF At, Task, Live
  <2>2. SUFFICES ASSUME status'[Task(v)] # status[Task(v)] PROVE FALSE
    OBVIOUS
  <2>3. Task(v) \in Doc
    BY <2>1 DEF IInv, SlotInv
  <2>4. PICK w \in Worker :
           /\ Task(w) = Task(v) /\ ~At(w, "idle")
           /\ \/ At(w, "begin") /\ slot'[w].pc \in {"ocr", "fail"}
              \/ At(w, "complete") /\ (slot'[w] = IdleSlot \/ slot'[w].pc = "fail")
              \/ At(w, "fail") /\ slot'[w] = IdleSlot
    BY <2>2, <2>3, StatusWritten
  <2>5. w = v
    BY <2>1, <2>4, OneExecution
  <2> QED BY <1>4, <2>4, <2>5 DEF At, IdleSlot
<1>5. CASE slot'[v] # slot[v] /\ ~\E d \in Doc : Take(v, d)
  <2>1. WorkerStep(v) \/ WorkerCrash(v)
    <3>1. \A d \in Doc : ~Redeliver(d)
      BY <1>5 DEF Redeliver
    <3>2. \A w \in Worker : w # v => ~WorkerStep(w) /\ ~WorkerCrash(w)
      BY <1>5, WorkerCourse, TakeEffect
    <3> QED BY <3>1, <3>2 DEF WorkerNext
  <2>2. /\ ~At(v, "idle")
        /\ slot'[v] = IdleSlot \/ (slot'[v].doc = slot[v].doc /\ slot'[v].pc # "idle")
    BY <1>5, <2>1, WorkerCourse
  <2>3. CASE SetRunning(v)
    <3>1. /\ slot'[v].pc = "ocr" /\ slot'[v].doc = slot[v].doc
          /\ SetStatus(Task(v), "running") /\ Task(v) \in Doc
      BY <2>2, <2>3 DEF SetRunning, Goto, IInv, TypeOK, WorkerTypeOK, Slot, SlotInv
    <3>2. Live(Task(v)) => status'[Task(v)] = "running"
      BY <3>1 DEF SetStatus, DocumentUpdate, IInv, TypeOK, StoresTypeOK
    <3> QED BY <1>2, <3>1, <3>2 DEF At, Task, Live
  <2>4. CASE ~SetRunning(v)
    <3>1. \/ slot'[v].pc \in {"idle", "fail"}
          \/ /\ slot[v].pc \in {"ocr", "points", "document", "chunks", "complete"}
             /\ slot'[v].pc \in {"ocr", "points", "document", "chunks", "complete"}
             /\ status' = status
      <4>1. \/ Release(v) \/ Goto(v, "fail")
            \/ /\ slot[v].pc \in {"ocr", "points", "document", "chunks", "complete"}
               /\ \E pc \in {"points", "document", "chunks", "complete"} : Goto(v, pc)
               /\ status' = status
        BY <1>5, <2>1, <2>4 DEF WorkerStep, SetRunningFails, Extract, AfterOcr, UpsertPoints,
           UpsertPointsFails, MergeDocument, MergeDocumentFails, MergeChunks,
           MergeChunksFails, SetCompleted, SetCompletedFails, SetFailed,
           SetFailedFails, WorkerCrash, OnStoreError, At, storeVars, pgVars
      <4>2. Release(v) => slot'[v].pc = "idle"
        BY DEF Release, IdleSlot, IInv, TypeOK, WorkerTypeOK
      <4>3. \A pc : Goto(v, pc) => slot'[v].pc = pc
        BY DEF Goto, IInv, TypeOK, WorkerTypeOK, Slot
      <4> QED BY <4>1, <4>2, <4>3
    <3>2. CASE slot'[v].pc \in {"idle", "fail"}
      BY <3>2 DEF At
    <3>3. CASE slot'[v].pc \notin {"idle", "fail"}
      <4>1. slot'[v].doc = slot[v].doc
        BY <2>2, <3>3 DEF IdleSlot
      <4>2. DeliveredOnce(Task(v))
        BY <1>0, <2>2, <4>1 DEF Task, DeliveredOnce
      <4> QED BY <1>1, <1>2, <3>1, <3>3, <4>1, <4>2 DEF At, Task, Live
    <3> QED BY <3>2, <3>3
  <2> QED BY <2>3, <2>4
<1> QED BY <1>3, <1>4, <1>5

(* The status follows the executions. *)
THEOREM StageInvariance == Spec => [](DocInv /\ StatusAtStage)
<1>1. Init => StatusAtStage
  BY InitStatusAtStage
<1>2. ASSUME DocInv, StatusAtStage, [Next]_vars PROVE StatusAtStage'
  <2>1. CASE UploadNext /\ UNCHANGED <<slot, del>>
    <3>1. PICK r \in Request : Handles(r)
      BY <2>1 DEF UploadNext, Handles
    <3> QED BY <1>2, <2>1, <3>1, UploadKeepsStage
  <2>2. CASE WorkerNext
    BY <1>2, <2>2, WorkerKeepsStage
  <2>3. CASE DeletionNext /\ UNCHANGED <<upVars, slot>>
    BY <1>2, <2>3, DeletionKeepsStage
  <2>4. CASE UNCHANGED vars
    BY <1>2, <2>4 DEF vars, storeVars, pgVars, StatusAtStage, DeliveredOnce, At, Task, Live
  <2> QED BY <1>2, <2>1, <2>2, <2>3, <2>4 DEF Next, Rest
<1>3. DocInv /\ StatusAtStage /\ [Next]_vars => StatusAtStage'
  BY <1>2
<1> QED BY <1>1, <1>3, DocInvariance, PTL DEF Spec

-----------------------------------------------------------------------------
(***************************************************************************)
(* The refinement.                                                         *)
(***************************************************************************)

(* The entry of a content is the status of its only row in view. *)
EntriesAreRows ==
    \A k \in Key :
        /\ \A d \in Doc : Live(d) /\ keyOf[d] = k => Entry[k] = status[d]
        /\ (\A d \in Doc : ~(Live(d) /\ keyOf[d] = k)) => Entry[k] = "absent"

(* So it is when contents are unique ... *)
LEMMA EntryIs == UniqueContent => EntriesAreRows
<1> SUFFICES ASSUME UniqueContent, NEW k \in Key
             PROVE  /\ \A d \in Doc : Live(d) /\ keyOf[d] = k => Entry[k] = status[d]
                    /\ (\A d \in Doc : ~(Live(d) /\ keyOf[d] = k)) => Entry[k] = "absent"
  BY DEF EntriesAreRows
<1>1. ASSUME NEW d \in Doc, Live(d), keyOf[d] = k PROVE Entry[k] = status[d]
  <2> DEFINE e == CHOOSE e \in Doc : Live(e) /\ keyOf[e] = k
  <2>1. e \in Doc /\ Live(e) /\ keyOf[e] = k
    BY <1>1
  <2>2. e = d
    BY <1>1, <2>1 DEF UniqueContent
  <2>3. Entry[k] = status[e]
    BY <1>1 DEF Entry
  <2> QED BY <2>2, <2>3
<1>2. ASSUME \A d \in Doc : ~(Live(d) /\ keyOf[d] = k) PROVE Entry[k] = "absent"
  BY <1>2 DEF Entry
<1> QED BY <1>1, <1>2

(* ... in this state and in the next. *)
LEMMA EntryWillBe == UniqueContent' => EntriesAreRows'
BY EntryIs, PTL

(* An upload sends one message for a row that comes into view. *)
LEMMA UploadRepeatsNothing ==
    ASSUME DocInv, DocInv', NEW r \in Request, Handles(r)
    PROVE  Repeated' = Repeated
<1>1. \A d \in Doc : Live(d) => Live(d)' /\ keyOf'[d] = keyOf[d]
  BY UploadStepRows DEF DocInv, Handles, Live
<1>2. ASSUME NEW d \in Doc, Live(d)' PROVE keyOf'[d] = keyOf[d] /\ (Live(d) \/ row[d] = "staged")
  BY <1>2, UploadStepRows DEF DocInv, Handles, Live
<1>3. queue \in [Doc -> Nat] /\ runs \in [Doc -> Nat] /\ runs' = runs
  BY UploadEffects DEF DocInv, IInv, TypeOK, StoresTypeOK
<1>4. ASSUME NEW d \in Doc, row[d] = "staged" PROVE DeliveredOnce(d)'
  <2>1. queue[d] = 0 /\ runs[d] = 0
    BY <1>3, <1>4 DEF DocInv, IInv, NoWorkBeforeCommit
  <2>2. CASE queue' = queue
    BY <1>3, <2>1, <2>2 DEF DeliveredOnce
  <2>3. CASE queue' = [queue EXCEPT ![accepted[r][next[r]]] = @ + 1]
    BY <1>3, <2>1, <2>3 DEF DeliveredOnce
  <2> QED BY <2>2, <2>3, UploadEffects DEF DocInv
<1>5. ASSUME NEW d \in Doc PROVE DeliveredOnce(d)' <=> DeliveredOnce(d)
  <2>1. CASE queue' = queue
    BY <1>3, <2>1 DEF DeliveredOnce
  <2>2. CASE Sending(r) /\ queue' = [queue EXCEPT ![accepted[r][next[r]]] = @ + 1]
    <3>1. next[r] \in 1..Len(accepted[r]) /\ ~(next[r] < next[r]) /\ up[r] = "send"
      BY <2>2 DEF Sending, DocInv, IInv, TypeOK, UploadTypeOK
    <3>2. queue[accepted[r][next[r]]] = 0 /\ runs[accepted[r][next[r]]] = 0
      BY <3>1 DEF DocInv, UploadSide, RequestsInv, RequestSent
    <3> DEFINE e == accepted[r][next[r]]
    <3>3. queue' = [queue EXCEPT ![e] = @ + 1] /\ queue[e] = 0 /\ runs[e] = 0
      BY <2>2, <3>2
    <3> HIDE DEF e
    <3> QED BY <1>3, <3>3 DEF DeliveredOnce
  <2> QED BY <2>1, <2>2, UploadEffects DEF DocInv
<1> QED BY <1>1, <1>2, <1>4, <1>5 DEF Repeated

(* An upload admits the contents of the rows it brings into view. *)
LEMMA UploadAdmits ==
    ASSUME DocInv, DocInv', NEW r \in Request, Handles(r)
    PROVE  \E S \in SUBSET Key : Abstract!Admit(S)
<1> DEFINE S == {k \in Key : \E d \in Doc : ~Live(d) /\ Live(d)' /\ keyOf'[d] = k}
<1>1. EntriesAreRows /\ EntriesAreRows'
  <2>1. UniqueContent /\ UniqueContent'
    BY DEF DocInv, IInv, UniqueHolder, UniqueContent, Live
  <2> QED BY <2>1, EntryIs, EntryWillBe
<1>2. UNCHANGED status
  BY UploadEffects DEF DocInv
<1>3. ASSUME NEW d \in Doc, Live(d)'
      PROVE  /\ keyOf'[d] = keyOf[d]
             /\ Live(d) \/ (row[d] = "staged" /\ status[d] = "pending")
  <2>1. /\ keyOf'[d] = keyOf[d]
        /\ Live(d) \/ row[d] = "staged"
    BY <1>3, UploadStepRows DEF DocInv, Handles, Live
  <2>2. row[d] = "staged" => status[d] = "pending"
    BY DEF DocInv, WorkSide, StatusByRun, IInv, NoWorkBeforeCommit
  <2> QED BY <2>1, <2>2
<1>4. ASSUME NEW d \in Doc, Live(d) PROVE Live(d)' /\ keyOf'[d] = keyOf[d]
  BY <1>4, UploadStepRows DEF DocInv, Handles, Live
<1>5. ASSUME NEW k \in S PROVE Entry[k] = "absent" /\ Entry'[k] = "pending"
  <2>1. PICK d \in Doc : ~Live(d) /\ Live(d)' /\ keyOf'[d] = k
    BY <1>5
  <2>2. row[d] = "staged" /\ status[d] = "pending" /\ keyOf[d] = k
    BY <1>3, <2>1
  <2>3. \A e \in Doc : ~(Live(e) /\ keyOf[e] = k)
    BY <2>1, <2>2 DEF DocInv, IInv, UniqueHolder, Live
  <2> QED BY <1>1, <1>2, <2>1, <2>2, <2>3 DEF EntriesAreRows
<1>6. ASSUME NEW k \in Key, k \notin S PROVE Entry'[k] = Entry[k]
  <2>1. CASE \E d \in Doc : Live(d)' /\ keyOf'[d] = k
    <3>1. PICK d \in Doc : Live(d)' /\ keyOf'[d] = k
      BY <2>1
    <3>2. Live(d) /\ keyOf[d] = k
      BY <1>3, <1>6, <3>1
    <3> QED BY <1>1, <1>2, <3>1, <3>2 DEF EntriesAreRows
  <2>2. CASE ~\E d \in Doc : Live(d)' /\ keyOf'[d] = k
    BY <1>1, <1>4, <2>2 DEF EntriesAreRows
  <2> QED BY <2>1, <2>2
<1>7. Entry' = [k \in Key |-> Entry'[k]]
  BY DEF Entry
<1> HIDE DEF S
<1>8. Entry' = [k \in Key |-> IF k \in S THEN "pending" ELSE Entry[k]]
  BY <1>5, <1>6, <1>7
<1>9. S \in SUBSET Key
  BY DEF S
<1> QED BY <1>5, <1>8, <1>9, UploadRepeatsNothing DEF Abstract!Admit

(* Only the broker repeats a document, and does nothing else. *)
LEMMA WorkerRepeats ==
    ASSUME DocInv, WorkerNext
    PROVE  \/ Repeated' = Repeated
           \/ /\ Entry' = Entry
              /\ \E k \in Key : /\ Repeated' = Repeated \union {k}
                               /\ \E d \in Doc : Live(d) /\ keyOf[d] = k
<1>1. queue \in [Doc -> Nat] /\ runs \in [Doc -> Nat] /\ UNCHANGED <<row, keyOf>>
  BY WorkerStepFrame DEF DocInv, IInv, TypeOK, StoresTypeOK
<1>2. (\A d \in Doc : DeliveredOnce(d)' <=> DeliveredOnce(d)) => Repeated' = Repeated
  BY <1>1 DEF Repeated, Live
<1>3. ASSUME NEW w \in Worker, NEW e \in Doc, Take(w, e) PROVE Repeated' = Repeated
  <2>1. /\ queue' = [queue EXCEPT ![e] = queue[e] - 1]
        /\ runs' = [runs EXCEPT ![e] = runs[e] + 1]
    BY <1>3, TakeEffect DEF DocInv
  <2>2. \A d \in Doc : DeliveredOnce(d)' <=> DeliveredOnce(d)
    BY <1>1, <2>1 DEF DeliveredOnce
  <2> QED BY <1>2, <2>2
<1>4. ASSUME NEW w \in Worker, WorkerStep(w) \/ WorkerCrash(w), \A e \in Doc : ~Take(w, e)
      PROVE  Repeated' = Repeated
  BY <1>2, <1>4, WorkerCourse DEF DocInv, DeliveredOnce
<1>5. ASSUME NEW e \in Doc, Redeliver(e)
      PROVE  \/ Repeated' = Repeated
             \/ /\ Entry' = Entry
                /\ \E k \in Key : /\ Repeated' = Repeated \union {k}
                                 /\ \E d \in Doc : Live(d) /\ keyOf[d] = k
  <2>1. /\ queue' = [queue EXCEPT ![e] = queue[e] + 1] /\ queue[e] > 0
        /\ UNCHANGED <<status, runs>>
    BY <1>5 DEF Redeliver, pgVars
  <2>2. \A d \in Doc : d # e => (DeliveredOnce(d)' <=> DeliveredOnce(d))
    BY <1>1, <2>1 DEF DeliveredOnce
  <2>3. ~DeliveredOnce(e)'
    BY <1>1, <2>1 DEF DeliveredOnce
  <2>4. Entry' = Entry
    BY <1>1, <2>1 DEF Entry, Live
  <2>5. CASE Live(e) /\ keyOf[e] \in Key
    <3>1. Repeated' = Repeated \union {keyOf[e]}
      BY <1>1, <2>2, <2>3, <2>5 DEF Repeated, Live
    <3> QED BY <2>4, <2>5, <3>1
  <2>6. CASE ~(Live(e) /\ keyOf[e] \in Key)
    BY <1>1, <2>2, <2>6 DEF Repeated, Live
  <2> QED BY <2>5, <2>6
<1> QED BY <1>3, <1>4, <1>5 DEF WorkerNext, WorkerStep

(* A worker moves the content of the document it executes, along MovesOnce
   unless the document was delivered again. *)
LEMMA WorkerMoves ==
    ASSUME DocInv, DocInv', StatusAtStage, WorkerNext, Repeated' = Repeated
    PROVE  \/ Entry' = Entry
           \/ \E k \in Key, s \in {"running", "completed", "failed"} : Abstract!Move(k, s)
<1>1. EntriesAreRows /\ EntriesAreRows'
  <2>1. UniqueContent /\ UniqueContent'
    BY DEF DocInv, IInv, UniqueHolder, UniqueContent, Live
  <2> QED BY <2>1, EntryIs, EntryWillBe
<1>2. UNCHANGED <<row, keyOf>>
  BY WorkerStepFrame DEF DocInv
<1>3. Entry' = [k \in Key |-> Entry'[k]] /\ Entry = [k \in Key |-> Entry[k]]
  BY DEF Entry
<1>4. ASSUME NEW k \in Key,
             \A d \in Doc : Live(d) /\ keyOf[d] = k => status'[d] = status[d]
      PROVE  Entry'[k] = Entry[k]
  <2>1. CASE \E d \in Doc : Live(d) /\ keyOf[d] = k
    BY <1>1, <1>2, <1>4, <2>1 DEF EntriesAreRows, Live
  <2>2. CASE ~\E d \in Doc : Live(d) /\ keyOf[d] = k
    BY <1>1, <1>2, <2>2 DEF EntriesAreRows, Live
  <2> QED BY <2>1, <2>2
<1>5. CASE \A d \in Doc : Live(d) /\ keyOf[d] \in Key => status'[d] = status[d]
  BY <1>3, <1>4, <1>5
<1>6. CASE \E d \in Doc : Live(d) /\ keyOf[d] \in Key /\ status'[d] # status[d]
  <2>1. PICK d \in Doc : Live(d) /\ keyOf[d] \in Key /\ status'[d] # status[d]
    BY <1>6
  <2> DEFINE k == keyOf[d]
  <2>2. PICK w \in Worker :
           /\ Task(w) = d /\ ~At(w, "idle")
           /\ \/ At(w, "begin") /\ status'[d] = "running"
              \/ At(w, "complete") /\ status'[d] = "completed"
              \/ At(w, "fail") /\ status'[d] = "failed"
           /\ status' = [status EXCEPT ![d] = status'[d]]
    BY <2>1, StatusWritten DEF DocInv
  <2>3. status[d] \in DocStatus
    BY DEF DocInv, IInv, TypeOK, StoresTypeOK
  <2>4. DeliveredOnce(d) => <<status[d], status'[d]>> \in MovesOnce
    <3> SUFFICES ASSUME DeliveredOnce(d) PROVE <<status[d], status'[d]>> \in MovesOnce
      OBVIOUS
    <3>1. CASE At(w, "begin") /\ status'[d] = "running"
      BY <2>2, <3>1 DEF StatusAtStage, MovesOnce
    <3>2. CASE At(w, "complete") /\ status'[d] = "completed"
      BY <2>1, <2>2, <3>2 DEF StatusAtStage, MovesOnce, At
    <3>3. CASE At(w, "fail") /\ status'[d] = "failed"
      BY <2>1, <2>3, <3>3 DEF MovesOnce, DocStatus
    <3> QED BY <2>2, <3>1, <3>2, <3>3
  <2>5. Entry[k] = status[d] /\ Entry'[k] = status'[d] /\ k \in Key
    BY <1>1, <1>2, <2>1 DEF EntriesAreRows, Live
  <2>6. ASSUME NEW j \in Key, j # k PROVE Entry'[j] = Entry[j]
    BY <1>4, <2>2, <2>6 DEF DocInv, IInv, TypeOK, StoresTypeOK
  <2>7. status'[d] \in {"running", "completed", "failed"}
    BY <2>2
  <2>10. DeliveredOnce(d) \/ k \in Repeated
    BY <2>1, <2>5 DEF Repeated
  <2> HIDE DEF k
  <2>8. Entry' = [Entry EXCEPT ![k] = status'[d]]
    BY <1>3, <2>5, <2>6
  <2>9. Abstract!Move(k, status'[d])
    BY <2>4, <2>5, <2>8, <2>10 DEF Abstract!Move
  <2> QED BY <2>5, <2>7, <2>9
<1> QED BY <1>5, <1>6

(* A delete request removes the content of its row or nothing. *)
LEMMA DeletionRemovesEntry ==
    ASSUME DocInv, DocInv', DeletionNext
    PROVE  UNCHANGED <<Entry, Repeated>> \/ \E k \in Key : Abstract!Remove(k)
<1>1. EntriesAreRows /\ EntriesAreRows'
  <2>1. UniqueContent /\ UniqueContent'
    BY DEF DocInv, IInv, UniqueHolder, UniqueContent, Live
  <2> QED BY <2>1, EntryIs, EntryWillBe
<1>2. UNCHANGED <<keyOf, status>>
  BY DeletionStepFrame DEF DocInv
<1>7. \A d \in Doc : DeliveredOnce(d)' <=> DeliveredOnce(d)
  BY DeletionStepFrame DEF DocInv, DeliveredOnce
<1>3. Entry' = [k \in Key |-> Entry'[k]] /\ Entry = [k \in Key |-> Entry[k]]
  BY DEF Entry
<1>4. ASSUME NEW k \in Key, \A d \in Doc : keyOf[d] = k => (Live(d)' <=> Live(d))
      PROVE  Entry'[k] = Entry[k]
  <2>1. CASE \E d \in Doc : Live(d) /\ keyOf[d] = k
    BY <1>1, <1>2, <1>4, <2>1 DEF EntriesAreRows
  <2>2. CASE ~\E d \in Doc : Live(d) /\ keyOf[d] = k
    BY <1>1, <1>2, <1>4, <2>2 DEF EntriesAreRows
  <2> QED BY <2>1, <2>2
<1>5. CASE \A d \in Doc : keyOf[d] \in Key => (Live(d)' <=> Live(d))
  <2>1. Entry' = Entry
    BY <1>3, <1>4, <1>5
  <2>2. Repeated' = Repeated
    BY <1>2, <1>5, <1>7 DEF Repeated
  <2> QED BY <2>1, <2>2
<1>6. CASE \E d \in Doc : keyOf[d] \in Key /\ ~(Live(d)' <=> Live(d))
  <2>1. PICK d \in Doc : keyOf[d] \in Key /\ ~(Live(d)' <=> Live(d))
    BY <1>6
  <2>2. PICK t \in Doc : row' = [row EXCEPT ![t] = "deleted"]
    BY <2>1, DeletionStepFrame DEF DocInv, Live
  <2>3. t = d /\ Live(d) /\ ~Live(d)'
    BY <2>1, <2>2 DEF Live, DocInv, IInv, TypeOK, StoresTypeOK
  <2>4. \A e \in Doc : e # d => (Live(e)' <=> Live(e))
    BY <2>2, <2>3 DEF Live, DocInv, IInv, TypeOK, StoresTypeOK
  <2> DEFINE k == keyOf[d]
  <2>5. k \in Key /\ Entry[k] = status[d]
    BY <1>1, <2>1, <2>3 DEF EntriesAreRows
  <2>6. Entry'[k] = "absent"
    <3>1. \A e \in Doc : ~(Live(e)' /\ keyOf'[e] = k)
      BY <1>2, <2>3, <2>4 DEF DocInv, IInv, UniqueHolder, Live
    <3> QED BY <1>1, <2>5, <3>1 DEF EntriesAreRows
  <2>7. ASSUME NEW j \in Key, j # k PROVE Entry'[j] = Entry[j]
    BY <1>4, <2>4, <2>7
  <2>8. status[d] # "absent"
    BY DEF DocInv, IInv, TypeOK, StoresTypeOK, DocStatus
  <2>11. Repeated' = Repeated \ {k}
    <3>1. \A e \in Doc : Live(e) /\ keyOf[e] = k => e = d
      BY <2>3 DEF DocInv, IInv, UniqueHolder, Live
    <3> QED BY <1>2, <1>7, <2>3, <2>4, <3>1 DEF Repeated
  <2> HIDE DEF k
  <2>9. Entry' = [Entry EXCEPT ![k] = "absent"]
    BY <1>3, <2>5, <2>6, <2>7
  <2>10. Abstract!Remove(k)
    BY <2>5, <2>8, <2>9, <2>11 DEF Abstract!Remove
  <2> QED BY <2>5, <2>10
<1> QED BY <1>5, <1>6

(* What clients see of a content, all stores, processes and faults taken
   together, is a behaviour of the catalogue. *)
THEOREM ImplementsCatalogHolds == Spec => ImplementsCatalog
<1>1. Init => Abstract!Init
  BY DEF Init, StoresInit, Entry, Repeated, Live, Abstract!Init
<1>2. ASSUME DocInv, DocInv', StatusAtStage, [Next]_vars
      PROVE  [Abstract!Next]_<<Entry, Repeated>>
  <2>1. CASE UploadNext
    <3>1. PICK r \in Request : Handles(r)
      BY <2>1 DEF UploadNext, Handles
    <3> QED BY <1>2, <3>1, UploadAdmits DEF Abstract!Next
  <2>2. CASE WorkerNext
    <3>1. CASE Repeated' = Repeated
      BY <1>2, <2>2, <3>1, WorkerMoves DEF Abstract!Next
    <3>2. CASE Repeated' # Repeated
      <4>1. Entry' = Entry
        BY <1>2, <2>2, <3>2, WorkerRepeats
      <4>2. PICK k \in Key : /\ Repeated' = Repeated \union {k}
                            /\ \E d \in Doc : Live(d) /\ keyOf[d] = k
        BY <1>2, <2>2, <3>2, WorkerRepeats
      <4>3. Entry[k] # "absent"
        <5>1. \A d \in Doc : status[d] # "absent"
          BY <1>2 DEF DocInv, IInv, TypeOK, StoresTypeOK, DocStatus
        <5>2. EntriesAreRows
          BY <1>2, EntryIs DEF DocInv, IInv, UniqueHolder, UniqueContent, Live
        <5> QED BY <4>2, <5>1, <5>2 DEF EntriesAreRows
      <4>4. Abstract!Repeat(k)
        BY <4>1, <4>2, <4>3 DEF Abstract!Repeat
      <4> QED BY <4>4 DEF Abstract!Next
    <3> QED BY <3>1, <3>2
  <2>3. CASE DeletionNext
    BY <1>2, <2>3, DeletionRemovesEntry DEF Abstract!Next
  <2>4. CASE UNCHANGED vars
    BY <2>4 DEF vars, storeVars, pgVars, Entry, Repeated, DeliveredOnce, Live
  <2> QED BY <1>2, <2>1, <2>2, <2>3, <2>4 DEF Next, Rest
<1>3. (DocInv /\ StatusAtStage) /\ DocInv' /\ [Next]_vars => [Abstract!Next]_<<Entry, Repeated>>
  BY <1>2
<1> QED BY <1>1, <1>3, StageInvariance, PTL
        DEF Spec, ImplementsCatalog, Abstract!Spec, Abstract!catalogVars

===============================================================================
