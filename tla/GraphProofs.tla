----------------------------- MODULE GraphProofs -----------------------------
(***************************************************************************)
(* What holds in the graph for any executions, documents and extractions,  *)
(* however statements, deletions and sweeps interleave and fail: edges do  *)
(* not cross tenants, and what an execution has written stays, unless it   *)
(* ran while a sweep's query was at work.                                  *)
(***************************************************************************)
EXTENDS OrphanCleanup, TLAPS

(* A row of MENTIONS carries the tenant of the document being ingested, and
   its chunk belongs to no other execution. *)
LEMMA MentionsCarryTenant ==
    ASSUME NEW x \in Execution, NEW m \in MergedMentions(x),
           NEW y \in Execution, m[1] \in ChunksOf[y]
    PROVE  m[2][1][1] = tenantOf[DocOf[y]]
<1>1. m[1] \in ChunksOf[x] /\ <<m[1], m[2][1]>> \in MentionRows(x)
  BY DEF MergedMentions
<1>2. x = y
  BY <1>1, ExecutionAssumption
<1>3. PICK n \in Name : m[2][1] = KeyOf(x, n)
  BY <1>1 DEF MentionRows
<1> QED
  BY <1>2, <1>3 DEF KeyOf

(* Both ends of a row of RELATES_TO carry it. *)
LEMMA RelationsCarryTenant ==
    ASSUME NEW x \in Execution, NEW p \in MergedRelations(x)
    PROVE  p[1][1][1] = p[2][1][1]
<1>1. <<p[1][1], p[2][1]>> \in RelationRows(x)
  BY DEF MergedRelations
<1>2. PICK q : p[1][1] = KeyOf(x, q[1]) /\ p[2][1] = KeyOf(x, q[2])
  BY <1>1 DEF RelationRows
<1> QED
  BY <1>2 DEF KeyOf

(* The tenant of a document never changes, and edges only appear by the two
   MERGEs and disappear by deletions. *)
LEMMA EdgesMove ==
    ASSUME [Next]_vars
    PROVE  /\ tenantOf' = tenantOf
           /\ \/ mentions' \subseteq mentions
              \/ \E x \in Execution : mentions' = mentions \union MergedMentions(x)
           /\ \/ relates' \subseteq relates
              \/ \E x \in Execution : relates' = relates \union MergedRelations(x)
<1> USE DEF vars, graphVars, nodeVars, entityVars, sweepVars, Runs
<1>1. ASSUME NEW x \in Execution, StartExecution(x) \/ MatchEntities(x)
      PROVE  UNCHANGED <<tenantOf, mentions, relates>>
  BY <1>1 DEF StartExecution, MatchEntities
<1>2. ASSUME NEW x \in Execution, MergeDocumentNode(x) \/ MergeChunkNodes(x) \/ CreateEntities(x)
      PROVE  UNCHANGED <<tenantOf, mentions, relates>>
  BY <1>2 DEF MergeDocumentNode, MergeChunkNodes, CreateEntities
<1>3. ASSUME NEW x \in Execution, MergeMentions(x)
      PROVE  /\ UNCHANGED <<tenantOf, relates>>
             /\ mentions' = mentions \/ mentions' = mentions \union MergedMentions(x)
  BY <1>3 DEF MergeMentions
<1>4. ASSUME NEW x \in Execution, MergeRelations(x)
      PROVE  /\ UNCHANGED <<tenantOf, mentions>>
             /\ relates' = relates \/ relates' = relates \union MergedRelations(x)
  BY <1>4 DEF MergeRelations
<1>5. ASSUME NEW d \in Doc, DeleteDocumentGraph(d)
      PROVE  UNCHANGED <<tenantOf, relates>> /\ mentions' \subseteq mentions
  BY <1>5 DEF DeleteDocumentGraph, Detached
<1>6. ASSUME DeleteOrphans \/ TransientError \/ OtherError
      PROVE  /\ tenantOf' = tenantOf
             /\ mentions' \subseteq mentions /\ relates' \subseteq relates
  BY <1>6 DEF DeleteOrphans, TransientError, OtherError, DetachDelete
<1>7. ASSUME Sweep \/ Scan \/ MatchOrphans \/ Retry \/ GiveUp \/ Rest \/ UNCHANGED vars
      PROVE  UNCHANGED <<tenantOf, mentions, relates>>
  BY <1>7 DEF Sweep, Scan, MatchOrphans, Retry, GiveUp, Rest
<1>8. CASE GraphNext
  BY <1>8, <1>1, <1>2, <1>3, <1>4, <1>5 DEF GraphNext, ExecutionStep
<1> QED
  BY <1>6, <1>7, <1>8 DEF Next, SweepStep

(* Edges never cross tenants, for any number of tenants, executions, names. *)
THEOREM TenantsApartHolds == Spec => []TenantsApart
<1>1. Init => TenantsApart
  BY DEF Init, GraphInit, TenantsApart
<1>2. TenantsApart /\ [Next]_vars => TenantsApart'
  <2> SUFFICES ASSUME TenantsApart, [Next]_vars PROVE TenantsApart'
    OBVIOUS
  <2>1. ASSUME NEW y \in Execution, NEW m \in mentions', m[1] \in ChunksOf[y]
        PROVE  m[2][1][1] = tenantOf'[DocOf[y]]
    <3>1. CASE m \in mentions
      BY <2>1, <3>1, EdgesMove DEF TenantsApart
    <3>2. CASE m \notin mentions
      <4>1. PICK x \in Execution : m \in MergedMentions(x)
        BY <2>1, <3>2, EdgesMove
      <4> QED
        BY <2>1, <4>1, MentionsCarryTenant, EdgesMove
    <3> QED
      BY <3>1, <3>2
  <2>2. ASSUME NEW p \in relates' PROVE p[1][1][1] = p[2][1][1]
    <3>1. CASE p \in relates
      BY <3>1 DEF TenantsApart
    <3>2. CASE p \notin relates
      <4>1. PICK x \in Execution : p \in MergedRelations(x)
        BY <2>2, <3>2, EdgesMove
      <4> QED
        BY <4>1, RelationsCarryTenant
    <3> QED
      BY <3>1, <3>2
  <2> QED
    BY <2>1, <2>2 DEF TenantsApart
<1> QED
  BY <1>1, <1>2, PTL DEF Spec

-----------------------------------------------------------------------------
(***************************************************************************)
(* What an execution has written by the time it is at a statement, on      *)
(* entities that the query of a sweep has not matched.                     *)
(***************************************************************************)
Safe(k) == Nodes(k) \ doomed

Found(x) ==
    exec[x] = "create" => \A k \in EntityRows(x) : k \in missing[x] \/ Safe(k) # {}
Created(x) ==
    exec[x] = "mentions" => \A k \in EntityRows(x) : Safe(k) # {}
AllMentioned(x) ==
    exec[x] \in {"relations", "done"} =>
        \A c \in Present(x) : \A n \in NamesIn[c] :
            \E e \in Safe(KeyOf(x, n)) : <<c, e>> \in mentions
AllRelated(x) ==
    exec[x] = "done" =>
        \A c \in Present(x) : \A r \in PairsIn[c] :
            \E s \in Safe(KeyOf(x, r[1])), t \in Safe(KeyOf(x, r[2])) :
                /\ <<c, s>> \in mentions /\ <<c, t>> \in mentions
                /\ <<s, t>> \in relates

Written(x) == Found(x) /\ Created(x) /\ AllMentioned(x) /\ AllRelated(x)

(* Where the task is tells what it may have matched, and whom it has met. *)
SweepInv ==
    /\ dryRun \in BOOLEAN
    /\ sweep = "idle" => dryRun
    /\ dryRun => sweep \notin {"match", "detach"} /\ crossed = {}
    /\ sweep # "detach" => doomed = {}
    /\ sweep = "detach" => \A x \in Execution \ crossed : Ended(x)

TypeOK == DOMAIN exec = Execution /\ DOMAIN missing = Execution

GraphInv == TypeOK /\ SweepInv /\ \A x \in Execution \ crossed : Written(x)

(* The rows of an execution agree with one another. *)
LEMMA RowsAgree ==
    ASSUME NEW x \in Execution, NEW c \in ChunksOf[x]
    PROVE  /\ \A n \in NamesIn[c] : /\ n \in Name
                                    /\ KeyOf(x, n) \in EntityRows(x)
                                    /\ <<c, KeyOf(x, n)>> \in MentionRows(x)
           /\ \A r \in PairsIn[c] : /\ r[1] \in NamesIn[c] /\ r[2] \in NamesIn[c]
                                    /\ <<KeyOf(x, r[1]), KeyOf(x, r[2])>> \in RelationRows(x)
<1>1. c \in Chunk
  BY ExecutionAssumption
<1>2. ASSUME NEW n \in NamesIn[c]
      PROVE  n \in Name /\ KeyOf(x, n) \in EntityRows(x) /\ <<c, KeyOf(x, n)>> \in MentionRows(x)
  <2>1. n \in Name
    BY <1>1, ExtractionAssumption
  <2>2. KeyOf(x, n) \in EntityRows(x)
    BY DEF EntityRows
  <2> DEFINE P == {p \in ChunksOf[x] \X Name : p[2] \in NamesIn[p[1]]}
  <2>3. <<c, n>> \in P /\ <<c, KeyOf(x, n)>> = <<<<c, n>>[1], KeyOf(x, <<c, n>>[2])>>
    BY <2>1
  <2> QED
    BY <2>1, <2>2, <2>3 DEF MentionRows
<1>3. ASSUME NEW r \in PairsIn[c]
      PROVE  /\ r[1] \in NamesIn[c] /\ r[2] \in NamesIn[c]
             /\ <<KeyOf(x, r[1]), KeyOf(x, r[2])>> \in RelationRows(x)
  BY <1>1, ExtractionAssumption DEF RelationRows
<1> QED
  BY <1>2, <1>3

(* No entities, no relations. *)
LEMMA NothingToWrite ==
    ASSUME NEW x \in Execution
    PROVE  /\ EntityRows(x) = {} =>
                \A c \in ChunksOf[x] : NamesIn[c] = {} /\ PairsIn[c] = {}
           /\ RelationRows(x) = {} => \A c \in ChunksOf[x] : PairsIn[c] = {}
BY RowsAgree

(* The part of the graph no query has matched stays, except for the mentions
   of a deleted chunk. *)
Grows ==
    /\ tenantOf' = tenantOf
    /\ \A e \in entities \ doomed : e \in entities' \ doomed'
    /\ \A s, t : <<s, t>> \in relates /\ s \notin doomed /\ t \notin doomed =>
            <<s, t>> \in relates'
    /\ \A c \in chunkNodes' : \A e : <<c, e>> \in mentions /\ e \notin doomed =>
            <<c, e>> \in mentions'

(* What is written stays written for an execution that does not move. *)
LEMMA WrittenStays ==
    ASSUME NEW x \in Execution, Written(x), Grows,
           exec'[x] = exec[x], missing'[x] = missing[x],
           Present(x)' \subseteq Present(x)
    PROVE  Written(x)'
<1>1. /\ EntityRows(x)' = EntityRows(x)
      /\ \A n : KeyOf(x, n)' = KeyOf(x, n)
  BY DEF Grows, EntityRows, KeyOf
<1>2. \A k : Safe(k) \subseteq Safe(k)'
  BY DEF Grows, Safe, Nodes
<1>3. Found(x)' /\ Created(x)'
  BY <1>1, <1>2 DEF Written, Found, Created
<1>4. \A c \in Present(x)' : \A k : \A e \in Safe(k) :
        <<c, e>> \in mentions => <<c, e>> \in mentions'
  BY DEF Grows, Present, Safe
<1>5. AllMentioned(x)'
  <2> SUFFICES ASSUME exec[x] \in {"relations", "done"},
                      NEW c \in Present(x)', NEW n \in NamesIn[c]
               PROVE  \E e \in Safe(KeyOf(x, n))' : <<c, e>> \in mentions'
    BY <1>1 DEF AllMentioned
  <2>1. PICK e \in Safe(KeyOf(x, n)) : <<c, e>> \in mentions
    BY DEF Written, AllMentioned
  <2> QED
    BY <1>1, <1>2, <1>4, <2>1
<1>6. AllRelated(x)'
  <2> SUFFICES ASSUME exec[x] = "done", NEW c \in Present(x)', NEW r \in PairsIn[c]
               PROVE  \E s \in Safe(KeyOf(x, r[1]))', t \in Safe(KeyOf(x, r[2]))' :
                        /\ <<c, s>> \in mentions' /\ <<c, t>> \in mentions'
                        /\ <<s, t>> \in relates'
    BY <1>1 DEF AllRelated
  <2>1. PICK s \in Safe(KeyOf(x, r[1])), t \in Safe(KeyOf(x, r[2])) :
            /\ <<c, s>> \in mentions /\ <<c, t>> \in mentions
            /\ <<s, t>> \in relates
    BY DEF Written, AllRelated
  <2>2. <<s, t>> \in relates'
    BY <2>1 DEF Grows, Safe
  <2> QED
    BY <1>1, <1>2, <1>4, <2>1, <2>2
<1> QED
  BY <1>3, <1>5, <1>6 DEF Written

(* A step of one execution leaves the others as they were. *)
LEMMA OthersStay ==
    ASSUME NEW x \in Execution, NEW y \in Execution, x # y, Written(y), Grows,
           exec'[y] = exec[y], missing'[y] = missing[y],
           chunkNodes' \subseteq chunkNodes \union ChunksOf[x]
    PROVE  Written(y)'
<1>1. Present(y)' \subseteq Present(y)
  BY ExecutionAssumption DEF Present
<1> QED
  BY <1>1, WrittenStays

(* Before its MATCH an execution has written nothing that matters here, and
   one that failed promises nothing. *)
LEMMA NothingDue ==
    ASSUME NEW x \in Execution, exec[x] \in {"idle", "document", "chunks", "match", "failed"}
    PROVE  Written(x)
BY DEF Written, Found, Created, AllMentioned, AllRelated

(* Each statement writes what the later ones look for, unless a query is at
   work that may take it. *)
LEMMA StatementWrites ==
    ASSUME NEW x \in Execution, TypeOK, Written(x), ExecutionStep(x),
           tenantOf' = tenantOf, doomed = {}, doomed' = {}
    PROVE  Written(x)'
<1> USE DEF Runs, Proceed, OnStatement, graphVars, nodeVars, entityVars, TypeOK
<1>0. /\ EntityRows(x)' = EntityRows(x)
      /\ MentionRows(x)' = MentionRows(x)
      /\ RelationRows(x)' = RelationRows(x)
      /\ \A n : KeyOf(x, n)' = KeyOf(x, n)
      /\ \A k : Safe(k) = Nodes(k) /\ Safe(k)' = Nodes(k)'
  BY DEF EntityRows, MentionRows, RelationRows, KeyOf, Safe
<1>1. CASE exec'[x] = "failed"
  BY <1>1 DEF Written, Found, Created, AllMentioned, AllRelated
<1>2. CASE StartExecution(x) \/ MergeDocumentNode(x)
  <2>1. exec'[x] \in {"document", "chunks", "failed"}
    BY <1>2 DEF StartExecution, MergeDocumentNode
  <2> QED
    BY <2>1 DEF Written, Found, Created, AllMentioned, AllRelated
<1>3. CASE MergeChunkNodes(x) /\ exec'[x] # "failed"
  <2>1. exec'[x] = "match" \/ (exec'[x] = "done" /\ EntityRows(x) = {})
    BY <1>3 DEF MergeChunkNodes, AfterChunks
  <2> QED
    BY <2>1, NothingToWrite DEF Written, Found, Created, AllMentioned, AllRelated, Present
<1>4. CASE MatchEntities(x)
  <2>1. exec'[x] = "create" /\ missing'[x] = {k \in EntityRows(x) : Nodes(k) = {}}
    BY <1>4 DEF MatchEntities
  <2>2. \A k : Nodes(k)' = Nodes(k)
    BY <1>4 DEF MatchEntities, Nodes
  <2> QED
    BY <1>0, <2>1, <2>2 DEF Written, Found, Created, AllMentioned, AllRelated
<1>5. CASE CreateEntities(x) /\ exec'[x] # "failed"
  <2>1. /\ exec[x] = "create" /\ exec'[x] = "mentions"
        /\ entities' = entities \union {NewNode(k) : k \in missing[x]}
    BY <1>5 DEF CreateEntities
  <2>2. ASSUME NEW k \in EntityRows(x) PROVE Nodes(k)' # {}
    <3>1. CASE k \in missing[x]
      <4>1. NewNode(k) \in entities'
        BY <2>1, <3>1
      <4>2. NewNode(k)[1] = k
        BY DEF NewNode
      <4> QED
        BY <4>1, <4>2 DEF Nodes
    <3>2. CASE Nodes(k) # {}
      BY <2>1, <3>2 DEF Nodes
    <3> QED
      BY <1>0, <2>1, <2>2, <3>1, <3>2 DEF Written, Found
  <2> QED
    BY <1>0, <2>1, <2>2 DEF Written, Found, Created, AllMentioned, AllRelated
<1>6. CASE MergeMentions(x) /\ exec'[x] # "failed"
  <2>1. /\ exec[x] = "mentions"
        /\ exec'[x] = "relations" \/ (exec'[x] = "done" /\ RelationRows(x) = {})
        /\ mentions' = mentions \union MergedMentions(x)
        /\ UNCHANGED <<entities, chunkNodes>>
    BY <1>6 DEF MergeMentions, AfterMentions
  <2>2. ASSUME NEW c \in Present(x)', NEW n \in NamesIn[c]
        PROVE  \E e \in Safe(KeyOf(x, n))' : <<c, e>> \in mentions'
    <3>1. c \in chunkNodes /\ c \in ChunksOf[x]
      BY <2>1 DEF Present
    <3>2. KeyOf(x, n) \in EntityRows(x) /\ <<c, KeyOf(x, n)>> \in MentionRows(x)
      BY <3>1, RowsAgree
    <3>3. PICK e \in entities : e[1] = KeyOf(x, n)
      BY <1>0, <2>1, <3>2 DEF Written, Created, Nodes
    <3>4. <<c, e>> \in MergedMentions(x)
      BY <3>1, <3>2, <3>3 DEF MergedMentions
    <3> QED
      BY <1>0, <2>1, <3>3, <3>4 DEF Nodes
  <2>3. AllMentioned(x)'
    BY <2>2 DEF AllMentioned
  <2>4. exec'[x] = "done" => \A c \in Present(x)' : PairsIn[c] = {}
    BY <2>1, NothingToWrite DEF Present
  <2>5. AllRelated(x)'
    BY <2>4 DEF AllRelated
  <2>6. exec'[x] \in {"relations", "done"}
    BY <2>1
  <2> QED
    BY <2>3, <2>5, <2>6 DEF Written, Found, Created
<1>7. CASE MergeRelations(x) /\ exec'[x] # "failed"
  <2>1. /\ exec[x] = "relations" /\ exec'[x] = "done"
        /\ relates' = relates \union MergedRelations(x)
        /\ UNCHANGED <<entities, chunkNodes, mentions>>
    BY <1>7 DEF MergeRelations
  <2>2. /\ Present(x)' = Present(x)
        /\ \A k : Safe(k)' = Safe(k) /\ Safe(k) \subseteq entities
        /\ \A k : \A e \in Safe(k) : e[1] = k
    BY <2>1 DEF Present, Safe, Nodes
  <2>3. AllMentioned(x)'
    BY <1>0, <2>1, <2>2 DEF Written, AllMentioned
  <2>4. ASSUME NEW c \in Present(x), NEW r \in PairsIn[c]
        PROVE  \E s \in Safe(KeyOf(x, r[1])), t \in Safe(KeyOf(x, r[2])) :
                  /\ <<c, s>> \in mentions /\ <<c, t>> \in mentions
                  /\ <<s, t>> \in relates'
    <3>1. /\ r[1] \in NamesIn[c] /\ r[2] \in NamesIn[c]
          /\ <<KeyOf(x, r[1]), KeyOf(x, r[2])>> \in RelationRows(x)
      BY RowsAgree DEF Present
    <3>2. PICK s \in Safe(KeyOf(x, r[1])) : <<c, s>> \in mentions
      BY <2>1, <3>1 DEF Written, AllMentioned
    <3>3. PICK t \in Safe(KeyOf(x, r[2])) : <<c, t>> \in mentions
      BY <2>1, <3>1 DEF Written, AllMentioned
    <3>4. <<s, t>> \in MergedRelations(x)
      BY <2>2, <3>1, <3>2, <3>3 DEF MergedRelations
    <3> QED
      BY <2>1, <3>2, <3>3, <3>4
  <2>5. AllRelated(x)'
    <3> SUFFICES ASSUME NEW c \in Present(x)', NEW r \in PairsIn[c]
                 PROVE  \E s \in Safe(KeyOf(x, r[1])'), t \in Safe(KeyOf(x, r[2])') :
                          /\ <<c, s>> \in mentions' /\ <<c, t>> \in mentions'
                          /\ <<s, t>> \in relates'
      BY <2>2 DEF AllRelated
    <3> QED
      BY <1>0, <2>1, <2>2, <2>4
  <2> QED
    BY <2>1, <2>3, <2>5 DEF Written, Found, Created
<1> QED
  BY <1>1, <1>2, <1>3, <1>4, <1>5, <1>6, <1>7 DEF ExecutionStep, MatchEntities

(* Only an execution's own statements move it, and they add to the graph. *)
LEMMA StatementGrows ==
    ASSUME NEW x \in Execution, TypeOK, tenantOf' = tenantOf, ExecutionStep(x),
           doomed' = doomed
    PROVE  /\ TypeOK' /\ Grows /\ ~Ended(x)
           /\ \A y \in Execution \ {x} : exec'[y] = exec[y] /\ missing'[y] = missing[y]
           /\ chunkNodes' \subseteq chunkNodes \union ChunksOf[x]
<1> USE DEF Runs, Proceed, OnStatement, graphVars, nodeVars, entityVars, Grows
<1>1. \E pc : exec' = [exec EXCEPT ![x] = pc]
  BY DEF ExecutionStep, StartExecution, MergeDocumentNode, MergeChunkNodes, MatchEntities,
     CreateEntities, MergeMentions, MergeRelations, AfterChunks, AfterMentions
<1>2. \/ missing' = missing
      \/ \E M : missing' = [missing EXCEPT ![x] = M]
  BY DEF ExecutionStep, StartExecution, MergeDocumentNode, MergeChunkNodes, MatchEntities,
     CreateEntities, MergeMentions, MergeRelations
<1>3. Grows /\ chunkNodes' \subseteq chunkNodes \union ChunksOf[x]
  BY DEF ExecutionStep, StartExecution, MergeDocumentNode, MergeChunkNodes, ChunkEffect,
     MatchEntities, CreateEntities, MergeMentions, MergeRelations
<1>4. ~Ended(x)
  BY DEF ExecutionStep, StartExecution, MergeDocumentNode, MergeChunkNodes, MatchEntities,
     CreateEntities, MergeMentions, MergeRelations, Ended
<1> QED
  BY <1>1, <1>2, <1>3, <1>4 DEF TypeOK

(* What a sweep's query matches nobody mentions, so an execution that is over
   keeps what it wrote. *)
LEMMA MatchSpares ==
    ASSUME GraphInv, MatchOrphans
    PROVE  GraphInv'
<1> USE DEF graphVars, nodeVars, entityVars
<1>1. TypeOK' /\ SweepInv'
  BY DEF GraphInv, TypeOK, SweepInv, MatchOrphans, Ended
<1>2. doomed = {} /\ doomed' \subseteq Orphans /\ UNCHANGED graphVars
  BY DEF GraphInv, SweepInv, MatchOrphans, Matched, Batches
<1>3. \A k : \A e \in Safe(k) : \A c : <<c, e>> \in mentions => e \in Safe(k)'
  BY <1>2 DEF Safe, Nodes, Orphans, IsOrphan
<1>4. ASSUME NEW x \in Execution \ crossed' PROVE Written(x)'
  <2>1. Ended(x) /\ Written(x)
    BY DEF GraphInv, MatchOrphans
  <2>2. Found(x)' /\ Created(x)'
    BY <1>2, <2>1 DEF Found, Created, Ended
  <2>3. Present(x)' = Present(x) /\ \A n : KeyOf(x, n)' = KeyOf(x, n)
    BY <1>2 DEF Present, KeyOf
  <2>4. AllMentioned(x)'
    BY <1>2, <1>3, <2>1, <2>3 DEF Written, AllMentioned
  <2>5. ASSUME exec[x] = "done", NEW c \in Present(x), NEW r \in PairsIn[c]
        PROVE  \E s \in Safe(KeyOf(x, r[1]))', t \in Safe(KeyOf(x, r[2]))' :
                 /\ <<c, s>> \in mentions /\ <<c, t>> \in mentions
                 /\ <<s, t>> \in relates
    <3>1. PICK s \in Safe(KeyOf(x, r[1])), t \in Safe(KeyOf(x, r[2])) :
            /\ <<c, s>> \in mentions /\ <<c, t>> \in mentions
            /\ <<s, t>> \in relates
      BY <2>1, <2>5 DEF Written, AllRelated
    <3> QED
      BY <1>3, <2>3, <3>1
  <2>6. AllRelated(x)'
    BY <1>2, <2>3, <2>5 DEF AllRelated
  <2> QED
    BY <2>2, <2>4, <2>6 DEF Written
<1> QED
  BY <1>1, <1>4 DEF GraphInv

(* When the query is over what it matched is gone, or nothing is, and whoever
   has not begun has not met it. *)
LEMMA QuerySpares ==
    ASSUME GraphInv, sweep = "detach", QueryOver, DetachDelete \/ UNCHANGED entityVars,
           UNCHANGED <<nodeVars, exec, missing, dryRun>>, sweep' \in {"done", "failed", "retry"}
    PROVE  GraphInv'
<1> USE DEF nodeVars, entityVars
<1>1. TypeOK' /\ SweepInv'
  BY DEF GraphInv, TypeOK, SweepInv, QueryOver
<1>2. Grows
  BY DEF Grows, DetachDelete, QueryOver
<1>3. ASSUME NEW x \in Execution \ crossed' PROVE Written(x)'
  <2>1. CASE x \in crossed
    <3>1. exec'[x] = "idle"
      BY <2>1 DEF QueryOver, OnStatement
    <3> QED
      BY <3>1 DEF Written, Found, Created, AllMentioned, AllRelated
  <2>2. CASE x \notin crossed
    BY <1>2, <2>2, WrittenStays DEF GraphInv, Present
  <2> QED
    BY <2>1, <2>2
<1> QED
  BY <1>1, <1>3 DEF GraphInv

(* Every step preserves it: a statement writes for its own execution and takes
   nothing from the others, a deletion takes mentions with their chunks, and a
   sweep what it has matched. *)
THEOREM GraphInvariance == Spec => []GraphInv
<1>1. Init => GraphInv
  <2> SUFFICES ASSUME Init PROVE GraphInv
    OBVIOUS
  <2>1. TypeOK /\ SweepInv
    BY DEF Init, GraphInit, TypeOK, SweepInv
  <2>2. \A x \in Execution : Written(x)
    BY NothingDue DEF Init, GraphInit
  <2> QED
    BY <2>1, <2>2 DEF GraphInv
<1>2. GraphInv /\ [Next]_vars => GraphInv'
  <2> SUFFICES ASSUME GraphInv, [Next]_vars PROVE GraphInv'
    OBVIOUS
  <2>1. CASE UNCHANGED <<graphVars, doomed, crossed>> /\ SweepInv'
    <3>1. Grows /\ TypeOK'
      BY <2>1 DEF GraphInv, Grows, TypeOK, graphVars, nodeVars, entityVars
    <3>2. \A x \in Execution : Written(x) => Written(x)'
      BY <2>1, <3>1, WrittenStays DEF Present, graphVars, nodeVars, entityVars
    <3> QED
      BY <2>1, <3>1, <3>2 DEF GraphInv
  <2>2. ASSUME NEW x \in Execution, ExecutionStep(x), UNCHANGED sweepVars
        PROVE  GraphInv'
    <3>1. tenantOf' = tenantOf /\ doomed' = doomed /\ crossed' = crossed
      BY <2>2, EdgesMove DEF sweepVars
    <3>2. /\ TypeOK' /\ Grows /\ ~Ended(x)
          /\ \A y \in Execution \ {x} : exec'[y] = exec[y] /\ missing'[y] = missing[y]
          /\ chunkNodes' \subseteq chunkNodes \union ChunksOf[x]
      BY <2>2, <3>1, StatementGrows DEF GraphInv
    <3>3. ASSUME NEW y \in Execution \ crossed PROVE Written(y)'
      <4>1. CASE y = x
        <5>1. doomed = {}
          BY <3>2, <3>3, <4>1 DEF GraphInv, SweepInv
        <5> QED
          BY <2>2, <3>1, <3>3, <4>1, <5>1, StatementWrites DEF GraphInv
      <4>2. CASE y # x
        BY <2>2, <3>2, <3>3, <4>2, OthersStay DEF GraphInv
      <4> QED
        BY <4>1, <4>2
    <3>4. SweepInv'
      BY <2>2, <3>2 DEF GraphInv, SweepInv, sweepVars, Ended
    <3> QED
      BY <3>1, <3>2, <3>3, <3>4 DEF GraphInv
  <2>3. ASSUME NEW d \in Doc, DeleteDocumentGraph(d), UNCHANGED sweepVars
        PROVE  GraphInv'
    <3>1. Grows /\ chunkNodes' \subseteq chunkNodes /\ UNCHANGED <<exec, missing>>
      BY <2>3 DEF DeleteDocumentGraph, Detached, Grows, sweepVars
    <3>2. \A x \in Execution : Written(x) => Written(x)'
      BY <3>1, WrittenStays DEF Present
    <3> QED
      BY <2>3, <3>1, <3>2 DEF GraphInv, TypeOK, SweepInv, sweepVars, Ended
  <2>4. CASE Sweep \/ Scan \/ Retry \/ GiveUp \/ Rest \/ UNCHANGED vars
    <3>1. SweepInv'
      <4>1. CASE Sweep \/ Scan
        BY <4>1 DEF GraphInv, SweepInv, Sweep, Scan, AfterScan
      <4>2. CASE Retry \/ GiveUp
        BY <4>2 DEF GraphInv, SweepInv, Retry, GiveUp
      <4>3. CASE UNCHANGED vars
        BY <4>3 DEF GraphInv, SweepInv, vars, graphVars, sweepVars, Ended
      <4> QED
        BY <2>4, <4>1, <4>2, <4>3 DEF Rest
    <3>2. UNCHANGED <<graphVars, doomed, crossed>>
      BY <2>4 DEF Sweep, Scan, Retry, GiveUp, Rest, vars, sweepVars
    <3> QED
      BY <2>1, <3>1, <3>2
  <2>5. CASE MatchOrphans
    BY <2>5, MatchSpares
  <2>6. CASE DeleteOrphans
    BY <2>6, QuerySpares DEF DeleteOrphans
  <2>7. CASE TransientError \/ OtherError
    <3>1. CASE sweep = "detach"
      BY <2>7, <3>1, QuerySpares DEF TransientError, OtherError
    <3>2. CASE sweep # "detach"
      BY <2>1, <2>7, <3>2 DEF TransientError, OtherError, GraphInv, SweepInv, graphVars
    <3> QED
      BY <3>1, <3>2
  <2> QED
    BY <2>2, <2>3, <2>4, <2>5, <2>6, <2>7 DEF Next, GraphNext, SweepStep
<1> QED
  BY <1>1, <1>2, PTL DEF Spec

(* An execution that ended well has written every mention and every relation
   of its chunks, and keeps them through any ingests, deletions and sweeps whose
   query was not at work while it ran. *)
THEOREM DoneIsCompleteHolds == Spec => []DoneIsComplete
<1>1. GraphInv => DoneIsComplete
  <2> SUFFICES ASSUME GraphInv, NEW x \in Execution, exec[x] = "done",
                      dryRun \/ x \notin crossed, NEW c \in Present(x)
               PROVE  /\ \A n \in NamesIn[c] : Mentioned(c, KeyOf(x, n))
                      /\ \A r \in PairsIn[c] : Related(KeyOf(x, r[1]), KeyOf(x, r[2]))
    BY DEF DoneIsComplete
  <2>1. Written(x)
    BY DEF GraphInv, SweepInv
  <2> QED
    BY <2>1 DEF Written, AllMentioned, AllRelated, Safe, Mentioned, Related
<1> QED
  BY <1>1, GraphInvariance, PTL
=============================================================================
