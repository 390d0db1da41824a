----------------------------- MODULE GraphIndex -----------------------------
(***************************************************************************)
(* The Neo4j graph (app/ingest/graph_indexer.py): ingest executions that   *)
(* write a document's chunks, entities and relations statement by          *)
(* statement, and deletions of a document's subgraph.                      *)
(*                                                                         *)
(* Every session.run is a transaction of its own.  The constraints created *)
(* by scripts/init_neo4j.py make MERGE of a :Document or a :Chunk atomic;  *)
(* there is none on (tenant_id, name, type), so MERGE of an :Entity looks  *)
(* for the node and creates it in two steps.  A Name stands for a          *)
(* (name, type) pair, a node of an entity for <<its key, copy number>>.    *)
(***************************************************************************)
EXTENDS Integers, FiniteSets

CONSTANTS
    Execution,      \* executions of the ingest task that reach Neo4j
    Doc, Chunk, Name, Tenant,
    Ownerships,     \* the tenants the documents may have
    DocOf,          \* the document of each execution
    ChunksOf,       \* the chunks, with fresh uuid4 ids, of each execution
    NamesIn,        \* the entities the LLM extracted from each chunk
    PairsIn,        \* the relations it extracted, endpoints in NamesIn
    Deletable,      \* documents for which DELETE may arrive
    Faulty          \* whether a statement may raise

ASSUME ExecutionAssumption ==
    /\ Ownerships \subseteq [Doc -> Tenant]
    /\ DocOf \in [Execution -> Doc]
    /\ ChunksOf \in [Execution -> SUBSET Chunk]
    /\ \A x, y \in Execution : x # y => ChunksOf[x] \cap ChunksOf[y] = {}

ASSUME ExtractionAssumption ==
    /\ IsFiniteSet(Name)
    /\ NamesIn \in [Chunk -> SUBSET Name]
    /\ PairsIn \in [Chunk -> SUBSET (Name \X Name)]
    /\ \A c \in Chunk : PairsIn[c] \subseteq NamesIn[c] \X NamesIn[c]
    /\ Deletable \subseteq Doc /\ Faulty \in BOOLEAN

VARIABLES
    tenantOf,   \* the tenant of each document, which never changes
    docNodes,   \* :Document nodes
    chunkNodes, \* :Chunk nodes
    partOf,     \* PART_OF edges
    entities,   \* :Entity nodes
    mentions,   \* MENTIONS edges
    relates,    \* RELATES_TO edges
    exec,       \* the statement each execution is at
    missing     \* entity keys its MERGE did not find

nodeVars == <<tenantOf, docNodes, chunkNodes, partOf>>
entityVars == <<entities, mentions, relates>>
graphVars == <<nodeVars, entityVars, exec, missing>>

GraphInit ==
    /\ tenantOf \in Ownerships
    /\ docNodes = {} /\ chunkNodes = {} /\ partOf = {}
    /\ entities = {} /\ mentions = {} /\ relates = {}
    /\ exec = [x \in Execution |-> "idle"]
    /\ missing = [x \in Execution |-> {}]

(* The rows the caller builds from the chunks and their extractions. *)
MutantKeyOf(x, n) == <<CHOOSE t \in Tenant : TRUE, n>>
KeyOf(x, n) == <<tenantOf[DocOf[x]], n>>

Nodes(k) == {e \in entities : e[1] = k}

EntityRows(x) == {KeyOf(x, n) : n \in UNION {NamesIn[c] : c \in ChunksOf[x]}}

MentionRows(x) ==
    {<<p[1], KeyOf(x, p[2])>> : p \in {p \in ChunksOf[x] \X Name : p[2] \in NamesIn[p[1]]}}

RelationRows(x) ==
    {<<KeyOf(x, p[1]), KeyOf(x, p[2])>> : p \in UNION {PairsIn[c] : c \in ChunksOf[x]}}

OnStatement(x, pc) == exec[x] = pc
Ended(x) == exec[x] \in {"done", "failed"}
Proceed(x, pc) == exec' = [exec EXCEPT ![x] = pc]

(* A statement takes effect and the next one follows, or it raises, with or
   without having been committed, and the execution ends. *)
Runs(x, effect, noEffect, pc) ==
    \/ effect /\ Proceed(x, pc)
    \/ Faulty /\ (effect \/ noEffect) /\ Proceed(x, "failed")

-----------------------------------------------------------------------------
StartExecution(x) ==
    /\ OnStatement(x, "idle")
    /\ Proceed(x, "document")
    /\ UNCHANGED <<nodeVars, entityVars, missing>>

MergeDocumentNode(x) ==
    /\ OnStatement(x, "document")
    /\ Runs(x, docNodes' = docNodes \union {DocOf[x]}, docNodes' = docNodes, "chunks")
    /\ UNCHANGED <<tenantOf, chunkNodes, partOf, entityVars, missing>>

(* MERGE (c) SET c ... WITH c MATCH (d) MERGE (c)-[:PART_OF]->(d). *)
ChunkEffect(x) ==
    /\ chunkNodes' = chunkNodes \union ChunksOf[x]
    /\ partOf' = partOf \union (ChunksOf[x] \X ({DocOf[x]} \cap docNodes))

AfterChunks(x) == IF EntityRows(x) = {} THEN "done" ELSE "match"

MergeChunkNodes(x) ==
    /\ OnStatement(x, "chunks")
    /\ Runs(x, ChunkEffect(x), UNCHANGED <<chunkNodes, partOf>>, AfterChunks(x))
    /\ UNCHANGED <<tenantOf, docNodes, entityVars, missing>>

MatchEntities(x) ==
    /\ OnStatement(x, "match")
    /\ missing' = [missing EXCEPT ![x] = {k \in EntityRows(x) : Nodes(k) = {}}]
    /\ Proceed(x, "create")
    /\ UNCHANGED <<nodeVars, entityVars>>

NewNode(k) ==
    <<k, CHOOSE i \in 1..(Cardinality(entities) + 1) : <<k, i>> \notin entities>>

CreateEntities(x) ==
    /\ OnStatement(x, "create")
    /\ Runs(x, entities' = entities \union {NewNode(k) : k \in missing[x]},
            entities' = entities, "mentions")
    /\ missing' = [missing EXCEPT ![x] = {}]
    /\ UNCHANGED <<nodeVars, mentions, relates>>

(* Both MATCHes of a row may find nothing, and then the row does nothing. *)
MergedMentions(x) ==
    {m \in (chunkNodes \cap ChunksOf[x]) \X entities : <<m[1], m[2][1]>> \in MentionRows(x)}

AfterMentions(x) == IF RelationRows(x) = {} THEN "done" ELSE "relations"

MergeMentions(x) ==
    /\ OnStatement(x, "mentions")
    /\ Runs(x, mentions' = mentions \union MergedMentions(x),
            mentions' = mentions, AfterMentions(x))
    /\ UNCHANGED <<nodeVars, entities, relates, missing>>

MergedRelations(x) ==
    {p \in entities \X entities : <<p[1][1], p[2][1]>> \in RelationRows(x)}

MergeRelations(x) ==
    /\ OnStatement(x, "relations")
    /\ Runs(x, relates' = relates \union MergedRelations(x), relates' = relates, "done")
    /\ UNCHANGED <<nodeVars, entities, mentions, missing>>

(***************************************************************************)
(* delete_document_graph: the document, the chunks with an edge to it, and *)
(* every edge of those.  Without the document node nothing matches.        *)
(***************************************************************************)
Detached(gone) == {m \in mentions : m[1] \notin gone}

DeleteDocumentGraph(d) ==
    LET gone == {c \in chunkNodes : <<c, d>> \in partOf}
    IN  /\ d \in Deletable \cap docNodes
        /\ docNodes' = docNodes \ {d}
        /\ chunkNodes' = chunkNodes \ gone
        /\ partOf' = {p \in partOf : p[1] \notin gone}
        /\ mentions' = Detached(gone)
        /\ UNCHANGED <<tenantOf, entities, relates, exec, missing>>

ExecutionStep(x) ==
    \/ StartExecution(x)
    \/ MergeDocumentNode(x) \/ MergeChunkNodes(x)
    \/ MatchEntities(x) \/ CreateEntities(x)
    \/ MergeMentions(x) \/ MergeRelations(x)

GraphNext ==
    \/ \E x \in Execution : ExecutionStep(x)
    \/ \E d \in Doc : DeleteDocumentGraph(d)

ExecutionsOver == \A x \in Execution : Ended(x)
-----------------------------------------------------------------------------
(* The chunks of an execution that a deletion did not remove. *)
Present(x) == ChunksOf[x] \cap chunkNodes

Mentioned(c, k) == \E e \in Nodes(k) : <<c, e>> \in mentions
Related(j, k) == \E s \in Nodes(j), t \in Nodes(k) : <<s, t>> \in relates

(* Edges never cross tenants: the key of an entity carries the tenant of the
   chunk it was extracted from, so equal names of two tenants stay apart. *)
TenantsApart ==
    /\ \A x \in Execution, m \in mentions :
          m[1] \in ChunksOf[x] => m[2][1][1] = tenantOf[DocOf[x]]
    /\ \A p \in relates : p[1][1][1] = p[2][1][1]

(* README.md:147 and graph_indexer.py:87: the dedup key of an entity is
   (tenant_id, name, type). *)
OneNodePerKey == \A e, f \in entities : e[1] = f[1] => e = f
=============================================================================
