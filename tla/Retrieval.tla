----------------------------- MODULE Retrieval ------------------------------
(***************************************************************************)
(* What a question finds (app/retrieve): the vector search in Qdrant, the  *)
(* graph search in Neo4j, the cross-encoder and the merge of the two       *)
(* (orchestrator.py), over stores that documents enter and leave.          *)
(*                                                                         *)
(* The stores are those of GraphIndex and Lifecycle at a coarser grain: a  *)
(* document is written to them, and deleted from them, one store at a      *)
(* time.  A chunk is <<document, chunk_index>>; a hit is a chunk, the      *)
(* search that returned it and the chunk_index it carries.                 *)
(***************************************************************************)
EXTENDS Integers, Sequences, FiniteSets, SequencesExt

CONSTANTS
    Doc, Name, Tenant,
    TenantOf,       \* the tenant of each document
    ChunkCount,     \* the number of chunks of each document
    NamesIn,        \* the entities extracted from each chunk
    PairsIn,        \* the relations extracted from each chunk
    Indexed,        \* documents that are in both stores at the start
    Leaving,        \* documents for which DELETE may arrive
    Relevance,      \* the cross-encoder's score of <<chunk, search>>
    Oversample      \* settings.reranker_oversample

Chunk == UNION {{d} \X (0..(ChunkCount[d] - 1)) : d \in Doc}
Search == {"vector", "graph"}

ASSUME RetrievalAssumption ==
    /\ IsFiniteSet(Doc)
    /\ TenantOf \in [Doc -> Tenant]
    /\ ChunkCount \in [Doc -> Nat]
    /\ NamesIn \in [Chunk -> SUBSET Name]
    /\ \A c \in Chunk : PairsIn[c] \subseteq NamesIn[c] \X NamesIn[c]
    /\ Indexed \subseteq Doc /\ Leaving \subseteq Doc
    /\ Relevance \in [Chunk \X Search -> Nat]
    /\ Oversample \in Int

VARIABLES
    points,     \* chunks with a point in Qdrant
    nodes,      \* chunks with a node that is PART_OF a :Document
    entities,   \* :Entity nodes, <<tenant, name>>
    mentions,   \* MENTIONS edges, <<chunk, entity>>
    relates,    \* RELATES_TO edges
    writing,    \* what the ingest of each document has yet to write
    deleting    \* what the deletion of each document has yet to delete

stores == <<points, nodes, entities, mentions, relates, writing, deleting>>

ChunksOf(d) == {c \in Chunk : c[1] = d}
TenantOfChunk(c) == TenantOf[c[1]]
EntityOf(c, n) == <<TenantOfChunk(c), n>>

EntitiesFrom(C) == UNION {{EntityOf(c, n) : n \in NamesIn[c]} : c \in C}
MentionsFrom(C) == UNION {{<<c, EntityOf(c, n)>> : n \in NamesIn[c]} : c \in C}
RelationsFrom(C) ==
    UNION {{<<EntityOf(c, p[1]), EntityOf(c, p[2])>> : p \in PairsIn[c]} : c \in C}

StoresInit ==
    LET present == UNION {ChunksOf(d) : d \in Indexed}
    IN  /\ points = present /\ nodes = present
        /\ entities = EntitiesFrom(present)
        /\ mentions = MentionsFrom(present)
        /\ relates = RelationsFrom(present)
        /\ writing = [d \in Doc |-> IF d \in Indexed THEN {} ELSE Search]
        /\ deleting = [d \in Doc |-> Search]

-----------------------------------------------------------------------------
(***************************************************************************)
(* The other side of the stores.  A document's points are written, and     *)
(* deleted, before its graph.                                              *)
(***************************************************************************)
WritePoints(d) ==
    /\ "vector" \in writing[d]
    /\ points' = points \union ChunksOf(d)
    /\ writing' = [writing EXCEPT ![d] = @ \ {"vector"}]
    /\ UNCHANGED <<nodes, entities, mentions, relates, deleting>>

WriteGraph(d) ==
    /\ writing[d] = {"graph"}
    /\ nodes' = nodes \union ChunksOf(d)
    /\ entities' = entities \union EntitiesFrom(ChunksOf(d))
    /\ mentions' = mentions \union MentionsFrom(ChunksOf(d))
    /\ relates' = relates \union RelationsFrom(ChunksOf(d))
    /\ writing' = [writing EXCEPT ![d] = {}]
    /\ UNCHANGED <<points, deleting>>

DeletePoints(d) ==
    /\ d \in Leaving
    /\ "vector" \in deleting[d]
    /\ points' = points \ ChunksOf(d)
    /\ deleting' = [deleting EXCEPT ![d] = @ \ {"vector"}]
    /\ UNCHANGED <<nodes, entities, mentions, relates, writing>>

StillMentioned(d) == {m \in mentions : m[1] \notin ChunksOf(d)}

(* The entities and the relations between them stay. *)
DeleteGraph(d) ==
    /\ deleting[d] = {"graph"}
    /\ nodes' = nodes \ ChunksOf(d)
    /\ mentions' = StillMentioned(d)
    /\ deleting' = [deleting EXCEPT ![d] = {}]
    /\ UNCHANGED <<points, entities, relates, writing>>

StoresNext ==
    \E d \in Doc : WritePoints(d) \/ WriteGraph(d) \/ DeletePoints(d) \/ DeleteGraph(d)

-----------------------------------------------------------------------------
AtMost(k, S) == IF Cardinality(S) < k THEN Cardinality(S) ELSE k

(* The answers of ORDER BY score DESC LIMIT k over S. *)
Rankings(S, score, k) ==
    {s \in [1..AtMost(k, S) -> S] :
        /\ IsInjective(s)
        /\ \A i \in DOMAIN s : \A c \in S \ {s[j] : j \in 1..i} : score[c] <= score[s[i]]}

(***************************************************************************)
(* hybrid_search: the nearest points that pass the filter, which always    *)
(* has the tenant; how near they are is left open.  `only` is the set of   *)
(* documents that pass the request's own filters.                          *)
(***************************************************************************)
MutantPassing(tenant, only) == {c \in points : c[1] \in only}
Passing(tenant, only) == {c \in points : TenantOfChunk(c) = tenant /\ c[1] \in only}

VectorHit(c) == [chunk |-> c, search |-> "vector", index |-> c[2]]

VectorAnswers(tenant, only, k) ==
    LET S == Passing(tenant, only)
    IN  {[i \in DOMAIN s |-> VectorHit(s[i])] : s \in Rankings(S, [c \in S |-> 0], k)}

(***************************************************************************)
(* graph_search: the entities the question names, those one RELATES_TO     *)
(* away in either direction, and the chunks that mention any of them, by   *)
(* how many they mention.  The row is read without a chunk_index, for no   *)
(* statement sets one on a :Chunk node: row.get(...) or 0.                 *)
(***************************************************************************)
Seeds(tenant, named) == {e \in entities : e[1] = tenant /\ e[2] \in named}

Reached(tenant, named) ==
    LET near(s) == {e \in entities : e[1] = tenant /\ {<<s, e>>, <<e, s>>} \cap relates # {}}
    IN  Seeds(tenant, named) \union UNION {near(s) : s \in Seeds(tenant, named)}

GraphHit(c) == [chunk |-> c, search |-> "graph", index |-> 0]

GraphAnswers(tenant, named, k) ==
    LET E == Reached(tenant, named)
        score == [c \in {d \in nodes : TenantOfChunk(d) = tenant} |->
                    Cardinality({e \in E : <<c, e>> \in mentions})]
        S == {c \in DOMAIN score : score[c] > 0}
    IN  {[i \in DOMAIN s |-> GraphHit(s[i])] : s \in Rankings(S, score, k)}

-----------------------------------------------------------------------------
HitKey(h) == <<h.chunk[1], h.index>>
Carried(hits) == {HitKey(hits[i]) : i \in DOMAIN hits}

(* _build_candidate_pool and _merge: graph hits first, one hit of a key. *)
Pool(graphHits, vectorHits) ==
    FoldLeft(LAMBDA pool, h : IF HitKey(h) \in Carried(pool) THEN pool ELSE Append(pool, h),
             <<>>, graphHits \o vectorHits)

RelevanceOf(h) == Relevance[<<h.chunk, h.search>>]

(* list.sort(reverse=True) is stable. *)
Before(hits, i, j) ==
    \/ RelevanceOf(hits[i]) > RelevanceOf(hits[j])
    \/ RelevanceOf(hits[i]) = RelevanceOf(hits[j]) /\ i < j

ByRelevance(hits) ==
    LET order == CHOOSE o \in [DOMAIN hits -> DOMAIN hits] :
                     \A i, j \in DOMAIN hits : i < j => Before(hits, o[i], o[j])
    IN  [i \in DOMAIN hits |-> hits[order[i]]]

Limit(k, hits) == IF Len(hits) < k THEN Len(hits) ELSE k

(* The cross-encoder scores every hit, or it fails, or the question is blank,
   and the hits keep their order.  rerank's max(1, ...) and its case of a
   single hit change nothing, k and the number of hits being positive. *)
MutantRerank(hits, k, scored) ==
    LET kept == SubSeq(hits, 1, Limit(k, hits))
    IN  IF scored THEN ByRelevance(kept) ELSE kept
Rerank(hits, k, scored) ==
    SubSeq(IF scored THEN ByRelevance(hits) ELSE hits, 1, Limit(k, hits))

(* effective_k and vector_fetch_k of retrieve(). *)
EffectiveK(intent, topK) == IF intent = "analysis" THEN topK * 2 ELSE topK

FetchK(settings, k) ==
    IF settings.reranker THEN k * (IF Oversample > 1 THEN Oversample ELSE 1) ELSE k

Fused(settings) == settings.reranker /\ settings.fusion

(* _finalize. *)
Finalize(settings, graphHits, vectorHits, k, scored) ==
    IF Fused(settings) THEN Rerank(Pool(graphHits, vectorHits), k, scored)
    ELSE Pool(graphHits, IF settings.reranker THEN Rerank(vectorHits, k, scored) ELSE vectorHits)
=============================================================================
