---------------------------- MODULE Extraction ------------------------------
(***************************************************************************)
(* What becomes of the LLM's replies about the chunks of one document: the *)
(* parser of app/ingest/graph_extract.py, the gathering of the extractions *)
(* in app/ingest/pipeline.py, and the rows app/ingest/graph_indexer.py     *)
(* builds from them and MERGEs, see GraphIndex.                            *)
(*                                                                         *)
(* A reply says what it `is`: "error" when chat_once raised, "null" when   *)
(* the content it returned is null, "prose" when it is no JSON, "list"     *)
(* when it is JSON but no object, or "object".  The value of a key of an   *)
(* object is a list of items, whatever falsy value stands for the empty    *)
(* list, or a scalar, over which Python cannot loop.  Names, types and     *)
(* kinds are what the parser makes of them by str and strip.               *)
(***************************************************************************)
EXTENDS Integers, Sequences, SequencesExt

CONSTANTS ValidTypes    \* _VALID_TYPES

Items(seq) == [is |-> "items", items |-> seq]
Scalar == [is |-> "scalar", items |-> <<>>]
Junk == [is |-> "junk"]                             \* an item that is no object
Named(name, type) == [is |-> "named", name |-> name, type |-> type]
Pair(source, target) == [is |-> "pair", source |-> source, target |-> target]

EmptyObject == [is |-> "object", entities |-> Items(<<>>), relations |-> Items(<<>>)]

Nothing == [entities |-> <<>>, relations |-> <<>>]

NormalType(type) == IF type \in ValidTypes THEN type ELSE "OTHER"
NamesOf(entities) == {entities[i].name : i \in DOMAIN entities}

(* The first loop of _parse: a name is kept once, with its first type. *)
Keep(entities, item) ==
    IF item.is = "junk" \/ item.name \in NamesOf(entities) \union {""} THEN entities
    ELSE Append(entities, [name |-> item.name, type |-> NormalType(item.type)])

(* The second loop: both ends of a relation are among the entities. *)
Linked(entities, item) ==
    item.is = "pair" /\ {item.source, item.target} \subseteq NamesOf(entities) \ {""}

Link(entities, relations, item) ==
    IF Linked(entities, item) THEN Append(relations, item) ELSE relations

EntitiesIn(items) == FoldLeft(Keep, <<>>, items)
RelationsIn(items, entities) ==
    FoldLeft(LAMBDA relations, item : Link(entities, relations, item), <<>>, items)

ParseObject(reply) ==
    LET entities == EntitiesIn(reply.entities.items)
    IN  [entities |-> entities, relations |-> RelationsIn(reply.relations.items, entities)]

(* extract_entities_and_relations, which catches what chat_once raises and
   what json.loads raises, but neither the AttributeError of raw.strip() when
   raw is None nor the TypeError of a loop over a scalar. *)
Raises(reply) ==
    \/ reply.is = "null"
    \/ reply.is = "object" /\ Scalar \in {reply.entities, reply.relations}
Extract(reply) == IF reply.is = "object" THEN ParseObject(reply) ELSE Nothing

(***************************************************************************)
(* _extract_all and its caller: asyncio.gather raises as soon as one of    *)
(* the extractions does, and the document goes on without any of them.     *)
(***************************************************************************)
GatherRaises(replies) == \E i \in DOMAIN replies : Raises(replies[i])

ExtractAll(replies) ==
    IF GatherRaises(replies) THEN [i \in DOMAIN replies |-> Nothing]
                             ELSE [i \in DOMAIN replies |-> Extract(replies[i])]

(***************************************************************************)
(* upsert_chunks_with_graph: entity_rows are keyed by name and type (the   *)
(* tenant is the same all over a document); the types of a relation's ends *)
(* are looked up among the entities of its own chunk.                      *)
(***************************************************************************)
EntityRows(extractions) ==
    UNION {{<<e.name, e.type>> : e \in ToSet(extractions[i].entities)} : i \in DOMAIN extractions}

MentionRows(extractions) ==
    UNION {{<<i, <<e.name, e.type>>>> : e \in ToSet(extractions[i].entities)} :
              i \in DOMAIN extractions}

(* dict(names_in_chunk): the last entity of a name would win. *)
MutantTypeIn(extraction, name) == "OTHER"
TypeIn(extraction, name) ==
    extraction.entities[SelectLastInSeq(extraction.entities, LAMBDA e : e.name = name)].type

Ends(extraction, r) ==
    <<<<r.source, TypeIn(extraction, r.source)>>, <<r.target, TypeIn(extraction, r.target)>>>>

RelationRows(extractions) ==
    UNION {{<<i, Ends(extractions[i], r)>> : r \in ToSet(extractions[i].relations)} :
              i \in DOMAIN extractions}
=============================================================================
