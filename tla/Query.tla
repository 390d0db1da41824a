------------------------------- MODULE Query --------------------------------
(***************************************************************************)
(* One request of POST /v1/query (app/api/query.py), streamed or not, from *)
(* the router's verdict to the last event: the two searches run side by    *)
(* side while documents enter and leave the stores, and the client may go  *)
(* away at any point of a stream.  What the session memory holds is the    *)
(* subject of Conversation; here the exchange is saved or it is not.       *)
(***************************************************************************)
EXTENDS Retrieval

CONSTANTS
    Asks,           \* the requests the client may send
    MaxTokens,      \* bound on the deltas of an answer
    Faulty          \* whether the stores, the LLM and Redis may fail

ASSUME QueryAssumption ==
    /\ \A a \in Asks :
          /\ a.tenant \in Tenant /\ a.named \subseteq Name /\ a.only \subseteq Doc
          /\ a.topK \in Nat \ {0}
          /\ {a.blank, a.stream, a.session} \subseteq BOOLEAN
    /\ MaxTokens \in Nat /\ Faulty \in BOOLEAN

VARIABLES
    settings,   \* reranker_enabled, graph_rerank_fusion, graph_retrieval_enabled
    ask,        \* the request
    step,       \* where its handler is
    intent,     \* mode_used
    found,      \* what each search returned
    scored,     \* whether the cross-encoder could be used
    context,    \* the hits behind retrieval.chunks
    events,     \* the events sent, without their payloads
    answer,     \* the deltas in answer_buf
    saved       \* the deltas of the exchange in the session

request == <<settings, ask>>
output == <<context, events, answer, saved>>
vars == <<stores, request, step, intent, found, scored, output>>

Intents == {"casual", "fact", "analysis"}
Over == {"done", "error", "abandoned"}
Outcome(is, hits) == [is |-> is, hits |-> hits]
Pending == Outcome("pending", <<>>)
Raised == Outcome("raised", <<>>)
Returned(hits) == Outcome("returned", hits)

Init ==
    /\ StoresInit
    /\ settings \in [reranker : BOOLEAN, fusion : BOOLEAN, graph : BOOLEAN]
    /\ ask \in Asks
    /\ step = "idle"
    /\ intent = "fact"
    /\ found = [s \in Search |-> Pending]
    /\ scored = FALSE
    /\ context = <<>> /\ events = <<>>
    /\ answer = 0 /\ saved = 0

Goes(from, to) == step = from /\ step' = to

(* Only a stream has events. *)
Sends(e) == events' = IF ask.stream THEN Append(events, e) ELSE events

K == EffectiveK(intent, ask.topK)

-----------------------------------------------------------------------------
(* "auto" asks the router; a mode that is no intent stands for "fact". *)
Ask ==
    /\ Goes("idle", IF ask.mode = "auto" THEN "classify" ELSE "search")
    /\ intent' = IF ask.mode \in Intents THEN ask.mode ELSE "fact"
    /\ UNCHANGED <<stores, request, found, scored, output>>

(* classify(): any label, and "fact" when the LLM fails or says something else. *)
Classify ==
    /\ Goes("classify", "search")
    /\ intent' \in Intents
    /\ UNCHANGED <<stores, request, found, scored, output>>

(* A reply without content is stripped outside the try, and ends the request
   where the docstring promises "fact". *)
ClassifyFails ==
    /\ Faulty
    /\ Goes("classify", "error")
    /\ Sends("error")
    /\ UNCHANGED <<stores, request, intent, found, scored, context, answer, saved>>

Searching(search) ==
    /\ step = "search"
    /\ intent # "casual"
    /\ found[search] = Pending
    /\ UNCHANGED <<stores, request, step, intent, scored, output>>

SearchVector ==
    /\ Searching("vector")
    /\ \E hits \in VectorAnswers(ask.tenant, ask.only, FetchK(settings, K)) :
          \E outcome \in {Returned(hits)} \union (IF Faulty THEN {Raised} ELSE {}) :
              found' = [found EXCEPT !["vector"] = outcome]

(* A blank question is answered without the driver. *)
SearchGraph ==
    /\ settings.graph
    /\ Searching("graph")
    /\ \E outcome \in
           IF ask.blank THEN {Returned(<<>>)}
           ELSE {Returned(hits) : hits \in GraphAnswers(ask.tenant, ask.named, K)}
                \union (IF Faulty THEN {Raised} ELSE {}) :
           found' = [found EXCEPT !["graph"] = outcome]

(* Every search that was started has returned or raised: asyncio.gather with
   return_exceptions, or the vector search alone. *)
Gathered == found["vector"] # Pending /\ (settings.graph => found["graph"] # Pending)

GraphHits == found["graph"].hits
VectorHits == found["vector"].hits

Cite(hits) ==
    /\ context' = hits
    /\ Sends("citation")
    /\ UNCHANGED <<stores, request, intent, found, answer, saved>>

CiteNothing ==
    /\ intent = "casual"
    /\ Goes("search", "generate")
    /\ Cite(<<>>)
    /\ UNCHANGED scored

MutantMayCite == \A s \in Search : found[s].is # "raised"
MayCite == found["vector"] # Raised

(* A graph search that raised counts as one that found nothing. *)
CiteFound ==
    /\ Gathered /\ MayCite
    /\ Goes("search", "generate")
    /\ scored' \in IF ask.blank THEN {FALSE} ELSE {TRUE} \union {~Faulty}
    /\ Cite(Finalize(settings, GraphHits, VectorHits, K, scored'))

RetrievalFails ==
    /\ Gathered /\ ~MayCite
    /\ Goes("search", "error")
    /\ Sends("error")
    /\ UNCHANGED <<stores, request, intent, found, scored, context, answer, saved>>

(* stream_chat yields one more delta; chat_once brings them all at once. *)
Token ==
    /\ step = "generate"
    /\ answer < MaxTokens
    /\ answer' = IF ask.stream THEN answer + 1 ELSE MaxTokens
    /\ Sends("token")
    /\ UNCHANGED <<stores, request, step, intent, found, scored, context, saved>>

AfterAnswer == IF ask.session THEN "append" ELSE "done"

(* The LLM may end a stream at any point. *)
AnswerEnds ==
    /\ ask.stream \/ answer = MaxTokens
    /\ Goes("generate", AfterAnswer)
    /\ IF AfterAnswer = "done" THEN Sends("done") ELSE UNCHANGED events
    /\ UNCHANGED <<stores, request, intent, found, scored, context, answer, saved>>

MutantAfterFailure == AfterAnswer
AfterFailure == "error"

GenerationFails ==
    /\ Faulty
    /\ Goes("generate", AfterFailure)
    /\ Sends("error")
    /\ UNCHANGED <<stores, request, intent, found, scored, context, answer, saved>>

(* append_turn, whose failure is logged. *)
AppendTurn ==
    /\ Goes("append", "done")
    /\ saved' \in {answer} \union (IF Faulty THEN {saved} ELSE {})
    /\ Sends("done")
    /\ UNCHANGED <<stores, request, intent, found, scored, context, answer>>

(* The generator of a stream whose client is gone is cancelled, at an await or
   a yield; inside append_turn the exchange may have been saved already. *)
Abandon ==
    /\ Faulty /\ ask.stream
    /\ step \notin Over \union {"idle"}
    /\ step' = "abandoned"
    /\ saved' \in {saved} \union (IF step = "append" THEN {answer} ELSE {})
    /\ UNCHANGED <<stores, request, intent, found, scored, context, events, answer>>

QueryNext ==
    \/ Ask \/ Classify \/ ClassifyFails \/ SearchVector \/ SearchGraph
    \/ CiteNothing \/ CiteFound \/ RetrievalFails
    \/ Token \/ AnswerEnds \/ GenerationFails \/ AppendTurn
    \/ Abandon

(* Documents come and go between the searches; before and after them, when
   that has happened makes no difference to the request. *)
Elsewhere ==
    /\ step \in {"idle", "search"}
    /\ StoresNext
    /\ UNCHANGED <<request, step, intent, found, scored, output>>

Rest == step \in Over /\ UNCHANGED vars

Next == QueryNext \/ Elsewhere \/ Rest

Spec == Init /\ [][Next]_vars

-----------------------------------------------------------------------------
Answering == step \in {"generate", "append", "done"}
Cited == ToSet(context)
Hits == ToSet(GraphHits \o VectorHits)

(* Whatever the two stores share between tenants, an entity of the same name
   or a filter the client chose, a question is answered from its tenant's
   documents only (ARCHITECTURE.md:140 and graph.py:17).  The client's filter
   does not reach the graph search, but a hit that escapes it is one of that
   search's: merging never carries the filtered hits' places over to others. *)
ContextIsOwn ==
    \A h \in Cited :
        /\ TenantOfChunk(h.chunk) = ask.tenant
        /\ h.chunk[1] \in ask.only \/ h.search = "graph"

(* With fusion on the context is never longer than the effective limit, and a
   hit that was found and left out is no more relevant than any that was kept,
   or its key was taken by another hit: oversampling and the limit are applied
   on the right sides of the cross-encoder. *)
FusedIsBest ==
    Answering /\ Fused(settings) =>
        /\ Len(context) <= K
        /\ scored =>
               \A out \in Hits \ Cited, kept \in Cited :
                   \/ RelevanceOf(out) <= RelevanceOf(kept)
                   \/ \E h \in Hits \ {out} : HitKey(h) = HitKey(out)

(* A graph search or a cross-encoder that fails costs neither the answer nor
   passages: the context is as long as the vector search alone made it. *)
FailureCostsNothing ==
    /\ Answering /\ intent # "casual" => Len(context) >= Limit(K, VectorHits)
    /\ found["vector"].is = "returned" => events # <<"error">>

(* An exchange reaches the session only whole: all that was generated for it
   was sent, and the stream of the request reports no error. *)
SavedIsWhole ==
    saved > 0 => /\ step \in {"done", "abandoned"}
                 /\ ask.stream => Cardinality({i \in DOMAIN events : events[i] = "token"}) = saved
                 /\ \A i \in DOMAIN events : events[i] # "error"

(* README.md:169, orchestrator.py:5 and ARCHITECTURE.md:461: graph hits come
   first and are deduplicated against the vector hits by document and chunk,
   so that every passage that was kept is in the context once. *)
DedupIsByChunk ==
    Answering /\ intent # "casual" /\ ~Fused(settings) =>
        LET kept == IF settings.reranker THEN Rerank(VectorHits, K, scored) ELSE VectorHits
            passages == {h.chunk : h \in ToSet(GraphHits \o kept)}
        IN  /\ {h.chunk : h \in Cited} = passages
            /\ Len(context) = Cardinality(passages)
=============================================================================
