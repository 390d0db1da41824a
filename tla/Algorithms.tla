----------------------------- MODULE Algorithms -----------------------------
(***************************************************************************)
(* The sequential algorithms of the repository, each run once on an input  *)
(* of a bounded set: a document is cut, replies about its chunks become    *)
(* rows of the graph, a question is scored, an experiment is reported.     *)
(***************************************************************************)
EXTENDS Chunker, Extraction, Evaluation

CONSTANTS
    Documents,      \* [pages, failures, size, overlap]
    Replies,        \* sequences of replies, one for each chunk
    Questions,      \* [asked, expected, trial]
    Experiments     \* [questions, trials]

IsList(s) == s \in Seq(ToSet(s))

ASSUME DocumentsAssumption ==
    \A d \in Documents :
        /\ d.pages \in Seq(Seq(Int)) /\ d.failures \in [DOMAIN d.pages -> Nat]
        /\ d.size \in Nat \ {0} /\ d.overlap \in Nat

ASSUME RepliesAssumption ==
    \A replies \in Replies : \A i \in DOMAIN replies :
        replies[i].is = "object" =>
            IsList(replies[i].entities.items) /\ IsList(replies[i].relations.items)

ASSUME QuestionsAssumption == \A q \in Questions : IsList(q.trial.relevance)

ASSUME ExperimentsAssumption == \A e \in Experiments : IsList(e.questions)

VARIABLES
    task,       \* what runs
    input,      \* on what
    ended,      \* whether it has
    output      \* its result

vars == <<task, input, ended, output>>

Init ==
    /\ \/ task = "cut" /\ input \in Documents
       \/ task = "extract" /\ input \in Replies
       \/ task = "evaluate" /\ input \in Questions
       \/ task = "experiment" /\ input \in Experiments
    /\ ended = FALSE
    /\ output = <<>>

Runs(t, result) ==
    /\ task = t /\ ~ended
    /\ ended' = TRUE
    /\ output' = result
    /\ UNCHANGED <<task, input>>

Cut == Runs("cut", Transcribed(input.pages, input.failures, input.size, input.overlap))
ExtractGraph == Runs("extract", ExtractAll(input))
ScoreQuestion == Runs("evaluate", Evaluate(input.asked, input.expected, input.trial))
RunEval == Runs("experiment", Raw(input.questions, input.trials))

Rest == ended /\ UNCHANGED vars

Next == Cut \/ ExtractGraph \/ ScoreQuestion \/ RunEval \/ Rest

Spec == Init /\ [][Next]_vars

Ended(t) == ended /\ task = t
-----------------------------------------------------------------------------
FirstChunk(p, x) ==
    Min({i \in DOMAIN output.chunks :
            output.chunks[i].page = p /\ x \in ToSet(output.chunks[i].text)})

(* The places of a text that hold neither white space nor a part of a
   separator; whether no two of them hold the same character. *)
Solid(text) == {i \in DOMAIN text : text[i] > 0 /\ \A sep \in ToSet(Separators) : text[i] \notin ToSet(sep)}
Distinct(text) == \A i, j \in Solid(text) : text[i] = text[j] => i = j

(* chunker.py loses no text of a page, whatever is gathered, split further or
   stripped: every character that is neither white space nor part of a
   separator is in a chunk of its page, and the chunks come in the order of the
   text, which shows when its characters can be told apart.  A page OCR cannot
   read fails the document instead of leaving a gap. *)
NothingLost ==
    Ended("cut") =>
        /\ output.read = \A p \in DOMAIN input.pages : input.failures[p] <= 2
        /\ output.read => \A p \in DOMAIN input.pages :
              LET text == input.pages[p]
              IN  /\ \A i \in Solid(text) : \E c \in ToSet(output.chunks) :
                        c.page = p /\ text[i] \in ToSet(c.text)
                  /\ Distinct(text) => \A i, j \in Solid(text) : i < j =>
                        FirstChunk(p, text[i]) <= FirstChunk(p, text[j])

(* What stitching at each of the separators may add to a chunk. *)
AddedBy(sep, overlap) == IF sep = <<>> THEN 0 ELSE overlap + Len(sep)
Added(overlap) == FoldLeft(LAMBDA n, sep : n + AddedBy(sep, overlap), 0, Separators)

(* A chunk may be longer than chunk_size, but each separator adds at most one
   overlap and itself: stitching does not pile up from chunk to chunk. *)
ChunkBounded ==
    Ended("cut") =>
        \A c \in ToSet(output.chunks) : Len(c.text) <= input.size + Added(input.overlap)

(* What the replies would bring into the graph if each were the only one. *)
RowsOfEach == UNION {EntityRows(ExtractAll(<<input[i]>>)) : i \in DOMAIN input}

(* Every row a document sends to Neo4j names entities that the document also
   sends, by name and type, so that the MATCHes of graph_indexer.py skip no
   mention or relation, even when chunks disagree about a type.  A document
   sends all that its replies bring, or nothing; and a call that timed out or
   a reply that is no object takes nothing from the other chunks: it might as
   well have been an empty object. *)
RowsResolve ==
    Ended("extract") =>
        /\ {m[2] : m \in MentionRows(output)} \subseteq EntityRows(output)
        /\ UNION {ToSet(r[2]) : r \in RelationRows(output)} \subseteq EntityRows(output)
        /\ EntityRows(output) \in {{}, RowsOfEach}
        /\ \A i \in DOMAIN input : input[i].is \in {"error", "prose", "list"} =>
              EntityRows(output) = EntityRows(ExtractAll([input EXCEPT ![i] = EmptyObject]))

(* "a flaky LLM does not break the whole ingest pipeline - we lose graph
   density on a chunk, not the doc" (graph_extract.py:7-8): whatever the LLM
   replies about one chunk, the rows of the others are sent. *)
OneChunkLost == Ended("extract") => EntityRows(output) = RowsOfEach

(* The share of relevant ranks among the first k, added up over all of them. *)
ShareUpTo(yes, k) == <<Cardinality(yes \cap 1..k), k>>
SumOfShares(yes) == FoldSet(LAMBDA k, acc : Plus(acc, ShareUpTo(yes, k)), <<0, 1>>, yes)

(* The running sum of context_precision is the mean average precision its
   heading promises: the average, over the ranks of the relevant passages, of
   the share of relevant passages up to that rank. *)
PrecisionIsAverage ==
    Ended("evaluate") /\ output.code = 200 /\ "context_precision" \in DOMAIN output.scores =>
        LET yes == Yes(input.trial.relevance)
            sum == SumOfShares(yes)
            score == output.scores["context_precision"]
        IN  IF yes = {} THEN score \in {None, <<0, 1>>}
            ELSE SameScore(score, <<sum[1], sum[2] * Cardinality(yes)>>)

(* A question whose retrieval, answer or scoring raised moves no mean of
   results.md, overall or by category, and is still listed in both modes. *)
FailuresMoveNoMean ==
    Ended("experiment") =>
        LET questions == input.questions
            ran(mode) == {i \in DOMAIN questions : ~Breaks(MetricName, questions[i].truth, input.trials[mode][i])}
            report == Report(output)
            alone == Report([mode \in Mode |->
                        [i \in ran(mode) |-> RecordOf(questions[i], input.trials[mode][i])]])
        IN  /\ alone.overall = report.overall
            /\ alone.byCategory = report.byCategory
            /\ \A i \in DOMAIN questions, mode \in Mode :
                  \E row \in report.listed[mode] : row.id = questions[i].id
=============================================================================
