----------------------------- MODULE Evaluation -----------------------------
(***************************************************************************)
(* Scoring a question: POST /v1/evaluate (app/api/evaluate.py) and the     *)
(* experiment of eval/run_eval.py, which asks every question of the golden *)
(* file once with and once without the graph and reports the means.        *)
(*                                                                         *)
(* What the services did for a question is a trial: which call `raised`    *)
(* without being caught, the number of passages retrieved, what the LLM    *)
(* made of them (see Metrics), and the seconds until the answer.           *)
(***************************************************************************)
EXTENDS Metrics

MetricName == {"faithfulness", "answer_relevancy", "context_precision", "context_recall"}
ReferenceFree == MetricName \ {"context_recall"}
Mode == {"graph+vector", "vector-only"}
Category == {"single-fact", "multi-hop", "trap-no-evidence"}

(* The score of one metric; `expected` says whether there is an expected
   answer that is not blank. *)
ScoreOf(name, expected, trial) ==
    CASE name = "faithfulness" -> Support(trial.passages, trial.claims, trial.verdicts)
      [] name = "answer_relevancy" -> Relevancy(trial.generated, trial.similarity)
      [] name = "context_precision" -> ContextPrecision(trial.relevance)
      [] name = "context_recall" ->
            Recall(expected, trial.passages, trial.wanted, trial.recalled)

(***************************************************************************)
(* POST /v1/evaluate.                                                      *)
(***************************************************************************)
ResolveMetrics(asked, expected) ==
    IF asked # {} THEN asked
    ELSE ReferenceFree \union IF expected THEN {"context_recall"} ELSE {}

(* Retrieval, the answer or the embedding of answer_relevancy may raise, and
   so does a metric to which the LLM replies null. *)
Breaks(asked, expected, trial) ==
    \/ trial.raised \in {"retrieve", "generate"}
    \/ /\ "answer_relevancy" \in asked
       /\ trial.generated = Null \/ (trial.raised = "embed" /\ trial.generated > 0)
    \/ /\ trial.passages > 0
       /\ \/ "faithfulness" \in asked /\ trial.claims = Null
          \/ "context_recall" \in asked /\ expected /\ trial.wanted = Null

Evaluate(asked, expected, trial) ==
    LET chosen == ResolveMetrics(asked, expected)
    IN  IF Breaks(chosen, expected, trial) THEN [code |-> 500]
        ELSE [code |-> 200,
              scores |-> [name \in chosen |-> ScoreOf(name, expected, trial)]]

(***************************************************************************)
(* The experiment.  A question has an id, a category and a ground truth or *)
(* none; trials[mode][i] is what happened to the i-th question.            *)
(***************************************************************************)
MutantNoScores == [name \in MetricName |-> <<0, 1>>]
NoScores == [name \in MetricName |-> None]

(* run_one, and what main records when it raises. *)
RecordOf(question, trial) ==
    LET result == Evaluate(MetricName, question.truth, trial)
    IN  [id |-> question.id, category |-> question.category,
         scores |-> IF result.code = 500 THEN NoScores ELSE result.scores,
         latency |-> IF result.code = 500 THEN 0 ELSE trial.latency]

Raw(questions, trials) ==
    [mode \in Mode |->
        [i \in DOMAIN questions |-> RecordOf(questions[i], trials[mode][i])]]

(* _safe_mean: the sum and the number of the scores that are not None.  Rows
   are numbered by their questions. *)
Defined(rows, name) ==
    [i \in {i \in DOMAIN rows : IsScore(rows[i].scores[name])} |-> rows[i].scores[name]]

Mean(scores) ==
    LET sum == FoldFunction(Plus, <<0, 1>>, scores)
    IN  IF DOMAIN scores = {} THEN None
        ELSE <<sum[1], sum[2] * Cardinality(DOMAIN scores)>>

SafeMean(rows, name) == Mean(Defined(rows, name))

Means(rows) == [name \in MetricName |-> SafeMean(rows, name)]

MeanLatency(rows) ==
    IF DOMAIN rows = {} THEN None
    ELSE <<FoldFunction(LAMBDA r, acc : acc + r.latency, 0, rows), Cardinality(DOMAIN rows)>>

InCategory(rows, cat) == Restrict(rows, {i \in DOMAIN rows : rows[i].category = cat})

(* by_id: of two questions with one id, the later one stays. *)
Listed(rows) ==
    {[id |-> rows[i].id, scores |-> rows[i].scores] :
        i \in {i \in DOMAIN rows : \A j \in DOMAIN rows : rows[j].id = rows[i].id => j <= i}}

(* build_results_md: the rows of its tables. *)
Report(raw) ==
    [overall |-> [mode \in Mode |-> Means(raw[mode])],
     latency |-> [mode \in Mode |-> MeanLatency(raw[mode])],
     byCategory |-> [cat \in Category |-> [mode \in Mode |-> Means(InCategory(raw[mode], cat))]],
     listed |-> [mode \in Mode |-> Listed(raw[mode])]]
=============================================================================
