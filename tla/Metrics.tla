------------------------------ MODULE Metrics -------------------------------
(***************************************************************************)
(* The scores of app/evaluate/metrics.py, from the verdicts of the judging *)
(* LLM.  A verdict is "yes", "no" (any other word) or "error" when the LLM *)
(* raised; a decomposition is the number of claims the LLM listed, Failed, *)
(* or Null when the content of the reply was null, on which raw.strip()    *)
(* raises.  A score is a fraction <<numerator, denominator>> or None.      *)
(***************************************************************************)
EXTENDS Integers, Sequences, FiniteSets, SequencesExt

None == <<0, 0>>
Failed == -1
Null == -2

IsScore(s) == s[2] > 0
SameScore(s, t) == s[1] * t[2] = t[1] * s[2]
Plus(s, t) == <<s[1] * t[2] + t[1] * s[2], s[2] * t[2]>>

Yes(verdicts) == {i \in DOMAIN verdicts : verdicts[i] = "yes"}

(* faithfulness: the share of the claims of the answer that the passages
   support. *)
Support(passages, claims, verdicts) ==
    IF passages = 0 \/ claims \in {0, Failed} THEN None
    ELSE <<Cardinality(Yes(verdicts)), claims>>

(* context_recall: the same of the expected answer, when there is one that is
   not blank. *)
Recall(expected, passages, claims, verdicts) ==
    IF expected THEN Support(passages, claims, verdicts) ELSE None

(* answer_relevancy: the mean similarity, in hundredths, of the question with
   the questions the LLM made of the answer. *)
Relevancy(generated, similarity) ==
    IF generated \in {0, Failed} THEN None
    ELSE <<FoldLeft(+, 0, similarity), 100 * generated>>

(* context_precision: the precision at the rank of each relevant passage. *)
MutantPrecisionAt(seen, k) == <<seen, k + 1>>
PrecisionAt(seen, k) == <<seen, k>>

Judge(acc, k, verdicts) ==
    IF verdicts[k] = "yes"
    THEN [seen |-> acc.seen + 1, sum |-> Plus(acc.sum, PrecisionAt(acc.seen + 1, k))]
    ELSE acc

AllJudged(verdicts) ==
    FoldLeftDomain(LAMBDA acc, k : Judge(acc, k, verdicts), [seen |-> 0, sum |-> <<0, 1>>], verdicts)

ContextPrecision(verdicts) ==
    LET end == AllJudged(verdicts)
    IN  CASE verdicts = <<>> -> None
          [] verdicts # <<>> /\ end.seen = 0 -> <<0, 1>>
          [] OTHER -> <<end.sum[1], end.sum[2] * end.seen>>
=============================================================================
