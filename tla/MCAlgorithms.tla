---------------------------- MODULE MCAlgorithms ----------------------------
(* Bounded inputs of Algorithms for TLC. *)
EXTENDS Algorithms

(* DEFAULT_SEPARATORS: "\n\n", "\n", ". ", " " and "". *)
Space == 0
Newline == -1
Stop == 1
SeparatorsDef == << <<Newline, Newline>>, <<Newline>>, <<Stop, Space>>, <<Space>>, <<>> >>

(* Pages whose every letter is different, so that it can be followed. *)
Texts(p, n) ==
    {[i \in 1..n |-> IF pattern[i] = 2 THEN 100 * p + i ELSE pattern[i]] :
        pattern \in [1..n -> {2, Stop, Space, Newline}]}
UpTo(p, n) == UNION {Texts(p, i) : i \in 0..n}

DocumentsDef ==
    [pages : {<<t>> : t \in UpTo(1, 7)}, failures : {<<0>>},
     size : {2, 3}, overlap : {0, 1, 3}]
    \union
    [pages : UpTo(1, 3) \X UpTo(2, 2), failures : {0, 2, 3} \X {0, 3},
     size : {2}, overlap : {0, 1}]

(* Replies with at most two entities and one relation ... *)
Entity == {Junk} \union {Named(n, t) : n \in {"", "p", "q"}, t \in {"ORG", "FIRM"}}
Relation == {Junk} \union {Pair(s, t) : s, t \in {"", "p", "q"}}
Lists(S, n) == {Items(l) : l \in BoundedSeq(S, n)}
Object == [is : {"object"}, entities : Lists(Entity, 2) \union {Scalar},
           relations : Lists(Relation, 1) \union {Scalar}]
Flaky == {[is |-> kind] : kind \in {"error", "null", "prose", "list"}}

(* ... and documents of two chunks that may disagree about a type. *)
Typical ==
    Flaky \union
    {[is |-> "object", entities |-> Items(es), relations |-> rs] :
        es \in {<<>>, <<Named("p", "ORG")>>, <<Named("p", "FIRM"), Named("q", "ORG")>>},
        rs \in {Items(<<>>), Items(<<Pair("p", "q")>>), Scalar}}

RepliesDef == {<<r>> : r \in Object \union Flaky} \union (Typical \X Typical)

Fine == [raised |-> "no", passages |-> 2, claims |-> 2, verdicts |-> <<"yes", "no">>,
         generated |-> 2, similarity |-> <<80, -20>>, relevance |-> <<"no", "yes">>,
         wanted |-> 1, recalled |-> <<"yes">>, latency |-> 3]
Poor == [Fine EXCEPT !.passages = 0, !.relevance = <<>>, !.generated = Failed,
                     !.similarity = <<>>, !.latency = 1]
Vague == [Fine EXCEPT !.claims = Failed, !.verdicts = <<>>, !.recalled = <<"error">>]
Mute == {[Fine EXCEPT !.claims = Null], [Fine EXCEPT !.wanted = Null],
         [Fine EXCEPT !.generated = Null], [Poor EXCEPT !.claims = Null]}
Trials == {Fine, Poor, Vague} \union Mute \union {[Fine EXCEPT !.raised = c] : c \in {"retrieve", "generate", "embed"}}

Judged == {[Fine EXCEPT !.relevance = v, !.passages = Len(v)] : v \in BoundedSeq({"yes", "no", "error"}, 4)}

QuestionsDef ==
    [asked : SUBSET MetricName, expected : BOOLEAN, trial : Trials]
    \union [asked : {{}, {"context_precision"}}, expected : {FALSE}, trial : Judged]

Golden == { << [id |-> 1, category |-> "multi-hop", truth |-> TRUE],
               [id |-> 2, category |-> other, truth |-> other # "trap-no-evidence"] >> :
            other \in {"multi-hop", "trap-no-evidence"} }

ExperimentsDef == [questions : Golden, trials : [Mode -> Trials \X Trials]]
=============================================================================
