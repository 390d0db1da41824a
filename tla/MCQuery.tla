------------------------------ MODULE MCQuery -------------------------------
(* A small instance of Query, hence of Retrieval, for TLC. *)
EXTENDS Query, TLC

CONSTANTS a, b, x, p, q, t1, t2

(* Two documents of one tenant, one of them with two chunks, and one of
   another tenant that has an entity of the same name. *)
Owners == (a :> t1) @@ (b :> t1) @@ (x :> t2)
Counts == (a :> 2) @@ (b :> 1) @@ (x :> 1)

(* The entities p and q are related in b; a question that names p reaches the
   chunk of a that mentions q through b alone. *)
Names == (<<a, 0>> :> {q}) @@ (<<a, 1>> :> {p}) @@ (<<b, 0>> :> {p, q}) @@ (<<x, 0>> :> {p})
Pairs == [c \in Chunk |-> IF c = <<b, 0>> THEN {<<p, q>>} ELSE {}]

(* The graph holds the first 500 characters of a chunk: of <<a, 0>> these are
   worth less than the whole, and <<b, 0>> is as relevant as <<a, 1>>. *)
Scores ==
    [h \in Chunk \X Search |->
        CASE h = <<<<a, 0>>, "vector">> -> 3
          [] h = <<<<a, 0>>, "graph">> -> 1
          [] h[1] = <<x, 0>> -> 4
          [] OTHER -> 2]

(* Questions of either tenant, in every mode, that name an entity or none; a
   blank one; and one whose filter another tenant's document passes. *)
Question ==
    [mode : {"auto", "analysis", "graph"}, tenant : {t1}, named : {{p}, {p, q}},
     only : {Doc}, topK : {1, 2}, blank : {FALSE}, stream : {TRUE}, session : {TRUE}]
    \union
    [mode : {"auto"}, tenant : {t2}, named : {{}, {p}},
     only : {Doc}, topK : {1}, blank : {FALSE}, stream : {FALSE}, session : BOOLEAN]
    \union
    [mode : {"fact", "casual"}, tenant : {t1}, named : {{}, {p}},
     only : {{a, x}}, topK : {1}, blank : {FALSE}, stream : BOOLEAN, session : {FALSE}]
    \union
    [mode : {"fact"}, tenant : {t1}, named : {{}},
     only : {Doc}, topK : {1}, blank : {TRUE}, stream : {FALSE}, session : {TRUE}]
=============================================================================
