---------------------------- MODULE MCLifecycle -----------------------------
(* Small instances of Lifecycle for TLC. *)
EXTENDS Lifecycle, TLC

CONSTANTS a, b, r1, r2

Symmetry ==
    Permutations(Doc) \union Permutations(Worker) \union Permutations(Deletion)

(* One request uploads a file; another one has too many, and is refused. *)
OneFile == (r1 :> <<a>>) @@ (r2 :> <<a, a, a, a>>)

(* Two requests upload the same contents in opposite orders, so that each can
   wait for the other's key; one has a file of a kind that is not accepted,
   the other a content twice. *)
Crossed == (r1 :> <<a, BadFile, b>>) @@ (r2 :> <<b, a, b>>)
=============================================================================
