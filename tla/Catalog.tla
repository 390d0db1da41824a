------------------------------ MODULE Catalog -------------------------------
(***************************************************************************)
(* What the service promises about a tenant's documents, one content at a  *)
(* time: each content is in the catalogue at most once, enters it pending, *)
(* moves along Moves, and leaves it only by being removed.  Where the      *)
(* broker delivers the work on a content again its status may start over,  *)
(* but nothing else may.  All the stores, processes and messages that make *)
(* this happen are absent here.                                            *)
(***************************************************************************)
CONSTANTS
    Key,        \* contents, per tenant
    Moves       \* pairs of statuses a document may go through in one step

VARIABLES
    entry,      \* the status of each content, or "absent"
    again       \* the contents whose work was delivered again

catalogVars == <<entry, again>>

CatalogTypeOK ==
    /\ entry \in [Key -> {"absent", "pending", "running", "completed", "failed"}]
    /\ again \subseteq Key

Init ==
    /\ entry = [k \in Key |-> "absent"]
    /\ again = {}

(* One request admits all its new contents at once. *)
Admit(S) ==
    /\ \A k \in S : entry[k] = "absent"
    /\ entry' = [k \in Key |-> IF k \in S THEN "pending" ELSE entry[k]]
    /\ again' = again

Move(k, s) ==
    /\ <<entry[k], s>> \in Moves \/ k \in again
    /\ entry' = [entry EXCEPT ![k] = s]
    /\ again' = again

Repeat(k) ==
    /\ entry[k] # "absent"
    /\ again' = again \union {k}
    /\ entry' = entry

Remove(k) ==
    /\ entry[k] # "absent"
    /\ entry' = [entry EXCEPT ![k] = "absent"]
    /\ again' = again \ {k}

Next ==
    \/ \E S \in SUBSET Key : Admit(S)
    \/ \E k \in Key : Repeat(k) \/ Remove(k)
    \/ \E k \in Key, s \in {"running", "completed", "failed"} : Move(k, s)

Spec == Init /\ [][Next]_catalogVars
=============================================================================
