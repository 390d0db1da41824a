------------------------------ MODULE MCGraph -------------------------------
(* Small instances of OrphanCleanup, hence of GraphIndex, for TLC. *)
EXTENDS OrphanCleanup, TLC

CONSTANTS x1, x2, d1, d2, c1, c2, p, q, t1, t2

OneTenant == [d \in Doc |-> t1]
TwoTenants == (d1 :> t1) @@ (d2 :> t2)
OneOrTwoTenants == {OneTenant, TwoTenants}
OneTenantOnly == {OneTenant}

(* Two executions of two documents, each with one chunk ... *)
TwoDocuments == (x1 :> d1) @@ (x2 :> d2)
ChunkEach == (x1 :> {c1}) @@ (x2 :> {c2})

(* ... from which the same entity was extracted, and from c1 a second one. *)
Names == (c1 :> {p, q}) @@ (c2 :> {p})
Pairs == (c1 :> {<<p, q>>}) @@ (c2 :> {})
=============================================================================
