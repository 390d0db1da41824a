---------------------------- MODULE ApiKeysProofs ----------------------------
(***************************************************************************)
(* The properties of ApiKeys for any commands, names and requests.  The    *)
(* invariant rests on two facts: a tenant and its first key are committed  *)
(* together, so no tenant is ever without a key; and a command that is     *)
(* over commits nothing more, so what a command did not see when it looked *)
(* was done by a command that overlapped it.                               *)
(***************************************************************************)
EXTENDS ApiKeys, TLAPS

(* Before its commit a command has left no trace in the tables. *)
Fresh ==
    \A c \in Command : pc[c] \in {"idle", "look", "lookKey", "commit"} =>
        c \notin keys /\ c \notin tenants

(* A tenant came with the key of the command that created it. *)
OwnKey == \A t \in tenants : t \in keys /\ ownerOf[t] = t
Owned == \A k \in keys : ownerOf[k] \in tenants

Creates(c) == Verb(c) \in {"new", "init"} /\ chosen[c] = c
Serves(c) == Verb(c) \in {"named", "id"} /\ chosen[c] \in tenants
Chosen ==
    \A c \in Command :
        /\ pc[c] = "lookKey" => chosen[c] \in tenants
        /\ pc[c] = "commit" => Creates(c) \/ Serves(c)

Past == \A c \in Command : \A d \in before[c] : pc[d] \in Over

(* What a command that is about to create a tenant has seen. *)
NameToBe(c) == IF Verb(c) = "new" THEN call[c].name ELSE DefaultName
Looked ==
    \A c \in Command : pc[c] = "commit" /\ chosen[c] = c =>
        \A d \in before[c] : d \in tenants => Verb(c) # "init" /\ nameOf[d] # NameToBe(c)

Issued ==
    /\ \A c \in Command : pc[c] \in {"writeEnv", "print"} => c \in keys
    /\ \A k \in Known : k \in keys

RevokedBy(k) ==
    \E c \in Command : Verb(c) = "revoke" /\ call[c].key = k /\ pc[c] \in Over
Lasting == \A k \in keys : k \in active \/ RevokedBy(k)

Arrived ==
    \A r \in Request :
        /\ req[r].pc \in {"arrived", "inside"} => req[r].key \in keys
        /\ req[r].pc = "arrived" /\ req[r].late => req[r].key \notin active

Rows == Fresh /\ OwnKey /\ Owned /\ Chosen
Overlap == Past /\ Looked /\ SameNameOverlapped /\ SeedsOnce
Access == Issued /\ Lasting /\ Arrived /\ RevokedIsOut
IInv == TypeOK /\ Rows /\ Overlap /\ Access

-----------------------------------------------------------------------------
(* The empty tables satisfy the invariant. *)
LEMMA InitHolds == Init => IInv
<1> SUFFICES ASSUME Init PROVE IInv
  OBVIOUS
<1> USE NobodyAssumption, NameAssumption
<1>1. TypeOK
  BY DEF Init, TypeOK, Call, Seed, PC, RequestState, RequestPC, Over
<1>2. Rows
  BY DEF Init, Rows, Fresh, OwnKey, Owned, Chosen
<1>3. Overlap
  BY DEF Init, Overlap, Past, Looked, SameNameOverlapped, SeedsOnce
<1>4. Access
  BY DEF Init, Access, Issued, Known, Lasting, Arrived, RevokedIsOut
<1> QED
  BY <1>1, <1>2, <1>3, <1>4 DEF IInv

(* Steps keep the types; that a command commits for a tenant at all is in Rows. *)
LEMMA TypePreserved == TypeOK /\ Rows /\ [Next]_vars => TypeOK'
<1> SUFFICES ASSUME TypeOK, Rows, [Next]_vars PROVE TypeOK'
  OBVIOUS
<1> USE NobodyAssumption, NameAssumption
<1> USE DEF TypeOK, tables, plain, PC, Over
<1>1. ASSUME NEW c \in Command, Start(c) PROVE TypeOK'
  BY <1>1 DEF Start, Goes
<1>2. ASSUME NEW c \in Command, NewName(c) PROVE TypeOK'
  BY <1>2 DEF NewName, Goes, Chooses
<1>3. ASSUME NEW c \in Command, KnownTenant(c) PROVE TypeOK'
  BY <1>3 DEF KnownTenant, Goes, Chooses
<1>4. ASSUME NEW c \in Command, Refuse(c) \/ Ambiguous(c) PROVE TypeOK'
  BY <1>4 DEF Refuse, Ambiguous, Goes
<1>5. ASSUME NEW c \in Command, SeedNew(c) PROVE TypeOK'
  BY <1>5 DEF SeedNew, Goes, Chooses
<1>6. ASSUME NEW c \in Command, SeedExisting(c) PROVE TypeOK'
  BY <1>6 DEF SeedExisting, Goes, Chooses, Matches
<1>7. ASSUME NEW c \in Command, LookKey(c) PROVE TypeOK'
  BY <1>7 DEF LookKey, Goes, AfterLookKey
<1>8. ASSUME NEW c \in Command, Commit(c) \/ CommitFails(c) PROVE TypeOK'
  <2>1. chosen[c] \in Command
    BY <1>8 DEF Commit, CommitFails, Goes, Rows, Chosen, Creates, Serves
  <2>2. Verb(c) = "new" => call[c].name \in Name
    BY DEF Verb, Call, Seed, NewTenant, ForName, ForId, RevokeKey
  <2> QED
    BY <1>8, <2>1, <2>2 DEF Commit, CommitFails, Inserts, Goes
<1>9. ASSUME NEW c \in Command, WriteEnv(c) \/ ShowKey(c) PROVE TypeOK'
  BY <1>9 DEF WriteEnv, ShowKey, Goes
<1>10. ASSUME NEW c \in Command, Revoke(c) \/ RevokeFails(c) PROVE TypeOK'
  BY <1>10 DEF Revoke, RevokeFails, Revokes, Goes
<1>11. ASSUME NEW c \in Command, Die(c) PROVE TypeOK'
  BY <1>11 DEF Die
<1>12. ASSUME NEW r \in Request, Arrive(r) PROVE TypeOK'
  <2>1. PICK k \in Known, late \in BOOLEAN :
            req' = [req EXCEPT ![r].pc = "arrived", ![r].key = k, ![r].late = late]
    BY <1>12 DEF Arrive
  <2>2. k \in Command
    BY DEF Known
  <2>3. [req[r] EXCEPT !.pc = "arrived", !.key = k, !.late = late] \in RequestState
    <3> DEFINE a == [req[r] EXCEPT !.pc = "arrived"]
               b == [a EXCEPT !.key = k]
    <3>1. a \in RequestState
      BY DEF RequestState, RequestPC
    <3> HIDE DEF a
    <3>2. b \in RequestState
      BY <2>2, <3>1 DEF RequestState
    <3> HIDE DEF b
    <3>3. [b EXCEPT !.late = late] \in RequestState
      BY <3>2 DEF RequestState
    <3> QED BY <3>3 DEF a, b
  <2>4. req' \in [Request -> RequestState]
    BY <2>1, <2>3
  <2> QED
    BY <1>12, <2>4 DEF Arrive
<1>13. ASSUME NEW r \in Request, Authenticate(r) \/ Unauthorized(r) PROVE TypeOK'
  BY <1>13 DEF Authenticate, Unauthorized, Opens, RequestState, RequestPC
<1>14. CASE UNCHANGED vars
  BY <1>14 DEF vars
<1> QED
  BY <1>1, <1>2, <1>3, <1>4, <1>5, <1>6, <1>7, <1>8, <1>9, <1>10, <1>11, <1>12, <1>13, <1>14
     DEF Next, CommandNext, RequestNext, Rest

(* A tenant is committed with a key of its own, by the command it is named for. *)
LEMMA RowsPreserved == TypeOK /\ Rows /\ [Next]_vars => Rows'
<1> SUFFICES ASSUME TypeOK, Rows, [Next]_vars PROVE Rows'
  OBVIOUS
<1> USE NobodyAssumption, NameAssumption
<1> USE DEF TypeOK, Rows, Fresh, OwnKey, Owned, Chosen, Creates, Serves, Verb, tables, plain, Over
<1>1. ASSUME NEW c \in Command, Start(c) PROVE Rows'
  BY <1>1 DEF Start, Goes
<1>2. ASSUME NEW c \in Command, NewName(c) PROVE Rows'
  BY <1>2 DEF NewName, Goes, Chooses
<1>3. ASSUME NEW c \in Command, KnownTenant(c) PROVE Rows'
  BY <1>3 DEF KnownTenant, Goes, Chooses
<1>4. ASSUME NEW c \in Command, Refuse(c) \/ Ambiguous(c) PROVE Rows'
  BY <1>4 DEF Refuse, Ambiguous, Goes
<1>5. ASSUME NEW c \in Command, SeedNew(c) PROVE Rows'
  BY <1>5 DEF SeedNew, Goes, Chooses
<1>6. ASSUME NEW c \in Command, SeedExisting(c) PROVE Rows'
  BY <1>6 DEF SeedExisting, Goes, Chooses, Matches
<1>7. ASSUME NEW c \in Command, LookKey(c) PROVE Rows'
  <2>1. KeysOf(chosen[c]) # {}
    BY <1>7 DEF LookKey, Goes, KeysOf
  <2> QED
    BY <1>7, <2>1 DEF LookKey, Goes, AfterLookKey
<1>8. ASSUME NEW c \in Command, Commit(c) \/ CommitFails(c) PROVE Rows'
  BY <1>8 DEF Commit, CommitFails, Inserts, Goes
<1>9. ASSUME NEW c \in Command, WriteEnv(c) \/ ShowKey(c) PROVE Rows'
  BY <1>9 DEF WriteEnv, ShowKey, Goes
<1>10. ASSUME NEW c \in Command, Revoke(c) \/ RevokeFails(c) PROVE Rows'
  BY <1>10 DEF Revoke, RevokeFails, Revokes, Goes
<1>11. ASSUME NEW c \in Command, Die(c) PROVE Rows'
  BY <1>11 DEF Die
<1>12. ASSUME RequestNext PROVE Rows'
  BY <1>12 DEF RequestNext, Arrive, Authenticate, Unauthorized
<1>13. CASE UNCHANGED vars
  BY <1>13 DEF vars
<1> QED
  BY <1>1, <1>2, <1>3, <1>4, <1>5, <1>6, <1>7, <1>8, <1>9, <1>10, <1>11, <1>12, <1>13
     DEF Next, CommandNext, Rest

(* Nothing becomes visible to a command that it should have seen when it looked. *)
LEMMA OverlapPreserved == TypeOK /\ Rows /\ Overlap /\ [Next]_vars => Overlap'
<1> SUFFICES ASSUME TypeOK, Rows, Overlap, [Next]_vars PROVE Overlap'
  OBVIOUS
<1> USE NobodyAssumption, NameAssumption
<1> USE DEF TypeOK, Overlap, Past, Looked, SameNameOverlapped, SeedsOnce, NameToBe, Verb,
            tables, plain, Over
<1>1. ASSUME NEW c \in Command, Start(c) PROVE Overlap'
  BY <1>1 DEF Start, Goes, Rows, Fresh
<1>2. ASSUME NEW c \in Command, NewName(c) PROVE Overlap'
  BY <1>2 DEF NewName, NameFree, Matches, Goes, Chooses
<1>3. ASSUME NEW c \in Command, KnownTenant(c) PROVE Overlap'
  BY <1>3 DEF KnownTenant, Goes, Chooses, Rows, Fresh
<1>4. ASSUME NEW c \in Command, Refuse(c) \/ Ambiguous(c) PROVE Overlap'
  BY <1>4 DEF Refuse, Ambiguous, Goes
<1>5. ASSUME NEW c \in Command, SeedNew(c) PROVE Overlap'
  BY <1>5 DEF SeedNew, Matches, Goes, Chooses
<1>6. ASSUME NEW c \in Command, SeedExisting(c) PROVE Overlap'
  BY <1>6 DEF SeedExisting, Goes, Chooses
<1>7. ASSUME NEW c \in Command, LookKey(c) PROVE Overlap'
  <2>1. KeysOf(chosen[c]) # {}
    BY <1>7 DEF LookKey, Goes, KeysOf, Rows, Chosen, OwnKey
  <2> QED
    BY <1>7, <2>1 DEF LookKey, Goes, AfterLookKey
<1>8. ASSUME NEW c \in Command, Commit(c) \/ CommitFails(c) PROVE Overlap'
  <2>1. /\ pc[c] = "commit" /\ pc' = [pc EXCEPT ![c] = pc'[c]]
        /\ pc'[c] # "commit"
        /\ UNCHANGED <<call, chosen, before>>
    BY <1>8 DEF Commit, CommitFails, Goes
  <2>2. CASE UNCHANGED tables
    BY <2>1, <2>2
  <2>3. CASE Inserts(c)
    <3>1. Past'
      BY <2>1
    <3>2. c \notin keys /\ c \notin tenants /\ \A d \in Command : c \notin before[d]
      BY <2>1 DEF Rows, Fresh
    <3>3. chosen[c] = c \/ (Verb(c) \in {"named", "id"} /\ chosen[c] \in tenants)
      BY <2>1 DEF Rows, Chosen, Creates, Serves
    <3>4. Looked'
      BY <2>1, <2>3, <3>2, <3>3 DEF Inserts
    <3>5. SameNameOverlapped'
      BY <2>1, <2>3, <3>2, <3>3 DEF Inserts
    <3>6. SeedsOnce'
      BY <2>1, <2>3, <3>2, <3>3 DEF Inserts
    <3> QED
      BY <3>1, <3>4, <3>5, <3>6
  <2> QED
    BY <1>8, <2>2, <2>3 DEF Commit, CommitFails
<1>9. ASSUME NEW c \in Command, WriteEnv(c) \/ ShowKey(c) PROVE Overlap'
  BY <1>9 DEF WriteEnv, ShowKey, Goes
<1>10. ASSUME NEW c \in Command, Revoke(c) \/ RevokeFails(c) PROVE Overlap'
  BY <1>10 DEF Revoke, RevokeFails, Revokes, Goes
<1>11. ASSUME NEW c \in Command, Die(c) PROVE Overlap'
  BY <1>11 DEF Die
<1>12. ASSUME RequestNext PROVE Overlap'
  BY <1>12 DEF RequestNext, Arrive, Authenticate, Unauthorized
<1>13. CASE UNCHANGED vars
  BY <1>13 DEF vars
<1> QED
  BY <1>1, <1>2, <1>3, <1>4, <1>5, <1>6, <1>7, <1>8, <1>9, <1>10, <1>11, <1>12, <1>13
     DEF Next, CommandNext, Rest

(* Keys are known only after their commit, and lost only by a revocation. *)
LEMMA AccessPreserved == TypeOK /\ Rows /\ Access /\ [Next]_vars => Access'
<1> SUFFICES ASSUME TypeOK, Rows, Access, [Next]_vars PROVE Access'
  OBVIOUS
<1> USE NobodyAssumption, NameAssumption
<1> USE DEF TypeOK, RequestState, Access, Issued, Known, Lasting, RevokedBy, Arrived, RevokedIsOut, Verb,
            tables, plain, Over
<1>1. ASSUME NEW c \in Command, Start(c) PROVE Access'
  BY <1>1 DEF Start, Goes
<1>2. ASSUME NEW c \in Command, NewName(c) PROVE Access'
  BY <1>2 DEF NewName, Goes, Chooses
<1>3. ASSUME NEW c \in Command, KnownTenant(c) PROVE Access'
  BY <1>3 DEF KnownTenant, Goes, Chooses
<1>4. ASSUME NEW c \in Command, Refuse(c) \/ Ambiguous(c) PROVE Access'
  BY <1>4 DEF Refuse, Ambiguous, Goes
<1>5. ASSUME NEW c \in Command, SeedNew(c) PROVE Access'
  BY <1>5 DEF SeedNew, Goes, Chooses
<1>6. ASSUME NEW c \in Command, SeedExisting(c) PROVE Access'
  BY <1>6 DEF SeedExisting, Goes, Chooses
<1>7. ASSUME NEW c \in Command, LookKey(c) PROVE Access'
  BY <1>7 DEF LookKey, Goes, AfterLookKey
<1>8. ASSUME NEW c \in Command, Commit(c) \/ CommitFails(c) PROVE Access'
  <2>1. c \notin keys
    BY <1>8 DEF Commit, CommitFails, Goes, Rows, Fresh
  <2> QED
    BY <1>8, <2>1 DEF Commit, CommitFails, Inserts, Goes
<1>9. ASSUME NEW c \in Command, WriteEnv(c) \/ ShowKey(c) PROVE Access'
  BY <1>9 DEF WriteEnv, ShowKey, Goes
<1>10. ASSUME NEW c \in Command, Revoke(c) \/ RevokeFails(c) PROVE Access'
  BY <1>10 DEF Revoke, RevokeFails, Revokes, Goes
<1>11. ASSUME NEW c \in Command, Die(c) PROVE Access'
  BY <1>11 DEF Die
<1>12. ASSUME NEW r \in Request, Arrive(r) PROVE Access'
  BY <1>12 DEF Arrive, RequestState, RequestPC
<1>13. ASSUME NEW r \in Request, Authenticate(r) \/ Unauthorized(r) PROVE Access'
  <2>1. req[r].pc = "arrived" /\ req[r].key \in keys
    BY <1>13 DEF Authenticate, Unauthorized
  <2>2. CASE Authenticate(r)
    <3>1. ~req[r].late /\ ownerOf[req[r].key] \in tenants
      BY <2>1, <2>2 DEF Authenticate, Opens, Rows, Owned
    <3> QED
      BY <2>1, <2>2, <3>1 DEF Authenticate
  <2>3. CASE Unauthorized(r)
    BY <2>1, <2>3 DEF Unauthorized
  <2> QED
    BY <1>13, <2>2, <2>3
<1>14. CASE UNCHANGED vars
  BY <1>14 DEF vars
<1> QED
  BY <1>1, <1>2, <1>3, <1>4, <1>5, <1>6, <1>7, <1>8, <1>9, <1>10, <1>11, <1>12, <1>13, <1>14
     DEF Next, CommandNext, RequestNext, Rest

-----------------------------------------------------------------------------
(* The inductive invariant: what the rows of the two tables owe to each other,
   what commands that overlap may not have seen, and who may know which key. *)
THEOREM KeyInvariance == Spec => []IInv
<1>1. IInv /\ [Next]_vars => IInv'
  BY TypePreserved, RowsPreserved, OverlapPreserved, AccessPreserved DEF IInv
<1> QED
  BY InitHolds, <1>1, PTL DEF Spec

(* Two tenants of one name were created by commands that overlapped. *)
THEOREM SameNameOverlappedHolds == Spec => []SameNameOverlapped
<1>1. IInv => SameNameOverlapped
  BY DEF IInv, Overlap
<1> QED
  BY KeyInvariance, <1>1, PTL

(* init_db issues a key only when there was no tenant as it began. *)
THEOREM SeedsOnceHolds == Spec => []SeedsOnce
<1>1. IInv => SeedsOnce
  BY DEF IInv, Overlap
<1> QED
  BY KeyInvariance, <1>1, PTL

(* A key that was printed or left in .env opens its tenant until a command
   revoked it. *)
THEOREM ShownOpensHolds == Spec => []ShownOpens
<1>1. IInv => ShownOpens
  BY DEF IInv, Access, Rows, Issued, Lasting, RevokedBy, Owned, ShownOpens
<1> QED
  BY KeyInvariance, <1>1, PTL

(* A request is inside only with a key that was active when it came. *)
THEOREM RevokedIsOutHolds == Spec => []RevokedIsOut
<1>1. IInv => RevokedIsOut
  BY DEF IInv, Access
<1> QED
  BY KeyInvariance, <1>1, PTL
=============================================================================
