------------------------------- MODULE ApiKeys -------------------------------
(***************************************************************************)
(* Tenants and API keys: scripts/init_db.py, which seeds the first of each, *)
(* scripts/create_api_key.py, which issues and revokes keys, and           *)
(* app/core/auth.py, which finds the tenant of a request by its key.       *)
(*                                                                         *)
(* Administrators run commands whenever they like; a command reads, commits *)
(* one transaction and then shows the plain key, of which the database only *)
(* keeps a hash.  Two keys never have the same hash.  A command creates at *)
(* most one tenant and one key, so it is also the identity of both.        *)
(***************************************************************************)
EXTENDS Integers, FiniteSets

CONSTANTS
    Command,        \* runs of the two scripts
    Name,           \* tenant names
    DefaultName,    \* DEFAULT_TENANT_NAME of init_db.py
    Request,        \* requests to the API
    Faulty          \* whether a command may fail or be killed

Nobody == "nobody"

ASSUME NobodyAssumption == Nobody \notin Command
ASSUME NameAssumption == DefaultName \in Name
ASSUME FaultyAssumption == Faulty \in BOOLEAN

VARIABLES
    tenants,    \* rows of `tenants`
    nameOf,     \* tenants.name
    keys,       \* rows of `api_keys`
    ownerOf,    \* api_keys.tenant_id
    active,     \* keys with is_active
    pc,         \* where each command is
    call,       \* its arguments
    chosen,     \* its variable `tenant`
    shown,      \* keys that were printed
    env,        \* the key in .env
    before,     \* the commands that were over when it began
    req         \* state of each request

tables == <<tenants, nameOf, keys, ownerOf, active>>
plain == <<shown, env>>
vars == <<tables, pc, call, chosen, plain, before, req>>

(* init_db; issue --new-tenant, --tenant and --tenant-id; revoke. *)
Seed == [verb : {"init"}]
NewTenant == [verb : {"new"}, name : Name]
ForName == [verb : {"named"}, name : Name]
ForId == [verb : {"id"}, tenant : Command]
RevokeKey == [verb : {"revoke"}, key : Command]
Call == Seed \union NewTenant \union ForName \union ForId \union RevokeKey

Over == {"done", "refused", "raised", "killed"}
PC == {"idle", "look", "lookKey", "commit", "writeEnv", "print"} \union Over
RequestPC == {"idle", "arrived", "inside", "unauthorized"}
RequestState == [pc : RequestPC, key : Command \union {Nobody}, late : BOOLEAN,
                 tenant : Command \union {Nobody}]

TypeOK ==
    /\ tenants \subseteq Command
    /\ nameOf \in [Command -> Name]
    /\ keys \subseteq Command
    /\ ownerOf \in [Command -> Command \union {Nobody}]
    /\ active \subseteq keys
    /\ pc \in [Command -> PC]
    /\ call \in [Command -> Call]
    /\ chosen \in [Command -> Command \union {Nobody}]
    /\ shown \subseteq Command
    /\ env \in Command \union {Nobody}
    /\ before \in [Command -> SUBSET Command]
    /\ req \in [Request -> RequestState]

Init ==
    /\ tenants = {} /\ keys = {} /\ active = {}
    /\ nameOf = [c \in Command |-> DefaultName]
    /\ ownerOf = [c \in Command |-> Nobody]
    /\ pc = [c \in Command |-> "idle"]
    /\ call = [c \in Command |-> [verb |-> "init"]]
    /\ chosen = [c \in Command |-> Nobody]
    /\ shown = {} /\ env = Nobody
    /\ before = [c \in Command |-> {}]
    /\ req = [r \in Request |->
                 [pc |-> "idle", key |-> Nobody, late |-> FALSE, tenant |-> Nobody]]

Verb(c) == call[c].verb
Goes(c, from, to) == pc[c] = from /\ pc' = [pc EXCEPT ![c] = to]

-----------------------------------------------------------------------------
Start(c) ==
    /\ Goes(c, "idle", "look")
    /\ \E a \in Call : call' = [call EXCEPT ![c] = a]
    /\ before' = [before EXCEPT ![c] = {d \in Command : pc[d] \in Over}]
    /\ UNCHANGED <<tables, chosen, plain, req>>

Chooses(c, t) ==
    /\ chosen' = [chosen EXCEPT ![c] = t]
    /\ UNCHANGED <<tables, call, plain, before, req>>

(* The rows the first SELECT of a command is about. *)
Matches(c) ==
    {x \in Command :
        \/ Verb(c) = "init" /\ x \in tenants
        \/ Verb(c) \in {"new", "named"} /\ x \in tenants /\ nameOf[x] = call[c].name
        \/ Verb(c) = "id" /\ x \in tenants /\ x = call[c].tenant
        \/ Verb(c) = "revoke" /\ x \in keys /\ x = call[c].key}

(* --new-tenant: nobody has the name, as far as this SELECT can see. *)
MutantNameFree(c) == TRUE
NameFree(c) == Matches(c) = {}

NewName(c) ==
    /\ Verb(c) = "new"
    /\ NameFree(c)
    /\ Goes(c, "look", "commit")
    /\ Chooses(c, c)

(* --tenant and --tenant-id: the one tenant that fits. *)
KnownTenant(c) ==
    /\ Verb(c) \in {"named", "id"}
    /\ Goes(c, "look", "commit")
    /\ \E t \in tenants : Matches(c) = {t} /\ Chooses(c, t)

(* Exit code 2: the name is taken, the tenant or the key is not there. *)
Refuse(c) ==
    /\ \/ Verb(c) = "new" /\ Cardinality(Matches(c)) = 1
       \/ Verb(c) \in {"named", "id", "revoke"} /\ Matches(c) = {}
    /\ Goes(c, "look", "refused")
    /\ UNCHANGED <<tables, call, chosen, plain, before, req>>

(* scalar_one_or_none raises when it finds two. *)
Ambiguous(c) ==
    /\ Verb(c) \in {"new", "named"}
    /\ Cardinality(Matches(c)) > 1
    /\ Goes(c, "look", "raised")
    /\ UNCHANGED <<tables, call, chosen, plain, before, req>>

(* seed_tenant_and_key: LIMIT 1 without an ORDER BY is any tenant. *)
SeedNew(c) ==
    /\ Verb(c) = "init"
    /\ Matches(c) = {}
    /\ Goes(c, "look", "commit")
    /\ Chooses(c, c)

SeedExisting(c) ==
    /\ Verb(c) = "init"
    /\ Goes(c, "look", "lookKey")
    /\ \E t \in Matches(c) : Chooses(c, t)

KeysOf(t) == {k \in keys : ownerOf[k] = t}

MutantAfterLookKey(c) == IF env \in KeysOf(chosen[c]) THEN "done" ELSE "commit"
AfterLookKey(c) == IF KeysOf(chosen[c]) = {} THEN "commit" ELSE "done"

LookKey(c) ==
    /\ Goes(c, "lookKey", AfterLookKey(c))
    /\ UNCHANGED <<tables, call, chosen, plain, before, req>>

(* One transaction: the tenant, when it is new, and its key. *)
Inserts(c) ==
    /\ tenants' = tenants \union {chosen[c]}
    /\ nameOf' = [nameOf EXCEPT ![c] = IF Verb(c) = "new" THEN call[c].name ELSE DefaultName]
    /\ keys' = keys \union {c}
    /\ ownerOf' = [ownerOf EXCEPT ![c] = chosen[c]]
    /\ active' = active \union {c}

Commit(c) ==
    /\ Goes(c, "commit", IF Verb(c) = "init" THEN "writeEnv" ELSE "print")
    /\ Inserts(c)
    /\ UNCHANGED <<call, chosen, plain, before, req>>

MutantCommitFails(c) ==
    /\ Faulty
    /\ Goes(c, "commit", "print")
    /\ Inserts(c) \/ UNCHANGED tables
    /\ UNCHANGED <<call, chosen, plain, before, req>>

(* COMMIT raises: nothing was committed, or only the answer was lost. *)
CommitFails(c) ==
    /\ Faulty
    /\ Goes(c, "commit", "raised")
    /\ Inserts(c) \/ UNCHANGED tables
    /\ UNCHANGED <<call, chosen, plain, before, req>>

WriteEnv(c) ==
    /\ Goes(c, "writeEnv", "print")
    /\ env' = c
    /\ UNCHANGED <<tables, call, chosen, shown, before, req>>

ShowKey(c) ==
    /\ Goes(c, "print", "done")
    /\ shown' = shown \union {c}
    /\ UNCHANGED <<tables, call, chosen, env, before, req>>

Revokes(c) == active' = active \ {call[c].key} /\ UNCHANGED <<tenants, nameOf, keys, ownerOf>>

Revoke(c) ==
    /\ Verb(c) = "revoke"
    /\ Matches(c) # {}
    /\ Goes(c, "look", "done")
    /\ Revokes(c)
    /\ UNCHANGED <<call, chosen, plain, before, req>>

RevokeFails(c) ==
    /\ Faulty
    /\ Verb(c) = "revoke"
    /\ Goes(c, "look", "raised")
    /\ Revokes(c) \/ UNCHANGED tables
    /\ UNCHANGED <<call, chosen, plain, before, req>>

(* The command is killed, or .env cannot be written: write_text empties the
   file before it writes. *)
Die(c) ==
    /\ Faulty
    /\ pc[c] \notin Over \union {"idle"}
    /\ pc' = [pc EXCEPT ![c] = "killed"]
    /\ env' \in {env} \union (IF pc[c] = "writeEnv" THEN {Nobody, c} ELSE {})
    /\ UNCHANGED <<tables, call, chosen, shown, before, req>>

CommandNext ==
    \E c \in Command :
        \/ Start(c) \/ NewName(c) \/ KnownTenant(c) \/ Refuse(c) \/ Ambiguous(c)
        \/ SeedNew(c) \/ SeedExisting(c) \/ LookKey(c)
        \/ Commit(c) \/ CommitFails(c) \/ WriteEnv(c) \/ ShowKey(c)
        \/ Revoke(c) \/ RevokeFails(c) \/ Die(c)

-----------------------------------------------------------------------------
(* A client knows the keys that were printed and the one in .env.  `late`: the
   key was revoked before the request came. *)
Known == shown \union ({env} \ {Nobody})

Arrive(r) ==
    /\ req[r].pc = "idle"
    /\ \E k \in Known : req' = [req EXCEPT ![r].pc = "arrived", ![r].key = k,
                                           ![r].late = k \notin active]
    /\ UNCHANGED <<tables, pc, call, chosen, plain, before>>

MutantOpens(k) == k \in keys
Opens(k) == k \in keys /\ k \in active

(* current_tenant: authenticate looks the hash up, or the answer is 401. *)
Authenticate(r) ==
    /\ req[r].pc = "arrived"
    /\ Opens(req[r].key)
    /\ req' = [req EXCEPT ![r].pc = "inside", ![r].tenant = ownerOf[req[r].key]]
    /\ UNCHANGED <<tables, pc, call, chosen, plain, before>>

Unauthorized(r) ==
    /\ req[r].pc = "arrived"
    /\ ~Opens(req[r].key)
    /\ req' = [req EXCEPT ![r].pc = "unauthorized"]
    /\ UNCHANGED <<tables, pc, call, chosen, plain, before>>

RequestNext == \E r \in Request : Arrive(r) \/ Authenticate(r) \/ Unauthorized(r)

Rest == (\A c \in Command : pc[c] \in Over) /\ UNCHANGED vars

Next == CommandNext \/ RequestNext \/ Rest

Spec == Init /\ [][Next]_vars

-----------------------------------------------------------------------------
(* Nothing in the schema keeps two tenants from having one name, and a name is
   looked up before it is inserted; yet two tenants have the same name only
   when their commands overlapped, init_db with create_api_key included. *)
SameNameOverlapped ==
    \A c, d \in tenants : c # d /\ nameOf[c] = nameOf[d] => c \notin before[d]

(* init_db.py:3: running it again issues no key, whatever became of the key of
   the first run: it does so only when no tenant was there as it began. *)
SeedsOnce ==
    \A c \in keys : Verb(c) = "init" => before[c] \intersect tenants = {}

(* A plain key that a command printed, or left in .env, opens its tenant until
   somebody revokes it, wherever a command failed or was killed. *)
ShownOpens ==
    \A k \in Known :
        /\ k \in keys /\ ownerOf[k] \in tenants
        /\ \/ k \in active
           \/ \E c \in Command : Verb(c) = "revoke" /\ call[c].key = k /\ pc[c] \in Over

(* create_api_key.py:21: a request that comes after its key was revoked is
   refused, and one that was let in works for the tenant of its key. *)
RevokedIsOut ==
    \A r \in Request : req[r].pc = "inside" =>
        ~req[r].late /\ req[r].tenant = ownerOf[req[r].key] /\ req[r].tenant \in tenants
=============================================================================
